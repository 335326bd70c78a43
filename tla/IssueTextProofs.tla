-------------------------- MODULE IssueTextProofs ---------------------------
(***************************************************************************)
(* What the operators of Issues, IssueText and IssueDlg return, for all    *)
(* lists and texts.                                                        *)
(***************************************************************************)
EXTENDS IssueText, IssueDlg, Induction

(***************************************************************************)
(* Texts are made of tokens, and the separators are tokens.                *)
(***************************************************************************)
LEMMA TextFacts ==
  /\ <<>> \in Text /\ <<",">> \in Text
  /\ \A t \in Text : Append(t, ",") \in Text /\ Append(t, "|") \in Text
  /\ \A t, u \in Text : t \o u \in Text
  /\ Active \in Text /\ Resolved \in Text /\ Deleted \in Text
  /\ EditStatus \subseteq Text
<1>1. /\ "," \in Token /\ "|" \in Token /\ "active" \in Token /\ "resolved" \in Token
      /\ "deleted" \in Token /\ "closed" \in Token
  BY WordAssumption DEF Token
<1>2. <<>> \in Text BY DEF Text
<1>3. \A x \in Token : <<x>> \in Text BY DEF Text
<1>4. \A x \in Token : \A t \in Text : Append(t, x) \in Text BY DEF Text
<1>5. \A t, u \in Text : t \o u \in Text BY DEF Text
<1>6. \A t \in Text : Append(t, ",") \in Text /\ Append(t, "|") \in Text
  BY <1>1, <1>4, Zenon
<1>7. /\ <<",">> \in Text /\ <<"active">> \in Text /\ <<"resolved">> \in Text
      /\ <<"deleted">> \in Text /\ <<"closed">> \in Text
  BY <1>1, <1>3, Zenon
<1> QED BY <1>2, <1>5, <1>6, <1>7, Zenon DEF Active, Resolved, Deleted, EditStatus

(***************************************************************************)
(* How split goes along a text: the pieces it has found before each token, *)
(* and the piece it is in.                                                 *)
(***************************************************************************)
Scanned == [pieces: Seq(Text), line: Text]

ScanStep(before, token, sep) ==
  IF token = sep
  THEN [pieces |-> Append(before.pieces, before.line), line |-> <<>>]
  ELSE [pieces |-> before.pieces, line |-> Append(before.line, token)]

IsScan(scan, text, sep) ==
  /\ scan \in [0..Len(text) -> Scanned]
  /\ scan[0] = [pieces |-> <<>>, line |-> <<>>]
  /\ \A i \in 1..Len(text) : scan[i] = ScanStep(scan[i-1], text[i], sep)

Pieces(end) == IF end.line = <<>> THEN end.pieces ELSE Append(end.pieces, end.line)

(***************************************************************************)
(* split returns what it has found at the end of the text.                 *)
(***************************************************************************)
LEMMA SplitScan ==
  ASSUME NEW text \in Text, NEW sep
  PROVE  \E scan : IsScan(scan, text, sep) /\ split(text, sep) = Pieces(scan[Len(text)])
<1> DEFINE n == Len(text)
           V == Scanned
           b == [pieces |-> <<>>, line |-> <<>>]
           Step(before, i) ==
             IF text[i] = sep
             THEN [pieces |-> Append(before.pieces, before.line), line |-> <<>>]
             ELSE [pieces |-> before.pieces, line |-> Append(before.line, text[i])]
           G == [p \in V \X (1..n) |-> Step(p[1], p[2])]
           Scan(f) == f = [i \in 0..n |-> IF i = 0 THEN b ELSE Step(f[i-1], i)]
           scan == CHOOSE f : Scan(f)
<1>1. n \in Nat /\ b \in V BY DEF Text, Scanned
<1>2. ASSUME NEW v \in V, NEW i \in 1..n PROVE Step(v, i) \in V
  BY DEF Text, Scanned
<1>3. G \in Steps(n, V)
  <2> HIDE DEF V, Step
  <2> QED BY <1>2 DEF Steps
<1>4. \E f : Scan(f)
  <2>1. PICK f \in [0..n -> V] : IsRecursive(f, n, b, G)
    <3> HIDE DEF V, b, G, n
    <3> QED BY <1>1, <1>3, RecursiveExists
  <2>2. ASSUME NEW i \in 0..n PROVE f[i] = IF i = 0 THEN b ELSE Step(f[i-1], i)
    <3> HIDE DEF V, b, Step
    <3> USE DEF IsRecursive
    <3>1. CASE i = 0 BY <2>1, <3>1
    <3>2. CASE i # 0
      <4>1. i \in 1..n /\ i-1 \in 0..n BY <1>1, <3>2
      <4>2. f[i-1] \in V BY <4>1
      <4>3. G[<<f[i-1], i>>] = Step(f[i-1], i) BY <4>1, <4>2
      <4> QED BY <2>1, <3>2, <4>1, <4>3
    <3> QED BY <3>1, <3>2
  <2>3. Scan(f) 
    <3> HIDE DEF V, b, Step, n
    <3> QED BY <2>2
  <2> QED BY <2>3
<1>5. Scan(scan) 
  <2> HIDE DEF Scan
  <2> QED BY <1>4
<1>6. \A i \in 0..n : scan[i] \in V
  <2>1. scan[0] = b /\ \A i \in 1..n : scan[i] = Step(scan[i-1], i)
    <3> HIDE DEF scan, b, Step
    <3> QED BY <1>1, <1>5
  <2>2. scan[0] \in V /\ \A i \in 1..n : scan[i-1] \in V => scan[i] \in V
    <3> HIDE DEF scan, b, V, Step
    <3> QED BY <1>1, <1>2, <2>1
  <2> HIDE DEF scan, b, V, Step
  <2> QED BY <1>1, <2>2, RecursiveRange
<1>7. split(text, sep) = Pieces(scan[n])
  BY Zenon DEF split, Pieces
<1>8. scan[0] = b /\ \A i \in 1..n : scan[i] = Step(scan[i-1], i)
  <2> HIDE DEF scan, b, Step
  <2> QED BY <1>1, <1>5
<1>9. scan \in [0..n -> V]
  <2> HIDE DEF scan, b, V, Step
  <2> QED BY <1>5, <1>6
<1>10. IsScan(scan, text, sep)
  <2> HIDE DEF scan, V
  <2> QED BY <1>8, <1>9 DEF IsScan, ScanStep, V
<1> HIDE DEF scan
<1> QED BY <1>7, <1>10

(***************************************************************************)
(* split cuts a text into texts.                                           *)
(***************************************************************************)
LEMMA SplitType ==
  ASSUME NEW text \in Text, NEW sep
  PROVE  split(text, sep) \in Seq(Text)
<1>1. PICK scan : IsScan(scan, text, sep) /\ split(text, sep) = Pieces(scan[Len(text)])
  BY SplitScan
<1>2. Len(text) \in Nat BY DEF Text
<1>3. scan[Len(text)] \in Scanned BY <1>1, <1>2 DEF IsScan
<1> QED BY <1>1, <1>3 DEF Pieces, Scanned, Text

(***************************************************************************)
(* How GetLabelsInSingleString goes along the labels.                      *)
(***************************************************************************)
IsJoining(ss, labels) ==
  /\ ss \in [0..Len(labels) -> Text]
  /\ ss[0] = <<>>
  /\ \A i \in 1..Len(labels) :
       ss[i] = (IF ss[i-1] = <<>> THEN ss[i-1] ELSE Append(ss[i-1], ",")) \o labels[i]

(***************************************************************************)
(* GetLabelsInSingleString is what it has joined at the end.               *)
(***************************************************************************)
LEMMA LabelsJoining ==
  ASSUME NEW labels \in Seq(Text)
  PROVE  \E ss : IsJoining(ss, labels) /\ GetLabelsInSingleString(labels) = ss[Len(labels)]
<1> DEFINE n == Len(labels)
           V == Text
           Step(before, i) ==
             (IF before = <<>> THEN before ELSE Append(before, ",")) \o labels[i]
           G == [p \in V \X (1..n) |-> Step(p[1], p[2])]
           Rec(f) == f = [i \in 0..n |-> IF i = 0 THEN <<>> ELSE Step(f[i-1], i)]
           fcn == CHOOSE f : Rec(f)
<1>1. n \in Nat /\ <<>> \in V
  BY DEF Text
<1>2. ASSUME NEW v \in V, NEW i \in 1..n PROVE Step(v, i) \in V
  <2>1. labels[i] \in Text OBVIOUS
  <2> QED BY <2>1, TextFacts
<1>3. G \in Steps(n, V)
  <2> HIDE DEF V, Step
  <2> QED BY <1>2 DEF Steps
<1>4. \E f : Rec(f)
  <2>1. PICK f \in [0..n -> V] : IsRecursive(f, n, <<>>, G)
    <3> HIDE DEF V, G, n
    <3> QED BY <1>1, <1>3, RecursiveExists
  <2>2. ASSUME NEW i \in 0..n PROVE f[i] = IF i = 0 THEN <<>> ELSE Step(f[i-1], i)
    <3> HIDE DEF V, Step
    <3> USE DEF IsRecursive
    <3>1. CASE i = 0 BY <2>1, <3>1
    <3>2. CASE i # 0
      <4>1. i \in 1..n /\ i-1 \in 0..n BY <1>1, <3>2
      <4>2. f[i-1] \in V BY <4>1
      <4>3. G[<<f[i-1], i>>] = Step(f[i-1], i) BY <4>1, <4>2
      <4> QED BY <2>1, <3>2, <4>1, <4>3
    <3> QED BY <3>1, <3>2
  <2>3. Rec(f)
    <3> HIDE DEF V, Step, n
    <3> QED BY <2>2
  <2> QED BY <2>3
<1>5. Rec(fcn)
  <2> HIDE DEF Rec
  <2> QED BY <1>4
<1>6. fcn[0] = <<>> /\ \A i \in 1..n : fcn[i] = Step(fcn[i-1], i)
  <2> HIDE DEF fcn, Step
  <2> QED BY <1>1, <1>5
<1>7. \A i \in 0..n : fcn[i] \in V
  <2>1. fcn[0] \in V /\ \A i \in 1..n : fcn[i-1] \in V => fcn[i] \in V
    <3> HIDE DEF fcn, V, Step
    <3> QED BY <1>1, <1>2, <1>6
  <2> HIDE DEF fcn, V, Step
  <2> QED BY <1>1, <2>1, RecursiveRange
<1>8. GetLabelsInSingleString(labels) = fcn[n]
  BY Zenon DEF GetLabelsInSingleString
<1>9. fcn \in [0..n -> V]
  <2> HIDE DEF fcn, V, Step
  <2> QED BY <1>5, <1>7
<1>10. IsJoining(fcn, labels)
  <2> HIDE DEF fcn
  <2> QED BY <1>6, <1>9 DEF IsJoining
<1> HIDE DEF fcn
<1> QED BY <1>8, <1>10

(***************************************************************************)
(* It joins labels to a text.                                              *)
(***************************************************************************)
LEMMA JoinType ==
  ASSUME NEW labels \in Seq(Text)
  PROVE  GetLabelsInSingleString(labels) \in Text
<1>1. PICK ss : /\ IsJoining(ss, labels)
                /\ GetLabelsInSingleString(labels) = ss[Len(labels)]
  BY LabelsJoining
<1>2. Len(labels) \in 0..Len(labels) OBVIOUS
<1> QED BY <1>1, <1>2 DEF IsJoining

(***************************************************************************)
(* How UpdateIssuesTextFile goes along the labels.                         *)
(***************************************************************************)
IsWriting(out, labels) ==
  /\ out \in [0..Len(labels) -> Text]
  /\ out[0] = <<>>
  /\ \A i \in 1..Len(labels) :
       out[i] = (IF i = 1 THEN <<>> ELSE Append(out[i-1], "|")) \o labels[i]

(***************************************************************************)
(* WriteLabels is what it has written at the end.                          *)
(***************************************************************************)
LEMMA WriteLabelsWriting ==
  ASSUME NEW labels \in Seq(Text)
  PROVE  \E out : IsWriting(out, labels) /\ WriteLabels(labels) = out[Len(labels)]
<1> DEFINE n == Len(labels)
           V == Text
           Step(before, i) ==
             (IF i = 1 THEN <<>> ELSE Append(before, "|")) \o labels[i]
           G == [p \in V \X (1..n) |-> Step(p[1], p[2])]
           Rec(f) == f = [i \in 0..n |-> IF i = 0 THEN <<>> ELSE Step(f[i-1], i)]
           fcn == CHOOSE f : Rec(f)
<1>1. n \in Nat /\ <<>> \in V
  BY DEF Text
<1>2. ASSUME NEW v \in V, NEW i \in 1..n PROVE Step(v, i) \in V
  <2>1. labels[i] \in Text OBVIOUS
  <2> QED BY <2>1, TextFacts
<1>3. G \in Steps(n, V)
  <2> HIDE DEF V, Step
  <2> QED BY <1>2 DEF Steps
<1>4. \E f : Rec(f)
  <2>1. PICK f \in [0..n -> V] : IsRecursive(f, n, <<>>, G)
    <3> HIDE DEF V, G, n
    <3> QED BY <1>1, <1>3, RecursiveExists
  <2>2. ASSUME NEW i \in 0..n PROVE f[i] = IF i = 0 THEN <<>> ELSE Step(f[i-1], i)
    <3> HIDE DEF V, Step
    <3> USE DEF IsRecursive
    <3>1. CASE i = 0 BY <2>1, <3>1
    <3>2. CASE i # 0
      <4>1. i \in 1..n /\ i-1 \in 0..n BY <1>1, <3>2
      <4>2. f[i-1] \in V BY <4>1
      <4>3. G[<<f[i-1], i>>] = Step(f[i-1], i) BY <4>1, <4>2
      <4> QED BY <2>1, <3>2, <4>1, <4>3
    <3> QED BY <3>1, <3>2
  <2>3. Rec(f)
    <3> HIDE DEF V, Step, n
    <3> QED BY <2>2
  <2> QED BY <2>3
<1>5. Rec(fcn)
  <2> HIDE DEF Rec
  <2> QED BY <1>4
<1>6. fcn[0] = <<>> /\ \A i \in 1..n : fcn[i] = Step(fcn[i-1], i)
  <2> HIDE DEF fcn, Step
  <2> QED BY <1>1, <1>5
<1>7. \A i \in 0..n : fcn[i] \in V
  <2>1. fcn[0] \in V /\ \A i \in 1..n : fcn[i-1] \in V => fcn[i] \in V
    <3> HIDE DEF fcn, V, Step
    <3> QED BY <1>1, <1>2, <1>6
  <2> HIDE DEF fcn, V, Step
  <2> QED BY <1>1, <2>1, RecursiveRange
<1>8. WriteLabels(labels) = fcn[n]
  BY Zenon DEF WriteLabels
<1>9. fcn \in [0..n -> V]
  <2> HIDE DEF fcn, V, Step
  <2> QED BY <1>5, <1>7
<1>10. IsWriting(fcn, labels)
  <2> HIDE DEF fcn
  <2> QED BY <1>6, <1>9 DEF IsWriting
<1> HIDE DEF fcn
<1> QED BY <1>8, <1>10

(***************************************************************************)
(* The labels of a line are a text.                                        *)
(***************************************************************************)
LEMMA WriteLabelsType ==
  ASSUME NEW labels \in Seq(Text)
  PROVE  WriteLabels(labels) \in Text
<1>1. PICK out : IsWriting(out, labels) /\ WriteLabels(labels) = out[Len(labels)]
  BY WriteLabelsWriting
<1>2. Len(labels) \in 0..Len(labels) OBVIOUS
<1> QED BY <1>1, <1>2 DEF IsWriting

(***************************************************************************)
(* The issue read from a line keeps the number of the line.                *)
(***************************************************************************)
LEMMA ReadLineType ==
  ASSUME NEW line \in Line, Readable(line)
  PROVE  ReadLine(line) \in Issue /\ ReadLine(line).id = line.id
<1> DEFINE result == split(line.text, ",")
<1>1. result \in Seq(Text) BY SplitType DEF Line
<1>2. Len(result) >= 4 BY DEF Readable
<1> HIDE DEF result
<1>3. /\ result[1] \in Text /\ result[2] \in Text
      /\ result[3] \in Text /\ result[4] \in Text
  BY <1>1, <1>2
<1>4. split(result[3], "|") \in Seq(Text) BY <1>3, SplitType
<1>5. ReadLine(line) = [id |-> line.id, status |-> result[1], owner |-> result[2],
                        labels |-> split(result[3], "|"), title |-> result[4]]
  BY DEF ReadLine, IssueItem, result
<1> QED BY <1>3, <1>4, <1>5 DEF Issue, Line

(***************************************************************************)
(* How LoadIssues goes along a file: the issues of the lines before each.  *)
(***************************************************************************)
IsReading(list, file) ==
  /\ list \in [0..Len(file) -> Seq(Issue)]
  /\ list[0] = <<>>
  /\ \A i \in 1..Len(file) :
       list[i] = IF Readable(file[i]) THEN Append(list[i-1], ReadLine(file[i]))
                 ELSE list[i-1]

(***************************************************************************)
(* ReadFile returns the issues behind the last line.                       *)
(***************************************************************************)
LEMMA ReadFileReading ==
  ASSUME NEW file \in File
  PROVE  \E list : IsReading(list, file) /\ ReadFile(file) = list[Len(file)]
<1> DEFINE n == Len(file)
           V == Seq(Issue)
           Step(before, i) ==
             IF Readable(file[i]) THEN Append(before, ReadLine(file[i])) ELSE before
           G == [p \in V \X (1..n) |-> Step(p[1], p[2])]
           Rec(f) == f = [i \in 0..n |-> IF i = 0 THEN <<>> ELSE Step(f[i-1], i)]
           fcn == CHOOSE f : Rec(f)
<1>1. n \in Nat /\ <<>> \in V
  BY DEF File
<1>2. ASSUME NEW v \in V, NEW i \in 1..n PROVE Step(v, i) \in V
  BY ReadLineType DEF File
<1>3. G \in Steps(n, V)
  <2> HIDE DEF V, Step
  <2> QED BY <1>2 DEF Steps
<1>4. \E f : Rec(f)
  <2>1. PICK f \in [0..n -> V] : IsRecursive(f, n, <<>>, G)
    <3> HIDE DEF V, G, n
    <3> QED BY <1>1, <1>3, RecursiveExists
  <2>2. ASSUME NEW i \in 0..n PROVE f[i] = IF i = 0 THEN <<>> ELSE Step(f[i-1], i)
    <3> HIDE DEF V, Step
    <3> USE DEF IsRecursive
    <3>1. CASE i = 0 BY <2>1, <3>1
    <3>2. CASE i # 0
      <4>1. i \in 1..n /\ i-1 \in 0..n BY <1>1, <3>2
      <4>2. f[i-1] \in V BY <4>1
      <4>3. G[<<f[i-1], i>>] = Step(f[i-1], i) BY <4>1, <4>2
      <4> QED BY <2>1, <3>2, <4>1, <4>3
    <3> QED BY <3>1, <3>2
  <2>3. Rec(f)
    <3> HIDE DEF V, Step, n
    <3> QED BY <2>2
  <2> QED BY <2>3
<1>5. Rec(fcn)
  <2> HIDE DEF Rec
  <2> QED BY <1>4
<1>6. fcn[0] = <<>> /\ \A i \in 1..n : fcn[i] = Step(fcn[i-1], i)
  <2> HIDE DEF fcn, Step
  <2> QED BY <1>1, <1>5
<1>7. \A i \in 0..n : fcn[i] \in V
  <2>1. fcn[0] \in V /\ \A i \in 1..n : fcn[i-1] \in V => fcn[i] \in V
    <3> HIDE DEF fcn, V, Step
    <3> QED BY <1>1, <1>2, <1>6
  <2> HIDE DEF fcn, V, Step
  <2> QED BY <1>1, <2>1, RecursiveRange
<1>8. ReadFile(file) = fcn[n]
  BY Zenon DEF ReadFile
<1>9. fcn \in [0..n -> V]
  <2> HIDE DEF fcn, V, Step
  <2> QED BY <1>5, <1>7
<1>10. IsReading(fcn, file)
  <2> HIDE DEF fcn
  <2> QED BY <1>6, <1>9 DEF IsReading
<1> HIDE DEF fcn
<1> QED BY <1>8, <1>10

(***************************************************************************)
(* LoadIssues makes issues of the lines, in their order and with their ids. *)
(***************************************************************************)
LEMMA ReadFileType ==
  ASSUME NEW file \in File
  PROVE  /\ ReadFile(file) \in Seq(Issue)
         /\ Ids(ReadFile(file)) \subseteq Ids(file)
         /\ Increasing(file) => Increasing(ReadFile(file))
<1>1. PICK f : IsReading(f, file) /\ ReadFile(file) = f[Len(file)]
  BY ReadFileReading
<1> DEFINE n == Len(file)
           From(l, m) == \A k \in DOMAIN l : \E j \in 1..m : l[k].id = file[j].id
           S == {i \in 0..n : From(f[i], i) /\ (Increasing(file) => Increasing(f[i]))}
<1>2. n \in Nat /\ \A i \in 0..n : f[i] \in Seq(Issue)
  BY <1>1 DEF File, IsReading
<1>3. 0 \in S BY <1>1, <1>2 DEF Increasing, IsReading
<1>4. ASSUME NEW i \in 1..n, i - 1 \in S PROVE i \in S
  <2>1. /\ f[i-1] \in Seq(Issue) /\ file[i] \in Line /\ i-1 \in 0..n /\ i \in 0..n
        /\ f[i] = IF Readable(file[i]) THEN Append(f[i-1], ReadLine(file[i]))
                  ELSE f[i-1]
    BY <1>1, <1>2 DEF File, IsReading
  <2>2. From(f[i-1], i-1) /\ (Increasing(file) => Increasing(f[i-1])) BY <1>4
  <2>3. CASE ~Readable(file[i]) BY <2>1, <2>2, <2>3
  <2>4. CASE Readable(file[i])
    <3> DEFINE l == f[i-1]
               e == ReadLine(file[i])
    <3>1. e \in Issue /\ e.id = file[i].id BY <2>1, <2>4, ReadLineType
    <3>2. f[i] = Append(l, e) BY <2>1, <2>4
    <3>3. l \in Seq(Issue) /\ From(l, i-1) BY <2>1, <2>2
    <3> HIDE DEF l, e
    <3>4. From(Append(l, e), i) BY <3>1, <3>3
    <3>5. ASSUME Increasing(file) PROVE Increasing(Append(l, e))
      <4>1. Increasing(l) BY <2>2, <3>5 DEF l
      <4>2. ASSUME NEW k \in DOMAIN l PROVE l[k].id < e.id
        <5>1. PICK j \in 1..(i-1) : l[k].id = file[j].id BY <3>3
        <5>2. file[j].id < file[i].id BY <1>2, <3>5 DEF Increasing, File
        <5> QED BY <3>1, <5>1, <5>2
      <4>3. e.id > 0 BY <3>1, <3>5 DEF Increasing, File
      <4> QED BY <3>1, <3>3, <4>1, <4>2, <4>3 DEF Increasing
    <3> HIDE DEF From
    <3> QED BY <2>1, <3>2, <3>4, <3>5
  <2> QED BY <2>3, <2>4
<1>5. \A i \in 0..n : i \in S
  <2> HIDE DEF S, n
  <2> QED BY <1>2, <1>3, <1>4, SetInduction
<1>6. From(f[n], n) /\ (Increasing(file) => Increasing(f[n])) BY <1>2, <1>5
<1>7. Ids(f[n]) \subseteq Ids(file)
  <2>1. 1..n = DOMAIN file BY DEF File
  <2> QED BY <1>6, <2>1 DEF Ids
<1> QED BY <1>1, <1>2, <1>6, <1>7

(***************************************************************************)
(* UpdateIssuesTextFile writes one line for each issue, with its number.   *)
(***************************************************************************)
LEMMA WriteFileType ==
  ASSUME NEW list \in Seq(Issue), NEW idList, NEW revnum
  PROVE  /\ WriteFile(list, idList, revnum) \in File
         /\ Len(WriteFile(list, idList, revnum)) = Len(list)
         /\ Increasing(list) => Increasing(WriteFile(list, idList, revnum))
<1> DEFINE status(i) ==
             IF revnum > 0 /\ \E k \in DOMAIN idList : idList[k] = list[i].id
             THEN Resolved ELSE list[i].status
           file == [i \in DOMAIN list |-> WriteLine(list[i], status(i))]
<1>1. ASSUME NEW i \in DOMAIN list
      PROVE  /\ WriteLine(list[i], status(i)) \in Line
             /\ WriteLine(list[i], status(i)).id = list[i].id
  <2>1. list[i] \in Issue OBVIOUS
  <2>2. status(i) \in Text BY <2>1, TextFacts DEF Issue
  <2>3. WriteLabels(list[i].labels) \in Text BY <2>1, WriteLabelsType DEF Issue
  <2> HIDE DEF status
  <2>4. list[i].id \in Int /\ list[i].owner \in Text /\ list[i].title \in Text
    BY <2>1 DEF Issue
  <2>5. status(i) \o <<",">> \o list[i].owner \o <<",">>
          \o WriteLabels(list[i].labels) \o <<",">> \o list[i].title \in Text
    BY <2>2, <2>3, <2>4, TextFacts
  <2> QED BY <2>4, <2>5 DEF WriteLine, Line
<1>2. WriteFile(list, idList, revnum) = file BY DEF WriteFile
<1> HIDE DEF status
<1>3. file \in File /\ Len(file) = Len(list) BY <1>1 DEF File
<1>4. Increasing(list) => Increasing(file) BY <1>1, <1>3 DEF Increasing
<1> QED BY <1>2, <1>3, <1>4

-----------------------------------------------------------------------------
(***************************************************************************)
(* The members of a list are issues, with integers for ids.                *)
(***************************************************************************)
LEMMA MemberFact ==
  ASSUME NEW list \in Seq(Issue)
  PROVE  \A i \in DOMAIN list : list[i] \in Issue /\ list[i].id \in Int
<1>1. \A i \in DOMAIN list : list[i] \in Issue OBVIOUS
<1> QED BY <1>1 DEF Issue

(***************************************************************************)
(* In a list with increasing ids the next id is larger than all of them.   *)
(***************************************************************************)
LEMMA GetMaxIdFact ==
  ASSUME NEW list \in Seq(Issue), Increasing(list)
  PROVE  /\ GetMaxId(list) \in Nat
         /\ \A i \in DOMAIN list : list[i].id <= GetMaxId(list)
<1> DEFINE S == {0} \cup Ids(list)
           IsMax(m) == \A n \in S : n <= m
<1>1. S \subseteq Nat BY MemberFact DEF Ids, Increasing
<1>2. \E m \in S : IsMax(m)
  <2>1. CASE list = <<>>
    <3>1. S = {0} BY <2>1 DEF Ids
    <3> QED BY <3>1
  <2>2. CASE list # <<>>
    <3> DEFINE m == list[Len(list)].id
    <3>1. Len(list) \in DOMAIN list /\ m \in S BY <2>2 DEF Ids
    <3>2. ASSUME NEW i \in DOMAIN list PROVE list[i].id <= m
      <4>1. list[i] \in Issue /\ list[Len(list)] \in Issue BY <3>1
      <4>2. i = Len(list) \/ i < Len(list) OBVIOUS
      <4> QED BY <3>1, <4>1, <4>2 DEF Increasing, Issue
    <3>3. 0 <= m BY <1>1, <3>1
    <3>4. IsMax(m) BY <3>2, <3>3 DEF Ids
    <3> QED BY <3>1, <3>4
  <2> QED BY <2>1, <2>2
<1>3. GetMaxId(list) = CHOOSE m \in S : IsMax(m) BY DEF GetMaxId
<1>4. GetMaxId(list) \in S /\ IsMax(GetMaxId(list))
  <2> HIDE DEF S, IsMax
  <2> QED BY <1>2, <1>3
<1>5. \A i \in DOMAIN list : list[i].id \in S BY DEF Ids
<1> QED BY <1>1, <1>4, <1>5

(***************************************************************************)
(* AddNewIssue keeps the ids increasing.                                   *)
(***************************************************************************)
LEMMA AddNewFact ==
  ASSUME NEW list \in Seq(Issue), Increasing(list), NEW issue \in Issue
  PROVE  AddNew(list, issue) \in Seq(Issue) /\ Increasing(AddNew(list, issue))
<1> DEFINE id == GetMaxId(list) + 1
           labels == split(GetLabelsInSingleString(issue.labels), "|")
           item == [id |-> id, status |-> issue.status, owner |-> issue.owner,
                    labels |-> labels, title |-> issue.title]
<1>1. id \in Int /\ id > 0 /\ \A i \in DOMAIN list : list[i].id < id
  BY MemberFact, GetMaxIdFact
<1>2. labels \in Seq(Text) BY JoinType, SplitType DEF Issue
<1> HIDE DEF id, labels
<1>3. item \in Issue BY <1>1, <1>2 DEF Issue
<1>4. item.id = id OBVIOUS
<1>5. AddNew(list, issue) = Append(list, item) BY DEF AddNew, IssueItem, id, labels
<1> HIDE DEF item
<1>6. Increasing(Append(list, item)) BY <1>1, <1>3, <1>4 DEF Increasing
<1> QED BY <1>3, <1>5, <1>6

(***************************************************************************)
(* UpdateIssue and DeleteIssue change no id.                               *)
(***************************************************************************)
LEMMA UpdateFact ==
  ASSUME NEW list \in Seq(Issue), Increasing(list), NEW item \in Issue
  PROVE  Update(list, item) \in Seq(Issue) /\ Increasing(Update(list, item))
<1>1. Update(list, item) \in Seq(Issue) BY DEF Update
<1>2. /\ DOMAIN Update(list, item) = DOMAIN list
      /\ \A i \in DOMAIN list : Update(list, item)[i].id = list[i].id
  BY DEF Update, IsFirst
<1> QED BY <1>1, <1>2 DEF Increasing

(***************************************************************************)
(* DeleteIssue changes the status and no id.                               *)
(***************************************************************************)
LEMMA DeleteFact ==
  ASSUME NEW list \in Seq(Issue), Increasing(list), NEW ids
  PROVE  Delete(list, ids) \in Seq(Issue) /\ Increasing(Delete(list, ids))
<1>1. ASSUME NEW i \in DOMAIN list
      PROVE  /\ [list[i] EXCEPT !.status = Deleted] \in Issue
             /\ [list[i] EXCEPT !.status = Deleted].id = list[i].id
  BY MemberFact, TextFacts DEF Issue
<1>2. Delete(list, ids) \in Seq(Issue) BY <1>1 DEF Delete
<1>3. /\ DOMAIN Delete(list, ids) = DOMAIN list
      /\ \A i \in DOMAIN list : Delete(list, ids)[i].id = list[i].id
  BY <1>1 DEF Delete
<1> QED BY <1>2, <1>3 DEF Increasing

(***************************************************************************)
(* CIssueDlg gives back an issue with the id it was given.                 *)
(***************************************************************************)
LEMMA EnteredFact ==
  ASSUME NEW issue \in Issue, NEW input \in DialogInput
  PROVE  Entered(issue, input) \in Issue
<1>1. (IF input.status = <<>> THEN issue.status ELSE input.status) \in Text
  BY TextFacts DEF Issue, DialogInput
<1> QED BY <1>1 DEF Issue, DialogInput, Entered

(***************************************************************************)
(* The issue of CIssueDlg's default constructor is an issue.               *)
(***************************************************************************)
LEMMA EmptyIssueFact == EmptyIssue \in Issue
<1> DEFINE labels == split(<<>>, "|")
<1>1. labels \in Seq(Text) BY SplitType, TextFacts
<1>2. EmptyIssue = [id |-> 0, status |-> Active, owner |-> <<>>,
                    labels |-> labels, title |-> <<>>]
  BY DEF EmptyIssue, IssueItem
<1>3. Active \in Text /\ <<>> \in Text BY TextFacts
<1> HIDE DEF labels
<1> QED BY <1>1, <1>2, <1>3 DEF Issue

-----------------------------------------------------------------------------
(***************************************************************************)
(* Where split is at the end of a text.                                    *)
(***************************************************************************)
End(text, sep) == (CHOOSE scan : IsScan(scan, text, sep))[Len(text)]

(***************************************************************************)
(* split goes along a text as along any longer text that begins with it.   *)
(***************************************************************************)
LEMMA ScanPrefix ==
  ASSUME NEW text \in Text, NEW longer \in Text, Len(text) <= Len(longer),
         \A i \in 1..Len(text) : longer[i] = text[i],
         NEW sep, NEW f, IsScan(f, longer, sep), NEW g, IsScan(g, text, sep)
  PROVE  \A i \in 0..Len(text) : f[i] = g[i]
<1> DEFINE n == Len(text)
           S == {i \in 0..n : f[i] = g[i]}
<1>1. n \in Nat /\ Len(longer) \in Nat BY DEF Text
<1>2. 0 \in S BY <1>1 DEF IsScan
<1>3. \A i \in 1..n : i - 1 \in S => i \in S BY <1>1 DEF IsScan
<1>4. \A i \in 0..n : i \in S
  <2> HIDE DEF S, n
  <2> QED BY <1>1, <1>2, <1>3, SetInduction
<1> QED BY <1>4

(***************************************************************************)
(* split returns the pieces it has there.                                  *)
(***************************************************************************)
LEMMA EndFact ==
  ASSUME NEW text \in Text, NEW sep
  PROVE  /\ End(text, sep) \in Scanned
         /\ split(text, sep) = Pieces(End(text, sep))
         /\ \A f : IsScan(f, text, sep) => End(text, sep) = f[Len(text)]
<1> DEFINE g == CHOOSE scan : IsScan(scan, text, sep)
<1>1. Len(text) \in Nat BY DEF Text
<1>2. PICK f : IsScan(f, text, sep) /\ split(text, sep) = Pieces(f[Len(text)])
  BY SplitScan
<1>3. IsScan(g, text, sep) BY <1>2
<1>4. End(text, sep) = g[Len(text)] BY DEF End
<1> HIDE DEF g
<1>5. ASSUME NEW h, IsScan(h, text, sep) PROVE h[Len(text)] = g[Len(text)]
  BY <1>1, <1>3, <1>5, ScanPrefix
<1>6. g[Len(text)] \in Scanned BY <1>1, <1>3 DEF IsScan
<1> QED BY <1>2, <1>4, <1>5, <1>6

(***************************************************************************)
(* The empty text, and one token more.                                     *)
(***************************************************************************)
LEMMA EndEmpty ==
  ASSUME NEW sep
  PROVE  End(<<>>, sep).pieces = <<>> /\ End(<<>>, sep).line = <<>>
<1> DEFINE e == End(<<>>, sep)
<1>1. <<>> \in Text BY TextFacts
<1>2. PICK f : IsScan(f, <<>>, sep) BY <1>1, SplitScan
<1>3. e = [pieces |-> <<>>, line |-> <<>>] BY <1>1, <1>2, EndFact DEF IsScan
<1> HIDE DEF e
<1>4. e.pieces = <<>> /\ e.line = <<>> BY <1>3
<1> QED BY <1>4 DEF e

(***************************************************************************)
(* One token more is one step more.                                        *)
(***************************************************************************)
LEMMA EndAppend ==
  ASSUME NEW text \in Text, NEW token \in Token, NEW sep
  PROVE  End(Append(text, token), sep) = ScanStep(End(text, sep), token, sep)
<1> DEFINE longer == Append(text, token)
<1>1. /\ longer \in Text /\ Len(text) \in Nat /\ Len(longer) = Len(text) + 1
      /\ longer[Len(text) + 1] = token /\ \A i \in 1..Len(text) : longer[i] = text[i]
  BY DEF Text
<1> HIDE DEF longer
<1>2. PICK f : IsScan(f, longer, sep) BY <1>1, SplitScan
<1>3. PICK g : IsScan(g, text, sep) BY SplitScan
<1>4. f[Len(text)] = g[Len(text)] BY <1>1, <1>2, <1>3, ScanPrefix
<1>5. End(longer, sep) = f[Len(text) + 1] BY <1>1, <1>2, EndFact
<1>6. End(text, sep) = g[Len(text)] BY <1>3, EndFact
<1>7. f[Len(text) + 1] = ScanStep(f[Len(text)], token, sep)
  <2>1. Len(text) + 1 \in 1..Len(longer) /\ (Len(text) + 1) - 1 = Len(text) BY <1>1
  <2>2. f[Len(text) + 1] = ScanStep(f[(Len(text) + 1) - 1], longer[Len(text) + 1], sep)
    BY <1>2, <2>1 DEF IsScan
  <2> QED BY <1>1, <2>1, <2>2
<1> QED BY <1>4, <1>5, <1>6, <1>7 DEF longer

(***************************************************************************)
(* A text without separators only gets on the line.                        *)
(***************************************************************************)
LEMMA EndPlain ==
  ASSUME NEW text \in Text, NEW plain \in Text, NEW sep, ~Has(sep, plain)
  PROVE  /\ End(text \o plain, sep).pieces = End(text, sep).pieces
         /\ End(text \o plain, sep).line = End(text, sep).line \o plain
<1> DEFINE n == Len(plain)
           e == End(text, sep)
           part(k) == SubSeq(plain, 1, k)
           S == {k \in 0..n : End(text \o part(k), sep)
                                = [pieces |-> e.pieces, line |-> e.line \o part(k)]}
<1>1. n \in Nat /\ e \in Scanned BY EndFact DEF Text
<1>2. ASSUME NEW k \in 0..n PROVE part(k) \in Text
  BY <1>2 DEF Text
<1>3. 0 \in S
  <2>1. part(0) = <<>> BY DEF Text
  <2>2. text \o <<>> = text BY DEF Text
  <2>3. e.line \o <<>> = e.line BY <1>1 DEF Scanned, Text
  <2>4. e = [pieces |-> e.pieces, line |-> e.line] BY <1>1 DEF Scanned
  <2>5. End(text \o part(0), sep) = e BY <2>1, <2>2
  <2> HIDE DEF part, e
  <2>6. e = [pieces |-> e.pieces, line |-> e.line \o part(0)] BY <2>1, <2>3, <2>4
  <2>7. End(text \o part(0), sep) = [pieces |-> e.pieces, line |-> e.line \o part(0)]
    BY <2>5, <2>6
  <2> QED BY <1>1, <2>7
<1>4. ASSUME NEW k \in 1..n, k - 1 \in S PROVE k \in S
  <2>1. /\ plain[k] \in Token /\ plain[k] # sep /\ k - 1 \in 0..n /\ k \in 0..n
        /\ part(k-1) \in Text
    BY <1>1, <1>2 DEF Text, Has
  <2>2. part(k) = Append(part(k-1), plain[k]) BY <1>1 DEF Text
  <2> HIDE DEF part
  <2>3. text \o part(k-1) \in Text BY <2>1, TextFacts
  <2>4. text \o part(k) = Append(text \o part(k-1), plain[k])
    BY <2>1, <2>2 DEF Text
  <2>5. End(text \o part(k), sep)
          = ScanStep(End(text \o part(k-1), sep), plain[k], sep)
    BY <2>1, <2>3, <2>4, EndAppend
  <2>6. End(text \o part(k-1), sep)
          = [pieces |-> e.pieces, line |-> e.line \o part(k-1)]
    BY <1>4
  <2>7. e.line \o part(k) = Append(e.line \o part(k-1), plain[k])
    BY <1>1, <2>1, <2>2 DEF Text, Scanned
  <2> HIDE DEF e
  <2> DEFINE old == End(text \o part(k-1), sep)
             line == e.line \o part(k-1)
  <2>8. old.pieces = e.pieces /\ old.line = line
    <3>1. old = [pieces |-> e.pieces, line |-> line] BY <2>6
    <3> HIDE DEF old, line
    <3> QED BY <3>1
  <2> HIDE DEF old
  <2>9. ScanStep(old, plain[k], sep)
          = [pieces |-> old.pieces, line |-> Append(old.line, plain[k])]
    BY <2>1 DEF ScanStep
  <2>10. End(text \o part(k), sep) = ScanStep(old, plain[k], sep) BY <2>5 DEF old
  <2>11. End(text \o part(k), sep) = [pieces |-> e.pieces, line |-> e.line \o part(k)]
    BY <2>7, <2>8, <2>9, <2>10
  <2> QED BY <2>1, <2>11
<1>5. \A k \in 0..n : k \in S
  <2> HIDE DEF S, n
  <2> QED BY <1>1, <1>3, <1>4, SetInduction
<1>6. part(n) = plain BY DEF Text
<1>7. n \in S
  <2> HIDE DEF S, n
  <2> QED BY <1>1, <1>5
<1> DEFINE line == e.line \o plain
<1>8. End(text \o plain, sep) = [pieces |-> e.pieces, line |-> line]
  <2> HIDE DEF part, e, n
  <2> QED BY <1>6, <1>7
<1>9. End(text \o plain, sep).pieces = e.pieces /\ End(text \o plain, sep).line = line
  <2> HIDE DEF e, line
  <2> QED BY <1>8
<1> QED BY <1>9

(***************************************************************************)
(* The tokens of a text that was put together.                             *)
(***************************************************************************)
LEMMA HasFact ==
  /\ \A x : ~Has(x, <<>>)
  /\ \A x : \A t, u \in Text : Has(x, t \o u) <=> Has(x, t) \/ Has(x, u)
  /\ \A x : \A y \in Token : \A t \in Text : Has(x, Append(t, y)) <=> Has(x, t) \/ x = y
<1>1. \A x : ~Has(x, <<>>) BY DEF Has
<1>2. ASSUME NEW x, NEW t \in Text, NEW u \in Text
      PROVE  Has(x, t \o u) <=> Has(x, t) \/ Has(x, u)
  <2>1. ASSUME NEW k \in DOMAIN t, t[k] = x PROVE Has(x, t \o u)
    <3>1. k \in DOMAIN (t \o u) /\ (t \o u)[k] = x BY <2>1 DEF Text
    <3> QED BY <3>1 DEF Has
  <2>2. ASSUME NEW k \in DOMAIN u, u[k] = x PROVE Has(x, t \o u)
    <3>1. /\ Len(t) + k \in DOMAIN (t \o u)
          /\ (t \o u)[Len(t) + k] = u[k]
      BY DEF Text
    <3> QED BY <2>2, <3>1 DEF Has
  <2>3. ASSUME NEW k \in DOMAIN (t \o u), (t \o u)[k] = x PROVE Has(x, t) \/ Has(x, u)
    <3>1. CASE k <= Len(t)
      <4>1. k \in DOMAIN t /\ t[k] = x BY <2>3, <3>1 DEF Text
      <4> QED BY <4>1 DEF Has
    <3>2. CASE ~(k <= Len(t))
      <4>1. k - Len(t) \in DOMAIN u /\ u[k - Len(t)] = x BY <2>3, <3>2 DEF Text
      <4> QED BY <4>1 DEF Has
    <3> QED BY <3>1, <3>2
  <2>4. Has(x, t \o u) => Has(x, t) \/ Has(x, u) BY <2>3 DEF Has
  <2>5. Has(x, t) \/ Has(x, u) => Has(x, t \o u) BY <2>1, <2>2 DEF Has
  <2> QED BY <2>4, <2>5
<1>3. ASSUME NEW x, NEW y \in Token, NEW t \in Text
      PROVE  Has(x, Append(t, y)) <=> Has(x, t) \/ x = y
  <2>1. <<y>> \in Text /\ Append(t, y) = t \o <<y>> BY DEF Text
  <2>2. Has(x, <<y>>) <=> x = y BY DEF Has
  <2>3. Has(x, t \o <<y>>) <=> Has(x, t) \/ Has(x, <<y>>) BY <1>2, <2>1
  <2> QED BY <2>1, <2>2, <2>3
<1> QED BY <1>1, <1>2, <1>3

(***************************************************************************)
(* In a field, behind the pieces before it, and at its beginning.          *)
(***************************************************************************)
InField(text, sep, pieces, field) ==
  /\ text \in Text /\ pieces \in Seq(Text)
  /\ End(text, sep).pieces = pieces
  /\ End(text, sep).line = field

AtField(text, sep, pieces) == InField(text, sep, pieces, <<>>)

(***************************************************************************)
(* Nothing in front of a text changes nothing.                             *)
(***************************************************************************)
LEMMA NothingBefore == \A t \in Text : <<>> \o t = t
<1> SUFFICES ASSUME NEW t \in Text PROVE <<>> \o t = t OBVIOUS
<1> QED BY DEF Text

(***************************************************************************)
(* A separator ends the field.                                             *)
(***************************************************************************)
LEMMA EndSeparator ==
  ASSUME NEW text, NEW pieces, NEW field \in Text, NEW sep \in Token,
         InField(text, sep, pieces, field)
  PROVE  AtField(Append(text, sep), sep, Append(pieces, field))
<1> DEFINE longer == Append(text, sep)
           more == Append(pieces, field)
           f == End(longer, sep)
<1>1. text \in Text /\ pieces \in Seq(Text) BY DEF InField
<1>2. longer \in Text BY <1>1 DEF Text
<1>3. more \in Seq(Text) BY <1>1
<1>4. f = ScanStep(End(text, sep), sep, sep) BY <1>1, EndAppend
<1>5. ScanStep(End(text, sep), sep, sep) = [pieces |-> more, line |-> <<>>]
  BY DEF ScanStep, InField
<1>6. f = [pieces |-> more, line |-> <<>>] BY <1>4, <1>5
<1>7. f.pieces = more /\ f.line = <<>>
  <2> HIDE DEF more, f
  <2> QED BY <1>6
<1> QED BY <1>2, <1>3, <1>7 DEF AtField, InField

(***************************************************************************)
(* A field and the separator behind it are one piece more.                 *)
(***************************************************************************)
LEMMA EndField ==
  ASSUME NEW text, NEW pieces, NEW sep \in Token, AtField(text, sep, pieces),
         NEW field \in Text, ~Has(sep, field)
  PROVE  /\ InField(text \o field, sep, pieces, field)
         /\ AtField(text \o field \o <<sep>>, sep, Append(pieces, field))
<1> DEFINE longer == text \o field
           e == End(text, sep)
<1>1. text \in Text /\ longer \in Text BY TextFacts DEF AtField, InField
<1>2. End(longer, sep).pieces = pieces /\ End(longer, sep).line = field
  <2>1. End(longer, sep).pieces = e.pieces /\ End(longer, sep).line = e.line \o field
    BY <1>1, EndPlain
  <2>2. e.pieces = pieces /\ e.line = <<>> BY DEF AtField, InField
  <2> HIDE DEF e, longer
  <2>3. End(longer, sep).line = <<>> \o field BY <2>1, <2>2
  <2>4. <<>> \o field = field BY NothingBefore
  <2> QED BY <2>1, <2>2, <2>3, <2>4
<1> HIDE DEF longer
<1>3. InField(longer, sep, pieces, field) BY <1>1, <1>2 DEF AtField, InField
<1>4. longer \o <<sep>> = Append(longer, sep) BY <1>1 DEF Text
<1>5. AtField(longer \o <<sep>>, sep, Append(pieces, field))
  BY <1>3, <1>4, EndSeparator
<1> QED BY <1>3, <1>5 DEF longer

(***************************************************************************)
(* What Append adds and what it keeps.                                     *)
(***************************************************************************)
LEMMA AppendFact ==
  ASSUME NEW S, NEW s \in Seq(S), NEW x \in S
  PROVE  /\ Append(s, x) \in Seq(S) /\ Len(Append(s, x)) = Len(s) + 1
         /\ Append(s, x)[Len(s) + 1] = x
         /\ \A i \in 1..Len(s) : Append(s, x)[i] = s[i]
OBVIOUS

(***************************************************************************)
(* The empty sequence is one of every set.                                 *)
(***************************************************************************)
LEMMA EmptySeq == \A S : <<>> \in Seq(S)
OBVIOUS

(***************************************************************************)
(* The beginnings of a sequence.                                           *)
(***************************************************************************)
LEMMA PrefixFact ==
  ASSUME NEW S, NEW s \in Seq(S)
  PROVE  /\ SubSeq(s, 1, 0) = <<>>
         /\ \A i \in 1..Len(s) : SubSeq(s, 1, i) = Append(SubSeq(s, 1, i-1), s[i])
         /\ \A i \in 0..Len(s) : SubSeq(s, 1, i) \in Seq(S) /\ Len(SubSeq(s, 1, i)) = i
         /\ SubSeq(s, 1, Len(s)) = s
OBVIOUS

(***************************************************************************)
(* At the beginning of a text there is no piece.                           *)
(***************************************************************************)
LEMMA AtBeginning == \A sep : AtField(<<>>, sep, <<>>)
<1> SUFFICES ASSUME NEW sep PROVE AtField(<<>>, sep, <<>>) OBVIOUS
<1>1. <<>> \in Text /\ <<>> \in Seq(Text) BY EmptySeq, TextFacts, Zenon
<1>2. End(<<>>, sep).pieces = <<>> /\ End(<<>>, sep).line = <<>>
  BY EndEmpty, Zenon
<1> QED BY <1>1, <1>2, Zenon DEF AtField, InField

(***************************************************************************)
(* What LoadIssues looks at of the pieces of a line, and when it finds     *)
(* four fields in them.                                                    *)
(***************************************************************************)
FieldsFound(result, a, b, c, d) ==
  /\ Len(result) >= 4 <=> d # <<>>
  /\ d # <<>> => result[1] = a /\ result[2] = b /\ result[3] = c /\ result[4] = d

Three(a, b, c) == Append(Append(Append(<<>>, a), b), c)

(***************************************************************************)
(* In four pieces, of which getline drops an empty last one, LoadIssues    *)
(* finds four fields exactly if the last is not empty.                     *)
(***************************************************************************)
LEMMA FoundFact ==
  ASSUME NEW a \in Text, NEW b \in Text, NEW c \in Text, NEW d \in Text
  PROVE  FieldsFound(IF d = <<>> THEN Three(a, b, c) ELSE Append(Three(a, b, c), d),
                     a, b, c, d)
<1>1. PICK p : p = Append(<<>>, a) OBVIOUS
<1>2. PICK q : q = Append(p, b) OBVIOUS
<1>3. PICK r : r = Append(q, c) OBVIOUS
<1>4. p \in Seq(Text) /\ Len(p) = 1 /\ p[1] = a BY <1>1
<1>5. q \in Seq(Text) /\ Len(q) = 2 /\ q[1] = a /\ q[2] = b
  <2>1. q \in Seq(Text) /\ Len(q) = Len(p) + 1 /\ q[Len(p) + 1] = b
    BY <1>2, <1>4, AppendFact
  <2>2. \A i \in 1..Len(p) : q[i] = p[i] BY <1>2, <1>4, AppendFact
  <2> QED BY <1>4, <2>1, <2>2
<1>6. r \in Seq(Text) /\ Len(r) = 3 /\ r[1] = a /\ r[2] = b /\ r[3] = c
  <2>1. r \in Seq(Text) /\ Len(r) = Len(q) + 1 /\ r[Len(q) + 1] = c
    BY <1>3, <1>5, AppendFact
  <2>2. \A i \in 1..Len(q) : r[i] = q[i] BY <1>3, <1>5, AppendFact
  <2> QED BY <1>5, <2>1, <2>2
<1>7. ASSUME NEW s, s = Append(r, d)
      PROVE  /\ s \in Seq(Text) /\ Len(s) = 4
             /\ s[1] = a /\ s[2] = b /\ s[3] = c /\ s[4] = d
  <2>1. s \in Seq(Text) /\ Len(s) = Len(r) + 1 /\ s[Len(r) + 1] = d
    BY <1>6, <1>7, AppendFact
  <2>2. \A i \in 1..Len(r) : s[i] = r[i] BY <1>6, <1>7, AppendFact
  <2> QED BY <1>6, <2>1, <2>2
<1>8. r = Three(a, b, c) BY <1>1, <1>2, <1>3, Zenon DEF Three
<1>9. PICK s : s = Append(r, d) OBVIOUS
<1>10. Len(s) = 4 /\ s[1] = a /\ s[2] = b /\ s[3] = c /\ s[4] = d
  BY <1>7, <1>9
<1>11. CASE d = <<>>
  <2>1. FieldsFound(r, a, b, c, d) BY <1>6, <1>11 DEF FieldsFound
  <2> QED BY <1>8, <1>11, <2>1, Zenon
<1>12. CASE d # <<>>
  <2>1. FieldsFound(s, a, b, c, d) BY <1>10, <1>12 DEF FieldsFound
  <2> QED BY <1>8, <1>9, <1>12, <2>1, Zenon
<1> QED BY <1>11, <1>12

(***************************************************************************)
(* Four fields without commas are found again, unless the last is empty.   *)
(***************************************************************************)
FourFields(a, b, c, d) == a \o <<",">> \o b \o <<",">> \o c \o <<",">> \o d

(***************************************************************************)
(* So it is with the pieces split makes of four fields without commas.     *)
(***************************************************************************)
LEMMA SplitFields ==
  ASSUME NEW a \in Text, NEW b \in Text, NEW c \in Text, NEW d \in Text,
         ~Has(",", a), ~Has(",", b), ~Has(",", c), ~Has(",", d)
  PROVE  FieldsFound(split(FourFields(a, b, c, d), ","), a, b, c, d)
<1>1. "," \in Token BY DEF Token
<1>2. AtField(<<>>, ",", <<>>) BY AtBeginning, Zenon
<1>3. PICK t, p : t = a \o <<",">> /\ p = Append(<<>>, a) OBVIOUS
<1>4. PICK u, q : u = t \o b \o <<",">> /\ q = Append(p, b) OBVIOUS
<1>5. PICK v, r : v = u \o c \o <<",">> /\ r = Append(q, c) OBVIOUS
<1>6. PICK w : w = v \o d OBVIOUS
<1>7. AtField(t, ",", p)
  <2>1. AtField(<<>> \o a \o <<",">>, ",", p) BY <1>1, <1>2, <1>3, EndField, Zenon
  <2>2. <<>> \o a = a BY NothingBefore, Zenon
  <2> QED BY <1>3, <2>1, <2>2, Zenon
<1>8. AtField(u, ",", q) BY <1>1, <1>4, <1>7, EndField, Zenon
<1>9. AtField(v, ",", r) BY <1>1, <1>5, <1>8, EndField, Zenon
<1>10. InField(w, ",", r, d)
  <2>1. InField(v \o d, ",", r, d) BY <1>1, <1>9, EndField, Zenon
  <2> QED BY <1>6, <2>1, Zenon
<1>11. w \in Text /\ End(w, ",").pieces = r /\ End(w, ",").line = d
  BY <1>10, Zenon DEF InField
<1>12. FourFields(a, b, c, d) = w
  BY <1>3, <1>4, <1>5, <1>6, Zenon DEF FourFields
<1>13. Three(a, b, c) = r
  BY <1>3, <1>4, <1>5, Zenon DEF Three
<1>14. split(w, ",") = Pieces(End(w, ",")) BY <1>11, EndFact
<1>15. split(w, ",") = IF d = <<>> THEN r ELSE Append(r, d)
  BY <1>11, <1>14, Zenon DEF Pieces
<1>16. FieldsFound(IF d = <<>> THEN r ELSE Append(r, d), a, b, c, d)
  BY <1>13, FoundFact, Zenon
<1> QED BY <1>12, <1>15, <1>16, Zenon

(***************************************************************************)
(* Labels without bars are found again, the last one only if it is not     *)
(* empty.                                                                  *)
(***************************************************************************)
LEMMA WritingFields ==
  ASSUME NEW labels \in Seq(Text), \A k \in DOMAIN labels : ~Has("|", labels[k]),
         NEW out, IsWriting(out, labels)
  PROVE  \A i \in 1..Len(labels) :
           InField(out[i], "|", SubSeq(labels, 1, i-1), labels[i])
<1> DEFINE n == Len(labels)
           Good(i) == InField(out[i], "|", SubSeq(labels, 1, i-1), labels[i])
           S == {i \in 0..n : i # 0 => Good(i)}
<1>1. n \in Nat /\ "|" \in Token BY DEF Token
<1>2. 0 \in S BY <1>1
<1>3. ASSUME NEW i \in 1..n, i - 1 \in S PROVE i \in S
  <2>1. labels[i] \in Text /\ ~Has("|", labels[i]) BY <1>1
  <2>2. CASE i = 1
    <3>1. out[i] = <<>> \o labels[i] BY <2>2 DEF IsWriting
    <3>2. SubSeq(labels, 1, i-1) = <<>> BY <2>2, PrefixFact
    <3>3. AtField(<<>>, "|", <<>>) BY AtBeginning, Zenon
    <3>4. InField(<<>> \o labels[i], "|", <<>>, labels[i])
      BY <1>1, <2>1, <3>3, EndField, Zenon
    <3>5. Good(i) BY <3>1, <3>2, <3>4, Zenon
    <3> QED BY <3>5
  <2>3. CASE i # 1
    <3>1. i - 1 \in 1..n /\ labels[i-1] \in Text BY <1>1, <2>3
    <3>2. out[i] = Append(out[i-1], "|") \o labels[i] BY <2>3 DEF IsWriting
    <3>3. Good(i-1) BY <1>3, <3>1
    <3>4. AtField(Append(out[i-1], "|"), "|",
                  Append(SubSeq(labels, 1, (i-1)-1), labels[i-1]))
      BY <1>1, <3>1, <3>3, EndSeparator, Zenon
    <3>5. SubSeq(labels, 1, i-1) = Append(SubSeq(labels, 1, (i-1)-1), labels[i-1])
      BY <3>1, PrefixFact
    <3>6. AtField(Append(out[i-1], "|"), "|", SubSeq(labels, 1, i-1))
      BY <3>4, <3>5, Zenon
    <3>7. InField(Append(out[i-1], "|") \o labels[i], "|", SubSeq(labels, 1, i-1),
                  labels[i])
      BY <1>1, <2>1, <3>6, EndField, Zenon
    <3>8. Good(i) BY <3>2, <3>7, Zenon
    <3> QED BY <3>8
  <2> QED BY <2>2, <2>3
<1>4. \A i \in 0..n : i \in S
  <2> HIDE DEF S, n
  <2> QED BY <1>1, <1>2, <1>3, SetInduction
<1>5. ASSUME NEW i \in 1..n PROVE Good(i)
  <2> HIDE DEF Good
  <2> QED BY <1>1, <1>4
<1> QED BY <1>5

(***************************************************************************)
(* IssueItem cuts the labels UpdateIssuesTextFile wrote into the same      *)
(* labels, except that an empty last one is dropped.                       *)
(***************************************************************************)
LEMMA SplitLabels ==
  ASSUME NEW labels \in Seq(Text), \A k \in DOMAIN labels : ~Has("|", labels[k])
  PROVE  split(WriteLabels(labels), "|") = labels
           <=> (labels # <<>> => labels[Len(labels)] # <<>>)
<1> DEFINE n == Len(labels)
           text == WriteLabels(labels)
<1>1. PICK out : IsWriting(out, labels) /\ text = out[n]
  BY WriteLabelsWriting
<1>2. text \in Text BY WriteLabelsType
<1>3. split(text, "|") = Pieces(End(text, "|")) BY <1>2, EndFact
<1> HIDE DEF text
<1>4. CASE labels = <<>>
  <2>1. text = <<>> BY <1>1, <1>4 DEF IsWriting
  <2>2. End(<<>>, "|").pieces = <<>> /\ End(<<>>, "|").line = <<>>
    BY EndEmpty, Zenon
  <2>3. split(text, "|") = <<>> BY <1>3, <2>1, <2>2, Zenon DEF Pieces
  <2> QED BY <1>4, <2>3 DEF text
<1>5. CASE labels # <<>>
  <2>1. n \in 1..n /\ n \in Nat BY <1>5
  <2>2. InField(text, "|", SubSeq(labels, 1, n-1), labels[n])
    <3>1. InField(out[n], "|", SubSeq(labels, 1, n-1), labels[n])
      BY <1>1, <2>1, WritingFields, Zenon
    <3> QED BY <1>1, <3>1, Zenon
  <2>3. split(text, "|") = IF labels[n] = <<>> THEN SubSeq(labels, 1, n-1)
                           ELSE Append(SubSeq(labels, 1, n-1), labels[n])
    BY <1>3, <2>2, Zenon DEF Pieces, InField
  <2>4. Append(SubSeq(labels, 1, n-1), labels[n]) = labels BY <2>1, PrefixFact
  <2>5. SubSeq(labels, 1, n-1) # labels
    <3>1. n - 1 \in 0..n /\ n - 1 # n BY <2>1
    <3>2. Len(SubSeq(labels, 1, n-1)) = n - 1 BY <3>1, PrefixFact, Zenon
    <3> QED BY <3>1, <3>2
  <2>6. split(text, "|") = labels <=> labels[n] # <<>>
    BY <2>3, <2>4, <2>5, Zenon
  <2> QED BY <1>5, <2>6 DEF text
<1> QED BY <1>4, <1>5

(***************************************************************************)
(* Writing labels adds no token but bars.                                  *)
(***************************************************************************)
LEMMA LabelsPlain ==
  ASSUME NEW labels \in Seq(Text), NEW x, x # "|", \A k \in DOMAIN labels : ~Has(x, labels[k])
  PROVE  ~Has(x, WriteLabels(labels))
<1> DEFINE n == Len(labels)
<1>1. PICK out : IsWriting(out, labels) /\ WriteLabels(labels) = out[n]
  BY WriteLabelsWriting
<1> DEFINE S == {i \in 0..n : ~Has(x, out[i])}
<1>2. n \in Nat /\ "|" \in Token BY DEF Token
<1>3. 0 \in S
  <2>1. out[0] = <<>> BY <1>1 DEF IsWriting
  <2>2. ~Has(x, out[0]) BY <2>1, HasFact, Zenon
  <2> QED BY <1>2, <2>2
<1>4. ASSUME NEW i \in 1..n, i - 1 \in S PROVE i \in S
  <2>1. labels[i] \in Text /\ ~Has(x, labels[i]) BY <1>2
  <2>2. i - 1 \in 0..n /\ out[i-1] \in Text BY <1>1, <1>2 DEF IsWriting
  <2> DEFINE front == IF i = 1 THEN <<>> ELSE Append(out[i-1], "|")
  <2>3. front \in Text BY <2>2, TextFacts
  <2>4. ~Has(x, Append(out[i-1], "|"))
    <3>1. ~Has(x, out[i-1]) BY <1>4
    <3>2. Has(x, Append(out[i-1], "|")) <=> Has(x, out[i-1]) \/ x = "|"
      BY <1>2, <2>2, HasFact
    <3> QED BY <3>1, <3>2
  <2>5. ~Has(x, front) BY <2>4, HasFact, Zenon
  <2>6. out[i] = front \o labels[i] BY <1>1 DEF IsWriting
  <2> HIDE DEF front
  <2>7. Has(x, front \o labels[i]) <=> Has(x, front) \/ Has(x, labels[i])
    BY <2>1, <2>3, HasFact
  <2>8. ~Has(x, out[i]) BY <2>1, <2>5, <2>6, <2>7
  <2> QED BY <1>2, <2>8
<1>5. \A i \in 0..n : i \in S
  <2> HIDE DEF S, n
  <2> QED BY <1>2, <1>3, <1>4, SetInduction
<1> QED BY <1>1, <1>2, <1>5

-----------------------------------------------------------------------------
(***************************************************************************)
(* The tokens of a piece are tokens of the text, the separator left out.   *)
(***************************************************************************)
CutFrom(piece, text, sep) == \A x : Has(x, piece) => x # sep /\ Has(x, text)

(***************************************************************************)
(* This is so for every piece of every text.                               *)
(***************************************************************************)
LEMMA SplitPieces ==
  ASSUME NEW text \in Text, NEW sep
  PROVE  \A k \in DOMAIN split(text, sep) : CutFrom(split(text, sep)[k], text, sep)
<1> DEFINE n == Len(text)
           Good(end) == /\ \A k \in DOMAIN end.pieces : CutFrom(end.pieces[k], text, sep)
                        /\ CutFrom(end.line, text, sep)
<1>1. PICK scan : IsScan(scan, text, sep) /\ split(text, sep) = Pieces(scan[n])
  BY SplitScan
<1> DEFINE S == {i \in 0..n : Good(scan[i])}
<1>2. n \in Nat /\ \A i \in 0..n : scan[i] \in Scanned BY <1>1 DEF Text, IsScan
<1>3. CutFrom(<<>>, text, sep) BY HasFact, Zenon DEF CutFrom
<1>4. 0 \in S
  <2> DEFINE b == scan[0]
  <2>1. b = [pieces |-> <<>>, line |-> <<>>] BY <1>1 DEF IsScan
  <2> HIDE DEF b
  <2>2. b.pieces = <<>> /\ b.line = <<>> BY <2>1
  <2>3. Good(b) BY <1>3, <2>2
  <2> QED BY <1>2, <2>3 DEF b
<1>5. ASSUME NEW i \in 1..n, i - 1 \in S PROVE i \in S
  <2> DEFINE old == scan[i-1]
             new == scan[i]
  <2>1. old \in Scanned /\ Good(old) /\ i \in 0..n BY <1>2, <1>5
  <2>2. old.pieces \in Seq(Text) /\ old.line \in Text /\ text[i] \in Token
    BY <2>1 DEF Scanned, Text
  <2>3. new = ScanStep(old, text[i], sep) BY <1>1 DEF IsScan
  <2> HIDE DEF old, new
  <2>4. CASE text[i] = sep
    <3> DEFINE more == Append(old.pieces, old.line)
    <3>1. new = [pieces |-> more, line |-> <<>>] BY <2>3, <2>4 DEF ScanStep
    <3>2. \A k \in DOMAIN more : CutFrom(more[k], text, sep) BY <2>1, <2>2
    <3> HIDE DEF more
    <3>3. new.pieces = more /\ new.line = <<>> BY <3>1
    <3> QED BY <1>3, <2>1, <3>2, <3>3 DEF new
  <2>5. CASE text[i] # sep
    <3> DEFINE more == Append(old.line, text[i])
    <3>1. new = [pieces |-> old.pieces, line |-> more] BY <2>3, <2>5 DEF ScanStep
    <3>2. Has(text[i], text)
      <4>1. i \in DOMAIN text BY DEF Text
      <4> QED BY <4>1 DEF Has
    <3>3. CutFrom(more, text, sep)
      BY <2>1, <2>2, <2>5, <3>2, HasFact, Zenon DEF CutFrom
    <3> HIDE DEF more
    <3>4. new.pieces = old.pieces /\ new.line = more BY <3>1
    <3> QED BY <2>1, <3>3, <3>4 DEF new
  <2> QED BY <2>4, <2>5
<1>6. \A i \in 0..n : i \in S
  <2> HIDE DEF S, n
  <2> QED BY <1>2, <1>4, <1>5, SetInduction
<1>7. Good(scan[n]) /\ scan[n] \in Scanned BY <1>2, <1>6
<1> DEFINE end == scan[n]
<1> HIDE DEF end
<1>8. ASSUME NEW k \in DOMAIN Pieces(end) PROVE CutFrom(Pieces(end)[k], text, sep)
  <2>1. end.pieces \in Seq(Text) /\ end.line \in Text BY <1>7 DEF Scanned, end
  <2> QED BY <1>7, <2>1 DEF Pieces, end
<1> QED BY <1>1, <1>8 DEF end

(***************************************************************************)
(* LoadIssues makes clean issues, whatever is in the file.                 *)
(***************************************************************************)
LEMMA ReadLineClean ==
  ASSUME NEW line \in Line, Readable(line)
  PROVE  Clean(ReadLine(line))
<1>1. PICK result : result = split(line.text, ",") OBVIOUS
<1>2. line.text \in Text BY DEF Line
<1>3. result \in Seq(Text) BY <1>1, <1>2, SplitType, Zenon
<1>4. Len(result) >= 4 BY <1>1, Zenon DEF Readable
<1>5. /\ 1 \in DOMAIN result /\ 2 \in DOMAIN result
      /\ 3 \in DOMAIN result /\ 4 \in DOMAIN result /\ result[3] \in Text
  BY <1>3, <1>4
<1>6. \A k \in DOMAIN result : ~Has(",", result[k])
  BY <1>1, <1>2, SplitPieces, Zenon DEF CutFrom
<1>7. PICK labels : labels = split(result[3], "|") OBVIOUS
<1>8. \A k \in DOMAIN labels : ~Has(",", labels[k]) /\ ~Has("|", labels[k])
  BY <1>5, <1>6, <1>7, SplitPieces, Zenon DEF CutFrom
<1>9. PICK e : e = ReadLine(line) OBVIOUS
<1>10. e = [id |-> line.id, status |-> result[1], owner |-> result[2],
            labels |-> labels, title |-> result[4]]
  BY <1>1, <1>7, <1>9, Zenon DEF ReadLine, IssueItem
<1>11. /\ e.status = result[1] /\ e.owner = result[2]
       /\ e.labels = labels /\ e.title = result[4]
  BY <1>10
<1>12. Clean(e) BY <1>5, <1>6, <1>8, <1>11, Zenon DEF Clean
<1> QED BY <1>9, <1>12

(***************************************************************************)
(* And no issue that LoadIssues makes has a separator in a field.          *)
(***************************************************************************)
LEMMA ReadFileClean ==
  ASSUME NEW file \in File
  PROVE  \A k \in DOMAIN ReadFile(file) : Clean(ReadFile(file)[k])
<1> DEFINE n == Len(file)
           Good(list) == \A k \in DOMAIN list : Clean(list[k])
<1>1. PICK f : IsReading(f, file) /\ ReadFile(file) = f[n] BY ReadFileReading
<1> DEFINE S == {i \in 0..n : Good(f[i])}
<1>2. n \in Nat /\ \A i \in 0..n : f[i] \in Seq(Issue)
  BY <1>1 DEF File, IsReading
<1>3. 0 \in S BY <1>1, <1>2 DEF IsReading
<1>4. ASSUME NEW i \in 1..n, i - 1 \in S PROVE i \in S
  <2>1. /\ f[i-1] \in Seq(Issue) /\ file[i] \in Line /\ i-1 \in 0..n /\ i \in 0..n
        /\ f[i] = IF Readable(file[i]) THEN Append(f[i-1], ReadLine(file[i]))
                  ELSE f[i-1]
    BY <1>1, <1>2 DEF File, IsReading
  <2>2. Good(f[i-1]) BY <1>4
  <2>3. CASE ~Readable(file[i]) BY <2>1, <2>2, <2>3
  <2>4. CASE Readable(file[i])
    <3> DEFINE l == f[i-1]
               e == ReadLine(file[i])
    <3>1. e \in Issue /\ Clean(e) BY <2>1, <2>4, ReadLineType, ReadLineClean
    <3>2. f[i] = Append(l, e) BY <2>1, <2>4
    <3>3. l \in Seq(Issue) /\ Good(l) BY <2>1, <2>2
    <3> HIDE DEF l, e
    <3>4. Good(Append(l, e)) BY <3>1, <3>3
    <3> QED BY <2>1, <3>2, <3>4
  <2> QED BY <2>3, <2>4
<1>5. \A i \in 0..n : i \in S
  <2> HIDE DEF S, n
  <2> QED BY <1>2, <1>3, <1>4, SetInduction
<1> QED BY <1>1, <1>2, <1>5
-----------------------------------------------------------------------------
(***************************************************************************)
(* A clean issue is read from its line if it has a title, and comes back   *)
(* as it was if its last label is not empty.                               *)
(***************************************************************************)
LEMMA ReadWritten ==
  ASSUME NEW issue \in Issue, Clean(issue)
  PROVE  /\ Readable(WriteLine(issue, issue.status)) <=> issue.title # <<>>
         /\ issue.title # <<>> =>
              (ReadLine(WriteLine(issue, issue.status)) = issue <=> Storable(issue))
<1>1. /\ issue.id \in Int /\ issue.status \in Text /\ issue.owner \in Text
      /\ issue.labels \in Seq(Text) /\ issue.title \in Text
  BY DEF Issue
<1>2. PICK labels : labels = WriteLabels(issue.labels) OBVIOUS
<1>3. labels \in Text BY <1>1, <1>2, WriteLabelsType, Zenon
<1>4. ~Has(",", labels)
  <2>1. "," # "|" OBVIOUS
  <2>2. \A k \in DOMAIN issue.labels : ~Has(",", issue.labels[k]) BY Zenon DEF Clean
  <2> QED BY <1>1, <1>2, <2>1, <2>2, LabelsPlain, Zenon
<1>5. /\ ~Has(",", issue.status) /\ ~Has(",", issue.owner) /\ ~Has(",", issue.title)
  BY Zenon DEF Clean
<1>6. PICK line : line = WriteLine(issue, issue.status) OBVIOUS
<1>7. line.id = issue.id /\ line.text = FourFields(issue.status, issue.owner, labels, issue.title)
  BY <1>2, <1>6, Zenon DEF WriteLine, FourFields
<1>8. PICK result : result = split(line.text, ",") OBVIOUS
<1>9. FieldsFound(result, issue.status, issue.owner, labels, issue.title)
  <2>1. FieldsFound(split(FourFields(issue.status, issue.owner, labels, issue.title), ","),
                    issue.status, issue.owner, labels, issue.title)
    BY <1>1, <1>3, <1>4, <1>5, SplitFields, Zenon
  <2> QED BY <1>7, <1>8, <2>1, Zenon
<1>10. Readable(line) <=> Len(result) >= 4 BY <1>8, Zenon DEF Readable
<1>11. Readable(line) <=> issue.title # <<>> BY <1>9, <1>10, Zenon DEF FieldsFound
<1>12. ASSUME issue.title # <<>> PROVE ReadLine(line) = issue <=> Storable(issue)
  <2>1. /\ result[1] = issue.status /\ result[2] = issue.owner
        /\ result[3] = labels /\ result[4] = issue.title
    BY <1>9, <1>12, Zenon DEF FieldsFound
  <2>2. PICK back : back = split(labels, "|") OBVIOUS
  <2>3. back = issue.labels
          <=> (issue.labels # <<>> => issue.labels[Len(issue.labels)] # <<>>)
    <3>1. \A k \in DOMAIN issue.labels : ~Has("|", issue.labels[k]) BY Zenon DEF Clean
    <3> QED BY <1>1, <1>2, <2>2, <3>1, SplitLabels, Zenon
  <2>4. ReadLine(line) = [id |-> issue.id, status |-> issue.status,
                          owner |-> issue.owner, labels |-> back,
                          title |-> issue.title]
    BY <1>7, <1>8, <2>1, <2>2, Zenon DEF ReadLine, IssueItem
  <2>5. PICK e : e = ReadLine(line) OBVIOUS
  <2>6. e = issue <=> back = issue.labels
    <3>1. e = [id |-> issue.id, status |-> issue.status, owner |-> issue.owner,
               labels |-> back, title |-> issue.title]
      BY <2>4, <2>5, Zenon
    <3>2. e.labels = back BY <3>1
    <3>3. issue = [id |-> issue.id, status |-> issue.status, owner |-> issue.owner,
                   labels |-> issue.labels, title |-> issue.title]
      BY DEF Issue
    <3> QED BY <3>1, <3>2, <3>3
  <2>7. e = issue <=> Storable(issue) BY <1>12, <2>3, <2>6, Zenon DEF Storable
  <2> QED BY <2>5, <2>7
<1> QED BY <1>6, <1>11, <1>12

(***************************************************************************)
(* LoadIssues makes at most one issue of each line, and one of every line  *)
(* exactly if all lines can be read.                                       *)
(***************************************************************************)
AllReadable(file) == \A i \in DOMAIN file : Readable(file[i])

(***************************************************************************)
(* The list has the length of the file exactly if all lines are readable,  *)
(* and then it has the issues of the lines in their order.                 *)
(***************************************************************************)
LEMMA ReadFileLength ==
  ASSUME NEW file \in File
  PROVE  /\ Len(ReadFile(file)) = Len(file) <=> AllReadable(file)
         /\ AllReadable(file) =>
              \A i \in DOMAIN file : ReadFile(file)[i] = ReadLine(file[i])
<1> DEFINE n == Len(file)
           All(i) == \A j \in 1..i : Readable(file[j])
           Good(list, i) ==
             /\ Len(list) <= i
             /\ Len(list) = i <=> All(i)
             /\ All(i) => \A j \in 1..i : list[j] = ReadLine(file[j])
<1>1. PICK f : IsReading(f, file) /\ ReadFile(file) = f[n] BY ReadFileReading
<1> DEFINE S == {i \in 0..n : Good(f[i], i)}
<1>2. n \in Nat /\ \A i \in 0..n : f[i] \in Seq(Issue)
  BY <1>1 DEF File, IsReading
<1>3. 0 \in S BY <1>1, <1>2 DEF IsReading
<1>4. ASSUME NEW i \in 1..n, i - 1 \in S PROVE i \in S
  <2>1. /\ f[i-1] \in Seq(Issue) /\ file[i] \in Line /\ i-1 \in 0..n /\ i \in 0..n
        /\ f[i] = IF Readable(file[i]) THEN Append(f[i-1], ReadLine(file[i]))
                  ELSE f[i-1]
    BY <1>1, <1>2 DEF File, IsReading
  <2>2. Good(f[i-1], i-1) BY <1>4
  <2>3. All(i) <=> All(i-1) /\ Readable(file[i]) OBVIOUS
  <2>4. CASE ~Readable(file[i])
    <3>1. f[i] = f[i-1] BY <2>1, <2>4
    <3>2. Len(f[i]) <= i - 1 BY <2>2, <3>1
    <3>3. Len(f[i]) \in Nat BY <2>1, <3>1
    <3>4. ~All(i) BY <2>3, <2>4
    <3> HIDE DEF All
    <3>5. Good(f[i], i) BY <3>2, <3>3, <3>4
    <3> QED BY <2>1, <3>5
  <2>5. CASE Readable(file[i])
    <3> DEFINE l == f[i-1]
               e == ReadLine(file[i])
               new == Append(l, e)
    <3>1. e \in Issue BY <2>1, <2>5, ReadLineType
    <3>2. f[i] = new BY <2>1, <2>5
    <3>3. l \in Seq(Issue) /\ Good(l, i-1) BY <2>1, <2>2
    <3>4. All(i) <=> All(i-1) BY <2>3, <2>5
    <3> HIDE DEF l
    <3>5. /\ Len(new) = Len(l) + 1 /\ new[Len(l) + 1] = e
          /\ \A j \in 1..Len(l) : new[j] = l[j]
      <4> HIDE DEF e
      <4> QED BY <3>1, <3>3
    <3> HIDE DEF new
    <3>6. Len(l) \in Nat BY <3>3
    <3>7. Len(new) <= i /\ (Len(new) = i <=> All(i))
      <4> HIDE DEF All
      <4> QED BY <3>3, <3>4, <3>5, <3>6
    <3>8. ASSUME All(i), NEW j \in 1..i PROVE new[j] = ReadLine(file[j])
      <4>1. Len(l) = i - 1 /\ \A m \in 1..(i-1) : l[m] = ReadLine(file[m])
        <5> HIDE DEF All
        <5> QED BY <3>3, <3>4, <3>8
      <4>2. CASE j = i BY <3>5, <4>1, <4>2
      <4>3. CASE j # i
        <5>1. j \in 1..(i-1) BY <4>3
        <5> QED BY <3>5, <4>1, <5>1
      <4> QED BY <4>2, <4>3
    <3> HIDE DEF All
    <3> QED BY <2>1, <3>2, <3>7, <3>8
  <2> QED BY <2>4, <2>5
<1>5. \A i \in 0..n : i \in S
  <2> HIDE DEF S, n
  <2> QED BY <1>2, <1>3, <1>4, SetInduction
<1>6. Good(f[n], n) 
  <2> HIDE DEF Good
  <2> QED BY <1>2, <1>5
<1>7. DOMAIN file = 1..n BY DEF File
<1>8. AllReadable(file) <=> All(n) BY <1>7 DEF AllReadable
<1> HIDE DEF All
<1> QED BY <1>1, <1>6, <1>7, <1>8

-----------------------------------------------------------------------------
(***************************************************************************)
(* A list comes back from its file exactly if the format can hold it.      *)
(***************************************************************************)
LEMMA SavedExact ==
  ASSUME NEW issues \in Seq(Issue)
  PROVE  LET back == ReadFile(WriteFile(issues, <<>>, 0))
         IN  /\ back \in Seq(Issue)
             /\ Increasing(issues) => Increasing(back)
             /\ \A i \in DOMAIN back : Clean(back[i])
             /\ back = issues <=> AllStorable(issues)
<1>1. PICK file : file = WriteFile(issues, <<>>, 0) OBVIOUS
<1>2. PICK back : back = ReadFile(file) OBVIOUS
<1>3. /\ file \in File /\ Len(file) = Len(issues)
      /\ Increasing(issues) => Increasing(file)
  BY <1>1, WriteFileType
<1>4. \A i \in DOMAIN issues : file[i] = WriteLine(issues[i], issues[i].status)
  BY <1>1 DEF WriteFile
<1>5. back \in Seq(Issue) /\ (Increasing(issues) => Increasing(back))
  BY <1>2, <1>3, ReadFileType
<1>6. \A i \in DOMAIN back : Clean(back[i]) BY <1>2, <1>3, ReadFileClean
<1>7. DOMAIN file = DOMAIN issues BY <1>3 DEF File
<1>8. /\ Len(back) = Len(file) <=> AllReadable(file)
      /\ AllReadable(file) => \A i \in DOMAIN file : back[i] = ReadLine(file[i])
  BY <1>2, <1>3, ReadFileLength
<1>9. ASSUME NEW i \in DOMAIN issues, Clean(issues[i])
      PROVE  /\ Readable(file[i]) <=> issues[i].title # <<>>
             /\ issues[i].title # <<>> =>
                  (ReadLine(file[i]) = issues[i] <=> Storable(issues[i]))
  BY <1>4, <1>9, ReadWritten
<1>10. ASSUME back = issues PROVE AllStorable(issues)
  <2>1. AllReadable(file) BY <1>3, <1>8, <1>10
  <2> SUFFICES ASSUME NEW i \in DOMAIN issues PROVE Storable(issues[i])
    BY DEF AllStorable
  <2>2. Clean(issues[i]) BY <1>6, <1>10
  <2>3. Readable(file[i]) /\ issues[i] = ReadLine(file[i])
    BY <1>7, <1>8, <1>10, <2>1 DEF AllReadable
  <2> QED BY <1>9, <2>2, <2>3
<1>11. ASSUME AllStorable(issues) PROVE back = issues
  <2>1. ASSUME NEW i \in DOMAIN issues
        PROVE  Readable(file[i]) /\ ReadLine(file[i]) = issues[i]
    <3>1. Storable(issues[i]) BY <1>11 DEF AllStorable
    <3>2. Clean(issues[i]) /\ issues[i].title # <<>> BY <3>1 DEF Storable
    <3> QED BY <1>9, <3>1, <3>2
  <2>2. AllReadable(file) BY <1>7, <2>1 DEF AllReadable
  <2>3. Len(back) = Len(issues) BY <1>3, <1>8, <2>2
  <2>4. \A i \in DOMAIN issues : back[i] = issues[i] BY <1>7, <1>8, <2>1, <2>2
  <2> QED BY <1>5, <2>3, <2>4
<1> QED BY <1>1, <1>2, <1>5, <1>6, <1>10, <1>11
-----------------------------------------------------------------------------
(***************************************************************************)
(* Labels that survive AddNewIssue: at most one, which is not empty and    *)
(* has no separator.                                                       *)
(***************************************************************************)
PlainLabels(labels) ==
  /\ Len(labels) <= 1
  /\ \A k \in DOMAIN labels :
       labels[k] # <<>> /\ ~Has(",", labels[k]) /\ ~Has("|", labels[k])

(***************************************************************************)
(* AddNewIssue joins them and IssueItem cuts them again, to the same.      *)
(***************************************************************************)
LEMMA PlainLabelsKept ==
  ASSUME NEW labels \in Seq(Text), PlainLabels(labels)
  PROVE  split(GetLabelsInSingleString(labels), "|") = labels
<1>1. PICK ss : /\ IsJoining(ss, labels)
                /\ GetLabelsInSingleString(labels) = ss[Len(labels)]
  BY LabelsJoining
<1>2. PICK out : IsWriting(out, labels) /\ WriteLabels(labels) = out[Len(labels)]
  BY WriteLabelsWriting
<1>3. Len(labels) \in {0, 1}
  <2>1. Len(labels) <= 1 BY Zenon DEF PlainLabels
  <2>2. PICK n \in Nat : n = Len(labels) OBVIOUS
  <2>3. n = 0 \/ n = 1 BY <2>1, <2>2
  <2> QED BY <2>2, <2>3
<1>4. ss[Len(labels)] = out[Len(labels)]
  <2>1. CASE Len(labels) = 0 BY <1>1, <1>2, <2>1 DEF IsJoining, IsWriting
  <2>2. CASE Len(labels) = 1
    <3>1. ss[1] = <<>> \o labels[1]
      <4>1. ss[0] = <<>> BY <1>1, Zenon DEF IsJoining
      <4>2. \A i \in 1..Len(labels) : ss[i-1] = <<>> => ss[i] = <<>> \o labels[i]
        BY <1>1, Zenon DEF IsJoining
      <4> QED BY <2>2, <4>1, <4>2
    <3>2. out[1] = <<>> \o labels[1] BY <1>2, <2>2 DEF IsWriting
    <3> QED BY <2>2, <3>1, <3>2
  <2> QED BY <1>3, <2>1, <2>2
<1>5. \A k \in DOMAIN labels : labels[k] # <<>> /\ ~Has("|", labels[k])
  BY Zenon DEF PlainLabels
<1>6. labels # <<>> => labels[Len(labels)] # <<>>
  <2>1. labels # <<>> => Len(labels) \in DOMAIN labels OBVIOUS
  <2> QED BY <1>5, <2>1, Zenon
<1>7. split(WriteLabels(labels), "|") = labels BY <1>5, <1>6, SplitLabels, Zenon
<1> QED BY <1>1, <1>2, <1>4, <1>7, Zenon

(***************************************************************************)
(* The list as a revision with the chosen issues resolved has it.          *)
(***************************************************************************)
IsChosen(ids, revnum, id) == revnum > 0 /\ \E k \in DOMAIN ids : ids[k] = id

WrittenAs(list, ids, revnum) ==
  [i \in DOMAIN list |-> IF IsChosen(ids, revnum, list[i].id)
                         THEN [list[i] EXCEPT !.status = Resolved] ELSE list[i]]

(***************************************************************************)
(* That list is written without choosing anything, and it is as storable.  *)
(***************************************************************************)
LEMMA WrittenAsFact ==
  ASSUME NEW list \in Seq(Issue), AllStorable(list), NEW ids, NEW rev
  PROVE  /\ WrittenAs(list, ids, rev) \in Seq(Issue)
         /\ AllStorable(WrittenAs(list, ids, rev))
         /\ WriteFile(list, ids, rev) = WriteFile(WrittenAs(list, ids, rev), <<>>, 0)
<1>1. PICK new : new = WrittenAs(list, ids, rev) OBVIOUS
<1>2. PICK resolved \in Text : resolved = Resolved BY TextFacts
<1>3. ~Has(",", resolved)
  <2>1. "resolved" # "," OBVIOUS
  <2>2. \A x, y : x # y => ~Has(y, <<x>>) BY DEF Has
  <2> QED BY <1>2, <2>1, <2>2, Zenon DEF Resolved
<1>4. ASSUME NEW i \in DOMAIN list
      PROVE  /\ new[i] \in Issue /\ Storable(new[i])
             /\ WriteLine(list[i], IF IsChosen(ids, rev, list[i].id) THEN Resolved
                                   ELSE list[i].status)
                  = WriteLine(new[i], new[i].status)
  <2>1. list[i] \in Issue /\ Storable(list[i]) BY MemberFact DEF AllStorable
  <2>2. CASE ~IsChosen(ids, rev, list[i].id)
    <3>1. new[i] = list[i] BY <1>1, <2>2 DEF WrittenAs
    <3> QED BY <2>1, <2>2, <3>1
  <2>3. CASE IsChosen(ids, rev, list[i].id)
    <3>1. new[i] = [list[i] EXCEPT !.status = resolved] BY <1>1, <1>2, <2>3 DEF WrittenAs
    <3>2. new[i] \in Issue BY <1>2, <2>1, <3>1 DEF Issue
    <3>3. /\ new[i].id = list[i].id /\ new[i].owner = list[i].owner
          /\ new[i].labels = list[i].labels /\ new[i].title = list[i].title
          /\ new[i].status = resolved
      BY <2>1, <3>1 DEF Issue
    <3>4. Storable(new[i]) BY <1>3, <2>1, <3>3, Zenon DEF Storable, Clean
    <3>5. WriteLine(list[i], resolved) = WriteLine(new[i], new[i].status)
      BY <3>3, Zenon DEF WriteLine
    <3> QED BY <1>2, <2>3, <3>2, <3>4, <3>5
  <2> QED BY <2>2, <2>3
<1>5. DOMAIN new = DOMAIN list /\ new = [i \in DOMAIN list |-> new[i]]
  BY <1>1 DEF WrittenAs
<1>6. new \in Seq(Issue) BY <1>4, <1>5
<1>7. AllStorable(new) BY <1>4, <1>5 DEF AllStorable
<1>8. /\ WriteFile(new, <<>>, 0) = [i \in DOMAIN list |-> WriteLine(new[i], new[i].status)]
      /\ WriteFile(list, ids, rev)
           = [i \in DOMAIN list |->
                WriteLine(list[i], IF IsChosen(ids, rev, list[i].id) THEN Resolved
                                   ELSE list[i].status)]
  BY <1>5 DEF WriteFile, IsChosen
<1>9. WriteFile(list, ids, rev) = WriteFile(new, <<>>, 0) BY <1>4, <1>8, Zenon
<1> QED BY <1>1, <1>6, <1>7, <1>9

(***************************************************************************)
(* So it is what LoadIssues finds in the revision, and a list that is      *)
(* saved without a commit comes back as it is.                             *)
(***************************************************************************)
LEMMA WrittenComesBack ==
  ASSUME NEW list \in Seq(Issue), AllStorable(list), NEW ids, NEW rev
  PROVE  /\ ReadFile(WriteFile(list, ids, rev)) = WrittenAs(list, ids, rev)
         /\ AllStorable(ReadFile(WriteFile(list, ids, rev)))
         /\ rev = 0 => ReadFile(WriteFile(list, ids, rev)) = list
<1>1. PICK new \in Seq(Issue) : new = WrittenAs(list, ids, rev) BY WrittenAsFact
<1>2. AllStorable(new) /\ WriteFile(list, ids, rev) = WriteFile(new, <<>>, 0)
  BY <1>1, WrittenAsFact
<1>3. ReadFile(WriteFile(new, <<>>, 0)) = new BY <1>2, SavedExact
<1>4. ASSUME rev = 0 PROVE new = list BY <1>1, <1>4 DEF WrittenAs, IsChosen
<1> QED BY <1>1, <1>2, <1>3, <1>4
-----------------------------------------------------------------------------
(***************************************************************************)
(* What a user may enter so that the file can hold it.                     *)
(***************************************************************************)
Plain(input) ==
  /\ input.title # <<>> /\ ~Has(",", input.title) /\ ~Has(",", input.owner)
  /\ PlainLabels(input.labels)

(***************************************************************************)
(* No status of CIssueDlg or of IssueList::Delete has a comma.             *)
(***************************************************************************)
LEMMA StatusPlain ==
  /\ ~Has(",", Active) /\ ~Has(",", Deleted)
  /\ \A status \in EditStatus : ~Has(",", status)
<1>1. \A x, y : x # y => ~Has(y, <<x>>) BY DEF Has
<1>2. /\ "active" # "," /\ "resolved" # "," /\ "closed" # "," /\ "deleted" # ","
  OBVIOUS
<1> QED BY <1>1, <1>2, Zenon DEF Active, Resolved, Deleted, EditStatus

(***************************************************************************)
(* Labels that are not empty have a last one.                              *)
(***************************************************************************)
LEMMA LastFact ==
  \A labels \in Seq(Text) : labels # <<>> => Len(labels) \in DOMAIN labels
OBVIOUS

(***************************************************************************)
(* CIssueDlg makes of it an issue the file can hold.                       *)
(***************************************************************************)
LEMMA EnteredPlain ==
  ASSUME NEW issue \in Issue, ~Has(",", issue.status),
         NEW input \in DialogInput, Plain(input)
  PROVE  /\ Storable(Entered(issue, input))
         /\ PlainLabels(Entered(issue, input).labels)
<1>1. PICK new : new = Entered(issue, input) OBVIOUS
<1>2. /\ new.title = input.title /\ new.owner = input.owner
      /\ new.labels = input.labels /\ input.labels \in Seq(Text)
      /\ new.status = issue.status \/ new.status \in EditStatus
  BY <1>1 DEF Entered, Issue, DialogInput
<1>3. PICK labels \in Seq(Text) : labels = input.labels BY <1>2
<1>4. /\ ~Has(",", new.status) /\ ~Has(",", new.title) /\ ~Has(",", new.owner)
      /\ new.title # <<>> /\ PlainLabels(labels)
  BY <1>2, <1>3, StatusPlain, Zenon DEF Plain
<1>5. labels # <<>> => Len(labels) \in DOMAIN labels BY LastFact, Zenon
<1>6. Storable(new) BY <1>2, <1>3, <1>4, <1>5, Zenon DEF PlainLabels, Storable, Clean
<1> QED BY <1>1, <1>2, <1>3, <1>4, <1>6

(***************************************************************************)
(* AddNewIssue with such an issue: the others stay, and the file can hold  *)
(* the list.                                                               *)
(***************************************************************************)
LEMMA AddNewPlain ==
  ASSUME NEW list \in Seq(Issue), AllStorable(list), Increasing(list),
         NEW issue \in Issue, Storable(issue), PlainLabels(issue.labels)
  PROVE  /\ AllStorable(AddNew(list, issue))
         /\ \A i \in DOMAIN list : /\ i \in DOMAIN AddNew(list, issue)
                                   /\ AddNew(list, issue)[i] = list[i]
<1>1. issue.labels \in Seq(Text) BY DEF Issue
<1>2. split(GetLabelsInSingleString(issue.labels), "|") = issue.labels
  BY <1>1, PlainLabelsKept
<1>3. PICK item : item = [id |-> GetMaxId(list) + 1, status |-> issue.status,
                          owner |-> issue.owner, labels |-> issue.labels,
                          title |-> issue.title]
  OBVIOUS
<1>4. AddNew(list, issue) = Append(list, item)
  BY <1>2, <1>3, Zenon DEF AddNew, IssueItem
<1>5. /\ item.status = issue.status /\ item.owner = issue.owner
      /\ item.labels = issue.labels /\ item.title = issue.title
  BY <1>3
<1>6. Storable(item) BY <1>5, Zenon DEF Storable, Clean
<1>7. PICK new : new = Append(list, item) OBVIOUS
<1>8. /\ DOMAIN new = 1..(Len(list) + 1) /\ new[Len(list) + 1] = item
      /\ \A i \in DOMAIN list : i \in DOMAIN new /\ new[i] = list[i]
  BY <1>7
<1>9. ASSUME NEW i \in DOMAIN new PROVE Storable(new[i])
  <2>1. i \in DOMAIN list \/ i = Len(list) + 1 BY <1>8
  <2> QED BY <1>6, <1>8, <2>1 DEF AllStorable
<1> QED BY <1>4, <1>7, <1>8, <1>9 DEF AllStorable

(***************************************************************************)
(* UpdateIssue and DeleteIssue leave a list that the file can hold.        *)
(***************************************************************************)
LEMMA UpdatePlain ==
  ASSUME NEW list \in Seq(Issue), AllStorable(list), NEW item, Storable(item)
  PROVE  AllStorable(Update(list, item))
<1> SUFFICES ASSUME NEW i \in DOMAIN list PROVE Storable(Update(list, item)[i])
  BY DEF AllStorable, Update
<1> QED BY DEF AllStorable, Update

(***************************************************************************)
(* For DeleteIssue only the status is another.                             *)
(***************************************************************************)
LEMMA DeletePlain ==
  ASSUME NEW list \in Seq(Issue), AllStorable(list), NEW ids
  PROVE  AllStorable(Delete(list, ids))
<1>1. PICK deleted : deleted = Deleted OBVIOUS
<1>2. ~Has(",", deleted) BY <1>1, StatusPlain, Zenon
<1> SUFFICES ASSUME NEW i \in DOMAIN list PROVE Storable(Delete(list, ids)[i])
  BY DEF AllStorable, Delete
<1>3. list[i] \in Issue /\ Storable(list[i]) BY MemberFact DEF AllStorable
<1>4. PICK new : new = [list[i] EXCEPT !.status = deleted] OBVIOUS
<1>5. Delete(list, ids)[i] \in {list[i], new} BY <1>1, <1>4 DEF Delete
<1>6. /\ new.owner = list[i].owner /\ new.labels = list[i].labels
      /\ new.title = list[i].title /\ new.status = deleted
  BY <1>3, <1>4 DEF Issue
<1>7. Storable(new) BY <1>2, <1>3, <1>6, Zenon DEF Storable, Clean
<1> QED BY <1>3, <1>5, <1>7

(***************************************************************************)
(* A file without lines is an empty list.                                  *)
(***************************************************************************)
LEMMA ReadNothing == ReadFile(<<>>) = <<>>
<1>1. <<>> \in File BY DEF File
<1>2. PICK f : IsReading(f, <<>>) /\ ReadFile(<<>>) = f[Len(<<>>)]
  BY <1>1, ReadFileReading
<1> QED BY <1>2 DEF IsReading
=============================================================================
