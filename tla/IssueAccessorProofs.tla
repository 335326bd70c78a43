------------------------ MODULE IssueAccessorProofs -------------------------
(***************************************************************************)
(* For any users, any input and any bounds: the invariants of              *)
(* IssueAccessor, and behind them that IssueAccessor implements            *)
(* IssueStore.                                                             *)
(***************************************************************************)
EXTENDS IssueAccessor, IssueTextProofs

-----------------------------------------------------------------------------
(***************************************************************************)
(* SetIssueChecked keeps a list of ids, for one id and for all entries of  *)
(* the dialog's map.                                                       *)
(***************************************************************************)
LEMMA CheckedFact ==
  ASSUME NEW ids \in Seq(Int), NEW id \in Int, NEW checked
  PROVE  WithIssueChecked(ids, id, checked) \in Seq(Int)
<1> DEFINE First(k) == ids[k] = id /\ \A j \in 1..(k-1) : ids[j] # id
           k0 == CHOOSE k \in DOMAIN ids : First(k)
<1>1. CASE checked BY <1>1 DEF WithIssueChecked
<1>2. CASE ~checked /\ ~GetIssuedChecked(ids, id) BY <1>2 DEF WithIssueChecked
<1>3. CASE ~checked /\ GetIssuedChecked(ids, id)
  <2> DEFINE T == {k \in DOMAIN ids : ids[k] = id}
  <2>1. T \in SUBSET Nat /\ T # {} BY <1>3 DEF GetIssuedChecked
  <2>2. PICK x \in T : \A y \in T : x <= y
    <3> HIDE DEF T
    <3> QED BY <2>1, LeastElement
  <2>3. First(x) BY <2>2
  <2>4. k0 \in DOMAIN ids
    <3> HIDE DEF First
    <3> QED BY <2>3
  <2>5. WithIssueChecked(ids, id, checked)
          = SubSeq(ids, 1, k0-1) \o SubSeq(ids, k0+1, Len(ids))
    BY <1>3 DEF WithIssueChecked
  <2> HIDE DEF k0
  <2>6. k0 \in Int /\ 1 <= k0 /\ k0 <= Len(ids) BY <2>4
  <2>7. SubSeq(ids, 1, k0-1) \in Seq(Int) BY <2>6
  <2>8. SubSeq(ids, k0+1, Len(ids)) \in Seq(Int) BY <2>6
  <2> QED BY <2>5, <2>7, <2>8
<1> QED BY <1>1, <1>2, <1>3

(***************************************************************************)
(* The same for all entries of the dialog's map, one after the other.      *)
(***************************************************************************)
LEMMA AllCheckedFact ==
  ASSUME NEW ids \in Seq(Int), NEW checkStatus
  PROVE  WithIssuesChecked(ids, checkStatus) \in Seq(Int)
<1> DEFINE n == MaxId
           V == Seq(Int)
           Step(before, id) ==
             IF id \in DOMAIN checkStatus
             THEN WithIssueChecked(before, id, checkStatus[id])
             ELSE before
           G == [p \in V \X (1..n) |-> Step(p[1], p[2])]
           Rec(f) == f = [i \in 0..n |-> IF i = 0 THEN ids ELSE Step(f[i-1], i)]
           fcn == CHOOSE f : Rec(f)
<1>1. n \in Nat /\ ids \in V BY AccessorAssumption
<1>2. ASSUME NEW v \in V, NEW i \in 1..n PROVE Step(v, i) \in V
  BY CheckedFact
<1>3. G \in Steps(n, V)
  <2> HIDE DEF V, Step
  <2> QED BY <1>2 DEF Steps
<1>4. \E f : Rec(f)
  <2>1. PICK f \in [0..n -> V] : IsRecursive(f, n, ids, G)
    <3> HIDE DEF V, G, n
    <3> QED BY <1>1, <1>3, RecursiveExists
  <2>2. ASSUME NEW i \in 0..n PROVE f[i] = IF i = 0 THEN ids ELSE Step(f[i-1], i)
    <3> HIDE DEF V, Step
    <3> USE DEF IsRecursive
    <3>1. CASE i = 0 BY <2>1, <3>1
    <3>2. CASE i # 0
      <4>1. i \in 1..n /\ i-1 \in 0..n BY <1>1, <3>2
      <4>2. f[i-1] \in V BY <4>1
      <4>3. G[<<f[i-1], i>>] = Step(f[i-1], i) BY <4>1, <4>2
      <4> QED BY <2>1, <3>2, <4>1, <4>3
    <3> QED BY <3>1, <3>2
  <2>3. Rec(f)
    <3> HIDE DEF V, Step, n
    <3> QED BY <2>2
  <2> QED BY <2>3
<1>5. Rec(fcn)
  <2> HIDE DEF Rec
  <2> QED BY <1>4
<1>6. fcn[0] = ids /\ \A i \in 1..n : fcn[i] = Step(fcn[i-1], i)
  <2> HIDE DEF fcn, Step
  <2> QED BY <1>1, <1>5
<1>7. \A i \in 0..n : fcn[i] \in V
  <2>1. fcn[0] \in V /\ \A i \in 1..n : fcn[i-1] \in V => fcn[i] \in V
    <3> HIDE DEF fcn, V, Step
    <3> QED BY <1>1, <1>2, <1>6
  <2> HIDE DEF fcn, V, Step
  <2> QED BY <1>1, <2>1, RecursiveRange
<1>8. WithIssuesChecked(ids, checkStatus) = fcn[n]
  BY Zenon DEF WithIssuesChecked
<1> HIDE DEF fcn
<1> QED BY <1>1, <1>7, <1>8

-----------------------------------------------------------------------------
(***************************************************************************)
(* What a checkout can leave: a working copy whose lines are those of a    *)
(* revision or those it had.                                               *)
(***************************************************************************)
LEMMA CheckedOutFact ==
  ASSUME repo \in Seq(File), repo # <<>>, \A r \in DOMAIN repo : Increasing(repo[r]),
         NEW copy \in WorkingCopy, copy.base <= Len(repo), Increasing(copy.lines),
         NEW new \in CheckedOut(copy, repo)
  PROVE  /\ new \in WorkingCopy /\ new.base <= Len(repo) /\ Increasing(new.lines)
         /\ new.lines \in {copy.lines, Latest}
<1>1. Len(repo) \in DOMAIN repo OBVIOUS
<1>2. Latest \in File /\ Increasing(Latest) BY <1>1 DEF Latest
<1> DEFINE kept == [copy EXCEPT !.base = Len(repo)]
           marked == [kept EXCEPT !.conflict = TRUE]
<1>3. /\ Fresh(repo) \in WorkingCopy
      /\ Fresh(repo).base = Len(repo) /\ Fresh(repo).lines = Latest
  BY <1>2 DEF Fresh, Latest, WorkingCopy
<1>4. kept \in WorkingCopy /\ kept.base = Len(repo) /\ kept.lines = copy.lines
  BY DEF WorkingCopy
<1>5. marked \in WorkingCopy /\ marked.base = Len(repo) /\ marked.lines = copy.lines
  <2> HIDE DEF kept
  <2> QED BY <1>4 DEF WorkingCopy
<1>6. new \in {copy, Fresh(repo), kept, marked} BY DEF CheckedOut
<1> HIDE DEF kept, marked
<1> QED BY <1>2, <1>3, <1>4, <1>5, <1>6

-----------------------------------------------------------------------------
(***************************************************************************)
(* The inductive invariant.  TypeOK is not inductive by itself: the id     *)
(* that GetMaxId chooses is a number because the ids of the list increase. *)
(* CommittedIsOwnList needs what holds one step earlier: a call that has   *)
(* written the file has its own list in the working copy, and its list,    *)
(* its ids and its argument do not change before it commits.               *)
(***************************************************************************)
SavedText(c) ==
  /\ pc[c] = "written" => wc[c].lines = TextToWrite(c)
  /\ pc[c] = "committed" => \E r \in DOMAIN repo : repo[r] = TextToWrite(c)

Inv == TypeOK /\ IncreasingIds /\ \A c \in Client : SavedText(c)

(***************************************************************************)
(* The same invariant taken apart: what it says of the repository, that    *)
(* the others are functions of the clients, and what it says of a client.  *)
(***************************************************************************)
Functions ==
  /\ wc        = [c \in Client |-> wc[c]]
  /\ tmp       = [c \in Client |-> tmp[c]]
  /\ issueList = [c \in Client |-> issueList[c]]
  /\ idList    = [c \in Client |-> idList[c]]
  /\ pc        = [c \in Client |-> pc[c]]
  /\ revnum    = [c \in Client |-> revnum[c]]
  /\ ret       = [c \in Client |-> ret[c]]

RepoOK == repo \in Seq(File) /\ \A r \in DOMAIN repo : Increasing(repo[r])

FilesOK(c) ==
  /\ wc[c] \in WorkingCopy /\ wc[c].base <= Len(repo) /\ Increasing(wc[c].lines)
  /\ tmp[c] \in File /\ Increasing(tmp[c])

MemoryOK(c) ==
  /\ issueList[c] \in Seq(Issue) /\ Increasing(issueList[c])
  /\ idList[c] \in Seq(Int)

CallOK(c) ==
  /\ pc[c] \in {"idle", "exported", "header", "checkedout", "written", "committed"}
  /\ revnum[c] \in Nat
  /\ ret[c] \in BOOLEAN

ClientOK(c) == FilesOK(c) /\ MemoryOK(c) /\ CallOK(c) /\ SavedText(c)

Parts == RepoOK /\ Functions /\ \A c \in Client : ClientOK(c)

(***************************************************************************)
(* The two forms of the invariant say the same.                            *)
(***************************************************************************)
LEMMA InvParts == Inv <=> Parts
<1>1. Inv => RepoOK /\ Functions /\ \A c \in Client : ClientOK(c)
  BY DEF Inv, TypeOK, IncreasingIds, RepoOK, Functions, ClientOK, FilesOK, MemoryOK,
         CallOK
<1>2. ASSUME RepoOK, Functions, \A c \in Client : ClientOK(c) PROVE TypeOK
  BY <1>2 DEF TypeOK, RepoOK, Functions, ClientOK, FilesOK, MemoryOK, CallOK
<1>3. ASSUME RepoOK, \A c \in Client : ClientOK(c)
      PROVE  IncreasingIds /\ \A c \in Client : SavedText(c)
  BY <1>3 DEF IncreasingIds, RepoOK, ClientOK, FilesOK, MemoryOK
<1> QED BY <1>1, <1>2, <1>3 DEF Inv, Parts

(***************************************************************************)
(* A step of one client changes what belongs to it and can add a revision. *)
(***************************************************************************)
Own(c) ==
  /\ wc'        = [wc EXCEPT ![c] = wc'[c]]
  /\ tmp'       = [tmp EXCEPT ![c] = tmp'[c]]
  /\ issueList' = [issueList EXCEPT ![c] = issueList'[c]]
  /\ idList'    = [idList EXCEPT ![c] = idList'[c]]
  /\ pc'        = [pc EXCEPT ![c] = pc'[c]]
  /\ revnum'    = [revnum EXCEPT ![c] = revnum'[c]]
  /\ ret'       = [ret EXCEPT ![c] = ret'[c]]

Grows ==
  \/ repo' = repo
  \/ \E lines \in File : Increasing(lines) /\ repo' = Append(repo, lines)

Keeps(c) == Own(c) /\ Grows /\ Inv'

(***************************************************************************)
(* Therefore such a step keeps the invariant if it keeps what the          *)
(* invariant says of this client.                                          *)
(***************************************************************************)
LEMMA StepFact ==
  ASSUME Inv, NEW c \in Client, Own(c), Grows, ClientOK(c)'
  PROVE  Keeps(c)
<1>1. RepoOK /\ Functions /\ \A d \in Client : ClientOK(d) BY InvParts DEF Parts
<1>2. Functions' BY <1>1 DEF Functions, Own
<1>3. /\ RepoOK' /\ Len(repo) <= Len(repo')
      /\ \A r \in DOMAIN repo : r \in DOMAIN repo' /\ repo'[r] = repo[r]
  BY <1>1 DEF RepoOK, Grows
<1>4. ASSUME NEW d \in Client, d # c PROVE ClientOK(d)'
  <2>1. /\ wc'[d] = wc[d] /\ tmp'[d] = tmp[d] /\ issueList'[d] = issueList[d]
        /\ idList'[d] = idList[d] /\ pc'[d] = pc[d] /\ revnum'[d] = revnum[d]
        /\ ret'[d] = ret[d]
    BY <1>1, <1>4 DEF Own, Functions
  <2>2. ClientOK(d) BY <1>1
  <2>3. FilesOK(d)'
    <3>1. wc[d].base \in Nat /\ Len(repo) \in Nat /\ Len(repo') \in Nat
      BY <1>1, <1>3, <2>2 DEF ClientOK, FilesOK, WorkingCopy, RepoOK
    <3> QED BY <1>3, <2>1, <2>2, <3>1 DEF ClientOK, FilesOK
  <2>4. MemoryOK(d)' /\ CallOK(d)' BY <2>1, <2>2 DEF ClientOK, MemoryOK, CallOK
  <2>5. TextToWrite(d)' = TextToWrite(d) BY <2>1 DEF TextToWrite
  <2>6. SavedText(d)' BY <1>3, <2>1, <2>2, <2>5 DEF ClientOK, SavedText
  <2> QED BY <2>3, <2>4, <2>6 DEF ClientOK
<1>5. \A d \in Client : ClientOK(d)' BY <1>4
<1>6. Parts' BY <1>2, <1>3, <1>5 DEF Parts
<1>7. Inv' BY <1>6, InvParts, PTL
<1> QED BY <1>7 DEF Keeps

-----------------------------------------------------------------------------
(***************************************************************************)
(* Facts the steps share.                                                  *)
(***************************************************************************)
LEMMA EmptyFact == <<>> \in File /\ Increasing(<<>>)
BY DEF File, Increasing

(***************************************************************************)
(* The latest revision is a file with increasing ids.                      *)
(***************************************************************************)
LEMMA LatestFact ==
  ASSUME RepoOK, repo # <<>>
  PROVE  Latest \in File /\ Increasing(Latest)
<1>1. Len(repo) \in DOMAIN repo BY DEF RepoOK
<1> QED BY <1>1 DEF RepoOK, Latest

(***************************************************************************)
(* So is what UpdateIssuesTextFile writes for a list with increasing ids.  *)
(***************************************************************************)
LEMMA TextToWriteFact ==
  ASSUME NEW c \in Client, MemoryOK(c)
  PROVE  TextToWrite(c) \in File /\ Increasing(TextToWrite(c))
BY WriteFileType DEF TextToWrite, MemoryOK

(***************************************************************************)
(* A call that fails, wherever it is.                                      *)
(***************************************************************************)
LEMMA FailStep ==
  ASSUME Inv, NEW c \in Client, NEW from, Fail(c, from)
  PROVE  Keeps(c)
<1>1. RepoOK /\ Functions /\ ClientOK(c) BY InvParts DEF Parts
<1>2. Own(c) /\ Grows
  BY <1>1 DEF Functions, Own, Grows, Fail, Return, DropTemp, memVars
<1>3. pc'[c] = "idle" /\ revnum'[c] = 0 /\ ret'[c] \in BOOLEAN /\ tmp'[c] = <<>>
  BY <1>1 DEF Functions, Fail, Return, DropTemp
<1>4. FilesOK(c)' BY <1>1, <1>3, EmptyFact DEF ClientOK, FilesOK, Fail
<1>5. MemoryOK(c)' BY <1>1 DEF ClientOK, MemoryOK, Fail, memVars
<1>6. CallOK(c)' /\ SavedText(c)' BY <1>3 DEF CallOK, SavedText
<1> QED BY <1>2, <1>4, <1>5, <1>6, StepFact DEF ClientOK

(***************************************************************************)
(* LoadIssues.                                                             *)
(***************************************************************************)
LEMMA LoadExportStep ==
  ASSUME Inv, NEW c \in Client, LoadExport(c)
  PROVE  Keeps(c)
<1>1. RepoOK /\ Functions /\ ClientOK(c) BY InvParts DEF Parts
<1>2. CASE Call(c, 0, "exported") /\ ExportFile(c) /\ UNCHANGED memVars
  <2>1. Own(c) /\ Grows
    BY <1>1, <1>2 DEF Functions, Own, Grows, Call, ExportFile, memVars
  <2>2. pc'[c] = "exported" /\ revnum'[c] = 0 /\ ret'[c] \in BOOLEAN /\ tmp'[c] = Latest
    BY <1>1, <1>2 DEF Functions, Call, ExportFile
  <2>3. FilesOK(c)'
    BY <1>1, <1>2, <2>2, LatestFact DEF ClientOK, FilesOK, ExportFile
  <2>4. MemoryOK(c)' BY <1>1, <1>2 DEF ClientOK, MemoryOK, memVars
  <2>5. CallOK(c)' /\ SavedText(c)' BY <2>2 DEF CallOK, SavedText
  <2> QED BY <2>1, <2>3, <2>4, <2>5, StepFact DEF ClientOK
<1>3. CASE Fail(c, "idle") BY <1>3, FailStep
<1> QED BY <1>2, <1>3 DEF LoadExport

(***************************************************************************)
(* The list it reads has the order of the exported file.                   *)
(***************************************************************************)
LEMMA LoadReadStep ==
  ASSUME Inv, NEW c \in Client, LoadRead(c)
  PROVE  Keeps(c)
<1>1. RepoOK /\ Functions /\ ClientOK(c) BY InvParts DEF Parts
<1> DEFINE list == ReadFile(tmp[c])
<1>2. CASE /\ Return(c, "exported", TRUE)
           /\ issueList' = [issueList EXCEPT ![c] = list]
           /\ DropTemp(c)
           /\ UNCHANGED <<repo, wc, idList>>
  <2>1. list \in Seq(Issue) /\ Increasing(list)
    BY <1>1, ReadFileType DEF ClientOK, FilesOK
  <2> HIDE DEF list
  <2>2. Own(c) /\ Grows
    BY <1>1, <1>2 DEF Functions, Own, Grows, Return, DropTemp
  <2>3. /\ pc'[c] = "idle" /\ revnum'[c] = 0 /\ ret'[c] \in BOOLEAN
        /\ tmp'[c] = <<>> /\ issueList'[c] = list
    BY <1>1, <1>2 DEF Functions, Return, DropTemp
  <2>4. FilesOK(c)' BY <1>1, <1>2, <2>3, EmptyFact DEF ClientOK, FilesOK
  <2>5. MemoryOK(c)' BY <1>1, <1>2, <2>1, <2>3 DEF ClientOK, MemoryOK
  <2>6. CallOK(c)' /\ SavedText(c)' BY <2>3 DEF CallOK, SavedText
  <2> QED BY <2>2, <2>4, <2>5, <2>6, StepFact DEF ClientOK
<1>3. CASE Fail(c, "exported") BY <1>3, FailStep
<1> QED BY <1>2, <1>3 DEF LoadRead

(***************************************************************************)
(* AddIssuesSupport.                                                       *)
(***************************************************************************)
LEMMA AddSupportWriteStep ==
  ASSUME Inv, NEW c \in Client, AddSupportWrite(c)
  PROVE  Keeps(c)
<1>1. RepoOK /\ Functions /\ ClientOK(c) BY InvParts DEF Parts
<1>2. CASE /\ Call(c, 0, "header")
           /\ tmp' = [tmp EXCEPT ![c] = <<>>]
           /\ UNCHANGED <<repo, wc, memVars>>
  <2>1. Own(c) /\ Grows BY <1>1, <1>2 DEF Functions, Own, Grows, Call, memVars
  <2>2. pc'[c] = "header" /\ revnum'[c] = 0 /\ ret'[c] \in BOOLEAN /\ tmp'[c] = <<>>
    BY <1>1, <1>2 DEF Functions, Call
  <2>3. FilesOK(c)' BY <1>1, <1>2, <2>2, EmptyFact DEF ClientOK, FilesOK
  <2>4. MemoryOK(c)' BY <1>1, <1>2 DEF ClientOK, MemoryOK, memVars
  <2>5. CallOK(c)' /\ SavedText(c)' BY <2>2 DEF CallOK, SavedText
  <2> QED BY <2>1, <2>3, <2>4, <2>5, StepFact DEF ClientOK
<1>3. CASE Fail(c, "idle") BY <1>3, FailStep
<1> QED BY <1>2, <1>3 DEF AddSupportWrite

(***************************************************************************)
(* The first revision is the file without issues, whether the answer of    *)
(* the server arrives or not.                                              *)
(***************************************************************************)
LEMMA AddSupportImportStep ==
  ASSUME Inv, NEW c \in Client, AddSupportImport(c)
  PROVE  Keeps(c)
<1>1. RepoOK /\ Functions /\ ClientOK(c) BY InvParts DEF Parts
<1>2. ASSUME NEW answered \in BOOLEAN, Return(c, "header", answered),
             ImportFile(c), DropTemp(c), UNCHANGED memVars
      PROVE  Keeps(c)
  <2>1. repo' = Append(repo, tmp[c]) BY <1>2 DEF ImportFile
  <2>2. Own(c)
    BY <1>1, <1>2 DEF Functions, Own, Return, ImportFile, DropTemp, memVars
  <2>3. Grows BY <1>1, <2>1 DEF Grows, ClientOK, FilesOK
  <2>4. /\ pc'[c] = "idle" /\ revnum'[c] = 0 /\ ret'[c] \in BOOLEAN
        /\ tmp'[c] = <<>>
    BY <1>1, <1>2 DEF Functions, Return, DropTemp
  <2>5. wc[c].base <= Len(repo')
    <3>1. wc[c].base \in Nat BY <1>1 DEF ClientOK, FilesOK, WorkingCopy
    <3> QED BY <1>1, <2>1, <3>1 DEF ClientOK, FilesOK, RepoOK
  <2>6. FilesOK(c)'
    BY <1>1, <1>2, <2>4, <2>5, EmptyFact DEF ClientOK, FilesOK, ImportFile
  <2>7. MemoryOK(c)' BY <1>1, <1>2 DEF ClientOK, MemoryOK, memVars
  <2>8. CallOK(c)' /\ SavedText(c)' BY <2>4 DEF CallOK, SavedText
  <2> QED BY <2>2, <2>3, <2>6, <2>7, <2>8, StepFact DEF ClientOK
<1>3. CASE Fail(c, "header") BY <1>3, FailStep
<1> QED BY <1>2, <1>3 DEF AddSupportImport

(***************************************************************************)
(* UpdateIssuesTextFile.                                                   *)
(***************************************************************************)
LEMMA UpdateCheckOutStep ==
  ASSUME Inv, NEW c \in Client, NEW rev \in Nat, UpdateCheckOut(c, rev)
  PROVE  Keeps(c)
<1>1. RepoOK /\ Functions /\ ClientOK(c) BY InvParts DEF Parts
<1>2. CASE Return(c, "idle", TRUE) /\ UNCHANGED <<svnVars, memVars>>
  <2>1. Own(c) /\ Grows
    BY <1>1, <1>2 DEF Functions, Own, Grows, Return, svnVars, memVars
  <2>2. pc'[c] = "idle" /\ revnum'[c] = 0 /\ ret'[c] \in BOOLEAN
    BY <1>1, <1>2 DEF Functions, Return
  <2>3. FilesOK(c)' BY <1>1, <1>2 DEF ClientOK, FilesOK, svnVars
  <2>4. MemoryOK(c)' BY <1>1, <1>2 DEF ClientOK, MemoryOK, memVars
  <2>5. CallOK(c)' /\ SavedText(c)' BY <2>2 DEF CallOK, SavedText
  <2> QED BY <2>1, <2>3, <2>4, <2>5, StepFact DEF ClientOK
<1>3. CASE Call(c, rev, "checkedout") /\ CheckOut(c) /\ UNCHANGED memVars
  <2>1. repo # <<>> /\ repo' = repo /\ tmp' = tmp BY <1>3 DEF CheckOut
  <2>2. PICK copy \in CheckedOut(wc[c], repo) : wc' = [wc EXCEPT ![c] = copy]
    BY <1>3 DEF CheckOut
  <2>3. copy \in WorkingCopy /\ copy.base <= Len(repo) /\ Increasing(copy.lines)
    BY <1>1, <2>1, CheckedOutFact DEF RepoOK, ClientOK, FilesOK
  <2>4. Own(c) /\ Grows
    BY <1>1, <1>3, <2>1, <2>2 DEF Functions, Own, Grows, Call, memVars
  <2>5. pc'[c] = "checkedout" /\ revnum'[c] = rev /\ ret'[c] \in BOOLEAN
    BY <1>1, <1>3 DEF Functions, Call
  <2>6. wc'[c] = copy BY <1>1, <2>2 DEF Functions
  <2>7. FilesOK(c)' BY <1>1, <2>1, <2>3, <2>6 DEF ClientOK, FilesOK
  <2>8. MemoryOK(c)' BY <1>1, <1>3 DEF ClientOK, MemoryOK, memVars
  <2>9. CallOK(c)' /\ SavedText(c)' BY <2>5 DEF CallOK, SavedText
  <2> QED BY <2>4, <2>7, <2>8, <2>9, StepFact DEF ClientOK
<1>4. CASE Fail(c, "idle") BY <1>4, FailStep
<1> QED BY <1>2, <1>3, <1>4 DEF UpdateCheckOut

(***************************************************************************)
(* The working copy gets the client's own list, whatever it held.          *)
(***************************************************************************)
LEMMA UpdateWriteStep ==
  ASSUME Inv, NEW c \in Client, UpdateWrite(c)
  PROVE  Keeps(c)
<1>1. RepoOK /\ Functions /\ ClientOK(c) BY InvParts DEF Parts
<1> DEFINE copy == [wc[c] EXCEPT !.lines = TextToWrite(c)]
<1>2. CASE /\ Goto(c, "checkedout", "written")
           /\ wc' = [wc EXCEPT ![c].lines = TextToWrite(c)]
           /\ UNCHANGED <<repo, tmp, memVars>>
  <2>1. TextToWrite(c) \in File /\ Increasing(TextToWrite(c))
    BY <1>1, TextToWriteFact DEF ClientOK
  <2>2. /\ copy \in WorkingCopy /\ copy.base = wc[c].base
        /\ copy.lines = TextToWrite(c)
    BY <1>1, <2>1 DEF ClientOK, FilesOK, WorkingCopy
  <2>3. wc'[c] = copy /\ wc' = [wc EXCEPT ![c] = copy] BY <1>1, <1>2 DEF Functions
  <2> HIDE DEF copy
  <2>4. Own(c) /\ Grows
    BY <1>1, <1>2, <2>3 DEF Functions, Own, Grows, Goto, memVars
  <2>5. pc'[c] = "written" /\ revnum' = revnum /\ ret' = ret
    BY <1>1, <1>2 DEF Functions, Goto
  <2>6. FilesOK(c)' BY <1>1, <1>2, <2>1, <2>2, <2>3 DEF ClientOK, FilesOK
  <2>7. MemoryOK(c)' BY <1>1, <1>2 DEF ClientOK, MemoryOK, memVars
  <2>8. CallOK(c)' BY <1>1, <2>5 DEF ClientOK, CallOK
  <2>9. TextToWrite(c)' = TextToWrite(c) BY <1>2, <2>5 DEF TextToWrite, memVars
  <2>10. SavedText(c)' BY <2>2, <2>3, <2>5, <2>9 DEF SavedText
  <2> QED BY <2>4, <2>6, <2>7, <2>8, <2>10, StepFact DEF ClientOK
<1>3. CASE Fail(c, "checkedout") BY <1>3, FailStep
<1> QED BY <1>2, <1>3 DEF UpdateWrite

(***************************************************************************)
(* The commit adds this text as a revision, or finds it there already.     *)
(***************************************************************************)
LEMMA UpdateCommitStep ==
  ASSUME Inv, NEW c \in Client, UpdateCommit(c)
  PROVE  Keeps(c)
<1>1. RepoOK /\ Functions /\ ClientOK(c) BY InvParts DEF Parts
<1>2. /\ wc[c] \in WorkingCopy /\ wc[c].base \in Nat /\ wc[c].base <= Len(repo)
      /\ wc[c].lines \in File /\ Increasing(wc[c].lines)
      /\ Len(repo) \in Nat
  BY <1>1 DEF ClientOK, FilesOK, WorkingCopy, RepoOK
<1>3. CASE Goto(c, "written", "committed") /\ Commit(c) /\ UNCHANGED memVars
  <2>1. pc'[c] = "committed" /\ revnum' = revnum /\ ret' = ret
    BY <1>1, <1>3 DEF Functions, Goto
  <2>2. MemoryOK(c)' BY <1>1, <1>3 DEF ClientOK, MemoryOK, memVars
  <2>3. CallOK(c)' BY <1>1, <2>1 DEF ClientOK, CallOK
  <2>4. TextToWrite(c)' = TextToWrite(c) BY <1>3, <2>1 DEF TextToWrite, memVars
  <2>5. wc[c].lines = TextToWrite(c) BY <1>1, <1>3 DEF ClientOK, SavedText, Goto
  <2>6. CASE NewRevision(c) /\ wc' = [wc EXCEPT ![c].base = Len(repo) + 1]
    <3> DEFINE copy == [wc[c] EXCEPT !.base = Len(repo) + 1]
    <3>1. /\ copy \in WorkingCopy /\ copy.base = Len(repo) + 1
          /\ copy.lines = wc[c].lines
      BY <1>2 DEF WorkingCopy
    <3>2. wc'[c] = copy /\ wc' = [wc EXCEPT ![c] = copy] BY <1>1, <2>6 DEF Functions
    <3> HIDE DEF copy
    <3>3. repo' = Append(repo, wc[c].lines) BY <2>6 DEF NewRevision
    <3>4. tmp' = tmp BY <1>3 DEF Commit
    <3>5. Own(c) BY <1>1, <1>3, <3>2, <3>4 DEF Functions, Own, Goto, memVars
    <3>6. Grows BY <1>2, <3>3 DEF Grows
    <3>7. Len(repo') = Len(repo) + 1 /\ repo'[Len(repo) + 1] = wc[c].lines
      BY <1>1, <3>3 DEF RepoOK
    <3>8. FilesOK(c)' BY <1>1, <1>2, <3>1, <3>2, <3>4, <3>7 DEF ClientOK, FilesOK
    <3>9. Len(repo) + 1 \in DOMAIN repo' BY <1>1, <3>3 DEF RepoOK
    <3>10. SavedText(c)' BY <2>1, <2>4, <2>5, <3>7, <3>9 DEF SavedText
    <3> QED BY <2>2, <2>3, <3>5, <3>6, <3>8, <3>10, StepFact DEF ClientOK
  <2>7. CASE NothingToCommit(wc[c], repo) /\ UNCHANGED <<repo, wc>>
    <3>1. tmp' = tmp BY <1>3 DEF Commit
    <3>2. Own(c) /\ Grows
      BY <1>1, <1>3, <2>7, <3>1 DEF Functions, Own, Grows, Goto, memVars
    <3>3. FilesOK(c)' BY <1>1, <2>7, <3>1 DEF ClientOK, FilesOK
    <3>4. wc[c].base \in DOMAIN repo /\ repo[wc[c].base] = wc[c].lines
      BY <1>1, <1>2, <2>7 DEF NothingToCommit, Unchanged, RepoOK
    <3>5. SavedText(c)' BY <2>1, <2>4, <2>5, <2>7, <3>4 DEF SavedText
    <3> QED BY <2>2, <2>3, <3>2, <3>3, <3>5, StepFact DEF ClientOK
  <2> QED BY <1>3, <2>6, <2>7 DEF Commit
<1>4. CASE /\ Return(c, "written", FALSE)
           /\ CommitAnswerLost(c)
           /\ UNCHANGED memVars
  <2>1. repo' = Append(repo, wc[c].lines) /\ wc' = wc /\ tmp' = tmp
    BY <1>4 DEF CommitAnswerLost, NewRevision
  <2>2. Own(c) BY <1>1, <1>4, <2>1 DEF Functions, Own, Return, memVars
  <2>3. Grows BY <1>2, <2>1 DEF Grows
  <2>4. pc'[c] = "idle" /\ revnum'[c] = 0 /\ ret'[c] \in BOOLEAN
    BY <1>1, <1>4 DEF Functions, Return
  <2>5. wc[c].base <= Len(repo') BY <1>1, <1>2, <2>1 DEF RepoOK
  <2>6. FilesOK(c)' BY <1>1, <2>1, <2>5 DEF ClientOK, FilesOK
  <2>7. MemoryOK(c)' BY <1>1, <1>4 DEF ClientOK, MemoryOK, memVars
  <2>8. CallOK(c)' /\ SavedText(c)' BY <2>4 DEF CallOK, SavedText
  <2> QED BY <2>2, <2>3, <2>6, <2>7, <2>8, StepFact DEF ClientOK
<1>5. CASE Fail(c, "written") BY <1>5, FailStep
<1> QED BY <1>3, <1>4, <1>5 DEF UpdateCommit

(***************************************************************************)
(* No working copy is an empty one.                                        *)
(***************************************************************************)
LEMMA NoCopyFact ==
  NoCopy \in WorkingCopy /\ NoCopy.base = 0 /\ NoCopy.lines = <<>>
BY EmptyFact DEF NoCopy, WorkingCopy

(***************************************************************************)
(* The working copy goes away or stays.                                    *)
(***************************************************************************)
LEMMA UpdateDeleteStep ==
  ASSUME Inv, NEW c \in Client, UpdateDelete(c)
  PROVE  Keeps(c)
<1> USE DEF UpdateDelete
<1>1. RepoOK /\ Functions /\ ClientOK(c) BY InvParts DEF Parts
<1>2. wc'[c] \in {wc[c], NoCopy} /\ wc' = [wc EXCEPT ![c] = wc'[c]]
  BY <1>1 DEF Functions
<1>3. Own(c) /\ Grows BY <1>1, <1>2 DEF Functions, Own, Grows, Return, memVars
<1>4. pc'[c] = "idle" /\ revnum'[c] = 0 /\ ret'[c] \in BOOLEAN
  BY <1>1 DEF Functions, Return
<1>5. FilesOK(c)'
  <2>1. 0 <= Len(repo) BY <1>1 DEF RepoOK
  <2> QED BY <1>1, <1>2, <2>1, NoCopyFact, EmptyFact DEF ClientOK, FilesOK
<1>6. MemoryOK(c)' BY <1>1 DEF ClientOK, MemoryOK, memVars
<1> HIDE DEF UpdateDelete
<1>7. CallOK(c)' /\ SavedText(c)' BY <1>4 DEF CallOK, SavedText
<1> QED BY <1>3, <1>5, <1>6, <1>7, StepFact DEF ClientOK

-----------------------------------------------------------------------------
(***************************************************************************)
(* The operations on the memory alone: a client that is idle gets another  *)
(* list, or other ids.                                                     *)
(***************************************************************************)
LEMMA MemoryFact ==
  ASSUME Inv, NEW c \in Client, Quiet(c),
         NEW list, list \in Seq(Issue), Increasing(list),
         NEW ids, ids \in Seq(Int),
         issueList' = [issueList EXCEPT ![c] = list],
         idList' = [idList EXCEPT ![c] = ids]
  PROVE  Keeps(c)
<1>1. RepoOK /\ Functions /\ ClientOK(c) BY InvParts DEF Parts
<1>2. Own(c) /\ Grows BY <1>1 DEF Functions, Own, Grows, Quiet, svnVars
<1>3. /\ pc'[c] = "idle" /\ revnum'[c] = revnum[c] /\ ret'[c] \in BOOLEAN
      /\ issueList'[c] = list /\ idList'[c] = ids
  BY <1>1 DEF Functions, Quiet
<1>4. FilesOK(c)' BY <1>1 DEF ClientOK, FilesOK, Quiet, svnVars
<1>5. MemoryOK(c)' BY <1>3 DEF MemoryOK
<1>6. CallOK(c)' /\ SavedText(c)' BY <1>1, <1>3 DEF ClientOK, CallOK, SavedText
<1> QED BY <1>2, <1>4, <1>5, <1>6, StepFact DEF ClientOK

(***************************************************************************)
(* SetIssueChecked for any map, AddNewIssue, UpdateIssue and DeleteIssue.  *)
(***************************************************************************)
LEMMA MemoryStepStep ==
  ASSUME Inv, NEW c \in Client,
         MemoryStep(c) \/ \E checkStatus : SetIssuesChecked(c, checkStatus)
  PROVE  Keeps(c)
<1>1. RepoOK /\ Functions /\ ClientOK(c) BY InvParts DEF Parts
<1> DEFINE list == issueList[c]
           ids == idList[c]
<1>2. /\ list \in Seq(Issue) /\ Increasing(list) /\ ids \in Seq(Int)
      /\ issueList = [issueList EXCEPT ![c] = list]
      /\ idList = [idList EXCEPT ![c] = ids]
  BY <1>1 DEF ClientOK, MemoryOK, Functions
<1>3. Input \subseteq DialogInput BY AccessorAssumption
<1>4. ASSUME NEW checkStatus, SetIssuesChecked(c, checkStatus) PROVE Keeps(c)
  <2> DEFINE new == WithIssuesChecked(ids, checkStatus)
  <2>1. new \in Seq(Int) BY <1>2, AllCheckedFact
  <2>2. Quiet(c) /\ issueList' = issueList /\ idList' = [idList EXCEPT ![c] = new]
    BY <1>4 DEF SetIssuesChecked
  <2> HIDE DEF new, list, ids
  <2> QED BY <1>2, <2>1, <2>2, MemoryFact
<1>5. ASSUME NEW input \in Input, AddNewIssue(c, input) PROVE Keeps(c)
  <2> DEFINE new == AddNew(list, Entered(EmptyIssue, input))
  <2>1. Entered(EmptyIssue, input) \in Issue BY <1>3, EmptyIssueFact, EnteredFact
  <2>2. new \in Seq(Issue) /\ Increasing(new) BY <1>2, <2>1, AddNewFact
  <2>3. Quiet(c) /\ issueList' = [issueList EXCEPT ![c] = new] /\ idList' = idList
    BY <1>5 DEF AddNewIssue
  <2> HIDE DEF new, list, ids
  <2> QED BY <1>2, <2>2, <2>3, MemoryFact
<1>6. ASSUME NEW input \in Input, NEW i \in DOMAIN issueList[c],
             UpdateIssue(c, i, input)
      PROVE  Keeps(c)
  <2> DEFINE new == Update(list, Entered(list[i], input))
  <2>1. Entered(list[i], input) \in Issue BY <1>2, <1>3, EnteredFact
  <2>2. new \in Seq(Issue) /\ Increasing(new) BY <1>2, <2>1, UpdateFact
  <2>3. Quiet(c) /\ issueList' = [issueList EXCEPT ![c] = new] /\ idList' = idList
    BY <1>6 DEF UpdateIssue
  <2> HIDE DEF new, list, ids
  <2> QED BY <1>2, <2>2, <2>3, MemoryFact
<1>7. ASSUME NEW S, DeleteIssues(c, S) PROVE Keeps(c)
  <2> DEFINE new == Delete(list, S)
  <2>1. new \in Seq(Issue) /\ Increasing(new) BY <1>2, DeleteFact
  <2>2. Quiet(c) /\ issueList' = [issueList EXCEPT ![c] = new] /\ idList' = idList
    BY <1>7 DEF DeleteIssues
  <2> HIDE DEF new, list, ids
  <2> QED BY <1>2, <2>1, <2>2, MemoryFact
<1> QED BY <1>4, <1>5, <1>6, <1>7 DEF MemoryStep

(***************************************************************************)
(* The end of the process, at any moment.                                  *)
(***************************************************************************)
LEMMA CrashStep ==
  ASSUME Inv, NEW c \in Client, Crash(c)
  PROVE  Keeps(c)
<1>1. RepoOK /\ Functions /\ ClientOK(c) BY InvParts DEF Parts
<1>2. /\ issueList'[c] = <<>> /\ idList'[c] = <<>> /\ pc'[c] = "idle"
      /\ revnum'[c] = 0 /\ ret'[c] \in BOOLEAN /\ tmp'[c] = <<>> /\ repo' = repo
  BY <1>1 DEF Functions, Crash, Forget, DropTemp
<1> DEFINE CopyOK ==
             /\ wc'[c] \in WorkingCopy /\ wc'[c].base = wc[c].base
             /\ Increasing(wc'[c].lines) /\ wc' = [wc EXCEPT ![c] = wc'[c]]
<1>3. CopyOK
  <2>1. CASE UNCHANGED wc BY <1>1, <2>1 DEF ClientOK, FilesOK, Functions
  <2>2. ASSUME NEW k \in 0..Len(issueList[c]),
               wc' = [wc EXCEPT ![c].lines = SubSeq(TextToWrite(c), 1, k)]
        PROVE  CopyOK
    <3> DEFINE text == TextToWrite(c)
               part == SubSeq(text, 1, k)
               copy == [wc[c] EXCEPT !.lines = part]
    <3>1. text \in File /\ Increasing(text) /\ Len(text) = Len(issueList[c])
      BY <1>1, WriteFileType DEF ClientOK, MemoryOK, TextToWrite
    <3>2. part \in File /\ Increasing(part)
      <4> HIDE DEF text
      <4>1. k \in Int /\ 0 <= k /\ k <= Len(text) BY <2>2, <3>1
      <4>2. part \in Seq(Line) /\ Len(part) = k /\ \A j \in 1..k : part[j] = text[j]
        BY <3>1, <4>1 DEF File
      <4> HIDE DEF part
      <4> QED BY <3>1, <4>1, <4>2 DEF File, Increasing
    <3>3. wc' = [wc EXCEPT ![c] = copy] /\ wc'[c] = copy BY <1>1, <2>2 DEF Functions
    <3> HIDE DEF part
    <3>4. copy \in WorkingCopy /\ copy.base = wc[c].base /\ copy.lines = part
      BY <1>1, <3>2 DEF ClientOK, FilesOK, WorkingCopy
    <3> HIDE DEF copy
    <3> QED BY <3>2, <3>3, <3>4
  <2> HIDE DEF CopyOK
  <2> QED BY <2>1, <2>2 DEF Crash
<1>4. Own(c) /\ Grows
  BY <1>1, <1>2, <1>3 DEF Functions, Own, Grows, Crash, Forget, DropTemp
<1>5. FilesOK(c)' BY <1>1, <1>2, <1>3, EmptyFact DEF ClientOK, FilesOK
<1>6. MemoryOK(c)' BY <1>2 DEF MemoryOK, Increasing
<1>7. CallOK(c)' /\ SavedText(c)' BY <1>2 DEF CallOK, SavedText
<1> QED BY <1>4, <1>5, <1>6, <1>7, StepFact DEF ClientOK

-----------------------------------------------------------------------------
(***************************************************************************)
(* The invariant holds in the beginning and is kept by every step.         *)
(***************************************************************************)
LEMMA InitInv == AccessorInit => Inv
<1> SUFFICES ASSUME AccessorInit PROVE Inv OBVIOUS
<1> USE DEF AccessorInit, SubversionInit
<1>1. RepoOK BY DEF RepoOK
<1>2. Functions BY DEF Functions
<1>3. ASSUME NEW c \in Client PROVE ClientOK(c)
  <2>1. FilesOK(c) BY NoCopyFact, EmptyFact DEF FilesOK
  <2>2. MemoryOK(c) BY DEF MemoryOK, Increasing
  <2>3. pc[c] = "idle" /\ revnum[c] = 0 /\ ret[c] \in BOOLEAN OBVIOUS
  <2> HIDE DEF AccessorInit
  <2>4. CallOK(c) /\ SavedText(c) BY <2>3 DEF CallOK, SavedText
  <2> QED BY <2>1, <2>2, <2>4 DEF ClientOK
<1> QED BY <1>1, <1>2, <1>3, InvParts DEF Parts

(***************************************************************************)
(* The steps of a client, with any map for SetIssuesChecked.               *)
(***************************************************************************)
AnyStep(c) ==
  \/ CallStep(c)
  \/ MemoryStep(c) \/ \E checkStatus : SetIssuesChecked(c, checkStatus)
  \/ Crash(c)

(***************************************************************************)
(* Each of these steps keeps the invariant.                                *)
(***************************************************************************)
LEMMA AnyStepKeeps ==
  ASSUME Inv, NEW c \in Client, AnyStep(c)
  PROVE  Keeps(c)
<1>1. CASE CallStep(c)
  <2>1. \A rev \in {0, 1} : rev \in Nat OBVIOUS
  <2> QED BY <1>1, <2>1, LoadExportStep, LoadReadStep, AddSupportWriteStep,
             AddSupportImportStep, UpdateCheckOutStep, UpdateWriteStep,
             UpdateCommitStep, UpdateDeleteStep DEF CallStep
<1>2. CASE MemoryStep(c) \/ \E checkStatus : SetIssuesChecked(c, checkStatus)
  BY <1>2, MemoryStepStep
<1>3. CASE Crash(c) BY <1>3, CrashStep
<1> QED BY <1>1, <1>2, <1>3 DEF AnyStep

(***************************************************************************)
(* So does a step that changes nothing.                                    *)
(***************************************************************************)
LEMMA StutterKeeps ==
  ASSUME Inv, UNCHANGED accessorVars
  PROVE  Inv'
BY DEF accessorVars, Inv, TypeOK, IncreasingIds, SavedText, TextToWrite

(***************************************************************************)
(* The invariant is inductive.                                             *)
(***************************************************************************)
LEMMA NextInv == Inv /\ [AccessorNext]_accessorVars => Inv'
<1> SUFFICES ASSUME Inv, [AccessorNext]_accessorVars PROVE Inv' OBVIOUS
<1>1. ASSUME NEW c \in Client, CallStep(c) \/ MemoryStep(c) \/ Crash(c) PROVE Inv'
  BY <1>1, AnyStepKeeps DEF AnyStep, Keeps
<1>2. CASE UNCHANGED accessorVars BY <1>2, StutterKeeps
<1> QED BY <1>1, <1>2 DEF AccessorNext

(***************************************************************************)
(* The invariant holds forever.                                            *)
(***************************************************************************)
LEMMA AlwaysInv == AccessorSpec => []Inv
BY InitInv, NextInv, PTL DEF AccessorSpec

(***************************************************************************)
(* For any number of clients making any calls in any order: the variables  *)
(* stay in their types, and no working copy is ahead of the repository.    *)
(***************************************************************************)
THEOREM TypeCorrect == AccessorSpec => []TypeOK
<1>1. Inv => TypeOK BY DEF Inv
<1> QED BY <1>1, AlwaysInv, PTL

(***************************************************************************)
(* No two issues of a list, a file or a revision ever have the same id.    *)
(***************************************************************************)
THEOREM IdsIncrease == AccessorSpec => []IncreasingIds
<1>1. Inv => IncreasingIds BY DEF Inv
<1> QED BY <1>1, AlwaysInv, PTL

(***************************************************************************)
(* A commit of UpdateIssuesTextFile that went through has put exactly the  *)
(* client's list in the repository.                                        *)
(***************************************************************************)
THEOREM CommitsOwnList == AccessorSpec => []CommittedIsOwnList
<1>1. Inv => CommittedIsOwnList BY DEF Inv, SavedText, CommittedIsOwnList
<1> QED BY <1>1, AlwaysInv, PTL

-----------------------------------------------------------------------------
(***************************************************************************)
(* The two modules mean the same by reading and writing a file.            *)
(***************************************************************************)
LEMMA SameRead == \A file : Store!ReadFile(file) = ReadFile(file)
BY Zenon DEF Store!ReadFile, ReadFile, Store!ReadLine, ReadLine, Store!Readable,
             Readable, Store!IssueItem, IssueItem, Store!split, split

(***************************************************************************)
(* And by the lines of a list and their ids.                               *)
(***************************************************************************)
LEMMA SameWrite ==
  /\ \A list, ids, rev : Store!WriteFile(list, ids, rev) = WriteFile(list, ids, rev)
  /\ \A list : Store!Ids(list) = Ids(list)
  /\ \A list : Store!Increasing(list) <=> Increasing(list)
<1>1. \A list, ids, rev : Store!WriteFile(list, ids, rev) = WriteFile(list, ids, rev)
  BY Zenon DEF Store!WriteFile, WriteFile, Store!WriteLine, WriteLine,
               Store!WriteLabels, WriteLabels, Store!Resolved, Resolved
<1>2. \A list : Store!Ids(list) = Ids(list) BY DEF Store!Ids, Ids
<1>3. \A list : Store!Increasing(list) <=> Increasing(list)
  BY DEF Store!Increasing, Increasing
<1> QED BY <1>1, <1>2, <1>3

(***************************************************************************)
(* No operation on a list makes an issue go away.                          *)
(***************************************************************************)
LEMMA AddNewIds ==
  ASSUME NEW list \in Seq(Issue), NEW issue
  PROVE  Ids(list) \subseteq Ids(AddNew(list, issue))
<1> DEFINE item == IssueItem(GetMaxId(list) + 1, issue.status, issue.owner,
                             GetLabelsInSingleString(issue.labels), issue.title)
<1>1. AddNew(list, issue) = Append(list, item) BY DEF AddNew
<1> HIDE DEF item
<1>2. \A i \in DOMAIN list : /\ i \in DOMAIN Append(list, item)
                             /\ Append(list, item)[i] = list[i]
  OBVIOUS
<1> QED BY <1>1, <1>2 DEF Ids

(***************************************************************************)
(* The issue that Update puts in has the id of the one it replaces.        *)
(***************************************************************************)
LEMMA UpdateIds ==
  ASSUME NEW list, NEW item
  PROVE  Ids(Update(list, item)) = Ids(list)
<1>1. /\ DOMAIN Update(list, item) = DOMAIN list
      /\ \A i \in DOMAIN list : Update(list, item)[i].id = list[i].id
  BY DEF Update, IsFirst
<1> QED BY <1>1 DEF Ids

(***************************************************************************)
(* Delete only sets the status.                                            *)
(***************************************************************************)
LEMMA DeleteIds ==
  ASSUME NEW list \in Seq(Issue), NEW ids
  PROVE  Ids(Delete(list, ids)) = Ids(list)
<1>1. \A i \in DOMAIN list : [list[i] EXCEPT !.status = Deleted].id = list[i].id
  BY MemberFact DEF Issue
<1>2. /\ DOMAIN Delete(list, ids) = DOMAIN list
      /\ \A i \in DOMAIN list : Delete(list, ids)[i].id = list[i].id
  BY <1>1 DEF Delete
<1> QED BY <1>2 DEF Ids

(***************************************************************************)
(* A save writes the statuses as they are, a commit resolves the chosen    *)
(* issues whatever the revision is.                                        *)
(***************************************************************************)
LEMMA WriteFileCases ==
  ASSUME NEW list, NEW ids, NEW rev \in Nat
  PROVE  \E published \in {<<>>, ids} :
           WriteFile(list, ids, rev) = WriteFile(list, published, 1)
<1>1. CASE rev = 0
  <2>1. WriteFile(list, ids, rev) = WriteFile(list, <<>>, 1)
    <3>1. DOMAIN <<>> = {} OBVIOUS
    <3> QED BY <1>1, <3>1 DEF WriteFile
  <2> QED BY <2>1
<1>2. CASE rev > 0 BY <1>2 DEF WriteFile
<1> QED BY <1>1, <1>2

-----------------------------------------------------------------------------
(***************************************************************************)
(* What the refinement needs besides Inv: AddSupportImport, which imports  *)
(* the file that AddSupportWrite has made, finds no issue in it.           *)
(***************************************************************************)
HeaderOnly(c) == pc[c] = "header" => tmp[c] = <<>>

RInv == Inv /\ \A c \in Client : HeaderOnly(c)

(***************************************************************************)
(* The file is made together with the step to "header".                    *)
(***************************************************************************)
LEMMA HeaderStep ==
  ASSUME RInv, NEW c \in Client, AnyStep(c)
  PROVE  RInv'
<1>1. Inv /\ Functions BY InvParts DEF RInv, Parts
<1>2. Inv' /\ Own(c) BY <1>1, AnyStepKeeps DEF Keeps
<1>3. HeaderOnly(c)'
  <2> USE <1>1 DEF Functions, HeaderOnly
  <2>1. ASSUME NEW from, Fail(c, from) PROVE HeaderOnly(c)' BY <2>1 DEF Fail, Return
  <2>2. CASE LoadExport(c) BY <2>1, <2>2 DEF LoadExport, Call
  <2>3. CASE LoadRead(c) BY <2>1, <2>3 DEF LoadRead, Return
  <2>4. CASE AddSupportWrite(c) BY <2>1, <2>4 DEF AddSupportWrite, Call
  <2>5. CASE AddSupportImport(c) BY <2>1, <2>5 DEF AddSupportImport, Return
  <2>6. ASSUME NEW rev, UpdateCheckOut(c, rev) PROVE HeaderOnly(c)'
    BY <2>1, <2>6 DEF UpdateCheckOut, Call, Return
  <2>7. CASE UpdateWrite(c) BY <2>1, <2>7 DEF UpdateWrite, Goto
  <2>8. CASE UpdateCommit(c) BY <2>1, <2>8 DEF UpdateCommit, Goto, Return
  <2>9. CASE UpdateDelete(c) BY <2>9 DEF UpdateDelete, Return
  <2>10. CASE MemoryStep(c) \/ \E checkStatus : SetIssuesChecked(c, checkStatus)
    BY <2>10 DEF MemoryStep, SetIssuesChecked, AddNewIssue, UpdateIssue, DeleteIssues, Quiet
  <2>11. CASE Crash(c) BY <2>11 DEF Crash, Forget
  <2> QED BY <2>2, <2>3, <2>4, <2>5, <2>6, <2>7, <2>8, <2>9, <2>10, <2>11
          DEF AnyStep, CallStep
<1>4. ASSUME NEW d \in Client, d # c PROVE HeaderOnly(d)'
  BY <1>1, <1>2, <1>4 DEF RInv, Functions, Own, HeaderOnly
<1> QED BY <1>2, <1>3, <1>4 DEF RInv

-----------------------------------------------------------------------------
(***************************************************************************)
(* The refinement mapping of Store, by name: the file on its way is the    *)
(* one LoadIssues has exported and not read yet.                           *)
(***************************************************************************)
fetchedBar == [c \in Client |-> IF pc[c] = "exported" THEN {tmp[c]} ELSE {}]

(***************************************************************************)
(* How a step of the client c looks to the store.                          *)
(***************************************************************************)
Unseen == UNCHANGED <<repo, fetchedBar, issueList, idList>>

StoreStep(c) ==
  \/ Store!Create
  \/ Store!Fetch(c) \/ Store!Load(c) \/ Store!Lose(c) \/ Store!Edit(c)
  \/ Store!Choose(c) \/ Store!Publish(c) \/ Store!Leave(c)
  \/ Unseen

(***************************************************************************)
(* What happens to the file on its way depends on the pc and the file of   *)
(* the client alone.                                                       *)
(***************************************************************************)
LEMMA FetchedFact ==
  ASSUME Functions, NEW c \in Client, Own(c)
  PROVE  /\ fetchedBar' = [fetchedBar EXCEPT ![c] =
                            IF pc'[c] = "exported" THEN {tmp'[c]} ELSE {}]
         /\ fetchedBar[c] = IF pc[c] = "exported" THEN {tmp[c]} ELSE {}
         /\ fetchedBar = [fetchedBar EXCEPT ![c] = fetchedBar[c]]
<1>1. \A d \in Client \ {c} : pc'[d] = pc[d] /\ tmp'[d] = tmp[d]
  BY DEF Functions, Own
<1>2. fetchedBar' = [d \in Client |-> IF pc'[d] = "exported" THEN {tmp'[d]} ELSE {}]
  BY DEF fetchedBar
<1> QED BY <1>1, <1>2 DEF fetchedBar

(***************************************************************************)
(* A client that neither is nor gets between export and reading has no     *)
(* file on its way.                                                        *)
(***************************************************************************)
LEMMA NothingFetched ==
  ASSUME Functions, NEW c \in Client, Own(c), pc[c] # "exported", pc'[c] # "exported"
  PROVE  fetchedBar' = fetchedBar
<1>1. fetchedBar' = [fetchedBar EXCEPT ![c] = {}] BY FetchedFact
<1>2. fetchedBar = [fetchedBar EXCEPT ![c] = {}] BY FetchedFact
<1> QED BY <1>1, <1>2

(***************************************************************************)
(* A call that fails: a file on its way gets lost.                         *)
(***************************************************************************)
LEMMA FailStore ==
  ASSUME Functions, NEW c \in Client, Own(c), NEW from, Fail(c, from)
  PROVE  StoreStep(c)
<1>1. pc'[c] = "idle" /\ pc[c] = from /\ UNCHANGED <<repo, issueList, idList>>
  BY DEF Fail, Return, Functions, memVars
<1>2. fetchedBar' = [fetchedBar EXCEPT ![c] = {}] BY <1>1, FetchedFact
<1>3. Store!Lose(c) BY <1>1, <1>2 DEF Store!Lose, fetchedBar
<1> QED BY <1>3 DEF StoreStep

(***************************************************************************)
(* A commit that makes a revision publishes the list of the client.        *)
(***************************************************************************)
LEMMA PublishStore ==
  ASSUME Inv, NEW c \in Client, Own(c), pc[c] = "written", pc'[c] # "exported",
         NewRevision(c), UNCHANGED memVars
  PROVE  StoreStep(c)
<1>1. RepoOK /\ Functions /\ ClientOK(c) BY InvParts DEF Parts
<1>2. wc[c].lines = WriteFile(issueList[c], idList[c], revnum[c])
  BY <1>1 DEF ClientOK, SavedText, TextToWrite
<1>3. PICK ids \in {<<>>, idList[c]} :
        wc[c].lines = WriteFile(issueList[c], ids, 1)
  BY <1>1, <1>2, WriteFileCases DEF ClientOK, CallOK
<1>4. repo' = Append(repo, Store!WriteFile(issueList[c], ids, 1))
  BY <1>3, SameWrite DEF NewRevision
<1>5. UNCHANGED <<fetchedBar, issueList, idList>> BY <1>1, NothingFetched DEF memVars
<1>6. Store!Publish(c) BY <1>4, <1>5 DEF Store!Publish, fetchedBar
<1> QED BY <1>6 DEF StoreStep

(***************************************************************************)
(* LoadIssues is a fetch and a load.                                       *)
(***************************************************************************)
LEMMA LoadStore ==
  ASSUME Functions, NEW c \in Client, Own(c), LoadExport(c) \/ LoadRead(c)
  PROVE  StoreStep(c)
<1>1. CASE Call(c, 0, "exported") /\ ExportFile(c) /\ UNCHANGED memVars
  <2>1. pc'[c] = "exported" /\ tmp'[c] = Latest /\ repo # <<>>
    BY <1>1 DEF Call, ExportFile, Functions
  <2>2. fetchedBar' = [fetchedBar EXCEPT ![c] = {Latest}] BY <2>1, FetchedFact
  <2>3. Store!Fetch(c)
    BY <1>1, <2>1, <2>2 DEF Store!Fetch, fetchedBar, ExportFile, memVars, Latest
  <2> QED BY <2>3 DEF StoreStep
<1>2. CASE /\ Return(c, "exported", TRUE)
           /\ issueList' = [issueList EXCEPT ![c] = ReadFile(tmp[c])]
           /\ DropTemp(c)
           /\ UNCHANGED <<repo, wc, idList>>
  <2>1. pc[c] = "exported" /\ pc'[c] = "idle" BY <1>2 DEF Return, Functions
  <2>2. fetchedBar' = [fetchedBar EXCEPT ![c] = {}] /\ fetchedBar[c] = {tmp[c]}
    BY <2>1, FetchedFact
  <2>3. issueList' = [issueList EXCEPT ![c] = Store!ReadFile(tmp[c])]
    BY <1>2, SameRead
  <2>4. Store!Load(c) BY <1>2, <2>2, <2>3 DEF Store!Load, fetchedBar
  <2> QED BY <2>4 DEF StoreStep
<1> QED BY <1>1, <1>2, FailStore DEF LoadExport, LoadRead

(***************************************************************************)
(* AddIssuesSupport creates the first revision.                            *)
(***************************************************************************)
LEMMA AddSupportStore ==
  ASSUME Functions, NEW c \in Client, HeaderOnly(c), Own(c),
         AddSupportWrite(c) \/ AddSupportImport(c)
  PROVE  StoreStep(c)
<1>1. CASE Call(c, 0, "header") /\ UNCHANGED <<repo, wc, memVars>>
  <2>1. pc[c] = "idle" /\ pc'[c] = "header" BY <1>1 DEF Call, Functions
  <2>2. Unseen BY <1>1, <2>1, NothingFetched DEF Unseen, memVars
  <2> QED BY <2>2 DEF StoreStep
<1>2. CASE /\ \E answered \in BOOLEAN : Return(c, "header", answered)
           /\ ImportFile(c)
           /\ UNCHANGED memVars
  <2>1. pc[c] = "header" /\ pc'[c] = "idle" BY <1>2 DEF Return, Functions
  <2>2. repo = <<>> /\ repo' = <<<<>>>> BY <1>2, <2>1 DEF ImportFile, HeaderOnly
  <2>3. fetchedBar' = fetchedBar BY <2>1, NothingFetched
  <2>4. Store!Create BY <1>2, <2>2, <2>3 DEF Store!Create, fetchedBar, memVars
  <2> QED BY <2>4 DEF StoreStep
<1> QED BY <1>1, <1>2, FailStore DEF AddSupportWrite, AddSupportImport

(***************************************************************************)
(* UpdateIssuesTextFile publishes the list with the commit; the store sees *)
(* none of its other steps.                                                *)
(***************************************************************************)
LEMMA UpdateStore ==
  ASSUME Inv, NEW c \in Client, Own(c), NEW rev,
         UpdateCheckOut(c, rev) \/ UpdateWrite(c) \/ UpdateCommit(c) \/ UpdateDelete(c)
  PROVE  StoreStep(c)
<1>1. Functions BY InvParts DEF Parts
<1>2. ASSUME pc[c] # "exported", pc'[c] # "exported", UNCHANGED <<repo, memVars>>
      PROVE  StoreStep(c)
  <2>1. Unseen BY <1>1, <1>2, NothingFetched DEF Unseen, memVars
  <2> QED BY <2>1 DEF StoreStep
<1>3. CASE UpdateCheckOut(c, rev)
  <2>1. CASE NothingToResolve(c, rev) /\ Return(c, "idle", TRUE) /\ UNCHANGED <<svnVars, memVars>>
    BY <1>1, <1>2, <2>1 DEF Return, Functions, svnVars
  <2>2. CASE Call(c, rev, "checkedout") /\ CheckOut(c) /\ UNCHANGED memVars
    BY <1>1, <1>2, <2>2 DEF Call, CheckOut, Functions
  <2> QED BY <1>1, <1>3, <2>1, <2>2, FailStore DEF UpdateCheckOut
<1>4. CASE UpdateWrite(c)
  <2>1. CASE Goto(c, "checkedout", "written") /\ UNCHANGED <<repo, tmp, memVars>>
    BY <1>1, <1>2, <2>1 DEF Goto, Functions
  <2> QED BY <1>1, <1>4, <2>1, FailStore DEF UpdateWrite
<1>5. CASE UpdateCommit(c)
  <2>1. CASE Goto(c, "written", "committed") /\ Commit(c) /\ UNCHANGED memVars
    <3>1. pc[c] = "written" /\ pc'[c] = "committed" BY <1>1, <2>1 DEF Goto, Functions
    <3> QED BY <1>2, <2>1, <3>1, PublishStore DEF Commit
  <2>2. CASE Return(c, "written", FALSE) /\ CommitAnswerLost(c) /\ UNCHANGED memVars
    <3>1. pc[c] = "written" /\ pc'[c] = "idle" BY <1>1, <2>2 DEF Return, Functions
    <3> QED BY <2>2, <3>1, PublishStore DEF CommitAnswerLost
  <2> QED BY <1>1, <1>5, <2>1, <2>2, FailStore DEF UpdateCommit
<1>6. CASE UpdateDelete(c)
  BY <1>1, <1>2, <1>6 DEF UpdateDelete, Return, Functions
<1> QED BY <1>3, <1>4, <1>5, <1>6

(***************************************************************************)
(* The operations on the memory choose or edit: no issue goes away, and    *)
(* each has its own id.                                                    *)
(***************************************************************************)
LEMMA MemoryStore ==
  ASSUME Inv, Inv', NEW c \in Client, Own(c),
         MemoryStep(c) \/ \E checkStatus : SetIssuesChecked(c, checkStatus)
  PROVE  StoreStep(c)
<1>1. Functions /\ ClientOK(c) /\ Increasing(issueList'[c])
  <2>1. Parts /\ Parts' BY InvParts, PTL
  <2> QED BY <2>1 DEF Parts, ClientOK, MemoryOK
<1>2. ASSUME Quiet(c) PROVE UNCHANGED <<repo, fetchedBar>>
  BY <1>2 DEF Quiet, svnVars, fetchedBar
<1>3. ASSUME NEW checkStatus, SetIssuesChecked(c, checkStatus) PROVE StoreStep(c)
  <2>1. Store!Choose(c)
    BY <1>2, <1>3 DEF SetIssuesChecked, Store!Choose, fetchedBar, Own
  <2> QED BY <2>1 DEF StoreStep
<1>4. ASSUME Quiet(c), idList' = idList, Ids(issueList[c]) \subseteq Ids(issueList'[c])
      PROVE  StoreStep(c)
  <2>1. /\ Store!Ids(issueList[c]) \subseteq Store!Ids(issueList'[c])
        /\ Store!Increasing(issueList'[c])
    BY <1>1, <1>4, SameWrite
  <2>2. Store!Edit(c) BY <1>2, <1>4, <2>1 DEF Store!Edit, fetchedBar, Own
  <2> QED BY <2>2 DEF StoreStep
<1> DEFINE list == issueList[c]
<1>5. list \in Seq(Issue) BY <1>1 DEF ClientOK, MemoryOK
<1>6. ASSUME NEW new, issueList' = [issueList EXCEPT ![c] = new] PROVE issueList'[c] = new
  BY <1>1, <1>6 DEF Functions
<1>7. ASSUME NEW input \in Input, AddNewIssue(c, input) PROVE StoreStep(c)
  <2>1. issueList'[c] = AddNew(list, Entered(EmptyIssue, input))
    BY <1>6, <1>7 DEF AddNewIssue
  <2> QED BY <1>4, <1>5, <1>7, <2>1, AddNewIds DEF AddNewIssue
<1>8. ASSUME NEW i, NEW input \in Input, UpdateIssue(c, i, input) PROVE StoreStep(c)
  <2>1. issueList'[c] = Update(list, Entered(list[i], input))
    BY <1>6, <1>8 DEF UpdateIssue
  <2> QED BY <1>4, <1>8, <2>1, UpdateIds DEF UpdateIssue
<1>9. ASSUME NEW ids, DeleteIssues(c, ids) PROVE StoreStep(c)
  <2>1. issueList'[c] = Delete(list, ids) BY <1>6, <1>9 DEF DeleteIssues
  <2> QED BY <1>4, <1>5, <1>9, <2>1, DeleteIds DEF DeleteIssues
<1> QED BY <1>3, <1>7, <1>8, <1>9 DEF MemoryStep

(***************************************************************************)
(* The end of a process: the client leaves.                                *)
(***************************************************************************)
LEMMA CrashStore ==
  ASSUME Functions, NEW c \in Client, Own(c), Crash(c)
  PROVE  StoreStep(c)
<1>1. pc'[c] = "idle" BY DEF Crash, Forget, Functions
<1>2. fetchedBar' = [fetchedBar EXCEPT ![c] = {}] BY <1>1, FetchedFact
<1>3. Store!Leave(c) BY <1>2 DEF Crash, Forget, Store!Leave, fetchedBar
<1> QED BY <1>3 DEF StoreStep

-----------------------------------------------------------------------------
(***************************************************************************)
(* Every step of a client is a step of the store, or none.                 *)
(***************************************************************************)
LEMMA AnyStepStore ==
  ASSUME RInv, NEW c \in Client, AnyStep(c)
  PROVE  [Store!Next]_(Store!storeVars)
<1>1. Inv /\ Functions /\ HeaderOnly(c) BY InvParts DEF RInv, Parts
<1>2. Inv' /\ Own(c) BY <1>1, AnyStepKeeps DEF Keeps
<1>3. StoreStep(c)
  BY <1>1, <1>2, LoadStore, AddSupportStore, UpdateStore, MemoryStore, CrashStore
     DEF AnyStep, CallStep
<1> QED BY <1>3 DEF StoreStep, Unseen, fetchedBar, Store!Next, Store!storeVars

(***************************************************************************)
(* IssueAccessor implements IssueStore: whatever fails and whoever is      *)
(* killed, a user loads whole revisions and publishes whole lists.         *)
(***************************************************************************)
THEOREM AccessorIsStore == AccessorSpec => StoreSpec
<1>1. AccessorInit => Store!Init
  BY DEF AccessorInit, SubversionInit, Store!Init
<1>2. AccessorInit => RInv
  <2>1. AccessorInit => \A c \in Client : HeaderOnly(c)
    BY DEF AccessorInit, SubversionInit, HeaderOnly
  <2> QED BY <2>1, InitInv DEF RInv
<1>3. RInv /\ [AccessorNext]_accessorVars => RInv'
  <2>1. ASSUME RInv, NEW c \in Client, CallStep(c) \/ MemoryStep(c) \/ Crash(c)
        PROVE  RInv'
    BY <2>1, HeaderStep DEF AnyStep
  <2>2. ASSUME RInv, UNCHANGED accessorVars PROVE RInv'
    BY <2>2, StutterKeeps DEF RInv, accessorVars, HeaderOnly
  <2> QED BY <2>1, <2>2 DEF AccessorNext
<1>4. RInv /\ [AccessorNext]_accessorVars => [Store!Next]_(Store!storeVars)
  <2>1. ASSUME RInv, NEW c \in Client, CallStep(c) \/ MemoryStep(c) \/ Crash(c)
        PROVE  [Store!Next]_(Store!storeVars)
    BY <2>1, AnyStepStore DEF AnyStep
  <2>2. ASSUME UNCHANGED accessorVars PROVE UNCHANGED Store!storeVars
    BY <2>2 DEF accessorVars, Store!storeVars
  <2> QED BY <2>1, <2>2 DEF AccessorNext
<1> QED BY <1>1, <1>2, <1>3, <1>4, PTL DEF AccessorSpec, StoreSpec, Store!Spec
=============================================================================
