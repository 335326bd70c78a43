----------------------------- MODULE IssueText ------------------------------
(***************************************************************************)
(* issues.txt as UpdateIssuesTextFile writes it and LoadIssues reads it.   *)
(*                                                                         *)
(* A file is a sequence of lines, the comment line with the column names   *)
(* left out.  A line is the number in front of its first comma and the     *)
(* text behind that comma; the number is written with << and read with     *)
(* atoi, which gives it back.                                              *)
(***************************************************************************)
EXTENDS Issues

Line == [id: Int, text: Text]
File == Seq(Line)

(***************************************************************************)
(* The labels of one line, with a bar in front of all but the first.       *)
(***************************************************************************)
WriteLabels(labels) ==
  LET out[i \in 0..Len(labels)] ==
        IF i = 0 THEN <<>>
        ELSE (IF i = 1 THEN <<>> ELSE Append(out[i-1], "|")) \o labels[i]
  IN  out[Len(labels)]

WriteLine(issue, status) ==
  [id   |-> issue.id,
   text |-> status \o <<",">> \o issue.owner \o <<",">>
              \o WriteLabels(issue.labels) \o <<",">> \o issue.title]

(***************************************************************************)
(* A wrong WriteFile, to test DeletedStays: a save resolves issues too.    *)
(***************************************************************************)
WriteFileResolves(list, idList, revnum) ==
  [i \in DOMAIN list |->
     WriteLine(list[i], IF \E k \in DOMAIN idList : idList[k] = list[i].id
                        THEN Resolved ELSE list[i].status)]

(***************************************************************************)
(* The lines written for a list.  After a commit (revnum > 0) the issues   *)
(* of idList are written as resolved, whatever status they have.           *)
(***************************************************************************)
WriteFile(list, idList, revnum) ==
  [i \in DOMAIN list |->
     WriteLine(list[i],
               IF revnum > 0 /\ \E k \in DOMAIN idList : idList[k] = list[i].id
               THEN Resolved ELSE list[i].status)]

(***************************************************************************)
(* A line is skipped unless it has five fields: its number and four more.  *)
(* Fields after the fifth are ignored.                                     *)
(***************************************************************************)
Readable(line) == Len(split(line.text, ",")) >= 4

(***************************************************************************)
(* A wrong ReadLine, to test LoadedIsClean: the title is all that follows  *)
(* the third comma of the text.                                            *)
(***************************************************************************)
ReadLineLongTitle(line) ==
  LET result == split(line.text, ",")
      before == Len(result[1]) + Len(result[2]) + Len(result[3]) + 3
  IN  IssueItem(line.id, result[1], result[2], result[3],
                SubSeq(line.text, before + 1, Len(line.text)))

ReadLine(line) ==
  LET result == split(line.text, ",")
  IN  IssueItem(line.id, result[1], result[2], result[3], result[4])

ReadFile(file) ==
  LET list[i \in 0..Len(file)] ==
        IF i = 0 THEN <<>>
        ELSE IF Readable(file[i]) THEN Append(list[i-1], ReadLine(file[i]))
        ELSE list[i-1]
  IN  list[Len(file)]

-----------------------------------------------------------------------------
(***************************************************************************)
(* The issues the format can hold: a title, no comma in a field, no bar in *)
(* a label, and no empty label at the end.                                 *)
(***************************************************************************)
Has(token, text) == \E k \in DOMAIN text : text[k] = token

Clean(issue) ==
  /\ ~Has(",", issue.title) /\ ~Has(",", issue.owner) /\ ~Has(",", issue.status)
  /\ \A k \in DOMAIN issue.labels :
       ~Has(",", issue.labels[k]) /\ ~Has("|", issue.labels[k])

Storable(issue) ==
  /\ Clean(issue)
  /\ issue.title # <<>>
  /\ issue.labels # <<>> => issue.labels[Len(issue.labels)] # <<>>

AllStorable(issues) == \A i \in DOMAIN issues : Storable(issues[i])
=============================================================================
