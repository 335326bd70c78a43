------------------------------- MODULE Issues -------------------------------
(***************************************************************************)
(* The data of the tracker: IssueItem and IssueList of Issues.cpp.         *)
(*                                                                         *)
(* A text (title, owner, label, status) is a sequence of tokens: words,    *)
(* which stand for any run of ordinary characters, and the two separators  *)
(* of the file format.  An issue list is a sequence of issues, as it is a  *)
(* std::vector<IssueItem> in the code.                                     *)
(***************************************************************************)
EXTENDS Integers, Sequences

CONSTANT Word

ASSUME WordAssumption ==
  /\ {"active", "resolved", "closed", "deleted"} \subseteq Word
  /\ Word \cap {",", "|"} = {}

Token == Word \cup {",", "|"}
Text  == Seq(Token)

Active   == <<"active">>
Resolved == <<"resolved">>
Deleted  == <<"deleted">>

(***************************************************************************)
(* The statuses the radio buttons of CIssueDlg can set.                    *)
(***************************************************************************)
EditStatus == {Active, Resolved, <<"closed">>}

Issue == [id: Int, status: Text, owner: Text, labels: Seq(Text), title: Text]

-----------------------------------------------------------------------------
(***************************************************************************)
(* A wrong split, to test RoundTripExact: the last piece is always kept.   *)
(***************************************************************************)
splitKeepsLast(text, sep) ==
  LET scan[i \in 0..Len(text)] ==
        IF i = 0 THEN <<<<>>>>
        ELSE LET pieces == scan[i-1] IN
             IF text[i] = sep THEN Append(pieces, <<>>)
             ELSE [pieces EXCEPT ![Len(pieces)] = Append(@, text[i])]
  IN  scan[Len(text)]

(***************************************************************************)
(* The std::getline loop: the pieces of text between separators sep.  A    *)
(* last piece that is empty is not returned, because getline then fails.   *)
(***************************************************************************)
split(text, sep) ==
  LET scan[i \in 0..Len(text)] ==
        IF i = 0 THEN [pieces |-> <<>>, line |-> <<>>]
        ELSE LET before == scan[i-1] IN
             IF text[i] = sep
             THEN [pieces |-> Append(before.pieces, before.line), line |-> <<>>]
             ELSE [pieces |-> before.pieces, line |-> Append(before.line, text[i])]
      end == scan[Len(text)]
  IN  IF end.line = <<>> THEN end.pieces ELSE Append(end.pieces, end.line)

(***************************************************************************)
(* IssueItem::IssueItem: the labels come as one text, cut at the bars.     *)
(***************************************************************************)
IssueItem(id, status, owner, labels, title) ==
  [id |-> id, status |-> status, owner |-> owner,
   labels |-> split(labels, "|"), title |-> title]

(***************************************************************************)
(* IssueItem::GetLabelsInSingleString: joined with commas, a comma being   *)
(* written only once something has been written.                           *)
(***************************************************************************)
GetLabelsInSingleString(labels) ==
  LET ss[i \in 0..Len(labels)] ==
        IF i = 0 THEN <<>>
        ELSE LET before == ss[i-1] IN
             (IF before = <<>> THEN before ELSE Append(before, ",")) \o labels[i]
  IN  ss[Len(labels)]

-----------------------------------------------------------------------------
Ids(list) == {list[i].id : i \in DOMAIN list}

(***************************************************************************)
(* The order in which ids are given out, for the issues of a list and for  *)
(* the lines of a file.                                                    *)
(***************************************************************************)
Increasing(seq) ==
  /\ \A i \in DOMAIN seq : seq[i].id > 0
  /\ \A i, j \in DOMAIN seq : i < j => seq[i].id < seq[j].id

(***************************************************************************)
(* Update and Delete stop at the first issue with the id they look for.    *)
(***************************************************************************)
IsFirst(list, i, id) ==
  /\ list[i].id = id
  /\ \A j \in 1..(i-1) : list[j].id # id

Update(list, item) ==
  [i \in DOMAIN list |-> IF IsFirst(list, i, item.id) THEN item ELSE list[i]]

(***************************************************************************)
(* A wrong Delete, to test NoIssueLost: the issues are taken out.          *)
(***************************************************************************)
DeleteRemoves(list, ids) == SelectSeq(list, LAMBDA issue : issue.id \notin ids)

(***************************************************************************)
(* IssueList::Delete for each of ids: it keeps the issue and only changes  *)
(* its status.                                                             *)
(***************************************************************************)
Delete(list, ids) ==
  [i \in DOMAIN list |-> IF \E id \in ids : IsFirst(list, i, id)
                         THEN [list[i] EXCEPT !.status = Deleted]
                         ELSE list[i]]

(***************************************************************************)
(* A wrong GetMaxId, to test IncreasingIds: deleted issues do not count.   *)
(***************************************************************************)
GetMaxIdSkipsDeleted(list) ==
  LET ids == {0} \cup Ids(SelectSeq(list, LAMBDA issue : issue.status # Deleted))
  IN  CHOOSE m \in ids : \A n \in ids : n <= m

GetMaxId(list) ==
  CHOOSE m \in {0} \cup Ids(list) : \A n \in {0} \cup Ids(list) : n <= m

(***************************************************************************)
(* IssueAccessor::AddNewIssue: the issue of the dialog with the next id.   *)
(* Its labels go through GetLabelsInSingleString and IssueItem again.      *)
(***************************************************************************)
AddNew(list, issue) ==
  Append(list, IssueItem(GetMaxId(list) + 1, issue.status, issue.owner,
                         GetLabelsInSingleString(issue.labels), issue.title))
=============================================================================
