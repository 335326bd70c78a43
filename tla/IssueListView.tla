--------------------------- MODULE IssueListView ----------------------------
(***************************************************************************)
(* The list view of CChooseIssuesDlg: the rows on the screen with their    *)
(* check boxes and the selection, and checkStatus_, which OnOK takes over. *)
(* RefreshList uses the rows that are there for other issues, and setting  *)
(* a check box sends LVN_ITEMCHANGED back to the dialog, both when the     *)
(* user does it and when RefreshList does (initializing_).                 *)
(*                                                                         *)
(* The issues with a row are those the filter and CManageIssuesDlg leave,  *)
(* which can be any.                                                       *)
(***************************************************************************)
EXTENDS Integers, Sequences, FiniteSets

CONSTANT Issues     \* the ids of the issues, in the order of the list

ASSUME ListViewAssumption ==
  /\ Issues \in Seq(Int)
  /\ \A i, j \in DOMAIN Issues : i # j => Issues[i] # Issues[j]

Id == {Issues[i] : i \in DOMAIN Issues}

VARIABLES
  rows,         \* the rows of the list view: id, box, selected
  checkStatus   \* checkStatus_; an id without an entry counts as not checked

vars == <<rows, checkStatus>>

Selected(view) == {i \in DOMAIN view : view[i].selected}

-----------------------------------------------------------------------------
(***************************************************************************)
(* The rows to which OnLvnItemchangedIssueList applies a box that changed: *)
(* all selected ones if its own row is selected.                           *)
(***************************************************************************)
Following(view, k) == IF view[k].selected THEN Selected(view) ELSE {k}

(***************************************************************************)
(* ListView_SetCheckState and the messages it sends, on the screen.        *)
(***************************************************************************)
SetCheckState(view, k, checked) ==
  IF view[k].box = checked THEN view
  ELSE [i \in DOMAIN view |-> IF i \in Following(view, k)
                              THEN [view[i] EXCEPT !.box = checked] ELSE view[i]]

(***************************************************************************)
(* UpdateIdList for some rows.                                             *)
(***************************************************************************)
UpdateIdList(checks, view, changed, checked) ==
  [id \in Id |-> IF \E i \in changed : view[i].id = id THEN checked ELSE checks[id]]

(***************************************************************************)
(* ListView_SetItem or ListView_InsertItem: row k gets the issue.          *)
(***************************************************************************)
PutItem(view, k, id) ==
  LET old == k \in DOMAIN view
  IN  [i \in DOMAIN view \cup {k} |->
         IF i # k THEN view[i]
         ELSE [id |-> id, box |-> old /\ view[k].box, selected |-> old /\ view[k].selected]]

(***************************************************************************)
(* A wrong ShowIssue, to test ScreenStaysChoice: a row that is used again  *)
(* keeps its box.                                                          *)
(***************************************************************************)
ShowIssueKeepsBox(shown, id) ==
  LET row  == shown.row + 1
      view == PutItem(shown.view, row, id)
  IN  [row  |-> row,
       view |-> IF row \in DOMAIN rows THEN view
                ELSE SetCheckState(view, row, checkStatus[id])]

(***************************************************************************)
(* RefreshList for an issue that passes the filter: the next row, with the *)
(* messages of its check box before the loop goes on.                      *)
(***************************************************************************)
ShowIssue(shown, id) ==
  LET row == shown.row + 1
  IN  [row  |-> row,
       view |-> SetCheckState(PutItem(shown.view, row, id), row, checkStatus[id])]

(***************************************************************************)
(* A wrong RefreshList, to test OnlyClicksChoose: initializing_ is not     *)
(* set, so that the messages change checkStatus_ too.                      *)
(***************************************************************************)
RefreshListUnguarded(ids) ==
  LET Show(before, id) ==
        LET row     == before.row + 1
            view    == PutItem(before.view, row, id)
            checked == before.checks[id]
        IN  [row    |-> row,
             view   |-> SetCheckState(view, row, checked),
             checks |-> IF view[row].box = checked THEN before.checks
                        ELSE UpdateIdList(before.checks, view, Following(view, row), checked)]
      shown[i \in 0..Len(Issues)] ==
        IF i = 0 THEN [row |-> 0, view |-> rows, checks |-> checkStatus]
        ELSE IF Issues[i] \in ids THEN Show(shown[i-1], Issues[i])
        ELSE shown[i-1]
      end == shown[Len(Issues)]
  IN  /\ rows' = SubSeq(end.view, 1, end.row)
      /\ checkStatus' = end.checks

(***************************************************************************)
(* RefreshList: the loop over the issues.  The rows that are left over are *)
(* deleted.                                                                *)
(***************************************************************************)
RefreshList(ids) ==
  LET shown[i \in 0..Len(Issues)] ==
        IF i = 0 THEN [row |-> 0, view |-> rows]
        ELSE IF Issues[i] \in ids THEN ShowIssue(shown[i-1], Issues[i])
        ELSE shown[i-1]
      end == shown[Len(Issues)]
  IN  /\ rows' = SubSeq(end.view, 1, end.row)
      /\ UNCHANGED checkStatus

(***************************************************************************)
(* The user clicks the box of row k: OnLvnItemchangedIssueList.            *)
(***************************************************************************)
OnItemChanged(k) ==
  LET checked == ~rows[k].box
  IN  /\ rows' = SetCheckState(rows, k, checked)
      /\ checkStatus' = UpdateIdList(checkStatus, rows, Following(rows, k), checked)

(***************************************************************************)
(* The user selects rows; no box changes.                                  *)
(***************************************************************************)
Select(chosen) ==
  /\ rows' = [i \in DOMAIN rows |-> [rows[i] EXCEPT !.selected = (i \in chosen)]]
  /\ UNCHANGED checkStatus

-----------------------------------------------------------------------------
(***************************************************************************)
(* OnInitDialog takes the ids chosen before; the rows come with the first  *)
(* RefreshList.                                                            *)
(***************************************************************************)
Init ==
  /\ rows = <<>>
  /\ checkStatus \in [Id -> BOOLEAN]

Next ==
  \/ \E ids \in SUBSET Id : RefreshList(ids)
  \/ \E k \in DOMAIN rows : OnItemChanged(k)
  \/ \E chosen \in SUBSET DOMAIN rows : Select(chosen)

Spec == Init /\ [][Next]_vars

-----------------------------------------------------------------------------
(***************************************************************************)
(* What the user sees checked is what OnOK will choose, for every issue    *)
(* that has a row.                                                         *)
(***************************************************************************)
ScreenIsChoice == \A k \in DOMAIN rows : rows[k].box = checkStatus[rows[k].id]

(***************************************************************************)
(* The screen shows the choice after every RefreshList that finds at most  *)
(* one row selected, also if it did not before and whatever issues the     *)
(* rows had; and a click or a selection does not change that.  With two    *)
(* rows selected RefreshList can set the box of one of them for the other, *)
(* on the screen only.                                                     *)
(***************************************************************************)
Refresh == \E ids \in SUBSET Id : RefreshList(ids)

ScreenStaysChoice ==
  [][IF Refresh THEN Cardinality(Selected(rows)) <= 1 => ScreenIsChoice'
                ELSE ScreenIsChoice => ScreenIsChoice']_vars

(***************************************************************************)
(* Nothing is chosen behind the user's back: an issue is chosen or given   *)
(* up only while it has a row, and the row then shows it.  Filtering, and  *)
(* the messages that RefreshList's own boxes send, change no choice, also  *)
(* not that of the issue a selected row had before.                        *)
(***************************************************************************)
OnlyClicksChoose ==
  [][\A id \in Id :
       checkStatus'[id] # checkStatus[id] =>
         \E k \in DOMAIN rows \cap DOMAIN rows' :
           rows[k].id = id /\ rows'[k].id = id /\ rows'[k].box = checkStatus'[id]]_vars
=============================================================================
