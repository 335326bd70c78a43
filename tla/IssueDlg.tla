------------------------------ MODULE IssueDlg ------------------------------
(***************************************************************************)
(* CIssueDlg: the modal dialog behind Add and Edit.  Nothing else of the   *)
(* client runs while it is open, so that it is a function from the issue   *)
(* it shows and what the user leaves in its fields to the issue it gives   *)
(* back on OK.                                                             *)
(***************************************************************************)
EXTENDS Issues

(***************************************************************************)
(* What the user can leave in the fields.  Status <<>> stands for radio    *)
(* buttons nobody touched: they show the status of the issue, or none is   *)
(* checked if no button names it.  The labels are any sequence that Add    *)
(* Label and Delete Label can leave in the combo box.                      *)
(***************************************************************************)
DialogInput ==
  [title: Text, owner: Text, labels: Seq(Text), status: EditStatus \cup {<<>>}]

(***************************************************************************)
(* The issue of CIssueDlg's default constructor, for Add.                  *)
(***************************************************************************)
EmptyIssue == IssueItem(0, Active, <<>>, <<>>, <<>>)

(***************************************************************************)
(* CIssueDlg::OnOK: every field is taken over; the status is that of the   *)
(* button that is checked, and stays if none is.                           *)
(***************************************************************************)
Entered(issue, input) ==
  [issue EXCEPT !.title  = input.title,
                !.owner  = input.owner,
                !.labels = input.labels,
                !.status = IF input.status = <<>> THEN @ ELSE input.status]
=============================================================================
