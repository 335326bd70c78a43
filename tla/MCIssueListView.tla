-------------------------- MODULE MCIssueListView ---------------------------
(***************************************************************************)
(* A list view with at most three issues.                                  *)
(***************************************************************************)
EXTENDS IssueListView

Three == <<1, 2, 3>>
=============================================================================
