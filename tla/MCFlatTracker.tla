--------------------------- MODULE MCFlatTracker ----------------------------
(***************************************************************************)
(* Small instances of FlatTracker.                                         *)
(***************************************************************************)
EXTENDS FlatTracker

MCWord == {"active", "resolved", "closed", "deleted", "t"}

(***************************************************************************)
(* The user gives title and owner and leaves the status as it is; or       *)
(* closes the issue; or gives it a label.                                  *)
(***************************************************************************)
Titled == [title |-> <<"t">>, owner |-> <<"t">>, labels |-> <<>>, status |-> <<>>]
ClosedByHand == [Titled EXCEPT !.status = <<"closed">>]
Labelled == [Titled EXCEPT !.labels = <<<<"t">>>>]

AnyStatus    == {Titled, ClosedByHand}
OnlyLabelled == {Labelled}

AllWords == {"", "active"}
OnlyActive == {"active"}
=============================================================================
