--------------------------- MODULE WorkingCopies ----------------------------
(***************************************************************************)
(* External: what the Subversion libraries do to a working copy that holds *)
(* one file, as Subversion.cpp calls them.                                 *)
(*                                                                         *)
(* A working copy has the revision it was brought to (base, 0: there is no *)
(* working copy), the present contents of its file (lines), and the mark   *)
(* that a conflict leaves and only the user can take away (conflict).      *)
(* revs is the sequence of the file's contents in the repository.          *)
(***************************************************************************)
EXTENDS Integers, Sequences

NoCopy == [base |-> 0, lines |-> <<>>, conflict |-> FALSE]

Fresh(revs) == [base |-> Len(revs), lines |-> revs[Len(revs)], conflict |-> FALSE]

Unchanged(copy, revs) == copy.base = 0 \/ copy.lines = revs[copy.base]

(***************************************************************************)
(* What svn_client_checkout3 makes of a working copy that a former call    *)
(* left behind: it updates it.                                             *)
(*   - A copy with no changes, or with those of the latest revision, is    *)
(*     brought to the latest revision.                                     *)
(*   - A copy with a conflict is skipped.                                  *)
(*   - Changes are kept when the repository has not changed the file.      *)
(*   - Otherwise the two are merged, with or without a conflict.  The      *)
(*     merged text is written over before anything reads it, so that one   *)
(*     of the two texts stands for it.                                     *)
(***************************************************************************)
CheckedOut(copy, revs) ==
  LET latest == revs[Len(revs)]
      kept   == [copy EXCEPT !.base = Len(revs)]
  IN  IF copy.conflict THEN {copy}
      ELSE IF Unchanged(copy, revs) \/ copy.lines = latest THEN {Fresh(revs)}
      ELSE IF revs[copy.base] = latest THEN {kept}
      ELSE {kept, Fresh(revs), [kept EXCEPT !.conflict = TRUE]}

(***************************************************************************)
(* svn_client_commit4 refuses a conflict, and a file that has a newer      *)
(* revision than the working copy.  Without a change it does nothing.      *)
(***************************************************************************)
NothingToCommit(copy, revs) ==
  copy.base # 0 /\ ~copy.conflict /\ Unchanged(copy, revs)

Committable(copy, revs) ==
  /\ copy.base # 0
  /\ ~copy.conflict
  /\ ~Unchanged(copy, revs)
  /\ copy.base = Len(revs)
=============================================================================
