-------------------------- MODULE MCIssueAccessor ---------------------------
(***************************************************************************)
(* Small instances of IssueAccessor under any sequence of calls.           *)
(***************************************************************************)
EXTENDS IssueAccessor, TLC

MCWord == {"active", "resolved", "closed", "deleted", "t"}

(***************************************************************************)
(* The user enters a title and leaves the status alone.                    *)
(***************************************************************************)
Titled == [title |-> <<"t">>, owner |-> <<>>, labels |-> <<>>, status |-> <<>>]

MCInput == {Titled}

Users == Permutations(Client)

(***************************************************************************)
(* States that count as one.  No step of the accessor looks at ret; a      *)
(* working copy in conflict stays so and is never committed, whatever its  *)
(* file holds; and a copy that has no changes is as good as none, unless   *)
(* the call that checked it out has still to write and commit it.          *)
(***************************************************************************)
Seen(c) ==
  LET copy == wc[c]
      leftover == pc[c] \notin {"checkedout", "written"}
      unchanged == copy.base \in DOMAIN repo /\ copy.lines = repo[copy.base]
  IN  IF copy.conflict THEN <<>>
      ELSE IF leftover /\ unchanged THEN <<0, <<>>>>
      ELSE <<copy.base, copy.lines>>

Distinct ==
  <<repo, [c \in Client |-> Seen(c)], tmp, issueList, idList, pc, revnum>>
=============================================================================
