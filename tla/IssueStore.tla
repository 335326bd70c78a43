----------------------------- MODULE IssueStore -----------------------------
(***************************************************************************)
(* What the tracker promises, without working copies, temporary files and  *)
(* calls that fail half-way: a store that keeps every revision of the      *)
(* issues, and users who fetch the latest one, work on a list of their own *)
(* and publish it.  A revision is always the whole list of one user at the *)
(* moment it is published, never a part of it and never a mixture of two.  *)
(* The store does not promise that a user has seen the revision that his   *)
(* own one follows.                                                        *)
(***************************************************************************)
EXTENDS IssueText

CONSTANT Client

VARIABLES
  history,      \* the revisions of the issues
  fetched,      \* for each client, the revision on its way, if there is one
  list,         \* for each client, the list it works on
  chosen        \* for each client, the ids it wants resolved

storeVars == <<history, fetched, list, chosen>>

Init ==
  /\ history = <<>>
  /\ fetched = [c \in Client |-> {}]
  /\ list    = [c \in Client |-> <<>>]
  /\ chosen  = [c \in Client |-> <<>>]

(***************************************************************************)
(* An empty list, which only the first revision can be.                    *)
(***************************************************************************)
Create ==
  /\ history = <<>>
  /\ history' = <<<<>>>>
  /\ UNCHANGED <<fetched, list, chosen>>

Fetch(c) ==
  /\ history # <<>>
  /\ fetched' = [fetched EXCEPT ![c] = {history[Len(history)]}]
  /\ UNCHANGED <<history, list, chosen>>

Load(c) ==
  /\ \E lines \in fetched[c] : list' = [list EXCEPT ![c] = ReadFile(lines)]
  /\ fetched' = [fetched EXCEPT ![c] = {}]
  /\ UNCHANGED <<history, chosen>>

(***************************************************************************)
(* A fetched revision can get lost.                                        *)
(***************************************************************************)
Lose(c) ==
  /\ fetched' = [fetched EXCEPT ![c] = {}]
  /\ UNCHANGED <<history, list, chosen>>

(***************************************************************************)
(* A user changes his list as he likes, but no issue goes away and every   *)
(* issue has its own id.                                                   *)
(***************************************************************************)
Edit(c) ==
  /\ list' = [list EXCEPT ![c] = list'[c]]
  /\ Ids(list[c]) \subseteq Ids(list'[c])
  /\ Increasing(list'[c])
  /\ UNCHANGED <<history, fetched, chosen>>

Choose(c) ==
  /\ chosen' = [chosen EXCEPT ![c] = chosen'[c]]
  /\ UNCHANGED <<history, fetched, list>>

Publish(c) ==
  /\ \E ids \in {<<>>, chosen[c]} :
       history' = Append(history, WriteFile(list[c], ids, 1))
  /\ UNCHANGED <<fetched, list, chosen>>

Leave(c) ==
  /\ fetched' = [fetched EXCEPT ![c] = {}]
  /\ list'    = [list EXCEPT ![c] = <<>>]
  /\ chosen'  = [chosen EXCEPT ![c] = <<>>]
  /\ UNCHANGED history

Next ==
  \/ Create
  \/ \E c \in Client :
       \/ Fetch(c) \/ Load(c) \/ Lose(c) \/ Edit(c)
       \/ Choose(c) \/ Publish(c) \/ Leave(c)

Spec == Init /\ [][Next]_storeVars
=============================================================================
