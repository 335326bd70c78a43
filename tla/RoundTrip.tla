----------------------------- MODULE RoundTrip ------------------------------
(***************************************************************************)
(* One list that is edited and now and then saved and loaded again, to see *)
(* what the text file does to whatever users type.  Only the conversions   *)
(* count here: saving and loading always work.                             *)
(***************************************************************************)
EXTENDS IssueText, IssueDlg

CONSTANTS
  Input,        \* what users enter in CIssueDlg
  MaxIssues     \* bound on the length of the list

ASSUME RoundTripAssumption ==
  /\ Input \subseteq DialogInput
  /\ MaxIssues \in Nat

VARIABLE list

Saved(issues) == ReadFile(WriteFile(issues, <<>>, 0))

Init == list = <<>>

Add(input) ==
  /\ Len(list) < MaxIssues
  /\ list' = AddNew(list, Entered(EmptyIssue, input))

Edit(i, input) == list' = Update(list, Entered(list[i], input))

SaveAndLoad == list' = Saved(list)

Next ==
  \/ \E input \in Input :
       Add(input) \/ \E i \in DOMAIN list : Edit(i, input)
  \/ SaveAndLoad

Spec == Init /\ [][Next]_list

-----------------------------------------------------------------------------
(***************************************************************************)
(* LoadIssues gives back what UpdateIssuesTextFile wrote exactly for the   *)
(* lists the format can hold, and for no other.                            *)
(***************************************************************************)
RoundTripExact == Saved(list) = list <=> AllStorable(list)

(***************************************************************************)
(* Whatever was typed, LoadIssues leaves no separator in a field: columns  *)
(* shift at most once.  From then on a list changes on its way through the *)
(* file only by what is empty, a title or the last label.                  *)
(***************************************************************************)
LoadedIsClean ==
  [][SaveAndLoad => \A i \in DOMAIN list' : Clean(list'[i])]_list

(***************************************************************************)
(* An issue that is added comes back from the file with its title in the   *)
(* column of the titles.                                                   *)
(***************************************************************************)
AddedKeepsTitle ==
  [][\A input \in Input :
       Add(input) => /\ Len(Saved(list')) = Len(list')
                     /\ Saved(list')[Len(list')].title = input.title]_list
=============================================================================
