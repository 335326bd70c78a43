-------------------------- MODULE RoundTripProofs ---------------------------
(***************************************************************************)
(* What the text file does to any list whatsoever, from the lemmas on the  *)
(* conversions in IssueTextProofs.                                         *)
(***************************************************************************)
EXTENDS RoundTrip, IssueTextProofs

-----------------------------------------------------------------------------
(***************************************************************************)
(* The list is one of issues with increasing ids, whatever users type.     *)
(***************************************************************************)
ListInv == list \in Seq(Issue) /\ Increasing(list)

(***************************************************************************)
(* Adding, editing, saving and loading all keep it so.                     *)
(***************************************************************************)
LEMMA AlwaysListInv == Spec => []ListInv
<1>1. Init => ListInv
  <2> SUFFICES ASSUME Init PROVE ListInv OBVIOUS
  <2>1. list = <<>> BY DEF Init
  <2>2. <<>> \in Seq(Issue) BY EmptySeq
  <2> QED BY <2>1, <2>2 DEF ListInv, Increasing
<1>2. ListInv /\ [Next]_list => ListInv'
  <2> SUFFICES ASSUME ListInv, [Next]_list PROVE ListInv' OBVIOUS
  <2>1. list \in Seq(Issue) /\ Increasing(list) BY DEF ListInv
  <2>2. \A input \in Input : input \in DialogInput BY RoundTripAssumption
  <2>3. ASSUME NEW input \in Input, Add(input) PROVE ListInv'
    <3>1. Entered(EmptyIssue, input) \in Issue BY <2>2, EmptyIssueFact, EnteredFact
    <3> QED BY <2>1, <2>3, <3>1, AddNewFact DEF Add, ListInv
  <2>4. ASSUME NEW input \in Input, NEW i \in DOMAIN list, Edit(i, input) PROVE ListInv'
    <3>1. Entered(list[i], input) \in Issue BY <2>1, <2>2, MemberFact, EnteredFact
    <3> QED BY <2>1, <2>4, <3>1, UpdateFact DEF Edit, ListInv
  <2>5. ASSUME SaveAndLoad PROVE ListInv'
    BY <2>1, <2>5, SavedExact DEF SaveAndLoad, Saved, ListInv
  <2>6. ASSUME UNCHANGED list PROVE ListInv' BY <2>1, <2>6 DEF ListInv, Increasing
  <2> QED BY <2>3, <2>4, <2>5, <2>6 DEF Next
<1> QED BY <1>1, <1>2, PTL DEF Spec

(***************************************************************************)
(* RoundTripExact: saving and loading gives back what UpdateIssuesTextFile *)
(* wrote for the lists the format can hold and for no other, with any      *)
(* texts and any number of issues.                                         *)
(***************************************************************************)
THEOREM RoundTrips == Spec => []RoundTripExact
<1>1. ListInv => RoundTripExact BY SavedExact DEF ListInv, RoundTripExact, Saved
<1> QED BY <1>1, AlwaysListInv, PTL

(***************************************************************************)
(* LoadedIsClean: no separator is left in a field by LoadIssues, whatever  *)
(* was saved.                                                              *)
(***************************************************************************)
THEOREM LoadsClean == Spec => LoadedIsClean
<1> DEFINE Loads == SaveAndLoad => \A i \in DOMAIN list' : Clean(list'[i])
<1>1. ListInv => Loads
  <2> SUFFICES ASSUME ListInv, SaveAndLoad
               PROVE  \A i \in DOMAIN list' : Clean(list'[i])
    OBVIOUS
  <2> QED BY SavedExact DEF ListInv, SaveAndLoad, Saved
<1> HIDE DEF Loads
<1>2. Spec => [][Loads]_list BY <1>1, AlwaysListInv, PTL
<1> QED BY <1>2 DEF LoadedIsClean, Loads
=============================================================================
