-------------------------- MODULE SvnClientProofs ---------------------------
(***************************************************************************)
(* What holds of the Subversion objects of any number of providers.        *)
(***************************************************************************)
EXTENDS SvnClient, FiniteSetTheorems, TLAPS

(***************************************************************************)
(* The inductive invariant.  APR is initialized once for each client that  *)
(* did it and has not been released; repositoryRoot_ is known only to a    *)
(* client that is complete up to its context, and without it no dialog is  *)
(* open and no id is chosen.                                               *)
(***************************************************************************)
Inited == {p \in Provider : "inited" \in have[p]}

Usable(parts) == {"inited", "pool", "ctx"} \subseteq parts

ProviderOK(p) ==
  /\ root[p] => Usable(have[p])
  /\ chosen[p] \/ stage[p] = "choose" => root[p]

Typed ==
  /\ have   \in [Provider -> SUBSET Part]
  /\ root   \in [Provider -> BOOLEAN]
  /\ stage  \in [Provider -> {"none", "commit", "choose", "finished"}]
  /\ chosen \in [Provider -> BOOLEAN]

Inv ==
  /\ Typed
  /\ apr = Cardinality(Inited)
  /\ \A p \in Provider : ProviderOK(p)

-----------------------------------------------------------------------------
(***************************************************************************)
(* The parts by name.                                                      *)
(***************************************************************************)
LEMMA PartFact == Part = {"inited", "allocator", "pool", "ctx", "auth"}
<1>1. DOMAIN Parts = 1..5 BY DEF Parts
<1> QED BY <1>1 DEF Part, Parts

(***************************************************************************)
(* The providers are finitely many, and so are those with APR.             *)
(***************************************************************************)
LEMMA InitedFact == IsFiniteSet(Inited) /\ Cardinality(Inited) \in Nat
<1>1. Inited \subseteq Provider BY DEF Inited
<1>2. IsFiniteSet(Inited) BY <1>1, ProviderAssumption, FS_Subset
<1> QED BY <1>2, FS_CardinalityType

(***************************************************************************)
(* What Initialize does: it only adds parts; when it returns true the      *)
(* client is usable, and it can log in unless ctx_ was there before.       *)
(***************************************************************************)
LEMMA InitializeFact ==
  ASSUME Typed, NEW p \in Provider, NEW k, Initialize(p, k)
  PROVE  /\ have' \in [Provider -> SUBSET Part]
         /\ \A q \in Provider \ {p} : have'[q] = have[q]
         /\ have[p] \subseteq have'[p]
         /\ Initialized(p, k) => /\ Usable(have'[p])
                                 /\ "ctx" \in have[p] \/ "auth" \in have'[p]
<1> DEFINE made == Missing(have[p]) \cap UpTo(k)
<1>1. have[p] \subseteq Part /\ made \subseteq Part BY DEF Typed, Missing
<1>2. have' = [have EXCEPT ![p] = @ \cup made] BY DEF Initialize
<1>3. have'[p] = have[p] \cup made BY <1>2 DEF Typed
<1>4. have' \in [Provider -> SUBSET Part] /\ \A q \in Provider \ {p} : have'[q] = have[q]
  BY <1>1, <1>2 DEF Typed
<1>5. ASSUME Initialized(p, k)
      PROVE  Usable(have'[p]) /\ ("ctx" \in have[p] \/ "auth" \in have'[p])
  <2>1. made = Missing(have[p]) BY <1>5 DEF Initialized
  <2>2. {"inited", "pool", "ctx"} \subseteq have[p] \cup made
    BY <2>1, PartFact DEF Missing
  <2>3. "ctx" \in have[p] \/ "auth" \in have[p] \cup made
    BY <2>1, PartFact DEF Missing
  <2> QED BY <1>3, <2>2, <2>3 DEF Usable
<1> QED BY <1>3, <1>4, <1>5

(***************************************************************************)
(* Initialize counts APR once for each client, however often it runs.      *)
(***************************************************************************)
LEMMA InitializeCounts ==
  ASSUME Typed, apr = Cardinality(Inited), NEW p \in Provider, NEW k, Initialize(p, k)
  PROVE  apr' = Cardinality(Inited')
<1> DEFINE made == Missing(have[p]) \cap UpTo(k)
<1>1. have' = [have EXCEPT ![p] = @ \cup made] /\ have'[p] = have[p] \cup made
  BY DEF Initialize, Typed
<1>2. "inited" \in made => "inited" \notin have[p] BY DEF Missing
<1>3. apr' = IF "inited" \in made THEN apr + 1 ELSE apr BY DEF Initialize
<1> HIDE DEF made
<1>4. CASE "inited" \in made
  <2>1. p \notin Inited BY <1>2, <1>4 DEF Inited
  <2>2. Inited' = Inited \cup {p} BY <1>1, <1>4 DEF Inited, Typed
  <2>3. Cardinality(Inited \cup {p}) = Cardinality(Inited) + 1
    BY <2>1, InitedFact, FS_AddElement
  <2> QED BY <1>3, <1>4, <2>2, <2>3
<1>5. CASE "inited" \notin made
  <2>1. Inited' = Inited BY <1>1, <1>5 DEF Inited, Typed
  <2> QED BY <1>3, <1>5, <2>1
<1> QED BY <1>4, <1>5

(***************************************************************************)
(* Uninitialize takes back what the client has counted, and nothing else.  *)
(***************************************************************************)
LEMMA UninitializeCounts ==
  ASSUME Typed, apr = Cardinality(Inited), NEW p \in Provider, Uninitialize(p)
  PROVE  apr' = Cardinality(Inited')
<1>1. have' = [have EXCEPT ![p] = {}] BY DEF Uninitialize
<1>2. Inited' = Inited \ {p} BY <1>1 DEF Inited, Typed
<1>3. CASE "inited" \in have[p]
  <2>1. p \in Inited BY <1>3 DEF Inited
  <2>2. Cardinality(Inited \ {p}) = Cardinality(Inited) - 1
    BY <2>1, InitedFact, FS_RemoveElement
  <2> QED BY <1>2, <1>3, <2>2 DEF Uninitialize
<1>4. CASE "inited" \notin have[p]
  <2>1. Inited \ {p} = Inited BY <1>4 DEF Inited
  <2> QED BY <1>2, <1>4, <2>1 DEF Uninitialize
<1> QED BY <1>3, <1>4

-----------------------------------------------------------------------------
(***************************************************************************)
(* A step that leaves the clients alone keeps the count.                   *)
(***************************************************************************)
LEMMA SameCount ==
  ASSUME apr = Cardinality(Inited), UNCHANGED clientVars
  PROVE  apr' = Cardinality(Inited')
BY DEF clientVars, Inited

(***************************************************************************)
(* The invariant is kept by every operation of a provider.                 *)
(***************************************************************************)
LEMMA StepInv ==
  ASSUME Inv, Next
  PROVE  Inv'
<1> USE DEF Inv
<1>1. PICK p \in Provider :
        \/ FinalConstruct(p) \/ FinalRelease(p)
        \/ \E k \in 0..Len(Parts), found \in BOOLEAN : OnInitDialog(p, k, found)
        \/ \E some \in BOOLEAN : OnOK(p, some)
        \/ OnCancel(p) \/ OnCommitFinished(p)
  BY DEF Next
<1>2. CASE FinalConstruct(p)
  <2>1. Typed' BY <1>2 DEF FinalConstruct, Goto, Typed, clientVars
  <2>2. \A q \in Provider : ProviderOK(q)'
    BY <1>2 DEF FinalConstruct, Goto, Typed, ProviderOK, clientVars
  <2>3. apr' = Cardinality(Inited') BY <1>2, SameCount DEF FinalConstruct
  <2> QED BY <2>1, <2>2, <2>3
<1>3. CASE FinalRelease(p)
  <2>1. Typed' BY <1>3 DEF FinalRelease, Goto, Typed, Uninitialize
  <2>2. \A q \in Provider : ProviderOK(q)'
    BY <1>3 DEF FinalRelease, Goto, Typed, ProviderOK, Uninitialize
  <2>3. apr' = Cardinality(Inited') BY <1>3, UninitializeCounts DEF FinalRelease
  <2> QED BY <2>1, <2>2, <2>3
<1>4. ASSUME NEW k \in 0..Len(Parts), NEW found \in BOOLEAN, OnInitDialog(p, k, found)
      PROVE  Inv'
  <2>1. Initialize(p, k) BY <1>4 DEF OnInitDialog
  <2>2. apr' = Cardinality(Inited') BY <2>1, InitializeCounts
  <2>3. /\ have' \in [Provider -> SUBSET Part]
        /\ \A q \in Provider \ {p} : have'[q] = have[q]
        /\ have[p] \subseteq have'[p]
        /\ Initialized(p, k) => Usable(have'[p])
    BY <2>1, InitializeFact
  <2>4. Typed' BY <1>4, <2>3 DEF OnInitDialog, Typed
  <2>5. \A q \in Provider : ProviderOK(q)'
    BY <1>4, <2>3 DEF OnInitDialog, Typed, ProviderOK, Usable
  <2> QED BY <2>2, <2>4, <2>5
<1>5. ASSUME NEW some \in BOOLEAN, OnOK(p, some) PROVE Inv'
  <2>1. Typed' BY <1>5 DEF OnOK, Goto, Typed, clientVars
  <2>2. \A q \in Provider : ProviderOK(q)'
    BY <1>5 DEF OnOK, Goto, Typed, ProviderOK, clientVars
  <2>3. apr' = Cardinality(Inited') BY <1>5, SameCount DEF OnOK
  <2> QED BY <2>1, <2>2, <2>3
<1>6. CASE OnCancel(p) \/ OnCommitFinished(p)
  <2>1. Typed' BY <1>6 DEF OnCancel, OnCommitFinished, Goto, Typed, clientVars
  <2>2. \A q \in Provider : ProviderOK(q)'
    BY <1>6 DEF OnCancel, OnCommitFinished, Goto, Typed, ProviderOK, clientVars
  <2>3. apr' = Cardinality(Inited') BY <1>6, SameCount DEF OnCancel, OnCommitFinished
  <2> QED BY <2>1, <2>2, <2>3
<1> QED BY <1>1, <1>2, <1>3, <1>4, <1>5, <1>6

(***************************************************************************)
(* The invariant holds forever.                                            *)
(***************************************************************************)
LEMMA AlwaysInv == Spec => []Inv
<1>1. Init => Inv
  <2> SUFFICES ASSUME Init PROVE Inv OBVIOUS
  <2>1. Inited = {} BY DEF Init, Inited
  <2>2. apr = Cardinality(Inited) BY <2>1, FS_EmptySet DEF Init
  <2>3. Typed /\ \A p \in Provider : ProviderOK(p) BY DEF Init, Typed, ProviderOK
  <2> QED BY <2>2, <2>3 DEF Inv
<1>2. Inv /\ [Next]_vars => Inv'
  <2>1. ASSUME Inv, UNCHANGED vars PROVE Inv'
    BY <2>1 DEF Inv, vars, Typed, Inited, ProviderOK
  <2> QED BY <2>1, StepInv
<1> QED BY <1>1, <1>2, PTL DEF Spec

(***************************************************************************)
(* Where the code calls the Subversion library, the client and APR are     *)
(* there, for any number of providers that come and go.                    *)
(***************************************************************************)
THEOREM ClientIsThere == Spec => []CallsHaveClient
<1>1. Inv => CallsHaveClient
  <2> SUFFICES ASSUME Inv, NEW p \in Provider,
                      stage[p] = "choose" \/ (stage[p] = "finished" /\ chosen[p])
               PROVE  {"pool", "ctx"} \subseteq have[p] /\ root[p] /\ apr > 0
    BY DEF CallsHaveClient
  <2>1. root[p] /\ Usable(have[p]) BY DEF Inv, ProviderOK
  <2>2. p \in Inited BY <2>1 DEF Usable, Inited
  <2>3. Cardinality(Inited) # 0 BY <2>2, InitedFact, FS_EmptySet
  <2>4. apr > 0 BY <2>3, InitedFact DEF Inv
  <2> QED BY <2>1, <2>4 DEF Usable
<1> QED BY <1>1, AlwaysInv, PTL

(***************************************************************************)
(* A dialog without a login opens only on a client whose Initialize had    *)
(* failed at the configuration before.                                     *)
(***************************************************************************)
THEOREM LoginMissingAfterFailure == Spec => NoLoginOnlyAfterFailure
<1> DEFINE A ==
      \A p \in Provider :
        stage'[p] = "choose" /\ "auth" \notin have'[p] =>
          stage[p] # "none" /\ "ctx" \in have[p] /\ "auth" \notin have[p]
<1>1. ASSUME Inv, Next, NEW q \in Provider, stage'[q] = "choose", "auth" \notin have'[q]
      PROVE  stage[q] # "none" /\ "ctx" \in have[q] /\ "auth" \notin have[q]
  <2> USE DEF Inv
  <2>1. PICK p \in Provider :
          \/ FinalConstruct(p) \/ FinalRelease(p)
          \/ \E k \in 0..Len(Parts), found \in BOOLEAN : OnInitDialog(p, k, found)
          \/ \E some \in BOOLEAN : OnOK(p, some)
          \/ OnCancel(p) \/ OnCommitFinished(p)
    BY <1>1 DEF Next
  <2>2. CASE stage[q] = "choose" /\ have'[q] = have[q]
    BY <1>1, <2>2 DEF ProviderOK, Usable
  <2>3. CASE FinalConstruct(p) \/ FinalRelease(p)
    BY <1>1, <2>2, <2>3 DEF FinalConstruct, FinalRelease, Goto, Typed, clientVars, Uninitialize
  <2>4. ASSUME NEW k \in 0..Len(Parts), NEW found \in BOOLEAN, OnInitDialog(p, k, found)
        PROVE  stage[q] # "none" /\ "ctx" \in have[q] /\ "auth" \notin have[q]
    <3>1. /\ \A r \in Provider \ {p} : have'[r] = have[r]
          /\ have[p] \subseteq have'[p]
          /\ Initialized(p, k) => "ctx" \in have[p] \/ "auth" \in have'[p]
      BY <1>1, <2>4, InitializeFact DEF OnInitDialog
    <3>2. CASE q # p BY <1>1, <2>2, <2>4, <3>1, <3>2 DEF OnInitDialog, Typed
    <3>3. CASE q = p BY <1>1, <2>4, <3>1, <3>3 DEF OnInitDialog, Typed
    <3> QED BY <3>2, <3>3
  <2>5. CASE \E some \in BOOLEAN : OnOK(p, some)
    BY <1>1, <2>2, <2>5 DEF OnOK, Goto, Typed, clientVars
  <2>6. CASE OnCancel(p) \/ OnCommitFinished(p)
    BY <1>1, <2>2, <2>6 DEF OnCancel, OnCommitFinished, Goto, Typed, clientVars
  <2> QED BY <2>1, <2>3, <2>4, <2>5, <2>6
<1>2. Inv /\ [Next]_vars => [A]_vars BY <1>1
<1> QED BY <1>2, AlwaysInv, PTL DEF Spec, NoLoginOnlyAfterFailure
=============================================================================
