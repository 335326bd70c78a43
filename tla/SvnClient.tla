----------------------------- MODULE SvnClient ------------------------------
(***************************************************************************)
(* The life of the Subversion objects, one in the accessor of each         *)
(* provider of a process.  Initialize makes the parts of the client in     *)
(* turn and can fail at each of them; it runs again whenever               *)
(* CChooseIssuesDlg opens, and then makes what is missing.  The destructor *)
(* gives the parts back.  APR itself is one for the process, and counts    *)
(* how often it was initialized.                                           *)
(***************************************************************************)
EXTENDS Integers, Sequences, FiniteSets

CONSTANT Provider     \* the providers of the process

ASSUME ProviderAssumption == IsFiniteSet(Provider)

VARIABLES
  apr,      \* external: how often APR is initialized
  have,     \* the parts of the client that are made: members that are set
  root,     \* whether repositoryRoot_ is known
  stage,    \* what TortoiseSVN does with the provider
  chosen    \* whether idList_ has ids

clientVars == <<apr, have>>
vars == <<apr, have, root, stage, chosen>>

(***************************************************************************)
(* inited_, allocator_, pool_, ctx_, and the members of *ctx_: config and  *)
(* auth_baton, between which nothing can fail.                             *)
(***************************************************************************)
Parts == <<"inited", "allocator", "pool", "ctx", "auth">>
Part == {Parts[i] : i \in DOMAIN Parts}

-----------------------------------------------------------------------------
(***************************************************************************)
(* The parts that Initialize makes: the members of *ctx_ only together     *)
(* with ctx_.                                                              *)
(***************************************************************************)
Missing(parts) == Part \ (parts \cup (IF "ctx" \in parts THEN {"auth"} ELSE {}))

UpTo(k) == {Parts[i] : i \in 1..k}

(***************************************************************************)
(* Initialize, where everything up to part k can be made and the next part *)
(* cannot.                                                                 *)
(***************************************************************************)
Initialize(p, k) ==
  LET made == Missing(have[p]) \cap UpTo(k)
  IN  /\ have' = [have EXCEPT ![p] = @ \cup made]
      /\ apr' = IF "inited" \in made THEN apr + 1 ELSE apr

(***************************************************************************)
(* A wrong result of Initialize, to test NoLoginOnlyAfterFailure: errors   *)
(* of the configuration are not looked at.                                 *)
(***************************************************************************)
InitializedAnyConfig(p, k) == Missing(have[p]) \ {"auth"} \subseteq UpTo(k)

(***************************************************************************)
(* What Initialize returns.                                                *)
(***************************************************************************)
Initialized(p, k) == Missing(have[p]) \subseteq UpTo(k)

(***************************************************************************)
(* A wrong Uninitialize, to test CallsHaveClient: APR is terminated also   *)
(* if this client did not initialize it.                                   *)
(***************************************************************************)
UninitializeAlways(p) ==
  /\ have' = [have EXCEPT ![p] = {}]
  /\ apr' = IF apr > 0 THEN apr - 1 ELSE 0

(***************************************************************************)
(* Uninitialize, from the destructor, after which nobody sees ctx_.        *)
(***************************************************************************)
Uninitialize(p) ==
  /\ have' = [have EXCEPT ![p] = {}]
  /\ apr' = IF "inited" \in have[p] THEN apr - 1 ELSE apr

-----------------------------------------------------------------------------
Init ==
  /\ apr    = 0
  /\ have   = [p \in Provider |-> {}]
  /\ root   = [p \in Provider |-> FALSE]
  /\ stage  = [p \in Provider |-> "none"]
  /\ chosen = [p \in Provider |-> FALSE]

Goto(p, from, to) == stage[p] = from /\ stage' = [stage EXCEPT ![p] = to]

(***************************************************************************)
(* External: TortoiseSVN makes a provider, for a commit or only to ask it  *)
(* for options, and releases it.                                           *)
(***************************************************************************)
FinalConstruct(p) ==
  /\ Goto(p, "none", "commit")
  /\ UNCHANGED <<clientVars, root, chosen>>

FinalRelease(p) ==
  /\ Goto(p, "commit", "none") \/ Goto(p, "finished", "none")
  /\ Uninitialize(p)
  /\ root' = [root EXCEPT ![p] = FALSE]
  /\ chosen' = [chosen EXCEPT ![p] = FALSE]

(***************************************************************************)
(* IssueAccessor::Initialize, from CChooseIssuesDlg::OnInitDialog: then    *)
(* GetRootUrl, the first call that uses the client.  If one of the two     *)
(* fails, the dialog is cancelled.                                         *)
(***************************************************************************)
OnInitDialog(p, k, found) ==
  /\ stage[p] = "commit"
  /\ Initialize(p, k)
  /\ IF Initialized(p, k) /\ found
     THEN /\ stage' = [stage EXCEPT ![p] = "choose"]
          /\ root' = [root EXCEPT ![p] = TRUE]
     ELSE UNCHANGED <<stage, root>>
  /\ UNCHANGED chosen

(***************************************************************************)
(* The dialog ends, with the ids the user chose if with OK.                *)
(***************************************************************************)
OnOK(p, some) ==
  /\ Goto(p, "choose", "commit")
  /\ chosen' = [chosen EXCEPT ![p] = some]
  /\ UNCHANGED <<clientVars, root>>

OnCancel(p) ==
  /\ Goto(p, "choose", "commit")
  /\ UNCHANGED <<clientVars, root, chosen>>

(***************************************************************************)
(* The project is committed; with chosen ids the client is used.           *)
(***************************************************************************)
OnCommitFinished(p) ==
  /\ Goto(p, "commit", "finished")
  /\ UNCHANGED <<clientVars, root, chosen>>

Next ==
  \E p \in Provider :
    \/ FinalConstruct(p) \/ FinalRelease(p)
    \/ \E k \in 0..Len(Parts), found \in BOOLEAN : OnInitDialog(p, k, found)
    \/ \E some \in BOOLEAN : OnOK(p, some)
    \/ OnCancel(p) \/ OnCommitFinished(p)

Spec == Init /\ [][Next]_vars

-----------------------------------------------------------------------------
(***************************************************************************)
(* Where the code calls the Subversion library it has what it calls it     *)
(* with: the dialogs while they are open, and OnCommitFinished, which does *)
(* not look whether Initialize succeeded, as soon as ids are chosen.  The  *)
(* pool is then not one of an APR that another provider has terminated.    *)
(***************************************************************************)
CallsHaveClient ==
  \A p \in Provider :
    stage[p] = "choose" \/ (stage[p] = "finished" /\ chosen[p]) =>
      {"pool", "ctx"} \subseteq have[p] /\ root[p] /\ apr > 0

(***************************************************************************)
(* A dialog opens with a client that can log in, and as long as it is open *)
(* the client keeps that.  The one exception is a client that was left     *)
(* with a context and nothing in it by an Initialize that had failed at    *)
(* the configuration: Initialize then returns true and repairs nothing.    *)
(***************************************************************************)
NoLoginOnlyAfterFailure ==
  [][\A p \in Provider :
       stage'[p] = "choose" /\ "auth" \notin have'[p] =>
         stage[p] # "none" /\ "ctx" \in have[p] /\ "auth" \notin have[p]]_vars
=============================================================================
