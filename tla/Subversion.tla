----------------------------- MODULE Subversion -----------------------------
(***************************************************************************)
(* The calls of class Subversion that read or change something, and what   *)
(* the Subversion libraries do for them, as far as issues.txt is           *)
(* concerned.  Revisions that do not touch issues.txt do not appear.       *)
(*                                                                         *)
(* A client is one user: a machine account with its own %TEMP% directory,  *)
(* in which the plug-in keeps the exported file and the working copy.      *)
(***************************************************************************)
EXTENDS IssueText, WorkingCopies

CONSTANTS
  Client,       \* the users
  RootNames,    \* names the project itself has in the repository's root
  MaxRev        \* bound on the revisions of issues.txt

ASSUME SubversionAssumption == MaxRev \in Nat

VARIABLES
  repo,         \* the committed contents of issues.txt, <<>> before the first
  wc,           \* for each client, the working copy %TEMP%\issues
  tmp           \* for each client, the lines of the file %TEMP%/issues.txt

svnVars == <<repo, wc, tmp>>

WorkingCopy == [base: Nat, lines: File, conflict: BOOLEAN]

SubversionInit ==
  /\ repo = <<>>
  /\ wc = [c \in Client |-> NoCopy]
  /\ tmp = [c \in Client |-> <<>>]

Latest == repo[Len(repo)]

-----------------------------------------------------------------------------
(***************************************************************************)
(* Subversion::ListFiles for the two directories CheckIssuesInfo asks for. *)
(***************************************************************************)
ListRoot   == RootNames \cup (IF repo = <<>> THEN {} ELSE {"issues"})
ListIssues == IF repo = <<>> THEN {} ELSE {"issues.txt"}

(***************************************************************************)
(* A wrong ExportFile, to test ResolvedStays and NamedGetResolved: of any  *)
(* revision.                                                               *)
(***************************************************************************)
ExportFileOfAny(c) ==
  /\ \E r \in DOMAIN repo : tmp' = [tmp EXCEPT ![c] = repo[r]]
  /\ UNCHANGED <<repo, wc>>

(***************************************************************************)
(* Subversion::ExportFile: the latest revision, over whatever is there.    *)
(***************************************************************************)
ExportFile(c) ==
  /\ repo # <<>>
  /\ tmp' = [tmp EXCEPT ![c] = Latest]
  /\ UNCHANGED <<repo, wc>>

(***************************************************************************)
(* A wrong ImportFile, to test StoreSpec: over a file that exists.         *)
(***************************************************************************)
ImportFileOver(c) ==
  /\ Len(repo) < MaxRev
  /\ repo' = Append(repo, tmp[c])
  /\ UNCHANGED wc

(***************************************************************************)
(* Subversion::ImportFile: refused when the file exists already.           *)
(***************************************************************************)
ImportFile(c) ==
  /\ repo = <<>>
  /\ 1 <= MaxRev
  /\ repo' = <<tmp[c]>>
  /\ UNCHANGED wc

(***************************************************************************)
(* Subversion::CheckOut: of the latest revision, over whatever is there.   *)
(***************************************************************************)
CheckOut(c) ==
  /\ repo # <<>>
  /\ \E copy \in CheckedOut(wc[c], repo) : wc' = [wc EXCEPT ![c] = copy]
  /\ UNCHANGED <<repo, tmp>>

(***************************************************************************)
(* Subversion::Commit.                                                     *)
(***************************************************************************)
CanCommit(c) == Committable(wc[c], repo) /\ Len(repo) < MaxRev

NewRevision(c) == repo' = Append(repo, wc[c].lines)

(***************************************************************************)
(* A wrong Commit, to test TypeOK: the working copy is taken to a new      *)
(* revision although there is none.                                        *)
(***************************************************************************)
CommitCountsNothing(c) ==
  /\ CanCommit(c) \/ NothingToCommit(wc[c], repo)
  /\ wc' = [wc EXCEPT ![c].base = Len(repo) + 1]
  /\ IF CanCommit(c) THEN NewRevision(c) ELSE UNCHANGED repo
  /\ UNCHANGED tmp

Commit(c) ==
  /\ \/ /\ CanCommit(c)
        /\ NewRevision(c)
        /\ wc' = [wc EXCEPT ![c].base = Len(repo) + 1]
     \/ /\ NothingToCommit(wc[c], repo)
        /\ UNCHANGED <<repo, wc>>
  /\ UNCHANGED tmp

(***************************************************************************)
(* The server takes the commit but the answer is lost: the call fails, and *)
(* the working copy does not know of the revision.                         *)
(***************************************************************************)
CommitAnswerLost(c) ==
  /\ CanCommit(c)
  /\ NewRevision(c)
  /\ UNCHANGED <<wc, tmp>>
=============================================================================
