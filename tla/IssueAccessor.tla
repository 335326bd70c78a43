--------------------------- MODULE IssueAccessor ----------------------------
(***************************************************************************)
(* IssueAccessor: the issue list in memory, the ids chosen for the next    *)
(* commit, and the calls that bring issues.txt from the repository and     *)
(* back to it.                                                             *)
(*                                                                         *)
(* Each call is a sequence of steps, one for each Subversion call or file  *)
(* it works on, so that the steps of several clients interleave and a      *)
(* client can be killed between any two.  pc says where the running call   *)
(* is:                                                                     *)
(*   LoadIssues            idle -> exported -> idle                        *)
(*   AddIssuesSupport      idle -> header -> idle                          *)
(*   UpdateIssuesTextFile  idle -> checkedout -> written -> committed      *)
(*                              -> idle                                    *)
(* and ret what the last call returned.  The environment here makes any    *)
(* calls in any order; FlatTracker restricts it to what the dialogs do.    *)
(***************************************************************************)
EXTENDS Subversion, IssueDlg

CONSTANTS
  Input,        \* what users enter in CIssueDlg
  MaxId         \* bound on the ids given out

ASSUME AccessorAssumption ==
  /\ Input \subseteq DialogInput
  /\ MaxId \in Nat

VARIABLES
  issueList,    \* issueList_
  idList,       \* idList_
  pc,           \* where the running call is, or "idle"
  revnum,       \* the argument of UpdateIssuesTextFile while it runs
  ret           \* what the last call returned, TRUE if none did since

memVars == <<issueList, idList>>
accessorVars == <<repo, wc, tmp, issueList, idList, pc, revnum, ret>>

AccessorInit ==
  /\ SubversionInit
  /\ issueList = [c \in Client |-> <<>>]
  /\ idList    = [c \in Client |-> <<>>]
  /\ pc        = [c \in Client |-> "idle"]
  /\ revnum    = [c \in Client |-> 0]
  /\ ret       = [c \in Client |-> TRUE]

-----------------------------------------------------------------------------
Call(c, arg, to) ==
  /\ pc[c] = "idle"
  /\ pc'     = [pc EXCEPT ![c] = to]
  /\ revnum' = [revnum EXCEPT ![c] = arg]
  /\ ret'    = [ret EXCEPT ![c] = TRUE]

Goto(c, from, to) ==
  /\ pc[c] = from
  /\ pc' = [pc EXCEPT ![c] = to]
  /\ UNCHANGED <<revnum, ret>>

Return(c, from, value) ==
  /\ pc[c] = from
  /\ pc'     = [pc EXCEPT ![c] = "idle"]
  /\ revnum' = [revnum EXCEPT ![c] = 0]
  /\ ret'    = [ret EXCEPT ![c] = value]

(***************************************************************************)
(* %TEMP%/issues.txt is deleted when a call succeeds.  When it fails the   *)
(* file may stay, but the next call that reads it has written it before,   *)
(* so that a forgotten file is as good as none.                            *)
(***************************************************************************)
DropTemp(c) == tmp' = [tmp EXCEPT ![c] = <<>>]

(***************************************************************************)
(* Any Subversion call, and any attempt to open a file, can fail; the call *)
(* it is part of then returns false at once and cleans nothing up.         *)
(***************************************************************************)
Fail(c, from) ==
  Return(c, from, FALSE) /\ DropTemp(c) /\ UNCHANGED <<repo, wc, memVars>>

(***************************************************************************)
(* CheckIssuesInfo: the names of the second directory are appended to the  *)
(* names of the first, and looked up in both.                              *)
(***************************************************************************)
CheckIssuesInfo ==
  /\ "issues" \in ListRoot
  /\ "issues.txt" \in ListRoot \cup ListIssues

-----------------------------------------------------------------------------
(***************************************************************************)
(* LoadIssues.                                                             *)
(***************************************************************************)
LoadExport(c) ==
  \/ Call(c, 0, "exported") /\ ExportFile(c) /\ UNCHANGED memVars
  \/ Fail(c, "idle")

LoadRead(c) ==
  \/ Fail(c, "exported")
  \/ /\ Return(c, "exported", TRUE)
     /\ issueList' = [issueList EXCEPT ![c] = ReadFile(tmp[c])]
     /\ DropTemp(c)
     /\ UNCHANGED <<repo, wc, idList>>

(***************************************************************************)
(* AddIssuesSupport: a file with the column names and no issue.  The list  *)
(* in memory stays as it is.  When the server makes the file but its       *)
(* answer is lost, the call fails.                                         *)
(***************************************************************************)
AddSupportWrite(c) ==
  \/ /\ Call(c, 0, "header")
     /\ tmp' = [tmp EXCEPT ![c] = <<>>]
     /\ UNCHANGED <<repo, wc, memVars>>
  \/ Fail(c, "idle")

AddSupportImport(c) ==
  \/ /\ \E answered \in BOOLEAN : Return(c, "header", answered)
     /\ ImportFile(c)
     /\ DropTemp(c)
     /\ UNCHANGED memVars
  \/ Fail(c, "header")

-----------------------------------------------------------------------------
(***************************************************************************)
(* UpdateIssuesTextFile(rev): rev is the revision the user committed, or 0 *)
(* for Save.                                                               *)
(***************************************************************************)
NothingToResolve(c, rev) == rev > 0 /\ idList[c] = <<>>

(***************************************************************************)
(* A wrong UpdateCheckOut, to test NoConflict: it goes on with an old      *)
(* working copy when the checkout fails.                                   *)
(***************************************************************************)
UpdateCheckOutGoesOn(c, rev) ==
  /\ ~NothingToResolve(c, rev)
  /\ \/ Call(c, rev, "checkedout") /\ CheckOut(c) /\ UNCHANGED memVars
     \/ /\ wc[c].base # 0
        /\ Call(c, rev, "checkedout")
        /\ UNCHANGED <<svnVars, memVars>>

UpdateCheckOut(c, rev) ==
  \/ /\ NothingToResolve(c, rev)
     /\ Return(c, "idle", TRUE)
     /\ UNCHANGED <<svnVars, memVars>>
  \/ /\ ~NothingToResolve(c, rev)
     /\ \/ Call(c, rev, "checkedout") /\ CheckOut(c) /\ UNCHANGED memVars
        \/ Fail(c, "idle")

TextToWrite(c) == WriteFile(issueList[c], idList[c], revnum[c])

(***************************************************************************)
(* A wrong UpdateWrite, to test CommittedIsOwnList: a file that an earlier *)
(* call has changed is left as it is.                                      *)
(***************************************************************************)
UpdateWriteKeeps(c) ==
  /\ Goto(c, "checkedout", "written")
  /\ wc' = IF Unchanged(wc[c], repo) THEN [wc EXCEPT ![c].lines = TextToWrite(c)] ELSE wc
  /\ UNCHANGED <<repo, tmp, memVars>>

UpdateWrite(c) ==
  \/ Fail(c, "checkedout")
  \/ /\ Goto(c, "checkedout", "written")
     /\ wc' = [wc EXCEPT ![c].lines = TextToWrite(c)]
     /\ UNCHANGED <<repo, tmp, memVars>>

(***************************************************************************)
(* Two wrong forms of UpdateCommit, to test SuccessMeansResolved and       *)
(* HandlersReturn: a failure is not reported, or leads to another try.     *)
(***************************************************************************)
UpdateCommitIgnores(c) ==
  \/ Goto(c, "written", "committed") /\ Commit(c) /\ UNCHANGED memVars
  \/ Goto(c, "written", "committed") /\ UNCHANGED <<svnVars, memVars>>

UpdateCommitRetries(c) ==
  \/ Goto(c, "written", "committed") /\ Commit(c) /\ UNCHANGED memVars
  \/ Goto(c, "written", "checkedout") /\ UNCHANGED <<svnVars, memVars>>

UpdateCommit(c) ==
  \/ Goto(c, "written", "committed") /\ Commit(c) /\ UNCHANGED memVars
  \/ Return(c, "written", FALSE) /\ CommitAnswerLost(c) /\ UNCHANGED memVars
  \/ Fail(c, "written")

(***************************************************************************)
(* The result of SHFileOperation is not looked at: the working copy may    *)
(* stay.                                                                   *)
(***************************************************************************)
UpdateDelete(c) ==
  /\ Return(c, "committed", TRUE)
  /\ wc' \in {wc, [wc EXCEPT ![c] = NoCopy]}
  /\ UNCHANGED <<repo, tmp, memVars>>

-----------------------------------------------------------------------------
(***************************************************************************)
(* The ids chosen for the commit, after SetIssueChecked(id, checked).      *)
(***************************************************************************)
GetIssuedChecked(ids, id) == \E k \in DOMAIN ids : ids[k] = id

WithIssueChecked(ids, id, checked) ==
  IF checked
  THEN IF GetIssuedChecked(ids, id) THEN ids ELSE Append(ids, id)
  ELSE IF GetIssuedChecked(ids, id)
       THEN LET k == CHOOSE k \in DOMAIN ids :
                       ids[k] = id /\ \A j \in 1..(k-1) : ids[j] # id
            IN  SubSeq(ids, 1, k-1) \o SubSeq(ids, k+1, Len(ids))
       ELSE ids

(***************************************************************************)
(* The calls CChooseIssuesDlg::OnOK makes for the entries of a             *)
(* std::map<int, bool>, in the order of the ids.                           *)
(***************************************************************************)
WithIssuesChecked(ids, checkStatus) ==
  LET after[id \in 0..MaxId] ==
        IF id = 0 THEN ids
        ELSE LET before == after[id-1]
             IN  IF id \in DOMAIN checkStatus
                 THEN WithIssueChecked(before, id, checkStatus[id])
                 ELSE before
  IN  after[MaxId]

-----------------------------------------------------------------------------
(***************************************************************************)
(* The operations on the memory alone.                                     *)
(***************************************************************************)
Quiet(c) ==
  /\ pc[c] = "idle"
  /\ ret' = [ret EXCEPT ![c] = TRUE]
  /\ UNCHANGED <<svnVars, pc, revnum>>

SetIssuesChecked(c, checkStatus) ==
  /\ Quiet(c)
  /\ idList' = [idList EXCEPT ![c] = WithIssuesChecked(@, checkStatus)]
  /\ UNCHANGED issueList

AddNewIssue(c, input) ==
  /\ Quiet(c)
  /\ GetMaxId(issueList[c]) < MaxId
  /\ issueList' = [issueList EXCEPT ![c] = AddNew(@, Entered(EmptyIssue, input))]
  /\ UNCHANGED idList

UpdateIssue(c, i, input) ==
  /\ Quiet(c)
  /\ issueList' = [issueList EXCEPT ![c] = Update(@, Entered(@[i], input))]
  /\ UNCHANGED idList

DeleteIssues(c, ids) ==
  /\ Quiet(c)
  /\ issueList' = [issueList EXCEPT ![c] = Delete(@, ids)]
  /\ UNCHANGED idList

(***************************************************************************)
(* The object goes away: with the commit dialog between two calls, or at   *)
(* any time with its process.  Files stay as they are; a process that dies *)
(* while it writes the working copy leaves the first lines in it.          *)
(***************************************************************************)
Forget(c) ==
  /\ issueList' = [issueList EXCEPT ![c] = <<>>]
  /\ idList'    = [idList EXCEPT ![c] = <<>>]
  /\ pc'        = [pc EXCEPT ![c] = "idle"]
  /\ revnum'    = [revnum EXCEPT ![c] = 0]
  /\ ret'       = [ret EXCEPT ![c] = TRUE]
  /\ DropTemp(c)
  /\ UNCHANGED repo

Crash(c) ==
  /\ Forget(c)
  /\ \/ UNCHANGED wc
     \/ /\ pc[c] = "checkedout"
        /\ \E k \in 0..Len(issueList[c]) :
             wc' = [wc EXCEPT ![c].lines = SubSeq(TextToWrite(c), 1, k)]

-----------------------------------------------------------------------------
CallStep(c) ==
  \/ LoadExport(c) \/ LoadRead(c)
  \/ AddSupportWrite(c) \/ AddSupportImport(c)
  \/ \E rev \in {0, 1} : UpdateCheckOut(c, rev)
  \/ UpdateWrite(c) \/ UpdateCommit(c) \/ UpdateDelete(c)

MemoryStep(c) ==
  \/ \E ids \in SUBSET (1..MaxId) : \E checkStatus \in [ids -> BOOLEAN] :
       SetIssuesChecked(c, checkStatus)
  \/ \E input \in Input :
       \/ AddNewIssue(c, input)
       \/ \E i \in DOMAIN issueList[c] : UpdateIssue(c, i, input)
  \/ \E ids \in SUBSET Ids(issueList[c]) : DeleteIssues(c, ids)

AccessorNext == \E c \in Client : CallStep(c) \/ MemoryStep(c) \/ Crash(c)

(***************************************************************************)
(* All sequences of calls.  The dialogs are proved to make some of them.   *)
(***************************************************************************)
AccessorSpec == AccessorInit /\ [][AccessorNext]_accessorVars

-----------------------------------------------------------------------------
(***************************************************************************)
(* The types of the variables; and no working copy is at a revision that   *)
(* the repository does not have.                                           *)
(***************************************************************************)
TypeOK ==
  /\ repo \in Seq(File)
  /\ wc \in [Client -> WorkingCopy]
  /\ \A c \in Client : wc[c].base <= Len(repo)
  /\ tmp \in [Client -> File]
  /\ issueList \in [Client -> Seq(Issue)]
  /\ idList \in [Client -> Seq(Int)]
  /\ pc \in [Client -> {"idle", "exported", "header",
                         "checkedout", "written", "committed"}]
  /\ revnum \in [Client -> Nat]
  /\ ret \in [Client -> BOOLEAN]

(***************************************************************************)
(* Every issue keeps an id of its own: in each list, file and revision the *)
(* ids are positive and increasing, whatever the clients do, in whatever   *)
(* order their steps come, and wherever they are killed.  It rests on      *)
(* GetMaxId counting the deleted issues, which Delete keeps, and on the    *)
(* file being written and read in the order of the list.                   *)
(***************************************************************************)
IncreasingIds ==
  /\ \A r \in DOMAIN repo : Increasing(repo[r])
  /\ \A c \in Client : /\ Increasing(issueList[c])
                       /\ Increasing(wc[c].lines)
                       /\ Increasing(tmp[c])

(***************************************************************************)
(* UpdateIssuesTextFile does not return true for nothing: once the commit  *)
(* has gone through, a revision holds exactly the client's list with the   *)
(* chosen issues resolved, whatever working copy an earlier call had left  *)
(* behind and whatever the others committed meanwhile.                     *)
(***************************************************************************)
CommittedIsOwnList ==
  \A c \in Client :
    pc[c] = "committed" => \E r \in DOMAIN repo : repo[r] = TextToWrite(c)

(***************************************************************************)
(* The accessor implements IssueStore, whatever fails and whoever is       *)
(* killed: LoadIssues is a fetch and a load of the latest revision,        *)
(* UpdateIssuesTextFile publishes the caller's whole list in one step (the *)
(* commit) or not at all, and no left-over working copy, half-written file *)
(* or second import ever becomes a revision.                               *)
(***************************************************************************)
Store == INSTANCE IssueStore WITH
           history <- repo,
           fetched <- [c \in Client |-> IF pc[c] = "exported" THEN {tmp[c]} ELSE {}],
           list    <- issueList,
           chosen  <- idList

StoreSpec == Store!Spec
=============================================================================
