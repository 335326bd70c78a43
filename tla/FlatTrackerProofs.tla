-------------------------- MODULE FlatTrackerProofs -------------------------
(***************************************************************************)
(* What holds of the plug-in for any number of users, any input and any    *)
(* bounds.  Every step of a dialog makes a step of IssueAccessor or none,  *)
(* so that the invariants of IssueAccessor hold here as well.              *)
(***************************************************************************)
EXTENDS FlatTracker, IssueAccessorProofs

-----------------------------------------------------------------------------
(***************************************************************************)
(* The ids in a list or a file stay in the range of the ids given out.     *)
(***************************************************************************)
InRange(seq) == Ids(seq) \subseteq 1..MaxId

RangesOK(c) == InRange(wc[c].lines) /\ InRange(tmp[c]) /\ InRange(issueList[c])

RangeInv ==
  /\ \A r \in DOMAIN repo : InRange(repo[r])
  /\ \A c \in Client : RangesOK(c)

(***************************************************************************)
(* The lines written for a list, or the first of them, have its ids.       *)
(***************************************************************************)
LEMMA WriteRange ==
  ASSUME NEW list \in Seq(Issue), InRange(list), NEW ids, NEW rev,
         NEW k \in 0..Len(list)
  PROVE  /\ InRange(WriteFile(list, ids, rev))
         /\ InRange(SubSeq(WriteFile(list, ids, rev), 1, k))
<1> DEFINE file == WriteFile(list, ids, rev)
           part == SubSeq(file, 1, k)
<1>1. file \in File /\ Len(file) = Len(list) BY WriteFileType
<1>2. DOMAIN file = DOMAIN list /\ \A i \in DOMAIN list : file[i].id = list[i].id
  BY DEF WriteFile, WriteLine
<1> HIDE DEF file
<1>3. InRange(file) BY <1>2 DEF InRange, Ids
<1>4. DOMAIN part \subseteq DOMAIN file /\ \A j \in DOMAIN part : part[j] = file[j]
  BY <1>1 DEF File
<1> HIDE DEF part
<1>5. InRange(part) BY <1>3, <1>4 DEF InRange, Ids
<1> QED BY <1>3, <1>5 DEF file, part

(***************************************************************************)
(* AddNewIssue gives out the next id, which its guard keeps in range.      *)
(***************************************************************************)
LEMMA AddRange ==
  ASSUME NEW list \in Seq(Issue), Increasing(list), InRange(list),
         GetMaxId(list) < MaxId, NEW issue
  PROVE  InRange(AddNew(list, issue))
<1> DEFINE id == GetMaxId(list) + 1
           item == IssueItem(id, issue.status, issue.owner,
                             GetLabelsInSingleString(issue.labels), issue.title)
<1>1. id \in 1..MaxId BY GetMaxIdFact, AccessorAssumption
<1>2. item.id = id BY DEF IssueItem
<1>3. AddNew(list, issue) = Append(list, item) BY DEF AddNew
<1> HIDE DEF id, item
<1>4. \A i \in DOMAIN Append(list, item) :
        \/ i \in DOMAIN list /\ Append(list, item)[i] = list[i]
        \/ Append(list, item)[i] = item
  OBVIOUS
<1> QED BY <1>1, <1>2, <1>3, <1>4 DEF InRange, Ids

(***************************************************************************)
(* Every operation on the memory keeps the ids of the list in range.       *)
(***************************************************************************)
LEMMA MemoryRange ==
  ASSUME Inv, RangeInv, NEW c \in Client,
         MemoryStep(c) \/ \E checks : SetIssuesChecked(c, checks)
  PROVE  RangesOK(c)' /\ repo' = repo
<1>1. Functions /\ ClientOK(c) BY InvParts DEF Parts
<1> DEFINE list == issueList[c]
<1>2. list \in Seq(Issue) /\ Increasing(list) /\ InRange(list)
  BY <1>1 DEF ClientOK, MemoryOK, RangeInv, RangesOK
<1>3. ASSUME Quiet(c), InRange(issueList'[c]) PROVE RangesOK(c)' /\ repo' = repo
  BY <1>3 DEF Quiet, svnVars, RangeInv, RangesOK
<1>4. ASSUME NEW new, issueList' = [issueList EXCEPT ![c] = new] PROVE issueList'[c] = new
  BY <1>1, <1>4 DEF Functions
<1>5. ASSUME NEW checks, SetIssuesChecked(c, checks) PROVE RangesOK(c)' /\ repo' = repo
  BY <1>2, <1>3, <1>5 DEF SetIssuesChecked
<1>6. ASSUME NEW input \in Input, AddNewIssue(c, input)
      PROVE  RangesOK(c)' /\ repo' = repo
  <2>1. issueList'[c] = AddNew(list, Entered(EmptyIssue, input))
    BY <1>4, <1>6 DEF AddNewIssue
  <2> QED BY <1>2, <1>3, <1>6, <2>1, AddRange DEF AddNewIssue
<1>7. ASSUME NEW i, NEW input \in Input, UpdateIssue(c, i, input)
      PROVE  RangesOK(c)' /\ repo' = repo
  <2>1. issueList'[c] = Update(list, Entered(list[i], input))
    BY <1>4, <1>7 DEF UpdateIssue
  <2>2. InRange(issueList'[c]) BY <1>2, <2>1, UpdateIds DEF InRange
  <2> QED BY <1>3, <1>7, <2>2 DEF UpdateIssue
<1>8. ASSUME NEW ids, DeleteIssues(c, ids) PROVE RangesOK(c)' /\ repo' = repo
  <2>1. issueList'[c] = Delete(list, ids) BY <1>4, <1>8 DEF DeleteIssues
  <2>2. InRange(issueList'[c]) BY <1>2, <2>1, DeleteIds DEF InRange
  <2> QED BY <1>3, <1>8, <2>2 DEF DeleteIssues
<1> QED BY <1>5, <1>6, <1>7, <1>8 DEF MemoryStep

(***************************************************************************)
(* And every call and every crash moves lines that are in range.           *)
(***************************************************************************)
LEMMA CallRange ==
  ASSUME Inv, RangeInv, NEW c \in Client, CallStep(c) \/ Crash(c)
  PROVE  /\ RangesOK(c)'
         /\ \/ repo' = repo
            \/ \E lines : InRange(lines) /\ repo' = Append(repo, lines)
<1> DEFINE Goal == /\ RangesOK(c)'
                   /\ \/ repo' = repo
                      \/ \E lines : InRange(lines) /\ repo' = Append(repo, lines)
<1>1. RepoOK /\ Functions /\ ClientOK(c) BY InvParts DEF Parts
<1>2. /\ InRange(wc[c].lines) /\ InRange(tmp[c]) /\ InRange(issueList[c])
      /\ InRange(<<>>) /\ wc[c] \in WorkingCopy /\ tmp[c] \in File
      /\ issueList[c] \in Seq(Issue)
  BY <1>1 DEF RangeInv, RangesOK, InRange, Ids, ClientOK, FilesOK, MemoryOK
<1>3. repo # <<>> => Latest \in File /\ InRange(Latest)
  <2>1. repo # <<>> => Len(repo) \in DOMAIN repo BY <1>1 DEF RepoOK
  <2> QED BY <2>1, <1>1 DEF RangeInv, Latest, RepoOK
<1>4. ASSUME NEW from, Fail(c, from) PROVE Goal
  <2>1. tmp'[c] = <<>> BY <1>1, <1>4 DEF Fail, DropTemp, Functions
  <2> QED BY <1>2, <1>4, <2>1 DEF Fail, memVars, RangesOK
<1>5. CASE LoadExport(c)
  <2>1. CASE ExportFile(c) /\ UNCHANGED memVars
    <3>1. tmp'[c] = Latest /\ repo # <<>> BY <1>1, <2>1 DEF ExportFile, Functions
    <3> QED BY <1>2, <1>3, <2>1, <3>1 DEF ExportFile, memVars, RangesOK
  <2> QED BY <1>4, <1>5, <2>1 DEF LoadExport
<1>6. CASE LoadRead(c)
  <2>1. CASE /\ issueList' = [issueList EXCEPT ![c] = ReadFile(tmp[c])]
             /\ DropTemp(c)
             /\ UNCHANGED <<repo, wc, idList>>
    <3>1. tmp'[c] = <<>> /\ issueList'[c] = ReadFile(tmp[c])
      BY <1>1, <2>1 DEF DropTemp, Functions
    <3>2. InRange(ReadFile(tmp[c])) BY <1>2, ReadFileType DEF InRange
    <3> QED BY <1>2, <2>1, <3>1, <3>2 DEF RangesOK
  <2> QED BY <1>4, <1>6, <2>1 DEF LoadRead
<1>7. CASE AddSupportWrite(c)
  <2>1. CASE tmp' = [tmp EXCEPT ![c] = <<>>] /\ UNCHANGED <<repo, wc, memVars>>
    <3>1. tmp'[c] = <<>> BY <1>1, <2>1 DEF Functions
    <3> QED BY <1>2, <2>1, <3>1 DEF memVars, RangesOK
  <2> QED BY <1>4, <1>7, <2>1 DEF AddSupportWrite
<1>8. CASE AddSupportImport(c)
  <2>1. CASE ImportFile(c) /\ DropTemp(c) /\ UNCHANGED memVars
    <3>1. tmp'[c] = <<>> BY <1>1, <2>1 DEF DropTemp, Functions
    <3>2. repo' = Append(repo, tmp[c]) BY <2>1 DEF ImportFile
    <3> QED BY <1>2, <2>1, <3>1, <3>2 DEF ImportFile, memVars, RangesOK
  <2> QED BY <1>4, <1>8, <2>1 DEF AddSupportImport
<1>9. ASSUME NEW rev, UpdateCheckOut(c, rev) PROVE Goal
  <2>1. CASE UNCHANGED <<svnVars, memVars>>
    BY <1>2, <2>1 DEF svnVars, memVars, RangesOK
  <2>2. CASE CheckOut(c) /\ UNCHANGED memVars
    <3>1. PICK copy \in CheckedOut(wc[c], repo) : wc' = [wc EXCEPT ![c] = copy]
      BY <2>2 DEF CheckOut
    <3>2. wc'[c] = copy /\ repo # <<>> BY <1>1, <2>2, <3>1 DEF CheckOut, Functions
    <3>3. copy.lines \in {wc[c].lines, Latest}
      BY <1>1, <3>2, CheckedOutFact DEF RepoOK, ClientOK, FilesOK
    <3> QED BY <1>2, <1>3, <2>2, <3>2, <3>3 DEF CheckOut, memVars, RangesOK
  <2> QED BY <1>4, <1>9, <2>1, <2>2 DEF UpdateCheckOut
<1>10. CASE UpdateWrite(c)
  <2>1. CASE /\ wc' = [wc EXCEPT ![c].lines = TextToWrite(c)]
             /\ UNCHANGED <<repo, tmp, memVars>>
    <3>1. wc'[c].lines = TextToWrite(c) BY <1>1, <1>2, <2>1 DEF Functions, WorkingCopy
    <3>2. 0 \in 0..Len(issueList[c]) BY <1>2
    <3>3. InRange(TextToWrite(c)) BY <1>2, <3>2, WriteRange DEF TextToWrite
    <3> QED BY <1>2, <2>1, <3>1, <3>3 DEF memVars, RangesOK
  <2> QED BY <1>4, <1>10, <2>1 DEF UpdateWrite
<1>11. CASE UpdateCommit(c)
  <2>1. CASE NewRevision(c) /\ UNCHANGED memVars /\ tmp' = tmp
             /\ wc' \in {wc, [wc EXCEPT ![c].base = Len(repo) + 1]}
    <3>1. wc'[c].lines = wc[c].lines BY <1>1, <1>2, <2>1 DEF Functions, WorkingCopy
    <3> QED BY <1>2, <2>1, <3>1 DEF NewRevision, memVars, RangesOK
  <2>2. CASE UNCHANGED <<repo, wc, tmp, memVars>> BY <1>2, <2>2 DEF memVars, RangesOK
  <2> QED BY <1>4, <1>11, <2>1, <2>2 DEF UpdateCommit, Commit, CommitAnswerLost
<1>12. CASE UpdateDelete(c)
  <2>1. wc'[c] \in {wc[c], NoCopy} BY <1>1, <1>12 DEF UpdateDelete, Functions
  <2> QED BY <1>2, <1>12, <2>1, NoCopyFact DEF UpdateDelete, memVars, RangesOK
<1>13. CASE Crash(c)
  <2>1. repo' = repo /\ tmp'[c] = <<>> /\ issueList'[c] = <<>>
    BY <1>1, <1>13 DEF Crash, Forget, DropTemp, Functions
  <2>2. CASE UNCHANGED wc BY <1>2, <2>1, <2>2 DEF RangesOK
  <2>3. ASSUME NEW k \in 0..Len(issueList[c]),
               wc' = [wc EXCEPT ![c].lines = SubSeq(TextToWrite(c), 1, k)]
        PROVE  Goal
    <3>1. wc'[c].lines = SubSeq(TextToWrite(c), 1, k)
      BY <1>1, <1>2, <2>3 DEF Functions, WorkingCopy
    <3>2. InRange(SubSeq(TextToWrite(c), 1, k)) BY <1>2, WriteRange DEF TextToWrite
    <3> QED BY <1>2, <2>1, <3>1, <3>2 DEF RangesOK
  <2> QED BY <1>13, <2>2, <2>3 DEF Crash
<1> QED BY <1>5, <1>6, <1>7, <1>8, <1>9, <1>10, <1>11, <1>12, <1>13 DEF CallStep

(***************************************************************************)
(* So the ids stay in range.                                               *)
(***************************************************************************)
LEMMA RangeStep ==
  ASSUME Inv, RangeInv, NEW c \in Client, AnyStep(c)
  PROVE  RangeInv'
<1>1. RepoOK /\ Functions BY InvParts DEF Parts
<1>2. Own(c) BY AnyStepKeeps DEF Keeps
<1>3. /\ RangesOK(c)'
      /\ \/ repo' = repo
         \/ \E lines : InRange(lines) /\ repo' = Append(repo, lines)
  BY MemoryRange, CallRange DEF AnyStep
<1>4. ASSUME NEW d \in Client, d # c PROVE RangesOK(d)'
  BY <1>1, <1>2, <1>4 DEF Own, Functions, RangeInv, RangesOK
<1>5. ASSUME NEW r \in DOMAIN repo' PROVE InRange(repo'[r])
  <2>1. CASE repo' = repo BY <2>1 DEF RangeInv
  <2>2. ASSUME NEW lines, InRange(lines), repo' = Append(repo, lines)
        PROVE  InRange(repo'[r])
    <3>1. r = Len(repo) + 1 \/ r \in DOMAIN repo BY <1>1, <2>2 DEF RepoOK
    <3> QED BY <1>1, <2>2, <3>1 DEF RangeInv, RepoOK
  <2> QED BY <1>3, <2>1, <2>2
<1> QED BY <1>3, <1>4, <1>5 DEF RangeInv

-----------------------------------------------------------------------------
(***************************************************************************)
(* Each handler makes the calls of IssueAccessor, and nothing else, to     *)
(* change the list, the ids and the files.                                 *)
(***************************************************************************)
OtherAccess(c) ==
  \/ CallStep(c) \/ Crash(c)
  \/ SetIssuesChecked(c, checkStatus[c])
  \/ UNCHANGED accessorVars

AccessStep(c) == OtherAccess(c) \/ MemoryStep(c)

(***************************************************************************)
(* The handlers of CProvider.                                              *)
(***************************************************************************)
LEMMA ProviderAccess ==
  ASSUME NEW c \in Client, ProviderStep(c)
  PROVE  OtherAccess(c)
<1>1. CASE OpenCommitDialog(c) BY <1>1 DEF OpenCommitDialog, OtherAccess
<1>2. CASE CloseCommitDialog(c) BY <1>2 DEF CloseCommitDialog, OtherAccess, Crash
<1>3. CASE KillProcess(c) BY <1>3 DEF KillProcess, OtherAccess
<1>4. CASE OnCommitFinished(c) BY <1>4 DEF OnCommitFinished, OtherAccess, CallStep
<1>5. CASE CommitFinishedStep(c)
  BY <1>5 DEF CommitFinishedStep, UpdateStep, OtherAccess, CallStep
<1> QED BY <1>1, <1>2, <1>3, <1>4, <1>5 DEF ProviderStep

(***************************************************************************)
(* The same for CChooseIssuesDlg.                                          *)
(***************************************************************************)
LEMMA ChooseAccess ==
  ASSUME NEW c \in Client, ChooseStep(c)
  PROVE  OtherAccess(c)
<1>1. CASE OnInitDialog(c) BY <1>1 DEF OnInitDialog, OtherAccess, CallStep
<1>2. CASE InitDialogStep(c) BY <1>2 DEF InitDialogStep, OtherAccess, CallStep
<1>3. CASE \E ids \in SUBSET Rows(issueList[c], filter[c]) : \E checked \in BOOLEAN :
             OnCheck(c, ids, checked)
  BY <1>3 DEF OnCheck, OtherAccess
<1>4. CASE \E word \in Filter : OnFilterChanged(c, word) BY <1>4 DEF OnFilterChanged, OtherAccess
<1>5. CASE OnOK(c) BY <1>5 DEF OnOK, OtherAccess
<1>6. CASE OnCancel(c) BY <1>6 DEF OnCancel, OtherAccess
<1>7. CASE OnManage(c) BY <1>7 DEF OnManage, OtherAccess
<1> QED BY <1>1, <1>2, <1>3, <1>4, <1>5, <1>6, <1>7 DEF ChooseStep

(***************************************************************************)
(* The same for CManageIssuesDlg, which deletes only issues of the list.   *)
(***************************************************************************)
LEMMA ManageAccess ==
  ASSUME NEW c \in Client, ManageStep(c)
  PROVE  AccessStep(c)
<1>1. ASSUME NEW input \in Input, OnAddIssue(c, input) PROVE AccessStep(c)
  BY <1>1 DEF OnAddIssue, AccessStep, MemoryStep
<1>2. ASSUME NEW input \in Input, NEW i \in DOMAIN issueList[c],
             OnEditIssue(c, i, input)
      PROVE  AccessStep(c)
  BY <1>2 DEF OnEditIssue, AccessStep, MemoryStep
<1>3. ASSUME NEW ids \in SUBSET Selectable(issueList[c]), OnDeleteIssue(c, ids)
      PROVE  AccessStep(c)
  <2>1. ids \in SUBSET Ids(issueList[c]) BY DEF Selectable, Ids
  <2>2. DeleteIssues(c, ids) BY <1>3 DEF OnDeleteIssue
  <2> QED BY <2>1, <2>2 DEF AccessStep, MemoryStep
<1>4. ASSUME NEW ending \in BOOLEAN, OnSave(c, ending) \/ OnReload(c, ending)
      PROVE  AccessStep(c)
  BY <1>4 DEF OnSave, OnReload, AccessStep, OtherAccess, CallStep
<1>5. CASE SaveStep(c) BY <1>5 DEF SaveStep, UpdateStep, AccessStep, OtherAccess, CallStep
<1>6. CASE ReloadStep(c) BY <1>6 DEF ReloadStep, AccessStep, OtherAccess, CallStep
<1>7. CASE OnSysCommand(c) BY <1>7 DEF OnSysCommand, AccessStep, OtherAccess
<1> QED BY <1>1, <1>2, <1>3, <1>4, <1>5, <1>6, <1>7 DEF ManageStep

(***************************************************************************)
(* Therefore every handler keeps the invariant of IssueAccessor and        *)
(* changes nothing of another client.                                      *)
(***************************************************************************)
LEMMA NextAccess ==
  ASSUME Inv, NEW c \in Client, ProviderStep(c) \/ ChooseStep(c) \/ ManageStep(c)
  PROVE  Keeps(c)
<1>1. AnyStep(c) \/ UNCHANGED accessorVars
  BY ProviderAccess, ChooseAccess, ManageAccess DEF AccessStep, OtherAccess, AnyStep
<1>2. CASE AnyStep(c) BY <1>2, AnyStepKeeps
<1>3. CASE UNCHANGED accessorVars
  <2>1. Inv' BY <1>3, StutterKeeps
  <2>2. Functions BY InvParts DEF Parts
  <2>3. Own(c) /\ Grows BY <1>3, <2>2 DEF accessorVars, Functions, Own, Grows
  <2> QED BY <2>1, <2>3 DEF Keeps
<1> QED BY <1>1, <1>2, <1>3

(***************************************************************************)
(* The invariants of IssueAccessor hold for the calls the dialogs make.    *)
(***************************************************************************)
THEOREM AccessorInvariants == Spec => [](TypeOK /\ IncreasingIds /\ CommittedIsOwnList)
<1>1. Init => Inv BY InitInv DEF Init
<1>2. Inv /\ [Next]_vars => Inv'
  <2> SUFFICES ASSUME Inv, [Next]_vars PROVE Inv' OBVIOUS
  <2>1. CASE Next BY <2>1, NextAccess DEF Next, Keeps
  <2>2. CASE UNCHANGED vars BY <2>2, StutterKeeps DEF vars
  <2> QED BY <2>1, <2>2
<1>3. Inv => TypeOK /\ IncreasingIds /\ CommittedIsOwnList
  BY DEF Inv, SavedText, CommittedIsOwnList
<1> QED BY <1>1, <1>2, <1>3, PTL DEF Spec

-----------------------------------------------------------------------------
(***************************************************************************)
(* The types of the dialogs' variables, message left out: checkStatus_ has *)
(* entries for ids of a list only, this one or the one before.             *)
(***************************************************************************)
ChecksOK(checks) == \E ids \in SUBSET (1..MaxId) : checks \in [ids -> BOOLEAN]

ChecksInv ==
  /\ filter \in [Client -> Filter]
  /\ checkStatus = [c \in Client |-> checkStatus[c]]
  /\ \A c \in Client : ChecksOK(checkStatus[c])

Dialog == {"none", "commit", "finished", "choose", "manage"}

DialogInv ==
  /\ ChecksInv
  /\ dlg \in [Client -> Dialog]
  /\ modified \in [Client -> BOOLEAN]
  /\ closing \in [Client -> BOOLEAN]

(***************************************************************************)
(* RefreshList makes entries for rows, which are issues of the list.       *)
(***************************************************************************)
LEMMA RefreshedFact ==
  ASSUME NEW checks, ChecksOK(checks), NEW list, InRange(list), NEW word
  PROVE  ChecksOK(Refreshed(checks, list, word))
<1>1. PICK ids \in SUBSET (1..MaxId) : checks \in [ids -> BOOLEAN] BY DEF ChecksOK
<1>2. Rows(list, word) \subseteq 1..MaxId BY DEF Rows, InRange, Ids
<1>3. Refreshed(checks, list, word) \in [ids \cup Rows(list, word) -> BOOLEAN]
  BY <1>1 DEF Refreshed
<1> QED BY <1>2, <1>3 DEF ChecksOK

(***************************************************************************)
(* A handler gives checkStatus_ of one client other entries.               *)
(***************************************************************************)
LEMMA NewChecks ==
  ASSUME ChecksInv, NEW c \in Client, NEW checks, ChecksOK(checks),
         checkStatus' = [checkStatus EXCEPT ![c] = checks], filter' \in [Client -> Filter]
  PROVE  ChecksInv'
<1>1. /\ checkStatus' = [d \in Client |-> checkStatus'[d]] /\ checkStatus'[c] = checks
      /\ \A d \in Client : d # c => checkStatus'[d] = checkStatus[d]
  BY DEF ChecksInv
<1>2. ASSUME NEW d \in Client PROVE ChecksOK(checkStatus'[d])
  BY <1>1 DEF ChecksInv
<1> QED BY <1>1, <1>2 DEF ChecksInv

(***************************************************************************)
(* RefreshList with a filter, and with no list to show.                    *)
(***************************************************************************)
LEMMA RefreshTyped ==
  ASSUME DialogInv, NEW c \in Client, NEW word \in Filter, InRange(issueList'[c]),
         RefreshList(c, word)
  PROVE  ChecksInv'
<1> DEFINE checks == Refreshed(checkStatus[c], issueList'[c], word)
<1>1. ChecksOK(checks) BY RefreshedFact DEF DialogInv, ChecksInv
<1>2. checkStatus' = [checkStatus EXCEPT ![c] = checks]
  BY DEF RefreshList
<1>3. filter' \in [Client -> Filter] BY DEF RefreshList, DialogInv, ChecksInv
<1> HIDE DEF checks
<1> QED BY <1>1, <1>2, <1>3, NewChecks DEF DialogInv

(***************************************************************************)
(* A dialog that starts anew has the default filter and no entries.        *)
(***************************************************************************)
LEMMA ResetTyped ==
  ASSUME DialogInv, NEW c \in Client,
         filter' = [filter EXCEPT ![c] = "active"],
         checkStatus' = [checkStatus EXCEPT ![c] = NoChecks]
  PROVE  ChecksInv'
<1>1. NoChecks \in [{} -> BOOLEAN] BY DEF NoChecks
<1>2. ChecksOK(NoChecks) BY <1>1 DEF ChecksOK
<1>3. filter' \in [Client -> Filter] BY FilterAssumption DEF DialogInv, ChecksInv
<1> QED BY <1>2, <1>3, NewChecks DEF DialogInv

(***************************************************************************)
(* The handlers of CProvider keep the types.                               *)
(***************************************************************************)
LEMMA ProviderTyped ==
  ASSUME DialogInv, NEW c \in Client, ProviderStep(c)
  PROVE  DialogInv'
<1>1. CASE ForgetDialogs(c)
  <2>1. ChecksInv' BY <1>1, ResetTyped DEF ForgetDialogs
  <2>2. /\ dlg' \in [Client -> Dialog]
        /\ modified' \in [Client -> BOOLEAN] /\ closing' \in [Client -> BOOLEAN]
    BY <1>1 DEF ForgetDialogs, Show, DialogInv, Dialog
  <2> QED BY <2>1, <2>2 DEF DialogInv
<1>2. CASE /\ dlg' = dlg \/ Show(c, "commit") \/ Show(c, "finished")
           /\ UNCHANGED <<filter, checkStatus, modified, closing>>
  BY <1>2 DEF Show, DialogInv, ChecksInv, Dialog
<1> QED BY <1>1, <1>2 DEF ProviderStep, OpenCommitDialog, CloseCommitDialog,
           KillProcess, OnCommitFinished, CommitFinishedStep, uiVars

(***************************************************************************)
(* So do those of CChooseIssuesDlg, as far as the ids are in range.        *)
(***************************************************************************)
LEMMA ChooseTyped ==
  ASSUME DialogInv, NEW c \in Client, InRange(issueList[c]), InRange(issueList'[c]),
         ChooseStep(c)
  PROVE  DialogInv'
<1>1. ASSUME EndChoose(c) PROVE DialogInv'
  <2>1. ChecksInv' BY <1>1, ResetTyped DEF EndChoose
  <2>2. dlg' \in [Client -> Dialog]
    BY <1>1 DEF EndChoose, Show, DialogInv, Dialog
  <2> QED BY <1>1, <2>1, <2>2 DEF DialogInv, EndChoose
<1>2. ASSUME NEW word \in Filter, RefreshList(c, word), UNCHANGED <<dlg, modified, closing>>
      PROVE  DialogInv'
  <2>1. ChecksInv' BY <1>2, RefreshTyped
  <2> QED BY <1>2, <2>1 DEF DialogInv
<1>3. ASSUME NEW checks, ChecksOK(checks),
             checkStatus' = [checkStatus EXCEPT ![c] = checks],
             dlg' = dlg \/ Show(c, "choose"), UNCHANGED <<filter, modified, closing>>
      PROVE  DialogInv'
  <2>1. ChecksInv' BY <1>3, NewChecks DEF DialogInv, ChecksInv
  <2>2. dlg' \in [Client -> Dialog]
    BY <1>3 DEF Show, DialogInv, Dialog
  <2> QED BY <1>3, <2>1, <2>2 DEF DialogInv
<1>4. CASE OnInitDialog(c)
  <2> DEFINE checks == [id \in Ids(issueList[c]) |-> GetIssuedChecked(idList[c], id)]
  <2>1. checks \in [Ids(issueList[c]) -> BOOLEAN]
    BY DEF GetIssuedChecked
  <2> HIDE DEF checks
  <2>2. ChecksOK(checks) BY <2>1 DEF ChecksOK, InRange
  <2>3. CASE UNCHANGED <<dlg, checkStatus>>
    BY <1>4, <2>3 DEF OnInitDialog, DialogInv, ChecksInv
  <2>4. CASE Show(c, "choose") /\ checkStatus' = [checkStatus EXCEPT ![c] = checks]
    BY <1>3, <1>4, <2>2, <2>4 DEF OnInitDialog
  <2> QED BY <1>4, <2>3, <2>4 DEF OnInitDialog, checks
<1>5. CASE InitDialogStep(c)
  <2>1. filter[c] \in Filter BY DEF DialogInv, ChecksInv
  <2> QED BY <1>1, <1>2, <1>5, <2>1 DEF InitDialogStep
<1>6. ASSUME NEW ids, NEW checked \in BOOLEAN, OnCheck(c, ids, checked)
      PROVE  DialogInv'
  <2> DEFINE checks == UpdateIdList(checkStatus[c], ids, checked)
  <2>1. PICK S \in SUBSET (1..MaxId) : checkStatus[c] \in [S -> BOOLEAN]
    BY DEF DialogInv, ChecksInv, ChecksOK
  <2>2. checks \in [S -> BOOLEAN] BY <2>1 DEF UpdateIdList
  <2>3. ChecksOK(checks)
    <3> HIDE DEF checks
    <3> QED BY <2>2 DEF ChecksOK
  <2>4. checkStatus' = [checkStatus EXCEPT ![c] = checks] BY <1>6 DEF OnCheck
  <2> HIDE DEF checks
  <2> QED BY <1>3, <1>6, <2>3, <2>4 DEF OnCheck
<1>7. ASSUME NEW word \in Filter, OnFilterChanged(c, word) PROVE DialogInv'
  BY <1>2, <1>7 DEF OnFilterChanged
<1>8. CASE OnOK(c) \/ OnCancel(c) BY <1>1, <1>8 DEF OnOK, OnCancel
<1>9. CASE OnManage(c) BY <1>9 DEF OnManage, Show, DialogInv, ChecksInv, Dialog
<1> QED BY <1>4, <1>5, <1>6, <1>7, <1>8, <1>9 DEF ChooseStep

(***************************************************************************)
(* And those of CManageIssuesDlg.                                          *)
(***************************************************************************)
LEMMA ManageTyped ==
  ASSUME DialogInv, NEW c \in Client, InRange(issueList'[c]), ManageStep(c)
  PROVE  DialogInv'
<1>1. ASSUME Edited(c) PROVE DialogInv' BY <1>1 DEF Edited, DialogInv, ChecksInv
<1>2. ASSUME EndManage(c) PROVE ChecksInv' /\ dlg' \in [Client -> Dialog]
  <2>1. filter[c] \in Filter BY DEF DialogInv, ChecksInv
  <2>2. ChecksInv' BY <1>2, <2>1, RefreshTyped DEF EndManage
  <2>3. dlg' \in [Client -> Dialog]
    BY <1>2 DEF EndManage, Show, DialogInv, Dialog
  <2> QED BY <2>2, <2>3
<1>3. ASSUME NEW ending \in BOOLEAN, NEW clears, AfterCall(c, ending, clears)
      PROVE  DialogInv'
  <2>1. modified' \in [Client -> BOOLEAN] /\ closing' \in [Client -> BOOLEAN]
    BY <1>3 DEF AfterCall, DialogInv
  <2> QED BY <1>2, <1>3, <2>1 DEF AfterCall, DialogInv, ChecksInv
<1>4. closing[c] \in BOOLEAN BY DEF DialogInv
<1>5. CASE OnSysCommand(c) BY <1>2, <1>5 DEF OnSysCommand, DialogInv
<1> QED BY <1>1, <1>3, <1>4, <1>5 DEF ManageStep, OnAddIssue, OnEditIssue, OnDeleteIssue,
           OnSave, OnReload, SaveStep, ReloadStep

-----------------------------------------------------------------------------
(***************************************************************************)
(* The inductive invariant of the dialogs, together with Inv.  The ids of  *)
(* the message are the chosen ones even while no dialog is open, and a     *)
(* call in OnCommitFinished has the revision as its argument.              *)
(***************************************************************************)
ResolvedIn(c) ==
  \E r \in DOMAIN repo : repo[r] = WriteFile(issueList[c], idList[c], 1)

Finished(c) ==
  dlg[c] = "finished" =>
    /\ pc[c] # "idle" => revnum[c] = 1
    /\ pc[c] = "idle" /\ ret[c] /\ idList[c] # <<>> => ResolvedIn(c)

Same(c) == message[c] = idList[c]

UiInv ==
  /\ dlg = [c \in Client |-> dlg[c]]
  /\ message = [c \in Client |-> message[c]]
  /\ \A c \in Client : Same(c) /\ Finished(c)

(***************************************************************************)
(* No call of IssueAccessor changes the chosen ids.                        *)
(***************************************************************************)
LEMMA CallKeepsIds ==
  ASSUME NEW c \in Client, NEW rev,
         \/ LoadExport(c) \/ LoadRead(c) \/ AddSupportWrite(c) \/ AddSupportImport(c)
         \/ UpdateCheckOut(c, rev) \/ UpdateStep(c)
  PROVE  idList' = idList
<1> USE DEF Fail, memVars
<1>1. CASE LoadExport(c) BY <1>1 DEF LoadExport
<1>2. CASE LoadRead(c) BY <1>2 DEF LoadRead
<1>3. CASE AddSupportWrite(c) BY <1>3 DEF AddSupportWrite
<1>4. CASE AddSupportImport(c) BY <1>4 DEF AddSupportImport
<1>5. CASE UpdateCheckOut(c, rev) BY <1>5 DEF UpdateCheckOut
<1>6. CASE UpdateStep(c) BY <1>6 DEF UpdateStep, UpdateWrite, UpdateCommit, UpdateDelete
<1> QED BY <1>1, <1>2, <1>3, <1>4, <1>5, <1>6

(***************************************************************************)
(* What a handler does to the message and which of them can leave          *)
(* OnCommitFinished as the one that runs.                                  *)
(***************************************************************************)
MessageStep(c) ==
  \/ message' = message /\ idList' = idList
  \/ message' = [message EXCEPT ![c] = idList'[c]]
  \/ /\ message' = [message EXCEPT ![c] = <<>>]
     /\ idList' = [idList EXCEPT ![c] = <<>>]

DlgStep(c) ==
  \/ dlg' = dlg /\ dlg[c] # "finished"
  \/ \E d \in {"none", "commit", "choose", "manage"} : dlg' = [dlg EXCEPT ![c] = d]
  \/ OnCommitFinished(c)
  \/ CommitFinishedStep(c)

(***************************************************************************)
(* The handlers of CProvider: the message and the chosen ids go away       *)
(* together.                                                               *)
(***************************************************************************)
LEMMA ProviderUi ==
  ASSUME NEW c \in Client, ProviderStep(c)
  PROVE  MessageStep(c) /\ DlgStep(c)
<1> USE DEF MessageStep, DlgStep
<1>1. CASE OpenCommitDialog(c) BY <1>1 DEF OpenCommitDialog, Show, accessorVars
<1>2. CASE CloseCommitDialog(c)
  BY <1>2 DEF CloseCommitDialog, ForgetDialogs, Show, Forget
<1>3. CASE KillProcess(c) BY <1>3 DEF KillProcess, ForgetDialogs, Show, Crash, Forget
<1>4. CASE OnCommitFinished(c) BY <1>4, CallKeepsIds DEF OnCommitFinished
<1>5. CASE CommitFinishedStep(c) BY <1>5, CallKeepsIds DEF CommitFinishedStep, uiVars
<1> QED BY <1>1, <1>2, <1>3, <1>4, <1>5 DEF ProviderStep

(***************************************************************************)
(* The handlers of CChooseIssuesDlg: OnOK changes the chosen ids and takes *)
(* them over into the message.                                             *)
(***************************************************************************)
LEMMA ChooseUi ==
  ASSUME NEW c \in Client, ChooseStep(c)
  PROVE  MessageStep(c) /\ DlgStep(c)
<1> USE DEF MessageStep, DlgStep
<1>1. CASE OnInitDialog(c) BY <1>1, CallKeepsIds DEF OnInitDialog, Show, Idle
<1>2. CASE InitDialogStep(c) BY <1>2, CallKeepsIds DEF InitDialogStep, EndChoose, Show
<1>3. CASE \E ids \in SUBSET Rows(issueList[c], filter[c]) : \E checked \in BOOLEAN :
             OnCheck(c, ids, checked)
  BY <1>3 DEF OnCheck, Idle, accessorVars
<1>4. CASE \E word \in Filter : OnFilterChanged(c, word)
  BY <1>4 DEF OnFilterChanged, Idle, accessorVars
<1>5. CASE OnOK(c) BY <1>5 DEF OnOK, EndChoose, Show, GetCommitMessage2
<1>6. CASE OnCancel(c) BY <1>6 DEF OnCancel, EndChoose, Show, accessorVars
<1>7. CASE OnManage(c) BY <1>7 DEF OnManage, Show, accessorVars
<1> QED BY <1>1, <1>2, <1>3, <1>4, <1>5, <1>6, <1>7 DEF ChooseStep

(***************************************************************************)
(* The handlers of CManageIssuesDlg: they change neither the chosen ids    *)
(* nor the message.                                                        *)
(***************************************************************************)
LEMMA ManageUi ==
  ASSUME NEW c \in Client, ManageStep(c)
  PROVE  MessageStep(c) /\ DlgStep(c)
<1> USE DEF MessageStep, DlgStep
<1>1. ASSUME NEW input \in Input, OnAddIssue(c, input)
      PROVE  MessageStep(c) /\ DlgStep(c)
  BY <1>1 DEF OnAddIssue, Edited, AddNewIssue, Idle
<1>2. ASSUME NEW input \in Input, NEW i \in DOMAIN issueList[c],
             OnEditIssue(c, i, input)
      PROVE  MessageStep(c) /\ DlgStep(c)
  BY <1>2 DEF OnEditIssue, Edited, UpdateIssue, Idle
<1>3. ASSUME NEW ids \in SUBSET Selectable(issueList[c]), OnDeleteIssue(c, ids)
      PROVE  MessageStep(c) /\ DlgStep(c)
  BY <1>3 DEF OnDeleteIssue, Edited, DeleteIssues, Idle
<1>4. ASSUME NEW ending \in BOOLEAN, OnSave(c, ending) \/ OnReload(c, ending)
      PROVE  MessageStep(c) /\ DlgStep(c)
  BY <1>4, CallKeepsIds DEF OnSave, OnReload, Idle, AfterCall, EndManage, Show
<1>5. CASE SaveStep(c)
  BY <1>5, CallKeepsIds DEF SaveStep, AfterCall, EndManage, Show
<1>6. CASE ReloadStep(c)
  BY <1>6, CallKeepsIds DEF ReloadStep, AfterCall, EndManage, Show
<1>7. CASE OnSysCommand(c) BY <1>7 DEF OnSysCommand, EndManage, Show, accessorVars
<1> QED BY <1>1, <1>2, <1>3, <1>4, <1>5, <1>6, <1>7 DEF ManageStep

(***************************************************************************)
(* OnCommitFinished: the call it makes ends with true only behind the      *)
(* commit, or at once if no issue was chosen.                              *)
(***************************************************************************)
LEMMA FinishedStep ==
  ASSUME Inv, UiInv, NEW c \in Client, OnCommitFinished(c) \/ CommitFinishedStep(c)
  PROVE  Finished(c)'
<1>1. Functions /\ ClientOK(c) BY InvParts DEF Parts
<1>2. idList' = idList
  BY CallKeepsIds DEF OnCommitFinished, CommitFinishedStep
<1>3. ASSUME NEW from, Return(c, from, FALSE) PROVE Finished(c)'
  <2>1. pc'[c] = "idle" /\ ret'[c] = FALSE BY <1>1, <1>3 DEF Return, Functions
  <2> QED BY <2>1, Zenon DEF Finished
<1>4. ASSUME NEW from, Fail(c, from) PROVE Finished(c)' BY <1>3, <1>4 DEF Fail
<1>5. CASE OnCommitFinished(c)
  <2>1. CASE idList[c] = <<>> /\ Return(c, "idle", TRUE)
    <3>1. pc'[c] = "idle" BY <1>1, <2>1 DEF Return, Functions
    <3> QED BY <1>2, <2>1, <3>1 DEF Finished
  <2>2. CASE Call(c, 1, "checkedout")
    <3>1. pc'[c] = "checkedout" /\ revnum'[c] = 1 BY <1>1, <2>2 DEF Call, Functions
    <3> QED BY <3>1 DEF Finished
  <2>3. CASE Fail(c, "idle") BY <1>4, <2>3
  <2> QED BY <1>5, <2>1, <2>2, <2>3
          DEF OnCommitFinished, UpdateCheckOut, NothingToResolve
<1>6. CASE CommitFinishedStep(c)
  <2>1. dlg[c] = "finished" /\ Finished(c) BY <1>6 DEF CommitFinishedStep, UiInv
  <2>2. ASSUME NEW from, from # "idle", NEW to, to # "idle", Goto(c, from, to)
        PROVE  Finished(c)'
    <3>1. revnum'[c] = 1 BY <2>1, <2>2 DEF Finished, Goto
    <3>2. pc'[c] # "idle" BY <1>1, <2>2 DEF Goto, Functions
    <3> QED BY <3>1, <3>2 DEF Finished
  <2>3. CASE UpdateWrite(c)
    <3>1. CASE Goto(c, "checkedout", "written") BY <2>2, <3>1
    <3> QED BY <1>4, <2>3, <3>1 DEF UpdateWrite
  <2>4. CASE UpdateCommit(c)
    <3>1. CASE Goto(c, "written", "committed") BY <2>2, <3>1
    <3> QED BY <1>3, <1>4, <2>4, <3>1 DEF UpdateCommit
  <2>5. CASE UpdateDelete(c)
    <3>1. pc[c] = "committed" BY <2>5 DEF UpdateDelete, Return
    <3>2. revnum[c] = 1 BY <2>1, <3>1 DEF Finished
    <3>3. PICK r \in DOMAIN repo : repo[r] = TextToWrite(c)
      BY <1>1, <3>1 DEF ClientOK, SavedText
    <3>4. repo' = repo /\ issueList' = issueList BY <2>5 DEF UpdateDelete, memVars
    <3>5. ResolvedIn(c)' BY <1>2, <3>2, <3>3, <3>4 DEF ResolvedIn, TextToWrite
    <3>6. pc'[c] = "idle" BY <1>1, <2>5 DEF UpdateDelete, Return, Functions
    <3> QED BY <3>5, <3>6 DEF Finished
  <2> QED BY <1>6, <2>3, <2>4, <2>5 DEF CommitFinishedStep, UpdateStep
<1> QED BY <1>5, <1>6

(***************************************************************************)
(* Every handler keeps both invariants: for its own client by the lemmas   *)
(* above, for the others because a revision once committed stays.          *)
(***************************************************************************)
LEMMA UiStep ==
  ASSUME Inv, UiInv, NEW c \in Client,
         ProviderStep(c) \/ ChooseStep(c) \/ ManageStep(c)
  PROVE  Inv' /\ UiInv'
<1>1. Own(c) /\ Grows /\ Inv' BY NextAccess DEF Keeps
<1>2. MessageStep(c) /\ DlgStep(c) BY ProviderUi, ChooseUi, ManageUi
<1>3. RepoOK /\ Functions /\ Functions' BY <1>1, InvParts, PTL DEF Parts
<1>4. dlg' = [dlg EXCEPT ![c] = dlg'[c]]
  BY <1>2 DEF DlgStep, UiInv, OnCommitFinished, CommitFinishedStep, Show, uiVars
<1>5. message' = [message EXCEPT ![c] = message'[c]]
  BY <1>2 DEF MessageStep, UiInv
<1>6. Same(c)' BY <1>2, <1>3 DEF MessageStep, UiInv, Same, Functions
<1>7. Finished(c)'
  <2>1. CASE OnCommitFinished(c) \/ CommitFinishedStep(c) BY <2>1, FinishedStep
  <2>2. CASE dlg'[c] # "finished" BY <2>2 DEF Finished
  <2>3. \A d \in {"none", "commit", "choose", "manage"} : d # "finished" OBVIOUS
  <2> QED BY <1>2, <2>1, <2>2, <2>3 DEF DlgStep, UiInv
<1>8. ASSUME NEW d \in Client, d # c PROVE Same(d)' /\ Finished(d)'
  <2>1. /\ issueList'[d] = issueList[d] /\ idList'[d] = idList[d] /\ pc'[d] = pc[d]
        /\ revnum'[d] = revnum[d] /\ ret'[d] = ret[d]
    BY <1>1, <1>3, <1>8 DEF Own, Functions
  <2>2. dlg'[d] = dlg[d] /\ message'[d] = message[d] BY <1>4, <1>5, <1>8 DEF UiInv
  <2>3. \A r \in DOMAIN repo : r \in DOMAIN repo' /\ repo'[r] = repo[r]
    BY <1>1, <1>3 DEF Grows, RepoOK
  <2>4. ResolvedIn(d) => ResolvedIn(d)' BY <2>1, <2>3 DEF ResolvedIn
  <2>5. Same(d) /\ Finished(d) BY DEF UiInv
  <2>6. Same(d)' BY <2>1, <2>2, <2>5 DEF Same
  <2>7. Finished(d)' BY <2>1, <2>2, <2>4, <2>5, Zenon DEF Finished
  <2> QED BY <2>6, <2>7
<1>9. dlg' = [d \in Client |-> dlg'[d]] /\ message' = [d \in Client |-> message'[d]]
  BY <1>4, <1>5 DEF UiInv
<1> QED BY <1>1, <1>6, <1>7, <1>8, <1>9 DEF UiInv

(***************************************************************************)
(* So does a step that changes nothing.                                    *)
(***************************************************************************)
LEMMA UiStutter ==
  ASSUME Inv, UiInv, UNCHANGED vars
  PROVE  Inv' /\ UiInv'
<1>1. UNCHANGED <<accessorVars, uiVars>> BY DEF vars
<1>2. Inv' BY <1>1, StutterKeeps
<1>3. UiInv' BY <1>1 DEF UiInv, Same, Finished, ResolvedIn, accessorVars, uiVars
<1> QED BY <1>2, <1>3

(***************************************************************************)
(* Both invariants hold before any dialog is opened.                       *)
(***************************************************************************)
LEMMA UiInit == Init => Inv /\ UiInv
<1> SUFFICES ASSUME Init PROVE Inv /\ UiInv OBVIOUS
<1>1. AccessorInit /\ Inv BY InitInv DEF Init
<1>2. UiInv
  BY DEF Init, AccessorInit, UiInv, Same, Finished
<1> QED BY <1>1, <1>2

(***************************************************************************)
(* Both invariants hold forever.                                           *)
(***************************************************************************)
LEMMA AlwaysUiInv == Spec => [](Inv /\ UiInv)
<1>1. Inv /\ UiInv /\ [Next]_vars => Inv' /\ UiInv'
  BY UiStep, UiStutter DEF Next
<1> QED BY <1>1, UiInit, PTL DEF Spec

(***************************************************************************)
(* OnCommitFinished reports success only when a revision has the chosen    *)
(* issues resolved, for any number of users who save at the same time.     *)
(***************************************************************************)
THEOREM SuccessIsTrue == Spec => []SuccessMeansResolved
<1>1. UiInv => SuccessMeansResolved
  BY Zenon DEF UiInv, Finished, ResolvedIn, SuccessMeansResolved, Idle
<1> QED BY <1>1, AlwaysUiInv, PTL

-----------------------------------------------------------------------------
(***************************************************************************)
(* All of it together is inductive.                                        *)
(***************************************************************************)
AllInv == Inv /\ UiInv /\ RangeInv /\ DialogInv

(***************************************************************************)
(* Every handler keeps it, and makes a step of IssueAccessor or none.      *)
(***************************************************************************)
LEMMA AllStep ==
  ASSUME AllInv, NEW c \in Client, ProviderStep(c) \/ ChooseStep(c) \/ ManageStep(c)
  PROVE  AllInv' /\ [AccessorNext]_accessorVars
<1> USE DEF AllInv
<1>1. AccessStep(c) BY ProviderAccess, ChooseAccess, ManageAccess DEF AccessStep
<1>2. AnyStep(c) \/ UNCHANGED accessorVars BY <1>1 DEF AccessStep, OtherAccess, AnyStep
<1>3. Inv' /\ UiInv' BY UiStep
<1>4. RangeInv'
  <2>1. CASE UNCHANGED accessorVars BY <2>1 DEF accessorVars, RangeInv, RangesOK
  <2> QED BY <1>2, <2>1, RangeStep
<1>5. InRange(issueList[c]) /\ InRange(issueList'[c]) BY <1>4 DEF RangeInv, RangesOK
<1>6. DialogInv' BY <1>5, ProviderTyped, ChooseTyped, ManageTyped
<1>7. ASSUME SetIssuesChecked(c, checkStatus[c]) PROVE MemoryStep(c)
  <2>1. PICK ids \in SUBSET (1..MaxId) : checkStatus[c] \in [ids -> BOOLEAN]
    BY DEF DialogInv, ChecksInv, ChecksOK
  <2> QED BY <1>7, <2>1 DEF MemoryStep
<1>8. [AccessorNext]_accessorVars BY <1>1, <1>7 DEF AccessStep, OtherAccess, AccessorNext
<1> QED BY <1>3, <1>4, <1>6, <1>8

(***************************************************************************)
(* And it holds forever.                                                   *)
(***************************************************************************)
LEMMA AlwaysAllInv == Spec => []AllInv
<1>1. Init => AllInv
  <2> SUFFICES ASSUME Init PROVE AllInv OBVIOUS
  <2>1. RangeInv
    BY NoCopyFact DEF Init, AccessorInit, SubversionInit, RangeInv, RangesOK, InRange, Ids
  <2>2. NoChecks \in [{} -> BOOLEAN] BY DEF NoChecks
  <2>3. ChecksOK(NoChecks) BY <2>2 DEF ChecksOK
  <2>4. DialogInv
    BY <2>3, FilterAssumption DEF Init, DialogInv, ChecksInv, Dialog
  <2> QED BY <2>1, <2>4, UiInit DEF AllInv
<1>2. AllInv /\ UNCHANGED vars => AllInv'
  <2> SUFFICES ASSUME AllInv, UNCHANGED vars PROVE AllInv' OBVIOUS
  <2>1. UNCHANGED <<accessorVars, uiVars>> BY DEF vars
  <2>2. Inv' /\ UiInv' BY UiStutter DEF AllInv
  <2>3. RangeInv' BY <2>1 DEF AllInv, accessorVars, RangeInv, RangesOK
  <2>4. DialogInv' BY <2>1 DEF AllInv, uiVars, DialogInv, ChecksInv
  <2> QED BY <2>2, <2>3, <2>4 DEF AllInv
<1>3. AllInv /\ [Next]_vars => AllInv' BY <1>2, AllStep DEF Next
<1> QED BY <1>1, <1>3, PTL DEF Spec

(***************************************************************************)
(* The dialogs' variables keep their types; checkStatus_ never has an      *)
(* entry for anything out of the range of the ids.                         *)
(***************************************************************************)
THEOREM DialogTypes == Spec => []DialogTypeOK
<1>1. AllInv => DialogTypeOK
  <2> SUFFICES ASSUME AllInv PROVE DialogTypeOK OBVIOUS
  <2>1. message \in [Client -> Seq(Int)]
    <3>1. \A c \in Client : idList[c] \in Seq(Int)
      BY InvParts DEF AllInv, Parts, ClientOK, MemoryOK
    <3>2. \A c \in Client : message[c] \in Seq(Int) BY <3>1 DEF AllInv, UiInv, Same
    <3> QED BY <3>2 DEF AllInv, UiInv
  <2> QED BY <2>1 DEF AllInv, DialogInv, ChecksInv, ChecksOK, Dialog, DialogTypeOK
<1> QED BY <1>1, AlwaysAllInv, PTL

(***************************************************************************)
(* The dialogs make sequences of calls that IssueAccessor allows.          *)
(***************************************************************************)
THEOREM DialogsUseAccessor == Spec => AccessorSpec
<1>1. Init => AccessorInit BY DEF Init
<1>2. AllInv /\ [Next]_vars => [AccessorNext]_accessorVars
  <2>1. UNCHANGED vars => UNCHANGED accessorVars BY DEF vars
  <2> QED BY <2>1, AllStep DEF Next
<1> QED BY <1>1, <1>2, AlwaysAllInv, PTL DEF Spec, AccessorSpec

(***************************************************************************)
(* So the plug-in as a whole implements IssueStore: whatever the users do  *)
(* in the dialogs, they load whole revisions and publish whole lists.      *)
(***************************************************************************)
THEOREM FlatTrackerIsStore == Spec => StoreSpec
BY DialogsUseAccessor, AccessorIsStore, PTL

-----------------------------------------------------------------------------
(***************************************************************************)
(* A user who is alone.  A working copy that was left behind is at the     *)
(* latest revision, or has its text: the answer to the commit was lost.    *)
(* Between checkout and commit it is at the latest revision.               *)
(***************************************************************************)
Behind(c) == wc[c].base # 0 /\ wc[c].base # Len(repo) /\ wc[c].lines # Latest

AloneInv(c) ==
  /\ ~wc[c].conflict
  /\ ~Behind(c)
  /\ pc[c] \in {"checkedout", "written", "committed"} => wc[c].base = Len(repo)

(***************************************************************************)
(* A checkout of such a copy has nothing to merge.                         *)
(***************************************************************************)
LEMMA AloneCheckOut ==
  ASSUME Inv, NEW c \in Client, AloneInv(c), repo # <<>>,
         NEW copy \in CheckedOut(wc[c], repo)
  PROVE  ~copy.conflict /\ copy.base = Len(repo)
<1>1. RepoOK /\ ClientOK(c) BY InvParts DEF Parts
<1>2. wc[c] \in WorkingCopy BY <1>1 DEF ClientOK, FilesOK
<1> DEFINE kept == [wc[c] EXCEPT !.base = Len(repo)]
<1>3. copy \in {Fresh(repo), kept}
  BY DEF CheckedOut, AloneInv, Behind, Unchanged, Latest
<1>4. ~Fresh(repo).conflict /\ Fresh(repo).base = Len(repo) BY DEF Fresh
<1>5. ~kept.conflict /\ kept.base = Len(repo) BY <1>2 DEF WorkingCopy, AloneInv
<1> QED BY <1>3, <1>4, <1>5

(***************************************************************************)
(* Every step of the user leaves a copy like this.                         *)
(***************************************************************************)
LEMMA AloneStep ==
  ASSUME Inv, NEW c \in Client, AloneInv(c), AnyStep(c)
  PROVE  AloneInv(c)'
<1>1. RepoOK /\ Functions /\ ClientOK(c) BY InvParts DEF Parts
<1>2. wc[c] \in WorkingCopy /\ wc[c].base \in Nat /\ wc[c].base <= Len(repo)
  BY <1>1 DEF ClientOK, FilesOK, WorkingCopy
<1>3. ASSUME UNCHANGED <<repo, wc>>,
             pc'[c] \in {pc[c], "idle", "exported", "header"}
      PROVE  AloneInv(c)'
  <2>1. Behind(c)' = Behind(c) BY <1>3 DEF Behind, Latest
  <2> QED BY <1>3, <2>1 DEF AloneInv
<1>4. ASSUME NEW from, Fail(c, from) PROVE AloneInv(c)'
  BY <1>1, <1>3, <1>4 DEF Fail, Return, Functions
<1>5. CASE LoadExport(c) \/ LoadRead(c) \/ AddSupportWrite(c)
  BY <1>1, <1>3, <1>4, <1>5
     DEF LoadExport, LoadRead, AddSupportWrite, ExportFile, Call, Return, Functions
<1>6. CASE AddSupportImport(c)
  <2>1. CASE /\ \E answered \in BOOLEAN : Return(c, "header", answered)
             /\ ImportFile(c)
    <3>1. wc[c].base = 0 /\ wc' = wc BY <1>2, <2>1 DEF ImportFile
    <3>2. pc'[c] = "idle" BY <1>1, <2>1 DEF Return, Functions
    <3> QED BY <3>1, <3>2 DEF AloneInv, Behind
  <2> QED BY <1>4, <1>6, <2>1 DEF AddSupportImport
<1>7. ASSUME NEW rev, UpdateCheckOut(c, rev) PROVE AloneInv(c)'
  <2>1. CASE CheckOut(c)
    <3>1. PICK copy \in CheckedOut(wc[c], repo) : wc' = [wc EXCEPT ![c] = copy]
      BY <2>1 DEF CheckOut
    <3>2. wc'[c] = copy /\ repo # <<>> /\ repo' = repo
      BY <1>1, <2>1, <3>1 DEF CheckOut, Functions
    <3>3. ~copy.conflict /\ copy.base = Len(repo) BY <3>2, AloneCheckOut
    <3> QED BY <3>2, <3>3 DEF AloneInv, Behind
  <2>2. CASE Return(c, "idle", TRUE) /\ UNCHANGED <<svnVars, memVars>>
    BY <1>1, <1>3, <2>2 DEF svnVars, Return, Functions
  <2> QED BY <1>4, <1>7, <2>1, <2>2 DEF UpdateCheckOut
<1>8. ASSUME NEW lines, pc[c] = "checkedout",
             wc' = [wc EXCEPT ![c].lines = lines], repo' = repo
      PROVE  AloneInv(c)'
  <2>1. wc'[c].base = wc[c].base /\ wc'[c].conflict = wc[c].conflict
    BY <1>1, <1>2, <1>8 DEF Functions, WorkingCopy
  <2> QED BY <1>8, <2>1 DEF AloneInv, Behind
<1>9. CASE UpdateWrite(c) BY <1>4, <1>8, <1>9 DEF UpdateWrite, Goto
<1>10. CASE UpdateCommit(c)
  <2>1. CASE NewRevision(c) /\ wc' = [wc EXCEPT ![c].base = Len(repo) + 1]
    <3>1. wc'[c].base = Len(repo) + 1 /\ wc'[c].conflict = wc[c].conflict
      BY <1>1, <1>2, <2>1 DEF Functions, WorkingCopy
    <3>2. Len(repo') = Len(repo) + 1 BY <1>1, <2>1 DEF NewRevision, RepoOK
    <3> QED BY <3>1, <3>2 DEF AloneInv, Behind
  <2>2. CASE Goto(c, "written", "committed") /\ UNCHANGED <<repo, wc>>
    BY <2>2 DEF AloneInv, Behind, Latest, Goto
  <2>3. CASE Return(c, "written", FALSE) /\ CommitAnswerLost(c)
    <3>1. wc' = wc /\ repo' = Append(repo, wc[c].lines)
      BY <2>3 DEF CommitAnswerLost, NewRevision
    <3>2. Latest' = wc[c].lines BY <1>1, <3>1 DEF Latest, RepoOK
    <3>3. pc'[c] = "idle" BY <1>1, <2>3 DEF Return, Functions
    <3> QED BY <3>1, <3>2, <3>3 DEF AloneInv, Behind
  <2> QED BY <1>4, <1>10, <2>1, <2>2, <2>3 DEF UpdateCommit, Commit
<1>11. CASE UpdateDelete(c)
  <2>1. CASE wc' = wc
    BY <1>1, <1>3, <1>11, <2>1 DEF UpdateDelete, Return, Functions
  <2>2. CASE wc' = [wc EXCEPT ![c] = NoCopy]
    <3>1. wc'[c] = NoCopy /\ pc'[c] = "idle"
      BY <1>1, <1>11, <2>2 DEF UpdateDelete, Return, Functions
    <3> QED BY <3>1 DEF AloneInv, Behind, NoCopy
  <2> QED BY <1>11, <2>1, <2>2 DEF UpdateDelete
<1>12. CASE MemoryStep(c) \/ \E checks : SetIssuesChecked(c, checks)
  BY <1>3, <1>12 DEF MemoryStep, SetIssuesChecked, AddNewIssue, UpdateIssue,
                     DeleteIssues, Quiet, svnVars
<1>13. CASE Crash(c)
  <2>1. CASE UNCHANGED wc
    BY <1>1, <1>3, <1>13, <2>1 DEF Crash, Forget, Functions
  <2> QED BY <1>8, <1>13, <2>1 DEF Crash, Forget
<1> QED BY <1>5, <1>6, <1>7, <1>9, <1>10, <1>11, <1>12, <1>13 DEF AnyStep, CallStep

(***************************************************************************)
(* So it is like this forever for a user who is alone.                     *)
(***************************************************************************)
LEMMA AlwaysAlone ==
  ASSUME NEW user, Client = {user}
  PROVE  Spec => []AloneInv(user)
<1>1. AccessorInit => AloneInv(user)
  BY DEF AccessorInit, SubversionInit, AloneInv, Behind, NoCopy
<1>2. Inv /\ AloneInv(user) /\ [AccessorNext]_accessorVars => AloneInv(user)'
  <2>1. ASSUME Inv, AloneInv(user), NEW c \in Client,
               CallStep(c) \/ MemoryStep(c) \/ Crash(c)
        PROVE  AloneInv(user)'
    <3>1. c = user BY <2>1
    <3>2. AnyStep(user) BY <2>1, <3>1 DEF AnyStep
    <3> QED BY <2>1, <3>2, AloneStep
  <2>2. ASSUME AloneInv(user), UNCHANGED accessorVars PROVE AloneInv(user)'
    BY <2>2 DEF accessorVars, AloneInv, Behind, Latest
  <2> QED BY <2>1, <2>2 DEF AccessorNext
<1>3. AccessorSpec => []AloneInv(user)
  BY <1>1, <1>2, AlwaysInv, PTL DEF AccessorSpec
<1> QED BY <1>3, DialogsUseAccessor, PTL

(***************************************************************************)
(* A user who is alone never gets a working copy in conflict, whatever     *)
(* fails, whichever answer is lost, and wherever the process is killed:    *)
(* with any number of issues, revisions and inputs.                        *)
(***************************************************************************)
THEOREM AloneNoConflict ==
  ASSUME NEW user, Client = {user}
  PROVE  Spec => []NoConflict
<1>1. AloneInv(user) => NoConflict BY DEF AloneInv, NoConflict
<1> QED BY <1>1, AlwaysAlone, PTL
-----------------------------------------------------------------------------
(***************************************************************************)
(* What follows is for users who enter only what the file can hold.  Then  *)
(* every list and every revision can be saved and comes back as it was,    *)
(* and a file on its way to LoadIssues is a revision.                      *)
(***************************************************************************)
PlainInput == \A input \in Input : Plain(input)

InRepo(list) == \E r \in DOMAIN repo : ReadFile(repo[r]) = list

StorableOK(c) ==
  /\ AllStorable(issueList[c])
  /\ pc[c] = "exported" => \E r \in DOMAIN repo : tmp[c] = repo[r]

StorableInv ==
  /\ \A r \in DOMAIN repo : AllStorable(ReadFile(repo[r]))
  /\ \A c \in Client : StorableOK(c)

(***************************************************************************)
(* A revision that is there stays.                                         *)
(***************************************************************************)
LEMMA RevisionsStay ==
  ASSUME RepoOK, Grows
  PROVE  /\ \A r \in DOMAIN repo : r \in DOMAIN repo' /\ repo'[r] = repo[r]
         /\ \A list : InRepo(list) => InRepo(list)'
         /\ repo # <<>> => repo' # <<>>
<1>1. \A r \in DOMAIN repo : r \in DOMAIN repo' /\ repo'[r] = repo[r]
  BY DEF Grows, RepoOK
<1>2. \A list : InRepo(list) => InRepo(list)' BY <1>1 DEF InRepo
<1>3. repo # <<>> => 1 \in DOMAIN repo BY DEF RepoOK
<1>4. repo # <<>> => repo' # <<>> BY <1>1, <1>3
<1> QED BY <1>1, <1>2, <1>4

(***************************************************************************)
(* The dialog's issues are such that a list stays storable.                *)
(***************************************************************************)
LEMMA MemoryStorable ==
  ASSUME PlainInput, Inv, StorableInv, NEW c \in Client,
         MemoryStep(c) \/ \E checks : SetIssuesChecked(c, checks)
  PROVE  AllStorable(issueList'[c]) /\ UNCHANGED <<repo, tmp, pc>>
<1>1. Functions /\ ClientOK(c) BY InvParts DEF Parts
<1>2. PICK list \in Seq(Issue) : list = issueList[c]
  BY <1>1 DEF ClientOK, MemoryOK
<1>3. Increasing(list) /\ AllStorable(list)
  BY <1>1, <1>2 DEF ClientOK, MemoryOK, StorableInv, StorableOK
<1>4. UNCHANGED <<repo, tmp, pc>>
  BY DEF MemoryStep, SetIssuesChecked, AddNewIssue, UpdateIssue, DeleteIssues, Quiet, svnVars
<1>5. \A input \in Input : input \in DialogInput /\ Plain(input)
  BY AccessorAssumption DEF PlainInput
<1>6. ASSUME NEW input \in Input, AddNewIssue(c, input) PROVE AllStorable(issueList'[c])
  <2>1. PICK e : e = Entered(EmptyIssue, input) OBVIOUS
  <2>2. ~Has(",", EmptyIssue.status)
    <3>1. EmptyIssue.status = Active BY DEF EmptyIssue, IssueItem
    <3> QED BY <3>1, StatusPlain, Zenon
  <2>3. e \in Issue BY <1>5, <2>1, EmptyIssueFact, EnteredFact
  <2>4. Storable(e) /\ PlainLabels(e.labels)
    BY <1>5, <2>1, <2>2, EmptyIssueFact, EnteredPlain, Zenon
  <2>5. issueList'[c] = AddNew(list, e) BY <1>1, <1>2, <1>6, <2>1 DEF AddNewIssue, Functions
  <2> QED BY <1>3, <2>3, <2>4, <2>5, AddNewPlain
<1>7. ASSUME NEW i \in DOMAIN issueList[c], NEW input \in Input, UpdateIssue(c, i, input)
      PROVE  AllStorable(issueList'[c])
  <2>1. PICK e : e = Entered(list[i], input) OBVIOUS
  <2>2. list[i] \in Issue /\ Storable(list[i]) BY <1>2, <1>3, MemberFact DEF AllStorable
  <2>3. ~Has(",", list[i].status) BY <2>2, Zenon DEF Storable, Clean
  <2>4. Storable(e) BY <1>5, <2>1, <2>2, <2>3, EnteredPlain, Zenon
  <2>5. issueList'[c] = Update(list, e) BY <1>1, <1>2, <1>7, <2>1 DEF UpdateIssue, Functions
  <2> QED BY <1>3, <2>4, <2>5, UpdatePlain
<1>8. ASSUME NEW ids, DeleteIssues(c, ids) PROVE AllStorable(issueList'[c])
  <2>1. issueList'[c] = Delete(list, ids) BY <1>1, <1>2, <1>8 DEF DeleteIssues, Functions
  <2> QED BY <1>3, <2>1, DeletePlain
<1>9. ASSUME NEW checks, SetIssuesChecked(c, checks) PROVE AllStorable(issueList'[c])
  BY <1>2, <1>3, <1>9 DEF SetIssuesChecked
<1> QED BY <1>4, <1>6, <1>7, <1>8, <1>9 DEF MemoryStep

(***************************************************************************)
(* What a step of a call or the end of a process does to the list and the  *)
(* repository: the list is read from the exported file, or goes away, or   *)
(* stays, and a new revision is empty or the client's list.                *)
(***************************************************************************)
ListOutcome(c) ==
  \/ issueList'[c] = issueList[c]
  \/ issueList'[c] = <<>>
  \/ /\ pc[c] = "exported" /\ repo' = repo
     /\ issueList'[c] = ReadFile(tmp[c])

RepoOutcome(c) ==
  \/ repo' = repo
  \/ /\ pc[c] = "header" /\ repo = <<>> /\ repo' = Append(repo, <<>>)
     /\ issueList' = issueList
  \/ /\ pc[c] = "written" /\ repo' = Append(repo, TextToWrite(c))
     /\ pc'[c] # "exported" /\ UNCHANGED <<issueList, idList>>

FileOutcome(c) ==
  pc'[c] = "exported" => repo' = repo /\ repo # <<>> /\ tmp'[c] = Latest

Outcome(c) == ListOutcome(c) /\ RepoOutcome(c) /\ FileOutcome(c)

(***************************************************************************)
(* These are all the outcomes.                                             *)
(***************************************************************************)
LEMMA CallOutcome ==
  ASSUME RInv, NEW c \in Client, CallStep(c) \/ Crash(c)
  PROVE  Outcome(c)
<1>1. Functions /\ ClientOK(c) /\ HeaderOnly(c) BY InvParts DEF RInv, Parts
<1> USE <1>1 DEF Functions, Outcome, ListOutcome, RepoOutcome, FileOutcome
<1>2. ASSUME NEW from, Fail(c, from) PROVE Outcome(c)
  BY <1>2 DEF Fail, Return, memVars
<1>3. CASE LoadExport(c)
  BY <1>2, <1>3 DEF LoadExport, Call, ExportFile, memVars
<1>4. CASE LoadRead(c) BY <1>2, <1>4 DEF LoadRead, Return
<1>5. CASE AddSupportWrite(c) BY <1>2, <1>5 DEF AddSupportWrite, Call, memVars
<1>6. CASE AddSupportImport(c)
  <2>1. CASE /\ \E answered \in BOOLEAN : Return(c, "header", answered)
             /\ ImportFile(c) /\ UNCHANGED memVars
    <3>1. /\ pc[c] = "header" /\ pc'[c] = "idle" /\ repo = <<>> /\ repo' = <<tmp[c]>>
          /\ issueList' = issueList /\ tmp[c] = <<>>
      BY <2>1 DEF Return, ImportFile, memVars, HeaderOnly
    <3> QED BY <3>1
  <2> QED BY <1>2, <1>6, <2>1 DEF AddSupportImport
<1>7. ASSUME NEW rev, UpdateCheckOut(c, rev) PROVE Outcome(c)
  BY <1>2, <1>7 DEF UpdateCheckOut, Call, Return, CheckOut, svnVars, memVars
<1>8. CASE UpdateWrite(c) BY <1>2, <1>8 DEF UpdateWrite, Goto, memVars
<1>9. CASE UpdateCommit(c)
  <2>1. CASE /\ Goto(c, "written", "committed") \/ Return(c, "written", FALSE)
             /\ NewRevision(c) /\ UNCHANGED memVars
    <3>1. pc[c] = "written" /\ pc'[c] # "exported" BY <2>1 DEF Goto, Return
    <3>2. repo' = Append(repo, TextToWrite(c))
      BY <2>1, <3>1 DEF NewRevision, ClientOK, SavedText
    <3> QED BY <2>1, <3>1, <3>2 DEF memVars
  <2>2. CASE Goto(c, "written", "committed") /\ UNCHANGED <<repo, wc>> /\ UNCHANGED memVars
    BY <2>2 DEF Goto, memVars
  <2> QED BY <1>2, <1>9, <2>1, <2>2 DEF UpdateCommit, Commit, CommitAnswerLost
<1>10. CASE UpdateDelete(c) BY <1>10 DEF UpdateDelete, Return, memVars
<1>11. CASE Crash(c) BY <1>11 DEF Crash, Forget
<1> QED BY <1>3, <1>4, <1>5, <1>6, <1>7, <1>8, <1>9, <1>10, <1>11 DEF CallStep

(***************************************************************************)
(* So all lists and all revisions stay such that the file can hold them.   *)
(***************************************************************************)
LEMMA StorableStep ==
  ASSUME PlainInput, RInv, StorableInv, NEW c \in Client, AnyStep(c)
  PROVE  StorableInv'
<1>1. RepoOK /\ Functions /\ ClientOK(c) /\ Inv BY InvParts DEF RInv, Parts
<1>2. Own(c) /\ Grows BY <1>1, AnyStepKeeps DEF Keeps
<1>3. PICK list \in Seq(Issue) : list = issueList[c] BY <1>1 DEF ClientOK, MemoryOK
<1>4. AllStorable(list) /\ AllStorable(<<>>)
  BY <1>3 DEF StorableInv, StorableOK, AllStorable
<1>5. \A r \in DOMAIN repo : r \in DOMAIN repo' /\ repo'[r] = repo[r]
  BY <1>1, <1>2, RevisionsStay
<1>6. StorableOK(c)' /\ \A r \in DOMAIN repo' : AllStorable(ReadFile(repo'[r]))
  <2>1. CASE MemoryStep(c) \/ \E checks : SetIssuesChecked(c, checks)
    <3>1. AllStorable(issueList'[c]) /\ UNCHANGED <<repo, tmp, pc>>
      BY <1>1, <2>1, MemoryStorable
    <3> QED BY <3>1 DEF StorableInv, StorableOK
  <2>2. CASE CallStep(c) \/ Crash(c)
    <3>1. ListOutcome(c) /\ RepoOutcome(c) /\ FileOutcome(c)
      BY <2>2, CallOutcome DEF Outcome
    <3>2. AllStorable(issueList'[c])
      BY <1>3, <1>4, <3>1 DEF ListOutcome, StorableInv, StorableOK
    <3>3. pc'[c] = "exported" => \E r \in DOMAIN repo' : tmp'[c] = repo'[r]
      <4>1. repo # <<>> => Len(repo) \in DOMAIN repo BY <1>1 DEF RepoOK
      <4> QED BY <3>1, <4>1 DEF FileOutcome, Latest
    <3>4. ASSUME NEW lines, AllStorable(ReadFile(lines)), repo' = Append(repo, lines),
                 NEW r \in DOMAIN repo'
          PROVE  AllStorable(ReadFile(repo'[r]))
      <4>1. r \in DOMAIN repo \/ (r = Len(repo) + 1 /\ repo'[r] = lines)
        BY <1>1, <3>4 DEF RepoOK
      <4> QED BY <1>5, <3>4, <4>1 DEF StorableInv
    <3>5. AllStorable(ReadFile(<<>>)) BY <1>4, ReadNothing
    <3>6. AllStorable(ReadFile(TextToWrite(c)))
      BY <1>3, <1>4, WrittenComesBack DEF TextToWrite
    <3>7. \A r \in DOMAIN repo' : AllStorable(ReadFile(repo'[r]))
      BY <3>1, <3>4, <3>5, <3>6 DEF RepoOutcome, StorableInv
    <3> QED BY <3>2, <3>3, <3>7 DEF StorableOK
  <2> QED BY <2>1, <2>2 DEF AnyStep
<1>7. ASSUME NEW d \in Client, d # c PROVE StorableOK(d)'
  <2>1. issueList'[d] = issueList[d] /\ pc'[d] = pc[d] /\ tmp'[d] = tmp[d]
    BY <1>1, <1>2, <1>7 DEF Own, Functions
  <2> QED BY <1>5, <2>1 DEF StorableInv, StorableOK
<1> QED BY <1>6, <1>7 DEF StorableInv
-----------------------------------------------------------------------------
(***************************************************************************)
(* What CManageIssuesDlg relies on, for any number of users: a list that   *)
(* can be edited is one of an existing file, OnSave passes revision 0, and *)
(* a list that is not marked as modified was saved or loaded if that       *)
(* succeeded.                                                              *)
(***************************************************************************)
Shown(c) == Idle(c, "manage") \/ Idle(c, "choose")

Marked(c) == Shown(c) /\ ~modified[c] /\ ret[c] => InRepo(issueList[c])

SaveInv(c) ==
  /\ pc[c] = "idle" \/ dlg[c] = "manage" => revnum[c] = 0
  /\ dlg[c] = "manage" \/ Idle(c, "choose") => repo # <<>>
  /\ repo = <<>> => issueList[c] = <<>>
  /\ Marked(c)

MarkedInv ==
  /\ RInv /\ StorableInv /\ DialogInv
  /\ \A c \in Client : SaveInv(c)

(***************************************************************************)
(* A call that reports success leaves the list as a revision has it; only  *)
(* the resolving call of OnCommitFinished does not.                        *)
(***************************************************************************)
LEMMA CallReturns ==
  ASSUME MarkedInv, NEW c \in Client,
         \/ LoadExport(c) \/ LoadRead(c) \/ AddSupportWrite(c) \/ AddSupportImport(c)
         \/ UpdateCheckOut(c, 0) \/ (revnum[c] = 0 /\ UpdateStep(c))
  PROVE  /\ pc'[c] = "idle" /\ ret'[c] => InRepo(issueList[c])'
         /\ pc'[c] = "idle" => revnum'[c] = 0
         /\ revnum[c] = 0 => revnum'[c] = 0
<1> DEFINE Goal == /\ pc'[c] = "idle" /\ ret'[c] => InRepo(issueList[c])'
                   /\ pc'[c] = "idle" => revnum'[c] = 0
                   /\ revnum[c] = 0 => revnum'[c] = 0
<1>1. /\ RepoOK /\ Functions /\ ClientOK(c) /\ HeaderOnly(c) /\ StorableOK(c)
      /\ SaveInv(c)
  BY InvParts DEF MarkedInv, RInv, Parts, StorableInv
<1> USE <1>1 DEF Functions
<1>2. ASSUME NEW from, Return(c, from, FALSE) PROVE Goal
  <2>1. ret'[c] = FALSE /\ revnum'[c] = 0 BY <1>2 DEF Return
  <2> QED BY <2>1
<1>3. ASSUME NEW from, Fail(c, from) PROVE Goal BY <1>2, <1>3 DEF Fail
<1>4. ASSUME NEW to, to # "idle", Call(c, 0, to) PROVE Goal
  <2>1. pc'[c] # "idle" /\ revnum'[c] = 0 BY <1>4 DEF Call
  <2> QED BY <2>1
<1>5. ASSUME NEW from, NEW to, to # "idle", Goto(c, from, to) PROVE Goal
  <2>1. pc'[c] # "idle" /\ revnum'[c] = revnum[c] BY <1>5 DEF Goto
  <2> QED BY <2>1
<1>6. ASSUME NEW from, Return(c, from, TRUE), InRepo(issueList[c])' PROVE Goal
  <2>1. revnum'[c] = 0 BY <1>6 DEF Return
  <2> QED BY <1>6, <2>1
<1>7. CASE LoadExport(c) BY <1>3, <1>4, <1>7 DEF LoadExport
<1>8. CASE LoadRead(c)
  <2>1. CASE /\ Return(c, "exported", TRUE)
             /\ issueList' = [issueList EXCEPT ![c] = ReadFile(tmp[c])]
             /\ UNCHANGED <<repo, wc, idList>>
    <3>1. issueList'[c] = ReadFile(tmp[c]) /\ pc[c] = "exported" BY <2>1 DEF Return
    <3>2. PICK r \in DOMAIN repo : tmp[c] = repo[r] BY <3>1 DEF StorableOK
    <3>3. InRepo(issueList[c])' BY <2>1, <3>1, <3>2 DEF InRepo
    <3> QED BY <1>6, <2>1, <3>3
  <2> QED BY <1>3, <1>8, <2>1 DEF LoadRead
<1>9. CASE AddSupportWrite(c) BY <1>3, <1>4, <1>9 DEF AddSupportWrite
<1>10. CASE AddSupportImport(c)
  <2>1. ASSUME NEW answered \in BOOLEAN, Return(c, "header", answered),
               ImportFile(c), UNCHANGED memVars
        PROVE  Goal
    <3>1. repo = <<>> /\ repo' = <<<<>>>> BY <2>1 DEF ImportFile, Return, HeaderOnly
    <3>2. issueList'[c] = <<>> BY <2>1, <3>1 DEF memVars, SaveInv
    <3>3. 1 \in DOMAIN repo' /\ repo'[1] = <<>> BY <3>1
    <3>4. InRepo(issueList[c])' BY <3>2, <3>3, ReadNothing DEF InRepo
    <3> QED BY <1>2, <1>6, <2>1, <3>4
  <2> QED BY <1>3, <1>10, <2>1 DEF AddSupportImport
<1>11. CASE UpdateCheckOut(c, 0)
  BY <1>3, <1>4, <1>11 DEF UpdateCheckOut, NothingToResolve
<1>12. CASE UpdateWrite(c) BY <1>3, <1>5, <1>12 DEF UpdateWrite
<1>13. CASE UpdateCommit(c) BY <1>2, <1>3, <1>5, <1>13 DEF UpdateCommit
<1>14. CASE revnum[c] = 0 /\ UpdateDelete(c)
  <2>1. pc[c] = "committed" /\ repo' = repo /\ issueList' = issueList
    BY <1>14 DEF UpdateDelete, Return, memVars
  <2>2. PICK r \in DOMAIN repo : repo[r] = TextToWrite(c)
    BY <2>1 DEF ClientOK, SavedText
  <2>3. PICK list \in Seq(Issue) : list = issueList[c] BY DEF ClientOK, MemoryOK
  <2>4. AllStorable(list) BY <2>3 DEF StorableOK
  <2>5. ReadFile(repo[r]) = list
    BY <1>14, <2>2, <2>3, <2>4, WrittenComesBack DEF TextToWrite
  <2>6. InRepo(issueList[c])' BY <2>1, <2>3, <2>5 DEF InRepo
  <2> QED BY <1>6, <1>14, <2>6 DEF UpdateDelete
<1> QED BY <1>7, <1>8, <1>9, <1>10, <1>11, <1>12, <1>13, <1>14 DEF UpdateStep

(***************************************************************************)
(* A client with an empty list has none as long as there is no file.       *)
(***************************************************************************)
LEMMA NoFileNoList ==
  ASSUME MarkedInv, NEW c \in Client, AccessStep(c), OtherAccess(c) \/ repo # <<>>
  PROVE  /\ repo' = <<>> => issueList'[c] = <<>>
         /\ repo # <<>> => repo' # <<>>
<1>1. RepoOK /\ Inv /\ SaveInv(c) /\ StorableOK(c)
  BY InvParts DEF MarkedInv, RInv, Parts, StorableInv
<1>2. repo # <<>> => repo' # <<>>
  <2>1. AnyStep(c) \/ UNCHANGED accessorVars BY DEF AccessStep, OtherAccess, AnyStep
  <2>2. CASE UNCHANGED accessorVars BY <2>2 DEF accessorVars
  <2>3. CASE AnyStep(c)
    <3>1. Grows BY <1>1, <2>3, AnyStepKeeps DEF Keeps
    <3> QED BY <1>1, <3>1, RevisionsStay
  <2> QED BY <2>1, <2>2, <2>3
<1>3. CASE CallStep(c) \/ Crash(c)
  <2>1. ListOutcome(c) BY <1>3, CallOutcome DEF MarkedInv, Outcome
  <2>2. repo = <<>> => pc[c] # "exported" BY <1>1 DEF StorableOK
  <2> QED BY <1>1, <1>2, <2>1, <2>2 DEF ListOutcome, SaveInv
<1>4. CASE SetIssuesChecked(c, checkStatus[c]) \/ UNCHANGED accessorVars
  BY <1>1, <1>2, <1>4 DEF SetIssuesChecked, SaveInv, accessorVars
<1> QED BY <1>2, <1>3, <1>4 DEF OtherAccess

(***************************************************************************)
(* CProvider leaves no list to edit on the screen.                         *)
(***************************************************************************)
LEMMA ProviderMarked ==
  ASSUME MarkedInv, NEW c \in Client, ProviderStep(c),
         repo' = <<>> => issueList'[c] = <<>>
  PROVE  SaveInv(c)'
<1>1. /\ Functions /\ SaveInv(c) /\ dlg \in [Client -> Dialog]
  BY InvParts DEF MarkedInv, RInv, Parts, DialogInv
<1> USE <1>1 DEF Functions
<1>2. ASSUME dlg'[c] \notin {"choose", "manage"}, pc'[c] = "idle" => revnum'[c] = 0
      PROVE  SaveInv(c)'
  BY <1>2 DEF SaveInv, Marked, Shown, Idle
<1>3. CASE OpenCommitDialog(c)
  <2>1. dlg'[c] = "commit" /\ pc' = pc /\ revnum' = revnum
    BY <1>3 DEF OpenCommitDialog, Show, accessorVars
  <2> QED BY <1>2, <2>1 DEF SaveInv
<1>4. CASE ForgetDialogs(c) /\ Forget(c)
  <2>1. dlg'[c] = "none" /\ revnum'[c] = 0 BY <1>4 DEF ForgetDialogs, Show, Forget
  <2> QED BY <1>2, <2>1
<1>5. ASSUME NEW rev, UpdateCheckOut(c, rev) \/ UpdateStep(c), pc'[c] = "idle"
      PROVE  revnum'[c] = 0
  BY <1>5 DEF UpdateCheckOut, UpdateStep, UpdateWrite, UpdateCommit, UpdateDelete,
              Fail, Return, Call, Goto
<1>6. CASE OnCommitFinished(c)
  <2>1. dlg'[c] = "finished" BY <1>6 DEF OnCommitFinished, Show
  <2> QED BY <1>2, <1>5, <1>6, <2>1 DEF OnCommitFinished
<1>7. CASE CommitFinishedStep(c)
  <2>1. dlg'[c] = "finished" BY <1>7 DEF CommitFinishedStep, uiVars
  <2> QED BY <1>2, <1>5, <1>7, <2>1 DEF CommitFinishedStep
<1> QED BY <1>3, <1>4, <1>6, <1>7
        DEF ProviderStep, CloseCommitDialog, KillProcess, Crash

(***************************************************************************)
(* CChooseIssuesDlg shows a list that was loaded, or that OnManage leaves. *)
(***************************************************************************)
LEMMA ChooseMarked ==
  ASSUME MarkedInv, NEW c \in Client, ChooseStep(c),
         repo' = <<>> => issueList'[c] = <<>>, repo # <<>> => repo' # <<>>
  PROVE  SaveInv(c)'
<1>1. /\ Functions /\ SaveInv(c) /\ dlg \in [Client -> Dialog]
      /\ modified \in [Client -> BOOLEAN]
  BY InvParts DEF MarkedInv, RInv, Parts, DialogInv
<1> USE <1>1 DEF Functions
<1>2. ASSUME dlg'[c] \notin {"choose", "manage"}, pc'[c] = "idle" => revnum'[c] = 0
      PROVE  SaveInv(c)'
  BY <1>2 DEF SaveInv, Marked, Shown, Idle
<1>3. ASSUME Idle(c, "choose"), UNCHANGED <<accessorVars, modified>>,
             dlg'[c] \in {"choose", "manage"}
      PROVE  SaveInv(c)'
  <2>1. InRepo(issueList[c]) => InRepo(issueList[c])' BY <1>3 DEF accessorVars, InRepo
  <2> QED BY <1>3, <2>1 DEF SaveInv, Marked, Shown, Idle, accessorVars
<1>4. CASE OnInitDialog(c)
  <2>1. /\ pc'[c] = "idle" => revnum'[c] = 0
    BY <1>4, CallReturns DEF OnInitDialog
  <2>2. CASE pc'[c] = "idle"
    <3>1. dlg'[c] = "commit" BY <1>4, <2>2 DEF OnInitDialog, Returns, Idle
    <3> QED BY <1>2, <2>1, <3>1
  <2>3. CASE pc'[c] # "idle"
    <3>1. dlg'[c] = "choose" BY <1>4, <2>3 DEF OnInitDialog, Returns, Show
    <3> QED BY <2>3, <3>1 DEF SaveInv, Marked, Shown, Idle
  <2> QED BY <2>2, <2>3
<1>5. CASE InitDialogStep(c)
  <2>1. /\ pc'[c] = "idle" => revnum'[c] = 0
        /\ pc'[c] = "idle" /\ ret'[c] => InRepo(issueList[c])'
    BY <1>5, CallReturns DEF InitDialogStep
  <2>2. CASE ret'[c]
    <3>1. dlg'[c] = "choose" BY <1>5, <2>2 DEF InitDialogStep
    <3>2. InRepo(issueList[c])' => repo' # <<>> BY DEF InRepo
    <3> QED BY <2>1, <2>2, <3>1, <3>2 DEF SaveInv, Marked, Shown, Idle
  <2>3. CASE ~ret'[c]
    <3>1. dlg'[c] = "commit" BY <1>5, <2>3 DEF InitDialogStep, EndChoose, Show
    <3> QED BY <1>2, <2>1, <3>1
  <2> QED BY <2>2, <2>3
<1>6. ASSUME NEW ids, NEW checked, OnCheck(c, ids, checked) PROVE SaveInv(c)'
  BY <1>3, <1>6 DEF OnCheck, Idle
<1>7. ASSUME NEW word, OnFilterChanged(c, word) PROVE SaveInv(c)'
  BY <1>3, <1>7 DEF OnFilterChanged, Idle
<1>8. CASE OnOK(c) \/ OnCancel(c)
  <2>1. dlg'[c] = "commit" BY <1>8 DEF OnOK, OnCancel, EndChoose, Show
  <2>2. pc' = pc /\ revnum' = revnum
    BY <1>8 DEF OnOK, OnCancel, SetIssuesChecked, Quiet, accessorVars
  <2> QED BY <1>2, <2>1, <2>2 DEF SaveInv
<1>9. CASE OnManage(c)
  <2>1. dlg'[c] = "manage" BY <1>9 DEF OnManage, Show
  <2> QED BY <1>3, <1>9, <2>1 DEF OnManage
<1> QED BY <1>4, <1>5, <1>6, <1>7, <1>8, <1>9 DEF ChooseStep

(***************************************************************************)
(* CManageIssuesDlg: whatever changes the list sets modified_, and what    *)
(* clears it has saved or loaded the list, or reports a failure.           *)
(***************************************************************************)
LEMMA ManageMarked ==
  ASSUME MarkedInv, NEW c \in Client, ManageStep(c),
         repo' = <<>> => issueList'[c] = <<>>, repo # <<>> => repo' # <<>>
  PROVE  SaveInv(c)'
<1>1. /\ Functions /\ SaveInv(c) /\ dlg \in [Client -> Dialog]
      /\ modified \in [Client -> BOOLEAN]
  BY InvParts DEF MarkedInv, RInv, Parts, DialogInv
<1> USE <1>1 DEF Functions
<1>2. dlg[c] = "manage"
  BY DEF ManageStep, OnAddIssue, OnEditIssue, OnDeleteIssue, OnSave, OnReload, SaveStep,
         ReloadStep, OnSysCommand, Idle
<1>3. revnum[c] = 0 /\ repo' # <<>> BY <1>2 DEF SaveInv
<1>4. ASSUME Edited(c), Quiet(c) PROVE SaveInv(c)'
  <2>1. modified'[c] = TRUE /\ revnum' = revnum BY <1>4 DEF Edited, Quiet
  <2> QED BY <1>3, <2>1 DEF SaveInv, Marked
<1>5. ASSUME NEW ending, NEW clears, AfterCall(c, ending, clears),
             pc'[c] = "idle" /\ ret'[c] => InRepo(issueList[c])', revnum'[c] = 0
      PROVE  SaveInv(c)'
  BY <1>3, <1>5 DEF SaveInv, Marked, Shown, Idle
<1>6. ASSUME NEW ending, OnSave(c, ending) \/ OnReload(c, ending) PROVE SaveInv(c)'
  <2>1. UpdateCheckOut(c, 0) \/ LoadExport(c) BY <1>6 DEF OnSave, OnReload
  <2> QED BY <1>3, <1>5, <1>6, <2>1, CallReturns DEF OnSave, OnReload
<1>7. CASE SaveStep(c) \/ ReloadStep(c)
  <2>1. UpdateStep(c) \/ LoadRead(c) BY <1>7 DEF SaveStep, ReloadStep
  <2> QED BY <1>3, <1>5, <1>7, <2>1, CallReturns DEF SaveStep, ReloadStep
<1>8. CASE OnSysCommand(c)
  <2>1. InRepo(issueList[c]) => InRepo(issueList[c])'
    BY <1>8 DEF OnSysCommand, accessorVars, InRepo
  <2> QED BY <1>3, <1>8, <2>1
          DEF OnSysCommand, SaveInv, Marked, Shown, Idle, accessorVars
<1> QED BY <1>4, <1>6, <1>7, <1>8 DEF ManageStep, OnAddIssue, OnEditIssue, OnDeleteIssue,
           AddNewIssue, UpdateIssue, DeleteIssues
(***************************************************************************)
(* A handler changes the dialogs of its own client only.                   *)
(***************************************************************************)
LEMMA OwnDialog ==
  ASSUME DialogInv, NEW c \in Client, ProviderStep(c) \/ ChooseStep(c) \/ ManageStep(c)
  PROVE  /\ dlg' = [dlg EXCEPT ![c] = dlg'[c]]
         /\ modified' = [modified EXCEPT ![c] = modified'[c]]
<1> DEFINE Goal == /\ dlg' = [dlg EXCEPT ![c] = dlg'[c]]
                   /\ modified' = [modified EXCEPT ![c] = modified'[c]]
<1>1. ASSUME dlg' = dlg \/ (\E d : Show(c, d)),
             modified' = modified \/ (\E b : modified' = [modified EXCEPT ![c] = b])
      PROVE  Goal
  BY <1>1 DEF DialogInv, Show
<1>2. CASE ProviderStep(c)
  BY <1>1, <1>2 DEF ProviderStep, OpenCommitDialog, CloseCommitDialog, KillProcess,
                    ForgetDialogs, OnCommitFinished, CommitFinishedStep, uiVars
<1>3. CASE ChooseStep(c)
  BY <1>1, <1>3 DEF ChooseStep, OnInitDialog, InitDialogStep, EndChoose, OnCheck,
                    OnFilterChanged, OnOK, OnCancel, OnManage
<1>4. ASSUME NEW ending, NEW clears, AfterCall(c, ending, clears) PROVE Goal
  BY <1>1, <1>4 DEF AfterCall, EndManage
<1>5. CASE ManageStep(c)
  BY <1>1, <1>4, <1>5 DEF ManageStep, OnAddIssue, OnEditIssue, OnDeleteIssue, Edited,
                    OnReload, OnSave, SaveStep, ReloadStep, OnSysCommand, EndManage
<1> QED BY <1>2, <1>3, <1>4, <1>5

(***************************************************************************)
(* Every handler keeps the invariant: for its own client by the lemmas     *)
(* above, for the others because no revision goes away.                    *)
(***************************************************************************)
LEMMA MarkedStep ==
  ASSUME PlainInput, AllInv, MarkedInv, NEW c \in Client,
         ProviderStep(c) \/ ChooseStep(c) \/ ManageStep(c)
  PROVE  MarkedInv'
<1>1. RepoOK /\ Functions /\ RInv /\ Inv /\ StorableInv /\ DialogInv /\ SaveInv(c)
  BY InvParts DEF MarkedInv, RInv, Parts
<1>2. AccessStep(c) BY ProviderAccess, ChooseAccess, ManageAccess DEF AccessStep
<1>3. Own(c) /\ Grows BY <1>1, NextAccess DEF Keeps
<1>4. RInv' /\ StorableInv'
  <2>1. AnyStep(c) \/ UNCHANGED accessorVars BY <1>2 DEF AccessStep, OtherAccess, AnyStep
  <2>2. CASE AnyStep(c) BY <1>1, <2>2, HeaderStep, StorableStep
  <2>3. CASE UNCHANGED accessorVars
    <3>1. Inv' BY <1>1, <2>3, StutterKeeps
    <3>2. (\A d \in Client : HeaderOnly(d))' BY <1>1, <2>3 DEF RInv, HeaderOnly, accessorVars
    <3>3. StorableInv' BY <1>1, <2>3 DEF StorableInv, StorableOK, accessorVars
    <3> QED BY <3>1, <3>2, <3>3 DEF RInv
  <2> QED BY <2>1, <2>2, <2>3
<1>5. DialogInv' BY AllStep DEF AllInv
<1>6. OtherAccess(c) \/ repo # <<>>
  <2>1. CASE ProviderStep(c) \/ ChooseStep(c) BY <2>1, ProviderAccess, ChooseAccess
  <2>2. CASE ManageStep(c)
    <3>1. dlg[c] = "manage"
      BY <2>2 DEF ManageStep, OnAddIssue, OnEditIssue, OnDeleteIssue, OnSave, OnReload,
                  SaveStep, ReloadStep, OnSysCommand, Idle
    <3> QED BY <1>1, <3>1 DEF SaveInv
  <2> QED BY <2>1, <2>2
<1>7. SaveInv(c)'
  <2>1. /\ repo' = <<>> => issueList'[c] = <<>>
        /\ repo # <<>> => repo' # <<>>
    BY <1>2, <1>6, NoFileNoList
  <2> QED BY <2>1, ProviderMarked, ChooseMarked, ManageMarked
<1>8. ASSUME NEW d \in Client, d # c PROVE SaveInv(d)'
  <2>1. /\ issueList'[d] = issueList[d] /\ pc'[d] = pc[d]
        /\ revnum'[d] = revnum[d] /\ ret'[d] = ret[d]
    BY <1>1, <1>3, <1>8 DEF Own, Functions
  <2>2. dlg'[d] = dlg[d] /\ modified'[d] = modified[d]
    BY <1>1, <1>8, OwnDialog DEF DialogInv
  <2>3. /\ repo # <<>> => repo' # <<>>
        /\ InRepo(issueList[d]) => InRepo(issueList[d])'
    <3>1. \A list : InRepo(list) => InRepo(list)' BY <1>1, <1>3, RevisionsStay
    <3>2. repo # <<>> => repo' # <<>> BY <1>1, <1>3, RevisionsStay
    <3>3. InRepo(issueList[d]) => \E r \in DOMAIN repo' : ReadFile(repo'[r]) = issueList[d]
      BY <3>1 DEF InRepo
    <3> QED BY <2>1, <3>2, <3>3 DEF InRepo
  <2>4. SaveInv(d) BY DEF MarkedInv
  <2> QED BY <2>1, <2>2, <2>3, <2>4 DEF SaveInv, Marked, Shown, Idle
<1> QED BY <1>4, <1>5, <1>7, <1>8 DEF MarkedInv

(***************************************************************************)
(* The invariant holds forever.                                            *)
(***************************************************************************)
LEMMA AlwaysMarked ==
  ASSUME PlainInput
  PROVE  Spec => []MarkedInv
<1>1. Init /\ AllInv => MarkedInv
  <2> SUFFICES ASSUME Init, AllInv PROVE MarkedInv OBVIOUS
  <2>1. AccessorInit BY DEF Init
  <2>2. repo = <<>> /\ \A c \in Client : pc[c] = "idle" /\ issueList[c] = <<>> /\ revnum[c] = 0
    BY <2>1 DEF AccessorInit, SubversionInit
  <2>3. RInv BY <2>2 DEF AllInv, RInv, HeaderOnly
  <2>4. StorableInv BY <2>2 DEF StorableInv, StorableOK, AllStorable
  <2>5. \A c \in Client : dlg[c] = "none" BY DEF Init
  <2>6. \A c \in Client : SaveInv(c) BY <2>2, <2>5 DEF SaveInv, Marked, Shown, Idle
  <2> QED BY <2>3, <2>4, <2>6 DEF AllInv, MarkedInv
<1>2. MarkedInv /\ UNCHANGED vars => MarkedInv'
  <2> SUFFICES ASSUME MarkedInv, UNCHANGED vars PROVE MarkedInv' OBVIOUS
  <2>1. UNCHANGED accessorVars /\ UNCHANGED uiVars BY DEF vars
  <2>2. Inv' BY <2>1, StutterKeeps DEF MarkedInv, RInv
  <2>3. RInv' BY <2>1, <2>2 DEF MarkedInv, RInv, HeaderOnly, accessorVars
  <2>4. StorableInv' BY <2>1 DEF MarkedInv, StorableInv, StorableOK, accessorVars
  <2>5. DialogInv' BY <2>1 DEF MarkedInv, uiVars, DialogInv, ChecksInv
  <2>6. (\A c \in Client : SaveInv(c))'
    BY <2>1 DEF MarkedInv, SaveInv, Marked, Shown, Idle, InRepo, uiVars, accessorVars
  <2> QED BY <2>3, <2>4, <2>5, <2>6 DEF MarkedInv
<1>3. AllInv /\ MarkedInv /\ [Next]_vars => MarkedInv' BY <1>2, MarkedStep DEF Next
<1> QED BY <1>1, <1>3, AlwaysAllInv, PTL DEF Spec

(***************************************************************************)
(* If the users enter what the file can hold, a list that no revision      *)
(* holds is marked by modified_ unless the last save or reload failed: for *)
(* any number of users, issues and revisions.                              *)
(***************************************************************************)
THEOREM UnsavedMarked ==
  ASSUME PlainInput
  PROVE  Spec => []UnsavedIsMarked
<1>1. MarkedInv => UnsavedIsMarked
  BY Zenon DEF MarkedInv, SaveInv, Marked, Shown, InRepo, UnsavedIsMarked
<1> QED BY <1>1, AlwaysMarked, PTL
-----------------------------------------------------------------------------
(***************************************************************************)
(* What becomes of the issues of a list: all of them stay, a deleted one   *)
(* stays deleted, and if no user sets a status back to active, one that is *)
(* not active does not become active.  And if no user sets a status to     *)
(* resolved, none becomes so.                                              *)
(***************************************************************************)
NeverReopened == \A input \in Input : input.status # Active

NeverResolvedByHand == \A input \in Input : input.status # Resolved

KeepsIssues(new, old) ==
  \A k \in DOMAIN old : \E i \in DOMAIN new :
    /\ new[i].id = old[k].id
    /\ old[k].status = Deleted => new[i].status = Deleted
    /\ NeverReopened /\ old[k].status # Active => new[i].status # Active

WasResolved(old, id) == \E k \in DOMAIN old : old[k].id = id /\ old[k].status = Resolved

NoneResolved(new, old) ==
  NeverResolvedByHand =>
    \A i \in DOMAIN new : new[i].status = Resolved => WasResolved(old, new[i].id)

Follows(new, old) == KeepsIssues(new, old) /\ NoneResolved(new, old)

(***************************************************************************)
(* A list follows itself, and what follows a list that follows.            *)
(***************************************************************************)
LEMMA FollowsOrder ==
  /\ \A list : Follows(list, list)
  /\ \A new, list, old : Follows(new, list) /\ Follows(list, old) => Follows(new, old)
<1>1. \A list : Follows(list, list)
  BY Zenon DEF Follows, KeepsIssues, NoneResolved, WasResolved
<1>2. ASSUME NEW new, NEW list, NEW old, KeepsIssues(new, list), KeepsIssues(list, old)
      PROVE  KeepsIssues(new, old)
  <2> SUFFICES ASSUME NEW k \in DOMAIN old
               PROVE  \E i \in DOMAIN new :
                        /\ new[i].id = old[k].id
                        /\ old[k].status = Deleted => new[i].status = Deleted
                        /\ NeverReopened /\ old[k].status # Active => new[i].status # Active
    BY DEF KeepsIssues
  <2>1. PICK j \in DOMAIN list :
          /\ list[j].id = old[k].id
          /\ old[k].status = Deleted => list[j].status = Deleted
          /\ NeverReopened /\ old[k].status # Active => list[j].status # Active
    BY <1>2 DEF KeepsIssues
  <2>2. PICK i \in DOMAIN new :
          /\ new[i].id = list[j].id
          /\ list[j].status = Deleted => new[i].status = Deleted
          /\ NeverReopened /\ list[j].status # Active => new[i].status # Active
    BY <1>2 DEF KeepsIssues
  <2> QED BY <2>1, <2>2
<1>3. ASSUME NEW new, NEW list, NEW old, NoneResolved(new, list), NoneResolved(list, old)
      PROVE  NoneResolved(new, old)
  <2> SUFFICES ASSUME NeverResolvedByHand,
                      NEW i \in DOMAIN new, new[i].status = Resolved
               PROVE  WasResolved(old, new[i].id)
    BY DEF NoneResolved
  <2>1. PICK j \in DOMAIN list : list[j].id = new[i].id /\ list[j].status = Resolved
    BY <1>3 DEF NoneResolved, WasResolved
  <2>2. WasResolved(old, list[j].id) BY <1>3, <2>1 DEF NoneResolved
  <2> QED BY <2>1, <2>2
<1> QED BY <1>1, <1>2, <1>3 DEF Follows

(***************************************************************************)
(* An id is found at one place of a list.                                  *)
(***************************************************************************)
LEMMA OnePlace ==
  ASSUME NEW list \in Seq(Issue), Increasing(list),
         NEW i \in DOMAIN list, NEW j \in DOMAIN list, list[i].id = list[j].id
  PROVE  i = j
<1>1. i \in Int /\ j \in Int /\ list[i].id \in Int /\ list[j].id \in Int BY MemberFact
<1>2. /\ i < j => list[i].id < list[j].id
      /\ j < i => list[j].id < list[i].id
  BY DEF Increasing
<1> QED BY <1>1, <1>2

(***************************************************************************)
(* The three statuses are different ones.                                  *)
(***************************************************************************)
LEMMA StatusDiffer == Active # Deleted /\ Active # Resolved /\ Resolved # Deleted
<1>1. Active[1] = "active" /\ Deleted[1] = "deleted" /\ Resolved[1] = "resolved"
  BY DEF Active, Deleted, Resolved
<1> QED BY <1>1

(***************************************************************************)
(* CManageIssuesDlg edits only what it shows, which is not deleted.        *)
(***************************************************************************)
LEMMA EditFollows ==
  ASSUME NEW list \in Seq(Issue), Increasing(list), NEW i \in DOMAIN list,
         list[i].id \in Selectable(list), NEW input \in Input
  PROVE  Follows(Update(list, Entered(list[i], input)), list)
<1>1. PICK j \in DOMAIN list : list[j].status # Deleted /\ list[j].id = list[i].id
  BY DEF Selectable
<1>2. list[i].status # Deleted BY <1>1, OnePlace
<1>3. PICK e : e = Entered(list[i], input) OBVIOUS
<1>4. /\ e.id = list[i].id
      /\ e.status = list[i].status \/ e.status = input.status
  BY <1>3, MemberFact DEF Entered, Issue
<1>5. NeverReopened /\ list[i].status # Active => e.status # Active
  BY <1>4 DEF NeverReopened
<1>6. PICK new : new = Update(list, e) OBVIOUS
<1>7. DOMAIN new = DOMAIN list BY <1>6 DEF Update
<1>8. ASSUME NEW k \in DOMAIN list PROVE new[k] = list[k] \/ (k = i /\ new[k] = e)
  <2>1. CASE IsFirst(list, k, e.id)
    <3>1. new[k] = e /\ list[k].id = list[i].id BY <1>4, <1>6, <2>1 DEF Update, IsFirst
    <3> QED BY <3>1, OnePlace
  <2>2. CASE ~IsFirst(list, k, e.id) BY <1>6, <2>2 DEF Update
  <2> QED BY <2>1, <2>2
<1>9. KeepsIssues(new, list) BY <1>2, <1>4, <1>5, <1>7, <1>8, Zenon DEF KeepsIssues
<1>10. NoneResolved(new, list)
  <2> SUFFICES ASSUME NeverResolvedByHand, NEW k \in DOMAIN list, new[k].status = Resolved
               PROVE  new[k].id = list[k].id /\ list[k].status = Resolved
    BY <1>7 DEF NoneResolved, WasResolved
  <2>1. e.status = Resolved => list[i].status = Resolved
    BY <1>4 DEF NeverResolvedByHand
  <2> QED BY <1>4, <1>8, <2>1
<1> QED BY <1>3, <1>6, <1>9, <1>10 DEF Follows

(***************************************************************************)
(* A new issue is put behind the others, with the status of the dialog.    *)
(***************************************************************************)
LEMMA AddFollows ==
  ASSUME NEW list \in Seq(Issue), NEW input \in Input
  PROVE  Follows(AddNew(list, Entered(EmptyIssue, input)), list)
<1>1. PICK issue : issue = Entered(EmptyIssue, input) OBVIOUS
<1> DEFINE item == IssueItem(GetMaxId(list) + 1, issue.status, issue.owner,
                             GetLabelsInSingleString(issue.labels), issue.title)
<1>2. item.status = issue.status BY DEF IssueItem
<1>3. AddNew(list, issue) = Append(list, item) BY DEF AddNew
<1> HIDE DEF item
<1>4. AddNew(list, Entered(EmptyIssue, input)) = Append(list, item) BY <1>1, <1>3
<1>5. issue.status = Active \/ issue.status = input.status
  BY <1>1 DEF Entered, EmptyIssue, IssueItem
<1>6. item.status = Active \/ item.status = input.status BY <1>2, <1>5
<1>7. PICK new : new = Append(list, item) OBVIOUS
<1>8. \A i \in DOMAIN list : i \in DOMAIN new /\ new[i] = list[i] BY <1>7
<1>9. \A i \in DOMAIN new : (i \in DOMAIN list /\ new[i] = list[i]) \/ new[i] = item
  BY <1>7
<1>10. KeepsIssues(new, list) BY <1>8, Zenon DEF KeepsIssues
<1>11. NeverResolvedByHand => item.status # Resolved
  BY <1>6, StatusDiffer DEF NeverResolvedByHand
<1>12. NoneResolved(new, list) BY <1>9, <1>11, Zenon DEF NoneResolved, WasResolved
<1> QED BY <1>4, <1>7, <1>10, <1>12 DEF Follows

(***************************************************************************)
(* Deleting only sets the status.                                          *)
(***************************************************************************)
LEMMA DeleteFollows ==
  ASSUME NEW list \in Seq(Issue), NEW ids
  PROVE  Follows(Delete(list, ids), list)
<1>1. PICK new : new = Delete(list, ids) OBVIOUS
<1>2. DOMAIN new = DOMAIN list BY <1>1 DEF Delete
<1>3. ASSUME NEW k \in DOMAIN list
      PROVE  /\ new[k].id = list[k].id
             /\ new[k].status = list[k].status \/ new[k].status = Deleted
  <2>1. new[k] = list[k] \/ new[k] = [list[k] EXCEPT !.status = Deleted] BY <1>1 DEF Delete
  <2> QED BY <2>1, MemberFact DEF Issue
<1>4. KeepsIssues(new, list) BY <1>2, <1>3, StatusDiffer, Zenon DEF KeepsIssues
<1>5. NoneResolved(new, list)
  BY <1>2, <1>3, StatusDiffer, Zenon DEF NoneResolved, WasResolved
<1> QED BY <1>1, <1>4, <1>5 DEF Follows
-----------------------------------------------------------------------------
(***************************************************************************)
(* The list of a user who is alone follows the latest revision as long as  *)
(* it can still be committed: while a dialog shows it, while ids are       *)
(* chosen, and until the commit of a call that writes it.  A file that was *)
(* exported is the latest.                                                 *)
(***************************************************************************)
UpToDate(c) == repo # <<>> /\ Follows(issueList[c], ReadFile(Latest))

MayCommit(c) ==
  \/ dlg[c] = "manage" \/ Idle(c, "choose")
  \/ dlg[c] # "finished" /\ idList[c] # <<>>
  \/ pc[c] \in {"checkedout", "written"}

FollowsInv(c) ==
  /\ MayCommit(c) => UpToDate(c)
  /\ pc[c] = "exported" => repo # <<>> /\ tmp[c] = Latest

(***************************************************************************)
(* A call leaves the list as it is, or reads it from the exported file.    *)
(***************************************************************************)
LEMMA CallList ==
  ASSUME Inv, NEW c \in Client, CallStep(c)
  PROVE  \/ issueList'[c] = issueList[c]
         \/ pc[c] = "exported" /\ issueList'[c] = ReadFile(tmp[c])
<1>1. Functions BY InvParts DEF Parts
<1>2. CASE LoadRead(c)
  BY <1>1, <1>2 DEF LoadRead, Return, Fail, memVars, Functions
<1>3. CASE issueList' = issueList BY <1>3
<1> QED BY <1>2, <1>3 DEF CallStep, LoadExport, AddSupportWrite, AddSupportImport,
           UpdateCheckOut, UpdateWrite, UpdateCommit, UpdateDelete, Fail, memVars

(***************************************************************************)
(* A call leaves a list that is up to date so, unless it resolves issues.  *)
(***************************************************************************)
LEMMA SaveUpToDate ==
  ASSUME MarkedInv, NEW c \in Client, CallStep(c), UpToDate(c), FollowsInv(c),
         pc[c] = "written" => revnum[c] = 0
  PROVE  UpToDate(c)'
<1>1. RepoOK /\ ClientOK(c) /\ StorableOK(c)
  BY InvParts DEF MarkedInv, RInv, Parts, StorableInv
<1>2. /\ RepoOutcome(c)
      /\ \/ issueList'[c] = issueList[c]
         \/ pc[c] = "exported" /\ issueList'[c] = ReadFile(tmp[c])
  BY CallOutcome, CallList DEF MarkedInv, RInv, Outcome
<1>3. CASE repo' = repo
  <2>1. Latest' = Latest BY <1>3 DEF Latest
  <2>2. CASE issueList'[c] = issueList[c] BY <1>3, <2>1, <2>2 DEF UpToDate
  <2>3. CASE pc[c] = "exported" /\ issueList'[c] = ReadFile(tmp[c])
    BY <1>3, <2>1, <2>3, FollowsOrder DEF UpToDate, FollowsInv
  <2> QED BY <1>2, <2>2, <2>3
<1>4. CASE pc[c] = "written" /\ repo' = Append(repo, TextToWrite(c)) /\ issueList' = issueList
  <2>1. PICK list \in Seq(Issue) : list = issueList[c] BY <1>1 DEF ClientOK, MemoryOK
  <2>2. AllStorable(list) BY <1>1, <2>1 DEF StorableOK
  <2>3. ReadFile(TextToWrite(c)) = list
    BY <1>4, <2>1, <2>2, WrittenComesBack DEF TextToWrite
  <2>4. Latest' = TextToWrite(c) /\ repo' # <<>> BY <1>1, <1>4 DEF Latest, RepoOK
  <2>5. Follows(list, list) BY FollowsOrder
  <2> QED BY <1>4, <2>1, <2>3, <2>4, <2>5 DEF UpToDate
<1> QED BY <1>2, <1>3, <1>4 DEF RepoOutcome, UpToDate
(***************************************************************************)
(* CProvider: OnCommitFinished takes the list over from the dialogs and    *)
(* only commits it.                                                        *)
(***************************************************************************)
LEMMA ProviderFollows ==
  ASSUME MarkedInv, NEW c \in Client, FollowsInv(c), ProviderStep(c), MayCommit(c)'
  PROVE  UpToDate(c)'
<1>1. Functions /\ dlg \in [Client -> Dialog]
  BY InvParts DEF MarkedInv, RInv, Parts, DialogInv
<1> USE <1>1 DEF Functions
<1>2. ASSUME MayCommit(c), repo' = repo, issueList' = issueList PROVE UpToDate(c)'
  BY <1>2 DEF FollowsInv, UpToDate, Latest
<1>3. CASE OpenCommitDialog(c)
  <2>1. UNCHANGED <<repo, issueList, idList, pc>> /\ dlg'[c] = "commit" /\ dlg[c] = "none"
        /\ pc[c] = "idle"
    BY <1>3 DEF OpenCommitDialog, Show, Idle, accessorVars
  <2> QED BY <1>2, <2>1 DEF MayCommit, Idle
<1>4. CASE ForgetDialogs(c) /\ Forget(c)
  <2>1. dlg'[c] = "none" /\ idList'[c] = <<>> /\ pc'[c] = "idle"
    BY <1>4 DEF ForgetDialogs, Show, Forget
  <2> QED BY <2>1 DEF MayCommit, Idle
<1>5. CASE OnCommitFinished(c)
  <2>1. dlg'[c] = "finished" /\ dlg[c] = "commit" BY <1>5 DEF OnCommitFinished, Show, Idle
  <2>2. pc'[c] # "idle" BY <2>1 DEF MayCommit, Idle
  <2>3. idList[c] # <<>> /\ repo' = repo /\ issueList' = issueList
    BY <1>5, <2>2 DEF OnCommitFinished, UpdateCheckOut, NothingToResolve, Fail, Return,
                      CheckOut, memVars
  <2> QED BY <1>2, <2>1, <2>3 DEF MayCommit
<1>6. CASE CommitFinishedStep(c)
  <2>1. dlg'[c] = "finished" BY <1>6 DEF CommitFinishedStep, uiVars
  <2>2. pc'[c] \in {"checkedout", "written"} BY <2>1 DEF MayCommit, Idle
  <2>3. pc[c] = "checkedout" /\ repo' = repo /\ issueList' = issueList
    BY <1>6, <2>2 DEF CommitFinishedStep, UpdateStep, UpdateWrite, UpdateCommit,
                      UpdateDelete, Fail, Return, Goto, memVars
  <2> QED BY <1>2, <2>3 DEF MayCommit
<1> QED BY <1>3, <1>4, <1>5, <1>6
        DEF ProviderStep, CloseCommitDialog, KillProcess, Crash

(***************************************************************************)
(* CChooseIssuesDlg shows the list it has loaded, and lets ids be chosen   *)
(* only from it.                                                           *)
(***************************************************************************)
LEMMA ChooseFollows ==
  ASSUME MarkedInv, NEW c \in Client, FollowsInv(c), ChooseStep(c), MayCommit(c)'
  PROVE  UpToDate(c)'
<1>1. /\ RepoOK /\ Functions /\ HeaderOnly(c) /\ dlg \in [Client -> Dialog]
      /\ SaveInv(c)
  BY InvParts DEF MarkedInv, RInv, Parts, DialogInv
<1> USE <1>1 DEF Functions
<1>2. ASSUME MayCommit(c), repo' = repo, issueList' = issueList PROVE UpToDate(c)'
  BY <1>2 DEF FollowsInv, UpToDate, Latest
<1>3. CASE OnInitDialog(c)
  <2>1. dlg[c] = "commit" /\ pc[c] = "idle" BY <1>3 DEF OnInitDialog, Idle
  <2>2. LoadExport(c) \/ AddSupportWrite(c) BY <1>3 DEF OnInitDialog
  <2>3. repo' = repo /\ issueList' = issueList /\ idList' = idList
    BY <2>2 DEF LoadExport, AddSupportWrite, ExportFile, Fail, memVars
  <2>4. pc'[c] \in {"exported", "header", "idle"}
    BY <2>2 DEF LoadExport, AddSupportWrite, Call, Fail, Return
  <2>5. dlg'[c] = "commit" \/ (dlg'[c] = "choose" /\ pc'[c] # "idle")
    BY <1>3, <2>1 DEF OnInitDialog, Returns, Show
  <2>6. idList[c] # <<>> BY <2>3, <2>4, <2>5 DEF MayCommit, Idle
  <2> QED BY <1>2, <2>1, <2>3, <2>6 DEF MayCommit
<1>4. CASE InitDialogStep(c)
  <2>1. CASE Fail(c, "exported") \/ Fail(c, "header")
    <3>1. ~ret'[c] /\ pc'[c] = "idle" /\ UNCHANGED <<repo, issueList, idList>>
      BY <2>1 DEF Fail, Return, memVars
    <3>2. dlg[c] = "choose" /\ dlg'[c] = "commit"
      BY <1>4, <3>1 DEF InitDialogStep, EndChoose, Show
    <3>3. idList[c] # <<>> BY <3>1, <3>2 DEF MayCommit, Idle
    <3> QED BY <1>2, <3>1, <3>2, <3>3 DEF MayCommit
  <2>2. CASE /\ Return(c, "exported", TRUE)
             /\ issueList' = [issueList EXCEPT ![c] = ReadFile(tmp[c])]
             /\ UNCHANGED <<repo, wc, idList>>
    <3>1. repo # <<>> /\ tmp[c] = Latest BY <2>2 DEF Return, FollowsInv
    <3>2. issueList'[c] = ReadFile(Latest) BY <2>2, <3>1
    <3>3. Latest' = Latest BY <2>2 DEF Latest
    <3> QED BY <2>2, <3>1, <3>2, <3>3, FollowsOrder DEF UpToDate
  <2>3. CASE /\ \E answered \in BOOLEAN : Return(c, "header", answered)
             /\ ImportFile(c) /\ UNCHANGED memVars
    <3>1. repo' = <<<<>>>> BY <2>3 DEF Return, ImportFile, HeaderOnly
    <3>2. repo' # <<>> /\ Latest' = <<>> BY <3>1 DEF Latest
    <3>3. issueList'[c] = <<>> BY <2>3 DEF ImportFile, memVars, SaveInv
    <3>4. Follows(issueList'[c], <<>>) BY <3>3, FollowsOrder
    <3> QED BY <3>2, <3>4, ReadNothing DEF UpToDate
  <2> QED BY <1>4, <2>1, <2>2, <2>3 DEF InitDialogStep, LoadRead, AddSupportImport
<1>5. CASE Idle(c, "choose") /\ UNCHANGED <<repo, issueList>>
  BY <1>2, <1>5 DEF MayCommit
<1> QED BY <1>3, <1>4, <1>5 DEF ChooseStep, OnCheck, OnFilterChanged, OnOK, OnCancel,
           OnManage, SetIssuesChecked, Quiet, svnVars, accessorVars

(***************************************************************************)
(* CManageIssuesDlg edits the list and commits or loads it.                *)
(***************************************************************************)
LEMMA ManageFollows ==
  ASSUME MarkedInv, NEW c \in Client, FollowsInv(c), ManageStep(c)
  PROVE  UpToDate(c)'
<1>1. Functions /\ ClientOK(c) /\ SaveInv(c) BY InvParts DEF MarkedInv, RInv, Parts
<1> USE <1>1 DEF Functions
<1>2. dlg[c] = "manage"
  BY DEF ManageStep, OnAddIssue, OnEditIssue, OnDeleteIssue, OnSave, OnReload, SaveStep,
         ReloadStep, OnSysCommand, Idle
<1>3. UpToDate(c) /\ revnum[c] = 0 BY <1>2 DEF FollowsInv, MayCommit, SaveInv
<1>4. PICK list \in Seq(Issue) : list = issueList[c] BY DEF ClientOK, MemoryOK
<1>5. Increasing(list) BY <1>4 DEF ClientOK, MemoryOK
<1>6. ASSUME Follows(issueList'[c], list), repo' = repo PROVE UpToDate(c)'
  <2>1. Latest' = Latest BY <1>6 DEF Latest
  <2>2. Follows(issueList'[c], ReadFile(Latest))
    BY <1>3, <1>4, <1>6, FollowsOrder DEF UpToDate
  <2> QED BY <1>3, <1>6, <2>1, <2>2 DEF UpToDate
<1>7. ASSUME NEW input \in Input, OnAddIssue(c, input) PROVE UpToDate(c)'
  <2>1. issueList'[c] = AddNew(list, Entered(EmptyIssue, input)) /\ repo' = repo
    BY <1>4, <1>7 DEF OnAddIssue, AddNewIssue, Quiet, svnVars
  <2> QED BY <1>6, <2>1, AddFollows
<1>8. ASSUME NEW input \in Input, NEW i \in DOMAIN issueList[c], OnEditIssue(c, i, input)
      PROVE  UpToDate(c)'
  <2>1. issueList'[c] = Update(list, Entered(list[i], input)) /\ repo' = repo
    BY <1>4, <1>8 DEF OnEditIssue, UpdateIssue, Quiet, svnVars
  <2>2. list[i].id \in Selectable(list) /\ i \in DOMAIN list
    BY <1>4, <1>8 DEF OnEditIssue
  <2> QED BY <1>5, <1>6, <2>1, <2>2, EditFollows
<1>9. ASSUME NEW ids, OnDeleteIssue(c, ids) PROVE UpToDate(c)'
  <2>1. issueList'[c] = Delete(list, ids) /\ repo' = repo
    BY <1>4, <1>9 DEF OnDeleteIssue, DeleteIssues, Quiet, svnVars
  <2> QED BY <1>6, <2>1, DeleteFollows
<1>10. ASSUME NEW ending, OnSave(c, ending) \/ OnReload(c, ending) PROVE UpToDate(c)'
  <2>1. CallStep(c) BY <1>10 DEF OnSave, OnReload, CallStep
  <2> QED BY <1>3, <2>1, SaveUpToDate
<1>11. CASE SaveStep(c) \/ ReloadStep(c)
  <2>1. CallStep(c) BY <1>11 DEF SaveStep, ReloadStep, UpdateStep, CallStep
  <2> QED BY <1>3, <2>1, SaveUpToDate
<1>12. CASE OnSysCommand(c)
  <2>1. issueList'[c] = list /\ repo' = repo BY <1>4, <1>12 DEF OnSysCommand, accessorVars
  <2> QED BY <1>6, <2>1, FollowsOrder
<1> QED BY <1>7, <1>8, <1>9, <1>10, <1>11, <1>12 DEF ManageStep
(***************************************************************************)
(* So the invariant is kept by every handler of the user.                  *)
(***************************************************************************)
LEMMA FollowsStep ==
  ASSUME MarkedInv, NEW c \in Client, FollowsInv(c),
         ProviderStep(c) \/ ChooseStep(c) \/ ManageStep(c)
  PROVE  FollowsInv(c)'
<1>1. MayCommit(c)' => UpToDate(c)' BY ProviderFollows, ChooseFollows, ManageFollows
<1>2. Functions /\ AccessStep(c)
  BY InvParts, ProviderAccess, ChooseAccess, ManageAccess
     DEF MarkedInv, RInv, Parts, AccessStep
<1>3. pc'[c] = "exported" => repo' # <<>> /\ tmp'[c] = Latest'
  <2>1. CASE CallStep(c) \/ Crash(c)
    <3>1. FileOutcome(c) BY <2>1, CallOutcome DEF MarkedInv, Outcome
    <3> QED BY <3>1 DEF FileOutcome, Latest
  <2>2. CASE MemoryStep(c) \/ SetIssuesChecked(c, checkStatus[c])
    <3>1. pc'[c] = "idle"
      BY <1>2, <2>2 DEF MemoryStep, SetIssuesChecked, AddNewIssue, UpdateIssue,
                        DeleteIssues, Quiet, Functions
    <3> QED BY <3>1
  <2>3. CASE UNCHANGED accessorVars BY <2>3 DEF accessorVars, FollowsInv, Latest
  <2> QED BY <1>2, <2>1, <2>2, <2>3 DEF AccessStep, OtherAccess
<1> QED BY <1>1, <1>3 DEF FollowsInv

(***************************************************************************)
(* A reader of the next revision of a user who is alone finds the user's   *)
(* list, with the chosen issues resolved if it is the commit's, which only *)
(* OnCommitFinished makes; and that list follows the revision before.      *)
(***************************************************************************)
NextRevision(c) ==
  /\ dlg[c] = "finished" \/ revnum[c] = 0
  /\ issueList[c] \in Seq(Issue) /\ Increasing(issueList[c])
  /\ Follows(issueList[c], ReadFile(Latest))
  /\ ReadFile(Latest') = WrittenAs(issueList[c], idList[c], revnum[c])

(***************************************************************************)
(* Only OnCommitFinished and OnSave make a revision behind the first one,  *)
(* and OnSave passes revision 0.                                           *)
(***************************************************************************)
LEMMA ReviserRuns ==
  ASSUME MarkedInv, NEW c \in Client, Revised,
         ProviderStep(c) \/ ChooseStep(c) \/ ManageStep(c)
  PROVE  dlg[c] = "finished" \/ revnum[c] = 0
<1>1. repo # <<>> /\ repo' # repo /\ SaveInv(c) BY DEF Revised, MarkedInv
<1>2. CASE ProviderStep(c)
  BY <1>1, <1>2 DEF ProviderStep, OpenCommitDialog, CloseCommitDialog, KillProcess, Crash,
                    Forget, OnCommitFinished, UpdateCheckOut, CheckOut, Fail, svnVars,
                    CommitFinishedStep, accessorVars
<1>3. CASE ChooseStep(c)
  BY <1>1, <1>3 DEF ChooseStep, OnInitDialog, LoadExport, ExportFile, AddSupportWrite, Fail,
                    InitDialogStep, LoadRead, AddSupportImport, ImportFile, OnCheck,
                    OnFilterChanged, OnOK, SetIssuesChecked, Quiet, svnVars, OnCancel,
                    OnManage, accessorVars
<1>4. CASE ManageStep(c)
  <2>1. dlg[c] = "manage"
    BY <1>4 DEF ManageStep, OnAddIssue, OnEditIssue, OnDeleteIssue, OnSave, OnReload,
                SaveStep, ReloadStep, OnSysCommand, Idle
  <2> QED BY <1>1, <2>1 DEF SaveInv
<1> QED BY <1>2, <1>3, <1>4

(***************************************************************************)
(* This is so whichever handler it is.                                     *)
(***************************************************************************)
LEMMA NextRevisionStep ==
  ASSUME MarkedInv, NEW c \in Client, FollowsInv(c), Revised,
         ProviderStep(c) \/ ChooseStep(c) \/ ManageStep(c)
  PROVE  NextRevision(c)
<1>1. RepoOK /\ ClientOK(c) /\ StorableOK(c)
  BY InvParts DEF MarkedInv, RInv, Parts, StorableInv
<1>2. AccessStep(c) BY ProviderAccess, ChooseAccess, ManageAccess DEF AccessStep
<1>3. CallStep(c) \/ Crash(c)
  BY <1>2 DEF AccessStep, OtherAccess, MemoryStep, SetIssuesChecked, AddNewIssue,
              UpdateIssue, DeleteIssues, Quiet, svnVars, accessorVars, Revised
<1>4. pc[c] = "written" /\ repo' = Append(repo, TextToWrite(c))
  BY <1>3, CallOutcome DEF MarkedInv, Outcome, RepoOutcome, Revised
<1>5. Latest' = TextToWrite(c) BY <1>1, <1>4 DEF Latest, RepoOK
<1>6. PICK list \in Seq(Issue) : list = issueList[c] BY <1>1 DEF ClientOK, MemoryOK
<1>7. Increasing(list) /\ AllStorable(list)
  BY <1>1, <1>6 DEF ClientOK, MemoryOK, StorableOK
<1>8. ReadFile(TextToWrite(c)) = WrittenAs(list, idList[c], revnum[c])
  BY <1>6, <1>7, WrittenComesBack DEF TextToWrite
<1>9. Follows(list, ReadFile(Latest))
  BY <1>4, <1>6 DEF FollowsInv, MayCommit, UpToDate
<1>10. dlg[c] = "finished" \/ revnum[c] = 0 BY ReviserRuns
<1> QED BY <1>5, <1>6, <1>7, <1>8, <1>9, <1>10 DEF NextRevision

(***************************************************************************)
(* What a commit does to the statuses.                                     *)
(***************************************************************************)
LEMMA WrittenStatus ==
  ASSUME NEW list \in Seq(Issue), NEW ids, NEW rev, NEW new,
         new = WrittenAs(list, ids, rev)
  PROVE  /\ DOMAIN new = DOMAIN list
         /\ \A k \in DOMAIN list :
              /\ new[k].id = list[k].id
              /\ new[k].status = IF IsChosen(ids, rev, list[k].id) THEN Resolved
                                 ELSE list[k].status
<1>1. DOMAIN new = DOMAIN list BY DEF WrittenAs
<1>2. ASSUME NEW k \in DOMAIN list
      PROVE  /\ new[k].id = list[k].id
             /\ new[k].status = IF IsChosen(ids, rev, list[k].id) THEN Resolved
                                ELSE list[k].status
  <2>1. CASE IsChosen(ids, rev, list[k].id)
    <3>1. new[k] = [list[k] EXCEPT !.status = Resolved] BY <2>1 DEF WrittenAs
    <3>2. list[k] \in Issue BY MemberFact
    <3>3. new[k].id = list[k].id /\ new[k].status = Resolved BY <3>1, <3>2 DEF Issue
    <3> QED BY <2>1, <3>3
  <2>2. CASE ~IsChosen(ids, rev, list[k].id)
    <3>1. new[k] = list[k] BY <2>2 DEF WrittenAs
    <3> QED BY <2>2, <3>1
  <2> QED BY <2>1, <2>2
<1> QED BY <1>1, <1>2

(***************************************************************************)
(* What the four properties say of two lists: old is what a reader of the *)
(* latest revision finds, new what a reader of the next one finds.         *)
(***************************************************************************)
LEMMA ListsOfRevisions ==
  ASSUME NEW list \in Seq(Issue), Increasing(list), NEW old, Follows(list, old),
         NEW ids, NEW rev, NEW new, new = WrittenAs(list, ids, rev)
  PROVE  /\ \A k \in DOMAIN old : \E i \in DOMAIN new : new[i].id = old[k].id
         /\ NeverReopened =>
              \A k \in DOMAIN old : \A i \in DOMAIN new :
                old[k].id = new[i].id /\ old[k].status = Resolved => new[i].status # Active
         /\ \A k \in DOMAIN old : old[k].status = Deleted =>
              \/ \E i \in DOMAIN new : new[i].id = old[k].id /\ new[i].status = Deleted
              \/ IsChosen(ids, rev, old[k].id)
         /\ NeverResolvedByHand =>
              \A i \in DOMAIN new : new[i].status = Resolved =>
                IsChosen(ids, rev, new[i].id) \/ WasResolved(old, new[i].id)
<1>1. /\ DOMAIN new = DOMAIN list
      /\ \A k \in DOMAIN list :
           /\ new[k].id = list[k].id
           /\ new[k].status = IF IsChosen(ids, rev, list[k].id) THEN Resolved
                              ELSE list[k].status
  BY WrittenStatus
<1>2. ASSUME NEW k \in DOMAIN old
      PROVE  /\ \E i \in DOMAIN new : new[i].id = old[k].id
             /\ NeverReopened =>
                  \A i \in DOMAIN new :
                    old[k].id = new[i].id /\ old[k].status = Resolved
                      => new[i].status # Active
             /\ old[k].status = Deleted =>
                  \/ \E i \in DOMAIN new : new[i].id = old[k].id /\ new[i].status = Deleted
                  \/ IsChosen(ids, rev, old[k].id)
  <2>1. PICK j \in DOMAIN list :
          /\ list[j].id = old[k].id
          /\ old[k].status = Deleted => list[j].status = Deleted
          /\ NeverReopened /\ old[k].status # Active => list[j].status # Active
    BY DEF Follows, KeepsIssues
  <2>2. new[j].id = old[k].id BY <1>1, <2>1
  <2>3. ASSUME NeverReopened, old[k].status = Resolved, NEW i \in DOMAIN new,
               old[k].id = new[i].id
        PROVE  new[i].status # Active
    <3>1. i = j BY <1>1, <2>1, <2>3, OnePlace
    <3>2. list[j].status # Active BY <2>1, <2>3, StatusDiffer
    <3>3. new[j].status = Resolved \/ new[j].status = list[j].status BY <1>1
    <3> QED BY <3>1, <3>2, <3>3, StatusDiffer
  <2>4. ASSUME old[k].status = Deleted, ~IsChosen(ids, rev, old[k].id)
        PROVE  new[j].status = Deleted
    BY <1>1, <2>1, <2>4
  <2> QED BY <1>1, <2>2, <2>3, <2>4
<1>3. ASSUME NeverResolvedByHand, NEW i \in DOMAIN new, new[i].status = Resolved,
             ~IsChosen(ids, rev, new[i].id)
      PROVE  WasResolved(old, new[i].id)
  <2>1. i \in DOMAIN list /\ list[i].status = Resolved /\ list[i].id = new[i].id
    BY <1>1, <1>3
  <2> QED BY <1>3, <2>1 DEF Follows, NoneResolved
<1> QED BY <1>2, <1>3

(***************************************************************************)
(* For a user who is alone the invariant holds forever, and every revision *)
(* but the first is the next one of that user.                             *)
(***************************************************************************)
LEMMA AlwaysFollows ==
  ASSUME NEW user, Client = {user}, PlainInput
  PROVE  Spec => [](MarkedInv /\ FollowsInv(user))
<1>1. Init => FollowsInv(user)
  BY DEF Init, AccessorInit, FollowsInv, MayCommit, Idle
<1>2. MarkedInv /\ FollowsInv(user) /\ [Next]_vars => FollowsInv(user)'
  <2>1. ASSUME FollowsInv(user), UNCHANGED vars PROVE FollowsInv(user)'
    <3>1. UNCHANGED accessorVars /\ UNCHANGED uiVars BY <2>1 DEF vars
    <3>2. Latest' = Latest BY <3>1 DEF accessorVars, Latest
    <3> QED BY <2>1, <3>1, <3>2
            DEF FollowsInv, MayCommit, UpToDate, Idle, accessorVars, uiVars
  <2> QED BY <2>1, FollowsStep DEF Next
<1> QED BY <1>1, <1>2, AlwaysMarked, PTL DEF Spec

(***************************************************************************)
(* In a step that makes a revision behind the first one, it is the user's. *)
(***************************************************************************)
LEMMA RevisionOfUser ==
  ASSUME NEW user, Client = {user}, MarkedInv, FollowsInv(user), [Next]_vars, Revised
  PROVE  NextRevision(user)
<1>1. ~UNCHANGED vars BY DEF vars, accessorVars, Revised
<1> QED BY <1>1, NextRevisionStep DEF Next

(***************************************************************************)
(* No issue is lost: if a user who is alone enters what the file can hold, *)
(* every revision has all the issues of the one before it, whatever fails, *)
(* whichever answer is lost and wherever the process is killed.            *)
(***************************************************************************)
THEOREM AloneNoIssueLost ==
  ASSUME NEW user, Client = {user}, PlainInput
  PROVE  Spec => NoIssueLost
<1> DEFINE Kept == Revised => Ids(ReadFile(Latest)) \subseteq Ids(ReadFile(Latest'))
<1>1. MarkedInv /\ FollowsInv(user) /\ [Next]_vars => [Kept]_repo
  <2> SUFFICES ASSUME MarkedInv, FollowsInv(user), [Next]_vars, Revised
               PROVE  Ids(ReadFile(Latest)) \subseteq Ids(ReadFile(Latest'))
    OBVIOUS
  <2>1. NextRevision(user) BY RevisionOfUser
  <2>2. PICK old, new : old = ReadFile(Latest) /\ new = ReadFile(Latest') OBVIOUS
  <2>3. \A k \in DOMAIN old : \E i \in DOMAIN new : new[i].id = old[k].id
    BY <2>1, <2>2, ListsOfRevisions DEF NextRevision
  <2>4. Ids(old) \subseteq Ids(new) BY <2>3, Zenon DEF Ids
  <2> QED BY <2>2, <2>4
<1>2. Spec => [][Kept]_repo
  <2> HIDE DEF Kept
  <2> QED BY <1>1, AlwaysFollows, PTL DEF Spec
<1> QED BY <1>2 DEF NoIssueLost

(***************************************************************************)
(* If that user also sets no status back to active, an issue that was      *)
(* resolved is not active again in any later revision.                     *)
(***************************************************************************)
THEOREM AloneResolvedStays ==
  ASSUME NEW user, Client = {user}, PlainInput, NeverReopened
  PROVE  Spec => ResolvedStays
<1> DEFINE Kept ==
      Revised => IdsWith(Resolved, Latest) \cap IdsWith(Active, Latest') = {}
<1>1. MarkedInv /\ FollowsInv(user) /\ [Next]_vars => [Kept]_repo
  <2> SUFFICES ASSUME MarkedInv, FollowsInv(user), [Next]_vars, Revised
               PROVE  IdsWith(Resolved, Latest) \cap IdsWith(Active, Latest') = {}
    OBVIOUS
  <2>1. NextRevision(user) BY RevisionOfUser
  <2>2. PICK old, new : old = ReadFile(Latest) /\ new = ReadFile(Latest') OBVIOUS
  <2>3. \A k \in DOMAIN old : \A i \in DOMAIN new :
          old[k].id = new[i].id /\ old[k].status = Resolved => new[i].status # Active
    BY <2>1, <2>2, ListsOfRevisions DEF NextRevision
  <2>4. ASSUME NEW id \in IdsWith(Resolved, Latest), id \in IdsWith(Active, Latest')
        PROVE  FALSE
    <3>1. PICK k \in DOMAIN old : old[k].status = Resolved /\ old[k].id = id
      BY <2>2 DEF IdsWith
    <3>2. PICK i \in DOMAIN new : new[i].status = Active /\ new[i].id = id
      BY <2>2, <2>4 DEF IdsWith
    <3> QED BY <2>3, <3>1, <3>2
  <2> QED BY <2>4
<1>2. Spec => [][Kept]_repo
  <2> HIDE DEF Kept
  <2> QED BY <1>1, AlwaysFollows, PTL DEF Spec
<1> QED BY <1>2 DEF ResolvedStays

(***************************************************************************)
(* An issue that such a user deleted comes back only with a commit for     *)
(* which it was chosen.                                                    *)
(***************************************************************************)
THEOREM AloneDeletedStays ==
  ASSUME NEW user, Client = {user}, PlainInput
  PROVE  Spec => DeletedStays
<1> DEFINE Kept ==
      Revised =>
        \A id \in IdsWith(Deleted, Latest) \ IdsWith(Deleted, Latest') :
          \E c \in Client : revnum[c] > 0 /\ GetIssuedChecked(idList[c], id)
<1>1. MarkedInv /\ FollowsInv(user) /\ [Next]_vars => [Kept]_repo
  <2> SUFFICES ASSUME MarkedInv, FollowsInv(user), [Next]_vars, Revised,
                      NEW id \in IdsWith(Deleted, Latest), id \notin IdsWith(Deleted, Latest')
               PROVE  revnum[user] > 0 /\ GetIssuedChecked(idList[user], id)
    OBVIOUS
  <2>1. NextRevision(user) BY RevisionOfUser
  <2>2. PICK old, new : old = ReadFile(Latest) /\ new = ReadFile(Latest') OBVIOUS
  <2>3. \A k \in DOMAIN old : old[k].status = Deleted =>
          \/ \E i \in DOMAIN new : new[i].id = old[k].id /\ new[i].status = Deleted
          \/ IsChosen(idList[user], revnum[user], old[k].id)
    BY <2>1, <2>2, ListsOfRevisions DEF NextRevision
  <2>4. PICK k \in DOMAIN old : old[k].status = Deleted /\ old[k].id = id
    BY <2>2 DEF IdsWith
  <2>5. ~\E i \in DOMAIN new : new[i].id = id /\ new[i].status = Deleted
    BY <2>2 DEF IdsWith
  <2>6. IsChosen(idList[user], revnum[user], id) BY <2>3, <2>4, <2>5
  <2> QED BY <2>6 DEF IsChosen, GetIssuedChecked
<1>2. Spec => [][Kept]_repo
  <2> HIDE DEF Kept
  <2> QED BY <1>1, AlwaysFollows, PTL DEF Spec
<1> QED BY <1>2 DEF DeletedStays

(***************************************************************************)
(* If that user sets no issue to resolved by hand, what a revision has as  *)
(* newly resolved was named in the message of the commit that finished:    *)
(* no save and nothing an older call left behind resolves an issue.        *)
(***************************************************************************)
THEOREM AloneOnlyNamed ==
  ASSUME NEW user, Client = {user}, PlainInput, NeverResolvedByHand
  PROVE  Spec => OnlyNamedGetResolved
<1> DEFINE Kept ==
      Revised =>
        \A id \in IdsWith(Resolved, Latest') \ IdsWith(Resolved, Latest) :
          \E c \in Client : dlg[c] = "finished" /\ id \in Named(c)
<1>1. UiInv /\ MarkedInv /\ FollowsInv(user) /\ [Next]_vars => [Kept]_repo
  <2> SUFFICES ASSUME UiInv, MarkedInv, FollowsInv(user), [Next]_vars, Revised,
                      NEW id \in IdsWith(Resolved, Latest'), id \notin IdsWith(Resolved, Latest)
               PROVE  dlg[user] = "finished" /\ id \in Named(user)
    OBVIOUS
  <2>1. NextRevision(user) BY RevisionOfUser
  <2>2. PICK old, new : old = ReadFile(Latest) /\ new = ReadFile(Latest') OBVIOUS
  <2>3. \A i \in DOMAIN new : new[i].status = Resolved =>
          IsChosen(idList[user], revnum[user], new[i].id) \/ WasResolved(old, new[i].id)
    BY <2>1, <2>2, ListsOfRevisions DEF NextRevision
  <2>4. PICK i \in DOMAIN new : new[i].status = Resolved /\ new[i].id = id
    BY <2>2 DEF IdsWith
  <2>5. ~WasResolved(old, id) BY <2>2 DEF IdsWith, WasResolved
  <2>6. IsChosen(idList[user], revnum[user], id) BY <2>3, <2>4, <2>5
  <2>7. dlg[user] = "finished" BY <2>1, <2>6 DEF NextRevision, IsChosen
  <2>8. id \in Named(user) BY <2>6 DEF UiInv, Same, IsChosen, Named
  <2> QED BY <2>7, <2>8
<1>2. Spec => [][Kept]_repo
  <2> HIDE DEF Kept
  <2> QED BY <1>1, AlwaysUiInv, AlwaysFollows, PTL DEF Spec
<1> QED BY <1>2 DEF OnlyNamedGetResolved
-----------------------------------------------------------------------------
(***************************************************************************)
(* For a user who is alone no issue ever leaves the repository, and what   *)
(* OnCommitFinished reports as done is the latest revision.                *)
(***************************************************************************)
Done(c) == pc[c] = "committed" \/ (pc[c] = "idle" /\ ret[c] /\ idList[c] # <<>>)

IsLatest(c) == repo # <<>> /\ Latest = WriteFile(issueList[c], idList[c], 1)

HistoryInv(c) ==
  /\ \A r \in DOMAIN repo : Ids(ReadFile(repo[r])) \subseteq Ids(ReadFile(Latest))
  /\ dlg[c] = "finished" /\ Done(c) => IsLatest(c)

(***************************************************************************)
(* A revision has all the issues of those before it.                       *)
(***************************************************************************)
LEMMA HistoryStep ==
  ASSUME MarkedInv, NEW c \in Client, FollowsInv(c), HistoryInv(c),
         ProviderStep(c) \/ ChooseStep(c) \/ ManageStep(c),
         NEW r \in DOMAIN repo'
  PROVE  Ids(ReadFile(repo'[r])) \subseteq Ids(ReadFile(Latest'))
<1>1. RepoOK /\ Grows BY NextAccess, InvParts DEF MarkedInv, RInv, Parts, Keeps
<1>2. CASE repo' = repo
  <2>1. Latest' = Latest BY <1>2 DEF Latest
  <2> QED BY <1>2, <2>1 DEF HistoryInv
<1>3. CASE repo' # repo
  <2>1. r \in DOMAIN repo \/ r = Len(repo')
    BY <1>1 DEF Grows, RepoOK
  <2>2. CASE r = Len(repo') BY <2>2 DEF Latest
  <2>3. CASE r \in DOMAIN repo
    <3>1. repo'[r] = repo[r] BY <1>1, <2>3, RevisionsStay
    <3>2. Revised BY <1>3, <2>3 DEF Revised
    <3>3. NextRevision(c) BY <3>2, NextRevisionStep
    <3>4. PICK old, new : old = ReadFile(Latest) /\ new = ReadFile(Latest') OBVIOUS
    <3>5. \A k \in DOMAIN old : \E i \in DOMAIN new : new[i].id = old[k].id
      BY <3>3, <3>4, ListsOfRevisions DEF NextRevision
    <3>6. Ids(old) \subseteq Ids(new) BY <3>5, Zenon DEF Ids
    <3>7. Ids(ReadFile(repo[r])) \subseteq Ids(old) BY <2>3, <3>4 DEF HistoryInv
    <3> QED BY <3>1, <3>4, <3>6, <3>7
  <2> QED BY <2>1, <2>2, <2>3
<1> QED BY <1>2, <1>3

(***************************************************************************)
(* The commit makes the latest revision, or finds that it has the text     *)
(* already, because its working copy is at the latest revision.            *)
(***************************************************************************)
LEMMA DoneStep ==
  ASSUME Inv, UiInv, NEW c \in Client, AloneInv(c), HistoryInv(c),
         OnCommitFinished(c) \/ CommitFinishedStep(c), Done(c)'
  PROVE  IsLatest(c)'
<1>1. RepoOK /\ Functions /\ ClientOK(c) BY InvParts DEF Parts
<1> USE <1>1 DEF Functions
<1>2. ASSUME NEW from, Return(c, from, FALSE) PROVE FALSE
  <2>1. pc'[c] = "idle" /\ ret'[c] = FALSE BY <1>2 DEF Return
  <2> QED BY <2>1 DEF Done
<1>3. ASSUME NEW from, Fail(c, from) PROVE FALSE BY <1>2, <1>3 DEF Fail
<1>4. CASE OnCommitFinished(c)
  <2>1. idList' = idList BY <1>4, CallKeepsIds DEF OnCommitFinished
  <2>2. CASE idList[c] = <<>> /\ Return(c, "idle", TRUE)
    <3>1. pc'[c] = "idle" BY <2>2 DEF Return
    <3> QED BY <2>1, <2>2, <3>1 DEF Done
  <2>3. CASE Call(c, 1, "checkedout")
    <3>1. pc'[c] = "checkedout" BY <2>3 DEF Call
    <3> QED BY <3>1 DEF Done
  <2> QED BY <1>3, <1>4, <2>2, <2>3 DEF OnCommitFinished, UpdateCheckOut, NothingToResolve
<1>5. CASE CommitFinishedStep(c)
  <2>1. dlg[c] = "finished" /\ Finished(c) BY <1>5 DEF CommitFinishedStep, UiInv
  <2>2. CASE UpdateWrite(c)
    <3>1. CASE Goto(c, "checkedout", "written")
      <4>1. pc'[c] = "written" BY <3>1 DEF Goto
      <4> QED BY <4>1 DEF Done
    <3> QED BY <1>3, <2>2, <3>1 DEF UpdateWrite
  <2>3. CASE UpdateCommit(c)
    <3>1. Goto(c, "written", "committed") /\ Commit(c) /\ UNCHANGED memVars
      BY <1>2, <1>3, <2>3 DEF UpdateCommit
    <3>2. pc[c] = "written" /\ revnum[c] = 1 BY <2>1, <3>1 DEF Goto, Finished
    <3>3. wc[c].lines = WriteFile(issueList[c], idList[c], 1)
      BY <3>2 DEF ClientOK, SavedText, TextToWrite
    <3>4. repo' # <<>> /\ Latest' = wc[c].lines
      <4>1. CASE NewRevision(c) BY <4>1 DEF NewRevision, Latest, RepoOK
      <4>2. CASE NothingToCommit(wc[c], repo) /\ repo' = repo
        <5>1. wc[c].base # 0 /\ wc[c].lines = repo[wc[c].base] /\ wc[c].base = Len(repo)
          BY <3>2, <4>2 DEF NothingToCommit, Unchanged, AloneInv
        <5> QED BY <4>2, <5>1 DEF Latest
      <4> QED BY <3>1, <4>1, <4>2 DEF Commit
    <3> QED BY <3>1, <3>3, <3>4 DEF IsLatest, memVars
  <2>4. CASE UpdateDelete(c)
    <3>1. pc[c] = "committed" BY <2>4 DEF UpdateDelete, Return
    <3>2. IsLatest(c) BY <2>1, <3>1 DEF HistoryInv, Done
    <3>3. UNCHANGED <<repo, issueList, idList>> BY <2>4 DEF UpdateDelete, memVars
    <3> QED BY <3>2, <3>3 DEF IsLatest, Latest
  <2> QED BY <1>5, <2>2, <2>3, <2>4 DEF CommitFinishedStep, UpdateStep
<1> QED BY <1>4, <1>5

(***************************************************************************)
(* Both hold forever.                                                      *)
(***************************************************************************)
LEMMA AlwaysHistory ==
  ASSUME NEW user, Client = {user}, PlainInput
  PROVE  Spec => []HistoryInv(user)
<1> DEFINE Known == /\ Inv /\ UiInv /\ AloneInv(user)
                    /\ MarkedInv /\ FollowsInv(user)
<1>1. Init => HistoryInv(user)
  BY DEF Init, AccessorInit, SubversionInit, HistoryInv
<1>2. Known /\ HistoryInv(user) /\ [Next]_vars => HistoryInv(user)'
  <2>1. ASSUME HistoryInv(user), UNCHANGED vars PROVE HistoryInv(user)'
    <3>1. UNCHANGED accessorVars /\ UNCHANGED uiVars BY <2>1 DEF vars
    <3>2. Latest' = Latest BY <3>1 DEF accessorVars, Latest
    <3> QED BY <2>1, <3>1, <3>2 DEF HistoryInv, Done, IsLatest, accessorVars, uiVars
  <2>2. ASSUME Known, HistoryInv(user),
               ProviderStep(user) \/ ChooseStep(user) \/ ManageStep(user)
        PROVE  HistoryInv(user)'
    <3>1. \A r \in DOMAIN repo' : Ids(ReadFile(repo'[r])) \subseteq Ids(ReadFile(Latest'))
      BY <2>2, HistoryStep
    <3>2. ASSUME dlg'[user] = "finished", Done(user)' PROVE IsLatest(user)'
      <4>1. DlgStep(user) BY <2>2, ProviderUi, ChooseUi, ManageUi
      <4>2. OnCommitFinished(user) \/ CommitFinishedStep(user)
        <5>1. \A d \in {"none", "commit", "choose", "manage"} : d # "finished" OBVIOUS
        <5> QED BY <2>2, <3>2, <4>1, <5>1 DEF DlgStep, UiInv
      <4> QED BY <2>2, <3>2, <4>2, DoneStep
    <3> QED BY <3>1, <3>2 DEF HistoryInv
  <2> QED BY <2>1, <2>2 DEF Next
<1> QED BY <1>1, <1>2, AlwaysUiInv, AlwaysAlone, AlwaysFollows, PTL DEF Spec

(***************************************************************************)
(* When OnCommitFinished reports no error to a user who is alone, each     *)
(* issue the message names is resolved in the latest revision, unless no   *)
(* revision has ever had it: however old the choice is, and whatever       *)
(* failed to load or to save since.                                        *)
(***************************************************************************)
THEOREM AloneNamedGetResolved ==
  ASSUME NEW user, Client = {user}, PlainInput
  PROVE  Spec => []NamedGetResolved
<1>1. UiInv /\ MarkedInv /\ HistoryInv(user) => NamedGetResolved
  <2> SUFFICES ASSUME UiInv, MarkedInv, HistoryInv(user), Idle(user, "finished"), ret[user],
                      NEW id \in Named(user)
               PROVE  \/ id \in IdsWith(Resolved, Latest)
                      \/ \A r \in DOMAIN repo : id \notin Ids(ReadFile(repo[r]))
    BY DEF NamedGetResolved
  <2>1. PICK k \in DOMAIN idList[user] : idList[user][k] = id
    BY DEF UiInv, Same, Named
  <2>2. idList[user] # <<>> BY <2>1
  <2>3. Latest = WriteFile(issueList[user], idList[user], 1)
    BY <2>2 DEF HistoryInv, Done, IsLatest, Idle
  <2>4. ClientOK(user) /\ StorableOK(user)
    BY InvParts DEF MarkedInv, RInv, Parts, StorableInv
  <2>5. PICK list \in Seq(Issue) : list = issueList[user] BY <2>4 DEF ClientOK, MemoryOK
  <2>6. PICK new : new = ReadFile(Latest) OBVIOUS
  <2>7. new = WrittenAs(list, idList[user], 1)
    BY <2>3, <2>4, <2>5, <2>6, WrittenComesBack DEF StorableOK
  <2>8. /\ DOMAIN new = DOMAIN list
        /\ \A i \in DOMAIN list :
             /\ new[i].id = list[i].id
             /\ new[i].status = IF IsChosen(idList[user], 1, list[i].id) THEN Resolved
                                ELSE list[i].status
    BY <2>7, WrittenStatus
  <2>9. IsChosen(idList[user], 1, id) BY <2>1 DEF IsChosen
  <2>10. CASE \E i \in DOMAIN new : new[i].id = id
    <3>1. PICK i \in DOMAIN new : new[i].id = id BY <2>10
    <3>2. new[i].status = Resolved BY <2>8, <2>9, <3>1
    <3> QED BY <2>6, <3>1, <3>2 DEF IdsWith
  <2>11. CASE ~\E i \in DOMAIN new : new[i].id = id
    <3>1. id \notin Ids(ReadFile(Latest)) BY <2>6, <2>11 DEF Ids
    <3> QED BY <3>1 DEF HistoryInv
  <2> QED BY <2>10, <2>11
<1> QED BY <1>1, AlwaysUiInv, AlwaysFollows, AlwaysHistory, PTL
=============================================================================
