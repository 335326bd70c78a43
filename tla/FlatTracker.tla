---------------------------- MODULE FlatTracker -----------------------------
(***************************************************************************)
(* The plug-in as its users see it: CProvider, called by the commit dialog *)
(* of TortoiseSVN, and its dialogs CChooseIssuesDlg and CManageIssuesDlg,  *)
(* which make the calls of IssueAccessor.                                  *)
(*                                                                         *)
(* The dialogs are modal and a call blocks them, so that dlg and pc say    *)
(* together which handler is running: a call in dlg                        *)
(*   "finished" is CProvider::OnCommitFinished,                            *)
(*   "choose"   is CChooseIssuesDlg::OnInitDialog,                         *)
(*   "manage"   is OnReload or OnSave of CManageIssuesDlg, which may have  *)
(*              been sent by OnSysCommand (closing).                       *)
(* An answer to a message box that leads nowhere is a step that changes    *)
(* nothing and does not appear.                                            *)
(***************************************************************************)
EXTENDS IssueAccessor

CONSTANT Filter     \* the filters users type, "" being the empty one

ASSUME FilterAssumption == "active" \in Filter

VARIABLES
  dlg,              \* the dialog that is open
  filter,           \* CChooseIssuesDlg::filter_
  checkStatus,      \* CChooseIssuesDlg::checkStatus_
  modified,         \* CManageIssuesDlg::modified_
  closing,          \* OnSysCommand waits for OnSave or OnReload
  message           \* the ids of the [FlatTracker] line of the log message

uiVars == <<dlg, filter, checkStatus, modified, closing, message>>
vars   == <<accessorVars, uiVars>>

NoChecks == [id \in {} |-> FALSE]

Init ==
  /\ AccessorInit
  /\ dlg         = [c \in Client |-> "none"]
  /\ filter      = [c \in Client |-> "active"]
  /\ checkStatus = [c \in Client |-> NoChecks]
  /\ modified    = [c \in Client |-> FALSE]
  /\ closing     = [c \in Client |-> FALSE]
  /\ message     = [c \in Client |-> <<>>]

Idle(c, dialog) == dlg[c] = dialog /\ pc[c] = "idle"
Show(c, dialog) == dlg' = [dlg EXCEPT ![c] = dialog]
Returns(c)      == pc'[c] = "idle"

-----------------------------------------------------------------------------
(***************************************************************************)
(* CChooseIssuesDlg::RefreshList: the issues that get a row, and the map   *)
(* with an entry for each of them, which operator[] makes when it reads.   *)
(***************************************************************************)
Occurs(word, text) == \E k \in DOMAIN text : text[k] = word

Matches(issue, word) ==
  \/ word = ""
  \/ Occurs(word, issue.title)
  \/ Occurs(word, issue.owner)
  \/ Occurs(word, issue.status)
  \/ \E k \in DOMAIN issue.labels : Occurs(word, issue.labels[k])

(***************************************************************************)
(* A wrong Rows, to test DialogTypeOK: the numbers of the rows in place of *)
(* the ids.                                                                *)
(***************************************************************************)
RowsByNumber(list, word) ==
  {j - 1 : j \in {k \in DOMAIN list : /\ list[k].status # Deleted
                                     /\ Matches(list[k], word)}}

Rows(list, word) ==
  {list[i].id : i \in {j \in DOMAIN list : /\ list[j].status # Deleted
                                           /\ Matches(list[j], word)}}

Refreshed(checks, list, word) ==
  [id \in DOMAIN checks \cup Rows(list, word) |->
     IF id \in DOMAIN checks THEN checks[id] ELSE FALSE]

RefreshList(c, word) ==
  /\ filter' = [filter EXCEPT ![c] = word]
  /\ checkStatus' = [checkStatus EXCEPT ![c] = Refreshed(@, issueList'[c], word)]

-----------------------------------------------------------------------------
(***************************************************************************)
(* External: TortoiseSVN makes a provider for each commit dialog, and lets *)
(* it go with the dialog; the process may also be killed at any time.      *)
(***************************************************************************)
OpenCommitDialog(c) ==
  /\ Idle(c, "none")
  /\ Show(c, "commit")
  /\ UNCHANGED <<accessorVars, filter, checkStatus, modified, closing, message>>

ForgetDialogs(c) ==
  /\ Show(c, "none")
  /\ filter'      = [filter EXCEPT ![c] = "active"]
  /\ checkStatus' = [checkStatus EXCEPT ![c] = NoChecks]
  /\ modified'    = [modified EXCEPT ![c] = FALSE]
  /\ closing'     = [closing EXCEPT ![c] = FALSE]
  /\ message'     = [message EXCEPT ![c] = <<>>]

CloseCommitDialog(c) ==
  /\ Idle(c, "commit") \/ Idle(c, "finished")
  /\ Forget(c) /\ UNCHANGED wc
  /\ ForgetDialogs(c)

KillProcess(c) ==
  /\ dlg[c] # "none"
  /\ Crash(c)
  /\ ForgetDialogs(c)

(***************************************************************************)
(* CProvider::OnCommitFinished, after the project was committed: revision  *)
(* 1 stands for whatever revision that was.                                *)
(***************************************************************************)
OnCommitFinished(c) ==
  /\ Idle(c, "commit")
  /\ UpdateCheckOut(c, 1)
  /\ Show(c, "finished")
  /\ UNCHANGED <<filter, checkStatus, modified, closing, message>>

UpdateStep(c) == UpdateWrite(c) \/ UpdateCommit(c) \/ UpdateDelete(c)

CommitFinishedStep(c) ==
  /\ dlg[c] = "finished"
  /\ UpdateStep(c)
  /\ UNCHANGED uiVars

-----------------------------------------------------------------------------
(***************************************************************************)
(* CProvider::GetCommitMessage2 opens CChooseIssuesDlg, whose OnInitDialog *)
(* takes the checks of the list it finds in memory and then loads the list *)
(* anew, or makes the file if the user agrees.  It also offers to make the *)
(* file when a listing failed.  If anything fails the dialog is cancelled. *)
(***************************************************************************)
OnInitDialog(c) ==
  /\ Idle(c, "commit")
  /\ \/ CheckIssuesInfo /\ LoadExport(c)
     \/ AddSupportWrite(c)
  /\ IF Returns(c) THEN UNCHANGED <<dlg, checkStatus>>
     ELSE /\ Show(c, "choose")
          /\ checkStatus' =
               [checkStatus EXCEPT ![c] =
                  [id \in Ids(issueList[c]) |-> GetIssuedChecked(idList[c], id)]]
  /\ UNCHANGED <<filter, modified, closing, message>>

EndChoose(c) ==
  /\ Show(c, "commit")
  /\ filter'      = [filter EXCEPT ![c] = "active"]
  /\ checkStatus' = [checkStatus EXCEPT ![c] = NoChecks]
  /\ UNCHANGED <<modified, closing>>

InitDialogStep(c) ==
  /\ dlg[c] = "choose"
  /\ LoadRead(c) \/ AddSupportImport(c)
  /\ IF ret'[c]
     THEN RefreshList(c, filter[c]) /\ UNCHANGED <<dlg, modified, closing>>
     ELSE EndChoose(c)
  /\ UNCHANGED message

(***************************************************************************)
(* OnLvnItemchangedIssueList: the user clicks the check box of a row; if   *)
(* the row is selected, all selected rows follow it.  The value comes from *)
(* the boxes on the screen, which are not part of the state, and can be    *)
(* the one that the map has already.                                       *)
(***************************************************************************)
UpdateIdList(checks, ids, checked) ==
  [id \in DOMAIN checks |-> IF id \in ids THEN checked ELSE checks[id]]

OnCheck(c, ids, checked) ==
  /\ Idle(c, "choose")
  /\ checkStatus' = [checkStatus EXCEPT ![c] = UpdateIdList(@, ids, checked)]
  /\ UNCHANGED <<accessorVars, dlg, filter, modified, closing, message>>

OnFilterChanged(c, word) ==
  /\ Idle(c, "choose")
  /\ UNCHANGED <<accessorVars, dlg, modified, closing, message>>
  /\ RefreshList(c, word)

(***************************************************************************)
(* CProvider::GetCommitMessage2 behind the dialog: an older [FlatTracker]  *)
(* line of the message is cut off, and one with all chosen ids is put in   *)
(* its place if there are any.                                             *)
(***************************************************************************)
GetCommitMessage2(c) == message' = [message EXCEPT ![c] = idList'[c]]

OnOK(c) ==
  /\ Idle(c, "choose")
  /\ SetIssuesChecked(c, checkStatus[c])
  /\ EndChoose(c)
  /\ GetCommitMessage2(c)

(***************************************************************************)
(* A wrong OnCancel, to test OnlyNamedGetResolved: the checks are taken    *)
(* over.                                                                   *)
(***************************************************************************)
OnCancelTakesOver(c) ==
  /\ Idle(c, "choose")
  /\ SetIssuesChecked(c, checkStatus[c])
  /\ EndChoose(c)
  /\ UNCHANGED message

OnCancel(c) ==
  /\ Idle(c, "choose")
  /\ EndChoose(c)
  /\ UNCHANGED <<accessorVars, message>>

OnManage(c) ==
  /\ Idle(c, "choose")
  /\ Show(c, "manage")
  /\ UNCHANGED <<accessorVars, filter, checkStatus, modified, closing, message>>

-----------------------------------------------------------------------------
(***************************************************************************)
(* CManageIssuesDlg::RefreshList: with the right filter the user can bring *)
(* any issue that is not deleted on the screen, and select it.             *)
(***************************************************************************)
Selectable(list) ==
  {list[i].id : i \in {j \in DOMAIN list : list[j].status # Deleted}}

(***************************************************************************)
(* A wrong Edited, to test UnsavedIsMarked: modified_ is not set.          *)
(***************************************************************************)
EditedUnmarked(c) == UNCHANGED uiVars

Edited(c) ==
  /\ modified' = [modified EXCEPT ![c] = TRUE]
  /\ UNCHANGED <<dlg, filter, checkStatus, closing, message>>

OnAddIssue(c, input) ==
  /\ Idle(c, "manage")
  /\ AddNewIssue(c, input)
  /\ Edited(c)

OnEditIssue(c, i, input) ==
  /\ Idle(c, "manage")
  /\ issueList[c][i].id > 0
  /\ issueList[c][i].id \in Selectable(issueList[c])
  /\ UpdateIssue(c, i, input)
  /\ Edited(c)

OnDeleteIssue(c, ids) ==
  /\ Idle(c, "manage")
  /\ ids # {}
  /\ DeleteIssues(c, ids)
  /\ Edited(c)

(***************************************************************************)
(* OnSysCommand ends the dialog, after OnSave or OnReload if there were    *)
(* modifications.  OnSave clears modified_ whatever the call returns,      *)
(* OnReload only if the issues were loaded.                                *)
(***************************************************************************)
EndManage(c) == Show(c, "choose") /\ RefreshList(c, filter[c])

AfterCall(c, ending, clears) ==
  /\ IF Returns(c) /\ ending
     THEN /\ EndManage(c)
          /\ modified' = [modified EXCEPT ![c] = FALSE]
          /\ closing' = [closing EXCEPT ![c] = FALSE]
     ELSE /\ modified' = [modified EXCEPT ![c] = @ /\ ~(Returns(c) /\ clears)]
          /\ closing' = [closing EXCEPT ![c] = ending]
          /\ UNCHANGED <<dlg, filter, checkStatus>>
  /\ UNCHANGED message

OnSave(c, ending) ==
  /\ Idle(c, "manage")
  /\ ending => modified[c]
  /\ UpdateCheckOut(c, 0)
  /\ AfterCall(c, ending, TRUE)

SaveStep(c) ==
  /\ dlg[c] = "manage"
  /\ UpdateStep(c)
  /\ AfterCall(c, closing[c], TRUE)

OnReload(c, ending) ==
  /\ Idle(c, "manage")
  /\ ending => modified[c]
  /\ LoadExport(c)
  /\ AfterCall(c, ending, ret'[c])

ReloadStep(c) ==
  /\ dlg[c] = "manage"
  /\ LoadRead(c)
  /\ AfterCall(c, closing[c], ret'[c])

OnSysCommand(c) ==
  /\ Idle(c, "manage")
  /\ ~modified[c]
  /\ UNCHANGED <<accessorVars, modified, closing, message>>
  /\ EndManage(c)

-----------------------------------------------------------------------------
ProviderStep(c) ==
  \/ OpenCommitDialog(c) \/ CloseCommitDialog(c) \/ KillProcess(c)
  \/ OnCommitFinished(c) \/ CommitFinishedStep(c)

ChooseStep(c) ==
  \/ OnInitDialog(c) \/ InitDialogStep(c)
  \/ \E ids \in SUBSET Rows(issueList[c], filter[c]) : \E checked \in BOOLEAN :
       OnCheck(c, ids, checked)
  \/ \E word \in Filter : OnFilterChanged(c, word)
  \/ OnOK(c) \/ OnCancel(c) \/ OnManage(c)

ManageStep(c) ==
  \/ \E input \in Input :
       \/ OnAddIssue(c, input)
       \/ \E i \in DOMAIN issueList[c] : OnEditIssue(c, i, input)
  \/ \E ids \in SUBSET Selectable(issueList[c]) : OnDeleteIssue(c, ids)
  \/ \E ending \in BOOLEAN : OnReload(c, ending) \/ OnSave(c, ending)
  \/ SaveStep(c) \/ ReloadStep(c) \/ OnSysCommand(c)

Next == \E c \in Client : ProviderStep(c) \/ ChooseStep(c) \/ ManageStep(c)

Spec == Init /\ [][Next]_vars

(***************************************************************************)
(* A handler that has begun runs on to its end unless the process is       *)
(* killed: it waits for nobody but the Subversion server, and those calls  *)
(* return.  Nothing is assumed of the users.                               *)
(***************************************************************************)
HandlerStep(c) ==
  CommitFinishedStep(c) \/ InitDialogStep(c) \/ SaveStep(c) \/ ReloadStep(c)

FairSpec == Spec /\ \A c \in Client : WF_vars(HandlerStep(c))

-----------------------------------------------------------------------------
(***************************************************************************)
(* The types of the dialogs' variables.  The keys of checkStatus_ are in   *)
(* the range of the ids; an issue with that id need not be in the list any *)
(* more (ChosenGetResolved).                                               *)
(***************************************************************************)
DialogTypeOK ==
  /\ dlg \in [Client -> {"none", "commit", "finished", "choose", "manage"}]
  /\ filter \in [Client -> Filter]
  /\ \A c \in Client : \E ids \in SUBSET (1..MaxId) : checkStatus[c] \in [ids -> BOOLEAN]
  /\ modified \in [Client -> BOOLEAN]
  /\ closing \in [Client -> BOOLEAN]
  /\ message \in [Client -> Seq(Int)]

(***************************************************************************)
(* When OnCommitFinished reports no error, a revision of issues.txt has    *)
(* every chosen issue of the client's list as resolved, and every other    *)
(* issue as the client saw it.                                             *)
(***************************************************************************)
SuccessMeansResolved ==
  \A c \in Client :
    Idle(c, "finished") /\ ret[c] /\ idList[c] # <<>> =>
      \E r \in DOMAIN repo : repo[r] = WriteFile(issueList[c], idList[c], 1)

(***************************************************************************)
(* What a reader of a revision finds.                                      *)
(***************************************************************************)
IdsWith(status, lines) ==
  LET list == ReadFile(lines)
  IN  {list[i].id : i \in {j \in DOMAIN list : list[j].status = status}}

(***************************************************************************)
(* A revision is made that is not the first.                               *)
(***************************************************************************)
Revised == repo # <<>> /\ repo' # repo

(***************************************************************************)
(* An issue that is in the repository stays there: every new revision has  *)
(* the issues of the one before it.                                        *)
(***************************************************************************)
NoIssueLost ==
  [][Revised => Ids(ReadFile(Latest)) \subseteq Ids(ReadFile(Latest'))]_repo

(***************************************************************************)
(* If no user sets it back by hand, an issue that was resolved does        *)
(* not become active again.                                                *)
(***************************************************************************)
ResolvedStays ==
  [][Revised => IdsWith(Resolved, Latest) \cap IdsWith(Active, Latest') = {}]_repo

(***************************************************************************)
(* An issue that was deleted, and that no dialog shows any more, comes     *)
(* back only with the commit of a client who had chosen it: not by a save, *)
(* and not by other issues being chosen.                                   *)
(***************************************************************************)
DeletedStays ==
  [][Revised =>
       \A id \in IdsWith(Deleted, Latest) \ IdsWith(Deleted, Latest') :
         \E c \in Client : revnum[c] > 0 /\ GetIssuedChecked(idList[c], id)]_repo

(***************************************************************************)
(* The issues that the [FlatTracker] line of the log message names.        *)
(***************************************************************************)
Named(c) == {message[c][k] : k \in DOMAIN message[c]}

(***************************************************************************)
(* For a user who is alone and sets no issue to resolved by hand: what the *)
(* repository shows as newly resolved was named in the message of the      *)
(* commit that has just finished.  No save, no text of an older call left  *)
(* in the working copy, and no dialog that was opened and cancelled makes  *)
(* any other issue resolved.                                               *)
(***************************************************************************)
OnlyNamedGetResolved ==
  [][Revised =>
       \A id \in IdsWith(Resolved, Latest') \ IdsWith(Resolved, Latest) :
         \E c \in Client : dlg[c] = "finished" /\ id \in Named(c)]_repo

(***************************************************************************)
(* The other way round, for a user who is alone: when OnCommitFinished     *)
(* reports no error, each issue that the message names is resolved in the  *)
(* latest revision, unless no revision has ever had it.  So only an issue  *)
(* that was never saved can be named in vain, however old the choice is    *)
(* and however often the list was loaded, or failed to load, since.        *)
(***************************************************************************)
NamedGetResolved ==
  \A c \in Client :
    Idle(c, "finished") /\ ret[c] =>
      \A id \in Named(c) :
        \/ id \in IdsWith(Resolved, Latest)
        \/ \A r \in DOMAIN repo : id \notin Ids(ReadFile(repo[r]))

(***************************************************************************)
(* A user who is alone never gets a working copy in conflict, which would  *)
(* block every later save: not by calls that fail or whose answer is lost, *)
(* and not by being killed, although the working copy then stays behind    *)
(* with changes.                                                           *)
(***************************************************************************)
NoConflict == \A c \in Client : ~wc[c].conflict

(***************************************************************************)
(* A list that no revision holds is marked by modified_, so that           *)
(* CManageIssuesDlg asks before it closes, unless the last save or reload  *)
(* failed: OnSave and OnSysCommand go on as if it had succeeded.           *)
(***************************************************************************)
UnsavedIsMarked ==
  \A c \in Client :
    (Idle(c, "manage") \/ Idle(c, "choose")) /\ ~modified[c] /\ ret[c] =>
      \E r \in DOMAIN repo : ReadFile(repo[r]) = issueList[c]

(***************************************************************************)
(* When OnCommitFinished reports no error, every issue that the message    *)
(* names is resolved in some revision, also if the list was loaded anew,   *)
(* without the issue, since it was chosen.                                 *)
(***************************************************************************)
ChosenGetResolved ==
  \A c \in Client :
    Idle(c, "finished") /\ ret[c] =>
      \A k \in DOMAIN idList[c] :
        \E r \in DOMAIN repo : idList[c][k] \in IdsWith(Resolved, repo[r])

(***************************************************************************)
(* Every handler gives the dialog back to its user: whatever fails, and    *)
(* whatever the others commit meanwhile, OnInitDialog, OnSave, OnReload    *)
(* and OnCommitFinished return.                                            *)
(***************************************************************************)
HandlersReturn == \A c \in Client : pc[c] # "idle" ~> pc[c] = "idle"
=============================================================================
