----------------------------- MODULE SharedTemp -----------------------------
(***************************************************************************)
(* IssueAccessor in several commit dialogs that share a %TEMP% directory.  *)
(* The names of its files, %TEMP%/issues.txt and %TEMP%\issues, depend     *)
(* neither on the project nor on the dialog, so that a user who works on   *)
(* two projects, or commits twice at the same time, meets in one dialog    *)
(* what another one has left or is about to use.                           *)
(*                                                                         *)
(* A session is a commit dialog of one user for one project.  It loads the *)
(* issues, changes them, and saves until that succeeds or the user closes  *)
(* the dialog.  A text is that of a project's file, with one of a few      *)
(* contents; how issues become text is IssueText's matter.                 *)
(***************************************************************************)
EXTENDS WorkingCopies, FiniteSets

CONSTANTS
  Session,
  Project,      \* each with a repository of its own
  Dir,          \* the %TEMP% directories, one for each user
  ProjectOf,    \* the project of each session
  TempOf,       \* the directory of each session
  Content,      \* what a file can hold besides the name of its project
  AtOnce,       \* how many dialogs a user has open at the same time
  MaxRev        \* bound on the revisions of a project's issues.txt

ASSUME SharedTempAssumption ==
  /\ ProjectOf \in [Session -> Project]
  /\ TempOf \in [Session -> Dir]
  /\ IsFiniteSet(Session)
  /\ AtOnce \in Nat /\ MaxRev \in Nat
  /\ "empty" \in Content

VARIABLES
  repo,         \* for each project, the committed texts of issues.txt
  wc,           \* for each directory, the working copy in it
  url,          \* for each directory, the project its working copy is of, if any
  tmp,          \* for each directory, the text of issues.txt, {} if there is none
  list,         \* for each session, the text its list would be written as
  unsaved,      \* for each session, whether its user wants to save
  pc            \* for each session, where its call is

files == <<repo, wc, url, tmp>>
vars  == <<repo, wc, url, tmp, list, unsaved, pc>>

Text(p, content) == [project |-> p, content |-> content]

Init ==
  /\ repo    = [p \in Project |-> <<Text(p, "empty")>>]
  /\ wc      = [d \in Dir |-> NoCopy]
  /\ url     = [d \in Dir |-> CHOOSE p \in Project : TRUE]
  /\ tmp     = [d \in Dir |-> {}]
  /\ list    = [s \in Session |-> Text(ProjectOf[s], "empty")]
  /\ unsaved = [s \in Session |-> FALSE]
  /\ pc      = [s \in Session |-> "closed"]

Goto(s, from, to) == pc[s] = from /\ pc' = [pc EXCEPT ![s] = to]

(***************************************************************************)
(* A call that fails in the middle leaves all files as they are.           *)
(***************************************************************************)
Fail(s) ==
  /\ \/ Goto(s, "exported", "closed")
     \/ Goto(s, "checkedout", "open")
     \/ Goto(s, "written", "open")
  /\ UNCHANGED <<files, list, unsaved>>

-----------------------------------------------------------------------------
(***************************************************************************)
(* LoadIssues, when CChooseIssuesDlg opens.  If it fails the dialog is     *)
(* cancelled.                                                              *)
(***************************************************************************)
OthersOpen(s) ==
  {t \in Session \ {s} : TempOf[t] = TempOf[s] /\ pc[t] # "closed"}

LoadExport(s) ==
  /\ Cardinality(OthersOpen(s)) < AtOnce
  /\ Goto(s, "closed", "exported")
  /\ LET revs == repo[ProjectOf[s]]
     IN  tmp' = [tmp EXCEPT ![TempOf[s]] = {revs[Len(revs)]}]
  /\ UNCHANGED <<repo, wc, url, list, unsaved>>

LoadRead(s) ==
  /\ Goto(s, "exported", "open")
  /\ \E text \in tmp[TempOf[s]] : list' = [list EXCEPT ![s] = text]
  /\ tmp' = [tmp EXCEPT ![TempOf[s]] = {}]
  /\ UNCHANGED <<repo, wc, url, unsaved>>

(***************************************************************************)
(* The user changes the list in CManageIssuesDlg, and wants to save it.    *)
(***************************************************************************)
Edit(s, content) ==
  /\ pc[s] = "open"
  /\ content # list[s].content
  /\ list' = [list EXCEPT ![s].content = content]
  /\ unsaved' = [unsaved EXCEPT ![s] = TRUE]
  /\ UNCHANGED <<files, pc>>

-----------------------------------------------------------------------------
(***************************************************************************)
(* Wrong forms of UpdateCheckOut, to test SavingEnds and OwnIssuesOnly: a  *)
(* working copy that is there is not updated, or taken for one's own.      *)
(***************************************************************************)
UpdateCheckOutOnce(s) ==
  LET d == TempOf[s]
      p == ProjectOf[s]
  IN  /\ unsaved[s]
      /\ Goto(s, "open", "checkedout")
      /\ wc[d].base = 0
      /\ wc' = [wc EXCEPT ![d] = Fresh(repo[p])]
      /\ url' = [url EXCEPT ![d] = p]
      /\ UNCHANGED <<repo, tmp, list, unsaved>>

UpdateCheckOutAnyUrl(s) ==
  LET d == TempOf[s]
      p == IF wc[d].base = 0 THEN ProjectOf[s] ELSE url[d]
  IN  /\ unsaved[s]
      /\ Goto(s, "open", "checkedout")
      /\ \E copy \in CheckedOut(wc[d], repo[p]) : wc' = [wc EXCEPT ![d] = copy]
      /\ url' = [url EXCEPT ![d] = p]
      /\ UNCHANGED <<repo, tmp, list, unsaved>>

(***************************************************************************)
(* UpdateIssuesTextFile.  A working copy of another URL makes the checkout *)
(* fail, which changes nothing.                                            *)
(***************************************************************************)
UpdateCheckOut(s) ==
  LET d == TempOf[s]
      p == ProjectOf[s]
  IN  /\ unsaved[s]
      /\ Goto(s, "open", "checkedout")
      /\ wc[d].base = 0 \/ url[d] = p
      /\ \E copy \in CheckedOut(wc[d], repo[p]) : wc' = [wc EXCEPT ![d] = copy]
      /\ url' = [url EXCEPT ![d] = p]
      /\ UNCHANGED <<repo, tmp, list, unsaved>>

(***************************************************************************)
(* A wrong UpdateWrite, to test CommittedIsOwnText: a file with changes is *)
(* left as it is.                                                          *)
(***************************************************************************)
UpdateWriteKeeps(s) ==
  LET copy == wc[TempOf[s]]
  IN  /\ Goto(s, "checkedout", "written")
      /\ wc' = IF Unchanged(copy, repo[url[TempOf[s]]])
               THEN [wc EXCEPT ![TempOf[s]].lines = list[s]] ELSE wc
      /\ UNCHANGED <<repo, url, tmp, list, unsaved>>

(***************************************************************************)
(* Without the directory the file cannot be opened.                        *)
(***************************************************************************)
UpdateWrite(s) ==
  /\ Goto(s, "checkedout", "written")
  /\ wc[TempOf[s]].base # 0
  /\ wc' = [wc EXCEPT ![TempOf[s]].lines = list[s]]
  /\ UNCHANGED <<repo, url, tmp, list, unsaved>>

(***************************************************************************)
(* Subversion::Commit is given the path of the file: the working copy says *)
(* which repository it belongs to.  Also here the answer can get lost.     *)
(***************************************************************************)
NewRevision(d) ==
  /\ Committable(wc[d], repo[url[d]])
  /\ Len(repo[url[d]]) < MaxRev
  /\ repo' = [repo EXCEPT ![url[d]] = Append(@, wc[d].lines)]

UpdateCommit(s) ==
  LET d == TempOf[s]
  IN  /\ Goto(s, "written", "committed")
      /\ \/ /\ NewRevision(d)
            /\ wc' = [wc EXCEPT ![d].base = Len(repo[url[d]]) + 1]
         \/ /\ NothingToCommit(wc[d], repo[url[d]])
            /\ UNCHANGED <<repo, wc>>
      /\ UNCHANGED <<url, tmp, list, unsaved>>

CommitAnswerLost(s) ==
  /\ Goto(s, "written", "open")
  /\ NewRevision(TempOf[s])
  /\ UNCHANGED <<wc, url, tmp, list, unsaved>>

UpdateDelete(s) ==
  /\ Goto(s, "committed", "open")
  /\ unsaved' = [unsaved EXCEPT ![s] = FALSE]
  /\ wc' \in {wc, [wc EXCEPT ![TempOf[s]] = NoCopy]}
  /\ UNCHANGED <<repo, url, tmp, list>>

(***************************************************************************)
(* The user closes the dialog, or its process is killed.                   *)
(***************************************************************************)
Close(s) ==
  /\ pc[s] # "closed"
  /\ pc'      = [pc EXCEPT ![s] = "closed"]
  /\ list'    = [list EXCEPT ![s] = Text(ProjectOf[s], "empty")]
  /\ unsaved' = [unsaved EXCEPT ![s] = FALSE]
  /\ UNCHANGED files

-----------------------------------------------------------------------------
Next ==
  \E s \in Session :
    \/ LoadExport(s) \/ LoadRead(s)
    \/ \E content \in Content : Edit(s, content)
    \/ UpdateCheckOut(s) \/ UpdateWrite(s) \/ UpdateCommit(s)
    \/ CommitAnswerLost(s) \/ UpdateDelete(s)
    \/ Fail(s) \/ Close(s)

Spec == Init /\ [][Next]_vars

(***************************************************************************)
(* A user who has changed something saves again and again until it worked  *)
(* or he closes the dialog; and a call that could succeed does not fail    *)
(* for ever.                                                               *)
(***************************************************************************)
RetrySpec ==
  Spec /\ \A s \in Session : /\ SF_vars(UpdateCheckOut(s))
                             /\ SF_vars(UpdateWrite(s))
                             /\ SF_vars(UpdateCommit(s))
                             /\ WF_vars(UpdateDelete(s))
                             /\ WF_vars(Fail(s))

-----------------------------------------------------------------------------
(***************************************************************************)
(* The file of a project holds the issues of this project: what another    *)
(* dialog of the same user exports, checks out or leaves behind for        *)
(* another project never gets into it.                                     *)
(***************************************************************************)
OwnIssuesOnly ==
  \A p \in Project : \A r \in DOMAIN repo[p] : repo[p][r].project = p

(***************************************************************************)
(* Once the commit of UpdateIssuesTextFile has gone through, a revision of *)
(* the session's project holds its list, whatever files other dialogs of   *)
(* the user left.                                                          *)
(***************************************************************************)
CommittedIsOwnText ==
  \A s \in Session :
    pc[s] = "committed" =>
      \E r \in DOMAIN repo[ProjectOf[s]] : repo[ProjectOf[s]][r] = list[s]

(***************************************************************************)
(* Trying again helps: a user who saves until it works gets the list into  *)
(* the repository, unless he gives up or the model runs out of revisions.  *)
(* Nothing that a call of the same project left in %TEMP% stands in the    *)
(* way; a working copy of another project does, for ever.                  *)
(***************************************************************************)
OthersCopy(s) == wc[TempOf[s]].base # 0 /\ url[TempOf[s]] # ProjectOf[s]

SavingEnds ==
  \A s \in Session :
    unsaved[s] ~> \/ ~unsaved[s]
                  \/ OthersCopy(s)
                  \/ Len(repo[ProjectOf[s]]) = MaxRev
=============================================================================
