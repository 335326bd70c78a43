-------------------------- MODULE SharedTempProofs --------------------------
(***************************************************************************)
(* Users who have one dialog open at a time never mix their projects, for  *)
(* any number of users, sessions, projects and directories.                *)
(***************************************************************************)
EXTENDS SharedTemp, FiniteSetTheorems, TLAPS

(***************************************************************************)
(* The inductive invariant.  Dialogs with the same directory are not open  *)
(* at the same time, so that between the steps of a call nobody touches    *)
(* its files: the exported file is that of the session's project, from the *)
(* checkout on the working copy belongs to this project, and once written  *)
(* it holds the session's list.                                            *)
(***************************************************************************)
Txt  == [project: Project, content: Content]
Copy == [base: Nat, lines: Txt \cup {<<>>}, conflict: BOOLEAN]

RepoOK ==
  /\ repo \in [Project -> Seq(Txt)]
  /\ \A p \in Project : repo[p] # <<>>
  /\ OwnIssuesOnly

DirOK(d) ==
  /\ wc[d] \in Copy
  /\ wc[d].base # 0 => url[d] \in Project /\ wc[d].base <= Len(repo[url[d]])

Stage == {"closed", "exported", "open", "checkedout", "written", "committed"}

Committed(s) == \E r \in DOMAIN repo[ProjectOf[s]] : repo[ProjectOf[s]][r] = list[s]

SessionOK(s) ==
  /\ pc[s] \in Stage
  /\ list[s] \in Txt /\ list[s].project = ProjectOf[s]
  /\ pc[s] = "exported" =>
       \A text \in tmp[TempOf[s]] : text \in Txt /\ text.project = ProjectOf[s]
  /\ pc[s] \in {"checkedout", "written"} => url[TempOf[s]] = ProjectOf[s]
  /\ pc[s] = "written" => wc[TempOf[s]].lines = list[s]
  /\ pc[s] = "committed" => Committed(s)

Functions ==
  /\ wc   = [d \in Dir |-> wc[d]]
  /\ url  = [d \in Dir |-> url[d]]
  /\ tmp  = [d \in Dir |-> tmp[d]]
  /\ list = [s \in Session |-> list[s]]
  /\ pc   = [s \in Session |-> pc[s]]

Alone(s) ==
  \A t \in Session \ {s} : TempOf[t] = TempOf[s] => pc[t] = "closed"

Inv ==
  /\ RepoOK
  /\ Functions
  /\ \A d \in Dir : DirOK(d)
  /\ \A s \in Session : SessionOK(s)
  /\ \A s \in Session : pc[s] # "closed" => Alone(s)

-----------------------------------------------------------------------------
(***************************************************************************)
(* A step of a session touches its own directory, and adds at most its own *)
(* list to its own project.                                                *)
(***************************************************************************)
Local(s) ==
  /\ wc'   = [wc EXCEPT ![TempOf[s]] = wc'[TempOf[s]]]
  /\ url'  = [url EXCEPT ![TempOf[s]] = url'[TempOf[s]]]
  /\ tmp'  = [tmp EXCEPT ![TempOf[s]] = tmp'[TempOf[s]]]
  /\ list' = [list EXCEPT ![s] = list'[s]]
  /\ pc'   = [pc EXCEPT ![s] = pc'[s]]

Adds(s) == repo' = [repo EXCEPT ![ProjectOf[s]] = Append(@, list[s])]

(***************************************************************************)
(* Therefore such a step, made while no other dialog of the directory is   *)
(* open, keeps the invariant if it keeps what the invariant says of this   *)
(* session and this directory.                                             *)
(***************************************************************************)
LEMMA StepFact ==
  ASSUME Inv, NEW s \in Session, Alone(s), Local(s), repo' = repo \/ Adds(s),
         DirOK(TempOf[s])', SessionOK(s)'
  PROVE  Inv'
<1> DEFINE dir == TempOf[s]
           prj == ProjectOf[s]
<1>1. dir \in Dir /\ prj \in Project BY SharedTempAssumption
<1>2. /\ RepoOK /\ Functions /\ \A d \in Dir : DirOK(d)
      /\ \A t \in Session : SessionOK(t)
      /\ \A t \in Session : pc[t] # "closed" => Alone(t)
  BY DEF Inv
<1>3. list[s] \in Txt /\ list[s].project = prj BY <1>2 DEF SessionOK
<1>4. /\ repo' \in [Project -> Seq(Txt)]
      /\ \A p \in Project : /\ Len(repo[p]) <= Len(repo'[p])
                            /\ repo'[p] # <<>>
                            /\ \A r \in DOMAIN repo[p] : /\ r \in DOMAIN repo'[p]
                                                         /\ repo'[p][r] = repo[p][r]
      /\ \A p \in Project : \A r \in DOMAIN repo'[p] : repo'[p][r].project = p
  <2>1. CASE repo' = repo BY <1>2, <2>1 DEF RepoOK, OwnIssuesOnly
  <2>2. CASE Adds(s)
    <3>1. repo[prj] \in Seq(Txt) BY <1>1, <1>2 DEF RepoOK
    <3> DEFINE new == Append(repo[prj], list[s])
    <3>2. /\ new \in Seq(Txt) /\ Len(new) = Len(repo[prj]) + 1 /\ new # <<>>
          /\ \A r \in DOMAIN repo[prj] : r \in DOMAIN new /\ new[r] = repo[prj][r]
          /\ \A r \in DOMAIN new : r \in DOMAIN repo[prj] \/ new[r] = list[s]
      BY <1>3, <3>1
    <3>3. repo' = [repo EXCEPT ![prj] = new] BY <2>2 DEF Adds
    <3> HIDE DEF new, prj
    <3>4. repo'[prj] = new /\ \A p \in Project \ {prj} : repo'[p] = repo[p]
      BY <1>1, <1>2, <3>3 DEF RepoOK
    <3>5. repo' \in [Project -> Seq(Txt)] BY <1>2, <3>2, <3>3 DEF RepoOK
    <3>6. \A r \in DOMAIN new : new[r].project = prj
      BY <1>1, <1>2, <1>3, <3>2 DEF RepoOK, OwnIssuesOnly
    <3>7. Len(repo[prj]) <= Len(new) BY <3>1, <3>2
    <3>8. ASSUME NEW p \in Project, p # prj
          PROVE  /\ Len(repo[p]) <= Len(repo[p]) /\ repo[p] # <<>>
                 /\ \A r \in DOMAIN repo[p] : repo[p][r].project = p
      BY <1>2 DEF RepoOK, OwnIssuesOnly
    <3> QED BY <3>2, <3>4, <3>5, <3>6, <3>7, <3>8
  <2> QED BY <2>1, <2>2
<1>5. RepoOK' BY <1>4 DEF RepoOK, OwnIssuesOnly
<1>6. Functions' BY <1>2 DEF Functions, Local
<1>7. ASSUME NEW d \in Dir PROVE DirOK(d)'
  <2>1. CASE d = dir BY <2>1
  <2>2. CASE d # dir
    <3>1. wc'[d] = wc[d] /\ url'[d] = url[d] BY <1>2, <2>2 DEF Local, Functions
    <3>2. DirOK(d) BY <1>2
    <3>3. url[d] \in Project => /\ Len(repo[url[d]]) <= Len(repo'[url[d]])
                                /\ Len(repo[url[d]]) \in Nat /\ Len(repo'[url[d]]) \in Nat
      BY <1>2, <1>4 DEF RepoOK
    <3> QED BY <3>1, <3>2, <3>3 DEF DirOK, Copy
  <2> QED BY <2>1, <2>2
<1>8. ASSUME NEW t \in Session, t # s PROVE SessionOK(t)'
  <2>1. list'[t] = list[t] /\ pc'[t] = pc[t] BY <1>2, <1>8 DEF Local, Functions
  <2>2. SessionOK(t) BY <1>2
  <2>3. ProjectOf[t] \in Project /\ TempOf[t] \in Dir BY SharedTempAssumption
  <2>4. Committed(t) => Committed(t)' BY <1>4, <2>1, <2>3 DEF Committed
  <2>5. CASE TempOf[t] = dir
    <3>1. pc[t] = "closed" BY <1>8, <2>5 DEF Alone
    <3> QED BY <2>1, <2>2, <3>1 DEF SessionOK
  <2>6. CASE TempOf[t] # dir
    <3>1. /\ wc'[TempOf[t]] = wc[TempOf[t]] /\ url'[TempOf[t]] = url[TempOf[t]]
          /\ tmp'[TempOf[t]] = tmp[TempOf[t]]
      BY <1>2, <2>3, <2>6 DEF Local, Functions
    <3> QED BY <2>1, <2>2, <2>4, <3>1 DEF SessionOK
  <2> QED BY <2>5, <2>6
<1>9. ASSUME NEW t \in Session, pc'[t] # "closed" PROVE Alone(t)'
  <2>1. \A u \in Session \ {s} : pc'[u] = pc[u] BY <1>2 DEF Local, Functions
  <2>2. CASE t = s BY <2>1, <2>2 DEF Alone
  <2>3. CASE t # s
    <3>1. pc[t] # "closed" BY <1>9, <2>1, <2>3
    <3>2. Alone(t) /\ TempOf[t] # dir BY <1>2, <2>3, <3>1 DEF Alone
    <3> QED BY <2>1, <3>2 DEF Alone
  <2> QED BY <2>2, <2>3
<1> QED BY <1>5, <1>6, <1>7, <1>8, <1>9 DEF Inv

(***************************************************************************)
(* What a checkout makes of a working copy of the project: a copy of the   *)
(* same project.                                                           *)
(***************************************************************************)
LEMMA CheckedOutFact ==
  ASSUME NEW revs \in Seq(Txt), revs # <<>>, NEW old \in Copy, old.base <= Len(revs),
         NEW new \in CheckedOut(old, revs)
  PROVE  new \in Copy /\ new.base <= Len(revs)
<1>1. Len(revs) \in Nat /\ revs[Len(revs)] \in Txt OBVIOUS
<1> DEFINE kept == [old EXCEPT !.base = Len(revs)]
           marked == [kept EXCEPT !.conflict = TRUE]
<1>2. Fresh(revs) \in Copy /\ Fresh(revs).base = Len(revs) BY <1>1 DEF Fresh, Copy
<1>3. kept \in Copy /\ kept.base = Len(revs) BY <1>1 DEF Copy
<1>4. marked \in Copy /\ marked.base = Len(revs)
  <2> HIDE DEF kept
  <2> QED BY <1>3 DEF Copy
<1>5. new \in {old, Fresh(revs), kept, marked} BY DEF CheckedOut
<1> HIDE DEF kept, marked
<1> QED BY <1>1, <1>2, <1>3, <1>4, <1>5

(***************************************************************************)
(* When a session opens, no other one of the directory is open; afterwards *)
(* the invariant says so.                                                  *)
(***************************************************************************)
LEMMA OpensAlone ==
  ASSUME AtOnce = 1, NEW s \in Session, Cardinality(OthersOpen(s)) < AtOnce
  PROVE  Alone(s)
<1>1. OthersOpen(s) \subseteq Session BY DEF OthersOpen
<1>2. IsFiniteSet(OthersOpen(s)) BY <1>1, SharedTempAssumption, FS_Subset
<1>3. Cardinality(OthersOpen(s)) = 0 BY <1>2, FS_CardinalityType
<1>4. OthersOpen(s) = {} BY <1>2, <1>3, FS_EmptySet
<1> QED BY <1>4 DEF OthersOpen, Alone

(***************************************************************************)
(* A step that changes none of the files, and the text of the list at most *)
(* while the dialog waits for its user.                                    *)
(***************************************************************************)
LEMMA QuietStep ==
  ASSUME Inv, NEW s \in Session, Alone(s), UNCHANGED files,
         pc' = [pc EXCEPT ![s] = pc'[s]], pc'[s] \in {"open", "closed"},
         list' = [list EXCEPT ![s] = list'[s]],
         list'[s] \in Txt, list'[s].project = ProjectOf[s]
  PROVE  Inv'
<1>1. Functions /\ DirOK(TempOf[s]) /\ TempOf[s] \in Dir
  BY SharedTempAssumption DEF Inv
<1>2. Local(s) BY <1>1 DEF Functions, Local, files
<1>3. DirOK(TempOf[s])' BY <1>1 DEF DirOK, files
<1>4. SessionOK(s)' BY DEF SessionOK, Stage
<1>5. repo' = repo BY DEF files
<1> QED BY <1>2, <1>3, <1>4, <1>5, StepFact

-----------------------------------------------------------------------------
(***************************************************************************)
(* LoadIssues.                                                             *)
(***************************************************************************)
LEMMA LoadExportStep ==
  ASSUME Inv, AtOnce = 1, NEW s \in Session, LoadExport(s)
  PROVE  Inv'
<1> DEFINE dir == TempOf[s]
           revs == repo[ProjectOf[s]]
<1>1. RepoOK /\ Functions /\ DirOK(dir) /\ SessionOK(s) /\ dir \in Dir
  BY SharedTempAssumption DEF Inv
<1>2. ProjectOf[s] \in Project BY SharedTempAssumption
<1>3. revs \in Seq(Txt) /\ revs # <<>> BY <1>1, <1>2 DEF RepoOK
<1>4. Len(revs) \in DOMAIN revs /\ revs[Len(revs)] \in Txt BY <1>3
<1>5. revs[Len(revs)].project = ProjectOf[s]
  BY <1>1, <1>2, <1>4 DEF RepoOK, OwnIssuesOnly
<1>6. Alone(s) BY OpensAlone DEF LoadExport
<1>7. tmp' = [tmp EXCEPT ![dir] = {revs[Len(revs)]}] BY DEF LoadExport
<1>8. tmp'[dir] = {revs[Len(revs)]} /\ pc'[s] = "exported"
  BY <1>1, <1>7 DEF LoadExport, Goto, Functions
<1>9. Local(s) /\ repo' = repo BY <1>1, <1>7 DEF LoadExport, Goto, Functions, Local
<1>10. DirOK(dir)' BY <1>1 DEF LoadExport, DirOK
<1>11. SessionOK(s)'
  BY <1>1, <1>4, <1>5, <1>8 DEF LoadExport, SessionOK, Stage
<1> QED BY <1>6, <1>9, <1>10, <1>11, StepFact

(***************************************************************************)
(* The file is still that of the session's own project.                    *)
(***************************************************************************)
LEMMA LoadReadStep ==
  ASSUME Inv, NEW s \in Session, LoadRead(s)
  PROVE  Inv'
<1> DEFINE dir == TempOf[s]
<1>1. RepoOK /\ Functions /\ DirOK(dir) /\ SessionOK(s) /\ dir \in Dir
  BY SharedTempAssumption DEF Inv
<1>2. pc[s] = "exported" /\ pc'[s] = "open" BY <1>1 DEF LoadRead, Goto, Functions
<1>3. Alone(s) BY <1>2 DEF Inv
<1>4. PICK text \in tmp[dir] : list' = [list EXCEPT ![s] = text] BY DEF LoadRead
<1>5. list'[s] \in Txt /\ list'[s].project = ProjectOf[s]
  BY <1>1, <1>2, <1>4 DEF SessionOK, Functions
<1>6. Local(s) /\ repo' = repo BY <1>1, <1>4 DEF LoadRead, Goto, Functions, Local
<1>7. DirOK(dir)' BY <1>1 DEF LoadRead, DirOK
<1>8. SessionOK(s)' BY <1>2, <1>5 DEF SessionOK, Stage
<1> QED BY <1>3, <1>6, <1>7, <1>8, StepFact

(***************************************************************************)
(* The user edits, a call fails, or the dialog is closed.                  *)
(***************************************************************************)
LEMMA EditStep ==
  ASSUME Inv, NEW s \in Session, NEW content \in Content, Edit(s, content)
  PROVE  Inv'
<1>1. Functions /\ SessionOK(s) /\ Alone(s) BY DEF Inv, Edit
<1> DEFINE new == [list[s] EXCEPT !.content = content]
<1>2. new \in Txt /\ new.project = ProjectOf[s] BY <1>1 DEF SessionOK, Txt
<1>3. list' = [list EXCEPT ![s] = new] BY DEF Edit
<1> HIDE DEF new
<1>4. list'[s] = new /\ pc'[s] = "open" BY <1>1, <1>3 DEF Functions, Edit
<1>5. pc' = [pc EXCEPT ![s] = pc'[s]] /\ UNCHANGED files BY <1>1 DEF Functions, Edit
<1> QED BY <1>1, <1>2, <1>3, <1>4, <1>5, QuietStep

(***************************************************************************)
(* A call that fails leaves the list as it is.                             *)
(***************************************************************************)
LEMMA FailStep ==
  ASSUME Inv, NEW s \in Session, Fail(s)
  PROVE  Inv'
<1>1. Functions /\ SessionOK(s) BY DEF Inv
<1>2. pc[s] # "closed" /\ pc' = [pc EXCEPT ![s] = pc'[s]] /\ pc'[s] \in {"open", "closed"}
  BY <1>1 DEF Fail, Goto, Functions
<1>3. Alone(s) BY <1>2 DEF Inv
<1>4. list' = [list EXCEPT ![s] = list'[s]] /\ list'[s] = list[s] /\ UNCHANGED files
  BY <1>1 DEF Fail, Functions
<1> QED BY <1>1, <1>2, <1>3, <1>4, QuietStep DEF SessionOK

(***************************************************************************)
(* The end of a dialog, at any moment.                                     *)
(***************************************************************************)
LEMMA CloseStep ==
  ASSUME Inv, NEW s \in Session, Close(s)
  PROVE  Inv'
<1>1. Functions /\ Alone(s) BY DEF Inv, Close
<1> DEFINE new == Text(ProjectOf[s], "empty")
<1>2. new \in Txt /\ new.project = ProjectOf[s] BY SharedTempAssumption DEF Text, Txt
<1> HIDE DEF new
<1>3. /\ list' = [list EXCEPT ![s] = new] /\ list'[s] = new
      /\ pc' = [pc EXCEPT ![s] = pc'[s]] /\ pc'[s] = "closed" /\ UNCHANGED files
  BY <1>1 DEF Functions, Close, new
<1> QED BY <1>1, <1>2, <1>3, QuietStep

-----------------------------------------------------------------------------
(***************************************************************************)
(* UpdateIssuesTextFile.  From the checkout on the working copy belongs to *)
(* the session's project.                                                  *)
(***************************************************************************)
LEMMA UpdateCheckOutStep ==
  ASSUME Inv, NEW s \in Session, UpdateCheckOut(s)
  PROVE  Inv'
<1> DEFINE dir == TempOf[s]
           prj == ProjectOf[s]
<1>1. RepoOK /\ Functions /\ DirOK(dir) /\ SessionOK(s) /\ dir \in Dir /\ prj \in Project
  BY SharedTempAssumption DEF Inv
<1>2. pc[s] = "open" /\ pc'[s] = "checkedout"
  BY <1>1 DEF UpdateCheckOut, Goto, Functions
<1>3. Alone(s) BY <1>2 DEF Inv
<1>4. repo[prj] \in Seq(Txt) /\ repo[prj] # <<>> BY <1>1 DEF RepoOK
<1>5. wc[dir] \in Copy /\ wc[dir].base <= Len(repo[prj])
  <2>1. wc[dir].base = 0 \/ url[dir] = prj BY DEF UpdateCheckOut
  <2>2. 0 <= Len(repo[prj]) BY <1>4
  <2> QED BY <1>1, <2>1, <2>2 DEF DirOK
<1>6. PICK new \in CheckedOut(wc[dir], repo[prj]) : wc' = [wc EXCEPT ![dir] = new]
  BY DEF UpdateCheckOut
<1>7. new \in Copy /\ new.base <= Len(repo[prj]) BY <1>4, <1>5, <1>6, CheckedOutFact
<1>8. /\ wc'[dir] = new /\ url'[dir] = prj /\ repo' = repo
      /\ url' = [url EXCEPT ![dir] = prj] /\ list' = list /\ tmp' = tmp
  BY <1>1, <1>6 DEF UpdateCheckOut, Functions
<1>9. Local(s) BY <1>1, <1>6, <1>8 DEF UpdateCheckOut, Goto, Functions, Local
<1>10. DirOK(dir)' BY <1>1, <1>7, <1>8 DEF DirOK
<1>11. SessionOK(s)' BY <1>1, <1>2, <1>8 DEF SessionOK, Stage
<1> QED BY <1>3, <1>8, <1>9, <1>10, <1>11, StepFact

(***************************************************************************)
(* The list gets into the working copy.                                    *)
(***************************************************************************)
LEMMA UpdateWriteStep ==
  ASSUME Inv, NEW s \in Session, UpdateWrite(s)
  PROVE  Inv'
<1> DEFINE dir == TempOf[s]
           new == [wc[dir] EXCEPT !.lines = list[s]]
<1>1. Functions /\ DirOK(dir) /\ SessionOK(s) /\ dir \in Dir
  BY SharedTempAssumption DEF Inv
<1>2. pc[s] = "checkedout" /\ pc'[s] = "written"
  BY <1>1 DEF UpdateWrite, Goto, Functions
<1>3. Alone(s) BY <1>2 DEF Inv
<1>4. new \in Copy /\ new.base = wc[dir].base /\ new.lines = list[s]
  BY <1>1 DEF DirOK, SessionOK, Copy
<1>5. wc' = [wc EXCEPT ![dir] = new] BY DEF UpdateWrite
<1> HIDE DEF new
<1>6. /\ wc'[dir] = new /\ repo' = repo /\ url' = url /\ tmp' = tmp /\ list' = list
  BY <1>1, <1>5 DEF UpdateWrite, Functions
<1>7. Local(s) BY <1>1, <1>5, <1>6 DEF UpdateWrite, Goto, Functions, Local
<1>8. DirOK(dir)' BY <1>1, <1>4, <1>6 DEF DirOK
<1>9. SessionOK(s)' BY <1>1, <1>2, <1>4, <1>6 DEF SessionOK, Stage
<1> QED BY <1>3, <1>6, <1>7, <1>8, <1>9, StepFact

(***************************************************************************)
(* A commit goes to the session's project and takes the session's list.    *)
(***************************************************************************)
LEMMA NewRevisionFact ==
  ASSUME Inv, NEW s \in Session, pc[s] = "written", NewRevision(TempOf[s])
  PROVE  /\ Adds(s)
         /\ repo'[ProjectOf[s]] = Append(repo[ProjectOf[s]], list[s])
         /\ Len(repo'[ProjectOf[s]]) = Len(repo[ProjectOf[s]]) + 1
         /\ Len(repo[ProjectOf[s]]) \in Nat
         /\ Committed(s) \/ \E r \in DOMAIN repo'[ProjectOf[s]] :
                               repo'[ProjectOf[s]][r] = list[s]
<1> DEFINE prj == ProjectOf[s]
<1>1. RepoOK /\ SessionOK(s) /\ prj \in Project BY SharedTempAssumption DEF Inv
<1>2. url[TempOf[s]] = prj /\ wc[TempOf[s]].lines = list[s] /\ list[s] \in Txt
  BY <1>1 DEF SessionOK
<1>3. Adds(s) BY <1>2 DEF NewRevision, Adds
<1>4. repo[prj] \in Seq(Txt) BY <1>1 DEF RepoOK
<1>5. repo'[prj] = Append(repo[prj], list[s]) BY <1>1, <1>3 DEF Adds, RepoOK
<1>6. /\ Len(repo'[prj]) = Len(repo[prj]) + 1
      /\ Len(repo[prj]) + 1 \in DOMAIN repo'[prj]
      /\ repo'[prj][Len(repo[prj]) + 1] = list[s]
  BY <1>2, <1>4, <1>5
<1> QED BY <1>3, <1>4, <1>5, <1>6

(***************************************************************************)
(* Subversion::Commit, with its answer or without.                         *)
(***************************************************************************)
LEMMA UpdateCommitStep ==
  ASSUME Inv, NEW s \in Session, UpdateCommit(s) \/ CommitAnswerLost(s)
  PROVE  Inv'
<1> DEFINE dir == TempOf[s]
           prj == ProjectOf[s]
           new == [wc[dir] EXCEPT !.base = Len(repo[prj]) + 1]
<1>1. RepoOK /\ Functions /\ DirOK(dir) /\ SessionOK(s) /\ dir \in Dir /\ prj \in Project
  BY SharedTempAssumption DEF Inv
<1>2. pc[s] = "written" /\ pc' = [pc EXCEPT ![s] = pc'[s]]
  BY <1>1 DEF UpdateCommit, CommitAnswerLost, Goto, Functions
<1>3. Alone(s) BY <1>2 DEF Inv
<1>4. url[dir] = prj /\ wc[dir].lines = list[s] BY <1>1, <1>2 DEF SessionOK
<1>5. url' = url /\ tmp' = tmp /\ list' = list BY DEF UpdateCommit, CommitAnswerLost
<1>6. CASE /\ NewRevision(dir) /\ wc' = [wc EXCEPT ![dir].base = Len(repo[url[dir]]) + 1]
           /\ pc'[s] = "committed"
  <2>1. Len(repo[prj]) \in Nat BY <1>1 DEF RepoOK
  <2>2. new \in Copy /\ new.base = Len(repo[prj]) + 1 BY <1>1, <2>1 DEF DirOK, Copy
  <2>3. wc' = [wc EXCEPT ![dir] = new] BY <1>4, <1>6
  <2> HIDE DEF new
  <2>4. wc'[dir] = new BY <1>1, <2>3 DEF Functions
  <2>5. Local(s) BY <1>1, <1>2, <1>5, <2>3, <2>4 DEF Functions, Local
  <2>6. DirOK(dir)'
    BY <1>1, <1>2, <1>4, <1>5, <1>6, <2>1, <2>2, <2>4, NewRevisionFact DEF DirOK
  <2>7. Committed(s)'
    <3>1. Committed(s) => \E r \in DOMAIN repo'[prj] : repo'[prj][r] = list[s]
      <4>1. repo[prj] \in Seq(Txt) /\ list[s] \in Txt BY <1>1 DEF RepoOK, SessionOK
      <4>2. repo'[prj] = Append(repo[prj], list[s]) BY <1>2, <1>6, NewRevisionFact
      <4> QED BY <4>1, <4>2 DEF Committed
    <3> QED BY <1>2, <1>5, <1>6, <3>1, NewRevisionFact DEF Committed
  <2>8. SessionOK(s)' BY <1>1, <1>5, <1>6, <2>7 DEF SessionOK, Stage
  <2> QED BY <1>2, <1>3, <1>6, <2>5, <2>6, <2>8, NewRevisionFact, StepFact
<1>7. CASE NothingToCommit(wc[dir], repo[url[dir]]) /\ UNCHANGED <<repo, wc>>
           /\ pc'[s] = "committed"
  <2>1. Local(s) BY <1>1, <1>2, <1>5, <1>7 DEF Functions, Local
  <2>2. DirOK(dir)' BY <1>1, <1>5, <1>7 DEF DirOK
  <2>3. wc[dir].base \in DOMAIN repo[prj]
    <3>1. wc[dir].base \in Nat /\ wc[dir].base # 0 /\ wc[dir].base <= Len(repo[prj])
      BY <1>1, <1>4, <1>7 DEF DirOK, Copy, NothingToCommit
    <3>2. repo[prj] \in Seq(Txt) BY <1>1 DEF RepoOK
    <3> QED BY <3>1, <3>2
  <2>4. repo[prj][wc[dir].base] = list[s]
    BY <1>4, <1>7 DEF NothingToCommit, Unchanged
  <2>5. Committed(s)' BY <1>5, <1>7, <2>3, <2>4 DEF Committed
  <2>6. SessionOK(s)' BY <1>1, <1>5, <1>7, <2>5 DEF SessionOK, Stage
  <2> QED BY <1>3, <1>7, <2>1, <2>2, <2>6, StepFact
<1>8. CASE NewRevision(dir) /\ wc' = wc /\ pc'[s] = "open"
  <2>1. Local(s) BY <1>1, <1>2, <1>5, <1>8 DEF Functions, Local
  <2>2. DirOK(dir)'
    <3>1. wc[dir].base \in Nat BY <1>1 DEF DirOK, Copy
    <3> QED BY <1>1, <1>2, <1>4, <1>5, <1>8, <3>1, NewRevisionFact DEF DirOK
  <2>3. SessionOK(s)' BY <1>1, <1>5, <1>8 DEF SessionOK, Stage
  <2> QED BY <1>2, <1>3, <1>8, <2>1, <2>2, <2>3, NewRevisionFact, StepFact
<1> QED BY <1>1, <1>6, <1>7, <1>8 DEF UpdateCommit, CommitAnswerLost, Goto, Functions

(***************************************************************************)
(* The working copy goes away or stays.                                    *)
(***************************************************************************)
LEMMA UpdateDeleteStep ==
  ASSUME Inv, NEW s \in Session, UpdateDelete(s)
  PROVE  Inv'
<1> DEFINE dir == TempOf[s]
<1>1. Functions /\ DirOK(dir) /\ SessionOK(s) /\ dir \in Dir
  BY SharedTempAssumption DEF Inv
<1>2. pc[s] = "committed" /\ pc'[s] = "open"
  BY <1>1 DEF UpdateDelete, Goto, Functions
<1>3. Alone(s) BY <1>2 DEF Inv
<1>4. NoCopy \in Copy /\ NoCopy.base = 0 BY DEF NoCopy, Copy
<1>5. /\ wc'[dir] \in {wc[dir], NoCopy} /\ wc' = [wc EXCEPT ![dir] = wc'[dir]]
      /\ repo' = repo /\ url' = url /\ tmp' = tmp /\ list' = list
  BY <1>1 DEF UpdateDelete, Functions
<1>6. Local(s) BY <1>1, <1>5 DEF UpdateDelete, Goto, Functions, Local
<1>7. DirOK(dir)' BY <1>1, <1>4, <1>5 DEF DirOK
<1>8. SessionOK(s)' BY <1>1, <1>2, <1>5 DEF SessionOK, Stage
<1> QED BY <1>3, <1>5, <1>6, <1>7, <1>8, StepFact

-----------------------------------------------------------------------------
(***************************************************************************)
(* The invariant holds in the beginning, and forever if a user never has   *)
(* two dialogs open.                                                       *)
(***************************************************************************)
LEMMA InitInv == Init => Inv
<1> SUFFICES ASSUME Init PROVE Inv OBVIOUS
<1>1. \A p \in Project : Text(p, "empty") \in Txt /\ Text(p, "empty").project = p
  BY SharedTempAssumption DEF Text, Txt
<1>2. RepoOK
  <2>1. \A p \in Project : repo[p] = <<Text(p, "empty")>> BY DEF Init
  <2>2. repo \in [Project -> Seq(Txt)] BY <1>1 DEF Init
  <2>3. \A p \in Project : DOMAIN repo[p] = {1} /\ repo[p] # <<>> BY <2>1
  <2> QED BY <1>1, <2>1, <2>2, <2>3 DEF RepoOK, OwnIssuesOnly
<1>3. Functions BY DEF Init, Functions
<1>4. \A d \in Dir : DirOK(d) BY DEF Init, DirOK, NoCopy, Copy
<1>5. \A s \in Session : pc[s] = "closed" BY DEF Init
<1>6. ASSUME NEW s \in Session PROVE SessionOK(s)
  <2>1. ProjectOf[s] \in Project BY SharedTempAssumption
  <2>2. list[s] = Text(ProjectOf[s], "empty") BY DEF Init
  <2> QED BY <1>1, <1>5, <2>1, <2>2 DEF SessionOK, Stage
<1> QED BY <1>2, <1>3, <1>4, <1>5, <1>6 DEF Inv

(***************************************************************************)
(* The invariant is inductive.                                             *)
(***************************************************************************)
LEMMA NextInv ==
  ASSUME AtOnce = 1
  PROVE  Inv /\ [Next]_vars => Inv'
<1> SUFFICES ASSUME Inv, [Next]_vars PROVE Inv' OBVIOUS
<1>1. CASE Next
  BY <1>1, LoadExportStep, LoadReadStep, EditStep, UpdateCheckOutStep, UpdateWriteStep,
     UpdateCommitStep, UpdateDeleteStep, FailStep, CloseStep DEF Next
<1>2. CASE UNCHANGED vars
  BY <1>2 DEF vars, Inv, RepoOK, OwnIssuesOnly, Functions, DirOK, SessionOK, Committed, Alone
<1> QED BY <1>1, <1>2

(***************************************************************************)
(* A user who has one dialog open at a time never gets issues of another   *)
(* project into a project, whatever calls fail and whatever they leave in  *)
(* %TEMP%.                                                                 *)
(***************************************************************************)
THEOREM ProjectsStayApart ==
  ASSUME AtOnce = 1
  PROVE  Spec => []OwnIssuesOnly
<1>1. Inv => OwnIssuesOnly BY DEF Inv, RepoOK
<1>2. Inv /\ [Next]_vars => Inv' BY NextInv
<1> QED BY <1>1, <1>2, InitInv, PTL DEF Spec

(***************************************************************************)
(* And a save that went through has put the session's list in a revision   *)
(* of its project.                                                         *)
(***************************************************************************)
THEOREM CommitsOwnText ==
  ASSUME AtOnce = 1
  PROVE  Spec => []CommittedIsOwnText
<1>1. Inv => CommittedIsOwnText BY DEF Inv, SessionOK, Committed, CommittedIsOwnText
<1>2. Inv /\ [Next]_vars => Inv' BY NextInv
<1> QED BY <1>1, <1>2, InitInv, PTL DEF Spec
=============================================================================
