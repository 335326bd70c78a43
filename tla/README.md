# Flat-Tracker: a TLA+ model, its checks and its proofs

Flat-Tracker is a plug-in for the commit dialog of TortoiseSVN. It keeps a
project's issues in one text file, `issues/issues.txt`, in the project's own
Subversion repository. There is no server of its own and no lock: users read
and write the file with ordinary export, checkout and commit calls, and the
question behind this project is what that does to the issues when calls fail,
answers get lost, processes die, and several users work at once.

## 1. Inventory

All code of the program is under `src/Source/FlatTracker` (under 3000 lines).
`src/Supports`, which has nearly all lines of the repository, is vendored
(openssl, sqlite, zlib): no logic of the tracker.

| Part | State | Operations |
|---|---|---|
| `IssueItem`, `IssueList` (`Issues.cpp`) | id, status, owner, labels, title; a vector of issues | construct from one text of labels, join labels, `Append`, `Update`, `Delete`, `GetMaxId` |
| `issues.txt` (in `IssueAccessor.cpp`) | one line per issue, fields between commas, labels between bars | written by `UpdateIssuesTextFile`, read by `LoadIssues` |
| `Subversion` (`Subversion.cpp`) | APR pool, client context | `Initialize`, `Uninitialize`, `GetRootUrl`, `ListFiles`, `ExportFile`, `ImportFile`, `CheckOut`, `Commit`, `Info` |
| `IssueAccessor` | `issueList_`, `idList_`; `%TEMP%/issues.txt` and the working copy `%TEMP%\issues` | `CheckIssuesInfo`, `AddIssuesSupport`, `LoadIssues`, `UpdateIssuesTextFile`, `AddNewIssue`, `UpdateIssue`, `DeleteIssue`, `SetIssueChecked` |
| `CProvider` | the accessor | `GetCommitMessage2`, `OnCommitFinished` |
| `CChooseIssuesDlg` | `filter_`, `checkStatus_`, rows, `initializing_` | `OnInitDialog`, check boxes, filter, Manage, OK, Cancel |
| `CManageIssuesDlg` | `filter_`, `modified_`, selection | Add, Edit, Delete, Save, Reload, close |
| `CIssueDlg` | the fields of one issue | edit, add and delete labels, OK |
| COM registration, resources, support libraries | – | not modelled |

How they interact. TortoiseSVN creates a `CProvider` for a commit dialog. The
button in that dialog calls `GetCommitMessage2`, which opens `CChooseIssuesDlg`:
it looks whether the file exists, offers to make it, loads it, and lets the
user check issues; OK puts their ids in `idList_` and in a `[FlatTracker]` line
of the log message. From it, `CManageIssuesDlg` edits the list in memory and
saves it. After the commit TortoiseSVN calls `OnCommitFinished`, which checks
out the file, writes the list with the chosen issues as `resolved` over it,
commits, and deletes the working copy. Everything within one client is
synchronous and modal; concurrency is between users, through the repository,
and over time, through what a failed or killed call leaves in `%TEMP%`.

What is hard, and what should hold:

* **Stale lists.** The list is loaded when the dialog opens, and written over
  the newest revision later. Wanted: no issue and no status of anybody gets
  lost (`NoIssueLost`, `ResolvedStays`). It holds for one user and not for two.
* **Races of commits.** Two users between checkout and commit. Wanted: who
  reports success has really committed (`SuccessMeansResolved`,
  `CommittedIsOwnList`).
* **Left-over working copies.** After a failure, a lost answer or a kill the
  next checkout updates the old working copy. Wanted: its old text is never
  committed (`CommittedIsOwnList`) and it does not end in a conflict
  (`NoConflict`).
* **Ids.** They are numbered from the list in memory by every client on its
  own. Wanted: no id twice in a list (`IncreasingIds`).
* **Two memories of one choice.** `idList_`, `checkStatus_` and the log message
  are filled at different times. Wanted: what is announced is what is resolved
  (`OnlyNamedGetResolved`, `NamedGetResolved`). Of an issue that was never saved
  this does not hold (`ChosenGetResolved`).
* **The text format.** Fields are cut at separators nobody escapes. Wanted:
  exactly the issues the format can hold survive (`RoundTripExact`).
* **One `%TEMP%` for everything.** The exported file and the working copy have
  the same names for every project and every dialog of a user. Wanted: no
  project gets the issues of another (`OwnIssuesOnly`, `CommittedIsOwnText`),
  and what is left there does not block later saves (`SavingEnds`).
* **Results nobody looks at.** The dialog goes on after a save or reload that
  failed. Wanted: a list that is not in the repository is marked as such
  (`UnsavedIsMarked`); it holds but for such a failure.
* **A list view that sends messages while it is filled.** Wanted: nothing is
  chosen behind the user's back (`OnlyClicksChoose`) and the boxes show the
  choice (`ScreenStaysChoice`); it holds but for two selected rows.
* **A client that is initialized in parts, again and again.** Wanted: every
  call finds what it needs (`CallsHaveClient`), the login included
  (`NoLoginOnlyAfterFailure`); it holds but for one failure.
* **Liveness.** Each handler returns, whatever fails (`HandlersReturn`), and
  trying again helps (`SavingEnds`).

`PROJECT.json` lists these as hazards, each at its line.

## 2. Modules

```
Issues ── IssueText ─┬─ Subversion ─┐
   │  WorkingCopies ─┘              ├─ IssueAccessor ── FlatTracker
   └───── IssueDlg ─────────────────┘        : implements
                                        IssueStore
WorkingCopies ── SharedTemp          IssueText, IssueDlg ── RoundTrip
IssueListView                        SvnClient

Induction ── IssueTextProofs ─┬─ IssueAccessorProofs ── FlatTrackerProofs
           │                  └─ RoundTripProofs
           └─ IssueListViewProofs
SharedTempProofs, SvnClientProofs: theorems about SharedTemp, SvnClient
MCIssueAccessor, MCFlatTracker, MCRoundTrip, MCSharedTemp, MCIssueListView:
instances for TLC
```

| Module | Models | How |
|---|---|---|
| `Issues` | `Issues.cpp`, `AddNewIssue` | A text is a sequence of tokens: words, comma, bar. `split` is the `getline` loop with its habit of dropping a last empty piece; the labels are cut at bars by `IssueItem` and joined with commas by `GetLabelsInSingleString`. |
| `IssueText` | the writing half of `UpdateIssuesTextFile`, the reading half of `LoadIssues` | A file is a sequence of lines, a line is the id and the text behind the first comma. `WriteFile` and `ReadFile` are the two conversions. |
| `IssueDlg` | `CIssueDlg` | A modal dialog is a function from the issue it shows and what the user leaves in its fields to the issue it returns. |
| `Subversion` | `Subversion.cpp` and the library behind it | `repo` is the sequence of committed contents. For each client `wc` is the working copy (revision, contents, conflict mark) and `tmp` the exported file. |
| `IssueAccessor` | `IssueAccessor.cpp` | One step for each Subversion call or file of a call; `pc` is the place in the running call, `ret` its result. Its environment makes any calls in any order. |
| `FlatTracker` | `Provider.cpp`, `ChooseIssuesDlg.cpp`, `ManageIssuesDlg.cpp` | The handlers, each with all it does before the next blocking call; `dlg` is the dialog on top, `closing` tells that `OnSysCommand` waits for its save or reload. |
| `WorkingCopies` | the Subversion library (external) | What checkout and commit make of a working copy and a sequence of revisions; used by `Subversion` and `SharedTemp`. |
| `IssueStore` | what the accessor promises | Abstract: a history of revisions, and clients who fetch the latest one, edit a list of their own, and publish it as a whole. |
| `SharedTemp` | the calls of `IssueAccessor.cpp` again, in several sessions | A session is a commit dialog of a user for a project; sessions of one user share the exported file and the working copy, which knows the URL it is of. A list is one token with the name of its project. |
| `IssueListView` | `RefreshList`, `OnLvnItemchangedIssueList`, `UpdateIdList` of `ChooseIssuesDlg.cpp` | The rows with id, box and selection, and `checkStatus_`. The messages a box sends are part of the step that sets it. `RefreshList` is its loop over the issues, `ShowIssue` one pass of it. |
| `SvnClient` | `Initialize`, `Uninitialize` of `Subversion.cpp`, `IssueAccessor::Initialize` | The parts of a client that are made, for the providers of a process, and how often APR is initialized. |
| `RoundTrip` | the conversions alone | One list that is edited, saved and loaded with arbitrary text in its fields. |

There are three levels. `IssueAccessor` implements `IssueStore` (`StoreSpec`):
under the mapping that takes `repo` for the history, and the exported file for
a fetched revision between export and read, each step of a call is a step of
the store or none at all. So no left-over working copy, half-written file,
merged text or second import ever becomes a revision. What the store does
*not* promise is that a client has seen the revision its own one follows; that
is where issues of others get lost. `IssueAccessor` with its free environment
is in turn more general than `FlatTracker`, whose actions are calls of the
accessor together with what they do to the dialogs. That the dialogs stay
within it holds by that shape, but for the range of the ids, so that it is no
checked property: the theorem `DialogsUseAccessor` states it only to carry the
refinement of `IssueStore` over to the whole plug-in.

### Decisions a reader should know

* A **client** of `IssueAccessor` and `FlatTracker` is a user with an own
  `%TEMP%` and at most one commit dialog; `SharedTemp` is about the others.
  Revisions that do not touch `issues.txt` do not appear, and the revision
  passed to `OnCommitFinished` is 1, as only `> 0` is tested.
* **Any** call of the Subversion library and any opening of a file may **fail**
  (`Fail`); a commit or import may also succeed while its answer is lost. A
  client may be **killed** at every step, and in the middle of writing the
  working copy, which leaves a prefix of the lines. `SHFileOperation` may fail
  unnoticed, so the working copy may stay even after success.
* **Checkout over an old working copy** updates it as Subversion does
  (`CheckedOut`): unchanged copies become fresh, conflicts stay, local changes
  are kept, merged or end in a conflict. A merged text is represented by one of
  its two sides, because the code writes over it before anything reads it.
* A **forgotten `%TEMP%/issues.txt`** is as good as none: each call that reads
  it has written it before.
* **Words are tokens**, so the substring search of the filters is a search for
  a word.
* The radio buttons left alone are the **status `<<>>`** in an input.
* The **boxes on the screen** of `CChooseIssuesDlg` are the matter of
  `IssueListView`; in `FlatTracker` a click sets any subset of the rows to
  either value, which covers all that the handler for item changes can do to
  `checkStatus_`. The first `RefreshList` of `OnInitDialog`, before any load,
  adds no entry to the map and is left out.
* In `IssueListView` a box that is set sends its message at once; if its row
  is selected the handler sets the boxes of all selected rows, whose messages
  change nothing more. Which issues have a row is any subset, as filter and
  `CManageIssuesDlg` leave them.
* In `SharedTemp` a checkout into a **working copy of another URL** fails, and
  a commit goes to the repository the working copy is of. The file exported by
  one session may be read, or deleted, by another. It leaves out what
  `IssueAccessor` has already: reload, the first import, kills in the middle of
  a write.
* In `SvnClient`, `config` and `auth_baton` are one part: between them nothing
  can fail. `apr_pool_initialize` counts its calls, as APR does. A second
  provider in the process is one TortoiseSVN makes for another dialog or for
  its settings.
* **The filter and the selection of `CManageIssuesDlg`** are any choice of the
  issues that are not deleted.
* An answer to a message box that leads nowhere is a stuttering step.
* The provider is released only between calls (COM), or with its process.

## 3. Runs

Passing runs:

| Run | Instance | Shows |
|---|---|---|
| `accessor` | 2 users, `MaxRev` 3, `MaxId` 1, symmetric users, states equal under `Distinct` counted once | `TypeOK`, `CommittedIsOwnList` and the refinement `StoreSpec` under any calls, failures, lost answers and kills |
| `one_user` | 1 user, `MaxRev` 5, `MaxId` 1, two filters, status also set by hand | `SuccessMeansResolved`, `NoConflict`, `UnsavedIsMarked`, `ResolvedStays`, `HandlersReturn` |
| `two_issues` | 1 user, `MaxRev` 4, `MaxId` 2, issues with a label | `DialogTypeOK`, `IncreasingIds`, `NoIssueLost`, `DeletedStays`, `OnlyNamedGetResolved`, `NamedGetResolved` with issues added, deleted and chosen in any order |
| `round_trip` | one issue, every field from all texts of one or two tokens, up to two labels | `RoundTripExact`, `LoadedIsClean` |
| `shared_temp` | 1 user, 2 projects, one dialog at a time, `MaxRev` 4, three contents | `OwnIssuesOnly`, `CommittedIsOwnText`, `SavingEnds`: only a working copy of the other project stops a user who keeps saving |
| `view` | 3 issues, any selection, any initial choice | `OnlyClicksChoose`, `ScreenStaysChoice` |
| `svn_client` | 2 providers, failures at each part | `CallsHaveClient`, `NoLoginOnlyAfterFailure` |

Some properties except the one case in which the code fails, and show that there
is no other. They do not make that case right: it is a flaw of the code, and
`PROJECT.json` lists it as a hazard that no property covers, or that a run of
its own shows to be real.

| Property | Excepts |
|---|---|
| `UnsavedIsMarked` | A save or reload that failed is treated as one that succeeded (`ManageIssuesDlg.cpp:68`, `:78`). |
| `NamedGetResolved` | An id that no revision ever had; see `ghost_issue`. |
| `ScreenStaysChoice` | Two rows are selected while the list is filled anew (`ChooseIssuesDlg.cpp:227`). |
| `NoLoginOnlyAfterFailure` | `Initialize` is called again after it failed at the configuration (`Subversion.cpp:57`). |
| `SavingEnds` | A working copy of another project is in the way; see `conflict` for two users. |
| `DeletedStays` | An issue that is chosen and then deleted comes back as resolved (`IssueAccessor.cpp:207`); no text of the repository says what should happen. |

Runs that end in a violation, each a disagreement between what the code does
and what a text of the repository says (see `findings`):

| Run | Property | What happens |
|---|---|---|
| `two_labels` | `AddedKeepsTitle` | Labels are joined with commas and cut at bars; a new issue with two labels loses its title to the second. |
| `lost_issue` | `NoIssueLost` | With two users, a save of an old list removes an issue from the repository. The same way it makes a resolved issue active again. |
| `conflict` | `SavingEnds` | Two users: a failed save leaves a working copy, the other commits, the next checkout ends in a conflict, and no later save succeeds. |
| `temp_at_once` | `OwnIssuesOnly` | Two dialogs at once for two projects: one loads what the other exported, and saves it as its own. |
| `ghost_issue` | `ChosenGetResolved` | An issue that was added, not saved, and chosen is gone when the dialog opens again, but is still announced and reported as resolved. Neither `checkStatus_` nor `idList_` is pruned when the list is loaded anew. |

### Bounds, and why they are enough

* `MaxRev` bounds the revisions of `issues.txt`. Three are the empty file, a
  list, and a change of it, so that in `accessor` both users can hold stale
  lists and stale working copies. A fourth lets a resolved issue be saved over,
  and with two issues lets one be added, chosen and deleted around the commit of
  the other; a fifth lets that happen once more (`one_user`).
* `MaxId` bounds the ids given out. One id shows every order of add, choose,
  delete, save and load of an issue; two are there where issues must not
  disturb each other and ids must differ (`two_issues`). What does not depend
  on the bound is proved for all of them: that ids differ also when several
  users number them is the theorem `IdsIncrease`.
* `Client` has two users where the question is about a race, one where the
  property is a promise to a user who works alone. `RootNames` holds names the
  project has in the root anyway. `Filter` has the empty filter and the default
  in `one_user`, and the default, under which only active issues get a row, in
  `two_issues`.
* In `SharedTemp` three contents allow a working copy to differ both from the
  list and from the latest revision, and four revisions allow a failed save, a
  commit meanwhile and another try; `AtOnce` is how many dialogs a user opens.
* Three issues in `IssueListView` let a row be used again for a later issue
  while another one is deleted. Two providers in `SvnClient` are enough for one
  to terminate the APR of the other.
* A field of two tokens can begin, end, or consist of separators, and two
  labels have a first, a last and a bar between them.
* The `VIEW` of `accessor`, `Distinct`, leaves out three things, each of which
  changes no continuation that a property of the run could tell apart. `ret` is
  read by no step and no property there. A working copy in conflict stays so
  until it is deleted, is refused by every commit, and each write replaces its
  contents. A working copy without changes that no running call is about to
  write is brought to the latest revision by the next checkout, just as a new
  one is; its text is that of a revision. (`TypeOK` covers what the view leaves
  out in the proof.)
* Bounded actions are merely disabled at the bound; all runs check deadlock.

### Fairness

`FairSpec` assumes weak fairness of `HandlerStep(c)`, the steps of a handler
that has begun. The code justifies it: a handler is straight-line code in one
thread, waits for nothing but the Subversion library, and holds no lock; those
calls are taken to return, with success or failure. Nothing is assumed of users,
of TortoiseSVN, or of which of the outcomes a call has.

`RetrySpec` of `SharedTemp` is about a user who keeps saving: strong fairness of
checkout, write and commit says that calls which could succeed do not fail for
ever, weak fairness of `Fail` and `UpdateDelete` that a call returns. A user may
still close the dialog at any time, which ends the wish to save. No fairness
makes a call succeed that Subversion refuses, which is what `conflict` shows.

## 4. Proofs

All theorems hold for any set of users, any words, inputs, filters and bounds
that satisfy the named assumptions, which TLC evaluates in the runs:
`WordAssumption`, `SubversionAssumption`, `AccessorAssumption`,
`FilterAssumption`, `RoundTripAssumption`, `SharedTempAssumption` (finitely
many sessions, each of a user and a project), `ProviderAssumption` and
`ListViewAssumption` (no id twice in the list, which `IdsIncrease` proves of
the lists there are). Some theorems have more hypotheses, written in the
theorem. Each is there because the statement is false without it:

* `AtOnce = 1`, one dialog at a time, for the two about `SharedTemp`; the run
  `temp_at_once` is the counterexample otherwise.
* `Client = {user}`, a user who works alone, for the six whose name begins
  with `Alone`; see the runs `conflict` and `lost_issue`.
* `PlainInput`: users enter only what the file can hold, that is a title, no
  comma in title or owner, and at most one label, not empty and without
  separators. What happens otherwise is what `round_trip` and `two_labels` are
  about. The inputs of all runs of `FlatTracker` satisfy it.
* `NeverReopened`: no user sets an issue back to active by hand, for
  `AloneResolvedStays`; and `NeverResolvedByHand`: no user sets one to resolved
  by hand, for `AloneOnlyNamed`. Both would be changes the user wants.

| Theorem | States |
|---|---|
| `IssueAccessorProofs!TypeCorrect` | `AccessorSpec => []TypeOK` |
| `IssueAccessorProofs!IdsIncrease` | `AccessorSpec => []IncreasingIds` |
| `IssueAccessorProofs!CommitsOwnList` | `AccessorSpec => []CommittedIsOwnList` |
| `IssueAccessorProofs!AccessorIsStore` | `AccessorSpec => StoreSpec`, the refinement of `IssueStore` |
| `FlatTrackerProofs!AccessorInvariants` | the three invariants for `Spec`, the calls the dialogs make |
| `FlatTrackerProofs!SuccessIsTrue` | `Spec => []SuccessMeansResolved` |
| `FlatTrackerProofs!DialogTypes` | `Spec => []DialogTypeOK` |
| `FlatTrackerProofs!DialogsUseAccessor` | `Spec => AccessorSpec`: the dialogs stay within the accessor's calls, ids included |
| `FlatTrackerProofs!FlatTrackerIsStore` | `Spec => StoreSpec` |
| `FlatTrackerProofs!AloneNoConflict` | `Client = {user}`: `Spec => []NoConflict` |
| `FlatTrackerProofs!UnsavedMarked` | `PlainInput`: `Spec => []UnsavedIsMarked`, any number of users |
| `FlatTrackerProofs!AloneNoIssueLost` | `Client = {user}`, `PlainInput`: `Spec => NoIssueLost` |
| `FlatTrackerProofs!AloneResolvedStays` | `Client = {user}`, `PlainInput`, `NeverReopened`: `Spec => ResolvedStays` |
| `FlatTrackerProofs!AloneDeletedStays` | `Client = {user}`, `PlainInput`: `Spec => DeletedStays` |
| `FlatTrackerProofs!AloneOnlyNamed` | `Client = {user}`, `PlainInput`, `NeverResolvedByHand`: `Spec => OnlyNamedGetResolved` |
| `FlatTrackerProofs!AloneNamedGetResolved` | `Client = {user}`, `PlainInput`: `Spec => []NamedGetResolved` |
| `RoundTripProofs!RoundTrips` | `Spec => []RoundTripExact`, any texts, any number of issues and labels |
| `RoundTripProofs!LoadsClean` | `Spec => LoadedIsClean` |
| `SharedTempProofs!ProjectsStayApart` | `AtOnce = 1`: `Spec => []OwnIssuesOnly` |
| `SharedTempProofs!CommitsOwnText` | `AtOnce = 1`: `Spec => []CommittedIsOwnText` |
| `SvnClientProofs!ClientIsThere` | `Spec => []CallsHaveClient` |
| `SvnClientProofs!LoginMissingAfterFailure` | `Spec => NoLoginOnlyAfterFailure` |
| `IssueListViewProofs!ClicksChoose` | `Spec => OnlyClicksChoose`, any number of issues, any selection |
| `IssueListViewProofs!ScreenShowsChoice` | `Spec => ScreenStaysChoice`, any number of issues, any selection |

The argument.

* `Induction` proves the few facts about recursive functions on `0..n` that
  the conversions need, in a form without an operator parameter: the set of the
  `i` for which something holds takes the place of the predicate.
* `IssueTextProofs` first shows what the conversions preserve: `split` returns
  texts, `WriteFile` and `ReadFile` keep types and the order of ids, `AddNew`
  appends a larger id, `Update` and `Delete` change no id.
* Then it shows what they compute. `End(text, sep)` is the state of the
  `getline` loop after a text: the pieces that are finished and the one begun.
  Lemmas say what one more separator and one more field without separators do
  to it (`EndSeparator`, `EndField`). Laid end to end they give `SplitFields`
  (of four fields without commas LoadIssues finds the same four, unless the
  last is empty, and then the line is skipped) and `SplitLabels` (the labels
  come back, unless the last is empty). `SplitPieces` goes the other way: a
  piece has no separator and no token its text has not.
* Then it puts them together. `ReadWritten` says what becomes of one line,
  `ReadFileLength` that no issue is dropped exactly if every line is readable,
  `SavedExact` that the list comes back exactly if it is `AllStorable`. The
  step from "some line differs" to "the lists differ" uses that a dropped issue
  makes the list shorter. `RoundTripProofs` adds `ListInv` (types, increasing
  ids), which is what `SavedExact` needs of the reachable lists; the ids are
  needed because an issue is looked up by its id in `Update`.
* For lists of `Plain` inputs more can be said: `AddNewPlain`, `UpdatePlain`
  and `DeletePlain` keep a list `AllStorable`, and `WrittenComesBack` says that
  a saved list is read again as it was, but for the chosen issues of a
  positive revision, which are resolved (`WrittenAs`).
* The inductive invariant of `IssueAccessorProofs` is
  `Inv == TypeOK /\ IncreasingIds /\ \A c : SavedText(c)`. `CommittedIsOwnList`
  is not inductive by itself: it speaks of the place after the commit, and what
  makes it true is written two steps earlier. `SavedText` adds the place
  between: a client that has written its working copy has its own text in it,
  whatever was there. The types are not inductive without the bound
  `wc[c].base <= Len(repo)`, because a working copy looks up its revision.
* What a step of one client leaves of the others is stated once: their
  variables stay, and `repo` only grows, so that a revision once there stays.
* `AccessorIsStore` adds `HeaderOnly` (the file that is imported first has no
  issue) to the invariant (`RInv`). Each action is then one step of the store
  or a stutter: an export fetches, a read takes what was fetched, a commit or
  import, also one whose answer is lost, publishes, and the rest, checkout over
  whatever was left, writing and deleting it, cannot be seen.
* The steps of `FlatTracker` are related to those of `IssueAccessor`, so that
  `Inv` carries over; on top of it `UiInv` says that the message equals
  `idList` in every dialog and that a call running in `OnCommitFinished` has a
  positive revision. From `SavedText` at `committed` follows
  `SuccessMeansResolved` when the call returns.
* `DialogsUseAccessor` needs that an id is never out of the accessor's range:
  `RangeInv` bounds the ids of all lists, files and revisions by `MaxId`,
  `ChecksInv` and `DialogInv` say the same of `checkStatus_` and the types of
  the rest; `AllInv` is all of them. With it, each handler is one call of the
  accessor, or none.
* `AloneInv`, for one user: a working copy that was left behind is at the latest
  revision or, when the answer to a commit was lost, has the text of it; between
  checkout and commit it is at the latest revision. So an update never has two
  different texts to merge.
* `UnsavedMarked` rests on `StorableInv`: with `PlainInput` every list and
  every revision is `AllStorable`, and a file that was exported is a revision.
  `CallOutcome` says what any step of a call may do to list, revisions and
  file, so that other users need no case of their own. `SaveInv` is the rest
  of the induction: a list that can be edited is one of an existing file,
  `OnSave` passes revision 0 (a save that resolved something would publish a
  list other than the one on the screen), and a list that is not marked was
  saved or loaded if that succeeded.
* `NoIssueLost`, `ResolvedStays`, `DeletedStays` and `OnlyNamedGetResolved`
  speak of two consecutive revisions, while the list that becomes the second was loaded long before.
  `Follows(new, old)` is the order between them: all issues stay, a deleted one
  stays deleted, one that is not active does not become active (`KeepsIssues`),
  and, if no user resolves issues by hand, none becomes resolved
  (`NoneResolved`). It is reflexive and transitive (`FollowsOrder`), and add, edit and delete respect it.
  `FollowsInv` says that the list of a user who is alone follows the latest
  revision for as long as it can still be committed (`MayCommit`: a dialog
  shows it, ids are chosen, or a call is on its way to write it). So the next
  revision is `WrittenAs` of a list that follows the one before
  (`NextRevisionStep`), written by a call of `OnCommitFinished` or resolving
  nothing, from which the four theorems are read off. That
  `MayCommit` must include a non-empty `idList` is what makes it inductive: the
  commit of the user's files lies between the dialog and `OnCommitFinished`.
* `NamedGetResolved` speaks of all revisions there were. `HistoryInv` says that
  the latest revision has the issues of every earlier one, and that it is what
  `OnCommitFinished` has written from the commit until the dialog is gone
  (`Done`, `IsLatest`). The first part makes an id that some revision once had
  one of the list being written, although it may have been chosen, and the list
  loaded again, long before.
* In `IssueListViewProofs` the invariant `ViewInv` has, besides types, that no
  issue has two rows. `RefreshList` is a loop, and its two loop invariants are
  proved by induction over the issues: `Placed` (the rows filled so far hold
  issues seen so far, each once) and, with at most one row selected, `BoxesSet`
  (each row filled so far has the box of its issue). With two selected rows the
  second fails, as the handler copies a box to the rows above, and this is the
  case `ScreenStaysChoice` excepts.
* In `SharedTempProofs` the invariant follows the exported file and the working
  copy: with one dialog at a time, the only session that can be between export
  and read is the one that exported, and a written working copy is of its
  project. That at most one session is open is counted with `Cardinality`,
  which is why `Session` is finite.
* In `SvnClientProofs` the count of `apr_initialize` is the number of providers
  that have made that part, so it is positive for as long as one needs it.

Only model-checked are `HandlersReturn` and `SavingEnds`: liveness under
fairness, and the `ENABLED` in it, are out of the prover's reach. Every other
property of a passing run is stated by a theorem.

## 5. Not modelled

* `Info` and `HasLabel`, which nobody calls; the authentication prompts, which
  return constants. What a client without authentication can do
  (`Subversion.cpp:57`): `SvnClient` has the state in which `Initialize`
  returns true after it had failed at the configuration, but not the server
  that asks for a login.
* Errors while a stream is written (`IssueAccessor.cpp:228`): with a full disk a
  cut-off file would be committed, and `CommittedIsOwnList` does not hold.
* A file `issues.txt` in the root of the repository, which `CheckIssuesInfo`
  takes for `issues/issues.txt` (`IssueAccessor.cpp:56`): the model looks the
  name up as the code does, and the runs leave it out of `RootNames`.
* The lock a working copy keeps when its process dies inside a Subversion call,
  and a working copy of which only a part could be deleted.
* Users who edit `issues.txt` or the log message by hand; the size of the
  buffer at `IssueDlg.cpp:72`.
* COM registration, resources, layout and wording, and `src/Supports`.

All operations of the program that change its state are actions of a module.
What is left of the repository's lines is vendored code, which the plug-in
reaches only through the Subversion library.

## 6. Plan

All safety properties of the passing runs are proved. What could follow:

1. Several users: `NoIssueLost` and its like are false for two users in
   general (`lost_issue`). A weaker promise that may hold is that a user's
   revision keeps the issues of the revision that user loaded last, whatever
   others publish in between; `Follows` is the order it would be stated with.
2. Safety parts of the liveness properties: for instance that `pc` only moves
   forward within a call, so that a call has a bounded number of steps.
