------------------------ MODULE IssueListViewProofs -------------------------
(***************************************************************************)
(* What the screen of CChooseIssuesDlg shows and what OnOK takes over, for *)
(* any number of issues.                                                   *)
(***************************************************************************)
EXTENDS IssueListView, FiniteSetTheorems, Induction

Row == [id: Id, box: BOOLEAN, selected: BOOLEAN]

OneRowEach(view) ==
  \A i, j \in DOMAIN view : i # j => view[i].id # view[j].id

(***************************************************************************)
(* No issue has two rows.                                                  *)
(***************************************************************************)
ViewInv ==
  /\ rows \in Seq(Row) /\ OneRowEach(rows)
  /\ checkStatus \in [Id -> BOOLEAN]

(***************************************************************************)
(* A row of a view is a row.                                               *)
(***************************************************************************)
LEMMA RowFact ==
  ASSUME NEW view \in Seq(Row), NEW i \in DOMAIN view
  PROVE  /\ view[i] \in Row
         /\ view[i].id \in Id /\ view[i].box \in BOOLEAN /\ view[i].selected \in BOOLEAN
<1>1. view[i] \in Row OBVIOUS
<1> QED BY <1>1 DEF Row

(***************************************************************************)
(* A function on an interval is a sequence.                                *)
(***************************************************************************)
LEMMA RowsAreView ==
  ASSUME NEW n \in Nat, NEW view, view = [i \in 1..n |-> view[i]],
         \A i \in 1..n : view[i] \in Row
  PROVE  view \in Seq(Row) /\ Len(view) = n /\ DOMAIN view = 1..n
<1>1. view \in [1..n -> Row] OBVIOUS
<1> HIDE DEF Row
<1> QED BY <1>1

(***************************************************************************)
(* PutItem gives one row another issue, and appends at most one row.       *)
(***************************************************************************)
HasPut(new, view, k, id) ==
  /\ new \in Seq(Row) /\ k <= Len(new) /\ Len(view) <= Len(new)
  /\ DOMAIN new = DOMAIN view \cup {k}
  /\ new[k].id = id
  /\ new[k].selected => k \in DOMAIN view /\ view[k].selected
  /\ \A i \in DOMAIN new : i # k => i \in DOMAIN view /\ new[i] = view[i]

(***************************************************************************)
(* So it does.                                                             *)
(***************************************************************************)
LEMMA PutFact ==
  ASSUME NEW view \in Seq(Row), NEW k \in 1..(Len(view) + 1), NEW id \in Id,
         NEW new, new = PutItem(view, k, id)
  PROVE  HasPut(new, view, k, id)
<1> DEFINE old == k \in DOMAIN view
           item == [id |-> id, box |-> old /\ view[k].box, selected |-> old /\ view[k].selected]
           n == IF k <= Len(view) THEN Len(view) ELSE k
<1>1. item \in Row
  <2>1. (old /\ view[k].box) \in BOOLEAN /\ (old /\ view[k].selected) \in BOOLEAN BY Zenon
  <2> HIDE DEF old
  <2> QED BY <2>1 DEF Row
<1>2. item.id = id /\ (item.selected => old /\ view[k].selected) BY Zenon
<1> HIDE DEF item
<1>3. n \in Nat /\ 1..n = DOMAIN view \cup {k} OBVIOUS
<1>4. new = [i \in 1..n |-> IF i # k THEN view[i] ELSE item]
  <2>1. new = [i \in DOMAIN view \cup {k} |-> IF i # k THEN view[i] ELSE item]
    BY Zenon DEF PutItem, item
  <2> HIDE DEF n
  <2> QED BY <1>3, <2>1
<1>5. \A i \in 1..n : i # k => i \in DOMAIN view OBVIOUS
<1>6. \A i \in 1..n : new[i] \in Row BY <1>1, <1>4, <1>5, RowFact
<1>7. new \in Seq(Row) /\ Len(new) = n /\ DOMAIN new = 1..n
  <2> HIDE DEF n
  <2>1. new = [i \in 1..n |-> new[i]] BY <1>4
  <2> QED BY <1>3, <1>6, <2>1, RowsAreView, Zenon
<1>8. k \in 1..n /\ k <= n /\ Len(view) <= n OBVIOUS
<1>9. new[k] = item /\ \A i \in 1..n : i # k => new[i] = view[i] BY <1>4, <1>8
<1> QED BY <1>2, <1>3, <1>5, <1>7, <1>8, <1>9 DEF HasPut

(***************************************************************************)
(* SetCheckState sets boxes, that of row k among them, and only those of   *)
(* the rows that follow it.                                                *)
(***************************************************************************)
HasSet(new, view, k, checked) ==
  /\ new \in Seq(Row) /\ Len(new) = Len(view) /\ DOMAIN new = DOMAIN view
  /\ k \in Following(view, k) /\ Following(view, k) \subseteq DOMAIN view
  /\ new[k].box = checked
  /\ \A i \in DOMAIN view :
       /\ new[i].id = view[i].id /\ new[i].selected = view[i].selected
       /\ i \notin Following(view, k) => new[i] = view[i]
       /\ i \in Following(view, k) /\ view[k].box # checked => new[i].box = checked

(***************************************************************************)
(* This holds for every view.                                              *)
(***************************************************************************)
LEMMA SetFact ==
  ASSUME NEW view \in Seq(Row), NEW k \in DOMAIN view, NEW checked \in BOOLEAN,
         NEW new, new = SetCheckState(view, k, checked)
  PROVE  HasSet(new, view, k, checked)
<1>1. k \in Following(view, k) /\ Following(view, k) \subseteq DOMAIN view
  BY DEF Following, Selected
<1>2. CASE view[k].box = checked
  <2>1. new = view BY <1>2 DEF SetCheckState
  <2> QED BY <1>1, <1>2, <2>1 DEF HasSet
<1>3. CASE view[k].box # checked
  <2>1. new = [i \in DOMAIN view |-> IF i \in Following(view, k)
                                     THEN [view[i] EXCEPT !.box = checked] ELSE view[i]]
    BY <1>3 DEF SetCheckState
  <2>2. ASSUME NEW i \in DOMAIN view
        PROVE  /\ new[i] \in Row
               /\ new[i].id = view[i].id /\ new[i].selected = view[i].selected
               /\ i \notin Following(view, k) => new[i] = view[i]
               /\ i \in Following(view, k) => new[i].box = checked
    <3>1. PICK old \in Row : old = view[i] BY RowFact
    <3>2. CASE i \in Following(view, k)
      <4>1. new[i] = [old EXCEPT !.box = checked] BY <2>1, <3>1, <3>2
      <4>2. /\ [old EXCEPT !.box = checked] \in Row
            /\ [old EXCEPT !.box = checked].id = old.id
            /\ [old EXCEPT !.box = checked].selected = old.selected
            /\ [old EXCEPT !.box = checked].box = checked
        BY DEF Row
      <4> QED BY <3>1, <3>2, <4>1, <4>2
    <3>3. CASE i \notin Following(view, k)
      <4>1. new[i] = old BY <2>1, <3>1, <3>3
      <4> QED BY <3>1, <3>3, <4>1
    <3> QED BY <3>2, <3>3
  <2>3. Len(view) \in Nat /\ DOMAIN view = 1..Len(view) OBVIOUS
  <2>4. new \in Seq(Row) /\ Len(new) = Len(view) /\ DOMAIN new = DOMAIN view
    BY <2>1, <2>2, <2>3, RowsAreView
  <2> QED BY <1>1, <2>2, <2>4 DEF HasSet
<1> QED BY <1>2, <1>3

-----------------------------------------------------------------------------
(***************************************************************************)
(* How RefreshList goes along the issues.                                  *)
(***************************************************************************)
Shown == {s \in [row: Nat, view: Seq(Row)] : s.row <= Len(s.view)}

ShowStep(before, ids, i) ==
  IF Issues[i] \in ids THEN ShowIssue(before, Issues[i]) ELSE before

IsShowing(shown, ids) ==
  /\ shown \in [0..Len(Issues) -> Shown]
  /\ shown[0] = [row |-> 0, view |-> rows]
  /\ \A i \in 1..Len(Issues) : shown[i] = ShowStep(shown[i-1], ids, i)

(***************************************************************************)
(* One issue more: the next row is put and its box is set.                 *)
(***************************************************************************)
HasShown(new, before, id) ==
  /\ new \in Shown /\ new.row = before.row + 1
  /\ \E put : /\ HasPut(put, before.view, new.row, id)
              /\ HasSet(new.view, put, new.row, checkStatus[id])

(***************************************************************************)
(* That is what ShowIssue does.                                            *)
(***************************************************************************)
LEMMA ShowFact ==
  ASSUME ViewInv, NEW before \in Shown, NEW id \in Id
  PROVE  HasShown(ShowIssue(before, id), before, id)
<1>1. PICK row, view : row = before.row + 1 /\ view = before.view OBVIOUS
<1>2. row \in 1..(Len(view) + 1) /\ view \in Seq(Row)
  <2>1. before.row \in Nat /\ before.view \in Seq(Row) /\ before.row <= Len(before.view)
    BY DEF Shown
  <2>2. Len(before.view) \in Nat BY <2>1
  <2> QED BY <1>1, <2>1, <2>2
<1>3. PICK put : put = PutItem(view, row, id) OBVIOUS
<1>4. HasPut(put, view, row, id) BY <1>2, <1>3, PutFact
<1>5. put \in Seq(Row) /\ row <= Len(put) /\ row \in DOMAIN put BY <1>4 DEF HasPut
<1>6. PICK new : new = SetCheckState(put, row, checkStatus[id]) OBVIOUS
<1>7. checkStatus[id] \in BOOLEAN BY DEF ViewInv
<1>8. HasSet(new, put, row, checkStatus[id]) BY <1>5, <1>6, <1>7, SetFact
<1>9. ShowIssue(before, id) = [row |-> row, view |-> new]
  BY <1>1, <1>3, <1>6, Zenon DEF ShowIssue
<1>10. [row |-> row, view |-> new] \in Shown BY <1>2, <1>5, <1>8 DEF Shown, HasSet
<1>11. [row |-> row, view |-> new].row = row /\ [row |-> row, view |-> new].view = new
  OBVIOUS
<1> QED BY <1>1, <1>4, <1>8, <1>9, <1>10, <1>11 DEF HasShown

(***************************************************************************)
(* The ids of the issues.                                                  *)
(***************************************************************************)
LEMMA IssuesFact ==
  Len(Issues) \in Nat /\ \A i \in 1..Len(Issues) : i \in DOMAIN Issues /\ Issues[i] \in Id
BY ListViewAssumption DEF Id

(***************************************************************************)
(* RefreshList leaves the rows that were put at the end.                   *)
(***************************************************************************)
LEMMA RefreshShowing ==
  ASSUME ViewInv, NEW ids, RefreshList(ids)
  PROVE  /\ checkStatus' = checkStatus
         /\ \E shown : /\ IsShowing(shown, ids)
                       /\ rows' = SubSeq(shown[Len(Issues)].view, 1, shown[Len(Issues)].row)
<1> DEFINE n == Len(Issues)
           V == Shown
           b == [row |-> 0, view |-> rows]
           Step(before, i) == ShowStep(before, ids, i)
           G == [p \in V \X (1..n) |-> Step(p[1], p[2])]
           Rec(f) == f = [i \in 0..n |-> IF i = 0 THEN b
                                         ELSE IF Issues[i] \in ids
                                              THEN ShowIssue(f[i-1], Issues[i]) ELSE f[i-1]]
           fcn == CHOOSE f : Rec(f)
<1>1. n \in Nat /\ b \in V
  <2>1. rows \in Seq(Row) /\ Len(rows) \in Nat BY DEF ViewInv
  <2> QED BY <2>1, IssuesFact DEF Shown
<1>2. ASSUME NEW v \in V, NEW i \in 1..n PROVE Step(v, i) \in V
  BY IssuesFact, ShowFact DEF ShowStep, HasShown
<1>3. G \in Steps(n, V)
  <2> HIDE DEF V, Step
  <2> QED BY <1>2 DEF Steps
<1>4. \E f : Rec(f)
  <2>1. PICK f \in [0..n -> V] : IsRecursive(f, n, b, G)
    <3> HIDE DEF V, G, n, b
    <3> QED BY <1>1, <1>3, RecursiveExists
  <2>2. ASSUME NEW i \in 0..n PROVE f[i] = IF i = 0 THEN b ELSE Step(f[i-1], i)
    <3> HIDE DEF V, Step, b
    <3> USE DEF IsRecursive
    <3>1. CASE i = 0 BY <2>1, <3>1
    <3>2. CASE i # 0
      <4>1. i \in 1..n /\ i-1 \in 0..n BY <1>1, <3>2
      <4>2. f[i-1] \in V BY <4>1
      <4>3. G[<<f[i-1], i>>] = Step(f[i-1], i) BY <4>1, <4>2
      <4> QED BY <2>1, <3>2, <4>1, <4>3
    <3> QED BY <3>1, <3>2
  <2>3. Rec(f)
    <3> HIDE DEF V, n, b
    <3> QED BY <2>2 DEF ShowStep
  <2> QED BY <2>3
<1>5. Rec(fcn)
  <2> HIDE DEF Rec
  <2> QED BY <1>4
<1>6. fcn[0] = b /\ \A i \in 1..n : fcn[i] = Step(fcn[i-1], i)
  <2> HIDE DEF fcn, b
  <2> QED BY <1>1, <1>5 DEF ShowStep
<1>7. \A i \in 0..n : fcn[i] \in V
  <2>1. fcn[0] \in V /\ \A i \in 1..n : fcn[i-1] \in V => fcn[i] \in V
    <3> HIDE DEF fcn, V, Step, b
    <3> QED BY <1>1, <1>2, <1>6
  <2> HIDE DEF fcn, V, Step
  <2> QED BY <1>1, <2>1, RecursiveRange
<1>8. rows' = SubSeq(fcn[n].view, 1, fcn[n].row) /\ checkStatus' = checkStatus
  BY Zenon DEF RefreshList
<1>9. fcn \in [0..n -> V]
  <2> HIDE DEF fcn, V, b
  <2> QED BY <1>5, <1>7
<1>10. IsShowing(fcn, ids)
  <2> HIDE DEF fcn
  <2> QED BY <1>6, <1>9 DEF IsShowing
<1> HIDE DEF fcn
<1> QED BY <1>8, <1>10

-----------------------------------------------------------------------------
(***************************************************************************)
(* What RefreshList has done after i issues.  The rows have different ones *)
(* of them, and if at most one row is selected, the boxes are right.       *)
(***************************************************************************)
Placed(s, i) ==
  /\ \A j \in 1..s.row : \E m \in 1..i : s.view[j].id = Issues[m]
  /\ \A j, l \in 1..s.row : j # l => s.view[j].id # s.view[l].id

AtMostOne(view) ==
  \A j, l \in DOMAIN view : view[j].selected /\ view[l].selected => j = l

BoxesSet(s) ==
  /\ AtMostOne(s.view)
  /\ \A j \in 1..s.row : s.view[j].box = checkStatus[s.view[j].id]

(***************************************************************************)
(* A row that is put has an issue that no row above it has.                *)
(***************************************************************************)
LEMMA PlacedStep ==
  ASSUME ViewInv, NEW before \in Shown, NEW ids, NEW i \in 1..Len(Issues),
         Placed(before, i-1)
  PROVE  Placed(ShowStep(before, ids, i), i)
<1>1. Len(Issues) \in Nat /\ i \in Nat /\ Issues[i] \in Id BY IssuesFact
<1>2. CASE Issues[i] \notin ids
  <2>1. ShowStep(before, ids, i) = before BY <1>2 DEF ShowStep
  <2>2. \A m \in 1..(i-1) : m \in 1..i BY <1>1
  <2> QED BY <2>1, <2>2 DEF Placed
<1>3. CASE Issues[i] \in ids
  <2>1. PICK new : new = ShowIssue(before, Issues[i]) OBVIOUS
  <2>2. HasShown(new, before, Issues[i]) BY <1>1, <2>1, ShowFact
  <2>3. PICK put : /\ HasPut(put, before.view, new.row, Issues[i])
                   /\ HasSet(new.view, put, new.row, checkStatus[Issues[i]])
    BY <2>2 DEF HasShown
  <2>4. PICK row : row = before.row /\ row \in Nat /\ new.row = row + 1
    BY <2>2 DEF HasShown, Shown
  <2>5. PICK old : old = before.view OBVIOUS
  <2>6. PICK view : view = new.view OBVIOUS
  <2>7. view[row + 1].id = Issues[i] /\ \A j \in 1..row : view[j].id = old[j].id
    <3>1. /\ DOMAIN put = DOMAIN old \cup {row + 1} /\ put[row + 1].id = Issues[i]
          /\ \A j \in DOMAIN put : j # row + 1 => put[j] = old[j]
      BY <2>3, <2>4, <2>5 DEF HasPut
    <3>2. \A j \in DOMAIN put : view[j].id = put[j].id BY <2>3, <2>6 DEF HasSet
    <3>3. \A j \in 1..row : j \in DOMAIN old /\ j # row + 1
      BY <2>4, <2>5 DEF Shown
    <3> QED BY <3>1, <3>2, <3>3
  <2>8. \A m \in 1..(i-1) : m \in 1..i /\ Issues[m] # Issues[i]
    BY <1>1, ListViewAssumption, IssuesFact
  <2>9. /\ \A j \in 1..row : \E m \in 1..(i-1) : old[j].id = Issues[m]
        /\ \A j, l \in 1..row : j # l => old[j].id # old[l].id
    BY <2>4, <2>5 DEF Placed
  <2>10. \A j \in 1..(row+1) : j = row + 1 \/ j \in 1..row BY <2>4
  <2>11. /\ \A j \in 1..(row+1) : \E m \in 1..i : view[j].id = Issues[m]
         /\ \A j, l \in 1..(row+1) : j # l => view[j].id # view[l].id
    <3>1. \A j \in 1..row : view[j].id # Issues[i] BY <2>7, <2>8, <2>9
    <3>2. \A j \in 1..(row+1) : \E m \in 1..i : view[j].id = Issues[m]
      BY <2>7, <2>8, <2>9, <2>10
    <3>3. \A j, l \in 1..(row+1) : j # l => view[j].id # view[l].id
      BY <2>7, <2>9, <2>10, <3>1
    <3> QED BY <3>2, <3>3
  <2>12. Placed(new, i) BY <2>4, <2>6, <2>11 DEF Placed
  <2> QED BY <1>3, <2>1, <2>12 DEF ShowStep
<1> QED BY <1>2, <1>3

(***************************************************************************)
(* Its box is set without a change of another one.                         *)
(***************************************************************************)
LEMMA BoxesStep ==
  ASSUME ViewInv, NEW before \in Shown, NEW ids, NEW i \in 1..Len(Issues), BoxesSet(before)
  PROVE  BoxesSet(ShowStep(before, ids, i))
<1>1. CASE Issues[i] \notin ids BY <1>1 DEF ShowStep
<1>2. CASE Issues[i] \in ids
  <2>1. PICK id \in Id : id = Issues[i] BY IssuesFact
  <2>2. PICK new : new = ShowIssue(before, id) OBVIOUS
  <2>3. HasShown(new, before, id) BY <2>2, ShowFact
  <2>4. PICK put : /\ HasPut(put, before.view, new.row, id)
                   /\ HasSet(new.view, put, new.row, checkStatus[id])
    BY <2>3 DEF HasShown
  <2>5. PICK row : row = before.row /\ row \in Nat /\ new.row = row + 1
    BY <2>3 DEF HasShown, Shown
  <2>6. PICK old, view : old = before.view /\ view = new.view OBVIOUS
  <2>7. /\ DOMAIN put = DOMAIN old \cup {row + 1} /\ put[row + 1].id = id
        /\ put[row + 1].selected => row + 1 \in DOMAIN old /\ old[row + 1].selected
        /\ \A j \in DOMAIN put : j # row + 1 => j \in DOMAIN old /\ put[j] = old[j]
    BY <2>4, <2>5, <2>6 DEF HasPut
  <2>8. /\ DOMAIN view = DOMAIN put /\ view[row + 1].box = checkStatus[id]
        /\ \A j \in DOMAIN put :
             /\ view[j].id = put[j].id /\ view[j].selected = put[j].selected
             /\ j \notin Following(put, row + 1) => view[j] = put[j]
    BY <2>4, <2>5, <2>6 DEF HasSet
  <2>9. AtMostOne(old) /\ \A j \in 1..row : old[j].box = checkStatus[old[j].id]
    BY <2>5, <2>6 DEF BoxesSet
  <2>10. AtMostOne(put)
    <3>1. \A j \in DOMAIN put : put[j].selected => j \in DOMAIN old /\ old[j].selected
      BY <2>7
    <3> QED BY <2>9, <3>1, Zenon DEF AtMostOne
  <2>11. \A j \in Following(put, row + 1) : j = row + 1
    BY <2>7, <2>10 DEF Following, Selected, AtMostOne
  <2>12. AtMostOne(view) BY <2>8, <2>10 DEF AtMostOne
  <2>13. \A j \in 1..row : j \in DOMAIN old /\ j # row + 1 BY <2>5, <2>6 DEF Shown
  <2>14. \A j \in 1..row : view[j] = old[j] BY <2>7, <2>8, <2>11, <2>13
  <2>15. \A j \in 1..(row + 1) : j = row + 1 \/ j \in 1..row BY <2>5
  <2>16. \A j \in 1..(row + 1) : view[j].box = checkStatus[view[j].id]
    BY <2>7, <2>8, <2>9, <2>14, <2>15
  <2>17. BoxesSet(new) BY <2>5, <2>6, <2>12, <2>16 DEF BoxesSet
  <2> QED BY <1>2, <2>1, <2>2, <2>17 DEF ShowStep
<1> QED BY <1>1, <1>2
(***************************************************************************)
(* The rows after RefreshList, for any issues the filter leaves.           *)
(***************************************************************************)
LEMMA RefreshedRows ==
  ASSUME ViewInv, NEW ids, RefreshList(ids)
  PROVE  /\ checkStatus' = checkStatus
         /\ rows' \in Seq(Row) /\ OneRowEach(rows')
         /\ AtMostOne(rows) => \A k \in DOMAIN rows' :
                                 rows'[k].box = checkStatus[rows'[k].id]
<1>1. PICK shown : /\ IsShowing(shown, ids)
                   /\ rows' = SubSeq(shown[Len(Issues)].view, 1, shown[Len(Issues)].row)
  BY RefreshShowing
<1>2. PICK n \in Nat : n = Len(Issues) BY IssuesFact
<1>3. /\ \A i \in 0..n : shown[i] \in Shown
      /\ shown[0] = [row |-> 0, view |-> rows]
      /\ \A i \in 1..n : shown[i] = ShowStep(shown[i-1], ids, i)
  BY <1>1, <1>2 DEF IsShowing
<1>4. shown[0].row = 0 /\ shown[0].view = rows BY <1>3
<1>5. \A i \in 1..n : i - 1 \in 0..n BY <1>2
<1>6. Placed(shown[n], n)
  <2> DEFINE S == {i \in 0..n : Placed(shown[i], i)}
  <2>1. 0 \in S BY <1>4 DEF Placed
  <2>2. ASSUME NEW i \in 1..n, i - 1 \in S PROVE i \in S
    BY <1>2, <1>3, <1>5, <2>2, PlacedStep
  <2>3. \A i \in 0..n : i \in S
    <3> HIDE DEF S
    <3> QED BY <2>1, <2>2, SetInduction
  <2> QED BY <2>3
<1>7. ASSUME AtMostOne(rows) PROVE BoxesSet(shown[n])
  <2> DEFINE S == {i \in 0..n : BoxesSet(shown[i])}
  <2>1. 0 \in S BY <1>4, <1>7 DEF BoxesSet
  <2>2. ASSUME NEW i \in 1..n, i - 1 \in S PROVE i \in S
    BY <1>2, <1>3, <1>5, <2>2, BoxesStep
  <2>3. \A i \in 0..n : i \in S
    <3> HIDE DEF S
    <3> QED BY <2>1, <2>2, SetInduction
  <2> QED BY <2>3
<1>8. PICK view, row : view = shown[n].view /\ row = shown[n].row OBVIOUS
<1>9. view \in Seq(Row) /\ row \in Nat /\ row <= Len(view) BY <1>3, <1>8 DEF Shown
<1>10. rows' = SubSeq(view, 1, row) BY <1>1, <1>2, <1>8
<1>11. /\ rows' \in Seq(Row) /\ DOMAIN rows' = 1..row
       /\ \A k \in 1..row : rows'[k] = view[k]
  <2> HIDE DEF Row
  <2> QED BY <1>9, <1>10
<1>12. OneRowEach(rows') BY <1>6, <1>8, <1>11 DEF Placed, OneRowEach
<1>13. ASSUME AtMostOne(rows), NEW k \in DOMAIN rows'
       PROVE  rows'[k].box = checkStatus[rows'[k].id]
  BY <1>7, <1>8, <1>11, <1>13 DEF BoxesSet
<1>14. checkStatus' = checkStatus BY RefreshShowing
<1> QED BY <1>11, <1>12, <1>13, <1>14

(***************************************************************************)
(* A click sets the boxes and the entries of the same issues.              *)
(***************************************************************************)
LEMMA ClickFact ==
  ASSUME ViewInv, NEW k \in DOMAIN rows, OnItemChanged(k)
  PROVE  /\ rows' \in Seq(Row) /\ DOMAIN rows' = DOMAIN rows
         /\ \A i \in DOMAIN rows : rows'[i].id = rows[i].id
         /\ checkStatus' \in [Id -> BOOLEAN]
         /\ \A i \in DOMAIN rows :
              \/ rows'[i].box = checkStatus'[rows[i].id]
              \/ rows'[i] = rows[i] /\ checkStatus'[rows[i].id] = checkStatus[rows[i].id]
         /\ \A id \in Id : checkStatus'[id] # checkStatus[id] =>
              \E i \in DOMAIN rows : rows[i].id = id /\ rows'[i].box = checkStatus'[id]
<1>1. PICK checked \in BOOLEAN : checked = ~rows[k].box BY Zenon
<1>2. rows[k].box # checked BY <1>1, RowFact, Zenon DEF ViewInv
<1>3. PICK changed : changed = Following(rows, k) OBVIOUS
<1>4. HasSet(rows', rows, k, checked)
  <2>1. rows' = SetCheckState(rows, k, checked) BY <1>1, Zenon DEF OnItemChanged
  <2> QED BY <2>1, SetFact DEF ViewInv
<1>5. /\ rows' \in Seq(Row) /\ DOMAIN rows' = DOMAIN rows /\ changed \subseteq DOMAIN rows
      /\ \A i \in DOMAIN rows : /\ rows'[i].id = rows[i].id
                                /\ i \notin changed => rows'[i] = rows[i]
                                /\ i \in changed => rows'[i].box = checked
  BY <1>2, <1>3, <1>4 DEF HasSet
<1>6. checkStatus' = [id \in Id |-> IF \E i \in changed : rows[i].id = id THEN checked
                                    ELSE checkStatus[id]]
  BY <1>1, <1>3, Zenon DEF OnItemChanged, UpdateIdList
<1>7. checkStatus' \in [Id -> BOOLEAN] BY <1>6 DEF ViewInv
<1>8. \A i \in DOMAIN rows : rows[i].id \in Id BY RowFact DEF ViewInv
<1>9. ASSUME NEW i \in DOMAIN rows
      PROVE  \/ rows'[i].box = checkStatus'[rows[i].id]
             \/ rows'[i] = rows[i] /\ checkStatus'[rows[i].id] = checkStatus[rows[i].id]
  <2>1. CASE i \in changed
    <3>1. checkStatus'[rows[i].id] = checked BY <1>6, <1>8, <2>1
    <3> QED BY <1>5, <2>1, <3>1
  <2>2. CASE i \notin changed
    <3>1. \A j \in changed : rows[j].id # rows[i].id
      BY <1>5, <2>2 DEF ViewInv, OneRowEach
    <3>2. checkStatus'[rows[i].id] = checkStatus[rows[i].id] BY <1>6, <1>8, <3>1
    <3> QED BY <1>5, <2>2, <3>2
  <2> QED BY <2>1, <2>2
<1>10. ASSUME NEW id \in Id, checkStatus'[id] # checkStatus[id]
       PROVE  \E i \in DOMAIN rows : rows[i].id = id /\ rows'[i].box = checkStatus'[id]
  <2>1. PICK i \in changed : rows[i].id = id BY <1>6, <1>10
  <2>2. checkStatus'[id] = checked BY <1>6, <2>1
  <2> QED BY <1>5, <2>1, <2>2
<1> QED BY <1>5, <1>7, <1>9, <1>10

(***************************************************************************)
(* A selection leaves issues and boxes as they are.                        *)
(***************************************************************************)
LEMMA SelectFact ==
  ASSUME ViewInv, NEW chosen, Select(chosen)
  PROVE  /\ rows' \in Seq(Row) /\ DOMAIN rows' = DOMAIN rows /\ checkStatus' = checkStatus
         /\ \A i \in DOMAIN rows : rows'[i].id = rows[i].id /\ rows'[i].box = rows[i].box
<1>1. rows' = [i \in DOMAIN rows |-> [rows[i] EXCEPT !.selected = (i \in chosen)]]
  BY DEF Select
<1>2. ASSUME NEW i \in DOMAIN rows
      PROVE  /\ rows'[i] \in Row
             /\ rows'[i].id = rows[i].id /\ rows'[i].box = rows[i].box
  <2>1. PICK selected \in BOOLEAN : selected = (i \in chosen)
    <3>1. (i \in chosen) \in BOOLEAN OBVIOUS
    <3> WITNESS (i \in chosen) \in BOOLEAN
    <3> QED OBVIOUS
  <2>2. PICK old \in Row : old = rows[i] BY RowFact DEF ViewInv
  <2>3. rows'[i] = [old EXCEPT !.selected = selected] BY <1>1, <2>1, <2>2, Zenon
  <2>4. /\ [old EXCEPT !.selected = selected] \in Row
        /\ [old EXCEPT !.selected = selected].id = old.id
        /\ [old EXCEPT !.selected = selected].box = old.box
    BY DEF Row
  <2> QED BY <2>2, <2>3, <2>4
<1>3. Len(rows) \in Nat /\ DOMAIN rows = 1..Len(rows) BY DEF ViewInv
<1>4. rows' \in Seq(Row) /\ DOMAIN rows' = DOMAIN rows
  <2>1. rows' = [i \in 1..Len(rows) |-> rows'[i]] BY <1>1, <1>3
  <2> QED BY <1>2, <1>3, <2>1, RowsAreView
<1>5. checkStatus' = checkStatus BY DEF Select
<1> QED BY <1>2, <1>4, <1>5

(***************************************************************************)
(* No handler gives an issue two rows.                                     *)
(***************************************************************************)
LEMMA AlwaysViewInv == Spec => []ViewInv
<1>1. Init => ViewInv
  BY DEF Init, ViewInv, OneRowEach
<1>2. ViewInv /\ [Next]_vars => ViewInv'
  <2> SUFFICES ASSUME ViewInv, [Next]_vars PROVE ViewInv' OBVIOUS
  <2>1. ASSUME NEW ids, RefreshList(ids) PROVE ViewInv'
    BY <2>1, RefreshedRows DEF ViewInv
  <2>2. ASSUME rows' \in Seq(Row), DOMAIN rows' = DOMAIN rows,
               \A i \in DOMAIN rows : rows'[i].id = rows[i].id,
               checkStatus' \in [Id -> BOOLEAN]
        PROVE  ViewInv'
    BY <2>2 DEF ViewInv, OneRowEach
  <2>3. ASSUME NEW k \in DOMAIN rows, OnItemChanged(k) PROVE ViewInv'
    BY <2>2, <2>3, ClickFact
  <2>4. ASSUME NEW chosen, Select(chosen) PROVE ViewInv'
    BY <2>2, <2>4, SelectFact DEF ViewInv
  <2>5. CASE UNCHANGED vars BY <2>5 DEF vars, ViewInv, OneRowEach
  <2> QED BY <2>1, <2>3, <2>4, <2>5 DEF Next
<1> QED BY <1>1, <1>2, PTL DEF Spec

(***************************************************************************)
(* An issue is chosen or given up only by a click on a row that shows it,  *)
(* for any number of issues: neither RefreshList nor the messages of its   *)
(* boxes change checkStatus_.                                              *)
(***************************************************************************)
THEOREM ClicksChoose == Spec => OnlyClicksChoose
<1> DEFINE Clicked ==
      \A id \in Id :
        checkStatus'[id] # checkStatus[id] =>
          \E k \in DOMAIN rows \cap DOMAIN rows' :
            rows[k].id = id /\ rows'[k].id = id /\ rows'[k].box = checkStatus'[id]
<1>1. ViewInv /\ [Next]_vars => [Clicked]_vars
  <2> SUFFICES ASSUME ViewInv, Next PROVE Clicked OBVIOUS
  <2>1. CASE checkStatus' = checkStatus BY <2>1
  <2>2. ASSUME NEW k \in DOMAIN rows, OnItemChanged(k) PROVE Clicked
    BY <2>2, ClickFact
  <2> QED BY <2>1, <2>2, RefreshedRows, SelectFact DEF Next
<1>2. Spec => [][Clicked]_vars
  <2> HIDE DEF Clicked
  <2> QED BY <1>1, AlwaysViewInv, PTL DEF Spec
<1> QED BY <1>2 DEF OnlyClicksChoose

(***************************************************************************)
(* With at most one row selected, there are no two of them.                *)
(***************************************************************************)
LEMMA OneSelected ==
  ASSUME ViewInv, Cardinality(Selected(rows)) <= 1
  PROVE  AtMostOne(rows)
<1>1. IsFiniteSet(Selected(rows))
  <2>1. Len(rows) \in Nat /\ DOMAIN rows = 1..Len(rows) BY DEF ViewInv
  <2>2. IsFiniteSet(1..Len(rows)) BY <2>1, FS_Interval
  <2>3. Selected(rows) \subseteq 1..Len(rows) BY <2>1 DEF Selected
  <2> QED BY <2>2, <2>3, FS_Subset
<1>2. PICK S : S = Selected(rows) OBVIOUS
<1>3. Cardinality(S) \in Nat /\ Cardinality(S) <= 1 BY <1>1, <1>2, FS_CardinalityType
<1>4. Cardinality(S) = 0 \/ Cardinality(S) = 1 BY <1>3
<1>5. S = {} \/ \E x : S = {x} BY <1>1, <1>2, <1>4, FS_EmptySet, FS_Singleton
<1>6. \A i, j \in S : i = j BY <1>5
<1> QED BY <1>2, <1>6 DEF Selected, AtMostOne

(***************************************************************************)
(* The screen shows the choice after every RefreshList that finds at most  *)
(* one row selected, and clicks and selections keep it so, for any number  *)
(* of issues.                                                              *)
(***************************************************************************)
THEOREM ScreenShowsChoice == Spec => ScreenStaysChoice
<1> DEFINE Right ==
      IF Refresh THEN Cardinality(Selected(rows)) <= 1 => ScreenIsChoice'
      ELSE ScreenIsChoice => ScreenIsChoice'
<1>1. ViewInv /\ [Next]_vars => [Right]_vars
  <2> SUFFICES ASSUME ViewInv, Next PROVE Right OBVIOUS
  <2>1. ASSUME NEW ids, RefreshList(ids), Cardinality(Selected(rows)) <= 1
        PROVE  ScreenIsChoice'
    BY <2>1, OneSelected, RefreshedRows DEF ScreenIsChoice
  <2>2. ASSUME NEW k \in DOMAIN rows, OnItemChanged(k), ScreenIsChoice
        PROVE  ScreenIsChoice'
    BY <2>2, ClickFact DEF ScreenIsChoice
  <2>3. ASSUME NEW chosen, Select(chosen), ScreenIsChoice PROVE ScreenIsChoice'
    BY <2>3, SelectFact DEF ScreenIsChoice
  <2> QED BY <2>1, <2>2, <2>3 DEF Next, Refresh
<1>2. Spec => [][Right]_vars
  <2> HIDE DEF Right
  <2> QED BY <1>1, AlwaysViewInv, PTL DEF Spec
<1> QED BY <1>2 DEF ScreenStaysChoice
=============================================================================
