--------------------------- MODULE ErcItemsProofs ---------------------------
(***************************************************************************)
(* Machine-checked theorems about ErcItems, for every set of vratmitras,   *)
(* pool items, ids and request slots.                                      *)
(*                                                                         *)
(* The argument is that the time columns only ever fill up: what a handler *)
(* has read of them is still so when it writes, whatever the status became *)
(* in between.  Rows and notes grow (RowGrows, NoteGrows), what a request  *)
(* relies on (Grounded) is preserved by growth, and each action is looked  *)
(* at only for the row and the request it changes.                         *)
(***************************************************************************)
EXTENDS ErcItems, TLAPS

-----------------------------------------------------------------------------
(* The inductive invariant *)

(* A row went the whole way to its status; an id not handed out is blank. *)
SoundRow(row) ==
    /\ row \in Item
    /\ row.status = "in_progress" => row.started
    /\ row.status \in {"submitted", "revisit"} => row.submitted
    /\ row.status = "approved" => row.approved
    /\ row.approved => row.submitted
    /\ row.submitted \/ row.checked => row.started
    /\ row.status = "absent" => row = NoItem

(* What a request past its first step relies on, of its item and its note. *)
Relies(q, row, n) ==
    /\ row.status # "absent"
    /\ q.tell # {} => q.op = "submit"
    /\ q.pc = "write" =>
          /\ q.op \in ItemOp \ NoteOp
          /\ q.op \in {"submit", "checkin"} => row.started
          /\ q.op \in {"selfapprove", "approve", "revisit"} => row.submitted
    /\ q.pc \in {"find", "mark"} => q.op \in NoteOp
    /\ q.pc = "notify" =>
          /\ q.op \in {"submit", "approve", "revisit", "suggest", "unsuggest"}
          /\ q.op \in {"submit", "revisit"} => row.submitted
          /\ q.op = "approve" => row.approved
          /\ q.op \in {"suggest", "unsuggest"} => n.state # "none"

Busy(q) ==
    \/ q.pc \in {"write", "find", "mark", "notify"}
    \/ q.pc = "check" /\ q.op \in ItemOp

Grounded(q) == Busy(q) => q.item \in ItemId /\ Relies(q, items[q.item], note[q.item])

IInv ==
    /\ TypeOK
    /\ \A i \in ItemId : SoundRow(items[i])
    /\ \A r \in Req : Grounded(req[r])
    /\ NoticesAreTrue

LEMMA WentTheWayFollows == IInv => WentTheWay
  BY DEF IInv, WentTheWay, SoundRow

-----------------------------------------------------------------------------
(* Growth *)

RowGrows(old, new) ==
    /\ new \in Item
    /\ old.status # "absent" =>
          /\ new.status # "absent"
          /\ old.started => new.started
          /\ old.submitted => new.submitted
          /\ old.approved => new.approved

NoteGrows(old, new) == new \in Note /\ (old.state # "none" => new.state # "none")

LEMMA RowStands == ASSUME NEW row \in Item PROVE RowGrows(row, row)
  BY DEF RowGrows

LEMMA NoteStands == ASSUME NEW n \in Note PROVE NoteGrows(n, n)
  BY DEF NoteGrows

LEMMA StillRelies ==
    ASSUME NEW q \in Request, NEW row, NEW row2, NEW n, NEW n2,
           Relies(q, row, n), RowGrows(row, row2), NoteGrows(n, n2)
    PROVE  Relies(q, row2, n2)
  BY DEF Relies, RowGrows, NoteGrows

(* Every row and note grows, every row stays sound. *)
Grows ==
    /\ items' \in [ItemId -> Item] /\ note' \in [ItemId -> Note]
    /\ \A i \in ItemId : SoundRow(items'[i]) /\ RowGrows(items[i], items'[i])
    /\ \A i \in ItemId : NoteGrows(note[i], note'[i])

LEMMA StillGrounded ==
    ASSUME Grows, NEW q \in Request, Grounded(q)
    PROVE  Busy(q) => q.item \in ItemId /\ Relies(q, items'[q.item], note'[q.item])
<1> SUFFICES ASSUME Busy(q) PROVE q.item \in ItemId /\ Relies(q, items'[q.item], note'[q.item])
  OBVIOUS
<1>1. q.item \in ItemId /\ Relies(q, items[q.item], note[q.item])
  BY DEF Grounded
<1>2. RowGrows(items[q.item], items'[q.item]) /\ NoteGrows(note[q.item], note'[q.item])
  BY <1>1 DEF Grows
<1> QED BY <1>1, <1>2, StillRelies

LEMMA UnchangedGrows ==
    ASSUME IInv, UNCHANGED <<items, note>> PROVE Grows
<1>1. \A i \in ItemId : SoundRow(items[i]) /\ items[i] \in Item /\ note[i] \in Note
  BY DEF IInv, TypeOK
<1>2. \A i \in ItemId : RowGrows(items[i], items[i]) /\ NoteGrows(note[i], note[i])
  BY <1>1, RowStands, NoteStands
<1> QED BY <1>1, <1>2 DEF Grows, IInv, TypeOK

LEMMA UpdateGrows ==
    ASSUME IInv, NEW i \in ItemId, NEW row, Update(i, row), UNCHANGED note,
           SoundRow(row), RowGrows(items[i], row)
    PROVE  Grows
<1>1. \A k \in ItemId : SoundRow(items[k]) /\ items[k] \in Item /\ note[k] \in Note
  BY DEF IInv, TypeOK
<1>2. \A k \in ItemId : RowGrows(items[k], items[k]) /\ NoteGrows(note[k], note[k])
  BY <1>1, RowStands, NoteStands
<1>3. row \in Item
  BY DEF SoundRow
<1>4. /\ items' \in [ItemId -> Item] /\ items'[i] = row
      /\ \A k \in ItemId \ {i} : items'[k] = items[k]
  BY <1>3 DEF Update, IInv, TypeOK
<1> QED BY <1>1, <1>2, <1>4 DEF Grows, IInv, TypeOK

LEMMA NoteUpdateGrows ==
    ASSUME IInv, NEW i \in ItemId, NEW n \in Note, n.state # "none" \/ n.state = note[i].state,
           note' = [note EXCEPT ![i] = n], UNCHANGED items
    PROVE  Grows
<1>1. \A k \in ItemId : SoundRow(items[k]) /\ items[k] \in Item /\ note[k] \in Note
  BY DEF IInv, TypeOK
<1>2. \A k \in ItemId : RowGrows(items[k], items[k]) /\ NoteGrows(note[k], note[k])
  BY <1>1, RowStands, NoteStands
<1>3. /\ note' \in [ItemId -> Note] /\ note'[i] = n
      /\ \A k \in ItemId \ {i} : note'[k] = note[k]
  BY DEF IInv, TypeOK
<1>4. NoteGrows(note[i], n)
  BY DEF NoteGrows
<1> QED BY <1>1, <1>2, <1>3, <1>4 DEF Grows, IInv, TypeOK

-----------------------------------------------------------------------------
(* Steps of a request: what is written grows, what it holds next is        *)
(* grounded, and it sends nothing or what is true.                         *)

LEMMA ContinueStep ==
    ASSUME IInv, Grows, NEW r \in Req, NEW next \in Request, Continue(r, next),
           Busy(next) => next.item \in ItemId
                         /\ Relies(next, items'[next.item], note'[next.item]),
           UNCHANGED <<assigned, globalVms>>
    PROVE  IInv'
<1>1. req' \in [Req -> Request] /\ req'[r] = next
      /\ \A k \in Req \ {r} : req'[k] = req[k]
  BY DEF Continue, IInv, TypeOK
<1>2. sent' = {}
  BY DEF Continue
<1>3. ASSUME NEW k \in Req PROVE Grounded(req[k])'
  <2>1. CASE k = r
    BY <1>1, <2>1 DEF Grounded
  <2>2. CASE k # r
    <3>1. req[k] \in Request /\ Grounded(req[k]) /\ req'[k] = req[k]
      BY <1>1, <2>2 DEF IInv, TypeOK
    <3> QED BY <3>1, StillGrounded DEF Grounded
  <2> QED BY <2>1, <2>2
<1> QED BY <1>1, <1>2, <1>3 DEF IInv, TypeOK, NoticesAreTrue, Grows

LEMMA IdleType == Idle \in Request /\ ~Busy(Idle)
  BY DEF Request, Idle, Op, Busy

LEMMA FinishStep ==
    ASSUME IInv, Grows, NEW r \in Req, Finish(r, {}), UNCHANGED <<assigned, globalVms>>
    PROVE  IInv'
<1>1. Continue(r, Idle)
  BY DEF Finish, Continue
<1> QED BY <1>1, IdleType, ContinueStep

(* What the request in slot r holds. *)
LEMMA RequestType ==
    ASSUME IInv, NEW r \in Req
    PROVE  /\ req[r] \in Request /\ req[r].op \in Op
           /\ req[r].item \in ItemId \cup {None} /\ req[r].pool \in Pool \cup {None}
           /\ req[r].tell \in SUBSET Vratmitra /\ req[r].mayApprove \in BOOLEAN
           /\ Busy(req[r]) => /\ req[r].item \in ItemId
                              /\ Relies(req[r], items[req[r].item], note[req[r].item])
  BY DEF IInv, TypeOK, Request, Grounded

LEMMA AtType ==
    ASSUME IInv, NEW r \in Req,
           NEW pc \in {"check", "write", "insert", "find", "mark", "notify"}
    PROVE  LET next == [req[r] EXCEPT !.pc = pc] IN
           /\ next \in Request /\ next.pc = pc /\ next.op = req[r].op
           /\ next.item = req[r].item /\ next.tell = req[r].tell
  BY RequestType DEF Request

-----------------------------------------------------------------------------
(* One lemma per action *)

LEMMA EnterKeeps ==
    ASSUME IInv, NEW r \in Req, NEW u \in User, NEW op \in Op,
           NEW i \in ItemId \cup {None}, NEW p \in Pool \cup {None},
           NEW pc \in {"check", "insert"}, Enter(r, u, op, i, p, pc),
           pc = "check" /\ op \in ItemOp => i \in ItemId /\ Exists(i)
    PROVE  IInv'
<1> DEFINE may == op = "selfapprove" /\ Permitted(u, "approve")
           tell(g) == IF op = "submit" THEN Mentors(u, g) ELSE {}
           next(t) == [pc |-> pc, op |-> op, user |-> u, item |-> i, pool |-> p,
                       mayApprove |-> may, tell |-> t]
<1>1. PICK globalVm \in FindFirst(globalVms) : Continue(r, next(tell(globalVm)))
  BY DEF Enter
<1>2. PICK t \in SUBSET Vratmitra : t = tell(globalVm)
  BY DEF Mentors, FindFirst, IInv, TypeOK
<1>3. op # "submit" => t = {}
  BY <1>2
<1>4. Continue(r, next(t)) /\ UNCHANGED <<items, note, assigned, globalVms>>
  BY <1>1, <1>2 DEF Enter
<1> HIDE DEF may, tell
<1>5. next(t) \in Request
  <2>1. may \in BOOLEAN
    BY DEF may
  <2> QED BY <2>1 DEF Request
<1>6. Grows
  BY <1>4, UnchangedGrows
<1>7. Busy(next(t)) => /\ next(t).item \in ItemId
                       /\ Relies(next(t), items'[next(t).item], note'[next(t).item])
  BY <1>3, <1>4 DEF Busy, Relies, Exists
<1> HIDE DEF next
<1> QED BY <1>4, <1>5, <1>6, <1>7, ContinueStep

LEMMA CheckKeeps ==
    ASSUME IInv, NEW r \in Req, Check(r) PROVE IInv'
<1> DEFINE i == req[r].item
           pc == IF req[r].op \in NoteOp THEN "find" ELSE "write"
           next == [req[r] EXCEPT !.pc = pc]
<1>1. UNCHANGED <<items, note, assigned, globalVms>> /\ req[r].pc = "check"
      /\ req[r].op \in ItemOp
  BY DEF Check
<1>2. Grows
  BY <1>1, UnchangedGrows
<1>3. i \in ItemId /\ Relies(req[r], items[i], note[i]) /\ SoundRow(items[i])
  BY <1>1, RequestType DEF Busy, IInv
<1>4. CASE Exists(i) /\ Allowed(items[i], req[r].op, req[r].mayApprove)
  <2>1. Continue(r, next)
    BY <1>4 DEF Check, At
  <2> HIDE DEF pc
  <2>2. /\ next \in Request /\ next.pc = pc /\ next.op = req[r].op /\ next.item = i
        /\ next.tell = req[r].tell
    <3>1. pc \in {"check", "write", "insert", "find", "mark", "notify"}
      BY DEF pc
    <3> QED BY <3>1, AtType
  <2>3. /\ req[r].op \in {"submit", "checkin"} => items[i].started
        /\ req[r].op \in {"selfapprove", "approve", "revisit"} => items[i].submitted
    BY <1>3, <1>4 DEF Allowed, Worked, Before, StatusOp, SoundRow
  <2> HIDE DEF next
  <2>4. Relies(next, items'[i], note'[i])
    BY <1>1, <1>3, <2>2, <2>3 DEF Relies, pc
  <2> QED BY <1>1, <1>2, <1>3, <2>1, <2>2, <2>4, ContinueStep
<1>5. CASE ~(Exists(i) /\ Allowed(items[i], req[r].op, req[r].mayApprove))
  <2>1. Finish(r, {})
    BY <1>5 DEF Check
  <2> QED BY <1>1, <1>2, <2>1, FinishStep
<1> QED BY <1>4, <1>5

LEMMA SelectCheckKeeps ==
    ASSUME IInv, NEW r \in Req, SelectCheck(r) PROVE IInv'
<1> DEFINE next == [req[r] EXCEPT !.pc = "insert"]
<1>1. UNCHANGED <<items, note, assigned, globalVms>> /\ Grows
  BY UnchangedGrows DEF SelectCheck
<1>2. next \in Request /\ ~Busy(next)
  BY AtType DEF Busy
<1>3. Continue(r, next) \/ Finish(r, {})
  BY DEF SelectCheck, At
<1> HIDE DEF next
<1> QED BY <1>1, <1>2, <1>3, ContinueStep, FinishStep

LEMMA InsertKeeps ==
    ASSUME IInv, NEW r \in Req, Insert(r) PROVE IInv'
<1> DEFINE row == NewItem(req[r].pool)
<1>1. PICK i \in FreeId : Update(i, row)
  BY DEF Insert
<1>2. i \in ItemId /\ items[i].status = "absent"
  BY DEF FreeId
<1>3. SoundRow(row)
  BY RequestType DEF NewItem, NoItem, SoundRow, Item, Status
<1>4. RowGrows(items[i], row)
  BY <1>2, <1>3 DEF RowGrows, SoundRow
<1> HIDE DEF row
<1>5. UNCHANGED <<note, assigned, globalVms>> /\ Finish(r, {})
  BY DEF Insert
<1> QED BY <1>1, <1>2, <1>3, <1>4, <1>5, UpdateGrows, FinishStep

(* The UPDATE of the status leaves a sound row. *)
LEMMA WithStatusSound ==
    ASSUME NEW row, SoundRow(row), row.status # "absent", NEW s \in Status,
           s = "submitted" => row.started,
           s \in {"approved", "revisit"} => row.submitted
    PROVE  /\ SoundRow(WithStatus(row, s)) /\ RowGrows(row, WithStatus(row, s))
           /\ s = "submitted" => WithStatus(row, s).submitted
           /\ s = "approved" => WithStatus(row, s).approved
  BY DEF SoundRow, RowGrows, WithStatus, Item, Status

LEMMA StatusWriteKeeps ==
    ASSUME IInv, NEW r \in Req, StatusWrite(r) PROVE IInv'
<1> DEFINE i == req[r].item
           s == Target(req[r].op)
           row == WithStatus(items[i], s)
           next == [req[r] EXCEPT !.pc = "notify"]
<1>1. /\ req[r].pc = "write" /\ req[r].op \in StatusOp
      /\ UNCHANGED <<note, assigned, globalVms>>
  BY DEF StatusWrite
<1>2. i \in ItemId /\ Relies(req[r], items[i], note[i]) /\ SoundRow(items[i])
  BY <1>1, RequestType DEF Busy, IInv
<1>3. CASE Exists(i)
  <2>1. /\ Update(i, row)
        /\ \/ Finish(r, {})
           \/ /\ req[r].op \in {"approve", "revisit"} \/ req[r].tell # {}
              /\ Continue(r, next)
    BY <1>3 DEF StatusWrite, At
  <2>2. /\ s \in Status
        /\ s = "submitted" => items[i].started
        /\ s \in {"approved", "revisit"} => items[i].submitted
    BY <1>1, <1>2 DEF Target, Relies, StatusOp, Status
  <2>3. items[i].status # "absent"
    BY <1>3 DEF Exists
  <2>4. /\ SoundRow(row) /\ RowGrows(items[i], row)
        /\ s = "submitted" => row.submitted
        /\ s = "approved" => row.approved
    BY <1>2, <2>2, <2>3, WithStatusSound
  <2> HIDE DEF row
  <2>5. Grows
    BY <1>1, <1>2, <2>1, <2>4, UpdateGrows
  <2>6. items'[i] = row /\ note'[i] = note[i]
    BY <1>1, <1>2, <2>1 DEF Update, IInv, TypeOK
  <2>7. CASE Finish(r, {})
    BY <1>1, <2>5, <2>7, FinishStep
  <2>8. CASE /\ req[r].op \in {"approve", "revisit"} \/ req[r].tell # {}
             /\ Continue(r, next)
    <3>1. /\ next \in Request /\ next.pc = "notify" /\ next.op = req[r].op
          /\ next.item = i /\ next.tell = req[r].tell
      BY AtType
    <3> HIDE DEF next
    <3>2. req[r].op \in {"submit", "approve", "revisit"}
      BY <1>2, <2>8 DEF Relies
    <3>3. Relies(next, row, note[i])
      BY <1>1, <1>2, <2>3, <2>4, <3>1, <3>2 DEF Relies, Target, RowGrows
    <3> QED BY <1>1, <1>2, <2>5, <2>6, <2>8, <3>1, <3>3, ContinueStep
  <2> QED BY <2>1, <2>7, <2>8
<1>4. CASE ~Exists(i)
  <2>1. UNCHANGED items /\ Finish(r, {})
    BY <1>4 DEF StatusWrite
  <2> QED BY <1>1, <2>1, UnchangedGrows, FinishStep
<1> QED BY <1>3, <1>4

LEMMA RowWriteKeeps ==
    ASSUME IInv, NEW r \in Req, RowWrite(r) PROVE IInv'
<1> DEFINE i == req[r].item
           op == req[r].op
           row == CASE op \in FlagOp -> [items[i] EXCEPT !.off = op = "deactivate"]
                    [] op = "remove" -> [items[i] EXCEPT !.status = "removed"]
                    [] OTHER -> [items[i] EXCEPT !.checked = TRUE]
<1>1. /\ req[r].pc = "write" /\ op \in FlagOp \cup {"remove", "checkin"}
      /\ UNCHANGED <<note, assigned, globalVms>> /\ Finish(r, {})
  BY DEF RowWrite
<1>2. i \in ItemId /\ Relies(req[r], items[i], note[i]) /\ SoundRow(items[i])
  BY <1>1, RequestType DEF Busy, IInv
<1>3. CASE Exists(i)
  <2>1. Update(i, row)
    BY <1>3 DEF RowWrite
  <2>2. items[i].status # "absent" /\ (op = "checkin" => items[i].started)
    BY <1>1, <1>2 DEF Relies
  <2>3. SoundRow(row) /\ RowGrows(items[i], row)
    <3>1. CASE op \in FlagOp
      BY <1>2, <2>2, <3>1 DEF SoundRow, RowGrows, Item
    <3>2. CASE op = "remove"
      BY <1>2, <2>2, <3>2 DEF SoundRow, RowGrows, Item, FlagOp
    <3>3. CASE op = "checkin"
      BY <1>2, <2>2, <3>3 DEF SoundRow, RowGrows, Item, FlagOp
    <3> QED BY <1>1, <3>1, <3>2, <3>3
  <2> HIDE DEF row
  <2> QED BY <1>1, <1>2, <2>1, <2>3, UpdateGrows, FinishStep
<1>4. CASE ~Exists(i)
  <2>1. UNCHANGED items
    BY <1>4 DEF RowWrite
  <2> QED BY <1>1, <2>1, UnchangedGrows, FinishStep
<1> QED BY <1>3, <1>4

LEMMA SuggestWriteKeeps ==
    ASSUME IInv, NEW r \in Req, SuggestWrite(r) PROVE IInv'
<1> DEFINE i == req[r].item
           fresh == [state |-> "live", acked |-> FALSE]
           next == [req[r] EXCEPT !.pc = "notify"]
<1>1. /\ req[r].pc = "write" /\ req[r].op = "suggest"
      /\ UNCHANGED <<items, assigned, globalVms>>
  BY DEF SuggestWrite
<1>2. i \in ItemId /\ Relies(req[r], items[i], note[i])
  BY <1>1, RequestType DEF Busy
<1>3. CASE Exists(i)
  <2>1. note' = [note EXCEPT ![i] = fresh] /\ Continue(r, next)
    BY <1>3 DEF SuggestWrite, At
  <2>2. fresh \in Note /\ fresh.state = "live"
    BY DEF Note
  <2> HIDE DEF fresh
  <2>3. Grows
    BY <1>1, <1>2, <2>1, <2>2, NoteUpdateGrows
  <2>4. note'[i] = fresh /\ items'[i] = items[i]
    BY <1>1, <1>2, <2>1 DEF IInv, TypeOK
  <2>5. /\ next \in Request /\ next.pc = "notify" /\ next.op = req[r].op
        /\ next.item = i /\ next.tell = req[r].tell
    BY AtType
  <2> HIDE DEF next
  <2>6. Relies(next, items[i], fresh)
    BY <1>1, <1>2, <2>2, <2>5 DEF Relies
  <2> QED BY <1>1, <1>2, <2>1, <2>3, <2>4, <2>5, <2>6, ContinueStep
<1>4. CASE ~Exists(i)
  <2>1. UNCHANGED note /\ Finish(r, {})
    BY <1>4 DEF SuggestWrite
  <2> QED BY <1>1, <2>1, UnchangedGrows, FinishStep
<1> QED BY <1>3, <1>4

LEMMA NoteFindKeeps ==
    ASSUME IInv, NEW r \in Req, NoteFind(r) PROVE IInv'
<1> DEFINE i == req[r].item
           next == [req[r] EXCEPT !.pc = "mark"]
<1>1. /\ UNCHANGED <<items, note, assigned, globalVms>> /\ req[r].pc = "find"
      /\ Continue(r, next) \/ Finish(r, {})
  BY DEF NoteFind, At
<1>2. i \in ItemId /\ Relies(req[r], items[i], note[i])
  BY <1>1, RequestType DEF Busy
<1>3. Grows
  BY <1>1, UnchangedGrows
<1>4. /\ next \in Request /\ next.pc = "mark" /\ next.op = req[r].op
      /\ next.item = i /\ next.tell = req[r].tell
  BY AtType
<1> HIDE DEF next
<1>5. Relies(next, items'[i], note'[i])
  BY <1>1, <1>2, <1>4 DEF Relies
<1> QED BY <1>1, <1>2, <1>3, <1>4, <1>5, ContinueStep, FinishStep

LEMMA NoteMarkKeeps ==
    ASSUME IInv, NEW r \in Req, NoteMark(r) PROVE IInv'
<1> DEFINE i == req[r].item
           revoked == [state |-> "revoked", acked |-> FALSE]
           read == [note[i] EXCEPT !.acked = TRUE]
           next == [req[r] EXCEPT !.pc = "notify"]
<1>1. req[r].pc = "mark" /\ UNCHANGED <<items, assigned, globalVms>>
  BY DEF NoteMark
<1>2. i \in ItemId /\ Relies(req[r], items[i], note[i]) /\ note[i] \in Note
  BY <1>1, RequestType DEF Busy, IInv, TypeOK
<1>3. CASE req[r].op = "unsuggest"
  <2>1. note' = [note EXCEPT ![i] = revoked] /\ Continue(r, next)
    BY <1>3 DEF NoteMark, At
  <2>2. revoked \in Note /\ revoked.state = "revoked"
    BY DEF Note
  <2> HIDE DEF revoked
  <2>3. Grows
    BY <1>1, <1>2, <2>1, <2>2, NoteUpdateGrows
  <2>4. note'[i] = revoked /\ items'[i] = items[i]
    BY <1>1, <1>2, <2>1 DEF IInv, TypeOK
  <2>5. /\ next \in Request /\ next.pc = "notify" /\ next.op = req[r].op
        /\ next.item = i /\ next.tell = req[r].tell
    BY AtType
  <2> HIDE DEF next
  <2>6. Relies(next, items[i], revoked)
    BY <1>2, <1>3, <2>2, <2>5 DEF Relies
  <2> QED BY <1>1, <1>2, <2>1, <2>3, <2>4, <2>5, <2>6, ContinueStep
<1>4. CASE req[r].op # "unsuggest"
  <2>1. note' = [note EXCEPT ![i] = read] /\ Finish(r, {})
    BY <1>4 DEF NoteMark
  <2>2. read \in Note /\ read.state = note[i].state
    BY <1>2 DEF Note
  <2> HIDE DEF read
  <2> QED BY <1>1, <1>2, <2>1, <2>2, NoteUpdateGrows, FinishStep
<1> QED BY <1>3, <1>4

LEMMA NotifyKeeps ==
    ASSUME IInv, NEW r \in Req, Notify(r) PROVE IInv'
<1> DEFINE i == req[r].item
           op == req[r].op
           to == IF op = "submit" THEN req[r].tell ELSE {Owner}
<1>1. /\ req[r].pc = "notify" /\ UNCHANGED <<items, note, assigned, globalVms>>
      /\ req' = [req EXCEPT ![r] = Idle]
      /\ sent' = {[op |-> op, to |-> u, item |-> i] : u \in to}
  BY DEF Notify, Finish
<1>2. i \in ItemId /\ Relies(req[r], items[i], note[i])
  BY <1>1, RequestType DEF Busy
<1>3. to \subseteq User /\ op \in ItemOp
  BY <1>1, <1>2, RequestType DEF User, Relies, ItemOp, StatusOp, NoteOp
<1> HIDE DEF to
<1>4. sent' \in SUBSET Notice
  BY <1>1, <1>2, <1>3 DEF Notice
<1>5. NoticesAreTrue'
  BY <1>1, <1>2 DEF NoticesAreTrue, Relies
<1>6. req' \in [Req -> Request] /\ \A k \in Req : Grounded(req[k])'
  BY <1>1, IdleType DEF IInv, TypeOK, Grounded
<1> QED BY <1>1, <1>4, <1>5, <1>6 DEF IInv, TypeOK

LEMMA AbortKeeps ==
    ASSUME IInv, NEW r \in Req, Abort(r) PROVE IInv'
  BY UnchangedGrows, FinishStep DEF Abort

LEMMA RelateKeeps ==
    ASSUME IInv, Relate
    PROVE  IInv'
<1>1. UNCHANGED <<items, note, req>> /\ sent' = {}
  BY DEF Relate
<1>2. assigned' \in SUBSET Vratmitra /\ globalVms' \in SUBSET Vratmitra
  BY DEF IInv, TypeOK, Relate, Mentor!Next, Mentor!Assign, Mentor!Unassign,
         Mentor!GlobalBegin, Mentor!GlobalEnd
<1> QED BY <1>1, <1>2 DEF IInv, TypeOK, Grounded, NoticesAreTrue

-----------------------------------------------------------------------------
(* The invariant holds initially and is preserved. *)

LEMMA InitInv == Init => IInv
<1> SUFFICES ASSUME Init PROVE IInv
  OBVIOUS
<1>1. NoItem \in Item /\ SoundRow(NoItem)
  BY DEF NoItem, Item, SoundRow
<1>2. [state |-> "none", acked |-> FALSE] \in Note
  BY DEF Note
<1> QED BY <1>1, <1>2, IdleType DEF Init, Mentor!Init, IInv, TypeOK, Grounded, NoticesAreTrue

LEMMA StepInv == IInv /\ [Next]_vars => IInv'
<1> SUFFICES ASSUME IInv, [Next]_vars PROVE IInv'
  OBVIOUS
<1>1. ASSUME NEW r \in Req, Arrive(r) PROVE IInv'
  <2>1. ASSUME NEW u \in User, NEW i \in ItemId, NEW op \in ItemOp, EnterItem(r, u, op, i)
        PROVE  IInv'
    BY <2>1, EnterKeeps DEF EnterItem, Op
  <2>2. ASSUME NEW u \in User, NEW p \in Pool, EnterSelect(r, u, p)
        PROVE  IInv'
    BY <2>2, EnterKeeps DEF EnterSelect, Op, ItemOp, StatusOp, FlagOp, NoteOp
  <2>3. ASSUME NEW u \in User, EnterCreate(r, u)
        PROVE  IInv'
    BY <2>3, EnterKeeps DEF EnterCreate, Op
  <2> QED BY <1>1, <2>1, <2>2, <2>3 DEF Arrive
<1>2. ASSUME NEW r \in Req, Advance(r) PROVE IInv'
  BY <1>2, CheckKeeps, SelectCheckKeeps, InsertKeeps, StatusWriteKeeps, RowWriteKeeps,
     SuggestWriteKeeps, NoteFindKeeps, NoteMarkKeeps, NotifyKeeps DEF Advance
<1>3. ASSUME NEW r \in Req, Abort(r) PROVE IInv'
  BY <1>3, AbortKeeps
<1>4. CASE Relate
  BY <1>4, RelateKeeps
<1>5. CASE UNCHANGED vars
  BY <1>5 DEF vars, IInv, TypeOK, Grounded, NoticesAreTrue
<1> QED BY <1>1, <1>2, <1>3, <1>4, <1>5 DEF Next

-----------------------------------------------------------------------------
(* Rows, notes, requests and notices keep their shape. *)
THEOREM TypeCorrect == Spec => []TypeOK
<1>1. IInv => TypeOK
  BY DEF IInv
<1> QED BY <1>1, InitInv, StepInv, PTL DEF Spec

(* Whatever handlers race, an item went the whole way to the status it has: *)
(* nothing is approved or returned that was never submitted.                *)
THEOREM Way == Spec => []WentTheWay
  BY InitInv, StepInv, WentTheWayFollows, PTL DEF Spec

(* Whatever handlers race, what a notification tells of has happened. *)
THEOREM NoticesTrue == Spec => []NoticesAreTrue
<1>1. IInv => NoticesAreTrue
  BY DEF IInv
<1> QED BY <1>1, InitInv, StepInv, PTL DEF Spec
=============================================================================
