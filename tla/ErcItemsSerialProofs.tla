------------------------ MODULE ErcItemsSerialProofs ------------------------
(***************************************************************************)
(* Machine-checked theorems about ErcItems with one handler at a time, for *)
(* every set of vratmitras, pool items, ids and request slots, although    *)
(* any handler may die: what a handler has checked is still so when it     *)
(* writes.  The last one is about handlers that race: how often a pool     *)
(* item can be in a journey then.                                          *)
(***************************************************************************)
EXTENDS ErcItemsProofs, FiniteSetTheorems

-----------------------------------------------------------------------------
(* The inductive invariant *)

OneAtWork == \A p, q \in Req : req[p].pc # "idle" /\ req[q].pc # "idle" => p = q

(* Whoever is let through to approve is a vratmitra, while there is one. *)
Approver(q, asg) == asg = {} \/ q.user \in asg

There(row) == row.status \notin {"absent", "removed"}

(* Everybody assigned, and one of the others if there is one. *)
AllToTell(asg, globs, tell) ==
    \E globalVm \in FindFirst(globs) : (asg \cup {globalVm}) \ {Owner, None} = tell

(* What a request has found out by its next statement, and is still so. *)
Knows(q, its, nts, asg, globs) ==
    /\ q.pc = "idle" => q.item = None
    /\ q.pc \in {"check", "write"} =>
          /\ q.op = "approve" => Approver(q, asg)
          /\ q.op = "selfapprove" /\ q.mayApprove => Approver(q, asg)
          /\ q.op = "submit" => AllToTell(asg, globs, q.tell)
    /\ q.pc = "write" => There(its[q.item]) /\ Allowed(its[q.item], q.op, q.mayApprove)
    /\ q.pc = "mark" => nts[q.item].state = "live"
    /\ q.pc = "insert" =>
          q.pool = None \/ \A i \in ItemId : There(its[i]) => its[i].pool # q.pool

SamePool(i, k) ==
    Exists(i) /\ Exists(k) /\ items[i].pool # None /\ items[i].pool = items[k].pool

OneSelected == \A i, k \in ItemId : SamePool(i, k) => i = k

SInv ==
    /\ IInv
    /\ OneAtWork
    /\ OneSelected
    /\ RevokedIsUnread
    /\ \A r \in Req : Knows(req[r], items, note, assigned, globalVms)

LEMMA SelectedCounts == SInv => OneSelectionPerPool
<1> SUFFICES ASSUME SInv, NEW p \in Pool PROVE Cardinality(Selected(p)) <= 1
  BY DEF OneSelectionPerPool
<1>1. CASE Selected(p) = {}
  <2>1. Cardinality(Selected(p)) = 0
    BY <1>1, FS_EmptySet
  <2> QED BY <2>1
<1>2. CASE Selected(p) # {}
  <2>1. PICK i \in Selected(p) : TRUE
    BY <1>2
  <2>2. p # None
    BY ErcAssumption
  <2>3. Selected(p) = {i}
    BY <2>1, <2>2 DEF SInv, OneSelected, SamePool, Selected
  <2>4. Cardinality(Selected(p)) = 1
    BY <2>3, FS_Singleton
  <2> QED BY <2>4
<1> QED BY <1>1, <1>2

-----------------------------------------------------------------------------
(* One handler at a time *)

Quiet == \A q \in Req : req[q].pc = "idle"

LEMMA SlotAlone ==
    ASSUME SInv, NEW r \in Req, NEW next, req' = [req EXCEPT ![r] = next],
           Quiet \/ req[r].pc # "idle"
    PROVE  /\ OneAtWork' /\ req'[r] = next
           /\ \A q \in Req \ {r} : req'[q] = req[q] /\ req'[q].pc = "idle"
<1>1. req \in [Req -> Request]
  BY DEF SInv, IInv, TypeOK
<1>2. \A q \in Req \ {r} : req[q].pc = "idle"
  BY DEF SInv, OneAtWork, Quiet
<1> QED BY <1>1, <1>2 DEF OneAtWork

LEMMA StepAlone ==
    ASSUME SInv, IInv', NEW r \in Req, NEW next, req' = [req EXCEPT ![r] = next],
           Quiet \/ req[r].pc # "idle",
           OneSelected', RevokedIsUnread', Knows(next, items', note', assigned', globalVms')
    PROVE  SInv'
<1>1. /\ OneAtWork' /\ req'[r] = next
      /\ \A q \in Req \ {r} : req'[q] = req[q] /\ req'[q].pc = "idle"
  BY SlotAlone
<1>2. \A q \in Req \ {r} : req'[q].item = None
  BY <1>1 DEF SInv, Knows
<1>3. \A q \in Req : Knows(req'[q], items', note', assigned', globalVms')
  BY <1>1, <1>2 DEF Knows
<1> QED BY <1>1, <1>3 DEF SInv

(* Nothing selected is added. *)
FewerSelected == \A i \in ItemId : Exists(i)' => Exists(i) /\ items'[i].pool = items[i].pool

LEMMA FewerKeeps == ASSUME SInv, FewerSelected PROVE OneSelected'
  BY DEF SInv, OneSelected, SamePool, FewerSelected

LEMMA SameItems == ASSUME SInv, UNCHANGED items PROVE OneSelected'
  BY DEF SInv, OneSelected, SamePool, Exists

LEMMA SameNotes == ASSUME SInv, UNCHANGED note PROVE RevokedIsUnread'
  BY DEF SInv, RevokedIsUnread

LEMMA IdleKnows == \A its, nts, asg, globs : Knows(Idle, its, nts, asg, globs)
  BY DEF Idle, Knows

-----------------------------------------------------------------------------
(* Each action *)

LEMMA ArriveAlone ==
    ASSUME SInv, IInv', ~Interleaved, NEW r \in Req, Arrive(r)
    PROVE  SInv'
<1>1. PICK u \in User, op \in Op, i \in ItemId \cup {None}, p \in Pool \cup {None},
           pc \in {"check", "insert"} :
         /\ Enter(r, u, op, i, p, pc)
         /\ pc = "insert" => p = None
  BY DEF Arrive, EnterItem, EnterSelect, EnterCreate, Op
<1> DEFINE may == op = "selfapprove" /\ Permitted(u, "approve")
           tell(g) == IF op = "submit" THEN Mentors(u, g) ELSE {}
           next(t) == [pc |-> pc, op |-> op, user |-> u, item |-> i, pool |-> p,
                       mayApprove |-> may, tell |-> t]
<1>2. PICK globalVm \in FindFirst(globalVms) :
         req' = [req EXCEPT ![r] = next(tell(globalVm))]
  BY <1>1 DEF Enter, Continue
<1>3. /\ Quiet /\ Permitted(u, op)
      /\ UNCHANGED <<items, note, assigned, globalVms>>
  BY <1>1 DEF Enter, CanStart, Quiet
<1>4. Permitted(u, "approve") => assigned = {} \/ u \in assigned
  BY DEF Permitted, OwnerOp
<1>5. PICK t : /\ req' = [req EXCEPT ![r] = next(t)]
               /\ op = "submit" => AllToTell(assigned, globalVms, t)
  <2>1. op = "submit" => u = Owner
    BY <1>3 DEF Permitted
  <2>2. op = "submit" => tell(globalVm) = (assigned \cup {globalVm}) \ {Owner, None}
    BY <2>1 DEF Mentors
  <2> HIDE DEF tell, next
  <2> QED BY <1>2, <2>2 DEF AllToTell
<1>6. may => assigned = {} \/ u \in assigned
  BY <1>4
<1>7. op = "approve" => assigned = {} \/ u \in assigned
  BY <1>3, <1>4
<1> HIDE DEF may, tell
<1>8. Knows(next(t), items, note, assigned, globalVms)
  BY <1>1, <1>5, <1>6, <1>7 DEF Knows, Approver
<1> HIDE DEF next
<1> QED BY <1>3, <1>5, <1>8, SameItems, SameNotes, StepAlone

LEMMA CheckAlone ==
    ASSUME SInv, IInv', NEW r \in Req, Check(r) \/ SelectCheck(r) \/ NoteFind(r) \/ Notify(r) \/ Abort(r)
    PROVE  SInv'
<1>1. /\ req[r] \in Request /\ req[r].pc # "idle" /\ req \in [Req -> Request]
      /\ Knows(req[r], items, note, assigned, globalVms)
      /\ UNCHANGED <<items, note, assigned, globalVms>>
  BY DEF SInv, IInv, TypeOK, Check, SelectCheck, NoteFind, Notify, Abort
<1>2. ASSUME req' = [req EXCEPT ![r] = Idle] PROVE SInv'
  BY <1>1, <1>2, IdleKnows, SameItems, SameNotes, StepAlone
<1>3. ASSUME NEW pc \in {"find", "write", "insert", "mark"},
             req' = [req EXCEPT ![r] = [req[r] EXCEPT !.pc = pc]],
             pc = "write" => req[r].pc = "check" /\ Exists(req[r].item)
                               /\ Allowed(items[req[r].item], req[r].op, req[r].mayApprove),
             pc = "mark" => note[req[r].item].state = "live",
             pc = "insert" => Selected(req[r].pool) = {}
      PROVE  SInv'
  <2> DEFINE next == [req[r] EXCEPT !.pc = pc]
  <2>1. /\ next.pc = pc /\ next.op = req[r].op /\ next.user = req[r].user
        /\ next.item = req[r].item /\ next.pool = req[r].pool
        /\ next.mayApprove = req[r].mayApprove /\ next.tell = req[r].tell
    BY <1>1 DEF Request
  <2>2. req' = [req EXCEPT ![r] = next]
    BY <1>3
  <2> HIDE DEF next
  <2>3. Knows(next, items, note, assigned, globalVms)
    BY <1>1, <1>3, <2>1 DEF Knows, Approver, Exists, Selected, There
  <2> QED BY <1>1, <2>2, <2>3, SameItems, SameNotes, StepAlone
<1>4. CASE Check(r)
  BY <1>2, <1>3, <1>4 DEF Check, At, Finish, Continue
<1>5. CASE SelectCheck(r)
  BY <1>2, <1>3, <1>5 DEF SelectCheck, At, Finish, Continue
<1>6. CASE NoteFind(r)
  BY <1>2, <1>3, <1>6 DEF NoteFind, At, Finish, Continue
<1> QED BY <1>2, <1>4, <1>5, <1>6 DEF Notify, Abort, Finish

LEMMA InsertAlone ==
    ASSUME SInv, IInv', NEW r \in Req, Insert(r)
    PROVE  SInv'
<1>1. PICK i \in FreeId : Update(i, NewItem(req[r].pool))
  BY DEF Insert
<1>2. /\ i \in ItemId /\ items \in [ItemId -> Item] /\ req[r].pc = "insert"
      /\ req' = [req EXCEPT ![r] = Idle] /\ UNCHANGED <<note, assigned, globalVms>>
  BY <1>1 DEF FreeId, SInv, IInv, TypeOK, Insert, Finish
<1>3. Knows(req[r], items, note, assigned, globalVms)
  BY DEF SInv
<1>4. NewItem(req[r].pool).pool = req[r].pool
  BY DEF NewItem, NoItem
<1>5. /\ items'[i].pool = req[r].pool /\ \A k \in ItemId \ {i} : items'[k] = items[k]
  BY <1>1, <1>2, <1>4 DEF Update
<1>6. \A k \in ItemId \ {i} :
         There(items[k]) /\ req[r].pool # None => items[k].pool # req[r].pool
  BY <1>2, <1>3 DEF Knows
<1>7. OneSelected'
  BY <1>5, <1>6 DEF SInv, OneSelected, SamePool, Exists, There
<1> QED BY <1>2, <1>7, IdleKnows, SameNotes, StepAlone

(* A write to one item that stays, or goes. *)
LEMMA ItemWriteAlone ==
    ASSUME SInv, IInv', NEW r \in Req, NEW next, req' = [req EXCEPT ![r] = next],
           req[r].pc # "idle", next.pc \in {"idle", "notify"}, next.pc = "idle" => next = Idle,
           NEW i \in ItemId, Exists(i), NEW row, Update(i, row), row.pool = items[i].pool,
           UNCHANGED <<note, assigned, globalVms>>
    PROVE  SInv'
<1>1. items'[i] = row /\ \A k \in ItemId \ {i} : items'[k] = items[k]
  BY DEF Update, SInv, IInv, TypeOK
<1>2. FewerSelected
  BY <1>1 DEF FewerSelected, Exists
<1>3. Knows(next, items', note', assigned', globalVms')
  BY IdleKnows DEF Knows
<1> QED BY <1>2, <1>3, FewerKeeps, SameNotes, StepAlone

LEMMA WriteAlone ==
    ASSUME SInv, IInv', NEW r \in Req, StatusWrite(r) \/ RowWrite(r)
    PROVE  SInv'
<1>1. /\ req[r] \in Request /\ req[r].pc = "write" /\ items \in [ItemId -> Item]
      /\ Knows(req[r], items, note, assigned, globalVms)
      /\ UNCHANGED <<note, assigned, globalVms>>
      /\ req[r].item \in ItemId
  BY RequestType DEF SInv, IInv, TypeOK, StatusWrite, RowWrite, Busy
<1>2. PICK i \in ItemId : i = req[r].item /\ Exists(i) /\ items[i] \in Item
  BY <1>1 DEF Knows, There, Exists
<1>3. CASE StatusWrite(r)
  <2> DEFINE row == WithStatus(items[i], Target(req[r].op))
             next == [req[r] EXCEPT !.pc = "notify"]
  <2>1. Update(i, row) /\ (req' = [req EXCEPT ![r] = next] \/ req' = [req EXCEPT ![r] = Idle])
    BY <1>2, <1>3 DEF StatusWrite, At, Finish, Continue
  <2>2. row.pool = items[i].pool
    BY <1>2 DEF WithStatus, Item
  <2>3. next.pc = "notify" /\ Idle.pc = "idle"
    BY <1>1 DEF Request, Idle
  <2> HIDE DEF row, next
  <2> QED BY <1>1, <1>2, <2>1, <2>2, <2>3, ItemWriteAlone
<1>4. CASE RowWrite(r)
  <2>1. /\ req' = [req EXCEPT ![r] = Idle] /\ Idle.pc = "idle"
        /\ req[r].op \in FlagOp \cup {"remove", "checkin"}
    BY <1>4 DEF RowWrite, Finish, Idle
  <2>2. PICK row : Update(i, row) /\ row.pool = items[i].pool
    <3> DEFINE flag == req[r].op = "deactivate"
               flagged == [items[i] EXCEPT !.off = flag]
               removed == [items[i] EXCEPT !.status = "removed"]
               checked == [items[i] EXCEPT !.checked = TRUE]
    <3>1. flagged.pool = items[i].pool /\ removed.pool = items[i].pool /\ checked.pool = items[i].pool
      BY <1>2 DEF Item
    <3>2. Update(i, flagged) \/ Update(i, removed) \/ Update(i, checked)
      BY <1>2, <1>4, <2>1 DEF RowWrite
    <3> HIDE DEF flagged, removed, checked
    <3> QED BY <3>1, <3>2
  <2> QED BY <1>1, <1>2, <2>1, <2>2, ItemWriteAlone
<1> QED BY <1>3, <1>4

LEMMA NoteAlone ==
    ASSUME SInv, IInv', NEW r \in Req, SuggestWrite(r) \/ NoteMark(r)
    PROVE  SInv'
<1>1. /\ req[r] \in Request /\ req[r].pc \in {"write", "mark"} /\ note \in [ItemId -> Note]
      /\ Knows(req[r], items, note, assigned, globalVms)
      /\ UNCHANGED <<items, assigned, globalVms>>
      /\ req[r].item \in ItemId
  BY RequestType DEF SInv, IInv, TypeOK, SuggestWrite, NoteMark, Busy
<1> DEFINE next == [req[r] EXCEPT !.pc = "notify"]
<1>2. next.pc = "notify" /\ Idle.pc = "idle"
  BY <1>1 DEF Request, Idle
<1>3. req' = [req EXCEPT ![r] = next] \/ req' = [req EXCEPT ![r] = Idle]
  BY DEF SuggestWrite, NoteMark, At, Finish, Continue
<1> HIDE DEF next
<1>4. \A i \in ItemId :
         \/ note'[i] = note[i]
         \/ ~note'[i].acked
         \/ i = req[r].item /\ note[i].state = "live" /\ note'[i].state = "live"
  BY <1>1 DEF SuggestWrite, NoteMark, Note, Knows
<1>5. RevokedIsUnread'
  BY <1>4 DEF SInv, RevokedIsUnread
<1>6. Knows(next, items', note', assigned', globalVms')
  BY <1>2 DEF Knows
<1> QED BY <1>1, <1>2, <1>3, <1>5, <1>6, IdleKnows, SameItems, StepAlone

LEMMA RelateAlone ==
    ASSUME SInv, IInv', ~Interleaved, Relate
    PROVE  SInv'
<1>1. Quiet /\ UNCHANGED <<items, note, req>>
  BY DEF Relate, CanStart, Quiet
<1>2. OneAtWork' /\ \A q \in Req : Knows(req'[q], items', note', assigned', globalVms')
  BY <1>1 DEF SInv, OneAtWork, Knows, Quiet
<1> QED BY <1>1, <1>2, SameItems, SameNotes DEF SInv

LEMMA InitSInv == Init => SInv
<1> SUFFICES ASSUME Init PROVE SInv
  OBVIOUS
<1>1. \A r \in Req : req[r] = Idle /\ Idle.pc = "idle"
  BY DEF Init, Idle
<1>2. OneSelected
  BY DEF Init, OneSelected, SamePool, Exists, NoItem
<1>3. RevokedIsUnread
  BY DEF Init, RevokedIsUnread
<1> QED BY <1>1, <1>2, <1>3, InitInv, IdleKnows DEF SInv, OneAtWork

LEMMA StepSInv == SInv /\ ~Interleaved /\ [Next]_vars => SInv'
<1> SUFFICES ASSUME SInv, ~Interleaved, [Next]_vars PROVE SInv'
  OBVIOUS
<1>1. IInv'
  BY StepInv DEF SInv
<1>2. ASSUME NEW r \in Req, Arrive(r) PROVE SInv'
  BY <1>1, <1>2, ArriveAlone
<1>3. ASSUME NEW r \in Req, Advance(r) \/ Abort(r) PROVE SInv'
  BY <1>1, <1>3, CheckAlone, InsertAlone, WriteAlone, NoteAlone DEF Advance
<1>4. CASE UNCHANGED vars
  BY <1>1, <1>4 DEF vars, SInv, OneAtWork, OneSelected, SamePool, Exists, RevokedIsUnread
<1> QED BY <1>1, <1>2, <1>3, <1>4, RelateAlone DEF Next

LEMMA SInvCorrect == ASSUME ~Interleaved PROVE Spec => []SInv
<1>1. SInv /\ [Next]_vars => SInv'
  BY StepSInv
<1> QED BY <1>1, InitSInv, PTL DEF Spec

(* With one handler at a time a pool item is in a journey at most once,     *)
(* although no constraint of the tables says so.                            *)
THEOREM OneSelection == ASSUME ~Interleaved PROVE Spec => []OneSelectionPerPool
  BY SInvCorrect, SelectedCounts, PTL

(* With one handler at a time nobody acknowledges a note that was revoked,  *)
(* and revoking one takes its acknowledgement back.                         *)
THEOREM Unread == ASSUME ~Interleaved PROVE Spec => []RevokedIsUnread
<1>1. SInv => RevokedIsUnread
  BY DEF SInv
<1> QED BY <1>1, SInvCorrect, PTL

-----------------------------------------------------------------------------
(* What a step may write *)

(* Whose step it is that changes a status. *)
LEMMA StatusChanges ==
    ASSUME SInv, [Next]_vars, NEW i \in ItemId, items'[i].status # items[i].status
    PROVE  \E r \in Req : /\ Insert(r) \/ StatusWrite(r) \/ RowWrite(r)
                          /\ \A q \in Req : req[q].pc # "idle" => q = r
<1>1. PICK r \in Req : Insert(r) \/ StatusWrite(r) \/ RowWrite(r)
  BY DEF Next, Arrive, Advance, Abort, EnterItem, EnterSelect, EnterCreate, Enter, Check,
     SelectCheck, SuggestWrite, NoteFind, NoteMark, Notify, Relate, vars
<1>2. req[r].pc # "idle"
  BY <1>1 DEF Insert, StatusWrite, RowWrite
<1> QED BY <1>1, <1>2 DEF SInv, OneAtWork

(* A status is written as it was checked. *)
LEMMA StatusWritten ==
    ASSUME SInv, NEW r \in Req, StatusWrite(r)
    PROVE  \E i \in ItemId :
              /\ i = req[r].item /\ req[r].op \in StatusOp /\ req[r] \in Request
              /\ req[r].pc = "write"
              /\ Exists(i) /\ items[i].status = Before(req[r].op) /\ ~items[i].off
              /\ req[r].op \in {"approve", "selfapprove"} => Approver(req[r], assigned)
              /\ req[r].op = "submit" => AllToTell(assigned, globalVms, req[r].tell)
              /\ items'[i].status = Target(req[r].op) /\ items'[i].off = items[i].off
              /\ \A k \in ItemId \ {i} : items'[k] = items[k]
<1>1. /\ req[r] \in Request /\ req[r].pc = "write" /\ items \in [ItemId -> Item]
      /\ Knows(req[r], items, note, assigned, globalVms) /\ req[r].op \in StatusOp
      /\ req[r].item \in ItemId
  BY RequestType DEF SInv, IInv, TypeOK, StatusWrite, Busy
<1>2. PICK i \in ItemId : i = req[r].item /\ Exists(i) /\ items[i] \in Item
  BY <1>1 DEF Knows, There, Exists
<1> DEFINE row == WithStatus(items[i], Target(req[r].op))
<1>3. Update(i, row)
  BY <1>2 DEF StatusWrite
<1>4. row.status = Target(req[r].op) /\ row.off = items[i].off
  BY <1>2 DEF WithStatus, Item
<1> HIDE DEF row
<1>5. items'[i] = row /\ \A k \in ItemId \ {i} : items'[k] = items[k]
  BY <1>1, <1>3 DEF Update
<1>6. items[i].status = Before(req[r].op) /\ ~items[i].off
      /\ (req[r].op = "selfapprove" => req[r].mayApprove)
  BY <1>1, <1>2 DEF Knows, Allowed, Worked
<1> QED BY <1>1, <1>2, <1>4, <1>5, <1>6 DEF Knows

(* The other writes of an item. *)
LEMMA RowWritten ==
    ASSUME SInv, NEW r \in Req, RowWrite(r)
    PROVE  \E i \in ItemId :
              /\ Exists(i) /\ items[i].off \in BOOLEAN
              /\ \/ items'[i].status = items[i].status /\ items'[i].off \in BOOLEAN
                 \/ items'[i].status = "removed" /\ items'[i].off = items[i].off
              /\ \A k \in ItemId \ {i} : items'[k] = items[k]
<1>1. /\ req[r] \in Request /\ req[r].pc = "write" /\ items \in [ItemId -> Item]
      /\ Knows(req[r], items, note, assigned, globalVms)
      /\ req[r].op \in FlagOp \cup {"remove", "checkin"}
      /\ req[r].item \in ItemId
  BY RequestType DEF SInv, IInv, TypeOK, RowWrite, Busy
<1>2. PICK i \in ItemId : i = req[r].item /\ Exists(i) /\ items[i] \in Item
  BY <1>1 DEF Knows, There, Exists
<1> DEFINE flag == req[r].op = "deactivate"
           flagged == [items[i] EXCEPT !.off = flag]
           removed == [items[i] EXCEPT !.status = "removed"]
           checked == [items[i] EXCEPT !.checked = TRUE]
<1>3. Update(i, flagged) \/ Update(i, removed) \/ Update(i, checked)
  BY <1>1, <1>2 DEF RowWrite
<1>4. flag \in BOOLEAN
  OBVIOUS
<1> HIDE DEF flag
<1>5. /\ flagged.status = items[i].status /\ flagged.off = flag
      /\ removed.status = "removed" /\ removed.off = items[i].off
      /\ checked.status = items[i].status /\ checked.off = items[i].off
      /\ items[i].off \in BOOLEAN
  BY <1>2 DEF Item
<1> HIDE DEF flagged, removed, checked
<1> QED BY <1>1, <1>2, <1>3, <1>4, <1>5 DEF Update

(* With one handler at a time, an item of a journey that has a vratmitra is *)
(* approved by a vratmitra of the journey only, through either endpoint:    *)
(* what updateStatus and approveItem ask of the permissions on entry is     *)
(* still so when the status is written.                                     *)
THEOREM Approves == ASSUME ~Interleaved PROVE Spec => MentorApproves
<1>1. ASSUME SInv, [Next]_vars, NEW r \in Req, NEW i \in ItemId,
             req[r].pc = "write", req[r].item = i, assigned # {},
             items[i].status # "approved", items'[i].status = "approved"
      PROVE  req[r].user \in assigned
  <2>1. PICK q \in Req : /\ Insert(q) \/ StatusWrite(q) \/ RowWrite(q)
                         /\ \A p \in Req : req[p].pc # "idle" => p = q
    BY <1>1, StatusChanges
  <2>2. q = r /\ ~Insert(q)
    BY <1>1, <2>1 DEF Insert
  <2>3. ~RowWrite(r)
    BY <1>1, RowWritten
  <2>4. StatusWrite(r)
    BY <2>1, <2>2, <2>3
  <2>5. /\ req[r].op \in StatusOp /\ items'[i].status = Target(req[r].op)
        /\ req[r].op \in {"approve", "selfapprove"} => Approver(req[r], assigned)
    BY <1>1, <2>4, StatusWritten
  <2>6. req[r].op \in {"approve", "selfapprove"}
    BY <1>1, <2>5 DEF Target, StatusOp
  <2> QED BY <1>1, <2>5, <2>6 DEF Approver
<1>2. SInv /\ [Next]_vars =>
         [\A r \in Req, i \in ItemId :
             /\ req[r].pc = "write" /\ req[r].item = i /\ assigned # {}
             /\ items[i].status # "approved" /\ items'[i].status = "approved"
             => req[r].user \in assigned]_vars
  BY <1>1
<1> QED BY <1>2, SInvCorrect, PTL DEF Spec, MentorApproves

(* With one handler at a time, everybody assigned to the journey, and one   *)
(* of those who mentor the owner globally, is told of every submission,     *)
(* unless its handler dies.                                                 *)
THEOREM Told == ASSUME ~Interleaved PROVE Spec => MentorsAreTold
<1>1. ASSUME SInv, [Next]_vars, NEW r \in Req, NEW i \in ItemId, req[r].item = i,
             items[i].status # "submitted", items'[i].status = "submitted"
      PROVE  \E globalVm \in FindFirst(globalVms) :
                (assigned \cup {globalVm}) \ {Owner, None} \subseteq req'[r].tell
  <2>1. PICK q \in Req : /\ Insert(q) \/ StatusWrite(q) \/ RowWrite(q)
                         /\ \A p \in Req : req[p].pc # "idle" => p = q
    BY <1>1, StatusChanges
  <2>2. i # None
    BY ErcAssumption
  <2>3. req[r].pc # "idle"
    BY <1>1, <2>2 DEF SInv, Knows
  <2>4. q = r
    BY <2>1, <2>3
  <2>5. ~RowWrite(r)
    BY <1>1, RowWritten
  <2>6. ~Insert(r)
    <3>1. ASSUME Insert(r) PROVE FALSE
      <4>1. PICK k \in FreeId : Update(k, NewItem(req[r].pool))
        BY <3>1 DEF Insert
      <4>2. NewItem(req[r].pool).status = "not_started"
        BY DEF NewItem, NoItem
      <4> QED BY <1>1, <4>1, <4>2 DEF Update, SInv, IInv, TypeOK, FreeId
    <3> QED BY <3>1
  <2>7. StatusWrite(r)
    BY <2>1, <2>4, <2>5, <2>6
  <2>8. /\ req[r].op \in StatusOp /\ items'[i].status = Target(req[r].op)
        /\ req[r].op = "submit" => AllToTell(assigned, globalVms, req[r].tell)
        /\ req[r] \in Request /\ Exists(i)
    BY <1>1, <2>7, StatusWritten
  <2>9. req[r].op = "submit"
    BY <1>1, <2>8 DEF Target, StatusOp
  <2>10. /\ req[r].tell # {} => req' = [req EXCEPT ![r] = [req[r] EXCEPT !.pc = "notify"]]
         /\ req \in [Req -> Request]
    BY <1>1, <2>7, <2>8, <2>9 DEF StatusWrite, At, Continue, SInv, IInv, TypeOK
  <2>11. req[r].tell # {} => req'[r].tell = req[r].tell
    BY <2>8, <2>10 DEF Request
  <2>12. PICK globalVm \in FindFirst(globalVms) :
            (assigned \cup {globalVm}) \ {Owner, None} = req[r].tell
    BY <2>8, <2>9 DEF AllToTell
  <2>13. (assigned \cup {globalVm}) \ {Owner, None} \subseteq req'[r].tell
    BY <2>11, <2>12
  <2> QED BY <2>13
<1>2. SInv /\ [Next]_vars =>
         [\A r \in Req, i \in ItemId :
             /\ req[r].item = i
             /\ items[i].status # "submitted" /\ items'[i].status = "submitted"
             => \E globalVm \in FindFirst(globalVms) :
                   (assigned \cup {globalVm}) \ {Owner, None} \subseteq req'[r].tell]_vars
  BY <1>1
<1> QED BY <1>2, SInvCorrect, PTL DEF Spec, MentorsAreTold

-----------------------------------------------------------------------------
(* The documented life of an item *)

StageOf == [i \in ItemId |-> items[i].status]
OffOf == [i \in ItemId |-> items[i].off]

(* One item changes its status, or is switched on or off. *)
LEMMA LifeStep ==
    ASSUME NEW i \in ItemId, \A k \in ItemId \ {i} : items'[k] = items[k]
    PROVE  /\ StageOf' = [StageOf EXCEPT ![i] = items'[i].status]
           /\ OffOf' = [OffOf EXCEPT ![i] = items'[i].off]
           /\ items'[i].off = items[i].off => OffOf' = OffOf
           /\ items'[i].status = items[i].status => StageOf' = StageOf
  BY DEF StageOf, OffOf

LEMMA LifeNext ==
    ASSUME SInv, ~Interleaved, [Next]_vars
    PROVE  [Life!Next]_<<StageOf, OffOf>>
<1>1. ASSUME NEW r \in Req, StatusWrite(r) PROVE Life!Next
  <2>1. PICK i \in ItemId :
           /\ req[r].op \in StatusOp
           /\ items[i].status = Before(req[r].op) /\ ~items[i].off
           /\ items'[i].status = Target(req[r].op) /\ items'[i].off = items[i].off
           /\ \A k \in ItemId \ {i} : items'[k] = items[k]
    BY <1>1, StatusWritten
  <2>2. StageOf' = [StageOf EXCEPT ![i] = items'[i].status] /\ OffOf' = OffOf
    BY <2>1, LifeStep
  <2>3. \/ items[i].status = "not_started" /\ items'[i].status = "in_progress"
        \/ items[i].status = "in_progress" /\ items'[i].status = "submitted"
        \/ items[i].status = "submitted" /\ items'[i].status = "approved"
        \/ items[i].status = "submitted" /\ items'[i].status = "revisit"
    BY <2>1 DEF Before, Target, StatusOp
  <2>4. Life!Work(i)
    BY <2>1, <2>2, <2>3 DEF Life!Work, Life!Move, StageOf, OffOf
  <2> QED BY <2>4 DEF Life!Next
<1>2. ASSUME NEW r \in Req, RowWrite(r) PROVE [Life!Next]_<<StageOf, OffOf>>
  <2>1. PICK i \in ItemId :
              /\ Exists(i) /\ items[i].off \in BOOLEAN
              /\ \/ items'[i].status = items[i].status /\ items'[i].off \in BOOLEAN
                 \/ items'[i].status = "removed" /\ items'[i].off = items[i].off
              /\ \A k \in ItemId \ {i} : items'[k] = items[k]
    BY <1>2, RowWritten
  <2>2. /\ StageOf' = [StageOf EXCEPT ![i] = items'[i].status]
        /\ OffOf' = [OffOf EXCEPT ![i] = items'[i].off]
        /\ items'[i].off = items[i].off => OffOf' = OffOf
        /\ items'[i].status = items[i].status => StageOf' = StageOf
    BY <2>1, LifeStep
  <2>3. CASE items'[i].status = items[i].status /\ items'[i].off = items[i].off
    BY <2>2, <2>3
  <2>4. CASE items'[i].status = items[i].status /\ items'[i].off # items[i].off
    <3>1. items'[i].off = ~OffOf[i]
      BY <2>1, <2>4 DEF OffOf
    <3>2. Life!Toggle(i)
      BY <2>1, <2>2, <2>4, <3>1 DEF Life!Toggle, StageOf, OffOf, Exists
    <3> QED BY <3>2 DEF Life!Next
  <2>5. CASE items'[i].status = "removed" /\ items'[i].off = items[i].off
    <3>1. Life!Remove(i)
      BY <2>1, <2>2, <2>5 DEF Life!Remove, StageOf, OffOf, Exists
    <3> QED BY <3>1 DEF Life!Next
  <2> QED BY <2>1, <2>3, <2>4, <2>5
<1>3. ASSUME NEW r \in Req, Insert(r) PROVE Life!Next
  <2>1. PICK i \in FreeId : Update(i, NewItem(req[r].pool))
    BY <1>3 DEF Insert
  <2>2. i \in ItemId /\ items[i] = NoItem /\ items[i].status = "absent"
    BY <2>1 DEF FreeId, SInv, IInv, SoundRow
  <2>3. NewItem(req[r].pool).status = "not_started" /\ NewItem(req[r].pool).off = NoItem.off
    BY DEF NewItem, NoItem
  <2>4. /\ items'[i].status = "not_started" /\ items'[i].off = items[i].off
        /\ \A k \in ItemId \ {i} : items'[k] = items[k]
    BY <2>1, <2>2, <2>3 DEF Update, SInv, IInv, TypeOK
  <2>5. StageOf' = [StageOf EXCEPT ![i] = "not_started"] /\ OffOf' = OffOf
    BY <2>2, <2>4, LifeStep
  <2>6. Life!Add(i)
    BY <2>2, <2>5 DEF Life!Add, StageOf, OffOf
  <2> QED BY <2>2, <2>6 DEF Life!Next
<1>4. CASE UNCHANGED items
  BY <1>4 DEF StageOf, OffOf
<1>5. \/ UNCHANGED items
      \/ \E r \in Req : Insert(r) \/ StatusWrite(r) \/ RowWrite(r)
  BY DEF Next, Arrive, Advance, Abort, EnterItem, EnterSelect, EnterCreate, Enter, Check,
     SelectCheck, SuggestWrite, NoteFind, NoteMark, Notify, Relate, vars
<1> QED BY <1>1, <1>2, <1>3, <1>4, <1>5

(* With one handler at a time, whichever of them die, every item leads the  *)
(* documented life: worked on step by step while it is not deactivated,     *)
(* approved for good, and never back once it was removed.                   *)
THEOREM ImplementsLife == ASSUME ~Interleaved PROVE Spec => ImplementsItemLifecycle
<1>1. Init => Life!Init
  BY DEF Init, Life!Init, NoItem
<1>2. SInv /\ [Next]_vars
         => [Life!Next]_<<[i \in ItemId |-> items[i].status], [i \in ItemId |-> items[i].off]>>
  BY LifeNext DEF StageOf, OffOf
<1> QED BY <1>1, <1>2, SInvCorrect, PTL
     DEF Spec, ImplementsItemLifecycle, Life!Spec, Life!vars
-----------------------------------------------------------------------------
(***************************************************************************)
(* How far a race goes.  Whatever handlers do at once, a request slot can  *)
(* select a pool item once more than its check allowed: rows and requests  *)
(* on their way to insert one are counted together.                        *)
(***************************************************************************)

Counted(S, W) ==
    /\ IsFiniteSet(S) /\ IsFiniteSet(W)
    /\ Cardinality(S) + Cardinality(W) <= Cardinality(Req)

LEMMA CountedLess ==
    ASSUME NEW S, NEW W, Counted(S, W), NEW S2 \in SUBSET S, NEW W2 \in SUBSET W,
           IsFiniteSet(Req)
    PROVE  Counted(S2, W2)
<1>1. /\ IsFiniteSet(S2) /\ Cardinality(S2) <= Cardinality(S)
      /\ IsFiniteSet(W2) /\ Cardinality(W2) <= Cardinality(W)
  BY FS_Subset DEF Counted
<1>2. /\ Cardinality(S) \in Nat /\ Cardinality(W) \in Nat /\ Cardinality(Req) \in Nat
      /\ Cardinality(S2) \in Nat /\ Cardinality(W2) \in Nat
  BY <1>1, FS_CardinalityType DEF Counted
<1> QED BY <1>1, <1>2 DEF Counted

(* A request is done and leaves one row. *)
LEMMA CountedMoves ==
    ASSUME NEW S, NEW W, Counted(S, W), NEW x, NEW y \in W, IsFiniteSet(Req)
    PROVE  Counted(S \cup {x}, W \ {y})
<1>1. /\ IsFiniteSet(S \cup {x})
      /\ \/ Cardinality(S \cup {x}) = Cardinality(S) + 1
         \/ S \cup {x} = S
  BY FS_AddElement DEF Counted
<1>2. IsFiniteSet(W \ {y}) /\ Cardinality(W \ {y}) = Cardinality(W) - 1
  BY FS_RemoveElement DEF Counted
<1>3. /\ Cardinality(S) \in Nat /\ Cardinality(W) \in Nat /\ Cardinality(Req) \in Nat
  BY FS_CardinalityType DEF Counted
<1> QED BY <1>1, <1>2, <1>3 DEF Counted

(* While there is no row, any number of requests may be on their way. *)
LEMMA CountedAfresh ==
    ASSUME IsFiniteSet(Req), NEW W \in SUBSET Req
    PROVE  Counted({}, W)
<1>1. IsFiniteSet(W) /\ Cardinality(W) <= Cardinality(Req)
  BY FS_Subset
<1>2. IsFiniteSet({}) /\ Cardinality({}) = 0
  BY FS_EmptySet
<1>3. Cardinality(W) \in Nat /\ Cardinality(Req) \in Nat
  BY <1>1, FS_CardinalityType
<1> QED BY <1>1, <1>2, <1>3 DEF Counted

Selects(q, p) == q.pc = "insert" /\ q.pool = p

Selecting(p) == {r \in Req : Selects(req[r], p)}

SelectInv == IInv /\ \A p \in Pool : Counted(Selected(p), Selecting(p))

(* A step that selects nothing, nor finds that it may. *)
LEMMA FewerCounted ==
    ASSUME SelectInv, IsFiniteSet(Req), FewerSelected, NEW p \in Pool,
           \A r \in Req : Selects(req'[r], p) => Selects(req[r], p)
    PROVE  Counted(Selected(p), Selecting(p))'
<1> DEFINE S == Selected(p)
           W == Selecting(p)
           S2 == Selected(p)'
           W2 == Selecting(p)'
<1>1. S2 \in SUBSET S
  BY DEF Selected, FewerSelected
<1>2. W2 \in SUBSET W
  BY DEF Selecting
<1>3. Counted(S, W)
  BY DEF SelectInv
<1> HIDE DEF S, W, S2, W2
<1>4. Counted(S2, W2)
  BY <1>1, <1>2, <1>3, CountedLess
<1> QED BY <1>4 DEF Counted, S2, W2

LEMMA SlotCounted ==
    ASSUME SelectInv, IsFiniteSet(Req), FewerSelected, NEW p \in Pool,
           NEW r \in Req, NEW next, req' = [req EXCEPT ![r] = next], ~Selects(next, p)
    PROVE  Counted(Selected(p), Selecting(p))'
<1>1. req \in [Req -> Request]
  BY DEF SelectInv, IInv, TypeOK
<1> QED BY <1>1, FewerCounted

(* The first statement: only one that creates leads straight to an insert. *)
LEMMA ArriveCounted ==
    ASSUME SelectInv, IsFiniteSet(Req), NEW p \in Pool, NEW r \in Req, Arrive(r)
    PROVE  Counted(Selected(p), Selecting(p))'
<1>1. PICK u \in User, op \in Op, i \in ItemId \cup {None}, pool \in Pool \cup {None},
           pc \in {"check", "insert"} :
         /\ Enter(r, u, op, i, pool, pc)
         /\ pc = "insert" => pool = None
  BY DEF Arrive, EnterItem, EnterSelect, EnterCreate, Op
<1> DEFINE next(m, t) == [pc |-> pc, op |-> op, user |-> u, item |-> i, pool |-> pool,
                          mayApprove |-> m, tell |-> t]
<1>2. \E m, t : req' = [req EXCEPT ![r] = next(m, t)]
  BY <1>1 DEF Enter, Continue
<1>3. \A m, t : ~Selects(next(m, t), p)
  BY <1>1, ErcAssumption DEF Selects
<1>4. FewerSelected
  BY <1>1 DEF Enter, FewerSelected, Exists
<1> HIDE DEF next
<1> QED BY <1>2, <1>3, <1>4, SlotCounted

LEMMA SelectCheckCounted ==
    ASSUME SelectInv, IsFiniteSet(Req), NEW p \in Pool, NEW r \in Req, SelectCheck(r)
    PROVE  Counted(Selected(p), Selecting(p))'
<1>1. UNCHANGED items /\ req[r] \in Request /\ req \in [Req -> Request]
  BY DEF SelectCheck, SelectInv, IInv, TypeOK
<1>2. FewerSelected /\ Selected(p)' = Selected(p)
  BY <1>1 DEF FewerSelected, Exists, Selected
<1>3. CASE req' = [req EXCEPT ![r] = Idle]
  BY <1>2, <1>3, SlotCounted DEF Idle, Selects
<1>4. CASE Selected(req[r].pool) = {} /\ req[r].pool = p
  <2> DEFINE W2 == Selecting(p)'
  <2>1. W2 \in SUBSET Req
    BY DEF Selecting
  <2>2. Counted({}, W2)
    BY <2>1, CountedAfresh
  <2> HIDE DEF W2
  <2>3. Selected(p)' = {}
    BY <1>2, <1>4
  <2> QED BY <2>2, <2>3 DEF Counted, W2
<1>5. CASE req' = [req EXCEPT ![r] = [req[r] EXCEPT !.pc = "insert"]] /\ req[r].pool # p
  <2> DEFINE next == [req[r] EXCEPT !.pc = "insert"]
  <2>1. next.pool # p
    BY <1>1, <1>5 DEF Request
  <2>2. req' = [req EXCEPT ![r] = next]
    BY <1>5
  <2> HIDE DEF next
  <2> QED BY <1>2, <2>1, <2>2, SlotCounted DEF Selects
<1> QED BY <1>3, <1>4, <1>5 DEF SelectCheck, At, Finish, Continue

LEMMA InsertCounted ==
    ASSUME SelectInv, IsFiniteSet(Req), NEW p \in Pool, NEW r \in Req, Insert(r)
    PROVE  Counted(Selected(p), Selecting(p))'
<1>1. PICK i \in FreeId : Update(i, NewItem(req[r].pool))
  BY DEF Insert
<1>2. /\ i \in ItemId /\ items \in [ItemId -> Item] /\ req \in [Req -> Request]
      /\ req' = [req EXCEPT ![r] = Idle] /\ Idle.pc = "idle" /\ req[r].pc = "insert"
  BY <1>1 DEF FreeId, SelectInv, IInv, TypeOK, Insert, Finish, Idle
<1>3. NewItem(req[r].pool).pool = req[r].pool
  BY DEF NewItem, NoItem
<1>4. items'[i].pool = req[r].pool /\ \A k \in ItemId \ {i} : items'[k] = items[k]
  BY <1>1, <1>2, <1>3 DEF Update
<1> DEFINE S == Selected(p)
           W == Selecting(p)
           S2 == Selected(p)'
           W2 == Selecting(p)'
<1>5. W2 = W \ {r} /\ Counted(S, W)
  BY <1>2 DEF Selecting, Selects, SelectInv
<1>6. CASE req[r].pool = p
  <2>1. S2 \in SUBSET (S \cup {i})
    BY <1>4 DEF Selected, Exists
  <2>2. r \in W
    BY <1>2, <1>6 DEF Selecting, Selects
  <2> HIDE DEF S, W, S2, W2
  <2>3. Counted(S \cup {i}, W \ {r})
    BY <1>5, <2>2, CountedMoves
  <2>4. Counted(S2, W2)
    BY <1>5, <2>1, <2>3, CountedLess
  <2> QED BY <2>4 DEF Counted, S2, W2
<1>7. CASE req[r].pool # p
  <2>1. S2 \in SUBSET S
    BY <1>4, <1>7 DEF Selected, Exists
  <2>2. W2 \in SUBSET W
    BY <1>5
  <2> HIDE DEF S, W, S2, W2
  <2>3. Counted(S2, W2)
    BY <1>5, <2>1, <2>2, CountedLess
  <2> QED BY <2>3 DEF Counted, S2, W2
<1> QED BY <1>6, <1>7

(* The statements that write an item leave it the pool item it has. *)
LEMMA ItemsStay ==
    ASSUME IInv, NEW r \in Req, StatusWrite(r) \/ RowWrite(r)
    PROVE  FewerSelected
<1>1. /\ items \in [ItemId -> Item] /\ req[r].item \in ItemId
  BY RequestType DEF IInv, TypeOK, StatusWrite, RowWrite, Busy
<1> DEFINE i == req[r].item
<1>2. CASE UNCHANGED items
  BY <1>2 DEF FewerSelected, Exists
<1>3. CASE Exists(i) /\ \E row : Update(i, row) /\ row.pool = items[i].pool
  BY <1>1, <1>3 DEF FewerSelected, Exists, Update
<1>4. ASSUME StatusWrite(r), Exists(i) PROVE \E row : Update(i, row) /\ row.pool = items[i].pool
  <2> DEFINE row == WithStatus(items[i], Target(req[r].op))
  <2>1. Update(i, row)
    BY <1>4 DEF StatusWrite
  <2>2. row.pool = items[i].pool
    BY <1>1 DEF WithStatus, Item
  <2> HIDE DEF row
  <2> QED BY <2>1, <2>2
<1>5. ASSUME RowWrite(r), Exists(i) PROVE \E row : Update(i, row) /\ row.pool = items[i].pool
  <2> DEFINE flag == req[r].op = "deactivate"
             flagged == [items[i] EXCEPT !.off = flag]
             removed == [items[i] EXCEPT !.status = "removed"]
             checked == [items[i] EXCEPT !.checked = TRUE]
  <2>1. /\ flagged.pool = items[i].pool /\ removed.pool = items[i].pool
        /\ checked.pool = items[i].pool
    BY <1>1 DEF Item
  <2>2. Update(i, flagged) \/ Update(i, removed) \/ Update(i, checked)
    BY <1>5 DEF RowWrite
  <2> HIDE DEF flagged, removed, checked
  <2> QED BY <2>1, <2>2
<1>6. ~Exists(i) => UNCHANGED items
  BY DEF StatusWrite, RowWrite
<1> HIDE DEF i
<1> QED BY <1>2, <1>3, <1>4, <1>5, <1>6

OtherStatement(r) ==
    \/ Check(r) \/ StatusWrite(r) \/ RowWrite(r) \/ SuggestWrite(r)
    \/ NoteFind(r) \/ NoteMark(r) \/ Notify(r) \/ Abort(r)

LEMMA OtherCounted ==
    ASSUME SelectInv, IsFiniteSet(Req), NEW p \in Pool, NEW r \in Req, OtherStatement(r)
    PROVE  Counted(Selected(p), Selecting(p))'
<1>1. FewerSelected
  <2>1. CASE StatusWrite(r) \/ RowWrite(r)
    BY <2>1, ItemsStay DEF SelectInv
  <2>2. CASE UNCHANGED items
    BY <2>2 DEF FewerSelected, Exists
  <2> QED BY <2>1, <2>2
       DEF OtherStatement, Check, SuggestWrite, NoteFind, NoteMark, Notify, Abort
<1>2. \/ req' = [req EXCEPT ![r] = Idle]
      \/ \E pc \in {"write", "find", "mark", "notify"} :
            req' = [req EXCEPT ![r] = [req[r] EXCEPT !.pc = pc]]
  BY DEF OtherStatement, Check, StatusWrite, RowWrite, SuggestWrite, NoteFind, NoteMark,
         Notify, Abort, At, Finish, Continue
<1>3. CASE req' = [req EXCEPT ![r] = Idle]
  BY <1>1, <1>3, SlotCounted DEF Idle, Selects
<1>4. ASSUME NEW pc \in {"write", "find", "mark", "notify"},
             req' = [req EXCEPT ![r] = [req[r] EXCEPT !.pc = pc]]
      PROVE  Counted(Selected(p), Selecting(p))'
  <2> DEFINE next == [req[r] EXCEPT !.pc = pc]
  <2>1. next.pc = pc
    BY AtType DEF SelectInv
  <2>2. req' = [req EXCEPT ![r] = next]
    BY <1>4
  <2> HIDE DEF next
  <2> QED BY <1>1, <2>1, <2>2, SlotCounted DEF Selects
<1> QED BY <1>2, <1>3, <1>4

LEMMA StepCounted ==
    ASSUME SelectInv, IsFiniteSet(Req), [Next]_vars
    PROVE  SelectInv'
<1>1. IInv'
  BY StepInv DEF SelectInv
<1> SUFFICES ASSUME NEW p \in Pool PROVE Counted(Selected(p), Selecting(p))'
  BY <1>1 DEF SelectInv
<1>2. ASSUME NEW r \in Req, Advance(r) \/ Abort(r)
      PROVE  Counted(Selected(p), Selecting(p))'
  BY <1>2, SelectCheckCounted, InsertCounted, OtherCounted DEF Advance, OtherStatement
<1>3. CASE UNCHANGED <<items, req>>
  <2>1. FewerSelected
    BY <1>3 DEF FewerSelected, Exists
  <2> QED BY <1>3, <2>1, FewerCounted
<1> QED BY <1>2, <1>3, ArriveCounted DEF Next, Relate, vars

LEMMA InitCounted == ASSUME IsFiniteSet(Req), Init PROVE SelectInv
<1> SUFFICES ASSUME NEW p \in Pool PROVE Counted(Selected(p), Selecting(p))
  BY InitInv DEF SelectInv
<1>1. Selected(p) = {}
  BY DEF Init, Selected, Exists, NoItem
<1>2. Selecting(p) \in SUBSET Req
  BY DEF Selecting
<1> QED BY <1>1, <1>2, CountedAfresh

(* Whatever handlers race and die, a pool item is never in a journey more   *)
(* often than there are requests at once.                                   *)
THEOREM SelectionsBounded ==
    ASSUME IsFiniteSet(Req)
    PROVE  Spec => [](\A p \in Pool : Cardinality(Selected(p)) <= Cardinality(Req))
<1>1. SelectInv /\ [Next]_vars => SelectInv'
  BY StepCounted
<1>2. Init => SelectInv
  BY InitCounted
<1>3. ASSUME SelectInv, NEW p \in Pool PROVE Cardinality(Selected(p)) <= Cardinality(Req)
  <2> DEFINE S == Selected(p)
             W == Selecting(p)
  <2>1. Counted(S, W)
    BY <1>3 DEF SelectInv
  <2> HIDE DEF S, W
  <2>2. Cardinality(S) \in Nat /\ Cardinality(W) \in Nat /\ Cardinality(Req) \in Nat
    BY <2>1, FS_CardinalityType DEF Counted
  <2>3. Cardinality(S) <= Cardinality(Req)
    BY <2>1, <2>2 DEF Counted
  <2> QED BY <2>3 DEF S
<1>4. SelectInv => \A p \in Pool : Cardinality(Selected(p)) <= Cardinality(Req)
  BY <1>3
<1> QED BY <1>1, <1>2, <1>4, PTL DEF Spec
=============================================================================
