------------------------------ MODULE ErcItems ------------------------------
(***************************************************************************)
(* The items of one journey (exposures, resolutions and challenges live in *)
(* three tables with one set of handlers; an item here is a resolution,    *)
(* the kind that has check-ins too), their side notes, and the handlers of *)
(* ErcService and ResolutionCheckinsService that write them.               *)
(*                                                                         *)
(* A handler reads the journey and asks for permission (Enter), reads the  *)
(* item and checks it (Check), writes by the item's id alone and sends its *)
(* notifications; other handlers run between any two of these steps.  None *)
(* of them looks at the state of the journey.  A handler refused by its    *)
(* permission changes nothing and does not start here.                     *)
(*                                                                         *)
(* A definition whose name has an underscore is a fault: a variant of the  *)
(* definition after it, for which a property of this module fails.         *)
(***************************************************************************)
EXTENDS Naturals, FiniteSets

CONSTANTS
    Owner,        \* the vratarthi whose journey it is
    Vratmitra,    \* accounts that hold the role VRATMITRA
    Pool,         \* pool items that can be selected
    ItemId,       \* ids the tables can hand out: the bound on items
    Req,          \* request slots of the API: the bound on concurrent requests
    Interleaved,  \* FALSE: a handler starts only when no other is in flight
    None          \* SQL NULL

ASSUME ErcAssumption ==
    /\ None \notin Vratmitra \cup {Owner} \cup Pool \cup ItemId
    /\ Interleaved \in BOOLEAN

VARIABLES
    items,     \* the rows, by id
    note,      \* the side note of each item
    assigned,  \* the vratmitras with an ACTIVE assignment for the journey
    globalVms, \* the vratmitras with an ACTIVE relationship with the owner
    req,       \* per slot, the request in flight: where it is, what it read
    sent       \* the notification rows created by the last step

vars == <<items, note, assigned, globalVms, req, sent>>

User == Vratmitra \cup {Owner}

-----------------------------------------------------------------------------
(* Data *)

Status == {"not_started", "in_progress", "submitted", "approved", "revisit"}

(* The time columns are kept as "is not null"; checked: it has a check-in.  *)
(* "absent" is an id not handed out yet, "removed" a deleted row.  A custom *)
(* item has no pool item.                                                   *)
Item == [status : Status \cup {"absent", "removed"},
         pool : Pool \cup {None}, off : BOOLEAN,
         started : BOOLEAN, submitted : BOOLEAN, approved : BOOLEAN,
         checked : BOOLEAN]

NoItem == [status |-> "absent", pool |-> None, off |-> FALSE,
           started |-> FALSE, submitted |-> FALSE, approved |-> FALSE,
           checked |-> FALSE]

NewItem(p) == [NoItem EXCEPT !.status = "not_started", !.pool = p]

(* revoked_at and acknowledged_at of the one note an item can have. *)
Note == [state : {"none", "live", "revoked"}, acked : BOOLEAN]

StatusOp == {"start", "submit", "selfapprove", "approve", "revisit"}
FlagOp == {"deactivate", "reactivate"}
NoteOp == {"unsuggest", "acknowledge"}
ItemOp == StatusOp \cup FlagOp \cup NoteOp \cup {"remove", "suggest", "checkin"}
Op == ItemOp \cup {"select", "create"}

(* A request: pc is the statement it awaits next. *)
Request == [pc : {"idle", "check", "write", "insert", "find", "mark", "notify"},
            op : Op, user : User \cup {None},
            item : ItemId \cup {None}, pool : Pool \cup {None},
            mayApprove : BOOLEAN,      \* the owner had erc.approve_closure on entry
            tell : SUBSET Vratmitra]   \* whom a submission is to be told

Idle == [pc |-> "idle", op |-> "create", user |-> None, item |-> None,
         pool |-> None, mayApprove |-> FALSE, tell |-> {}]

Notice == [op : ItemOp, to : User, item : ItemId]

-----------------------------------------------------------------------------
(* Queries *)

Exists(i) == items[i].status \notin {"absent", "removed"}

FreeId == {i \in ItemId : items[i].status = "absent"}

Selected(p) == {i \in ItemId : Exists(i) /\ items[i].pool = p}

OwnerOp == {"start", "submit", "selfapprove", "deactivate", "reactivate",
            "remove", "acknowledge", "checkin", "select"}

(* hasPermission, asked of the journey read on entry. *)
Permitted(u, op) ==
    \/ u = Owner /\ op \in OwnerOp \cup {"create"}
    \/ u = Owner /\ op = "approve" /\ assigned = {}
    \/ u \in assigned /\ op \in {"approve", "revisit", "suggest", "unsuggest", "create"}

(* findFirst, which asks for no order: any of the rows, or NULL. *)
FindFirst(vms) == IF vms = {} THEN {None} ELSE vms

(* Fault: the assigned vratmitras are not told. *)
Mentors_GlobalOnly(u, globalVm) == {globalVm} \ {u, None}

(* Whom notifyJourneyVms tells: of the global ones, the one findById found. *)
Mentors(u, globalVm) == (assigned \cup {globalVm}) \ {u, None}

(* VALID_TRANSITIONS, by handler: the status an item must have, and gets. *)
Worked == StatusOp \cup {"checkin"}

Before(op) == CASE op = "start" -> "not_started"
                [] op \in {"submit", "checkin"} -> "in_progress"
                [] OTHER -> "submitted"

(* Fault: the endpoint's word is stored, not the one of the schema. *)
Target_Raw(op) == CASE op \in {"start", "submit"} -> op
                    [] OTHER -> "approved"

Target(op) == CASE op = "start" -> "in_progress"
                [] op = "submit" -> "submitted"
                [] op = "revisit" -> "revisit"
                [] OTHER -> "approved"

(* Faults: any status will do, a deactivated item can be worked on, or      *)
(* updateStatus does not ask for erc.approve_closure.                       *)
Allowed_AnyStatus(row, op, may) ==
    /\ op \in Worked => ~row.off
    /\ op = "selfapprove" => may

Allowed_WhenOff(row, op, may) ==
    /\ op \in Worked => row.status = Before(op)
    /\ op = "selfapprove" => may

Allowed_SelfApprove(row, op, may) ==
    op \in Worked => ~row.off /\ row.status = Before(op)

(* What each handler asks of the item it has read. *)
Allowed(row, op, may) ==
    /\ op \in Worked => ~row.off /\ row.status = Before(op)
    /\ op = "selfapprove" => may

-----------------------------------------------------------------------------
(* The UPDATE statements, as functions of the row *)

(* Fault: submitted_at is cleared when an item is returned. *)
WithStatus_Unsubmits(row, s) ==
    [row EXCEPT !.status = s,
                !.started = @ \/ s = "in_progress",
                !.submitted = (@ /\ s # "revisit") \/ s = "submitted",
                !.approved = @ \/ s = "approved"]

WithStatus(row, s) ==
    [row EXCEPT !.status = s,
                !.started = @ \/ s = "in_progress",
                !.submitted = @ \/ s = "submitted",
                !.approved = @ \/ s = "approved"]

Update(i, row) == items' = [items EXCEPT ![i] = row]

-----------------------------------------------------------------------------
(* Requests *)

CanStart == Interleaved \/ \A q \in Req : req[q].pc = "idle"

Continue(r, next) ==
    /\ req' = [req EXCEPT ![r] = next]
    /\ sent' = {}

At(r, pc) == Continue(r, [req[r] EXCEPT !.pc = pc])

Finish(r, notices) ==
    /\ req' = [req EXCEPT ![r] = Idle]
    /\ sent' = notices

(***************************************************************************)
(* getJourneyAndCheckPermission.  Of the journey it read, updateStatus     *)
(* keeps whether the owner may approve and whom to tell of a submission:   *)
(* the assigned ones and one global one, never the caller.                 *)
(***************************************************************************)
Enter(r, u, op, i, p, pc) ==
    /\ req[r].pc = "idle" /\ CanStart
    /\ Permitted(u, op)
    /\ \E globalVm \in FindFirst(globalVms) :
          Continue(r, [pc |-> pc, op |-> op, user |-> u, item |-> i, pool |-> p,
                       mayApprove |-> op = "selfapprove" /\ Permitted(u, "approve"),
                       tell |-> IF op = "submit" THEN Mentors(u, globalVm) ELSE {}])
    /\ UNCHANGED <<items, note, assigned, globalVms>>

(* The bound on ids: a row is only asked for when there is an id for it. *)
Spare == Cardinality(FreeId) >
            Cardinality({q \in Req : req[q].pc # "idle" /\ req[q].op \in {"select", "create"}})

EnterItem(r, u, op, i) == Exists(i) /\ Enter(r, u, op, i, None, "check")

EnterSelect(r, u, p) == Spare /\ Enter(r, u, "select", None, p, "check")

EnterCreate(r, u) == Spare /\ Enter(r, u, "create", None, None, "insert")

(* findById, and what the handler asks of the item; else 404, 409 or 403. *)
Check(r) ==
    /\ req[r].pc = "check" /\ req[r].op \in ItemOp
    /\ LET i == req[r].item IN
       IF Exists(i) /\ Allowed(items[i], req[r].op, req[r].mayApprove)
         THEN At(r, IF req[r].op \in NoteOp THEN "find" ELSE "write")
         ELSE Finish(r, {})
    /\ UNCHANGED <<items, note, assigned, globalVms>>

(* Fault: only items that are not deactivated count as selected. *)
SelectCheck_OffFree(r) ==
    /\ req[r].pc = "check" /\ req[r].op = "select"
    /\ IF {i \in Selected(req[r].pool) : ~items[i].off} = {}
         THEN At(r, "insert") ELSE Finish(r, {})
    /\ UNCHANGED <<items, note, assigned, globalVms>>

(* selectItem: findByPoolItemId, then 409 when there is one. *)
SelectCheck(r) ==
    /\ req[r].pc = "check" /\ req[r].op = "select"
    /\ IF Selected(req[r].pool) = {} THEN At(r, "insert") ELSE Finish(r, {})
    /\ UNCHANGED <<items, note, assigned, globalVms>>

(* The INSERT of selectPoolItem and of createCustomItem. *)
Insert(r) ==
    /\ req[r].pc = "insert"
    /\ \E i \in FreeId : Update(i, NewItem(req[r].pool))
    /\ Finish(r, {})
    /\ UNCHANGED <<note, assigned, globalVms>>

(***************************************************************************)
(* updateStatus of the repository: the status and its time column, by id.  *)
(* An item removed meanwhile is an error.  Starting and self-approving     *)
(* tell nobody, and a submission only whom it found on entry.              *)
(***************************************************************************)
StatusWrite(r) ==
    /\ req[r].pc = "write" /\ req[r].op \in StatusOp
    /\ LET i == req[r].item
           op == req[r].op IN
       IF Exists(i)
         THEN /\ Update(i, WithStatus(items[i], Target(op)))
              /\ IF op \in {"approve", "revisit"} \/ req[r].tell # {}
                   THEN At(r, "notify") ELSE Finish(r, {})
         ELSE UNCHANGED items /\ Finish(r, {})
    /\ UNCHANGED <<note, assigned, globalVms>>

(* setDeactivated, remove and the INSERT of a check-in: whatever the item *)
(* is by now, unless it was removed.                                      *)
RowWrite(r) ==
    /\ req[r].pc = "write" /\ req[r].op \in FlagOp \cup {"remove", "checkin"}
    /\ LET i == req[r].item
           op == req[r].op IN
       IF Exists(i)
         THEN Update(i, CASE op \in FlagOp -> [items[i] EXCEPT !.off = op = "deactivate"]
                          [] op = "remove" -> [items[i] EXCEPT !.status = "removed"]
                          [] OTHER -> [items[i] EXCEPT !.checked = TRUE])
         ELSE UNCHANGED items
    /\ Finish(r, {})
    /\ UNCHANGED <<note, assigned, globalVms>>

(* suggestItem: one upsert of the item's only note, which it makes anew. *)
SuggestWrite(r) ==
    /\ req[r].pc = "write" /\ req[r].op = "suggest"
    /\ IF Exists(req[r].item)
         THEN /\ note' = [note EXCEPT ![req[r].item] = [state |-> "live", acked |-> FALSE]]
              /\ At(r, "notify")
         ELSE UNCHANGED note /\ Finish(r, {})
    /\ UNCHANGED <<items, assigned, globalVms>>

(* Fault: a revoked note is found as well. *)
NoteFind_Revoked(r) ==
    /\ req[r].pc = "find"
    /\ IF note[req[r].item].state # "none" /\ Exists(req[r].item)
         THEN At(r, "mark") ELSE Finish(r, {})
    /\ UNCHANGED <<items, note, assigned, globalVms>>

(* revokeSidenote, acknowledgeSidenote: the note, if it is not revoked. *)
NoteFind(r) ==
    /\ req[r].pc = "find"
    /\ IF note[req[r].item].state = "live" /\ Exists(req[r].item)
         THEN At(r, "mark") ELSE Finish(r, {})
    /\ UNCHANGED <<items, note, assigned, globalVms>>

(* Then an UPDATE of the note by its id; it outlives its item. *)
NoteMark(r) ==
    /\ req[r].pc = "mark"
    /\ IF req[r].op = "unsuggest"
         THEN /\ note' = [note EXCEPT ![req[r].item] = [state |-> "revoked", acked |-> FALSE]]
              /\ At(r, "notify")
         ELSE /\ note' = [note EXCEPT ![req[r].item].acked = TRUE]
              /\ Finish(r, {})
    /\ UNCHANGED <<items, assigned, globalVms>>

(* The notification a handler awaits last: a submission's go to the *)
(* vratmitras, the others to the owner.                             *)
Notify(r) ==
    /\ req[r].pc = "notify"
    /\ Finish(r, {[op |-> req[r].op, to |-> u, item |-> req[r].item] :
                     u \in IF req[r].op = "submit" THEN req[r].tell ELSE {Owner}})
    /\ UNCHANGED <<items, note, assigned, globalVms>>

(* The handler dies between two statements. *)
Abort(r) ==
    /\ req[r].pc # "idle"
    /\ Finish(r, {})
    /\ UNCHANGED <<items, note, assigned, globalVms>>

-----------------------------------------------------------------------------
(* The relationships component, which Vratmitra models, gives the journey a *)
(* vratmitra or the owner a global one, or ends that.                       *)
Mentor == INSTANCE Mentoring WITH globals <- globalVms

Relate ==
    /\ CanStart
    /\ Mentor!Next
    /\ sent' = {}
    /\ UNCHANGED <<items, note, req>>

-----------------------------------------------------------------------------
Init ==
    /\ items = [i \in ItemId |-> NoItem]
    /\ note = [i \in ItemId |-> [state |-> "none", acked |-> FALSE]]
    /\ Mentor!Init
    /\ req = [r \in Req |-> Idle]
    /\ sent = {}

Arrive(r) ==
    \E u \in User :
       \/ \E i \in ItemId, op \in ItemOp : EnterItem(r, u, op, i)
       \/ \E p \in Pool : EnterSelect(r, u, p)
       \/ EnterCreate(r, u)

Advance(r) ==
    \/ Check(r)
    \/ SelectCheck(r)
    \/ Insert(r)
    \/ StatusWrite(r)
    \/ RowWrite(r)
    \/ SuggestWrite(r)
    \/ NoteFind(r)
    \/ NoteMark(r)
    \/ Notify(r)

Next ==
    \/ \E r \in Req : Arrive(r) \/ Advance(r) \/ Abort(r)
    \/ Relate

Spec == Init /\ [][Next]_vars

(***************************************************************************)
(* Fairness: requests in flight advance, and an owner who does not give up *)
(* calls every handler that could move an item on, again and again, and    *)
(* not every attempt dies.  Users owe the system nothing of the kind: this *)
(* is for asking what even such an owner cannot reach.                     *)
(***************************************************************************)
PersistentOwner ==
    /\ \A r \in Req : WF_vars(Advance(r)) /\ SF_vars(StatusWrite(r))
    /\ \A i \in ItemId, op \in {"start", "submit", "selfapprove"} :
          SF_vars(\E r \in Req : EnterItem(r, Owner, op, i))

FairSpec == Spec /\ PersistentOwner

-----------------------------------------------------------------------------
(* Properties *)

(* Every row, note, request and notice has the shape the schema gives it. *)
TypeOK ==
    /\ items \in [ItemId -> Item]
    /\ note \in [ItemId -> Note]
    /\ assigned \in SUBSET Vratmitra
    /\ globalVms \in SUBSET Vratmitra
    /\ req \in [Req -> Request]
    /\ sent \in SUBSET Notice

(* Whatever status the last of several racing UPDATEs leaves, the item went *)
(* the whole way to it: nothing is approved or returned that was never      *)
(* submitted, nothing submitted and nothing checked in that was not started.*)
WentTheWay ==
    \A i \in ItemId : LET row == items[i] IN
       /\ row.status = "in_progress" => row.started
       /\ row.status \in {"submitted", "revisit"} => row.submitted
       /\ row.status = "approved" => row.approved
       /\ row.approved => row.submitted
       /\ row.submitted \/ row.checked => row.started

(* What a notification says did happen, however long after the write it is  *)
(* sent: a submission, an approval or a return of a submitted item, a note. *)
NoticesAreTrue ==
    \A n \in sent :
       /\ n.op \in {"submit", "revisit"} => items[n.item].submitted
       /\ n.op = "approve" => items[n.item].approved
       /\ n.op \in {"suggest", "unsuggest"} => note[n.item].state # "none"

(* When an item becomes submitted, its handler is about to tell everybody   *)
(* who is assigned to the journey and, when somebody mentors the owner, one *)
(* who does: of several the query finds any.                                *)
MentorsAreTold ==
    [][\A r \in Req, i \in ItemId :
          /\ req[r].item = i
          /\ items[i].status # "submitted" /\ items'[i].status = "submitted"
          => \E globalVm \in FindFirst(globalVms) :
                (assigned \cup {globalVm}) \ {Owner, None} \subseteq req'[r].tell]_vars

(* A pool item is in a journey at most once: selectItem looks for it first. *)
OneSelectionPerPool == \A p \in Pool : Cardinality(Selected(p)) <= 1

(* While the journey has a vratmitra, items are approved by a vratmitra of  *)
(* the journey, through whichever of the two endpoints.                     *)
MentorApproves ==
    [][\A r \in Req, i \in ItemId :
          /\ req[r].pc = "write" /\ req[r].item = i /\ assigned # {}
          /\ items[i].status # "approved" /\ items'[i].status = "approved"
          => req[r].user \in assigned]_vars

(* A note that was taken back is not acknowledged: not by an acknowledgement*)
(* before, and not by one after.                                            *)
RevokedIsUnread == \A i \in ItemId : note[i].state = "revoked" => ~note[i].acked

(* An item the vratmitra returned is worked on and submitted again.         *)
ReturnedIsResubmitted ==
    \A i \in ItemId : items[i].status = "revisit" ~> items[i].status # "revisit"

-----------------------------------------------------------------------------
(* With handlers one at a time, every item leads the documented life. *)
Life == INSTANCE ItemLifecycle WITH
            stage <- [i \in ItemId |-> items[i].status],
            off <- [i \in ItemId |-> items[i].off]
ImplementsItemLifecycle == Life!Spec
=============================================================================
