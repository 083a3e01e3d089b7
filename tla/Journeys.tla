------------------------------ MODULE Journeys ------------------------------
(***************************************************************************)
(* The journeys of the platform: rows of the table "journeys", the API     *)
(* handlers of JourneysService that write them, the admin override and the *)
(* nightly dormancy job.                                                   *)
(*                                                                         *)
(* A handler awaits each database statement, so every statement is a step  *)
(* and the handlers of other requests run in between: what a handler read  *)
(* may be stale when it writes.  Every UPDATE names the row by id only.    *)
(* A request that a guard refuses (404, 403, 409) changes nothing and is a *)
(* stuttering step; its guard is the enabling condition of the read step.  *)
(*                                                                         *)
(* A definition whose name has an underscore is a fault: a variant of the  *)
(* definition after it, for which a property of this module fails.         *)
(***************************************************************************)
EXTENDS Naturals, FiniteSets

CONSTANTS
    User,         \* accounts
    Vratarthi,    \* accounts that hold the role VRATARTHI
    Vratmitra,    \* accounts that hold the role VRATMITRA
    Admin,        \* accounts allowed admin.override_journey_state
    Sentence,     \* sentences a journey can be started for
    JourneyId,    \* ids the table can hand out: the bound on rows
    Req,          \* request slots of the API: the bound on concurrent requests
    Interleaved,  \* FALSE: a handler starts only when no other is in flight
    None          \* SQL NULL

ASSUME RolesAssumption ==
    /\ Vratarthi \subseteq User
    /\ Vratmitra \subseteq User
    /\ Admin \subseteq User
    /\ Interleaved \in BOOLEAN

ASSUME NoneAssumption == None \notin User \cup Sentence \cup JourneyId

VARIABLES
    journeys,  \* the rows, by id
    assigned,  \* per journey, the vratmitras with an ACTIVE assignment row
    req,       \* per slot, the request in flight: where it is, what it read
    cron,      \* the dormancy job: the rows of its one SELECT still to mark
    sent       \* the notification rows created by the last step

vars == <<journeys, assigned, req, cron, sent>>

-----------------------------------------------------------------------------
(* Data *)

JourneyState == {"not_started", "active", "paused", "dormant", "completed"}

(***************************************************************************)
(* A row.  "absent" is an id not handed out yet.  The columns              *)
(* completion_submitted_at, completed_at, paused_at and dormant_since are  *)
(* kept as "is not null"; stale is updated_at < now - 30 days.  deleted_at *)
(* is never written by the program and is left out.                        *)
(***************************************************************************)
Row == [state : JourneyState \cup {"absent"},
        owner : User \cup {None},
        sentence : Sentence \cup {None},
        submitted : BOOLEAN, completed : BOOLEAN,
        paused : BOOLEAN, dormant : BOOLEAN,
        stale : BOOLEAN]

NoRow == [state |-> "absent", owner |-> None, sentence |-> None,
          submitted |-> FALSE, completed |-> FALSE,
          paused |-> FALSE, dormant |-> FALSE, stale |-> FALSE]

(* Fault: the two ids are swapped. *)
NewRow_Swapped(u, s) == [NoRow EXCEPT !.state = "active", !.owner = s, !.sentence = u]

NewRow(u, s) == [NoRow EXCEPT !.state = "active", !.owner = u, !.sentence = s]

Op == {"create", "state", "submit", "approve", "title"}

(* A request: pc is the statement it awaits next. *)
Request == [pc : {"idle", "insert", "lookup", "write", "notify"},
            op : Op, user : User \cup {None}, jid : JourneyId \cup {None},
            sentence : Sentence \cup {None},
            to : JourneyState, vm : Vratmitra \cup {None}]

Idle == [pc |-> "idle", op |-> "title", user |-> None, jid |-> None,
         sentence |-> None, to |-> "active", vm |-> None]

Notice == [event : {"submitted", "approved", "dormant"},
           to : User \cup {None}, jid : JourneyId]

-----------------------------------------------------------------------------
(* Queries *)

Exists(j) == journeys[j].state # "absent"

OwnedBy(j, u) == u \in Vratarthi /\ journeys[j].owner = u

(* The states in which a journey blocks a new one for its sentence. *)
Live(j) == journeys[j].state \in {"not_started", "active", "paused", "dormant"}

LiveFor(u, s) ==
    {j \in JourneyId : Live(j) /\ journeys[j].owner = u /\ journeys[j].sentence = s}

(* Faults: an index that forgets sleeping journeys, or no index at all. *)
KeyFree_ButDormant(j, row) ==
    \/ row.state \in {"completed", "dormant"}
    \/ \A k \in JourneyId \ {j} :
          journeys[k].state \notin {"absent", "completed", "dormant"} =>
             <<journeys[k].owner, journeys[k].sentence>> # <<row.owner, row.sentence>>

KeyFree_NoIndex(j, row) == TRUE

(* The partial unique index, asked about a row about to be stored under j. *)
KeyFree(j, row) ==
    \/ row.state = "completed"
    \/ \A k \in JourneyId \ {j} :
          journeys[k].state \notin {"absent", "completed"} =>
             <<journeys[k].owner, journeys[k].sentence>> # <<row.owner, row.sentence>>

FreeId == {j \in JourneyId : ~Exists(j)}

(* The journeys the dormancy job selects. *)
StaleActive == {j \in JourneyId : journeys[j].state = "active" /\ journeys[j].stale}

(* The vratmitra part of journey.complete and journey.view. *)
Mentors(u, j) == u \in Vratmitra /\ u \in assigned[j]

-----------------------------------------------------------------------------
(* The UPDATE statements, as functions of the row; each refreshes updated_at. *)

WithState(row, s) ==
    [row EXCEPT !.state = s,
                !.paused = CASE s = "paused" -> TRUE
                             [] s = "active" -> FALSE
                             [] OTHER -> row.paused,
                !.dormant = IF s = "active" THEN FALSE ELSE row.dormant,
                !.stale = FALSE]

(* Fault: the request for closure is not recorded. *)
AsSubmitted_Unmarked(row) == [row EXCEPT !.stale = FALSE]

AsSubmitted(row) == [row EXCEPT !.submitted = TRUE, !.stale = FALSE]

AsCompleted(row) ==
    [row EXCEPT !.state = "completed", !.completed = TRUE,
                !.submitted = FALSE, !.stale = FALSE]

(* Faults: the job does not write dormant_since, or drops the closure request. *)
AsDormant_Unstamped(row) == [row EXCEPT !.state = "dormant", !.stale = FALSE]

AsDormant_DropsClosure(row) ==
    [row EXCEPT !.state = "dormant", !.dormant = TRUE, !.submitted = FALSE, !.stale = FALSE]

AsDormant(row) == [row EXCEPT !.state = "dormant", !.dormant = TRUE, !.stale = FALSE]

Retitled(row) == [row EXCEPT !.stale = FALSE]

Update(j, row) == journeys' = [journeys EXCEPT ![j] = row]

-----------------------------------------------------------------------------
(* Requests *)

Quiet == (\A q \in Req : req[q].pc = "idle") /\ cron = {}

CanStart == Interleaved \/ Quiet

Starts(r) == req[r].pc = "idle" /\ CanStart

Continue(r, next) ==
    /\ req' = [req EXCEPT ![r] = next]
    /\ sent' = {}

Finish(r, notices) ==
    /\ req' = [req EXCEPT ![r] = Idle]
    /\ sent' = notices

(***************************************************************************)
(* createJourney: look for a live journey, then insert, and when the       *)
(* unique index refuses the insert look again for the winner.  No          *)
(* permission is asked.  The lookup of the sentence's text between the two *)
(* statements, which only supplies a title, is part of the first.          *)
(***************************************************************************)
CreateCheck(r, u, s) ==
    /\ Starts(r)
    /\ Cardinality(FreeId) > Cardinality({q \in Req : req[q].pc = "insert"})
    /\ LiveFor(u, s) = {}
    /\ Continue(r, [Idle EXCEPT !.pc = "insert", !.op = "create",
                                !.user = u, !.sentence = s])
    /\ UNCHANGED <<journeys, assigned, cron>>

(* Fault: a refused insert is tried again and again. *)
CreateInsert_Retries(r) ==
    /\ req[r].pc = "insert"
    /\ LET row == NewRow(req[r].user, req[r].sentence) IN
       \E j \in FreeId :
          IF KeyFree(j, row)
            THEN Update(j, row) /\ Finish(r, {})
            ELSE Continue(r, req[r]) /\ UNCHANGED journeys
    /\ UNCHANGED <<assigned, cron>>

CreateInsert(r) ==
    /\ req[r].pc = "insert"
    /\ LET row == NewRow(req[r].user, req[r].sentence) IN
       \E j \in FreeId :
          IF KeyFree(j, row)
            THEN Update(j, row) /\ Finish(r, {})
            ELSE Continue(r, [req[r] EXCEPT !.pc = "lookup"]) /\ UNCHANGED journeys
    /\ UNCHANGED <<assigned, cron>>

(* It only chooses between two refusals: 409, or the error of the index. *)
CreateLookup(r) ==
    /\ req[r].pc = "lookup"
    /\ Finish(r, {})
    /\ UNCHANGED <<journeys, assigned, cron>>

(* What the write step of the other handlers keeps from their findById. *)
Reads(r, op, u, j, to, vm) ==
    /\ Starts(r)
    /\ Exists(j)
    /\ Continue(r, [Idle EXCEPT !.pc = "write", !.op = op, !.user = u, !.jid = j,
                                !.to = to, !.vm = vm])
    /\ UNCHANGED <<journeys, assigned, cron>>

(* updateState: pause an active journey, resume a paused or dormant one. *)
PauseRead(r, u, j) ==
    /\ OwnedBy(j, u)
    /\ journeys[j].state = "active"
    /\ Reads(r, "state", u, j, "paused", None)

ResumeRead(r, u, j) ==
    /\ OwnedBy(j, u)
    /\ journeys[j].state \in {"paused", "dormant"}
    /\ Reads(r, "state", u, j, "active", None)

(* adminOverrideState: any journey, any state. *)
OverrideRead(r, u, j, s) ==
    /\ u \in Admin
    /\ Reads(r, "state", u, j, s, None)

(* The UPDATE of both.  Reviving a completed row can hit the unique index. *)
StateWrite(r) ==
    /\ req[r].pc = "write" /\ req[r].op = "state"
    /\ LET j == req[r].jid
           row == WithState(journeys[j], req[r].to) IN
       IF KeyFree(j, row)
         THEN Update(j, row) /\ Finish(r, {})
         ELSE UNCHANGED journeys /\ Finish(r, {})
    /\ UNCHANGED <<assigned, cron>>

(***************************************************************************)
(* submitCompletion: the owner of an active journey asks for closure.  The *)
(* first ACTIVE assignment that was read decides: with one, the request is *)
(* marked and that vratmitra notified; with none, the journey completes.   *)
(***************************************************************************)
SubmitRead(r, u, j, vm) ==
    /\ OwnedBy(j, u)
    /\ journeys[j].state = "active"
    /\ IF assigned[j] = {} THEN vm = None ELSE vm \in assigned[j]
    /\ Reads(r, "submit", u, j, "active", vm)

SubmitWrite(r) ==
    /\ req[r].pc = "write" /\ req[r].op = "submit"
    /\ LET j == req[r].jid IN
       IF req[r].vm = None
         THEN Update(j, AsCompleted(journeys[j])) /\ Finish(r, {})
         ELSE Update(j, AsSubmitted(journeys[j]))
              /\ Continue(r, [req[r] EXCEPT !.pc = "notify"])
    /\ UNCHANGED <<assigned, cron>>

(***************************************************************************)
(* approveCompletion: the caller holds the role VRATMITRA and the          *)
(* permission journey.complete, which an assigned vratmitra has and the    *)
(* owner has too.  That a closure was asked for is not checked.            *)
(***************************************************************************)
ApproveRead(r, u, j) ==
    /\ u \in Vratmitra
    /\ OwnedBy(j, u) \/ Mentors(u, j)
    /\ journeys[j].state = "active"
    /\ Reads(r, "approve", u, j, "completed", None)

ApproveWrite(r) ==
    /\ req[r].pc = "write" /\ req[r].op = "approve"
    /\ Update(req[r].jid, AsCompleted(journeys[req[r].jid]))
    /\ Continue(r, [req[r] EXCEPT !.pc = "notify"])
    /\ UNCHANGED <<assigned, cron>>

(* The notification both await after their write. *)
Notify(r) ==
    /\ req[r].pc = "notify"
    /\ LET j == req[r].jid IN
       Finish(r,
              {IF req[r].op = "submit"
                 THEN [event |-> "submitted", to |-> req[r].vm, jid |-> j]
                 ELSE [event |-> "approved", to |-> journeys[j].owner, jid |-> j]})
    /\ UNCHANGED <<journeys, assigned, cron>>

(* updateTitle: the owner, whatever the state. *)
TitleRead(r, u, j) ==
    /\ journeys[j].owner = u
    /\ OwnedBy(j, u) \/ Mentors(u, j)
    /\ Reads(r, "title", u, j, "active", None)

TitleWrite(r) ==
    /\ req[r].pc = "write" /\ req[r].op = "title"
    /\ Update(req[r].jid, Retitled(journeys[req[r].jid]))
    /\ Finish(r, {})
    /\ UNCHANGED <<assigned, cron>>

(* The handler dies between two statements: a lost connection, a restart. *)
Abort(r) ==
    /\ req[r].pc # "idle"
    /\ Finish(r, {})
    /\ UNCHANGED <<journeys, assigned, cron>>

-----------------------------------------------------------------------------
(***************************************************************************)
(* detectDormant, daily: one SELECT of the stale active journeys and of    *)
(* their vratmitras, then one UPDATE per journey of that list, each        *)
(* followed by fire-and-forget notifications to the owner and the          *)
(* vratmitras that were read.  An error ends the job: the rest waits for   *)
(* the next night.                                                         *)
(***************************************************************************)
Scanned == [jid : JourneyId, vms : SUBSET Vratmitra]

(* Fault: the job takes one row a night, the first it finds. *)
CronScan_Batch ==
    /\ cron = {}
    /\ CanStart
    /\ StaleActive # {}
    /\ LET j == CHOOSE k \in StaleActive : TRUE IN
       cron' = {[jid |-> j, vms |-> assigned[j]]}
    /\ sent' = {}
    /\ UNCHANGED <<journeys, assigned, req>>

CronScan ==
    /\ cron = {}
    /\ CanStart
    /\ StaleActive # {}
    /\ cron' = {[jid |-> j, vms |-> assigned[j]] : j \in StaleActive}
    /\ sent' = {}
    /\ UNCHANGED <<journeys, assigned, req>>

CronMark(j) ==
    \E c \in cron :
       /\ c.jid = j
       /\ LET row == AsDormant(journeys[j]) IN
          IF KeyFree(j, row)
            THEN /\ Update(j, row)
                 /\ cron' = cron \ {c}
                 /\ sent' = {[event |-> "dormant", to |-> u, jid |-> j] :
                                u \in {journeys[j].owner} \cup c.vms}
            ELSE UNCHANGED journeys /\ cron' = {} /\ sent' = {}
       /\ UNCHANGED <<assigned, req>>

CronAbort ==
    /\ cron # {}
    /\ cron' = {}
    /\ sent' = {}
    /\ UNCHANGED <<journeys, assigned, req>>

-----------------------------------------------------------------------------
(* Thirty days pass since the last update of a row. *)
Age(j) ==
    /\ CanStart
    /\ Exists(j)
    /\ ~journeys[j].stale
    /\ Update(j, [journeys[j] EXCEPT !.stale = TRUE])
    /\ sent' = {}
    /\ UNCHANGED <<assigned, req, cron>>

(* The relationships component gives a journey a vratmitra, or ends that:   *)
(* for one journey, or in one UPDATE for several of one vratarthi.          *)
Assign(j, v) ==
    /\ CanStart
    /\ Exists(j) /\ v \notin assigned[j]
    /\ assigned' = [assigned EXCEPT ![j] = @ \cup {v}]
    /\ sent' = {}
    /\ UNCHANGED <<journeys, req, cron>>

Unassign(js, v) ==
    /\ CanStart
    /\ js # {} /\ \A j \in js : v \in assigned[j]
    /\ \A j, k \in js : journeys[j].owner = journeys[k].owner
    /\ assigned' = [j \in JourneyId |-> IF j \in js THEN assigned[j] \ {v} ELSE assigned[j]]
    /\ sent' = {}
    /\ UNCHANGED <<journeys, req, cron>>

Relate(v) ==
    \/ \E j \in JourneyId : Assign(j, v)
    \/ \E js \in SUBSET JourneyId : Unassign(js, v)

-----------------------------------------------------------------------------
Init ==
    /\ journeys = [j \in JourneyId |-> NoRow]
    /\ assigned = [j \in JourneyId |-> {}]
    /\ req = [r \in Req |-> Idle]
    /\ cron = {}
    /\ sent = {}

Arrive(r) ==
    \E u \in User :
       \/ \E s \in Sentence : CreateCheck(r, u, s)
       \/ \E j \in JourneyId :
             \/ PauseRead(r, u, j)
             \/ ResumeRead(r, u, j)
             \/ \E s \in JourneyState : OverrideRead(r, u, j, s)
             \/ \E vm \in Vratmitra \cup {None} : SubmitRead(r, u, j, vm)
             \/ ApproveRead(r, u, j)
             \/ TitleRead(r, u, j)

Advance(r) ==
    \/ CreateInsert(r)
    \/ CreateLookup(r)
    \/ StateWrite(r)
    \/ SubmitWrite(r)
    \/ ApproveWrite(r)
    \/ TitleWrite(r)
    \/ Notify(r)

Next ==
    \/ \E r \in Req : Arrive(r) \/ Advance(r) \/ Abort(r)
    \/ CronScan
    \/ \E j \in JourneyId : CronMark(j)
    \/ CronAbort
    \/ \E j \in JourneyId : Age(j)
    \/ \E v \in Vratmitra : Relate(v)

Spec == Init /\ [][Next]_vars

(***************************************************************************)
(* Fairness: a request in flight advances, the scheduler starts the job    *)
(* every night, and a journey the job has on its list again and again is   *)
(* marked at last: not every run of the job dies before it gets there.     *)
(***************************************************************************)
Fairness ==
    /\ \A r \in Req : WF_vars(Advance(r))
    /\ WF_vars(CronScan)
    /\ \A j \in JourneyId : SF_vars(CronMark(j))

FairSpec == Spec /\ Fairness

-----------------------------------------------------------------------------
(* Properties *)

(* Every row, request and notice has the shape the schema gives it. *)
TypeOK ==
    /\ journeys \in [JourneyId -> Row]
    /\ assigned \in [JourneyId -> SUBSET Vratmitra]
    /\ req \in [Req -> Request]
    /\ cron \in SUBSET Scanned
    /\ sent \in SUBSET Notice

(* A person never has two journeys that are not completed for one sentence, *)
(* however createJourney, a resume, an override and the job interleave.     *)
OneLivePerSentence ==
    \A i, j \in JourneyId :
       /\ Live(i) /\ Live(j)
       /\ journeys[i].owner = journeys[j].owner
       /\ journeys[i].sentence = journeys[j].sentence
       => i = j

(* The state and the time columns tell one story in every interleaving of   *)
(* the unconditional UPDATEs: paused has paused_at, dormant has             *)
(* dormant_since, active has neither, completed has completed_at.           *)
TimestampsAgree ==
    \A j \in JourneyId : LET row == journeys[j] IN
       /\ row.state = "paused" => row.paused
       /\ row.state = "dormant" => row.dormant
       /\ row.state = "active" => ~row.paused /\ ~row.dormant
       /\ row.state = "completed" => row.completed

(* A notification about a closure is never ahead of the database: a request *)
(* for closure is recorded, or already granted, when the vratmitra is told  *)
(* of it, and a journey whose owner is told it was approved was completed.  *)
NoticesAreTrue ==
    \A n \in sent : LET row == journeys[n.jid] IN
       /\ n.event = "submitted" => row.submitted \/ row.completed
       /\ n.event = "approved" => row.completed /\ n.to = row.owner

(* The write of r, at this step, completes journey j. *)
Completes(r, j) ==
    /\ req[r].pc = "write" /\ req[r].jid = j
    /\ journeys[j].state # "completed" /\ journeys'[j].state = "completed"

(* A journey whose owner mentors nobody, and that has a vratmitra when it   *)
(* completes, was completed by one of its own vratmitras.                   *)
MentorCompletes ==
    [][\A r \in Req, j \in JourneyId :
          Completes(r, j) /\ assigned[j] # {} /\ journeys[j].owner \notin Vratmitra
             => req[r].op = "approve" /\ req[r].user \in assigned[j]]_vars

(* A closure request outlives everything but the closure: pausing, sleep,   *)
(* resuming, a new title or the vratmitra's withdrawal never lose it.       *)
ClosureRequestSurvives ==
    [][\A j \in JourneyId :
          journeys[j].submitted /\ ~journeys'[j].submitted
             => journeys'[j].completed /\ journeys'[j].state = "completed"]_vars

(* A journey left alone for thirty days is put to sleep, completed, paused  *)
(* or touched at last: the job reaches every row of its list.               *)
StaleIsSettled ==
    \A j \in JourneyId : j \in StaleActive ~> j \notin StaleActive

(* Every handler that starts gives its answer or dies. *)
RequestsEnd == \A r \in Req : req[r].pc # "idle" ~> req[r].pc = "idle"

-----------------------------------------------------------------------------
(* The abstract specifications this module implements *)

(* Starting journeys hands each (person, sentence) slot from one live       *)
(* journey to the next, in every interleaving.                              *)
Slots == INSTANCE OneLiveJourney WITH
            Slot <- User \X Sentence,
            live <- [p \in User \X Sentence |-> LiveFor(p[1], p[2])]
ImplementsOneLiveJourney == Slots!Spec

(* With handlers one at a time and no override, every journey leads the     *)
(* documented life.                                                         *)
Life == INSTANCE JourneyLifecycle WITH
            stage <- [j \in JourneyId |-> journeys[j].state],
            stale <- [j \in JourneyId |-> journeys[j].stale]
ImplementsJourneyLifecycle == Life!Spec
=============================================================================
