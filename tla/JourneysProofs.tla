--------------------------- MODULE JourneysProofs ---------------------------
(***************************************************************************)
(* Machine-checked theorems about Journeys, for every set of accounts,     *)
(* roles, sentences, ids and request slots.                                *)
(*                                                                         *)
(* Every action that touches the table runs one UPDATE or INSERT of one    *)
(* row.  RowStep says what such a statement may store; each safety theorem *)
(* follows from it, so the case split over the actions is done once.       *)
(***************************************************************************)
EXTENDS Journeys, TLAPS

-----------------------------------------------------------------------------
(* The row functions stay inside Row and keep the key of the row. *)

(* What a journey is about never changes. *)
SameKey(row, old) == row.owner = old.owner /\ row.sentence = old.sentence

LEMMA RowFunctions ==
    ASSUME NEW row \in Row, NEW s \in JourneyState
    PROVE  /\ WithState(row, s) \in Row /\ SameKey(WithState(row, s), row)
           /\ WithState(row, s).state = s
           /\ AsSubmitted(row) \in Row /\ SameKey(AsSubmitted(row), row)
           /\ AsSubmitted(row).state = row.state
           /\ AsCompleted(row) \in Row /\ SameKey(AsCompleted(row), row)
           /\ AsCompleted(row).state = "completed"
           /\ AsDormant(row) \in Row /\ SameKey(AsDormant(row), row)
           /\ AsDormant(row).state = "dormant"
           /\ Retitled(row) \in Row /\ SameKey(Retitled(row), row)
           /\ Retitled(row).state = row.state
<1>1. /\ WithState(row, s) \in Row /\ SameKey(WithState(row, s), row)
      /\ WithState(row, s).state = s
  BY DEF Row, WithState, SameKey
<1>2. /\ AsSubmitted(row) \in Row /\ SameKey(AsSubmitted(row), row)
      /\ AsSubmitted(row).state = row.state
  BY DEF Row, AsSubmitted, SameKey
<1>3. /\ AsCompleted(row) \in Row /\ SameKey(AsCompleted(row), row)
      /\ AsCompleted(row).state = "completed"
  BY DEF Row, AsCompleted, SameKey, JourneyState
<1>4. /\ AsDormant(row) \in Row /\ SameKey(AsDormant(row), row)
      /\ AsDormant(row).state = "dormant"
  BY DEF Row, AsDormant, SameKey, JourneyState
<1>5. /\ Retitled(row) \in Row /\ SameKey(Retitled(row), row)
      /\ Retitled(row).state = row.state
  BY DEF Row, Retitled, SameKey
<1> QED BY <1>1, <1>2, <1>3, <1>4, <1>5, Zenon

(* A call that arrives finds its slot free and the system at rest, where one at a time is    *)
(* the rule, and only reads.                                                                 *)
LEMMA ArriveReads ==
    ASSUME NEW r \in Req, Arrive(r)
    PROVE  Starts(r) /\ sent' = {} /\ UNCHANGED <<journeys, assigned, cron>>
<1> DEFINE Quietly == Starts(r) /\ sent' = {} /\ UNCHANGED <<journeys, assigned, cron>>
<1>1. ASSUME NEW u \in User, NEW s \in Sentence, CreateCheck(r, u, s)
      PROVE  Quietly
  BY <1>1 DEF CreateCheck, Continue
<1>2. ASSUME NEW op, NEW u, NEW j, NEW to, NEW vm, Reads(r, op, u, j, to, vm)
      PROVE  Quietly
  BY <1>2 DEF Reads, Continue
<1> HIDE DEF Quietly
<1>3. ASSUME NEW u \in User, NEW j \in JourneyId,
             PauseRead(r, u, j) \/ ResumeRead(r, u, j) \/ ApproveRead(r, u, j) \/ TitleRead(r, u, j)
      PROVE  Quietly
  BY <1>2, <1>3, Zenon DEF PauseRead, ResumeRead, ApproveRead, TitleRead
<1>4. ASSUME NEW u \in User, NEW j \in JourneyId, NEW to \in JourneyState, OverrideRead(r, u, j, to)
      PROVE  Quietly
  BY <1>2, <1>4, Zenon DEF OverrideRead
<1>5. ASSUME NEW u \in User, NEW j \in JourneyId, NEW vm \in Vratmitra \cup {None},
             SubmitRead(r, u, j, vm)
      PROVE  Quietly
  BY <1>2, <1>5, Zenon DEF SubmitRead
<1>6. Quietly
  BY <1>1, <1>3, <1>4, <1>5, Zenon DEF Arrive
<1> QED BY <1>6 DEF Quietly

LEMMA NewRowType ==
    ASSUME NEW u \in User, NEW s \in Sentence
    PROVE  /\ NewRow(u, s) \in Row /\ NewRow(u, s).state = "active"
           /\ NewRow(u, s).owner = u /\ NewRow(u, s).sentence = s
  BY DEF Row, NewRow, NoRow, JourneyState

LEMMA NoRowType == NoRow \in Row
  BY DEF Row, NoRow

LEMMA IdleType == Idle \in Request
  BY DEF Request, Idle, Op, JourneyState

-----------------------------------------------------------------------------
(* Type correctness. *)

LEMMA UpdateKeepsType ==
    ASSUME TypeOK, NEW j \in JourneyId, NEW row \in Row, Update(j, row)
    PROVE  journeys' \in [JourneyId -> Row]
  BY DEF TypeOK, Update

(* What the request in slot r may hold. *)
LEMMA RequestType ==
    ASSUME TypeOK, NEW r \in Req
    PROVE  /\ req[r] \in Request
           /\ req[r].jid \in JourneyId \cup {None}
           /\ req[r].user \in User \cup {None}
           /\ req[r].sentence \in Sentence \cup {None}
           /\ req[r].to \in JourneyState
           /\ req[r].vm \in Vratmitra \cup {None}
  BY DEF TypeOK, Request

(***************************************************************************)
(* TypeOK is not inductive: a request about to write must name a row, and  *)
(* one about to insert must name a person and a sentence.                  *)
(***************************************************************************)
RequestsFilled ==
    \A r \in Req :
       /\ req[r].pc \in {"write", "notify"} => req[r].jid \in JourneyId
       /\ req[r].pc \in {"insert", "lookup"} =>
             req[r].user \in User /\ req[r].sentence \in Sentence

TypeInv == TypeOK /\ RequestsFilled

(* One slot changes, to a request that is filled. *)
LEMMA FilledSlot ==
    ASSUME TypeInv, NEW r \in Req, NEW next \in Request,
           next.pc \in {"write", "notify"} => next.jid \in JourneyId,
           next.pc \in {"insert", "lookup"} =>
              next.user \in User /\ next.sentence \in Sentence,
           req' = [req EXCEPT ![r] = next]
    PROVE  req' \in [Req -> Request] /\ RequestsFilled'
  BY DEF TypeInv, TypeOK, RequestsFilled

LEMMA ContinueFilled ==
    ASSUME TypeInv, NEW r \in Req, NEW next \in Request, Continue(r, next),
           next.pc \in {"write", "notify"} => next.jid \in JourneyId,
           next.pc \in {"insert", "lookup"} =>
              next.user \in User /\ next.sentence \in Sentence
    PROVE  req' \in [Req -> Request] /\ RequestsFilled' /\ sent' = {}
  BY FilledSlot DEF Continue

LEMMA FinishFilled ==
    ASSUME TypeInv, NEW r \in Req, NEW notices, Finish(r, notices)
    PROVE  req' \in [Req -> Request] /\ RequestsFilled' /\ sent' = notices
<1>1. Idle.pc = "idle"
  BY DEF Idle
<1> QED BY <1>1, IdleType, FilledSlot DEF Finish

LEMMA ReadsFilled ==
    ASSUME TypeInv, NEW r \in Req, NEW op \in Op, NEW u \in User, NEW j \in JourneyId,
           NEW to \in JourneyState, NEW vm \in Vratmitra \cup {None},
           Reads(r, op, u, j, to, vm)
    PROVE  TypeInv'
<1> DEFINE next == [Idle EXCEPT !.pc = "write", !.op = op, !.user = u, !.jid = j,
                                !.to = to, !.vm = vm]
<1>1. next \in Request /\ next.pc = "write" /\ next.jid = j
  BY DEF Request, Idle
<1>2. Continue(r, next) /\ UNCHANGED <<journeys, assigned, cron>>
  BY DEF Reads
<1> HIDE DEF next
<1> QED BY <1>1, <1>2, ContinueFilled DEF TypeInv, TypeOK

LEMMA InitType == Init => TypeInv
<1> SUFFICES ASSUME Init PROVE TypeInv
  OBVIOUS
<1>1. journeys \in [JourneyId -> Row]
  BY NoRowType DEF Init
<1>2. req \in [Req -> Request] /\ RequestsFilled
  BY IdleType DEF Init, RequestsFilled, Idle
<1> QED BY <1>1, <1>2 DEF Init, TypeInv, TypeOK

LEMMA StepType == TypeInv /\ [Next]_vars => TypeInv'
<1> SUFFICES ASSUME TypeInv, [Next]_vars PROVE TypeInv'
  OBVIOUS
<1> USE DEF TypeInv
<1>1. ASSUME NEW r \in Req, NEW u \in User, NEW s \in Sentence, CreateCheck(r, u, s)
      PROVE  TypeInv'
  <2> DEFINE next == [Idle EXCEPT !.pc = "insert", !.op = "create",
                                  !.user = u, !.sentence = s]
  <2>1. next \in Request /\ next.pc = "insert" /\ next.user = u /\ next.sentence = s
    BY DEF Request, Idle, Op, JourneyState
  <2>2. Continue(r, next) /\ UNCHANGED <<journeys, assigned, cron>>
    BY <1>1 DEF CreateCheck
  <2> HIDE DEF next
  <2> QED BY <2>1, <2>2, ContinueFilled DEF TypeOK
<1>2. ASSUME NEW r \in Req, CreateInsert(r)
      PROVE  TypeInv'
  <2> DEFINE row == NewRow(req[r].user, req[r].sentence)
  <2>1. req[r].user \in User /\ req[r].sentence \in Sentence
    BY <1>2 DEF CreateInsert, RequestsFilled
  <2>2. row \in Row
    BY <2>1, NewRowType
  <2>3. PICK j \in FreeId :
           IF KeyFree(j, row)
             THEN Update(j, row) /\ Finish(r, {})
             ELSE Continue(r, [req[r] EXCEPT !.pc = "lookup"]) /\ UNCHANGED journeys
    BY <1>2 DEF CreateInsert
  <2>4. j \in JourneyId /\ UNCHANGED <<assigned, cron>>
    BY <1>2 DEF CreateInsert, FreeId
  <2>5. CASE KeyFree(j, row)
    <3>1. Update(j, row) /\ Finish(r, {})
      BY <2>3, <2>5
    <3> QED BY <2>2, <2>4, <3>1, UpdateKeepsType, FinishFilled DEF TypeOK
  <2>6. CASE ~KeyFree(j, row)
    <3> DEFINE next == [req[r] EXCEPT !.pc = "lookup"]
    <3>1. next \in Request /\ next.pc = "lookup"
          /\ next.user = req[r].user /\ next.sentence = req[r].sentence
      BY RequestType DEF Request
    <3>2. Continue(r, next) /\ UNCHANGED journeys
      BY <2>3, <2>6
    <3> HIDE DEF next
    <3> QED BY <2>1, <2>4, <3>1, <3>2, ContinueFilled DEF TypeOK
  <2> QED BY <2>5, <2>6
<1>3. ASSUME NEW r \in Req, CreateLookup(r)
      PROVE  TypeInv'
  BY <1>3, FinishFilled DEF CreateLookup, TypeOK
<1>4. ASSUME NEW r \in Req, NEW u \in User, NEW j \in JourneyId,
             \/ PauseRead(r, u, j)
             \/ ResumeRead(r, u, j)
             \/ \E s \in JourneyState : OverrideRead(r, u, j, s)
             \/ \E vm \in Vratmitra \cup {None} : SubmitRead(r, u, j, vm)
             \/ ApproveRead(r, u, j)
             \/ TitleRead(r, u, j)
      PROVE  TypeInv'
  <2>1. PICK op \in Op, to \in JourneyState, vm \in Vratmitra \cup {None} :
           Reads(r, op, u, j, to, vm)
    BY <1>4 DEF PauseRead, ResumeRead, OverrideRead, SubmitRead, ApproveRead, TitleRead,
                Op, JourneyState
  <2> QED BY <2>1, ReadsFilled
<1>5. ASSUME NEW r \in Req,
             StateWrite(r) \/ SubmitWrite(r) \/ ApproveWrite(r) \/ TitleWrite(r)
      PROVE  TypeInv'
  <2> DEFINE j == req[r].jid
             next == [req[r] EXCEPT !.pc = "notify"]
  <2>1. j \in JourneyId /\ journeys[j] \in Row
    BY <1>5 DEF StateWrite, SubmitWrite, ApproveWrite, TitleWrite, RequestsFilled, TypeOK
  <2>2. /\ WithState(journeys[j], req[r].to) \in Row
        /\ AsSubmitted(journeys[j]) \in Row
        /\ AsCompleted(journeys[j]) \in Row
        /\ Retitled(journeys[j]) \in Row
    BY <2>1, RequestType, RowFunctions
  <2>3. next \in Request /\ next.pc = "notify" /\ next.jid = j
    BY RequestType DEF Request
  <2>4. UNCHANGED <<assigned, cron>>
    BY <1>5 DEF StateWrite, SubmitWrite, ApproveWrite, TitleWrite
  <2>5. /\ UNCHANGED journeys \/ \E row \in Row : Update(j, row)
        /\ Finish(r, {}) \/ Continue(r, next)
    BY <1>5, <2>2 DEF StateWrite, SubmitWrite, ApproveWrite, TitleWrite
  <2>6. journeys' \in [JourneyId -> Row]
    BY <2>1, <2>5, UpdateKeepsType DEF TypeOK
  <2> HIDE DEF next, j
  <2>7. /\ req' \in [Req -> Request] /\ RequestsFilled'
        /\ sent' = {}
    BY <2>1, <2>3, <2>5, FinishFilled, ContinueFilled
  <2> QED BY <2>4, <2>6, <2>7 DEF TypeOK
<1>6. ASSUME NEW r \in Req, Notify(r)
      PROVE  TypeInv'
  <2> DEFINE j == req[r].jid
             note == IF req[r].op = "submit"
                       THEN [event |-> "submitted", to |-> req[r].vm, jid |-> j]
                       ELSE [event |-> "approved", to |-> journeys[j].owner, jid |-> j]
  <2>1. j \in JourneyId /\ journeys[j] \in Row
    BY <1>6 DEF Notify, RequestsFilled, TypeOK
  <2>2. note \in Notice
    BY <2>1, RequestType, RolesAssumption DEF Notice, Row
  <2>3. Finish(r, {note}) /\ UNCHANGED <<journeys, assigned, cron>>
    BY <1>6 DEF Notify
  <2> HIDE DEF note
  <2> QED BY <2>2, <2>3, FinishFilled DEF TypeOK
<1>7. ASSUME NEW r \in Req, Abort(r)
      PROVE  TypeInv'
  BY <1>7, FinishFilled DEF Abort, TypeOK
<1>8. CASE CronScan
  BY <1>8 DEF CronScan, TypeOK, RequestsFilled, StaleActive, Scanned
<1>9. ASSUME NEW j \in JourneyId, CronMark(j)
      PROVE  TypeInv'
  <2> DEFINE row == AsDormant(journeys[j])
  <2>1. PICK c \in cron :
           /\ c.jid = j
           /\ IF KeyFree(j, row)
                THEN /\ Update(j, row)
                     /\ cron' = cron \ {c}
                     /\ sent' = {[event |-> "dormant", to |-> u, jid |-> j] :
                                    u \in {journeys[j].owner} \cup c.vms}
                ELSE UNCHANGED journeys /\ cron' = {} /\ sent' = {}
           /\ UNCHANGED <<assigned, req>>
    BY <1>9 DEF CronMark
  <2>2. c.vms \subseteq User /\ journeys[j].owner \in User \cup {None}
    BY RolesAssumption DEF TypeOK, Scanned, Row
  <2>3. {[event |-> "dormant", to |-> u, jid |-> j] :
             u \in {journeys[j].owner} \cup c.vms} \in SUBSET Notice
    BY <2>2 DEF Notice
  <2>4. row \in Row
    BY RowFunctions DEF TypeOK, JourneyState
  <2>5. journeys' \in [JourneyId -> Row]
    BY <2>1, <2>4, UpdateKeepsType DEF TypeOK
  <2>6. cron' \in SUBSET Scanned /\ sent' \in SUBSET Notice
    BY <2>1, <2>3 DEF TypeOK
  <2>7. RequestsFilled' /\ UNCHANGED <<assigned, req>>
    BY <2>1 DEF RequestsFilled
  <2> QED BY <2>5, <2>6, <2>7 DEF TypeOK
<1>10. CASE CronAbort
  BY <1>10 DEF CronAbort, TypeOK, RequestsFilled
<1>11. ASSUME NEW j \in JourneyId, Age(j)
       PROVE  TypeInv'
  <2>1. [journeys[j] EXCEPT !.stale = TRUE] \in Row
    BY DEF TypeOK, Row
  <2>2. journeys' \in [JourneyId -> Row]
    BY <1>11, <2>1, UpdateKeepsType DEF Age
  <2> QED BY <1>11, <2>2 DEF Age, TypeOK, RequestsFilled
<1>12. ASSUME NEW v \in Vratmitra, Relate(v)
       PROVE  TypeInv'
  BY <1>12 DEF Relate, Assign, Unassign, TypeOK, RequestsFilled
<1>13. CASE UNCHANGED vars
  BY <1>13 DEF vars, TypeOK, RequestsFilled
<1> QED
  BY <1>1, <1>2, <1>3, <1>4, <1>5, <1>6, <1>7, <1>8, <1>9, <1>10, <1>11, <1>12, <1>13
  DEF Next, Arrive, Advance

(* Every reachable row, request and notice has its type. *)
THEOREM TypeCorrect == Spec => []TypeOK
<1>1. Spec => []TypeInv
  BY InitType, StepType, PTL DEF Spec
<1>2. TypeInv => TypeOK
  BY DEF TypeInv
<1> QED BY <1>1, <1>2, PTL

-----------------------------------------------------------------------------
(* One statement, one row. *)

(***************************************************************************)
(* What a step may do to the table: nothing, or store one row that the     *)
(* unique index accepts or whose state did not change, about the same      *)
(* person and sentence unless the id is new.                               *)
(***************************************************************************)
Stores(j, row) ==
    /\ row \in Row
    /\ Update(j, row)
    /\ KeyFree(j, row) \/ row.state = journeys[j].state
    /\ SameKey(row, journeys[j]) \/ journeys[j].state = "absent"

RowStep == UNCHANGED journeys \/ \E j \in JourneyId, row \in Row : Stores(j, row)

LEMMA EveryStepIsARowStep == TypeInv /\ [Next]_vars => RowStep
<1> SUFFICES ASSUME TypeInv, [Next]_vars PROVE RowStep
  OBVIOUS
<1> USE DEF TypeInv
<1>1. ASSUME NEW r \in Req, CreateInsert(r)
      PROVE  RowStep
  <2> DEFINE row == NewRow(req[r].user, req[r].sentence)
  <2>1. row \in Row
    BY <1>1, NewRowType DEF CreateInsert, RequestsFilled
  <2>2. PICK j \in FreeId :
           UNCHANGED journeys \/ (KeyFree(j, row) /\ Update(j, row))
    BY <1>1 DEF CreateInsert
  <2>3. j \in JourneyId /\ journeys[j].state = "absent"
    BY DEF FreeId, Exists
  <2> HIDE DEF row
  <2> QED BY <2>1, <2>2, <2>3 DEF RowStep, Stores
<1>2. ASSUME NEW r \in Req,
             StateWrite(r) \/ SubmitWrite(r) \/ ApproveWrite(r) \/ TitleWrite(r)
      PROVE  RowStep
  <2> DEFINE j == req[r].jid
  <2>1. j \in JourneyId /\ journeys[j] \in Row /\ req[r].to \in JourneyState
    BY <1>2, RequestType
    DEF StateWrite, SubmitWrite, ApproveWrite, TitleWrite, RequestsFilled, TypeOK
  <2>2. CASE StateWrite(r)
    <3>1. WithState(journeys[j], req[r].to) \in Row
          /\ SameKey(WithState(journeys[j], req[r].to), journeys[j])
      BY <2>1, RowFunctions
    <3> QED BY <2>1, <2>2, <3>1 DEF StateWrite, RowStep, Stores
  <2>3. CASE SubmitWrite(r) \/ ApproveWrite(r)
    <3>1. /\ AsCompleted(journeys[j]) \in Row
          /\ SameKey(AsCompleted(journeys[j]), journeys[j])
          /\ KeyFree(j, AsCompleted(journeys[j]))
          /\ AsSubmitted(journeys[j]) \in Row
          /\ SameKey(AsSubmitted(journeys[j]), journeys[j])
          /\ AsSubmitted(journeys[j]).state = journeys[j].state
      BY <2>1, RowFunctions DEF KeyFree
    <3>2. Update(j, AsCompleted(journeys[j])) \/ Update(j, AsSubmitted(journeys[j]))
      BY <2>3 DEF SubmitWrite, ApproveWrite
    <3> QED BY <2>1, <3>1, <3>2 DEF RowStep, Stores
  <2>4. CASE TitleWrite(r)
    <3>1. /\ Retitled(journeys[j]) \in Row
          /\ SameKey(Retitled(journeys[j]), journeys[j])
          /\ Retitled(journeys[j]).state = journeys[j].state
      BY <2>1, RowFunctions
    <3> QED BY <2>1, <2>4, <3>1 DEF TitleWrite, RowStep, Stores
  <2> QED BY <1>2, <2>2, <2>3, <2>4
<1>3. ASSUME NEW j \in JourneyId, CronMark(j)
      PROVE  RowStep
  <2>1. AsDormant(journeys[j]) \in Row /\ SameKey(AsDormant(journeys[j]), journeys[j])
    BY RowFunctions DEF TypeOK, JourneyState
  <2> QED BY <1>3, <2>1 DEF CronMark, RowStep, Stores
<1>4. ASSUME NEW j \in JourneyId, Age(j)
      PROVE  RowStep
  <2> DEFINE row == [journeys[j] EXCEPT !.stale = TRUE]
  <2>1. row \in Row /\ SameKey(row, journeys[j]) /\ row.state = journeys[j].state
    BY DEF TypeOK, Row, SameKey
  <2>2. Update(j, row)
    BY <1>4 DEF Age
  <2> HIDE DEF row
  <2> QED BY <2>1, <2>2 DEF RowStep, Stores
<1>5. ASSUME NEW r \in Req, Arrive(r)
      PROVE  UNCHANGED journeys
  BY <1>5, ArriveReads
<1>6. ASSUME NEW r \in Req, CreateLookup(r) \/ Notify(r) \/ Abort(r)
      PROVE  UNCHANGED journeys
  BY <1>6 DEF CreateLookup, Notify, Abort
<1>7. CASE CronScan \/ CronAbort
  BY <1>7 DEF CronScan, CronAbort, RowStep
<1>8. ASSUME NEW v \in Vratmitra, Relate(v)
      PROVE  UNCHANGED journeys
  BY <1>8 DEF Relate, Assign, Unassign
<1>9. CASE UNCHANGED vars
  BY <1>9 DEF vars, RowStep
<1>10. UNCHANGED journeys => RowStep
  BY DEF RowStep
<1> QED
  BY <1>1, <1>2, <1>3, <1>4, <1>5, <1>6, <1>7, <1>8, <1>9, <1>10 DEF Next, Advance

-----------------------------------------------------------------------------
(* One live journey per person and sentence. *)

LEMMA InitOneLive == Init => OneLivePerSentence
  BY DEF Init, OneLivePerSentence, Live, NoRow

LEMMA StepOneLive ==
    ASSUME TypeInv, OneLivePerSentence, [Next]_vars
    PROVE  OneLivePerSentence'
<1>1. CASE UNCHANGED journeys
  BY <1>1 DEF OneLivePerSentence, Live
<1>2. ASSUME NEW k \in JourneyId, NEW row \in Row, Stores(k, row)
      PROVE  OneLivePerSentence'
  <2>1. journeys' = [journeys EXCEPT ![k] = row] /\ journeys \in [JourneyId -> Row]
    BY <1>2 DEF Stores, Update, TypeInv, TypeOK
  <2>2. ASSUME NEW j \in JourneyId, j # k, Live(j)', Live(k)',
               journeys'[j].owner = journeys'[k].owner,
               journeys'[j].sentence = journeys'[k].sentence
        PROVE  FALSE
    <3>1. journeys'[j] = journeys[j] /\ journeys'[k] = row /\ Live(j)
      BY <2>1, <2>2 DEF Live
    <3>2. row.state \in {"not_started", "active", "paused", "dormant"}
      BY <2>2, <3>1 DEF Live
    <3>3. CASE KeyFree(k, row)
      BY <2>2, <3>1, <3>2, <3>3 DEF KeyFree, Live
    <3>4. CASE row.state = journeys[k].state
      <4>1. Live(k) /\ SameKey(row, journeys[k])
        BY <1>2, <3>2, <3>4 DEF Live, Stores
      <4> QED BY <2>2, <3>1, <4>1 DEF OneLivePerSentence, SameKey
    <3> QED BY <1>2, <3>3, <3>4 DEF Stores
  <2>3. ASSUME NEW i \in JourneyId, NEW j \in JourneyId, i # k, j # k,
               Live(i)', Live(j)',
               journeys'[i].owner = journeys'[j].owner,
               journeys'[i].sentence = journeys'[j].sentence
        PROVE  i = j
    BY <2>1, <2>3 DEF OneLivePerSentence, Live
  <2> QED BY <2>2, <2>3 DEF OneLivePerSentence
<1> QED BY <1>1, <1>2, EveryStepIsARowStep DEF RowStep

(* However the handlers, the override and the job interleave, a person      *)
(* never has two live journeys for one sentence.                            *)
THEOREM OneLive == Spec => []OneLivePerSentence
<1>1. Init => TypeInv /\ OneLivePerSentence
  BY InitType, InitOneLive
<1>2. TypeInv /\ OneLivePerSentence /\ [Next]_vars
         => TypeInv' /\ OneLivePerSentence'
  BY StepType, StepOneLive
<1> QED BY <1>1, <1>2, PTL DEF Spec

-----------------------------------------------------------------------------
(* What a row keeps. *)

(* A stored row never goes away, completed_at is never cleared, a closure   *)
(* request is cleared by the closure alone, and an unused id stays blank.   *)
Advances(row, old) ==
    /\ old.state # "absent" => row.state # "absent"
    /\ old.completed => row.completed
    /\ old.submitted => row.submitted \/ (row.completed /\ row.state = "completed")
    /\ row.state = "absent" =>
          row.submitted = old.submitted /\ row.completed = old.completed

LEMMA RowFunctionsAdvance ==
    ASSUME NEW row \in Row, NEW s \in JourneyState
    PROVE  /\ Advances(WithState(row, s), row)
           /\ row.state # "absent" => Advances(AsSubmitted(row), row)
           /\ Advances(AsCompleted(row), row)
           /\ Advances(AsDormant(row), row)
           /\ Advances(Retitled(row), row)
           /\ Advances([row EXCEPT !.stale = TRUE], row)
           /\ Advances(row, row)
  BY DEF Row, WithState, AsSubmitted, AsCompleted, AsDormant, Retitled, Advances,
         JourneyState

(* A request about to write names a stored row; an id not handed out has    *)
(* no columns set.                                                          *)
Grounded ==
    /\ \A r \in Req : req[r].pc \in {"write", "notify"} => Exists(req[r].jid)
    /\ \A j \in JourneyId : ~Exists(j) => ~journeys[j].submitted /\ ~journeys[j].completed

LEMMA StepAdvances ==
    ASSUME TypeInv, Grounded, [Next]_vars, NEW j \in JourneyId
    PROVE  Advances(journeys'[j], journeys[j])
<1> USE DEF TypeInv
<1>1. ASSUME NEW k \in JourneyId, NEW row, Update(k, row), Advances(row, journeys[k])
      PROVE  Advances(journeys'[j], journeys[j])
  <2>1. journeys'[j] = IF j = k THEN row ELSE journeys[j]
    BY <1>1 DEF Update, TypeOK
  <2>2. Advances(journeys[j], journeys[j])
    BY DEF Advances, TypeOK, Row
  <2> QED BY <1>1, <2>1, <2>2
<1>2. ASSUME UNCHANGED journeys
      PROVE  Advances(journeys'[j], journeys[j])
  BY <1>2 DEF Advances, TypeOK, Row
<1>3. ASSUME NEW r \in Req, CreateInsert(r)
      PROVE  Advances(journeys'[j], journeys[j])
  <2> DEFINE row == NewRow(req[r].user, req[r].sentence)
  <2>1. PICK k \in FreeId : UNCHANGED journeys \/ Update(k, row)
    BY <1>3 DEF CreateInsert
  <2>2. row.state = "active"
    BY <1>3, NewRowType DEF CreateInsert, RequestsFilled
  <2>3. k \in JourneyId /\ journeys[k].state = "absent"
        /\ ~journeys[k].submitted /\ ~journeys[k].completed
    BY DEF FreeId, Grounded, Exists
  <2> HIDE DEF row
  <2>4. Advances(row, journeys[k])
    BY <2>2, <2>3 DEF Advances
  <2> QED BY <1>1, <1>2, <2>1, <2>3, <2>4
<1>4. ASSUME NEW r \in Req,
             StateWrite(r) \/ SubmitWrite(r) \/ ApproveWrite(r) \/ TitleWrite(r)
      PROVE  Advances(journeys'[j], journeys[j])
  <2> DEFINE k == req[r].jid
  <2>1. k \in JourneyId /\ journeys[k] \in Row /\ req[r].to \in JourneyState
    BY <1>4, RequestType
    DEF StateWrite, SubmitWrite, ApproveWrite, TitleWrite, RequestsFilled, TypeOK
  <2>2. journeys[k].state # "absent"
    BY <1>4 DEF StateWrite, SubmitWrite, ApproveWrite, TitleWrite, Grounded, Exists
  <2>3. \/ UNCHANGED journeys
        \/ Update(k, WithState(journeys[k], req[r].to))
        \/ Update(k, AsSubmitted(journeys[k]))
        \/ Update(k, AsCompleted(journeys[k]))
        \/ Update(k, Retitled(journeys[k]))
    BY <1>4 DEF StateWrite, SubmitWrite, ApproveWrite, TitleWrite
  <2> HIDE DEF k
  <2> QED BY <1>1, <1>2, <2>1, <2>2, <2>3, RowFunctionsAdvance
<1>5. ASSUME NEW k \in JourneyId, CronMark(k) \/ Age(k)
      PROVE  Advances(journeys'[j], journeys[j])
  <2>1. \/ UNCHANGED journeys
        \/ Update(k, AsDormant(journeys[k]))
        \/ Update(k, [journeys[k] EXCEPT !.stale = TRUE])
    BY <1>5 DEF CronMark, Age
  <2>2. journeys[k] \in Row /\ "active" \in JourneyState
    BY DEF TypeOK, JourneyState
  <2> QED BY <1>1, <1>2, <2>1, <2>2, RowFunctionsAdvance
<1>6. ASSUME NEW r \in Req, Arrive(r)
      PROVE  UNCHANGED journeys
  BY <1>6, ArriveReads
<1>7. ASSUME NEW r \in Req, CreateLookup(r) \/ Notify(r) \/ Abort(r)
      PROVE  UNCHANGED journeys
  BY <1>7 DEF CreateLookup, Notify, Abort
<1>8. CronScan \/ CronAbort => UNCHANGED journeys
  BY DEF CronScan, CronAbort
<1>9. ASSUME NEW v \in Vratmitra, Relate(v)
      PROVE  UNCHANGED journeys
  BY <1>9 DEF Relate, Assign, Unassign
<1>10. UNCHANGED vars => UNCHANGED journeys
  BY DEF vars
<1> QED
  BY <1>2, <1>3, <1>4, <1>5, <1>6, <1>7, <1>8, <1>9, <1>10 DEF Next, Advance

(* What becomes of a slot in a step: it rests, ends, starts on a stored row *)
(* or goes on with the row it had.                                          *)
LEMMA SlotStep ==
    ASSUME TypeInv, [Next]_vars, NEW r \in Req
    PROVE  \/ req'[r] = req[r]
           \/ req'[r].pc \in {"idle", "insert", "lookup"}
           \/ /\ req[r].pc = "idle" /\ req'[r].pc = "write"
              /\ req'[r].jid \in JourneyId /\ Exists(req'[r].jid)
           \/ /\ SubmitWrite(r) \/ ApproveWrite(r)
              /\ req'[r] = [req[r] EXCEPT !.pc = "notify"]
<1> DEFINE Same == req'[r] = req[r]
           Rests == req'[r].pc \in {"idle", "insert", "lookup"}
           Begins == /\ req[r].pc = "idle" /\ req'[r].pc = "write"
                     /\ req'[r].jid \in JourneyId /\ Exists(req'[r].jid)
           Writes == /\ SubmitWrite(r) \/ ApproveWrite(r)
                     /\ req'[r] = [req[r] EXCEPT !.pc = "notify"]
           Goal == Same \/ Rests \/ Begins \/ Writes
<1> USE DEF TypeInv
<1>1. ASSUME NEW q \in Req, NEW notices, Finish(q, notices)
      PROVE  Goal
  BY <1>1 DEF Finish, TypeOK, Idle
<1>2. ASSUME NEW q \in Req, NEW op \in Op, NEW u \in User, NEW j \in JourneyId,
             NEW to \in JourneyState, NEW vm \in Vratmitra \cup {None},
             Reads(q, op, u, j, to, vm)
      PROVE  Goal
  <2> DEFINE next == [Idle EXCEPT !.pc = "write", !.op = op, !.user = u, !.jid = j,
                                  !.to = to, !.vm = vm]
  <2>1. next.pc = "write" /\ next.jid = j
    BY DEF Idle
  <2>2. req' = [req EXCEPT ![q] = next] /\ req[q].pc = "idle" /\ Exists(j)
    BY <1>2 DEF Reads, Continue, Starts
  <2> HIDE DEF next
  <2> QED BY <2>1, <2>2 DEF TypeOK
<1>3. ASSUME NEW q \in Req, NEW u \in User, NEW s \in Sentence, CreateCheck(q, u, s)
      PROVE  Goal
  BY <1>3 DEF CreateCheck, Continue, TypeOK, Idle
<1>4. ASSUME NEW q \in Req, CreateInsert(q)
      PROVE  Goal
  <2>1. Finish(q, {}) \/ req' = [req EXCEPT ![q] = [req[q] EXCEPT !.pc = "lookup"]]
    BY <1>4 DEF CreateInsert, Continue
  <2> QED BY <1>1, <2>1, RequestType DEF TypeOK, Request
<1>5. ASSUME NEW q \in Req, NEW u \in User, NEW j \in JourneyId,
             \/ PauseRead(q, u, j)
             \/ ResumeRead(q, u, j)
             \/ \E s \in JourneyState : OverrideRead(q, u, j, s)
             \/ \E vm \in Vratmitra \cup {None} : SubmitRead(q, u, j, vm)
             \/ ApproveRead(q, u, j)
             \/ TitleRead(q, u, j)
      PROVE  Goal
  <2>1. PICK op \in Op, to \in JourneyState, vm \in Vratmitra \cup {None} :
           Reads(q, op, u, j, to, vm)
    BY <1>5 DEF PauseRead, ResumeRead, OverrideRead, SubmitRead, ApproveRead, TitleRead,
                Op, JourneyState
  <2> QED BY <1>2, <2>1
<1>6. ASSUME NEW q \in Req,
             CreateLookup(q) \/ StateWrite(q) \/ TitleWrite(q) \/ Notify(q) \/ Abort(q)
      PROVE  Goal
  <2>1. \E notices : Finish(q, notices)
    BY <1>6 DEF CreateLookup, StateWrite, TitleWrite, Notify, Abort
  <2> QED BY <1>1, <2>1
<1>7. ASSUME NEW q \in Req, SubmitWrite(q) \/ ApproveWrite(q)
      PROVE  Goal
  <2>1. \/ Finish(q, {})
        \/ req' = [req EXCEPT ![q] = [req[q] EXCEPT !.pc = "notify"]]
    BY <1>7 DEF SubmitWrite, ApproveWrite, Continue
  <2>2. CASE Finish(q, {})
    BY <1>1, <2>2
  <2>3. CASE req' = [req EXCEPT ![q] = [req[q] EXCEPT !.pc = "notify"]]
    BY <1>7, <2>3 DEF TypeOK
  <2> QED BY <2>1, <2>2, <2>3
<1>8. ASSUME UNCHANGED req
      PROVE  Goal
  BY <1>8
<1>9. CronScan \/ CronAbort => UNCHANGED req
  BY DEF CronScan, CronAbort
<1>10. ASSUME NEW j \in JourneyId, CronMark(j) \/ Age(j)
       PROVE  UNCHANGED req
  BY <1>10 DEF CronMark, Age
<1>11. ASSUME NEW v \in Vratmitra, Relate(v)
       PROVE  UNCHANGED req
  BY <1>11 DEF Relate, Assign, Unassign
<1>12. UNCHANGED vars => UNCHANGED req
  BY DEF vars
<1> HIDE DEF Goal
<1>13. Goal
  BY <1>3, <1>4, <1>5, <1>6, <1>7, <1>8, <1>9, <1>10, <1>11, <1>12 DEF Next, Arrive, Advance
<1> QED BY <1>13 DEF Goal

LEMMA StepGrounded ==
    ASSUME TypeInv, Grounded, [Next]_vars
    PROVE  Grounded'
<1>1. \A j \in JourneyId : Exists(j) => Exists(j)'
  BY StepAdvances DEF Advances, Exists
<1>2. ASSUME NEW r \in Req, req'[r].pc \in {"write", "notify"}
      PROVE  journeys'[req'[r].jid].state # "absent"
  <2>1. CASE req'[r] = req[r]
    BY <1>1, <1>2, <2>1 DEF Grounded, TypeInv, RequestsFilled, Exists
  <2>2. CASE req'[r].jid \in JourneyId /\ Exists(req'[r].jid)
    BY <1>1, <2>2 DEF Exists
  <2>3. CASE (SubmitWrite(r) \/ ApproveWrite(r)) /\ req'[r] = [req[r] EXCEPT !.pc = "notify"]
    <3>1. req[r].pc = "write" /\ req'[r].jid = req[r].jid
      BY <2>3, RequestType DEF SubmitWrite, ApproveWrite, Request
    <3>2. req[r].jid \in JourneyId /\ Exists(req[r].jid)
      BY <3>1 DEF Grounded, TypeInv, RequestsFilled
    <3>3. journeys'[req[r].jid].state # "absent"
      BY <1>1, <3>2 DEF Exists
    <3> QED BY <3>1, <3>3
  <2> QED BY <1>2, <2>1, <2>2, <2>3, SlotStep
<1>3. ASSUME NEW j \in JourneyId, ~Exists(j)'
      PROVE  ~journeys'[j].submitted /\ ~journeys'[j].completed
  BY <1>1, <1>3, StepAdvances DEF Advances, Grounded, Exists
<1> QED BY <1>2, <1>3 DEF Grounded, Exists

LEMMA InitGrounded == Init => Grounded
  BY DEF Init, Grounded, Idle, NoRow

GroundInv == TypeInv /\ Grounded

LEMMA GroundCorrect == Spec => []GroundInv
<1>1. Init => GroundInv
  BY InitType, InitGrounded DEF GroundInv
<1>2. GroundInv /\ [Next]_vars => GroundInv'
  BY StepType, StepGrounded DEF GroundInv
<1> QED BY <1>1, <1>2, PTL DEF Spec

-----------------------------------------------------------------------------
(* A closure request is cleared by the closure alone, whatever the          *)
(* interleaving.                                                            *)
THEOREM RequestSurvives == Spec => ClosureRequestSurvives
<1> DEFINE Survives ==
      \A j \in JourneyId :
         journeys[j].submitted /\ ~journeys'[j].submitted
            => journeys'[j].completed /\ journeys'[j].state = "completed"
<1>1. GroundInv /\ [Next]_vars => [Survives]_vars
  BY StepAdvances DEF GroundInv, Advances
<1>2. Spec => [][Survives]_vars
  BY <1>1, GroundCorrect, PTL DEF Spec
<1> QED BY <1>2 DEF ClosureRequestSurvives

-----------------------------------------------------------------------------
(* Notices about closures. *)

(***************************************************************************)
(* Between its write and its notification a handler holds a fact about the *)
(* row that no other statement can undo.                                   *)
(***************************************************************************)
WriteStands ==
    \A r \in Req : req[r].pc = "notify" =>
       IF req[r].op = "submit"
         THEN journeys[req[r].jid].submitted \/ journeys[req[r].jid].completed
         ELSE journeys[req[r].jid].completed

NoticeInv == GroundInv /\ WriteStands /\ NoticesAreTrue

LEMMA StepWriteStands ==
    ASSUME GroundInv, WriteStands, [Next]_vars
    PROVE  WriteStands'
<1> USE DEF GroundInv
<1> SUFFICES ASSUME NEW r \in Req, req'[r].pc = "notify"
             PROVE  LET row == journeys'[req'[r].jid] IN
                    IF req'[r].op = "submit" THEN row.submitted \/ row.completed
                                             ELSE row.completed
  BY DEF WriteStands
<1>1. CASE req'[r] = req[r]
  <2>1. req[r].jid \in JourneyId
    BY <1>1 DEF TypeInv, RequestsFilled
  <2>2. Advances(journeys'[req[r].jid], journeys[req[r].jid])
    BY <2>1, StepAdvances
  <2> QED BY <1>1, <2>2 DEF WriteStands, Advances
<1>2. CASE (SubmitWrite(r) \/ ApproveWrite(r)) /\ req'[r] = [req[r] EXCEPT !.pc = "notify"]
  <2> DEFINE j == req[r].jid
  <2>1. req[r].pc = "write" /\ j \in JourneyId /\ journeys[j] \in Row
    BY <1>2 DEF SubmitWrite, ApproveWrite, TypeInv, RequestsFilled, TypeOK
  <2>2. req'[r].jid = j /\ req'[r].op = req[r].op /\ req'[r] # Idle
    BY <1>2, RequestType DEF Request, Idle
  <2>3. CASE SubmitWrite(r)
    <3>1. Update(j, AsSubmitted(journeys[j])) \/ Update(j, AsCompleted(journeys[j]))
      BY <2>3 DEF SubmitWrite
    <3>2. req[r].op = "submit"
      BY <2>3 DEF SubmitWrite
    <3>3. AsSubmitted(journeys[j]).submitted /\ AsCompleted(journeys[j]).completed
      BY <2>1 DEF AsSubmitted, AsCompleted, Row
    <3> QED BY <2>1, <2>2, <3>1, <3>2, <3>3 DEF Update, TypeInv, TypeOK
  <2>4. CASE ApproveWrite(r)
    <3>1. Update(j, AsCompleted(journeys[j]))
      BY <2>4 DEF ApproveWrite
    <3>2. AsCompleted(journeys[j]).completed
      BY <2>1 DEF AsCompleted, Row
    <3> QED BY <2>1, <2>2, <3>1, <3>2 DEF Update, TypeInv, TypeOK
  <2> QED BY <1>2, <2>3, <2>4
<1> QED BY <1>1, <1>2, SlotStep

LEMMA StepNotices ==
    ASSUME GroundInv, WriteStands, NoticesAreTrue, [Next]_vars
    PROVE  NoticesAreTrue'
<1> USE DEF GroundInv
<1>1. ASSUME sent' = {}
      PROVE  NoticesAreTrue'
  BY <1>1 DEF NoticesAreTrue
<1>2. ASSUME NEW r \in Req, Notify(r)
      PROVE  NoticesAreTrue'
  <2> DEFINE j == req[r].jid
             note == IF req[r].op = "submit"
                       THEN [event |-> "submitted", to |-> req[r].vm, jid |-> j]
                       ELSE [event |-> "approved", to |-> journeys[j].owner, jid |-> j]
  <2>1. sent' = {note} /\ UNCHANGED journeys
    BY <1>2 DEF Notify, Finish
  <2>2. /\ note.jid = j
        /\ note.event = "submitted" => req[r].op = "submit"
        /\ note.event = "approved" => req[r].op # "submit" /\ note.to = journeys[j].owner
    OBVIOUS
  <2>3. IF req[r].op = "submit" THEN journeys[j].submitted \/ journeys[j].completed
                                ELSE journeys[j].completed
    BY <1>2 DEF Notify, WriteStands
  <2> HIDE DEF note
  <2> QED BY <2>1, <2>2, <2>3 DEF NoticesAreTrue
<1>3. ASSUME NEW j \in JourneyId, CronMark(j)
      PROVE  NoticesAreTrue'
  <2>1. \A n \in sent' : n.event = "dormant"
    BY <1>3 DEF CronMark
  <2> QED BY <2>1 DEF NoticesAreTrue
<1>4. ASSUME NEW r \in Req, Arrive(r)
      PROVE  sent' = {}
  BY <1>4, ArriveReads
<1>5. ASSUME NEW r \in Req,
             CreateInsert(r) \/ CreateLookup(r) \/ StateWrite(r) \/ SubmitWrite(r)
               \/ ApproveWrite(r) \/ TitleWrite(r) \/ Abort(r)
      PROVE  sent' = {}
  <2>1. CreateInsert(r) \/ CreateLookup(r) \/ Abort(r) => sent' = {}
    BY DEF CreateInsert, CreateLookup, Abort, Finish, Continue
  <2>2. StateWrite(r) \/ SubmitWrite(r) => sent' = {}
    BY DEF StateWrite, SubmitWrite, Finish, Continue
  <2>3. ApproveWrite(r) \/ TitleWrite(r) => sent' = {}
    BY DEF ApproveWrite, TitleWrite, Finish, Continue
  <2> QED BY <1>5, <2>1, <2>2, <2>3
<1>6. CronScan \/ CronAbort => sent' = {}
  BY DEF CronScan, CronAbort
<1>7. ASSUME (\E j \in JourneyId : Age(j)) \/ \E v \in Vratmitra : Relate(v)
      PROVE  sent' = {}
  BY <1>7 DEF Age, Relate, Assign, Unassign
<1>8. CASE UNCHANGED vars
  BY <1>8 DEF vars, NoticesAreTrue
<1> QED
  BY <1>1, <1>2, <1>3, <1>4, <1>5, <1>6, <1>7, <1>8 DEF Next, Advance

(* No closure notification is ahead of the database, whatever the           *)
(* interleaving.                                                            *)
THEOREM NoticesTrue == Spec => []NoticesAreTrue
<1>1. Init => NoticeInv
  BY InitType, InitGrounded
  DEF Init, NoticeInv, GroundInv, WriteStands, NoticesAreTrue, Idle
<1>2. NoticeInv /\ [Next]_vars => NoticeInv'
  BY StepType, StepGrounded, StepWriteStands, StepNotices DEF NoticeInv, GroundInv
<1>3. NoticeInv => NoticesAreTrue
  BY DEF NoticeInv
<1> QED BY <1>1, <1>2, <1>3, PTL DEF Spec

-----------------------------------------------------------------------------
(* The time columns, on a platform where nobody overrides states. *)

(* Only pause and resume write a state then. *)
PauseOrResume ==
    \A r \in Req : req[r].pc = "write" /\ req[r].op = "state"
                      => req[r].to \in {"paused", "active"}

ColumnsAgree(row) ==
    /\ row.state = "paused" => row.paused
    /\ row.state = "dormant" => row.dormant
    /\ row.state = "active" => ~row.paused /\ ~row.dormant
    /\ row.state = "completed" => row.completed

LEMMA RowFunctionsAgree ==
    ASSUME NEW row \in Row, NEW s \in {"paused", "active"}
    PROVE  /\ ColumnsAgree(WithState(row, s))
           /\ ColumnsAgree(AsCompleted(row))
           /\ ColumnsAgree(AsDormant(row))
           /\ ColumnsAgree(row) => /\ ColumnsAgree(AsSubmitted(row))
                                   /\ ColumnsAgree(Retitled(row))
                                   /\ ColumnsAgree([row EXCEPT !.stale = TRUE])
  BY DEF Row, WithState, AsSubmitted, AsCompleted, AsDormant, Retitled, ColumnsAgree,
         JourneyState

LEMMA NewRowAgrees ==
    ASSUME NEW u \in User, NEW s \in Sentence
    PROVE  ColumnsAgree(NewRow(u, s))
  BY DEF NewRow, NoRow, ColumnsAgree

LEMMA StepPauseOrResume ==
    ASSUME Admin = {}, TypeInv, PauseOrResume, [Next]_vars
    PROVE  PauseOrResume'
<1> USE DEF TypeInv
<1>1. ASSUME NEW q \in Req, NEW next, req' = [req EXCEPT ![q] = next],
             next.pc = "write" /\ next.op = "state" => next.to \in {"paused", "active"}
      PROVE  PauseOrResume'
  BY <1>1 DEF PauseOrResume, TypeOK
<1>2. ASSUME NEW q \in Req, NEW notices, Finish(q, notices)
      PROVE  PauseOrResume'
  <2>1. Idle.pc = "idle"
    BY DEF Idle
  <2> QED BY <1>1, <1>2, <2>1 DEF Finish
<1>3. ASSUME NEW q \in Req, NEW op \in Op, NEW u \in User, NEW j \in JourneyId,
             NEW to \in JourneyState, NEW vm \in Vratmitra \cup {None},
             Reads(q, op, u, j, to, vm), op = "state" => to \in {"paused", "active"}
      PROVE  PauseOrResume'
  <2> DEFINE next == [Idle EXCEPT !.pc = "write", !.op = op, !.user = u, !.jid = j,
                                  !.to = to, !.vm = vm]
  <2>1. next.op = op /\ next.to = to
    BY DEF Idle
  <2>2. req' = [req EXCEPT ![q] = next]
    BY <1>3 DEF Reads, Continue
  <2> HIDE DEF next
  <2> QED BY <1>1, <1>3, <2>1, <2>2
<1>4. ASSUME NEW q \in Req, NEW u \in User, NEW s \in Sentence, CreateCheck(q, u, s)
      PROVE  PauseOrResume'
  <2> DEFINE next == [Idle EXCEPT !.pc = "insert", !.op = "create",
                                  !.user = u, !.sentence = s]
  <2>1. next.pc = "insert"
    BY DEF Idle
  <2>2. req' = req \/ req' = [req EXCEPT ![q] = next]
    BY <1>4 DEF CreateCheck, Continue
  <2> HIDE DEF next
  <2> QED BY <1>1, <2>1, <2>2 DEF PauseOrResume
<1>5. ASSUME NEW q \in Req, NEW u \in User, NEW j \in JourneyId,
             \/ PauseRead(q, u, j)
             \/ ResumeRead(q, u, j)
             \/ \E s \in JourneyState : OverrideRead(q, u, j, s)
             \/ \E vm \in Vratmitra \cup {None} : SubmitRead(q, u, j, vm)
             \/ ApproveRead(q, u, j)
             \/ TitleRead(q, u, j)
      PROVE  PauseOrResume'
  <2>1. PICK op \in Op, to \in JourneyState, vm \in Vratmitra \cup {None} :
           Reads(q, op, u, j, to, vm) /\ (op = "state" => to \in {"paused", "active"})
    BY <1>5 DEF PauseRead, ResumeRead, OverrideRead, SubmitRead, ApproveRead, TitleRead,
                Op, JourneyState
  <2> QED BY <1>3, <2>1
<1>6. ASSUME NEW q \in Req, Advance(q) \/ Abort(q)
      PROVE  PauseOrResume'
  <2>1. \/ \E notices : Finish(q, notices)
        \/ req' = [req EXCEPT ![q] = [req[q] EXCEPT !.pc = "lookup"]]
        \/ req' = [req EXCEPT ![q] = [req[q] EXCEPT !.pc = "notify"]]
    BY <1>6 DEF Advance, Abort, CreateInsert, CreateLookup, StateWrite, SubmitWrite,
                ApproveWrite, TitleWrite, Notify, Continue
  <2>2. [req[q] EXCEPT !.pc = "lookup"].pc = "lookup"
        /\ [req[q] EXCEPT !.pc = "notify"].pc = "notify"
    BY RequestType DEF Request
  <2> QED BY <1>1, <1>2, <2>1, <2>2
<1>7. ASSUME UNCHANGED req
      PROVE  PauseOrResume'
  BY <1>7 DEF PauseOrResume
<1>8. CronScan \/ CronAbort => UNCHANGED req
  BY DEF CronScan, CronAbort
<1>9. ASSUME NEW j \in JourneyId, CronMark(j) \/ Age(j)
      PROVE  UNCHANGED req
  BY <1>9 DEF CronMark, Age
<1>10. ASSUME NEW v \in Vratmitra, Relate(v)
       PROVE  UNCHANGED req
  BY <1>10 DEF Relate, Assign, Unassign
<1>11. UNCHANGED vars => UNCHANGED req
  BY DEF vars
<1> QED BY <1>4, <1>5, <1>6, <1>7, <1>8, <1>9, <1>10, <1>11 DEF Next, Arrive

LEMMA StepTimestamps ==
    ASSUME TypeInv, PauseOrResume, TimestampsAgree, [Next]_vars
    PROVE  TimestampsAgree'
<1> USE DEF TypeInv
<1>1. \A j \in JourneyId : ColumnsAgree(journeys[j])
  BY DEF TimestampsAgree, ColumnsAgree
<1>2. ASSUME NEW k \in JourneyId, NEW row, Update(k, row), ColumnsAgree(row)
      PROVE  TimestampsAgree'
  BY <1>1, <1>2 DEF Update, TimestampsAgree, ColumnsAgree, TypeOK
<1>3. ASSUME UNCHANGED journeys
      PROVE  TimestampsAgree'
  BY <1>3 DEF TimestampsAgree
<1>4. ASSUME NEW r \in Req, CreateInsert(r)
      PROVE  TimestampsAgree'
  <2> DEFINE row == NewRow(req[r].user, req[r].sentence)
  <2>1. PICK k \in FreeId : UNCHANGED journeys \/ Update(k, row)
    BY <1>4 DEF CreateInsert
  <2>2. ColumnsAgree(row)
    BY <1>4, NewRowAgrees DEF CreateInsert, RequestsFilled
  <2> HIDE DEF row
  <2> QED BY <1>2, <1>3, <2>1, <2>2 DEF FreeId
<1>5. ASSUME NEW r \in Req,
             StateWrite(r) \/ SubmitWrite(r) \/ ApproveWrite(r) \/ TitleWrite(r)
      PROVE  TimestampsAgree'
  <2> DEFINE k == req[r].jid
  <2>1. k \in JourneyId /\ journeys[k] \in Row /\ ColumnsAgree(journeys[k])
    BY <1>1, <1>5 DEF StateWrite, SubmitWrite, ApproveWrite, TitleWrite, RequestsFilled, TypeOK
  <2>2. \/ UNCHANGED journeys
        \/ req[r].to \in {"paused", "active"} /\ Update(k, WithState(journeys[k], req[r].to))
        \/ Update(k, AsSubmitted(journeys[k]))
        \/ Update(k, AsCompleted(journeys[k]))
        \/ Update(k, Retitled(journeys[k]))
    BY <1>5 DEF StateWrite, SubmitWrite, ApproveWrite, TitleWrite, PauseOrResume
  <2> HIDE DEF k
  <2> QED BY <1>2, <1>3, <2>1, <2>2, RowFunctionsAgree
<1>6. ASSUME NEW k \in JourneyId, CronMark(k) \/ Age(k)
      PROVE  TimestampsAgree'
  <2>1. \/ UNCHANGED journeys
        \/ Update(k, AsDormant(journeys[k]))
        \/ Update(k, [journeys[k] EXCEPT !.stale = TRUE])
    BY <1>6 DEF CronMark, Age
  <2>2. journeys[k] \in Row
    BY DEF TypeOK
  <2> QED BY <1>1, <1>2, <1>3, <2>1, <2>2, RowFunctionsAgree
<1>7. ASSUME NEW r \in Req, Arrive(r)
      PROVE  UNCHANGED journeys
  BY <1>7, ArriveReads
<1>8. ASSUME NEW r \in Req, CreateLookup(r) \/ Notify(r) \/ Abort(r)
      PROVE  UNCHANGED journeys
  BY <1>8 DEF CreateLookup, Notify, Abort
<1>9. CronScan \/ CronAbort => UNCHANGED journeys
  BY DEF CronScan, CronAbort
<1>10. ASSUME NEW v \in Vratmitra, Relate(v)
       PROVE  UNCHANGED journeys
  BY <1>10 DEF Relate, Assign, Unassign
<1>11. UNCHANGED vars => UNCHANGED journeys
  BY DEF vars
<1> QED
  BY <1>3, <1>4, <1>5, <1>6, <1>7, <1>8, <1>9, <1>10, <1>11 DEF Next, Advance

(* Without overrides the state and the time columns of every journey agree, *)
(* whatever the interleaving of the unconditional UPDATEs.                  *)
THEOREM TimestampsCorrect ==
    ASSUME Admin = {}
    PROVE  Spec => []TimestampsAgree
<1> DEFINE Inv == TypeInv /\ PauseOrResume /\ TimestampsAgree
<1>1. Init => Inv
  <2> SUFFICES ASSUME Init PROVE Inv
    OBVIOUS
  <2>1. PauseOrResume
    BY DEF Init, PauseOrResume, Idle
  <2>2. TimestampsAgree
    BY DEF Init, TimestampsAgree, NoRow
  <2> QED BY <2>1, <2>2, InitType
<1>2. Inv /\ [Next]_vars => Inv'
  BY StepType, StepPauseOrResume, StepTimestamps
<1>3. Inv => TimestampsAgree
  OBVIOUS
<1> HIDE DEF Inv
<1> QED BY <1>1, <1>2, <1>3, PTL DEF Spec

-----------------------------------------------------------------------------
(* Refinement of OneLiveJourney. *)

Slot == User \X Sentence

LiveIn(p) == LiveFor(p[1], p[2])

(* Only the slot of the stored row can change, and only by that row. *)
LEMMA LiveAfterStore ==
    ASSUME TypeInv, NEW k \in JourneyId, NEW row \in Row, Stores(k, row), NEW p \in Slot
    PROVE  LiveIn(p)' = (LiveIn(p) \ {k}) \cup
              (IF /\ row.state \in {"not_started", "active", "paused", "dormant"}
                  /\ row.owner = p[1] /\ row.sentence = p[2]
                 THEN {k} ELSE {})
<1>1. journeys' = [journeys EXCEPT ![k] = row] /\ journeys \in [JourneyId -> Row]
  BY DEF Stores, Update, TypeInv, TypeOK
<1>2. \A j \in JourneyId : journeys'[j] = IF j = k THEN row ELSE journeys[j]
  BY <1>1
<1>3. LiveIn(p)' = {j \in JourneyId :
         /\ journeys'[j].state \in {"not_started", "active", "paused", "dormant"}
         /\ journeys'[j].owner = p[1] /\ journeys'[j].sentence = p[2]}
  BY DEF LiveIn, LiveFor, Live
<1>4. LiveIn(p) = {j \in JourneyId :
         /\ journeys[j].state \in {"not_started", "active", "paused", "dormant"}
         /\ journeys[j].owner = p[1] /\ journeys[j].sentence = p[2]}
  BY DEF LiveIn, LiveFor, Live
<1> QED BY <1>2, <1>3, <1>4

LEMMA StepRefines ==
    ASSUME TypeInv, OneLivePerSentence, [Next]_vars
    PROVE  [Slots!Next]_([p \in Slot |-> LiveIn(p)])
<1> DEFINE live == [p \in Slot |-> LiveIn(p)]
           Stutters == \A p \in Slot : LiveIn(p)' = LiveIn(p)
<1>1. Stutters => live' = live
  OBVIOUS
<1>2. CASE UNCHANGED journeys
  <2>1. Stutters
    BY <1>2 DEF LiveIn, LiveFor, Live
  <2> QED BY <1>1, <2>1
<1>3. ASSUME NEW k \in JourneyId, NEW row \in Row, Stores(k, row)
      PROVE  [Slots!Next]_live
  <2> DEFINE LiveRow == row.state \in {"not_started", "active", "paused", "dormant"}
             q == <<row.owner, row.sentence>>
  <2>1. ASSUME NEW p \in Slot
        PROVE  LiveIn(p)' = (LiveIn(p) \ {k}) \cup (IF LiveRow /\ q = p THEN {k} ELSE {})
    BY <1>3, <2>1, LiveAfterStore DEF Slot
  <2>2. ASSUME NEW p \in Slot
        PROVE  k \in LiveIn(p) <=> Live(k) /\ <<journeys[k].owner, journeys[k].sentence>> = p
    BY <2>2 DEF LiveIn, LiveFor, Slot
  <2>3. SameKey(row, journeys[k]) \/ journeys[k].state = "absent"
    BY <1>3 DEF Stores
  <2>4. Live(k) => q = <<journeys[k].owner, journeys[k].sentence>>
    BY <2>3 DEF SameKey, Live
  <2> HIDE DEF LiveRow, q
  <2>5. CASE q \notin Slot \/ (LiveRow <=> Live(k))
    <3>1. ASSUME NEW p \in Slot
          PROVE  LiveIn(p)' = LiveIn(p)
      <4>1. k \in LiveIn(p) <=> LiveRow /\ q = p
        BY <2>2, <2>4, <2>5, Zenon
      <4> QED BY <2>1, <4>1, Zenon
    <3> QED BY <1>1, <3>1
  <2>6. CASE q \in Slot /\ LiveRow /\ ~Live(k)
    <3>1. KeyFree(k, row)
      <4>1. row.state # journeys[k].state
        BY <2>6 DEF LiveRow, Live
      <4> QED BY <1>3, <4>1 DEF Stores
    <3>2. LiveIn(q) = {}
      <4> SUFFICES ASSUME NEW j \in LiveIn(q) PROVE FALSE
        OBVIOUS
      <4>1. j \in JourneyId /\ Live(j)
            /\ journeys[j].owner = row.owner /\ journeys[j].sentence = row.sentence
        BY <2>6 DEF LiveIn, LiveFor, q
      <4>2. j # k
        BY <2>6, <4>1
      <4>3. row.state # "completed"
        BY <2>6 DEF LiveRow
      <4> QED BY <3>1, <4>1, <4>2, <4>3 DEF KeyFree, Live
    <3>3. \A p \in Slot : k \notin LiveIn(p)
      BY <2>2, <2>6
    <3>4. \A p \in Slot : LiveIn(p)' = IF p = q THEN {k} ELSE LiveIn(p)
      BY <2>1, <2>6, <3>2, <3>3
    <3>5. live' = [live EXCEPT ![q] = {k}]
      BY <3>4
    <3>6. Slots!Open(q, k)
      BY <2>6, <3>2, <3>3, <3>5 DEF Slots!Open, Slot, LiveIn
    <3> QED BY <2>6, <3>6 DEF Slots!Next, Slot
  <2>7. CASE q \in Slot /\ ~LiveRow /\ Live(k)
    <3>1. k \in LiveIn(q)
      BY <2>2, <2>4, <2>7
    <3>2. LiveIn(q) = {k}
      BY <3>1 DEF LiveIn, LiveFor, OneLivePerSentence
    <3>3. \A p \in Slot : LiveIn(p)' = IF p = q THEN {} ELSE LiveIn(p)
      <4> SUFFICES ASSUME NEW p \in Slot
                   PROVE  LiveIn(p)' = IF p = q THEN {} ELSE LiveIn(p)
        OBVIOUS
      <4>1. LiveIn(p)' = LiveIn(p) \ {k}
        BY <2>1, <2>7
      <4>2. p # q => k \notin LiveIn(p)
        BY <2>2, <2>4, <2>7
      <4>3. CASE p = q
        BY <3>2, <4>1, <4>3
      <4>4. CASE p # q
        BY <4>1, <4>2, <4>4
      <4> QED BY <4>3, <4>4
    <3>4. live' = [live EXCEPT ![q] = {}]
      BY <3>3
    <3>5. Slots!Close(q)
      BY <2>7, <3>1, <3>4 DEF Slots!Close, Slot, LiveIn
    <3> QED BY <2>7, <3>5 DEF Slots!Next, Slot
  <2> QED BY <2>5, <2>6, <2>7
<1> QED BY <1>2, <1>3, EveryStepIsARowStep DEF RowStep

LEMMA InitRefines == Init => Slots!Init
  BY DEF Init, Slots!Init, LiveFor, Live, NoRow

(* Journeys hand each (person, sentence) slot on as OneLiveJourney says.    *)
THEOREM Refinement == Spec => ImplementsOneLiveJourney
<1>1. Init => TypeInv /\ OneLivePerSentence
  BY InitType, InitOneLive
<1>2. TypeInv /\ OneLivePerSentence /\ [Next]_vars
         => TypeInv' /\ OneLivePerSentence'
  BY StepType, StepOneLive
<1>3. TypeInv /\ OneLivePerSentence /\ [Next]_vars
         => [Slots!Next]_([p \in User \X Sentence |-> LiveFor(p[1], p[2])])
  BY StepRefines DEF Slot, LiveIn
<1> QED BY <1>1, <1>2, <1>3, InitRefines, PTL DEF Spec, ImplementsOneLiveJourney, Slots!Spec

-----------------------------------------------------------------------------
(* One handler or job at a time, and nobody overrides states: what was read *)
(* is still so when it is written.                                          *)

(* What a request about to write has checked, as long as it is so. *)
StillSo(q, rows, asg) ==
    q.pc = "write" => LET row == rows[q.jid] IN
       /\ row.state # "absent"
       /\ q.op = "state" => \/ q.to = "paused" /\ row.state = "active"
                            \/ q.to = "active" /\ row.state \in {"paused", "dormant"}
       /\ q.op = "submit" => row.state = "active" /\ (q.vm = None => asg[q.jid] = {})
       /\ q.op = "approve" => /\ row.state = "active" /\ q.user \in Vratmitra
                              /\ row.owner = q.user \/ q.user \in asg[q.jid]

(* The rows the job still has to mark. *)
ToMark(scan, rows) ==
    /\ \A c \in scan : rows[c.jid].state = "active" /\ rows[c.jid].stale
    /\ \A c, d \in scan : c.jid = d.jid => c = d

(* The request in r, or the job, is the only one at work. *)
Alone ==
    /\ \A p, q \in Req : req[p].pc # "idle" /\ req[q].pc # "idle" => p = q
    /\ cron # {} => \A q \in Req : req[q].pc = "idle"

SInv ==
    /\ TypeInv
    /\ Alone
    /\ \A q \in Req : StillSo(req[q], journeys, assigned)
    /\ ToMark(cron, journeys)

LEMMA SlotAlone ==
    ASSUME SInv, TypeInv', NEW r \in Req, NEW next, req' = [req EXCEPT ![r] = next],
           Quiet \/ req[r].pc # "idle", StillSo(next, journeys', assigned'),
           UNCHANGED cron
    PROVE  SInv'
<1>1. req \in [Req -> Request]
  BY DEF SInv, TypeInv, TypeOK
<1>2. cron = {} /\ \A q \in Req \ {r} : req[q].pc = "idle"
  BY DEF SInv, Alone, Quiet
<1>3. req'[r] = next /\ \A q \in Req \ {r} : req'[q] = req[q] /\ req'[q].pc = "idle"
  BY <1>1, <1>2
<1>4. Alone'
  BY <1>2, <1>3 DEF Alone
<1>5. \A q \in Req : StillSo(req'[q], journeys', assigned')
  BY <1>3 DEF StillSo
<1>6. ToMark(cron', journeys')
  BY <1>2 DEF ToMark
<1> QED BY <1>4, <1>5, <1>6 DEF SInv

LEMMA FinishAlone ==
    ASSUME SInv, TypeInv', NEW r \in Req, NEW notices, Finish(r, notices),
           req[r].pc # "idle", UNCHANGED cron
    PROVE  SInv'
<1>1. StillSo(Idle, journeys', assigned')
  BY DEF StillSo, Idle
<1> QED BY <1>1, SlotAlone DEF Finish

LEMMA ReadAlone ==
    ASSUME SInv, TypeInv', ~Interleaved, NEW r \in Req, NEW op \in Op, NEW u \in User,
           NEW j \in JourneyId, NEW to \in JourneyState, NEW vm \in Vratmitra \cup {None},
           Reads(r, op, u, j, to, vm),
           op = "state" => \/ to = "paused" /\ journeys[j].state = "active"
                           \/ to = "active" /\ journeys[j].state \in {"paused", "dormant"},
           op = "submit" => journeys[j].state = "active" /\ (vm = None => assigned[j] = {}),
           op = "approve" => /\ journeys[j].state = "active" /\ u \in Vratmitra
                             /\ journeys[j].owner = u \/ u \in assigned[j]
    PROVE  SInv'
<1> DEFINE next == [Idle EXCEPT !.pc = "write", !.op = op, !.user = u, !.jid = j,
                                !.to = to, !.vm = vm]
<1>1. /\ req' = [req EXCEPT ![r] = next] /\ Quiet /\ journeys[j].state # "absent"
      /\ UNCHANGED <<journeys, assigned, cron>>
  BY DEF Reads, Continue, Starts, CanStart, Exists
<1>2. /\ next.pc = "write" /\ next.op = op /\ next.user = u /\ next.jid = j
      /\ next.to = to /\ next.vm = vm
  BY DEF Idle
<1> HIDE DEF next
<1>3. StillSo(next, journeys', assigned')
  BY <1>1, <1>2 DEF StillSo
<1> QED BY <1>1, <1>3, SlotAlone

LEMMA ArriveAlone ==
    ASSUME SInv, TypeInv', ~Interleaved, Admin = {}, NEW r \in Req, Arrive(r)
    PROVE  SInv'
<1>1. ASSUME NEW u \in User, NEW s \in Sentence, CreateCheck(r, u, s)
      PROVE  SInv'
  <2> DEFINE next == [Idle EXCEPT !.pc = "insert", !.op = "create",
                                  !.user = u, !.sentence = s]
  <2>1. next.pc = "insert"
    BY DEF Idle
  <2>2. req' = [req EXCEPT ![r] = next] /\ Quiet /\ UNCHANGED cron
    BY <1>1 DEF CreateCheck, Continue, Starts, CanStart
  <2> HIDE DEF next
  <2>3. StillSo(next, journeys', assigned')
    BY <2>1 DEF StillSo
  <2> QED BY <2>2, <2>3, SlotAlone
<1>2. ASSUME NEW u \in User, NEW j \in JourneyId,
             PauseRead(r, u, j) \/ ResumeRead(r, u, j) \/ ApproveRead(r, u, j)
               \/ TitleRead(r, u, j)
      PROVE  SInv'
  BY <1>2, ReadAlone
  DEF PauseRead, ResumeRead, ApproveRead, TitleRead, OwnedBy, Mentors, Op, JourneyState
<1>3. ASSUME NEW u \in User, NEW j \in JourneyId, NEW vm \in Vratmitra \cup {None},
             SubmitRead(r, u, j, vm)
      PROVE  SInv'
  <2>1. journeys[j].state = "active" /\ (vm = None => assigned[j] = {})
    BY <1>3, RolesAssumption, NoneAssumption DEF SubmitRead, SInv, TypeInv, TypeOK
  <2> QED BY <1>3, <2>1, ReadAlone DEF SubmitRead, Op, JourneyState
<1>4. ASSUME NEW u \in User, NEW j \in JourneyId, NEW s \in JourneyState
      PROVE  ~OverrideRead(r, u, j, s)
  BY DEF OverrideRead
<1> QED BY <1>1, <1>2, <1>3, <1>4 DEF Arrive

LEMMA AdvanceAlone ==
    ASSUME SInv, TypeInv', NEW r \in Req, Advance(r) \/ Abort(r)
    PROVE  SInv'
<1>1. req[r].pc # "idle" /\ UNCHANGED cron
  BY DEF Advance, Abort, CreateInsert, CreateLookup, StateWrite, SubmitWrite, ApproveWrite,
         TitleWrite, Notify
<1>2. ASSUME NEW pc \in {"lookup", "notify"},
             req' = [req EXCEPT ![r] = [req[r] EXCEPT !.pc = pc]]
      PROVE  SInv'
  <2>1. [req[r] EXCEPT !.pc = pc].pc = pc
    BY RequestType DEF SInv, TypeInv, Request
  <2>2. StillSo([req[r] EXCEPT !.pc = pc], journeys', assigned')
    BY <2>1 DEF StillSo
  <2> QED BY <1>1, <1>2, <2>2, SlotAlone
<1>3. \/ \E notices : Finish(r, notices)
      \/ req' = [req EXCEPT ![r] = [req[r] EXCEPT !.pc = "lookup"]]
      \/ req' = [req EXCEPT ![r] = [req[r] EXCEPT !.pc = "notify"]]
  BY DEF Advance, Abort, CreateInsert, CreateLookup, StateWrite, SubmitWrite,
         ApproveWrite, TitleWrite, Notify, Continue
<1> QED BY <1>1, <1>2, <1>3, FinishAlone

LEMMA JobAlone ==
    ASSUME SInv, TypeInv', ~Interleaved,
           \/ CronScan
           \/ \E j \in JourneyId : CronMark(j)
           \/ CronAbort
    PROVE  SInv'
<1>1. ASSUME NEW scan, cron' = scan, UNCHANGED req, cron # {} \/ Quiet,
             ToMark(scan, journeys')
      PROVE  SInv'
  <2>1. \A q \in Req : req[q].pc = "idle"
    BY <1>1 DEF SInv, Alone, Quiet
  <2> QED BY <1>1, <2>1 DEF SInv, Alone, StillSo
<1>2. CASE CronScan
  <2>1. ToMark({[jid |-> j, vms |-> assigned[j]] : j \in StaleActive}, journeys)
    BY DEF ToMark, StaleActive
  <2> QED BY <1>1, <1>2, <2>1 DEF CronScan, CanStart
<1>3. ASSUME NEW j \in JourneyId, CronMark(j)
      PROVE  SInv'
  <2>1. PICK c \in cron :
           /\ c.jid = j
           /\ \/ Update(j, AsDormant(journeys[j])) /\ cron' = cron \ {c}
              \/ UNCHANGED journeys /\ cron' = {}
           /\ UNCHANGED req
    BY <1>3 DEF CronMark
  <2>2. ASSUME Update(j, AsDormant(journeys[j])), cron' = cron \ {c}
        PROVE  ToMark(cron', journeys')
    <3>1. \A k \in JourneyId \ {j} : journeys'[k] = journeys[k]
      BY <2>2 DEF Update, SInv, TypeInv, TypeOK
    <3>2. \A d \in cron' : d \in cron /\ d.jid \in JourneyId \ {j}
      BY <2>1, <2>2 DEF SInv, ToMark, TypeInv, TypeOK, Scanned
    <3> QED BY <3>1, <3>2 DEF SInv, ToMark
  <2>3. cron' = {} => ToMark(cron', journeys')
    BY DEF ToMark
  <2> QED BY <1>1, <2>1, <2>2, <2>3
<1>4. CASE CronAbort
  BY <1>1, <1>4 DEF CronAbort, ToMark
<1> QED BY <1>2, <1>3, <1>4

LEMMA StepSInv ==
    ASSUME SInv, ~Interleaved, Admin = {}, [Next]_vars
    PROVE  SInv'
<1>1. TypeInv'
  BY StepType DEF SInv
<1>2. ASSUME Quiet, UNCHANGED <<req, cron>>
      PROVE  SInv'
  BY <1>1, <1>2 DEF Quiet, SInv, Alone, StillSo, ToMark
<1>3. ASSUME (\E j \in JourneyId : Age(j)) \/ \E v \in Vratmitra : Relate(v)
      PROVE  SInv'
  BY <1>2, <1>3 DEF Age, Relate, Assign, Unassign, CanStart
<1>4. CASE UNCHANGED vars
  BY <1>1, <1>4 DEF vars, SInv, Alone
<1>5. ASSUME NEW r \in Req, Arrive(r) \/ Advance(r) \/ Abort(r)
      PROVE  SInv'
  BY <1>1, <1>5, ArriveAlone, AdvanceAlone
<1>6. CASE CronScan \/ CronAbort \/ \E j \in JourneyId : CronMark(j)
  BY <1>1, <1>6, JobAlone
<1> QED BY <1>3, <1>4, <1>5, <1>6 DEF Next

LEMMA SInvCorrect == ASSUME ~Interleaved, Admin = {} PROVE Spec => []SInv
<1>1. Init => SInv
  <2> SUFFICES ASSUME Init PROVE SInv
    OBVIOUS
  <2>1. \A q \in Req : req[q].pc = "idle"
    BY DEF Init, Idle
  <2> QED BY <2>1, InitType DEF Init, SInv, Alone, StillSo, ToMark
<1>2. SInv /\ [Next]_vars => SInv'
  BY StepSInv
<1> QED BY <1>1, <1>2, PTL DEF Spec

-----------------------------------------------------------------------------
(* What a step writes then *)

LEMMA RowFunctionsFresh ==
    ASSUME NEW row \in Row, NEW s \in JourneyState
    PROVE  /\ ~WithState(row, s).stale
           /\ ~AsSubmitted(row).stale
           /\ ~AsCompleted(row).stale
           /\ ~AsDormant(row).stale
           /\ ~Retitled(row).stale
           /\ [row EXCEPT !.stale = TRUE].stale
           /\ [row EXCEPT !.stale = TRUE].state = row.state
  BY DEF Row, WithState, AsSubmitted, AsCompleted, AsDormant, Retitled

(* The row a request writes, and what becomes of the state of the journey.  *)
LEMMA RequestWrites ==
    ASSUME SInv, NEW r \in Req,
           StateWrite(r) \/ SubmitWrite(r) \/ ApproveWrite(r) \/ TitleWrite(r)
    PROVE  \/ UNCHANGED journeys
           \/ \E j \in JourneyId, row \in Row :
                 /\ j = req[r].jid /\ Update(j, row) /\ ~row.stale
                 /\ \/ row.state = journeys[j].state /\ row.state # "absent"
                    \/ journeys[j].state = "active" /\ row.state = "paused"
                    \/ journeys[j].state \in {"paused", "dormant"} /\ row.state = "active"
                    \/ /\ journeys[j].state = "active" /\ row.state = "completed"
                       /\ \/ assigned[j] = {}
                          \/ /\ req[r].op = "approve" /\ req[r].user \in Vratmitra
                             /\ \/ journeys[j].owner = req[r].user
                                \/ req[r].user \in assigned[j]
<1> DEFINE j == req[r].jid
<1>1. /\ req[r].pc = "write" /\ j \in JourneyId /\ journeys[j] \in Row
      /\ req[r].to \in JourneyState /\ StillSo(req[r], journeys, assigned)
  BY RequestType
  DEF SInv, TypeInv, TypeOK, RequestsFilled, StateWrite, SubmitWrite, ApproveWrite, TitleWrite
<1>2. /\ \A s \in JourneyState : WithState(journeys[j], s) \in Row
                               /\ WithState(journeys[j], s).state = s
                               /\ ~WithState(journeys[j], s).stale
      /\ AsSubmitted(journeys[j]) \in Row /\ ~AsSubmitted(journeys[j]).stale
      /\ AsSubmitted(journeys[j]).state = journeys[j].state
      /\ AsCompleted(journeys[j]) \in Row /\ ~AsCompleted(journeys[j]).stale
      /\ AsCompleted(journeys[j]).state = "completed"
      /\ Retitled(journeys[j]) \in Row /\ ~Retitled(journeys[j]).stale
      /\ Retitled(journeys[j]).state = journeys[j].state
  BY <1>1, RowFunctions, RowFunctionsFresh
<1>3. CASE StateWrite(r)
  <2>1. /\ UNCHANGED journeys \/ Update(j, WithState(journeys[j], req[r].to))
        /\ req[r].op = "state"
    BY <1>3 DEF StateWrite
  <2> QED BY <1>1, <1>2, <2>1 DEF StillSo
<1>4. CASE SubmitWrite(r)
  <2>1. /\ \/ req[r].vm = None /\ Update(j, AsCompleted(journeys[j]))
           \/ Update(j, AsSubmitted(journeys[j]))
        /\ req[r].op = "submit"
    BY <1>4 DEF SubmitWrite
  <2> QED BY <1>1, <1>2, <2>1 DEF StillSo
<1>5. CASE ApproveWrite(r)
  <2> DEFINE row == AsCompleted(journeys[j])
  <2>1. Update(j, row) /\ req[r].op = "approve"
    BY <1>5 DEF ApproveWrite
  <2>2. /\ journeys[j].state = "active" /\ req[r].user \in Vratmitra
        /\ journeys[j].owner = req[r].user \/ req[r].user \in assigned[j]
    BY <1>1, <2>1 DEF StillSo
  <2>3. row \in Row /\ ~row.stale /\ row.state = "completed"
    BY <1>2
  <2> HIDE DEF row
  <2> QED BY <1>1, <2>1, <2>2, <2>3
<1>6. CASE TitleWrite(r)
  <2>1. Update(j, Retitled(journeys[j]))
    BY <1>6 DEF TitleWrite
  <2> QED BY <1>1, <1>2, <2>1 DEF StillSo
<1> QED BY <1>3, <1>4, <1>5, <1>6

(* Whose step it is that changes a row while a request is about to write. *)
LEMMA WhoseWrite ==
    ASSUME SInv, ~Interleaved, [Next]_vars, NEW r \in Req, req[r].pc = "write"
    PROVE  \/ UNCHANGED journeys
           \/ StateWrite(r) \/ SubmitWrite(r) \/ ApproveWrite(r) \/ TitleWrite(r)
<1>1. cron = {} /\ ~Quiet /\ \A q \in Req : req[q].pc # "idle" => q = r
  BY DEF SInv, Alone, Quiet
<1>2. ASSUME NEW q \in Req, Arrive(q) PROVE FALSE
  BY <1>1, <1>2, ArriveReads DEF Starts, CanStart
<1>3. ASSUME NEW q \in Req, Advance(q) \/ Abort(q)
      PROVE  \/ UNCHANGED journeys
             \/ StateWrite(r) \/ SubmitWrite(r) \/ ApproveWrite(r) \/ TitleWrite(r)
  <2>1. req[q].pc # "idle"
    BY <1>3 DEF Advance, Abort, CreateInsert, CreateLookup, StateWrite, SubmitWrite,
                ApproveWrite, TitleWrite, Notify
  <2>2. q = r
    BY <1>1, <2>1
  <2> QED BY <1>3, <2>2 DEF Advance, Abort, CreateInsert, CreateLookup, Notify
<1>4. ASSUME NEW j \in JourneyId, CronMark(j) \/ Age(j) PROVE FALSE
  BY <1>1, <1>4 DEF CronMark, Age, CanStart
<1>5. ASSUME NEW v \in Vratmitra, Relate(v)
      PROVE  UNCHANGED journeys
  BY <1>5 DEF Relate, Assign, Unassign
<1>6. CronScan \/ CronAbort \/ UNCHANGED vars => UNCHANGED journeys
  BY DEF CronScan, CronAbort, vars
<1> QED BY <1>2, <1>3, <1>4, <1>5, <1>6 DEF Next

(* With one handler at a time and no override, a journey that has a         *)
(* vratmitra and whose owner is none is completed by one of its own         *)
(* vratmitras only: submitCompletion closes a journey by itself only while  *)
(* it has no vratmitra, and approveCompletion lets in nobody else.          *)
THEOREM MentorsComplete ==
    ASSUME ~Interleaved, Admin = {}
    PROVE  Spec => MentorCompletes
<1>1. ASSUME SInv, [Next]_vars, NEW r \in Req, NEW j \in JourneyId, Completes(r, j),
             assigned[j] # {}, journeys[j].owner \notin Vratmitra
      PROVE  req[r].op = "approve" /\ req[r].user \in assigned[j]
  <2>1. /\ req[r].pc = "write" /\ req[r].jid = j
        /\ journeys[j].state # "completed" /\ journeys'[j].state = "completed"
    BY <1>1 DEF Completes
  <2>2. PICK row \in Row :
           /\ Update(j, row)
           /\ \/ row.state \in {journeys[j].state, "paused", "active"}
              \/ assigned[j] = {}
              \/ /\ req[r].op = "approve" /\ req[r].user \in Vratmitra
                 /\ journeys[j].owner = req[r].user \/ req[r].user \in assigned[j]
    BY <1>1, <2>1, WhoseWrite, RequestWrites
  <2>3. row.state = "completed"
    BY <2>1, <2>2 DEF Update, SInv, TypeInv, TypeOK
  <2> QED BY <1>1, <2>1, <2>2, <2>3
<1>2. SInv /\ [Next]_vars =>
         [\A r \in Req, j \in JourneyId :
             Completes(r, j) /\ assigned[j] # {} /\ journeys[j].owner \notin Vratmitra
                => req[r].op = "approve" /\ req[r].user \in assigned[j]]_vars
  BY <1>1
<1> QED BY <1>2, SInvCorrect, PTL DEF Spec, MentorCompletes

-----------------------------------------------------------------------------
(* The documented life of a journey *)

StageOf == [j \in JourneyId |-> journeys[j].state]
StaleOf == [j \in JourneyId |-> journeys[j].stale]

LEMMA StoredStage ==
    ASSUME TypeInv, NEW j \in JourneyId, NEW row \in Row, Update(j, row)
    PROVE  /\ StageOf' = [StageOf EXCEPT ![j] = row.state]
           /\ StaleOf' = [StaleOf EXCEPT ![j] = row.stale]
           /\ StageOf[j] = journeys[j].state /\ StaleOf[j] = journeys[j].stale
<1>1. journeys'[j] = row /\ \A k \in JourneyId \ {j} : journeys'[k] = journeys[k]
  BY DEF Update, TypeInv, TypeOK
<1> QED BY <1>1 DEF StageOf, StaleOf

LEMMA StepLife ==
    ASSUME SInv, ~Interleaved, [Next]_vars
    PROVE  [Life!Next]_<<StageOf, StaleOf>>
<1> USE DEF TypeInv
<1>1. CASE UNCHANGED journeys
  BY <1>1 DEF StageOf, StaleOf
<1>2. ASSUME NEW r \in Req, CreateInsert(r), journeys' # journeys PROVE Life!Next
  <2> DEFINE row == NewRow(req[r].user, req[r].sentence)
  <2>1. PICK j \in FreeId : Update(j, row)
    BY <1>2 DEF CreateInsert
  <2>2. row \in Row /\ row.state = "active" /\ ~row.stale
    BY <1>2, NewRowType DEF CreateInsert, SInv, RequestsFilled, NewRow, NoRow
  <2>3. j \in JourneyId /\ journeys[j].state = "absent"
    BY DEF FreeId, Exists
  <2> HIDE DEF row
  <2>4. Life!Start(j)
    <3>1. /\ StageOf' = [StageOf EXCEPT ![j] = row.state]
          /\ StaleOf' = [StaleOf EXCEPT ![j] = row.stale]
          /\ StageOf[j] = journeys[j].state
      BY <2>1, <2>2, <2>3, StoredStage DEF SInv
    <3>2. row.stale = FALSE
      BY <2>2 DEF Row
    <3> QED BY <2>2, <2>3, <3>1, <3>2 DEF Life!Start, Life!Move, StageOf, StaleOf
  <2> QED BY <2>3, <2>4 DEF Life!Next
<1>3. ASSUME NEW r \in Req,
             StateWrite(r) \/ SubmitWrite(r) \/ ApproveWrite(r) \/ TitleWrite(r),
             journeys' # journeys
      PROVE  Life!Next
  <2>1. PICK j \in JourneyId, row \in Row :
           /\ Update(j, row) /\ ~row.stale
           /\ \/ row.state = journeys[j].state /\ row.state # "absent"
              \/ journeys[j].state = "active" /\ row.state = "paused"
              \/ journeys[j].state \in {"paused", "dormant"} /\ row.state = "active"
              \/ journeys[j].state = "active" /\ row.state = "completed"
    BY <1>3, RequestWrites
  <2>2. /\ StageOf' = [StageOf EXCEPT ![j] = row.state]
        /\ StaleOf' = [StaleOf EXCEPT ![j] = row.stale]
        /\ StageOf[j] = journeys[j].state /\ row.stale = FALSE
    BY <2>1, StoredStage DEF SInv, Row
  <2>3. /\ StageOf[j] = journeys[j].state
        /\ StageOf' = [StageOf EXCEPT ![j] = row.state]
        /\ StaleOf' = [StaleOf EXCEPT ![j] = FALSE]
    BY <2>2
  <2>4. row.state = StageOf[j] /\ StageOf[j] # "absent" => Life!Touch(j)
    BY <2>3 DEF Life!Touch, Life!Move, StageOf, StaleOf
  <2>5. StageOf[j] = "active" /\ row.state = "paused" => Life!Pause(j)
    BY <2>3 DEF Life!Pause, Life!Move, StageOf, StaleOf
  <2>6. StageOf[j] \in {"paused", "dormant"} /\ row.state = "active" => Life!Resume(j)
    BY <2>3 DEF Life!Resume, Life!Move, StageOf, StaleOf
  <2>7. StageOf[j] = "active" /\ row.state = "completed" => Life!Complete(j)
    BY <2>3 DEF Life!Complete, Life!Move, StageOf, StaleOf
  <2> QED BY <2>1, <2>3, <2>4, <2>5, <2>6, <2>7 DEF Life!Next
<1>4. ASSUME NEW j \in JourneyId, CronMark(j), journeys' # journeys PROVE Life!Next
  <2> DEFINE row == AsDormant(journeys[j])
  <2>1. Update(j, row) /\ journeys[j].state = "active" /\ journeys[j].stale
    BY <1>4 DEF CronMark, SInv, ToMark
  <2>2. row \in Row /\ row.state = "dormant" /\ row.stale = FALSE
    BY RowFunctions, RowFunctionsFresh DEF SInv, TypeOK, JourneyState, Row
  <2> HIDE DEF row
  <2>3. /\ StageOf' = [StageOf EXCEPT ![j] = row.state]
        /\ StaleOf' = [StaleOf EXCEPT ![j] = row.stale]
        /\ StageOf[j] = journeys[j].state /\ StaleOf[j] = journeys[j].stale
    BY <2>1, <2>2, StoredStage DEF SInv
  <2>4. Life!Sleep(j)
    BY <2>1, <2>2, <2>3 DEF Life!Sleep, Life!Move, StageOf, StaleOf
  <2> QED BY <2>4 DEF Life!Next
<1>5. ASSUME NEW j \in JourneyId, Age(j) PROVE Life!Next
  <2> DEFINE row == [journeys[j] EXCEPT !.stale = TRUE]
  <2>1. /\ Update(j, row) /\ journeys[j].state # "absent"
        /\ row \in Row /\ row.state = journeys[j].state /\ row.stale = TRUE
    BY <1>5 DEF Age, Exists, SInv, TypeOK, Row
  <2> HIDE DEF row
  <2>2. /\ StageOf' = [StageOf EXCEPT ![j] = row.state]
        /\ StaleOf' = [StaleOf EXCEPT ![j] = row.stale]
        /\ StageOf[j] = journeys[j].state
    BY <2>1, StoredStage DEF SInv
  <2>3. StageOf' = StageOf
    BY <2>1, <2>2 DEF StageOf
  <2>4. Life!Age(j)
    BY <2>1, <2>2, <2>3 DEF Life!Age, StageOf, StaleOf
  <2> QED BY <2>4 DEF Life!Next
<1>6. ASSUME NEW r \in Req, Arrive(r) \/ CreateLookup(r) \/ Notify(r) \/ Abort(r)
      PROVE  UNCHANGED journeys
  BY <1>6, ArriveReads DEF CreateLookup, Notify, Abort
<1>7. CronScan \/ CronAbort \/ UNCHANGED vars => UNCHANGED journeys
  BY DEF CronScan, CronAbort, vars
<1>8. ASSUME NEW v \in Vratmitra, Relate(v)
      PROVE  UNCHANGED journeys
  BY <1>8 DEF Relate, Assign, Unassign
<1> QED BY <1>1, <1>2, <1>3, <1>4, <1>5, <1>6, <1>7, <1>8 DEF Next, Advance

(* With one handler or job at a time and no override, whichever of them     *)
(* die, every journey leads the documented life: paused, put to sleep after *)
(* thirty days, resumed, and completed from active for good.                *)
THEOREM ImplementsLife ==
    ASSUME ~Interleaved, Admin = {}
    PROVE  Spec => ImplementsJourneyLifecycle
<1>1. Init => Life!Init
  BY DEF Init, Life!Init, NoRow
<1>2. SInv /\ [Next]_vars
         => [Life!Next]_<<[j \in JourneyId |-> journeys[j].state],
                          [j \in JourneyId |-> journeys[j].stale]>>
  BY StepLife DEF StageOf, StaleOf
<1> QED BY <1>1, <1>2, SInvCorrect, PTL
     DEF Spec, ImplementsJourneyLifecycle, Life!Spec
=============================================================================
