----------------------- MODULE VratmitraSerialProofs -----------------------
(***************************************************************************)
(* Machine-checked theorems about Vratmitra with one handler at a time,    *)
(* for every set of people, journeys, ids and request slots: what the      *)
(* checks of the handlers establish is still so when they write.  The last *)
(* four are about handlers that race: how far that can go, and what signup *)
(* and deletion still do to the invitations.                               *)
(***************************************************************************)
EXTENDS VratmitraProofs, FiniteSetTheorems

-----------------------------------------------------------------------------
(* The inductive invariant *)

OneAtWork == \A p, q \in Req : req[p].pc # "idle" /\ req[q].pc # "idle" => p = q

(* Whom a pending invitation is from. *)
Addressed(x) == x.inviter \in User

(* x is the only pending global invitation of its inviter. *)
SameAsk(x, y) == x.kind = "global" /\ y.kind = "global" /\ x.inviter = y.inviter

(* The row a send is about to insert is as good as when it was made up. *)
Fresh(q, people, invs) ==
    q.pc = "insert" =>
        /\ q.new.status = "pending" /\ Addressed(q.new)
        /\ people[q.new.inviter] = "live"
        /\ \A i \in InvId : invs[i].status = "pending" => ~SameAsk(invs[i], q.new)

OneAsk ==
    \A i, k \in InvId :
        Pending(i) /\ Pending(k) /\ SameAsk(inv[i], inv[k]) => i = k

SInv ==
    /\ IInv
    /\ OneAtWork
    /\ \A i \in InvId : Pending(i) => Addressed(inv[i])
    /\ OneAsk
    /\ \A r \in Req : Fresh(req[r], account, inv)

-----------------------------------------------------------------------------
(* What the properties say of it *)

LEMMA OneAskCounts == SInv => OnePendingGlobal
<1> SUFFICES ASSUME SInv, NEW u \in User PROVE Cardinality(PendingGlobalOf(u)) <= 1
  BY DEF OnePendingGlobal
<1>1. CASE PendingGlobalOf(u) = {}
  <2>1. Cardinality(PendingGlobalOf(u)) = 0
    BY <1>1, FS_EmptySet
  <2> QED BY <2>1
<1>2. CASE PendingGlobalOf(u) # {}
  <2>1. PICK i \in PendingGlobalOf(u) : TRUE
    BY <1>2
  <2>2. PendingGlobalOf(u) = {i}
    BY <2>1 DEF SInv, OneAsk, PendingGlobalOf, SameAsk
  <2>3. Cardinality(PendingGlobalOf(u)) = 1
    BY <2>2, FS_Singleton
  <2> QED BY <2>3
<1> QED BY <1>1, <1>2

-----------------------------------------------------------------------------
(* One handler at a time *)

LEMMA SlotAlone ==
    ASSUME SInv, NEW r \in Req, NEW next, req' = [req EXCEPT ![r] = next],
           Quiet \/ req[r].pc # "idle"
    PROVE  OneAtWork' /\ req'[r] = next /\ \A q \in Req \ {r} : req'[q].pc = "idle"
<1>1. req \in [Req -> Request]
  BY DEF SInv, IInv, TypeOK
<1>2. \A q \in Req \ {r} : req[q].pc = "idle"
  BY DEF SInv, OneAtWork, Quiet
<1> QED BY <1>1, <1>2 DEF OneAtWork

(* Pending invitations become fewer, and stay what they are. *)
Fewer ==
    \A i \in InvId : inv'[i].status = "pending" =>
        /\ inv[i].status = "pending"
        /\ inv'[i].kind = inv[i].kind /\ inv'[i].inviter = inv[i].inviter
        /\ inv'[i].to = inv[i].to
        /\ inv'[i].invitee = None => inv[i].invitee = None

(* Every step of a handler but the first of a send and the last of one. *)
LEMMA HandlerStep ==
    ASSUME SInv, IInv', NEW r \in Req, NEW next, req' = [req EXCEPT ![r] = next],
           Quiet \/ req[r].pc # "idle", Fewer, next.pc # "insert"
    PROVE  SInv'
<1>1. OneAtWork' /\ req'[r] = next /\ \A q \in Req \ {r} : req'[q].pc = "idle"
  BY SlotAlone
<1>2. \A i \in InvId : Pending(i)' => Addressed(inv'[i])
  BY DEF SInv, Pending, Fewer, Addressed
<1>3. OneAsk'
  BY DEF SInv, OneAsk, Pending, Fewer, SameAsk
<1>4. \A q \in Req : Fresh(req'[q], account', inv')
  BY <1>1 DEF Fresh
<1> QED BY <1>1, <1>2, <1>3, <1>4 DEF SInv

-----------------------------------------------------------------------------
(* Each action *)

LEMMA SendReadAlone ==
    ASSUME SInv, IInv', ~Interleaved, NEW r \in Req, NEW u \in User, NEW a \in Address,
           NEW kind \in Kind, NEW scope \in Journey \cup {None}, SendRead(r, u, a, kind, scope)
    PROVE  SInv'
<1>1. PICK next :
         /\ Continue(r, next) /\ next.pc = "insert"
         /\ next.new.status = "pending" /\ next.new.kind = kind /\ next.new.inviter = u
  BY SendReadNew
<1>2. /\ req' = [req EXCEPT ![r] = next] /\ UNCHANGED <<account, inv>>
      /\ Quiet /\ account[u] = "live"
      /\ kind = "global" => PendingGlobalOf(u) = {}
  BY <1>1 DEF SendRead, Continue, Starts, CanStart
<1>3. \A i \in InvId : inv[i].status = "pending" => ~SameAsk(inv[i], next.new)
  BY <1>1, <1>2 DEF SameAsk, PendingGlobalOf, Pending
<1>4. Fresh(next, account, inv)
  BY <1>1, <1>2, <1>3 DEF Fresh, Addressed
<1>5. OneAtWork' /\ req'[r] = next /\ \A q \in Req \ {r} : req'[q].pc = "idle"
  BY <1>2, SlotAlone
<1>6. \A q \in Req : Fresh(req'[q], account, inv)
  BY <1>4, <1>5 DEF Fresh
<1> QED BY <1>2, <1>5, <1>6 DEF SInv, OneAsk, Pending

LEMMA SendInsertAlone ==
    ASSUME SInv, IInv', NEW r \in Req, SendInsert(r)
    PROVE  SInv'
<1>1. PICK i \in FreeInv : SetInv(i, req[r].new)
  BY DEF SendInsert
<1> DEFINE new == req[r].new
<1>2. /\ inv' = [inv EXCEPT ![i] = new] /\ inv \in [InvId -> Invitation] /\ i \in InvId
      /\ req' = [req EXCEPT ![r] = Idle] /\ UNCHANGED account /\ req[r].pc = "insert"
  BY <1>1 DEF SetInv, SendInsert, Finish, Continue, SInv, IInv, TypeOK, FreeInv
<1>3. Fresh(req[r], account, inv)
  BY DEF SInv
<1>4. /\ Addressed(new)
      /\ \A k \in InvId : inv[k].status = "pending" => ~SameAsk(inv[k], new)
  BY <1>2, <1>3 DEF Fresh
<1> HIDE DEF new
<1>5. inv'[i] = new /\ \A k \in InvId \ {i} : inv'[k] = inv[k]
  BY <1>2
<1>6. \A k \in InvId : Pending(k)' => Addressed(inv'[k])
  BY <1>2, <1>4, <1>5 DEF SInv, Pending
<1>7. OneAsk'
  BY <1>4, <1>5 DEF SInv, OneAsk, Pending, SameAsk
<1>8. OneAtWork' /\ req'[r] = Idle /\ \A q \in Req \ {r} : req'[q].pc = "idle"
  BY <1>2, SlotAlone
<1>9. \A q \in Req : Fresh(req'[q], account', inv')
  BY <1>8, IdleFilled DEF Fresh
<1> QED BY <1>6, <1>7, <1>8, <1>9 DEF SInv

LEMMA OtherReadAlone ==
    ASSUME SInv, IInv', ~Interleaved, NEW r \in Req, NEW u \in User, OtherRead(r, u)
    PROVE  SInv'
<1>1. /\ UNCHANGED inv /\ Quiet
      /\ \E next : req' = [req EXCEPT ![r] = next] /\ next.pc # "insert"
  BY OtherReads DEF SInv, CanStart
<1>2. Fewer
  BY <1>1 DEF Fewer
<1> QED BY <1>1, <1>2, HandlerStep

(* The statements of a handler on its way. *)
LEMMA AdvanceFewer ==
    ASSUME IInv, NEW r \in Req, Advance(r) \/ Abort(r), ~SendInsert(r)
    PROVE  /\ Fewer /\ UNCHANGED <<account, email>> /\ req[r].pc # "idle"
           /\ \E next : req' = [req EXCEPT ![r] = next] /\ next.pc # "insert"
<1>1. req[r].pc # "idle" /\ UNCHANGED <<account, email>>
  BY DEF Advance, Abort, ReminderMail, ReminderMark, AcceptMark, AcceptRelate, AcceptGrant,
         SettleWrite, RemoveEnd, RemoveUnassign, WithdrawEnd, DeletePurge, LinkInvited
<1>2. /\ req[r] \in Request /\ FilledIn(req[r], inv, link)
      /\ inv \in [InvId -> Invitation]
  BY RequestFacts DEF IInv, TypeOK
<1>3. \E next : req' = [req EXCEPT ![r] = next] /\ next.pc # "insert"
  BY AdvanceInsertsNot
<1>4. CASE UNCHANGED inv
  <2>1. Fewer
    BY <1>4 DEF Fewer
  <2> QED BY <1>1, <1>3, <2>1
<1>5. CASE DeletePurge(r)
  <2>1. Fewer
    BY <1>2, <1>5 DEF Fewer, DeletePurge, Pending, Invitation
  <2> QED BY <1>1, <1>3, <2>1
<1>7. CASE LinkInvited(r)
  <2>1. PICK u \in User : u = req[r].user
    BY <1>2, <1>7 DEF LinkInvited, FilledIn
  <2>2. ASSUME NEW i \in InvId
        PROVE  /\ inv'[i].status = inv[i].status /\ inv'[i].kind = inv[i].kind
               /\ inv'[i].inviter = inv[i].inviter /\ inv'[i].to = inv[i].to
               /\ inv'[i].invitee = None => inv[i].invitee = None
    <3>1. inv'[i] = inv[i] \/ (inv[i].invitee = None /\ inv'[i] = [inv[i] EXCEPT !.invitee = u])
      BY <1>7, <2>1 DEF LinkInvited
    <3> QED BY <1>2, <3>1 DEF Invitation
  <2>3. Fewer
    BY <2>2 DEF Fewer
  <2> QED BY <1>1, <1>3, <2>3
<1>6. CASE ReminderMail(r) \/ ReminderMark(r) \/ AcceptMark(r) \/ SettleWrite(r)
  <2> DEFINE i == req[r].inv
  <2>1. i \in InvId
    BY <1>2, <1>6 DEF ReminderMail, ReminderMark, AcceptMark, SettleWrite, FilledIn, OnInvitation
  <2>2. inv[i] \in Invitation
    BY <1>2, <2>1
  <2>3. PICK row : /\ inv' = [inv EXCEPT ![i] = row]
                   /\ row.status = "pending" =>
                         /\ inv[i].status = "pending"
                         /\ row.kind = inv[i].kind /\ row.inviter = inv[i].inviter
                         /\ row.to = inv[i].to
                         /\ row.invitee = None => inv[i].invitee = None
    <3>1. CASE ReminderMail(r)
      <4> DEFINE n == inv[i].reminders
                 m == IF n < MaxReminders THEN n + 1 ELSE n
                 new == [inv[i] EXCEPT !.reminders = m]
      <4>1. inv' = [inv EXCEPT ![i] = new]
        BY <3>1 DEF ReminderMail, SetInv
      <4> HIDE DEF m
      <4>2. /\ new.status = inv[i].status /\ new.kind = inv[i].kind
            /\ new.inviter = inv[i].inviter
            /\ new.to = inv[i].to /\ new.invitee = inv[i].invitee
        BY <2>2 DEF Invitation
      <4> QED BY <4>1, <4>2
    <3>2. CASE ReminderMark(r)
      <4> DEFINE new == [inv[i] EXCEPT !.reminded = TRUE]
      <4>1. inv' = [inv EXCEPT ![i] = new]
        BY <3>2 DEF ReminderMark, SetInv
      <4>2. /\ new.status = inv[i].status /\ new.kind = inv[i].kind
            /\ new.inviter = inv[i].inviter
            /\ new.to = inv[i].to /\ new.invitee = inv[i].invitee
        BY <2>2 DEF Invitation
      <4> QED BY <4>1, <4>2
    <3>3. CASE AcceptMark(r)
      <4> DEFINE new == [inv[i] EXCEPT !.status = "accepted", !.accepted = TRUE]
      <4>1. inv' = [inv EXCEPT ![i] = new]
        BY <3>3 DEF AcceptMark, SetInv
      <4>2. new.status = "accepted"
        BY <2>2 DEF Invitation
      <4> QED BY <4>1, <4>2
    <3>4. CASE SettleWrite(r)
      <4>1. PICK s \in {"declined", "cancelled"} : inv' = [inv EXCEPT ![i] = [inv[i] EXCEPT !.status = s]]
        BY <3>4 DEF SettleWrite, SetStatus, SetInv
      <4>2. [inv[i] EXCEPT !.status = s].status = s
        BY <2>2 DEF Invitation
      <4> QED BY <4>1, <4>2
    <3> QED BY <1>6, <3>1, <3>2, <3>3, <3>4
  <2>4. inv'[i] = row /\ \A k \in InvId \ {i} : inv'[k] = inv[k]
    BY <1>2, <2>1, <2>3
  <2>5. Fewer
    BY <2>3, <2>4 DEF Fewer
  <2> QED BY <1>1, <1>3, <2>5
<1> QED BY <1>4, <1>5, <1>6, <1>7
     DEF Advance, Abort, AcceptRelate, AcceptGrant, RemoveEnd, RemoveUnassign, WithdrawEnd

LEMMA AdvanceAlone ==
    ASSUME SInv, IInv', NEW r \in Req, Advance(r) \/ Abort(r), ~SendInsert(r)
    PROVE  SInv'
  BY AdvanceFewer, HandlerStep DEF SInv

LEMMA EnvironmentStays ==
    ASSUME IInv, Environment
    PROVE  /\ UNCHANGED <<account, req>> /\ CanStart
           /\ \A i \in InvId :
                 /\ inv'[i].status = inv[i].status /\ inv'[i].kind = inv[i].kind
                 /\ inv'[i].inviter = inv[i].inviter
                 /\ inv'[i].to = inv[i].to /\ inv'[i].invitee = inv[i].invitee
                 /\ inv'[i].reminders = inv[i].reminders /\ inv'[i].reminded = inv[i].reminded
<1>1. inv \in [InvId -> Invitation]
  BY DEF IInv, TypeOK
<1>2. CASE \E u \in User, a \in Address : ChangeEmail(u, a)
  BY <1>2 DEF ChangeEmail
<1>3. CASE \E i \in InvId : Expire(i)
  <2>1. PICK k \in InvId : Expire(k)
    BY <1>3
  <2>2. UNCHANGED <<account, req>> /\ CanStart
        /\ inv' = [inv EXCEPT ![k] = [inv[k] EXCEPT !.expired = TRUE]]
    BY <2>1 DEF Expire, SetInv
  <2> QED BY <1>1, <2>2 DEF Invitation
<1>4. CASE \E j \in Journey : Complete(j)
  BY <1>4 DEF Complete
<1> QED BY <1>2, <1>3, <1>4 DEF Environment

LEMMA EnvironmentAlone ==
    ASSUME SInv, IInv', ~Interleaved, Environment
    PROVE  SInv'
<1>1. UNCHANGED <<account, req>> /\ Quiet
  BY EnvironmentStays DEF SInv, CanStart
<1>2. OneAtWork' /\ \A q \in Req : Fresh(req'[q], account', inv')
  BY <1>1 DEF SInv, OneAtWork, Fresh, Quiet
<1>3. \A i \in InvId :
         /\ inv'[i].status = inv[i].status /\ inv'[i].kind = inv[i].kind
         /\ inv'[i].inviter = inv[i].inviter
  BY EnvironmentStays DEF SInv
<1>4. \A i \in InvId : Pending(i)' => Addressed(inv'[i])
  BY <1>3 DEF SInv, Pending, Addressed
<1>5. OneAsk'
  BY <1>3 DEF SInv, OneAsk, Pending, SameAsk
<1> QED BY <1>2, <1>4, <1>5 DEF SInv

LEMMA StepSInv == SInv /\ ~Interleaved /\ [Next]_vars => SInv'
<1> SUFFICES ASSUME SInv, ~Interleaved, [Next]_vars PROVE SInv'
  OBVIOUS
<1>1. IInv'
  BY StepIInv DEF SInv
<1>2. ASSUME NEW r \in Req, Arrive(r) PROVE SInv'
  BY <1>1, <1>2, SendReadAlone, OtherReadAlone DEF Arrive, OtherRead
<1>3. ASSUME NEW r \in Req, Advance(r) \/ Abort(r) PROVE SInv'
  BY <1>1, <1>3, SendInsertAlone, AdvanceAlone
<1>4. CASE UNCHANGED vars
  BY <1>1, <1>4 DEF vars, SInv, OneAtWork, OneAsk, Pending
<1> QED BY <1>1, <1>2, <1>3, <1>4, EnvironmentAlone DEF Next, Environment

LEMMA InitSInv == Init => SInv
<1> SUFFICES ASSUME Init PROVE SInv
  OBVIOUS
<1> QED BY InitIInv, IdleFilled
     DEF Init, SInv, OneAtWork, OneAsk, Pending, NoInvitation, Fresh

LEMMA SInvCorrect == ASSUME ~Interleaved PROVE Spec => []SInv
<1>1. SInv /\ [Next]_vars => SInv'
  BY StepSInv
<1> QED BY <1>1, InitSInv, PTL DEF Spec

(* With one handler at a time a vratarthi never has two pending global      *)
(* invitations, although no constraint of the table says so.                *)
THEOREM OnePending == ASSUME ~Interleaved PROVE Spec => []OnePendingGlobal
  BY SInvCorrect, OneAskCounts, PTL

-----------------------------------------------------------------------------
(* A deletion that is not interrupted leaves nothing pending. *)

(* Outside a deletion, whoever asks has an account. *)
LEMMA AskersLive ==
    ASSUME SInv, DeletedAsksNothing, NEW r \in Req, req[r].pc # "idle", req[r].pc # "purge",
           NEW i \in InvId, Pending(i)
    PROVE  account[inv[i].inviter] = "live"
<1>1. \A q \in Req : req[q].pc # "purge"
  BY DEF SInv, OneAtWork
<1> QED BY <1>1 DEF DeletedAsksNothing

LEMMA AskersLiveQuiet ==
    ASSUME DeletedAsksNothing, Quiet, NEW i \in InvId, Pending(i)
    PROVE  account[inv[i].inviter] = "live"
  BY DEF DeletedAsksNothing, Quiet

LEMMA InsertAsks ==
    ASSUME SInv, DeletedAsksNothing, NEW r \in Req, SendInsert(r)
    PROVE  DeletedAsksNothing'
<1>1. PICK i \in FreeInv : SetInv(i, req[r].new)
  BY DEF SendInsert
<1>2. /\ inv'[i] = req[r].new /\ \A k \in InvId \ {i} : inv'[k] = inv[k]
      /\ UNCHANGED account /\ req[r].pc = "insert"
  BY <1>1 DEF SetInv, SendInsert, SInv, IInv, TypeOK, FreeInv
<1>3. account[req[r].new.inviter] = "live"
  BY <1>2 DEF SInv, Fresh
<1>4. \A k \in InvId : Pending(k) => account[inv[k].inviter] = "live"
  BY <1>2, AskersLive
<1> QED BY <1>2, <1>3, <1>4 DEF DeletedAsksNothing, Pending

LEMMA AdvanceAsks ==
    ASSUME SInv, DeletedAsksNothing, NEW r \in Req, Advance(r), ~SendInsert(r)
    PROVE  DeletedAsksNothing'
<1>1. Fewer /\ UNCHANGED account /\ req[r].pc # "idle"
  BY AdvanceFewer DEF SInv
<1>2. CASE req[r].pc # "purge"
  <2>1. \A i \in InvId : Pending(i) => account[inv[i].inviter] = "live"
    BY <1>1, <1>2, AskersLive
  <2> QED BY <1>1, <2>1 DEF DeletedAsksNothing, Pending, Fewer
<1>3. CASE req[r].pc = "purge"
  <2>1. DeletePurge(r) /\ inv \in [InvId -> Invitation]
    BY <1>3 DEF Advance, ReminderMail, ReminderMark, AcceptMark, AcceptRelate, AcceptGrant,
       SettleWrite, RemoveEnd, RemoveUnassign, WithdrawEnd, LinkInvited, SInv, IInv, TypeOK
  <2>2. \A q \in Req : req[q].pc = "purge" => q = r
    BY <1>3 DEF SInv, OneAtWork
  <2>3. ASSUME NEW i \in InvId, Pending(i)' PROVE account[inv'[i].inviter] = "live"
    <3>1. Pending(i) /\ inv'[i] = inv[i] /\ inv[i].inviter # req[r].user
      BY <2>1, <2>3 DEF DeletePurge, Pending, Invitation
    <3> QED BY <2>2, <3>1 DEF DeletedAsksNothing
  <2> QED BY <1>1, <2>3 DEF DeletedAsksNothing
<1> QED BY <1>2, <1>3

LEMMA ArriveAsks ==
    ASSUME SInv, DeletedAsksNothing, ~Interleaved, NEW r \in Req, Arrive(r)
    PROVE  DeletedAsksNothing'
<1>1. UNCHANGED inv /\ Quiet
  BY ArriveReads DEF CanStart
<1>2. \A i \in InvId : Pending(i) => account[inv[i].inviter] = "live"
  BY <1>1, AskersLiveQuiet
<1>3. CASE UNCHANGED account \/ \E u \in User, a \in Address : Register(r, u, a)
  <2>1. \A u \in User : account[u] = "live" => account'[u] = "live"
    BY <1>3 DEF Register, SInv, IInv, TypeOK
  <2>2. \A i \in InvId : Pending(i) => inv[i].inviter \in User
    BY DEF SInv, Addressed
  <2> QED BY <1>1, <1>2, <2>1, <2>2 DEF DeletedAsksNothing, Pending
<1>4. ASSUME NEW u \in User, DeleteAccount(r, u) PROVE DeletedAsksNothing'
  <2> DEFINE next == [Idle EXCEPT !.pc = "purge", !.user = u]
  <2>1. req' = [req EXCEPT ![r] = next] /\ account' = [account EXCEPT ![u] = "deleted"]
    BY <1>4 DEF DeleteAccount, Continue
  <2>2. next.pc = "purge" /\ next.user = u
    BY DEF Idle
  <2> HIDE DEF next
  <2>3. req'[r] = next
    BY <2>1 DEF SInv, IInv, TypeOK
  <2>4. \A p \in User \ {u} : account'[p] = account[p]
    BY <2>1 DEF SInv, IInv, TypeOK
  <2>5. \A i \in InvId : Pending(i) => inv[i].inviter \in User
    BY DEF SInv, Addressed
  <2> QED BY <1>1, <1>2, <2>2, <2>3, <2>4, <2>5 DEF DeletedAsksNothing, Pending
<1> QED BY <1>3, <1>4, ArriveReads

LEMMA EnvironmentAsks ==
    ASSUME SInv, DeletedAsksNothing, ~Interleaved, Environment
    PROVE  DeletedAsksNothing'
<1>1. UNCHANGED <<account, req>> /\ Quiet
      /\ \A i \in InvId : inv'[i].status = inv[i].status /\ inv'[i].inviter = inv[i].inviter
  BY EnvironmentStays DEF SInv, CanStart
<1> QED BY <1>1 DEF DeletedAsksNothing, Pending

LEMMA StepAsks ==
    SInv /\ DeletedAsksNothing /\ ~Interleaved /\ ~MayFail /\ [Next]_vars => DeletedAsksNothing'
<1> SUFFICES ASSUME SInv, DeletedAsksNothing, ~Interleaved, ~MayFail, [Next]_vars
             PROVE  DeletedAsksNothing'
  OBVIOUS
<1>1. ASSUME NEW r \in Req, Advance(r) PROVE DeletedAsksNothing'
  BY <1>1, InsertAsks, AdvanceAsks
<1>2. CASE UNCHANGED vars
  BY <1>2 DEF vars, DeletedAsksNothing, Pending
<1> QED BY <1>1, <1>2, ArriveAsks, EnvironmentAsks DEF Next, Abort, Environment

(* With one handler at a time, none of which dies, the deletion of an       *)
(* account leaves nothing that is asked in its name, and nothing appears    *)
(* afterwards.                                                              *)
THEOREM NothingAsked ==
    ASSUME ~Interleaved, ~MayFail PROVE Spec => []DeletedAsksNothing
<1>1. Init => DeletedAsksNothing
  BY DEF Init, DeletedAsksNothing, Pending, NoInvitation
<1>2. SInv /\ DeletedAsksNothing /\ [Next]_vars => DeletedAsksNothing'
  BY StepAsks
<1> QED BY <1>1, <1>2, SInvCorrect, PTL DEF Spec

-----------------------------------------------------------------------------
(* Reminders: what was mailed is marked before anybody looks again. *)

Marking(i) == \E q \in Req : req[q].pc = "remind" /\ req[q].inv = i

RInv ==
    /\ \A i \in InvId : /\ inv[i].reminders <= 1
                        /\ inv[i].reminded \/ inv[i].reminders = 0 \/ Marking(i)
    /\ \A r \in Req : /\ req[r].pc = "mail" => inv[req[r].inv].reminders = 0
                      /\ req[r].pc = "insert" => req[r].new.reminders = 0

LEMMA NobodyMarks ==
    ASSUME SInv, RInv, NEW r \in Req, Quiet \/ (req[r].pc # "idle" /\ req[r].pc # "remind"),
           NEW i \in InvId
    PROVE  inv[i].reminders <= 1 /\ (inv[i].reminded \/ inv[i].reminders = 0)
<1>1. \A q \in Req : req[q].pc # "remind"
  BY DEF SInv, OneAtWork, Quiet
<1> QED BY <1>1 DEF RInv, Marking

(* A step that touches no reminder. *)
LEMMA RemindersStand ==
    ASSUME SInv, RInv, NEW r \in Req, NEW next, req' = [req EXCEPT ![r] = next],
           Quiet \/ (req[r].pc # "idle" /\ req[r].pc # "remind"),
           \A i \in InvId : \/ /\ inv'[i].reminders = inv[i].reminders
                              /\ inv'[i].reminded = inv[i].reminded
                           \/ inv'[i].reminders = 0,
           next.pc = "mail" => inv'[next.inv].reminders = 0,
           next.pc = "insert" => next.new.reminders = 0
    PROVE  RInv'
<1>1. \A i \in InvId : inv[i].reminders <= 1 /\ (inv[i].reminded \/ inv[i].reminders = 0)
  BY NobodyMarks
<1>2. req'[r] = next /\ \A q \in Req \ {r} : req'[q].pc = "idle"
  BY SlotAlone
<1>3. \A i \in InvId : inv'[i].reminders <= 1 /\ (inv'[i].reminded \/ inv'[i].reminders = 0)
  BY <1>1
<1> QED BY <1>2, <1>3 DEF RInv

(* A reminder begins only where none is recorded, a new row has none. *)
LEMMA ArriveHolds ==
    ASSUME NEW r \in Req, Arrive(r)
    PROVE  /\ UNCHANGED inv /\ CanStart /\ req[r].pc = "idle"
           /\ \E next :
                 /\ req' = [req EXCEPT ![r] = next]
                 /\ next.pc = "mail" => next.inv \in InvId /\ ~inv[next.inv].reminded
                 /\ next.pc = "insert" => next.new.reminders = 0
<1> DEFINE Begun ==
        \E next :
           /\ req' = [req EXCEPT ![r] = next]
           /\ next.pc = "mail" => next.inv \in InvId /\ ~inv[next.inv].reminded
           /\ next.pc = "insert" => next.new.reminders = 0
<1>1. UNCHANGED inv /\ CanStart /\ req[r].pc = "idle"
  BY ArriveReads
<1>2. ASSUME NEW u \in User, NEW a \in Address, NEW kind \in Kind,
             NEW scope \in Journey \cup {None}, SendRead(r, u, a, kind, scope)
      PROVE  Begun
  <2>1. PICK next : Continue(r, next) /\ next.pc = "insert" /\ next.new.reminders = 0
    BY <1>2, SendReadNew
  <2> QED BY <2>1 DEF Continue
<1>3. ASSUME NEW u \in User, NEW i \in InvId, ReminderRead(r, u, i)
      PROVE  Begun
  <2> DEFINE next == [Idle EXCEPT !.pc = "mail", !.user = u, !.inv = i]
  <2>1. req' = [req EXCEPT ![r] = next] /\ ~inv[i].reminded
    BY <1>3 DEF ReminderRead, Continue
  <2>2. next.pc = "mail" /\ next.inv = i
    BY DEF Idle
  <2> HIDE DEF next
  <2> QED BY <2>1, <2>2
<1>4. ASSUME NEW u \in User, NEW i \in InvId, AcceptRead(r, u, i) \/ DeclineRead(r, u, i)
                                              \/ CancelRead(r, u, i)
      PROVE  Begun
  <2>1. PICK pc \in {"mark", "decline", "cancel"} :
           req' = [req EXCEPT ![r] = [Idle EXCEPT !.pc = pc, !.user = u, !.inv = i]]
    BY <1>4 DEF AcceptRead, DeclineRead, CancelRead, Continue
  <2> DEFINE next == [Idle EXCEPT !.pc = pc, !.user = u, !.inv = i]
  <2>2. next.pc = pc /\ req' = [req EXCEPT ![r] = next]
    BY <2>1 DEF Idle
  <2> HIDE DEF next
  <2> QED BY <2>2
<1>5. ASSUME NEW u \in User, NEW cascade \in BOOLEAN, RemoveRead(r, u, cascade)
      PROVE  Begun
  <2>1. PICK l \in LinkId :
           req' = [req EXCEPT ![r] = [Idle EXCEPT !.pc = "endGlobal", !.user = u, !.link = l,
                                                  !.unassign = cascade]]
    BY <1>5 DEF RemoveRead, Continue, ActiveGlobalOf
  <2> DEFINE next == [Idle EXCEPT !.pc = "endGlobal", !.user = u, !.link = l,
                                  !.unassign = cascade]
  <2>2. next.pc = "endGlobal" /\ req' = [req EXCEPT ![r] = next]
    BY <2>1 DEF Idle
  <2> HIDE DEF next
  <2> QED BY <2>2
<1>6. ASSUME NEW u \in User, NEW j \in Journey, WithdrawRead(r, u, j)
      PROVE  Begun
  <2>1. PICK l \in LinkId :
           req' = [req EXCEPT ![r] = [Idle EXCEPT !.pc = "endJourney", !.user = u, !.link = l]]
    BY <1>6 DEF WithdrawRead, Continue, ActiveAssignments
  <2> DEFINE next == [Idle EXCEPT !.pc = "endJourney", !.user = u, !.link = l]
  <2>2. next.pc = "endJourney" /\ req' = [req EXCEPT ![r] = next]
    BY <2>1 DEF Idle
  <2> HIDE DEF next
  <2> QED BY <2>2
<1>7. ASSUME NEW u \in User, DeleteAccount(r, u)
      PROVE  Begun
  <2> DEFINE next == [Idle EXCEPT !.pc = "purge", !.user = u]
  <2>1. next.pc = "purge" /\ req' = [req EXCEPT ![r] = next]
    BY <1>7 DEF DeleteAccount, Continue, Idle
  <2> HIDE DEF next
  <2> QED BY <2>1
<1>8. ASSUME NEW u \in User, NEW a \in Address, Register(r, u, a)
      PROVE  Begun
  <2> DEFINE next == [Idle EXCEPT !.pc = "link", !.user = u, !.to = a]
  <2>1. next.pc = "link" /\ req' = [req EXCEPT ![r] = next]
    BY <1>8 DEF Register, Continue, Idle
  <2> HIDE DEF next
  <2> QED BY <2>1
<1>9. Begun
  BY <1>2, <1>3, <1>4, <1>5, <1>6, <1>7, <1>8 DEF Arrive
<1> QED BY <1>1, <1>9

LEMMA ArriveReminds ==
    ASSUME SInv, RInv, ~Interleaved, NEW r \in Req, Arrive(r)
    PROVE  RInv'
<1>1. UNCHANGED inv /\ Quiet
  BY ArriveHolds DEF CanStart
<1>2. PICK next :
         /\ req' = [req EXCEPT ![r] = next]
         /\ next.pc = "mail" => next.inv \in InvId /\ ~inv[next.inv].reminded
         /\ next.pc = "insert" => next.new.reminders = 0
  BY ArriveHolds
<1>3. next.pc = "mail" => inv[next.inv].reminders = 0
  BY <1>1, <1>2, NobodyMarks
<1> QED BY <1>1, <1>2, <1>3, RemindersStand

LEMMA InsertReminds ==
    ASSUME SInv, RInv, NEW r \in Req, SendInsert(r)
    PROVE  RInv'
<1>1. PICK i \in FreeInv : SetInv(i, req[r].new)
  BY DEF SendInsert
<1>2. /\ inv'[i] = req[r].new /\ \A k \in InvId \ {i} : inv'[k] = inv[k]
      /\ req' = [req EXCEPT ![r] = Idle] /\ req[r].pc = "insert"
  BY <1>1 DEF SetInv, SendInsert, Finish, Continue, SInv, IInv, TypeOK, FreeInv
<1>3. inv'[i].reminders = 0
  BY <1>2 DEF RInv
<1> QED BY <1>2, <1>3, IdleFilled, RemindersStand

(* The mail, and its mark. *)
LEMMA ReminderReminds ==
    ASSUME SInv, RInv, NEW r \in Req, ReminderMail(r) \/ ReminderMark(r)
    PROVE  RInv'
<1>0. FilledIn(req[r], inv, link) /\ req[r] \in Request /\ inv \in [InvId -> Invitation]
  BY RequestFacts DEF SInv, IInv, TypeOK
<1>1. PICK i \in InvId : i = req[r].inv /\ inv[i] \in Invitation
  BY <1>0 DEF FilledIn, OnInvitation, ReminderMail, ReminderMark
<1>2. CASE ReminderMail(r)
  <2> DEFINE n == inv[i].reminders
             m == IF n < MaxReminders THEN n + 1 ELSE n
             row == [inv[i] EXCEPT !.reminders = m]
             next == [req[r] EXCEPT !.pc = "remind"]
  <2>1. inv' = [inv EXCEPT ![i] = row] /\ req' = [req EXCEPT ![r] = next] /\ req[r].pc = "mail"
    BY <1>1, <1>2 DEF ReminderMail, SetInv, Goto, Continue
  <2>2. n = 0
    BY <1>1, <2>1 DEF RInv
  <2>3. m <= 1 /\ m \in Nat
    BY <2>2
  <2> HIDE DEF m
  <2>4. row.reminders = m /\ next.pc = "remind" /\ next.inv = i
    BY <1>0, <1>1 DEF Invitation, Request
  <2> HIDE DEF row, next
  <2>5. inv'[i] = row /\ \A k \in InvId \ {i} : inv'[k] = inv[k]
    BY <1>0, <1>1, <2>1
  <2>6. req'[r] = next /\ \A q \in Req \ {r} : req'[q].pc = "idle"
    BY <2>1, SlotAlone
  <2>7. \A k \in InvId : inv[k].reminders <= 1 /\ (inv[k].reminded \/ inv[k].reminders = 0)
    BY <2>1, NobodyMarks
  <2>8. Marking(i)'
    BY <2>4, <2>6 DEF Marking
  <2>9. \A k \in InvId : /\ inv'[k].reminders <= 1
                         /\ inv'[k].reminded \/ inv'[k].reminders = 0 \/ Marking(k)'
    BY <2>3, <2>4, <2>5, <2>7, <2>8
  <2> QED BY <2>4, <2>6, <2>9 DEF RInv
<1>3. CASE ReminderMark(r)
  <2> DEFINE row == [inv[i] EXCEPT !.reminded = TRUE]
  <2>1. inv' = [inv EXCEPT ![i] = row] /\ req' = [req EXCEPT ![r] = Idle] /\ req[r].pc = "remind"
    BY <1>1, <1>3 DEF ReminderMark, SetInv, Finish, Continue
  <2>2. row.reminders = inv[i].reminders /\ row.reminded
    BY <1>1 DEF Invitation
  <2> HIDE DEF row
  <2>3. inv'[i] = row /\ \A k \in InvId \ {i} : inv'[k] = inv[k]
    BY <1>0, <1>1, <2>1
  <2>4. req'[r] = Idle /\ \A q \in Req \ {r} : req'[q].pc = "idle"
    BY <2>1, SlotAlone
  <2>5. \A k \in InvId \ {i} : ~Marking(k)
    BY <1>1, <2>1 DEF Marking, SInv, OneAtWork
  <2>6. \A k \in InvId : inv'[k].reminders <= 1 /\ (inv'[k].reminded \/ inv'[k].reminders = 0)
    BY <2>2, <2>3, <2>5 DEF RInv
  <2> QED BY <2>4, <2>6, IdleFilled DEF RInv
<1> QED BY <1>2, <1>3

LEMMA AdvanceHolds ==
    ASSUME IInv, NEW r \in Req, Advance(r),
           ~SendInsert(r), ~ReminderMail(r), ~ReminderMark(r)
    PROVE  /\ req[r].pc \notin {"idle", "remind"}
           /\ \E next : req' = [req EXCEPT ![r] = next] /\ next.pc \notin {"mail", "insert"}
           /\ \A i \in InvId : /\ inv'[i].reminders = inv[i].reminders
                               /\ inv'[i].reminded = inv[i].reminded
<1>1. req[r].pc \notin {"idle", "remind"}
  BY DEF Advance, AcceptMark, AcceptRelate, AcceptGrant,
         SettleWrite, RemoveEnd, RemoveUnassign, WithdrawEnd, DeletePurge, LinkInvited
<1>2. /\ req[r] \in Request /\ FilledIn(req[r], inv, link)
      /\ inv \in [InvId -> Invitation]
  BY RequestFacts DEF IInv, TypeOK
<1>3. Idle.pc = "idle" /\ \A pc \in {"relate", "grant", "unassign"} :
                               [req[r] EXCEPT !.pc = pc].pc = pc
  BY <1>2 DEF Idle, Request
<1>4. \E next : req' = [req EXCEPT ![r] = next] /\ next.pc \notin {"mail", "insert"}
  BY <1>3 DEF Advance, AcceptMark, AcceptRelate,
     AcceptGrant, SettleWrite, RemoveEnd, RemoveUnassign, WithdrawEnd, DeletePurge,
     LinkInvited, Finish, Goto, Continue
<1>5. \A i \in InvId : inv'[i].reminders = inv[i].reminders /\ inv'[i].reminded = inv[i].reminded
  <2>1. CASE UNCHANGED inv
    BY <2>1
  <2>2. CASE DeletePurge(r)
    BY <1>2, <2>2 DEF DeletePurge, Invitation
  <2>3. CASE AcceptMark(r)
    BY <1>2, <2>3 DEF AcceptMark, SetInv, Invitation
  <2>4. CASE SettleWrite(r)
    BY <1>2, <2>4 DEF SettleWrite, SetStatus, SetInv, Invitation
  <2>5. CASE LinkInvited(r)
    BY <1>2, <2>5 DEF LinkInvited, Invitation
  <2> QED BY <2>1, <2>2, <2>3, <2>4, <2>5 DEF Advance, AcceptRelate, AcceptGrant, RemoveEnd,
             RemoveUnassign, WithdrawEnd
<1> QED BY <1>1, <1>4, <1>5

LEMMA AdvanceReminds ==
    ASSUME SInv, RInv, NEW r \in Req, Advance(r),
           ~SendInsert(r), ~ReminderMail(r), ~ReminderMark(r)
    PROVE  RInv'
  BY AdvanceHolds, RemindersStand DEF SInv

LEMMA EnvironmentReminds ==
    ASSUME SInv, RInv, ~Interleaved, Environment
    PROVE  RInv'
<1>1. UNCHANGED req /\ Quiet
      /\ \A i \in InvId : inv'[i].reminders = inv[i].reminders /\ inv'[i].reminded = inv[i].reminded
  BY EnvironmentStays DEF SInv, CanStart
<1> QED BY <1>1 DEF RInv, Marking, Quiet

LEMMA StepRInv ==
    SInv /\ RInv /\ ~Interleaved /\ ~MayFail /\ [Next]_vars => RInv'
<1> SUFFICES ASSUME SInv, RInv, ~Interleaved, ~MayFail, [Next]_vars PROVE RInv'
  OBVIOUS
<1>1. ASSUME NEW r \in Req, Advance(r) PROVE RInv'
  BY <1>1, InsertReminds, ReminderReminds, AdvanceReminds
<1>2. CASE UNCHANGED vars
  BY <1>2 DEF vars, RInv, Marking
<1> QED BY <1>1, <1>2, ArriveReminds, EnvironmentReminds DEF Next, Abort, Environment

(* With one handler at a time, none of which dies, an invitation is         *)
(* reminded of by mail at most once, although the mail goes out before      *)
(* reminder_sent_at is written.                                             *)
THEOREM RemindedOnce ==
    ASSUME ~Interleaved, ~MayFail PROVE Spec => []ReminderOnce
<1>1. Init => RInv
  BY IdleFilled DEF Init, RInv, NoInvitation
<1>2. SInv /\ RInv /\ [Next]_vars => RInv'
  BY StepRInv
<1>3. RInv => ReminderOnce
  BY DEF RInv, ReminderOnce
<1> QED BY <1>1, <1>2, <1>3, SInvCorrect, PTL DEF Spec

-----------------------------------------------------------------------------
(* An invitation leads the documented life: what a handler is about to      *)
(* settle is still as it was checked.                                       *)

Holds(q) ==
    /\ q.pc \in {"mark", "decline", "cancel"} => Pending(q.inv)
    /\ q.pc = "mark" => ~inv[q.inv].expired
    /\ q.pc = "insert" => ~q.new.expired

LInv ==
    /\ \A r \in Req : Holds(req[r])
    /\ \A i \in InvId : inv[i].status = "absent" => ~inv[i].expired

StatusOf == [i \in InvId |-> inv[i].status]
ExpiredOf == [i \in InvId |-> inv[i].expired]

LEMMA LifeActions ==
    ASSUME SInv, LInv, NEW i \in InvId, NEW row \in Invitation, SetInv(i, row)
    PROVE  /\ inv'[i] = row /\ \A k \in InvId \ {i} : inv'[k] = inv[k]
           /\ StatusOf' = [StatusOf EXCEPT ![i] = row.status]
           /\ ExpiredOf' = [ExpiredOf EXCEPT ![i] = row.expired]
           /\ row.expired = inv[i].expired => ExpiredOf' = ExpiredOf
           /\ row.status = inv[i].status => StatusOf' = StatusOf
<1>1. inv' = [inv EXCEPT ![i] = row] /\ inv \in [InvId -> Invitation]
  BY DEF SInv, IInv, TypeOK, SetInv
<1> QED BY <1>1 DEF StatusOf, ExpiredOf

LEMMA ArriveLives ==
    ASSUME SInv, LInv, ~Interleaved, NEW r \in Req, Arrive(r)
    PROVE  LInv' /\ UNCHANGED <<StatusOf, ExpiredOf>>
<1>1. UNCHANGED inv /\ Quiet
  BY ArriveReads DEF CanStart
<1>2. SUFFICES ASSUME NEW next, req' = [req EXCEPT ![r] = next] PROVE Holds(next)
  <2>1. \E next : req' = [req EXCEPT ![r] = next]
    BY ArriveReads DEF Continue
  <2>2. PICK next : req' = [req EXCEPT ![r] = next]
    BY <2>1
  <2>3. Holds(next)
    BY <1>2, <2>2
  <2>4. req'[r] = next /\ \A q \in Req \ {r} : req'[q].pc = "idle"
    BY <1>1, <2>2, SlotAlone
  <2> QED BY <1>1, <2>3, <2>4 DEF LInv, Holds, Pending, StatusOf, ExpiredOf
<1>3. next = req'[r]
  BY <1>2 DEF SInv, IInv, TypeOK
<1>4. ASSUME NEW u \in User, NEW a \in Address, NEW kind \in Kind,
             NEW scope \in Journey \cup {None}, SendRead(r, u, a, kind, scope)
      PROVE  Holds(next)
  <2>1. PICK to : Continue(r, to) /\ to.pc = "insert" /\ ~to.new.expired
    BY <1>4, SendReadNew
  <2>2. req'[r] = to
    BY <2>1 DEF Continue, SInv, IInv, TypeOK
  <2> QED BY <1>3, <2>1, <2>2 DEF Holds
<1>5. ASSUME NEW u \in User, NEW i \in InvId,
             ReminderRead(r, u, i) \/ AcceptRead(r, u, i)
                \/ DeclineRead(r, u, i) \/ CancelRead(r, u, i)
      PROVE  Holds(next)
  <2>1. PICK pc \in {"mail", "mark", "decline", "cancel"} :
           /\ Continue(r, [Idle EXCEPT !.pc = pc, !.user = u, !.inv = i])
           /\ Pending(i) /\ (pc = "mark" => ~inv[i].expired)
    BY <1>5 DEF ReminderRead, AcceptRead, DeclineRead, CancelRead
  <2> DEFINE to == [Idle EXCEPT !.pc = pc, !.user = u, !.inv = i]
  <2>2. req'[r] = to
    BY <2>1 DEF Continue, SInv, IInv, TypeOK
  <2>3. to.pc = pc /\ to.inv = i
    BY DEF Idle
  <2> HIDE DEF to
  <2> QED BY <1>3, <2>1, <2>2, <2>3 DEF Holds
<1>6. ASSUME NEW u \in User,
             \/ \E cascade \in BOOLEAN : RemoveRead(r, u, cascade)
             \/ \E j \in Journey : WithdrawRead(r, u, j)
             \/ DeleteAccount(r, u)
             \/ \E a \in Address : Register(r, u, a)
      PROVE  Holds(next)
  <2>1. \E to : req' = [req EXCEPT ![r] = to] /\ to.pc \in {"endGlobal", "endJourney", "purge", "link"}
    <3>1. CASE \E cascade \in BOOLEAN : RemoveRead(r, u, cascade)
      <4>1. PICK cascade \in BOOLEAN, l \in LinkId :
               Continue(r, [Idle EXCEPT !.pc = "endGlobal", !.user = u, !.link = l,
                                        !.unassign = cascade])
        BY <3>1 DEF RemoveRead, ActiveGlobalOf
      <4>2. [Idle EXCEPT !.pc = "endGlobal", !.user = u, !.link = l,
                         !.unassign = cascade].pc = "endGlobal"
        BY DEF Idle
      <4> QED BY <4>1, <4>2 DEF Continue
    <3>2. CASE \E j \in Journey : WithdrawRead(r, u, j)
      <4>1. PICK l \in LinkId :
               Continue(r, [Idle EXCEPT !.pc = "endJourney", !.user = u, !.link = l])
        BY <3>2 DEF WithdrawRead, ActiveAssignments
      <4>2. [Idle EXCEPT !.pc = "endJourney", !.user = u, !.link = l].pc = "endJourney"
        BY DEF Idle
      <4> QED BY <4>1, <4>2 DEF Continue
    <3>3. CASE DeleteAccount(r, u)
      <4>1. [Idle EXCEPT !.pc = "purge", !.user = u].pc = "purge"
        BY DEF Idle
      <4> QED BY <3>3, <4>1 DEF DeleteAccount, Continue
    <3>4. CASE \E a \in Address : Register(r, u, a)
      <4>1. PICK a \in Address : Continue(r, [Idle EXCEPT !.pc = "link", !.user = u, !.to = a])
        BY <3>4 DEF Register
      <4>2. [Idle EXCEPT !.pc = "link", !.user = u, !.to = a].pc = "link"
        BY DEF Idle
      <4> QED BY <4>1, <4>2 DEF Continue
    <3> QED BY <1>6, <3>1, <3>2, <3>3, <3>4
  <2>2. PICK to : req' = [req EXCEPT ![r] = to] /\ to.pc \in {"endGlobal", "endJourney", "purge", "link"}
    BY <2>1
  <2>3. req'[r] = to
    BY <2>2 DEF SInv, IInv, TypeOK
  <2> QED BY <1>3, <2>2, <2>3 DEF Holds
<1> QED BY <1>4, <1>5, <1>6 DEF Arrive

(* What a handler writes is a step of that life. *)
LEMMA AdvanceLives ==
    ASSUME SInv, LInv, NEW r \in Req, Advance(r) \/ Abort(r)
    PROVE  LInv' /\ [Life!Next]_<<StatusOf, ExpiredOf>>
<1>1. req[r].pc # "idle"
  BY DEF Advance, Abort, SendInsert, ReminderMail, ReminderMark, AcceptMark, AcceptRelate,
         AcceptGrant, SettleWrite, RemoveEnd, RemoveUnassign, WithdrawEnd, DeletePurge, LinkInvited
<1>2. /\ req[r] \in Request /\ FilledIn(req[r], inv, link) /\ Holds(req[r])
      /\ inv \in [InvId -> Invitation]
  BY RequestFacts DEF SInv, IInv, TypeOK, LInv
<1>3. Idle.pc = "idle" /\ \A pc \in {"relate", "grant", "remind", "unassign"} :
                             [req[r] EXCEPT !.pc = pc].pc = pc
  BY <1>2 DEF Idle, Request
<1>4. PICK next : /\ req' = [req EXCEPT ![r] = next]
                  /\ next.pc \in {"idle", "relate", "grant", "remind", "unassign"}
  BY <1>3 DEF Advance, Abort, SendInsert, ReminderMail, ReminderMark, AcceptMark, AcceptRelate,
     AcceptGrant, SettleWrite, RemoveEnd, RemoveUnassign, WithdrawEnd, DeletePurge,
     LinkInvited, Finish, Goto, Continue
<1>5. \A q \in Req : Holds(req[q])'
  <2>1. req'[r] = next /\ \A q \in Req \ {r} : req'[q].pc = "idle"
    BY <1>1, <1>4, SlotAlone
  <2> QED BY <1>4, <2>1 DEF Holds
<1>6. SUFFICES /\ \A i \in InvId : inv'[i].status = "absent" => ~inv'[i].expired
               /\ [Life!Next]_<<StatusOf, ExpiredOf>>
  BY <1>5 DEF LInv
<1>7. CASE UNCHANGED inv
  BY <1>7 DEF LInv, StatusOf, ExpiredOf
<1>8. CASE SendInsert(r)
  <2>1. PICK i \in FreeInv : SetInv(i, req[r].new)
    BY <1>8 DEF SendInsert
  <2>2. /\ i \in InvId /\ inv[i].status = "absent" /\ ~inv[i].expired
        /\ req[r].new \in Invitation /\ req[r].new.status = "pending" /\ ~req[r].new.expired
        /\ inv[i] \in Invitation
    BY <1>2, <1>8, <2>1 DEF FreeInv, LInv, SInv, Fresh, Holds, SendInsert, Request
  <2>3. req[r].new.expired = inv[i].expired
    BY <2>2 DEF Invitation
  <2>4. /\ inv'[i] = req[r].new /\ \A k \in InvId \ {i} : inv'[k] = inv[k]
        /\ StatusOf' = [StatusOf EXCEPT ![i] = "pending"] /\ ExpiredOf' = ExpiredOf
    BY <2>1, <2>2, <2>3, LifeActions
  <2>5. Life!Send(i)
    BY <2>2, <2>4 DEF Life!Send, Life!Settle, StatusOf, ExpiredOf
  <2> QED BY <2>2, <2>4, <2>5 DEF LInv, Life!Next
<1>9. ASSUME NEW i \in InvId, NEW row \in Invitation, SetInv(i, row),
             inv[i] \in Invitation, row.expired = inv[i].expired,
             inv[i].status # "absent", row.status # "absent",
             \/ row.status = inv[i].status
             \/ /\ inv[i].status = "pending"
                /\ row.status \in {"declined", "cancelled"}
             \/ /\ inv[i].status = "pending" /\ ~inv[i].expired
                /\ row.status = "accepted"
      PROVE  /\ \A k \in InvId : inv'[k].status = "absent" => ~inv'[k].expired
             /\ [Life!Next]_<<StatusOf, ExpiredOf>>
  <2>1. /\ inv'[i] = row /\ \A k \in InvId \ {i} : inv'[k] = inv[k]
        /\ StatusOf' = [StatusOf EXCEPT ![i] = row.status] /\ ExpiredOf' = ExpiredOf
        /\ row.status = inv[i].status => StatusOf' = StatusOf
    BY <1>9, LifeActions
  <2>2. CASE row.status = inv[i].status
    BY <1>9, <2>1, <2>2 DEF LInv
  <2>3. CASE inv[i].status = "pending" /\ row.status = "declined"
    <3>1. Life!Decline(i)
      BY <2>1, <2>3 DEF Life!Decline, Life!Settle, StatusOf, ExpiredOf
    <3> QED BY <1>9, <2>1, <3>1 DEF LInv, Life!Next
  <2>4. CASE inv[i].status = "pending" /\ row.status = "cancelled"
    <3>1. StatusOf' = [k \in InvId |-> IF k \in {i} THEN "cancelled" ELSE StatusOf[k]]
      BY <2>1, <2>4 DEF StatusOf
    <3>2. Life!Cancel({i})
      BY <2>1, <2>4, <3>1 DEF Life!Cancel, StatusOf, ExpiredOf
    <3> QED BY <1>9, <2>1, <3>2 DEF LInv, Life!Next
  <2>5. CASE inv[i].status = "pending" /\ ~inv[i].expired /\ row.status = "accepted"
    <3>1. Life!Accept(i)
      BY <2>1, <2>5 DEF Life!Accept, Life!Settle, StatusOf, ExpiredOf
    <3> QED BY <1>9, <2>1, <3>1 DEF LInv, Life!Next
  <2> QED BY <1>9, <2>2, <2>3, <2>4, <2>5
<1>10. CASE ReminderMail(r) \/ ReminderMark(r) \/ AcceptMark(r) \/ SettleWrite(r)
  <2>1. PICK i \in InvId : i = req[r].inv /\ inv[i] \in Invitation /\ inv[i].status # "absent"
    BY <1>2, <1>10 DEF FilledIn, OnInvitation, ReminderMail, ReminderMark, AcceptMark, SettleWrite
  <2>2. CASE ReminderMail(r)
    <3> DEFINE n == inv[i].reminders
               m == IF n < MaxReminders THEN n + 1 ELSE n
               row == [inv[i] EXCEPT !.reminders = m]
    <3>1. SetInv(i, row) /\ m \in 0..MaxReminders
      BY <2>1, <2>2, ConstantsAssumption DEF ReminderMail, Invitation
    <3> HIDE DEF m
    <3>2. row \in Invitation /\ row.status = inv[i].status /\ row.expired = inv[i].expired
      BY <2>1, <3>1 DEF Invitation
    <3> HIDE DEF row
    <3> QED BY <1>9, <2>1, <3>1, <3>2
  <2>3. CASE ReminderMark(r)
    <3> DEFINE row == [inv[i] EXCEPT !.reminded = TRUE]
    <3>1. SetInv(i, row)
      BY <2>1, <2>3 DEF ReminderMark
    <3>2. row \in Invitation /\ row.status = inv[i].status /\ row.expired = inv[i].expired
      BY <2>1 DEF Invitation
    <3> HIDE DEF row
    <3> QED BY <1>9, <2>1, <3>1, <3>2
  <2>4. CASE AcceptMark(r)
    <3> DEFINE row == [inv[i] EXCEPT !.status = "accepted", !.accepted = TRUE]
    <3>1. SetInv(i, row) /\ inv[i].status = "pending" /\ ~inv[i].expired
      BY <1>2, <2>1, <2>4 DEF AcceptMark, Holds, Pending
    <3>2. row \in Invitation /\ row.status = "accepted" /\ row.expired = inv[i].expired
      BY <2>1 DEF Invitation
    <3> HIDE DEF row
    <3> QED BY <1>9, <2>1, <3>1, <3>2
  <2>5. CASE SettleWrite(r)
    <3>1. PICK w \in {"declined", "cancelled"} : SetInv(i, [inv[i] EXCEPT !.status = w])
      BY <2>1, <2>5 DEF SettleWrite, SetStatus
    <3>2. inv[i].status = "pending"
      BY <1>2, <2>1, <2>5 DEF SettleWrite, Holds, Pending
    <3> DEFINE row == [inv[i] EXCEPT !.status = w]
    <3>3. row \in Invitation /\ row.status = w /\ row.expired = inv[i].expired
      BY <2>1 DEF Invitation
    <3>4. SetInv(i, row)
      BY <3>1
    <3> HIDE DEF row
    <3> QED BY <1>9, <2>1, <3>2, <3>3, <3>4
  <2> QED BY <1>10, <2>2, <2>3, <2>4, <2>5
<1>11. CASE DeletePurge(r)
  <2> DEFINE S == {i \in InvId : Pending(i) /\ inv[i].inviter = req[r].user}
  <2>1. \A i \in InvId : /\ inv'[i].status = IF i \in S THEN "cancelled" ELSE inv[i].status
                         /\ inv'[i].expired = inv[i].expired
    BY <1>2, <1>11 DEF DeletePurge, Invitation
  <2>2. \A i \in S : inv[i].status = "pending"
    BY DEF Pending
  <2>3. S \in SUBSET InvId
    OBVIOUS
  <2> HIDE DEF S
  <2>4. StatusOf' = [i \in InvId |-> IF i \in S THEN "cancelled" ELSE StatusOf[i]]
    BY <2>1 DEF StatusOf
  <2>5. ExpiredOf' = ExpiredOf
    BY <2>1 DEF ExpiredOf
  <2>6. PICK T \in SUBSET InvId :
           /\ \A i \in T : inv[i].status = "pending"
           /\ StatusOf' = [i \in InvId |-> IF i \in T THEN "cancelled" ELSE StatusOf[i]]
    BY <2>2, <2>3, <2>4
  <2>7. Life!Next
    <3>1. Life!Cancel(T)
      BY <2>5, <2>6 DEF Life!Cancel, StatusOf, ExpiredOf
    <3> QED BY <3>1 DEF Life!Next
  <2>8. \A i \in InvId : inv'[i].status = "absent" => inv[i].status = "absent"
    BY <2>1
  <2> QED BY <2>1, <2>7, <2>8 DEF LInv
<1>12. CASE LinkInvited(r)
  <2>1. \A i \in InvId : inv'[i].status = inv[i].status /\ inv'[i].expired = inv[i].expired
    BY <1>2, <1>12 DEF LinkInvited, Invitation
  <2> QED BY <2>1 DEF LInv, StatusOf, ExpiredOf
<1> QED BY <1>7, <1>8, <1>10, <1>11, <1>12
     DEF Advance, Abort, AcceptRelate, AcceptGrant, RemoveEnd, RemoveUnassign, WithdrawEnd

LEMMA EnvironmentLives ==
    ASSUME SInv, LInv, ~Interleaved, Environment
    PROVE  LInv' /\ [Life!Next]_<<StatusOf, ExpiredOf>>
<1>1. inv \in [InvId -> Invitation] /\ UNCHANGED req /\ Quiet
  BY EnvironmentStays DEF SInv, IInv, TypeOK, CanStart
<1>2. \A q \in Req : Holds(req[q])'
  BY <1>1 DEF Holds, Quiet
<1>3. CASE \E i \in InvId : Expire(i)
  <2>1. PICK i \in InvId : Expire(i)
    BY <1>3
  <2> DEFINE row == [inv[i] EXCEPT !.expired = TRUE]
  <2>2. SetInv(i, row) /\ inv[i].status = "pending" /\ inv[i] \in Invitation
    BY <1>1, <2>1 DEF Expire, Pending
  <2>3. row \in Invitation /\ row.expired = TRUE /\ row.status = inv[i].status
    BY <2>2 DEF Invitation
  <2> HIDE DEF row
  <2>4. /\ inv'[i] = row /\ \A k \in InvId \ {i} : inv'[k] = inv[k]
        /\ StatusOf' = StatusOf /\ ExpiredOf' = [ExpiredOf EXCEPT ![i] = TRUE]
    BY <2>2, <2>3, LifeActions
  <2>5. Life!Expire(i)
    BY <2>2, <2>4 DEF Life!Expire, StatusOf, ExpiredOf
  <2> QED BY <1>2, <2>2, <2>3, <2>4, <2>5 DEF LInv, Life!Next
<1>4. CASE \A i \in InvId : inv'[i].status = inv[i].status /\ inv'[i].expired = inv[i].expired
  BY <1>2, <1>4 DEF LInv, StatusOf, ExpiredOf
<1> QED BY <1>3, <1>4 DEF Environment, ChangeEmail, Complete

(* With one handler at a time, whichever of them die, every invitation      *)
(* leads the documented life: sent once and settled once, by an invitee in  *)
(* time, by a refusal or by its inviter, and never changed again.           *)
THEOREM ImplementsLife ==
    ASSUME ~Interleaved PROVE Spec => ImplementsInvitationLifecycle
<1>1. Init => LInv /\ Life!Init
  BY IdleFilled DEF Init, LInv, Holds, Life!Init, NoInvitation
<1>2. ASSUME SInv, LInv, [Next]_vars PROVE LInv' /\ [Life!Next]_<<StatusOf, ExpiredOf>>
  <2>1. CASE UNCHANGED vars
    BY <1>2, <2>1 DEF vars, LInv, Holds, Pending, StatusOf, ExpiredOf
  <2>2. ASSUME NEW r \in Req, Arrive(r)
        PROVE  LInv' /\ [Life!Next]_<<StatusOf, ExpiredOf>>
    BY <1>2, <2>2, ArriveLives
  <2>3. ASSUME NEW r \in Req, Advance(r) \/ Abort(r)
        PROVE  LInv' /\ [Life!Next]_<<StatusOf, ExpiredOf>>
    BY <1>2, <2>3, AdvanceLives
  <2> QED BY <1>2, <2>1, <2>2, <2>3, EnvironmentLives DEF Next, Environment
<1>3. SInv /\ LInv /\ [Next]_vars => LInv'
  BY <1>2
<1>4. SInv /\ LInv /\ [Next]_vars
         => [Life!Next]_<<[i \in InvId |-> inv[i].status], [i \in InvId |-> inv[i].expired]>>
  BY <1>2 DEF StatusOf, ExpiredOf
<1> QED BY <1>1, <1>3, <1>4, SInvCorrect, PTL
     DEF Spec, ImplementsInvitationLifecycle, Life!Spec
-----------------------------------------------------------------------------
(***************************************************************************)
(* How far a race goes.  Whatever handlers do at once, a request slot can  *)
(* add one row to what its check allowed: rows and requests on their way   *)
(* to insert one are counted together.                                     *)
(***************************************************************************)

Counted(S, W) ==
    /\ IsFiniteSet(S) /\ IsFiniteSet(W)
    /\ Cardinality(S) + Cardinality(W) <= Cardinality(Req)

LEMMA CountedLess ==
    ASSUME NEW S, NEW W, Counted(S, W), NEW S2 \in SUBSET S, NEW W2 \in SUBSET W,
           IsFiniteSet(Req)
    PROVE  Counted(S2, W2)
<1>1. /\ IsFiniteSet(S2) /\ Cardinality(S2) <= Cardinality(S)
      /\ IsFiniteSet(W2) /\ Cardinality(W2) <= Cardinality(W)
  BY FS_Subset DEF Counted
<1>2. /\ Cardinality(S) \in Nat /\ Cardinality(W) \in Nat /\ Cardinality(Req) \in Nat
      /\ Cardinality(S2) \in Nat /\ Cardinality(W2) \in Nat
  BY <1>1, FS_CardinalityType DEF Counted
<1> QED BY <1>1, <1>2 DEF Counted

(* A request is done and leaves one row. *)
LEMMA CountedMoves ==
    ASSUME NEW S, NEW W, Counted(S, W), NEW x, NEW y \in W, IsFiniteSet(Req)
    PROVE  Counted(S \cup {x}, W \ {y})
<1>1. /\ IsFiniteSet(S \cup {x})
      /\ \/ Cardinality(S \cup {x}) = Cardinality(S) + 1
         \/ S \cup {x} = S
  BY FS_AddElement DEF Counted
<1>2. IsFiniteSet(W \ {y}) /\ Cardinality(W \ {y}) = Cardinality(W) - 1
  BY FS_RemoveElement DEF Counted
<1>3. /\ Cardinality(S) \in Nat /\ Cardinality(W) \in Nat /\ Cardinality(Req) \in Nat
  BY FS_CardinalityType DEF Counted
<1> QED BY <1>1, <1>2, <1>3 DEF Counted

(* While there is no row, any number of requests may be on their way. *)
LEMMA CountedAfresh ==
    ASSUME IsFiniteSet(Req), NEW W \in SUBSET Req
    PROVE  Counted({}, W)
<1>1. IsFiniteSet(W) /\ Cardinality(W) <= Cardinality(Req)
  BY FS_Subset
<1>2. IsFiniteSet({}) /\ Cardinality({}) = 0
  BY FS_EmptySet
<1>3. Cardinality(W) \in Nat /\ Cardinality(Req) \in Nat
  BY <1>1, FS_CardinalityType
<1> QED BY <1>1, <1>2, <1>3 DEF Counted

Asks(q, u) == q.pc = "insert" /\ q.new.kind = "global" /\ q.new.inviter = u

Asking(u) == {r \in Req : Asks(req[r], u)}

AskedInv == IInv /\ \A u \in User : Counted(PendingGlobalOf(u), Asking(u))

LEMMA FewerAsked ==
    ASSUME AskedInv, IsFiniteSet(Req), Fewer,
           \A r \in Req, u \in User : Asks(req'[r], u) => Asks(req[r], u),
           NEW u \in User
    PROVE  Counted(PendingGlobalOf(u), Asking(u))'
<1>1. PendingGlobalOf(u)' \subseteq PendingGlobalOf(u)
  BY DEF PendingGlobalOf, Pending, Fewer
<1>2. Asking(u)' \subseteq Asking(u)
  BY DEF Asking
<1> DEFINE S == PendingGlobalOf(u)
           W == Asking(u)
           S2 == PendingGlobalOf(u)'
           W2 == Asking(u)'
<1>3. Counted(S, W) /\ S2 \in SUBSET S /\ W2 \in SUBSET W
  BY <1>1, <1>2 DEF AskedInv
<1> HIDE DEF S, W, S2, W2
<1>4. Counted(S2, W2)
  BY <1>3, CountedLess
<1> QED BY <1>4 DEF Counted, S2, W2

LEMMA SendReadAsked ==
    ASSUME AskedInv, IsFiniteSet(Req), NEW r \in Req, NEW b \in Address, NEW a \in User,
           NEW kind \in Kind, NEW scope \in Journey \cup {None}, SendRead(r, a, b, kind, scope),
           NEW u \in User
    PROVE  Counted(PendingGlobalOf(u), Asking(u))'
<1>2. PICK next :
         Continue(r, next) /\ next.new.kind = kind /\ next.new.inviter = a
  BY SendReadNew
<1>1. /\ req' = [req EXCEPT ![r] = next] /\ UNCHANGED inv
      /\ kind = "global" => PendingGlobalOf(a) = {}
  BY <1>2 DEF SendRead, Continue
<1>4. Asks(next, u) => kind = "global" /\ u = a
  BY <1>2 DEF Asks
<1>5. req \in [Req -> Request]
  BY DEF AskedInv, IInv, TypeOK
<1>6. PendingGlobalOf(u)' = PendingGlobalOf(u)
  BY <1>1 DEF PendingGlobalOf, Pending
<1>7. CASE Asks(next, u)
  <2>1. PendingGlobalOf(u)' = {}
    BY <1>1, <1>4, <1>6, <1>7
  <2>2. Asking(u)' \in SUBSET Req
    BY DEF Asking
  <2> DEFINE W2 == Asking(u)'
  <2>3. Counted({}, W2)
    BY <2>2, CountedAfresh
  <2> HIDE DEF W2
  <2> QED BY <2>1, <2>3 DEF Counted, W2
<1>8. CASE ~Asks(next, u)
  <2>1. Asking(u)' \subseteq Asking(u)
    BY <1>1, <1>5, <1>8 DEF Asking
  <2> DEFINE S == PendingGlobalOf(u)
             W == Asking(u)
             W2 == Asking(u)'
  <2>2. Counted(S, W) /\ W2 \in SUBSET W
    BY <2>1 DEF AskedInv
  <2> HIDE DEF S, W, W2
  <2>3. Counted(S, W2)
    BY <2>2, CountedLess
  <2> QED BY <1>6, <2>3 DEF Counted, S, W2
<1> QED BY <1>7, <1>8

LEMMA SendInsertAsked ==
    ASSUME AskedInv, IsFiniteSet(Req), NEW r \in Req, SendInsert(r), NEW u \in User
    PROVE  Counted(PendingGlobalOf(u), Asking(u))'
<1>1. PICK i \in FreeInv : SetInv(i, req[r].new)
  BY DEF SendInsert
<1> DEFINE new == req[r].new
<1>2. /\ inv' = [inv EXCEPT ![i] = new] /\ inv \in [InvId -> Invitation] /\ i \in InvId
      /\ req' = [req EXCEPT ![r] = Idle] /\ req \in [Req -> Request]
      /\ req[r].pc = "insert"
  BY <1>1 DEF SetInv, SendInsert, Finish, Continue, AskedInv, IInv, TypeOK, FreeInv
<1>3. inv'[i] = new /\ \A k \in InvId \ {i} : inv'[k] = inv[k]
  BY <1>2
<1>4. Asking(u)' = Asking(u) \ {r}
  BY <1>2, IdleFilled DEF Asking, Asks, Idle
<1> DEFINE S == PendingGlobalOf(u)
           W == Asking(u)
           S2 == PendingGlobalOf(u)'
           W2 == Asking(u)'
<1>5. Counted(S, W) /\ W2 = W \ {r}
  BY <1>4 DEF AskedInv
<1>6. CASE r \in Asking(u)
  <2>1. PendingGlobalOf(u)' \subseteq PendingGlobalOf(u) \cup {i}
    BY <1>3 DEF PendingGlobalOf, Pending
  <2>2. r \in W /\ S2 \in SUBSET (S \cup {i})
    BY <1>6, <2>1
  <2> HIDE DEF S, W, S2, W2
  <2>3. Counted(S \cup {i}, W \ {r})
    BY <1>5, <2>2, CountedMoves
  <2>4. Counted(S2, W2)
    BY <1>5, <2>2, <2>3, CountedLess
  <2> QED BY <2>4 DEF Counted, S2, W2
<1>7. CASE r \notin Asking(u)
  <2>1. ~(new.kind = "global" /\ new.inviter = u)
    BY <1>2, <1>7 DEF Asking, Asks
  <2> HIDE DEF new
  <2>2. PendingGlobalOf(u)' \subseteq PendingGlobalOf(u)
    BY <1>3, <2>1 DEF PendingGlobalOf, Pending
  <2>3. S2 \in SUBSET S /\ W2 \in SUBSET W
    BY <1>4, <2>2
  <2> HIDE DEF S, W, S2, W2
  <2>4. Counted(S2, W2)
    BY <1>5, <2>3, CountedLess
  <2> QED BY <2>4 DEF Counted, S2, W2
<1> QED BY <1>6, <1>7

LEMMA StepAsked ==
    ASSUME AskedInv, IsFiniteSet(Req), [Next]_vars
    PROVE  AskedInv'
<1>1. IInv /\ IInv' /\ req \in [Req -> Request]
  BY StepIInv DEF AskedInv, IInv, TypeOK
<1> SUFFICES ASSUME NEW u \in User PROVE Counted(PendingGlobalOf(u), Asking(u))'
  BY <1>1 DEF AskedInv
<1>2. ASSUME NEW r \in Req, NEW next, req' = [req EXCEPT ![r] = next], next.pc # "insert", Fewer
      PROVE  Counted(PendingGlobalOf(u), Asking(u))'
  BY <1>1, <1>2, FewerAsked DEF Asks
<1>3. ASSUME NEW r \in Req, Arrive(r) PROVE Counted(PendingGlobalOf(u), Asking(u))'
  <2>1. PICK a \in User :
           \/ \E b \in Address, kind \in Kind, scope \in Journey \cup {None} :
                 SendRead(r, a, b, kind, scope)
           \/ OtherRead(r, a)
    BY <1>3 DEF Arrive, OtherRead
  <2>2. CASE OtherRead(r, a)
    <3>1. UNCHANGED inv /\ \E next : req' = [req EXCEPT ![r] = next] /\ next.pc # "insert"
      BY <1>1, <2>2, OtherReads
    <3>2. Fewer
      BY <3>1 DEF Fewer
    <3> QED BY <1>2, <3>1, <3>2
  <2> QED BY <2>1, <2>2, SendReadAsked
<1>4. ASSUME NEW r \in Req, Advance(r) \/ Abort(r), ~SendInsert(r)
      PROVE  Counted(PendingGlobalOf(u), Asking(u))'
  BY <1>1, <1>2, <1>4, AdvanceFewer
<1>5. CASE Environment
  <2>1. UNCHANGED req /\ \A i \in InvId :
           /\ inv'[i].status = inv[i].status /\ inv'[i].kind = inv[i].kind
           /\ inv'[i].inviter = inv[i].inviter
    BY <1>1, <1>5, EnvironmentStays
  <2>2. PendingGlobalOf(u)' = PendingGlobalOf(u) /\ Asking(u)' = Asking(u)
    BY <2>1 DEF PendingGlobalOf, Pending, Asking
  <2> QED BY <2>2 DEF AskedInv, Counted
<1>6. CASE UNCHANGED vars
  <2>1. PendingGlobalOf(u)' = PendingGlobalOf(u) /\ Asking(u)' = Asking(u)
    BY <1>6 DEF PendingGlobalOf, Pending, Asking, vars
  <2> QED BY <2>1 DEF AskedInv, Counted
<1> QED BY <1>3, <1>4, <1>5, <1>6, SendInsertAsked DEF Next, Environment

LEMMA InitAsked == ASSUME IsFiniteSet(Req), Init PROVE AskedInv
<1> SUFFICES ASSUME NEW u \in User PROVE Counted(PendingGlobalOf(u), Asking(u))
  BY InitIInv DEF AskedInv
<1>1. PendingGlobalOf(u) = {}
  BY DEF Init, PendingGlobalOf, Pending, NoInvitation
<1>2. Asking(u) \in SUBSET Req
  BY DEF Asking
<1> QED BY <1>1, <1>2, CountedAfresh

(* Whatever handlers race and die, a vratarthi never has more pending global*)
(* invitations than there are requests at once: one, when they do not race. *)
THEOREM PendingBounded ==
    ASSUME IsFiniteSet(Req)
    PROVE  Spec => [](\A u \in User : Cardinality(PendingGlobalOf(u)) <= Cardinality(Req))
<1>1. AskedInv /\ [Next]_vars => AskedInv'
  BY StepAsked
<1>2. Init => AskedInv
  BY InitAsked
<1>3. ASSUME AskedInv, NEW u \in User PROVE Cardinality(PendingGlobalOf(u)) <= Cardinality(Req)
  <2> DEFINE S == PendingGlobalOf(u)
             W == Asking(u)
  <2>1. Counted(S, W)
    BY <1>3 DEF AskedInv
  <2> HIDE DEF S, W
  <2>2. Cardinality(S) \in Nat /\ Cardinality(W) \in Nat /\ Cardinality(Req) \in Nat
    BY <2>1, FS_CardinalityType DEF Counted
  <2>3. Cardinality(S) <= Cardinality(Req)
    BY <2>1, <2>2 DEF Counted
  <2> QED BY <2>3 DEF S
<1>4. AskedInv => \A u \in User : Cardinality(PendingGlobalOf(u)) <= Cardinality(Req)
  BY <1>3
<1> QED BY <1>1, <1>2, <1>4, PTL DEF Spec
-----------------------------------------------------------------------------
(***************************************************************************)
(* The same for reminders.  Until the first mark is written, every mail    *)
(* sent has a request that is still to mark it; after that nobody new      *)
(* begins, and what was mailed and what is about to be fit into the slots. *)
(***************************************************************************)

Mails(q, i) == q.pc = "mail" /\ q.inv = i
Marks(q, i) == q.pc = "remind" /\ q.inv = i

Mailing(i) == {r \in Req : Mails(req[r], i)}
Markers(i) == {r \in Req : Marks(req[r], i)}

Accounted(i) ==
    /\ ~inv[i].reminded => inv[i].reminders <= Cardinality(Markers(i))
    /\ inv[i].reminded => inv[i].reminders + Cardinality(Mailing(i)) <= Cardinality(Req)

MailInv ==
    /\ IInv
    /\ \A r \in Req : req[r].pc = "insert" => req[r].new.reminders = 0
    /\ \A i \in InvId : Accounted(i)

(* The sets of requests counted here are finite. *)
LEMMA SlotCounts ==
    ASSUME IsFiniteSet(Req), NEW S \in SUBSET Req, NEW T \in SUBSET S
    PROVE  /\ IsFiniteSet(S) /\ IsFiniteSet(T)
           /\ Cardinality(S) \in Nat /\ Cardinality(T) \in Nat /\ Cardinality(Req) \in Nat
           /\ Cardinality(T) <= Cardinality(S) /\ Cardinality(S) <= Cardinality(Req)
<1>1. IsFiniteSet(S) /\ Cardinality(S) <= Cardinality(Req)
  BY FS_Subset
<1>2. IsFiniteSet(T) /\ Cardinality(T) <= Cardinality(S)
  BY <1>1, FS_Subset
<1> QED BY <1>1, <1>2, FS_CardinalityType

(* Nothing is mailed or marked for i, and no mark of it is given up. *)
LEMMA AccountStands ==
    ASSUME IsFiniteSet(Req), NEW i \in InvId, Accounted(i), inv[i].reminders \in Nat,
           \/ inv'[i].reminders = inv[i].reminders /\ inv'[i].reminded = inv[i].reminded
           \/ inv'[i].reminders = 0,
           \A r \in Req : Marks(req[r], i) => Marks(req'[r], i),
           inv[i].reminded => \A r \in Req : Mails(req'[r], i) => Mails(req[r], i)
    PROVE  Accounted(i)'
<1> DEFINE A == Markers(i)
           B == Mailing(i)
           A2 == Markers(i)'
           B2 == Mailing(i)'
<1>1. A \in SUBSET A2 /\ A2 \in SUBSET Req /\ B \in SUBSET Req /\ B2 \in SUBSET Req
  BY DEF Markers, Mailing
<1>2. inv[i].reminded => B2 \in SUBSET B
  BY DEF Mailing
<1>3. /\ ~inv[i].reminded => inv[i].reminders <= Cardinality(A)
      /\ inv[i].reminded => inv[i].reminders + Cardinality(B) <= Cardinality(Req)
  BY DEF Accounted
<1> HIDE DEF A, B, A2, B2
<1>4. /\ Cardinality(A) \in Nat /\ Cardinality(A2) \in Nat /\ Cardinality(A) <= Cardinality(A2)
      /\ Cardinality(B2) \in Nat /\ Cardinality(B2) <= Cardinality(Req)
      /\ Cardinality(B) \in Nat /\ Cardinality(Req) \in Nat
  BY <1>1, SlotCounts
<1>5. inv[i].reminded => Cardinality(B2) <= Cardinality(B)
  BY <1>1, <1>2, SlotCounts
<1>6. /\ ~inv'[i].reminded => inv'[i].reminders <= Cardinality(A2)
      /\ inv'[i].reminded => inv'[i].reminders + Cardinality(B2) <= Cardinality(Req)
  BY <1>3, <1>4, <1>5
<1> QED BY <1>6 DEF Accounted, A2, B2

(* A statement of r that neither mails nor marks. *)
LEMMA SlotAccounts ==
    ASSUME MailInv, IsFiniteSet(Req), NEW r \in Req, NEW next, req' = [req EXCEPT ![r] = next],
           req[r].pc # "remind",
           next.pc = "mail" => ~inv[next.inv].reminded,
           \A i \in InvId : \/ /\ inv'[i].reminders = inv[i].reminders
                              /\ inv'[i].reminded = inv[i].reminded
                           \/ inv'[i].reminders = 0
    PROVE  \A i \in InvId : Accounted(i)'
<1> SUFFICES ASSUME NEW i \in InvId PROVE Accounted(i)'
  OBVIOUS
<1>1. /\ req \in [Req -> Request] /\ inv \in [InvId -> Invitation] /\ inv[i] \in Invitation
      /\ Accounted(i)
  BY DEF MailInv, IInv, TypeOK
<1>2. inv[i].reminders \in Nat
  BY <1>1, ConstantsAssumption DEF Invitation
<1>3. req'[r] = next /\ \A q \in Req \ {r} : req'[q] = req[q]
  BY <1>1
<1>4. \A q \in Req : Marks(req[q], i) => Marks(req'[q], i)
  BY <1>3 DEF Marks
<1>5. inv[i].reminded => \A q \in Req : Mails(req'[q], i) => Mails(req[q], i)
  BY <1>3 DEF Mails
<1> QED BY <1>1, <1>2, <1>4, <1>5, AccountStands

(* The mail: one more, and a request that is to mark it. *)
LEMMA MailAccounts ==
    ASSUME MailInv, IsFiniteSet(Req), NEW r \in Req, ReminderMail(r)
    PROVE  \A i \in InvId : Accounted(i)'
<1>1. /\ FilledIn(req[r], inv, link) /\ req[r] \in Request
      /\ inv \in [InvId -> Invitation] /\ req \in [Req -> Request]
  BY RequestFacts DEF MailInv, IInv, TypeOK
<1>2. PICK i \in InvId : i = req[r].inv /\ inv[i] \in Invitation /\ req[r].pc = "mail"
  BY <1>1 DEF FilledIn, OnInvitation, ReminderMail
<1> DEFINE n == inv[i].reminders
           m == IF n < MaxReminders THEN n + 1 ELSE n
           row == [inv[i] EXCEPT !.reminders = m]
           next == [req[r] EXCEPT !.pc = "remind"]
<1>3. inv' = [inv EXCEPT ![i] = row] /\ req' = [req EXCEPT ![r] = next]
  BY <1>2 DEF ReminderMail, SetInv, Goto, Continue
<1>4. n \in Nat /\ m \in Nat /\ m <= n + 1
  BY <1>2, ConstantsAssumption DEF Invitation
<1> HIDE DEF m
<1>5. /\ row.reminders = m /\ row.reminded = inv[i].reminded
      /\ next.pc = "remind" /\ next.inv = i
  BY <1>1, <1>2 DEF Invitation, Request
<1> HIDE DEF row, next
<1>6. /\ inv'[i] = row /\ \A k \in InvId \ {i} : inv'[k] = inv[k]
      /\ req'[r] = next /\ \A q \in Req \ {r} : req'[q] = req[q]
  BY <1>1, <1>2, <1>3
<1>7. ASSUME NEW k \in InvId, k # i PROVE Accounted(k)'
  <2>1. inv[k].reminders \in Nat /\ Accounted(k)
    BY <1>1, ConstantsAssumption DEF Invitation, MailInv
  <2>2. \A q \in Req : /\ Marks(req[q], k) => Marks(req'[q], k)
                       /\ Mails(req'[q], k) => Mails(req[q], k)
    BY <1>2, <1>5, <1>6, <1>7 DEF Marks, Mails
  <2> QED BY <1>6, <1>7, <2>1, <2>2, AccountStands
<1>8. Accounted(i)'
  <2> DEFINE A == Markers(i)
             B == Mailing(i)
             A2 == Markers(i)'
             B2 == Mailing(i)'
  <2>1. A2 = A \cup {r} /\ r \notin A /\ A \in SUBSET Req
    BY <1>2, <1>5, <1>6 DEF Markers, Marks
  <2>2. B2 = B \ {r} /\ r \in B /\ B \in SUBSET Req
    BY <1>2, <1>5, <1>6 DEF Mailing, Mails
  <2>3. /\ ~inv[i].reminded => n <= Cardinality(A)
        /\ inv[i].reminded => n + Cardinality(B) <= Cardinality(Req)
    BY DEF MailInv, Accounted
  <2> HIDE DEF A, B, A2, B2
  <2>4. IsFiniteSet(A) /\ IsFiniteSet(B)
    BY <2>1, <2>2, SlotCounts
  <2>5. Cardinality(A2) = Cardinality(A) + 1
    BY <2>1, <2>4, FS_AddElement
  <2>6. Cardinality(B2) = Cardinality(B) - 1
    BY <2>2, <2>4, FS_RemoveElement
  <2>7. Cardinality(A) \in Nat /\ Cardinality(B) \in Nat /\ Cardinality(Req) \in Nat
    BY <2>4, FS_CardinalityType
  <2>8. /\ ~inv[i].reminded => m <= Cardinality(A2)
        /\ inv[i].reminded => m + Cardinality(B2) <= Cardinality(Req)
    BY <1>4, <2>3, <2>5, <2>6, <2>7
  <2> QED BY <1>5, <1>6, <2>8 DEF Accounted, A2, B2
<1> QED BY <1>7, <1>8

(* The mark: those who mailed and those who are about to are different. *)
LEMMA MarkAccounts ==
    ASSUME MailInv, IsFiniteSet(Req), NEW r \in Req, ReminderMark(r)
    PROVE  \A i \in InvId : Accounted(i)'
<1>1. /\ FilledIn(req[r], inv, link) /\ req[r] \in Request
      /\ inv \in [InvId -> Invitation] /\ req \in [Req -> Request]
  BY RequestFacts DEF MailInv, IInv, TypeOK
<1>2. PICK i \in InvId : i = req[r].inv /\ inv[i] \in Invitation /\ req[r].pc = "remind"
  BY <1>1 DEF FilledIn, OnInvitation, ReminderMark
<1> DEFINE n == inv[i].reminders
           row == [inv[i] EXCEPT !.reminded = TRUE]
<1>3. inv' = [inv EXCEPT ![i] = row] /\ req' = [req EXCEPT ![r] = Idle]
  BY <1>2 DEF ReminderMark, SetInv, Finish, Continue
<1>4. n \in Nat
  BY <1>2, ConstantsAssumption DEF Invitation
<1>5. row.reminders = n /\ row.reminded /\ Idle.pc = "idle"
  BY <1>2 DEF Invitation, Idle
<1> HIDE DEF row
<1>6. /\ inv'[i] = row /\ \A k \in InvId \ {i} : inv'[k] = inv[k]
      /\ req'[r] = Idle /\ \A q \in Req \ {r} : req'[q] = req[q]
  BY <1>1, <1>2, <1>3
<1>7. ASSUME NEW k \in InvId, k # i PROVE Accounted(k)'
  <2>1. inv[k].reminders \in Nat /\ Accounted(k)
    BY <1>1, ConstantsAssumption DEF Invitation, MailInv
  <2>2. \A q \in Req : /\ Marks(req[q], k) => Marks(req'[q], k)
                       /\ Mails(req'[q], k) => Mails(req[q], k)
    BY <1>2, <1>5, <1>6, <1>7 DEF Marks, Mails
  <2> QED BY <1>6, <1>7, <2>1, <2>2, AccountStands
<1>8. Accounted(i)'
  <2> DEFINE A == Markers(i)
             B == Mailing(i)
             B2 == Mailing(i)'
  <2>1. B2 = B /\ A \in SUBSET Req /\ B \in SUBSET Req /\ A \cap B = {}
    BY <1>2, <1>5, <1>6 DEF Markers, Marks, Mailing, Mails
  <2>2. /\ ~inv[i].reminded => n <= Cardinality(A)
        /\ inv[i].reminded => n + Cardinality(B) <= Cardinality(Req)
    BY DEF MailInv, Accounted
  <2> HIDE DEF A, B, B2
  <2>3. IsFiniteSet(A) /\ IsFiniteSet(B) /\ A \cup B \in SUBSET Req
    BY <2>1, SlotCounts
  <2>4. Cardinality(A \cap B) = 0
    BY <2>1, FS_EmptySet, Zenon
  <2>5. Cardinality(A \cup B) = Cardinality(A) + Cardinality(B) - Cardinality(A \cap B)
    BY <2>3, FS_Union
  <2>6. Cardinality(A \cup B) <= Cardinality(Req)
    BY <2>3, SlotCounts
  <2>7. Cardinality(A) \in Nat /\ Cardinality(B) \in Nat /\ Cardinality(Req) \in Nat
    BY <2>3, FS_CardinalityType
  <2>8. Cardinality(A) + Cardinality(B) <= Cardinality(Req)
    BY <2>4, <2>5, <2>6, <2>7
  <2>9. n + Cardinality(B2) <= Cardinality(Req)
    BY <1>4, <2>1, <2>2, <2>7, <2>8
  <2> QED BY <1>5, <1>6, <2>9 DEF Accounted, B2
<1> QED BY <1>7, <1>8

LEMMA StepMail ==
    ASSUME MailInv, IsFiniteSet(Req), ~MayFail, [Next]_vars
    PROVE  MailInv'
<1>1. IInv /\ IInv' /\ req \in [Req -> Request] /\ inv \in [InvId -> Invitation]
  BY StepIInv DEF MailInv, IInv, TypeOK
<1> DEFINE Fine == /\ \A r \in Req : req'[r].pc = "insert" => req'[r].new.reminders = 0
                   /\ \A i \in InvId : Accounted(i)'
<1> SUFFICES Fine
  BY <1>1 DEF MailInv
<1>2. ASSUME NEW r \in Req, NEW next, req' = [req EXCEPT ![r] = next],
             next.pc = "insert" => next.new.reminders = 0, \A i \in InvId : Accounted(i)'
      PROVE  Fine
  BY <1>1, <1>2 DEF MailInv
<1> HIDE DEF Fine
<1>3. ASSUME NEW r \in Req, Arrive(r) PROVE Fine
  <2>1. UNCHANGED inv /\ req[r].pc = "idle"
    BY <1>3, ArriveHolds
  <2>2. PICK next :
           /\ req' = [req EXCEPT ![r] = next]
           /\ next.pc = "mail" => next.inv \in InvId /\ ~inv[next.inv].reminded
           /\ next.pc = "insert" => next.new.reminders = 0
    BY <1>3, ArriveHolds
  <2>3. \A i \in InvId : Accounted(i)'
    BY <2>1, <2>2, SlotAccounts
  <2> QED BY <1>2, <2>2, <2>3
<1>4. ASSUME NEW r \in Req, SendInsert(r) PROVE Fine
  <2>1. PICK i \in FreeInv : SetInv(i, req[r].new)
    BY <1>4 DEF SendInsert
  <2>2. /\ inv'[i] = req[r].new /\ \A k \in InvId \ {i} : inv'[k] = inv[k]
        /\ req' = [req EXCEPT ![r] = Idle] /\ req[r].pc = "insert" /\ Idle.pc = "idle"
    BY <1>1, <1>4, <2>1 DEF SetInv, SendInsert, Finish, Continue, FreeInv, Idle
  <2>3. inv'[i].reminders = 0
    BY <2>2 DEF MailInv
  <2>4. \A k \in InvId : Accounted(k)'
    BY <2>2, <2>3, SlotAccounts
  <2> QED BY <1>2, <2>2, <2>4
<1>5. ASSUME NEW r \in Req, ReminderMail(r) \/ ReminderMark(r) PROVE Fine
  <2>1. \A i \in InvId : Accounted(i)'
    BY <1>5, MailAccounts, MarkAccounts
  <2>2. /\ req[r] \in Request /\ Idle.pc = "idle"
        /\ \/ req' = [req EXCEPT ![r] = Idle]
           \/ req' = [req EXCEPT ![r] = [req[r] EXCEPT !.pc = "remind"]]
    BY <1>1, <1>5 DEF ReminderMail, ReminderMark, Finish, Goto, Continue, Idle
  <2>3. [req[r] EXCEPT !.pc = "remind"].pc = "remind"
    BY <2>2 DEF Request
  <2>4. \E next : req' = [req EXCEPT ![r] = next] /\ next.pc # "insert"
    BY <2>2, <2>3
  <2> QED BY <1>2, <2>1, <2>4
<1>6. ASSUME NEW r \in Req, Advance(r), ~SendInsert(r), ~ReminderMail(r), ~ReminderMark(r)
      PROVE  Fine
  <2>1. /\ req[r].pc # "remind"
        /\ \A i \in InvId : /\ inv'[i].reminders = inv[i].reminders
                            /\ inv'[i].reminded = inv[i].reminded
    BY <1>1, <1>6, AdvanceHolds
  <2>2. PICK next : req' = [req EXCEPT ![r] = next] /\ next.pc \notin {"mail", "insert"}
    BY <1>1, <1>6, AdvanceHolds
  <2>3. \A i \in InvId : Accounted(i)'
    BY <2>1, <2>2, SlotAccounts
  <2> QED BY <1>2, <2>2, <2>3
<1>7. CASE Environment \/ UNCHANGED vars
  <2>1. UNCHANGED req
    BY <1>1, <1>7, EnvironmentStays DEF vars
  <2>2. \A i \in InvId : inv'[i].reminders = inv[i].reminders /\ inv'[i].reminded = inv[i].reminded
    BY <1>1, <1>7, EnvironmentStays DEF vars
  <2>3. \A i \in InvId : Markers(i)' = Markers(i) /\ Mailing(i)' = Mailing(i)
    BY <2>1 DEF Markers, Mailing
  <2>4. \A i \in InvId : Accounted(i)'
    BY <2>2, <2>3 DEF MailInv, Accounted
  <2> QED BY <2>1, <2>4 DEF MailInv, Fine
<1> QED BY <1>3, <1>4, <1>5, <1>6, <1>7 DEF Next, Abort, Environment

LEMMA InitMail == ASSUME IsFiniteSet(Req), Init PROVE MailInv
<1>1. \A r \in Req : req[r].pc = "idle"
  BY IdleFilled DEF Init
<1> SUFFICES ASSUME NEW i \in InvId PROVE Accounted(i)
  BY <1>1, InitIInv DEF MailInv
<1>2. inv[i].reminders = 0 /\ ~inv[i].reminded
  BY DEF Init, NoInvitation
<1>3. Markers(i) \in SUBSET Req
  BY DEF Markers
<1>4. Cardinality(Markers(i)) \in Nat
  BY <1>3, SlotCounts
<1> QED BY <1>2, <1>4 DEF Accounted

(* Whatever handlers race, as long as none of them dies, an invitation is   *)
(* reminded of by no more mails than there are requests at once.            *)
THEOREM RemindersBounded ==
    ASSUME IsFiniteSet(Req), ~MayFail
    PROVE  Spec => [](\A i \in InvId : inv[i].reminders <= Cardinality(Req))
<1>1. MailInv /\ [Next]_vars => MailInv'
  BY StepMail
<1>2. Init => MailInv
  BY InitMail
<1>3. ASSUME MailInv, NEW i \in InvId PROVE inv[i].reminders <= Cardinality(Req)
  <2>1. inv[i].reminders \in Nat
    BY <1>3, ConstantsAssumption DEF MailInv, IInv, TypeOK, Invitation
  <2> DEFINE A == Markers(i)
             B == Mailing(i)
  <2>2. A \in SUBSET Req /\ B \in SUBSET Req
    BY DEF Markers, Mailing
  <2>3. /\ ~inv[i].reminded => inv[i].reminders <= Cardinality(A)
        /\ inv[i].reminded => inv[i].reminders + Cardinality(B) <= Cardinality(Req)
    BY <1>3 DEF MailInv, Accounted
  <2> HIDE DEF A, B
  <2>4. /\ Cardinality(A) \in Nat /\ Cardinality(B) \in Nat /\ Cardinality(Req) \in Nat
        /\ Cardinality(A) <= Cardinality(Req)
    BY <2>2, SlotCounts
  <2> QED BY <2>1, <2>3, <2>4
<1>4. MailInv => \A i \in InvId : inv[i].reminders <= Cardinality(Req)
  BY <1>3
<1> QED BY <1>1, <1>2, <1>4, PTL DEF Spec

-----------------------------------------------------------------------------
(***************************************************************************)
(* What signup and deletion still do to the invitations, whatever races    *)
(* and dies.                                                               *)
(***************************************************************************)

Links(q, a) == q.pc = "link" /\ q.to = a
Purges(q, u) == q.pc = "purge" /\ q.user = u

(* The steps that may strand the invitation i, and those that may orphan it. *)
MayStrand(i) ==
    \/ \E u \in User : ChangeEmail(u, inv[i].to)
    \/ \E r \in Req : SendInsert(r) /\ inv[i].status = "absent"
    \/ \E r \in Req : Abort(r) /\ req[r].pc = "link" /\ req[r].to = inv[i].to

MayOrphan(i) ==
    \/ \E r \in Req : SendInsert(r) /\ inv[i].status = "absent"
    \/ \E r \in Req : Abort(r) /\ req[r].pc = "purge" /\ req[r].user = inv[i].inviter

(* What an invitation that is pending after a step was before it: it had an *)
(* address, and was pending for it, unless this step inserted it.           *)
LEMMA WasPending ==
    ASSUME IInv, OwnersAsk, [Next]_vars, NEW i \in InvId, Pending(i)'
    PROVE  \/ \E r \in Req : SendInsert(r) /\ inv[i].status = "absent"
           \/ /\ Pending(i) /\ inv'[i].to = inv[i].to /\ inv[i].to \in Address
              /\ inv'[i].inviter = inv[i].inviter
              /\ inv'[i].invitee = None => inv[i].invitee = None
<1>1. CASE \E r \in Req : SendInsert(r)
  <2>1. PICK r \in Req, k \in FreeInv : SetInv(k, req[r].new) /\ SendInsert(r)
    BY <1>1 DEF SendInsert
  <2>2. CASE k = i
    BY <2>1, <2>2 DEF FreeInv
  <2>3. CASE k # i
    BY <2>1, <2>3 DEF SetInv, IInv, TypeOK, OwnersAsk, OwnScope, Pending
  <2> QED BY <2>2, <2>3
<1>2. CASE \A r \in Req : ~SendInsert(r)
  <2>1. Fewer
    <3>1. ASSUME NEW r \in Req, Arrive(r) PROVE Fewer
      BY <3>1, ArriveReads DEF Fewer
    <3>2. ASSUME NEW r \in Req, Advance(r) \/ Abort(r) PROVE Fewer
      BY <1>2, <3>2, AdvanceFewer
    <3>3. CASE Environment
      BY <3>3, EnvironmentStays DEF Fewer
    <3>4. CASE UNCHANGED vars
      BY <3>4 DEF vars, Fewer
    <3> QED BY <3>1, <3>2, <3>3, <3>4 DEF Next, Environment
  <2>2. inv[i].status # "absent" => OwnScope(inv[i])
    BY DEF OwnersAsk
  <2> QED BY <2>1, <2>2 DEF Fewer, Pending, OwnScope
<1> QED BY <1>1, <1>2

(* Only the second statement of a signup or a deletion, or its death, ends  *)
(* what it still has to do.                                                 *)
LEMMA StillToDo ==
    ASSUME IInv, [Next]_vars, NEW q \in Req, req[q].pc \in {"link", "purge"}, req'[q] # req[q]
    PROVE  LinkInvited(q) \/ DeletePurge(q) \/ Abort(q)
<1>1. req \in [Req -> Request]
  BY DEF IInv, TypeOK
<1>2. PICK r \in Req : Arrive(r) \/ Advance(r) \/ Abort(r)
  BY EnvironmentStays DEF Next, Environment, vars
<1>3. \E next : req' = [req EXCEPT ![r] = next]
  BY <1>2, ArriveReads, AdvanceInsertsNot DEF Continue, SendInsert, Finish
<1>4. r = q
  BY <1>1, <1>3
<1>5. CASE Arrive(r)
  BY <1>4, <1>5, ArriveReads
<1>6. CASE Advance(r)
  BY <1>4, <1>6 DEF Advance, SendInsert, ReminderMail, ReminderMark, AcceptMark, AcceptRelate,
     AcceptGrant, SettleWrite, RemoveEnd, RemoveUnassign, WithdrawEnd
<1> QED BY <1>2, <1>4, <1>5, <1>6

(* An address gets a holder by a signup that links it, or by a change. *)
LEMMA NewHolder ==
    ASSUME IInv, [Next]_vars, NEW a \in Address, Holder(a) = {}, Holder(a)' # {}
    PROVE  \/ \E u \in User : ChangeEmail(u, a)
           \/ \E q \in Req : Links(req'[q], a)
<1>1. email \in [User -> Address \cup {None}] /\ None \notin Address
  BY ConstantsAssumption DEF IInv, TypeOK
<1>2. req \in [Req -> Request]
  BY DEF IInv, TypeOK
<1>3. ~UNCHANGED email
  BY DEF Holder
<1>4. ASSUME NEW u \in User, NEW r \in Req, DeleteAccount(r, u) PROVE FALSE
  BY <1>1, <1>4 DEF DeleteAccount, Holder
<1>5. ASSUME NEW u \in User, NEW r \in Req, NEW b \in Address, Register(r, u, b)
      PROVE  \E q \in Req : Links(req'[q], a)
  <2>1. a = b
    BY <1>1, <1>5 DEF Register, Holder
  <2> DEFINE next == [Idle EXCEPT !.pc = "link", !.user = u, !.to = b]
  <2>2. Links(next, b) /\ req' = [req EXCEPT ![r] = next]
    BY <1>5 DEF Register, Continue, Links, Idle
  <2> HIDE DEF next
  <2> QED BY <1>2, <2>1, <2>2
<1>6. ASSUME NEW u \in User, NEW b \in Address, ChangeEmail(u, b)
      PROVE  \E v \in User : ChangeEmail(v, a)
  <2>1. a = b
    BY <1>1, <1>6 DEF ChangeEmail, Holder
  <2> QED BY <1>6, <2>1
<1>7. ASSUME NEW r \in Req, Arrive(r) PROVE \E q \in Req : Links(req'[q], a)
  BY <1>3, <1>4, <1>5, <1>7, ArriveReads
<1>8. ASSUME NEW r \in Req, Advance(r) \/ Abort(r) PROVE FALSE
  <2>1. CASE SendInsert(r)
    BY <1>3, <2>1 DEF SendInsert
  <2>2. CASE ~SendInsert(r)
    BY <1>3, <1>8, <2>2, AdvanceFewer
  <2> QED BY <2>1, <2>2
<1>9. ASSUME (\E i \in InvId : Expire(i)) \/ (\E j \in Journey : Complete(j)) PROVE FALSE
  BY <1>3, <1>9 DEF Expire, Complete
<1>10. ~UNCHANGED vars
  BY <1>3 DEF vars
<1> QED BY <1>6, <1>7, <1>8, <1>9, <1>10 DEF Next

LEMMA StrandedBy ==
    ASSUME IInv, OwnersAsk, [Next]_vars, NEW i \in InvId, ~Stranded(i), Stranded(i)'
    PROVE  MayStrand(i)
<1> DEFINE a == inv[i].to
<1>1. Pending(i)' /\ inv'[i].invitee = None /\ {u \in User : email'[u] = inv'[i].to} # {}
      /\ \A q \in Req : ~Links(req'[q], inv'[i].to)
  BY DEF Stranded, Holder, Links
<1>2. CASE \E r \in Req : SendInsert(r) /\ inv[i].status = "absent"
  BY <1>2 DEF MayStrand
<1>3. CASE ~\E r \in Req : SendInsert(r) /\ inv[i].status = "absent"
  <2>1. /\ Pending(i) /\ inv'[i].to = a /\ a \in Address
        /\ inv[i].invitee = None
    BY <1>1, <1>3, WasPending
  <2>2. CASE Holder(a) = {}
    <3>1. {u \in User : email'[u] = a} # {} /\ \A q \in Req : ~Links(req'[q], a)
      BY <1>1, <2>1
    <3>2. Holder(a)' # {}
      BY <2>1, <3>1 DEF Holder
    <3> QED BY <2>1, <2>2, <3>1, <3>2, NewHolder DEF MayStrand
  <2>3. CASE Holder(a) # {}
    <3>1. PICK q \in Req : Links(req[q], a)
      BY <2>1, <2>3 DEF Stranded, Links
    <3>2. req'[q] # req[q] /\ req[q].pc = "link" /\ req[q].to = a
      BY <1>1, <2>1, <3>1 DEF Links
    <3>3. CASE Abort(q)
      BY <3>2, <3>3 DEF MayStrand
    <3>4. CASE LinkInvited(q)
      <4>1. PICK u \in User : u = req[q].user
        BY <3>4, RequestFacts DEF LinkInvited, FilledIn
      <4>2. inv'[i] = [inv[i] EXCEPT !.invitee = u] /\ inv[i] \in Invitation
        BY <2>1, <3>2, <3>4, <4>1 DEF LinkInvited, IInv, TypeOK
      <4>3. inv'[i].invitee = u
        BY <4>2 DEF Invitation
      <4> QED BY <1>1, <4>1, <4>3, ConstantsAssumption
    <3>5. ~DeletePurge(q)
      BY <3>2 DEF DeletePurge
    <3> QED BY <3>2, <3>3, <3>4, <3>5, StillToDo
  <2> QED BY <2>2, <2>3
<1> QED BY <1>2, <1>3

LEMMA OrphanedBy ==
    ASSUME IInv, OwnersAsk, [Next]_vars, NEW i \in InvId, ~Orphaned(i), Orphaned(i)'
    PROVE  MayOrphan(i)
<1>0. account \in [User -> {"none", "live", "deleted"}] /\ req \in [Req -> Request]
  BY DEF IInv, TypeOK
<1>1. PICK u \in User : /\ Pending(i)' /\ inv'[i].inviter = u /\ account'[u] = "deleted"
                        /\ \A q \in Req : ~Purges(req'[q], u)
  BY DEF Orphaned, Purges
<1>2. CASE \E r \in Req : SendInsert(r) /\ inv[i].status = "absent"
  BY <1>2 DEF MayOrphan
<1>3. CASE ~\E r \in Req : SendInsert(r) /\ inv[i].status = "absent"
  <2>1. Pending(i) /\ inv[i].inviter = u
    BY <1>1, <1>3, WasPending
  <2>2. CASE account[u] = "deleted"
    <3>1. PICK q \in Req : Purges(req[q], u)
      BY <2>1, <2>2 DEF Orphaned, Purges
    <3>2. req'[q] # req[q] /\ req[q].pc = "purge" /\ req[q].user = u
      BY <1>1, <3>1 DEF Purges
    <3>3. CASE Abort(q)
      BY <2>1, <3>2, <3>3 DEF MayOrphan
    <3>4. CASE DeletePurge(q)
      <4>1. inv'[i] = [inv[i] EXCEPT !.status = "cancelled"] /\ inv[i] \in Invitation
        BY <2>1, <3>2, <3>4 DEF DeletePurge, IInv, TypeOK
      <4>2. inv'[i].status = "cancelled"
        BY <4>1 DEF Invitation
      <4> QED BY <1>1, <4>2 DEF Pending
    <3>5. ~LinkInvited(q)
      BY <3>2 DEF LinkInvited
    <3> QED BY <3>2, <3>3, <3>4, <3>5, StillToDo
  <2>3. CASE account[u] # "deleted"
    <3>1. ASSUME NEW r \in Req, NEW v \in User, DeleteAccount(r, v) PROVE FALSE
      <4> DEFINE next == [Idle EXCEPT !.pc = "purge", !.user = v]
      <4>1. u = v
        BY <1>0, <1>1, <2>3, <3>1 DEF DeleteAccount
      <4>2. Purges(next, v) /\ req' = [req EXCEPT ![r] = next]
        BY <3>1 DEF DeleteAccount, Continue, Purges, Idle
      <4> HIDE DEF next
      <4> QED BY <1>0, <1>1, <4>1, <4>2
    <3>2. ASSUME NEW r \in Req, NEW v \in User, NEW a \in Address, Register(r, v, a) PROVE FALSE
      BY <1>0, <1>1, <2>3, <3>2 DEF Register
    <3>3. ~UNCHANGED account
      BY <1>1, <2>3
    <3>4. ASSUME NEW r \in Req, Arrive(r) PROVE FALSE
      BY <3>1, <3>2, <3>3, <3>4, ArriveReads
    <3>5. ASSUME NEW r \in Req, Advance(r) \/ Abort(r) PROVE FALSE
      <4>1. CASE SendInsert(r)
        BY <3>3, <4>1 DEF SendInsert
      <4>2. CASE ~SendInsert(r)
        BY <3>3, <3>5, <4>2, AdvanceFewer
      <4> QED BY <4>1, <4>2
    <3>6. ~Environment /\ ~UNCHANGED vars
      BY <3>3, EnvironmentStays DEF vars
    <3> QED BY <3>4, <3>5, <3>6 DEF Next, Environment
  <2> QED BY <2>2, <2>3
<1> QED BY <1>2, <1>3

LEMMA OwnersAskCorrect == Spec => []OwnersAsk
<1>1. Init => OwnersAsk
  BY IdleFilled DEF Init, OwnersAsk, NoInvitation
<1> QED BY <1>1, IInvCorrect, StepOwners, PTL DEF Spec

(* Signup reaches every invitation sent before it, for any number of people *)
(* and requests: what it misses was sent or died meanwhile, or is the doing *)
(* of a change of address.                                                  *)
THEOREM Reached == Spec => SignupReaches
<1>1. IInv /\ OwnersAsk /\ [Next]_vars =>
         [\A i \in InvId : ~Stranded(i) /\ Stranded(i)' =>
             \/ \E u \in User : ChangeEmail(u, inv[i].to)
             \/ \E r \in Req : SendInsert(r) /\ inv[i].status = "absent"
             \/ \E r \in Req : Abort(r) /\ req[r].pc = "link" /\ req[r].to = inv[i].to]_vars
  BY StrandedBy DEF MayStrand
<1> QED BY <1>1, IInvCorrect, OwnersAskCorrect, PTL DEF Spec, SignupReaches

(* Deleting an account withdraws every invitation it has sent, unless the   *)
(* handler dies; only a send that was already checked can come after it.    *)
THEOREM Withdrawn == Spec => DeletionWithdraws
<1>1. IInv /\ OwnersAsk /\ [Next]_vars =>
         [\A i \in InvId : ~Orphaned(i) /\ Orphaned(i)' =>
             \/ \E r \in Req : SendInsert(r) /\ inv[i].status = "absent"
             \/ \E r \in Req : Abort(r) /\ req[r].pc = "purge" /\ req[r].user = inv[i].inviter]_vars
  BY OrphanedBy DEF MayOrphan
<1> QED BY <1>1, IInvCorrect, OwnersAskCorrect, PTL DEF Spec, DeletionWithdraws
=============================================================================
