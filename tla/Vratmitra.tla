----------------------------- MODULE Vratmitra ------------------------------
(***************************************************************************)
(* How a vratarthi gets a vratmitra and loses one: invitations, global     *)
(* relationships, per-journey assignments, the role VRATMITRA, and of the  *)
(* accounts what matters to them: signup, the address and the deletion.    *)
(*                                                                         *)
(* As in Journeys, each awaited statement is a step, handlers interleave,  *)
(* writes name their row by id only, and a refused request stutters.       *)
(* Consecutive reads of one handler are one step.  Every account holds     *)
(* the role VRATARTHI from signup, and roles edited by an administrator    *)
(* are not modelled.  Notifications and the wording of mails are left out. *)
(*                                                                         *)
(* A definition whose name has an underscore is a fault, as in Journeys.   *)
(***************************************************************************)
EXTENDS Naturals, FiniteSets

CONSTANTS
    User,          \* people: some have no account yet
    Address,       \* e-mail addresses
    Journey,       \* existing journeys
    OwnerOf,       \* journey -> the person whose journey it is
    Kind,          \* invitation types in use, of "global", "journey", "platform"
    InvId,         \* ids of invitations: the bound on rows
    LinkId,        \* ids of relationship and assignment rows: the bound on rows
    Req,           \* request slots of the API
    MaxReminders,  \* bound on the reminder mails counted per invitation
    Interleaved,   \* FALSE: a handler starts only when no other is in flight
    MayFail,       \* TRUE: a handler can die between two statements
    None           \* SQL NULL

ASSUME ConstantsAssumption ==
    /\ OwnerOf \in [Journey -> User]
    /\ Kind \subseteq {"global", "journey", "platform"}
    /\ MaxReminders \in Nat
    /\ Interleaved \in BOOLEAN /\ MayFail \in BOOLEAN
    /\ None \notin User \cup Address \cup Journey \cup InvId \cup LinkId

VARIABLES
    account,  \* per person: "none", "live" or "deleted"
    email,    \* per person, the address of the live account
    vmRole,   \* the people who hold the role VRATMITRA
    done,     \* the completed journeys
    inv,      \* invitations
    link,     \* vm_relationships (scope None) and journey_vm_assignments
    req       \* per slot, the request in flight

vars == <<account, email, vmRole, done, inv, link, req>>

-----------------------------------------------------------------------------
(* Data *)

(***************************************************************************)
(* An invitation.  to is inviteeEmail and invitee is inviteeId, which      *)
(* alone decides who may accept.  accepted and reminded are                *)
(* "accepted_at / reminder_sent_at is not null", expired is                *)
(* expires_at < now, and reminders counts the reminder mails handed to the *)
(* mail queue.  No code ever writes the status EXPIRED.                    *)
(***************************************************************************)
Invitation ==
    [status : {"absent", "pending", "accepted", "declined", "cancelled"},
     kind : {"global", "journey", "platform"},
     inviter : User \cup {None}, to : Address \cup {None},
     invitee : User \cup {None}, scope : Journey \cup {None},
     accepted : BOOLEAN, expired : BOOLEAN,
     reminded : BOOLEAN, reminders : 0..MaxReminders]

NoInvitation ==
    [status |-> "absent", kind |-> "global", inviter |-> None, to |-> None,
     invitee |-> None, scope |-> None, accepted |-> FALSE, expired |-> FALSE,
     reminded |-> FALSE, reminders |-> 0]

(* Neither table has a unique constraint: the same pair can be linked twice. *)
Link == [state : {"absent", "active", "ended"},
         va : User \cup {None}, vm : User \cup {None}, scope : Journey \cup {None}]

NoLink == [state |-> "absent", va |-> None, vm |-> None, scope |-> None]

Request ==
    [pc : {"idle", "insert", "mark", "relate", "grant", "decline", "cancel",
           "mail", "remind", "endGlobal", "unassign", "endJourney", "purge",
           "link"},
     user : User \cup {None},
     to : Address \cup {None},       \* the address a signup was made with
     new : Invitation,               \* the row a send is about to insert
     inv : InvId \cup {None},        \* the invitation that was read
     link : LinkId \cup {None},      \* the relationship that was read
     unassign : BOOLEAN]             \* cascade = 'unassign'

Idle == [pc |-> "idle", user |-> None, to |-> None, new |-> NoInvitation,
         inv |-> None, link |-> None, unassign |-> FALSE]

-----------------------------------------------------------------------------
(* Queries *)

Pending(i) == inv[i].status = "pending"

PendingGlobalOf(u) ==
    {i \in InvId : Pending(i) /\ inv[i].kind = "global" /\ inv[i].inviter = u}

ActiveGlobalOf(u) ==
    {l \in LinkId : link[l].state = "active" /\ link[l].scope = None /\ link[l].va = u}

ActiveAssignments(u, j) ==
    {l \in LinkId : link[l].state = "active" /\ link[l].scope = j /\ link[l].vm = u}

(* Who mentors: for a journey, and its owner globally. *)
AssignedTo(j) ==
    {link[l].vm : l \in {l \in LinkId : link[l].state = "active" /\ link[l].scope = j}}

GlobalsOf(u) == {link[l].vm : l \in ActiveGlobalOf(u)}

(* users.email is unique, and an anonymised account gives its address up. *)
Holder(a) == {u \in User : email[u] = a}

FreeInv == {i \in InvId : inv[i].status = "absent"}
FreeLink == {l \in LinkId : link[l].state = "absent"}

(* Rows are allotted to the handlers that will insert them: the bounds. *)
InvRoom == Cardinality(FreeInv) > Cardinality({q \in Req : req[q].pc = "insert"})
LinkRoom == Cardinality(FreeLink) >
               Cardinality({q \in Req : req[q].pc \in {"mark", "relate"}})

Quiet == \A q \in Req : req[q].pc = "idle"
CanStart == Interleaved \/ Quiet

(* A request starts with a session of a live account. *)
Starts(r, u) == req[r].pc = "idle" /\ CanStart /\ account[u] = "live"

Continue(r, next) == req' = [req EXCEPT ![r] = next]
Goto(r, pc) == Continue(r, [req[r] EXCEPT !.pc = pc])
Finish(r) == Continue(r, Idle)

SetInv(i, row) == inv' = [inv EXCEPT ![i] = row]
SetStatus(i, s) == SetInv(i, [inv[i] EXCEPT !.status = s])

-----------------------------------------------------------------------------
(***************************************************************************)
(* sendVmInvitation: a global invitation only while the inviter has no     *)
(* pending one, a journey invitation only for an own journey, a platform   *)
(* invitation always.  Whose address it is is looked up before the row is  *)
(* inserted.  Nothing looks at existing relationships, nor at whether the  *)
(* invitee is the inviter.                                                 *)
(***************************************************************************)
SendRead(r, u, a, kind, scope) ==
    /\ Starts(r, u)
    /\ InvRoom
    /\ kind = "global" => PendingGlobalOf(u) = {}
    /\ IF kind = "journey" THEN scope \in Journey /\ OwnerOf[scope] = u
                           ELSE scope = None
    /\ \E v \in User \cup {None} :
          /\ IF v = None THEN Holder(a) = {} ELSE v \in Holder(a)
          /\ Continue(r, [Idle EXCEPT
                !.pc = "insert", !.user = u,
                !.new = [NoInvitation EXCEPT !.status = "pending", !.kind = kind,
                            !.inviter = u, !.to = a, !.invitee = v, !.scope = scope]])
    /\ UNCHANGED <<account, email, vmRole, done, inv, link>>

SendInsert(r) ==
    /\ req[r].pc = "insert"
    /\ \E i \in FreeInv : SetInv(i, req[r].new)
    /\ Finish(r)
    /\ UNCHANGED <<account, email, vmRole, done, link>>

(* sendReminder: read, hand the mail to the queue, mark. *)
ReminderRead(r, u, i) ==
    /\ Starts(r, u)
    /\ Pending(i) /\ inv[i].inviter = u /\ ~inv[i].reminded
    /\ Continue(r, [Idle EXCEPT !.pc = "mail", !.user = u, !.inv = i])
    /\ UNCHANGED <<account, email, vmRole, done, inv, link>>

ReminderMail(r) ==
    /\ req[r].pc = "mail"
    /\ LET i == req[r].inv
           n == inv[i].reminders IN
       SetInv(i, [inv[i] EXCEPT !.reminders = IF n < MaxReminders THEN n + 1 ELSE n])
    /\ Goto(r, "remind")
    /\ UNCHANGED <<account, email, vmRole, done, link>>

ReminderMark(r) ==
    /\ req[r].pc = "remind"
    /\ SetInv(req[r].inv, [inv[req[r].inv] EXCEPT !.reminded = TRUE])
    /\ Finish(r)
    /\ UNCHANGED <<account, email, vmRole, done, link>>

(* Fault: whoever has the link may accept. *)
AcceptRead_Anybody(r, u, i) ==
    /\ Starts(r, u)
    /\ LinkRoom
    /\ inv[i].invitee # None
    /\ Pending(i) /\ ~inv[i].expired
    /\ Continue(r, [Idle EXCEPT !.pc = "mark", !.user = u, !.inv = i])
    /\ UNCHANGED <<account, email, vmRole, done, inv, link>>

(***************************************************************************)
(* acceptInvitation: the invitation is read and checked once; then its     *)
(* status is written whatever it is by now, the relationship is created,   *)
(* and the role is granted.  Three statements, no transaction.             *)
(***************************************************************************)
AcceptRead(r, u, i) ==
    /\ Starts(r, u)
    /\ LinkRoom
    /\ inv[i].invitee = u
    /\ Pending(i) /\ ~inv[i].expired
    /\ Continue(r, [Idle EXCEPT !.pc = "mark", !.user = u, !.inv = i])
    /\ UNCHANGED <<account, email, vmRole, done, inv, link>>

(* Fault: the role is granted with the status. *)
AcceptMark_GrantsFirst(r) ==
    /\ req[r].pc = "mark"
    /\ LET i == req[r].inv IN
       /\ SetInv(i, [inv[i] EXCEPT !.status = "accepted", !.accepted = TRUE])
       /\ IF inv[i].kind = "platform" THEN Finish(r) ELSE Goto(r, "relate")
    /\ vmRole' = vmRole \cup {req[r].user}
    /\ UNCHANGED <<account, email, done, link>>

AcceptMark(r) ==
    /\ req[r].pc = "mark"
    /\ LET i == req[r].inv IN
       /\ SetInv(i, [inv[i] EXCEPT !.status = "accepted", !.accepted = TRUE])
       /\ IF inv[i].kind = "platform" THEN Finish(r) ELSE Goto(r, "relate")
    /\ UNCHANGED <<account, email, vmRole, done, link>>

AcceptRelate(r) ==
    /\ req[r].pc = "relate"
    /\ LET i == req[r].inv IN
       \E l \in FreeLink :
          link' = [link EXCEPT ![l] = [state |-> "active", va |-> inv[i].inviter,
                                       vm |-> req[r].user, scope |-> inv[i].scope]]
    /\ Goto(r, "grant")
    /\ UNCHANGED <<account, email, vmRole, done, inv>>

(* Faults: the wrong id gets the role, or nobody does. *)
AcceptGrant_WrongId(r) ==
    /\ req[r].pc = "grant"
    /\ vmRole' = vmRole \cup {req[r].inv}
    /\ Finish(r)
    /\ UNCHANGED <<account, email, done, inv, link>>

AcceptGrant_NoRole(r) ==
    /\ req[r].pc = "grant"
    /\ Finish(r)
    /\ UNCHANGED <<account, email, vmRole, done, inv, link>>

AcceptGrant(r) ==
    /\ req[r].pc = "grant"
    /\ vmRole' = vmRole \cup {req[r].user}
    /\ Finish(r)
    /\ UNCHANGED <<account, email, done, inv, link>>

(* declineInvitation (by the invitee, expired or not), cancelInvitation. *)
DeclineRead(r, u, i) ==
    /\ Starts(r, u)
    /\ inv[i].invitee = u /\ Pending(i)
    /\ Continue(r, [Idle EXCEPT !.pc = "decline", !.user = u, !.inv = i])
    /\ UNCHANGED <<account, email, vmRole, done, inv, link>>

CancelRead(r, u, i) ==
    /\ Starts(r, u)
    /\ inv[i].inviter = u /\ Pending(i)
    /\ Continue(r, [Idle EXCEPT !.pc = "cancel", !.user = u, !.inv = i])
    /\ UNCHANGED <<account, email, vmRole, done, inv, link>>

SettleWrite(r) ==
    /\ req[r].pc \in {"decline", "cancel"}
    /\ SetStatus(req[r].inv, IF req[r].pc = "decline" THEN "declined" ELSE "cancelled")
    /\ Finish(r)
    /\ UNCHANGED <<account, email, vmRole, done, link>>

-----------------------------------------------------------------------------
(* removeGlobalVm: end the one active global row that was found, then, if   *)
(* asked to, every active assignment of that vratmitra to the caller.       *)
RemoveRead(r, u, cascade) ==
    /\ Starts(r, u)
    /\ \E l \in ActiveGlobalOf(u) :
          Continue(r, [Idle EXCEPT !.pc = "endGlobal", !.user = u, !.link = l,
                                   !.unassign = cascade])
    /\ UNCHANGED <<account, email, vmRole, done, inv, link>>

RemoveEnd(r) ==
    /\ req[r].pc = "endGlobal"
    /\ link' = [link EXCEPT ![req[r].link].state = "ended"]
    /\ IF req[r].unassign THEN Goto(r, "unassign") ELSE Finish(r)
    /\ UNCHANGED <<account, email, vmRole, done, inv>>

RemoveUnassign(r) ==
    /\ req[r].pc = "unassign"
    /\ link' = [l \in LinkId |->
          IF /\ link[l].state = "active" /\ link[l].scope # None
             /\ link[l].vm = link[req[r].link].vm /\ link[l].va = req[r].user
            THEN [link[l] EXCEPT !.state = "ended"] ELSE link[l]]
    /\ Finish(r)
    /\ UNCHANGED <<account, email, vmRole, done, inv>>

(* withdrawJourneyVm: the vratmitra ends one active row of the journey. *)
WithdrawRead(r, u, j) ==
    /\ Starts(r, u)
    /\ u \in vmRole
    /\ \E l \in ActiveAssignments(u, j) :
          Continue(r, [Idle EXCEPT !.pc = "endJourney", !.user = u, !.link = l])
    /\ UNCHANGED <<account, email, vmRole, done, inv, link>>

WithdrawEnd(r) ==
    /\ req[r].pc = "endJourney"
    /\ link' = [link EXCEPT ![req[r].link].state = "ended"]
    /\ Finish(r)
    /\ UNCHANGED <<account, email, vmRole, done, inv>>

-----------------------------------------------------------------------------
(* Fault: nothing is cancelled. *)
DeleteAccount_Alone(r, u) ==
    /\ Starts(r, u)
    /\ account' = [account EXCEPT ![u] = "deleted"]
    /\ email' = [email EXCEPT ![u] = None]
    /\ UNCHANGED <<vmRole, done, inv, link, req>>

(* anonymiseAccount: the account is closed, then its own pending            *)
(* invitations are cancelled in one UPDATE.                                 *)
DeleteAccount(r, u) ==
    /\ Starts(r, u)
    /\ account' = [account EXCEPT ![u] = "deleted"]
    /\ email' = [email EXCEPT ![u] = None]
    /\ Continue(r, [Idle EXCEPT !.pc = "purge", !.user = u])
    /\ UNCHANGED <<vmRole, done, inv, link>>

DeletePurge(r) ==
    /\ req[r].pc = "purge"
    /\ inv' = [i \in InvId |->
          IF Pending(i) /\ inv[i].inviter = req[r].user
            THEN [inv[i] EXCEPT !.status = "cancelled"] ELSE inv[i]]
    /\ Finish(r)
    /\ UNCHANGED <<account, email, vmRole, done, link>>

-----------------------------------------------------------------------------
(* Fault: signup does not look for invitations. *)
Register_Unlinked(r, u, a) ==
    /\ req[r].pc = "idle" /\ CanStart
    /\ account[u] = "none" /\ Holder(a) = {}
    /\ account' = [account EXCEPT ![u] = "live"]
    /\ email' = [email EXCEPT ![u] = a]
    /\ UNCHANGED <<vmRole, done, inv, link, req>>

(***************************************************************************)
(* createUserWithEmailAccount and createUserWithOAuthAccount: the account  *)
(* is created, and in a second statement without a transaction             *)
(* linkPendingInvitations points the pending invitations to its address at *)
(* it.                                                                     *)
(***************************************************************************)
Register(r, u, a) ==
    /\ req[r].pc = "idle" /\ CanStart
    /\ account[u] = "none" /\ Holder(a) = {}
    /\ account' = [account EXCEPT ![u] = "live"]
    /\ email' = [email EXCEPT ![u] = a]
    /\ Continue(r, [Idle EXCEPT !.pc = "link", !.user = u, !.to = a])
    /\ UNCHANGED <<vmRole, done, inv, link>>

LinkInvited(r) ==
    /\ req[r].pc = "link"
    /\ inv' = [i \in InvId |->
          IF Pending(i) /\ inv[i].to = req[r].to /\ inv[i].invitee = None
            THEN [inv[i] EXCEPT !.invitee = req[r].user] ELSE inv[i]]
    /\ Finish(r)
    /\ UNCHANGED <<account, email, vmRole, done, link>>

(* applyEmailChange: an account takes another free address.  The new        *)
(* address is not linked.  (Identities has the steps that lead to it.)      *)
ChangeEmail(u, a) ==
    /\ CanStart
    /\ account[u] = "live" /\ Holder(a) = {}
    /\ email' = [email EXCEPT ![u] = a]
    /\ UNCHANGED <<account, vmRole, done, inv, link, req>>

(* Seven (or thirty) days pass. *)
Expire(i) ==
    /\ CanStart
    /\ Pending(i) /\ ~inv[i].expired
    /\ SetInv(i, [inv[i] EXCEPT !.expired = TRUE])
    /\ UNCHANGED <<account, email, vmRole, done, link, req>>

(* The journeys component completes a journey. *)
Complete(j) ==
    /\ CanStart
    /\ j \notin done
    /\ done' = done \cup {j}
    /\ UNCHANGED <<account, email, vmRole, inv, link, req>>

Abort(r) ==
    /\ MayFail
    /\ req[r].pc # "idle"
    /\ Finish(r)
    /\ UNCHANGED <<account, email, vmRole, done, inv, link>>

-----------------------------------------------------------------------------
Init ==
    /\ account \in [User -> {"none", "live"}]
    /\ email \in [User -> Address \cup {None}]
    /\ \A u \in User : account[u] = "live" <=> email[u] # None
    /\ \A u, v \in User : email[u] = email[v] => u = v \/ email[u] = None
    /\ vmRole = {}
    /\ done = {}
    /\ inv = [i \in InvId |-> NoInvitation]
    /\ link = [l \in LinkId |-> NoLink]
    /\ req = [r \in Req |-> Idle]

Arrive(r) ==
    \E u \in User :
       \/ \E a \in Address, kind \in Kind, scope \in Journey \cup {None} :
             SendRead(r, u, a, kind, scope)
       \/ \E i \in InvId : \/ ReminderRead(r, u, i)
                           \/ AcceptRead(r, u, i)
                           \/ DeclineRead(r, u, i)
                           \/ CancelRead(r, u, i)
       \/ \E cascade \in BOOLEAN : RemoveRead(r, u, cascade)
       \/ \E j \in Journey : WithdrawRead(r, u, j)
       \/ DeleteAccount(r, u)
       \/ \E a \in Address : Register(r, u, a)

Advance(r) ==
    \/ SendInsert(r)
    \/ ReminderMail(r)
    \/ ReminderMark(r)
    \/ AcceptMark(r)
    \/ AcceptRelate(r)
    \/ AcceptGrant(r)
    \/ SettleWrite(r)
    \/ RemoveEnd(r)
    \/ RemoveUnassign(r)
    \/ WithdrawEnd(r)
    \/ DeletePurge(r)
    \/ LinkInvited(r)

Next ==
    \/ \E r \in Req : Arrive(r) \/ Advance(r) \/ Abort(r)
    \/ \E u \in User, a \in Address : ChangeEmail(u, a)
    \/ \E i \in InvId : Expire(i)
    \/ \E j \in Journey : Complete(j)

Spec == Init /\ [][Next]_vars
-----------------------------------------------------------------------------
(* Properties *)

(* Every row and request has the shape the schema gives it. *)
TypeOK ==
    /\ account \in [User -> {"none", "live", "deleted"}]
    /\ email \in [User -> Address \cup {None}]
    /\ vmRole \in SUBSET User
    /\ done \in SUBSET Journey
    /\ inv \in [InvId -> Invitation]
    /\ link \in [LinkId -> Link]
    /\ req \in [Req -> Request]

(* l is the relationship that accepting the invitation i makes. *)
Forms(i, l) ==
    /\ inv[i].kind # "platform"
    /\ link[l].va = inv[i].inviter
    /\ link[l].vm = inv[i].invitee
    /\ link[l].scope = inv[i].scope

(* Nobody mentors anybody who did not ask them: behind each relationship    *)
(* row, active or ended, is an invitation from that vratarthi to that       *)
(* vratmitra for that scope which the invitee accepted, whatever the        *)
(* statements of racing handlers did to its status since.                   *)
LinksAreConsented ==
    \A l \in LinkId : link[l].state # "absent" =>
       \E i \in InvId : inv[i].accepted /\ Forms(i, l)

(* The role VRATMITRA is held only by someone a relationship was formed     *)
(* with, although acceptInvitation can die between its three statements.    *)
RoleEarned ==
    \A u \in vmRole : \E l \in LinkId : link[l].state # "absent" /\ link[l].vm = u

(* Once acceptInvitation has answered, its relationship and the role are    *)
(* there, whatever raced with its three statements: nobody is left with an  *)
(* accepted invitation and no way to act on it, unless the handler died.    *)
AcceptedMeansRelated ==
    [][\A r \in Req, i \in InvId :
          req[r].inv = i /\ AcceptGrant(r) =>
             /\ inv'[i].invitee \in vmRole'
             /\ \E l \in LinkId : link'[l].state # "absent" /\ Forms(i, l)']_vars

(* A vratarthi has at most one pending global invitation: sendVmInvitation  *)
(* refuses a second one.                                                    *)
OnePendingGlobal == \A u \in User : Cardinality(PendingGlobalOf(u)) <= 1

(* An invitation is reminded of by mail once. *)
ReminderOnce == \A i \in InvId : inv[i].reminders <= 1

(* Nothing is asked in the name of a deleted account: when the deletion is  *)
(* over, no invitation of it is pending and none appears later.             *)
DeletedAsksNothing ==
    \A i \in InvId : Pending(i) =>
       \/ account[inv[i].inviter] = "live"
       \/ \E q \in Req : req[q].pc = "purge" /\ req[q].user = inv[i].inviter

(* i is pending for an address that a live account holds, points to nobody, *)
(* and no signup with the address is still to link it: nobody can accept or *)
(* decline it, now or later.                                                *)
Stranded(i) ==
    /\ Pending(i) /\ inv[i].invitee = None
    /\ Holder(inv[i].to) # {}
    /\ \A q \in Req : ~(req[q].pc = "link" /\ req[q].to = inv[i].to)

(* Signup reaches every invitation sent before it, whatever happens between *)
(* its two statements: no invitation is stranded but by a change of address *)
(* onto its own, by a send that looked the address up before the signup, or *)
(* by the death of the signup that was to link it.                          *)
SignupReaches ==
    [][\A i \in InvId : ~Stranded(i) /\ Stranded(i)' =>
          \/ \E u \in User : ChangeEmail(u, inv[i].to)
          \/ \E r \in Req : SendInsert(r) /\ inv[i].status = "absent"
          \/ \E r \in Req : Abort(r) /\ req[r].pc = "link" /\ req[r].to = inv[i].to]_vars

(* i is pending in the name of a deleted account, and no deletion is still  *)
(* to cancel it.                                                            *)
Orphaned(i) ==
    \E u \in User :
       /\ Pending(i) /\ inv[i].inviter = u /\ account[u] = "deleted"
       /\ \A q \in Req : ~(req[q].pc = "purge" /\ req[q].user = u)

(* Deleting an account withdraws what it asked for, whatever races with the *)
(* two statements of the deletion: an invitation is orphaned only by a send *)
(* that was checked while the account was live, or by the death of the      *)
(* deletion that was to cancel it.                                          *)
DeletionWithdraws ==
    [][\A i \in InvId : ~Orphaned(i) /\ Orphaned(i)' =>
          \/ \E r \in Req : SendInsert(r) /\ inv[i].status = "absent"
          \/ \E r \in Req : Abort(r) /\ req[r].pc = "purge" /\ req[r].user = inv[i].inviter]_vars

-----------------------------------------------------------------------------
(* With handlers one at a time, every invitation leads the documented life. *)
Life == INSTANCE InvitationLifecycle WITH
            status <- [i \in InvId |-> inv[i].status],
            expired <- [i \in InvId |-> inv[i].expired]
ImplementsInvitationLifecycle == Life!Spec

(***************************************************************************)
(* The journeys as Journeys has them: of their rows, only the owner and    *)
(* whether they are completed.  Their requests and jobs are not here.      *)
(***************************************************************************)
Rows == [j \in Journey |->
           [state |-> IF j \in done THEN "completed" ELSE "active",
            owner |-> OwnerOf[j], sentence |-> None, submitted |-> FALSE,
            completed |-> j \in done, paused |-> FALSE, dormant |-> FALSE,
            stale |-> FALSE]]
Assigned == [j \in Journey |-> AssignedTo(j)]

OfJourneys == INSTANCE Journeys WITH
                 Vratarthi <- User, Vratmitra <- User, Admin <- {}, Sentence <- {},
                 JourneyId <- Journey, Interleaved <- TRUE,
                 journeys <- Rows, assigned <- Assigned,
                 req <- {}, cron <- {}, sent <- {}

MentoringOf(j) == INSTANCE Mentoring WITH
                     Vratmitra <- User,
                     assigned <- AssignedTo(j),
                     globals <- GlobalsOf(OwnerOf[j])

(* Whatever handlers race, the vratmitras of a journey and of its owner come*)
(* and go one at a time, which is all that the items of the journey         *)
(* (ErcItems) take for granted of them; and a vratmitra leaves several      *)
(* journeys at once only if they are of one owner, which is all that        *)
(* Journeys takes for granted.                                              *)
ImplementsMentoring ==
    /\ \A j \in Journey : MentoringOf(j)!Init
    /\ [][/\ \A j \in Journey : [MentoringOf(j)!Next]_(MentoringOf(j)!vars)
          /\ [\E v \in User : OfJourneys!Relate(v)]_Assigned]_vars
=============================================================================
