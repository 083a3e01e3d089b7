-------------------------- MODULE VratmitraProofs --------------------------
(***************************************************************************)
(* Machine-checked theorems about Vratmitra, for every set of people,      *)
(* journeys, ids and request slots, and with handlers that die.            *)
(*                                                                         *)
(* The tables only grow: whatever statements race, a row that exists keeps *)
(* what it is about, and an accepted_at once written stays.  So what a     *)
(* handler learnt from a row it read remains true of that part of it (only *)
(* an invitation to nobody can still be pointed at somebody), and          *)
(* the consent behind a relationship can never be taken back.              *)
(***************************************************************************)
EXTENDS Vratmitra, TLAPS

-----------------------------------------------------------------------------
(* How the two tables grow. *)

SameInvitation(old, row) ==
    /\ row.status # "absent"
    /\ row.kind = old.kind /\ row.inviter = old.inviter
    /\ row.to = old.to /\ row.scope = old.scope
    /\ old.invitee # None => row.invitee = old.invitee
    /\ old.accepted => row.accepted

SameLink(old, row) ==
    /\ row.state # "absent"
    /\ row.va = old.va /\ row.vm = old.vm /\ row.scope = old.scope

InvGrows(old, new) ==
    \A i \in InvId : old[i].status # "absent" => SameInvitation(old[i], new[i])

LinkGrows(old, new) ==
    \A l \in LinkId : old[l].state # "absent" => SameLink(old[l], new[l])

-----------------------------------------------------------------------------
(* The inductive invariant. *)

OnInvitation == {"mark", "relate", "grant", "decline", "cancel", "mail", "remind"}
OnLink == {"endGlobal", "unassign", "endJourney"}

(***************************************************************************)
(* What a request q knows of the tables at each of its statements: the     *)
(* rows it names exist, the acceptor is the invitee, and the relationship  *)
(* is created after accepted_at and the role granted after the             *)
(* relationship.                                                           *)
(***************************************************************************)
FilledIn(q, invs, links) ==
    /\ q.pc # "idle" => q.user \in User
    /\ q.pc = "insert" => q.new.status # "absent" /\ ~q.new.accepted
    /\ q.pc \in OnInvitation => q.inv \in InvId /\ invs[q.inv].status # "absent"
    /\ q.pc \in {"mark", "relate", "grant"} => invs[q.inv].invitee = q.user
    /\ q.pc \in {"relate", "grant"} =>
          invs[q.inv].accepted /\ invs[q.inv].kind # "platform"
    /\ q.pc = "grant" =>
          \E l \in LinkId : links[l].state # "absent" /\ links[l].vm = q.user
    /\ q.pc \in OnLink => q.link \in LinkId /\ links[q.link].state # "absent"

RequestsFilled == \A r \in Req : FilledIn(req[r], inv, link)

(* Who accepts an invitation is the one it points to. *)
AcceptedWasSent ==
    \A i \in InvId : inv[i].accepted => inv[i].status # "absent" /\ inv[i].invitee # None

IInv == /\ TypeOK
        /\ RequestsFilled
        /\ AcceptedWasSent
        /\ LinksAreConsented
        /\ RoleEarned

-----------------------------------------------------------------------------
(* Rows. *)

LEMMA IdleFilled ==
    /\ NoInvitation \in Invitation /\ NoLink \in Link
    /\ Idle \in Request /\ Idle.pc = "idle"
    /\ \A invs, links : FilledIn(Idle, invs, links)
<1>1. NoInvitation \in Invitation /\ NoLink \in Link
  BY ConstantsAssumption DEF NoInvitation, Invitation, NoLink, Link
<1>2. Idle \in Request /\ Idle.pc = "idle"
  BY <1>1 DEF Idle, Request
<1> QED BY <1>1, <1>2 DEF FilledIn, OnInvitation, OnLink

(* What a request knows stays true while the tables grow. *)
LEMMA GrowthKeepsFilled ==
    ASSUME NEW q, NEW invs, NEW links, NEW invs2, NEW links2,
           InvGrows(invs, invs2), LinkGrows(links, links2),
           FilledIn(q, invs, links)
    PROVE  FilledIn(q, invs2, links2)
<1>0. None \notin User
  BY ConstantsAssumption
<1>1. q.pc \in {"mark", "relate", "grant"} => q.pc \in OnInvitation
  BY DEF OnInvitation
<1>2. ASSUME q.pc \in OnInvitation PROVE SameInvitation(invs[q.inv], invs2[q.inv])
  BY <1>2 DEF FilledIn, InvGrows
<1>3. ASSUME q.pc = "grant"
      PROVE  \E l \in LinkId : links2[l].state # "absent" /\ links2[l].vm = q.user
  <2>1. PICK l \in LinkId : links[l].state # "absent" /\ links[l].vm = q.user
    BY <1>3 DEF FilledIn
  <2> QED BY <2>1 DEF LinkGrows, SameLink
<1>4. ASSUME q.pc \in OnLink PROVE q.link \in LinkId /\ links2[q.link].state # "absent"
  BY <1>4 DEF FilledIn, LinkGrows, SameLink
<1> QED BY <1>0, <1>1, <1>2, <1>3, <1>4 DEF FilledIn, SameInvitation, OnInvitation

LEMMA NothingGrows == InvGrows(inv, inv) /\ LinkGrows(link, link)
  BY DEF InvGrows, LinkGrows, SameInvitation, SameLink

(* A consent behind a link survives the growth of both tables. *)
LEMMA GrowthKeepsConsent ==
    ASSUME IInv, InvGrows(inv, inv'), LinkGrows(link, link'),
           \A l \in LinkId : link[l].state = "absent" /\ link'[l].state # "absent" =>
              \E i \in InvId : inv'[i].accepted /\ Forms(i, l)'
    PROVE  LinksAreConsented'
<1> SUFFICES ASSUME NEW l \in LinkId, link'[l].state # "absent"
             PROVE  \E i \in InvId : inv'[i].accepted /\ Forms(i, l)'
  BY DEF LinksAreConsented
<1>1. CASE link[l].state = "absent"
  BY <1>1
<1>2. CASE link[l].state # "absent"
  <2>1. PICK i \in InvId : inv[i].accepted /\ Forms(i, l)
    BY <1>2 DEF IInv, LinksAreConsented
  <2>2. inv[i].status # "absent" /\ inv[i].invitee # None
    BY <2>1 DEF IInv, AcceptedWasSent
  <2>3. SameInvitation(inv[i], inv'[i]) /\ SameLink(link[l], link'[l])
    BY <1>2, <2>2 DEF InvGrows, LinkGrows
  <2> QED BY <2>1, <2>2, <2>3 DEF Forms, SameInvitation, SameLink
<1> QED BY <1>1, <1>2

LEMMA GrowthKeepsRoles ==
    ASSUME IInv, LinkGrows(link, link'),
           \A u \in vmRole' \ vmRole :
              \E l \in LinkId : link'[l].state # "absent" /\ link'[l].vm = u
    PROVE  RoleEarned'
<1> SUFFICES ASSUME NEW u \in vmRole'
             PROVE  \E l \in LinkId : link'[l].state # "absent" /\ link'[l].vm = u
  BY DEF RoleEarned
<1>1. CASE u \in vmRole
  <2>1. PICK l \in LinkId : link[l].state # "absent" /\ link[l].vm = u
    BY <1>1 DEF IInv, RoleEarned
  <2> QED BY <2>1 DEF LinkGrows, SameLink
<1>2. CASE u \notin vmRole
  BY <1>2
<1> QED BY <1>1, <1>2

(* The slot r moves on to a request that is filled; the others keep theirs. *)
LEMMA SlotStep ==
    ASSUME IInv, NEW r \in Req, NEW next \in Request, Continue(r, next),
           InvGrows(inv, inv'), LinkGrows(link, link'),
           FilledIn(next, inv', link')
    PROVE  req' \in [Req -> Request] /\ RequestsFilled'
<1>1. req' = [req EXCEPT ![r] = next] /\ req \in [Req -> Request]
  BY DEF Continue, IInv, TypeOK
<1>2. ASSUME NEW q \in Req PROVE FilledIn(req'[q], inv', link')
  <2>1. CASE q = r
    BY <1>1, <2>1
  <2>2. CASE q # r
    <3>1. FilledIn(req[q], inv, link)
      BY DEF IInv, RequestsFilled
    <3>2. FilledIn(req[q], inv', link')
      BY <3>1, GrowthKeepsFilled
    <3> QED BY <1>1, <2>2, <3>2
  <2> QED BY <2>1, <2>2
<1> QED BY <1>1, <1>2 DEF RequestsFilled

(* A read: only the slot changes, or the account with it. *)
LEMMA ReadStep ==
    ASSUME IInv, NEW r \in Req, NEW next \in Request, Continue(r, next),
           UNCHANGED <<vmRole, done, inv, link>>,
           account' \in [User -> {"none", "live", "deleted"}],
           email' \in [User -> Address \cup {None}],
           FilledIn(next, inv, link)
    PROVE  IInv'
<1>1. InvGrows(inv, inv') /\ LinkGrows(link, link') /\ FilledIn(next, inv', link')
  BY NothingGrows
<1>2. req' \in [Req -> Request] /\ RequestsFilled'
  BY <1>1, SlotStep
<1>3. LinksAreConsented' /\ RoleEarned' /\ AcceptedWasSent'
  BY DEF IInv, LinksAreConsented, RoleEarned, AcceptedWasSent, Forms
<1> QED BY <1>2, <1>3 DEF IInv, TypeOK

(* An UPDATE of one invitation that exists, or an INSERT of one. *)
LEMMA InvitationWrite ==
    ASSUME IInv, NEW i \in InvId, NEW row \in Invitation, SetInv(i, row),
           \/ SameInvitation(inv[i], row)
           \/ inv[i].status = "absent" /\ row.status # "absent",
           row.accepted /\ ~inv[i].accepted => row.invitee # None
    PROVE  /\ inv' \in [InvId -> Invitation] /\ inv'[i] = row
           /\ InvGrows(inv, inv') /\ AcceptedWasSent'
<1>1. inv' = [inv EXCEPT ![i] = row] /\ inv \in [InvId -> Invitation]
  BY DEF IInv, TypeOK, SetInv
<1>2. row.status # "absent"
  BY DEF SameInvitation
<1>3. InvGrows(inv, inv')
  BY <1>1 DEF InvGrows, SameInvitation
<1>4. AcceptedWasSent'
  BY <1>1, <1>2 DEF IInv, AcceptedWasSent, SameInvitation
<1> QED BY <1>1, <1>3, <1>4

(* A handler writes one invitation and moves on. *)
LEMMA InvitationStep ==
    ASSUME IInv, NEW r \in Req, NEW next \in Request, Continue(r, next),
           NEW i \in InvId, NEW row \in Invitation, SetInv(i, row),
           \/ SameInvitation(inv[i], row)
           \/ inv[i].status = "absent" /\ row.status # "absent",
           row.accepted /\ ~inv[i].accepted => row.invitee # None,
           UNCHANGED <<account, email, vmRole, done, link>>,
           FilledIn(next, inv', link)
    PROVE  IInv'
<1>1. /\ inv' \in [InvId -> Invitation]
      /\ InvGrows(inv, inv') /\ AcceptedWasSent'
  BY InvitationWrite
<1>2. LinkGrows(link, link') /\ FilledIn(next, inv', link')
  BY NothingGrows
<1>3. req' \in [Req -> Request] /\ RequestsFilled'
  BY <1>1, <1>2, SlotStep
<1>4. LinksAreConsented' /\ RoleEarned'
  BY <1>1, <1>2, GrowthKeepsConsent, GrowthKeepsRoles
<1> QED BY <1>1, <1>3, <1>4 DEF IInv, TypeOK

(* A handler writes relationship rows and moves on. *)
LEMMA LinkStep ==
    ASSUME IInv, NEW r \in Req, NEW next \in Request, Continue(r, next),
           link' \in [LinkId -> Link], LinkGrows(link, link'),
           \A l \in LinkId : link[l].state = "absent" /\ link'[l].state # "absent" =>
              \E i \in InvId : inv[i].accepted /\ Forms(i, l)',
           UNCHANGED <<account, email, vmRole, done, inv>>,
           FilledIn(next, inv, link')
    PROVE  IInv'
<1>1. InvGrows(inv, inv') /\ FilledIn(next, inv', link') /\ AcceptedWasSent'
  BY NothingGrows DEF IInv, AcceptedWasSent
<1>2. req' \in [Req -> Request] /\ RequestsFilled'
  BY <1>1, SlotStep
<1>3. LinksAreConsented' /\ RoleEarned'
  BY <1>1, GrowthKeepsConsent, GrowthKeepsRoles
<1> QED BY <1>1, <1>2, <1>3 DEF IInv, TypeOK

(* An end of rows that exist. *)
LEMMA EndStep ==
    ASSUME IInv, NEW r \in Req, NEW next \in Request, Continue(r, next),
           NEW S \in SUBSET LinkId, \A l \in S : link[l].state # "absent",
           link' = [l \in LinkId |-> IF l \in S THEN [link[l] EXCEPT !.state = "ended"]
                                                ELSE link[l]],
           UNCHANGED <<account, email, vmRole, done, inv>>,
           FilledIn(next, inv, link)
    PROVE  IInv'
<1>1. link \in [LinkId -> Link]
  BY DEF IInv, TypeOK
<1>2. link' \in [LinkId -> Link]
  BY <1>1 DEF Link
<1>3. LinkGrows(link, link')
  BY <1>1 DEF LinkGrows, SameLink, Link
<1>4. \A l \in LinkId : link[l].state = "absent" => link'[l].state = "absent"
  BY <1>1
<1>5. FilledIn(next, inv, link')
  BY <1>3, NothingGrows, GrowthKeepsFilled
<1> QED BY <1>2, <1>3, <1>4, <1>5, LinkStep

(* What is known of the request of slot r and of the rows it names. *)
LEMMA RequestFacts ==
    ASSUME IInv, NEW r \in Req
    PROVE  /\ req[r] \in Request /\ FilledIn(req[r], inv, link)
           /\ req[r].pc \in OnInvitation =>
                 /\ req[r].inv \in InvId /\ inv[req[r].inv] \in Invitation
                 /\ inv[req[r].inv].status # "absent"
           /\ req[r].pc \in OnLink =>
                 /\ req[r].link \in LinkId /\ link[req[r].link] \in Link
                 /\ link[req[r].link].state # "absent"
<1>1. req[r] \in Request /\ FilledIn(req[r], inv, link)
  BY DEF IInv, TypeOK, RequestsFilled
<1> QED BY <1>1 DEF IInv, TypeOK, FilledIn, Request

LEMMA GotoRequest ==
    ASSUME IInv, NEW r \in Req, NEW pc \in {"relate", "grant", "remind", "unassign"},
           Goto(r, pc)
    PROVE  \E next \in Request :
              /\ Continue(r, next) /\ next.pc = pc /\ next.user = req[r].user
              /\ next.inv = req[r].inv /\ next.link = req[r].link
<1> DEFINE next == [req[r] EXCEPT !.pc = pc]
<1>1. req[r] \in Request
  BY RequestFacts
<1>2. /\ next \in Request /\ next.pc = pc /\ next.user = req[r].user
      /\ next.inv = req[r].inv /\ next.link = req[r].link
  BY <1>1 DEF Request
<1>3. Continue(r, next)
  BY DEF Goto
<1> QED BY <1>2, <1>3

-----------------------------------------------------------------------------
(* A call that arrives only reads, but for the deletion of an account, which *)
(* also closes it, and a signup, which opens one.                            *)
LEMMA ArriveReads ==
    ASSUME NEW r \in Req, Arrive(r)
    PROVE  /\ UNCHANGED <<vmRole, done, inv, link>> /\ CanStart /\ req[r].pc = "idle"
           /\ \E next : Continue(r, next)
           /\ \/ UNCHANGED <<account, email>>
              \/ \E u \in User : DeleteAccount(r, u)
              \/ \E u \in User, a \in Address : Register(r, u, a)
<1> DEFINE Reads == /\ UNCHANGED <<vmRole, done, inv, link>> /\ CanStart /\ req[r].pc = "idle"
                    /\ \E next : Continue(r, next)
                    /\ \/ UNCHANGED <<account, email>>
                       \/ \E u \in User : DeleteAccount(r, u)
                       \/ \E u \in User, a \in Address : Register(r, u, a)
<1>1. ASSUME NEW u \in User, NEW a \in Address, NEW kind \in Kind,
             NEW scope \in Journey \cup {None}, SendRead(r, u, a, kind, scope)
      PROVE  Reads
  BY <1>1 DEF SendRead, Starts
<1>2. ASSUME NEW u \in User, NEW i \in InvId, ReminderRead(r, u, i) \/ AcceptRead(r, u, i)
      PROVE  Reads
  BY <1>2 DEF ReminderRead, AcceptRead, Starts
<1>3. ASSUME NEW u \in User, NEW i \in InvId, DeclineRead(r, u, i) \/ CancelRead(r, u, i)
      PROVE  Reads
  BY <1>3 DEF DeclineRead, CancelRead, Starts
<1>4. ASSUME NEW u \in User, NEW cascade \in BOOLEAN, RemoveRead(r, u, cascade)
      PROVE  Reads
  BY <1>4 DEF RemoveRead, Starts
<1>5. ASSUME NEW u \in User, NEW j \in Journey, WithdrawRead(r, u, j)
      PROVE  Reads
  BY <1>5 DEF WithdrawRead, Starts
<1>6. ASSUME NEW u \in User, DeleteAccount(r, u)
      PROVE  Reads
  <2>1. UNCHANGED <<vmRole, done, inv, link>> /\ CanStart /\ req[r].pc = "idle"
        /\ \E next : Continue(r, next)
    BY <1>6 DEF DeleteAccount, Starts
  <2> QED BY <1>6, <2>1
<1>7. ASSUME NEW u \in User, NEW a \in Address, Register(r, u, a)
      PROVE  Reads
  <2>1. UNCHANGED <<vmRole, done, inv, link>> /\ CanStart /\ req[r].pc = "idle"
        /\ \E next : Continue(r, next)
    BY <1>7 DEF Register
  <2> QED BY <1>7, <2>1
<1> HIDE DEF Reads
<1>8. Reads
  BY <1>1, <1>2, <1>3, <1>4, <1>5, <1>6, <1>7, Zenon DEF Arrive
<1> QED BY <1>8, Zenon DEF Reads

-----------------------------------------------------------------------------
(* Each action keeps the invariant. *)

(* What a send is about to insert. *)
LEMMA SendReadNew ==
    ASSUME NEW r \in Req, NEW u \in User, NEW a \in Address, NEW kind \in Kind,
           NEW scope \in Journey \cup {None}, SendRead(r, u, a, kind, scope)
    PROVE  \E v \in User \cup {None}, new \in Invitation, next \in Request :
              /\ Continue(r, next) /\ next.pc = "insert" /\ next.user = u /\ next.new = new
              /\ new.status = "pending" /\ new.kind = kind /\ new.inviter = u
              /\ new.to = a /\ new.invitee = v /\ new.scope = scope
              /\ ~new.accepted /\ ~new.expired /\ ~new.reminded /\ new.reminders = 0
<1>1. PICK v \in User \cup {None} :
         Continue(r, [Idle EXCEPT
            !.pc = "insert", !.user = u,
            !.new = [NoInvitation EXCEPT !.status = "pending", !.kind = kind,
                        !.inviter = u, !.to = a, !.invitee = v, !.scope = scope]])
  BY DEF SendRead
<1> DEFINE new == [NoInvitation EXCEPT !.status = "pending", !.kind = kind,
                      !.inviter = u, !.to = a, !.invitee = v, !.scope = scope]
           next == [Idle EXCEPT !.pc = "insert", !.user = u, !.new = new]
<1>2. kind \in {"global", "journey", "platform"}
  BY ConstantsAssumption
<1>3. /\ new \in Invitation /\ new.status = "pending" /\ new.kind = kind /\ new.inviter = u
      /\ new.to = a /\ new.invitee = v /\ new.scope = scope
      /\ ~new.accepted /\ ~new.expired /\ ~new.reminded /\ new.reminders = 0
  BY <1>2, IdleFilled DEF Invitation, NoInvitation
<1>4. Continue(r, next)
  BY <1>1
<1> HIDE DEF new
<1>5. next \in Request /\ next.pc = "insert" /\ next.user = u /\ next.new = new
  BY <1>3, IdleFilled DEF Request, Idle
<1> HIDE DEF next
<1> QED BY <1>3, <1>4, <1>5

LEMMA SendReadKeeps ==
    ASSUME IInv, NEW r \in Req, NEW u \in User, NEW a \in Address, NEW kind \in Kind,
           NEW scope \in Journey \cup {None}, SendRead(r, u, a, kind, scope)
    PROVE  IInv'
<1>1. PICK next \in Request :
         /\ Continue(r, next) /\ next.pc = "insert" /\ next.user = u
         /\ next.new.status = "pending" /\ ~next.new.accepted
  BY SendReadNew
<1>2. UNCHANGED <<account, email, vmRole, done, inv, link>>
  BY DEF SendRead
<1>3. FilledIn(next, inv, link)
  BY <1>1 DEF FilledIn, OnInvitation, OnLink
<1> QED BY <1>1, <1>2, <1>3, ReadStep DEF IInv, TypeOK

(* The reads that name an invitation. *)
LEMMA InvitationReadKeeps ==
    ASSUME IInv, NEW r \in Req, NEW u \in User, NEW i \in InvId,
           \/ ReminderRead(r, u, i) \/ AcceptRead(r, u, i)
           \/ DeclineRead(r, u, i) \/ CancelRead(r, u, i)
    PROVE  IInv'
<1>1. PICK pc \in {"mail", "mark", "decline", "cancel"} :
         /\ Continue(r, [Idle EXCEPT !.pc = pc, !.user = u, !.inv = i])
         /\ pc = "mark" => inv[i].invitee = u
  BY DEF ReminderRead, AcceptRead, DeclineRead, CancelRead
<1>2. inv[i].status # "absent" /\ UNCHANGED <<account, email, vmRole, done, inv, link>>
  BY DEF ReminderRead, AcceptRead, DeclineRead, CancelRead, Pending
<1> DEFINE next == [Idle EXCEPT !.pc = pc, !.user = u, !.inv = i]
<1>3. next \in Request /\ next.pc = pc /\ next.user = u /\ next.inv = i
  BY IdleFilled DEF Request, Idle
<1>4. Continue(r, next)
  BY <1>1
<1> HIDE DEF next
<1>5. FilledIn(next, inv, link)
  BY <1>1, <1>2, <1>3 DEF FilledIn, OnInvitation, OnLink
<1> QED BY <1>2, <1>3, <1>4, <1>5, ReadStep DEF IInv, TypeOK

(* The reads that name a relationship. *)
LEMMA LinkReadKeeps ==
    ASSUME IInv, NEW r \in Req, NEW u \in User,
           \/ \E cascade \in BOOLEAN : RemoveRead(r, u, cascade)
           \/ \E j \in Journey : WithdrawRead(r, u, j)
    PROVE  IInv'
<1>1. PICK l \in LinkId, next \in Request :
         /\ link[l].state = "active" /\ Continue(r, next)
         /\ next.pc \in OnLink /\ next.user = u /\ next.link = l
  <2>1. ASSUME NEW cascade \in BOOLEAN, RemoveRead(r, u, cascade)
        PROVE  \E l \in LinkId, next \in Request :
                  /\ link[l].state = "active" /\ Continue(r, next)
                  /\ next.pc \in OnLink /\ next.user = u /\ next.link = l
    <3>1. PICK l \in LinkId :
             /\ link[l].state = "active"
             /\ Continue(r, [Idle EXCEPT !.pc = "endGlobal", !.user = u, !.link = l,
                                         !.unassign = cascade])
      BY <2>1 DEF RemoveRead, ActiveGlobalOf
    <3> DEFINE next == [Idle EXCEPT !.pc = "endGlobal", !.user = u, !.link = l,
                                    !.unassign = cascade]
    <3>2. /\ next \in Request /\ next.pc \in OnLink
          /\ next.user = u /\ next.link = l
      BY IdleFilled DEF Request, Idle, OnLink
    <3> QED BY <3>1, <3>2
  <2>2. ASSUME NEW j \in Journey, WithdrawRead(r, u, j)
        PROVE  \E l \in LinkId, next \in Request :
                  /\ link[l].state = "active" /\ Continue(r, next)
                  /\ next.pc \in OnLink /\ next.user = u /\ next.link = l
    <3>1. PICK l \in LinkId :
             /\ link[l].state = "active"
             /\ Continue(r, [Idle EXCEPT !.pc = "endJourney", !.user = u, !.link = l])
      BY <2>2 DEF WithdrawRead, ActiveAssignments
    <3> DEFINE next == [Idle EXCEPT !.pc = "endJourney", !.user = u, !.link = l]
    <3>2. /\ next \in Request /\ next.pc \in OnLink
          /\ next.user = u /\ next.link = l
      BY IdleFilled DEF Request, Idle, OnLink
    <3> QED BY <3>1, <3>2
  <2> QED BY <2>1, <2>2
<1>2. UNCHANGED <<account, email, vmRole, done, inv, link>>
  BY DEF RemoveRead, WithdrawRead
<1>3. FilledIn(next, inv, link)
  BY <1>1 DEF FilledIn, OnInvitation, OnLink
<1> QED BY <1>1, <1>2, <1>3, ReadStep DEF IInv, TypeOK

LEMMA DeleteAccountKeeps ==
    ASSUME IInv, NEW r \in Req, NEW u \in User, DeleteAccount(r, u)
    PROVE  IInv'
<1> DEFINE next == [Idle EXCEPT !.pc = "purge", !.user = u]
<1>1. next \in Request /\ next.pc = "purge" /\ next.user = u
  BY IdleFilled DEF Request, Idle
<1>2. Continue(r, next) /\ UNCHANGED <<vmRole, done, inv, link>>
  BY DEF DeleteAccount
<1>3. /\ account' \in [User -> {"none", "live", "deleted"}]
      /\ email' \in [User -> Address \cup {None}]
  BY DEF DeleteAccount, IInv, TypeOK
<1> HIDE DEF next
<1>4. FilledIn(next, inv, link)
  BY <1>1 DEF FilledIn, OnInvitation, OnLink
<1> QED BY <1>1, <1>2, <1>3, <1>4, ReadStep

LEMMA RegisterKeeps ==
    ASSUME IInv, NEW r \in Req, NEW u \in User, NEW a \in Address, Register(r, u, a)
    PROVE  IInv'
<1> DEFINE next == [Idle EXCEPT !.pc = "link", !.user = u, !.to = a]
<1>1. next \in Request /\ next.pc = "link" /\ next.user = u
  BY IdleFilled DEF Request, Idle
<1>2. Continue(r, next) /\ UNCHANGED <<vmRole, done, inv, link>>
  BY DEF Register
<1>3. /\ account' \in [User -> {"none", "live", "deleted"}]
      /\ email' \in [User -> Address \cup {None}]
  BY DEF Register, IInv, TypeOK
<1> HIDE DEF next
<1>4. FilledIn(next, inv, link)
  BY <1>1 DEF FilledIn, OnInvitation, OnLink
<1> QED BY <1>1, <1>2, <1>3, <1>4, ReadStep

LEMMA SendInsertKeeps ==
    ASSUME IInv, NEW r \in Req, SendInsert(r)
    PROVE  IInv'
<1>1. /\ req[r].new \in Invitation /\ req[r].new.status # "absent"
      /\ ~req[r].new.accepted
  BY RequestFacts DEF SendInsert, FilledIn, Request
<1>2. PICK i \in InvId : inv[i].status = "absent" /\ SetInv(i, req[r].new)
  BY DEF SendInsert, FreeInv
<1>3. Continue(r, Idle) /\ UNCHANGED <<account, email, vmRole, done, link>>
  BY DEF SendInsert, Finish
<1> QED BY <1>1, <1>2, <1>3, IdleFilled, InvitationStep

LEMMA ReminderMailKeeps ==
    ASSUME IInv, NEW r \in Req, ReminderMail(r)
    PROVE  IInv'
<1> DEFINE i == req[r].inv
           n == inv[i].reminders
           m == IF n < MaxReminders THEN n + 1 ELSE n
           row == [inv[i] EXCEPT !.reminders = m]
<1>1. i \in InvId /\ inv[i] \in Invitation /\ inv[i].status # "absent"
  BY RequestFacts DEF ReminderMail, OnInvitation
<1>2. m \in 0..MaxReminders
  BY <1>1, ConstantsAssumption DEF Invitation
<1>3. SetInv(i, row) /\ Goto(r, "remind") /\ UNCHANGED <<account, email, vmRole, done, link>>
  BY DEF ReminderMail
<1> HIDE DEF m
<1>4. row \in Invitation /\ SameInvitation(inv[i], row) /\ row.accepted = inv[i].accepted
  BY <1>1, <1>2 DEF Invitation, SameInvitation
<1>5. PICK next \in Request :
         /\ Continue(r, next) /\ next.pc = "remind"
         /\ next.user = req[r].user /\ next.inv = i
  BY <1>3, GotoRequest
<1>6. req[r].user \in User
  BY RequestFacts DEF ReminderMail, FilledIn
<1> HIDE DEF row
<1>7. InvGrows(inv, inv')
  BY <1>1, <1>3, <1>4, InvitationWrite
<1>8. FilledIn(next, inv', link)
  BY <1>1, <1>5, <1>6, <1>7 DEF FilledIn, OnInvitation, OnLink, InvGrows, SameInvitation
<1> HIDE DEF i
<1> QED BY <1>1, <1>3, <1>4, <1>5, <1>8, InvitationStep

(* The writes of one invitation that end their handler. *)
LEMMA LastInvitationWriteKeeps ==
    ASSUME IInv, NEW r \in Req, ReminderMark(r) \/ SettleWrite(r)
    PROVE  IInv'
<1> DEFINE i == req[r].inv
<1>1. i \in InvId /\ inv[i] \in Invitation /\ inv[i].status # "absent"
  BY RequestFacts DEF ReminderMark, SettleWrite, OnInvitation
<1>2. Continue(r, Idle) /\ UNCHANGED <<account, email, vmRole, done, link>>
  BY DEF ReminderMark, SettleWrite, Finish
<1>3. PICK row \in Invitation :
         SetInv(i, row) /\ SameInvitation(inv[i], row) /\ row.accepted = inv[i].accepted
  <2>1. CASE ReminderMark(r)
    <3> DEFINE row == [inv[i] EXCEPT !.reminded = TRUE]
    <3>1. row \in Invitation
      BY <1>1 DEF Invitation
    <3>2. /\ row.status = inv[i].status /\ row.kind = inv[i].kind
          /\ row.inviter = inv[i].inviter /\ row.to = inv[i].to
          /\ row.scope = inv[i].scope /\ row.invitee = inv[i].invitee
          /\ row.accepted = inv[i].accepted
      BY <1>1 DEF Invitation
    <3>3. SetInv(i, row)
      BY <2>1 DEF ReminderMark
    <3> HIDE DEF row, i
    <3> QED BY <1>1, <3>1, <3>2, <3>3 DEF SameInvitation
  <2>2. CASE SettleWrite(r)
    <3>1. PICK s \in {"declined", "cancelled"} : SetInv(i, [inv[i] EXCEPT !.status = s])
      BY <2>2 DEF SettleWrite, SetStatus
    <3> DEFINE row == [inv[i] EXCEPT !.status = s]
    <3>2. row \in Invitation
      BY <1>1 DEF Invitation
    <3>3. /\ row.status = s /\ row.kind = inv[i].kind
          /\ row.inviter = inv[i].inviter /\ row.to = inv[i].to
          /\ row.scope = inv[i].scope /\ row.invitee = inv[i].invitee
          /\ row.accepted = inv[i].accepted
      BY <1>1 DEF Invitation
    <3>4. SetInv(i, row)
      BY <3>1
    <3> HIDE DEF row, i
    <3> QED BY <3>2, <3>3, <3>4 DEF SameInvitation
  <2> QED BY <2>1, <2>2
<1> HIDE DEF i
<1> QED BY <1>1, <1>2, <1>3, IdleFilled, InvitationStep

LEMMA AcceptMarkKeeps ==
    ASSUME IInv, NEW r \in Req, AcceptMark(r)
    PROVE  IInv'
<1> DEFINE i == req[r].inv
           row == [inv[i] EXCEPT !.status = "accepted", !.accepted = TRUE]
<1>1. i \in InvId /\ inv[i] \in Invitation /\ inv[i].status # "absent"
  BY RequestFacts DEF AcceptMark, OnInvitation
<1>2. req[r].user \in User /\ inv[i].invitee = req[r].user
  BY RequestFacts DEF AcceptMark, FilledIn
<1>3. /\ row \in Invitation /\ SameInvitation(inv[i], row) /\ row.accepted
      /\ row.invitee = inv[i].invitee /\ inv[i].invitee # None
  BY <1>1, <1>2, ConstantsAssumption DEF Invitation, SameInvitation
<1>4. SetInv(i, row) /\ UNCHANGED <<account, email, vmRole, done, link>>
  BY DEF AcceptMark
<1>5. PICK next \in Request :
         /\ Continue(r, next)
         /\ \/ next = Idle
            \/ /\ inv[i].kind # "platform"
               /\ next.pc = "relate" /\ next.user = req[r].user /\ next.inv = i
  <2>1. CASE inv[i].kind = "platform"
    BY <2>1, IdleFilled DEF AcceptMark, Finish
  <2>2. CASE inv[i].kind # "platform"
    <3>1. Goto(r, "relate")
      BY <2>2 DEF AcceptMark
    <3> QED BY <2>2, <3>1, GotoRequest
  <2> QED BY <2>1, <2>2
<1> HIDE DEF row
<1>6. InvGrows(inv, inv') /\ inv'[i] = row
  BY <1>1, <1>3, <1>4, InvitationWrite
<1>7. FilledIn(next, inv', link)
  <2>1. CASE next = Idle
    BY <2>1, IdleFilled
  <2>2. CASE /\ inv[i].kind # "platform"
             /\ next.pc = "relate" /\ next.user = req[r].user /\ next.inv = i
    BY <1>1, <1>2, <1>3, <1>6, <2>2
       DEF FilledIn, OnInvitation, OnLink, SameInvitation
  <2> QED BY <1>5, <2>1, <2>2
<1> HIDE DEF i
<1> QED BY <1>1, <1>3, <1>4, <1>5, <1>7, InvitationStep

LEMMA AcceptRelateKeeps ==
    ASSUME IInv, NEW r \in Req, AcceptRelate(r)
    PROVE  IInv'
<1>0. req[r].inv \in InvId /\ req[r].user \in User
  BY RequestFacts DEF AcceptRelate, OnInvitation, FilledIn
<1>i. PICK i \in InvId : i = req[r].inv
  BY <1>0
<1>u. PICK u \in User : u = req[r].user
  BY <1>0
<1> DEFINE row == [state |-> "active", va |-> inv[i].inviter,
                   vm |-> u, scope |-> inv[i].scope]
<1>1. /\ inv[i] \in Invitation /\ inv[i].status # "absent" /\ inv[i].invitee = u
      /\ inv[i].accepted /\ inv[i].kind # "platform"
  BY <1>i, <1>u, RequestFacts DEF AcceptRelate, OnInvitation, FilledIn
<1>2. PICK l \in LinkId : link[l].state = "absent" /\ link' = [link EXCEPT ![l] = row]
  BY <1>i, <1>u DEF AcceptRelate, FreeLink
<1>3. Goto(r, "grant") /\ UNCHANGED <<account, email, vmRole, done, inv>>
  BY DEF AcceptRelate
<1>4. row \in Link /\ row.state # "absent"
  BY <1>1 DEF Link, Invitation
<1>5. link \in [LinkId -> Link]
  BY DEF IInv, TypeOK
<1>6. link' \in [LinkId -> Link] /\ link'[l] = row /\ LinkGrows(link, link')
  BY <1>2, <1>4, <1>5 DEF LinkGrows, SameLink
<1>7. \A k \in LinkId : link[k].state = "absent" /\ link'[k].state # "absent" => k = l
  BY <1>2, <1>5
<1>8. Forms(i, l)'
  BY <1>1, <1>3, <1>6 DEF Forms
<1>9. PICK next \in Request :
         Continue(r, next) /\ next.pc = "grant" /\ next.user = u /\ next.inv = i
  BY <1>3, <1>i, <1>u, GotoRequest
<1>10. link'[l].state # "absent" /\ link'[l].vm = u
  BY <1>6
<1> HIDE DEF row
<1>11. FilledIn(next, inv, link')
  BY <1>1, <1>9, <1>10 DEF FilledIn, OnInvitation, OnLink
<1> QED BY <1>1, <1>3, <1>6, <1>7, <1>8, <1>9, <1>11, LinkStep

LEMMA AcceptGrantKeeps ==
    ASSUME IInv, NEW r \in Req, AcceptGrant(r)
    PROVE  IInv'
<1>1. /\ req[r].user \in User
      /\ \E l \in LinkId : link[l].state # "absent" /\ link[l].vm = req[r].user
  BY RequestFacts DEF AcceptGrant, FilledIn
<1>2. /\ Continue(r, Idle) /\ UNCHANGED <<account, email, done, inv, link>>
      /\ vmRole' = vmRole \cup {req[r].user}
  BY DEF AcceptGrant, Finish
<1>3. InvGrows(inv, inv') /\ LinkGrows(link, link')
  BY <1>2, NothingGrows
<1>4. req' \in [Req -> Request] /\ RequestsFilled'
  BY <1>2, <1>3, IdleFilled, SlotStep
<1>5. LinksAreConsented' /\ AcceptedWasSent'
  BY <1>2 DEF IInv, LinksAreConsented, AcceptedWasSent, Forms
<1>6. RoleEarned'
  BY <1>1, <1>2, <1>3, GrowthKeepsRoles
<1> QED BY <1>1, <1>2, <1>4, <1>5, <1>6 DEF IInv, TypeOK

(* The two ends of a single row. *)
LEMMA EndOneKeeps ==
    ASSUME IInv, NEW r \in Req, RemoveEnd(r) \/ WithdrawEnd(r)
    PROVE  IInv'
<1> DEFINE l == req[r].link
<1>1. l \in LinkId /\ link[l] \in Link /\ link[l].state # "absent" /\ req[r].user \in User
  BY RequestFacts DEF RemoveEnd, WithdrawEnd, OnLink, FilledIn
<1>2. /\ link' = [link EXCEPT ![l].state = "ended"]
      /\ UNCHANGED <<account, email, vmRole, done, inv>>
  BY DEF RemoveEnd, WithdrawEnd
<1>3. link' = [k \in LinkId |-> IF k \in {l} THEN [link[k] EXCEPT !.state = "ended"]
                                             ELSE link[k]]
  BY <1>1, <1>2 DEF IInv, TypeOK
<1>4. PICK next \in Request :
         /\ Continue(r, next)
         /\ \/ next = Idle
            \/ next.pc = "unassign" /\ next.user = req[r].user /\ next.link = l
  <2>1. CASE Finish(r)
    BY <2>1, IdleFilled DEF Finish
  <2>2. CASE Goto(r, "unassign")
    <3> QED BY <2>2, GotoRequest
  <2> QED BY <2>1, <2>2 DEF RemoveEnd, WithdrawEnd
<1>5. FilledIn(next, inv, link)
  <2>1. CASE next = Idle
    BY <2>1, IdleFilled
  <2>2. CASE next.pc = "unassign" /\ next.user = req[r].user /\ next.link = l
    BY <1>1, <2>2 DEF FilledIn, OnInvitation, OnLink
  <2> QED BY <1>4, <2>1, <2>2
<1> HIDE DEF l
<1> QED BY <1>1, <1>2, <1>3, <1>4, <1>5, EndStep

LEMMA RemoveUnassignKeeps ==
    ASSUME IInv, NEW r \in Req, RemoveUnassign(r)
    PROVE  IInv'
<1> DEFINE S == {l \in LinkId : /\ link[l].state = "active" /\ link[l].scope # None
                                /\ link[l].vm = link[req[r].link].vm
                                /\ link[l].va = req[r].user}
<1>1. link' = [l \in LinkId |-> IF l \in S THEN [link[l] EXCEPT !.state = "ended"]
                                           ELSE link[l]]
  BY DEF RemoveUnassign
<1>2. Continue(r, Idle) /\ UNCHANGED <<account, email, vmRole, done, inv>>
  BY DEF RemoveUnassign, Finish
<1>3. S \in SUBSET LinkId /\ \A l \in S : link[l].state # "absent"
  OBVIOUS
<1> HIDE DEF S
<1> QED BY <1>1, <1>2, <1>3, IdleFilled, EndStep

(* The bulk UPDATEs of invitations: nothing is accepted by one. *)
LEMMA BulkKeeps ==
    ASSUME IInv, inv' \in [InvId -> Invitation], InvGrows(inv, inv'),
           \A i \in InvId : inv'[i].accepted => inv[i].accepted,
           account' \in [User -> {"none", "live", "deleted"}],
           email' \in [User -> Address \cup {None}],
           req' \in [Req -> Request], RequestsFilled',
           UNCHANGED <<vmRole, done, link>>
    PROVE  IInv'
<1>1. LinkGrows(link, link')
  BY NothingGrows
<1>2. LinksAreConsented' /\ RoleEarned'
  BY <1>1, GrowthKeepsConsent, GrowthKeepsRoles
<1>3. AcceptedWasSent'
  BY DEF IInv, AcceptedWasSent, InvGrows, SameInvitation
<1> QED BY <1>2, <1>3 DEF IInv, TypeOK

LEMMA BulkWrites ==
    ASSUME IInv, NEW r \in Req, DeletePurge(r) \/ LinkInvited(r)
    PROVE  /\ inv' \in [InvId -> Invitation] /\ InvGrows(inv, inv')
           /\ \A i \in InvId : inv'[i].accepted => inv[i].accepted
<1>1. inv \in [InvId -> Invitation]
  BY DEF IInv, TypeOK
<1>2. CASE DeletePurge(r)
  BY <1>1, <1>2 DEF DeletePurge, Pending, InvGrows, SameInvitation, Invitation
<1>3. CASE LinkInvited(r)
  <2>1. PICK u \in User : u = req[r].user
    BY <1>3, RequestFacts DEF LinkInvited, FilledIn
  <2>2. ASSUME NEW i \in InvId
        PROVE  /\ inv'[i] \in Invitation
               /\ inv[i].status # "absent" => SameInvitation(inv[i], inv'[i])
               /\ inv'[i].accepted => inv[i].accepted
    <3> DEFINE row == [inv[i] EXCEPT !.invitee = u]
    <3>1. inv'[i] = inv[i] \/ (inv[i].invitee = None /\ inv'[i] = row)
      BY <1>3, <2>1 DEF LinkInvited
    <3>2. inv[i] \in Invitation
      BY <1>1
    <3>3. row \in Invitation /\ row.accepted = inv[i].accepted
      BY <3>2 DEF Invitation
    <3>4. inv[i].status # "absent" /\ inv[i].invitee = None => SameInvitation(inv[i], row)
      BY <3>2 DEF Invitation, SameInvitation
    <3> HIDE DEF row
    <3> QED BY <3>1, <3>2, <3>3, <3>4 DEF SameInvitation
  <2>3. inv' = [i \in InvId |-> inv'[i]]
    BY <1>3 DEF LinkInvited
  <2> QED BY <2>2, <2>3 DEF InvGrows
<1> QED BY <1>2, <1>3

LEMMA PurgeKeeps ==
    ASSUME IInv, NEW r \in Req, DeletePurge(r) \/ LinkInvited(r)
    PROVE  IInv'
<1>1. /\ inv' \in [InvId -> Invitation] /\ InvGrows(inv, inv')
      /\ \A i \in InvId : inv'[i].accepted => inv[i].accepted
  BY BulkWrites
<1>2. Continue(r, Idle) /\ UNCHANGED <<account, email, vmRole, done, link>>
  BY DEF DeletePurge, LinkInvited, Finish
<1>3. req' \in [Req -> Request] /\ RequestsFilled'
  BY <1>1, <1>2, NothingGrows, IdleFilled, SlotStep
<1> QED BY <1>1, <1>2, <1>3, BulkKeeps DEF IInv, TypeOK

LEMMA EnvironmentKeeps ==
    ASSUME IInv, (\E u \in User, a \in Address : ChangeEmail(u, a)) \/ (\E i \in InvId : Expire(i))
    PROVE  IInv'
<1>1. inv \in [InvId -> Invitation]
  BY DEF IInv, TypeOK
<1>2. /\ inv' \in [InvId -> Invitation] /\ InvGrows(inv, inv')
      /\ \A i \in InvId : inv'[i].accepted => inv[i].accepted
  <2>1. CASE \E u \in User, a \in Address : ChangeEmail(u, a)
    BY <1>1, <2>1, NothingGrows DEF ChangeEmail
  <2>2. CASE \E i \in InvId : Expire(i)
    <3>1. PICK i \in InvId : Expire(i)
      BY <2>2
    <3> DEFINE row == [inv[i] EXCEPT !.expired = TRUE]
    <3>2. inv[i].status # "absent" /\ SetInv(i, row)
      BY <3>1 DEF Expire, Pending
    <3>3. row \in Invitation /\ SameInvitation(inv[i], row) /\ row.accepted = inv[i].accepted
      BY <1>1, <3>2 DEF Invitation, SameInvitation
    <3>4. inv' = [inv EXCEPT ![i] = row]
      BY <3>2 DEF SetInv
    <3> HIDE DEF row
    <3> QED BY <1>1, <3>2, <3>3, <3>4 DEF InvGrows, SameInvitation
  <2> QED BY <2>1, <2>2
<1>3. /\ UNCHANGED <<account, vmRole, done, link, req>>
      /\ email' \in [User -> Address \cup {None}]
  BY DEF ChangeEmail, Expire, IInv, TypeOK
<1>4. req' \in [Req -> Request] /\ RequestsFilled'
  <2>1. LinkGrows(link, link')
    BY <1>3, NothingGrows
  <2>2. ASSUME NEW q \in Req PROVE FilledIn(req'[q], inv', link')
    BY <1>2, <1>3, <2>1, GrowthKeepsFilled DEF IInv, RequestsFilled
  <2> QED BY <1>3, <2>2 DEF IInv, TypeOK, RequestsFilled
<1> QED BY <1>2, <1>3, <1>4, BulkKeeps DEF IInv, TypeOK

-----------------------------------------------------------------------------
LEMMA InitIInv == Init => IInv
<1> SUFFICES ASSUME Init PROVE IInv
  OBVIOUS
<1>1. TypeOK /\ RequestsFilled
  BY IdleFilled DEF Init, TypeOK, RequestsFilled
<1>2. AcceptedWasSent /\ LinksAreConsented /\ RoleEarned
  BY DEF Init, AcceptedWasSent, LinksAreConsented, RoleEarned, NoInvitation, NoLink
<1> QED BY <1>1, <1>2 DEF IInv

LEMMA StepIInv == IInv /\ [Next]_vars => IInv'
<1> SUFFICES ASSUME IInv, [Next]_vars PROVE IInv'
  OBVIOUS
<1>1. ASSUME NEW r \in Req, Arrive(r) PROVE IInv'
  BY <1>1, SendReadKeeps, InvitationReadKeeps, LinkReadKeeps, DeleteAccountKeeps,
     RegisterKeeps DEF Arrive
<1>2. ASSUME NEW r \in Req, Advance(r) PROVE IInv'
  BY <1>2, SendInsertKeeps, ReminderMailKeeps, LastInvitationWriteKeeps,
     AcceptMarkKeeps, AcceptRelateKeeps, AcceptGrantKeeps, EndOneKeeps,
     RemoveUnassignKeeps, PurgeKeeps DEF Advance
<1>3. ASSUME NEW r \in Req, Abort(r) PROVE IInv'
  BY <1>3, IdleFilled, ReadStep DEF Abort, Finish, IInv, TypeOK
<1>4. ASSUME NEW u \in User, NEW a \in Address, ChangeEmail(u, a) PROVE IInv'
  BY <1>4, EnvironmentKeeps
<1>5. ASSUME NEW i \in InvId, Expire(i) PROVE IInv'
  BY <1>5, EnvironmentKeeps
<1>6. ASSUME NEW j \in Journey, Complete(j) PROVE IInv'
  <2>1. done' \in SUBSET Journey /\ UNCHANGED <<account, email, vmRole, inv, link, req>>
    BY <1>6 DEF Complete, IInv, TypeOK
  <2> QED BY <2>1 DEF IInv, TypeOK, RequestsFilled, AcceptedWasSent,
                     LinksAreConsented, RoleEarned, Forms
<1>7. CASE UNCHANGED vars
  BY <1>7 DEF vars, IInv, TypeOK, RequestsFilled, AcceptedWasSent,
              LinksAreConsented, RoleEarned, Forms
<1> QED BY <1>1, <1>2, <1>3, <1>4, <1>5, <1>6, <1>7 DEF Next

LEMMA IInvCorrect == Spec => []IInv
  BY InitIInv, StepIInv, PTL DEF Spec

(* Rows and requests keep the shape the schema gives them. *)
THEOREM TypeCorrect == Spec => []TypeOK
<1>1. IInv => TypeOK
  BY DEF IInv
<1> QED BY <1>1, IInvCorrect, PTL

(* Every mentor was asked by, and said yes to, the person they mentor: no   *)
(* interleaving or death of acceptInvitation, decline, cancel, removal,     *)
(* withdrawal, signup and account deletion makes a relationship without it. *)
THEOREM Consented == Spec => []LinksAreConsented
<1>1. IInv => LinksAreConsented
  BY DEF IInv
<1> QED BY <1>1, IInvCorrect, PTL

(* The role VRATMITRA always has a relationship behind it, as the comment   *)
(* in acceptInvitation claims of a failure between its statements.          *)
THEOREM Earned == Spec => []RoleEarned
<1>1. IInv => RoleEarned
  BY DEF IInv
<1> QED BY <1>1, IInvCorrect, PTL

-----------------------------------------------------------------------------
(* What acceptInvitation has made when it answers *)

LEMMA TablesGrow ==
    ASSUME IInv, [Next]_vars PROVE InvGrows(inv, inv') /\ LinkGrows(link, link')
<1>1. inv \in [InvId -> Invitation] /\ link \in [LinkId -> Link]
  BY DEF IInv, TypeOK
<1>2. CASE UNCHANGED <<inv, link>>
  BY <1>2, NothingGrows
<1>3. ASSUME NEW r \in Req, SendInsert(r) PROVE InvGrows(inv, inv') /\ LinkGrows(link, link')
  BY <1>1, <1>3, NothingGrows DEF SendInsert, SetInv, FreeInv, InvGrows, SameInvitation
<1>4. ASSUME NEW r \in Req, ReminderMail(r) \/ ReminderMark(r) \/ AcceptMark(r) \/ SettleWrite(r)
      PROVE  InvGrows(inv, inv') /\ LinkGrows(link, link')
  <2>1. req[r].inv \in InvId /\ inv[req[r].inv] \in Invitation
    BY <1>4, RequestFacts DEF OnInvitation, ReminderMail, ReminderMark, AcceptMark, SettleWrite
  <2>2. PICK row : inv' = [inv EXCEPT ![req[r].inv] = row]
                   /\ (inv[req[r].inv].status # "absent" => SameInvitation(inv[req[r].inv], row))
    <3>1. CASE ReminderMail(r)
      <4> DEFINE n == inv[req[r].inv].reminders
                 m == IF n < MaxReminders THEN n + 1 ELSE n
                 row == [inv[req[r].inv] EXCEPT !.reminders = m]
      <4>1. inv' = [inv EXCEPT ![req[r].inv] = row]
        BY <3>1 DEF ReminderMail, SetInv
      <4> HIDE DEF m
      <4>2. inv[req[r].inv].status # "absent" => SameInvitation(inv[req[r].inv], row)
        BY <2>1 DEF Invitation, SameInvitation
      <4> QED BY <4>1, <4>2
    <3>2. CASE ReminderMark(r)
      <4> DEFINE row == [inv[req[r].inv] EXCEPT !.reminded = TRUE]
      <4>1. inv' = [inv EXCEPT ![req[r].inv] = row]
        BY <3>2 DEF ReminderMark, SetInv
      <4>2. inv[req[r].inv].status # "absent" => SameInvitation(inv[req[r].inv], row)
        BY <2>1 DEF Invitation, SameInvitation
      <4> QED BY <4>1, <4>2
    <3>3. CASE AcceptMark(r)
      <4> DEFINE row == [inv[req[r].inv] EXCEPT !.status = "accepted", !.accepted = TRUE]
      <4>1. inv' = [inv EXCEPT ![req[r].inv] = row]
        BY <3>3 DEF AcceptMark, SetInv
      <4>2. inv[req[r].inv].status # "absent" => SameInvitation(inv[req[r].inv], row)
        BY <2>1 DEF Invitation, SameInvitation
      <4> QED BY <4>1, <4>2
    <3>4. CASE SettleWrite(r)
      <4>1. PICK s \in {"declined", "cancelled"} :
               inv' = [inv EXCEPT ![req[r].inv] = [inv[req[r].inv] EXCEPT !.status = s]]
        BY <3>4 DEF SettleWrite, SetStatus, SetInv
      <4> DEFINE row == [inv[req[r].inv] EXCEPT !.status = s]
      <4>2. inv[req[r].inv].status # "absent" => SameInvitation(inv[req[r].inv], row)
        BY <2>1 DEF Invitation, SameInvitation
      <4> QED BY <4>1, <4>2
    <3> QED BY <1>4, <3>1, <3>2, <3>3, <3>4
  <2>3. UNCHANGED link
    BY <1>4 DEF ReminderMail, ReminderMark, AcceptMark, SettleWrite
  <2> QED BY <1>1, <2>1, <2>2, <2>3, NothingGrows DEF InvGrows, SameInvitation
<1>5. ASSUME NEW r \in Req, AcceptRelate(r) PROVE InvGrows(inv, inv') /\ LinkGrows(link, link')
  BY <1>1, <1>5, NothingGrows DEF AcceptRelate, FreeLink, LinkGrows, SameLink
<1>6. ASSUME NEW r \in Req, RemoveEnd(r) \/ RemoveUnassign(r) \/ WithdrawEnd(r)
      PROVE  InvGrows(inv, inv') /\ LinkGrows(link, link')
  <2>1. UNCHANGED inv
    BY <1>6 DEF RemoveEnd, RemoveUnassign, WithdrawEnd
  <2>2. ASSUME NEW l \in LinkId, link[l].state # "absent" PROVE SameLink(link[l], link'[l])
    <3>1. link[l] \in Link
      BY <1>1
    <3>2. link'[l] = link[l] \/ link'[l] = [link[l] EXCEPT !.state = "ended"]
      BY <1>1, <1>6 DEF RemoveEnd, RemoveUnassign, WithdrawEnd
    <3> QED BY <2>2, <3>1, <3>2 DEF SameLink, Link
  <2> QED BY <2>1, <2>2, NothingGrows DEF LinkGrows
<1>7. ASSUME NEW r \in Req, DeletePurge(r) \/ LinkInvited(r)
      PROVE  InvGrows(inv, inv') /\ LinkGrows(link, link')
  <2>1. UNCHANGED link
    BY <1>7 DEF DeletePurge, LinkInvited
  <2> QED BY <1>7, <2>1, BulkWrites, NothingGrows
<1>8. ASSUME (\E u \in User, a \in Address : ChangeEmail(u, a)) \/ (\E i \in InvId : Expire(i))
      PROVE  InvGrows(inv, inv') /\ LinkGrows(link, link')
  <2>1. UNCHANGED link
    BY <1>8 DEF ChangeEmail, Expire
  <2>2. ASSUME NEW i \in InvId, inv[i].status # "absent" PROVE SameInvitation(inv[i], inv'[i])
    <3>1. inv[i] \in Invitation
      BY <1>1
    <3>2. \/ inv'[i] = inv[i]
          \/ inv'[i] = [inv[i] EXCEPT !.expired = TRUE]
      BY <1>1, <1>8 DEF ChangeEmail, Expire, SetInv
    <3> QED BY <2>2, <3>1, <3>2 DEF SameInvitation, Invitation
  <2> QED BY <2>1, <2>2, NothingGrows DEF InvGrows
<1>9. ASSUME NEW r \in Req, Arrive(r) \/ AcceptGrant(r) \/ Abort(r)
      PROVE  UNCHANGED <<inv, link>>
  BY <1>9, ArriveReads DEF AcceptGrant, Abort
<1>10. (\E j \in Journey : Complete(j)) \/ UNCHANGED vars => UNCHANGED <<inv, link>>
  BY DEF Complete, vars
<1>11. ASSUME NEW r \in Req, Advance(r) PROVE InvGrows(inv, inv') /\ LinkGrows(link, link')
  BY <1>2, <1>3, <1>4, <1>5, <1>6, <1>7, <1>9, <1>11 DEF Advance
<1> QED BY <1>2, <1>8, <1>9, <1>10, <1>11 DEF Next

(* Whoever is about to be granted the role has their relationship. *)
RelatedFirst ==
    \A r \in Req : req[r].pc = "grant" =>
        \E l \in LinkId : link[l].state # "absent" /\ Forms(req[r].inv, l)

LEMMA StillForms ==
    ASSUME IInv, InvGrows(inv, inv'), LinkGrows(link, link'),
           NEW i \in InvId, inv[i].status # "absent", inv[i].invitee # None,
           \E l \in LinkId : link[l].state # "absent" /\ Forms(i, l)
    PROVE  \E l \in LinkId :
              /\ link'[l].state # "absent" /\ inv'[i].kind # "platform"
              /\ link'[l].va = inv'[i].inviter /\ link'[l].vm = inv'[i].invitee
              /\ link'[l].scope = inv'[i].scope
  BY DEF Forms, InvGrows, LinkGrows, SameInvitation, SameLink

LEMMA StepRelated == IInv /\ RelatedFirst /\ [Next]_vars => RelatedFirst'
<1> SUFFICES ASSUME IInv, RelatedFirst, [Next]_vars, NEW q \in Req, req'[q].pc = "grant"
             PROVE  \E l \in LinkId :
                       /\ link'[l].state # "absent" /\ inv'[req'[q].inv].kind # "platform"
                       /\ link'[l].va = inv'[req'[q].inv].inviter
                       /\ link'[l].vm = inv'[req'[q].inv].invitee
                       /\ link'[l].scope = inv'[req'[q].inv].scope
  BY DEF RelatedFirst, Forms
<1>1. CASE req'[q] = req[q]
  <2>1. /\ req[q].inv \in InvId /\ inv[req[q].inv].status # "absent"
        /\ inv[req[q].inv].invitee # None
    BY <1>1, RequestFacts, ConstantsAssumption DEF OnInvitation, FilledIn
  <2> QED BY <1>1, <2>1, TablesGrow, StillForms DEF RelatedFirst
<1>2. CASE AcceptRelate(q)
  <2>1. PICK l \in FreeLink :
           link' = [link EXCEPT ![l] = [state |-> "active", va |-> inv[req[q].inv].inviter,
                                        vm |-> req[q].user, scope |-> inv[req[q].inv].scope]]
    BY <1>2 DEF AcceptRelate
  <2>2. l \in LinkId /\ link \in [LinkId -> Link]
    BY <2>1 DEF FreeLink, IInv, TypeOK
  <2>3. /\ req[q] \in Request /\ UNCHANGED inv
        /\ inv[req[q].inv].invitee = req[q].user /\ inv[req[q].inv].kind # "platform"
    BY <1>2, RequestFacts DEF AcceptRelate, FilledIn
  <2>4. req' = [req EXCEPT ![q] = [req[q] EXCEPT !.pc = "grant"]] /\ req \in [Req -> Request]
    BY <1>2 DEF AcceptRelate, Goto, Continue, IInv, TypeOK
  <2>5. req'[q].inv = req[q].inv
    BY <2>3, <2>4 DEF Request
  <2> QED BY <2>1, <2>2, <2>3, <2>5
<1>3. req'[q] = req[q] \/ AcceptRelate(q)
  <2>1. req \in [Req -> Request]
    BY DEF IInv, TypeOK
  <2>2. ASSUME NEW r \in Req, Arrive(r) PROVE req'[q] = req[q]
    <3>1. \E next : req' = [req EXCEPT ![r] = next] /\ next.pc # "grant"
      <4>1. ASSUME NEW u \in User, NEW a \in Address, NEW kind \in Kind,
                   NEW scope \in Journey \cup {None}, SendRead(r, u, a, kind, scope)
            PROVE  \E next : req' = [req EXCEPT ![r] = next] /\ next.pc # "grant"
        BY <4>1, SendReadNew DEF Continue
      <4>2. ASSUME NEW u \in User, NEW i \in InvId,
                   ReminderRead(r, u, i) \/ AcceptRead(r, u, i)
                      \/ DeclineRead(r, u, i) \/ CancelRead(r, u, i)
            PROVE  \E next : req' = [req EXCEPT ![r] = next] /\ next.pc # "grant"
        <5>1. PICK pc \in {"mail", "mark", "decline", "cancel"} :
                 Continue(r, [Idle EXCEPT !.pc = pc, !.user = u, !.inv = i])
          BY <4>2 DEF ReminderRead, AcceptRead, DeclineRead, CancelRead
        <5>2. [Idle EXCEPT !.pc = pc, !.user = u, !.inv = i].pc # "grant"
          BY DEF Idle
        <5> QED BY <5>1, <5>2 DEF Continue
      <4>3. ASSUME NEW u \in User, NEW cascade \in BOOLEAN, RemoveRead(r, u, cascade)
            PROVE  \E next : req' = [req EXCEPT ![r] = next] /\ next.pc # "grant"
        <5>1. PICK l \in LinkId :
                 Continue(r, [Idle EXCEPT !.pc = "endGlobal", !.user = u, !.link = l,
                                          !.unassign = cascade])
          BY <4>3 DEF RemoveRead, ActiveGlobalOf
        <5>2. [Idle EXCEPT !.pc = "endGlobal", !.user = u, !.link = l,
                           !.unassign = cascade].pc # "grant"
          BY DEF Idle
        <5> QED BY <5>1, <5>2 DEF Continue
      <4>4. ASSUME NEW u \in User, NEW j \in Journey, WithdrawRead(r, u, j)
            PROVE  \E next : req' = [req EXCEPT ![r] = next] /\ next.pc # "grant"
        <5>1. PICK l \in LinkId :
                 Continue(r, [Idle EXCEPT !.pc = "endJourney", !.user = u, !.link = l])
          BY <4>4 DEF WithdrawRead, ActiveAssignments
        <5>2. [Idle EXCEPT !.pc = "endJourney", !.user = u, !.link = l].pc # "grant"
          BY DEF Idle
        <5> QED BY <5>1, <5>2 DEF Continue
      <4>5. ASSUME NEW u \in User, DeleteAccount(r, u)
            PROVE  \E next : req' = [req EXCEPT ![r] = next] /\ next.pc # "grant"
        <5>1. [Idle EXCEPT !.pc = "purge", !.user = u].pc # "grant"
          BY DEF Idle
        <5> QED BY <4>5, <5>1 DEF DeleteAccount, Continue
      <4>6. ASSUME NEW u \in User, NEW a \in Address, Register(r, u, a)
            PROVE  \E next : req' = [req EXCEPT ![r] = next] /\ next.pc # "grant"
        <5>1. [Idle EXCEPT !.pc = "link", !.user = u, !.to = a].pc # "grant"
          BY DEF Idle
        <5> QED BY <4>6, <5>1 DEF Register, Continue
      <4> QED BY <2>2, <4>1, <4>2, <4>3, <4>4, <4>5, <4>6 DEF Arrive
    <3> QED BY <2>1, <3>1
  <2>3. ASSUME NEW r \in Req, Advance(r) \/ Abort(r), ~AcceptRelate(r) PROVE req'[q] = req[q]
    <3>1. Idle.pc # "grant" /\ \A pc \in {"relate", "remind", "unassign"} :
                                 [req[r] EXCEPT !.pc = pc].pc # "grant"
      BY <2>1 DEF Idle, Request
    <3>2. \E next : req' = [req EXCEPT ![r] = next] /\ next.pc # "grant"
      BY <2>3, <3>1 DEF Advance, Abort, SendInsert, ReminderMail, ReminderMark, AcceptMark,
         AcceptGrant, SettleWrite, RemoveEnd, RemoveUnassign, WithdrawEnd, DeletePurge,
         LinkInvited, Finish, Goto, Continue
    <3> QED BY <2>1, <3>2
  <2>4. ASSUME NEW r \in Req, AcceptRelate(r), r # q PROVE req'[q] = req[q]
    BY <2>1, <2>4 DEF AcceptRelate, Goto, Continue
  <2> QED BY <2>2, <2>3, <2>4 DEF Next, ChangeEmail, Expire, Complete, vars
<1> QED BY <1>1, <1>2, <1>3

(* Whatever raced with the three statements of acceptInvitation, when it    *)
(* answers the relationship the invitation was for is there, and the        *)
(* invitee holds the role.                                                  *)
THEOREM Related == Spec => AcceptedMeansRelated
<1>1. Init => RelatedFirst
  BY IdleFilled DEF Init, RelatedFirst
<1>2. ASSUME IInv, RelatedFirst, [Next]_vars, NEW r \in Req, NEW i \in InvId,
             req[r].inv = i, AcceptGrant(r)
      PROVE  /\ inv'[i].invitee \in vmRole'
             /\ \E l \in LinkId : link'[l].state # "absent" /\ Forms(i, l)'
  <2>1. FilledIn(req[r], inv, link) /\ req[r].pc = "grant"
    BY <1>2, RequestFacts DEF AcceptGrant
  <2>2. inv[i].invitee = req[r].user
    BY <1>2, <2>1 DEF FilledIn
  <2>3. PICK l \in LinkId : link[l].state # "absent" /\ Forms(i, l)
    BY <1>2, <2>1 DEF RelatedFirst
  <2> QED BY <1>2, <2>2, <2>3 DEF AcceptGrant, Forms
<1>3. IInv /\ RelatedFirst /\ [Next]_vars =>
         [\A r \in Req, i \in InvId :
             req[r].inv = i /\ AcceptGrant(r) =>
                /\ inv'[i].invitee \in vmRole'
                /\ \E l \in LinkId : link'[l].state # "absent" /\ Forms(i, l)']_vars
  BY <1>2
<1> QED BY <1>1, <1>3, IInvCorrect, StepRelated, PTL DEF Spec, AcceptedMeansRelated

-----------------------------------------------------------------------------
(* What the journeys may rely on *)

(* Nobody but the owner asks, or is about to ask, for somebody's help with a *)
(* journey; and every invitation goes to an address.                        *)
OwnScope(x) ==
    /\ x.to \in Address
    /\ x.scope # None => x.inviter = OwnerOf[x.scope]

OwnersAsk ==
    /\ \A i \in InvId : inv[i].status # "absent" => OwnScope(inv[i])
    /\ \A r \in Req : req[r].pc = "insert" => OwnScope(req[r].new)

(* So a relationship for a journey is its owner's: it was asked for. *)
LEMMA LinksOwned ==
    ASSUME IInv, OwnersAsk, NEW l \in LinkId, link[l].state # "absent", link[l].scope # None
    PROVE  link[l].va = OwnerOf[link[l].scope]
<1>1. PICK i \in InvId : inv[i].accepted /\ Forms(i, l)
  BY DEF IInv, LinksAreConsented
<1>2. inv[i].status # "absent"
  BY <1>1 DEF IInv, AcceptedWasSent
<1> QED BY <1>1, <1>2 DEF OwnersAsk, OwnScope, Forms

(* The other first steps: nothing is written but an account that is closed  *)
(* or opened.                                                               *)
OtherRead(r, u) ==
    \/ \E i \in InvId : ReminderRead(r, u, i) \/ AcceptRead(r, u, i)
                           \/ DeclineRead(r, u, i) \/ CancelRead(r, u, i)
    \/ \E cascade \in BOOLEAN : RemoveRead(r, u, cascade)
    \/ \E j \in Journey : WithdrawRead(r, u, j)
    \/ DeleteAccount(r, u)
    \/ \E a \in Address : Register(r, u, a)

LEMMA OtherReads ==
    ASSUME IInv, NEW r \in Req, NEW u \in User, OtherRead(r, u)
    PROVE  /\ UNCHANGED inv /\ CanStart
           /\ \E next : req' = [req EXCEPT ![r] = next] /\ next.pc # "insert"
           /\ \A p \in User : account[p] = "live" /\ ~DeleteAccount(r, u) => account'[p] = "live"
<1> USE DEF OtherRead
<1>1. UNCHANGED inv /\ CanStart
  BY DEF ReminderRead, AcceptRead, DeclineRead, CancelRead, RemoveRead, WithdrawRead,
         DeleteAccount, Register, Starts
<1>2. \E next : req' = [req EXCEPT ![r] = next] /\ next.pc # "insert"
  <2>1. CASE \E i \in InvId : ReminderRead(r, u, i) \/ AcceptRead(r, u, i)
                                  \/ DeclineRead(r, u, i) \/ CancelRead(r, u, i)
    <3>1. PICK i \in InvId, pc \in {"mail", "mark", "decline", "cancel"} :
             Continue(r, [Idle EXCEPT !.pc = pc, !.user = u, !.inv = i])
      BY <2>1 DEF ReminderRead, AcceptRead, DeclineRead, CancelRead
    <3>2. [Idle EXCEPT !.pc = pc, !.user = u, !.inv = i].pc # "insert"
      BY DEF Idle
    <3> QED BY <3>1, <3>2 DEF Continue
  <2>2. CASE \E cascade \in BOOLEAN : RemoveRead(r, u, cascade)
    <3>1. PICK cascade \in BOOLEAN, l \in LinkId :
             Continue(r, [Idle EXCEPT !.pc = "endGlobal", !.user = u, !.link = l,
                                      !.unassign = cascade])
      BY <2>2 DEF RemoveRead, ActiveGlobalOf
    <3>2. [Idle EXCEPT !.pc = "endGlobal", !.user = u, !.link = l,
                       !.unassign = cascade].pc # "insert"
      BY DEF Idle
    <3> QED BY <3>1, <3>2 DEF Continue
  <2>3. CASE \E j \in Journey : WithdrawRead(r, u, j)
    <3>1. PICK l \in LinkId :
             Continue(r, [Idle EXCEPT !.pc = "endJourney", !.user = u, !.link = l])
      BY <2>3 DEF WithdrawRead, ActiveAssignments
    <3>2. [Idle EXCEPT !.pc = "endJourney", !.user = u, !.link = l].pc # "insert"
      BY DEF Idle
    <3> QED BY <3>1, <3>2 DEF Continue
  <2>4. CASE DeleteAccount(r, u)
    <3>1. [Idle EXCEPT !.pc = "purge", !.user = u].pc # "insert"
      BY DEF Idle
    <3> QED BY <2>4, <3>1 DEF DeleteAccount, Continue
  <2>5. CASE \E a \in Address : Register(r, u, a)
    <3>1. PICK a \in Address : Continue(r, [Idle EXCEPT !.pc = "link", !.user = u, !.to = a])
      BY <2>5 DEF Register
    <3>2. [Idle EXCEPT !.pc = "link", !.user = u, !.to = a].pc # "insert"
      BY DEF Idle
    <3> QED BY <3>1, <3>2 DEF Continue
  <2> QED BY <2>1, <2>2, <2>3, <2>4, <2>5
<1>3. \A p \in User : account[p] = "live" /\ ~DeleteAccount(r, u) => account'[p] = "live"
  BY DEF ReminderRead, AcceptRead, DeclineRead, CancelRead, RemoveRead, WithdrawRead,
         Register, IInv, TypeOK
<1> QED BY <1>1, <1>2, <1>3

(* The statements of a handler on its way: none but the insert of a send    *)
(* makes a row of an invitation, and none is followed by such an insert.    *)
LEMMA AdvanceInsertsNot ==
    ASSUME IInv, NEW r \in Req, Advance(r) \/ Abort(r), ~SendInsert(r)
    PROVE  /\ \A i \in InvId : inv[i].status = "absent" => inv'[i].status = "absent"
           /\ \E next : req' = [req EXCEPT ![r] = next] /\ next.pc # "insert"
<1>1. /\ req[r] \in Request /\ FilledIn(req[r], inv, link)
      /\ inv \in [InvId -> Invitation]
  BY RequestFacts DEF IInv, TypeOK
<1>2. Idle.pc # "insert" /\ \A pc \in {"relate", "grant", "remind", "unassign"} :
                               [req[r] EXCEPT !.pc = pc].pc # "insert"
  BY <1>1 DEF Idle, Request
<1>3. \E next : req' = [req EXCEPT ![r] = next] /\ next.pc # "insert"
  BY <1>2 DEF Advance, Abort, ReminderMail, ReminderMark, AcceptMark, AcceptRelate,
     AcceptGrant, SettleWrite, RemoveEnd, RemoveUnassign, WithdrawEnd, DeletePurge,
     LinkInvited, Finish, Goto, Continue
<1>4. CASE UNCHANGED inv
  BY <1>3, <1>4
<1>5. CASE DeletePurge(r) \/ LinkInvited(r)
  <2>1. \A i \in InvId : inv[i].status = "absent" => inv'[i].status = "absent"
    BY <1>1, <1>5 DEF DeletePurge, LinkInvited, Pending
  <2> QED BY <1>3, <2>1
<1>6. CASE ReminderMail(r) \/ ReminderMark(r) \/ AcceptMark(r) \/ SettleWrite(r)
  <2>1. inv[req[r].inv].status # "absent"
    BY <1>6, RequestFacts DEF ReminderMail, ReminderMark, AcceptMark, SettleWrite, OnInvitation
  <2>2. \E row : inv' = [inv EXCEPT ![req[r].inv] = row]
    BY <1>6 DEF ReminderMail, ReminderMark, AcceptMark, SettleWrite, SetStatus, SetInv
  <2>3. \A i \in InvId : i # req[r].inv => inv'[i] = inv[i]
    BY <1>1, <2>2
  <2> QED BY <1>3, <2>1, <2>3
<1> QED BY <1>4, <1>5, <1>6
     DEF Advance, Abort, AcceptRelate, AcceptGrant, RemoveEnd, RemoveUnassign, WithdrawEnd

(* A change of address, and time. *)
Environment ==
    \/ \E u \in User, a \in Address : ChangeEmail(u, a)
    \/ \E i \in InvId : Expire(i)
    \/ \E j \in Journey : Complete(j)

LEMMA EnvironmentInsertsNot ==
    ASSUME IInv, Environment
    PROVE  /\ \A i \in InvId : inv[i].status = "absent" => inv'[i].status = "absent"
           /\ UNCHANGED req
<1>1. inv \in [InvId -> Invitation]
  BY DEF IInv, TypeOK
<1>2. CASE \E u \in User, a \in Address : ChangeEmail(u, a)
  BY <1>2 DEF ChangeEmail
<1>3. CASE \E i \in InvId : Expire(i)
  <2>1. PICK k \in InvId : Expire(k)
    BY <1>3
  <2>2. inv[k].status = "pending" /\ UNCHANGED req /\ \E row : inv' = [inv EXCEPT ![k] = row]
    BY <2>1 DEF Expire, Pending, SetInv
  <2>3. \A i \in InvId : i # k => inv'[i] = inv[i]
    BY <1>1, <2>2
  <2> QED BY <2>2, <2>3
<1>4. CASE \E j \in Journey : Complete(j)
  BY <1>4 DEF Complete
<1> QED BY <1>2, <1>3, <1>4 DEF Environment

LEMMA SendReadAsks ==
    ASSUME NEW r \in Req, NEW u \in User, NEW a \in Address, NEW kind \in Kind,
           NEW scope \in Journey \cup {None}, SendRead(r, u, a, kind, scope)
    PROVE  \E next : req' = [req EXCEPT ![r] = next] /\ OwnScope(next.new)
<1>1. PICK next : /\ Continue(r, next) /\ next.new.inviter = u
                  /\ next.new.to = a /\ next.new.scope = scope
  BY SendReadNew
<1>2. scope # None => u = OwnerOf[scope]
  BY DEF SendRead
<1> QED BY <1>1, <1>2 DEF OwnScope, Continue

(* A row that exists keeps what it is about, so only new ones matter. *)
LEMMA StepOwners == IInv /\ OwnersAsk /\ [Next]_vars => OwnersAsk'
<1> SUFFICES ASSUME IInv, OwnersAsk, [Next]_vars PROVE OwnersAsk'
  OBVIOUS
<1>1. inv \in [InvId -> Invitation] /\ req \in [Req -> Request]
  BY DEF IInv, TypeOK
<1>2. \A i \in InvId : inv[i].status # "absent" => OwnScope(inv'[i])
  BY TablesGrow DEF InvGrows, SameInvitation, OwnersAsk, OwnScope
<1>3. ASSUME \A i \in InvId : inv[i].status = "absent" => inv'[i].status = "absent",
             \A r \in Req : req'[r].pc = "insert" => req'[r] = req[r]
      PROVE  OwnersAsk'
  BY <1>2, <1>3 DEF OwnersAsk
<1>4. ASSUME NEW r \in Req, Arrive(r) PROVE OwnersAsk'
  <2>1. UNCHANGED inv
    BY <1>4, ArriveReads
  <2>2. PICK next : req' = [req EXCEPT ![r] = next] /\ (next.pc = "insert" => OwnScope(next.new))
    <3>1. PICK u \in User :
             \/ \E a \in Address, kind \in Kind, scope \in Journey \cup {None} :
                   SendRead(r, u, a, kind, scope)
             \/ OtherRead(r, u)
      BY <1>4 DEF Arrive, OtherRead
    <3>2. CASE OtherRead(r, u)
      BY <3>2, OtherReads
    <3>3. CASE \E a \in Address, kind \in Kind, scope \in Journey \cup {None} :
                  SendRead(r, u, a, kind, scope)
      BY <3>3, SendReadAsks
    <3> QED BY <3>1, <3>2, <3>3
  <2>3. \A q \in Req : req'[q].pc = "insert" => OwnScope(req'[q].new)
    BY <1>1, <2>2 DEF OwnersAsk
  <2> QED BY <2>1, <2>3 DEF OwnersAsk
<1>5. ASSUME NEW r \in Req, SendInsert(r) PROVE OwnersAsk'
  <2>1. OwnScope(req[r].new)
    BY <1>5 DEF SendInsert, OwnersAsk
  <2>2. PICK i \in InvId : inv' = [inv EXCEPT ![i] = req[r].new]
    BY <1>5 DEF SendInsert, SetInv, FreeInv
  <2>3. \A k \in InvId : inv'[k].status # "absent" => OwnScope(inv'[k])
    BY <1>1, <2>1, <2>2 DEF OwnersAsk
  <2>4. \A q \in Req : req'[q].pc = "insert" => req'[q] = req[q]
    BY <1>1, <1>5 DEF SendInsert, Finish, Continue, Idle
  <2> QED BY <2>3, <2>4 DEF OwnersAsk
<1>6. ASSUME NEW r \in Req, Advance(r) \/ Abort(r), ~SendInsert(r) PROVE OwnersAsk'
  <2>1. \A q \in Req : req'[q].pc = "insert" => req'[q] = req[q]
    BY <1>1, <1>6, AdvanceInsertsNot
  <2> QED BY <1>3, <1>6, <2>1, AdvanceInsertsNot
<1>7. CASE Environment
  BY <1>3, <1>7, EnvironmentInsertsNot
<1>8. CASE UNCHANGED vars
  BY <1>3, <1>8 DEF vars
<1> QED BY <1>4, <1>5, <1>6, <1>7, <1>8 DEF Next, Environment

-----------------------------------------------------------------------------
(* What the items of a journey may rely on *)

(* Relationships are with people. *)
LinksNamed == \A l \in LinkId : link[l].state # "absent" => link[l].vm \in User

(* Whose step it is that changes a relationship. *)
LEMMA LinkChanges ==
    ASSUME [Next]_vars
    PROVE  \/ UNCHANGED link
           \/ \E r \in Req : AcceptRelate(r) \/ RemoveEnd(r) \/ RemoveUnassign(r) \/ WithdrawEnd(r)
<1>1. ASSUME NEW r \in Req, Arrive(r) PROVE UNCHANGED link
  BY <1>1, ArriveReads
<1>2. ASSUME NEW r \in Req, Advance(r)
      PROVE  \/ UNCHANGED link
             \/ AcceptRelate(r) \/ RemoveEnd(r) \/ RemoveUnassign(r) \/ WithdrawEnd(r)
  BY <1>2 DEF Advance, SendInsert, ReminderMail, ReminderMark, AcceptMark, AcceptGrant,
              SettleWrite, DeletePurge, LinkInvited
<1>3. ASSUME NEW r \in Req, Abort(r) PROVE UNCHANGED link
  BY <1>3 DEF Abort
<1> QED BY <1>1, <1>2, <1>3 DEF Next, ChangeEmail, Expire, Complete, vars

(* The row that acceptInvitation inserts. *)
LEMMA RelateInserts ==
    ASSUME IInv, NEW r \in Req, AcceptRelate(r)
    PROVE  \E l \in LinkId, a \in User \cup {None}, v \in User, s \in Journey \cup {None} :
              /\ link[l].state = "absent"
              /\ link' = [link EXCEPT ![l] = [state |-> "active", va |-> a, vm |-> v, scope |-> s]]
<1>1. PICK l \in FreeLink :
         link' = [link EXCEPT ![l] = [state |-> "active", va |-> inv[req[r].inv].inviter,
                                      vm |-> req[r].user, scope |-> inv[req[r].inv].scope]]
  BY DEF AcceptRelate
<1>2. l \in LinkId /\ link[l].state = "absent"
  BY DEF FreeLink
<1>3. req[r].pc = "relate" /\ FilledIn(req[r], inv, link) /\ inv[req[r].inv] \in Invitation
  BY RequestFacts DEF AcceptRelate, OnInvitation
<1>4. /\ req[r].user \in User /\ inv[req[r].inv].inviter \in User \cup {None}
      /\ inv[req[r].inv].scope \in Journey \cup {None}
  BY <1>3 DEF FilledIn, Invitation
<1> QED BY <1>1, <1>2, <1>4

LEMMA StepNamed == IInv /\ LinksNamed /\ [Next]_vars => LinksNamed'
<1> SUFFICES ASSUME IInv, LinksNamed, [Next]_vars, NEW l \in LinkId, link'[l].state # "absent"
             PROVE  link'[l].vm \in User
  BY DEF LinksNamed
<1>1. link \in [LinkId -> Link]
  BY DEF IInv, TypeOK
<1>2. CASE link[l].state # "absent"
  BY <1>2, TablesGrow DEF LinkGrows, SameLink, LinksNamed
<1>3. CASE link[l].state = "absent"
  <2>1. PICK r \in Req : AcceptRelate(r) \/ RemoveEnd(r) \/ RemoveUnassign(r) \/ WithdrawEnd(r)
    BY <1>3, LinkChanges
  <2>2. CASE AcceptRelate(r)
    BY <1>1, <1>3, <2>2, RelateInserts
  <2>3. CASE RemoveEnd(r) \/ WithdrawEnd(r)
    <3>1. req[r].link \in LinkId /\ link[req[r].link].state # "absent"
      BY <2>3, RequestFacts DEF RemoveEnd, WithdrawEnd, OnLink
    <3>2. link'[l] = link[l]
      BY <1>1, <1>3, <2>3, <3>1 DEF RemoveEnd, WithdrawEnd
    <3> QED BY <1>3, <3>2
  <2>4. CASE RemoveUnassign(r)
    BY <1>3, <2>4 DEF RemoveUnassign
  <2> QED BY <2>1, <2>2, <2>3, <2>4
<1> QED BY <1>2, <1>3

(* Relationships of v end, in one of the two tables. *)
LEMMA EndMentors ==
    ASSUME IInv, LinksNamed, NEW CONSTANT j \in Journey, NEW v \in User, NEW S \in SUBSET LinkId,
           link' = [l \in LinkId |-> IF l \in S THEN [link[l] EXCEPT !.state = "ended"]
                                                ELSE link[l]],
           \A l \in S : link[l].state = "active" => link[l].vm = v,
           \/ \A l \in S : link[l].state = "active" => link[l].scope = None
           \/ \A l \in S : link[l].state = "active" => link[l].scope # None
    PROVE  [MentoringOf(j)!Next]_(MentoringOf(j)!vars)
<1> DEFINE A == AssignedTo(j)
           G == GlobalsOf(OwnerOf[j])
<1>1. \A l \in LinkId : /\ l \in S => link'[l].state = "ended"
                        /\ l \notin S => link'[l] = link[l]
  BY DEF IInv, TypeOK, Link
<1>2. j # None
  BY ConstantsAssumption
<1>3. A' \subseteq A /\ A \ {v} \subseteq A'
  BY <1>1 DEF AssignedTo
<1>4. G' \subseteq G /\ G \ {v} \subseteq G'
  BY <1>1 DEF GlobalsOf, ActiveGlobalOf
<1>5. (\A l \in S : link[l].state = "active" => link[l].scope = None) => A' = A
  BY <1>1, <1>2 DEF AssignedTo
<1>6. (\A l \in S : link[l].state = "active" => link[l].scope # None) => G' = G
  BY <1>1 DEF GlobalsOf, ActiveGlobalOf
<1> HIDE DEF A, G
<1>7. \/ A' = A /\ G' = G
      \/ v \in A /\ A' = A \ {v} /\ G' = G
      \/ v \in G /\ G' = G \ {v} /\ A' = A
  BY <1>3, <1>4, <1>5, <1>6
<1> QED BY <1>7 DEF A, G, MentoringOf!Next, MentoringOf!vars, MentoringOf!Unassign,
                   MentoringOf!GlobalEnd

(* One relationship begins. *)
LEMMA BeginMentors ==
    ASSUME IInv, NEW CONSTANT j \in Journey, NEW l \in LinkId, link[l].state = "absent",
           NEW a \in User \cup {None}, NEW v \in User, NEW s \in Journey \cup {None},
           link' = [link EXCEPT ![l] = [state |-> "active", va |-> a, vm |-> v, scope |-> s]]
    PROVE  [MentoringOf(j)!Next]_(MentoringOf(j)!vars)
<1> DEFINE A == AssignedTo(j)
           G == GlobalsOf(OwnerOf[j])
<1>1. /\ link'[l].state = "active" /\ link'[l].va = a
      /\ link'[l].vm = v /\ link'[l].scope = s
      /\ \A k \in LinkId \ {l} : link'[k] = link[k]
  BY DEF IInv, TypeOK
<1>2. j # None
  BY ConstantsAssumption
<1>3. A' = IF s = j THEN A \cup {v} ELSE A
  BY <1>1 DEF AssignedTo
<1>4. G' = IF s = None /\ a = OwnerOf[j] THEN G \cup {v} ELSE G
  BY <1>1 DEF GlobalsOf, ActiveGlobalOf
<1> HIDE DEF A, G
<1>5. \/ A' = A /\ G' = G
      \/ v \notin A /\ A' = A \cup {v} /\ G' = G
      \/ v \notin G /\ G' = G \cup {v} /\ A' = A
  BY <1>2, <1>3, <1>4
<1> QED BY <1>5 DEF A, G, MentoringOf!Next, MentoringOf!vars, MentoringOf!Assign,
                   MentoringOf!GlobalBegin

LEMMA MentoringStep ==
    ASSUME IInv, LinksNamed, [Next]_vars, NEW CONSTANT j \in Journey
    PROVE  [MentoringOf(j)!Next]_(MentoringOf(j)!vars)
<1>1. CASE UNCHANGED link
  BY <1>1 DEF MentoringOf!vars, AssignedTo, GlobalsOf, ActiveGlobalOf
<1>2. ASSUME NEW r \in Req, AcceptRelate(r)
      PROVE  [MentoringOf(j)!Next]_(MentoringOf(j)!vars)
  BY <1>2, RelateInserts, BeginMentors
<1>3. ASSUME NEW r \in Req, RemoveEnd(r) \/ RemoveUnassign(r) \/ WithdrawEnd(r)
      PROVE  [MentoringOf(j)!Next]_(MentoringOf(j)!vars)
  <2> DEFINE v == link[req[r].link].vm
  <2>1. req[r].link \in LinkId /\ v \in User /\ link \in [LinkId -> Link]
    BY <1>3, RequestFacts DEF RemoveEnd, RemoveUnassign, WithdrawEnd, OnLink, LinksNamed,
                              IInv, TypeOK
  <2>2. CASE RemoveEnd(r) \/ WithdrawEnd(r)
    <3> DEFINE S == {req[r].link}
    <3>1. link' = [l \in LinkId |-> IF l \in S THEN [link[l] EXCEPT !.state = "ended"]
                                               ELSE link[l]]
      BY <2>1, <2>2 DEF RemoveEnd, WithdrawEnd
    <3>2. /\ S \in SUBSET LinkId /\ \A l \in S : link[l].vm = v
          /\ (\A l \in S : link[l].scope = None) \/ (\A l \in S : link[l].scope # None)
      BY <2>1
    <3> HIDE DEF S, v
    <3> QED BY <2>1, <3>1, <3>2, EndMentors
  <2>3. CASE RemoveUnassign(r)
    <3> DEFINE S == {l \in LinkId : /\ link[l].state = "active" /\ link[l].scope # None
                                    /\ link[l].vm = v /\ link[l].va = req[r].user}
    <3>1. link' = [l \in LinkId |-> IF l \in S THEN [link[l] EXCEPT !.state = "ended"]
                                               ELSE link[l]]
      BY <2>3 DEF RemoveUnassign
    <3>2. \A l \in S : link[l].vm = v /\ link[l].scope # None
      OBVIOUS
    <3> HIDE DEF S, v
    <3>3. S \in SUBSET LinkId
      BY DEF S
    <3> QED BY <2>1, <3>1, <3>2, <3>3, EndMentors
  <2> QED BY <1>3, <2>2, <2>3
<1> QED BY <1>1, <1>2, <1>3, LinkChanges

(* The same steps as Journeys sees them. *)
LEMMA EndRelates ==
    ASSUME IInv, NEW v \in User, NEW S \in SUBSET LinkId, UNCHANGED done,
           link' = [l \in LinkId |-> IF l \in S THEN [link[l] EXCEPT !.state = "ended"]
                                                ELSE link[l]],
           \A l \in S : link[l].state = "active" => link[l].vm = v,
           \A k, l \in S : link[k].scope \in Journey /\ link[l].scope \in Journey =>
                              OwnerOf[link[k].scope] = OwnerOf[link[l].scope]
    PROVE  [\E u \in User : OfJourneys!Relate(u)]_Assigned
<1>1. \A l \in LinkId : /\ l \in S => link'[l].state = "ended"
                        /\ l \notin S => link'[l] = link[l]
  BY DEF IInv, TypeOK, Link
<1>2. \A j \in Journey : /\ AssignedTo(j)' \subseteq AssignedTo(j)
                        /\ AssignedTo(j) \ {v} \subseteq AssignedTo(j)'
  BY <1>1 DEF AssignedTo
<1> DEFINE js == {j \in Journey : v \in AssignedTo(j) /\ v \notin AssignedTo(j)'}
<1>3. \A j \in Journey : AssignedTo(j)' = IF j \in js THEN AssignedTo(j) \ {v} ELSE AssignedTo(j)
  BY <1>2
<1>4. \A j, k \in js : OwnerOf[j] = OwnerOf[k]
  <2>1. ASSUME NEW j \in js PROVE \E l \in S : link[l].scope = j
    BY <1>1, <2>1 DEF AssignedTo
  <2> QED BY <2>1
<1>5. js \in SUBSET Journey /\ \A j \in js : v \in AssignedTo(j)
  OBVIOUS
<1> HIDE DEF js
<1>6. Assigned' = [j \in Journey |-> IF j \in js THEN Assigned[j] \ {v} ELSE Assigned[j]]
  BY <1>3 DEF Assigned
<1>7. CASE js = {}
  <2>1. Assigned' = Assigned
    BY <1>3, <1>7 DEF Assigned
  <2> QED BY <2>1
<1>8. CASE js # {}
  <2>1. OfJourneys!Unassign(js, v)
    BY <1>4, <1>5, <1>6, <1>8 DEF OfJourneys!Unassign, OfJourneys!CanStart, Rows, Assigned
  <2> QED BY <1>5, <2>1 DEF OfJourneys!Relate
<1> QED BY <1>7, <1>8

LEMMA BeginRelates ==
    ASSUME IInv, NEW l \in LinkId, link[l].state = "absent", UNCHANGED done,
           NEW a \in User \cup {None}, NEW v \in User, NEW s \in Journey \cup {None},
           link' = [link EXCEPT ![l] = [state |-> "active", va |-> a, vm |-> v, scope |-> s]]
    PROVE  [\E u \in User : OfJourneys!Relate(u)]_Assigned
<1>1. /\ link'[l].state = "active" /\ link'[l].vm = v /\ link'[l].scope = s
      /\ \A k \in LinkId \ {l} : link'[k] = link[k]
  BY DEF IInv, TypeOK
<1>2. \A j \in Journey : AssignedTo(j)' = IF j = s THEN AssignedTo(j) \cup {v} ELSE AssignedTo(j)
  BY <1>1 DEF AssignedTo
<1>3. CASE s \notin Journey \/ v \in AssignedTo(s)
  <2>1. Assigned' = Assigned
    BY <1>2, <1>3 DEF Assigned
  <2> QED BY <2>1
<1>4. CASE s \in Journey /\ v \notin AssignedTo(s)
  <2>1. Assigned' = [Assigned EXCEPT ![s] = @ \cup {v}]
    BY <1>2, <1>4 DEF Assigned
  <2>2. OfJourneys!Assign(s, v)
    BY <1>4, <2>1 DEF OfJourneys!Assign, OfJourneys!CanStart, OfJourneys!Exists, Rows, Assigned
  <2> QED BY <1>4, <2>2 DEF OfJourneys!Relate
<1> QED BY <1>3, <1>4

LEMMA RelateStep ==
    ASSUME IInv, LinksNamed, OwnersAsk, [Next]_vars
    PROVE  [\E v \in User : OfJourneys!Relate(v)]_Assigned
<1>1. CASE UNCHANGED link
  BY <1>1 DEF Assigned, AssignedTo
<1>2. ASSUME NEW r \in Req, AcceptRelate(r)
      PROVE  [\E v \in User : OfJourneys!Relate(v)]_Assigned
  <2>1. UNCHANGED done
    BY <1>2 DEF AcceptRelate
  <2> QED BY <1>2, <2>1, RelateInserts, BeginRelates
<1>3. ASSUME NEW r \in Req, RemoveEnd(r) \/ RemoveUnassign(r) \/ WithdrawEnd(r)
      PROVE  [\E v \in User : OfJourneys!Relate(v)]_Assigned
  <2> DEFINE v == link[req[r].link].vm
  <2>1. /\ req[r].link \in LinkId /\ v \in User /\ link \in [LinkId -> Link] /\ UNCHANGED done
    BY <1>3, RequestFacts DEF RemoveEnd, RemoveUnassign, WithdrawEnd, OnLink, LinksNamed,
                              IInv, TypeOK
  <2>2. CASE RemoveEnd(r) \/ WithdrawEnd(r)
    <3> DEFINE S == {req[r].link}
    <3>1. link' = [l \in LinkId |-> IF l \in S THEN [link[l] EXCEPT !.state = "ended"]
                                               ELSE link[l]]
      BY <2>1, <2>2 DEF RemoveEnd, WithdrawEnd
    <3>2. /\ S \in SUBSET LinkId /\ \A l \in S : link[l].vm = v
          /\ \A k, l \in S : OwnerOf[link[k].scope] = OwnerOf[link[l].scope]
      BY <2>1
    <3> HIDE DEF S, v
    <3> QED BY <2>1, <3>1, <3>2, EndRelates
  <2>3. CASE RemoveUnassign(r)
    <3> DEFINE S == {l \in LinkId : /\ link[l].state = "active" /\ link[l].scope # None
                                    /\ link[l].vm = v /\ link[l].va = req[r].user}
    <3>1. link' = [l \in LinkId |-> IF l \in S THEN [link[l] EXCEPT !.state = "ended"]
                                               ELSE link[l]]
      BY <2>3 DEF RemoveUnassign
    <3>2. S \in SUBSET LinkId /\ \A l \in S : link[l].vm = v
      OBVIOUS
    <3>3. \A l \in S : OwnerOf[link[l].scope] = req[r].user
      BY LinksOwned
    <3> HIDE DEF S, v
    <3> QED BY <2>1, <3>1, <3>2, <3>3, EndRelates
  <2> QED BY <1>3, <2>2, <2>3
<1> QED BY <1>1, <1>2, <1>3, LinkChanges

(* Whatever handlers race and whichever of them die, the vratmitras of each *)
(* journey and of its owner come and go one at a time, and leave several    *)
(* journeys at once only if these are of one owner: the items of a journey  *)
(* and the journeys themselves rely on no more.                             *)
THEOREM Mentored == Spec => ImplementsMentoring
<1>1. Init => /\ LinksNamed /\ OwnersAsk
              /\ \A j \in Journey : MentoringOf(j)!Init
  BY IdleFilled DEF Init, LinksNamed, OwnersAsk, MentoringOf!Init, AssignedTo, GlobalsOf,
     ActiveGlobalOf, NoLink, NoInvitation
<1>2. IInv /\ LinksNamed /\ OwnersAsk /\ [Next]_vars =>
         [/\ \A j \in Journey : [MentoringOf(j)!Next]_(MentoringOf(j)!vars)
          /\ [\E v \in User : OfJourneys!Relate(v)]_Assigned]_vars
  BY MentoringStep, RelateStep
<1> QED BY <1>1, <1>2, IInvCorrect, StepNamed, StepOwners, PTL DEF Spec, ImplementsMentoring

(* The same of one journey, whichever it is: its vratmitras are an          *)
(* implementation of the specification Mentoring.                           *)
THEOREM OneJourneyMentored ==
    ASSUME NEW CONSTANT j \in Journey PROVE Spec => MentoringOf(j)!Spec
<1>1. Init => LinksNamed /\ MentoringOf(j)!Init
  BY DEF Init, LinksNamed, MentoringOf!Init, AssignedTo, GlobalsOf, ActiveGlobalOf, NoLink
<1>2. IInv /\ LinksNamed /\ [Next]_vars => [MentoringOf(j)!Next]_(MentoringOf(j)!vars)
  BY MentoringStep
<1> QED BY <1>1, <1>2, IInvCorrect, StepNamed, PTL DEF Spec, MentoringOf!Spec
=============================================================================
