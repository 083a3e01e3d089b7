------------------------- MODULE CredentialsProofs --------------------------
(***************************************************************************)
(* Machine-checked theorems about Credentials, for every set of sessions,  *)
(* links and requests, with failures.                                      *)
(***************************************************************************)
EXTENDS Credentials, FiniteSetTheorems, TLAPS

-----------------------------------------------------------------------------
(* The inductive invariant *)

SignedOp == {"logout", "change", "reauth", "selfDelete", "emailChange"}

(* FirstStep is defined for whoever is about to take it. *)
Routed(q) == q.pc = "touch" => q.op \in SignedOp

Revokes(q) == q.pc = "sweep" \/ (q.op = "reset" /\ q.pc \in {"mark", "verify"})

Old(row) == row # NoSession /\ row.old

(* A session has its one action if and only if its proof is unspent. *)
Credited(row) == row # NoSession => row.credit = (IF row.reauth THEN 1 ELSE 0)

IInv ==
    /\ TypeOK
    /\ \A r \in Req : Routed(req[r])
    /\ \A s \in Session : Credited(session[s])
    /\ SessionsAreRevoked

LEMMA ProofsFollow == IInv => OneActionPerProof
  BY ConstantsAssumption DEF IInv, TypeOK, Credited, OneActionPerProof, Live

(* SessionsAreRevoked, row by row and request by request. *)
LEMMA RevokedMeans ==
    SessionsAreRevoked <=>
        ((\E s \in Session : Old(session[s])) =>
             (\E r \in Req : Revokes(req[r])) \/ ghost.abandoned)
  BY ConstantsAssumption DEF SessionsAreRevoked, Revoking, Revokes, Old, Live, At

LEMMA RevokedMeansNext ==
    SessionsAreRevoked' <=>
        ((\E s \in Session : Old(session'[s])) =>
             (\E r \in Req : Revokes(req'[r])) \/ ghost'.abandoned)
  BY ConstantsAssumption DEF SessionsAreRevoked, Revoking, Revokes, Old, Live, At

-----------------------------------------------------------------------------
(* What every step of a request amounts to *)

NoneOlder ==
    \A s \in Session : Old(session'[s]) => Old(session[s])

LEMMA StepKeeps ==
    ASSUME IInv, NEW r \in Req, NEW q \in Request, req' = [req EXCEPT ![r] = q], Routed(q),
           account' \in Account, session' \in [Session -> Row \cup {NoSession}],
           token' \in [Token -> Link], lockout' \in Lockout, ghost' \in Ghost,
           \A s \in Session : Credited(session'[s]),
           \/ \A s \in Session : session'[s] = NoSession
           \/ Revokes(q)
           \/ ghost'.abandoned
           \/ ~Revokes(req[r]) /\ NoneOlder /\ ghost'.abandoned = ghost.abandoned
    PROVE  IInv'
<1>1. /\ req \in [Req -> Request] /\ req' \in [Req -> Request]
      /\ req'[r] = q /\ \A p \in Req \ {r} : req'[p] = req[p]
  BY DEF IInv, TypeOK
<1>2. TypeOK'
  BY <1>1 DEF TypeOK
<1>3. \A p \in Req : Routed(req'[p])
  BY <1>1 DEF IInv
<1>4. SessionsAreRevoked'
  <2> SUFFICES ASSUME NEW s \in Session, Old(session'[s])
               PROVE  (\E p \in Req : Revokes(req'[p])) \/ ghost'.abandoned
    BY RevokedMeansNext
  <2>1. CASE Revokes(q) \/ ghost'.abandoned
    BY <2>1, <1>1
  <2>2. CASE ~Revokes(req[r]) /\ NoneOlder /\ ghost'.abandoned = ghost.abandoned
    <3>1. (\E p \in Req : Revokes(req[p])) \/ ghost.abandoned
      BY <2>2, RevokedMeans DEF IInv, NoneOlder
    <3> QED BY <2>2, <3>1, <1>1
  <2> QED BY <2>1, <2>2 DEF Old
<1> QED BY <1>2, <1>3, <1>4 DEF IInv, Routed

(* The same, of a step that leaves the sessions alone. *)
LEMMA QuietKeeps ==
    ASSUME IInv, NEW r \in Req, NEW q \in Request, req' = [req EXCEPT ![r] = q], Routed(q),
           account' \in Account, UNCHANGED session,
           token' \in [Token -> Link], lockout' \in Lockout, ghost' \in Ghost,
           \/ Revokes(q)
           \/ ghost'.abandoned
           \/ ~Revokes(req[r]) /\ ghost'.abandoned = ghost.abandoned
    PROVE  IInv'
<1>1. /\ session' \in [Session -> Row \cup {NoSession}]
      /\ (\A s \in Session : Credited(session'[s])) /\ NoneOlder
  BY DEF IInv, TypeOK, NoneOlder
<1> QED BY <1>1, StepKeeps

LEMMA IdleType == Idle \in Request /\ Routed(Idle) /\ ~Revokes(Idle)
  BY ConstantsAssumption DEF Idle, Request, Link, Routed, Revokes

Pc == {"idle", "count", "lock", "clear", "insert", "invalidate", "issue",
       "owner", "password", "mark", "verify", "sweep", "end", "touch", "current", "prove",
       "consume", "stamp", "anonymise", "forget", "suspend", "unsuspend"}

(* A request that goes on, and one that becomes another one. *)
LEMMA MovedType ==
    ASSUME NEW q \in Request, NEW pc \in Pc
    PROVE  /\ [q EXCEPT !.pc = pc] \in Request
           /\ [q EXCEPT !.pc = pc].pc = pc /\ [q EXCEPT !.pc = pc].op = q.op
  BY DEF Request, Pc

LEMMA FreshType ==
    ASSUME NEW op \in Op, NEW pc \in Pc
    PROVE  /\ [Idle EXCEPT !.op = op, !.pc = pc] \in Request
           /\ [Idle EXCEPT !.op = op, !.pc = pc].pc = pc
           /\ [Idle EXCEPT !.op = op, !.pc = pc].op = op
  BY ConstantsAssumption DEF Idle, Request, Link, Pc

LEMMA Types ==
    ASSUME IInv
    PROVE  /\ account \in Account /\ session \in [Session -> Row \cup {NoSession}]
           /\ token \in [Token -> Link] /\ lockout \in Lockout /\ ghost \in Ghost
           /\ req \in [Req -> Request] /\ \A r \in Req : req[r] \in Request
           /\ \A s \in Session : Credited(session[s])
  BY DEF IInv, TypeOK

-----------------------------------------------------------------------------
(* Requests that begin *)

LEMMA BeginKeeps ==
    ASSUME IInv, NEW r \in Req, NEW q \in Request, Routed(q), req[r].pc = "idle",
           req' = [req EXCEPT ![r] = q], UNCHANGED <<account, session, token, lockout, ghost>>
    PROVE  IInv'
<1>1. ~Revokes(req[r])
  BY DEF Revokes
<1> QED BY <1>1, QuietKeeps, Types

LEMMA StartsKeeps ==
    ASSUME IInv, NEW r \in Req, NEW op \in Op, NEW pc \in Pc \ {"touch"}, Starts(r, op, pc),
           UNCHANGED <<account, session, token, lockout, ghost>>
    PROVE  IInv'
<1> DEFINE q == [Idle EXCEPT !.op = op, !.pc = pc]
<1>1. q \in Request /\ q.pc = pc
  BY FreshType
<1>2. Routed(q)
  BY <1>1 DEF Routed
<1>3. req[r].pc = "idle" /\ req' = [req EXCEPT ![r] = q]
  BY DEF Starts
<1> HIDE DEF q
<1> QED BY <1>1, <1>2, <1>3, BeginKeeps

LEMMA AnonymousKeeps == ASSUME IInv, NEW r \in Req, Anonymous(r) PROVE IInv'
<1>2. ASSUME NEW right \in BOOLEAN, Login(r, right) PROVE IInv'
  BY <1>2, StartsKeeps DEF Login, Op, Pc
<1>3. CASE GoogleLogin(r)
  BY <1>3, StartsKeeps DEF GoogleLogin, Op, Pc
<1>4. ASSUME NEW for \in {"VERIFY", "RESET"}, Ask(r, for) PROVE IInv'
  <2>1. /\ [Idle EXCEPT !.op = "ask", !.pc = "invalidate", !.for = for] \in Request
        /\ Routed([Idle EXCEPT !.op = "ask", !.pc = "invalidate", !.for = for])
    BY ConstantsAssumption DEF Idle, Request, Link, Op, Routed
  <2> QED BY <1>4, <2>1, BeginKeeps DEF Ask
<1>5. ASSUME NEW op \in Op, NEW pc \in Pc \ {"touch"}, NEW k \in Token, StartsFrom(r, op, pc, k),
             UNCHANGED <<account, session, token, lockout, ghost>>
      PROVE  IInv'
  <2> DEFINE q == [Idle EXCEPT !.op = op, !.pc = pc, !.k = k, !.row = account.row]
  <2>1. q \in Request /\ Routed(q)
    BY <1>5, Types, ConstantsAssumption DEF Account, Idle, Request, Link, Pc, Routed
  <2> QED BY <1>5, <2>1, BeginKeeps DEF StartsFrom
<1>6. ASSUME NEW k \in Token, VerifyEmail(r, k) \/ ResetPassword(r, k) PROVE IInv'
  BY <1>5, <1>6 DEF VerifyEmail, ResetPassword, Op, Pc
<1> QED BY <1>2, <1>3, <1>4, <1>6 DEF Anonymous

LEMMA SignedKeeps == ASSUME IInv, NEW r \in Req, Signed(r) PROVE IInv'
<1>1. PICK s \in Session, op \in SignedOp : Validate(r, s, op)
  BY DEF Signed, SignedOp
<1>2. PICK pc \in {"touch", "end"} : StartsWith(r, op, pc, s)
  BY <1>1 DEF Validate
<1> DEFINE q == [Idle EXCEPT !.op = op, !.pc = pc, !.s = s]
<1>3. q \in Request /\ Routed(q)
  BY ConstantsAssumption DEF Idle, Request, Link, Op, SignedOp, Routed
<1> QED BY <1>1, <1>2, <1>3, BeginKeeps DEF StartsWith, Validate

LEMMA AdministerKeeps ==
    ASSUME IInv, NEW r \in Req,
           NEW op \in {"suspend", "unsuspend", "forceLogout", "anonymise"}, Administer(r, op)
    PROVE  IInv'
<1>1. PICK pc \in Pc \ {"touch"} : Starts(r, op, pc)
  BY DEF Administer, Pc
<1> QED BY <1>1, StartsKeeps DEF Administer, Op

-----------------------------------------------------------------------------
(* Steps that leave the sessions alone *)

(* A step of a request that goes to pc; of one that is done; of one that    *)
(* becomes another.                                                        *)
LEMMA GotoKeeps ==
    ASSUME IInv, NEW r \in Req, NEW pc \in Pc, Goto(r, pc),
           pc = "touch" => req[r].op \in SignedOp,
           account' \in Account, UNCHANGED <<session, ghost>>,
           token' \in [Token -> Link], lockout' \in Lockout,
           Revokes(req[r]) => pc = "sweep" \/ (req[r].op = "reset" /\ pc \in {"mark", "verify"})
    PROVE  IInv'
<1> DEFINE q == [req[r] EXCEPT !.pc = pc]
<1>1. q \in Request /\ q.pc = pc /\ q.op = req[r].op
  BY Types, MovedType
<1>2. req' = [req EXCEPT ![r] = q]
  BY Types DEF Goto
<1> HIDE DEF q
<1>3. Routed(q) /\ (Revokes(req[r]) => Revokes(q))
  BY <1>1 DEF Routed, Revokes
<1> QED BY <1>1, <1>2, <1>3, QuietKeeps, Types

LEMMA FinishKeeps ==
    ASSUME IInv, NEW r \in Req, Finish(r), ~Revokes(req[r]),
           account' \in Account, UNCHANGED session, ghost'.abandoned = ghost.abandoned,
           token' \in [Token -> Link], lockout' \in Lockout, ghost' \in Ghost
    PROVE  IInv'
  BY IdleType, QuietKeeps DEF Finish

LEMMA BecomeKeeps ==
    ASSUME IInv, NEW r \in Req, NEW op \in Op, NEW pc \in Pc \ {"touch"},
           req' = [req EXCEPT ![r] = [Idle EXCEPT !.op = op, !.pc = pc]],
           account' \in Account, UNCHANGED session, ghost'.abandoned = ghost.abandoned,
           token' \in [Token -> Link], lockout' \in Lockout, ghost' \in Ghost,
           Revokes(req[r]) => pc = "sweep"
    PROVE  IInv'
<1> DEFINE q == [Idle EXCEPT !.op = op, !.pc = pc]
<1>1. q \in Request /\ q.pc = pc /\ q.op = op
  BY FreshType
<1>2. req' = [req EXCEPT ![r] = q]
  OBVIOUS
<1> HIDE DEF q
<1>3. Routed(q) /\ (Revokes(req[r]) => Revokes(q))
  BY <1>1 DEF Routed, Revokes
<1> QED BY <1>1, <1>2, <1>3, QuietKeeps

LEMMA CountKeeps == ASSUME IInv, NEW r \in Req, Count(r) PROVE IInv'
<1>1. ~Revokes(req[r])
  BY DEF Count, At, Revokes
<1>2. lockout' \in Lockout /\ ghost' \in Ghost /\ ghost'.abandoned = ghost.abandoned
  BY Types, ConstantsAssumption DEF Count, Lockout, Ghost
<1>3. CASE Finish(r)
  BY <1>1, <1>2, <1>3, FinishKeeps, Types DEF Count
<1>4. CASE Goto(r, "lock")
  <2> DEFINE q == [req[r] EXCEPT !.pc = "lock"]
  <2>1. q \in Request /\ q.pc = "lock"
    <3>1. req[r] \in Request /\ "lock" \in Pc
      BY Types DEF Pc
    <3> QED BY <3>1, MovedType
  <2>2. req' = [req EXCEPT ![r] = q]
    BY <1>4, Types DEF Goto
  <2> HIDE DEF q
  <2> QED BY <1>1, <1>2, <2>1, <2>2, QuietKeeps, Types DEF Count, Routed
<1> QED BY <1>3, <1>4 DEF Count

LEMMA LockKeeps == ASSUME IInv, NEW r \in Req, Lock(r) PROVE IInv'
<1>1. ~Revokes(req[r]) /\ lockout' \in Lockout
  BY Types DEF Lock, At, Revokes, Lockout
<1> QED BY <1>1, FinishKeeps, Types DEF Lock

LEMMA ClearKeeps == ASSUME IInv, NEW r \in Req, Clear(r) PROVE IInv'
<1>1. ~Revokes(req[r])
  BY DEF Clear, At, Revokes
<1>2. lockout' \in Lockout
  BY ConstantsAssumption DEF Clear, NoLockout, Lockout
<1>3. ghost' \in Ghost /\ ghost'.abandoned = ghost.abandoned
  BY Types DEF Clear, Ghost
<1> QED BY <1>1, <1>2, <1>3, BecomeKeeps, Types DEF Clear, SignIn, Op, Pc

LEMMA LinkStepKeeps ==
    ASSUME IInv, NEW r \in Req, Invalidate(r) \/ (\E k \in Token : Issue(r, k)) PROVE IInv'
<1>1. ~Revokes(req[r]) \/ Invalidate(r)
  BY DEF Issue, At, Revokes
<1>2. CASE Invalidate(r)
  <2>1. token' \in [Token -> Link] /\ ~Revokes(req[r])
    BY <1>2, Types DEF Invalidate, Link, At, Revokes
  <2> QED BY <1>2, <2>1, GotoKeeps, Types DEF Invalidate, Pc
<1>3. ASSUME NEW k \in Token, Issue(r, k) PROVE IInv'
  <2>1. req[r].for \in Link
    BY Types DEF Request
  <2>2. token' \in [Token -> Link] /\ ~Revokes(req[r])
    BY <1>3, <2>1, Types DEF Issue, At, Revokes
  <2> QED BY <1>3, <2>2, FinishKeeps, Types DEF Issue
<1> QED BY <1>2, <1>3

LEMMA FindOwnerKeeps == ASSUME IInv, NEW r \in Req, FindOwner(r) PROVE IInv'
<1>1. ~Revokes(req[r])
  BY DEF FindOwner, At, Revokes
<1> QED BY <1>1, FinishKeeps, GotoKeeps, Types DEF FindOwner, Pc

LEMMA MarkUsedKeeps == ASSUME IInv, NEW r \in Req, MarkUsed(r) PROVE IInv'
<1>1. token' \in [Token -> Link]
  BY Types DEF MarkUsed, Link
<1>2. Revokes(req[r]) => req[r].op = "reset"
  BY DEF MarkUsed, At, Revokes
<1> QED BY <1>1, <1>2, GotoKeeps, Types DEF MarkUsed, Pc

LEMMA MarkVerifiedKeeps == ASSUME IInv, NEW r \in Req, MarkVerified(r) PROVE IInv'
<1>1. account' \in Account
  BY Types DEF MarkVerified, Account
<1>2. CASE req[r].op = "reset"
  BY <1>1, <1>2, BecomeKeeps, Types DEF MarkVerified, ForceLogout, Op, Pc
<1>3. CASE req[r].op # "reset"
  <2>1. ~Revokes(req[r])
    BY <1>3 DEF MarkVerified, At, Revokes
  <2> QED BY <1>1, <1>3, <2>1, FinishKeeps, Types DEF MarkVerified
<1> QED BY <1>2, <1>3

LEMMA TouchKeeps == ASSUME IInv, NEW r \in Req, Touch(r) PROVE IInv'
<1>1. ~Revokes(req[r]) /\ req[r].op \in SignedOp
  BY DEF Touch, At, Revokes, IInv, Routed
<1>2. FirstStep(req[r].op) \in Pc \ {"touch"}
  BY <1>1 DEF FirstStep, SignedOp, Pc
<1> QED BY <1>1, <1>2, FinishKeeps, GotoKeeps, Types DEF Touch

LEMMA ReadCurrentKeeps ==
    ASSUME IInv, NEW r \in Req, NEW right \in BOOLEAN, ReadCurrent(r, right) PROVE IInv'
<1>1. ~Revokes(req[r])
  BY DEF ReadCurrent, At, Revokes
<1>2. CASE right
  <2> DEFINE q == [req[r] EXCEPT !.pc = "password", !.row = TRUE]
  <2>1. q \in Request /\ q.pc = "password"
    BY Types DEF Request
  <2>2. req' = [req EXCEPT ![r] = q]
    BY <1>2, Types DEF ReadCurrent
  <2> HIDE DEF q
  <2> QED BY <1>1, <2>1, <2>2, QuietKeeps, Types DEF ReadCurrent, Routed
<1> QED BY <1>1, <1>2, FinishKeeps, Types DEF ReadCurrent

LEMMA AuthorisedMeans ==
    ASSUME NEW r \in Req, Authorised(r)
    PROVE  Goto(r, "anonymise") \/ Finish(r)
  BY DEF Authorised

LEMMA ProveKeeps ==
    ASSUME IInv, NEW r \in Req, NEW right \in BOOLEAN, Prove(r, right) PROVE IInv'
<1>1. ~Revokes(req[r])
  BY DEF Prove, At, Revokes
<1> QED BY <1>1, AuthorisedMeans, FinishKeeps, GotoKeeps, Types DEF Prove, Pc

LEMMA SuspensionKeeps == ASSUME IInv, NEW r \in Req, Unsuspend(r) \/ Anonymise(r) PROVE IInv'
<1>1. ~Revokes(req[r]) /\ account' \in Account
  BY Types DEF Unsuspend, Anonymise, Account, At, Revokes
<1> QED BY <1>1, FinishKeeps, GotoKeeps, Types DEF Unsuspend, Anonymise, Pc

-----------------------------------------------------------------------------
(* Steps that write sessions *)

LEMMA SessionType ==
    ASSUME NEW row \in Row
    PROVE  /\ row # NoSession
           /\ [row EXCEPT !.old = TRUE] \in Row
           /\ [row EXCEPT !.old = TRUE].reauth = row.reauth
           /\ [row EXCEPT !.old = TRUE].credit = row.credit
<1>1. row.state = "live" /\ NoSession.state = "none"
  BY DEF Row, NoSession
<1>2. row # NoSession
  BY <1>1
<1> QED BY <1>2 DEF Row

(* One row is written, and is no older than it was. *)
LEMMA WriteKeeps ==
    ASSUME IInv, NEW r \in Req, NEW q \in Request, req' = [req EXCEPT ![r] = q], Routed(q),
           NEW s \in Session, NEW row \in Row \cup {NoSession},
           session' = [session EXCEPT ![s] = row], Credited(row),
           Old(row) => Old(session[s]), ~Revokes(req[r]),
           UNCHANGED <<account, token, lockout, ghost>>
    PROVE  IInv'
<1>1. /\ session' \in [Session -> Row \cup {NoSession}]
      /\ session'[s] = row /\ \A x \in Session \ {s} : session'[x] = session[x]
  BY Types
<1>2. (\A x \in Session : Credited(session'[x])) /\ NoneOlder
  BY <1>1, Types DEF NoneOlder
<1> QED BY <1>1, <1>2, StepKeeps, Types

LEMMA CreateSessionKeeps ==
    ASSUME IInv, NEW r \in Req, NEW s \in Session, CreateSession(r, s) PROVE IInv'
<1>1. ~Revokes(req[r])
  BY DEF CreateSession, At, Revokes
<1>2. NewSession \in Row /\ Credited(NewSession) /\ ~Old(NewSession)
  BY DEF NewSession, Row, Credited, Old
<1> QED BY <1>1, <1>2, WriteKeeps, IdleType DEF CreateSession, Finish

(* Every session ages, and the request is on its way to revoke them. *)
LEMMA AgeingKeeps ==
    ASSUME IInv, NEW r \in Req, NEW q \in Request, req' = [req EXCEPT ![r] = q],
           Routed(q), Revokes(q), SessionsAge, account' \in Account,
           UNCHANGED <<token, lockout, ghost>>
    PROVE  IInv'
<1>1. ASSUME NEW s \in Session
      PROVE  session'[s] \in Row \cup {NoSession} /\ Credited(session'[s])
  <2>1. CASE session[s] = NoSession
    BY <2>1 DEF SessionsAge, Live, Credited
  <2>2. CASE session[s] # NoSession
    <3>1. session[s] \in Row /\ s # None
      BY <2>2, Types, ConstantsAssumption
    <3>2. session'[s] = [session[s] EXCEPT !.old = TRUE]
      BY <2>2, <3>1 DEF SessionsAge, Live
    <3> QED BY <2>2, <3>1, <3>2, SessionType, Types DEF Credited
  <2> QED BY <2>1, <2>2
<1>2. session' \in [Session -> Row \cup {NoSession}]
  BY <1>1 DEF SessionsAge
<1> QED BY <1>1, <1>2, StepKeeps, Types

LEMMA WritePasswordKeeps == ASSUME IInv, NEW r \in Req, WritePassword(r) PROVE IInv'
<1>1. ~Revokes(req[r])
  BY DEF WritePassword, At, Revokes
<1>2. CASE ~req[r].row /\ account.row
  BY <1>1, <1>2, FinishKeeps, Types DEF WritePassword
<1>3. CASE ~(~req[r].row /\ account.row)
  <2> DEFINE pc == IF req[r].op = "reset" THEN "mark" ELSE "sweep"
             q == [req[r] EXCEPT !.pc = pc]
  <2>1. account' \in Account
    BY <1>3, Types DEF WritePassword, Account
  <2>2. pc \in Pc /\ req[r] \in Request
    BY Types DEF Pc
  <2>3. q \in Request /\ q.pc = pc /\ q.op = req[r].op
    BY <2>2, MovedType
  <2>4. Routed(q) /\ Revokes(q)
    BY <2>3 DEF Routed, Revokes
  <2>5. req' = [req EXCEPT ![r] = q]
    BY <1>3, Types DEF WritePassword, Goto
  <2> HIDE DEF q
  <2> QED BY <1>3, <2>1, <2>3, <2>4, <2>5, AgeingKeeps DEF WritePassword
<1> QED BY <1>2, <1>3

LEMMA AgedKeeps ==
    ASSUME IInv, NEW r \in Req, ForceLogout(r), SessionsAge, account' \in Account,
           UNCHANGED <<token, lockout, ghost>>
    PROVE  IInv'
<1> DEFINE q == [Idle EXCEPT !.op = "forceLogout", !.pc = "sweep"]
<1>1. "forceLogout" \in Op /\ "sweep" \in Pc
  BY DEF Op, Pc
<1>2. q \in Request /\ q.pc = "sweep"
  BY <1>1, FreshType
<1>3. req' = [req EXCEPT ![r] = q]
  BY DEF ForceLogout
<1> HIDE DEF q
<1> QED BY <1>2, <1>3, AgeingKeeps DEF Routed, Revokes

LEMMA SuspendKeeps == ASSUME IInv, NEW r \in Req, Suspend(r) \/ Forget(r) PROVE IInv'
<1>1. account' \in Account
  BY Types DEF Suspend, Forget, Account
<1> QED BY <1>1, AgedKeeps DEF Suspend, Forget

LEMMA SweepKeeps == ASSUME IInv, NEW r \in Req, Sweep(r) PROVE IInv'
<1>1. \A s \in Session : session'[s] = NoSession
  BY DEF Sweep, Swept
<1>2. /\ session' \in [Session -> Row \cup {NoSession}]
      /\ \A s \in Session : Credited(session'[s])
  BY <1>1 DEF Sweep, Credited
<1>3. ghost' \in Ghost
  BY Types DEF Sweep, Ghost
<1>4. PICK q \in Request : req' = [req EXCEPT ![r] = q] /\ Routed(q)
  <2>1. CASE Finish(r)
    BY <2>1, IdleType DEF Finish
  <2>2. CASE SignIn(r)
    <3> DEFINE q == [Idle EXCEPT !.op = "login", !.pc = "insert"]
    <3>1. "login" \in Op /\ "insert" \in Pc
      BY DEF Op, Pc
    <3>2. q \in Request /\ q.pc = "insert"
      BY <3>1, FreshType
    <3>3. req' = [req EXCEPT ![r] = q]
      BY <2>2 DEF SignIn
    <3> HIDE DEF q
    <3> QED BY <3>2, <3>3 DEF Routed
  <2> QED BY <2>1, <2>2 DEF Sweep
<1> QED BY <1>1, <1>2, <1>3, <1>4, StepKeeps, Types DEF Sweep

LEMMA EndSessionKeeps == ASSUME IInv, NEW r \in Req, EndSession(r) PROVE IInv'
<1>1. ~Revokes(req[r])
  BY DEF EndSession, At, Revokes
<1>2. CASE req[r].s \in Session
  BY <1>1, <1>2, WriteKeeps, IdleType DEF EndSession, Finish, Credited, Old
<1>3. CASE req[r].s \notin Session
  BY <1>1, <1>3, FinishKeeps, Types DEF EndSession
<1> QED BY <1>2, <1>3

(* A session that has just proved who it is, and one that has used its proof. *)
LEMMA ProvedType ==
    ASSUME NEW row \in Row
    PROVE  /\ [row EXCEPT !.reauth = TRUE, !.credit = 1] \in Row
           /\ [row EXCEPT !.reauth = TRUE, !.credit = 1].credit = 1
           /\ [row EXCEPT !.reauth = TRUE, !.credit = 1].reauth
           /\ [row EXCEPT !.reauth = TRUE, !.credit = 1].old = row.old
<1> DEFINE mid == [row EXCEPT !.reauth = TRUE]
<1>1. mid \in Row /\ mid.reauth /\ mid.old = row.old
  BY DEF Row
<1>2. [row EXCEPT !.reauth = TRUE, !.credit = 1] = [mid EXCEPT !.credit = 1]
  OBVIOUS
<1> HIDE DEF mid
<1>3. LET new == [mid EXCEPT !.credit = 1]
      IN  new \in Row /\ new.credit = 1 /\ new.reauth /\ new.old = mid.old
  BY <1>1 DEF Row
<1> QED BY <1>1, <1>2, <1>3, Zenon

LEMMA UnprovedType ==
    ASSUME NEW row \in Row
    PROVE  /\ [row EXCEPT !.reauth = FALSE, !.credit = 0] \in Row
           /\ [row EXCEPT !.reauth = FALSE, !.credit = 0].credit = 0
           /\ ~[row EXCEPT !.reauth = FALSE, !.credit = 0].reauth
           /\ [row EXCEPT !.reauth = FALSE, !.credit = 0].old = row.old
<1> DEFINE mid == [row EXCEPT !.reauth = FALSE]
<1>1. mid \in Row /\ ~mid.reauth /\ mid.old = row.old
  BY DEF Row
<1>2. [row EXCEPT !.reauth = FALSE, !.credit = 0] = [mid EXCEPT !.credit = 0]
  OBVIOUS
<1> HIDE DEF mid
<1>3. LET new == [mid EXCEPT !.credit = 0]
      IN  new \in Row /\ new.credit = 0 /\ new.reauth = mid.reauth /\ new.old = mid.old
  BY <1>1 DEF Row
<1> QED BY <1>1, <1>2, <1>3

LEMMA SpentType ==
    ASSUME NEW row \in Row, row.credit = 1
    PROVE  /\ Spent(row) \in Row /\ Spent(row).credit = 0
           /\ ~Spent(row).reauth /\ Spent(row).old = row.old
<1>1. Spent(row) = [row EXCEPT !.reauth = FALSE, !.credit = 0]
  BY DEF Spent, Row
<1> QED BY <1>1, UnprovedType

(* A session that a request holds and finds. *)
LEMMA HeldIsSession ==
    ASSUME IInv, NEW r \in Req, Live(req[r].s)
    PROVE  req[r].s \in Session /\ session[req[r].s] \in Row
  BY Types DEF Live, Request

LEMMA StampKeeps == ASSUME IInv, NEW r \in Req, Stamp(r) PROVE IInv'
<1>1. ~Revokes(req[r])
  BY DEF Stamp, At, Revokes
<1>2. CASE account.google /\ Live(req[r].s)
  <2> DEFINE s == req[r].s
             row == [session[s] EXCEPT !.reauth = TRUE, !.credit = 1]
  <2>1. s \in Session /\ session[s] \in Row
    BY <1>2, HeldIsSession
  <2>2. row \in Row /\ row.credit = 1 /\ row.reauth /\ row.old = session[s].old
    BY <2>1, ProvedType
  <2>4. Credited(row) /\ (Old(row) => Old(session[s]))
    BY <2>1, <2>2, SessionType DEF Credited, Old
  <2>3. session' = [session EXCEPT ![s] = row]
    BY <1>2, <2>1, Types DEF Stamp
  <2> HIDE DEF s, row
  <2> QED BY <1>1, <2>1, <2>2, <2>3, <2>4, WriteKeeps, IdleType DEF Stamp, Finish
<1>3. CASE ~(account.google /\ Live(req[r].s))
  BY <1>1, <1>3, FinishKeeps, Types DEF Stamp
<1> QED BY <1>2, <1>3

LEMMA ConsumeKeeps == ASSUME IInv, NEW r \in Req, Consume(r) PROVE IInv'
<1>1. ~Revokes(req[r])
  BY DEF Consume, At, Revokes
<1>2. CASE Live(req[r].s) /\ session[req[r].s].reauth
  <2> DEFINE s == req[r].s
             row == Spent(session[s])
  <2>1. s \in Session /\ session[s] \in Row
    BY <1>2, HeldIsSession
  <2>2. session[s] # NoSession /\ Credited(session[s])
    BY <2>1, SessionType, Types
  <2>3. session[s].credit = 1
    BY <1>2, <2>2 DEF Credited
  <2>4. row \in Row /\ row.credit = 0 /\ ~row.reauth /\ row.old = session[s].old
    BY <2>1, <2>3, SpentType
  <2>5. Credited(row) /\ (Old(row) => Old(session[s]))
    BY <2>2, <2>4 DEF Credited, Old
  <2>6. session' = [session EXCEPT ![s] = row]
    BY <1>2 DEF Consume
  <2>7. PICK q \in Request : req' = [req EXCEPT ![r] = q] /\ Routed(q)
    <3>1. CASE Finish(r)
      BY <3>1, IdleType DEF Finish
    <3>2. CASE Goto(r, "anonymise")
      <4>1. req[r] \in Request /\ "anonymise" \in Pc
        BY Types DEF Pc
      <4>2. [req[r] EXCEPT !.pc = "anonymise"] \in Request
        BY <4>1, MovedType
      <4>3. [req[r] EXCEPT !.pc = "anonymise"].pc = "anonymise"
        BY <4>1, MovedType
      <4> QED BY <3>2, <4>2, <4>3, Types DEF Goto, Routed
    <3> QED BY <1>2, <3>1, <3>2, AuthorisedMeans DEF Consume
  <2> HIDE DEF s, row
  <2> QED BY <1>1, <2>1, <2>4, <2>5, <2>6, <2>7, WriteKeeps DEF Consume
<1>3. CASE ~(Live(req[r].s) /\ session[req[r].s].reauth)
  BY <1>1, <1>3, FinishKeeps, Types DEF Consume
<1> QED BY <1>2, <1>3

LEMMA DieKeeps == ASSUME IInv, NEW r \in Req, Die(r) PROVE IInv'
<1>1. Revokes(req[r]) => r \in Revoking
  BY DEF Revoking, Revokes, At
<1>2. /\ ghost' \in Ghost
      /\ ghost'.abandoned = (ghost.abandoned \/ r \in Revoking)
  <2> DEFINE b == r \in Revoking
             n == IF At(r, "lock") THEN 0 ELSE ghost.tries
             a == ghost.abandoned \/ b
             l == ghost.lockLost \/ At(r, "lock")
  <2>1. ghost \in Ghost /\ a \in BOOLEAN /\ n \in Nat /\ l \in BOOLEAN
    BY Types DEF At, Ghost
  <2>2. ghost' = [ghost EXCEPT !.abandoned = a, !.lockLost = l, !.tries = n]
    BY DEF Die
  <2>3. a = (ghost.abandoned \/ r \in Revoking)
    OBVIOUS
  <2> HIDE DEF a, n, l
  <2>4. ghost'.abandoned = a /\ ghost' \in Ghost
    BY <2>1, <2>2 DEF Ghost
  <2> QED BY <2>3, <2>4
<1>3. ghost'.abandoned \/ (~Revokes(req[r]) /\ ghost'.abandoned = ghost.abandoned)
  <2>1. ghost.abandoned \in BOOLEAN
    BY Types DEF Ghost
  <2> QED BY <1>1, <1>2, <2>1
<1> QED BY <1>2, <1>3, IdleType, QuietKeeps, Types DEF Die, Finish

-----------------------------------------------------------------------------
(* Time *)

(* What happens without a request makes no session older. *)
LEMMA TimePassesKeeps ==
    ASSUME IInv, UNCHANGED <<account, req>>, session' \in [Session -> Row \cup {NoSession}],
           \A s \in Session : Credited(session'[s]), NoneOlder,
           token' \in [Token -> Link], lockout' \in Lockout, ghost' \in Ghost,
           ghost'.abandoned = ghost.abandoned
    PROVE  IInv'
<1>1. TypeOK' /\ \A r \in Req : Routed(req'[r])
  BY Types DEF TypeOK, IInv
<1>2. SessionsAreRevoked'
  BY RevokedMeans, RevokedMeansNext DEF IInv, NoneOlder
<1> QED BY <1>1, <1>2 DEF IInv, Routed

LEMMA RowPassesKeeps ==
    ASSUME IInv, UNCHANGED <<account, req, token, lockout, ghost>>,
           NEW s \in Session, NEW row \in Row \cup {NoSession},
           session' = [session EXCEPT ![s] = row], Credited(row), Old(row) => Old(session[s])
    PROVE  IInv'
<1>1. /\ session' \in [Session -> Row \cup {NoSession}]
      /\ session'[s] = row /\ \A x \in Session \ {s} : session'[x] = session[x]
  BY Types
<1>2. (\A x \in Session : Credited(session'[x])) /\ NoneOlder
  BY <1>1, Types DEF NoneOlder
<1> QED BY <1>1, <1>2, TimePassesKeeps, Types

LEMMA TimeKeeps == ASSUME IInv, Time PROVE IInv'
<1>1. NoneOlder \/ session' # session
  BY DEF NoneOlder
<1>2. ASSUME NEW k \in Token, LinkExpires(k) PROVE IInv'
  <2>1. token' \in [Token -> Link]
    BY <1>2, Types DEF LinkExpires, Link
  <2> QED BY <1>1, <1>2, <2>1, TimePassesKeeps, Types DEF LinkExpires
<1>3. ASSUME NEW s \in Session, ReauthExpires(s) PROVE IInv'
  <2> DEFINE row == [session[s] EXCEPT !.reauth = FALSE, !.credit = 0]
  <2>1. session[s] \in Row
    BY <1>3, Types DEF ReauthExpires, Live
  <2>2. row \in Row /\ row.credit = 0 /\ ~row.reauth /\ row.old = session[s].old
    BY <2>1, UnprovedType
  <2>3. Credited(row) /\ (Old(row) => Old(session[s]))
    BY <2>1, <2>2, SessionType DEF Credited, Old
  <2>4. session' = [session EXCEPT ![s] = row]
    BY <1>3, Types DEF ReauthExpires
  <2> HIDE DEF row
  <2> QED BY <1>3, <2>2, <2>3, <2>4, RowPassesKeeps DEF ReauthExpires
<1>4. ASSUME NEW s \in Session, SessionExpires(s) PROVE IInv'
  BY <1>4, RowPassesKeeps DEF SessionExpires, Credited, Old
<1>5. CASE LockPasses \/ KeyExpires
  <2>1. CASE LockPasses
    <3>1. lockout' \in Lockout
      BY <2>1, Types DEF LockPasses, Lockout
    <3>2. ghost' \in Ghost /\ ghost'.abandoned = ghost.abandoned
      BY <2>1, Types DEF LockPasses, Ghost
    <3> QED BY <1>1, <2>1, <3>1, <3>2, TimePassesKeeps, Types DEF LockPasses
  <2>2. CASE KeyExpires
    <3>1. lockout' \in Lockout
      BY <2>2, ConstantsAssumption DEF KeyExpires, NoLockout, Lockout
    <3>2. ghost' \in Ghost /\ ghost'.abandoned = ghost.abandoned
      BY <2>2, Types DEF KeyExpires, Ghost
    <3> QED BY <1>1, <2>2, <3>1, <3>2, TimePassesKeeps, Types DEF KeyExpires
  <2> QED BY <1>5, <2>1, <2>2
<1> QED BY <1>2, <1>3, <1>4, <1>5 DEF Time

-----------------------------------------------------------------------------
(* The theorems *)

LEMMA StepsKeep == ASSUME IInv, NEW r \in Req, Step(r) PROVE IInv'
  BY CountKeeps, LockKeeps, ClearKeeps, CreateSessionKeeps, LinkStepKeeps, FindOwnerKeeps,
     WritePasswordKeeps, MarkUsedKeeps, MarkVerifiedKeeps, SweepKeeps, TouchKeeps,
     EndSessionKeeps, ReadCurrentKeeps, ProveKeeps, StampKeeps, ConsumeKeeps, SuspendKeeps,
     SuspensionKeeps, DieKeeps
  DEF Step

LEMMA InitInv == Init => IInv
<1> SUFFICES ASSUME Init PROVE IInv
  OBVIOUS
<1>1. account \in Account /\ session \in [Session -> Row \cup {NoSession}]
      /\ token \in [Token -> Link]
  BY DEF Init, Link
<1>2. lockout \in Lockout
  BY ConstantsAssumption DEF Init, NoLockout, Lockout
<1>3. ghost \in Ghost /\ req \in [Req -> Request]
  BY IdleType DEF Init, Ghost
<1>4. (\A r \in Req : Routed(req[r])) /\ \A s \in Session : Credited(session[s]) /\ ~Old(session[s])
  BY IdleType DEF Init, Credited, Old
<1> QED BY <1>1, <1>2, <1>3, <1>4, RevokedMeans DEF IInv, TypeOK

LEMMA StepInv == IInv /\ [Next]_vars => IInv'
<1> SUFFICES ASSUME IInv, [Next]_vars PROVE IInv'
  OBVIOUS
<1>1. CASE UNCHANGED vars
  BY <1>1, TimePassesKeeps, Types DEF vars, NoneOlder
<1>2. ASSUME NEW r \in Req, Anonymous(r) \/ Signed(r) \/ Step(r) PROVE IInv'
  BY <1>2, AnonymousKeeps, SignedKeeps, StepsKeep
<1>3. ASSUME NEW r \in Req, NEW op \in {"suspend", "unsuspend", "forceLogout", "anonymise"},
             Administer(r, op)
      PROVE  IInv'
  BY <1>3, AdministerKeeps
<1> QED BY <1>1, <1>2, <1>3, TimeKeeps DEF Next

(***************************************************************************)
(* Account, sessions, links, lockout and requests are always what they     *)
(* should be: every request finds its next step.                           *)
(***************************************************************************)
THEOREM TypeCorrect == Spec => []TypeOK
<1>1. IInv => TypeOK
  BY DEF IInv
<1> QED BY InitInv, StepInv, <1>1, PTL DEF Spec

(***************************************************************************)
(* A session that was there when the password changed or the account was   *)
(* suspended or deleted lives only while a request is on its way to revoke *)
(* it or because one died there, for any number of racing requests.        *)
(***************************************************************************)
THEOREM Revoked == Spec => []SessionsAreRevoked
<1>1. IInv => SessionsAreRevoked
  BY DEF IInv
<1> QED BY InitInv, StepInv, <1>1, PTL DEF Spec

(***************************************************************************)
(* One re-authentication with Google authorises at most one deletion or    *)
(* change of e-mail, for any number of racing requests.                    *)
(***************************************************************************)
THEOREM OneAction == Spec => []OneActionPerProof
  BY InitInv, StepInv, ProofsFollow, PTL DEF Spec

-----------------------------------------------------------------------------
(* The lockout: who is about to count and who is about to lock *)

Counting == {r \in Req : At(r, "count")}
Locking == {r \in Req : At(r, "lock")}

(***************************************************************************)
(* While the account is open, whoever has counted beyond the limit is on   *)
(* its way to lock; once it is locked no request can begin to count.       *)
(***************************************************************************)
Bound ==
    /\ lockout.failures < MaxFailures => ghost.tries <= lockout.failures
    /\ ~lockout.locked => ghost.tries <= MaxFailures - 1 + Cardinality(Locking)
    /\ lockout.locked =>
           ghost.tries + Cardinality(Counting) <= MaxFailures - 1 + Cardinality(Req)

LEMMA Cards ==
    /\ IsFiniteSet(Counting) /\ IsFiniteSet(Locking)
    /\ Cardinality(Counting) \in Nat /\ Cardinality(Locking) \in Nat
    /\ Cardinality(Req) \in Nat
    /\ Cardinality(Counting) + Cardinality(Locking) <= Cardinality(Req)
<1>1. /\ IsFiniteSet(Req) /\ Counting \subseteq Req /\ Locking \subseteq Req
      /\ Counting \cap Locking = {}
  BY ConstantsAssumption DEF Counting, Locking, At
<1>2. IsFiniteSet(Counting) /\ IsFiniteSet(Locking)
  BY <1>1, FS_Subset
<1>3. Cardinality(Counting \cup Locking) = Cardinality(Counting) + Cardinality(Locking)
  <2>1. Cardinality(Counting \cap Locking) = 0
    BY <1>1, FS_EmptySet
  <2>2. Cardinality(Counting \cup Locking)
            = Cardinality(Counting) + Cardinality(Locking) - Cardinality(Counting \cap Locking)
    BY <1>2, FS_Union
  <2>3. Cardinality(Counting) \in Nat /\ Cardinality(Locking) \in Nat
    BY <1>2, FS_CardinalityType
  <2> QED BY <2>1, <2>2, <2>3
<1>4. Cardinality(Counting \cup Locking) <= Cardinality(Req)
  BY <1>1, FS_Subset
<1> QED BY <1>1, <1>2, <1>3, <1>4, FS_CardinalityType

LEMMA SomeRequests ==
    ASSUME NEW S \in SUBSET Req
    PROVE  Cardinality(S) \in Nat /\ Cardinality(Req) \in Nat /\ Cardinality(S) <= Cardinality(Req)
  BY ConstantsAssumption, FS_Subset, FS_CardinalityType

LEMMA Numbers ==
    ASSUME IInv
    PROVE  /\ MaxFailures \in Nat \ {0} /\ ghost.tries \in Nat
           /\ lockout.failures \in 0..MaxFailures /\ lockout.locked \in BOOLEAN
  BY Types, ConstantsAssumption DEF Ghost, Lockout

LEMMA BoundMeans == IInv /\ Bound => AttemptsAreBounded
  BY Cards, Numbers DEF Bound, AttemptsAreBounded

(* r is at pc afterwards, and nobody else has moved. *)
Lands(r, pc) == req'[r].pc = pc /\ \A p \in Req \ {r} : req'[p] = req[p]

LEMMA Landings ==
    ASSUME IInv, NEW r \in Req
    PROVE  /\ \A pc \in Pc : Goto(r, pc) => Lands(r, pc)
           /\ Finish(r) => Lands(r, "idle")
           /\ SignIn(r) => Lands(r, "insert")
           /\ ForceLogout(r) => Lands(r, "sweep")
           /\ \A op \in Op, pc \in Pc : Starts(r, op, pc) => Lands(r, pc)
           /\ \A op \in Op, pc \in Pc, s \in Session : StartsWith(r, op, pc, s) => Lands(r, pc)
           /\ \A op \in Op, pc \in Pc, k \in Token : StartsFrom(r, op, pc, k) => Lands(r, pc)
<1>1. req \in [Req -> Request] /\ req[r] \in Request
  BY Types
<1>2. ASSUME NEW pc \in Pc, Goto(r, pc) PROVE Lands(r, pc)
  BY <1>1, <1>2, MovedType DEF Goto, Lands
<1>3. Finish(r) => Lands(r, "idle")
  BY <1>1 DEF Finish, Lands, Idle
<1>4. (SignIn(r) => Lands(r, "insert")) /\ (ForceLogout(r) => Lands(r, "sweep"))
  BY <1>1 DEF SignIn, ForceLogout, Lands, Idle
<1>5. ASSUME NEW op \in Op, NEW pc \in Pc, Starts(r, op, pc) PROVE Lands(r, pc)
  BY <1>1, <1>5 DEF Starts, Lands, Idle
<1>6. ASSUME NEW op \in Op, NEW pc \in Pc, NEW s \in Session, StartsWith(r, op, pc, s)
      PROVE  Lands(r, pc)
  BY <1>1, <1>6 DEF StartsWith, Lands, Idle
<1>7. ASSUME NEW op \in Op, NEW pc \in Pc, NEW k \in Token, StartsFrom(r, op, pc, k)
      PROVE  Lands(r, pc)
  BY <1>1, <1>7 DEF StartsFrom, Lands, Idle
<1> QED BY <1>2, <1>3, <1>4, <1>5, <1>6, <1>7

(* What has nothing to do with the counter. *)
Aside(r) ==
    /\ req[r].pc \notin {"count", "lock"}
    /\ \E pc \in Pc \ {"count", "lock"} : Lands(r, pc)
    /\ UNCHANGED lockout /\ ghost'.tries = ghost.tries

LEMMA AsideBound ==
    ASSUME IInv, Bound, NEW r \in Req, Aside(r) PROVE Bound'
<1>1. Counting' = Counting /\ Locking' = Locking
  BY DEF Aside, Lands, Counting, Locking, At
<1> QED BY <1>1 DEF Aside, Bound

(* r leaves Counting, or joins or leaves Locking. *)
LEMMA Leaves ==
    ASSUME NEW S, IsFiniteSet(S), NEW T, NEW r, r \in S, T = S \ {r}
    PROVE  Cardinality(T) = Cardinality(S) - 1 /\ Cardinality(S) \in Nat /\ Cardinality(T) \in Nat
  BY FS_RemoveElement, FS_CardinalityType

LEMMA Joins ==
    ASSUME NEW S, IsFiniteSet(S), NEW T, NEW r, r \notin S, T = S \cup {r}
    PROVE  Cardinality(T) = Cardinality(S) + 1 /\ Cardinality(S) \in Nat /\ Cardinality(T) \in Nat
  BY FS_AddElement, FS_CardinalityType

LEMMA CountBound == ASSUME IInv, Bound, NEW r \in Req, Count(r) PROVE Bound'
<1> DEFINE n == IF lockout.failures < MaxFailures THEN lockout.failures + 1 ELSE MaxFailures
<1>1. /\ lockout'.failures = n /\ lockout'.locked = lockout.locked
      /\ IF n = MaxFailures THEN Goto(r, "lock") ELSE Finish(r)
  BY Types DEF Count, Lockout
<1>2. ghost'.tries = IF ghost.lockLost THEN ghost.tries ELSE ghost.tries + 1
  BY Types DEF Count, Ghost
<1>3. r \in Counting /\ r \notin Locking
  BY DEF Count, Counting, Locking, At
<1>4. Counting' = Counting \ {r} /\ Locking' = IF n = MaxFailures THEN Locking \cup {r} ELSE Locking
  <2>1. CASE n = MaxFailures
    <3>1. Lands(r, "lock")
      BY <1>1, <2>1, Landings DEF Pc
    <3> QED BY <2>1, <3>1, <1>3 DEF Lands, Counting, Locking, At
  <2>2. CASE n # MaxFailures
    <3>1. Lands(r, "idle")
      BY <1>1, <2>2, Landings DEF Pc
    <3> QED BY <2>2, <3>1, <1>3 DEF Lands, Counting, Locking, At
  <2> QED BY <2>1, <2>2
<1>5. /\ Cardinality(Counting') = Cardinality(Counting) - 1
      /\ Cardinality(Locking') =
             IF n = MaxFailures THEN Cardinality(Locking) + 1 ELSE Cardinality(Locking)
  BY <1>3, <1>4, Cards, Leaves, Joins
<1> QED BY <1>1, <1>2, <1>5, Cards, Numbers DEF Bound

LEMMA LockBound == ASSUME IInv, Bound, NEW r \in Req, Lock(r) PROVE Bound'
<1>1. lockout'.locked /\ lockout'.failures = lockout.failures /\ ghost' = ghost
  BY Types DEF Lock, Lockout
<1>2. Counting' = Counting
  <2>1. Lands(r, "idle")
    BY Landings DEF Lock
  <2> QED BY <2>1 DEF Lock, Lands, Counting, At
<1> QED BY <1>1, <1>2, Cards, Numbers DEF Bound

(* Whatever forgets the tries. *)
LEMMA ResetBound ==
    ASSUME IInv, ghost'.tries = 0, lockout' \in Lockout
    PROVE  Bound'
<1>1. Locking' \in SUBSET Req
  BY DEF Locking
<1>2. Cardinality(Locking') \in Nat
  BY <1>1, SomeRequests
<1>3. Counting' \in SUBSET Req
  BY DEF Counting
<1>4. /\ Cardinality(Counting') \in Nat /\ Cardinality(Req) \in Nat
      /\ Cardinality(Counting') <= Cardinality(Req)
  BY <1>3, SomeRequests
<1>5. lockout'.failures \in 0..MaxFailures
  BY DEF Lockout
<1> QED BY <1>2, <1>4, <1>5, Numbers DEF Bound

LEMMA LoginBound ==
    ASSUME IInv, Bound, NEW r \in Req, NEW right \in BOOLEAN, Login(r, right) PROVE Bound'
<1>1. ~lockout.locked /\ req[r].pc = "idle" /\ lockout' = lockout /\ ghost' = ghost
  BY DEF Login, Locked, Starts
<1>2. Lands(r, "clear") \/ Lands(r, "count")
  BY Landings DEF Login, Op, Pc
<1>3. Locking' = Locking
  BY <1>1, <1>2 DEF Lands, Locking, At
<1> QED BY <1>1, <1>3 DEF Bound

LEMMA AnonymousBound == ASSUME IInv, Bound, NEW r \in Req, Anonymous(r) PROVE Bound'
<1>1. CASE GoogleLogin(r)
  <2>1. Lands(r, "insert")
    BY <1>1, Landings DEF GoogleLogin, Op, Pc
  <2>2. Aside(r)
    BY <1>1, <2>1 DEF GoogleLogin, Starts, Aside, Pc
  <2> QED BY <2>2, AsideBound
<1>2. ASSUME NEW for \in {"VERIFY", "RESET"}, Ask(r, for) PROVE Bound'
  <2>1. Lands(r, "invalidate")
    BY <1>2, Types DEF Ask, Lands, Idle
  <2>2. Aside(r)
    BY <1>2, <2>1 DEF Ask, Aside, Pc
  <2> QED BY <2>2, AsideBound
<1>3. ASSUME NEW k \in Token, VerifyEmail(r, k) \/ ResetPassword(r, k) PROVE Bound'
  <2>1. PICK pc \in Pc \ {"count", "lock"} : Lands(r, pc)
    BY <1>3, Landings DEF VerifyEmail, ResetPassword, Op, Pc
  <2>2. Aside(r)
    BY <1>3, <2>1 DEF VerifyEmail, ResetPassword, StartsFrom, Aside
  <2> QED BY <2>2, AsideBound
<1> QED BY <1>1, <1>2, <1>3, LoginBound DEF Anonymous

LEMMA SignedBound == ASSUME IInv, Bound, NEW r \in Req, Signed(r) PROVE Bound'
<1>1. PICK s \in Session, op \in SignedOp : Validate(r, s, op)
  BY DEF Signed, SignedOp
<1>2. PICK pc \in {"touch", "end"} : StartsWith(r, op, pc, s)
  BY <1>1 DEF Validate
<1>3. Lands(r, pc)
  BY <1>2, Landings DEF SignedOp, Op, Pc
<1>4. Aside(r)
  BY <1>1, <1>2, <1>3 DEF Validate, StartsWith, Aside, Pc
<1> QED BY <1>4, AsideBound

LEMMA AdministerBound ==
    ASSUME IInv, Bound, NEW r \in Req,
           NEW op \in {"suspend", "unsuspend", "forceLogout", "anonymise"}, Administer(r, op)
    PROVE  Bound'
<1>1. PICK pc \in Pc \ {"count", "lock"} : Starts(r, op, pc)
  BY DEF Administer, Pc
<1>2. Lands(r, pc)
  BY <1>1, Landings DEF Op
<1>3. Aside(r)
  BY <1>1, <1>2 DEF Administer, Starts, Aside
<1> QED BY <1>3, AsideBound

LEMMA DieBound == ASSUME IInv, Bound, NEW r \in Req, Die(r) PROVE Bound'
<1>1. lockout' = lockout /\ ghost'.tries = IF At(r, "lock") THEN 0 ELSE ghost.tries
  BY Types DEF Die, Ghost
<1>2. CASE At(r, "lock")
  BY <1>1, <1>2, ResetBound, Types
<1>3. CASE ~At(r, "lock")
  <2>1. Lands(r, "idle")
    BY Landings DEF Die
  <2>2. Locking' = Locking /\ Counting' \subseteq Counting
    BY <1>3, <2>1 DEF Lands, Locking, Counting, At
  <2>3. Cardinality(Counting') <= Cardinality(Counting) /\ Cardinality(Counting') \in Nat
    BY <2>2, Cards, FS_Subset, FS_CardinalityType
  <2> QED BY <1>1, <1>3, <2>2, <2>3, Cards, Numbers DEF Bound
<1> QED BY <1>2, <1>3

LEMMA OtherStepsBound ==
    ASSUME IInv, Bound, NEW r \in Req,
           \/ \E s \in Session : CreateSession(r, s)
           \/ Invalidate(r)
           \/ \E k \in Token : Issue(r, k)
           \/ FindOwner(r) \/ WritePassword(r) \/ MarkUsed(r) \/ MarkVerified(r)
           \/ Touch(r) \/ EndSession(r)
           \/ \E right \in BOOLEAN : ReadCurrent(r, right) \/ Prove(r, right)
           \/ Stamp(r) \/ Consume(r)
           \/ Suspend(r) \/ Unsuspend(r) \/ Anonymise(r) \/ Forget(r)
    PROVE  Bound'
<1>1. lockout' = lockout /\ ghost' = ghost /\ req[r].pc \notin {"count", "lock"}
  BY DEF CreateSession, Invalidate, Issue, FindOwner, WritePassword, MarkUsed, MarkVerified,
         Touch, EndSession, ReadCurrent, Prove, Stamp, Consume, Suspend, Unsuspend, Anonymise,
         Forget, At
<1>2. \E pc \in Pc \ {"count", "lock"} : Lands(r, pc)
  <2>1. CASE \E s \in Session : CreateSession(r, s)
    BY <2>1, Landings DEF CreateSession, Pc
  <2>2. CASE Invalidate(r) \/ \E k \in Token : Issue(r, k)
    BY <2>2, Landings DEF Invalidate, Issue, Pc
  <2>3. CASE FindOwner(r) \/ WritePassword(r) \/ MarkUsed(r) \/ MarkVerified(r)
    BY <2>3, Landings DEF FindOwner, WritePassword, MarkUsed, MarkVerified, Pc
  <2>4. CASE Touch(r)
    <3>1. req[r].op \in SignedOp
      BY <2>4 DEF Touch, At, IInv, Routed
    <3>2. FirstStep(req[r].op) \in Pc \ {"count", "lock"}
      BY <3>1 DEF FirstStep, SignedOp, Pc
    <3> QED BY <2>4, <3>2, Landings DEF Touch, Pc
  <2>5. CASE EndSession(r) \/ Stamp(r)
    BY <2>5, Landings DEF EndSession, Stamp, Pc
  <2>6. ASSUME NEW right \in BOOLEAN, ReadCurrent(r, right)
        PROVE  \E pc \in Pc \ {"count", "lock"} : Lands(r, pc)
    <3>1. CASE right
      <4>1. Lands(r, "password")
        BY <2>6, <3>1, Types DEF ReadCurrent, Lands, Request
      <4> QED BY <4>1 DEF Pc
    <3>2. CASE ~right
      BY <2>6, <3>2, Landings DEF ReadCurrent, Pc
    <3> QED BY <3>1, <3>2
  <2>7. CASE Consume(r) \/ \E right \in BOOLEAN : Prove(r, right)
    BY <2>7, Landings DEF Consume, Prove, Authorised, Pc
  <2>8. CASE Suspend(r) \/ Unsuspend(r) \/ Anonymise(r) \/ Forget(r)
    BY <2>8, Landings DEF Suspend, Unsuspend, Anonymise, Forget, Pc
  <2> QED BY <2>1, <2>2, <2>3, <2>4, <2>5, <2>6, <2>7, <2>8
<1> QED BY <1>1, <1>2, AsideBound DEF Aside

LEMMA SweepBound == ASSUME IInv, Bound, NEW r \in Req, Sweep(r) PROVE Bound'
<1>1. req[r].pc \notin {"count", "lock"} /\ lockout' = lockout /\ ghost'.tries = ghost.tries
  BY Types DEF Sweep, At, Ghost
<1>2. \E pc \in Pc \ {"count", "lock"} : Lands(r, pc)
  BY Landings DEF Sweep, Pc
<1> QED BY <1>1, <1>2, AsideBound DEF Aside

LEMMA ClearBound == ASSUME IInv, Bound, NEW r \in Req, Clear(r) PROVE Bound'
<1>1. lockout' \in Lockout /\ ghost'.tries = 0
  BY Types, ConstantsAssumption DEF Clear, NoLockout, Lockout, Ghost
<1> QED BY <1>1, ResetBound

LEMMA TimeBound == ASSUME IInv, Bound, Time PROVE Bound'
<1>1. CASE UNCHANGED <<lockout, req, ghost>>
  BY <1>1 DEF Bound, Counting, Locking, At
<1>2. CASE LockPasses
  <2>1. lockout' \in Lockout /\ ghost'.tries = 0
    BY <1>2, Types DEF LockPasses, Lockout, Ghost
  <2> QED BY <2>1, ResetBound
<1>3. CASE KeyExpires
  <2>1. lockout' \in Lockout
    BY <1>3, ConstantsAssumption DEF KeyExpires, NoLockout, Lockout
  <2>2. ghost'.tries = 0
    BY <1>3, Types DEF KeyExpires, Ghost
  <2> QED BY <2>1, <2>2, ResetBound
<1> QED BY <1>1, <1>2, <1>3 DEF Time, LinkExpires, ReauthExpires, SessionExpires

LEMMA StepBound == IInv /\ Bound /\ [Next]_vars => Bound'
<1> SUFFICES ASSUME IInv, Bound, [Next]_vars PROVE Bound'
  OBVIOUS
<1>1. CASE UNCHANGED vars
  BY <1>1 DEF vars, Bound, Counting, Locking, At
<1>2. ASSUME NEW r \in Req, Anonymous(r) \/ Signed(r) PROVE Bound'
  BY <1>2, AnonymousBound, SignedBound
<1>3. ASSUME NEW r \in Req, NEW op \in {"suspend", "unsuspend", "forceLogout", "anonymise"},
             Administer(r, op)
      PROVE  Bound'
  BY <1>3, AdministerBound
<1>4. ASSUME NEW r \in Req, Step(r) PROVE Bound'
  BY <1>4, CountBound, LockBound, ClearBound, SweepBound, DieBound, OtherStepsBound DEF Step
<1> QED BY <1>1, <1>2, <1>3, <1>4, TimeBound DEF Next

LEMMA InitBound == Init => Bound
<1> SUFFICES ASSUME Init PROVE Bound
  OBVIOUS
<1>1. lockout \in Lockout /\ ~lockout.locked /\ lockout.failures = 0 /\ ghost.tries = 0
  BY ConstantsAssumption DEF Init, NoLockout, Lockout
<1> QED BY <1>1, Cards, ConstantsAssumption DEF Bound

(***************************************************************************)
(* Whatever logins race with the lock, at most MaxFailures wrong passwords *)
(* are counted between two locks, and one for every other request, for any *)
(* number of requests and any limit.                                       *)
(***************************************************************************)
THEOREM Attempts == Spec => []AttemptsAreBounded
  BY InitInv, StepInv, InitBound, StepBound, BoundMeans, PTL DEF Spec
=============================================================================
