---------------------------- MODULE Credentials -----------------------------
(***************************************************************************)
(* What stands between a person and one account: its password, its mailed  *)
(* links, its sessions, the re-authentication a session has proved, and    *)
(* the lockout counter in Redis; and the requests that change them, with   *)
(* suspension and deletion of the account.                                 *)
(*                                                                         *)
(* Each awaited statement is a step; consecutive reads of one handler are  *)
(* one.  A person who types a password types the right one or not.  Redis  *)
(* answers reads; without an answer the lock is not looked at at all.      *)
(* Which addresses and Google identities belong to whom is the business of *)
(* Identities; a request that is refused stutters.                         *)
(*                                                                         *)
(* A definition whose name has an underscore is a fault.                   *)
(***************************************************************************)
EXTENDS Integers, FiniteSets

CONSTANTS
    Session,      \* rows of the table of sessions
    Token,        \* rows of the table of verification tokens
    Req,          \* requests in flight
    MaxFailures,  \* failed logins that lock the account
    MayFail,      \* TRUE: a request may die between two steps
    None

ASSUME ConstantsAssumption ==
    /\ MaxFailures \in Nat \ {0} /\ MayFail \in BOOLEAN
    /\ None \notin Session \cup Token
    /\ IsFiniteSet(Req)

VARIABLES
    account,    \* the user and its EMAIL and GOOGLE rows
    session,    \* the rows, or NoSession
    token,      \* per row, what an unused and unexpired link is for
    lockout,    \* the key lockout:<email>
    req,        \* the requests
    ghost       \* what no table holds, see below

vars == <<account, session, token, lockout, req, ghost>>

-----------------------------------------------------------------------------
(* Data *)

(* hash: the EMAIL row has a password. *)
Account ==
    [row : BOOLEAN, hash : BOOLEAN, google : BOOLEAN,
     verified : BOOLEAN, suspended : BOOLEAN, deleted : BOOLEAN]

(***************************************************************************)
(* Ghosts of a session: that it was there when the password changed or the *)
(* account was suspended or deleted, and how many actions its last         *)
(* re-authentication may still authorise.                                  *)
(***************************************************************************)
Row == [state : {"live"}, old : BOOLEAN, reauth : BOOLEAN, credit : Int]
NewSession == [state |-> "live", old |-> FALSE, reauth |-> FALSE, credit |-> 0]
NoSession == [state |-> "none"]

Link == {"none", "VERIFY", "RESET"}

(* Of the counter only matters whether it has reached MaxFailures. *)
Lockout == [failures : 0..MaxFailures, locked : BOOLEAN]
NoLockout == [failures |-> 0, locked |-> FALSE]

(***************************************************************************)
(* abandoned: a request died between a write that makes sessions old and   *)
(* their revocation; tries are the wrong passwords counted since the       *)
(* counter was deleted or the last lock passed, as long as no lock that    *)
(* was due could not be written (lockLost).                                *)
(***************************************************************************)
Ghost == [abandoned : BOOLEAN, tries : Nat, lockLost : BOOLEAN]

Op == {"login", "ask", "verify", "reset", "logout", "change", "reauth",
       "selfDelete", "emailChange", "suspend", "unsuspend", "forceLogout", "anonymise"}

Request ==
    [op : Op \cup {None},
     pc : {"idle", "count", "lock", "clear", "insert", "invalidate", "issue",
           "owner", "password", "mark", "verify", "sweep", "end", "touch", "current", "prove",
           "consume", "stamp", "anonymise", "forget", "suspend", "unsuspend"},
     s : Session \cup {None},      \* the session the request came with
     k : Token \cup {None},        \* the link it came with
     for : Link,                   \* the kind of link asked for
     row : BOOLEAN]                \* the EMAIL row was there when it was read

Idle == [op |-> None, pc |-> "idle", s |-> None, k |-> None, for |-> "none", row |-> FALSE]

Live(s) == s # None /\ session[s] # NoSession

(* The user as login and validation want them. *)
InOrder == ~account.deleted /\ ~account.suspended

Starts(r, op, pc) ==
    /\ req[r].pc = "idle"
    /\ req' = [req EXCEPT ![r] = [Idle EXCEPT !.op = op, !.pc = pc]]

StartsWith(r, op, pc, s) ==
    /\ req[r].pc = "idle"
    /\ req' = [req EXCEPT ![r] = [Idle EXCEPT !.op = op, !.pc = pc, !.s = s]]

StartsFrom(r, op, pc, k) ==
    /\ req[r].pc = "idle"
    /\ req' = [req EXCEPT ![r] = [Idle EXCEPT !.op = op, !.pc = pc, !.k = k,
                                              !.row = account.row]]

At(r, pc) == req[r].pc = pc
Goto(r, pc) == req' = [req EXCEPT ![r].pc = pc]
Finish(r) == req' = [req EXCEPT ![r] = Idle]

(* The rest of a request that only revokes, and of one that only signs in. *)
ForceLogout(r) == req' = [req EXCEPT ![r] = [Idle EXCEPT !.op = "forceLogout", !.pc = "sweep"]]
SignIn(r) == req' = [req EXCEPT ![r] = [Idle EXCEPT !.op = "login", !.pc = "insert"]]

(* An id that no request still refers to. *)
FreeSession(s) == ~Live(s) /\ \A r \in Req : req[r].s # s
FreeToken(k) == token[k] = "none" /\ \A r \in Req : req[r].k # k

(* Requests between a write that revokes and the revocation. *)
Revoking ==
    {r \in Req : \/ At(r, "sweep")
                 \/ req[r].op = "reset" /\ req[r].pc \in {"mark", "verify"}}

-----------------------------------------------------------------------------
(* Login and its lockout *)

(* Fault: the lock is not looked at. *)
Locked_Ignored == FALSE

Locked == lockout.locked

(***************************************************************************)
(* An address without an account, an account without a password and a      *)
(* wrong password all count.                                               *)
(***************************************************************************)
Login(r, right) ==
    /\ ~Locked
    /\ right => InOrder /\ account.verified /\ account.hash
    /\ Starts(r, "login", IF right THEN "clear" ELSE "count")
    /\ UNCHANGED <<account, session, token, lockout, ghost>>

(* hincrby, and what it answers decides. *)
Count(r) ==
    /\ At(r, "count")
    /\ LET n == IF lockout.failures < MaxFailures THEN lockout.failures + 1 ELSE MaxFailures
       IN  /\ lockout' = [lockout EXCEPT !.failures = n]
           /\ IF n = MaxFailures THEN Goto(r, "lock") ELSE Finish(r)
    /\ ghost' = IF ghost.lockLost THEN ghost ELSE [ghost EXCEPT !.tries = @ + 1]
    /\ UNCHANGED <<account, session, token>>

Lock(r) ==
    /\ At(r, "lock")
    /\ lockout' = [lockout EXCEPT !.locked = TRUE]
    /\ Finish(r)
    /\ UNCHANGED <<account, session, token, ghost>>

(* clearLockout, on a password that was right when it was read. *)
Clear(r) ==
    /\ At(r, "clear")
    /\ lockout' = NoLockout
    /\ ghost' = [ghost EXCEPT !.tries = 0, !.lockLost = FALSE]
    /\ SignIn(r)
    /\ UNCHANGED <<account, session, token>>

(* handleGoogleLogin, of an identity that has an account. *)
GoogleLogin(r) ==
    /\ account.google /\ InOrder
    /\ Starts(r, "login", "insert")
    /\ UNCHANGED <<account, session, token, lockout, ghost>>

CreateSession(r, s) ==
    /\ At(r, "insert") /\ FreeSession(s)
    /\ session' = [session EXCEPT ![s] = NewSession]
    /\ Finish(r)
    /\ UNCHANGED <<account, token, lockout, ghost>>

-----------------------------------------------------------------------------
(* Mailed links *)

(* resendVerification and forgotPassword; the mail itself is the queue's. *)
Ask(r, for) ==
    /\ ~account.deleted
    /\ for = "VERIFY" => ~account.verified /\ account.row
    /\ req[r].pc = "idle"
    /\ req' = [req EXCEPT ![r] = [Idle EXCEPT !.op = "ask", !.pc = "invalidate", !.for = for]]
    /\ UNCHANGED <<account, session, token, lockout, ghost>>

Invalidate(r) ==
    /\ At(r, "invalidate")
    /\ token' = [k \in Token |-> IF token[k] = req[r].for THEN "none" ELSE token[k]]
    /\ Goto(r, "issue")
    /\ UNCHANGED <<account, session, lockout, ghost>>

Issue(r, k) ==
    /\ At(r, "issue") /\ FreeToken(k)
    /\ token' = [token EXCEPT ![k] = req[r].for]
    /\ Finish(r)
    /\ UNCHANGED <<account, session, lockout, ghost>>

VerifyEmail(r, k) ==
    /\ token[k] = "VERIFY"
    /\ StartsFrom(r, "verify", "mark", k)
    /\ UNCHANGED <<account, session, token, lockout, ghost>>

ResetPassword(r, k) ==
    /\ token[k] = "RESET"
    /\ StartsFrom(r, "reset", IF account.row THEN "password" ELSE "owner", k)
    /\ UNCHANGED <<account, session, token, lockout, ghost>>

(* A first password: findUserById sees no deleted account. *)
FindOwner(r) ==
    /\ At(r, "owner")
    /\ IF account.deleted THEN Finish(r) ELSE Goto(r, "password")
    /\ UNCHANGED <<account, session, token, lockout, ghost>>

(* A write after which the sessions there are have to go. *)
SessionsAge ==
    session' = [s \in Session |-> IF Live(s) THEN [session[s] EXCEPT !.old = TRUE]
                                            ELSE NoSession]

(***************************************************************************)
(* updatePasswordHash; or createEmailAccountWithPassword, which the unique *)
(* index refuses if somebody else was first.                               *)
(***************************************************************************)
WritePassword(r) ==
    /\ At(r, "password")
    /\ IF ~req[r].row /\ account.row
       THEN Finish(r) /\ UNCHANGED <<account, session>>
       ELSE /\ SessionsAge
            /\ account' = [account EXCEPT !.row = TRUE, !.hash = TRUE]
            /\ Goto(r, IF req[r].op = "reset" THEN "mark" ELSE "sweep")
    /\ UNCHANGED <<token, lockout, ghost>>

(* markTokenUsed: whatever has become of it. *)
MarkUsed(r) ==
    /\ At(r, "mark")
    /\ token' = [token EXCEPT ![req[r].k] = "none"]
    /\ Goto(r, "verify")
    /\ UNCHANGED <<account, session, lockout, ghost>>

MarkVerified(r) ==
    /\ At(r, "verify")
    /\ account' = [account EXCEPT !.verified = TRUE]
    /\ IF req[r].op = "reset" THEN ForceLogout(r) ELSE Finish(r)
    /\ UNCHANGED <<session, token, lockout, ghost>>

(* Fault: the caller's own session is spared. *)
Swept_ButOwn(r) == Session \ {req[r].s}

Swept(r) == Session

(* deleteAllUserSessions *)
Sweep(r) ==
    /\ At(r, "sweep")
    /\ session' = [s \in Session |-> IF s \in Swept(r) THEN NoSession ELSE session[s]]
    /\ ghost' = [ghost EXCEPT !.abandoned = FALSE]
    /\ IF req[r].op = "change" THEN SignIn(r) ELSE Finish(r)
    /\ UNCHANGED <<account, token, lockout>>

-----------------------------------------------------------------------------
(* Requests that come with a session *)

(***************************************************************************)
(* validateSession: the session of an account that is out of order is      *)
(* deleted.                                                                *)
(***************************************************************************)
Validate(r, s, op) ==
    /\ Live(s)
    /\ StartsWith(r, op, IF InOrder THEN "touch" ELSE "end", s)
    /\ UNCHANGED <<account, session, token, lockout, ghost>>

(* Fault: deletion is sent to a step that nobody takes. *)
FirstStep_Unrouted(op) ==
    CASE op = "logout" -> "end"
      [] op = "change" -> "current"
      [] op = "reauth" -> "stamp"
      [] op = "emailChange" -> "prove"
      [] op = "selfDelete" -> "delete"

FirstStep(op) ==
    CASE op = "logout" -> "end"
      [] op = "change" -> "current"
      [] op = "reauth" -> "stamp"
      [] op \in {"selfDelete", "emailChange"} -> "prove"

(* updateSessionActivity fails if the row has gone since it was read. *)
Touch(r) ==
    /\ At(r, "touch")
    /\ IF Live(req[r].s) THEN Goto(r, FirstStep(req[r].op)) ELSE Finish(r)
    /\ UNCHANGED <<account, session, token, lockout, ghost>>

(* deleteSession *)
EndSession(r) ==
    /\ At(r, "end")
    /\ session' = [session EXCEPT ![req[r].s] = NoSession]
    /\ Finish(r)
    /\ UNCHANGED <<account, token, lockout, ghost>>

(* changePassword: the current one has to be right. *)
ReadCurrent(r, right) ==
    /\ At(r, "current")
    /\ right => account.hash
    /\ IF right THEN req' = [req EXCEPT ![r].pc = "password", ![r].row = TRUE]
                ELSE Finish(r)
    /\ UNCHANGED <<account, session, token, lockout, ghost>>

(* reauthenticateWithGoogle: the identity is the account's own. *)
Stamp(r) ==
    /\ At(r, "stamp")
    /\ IF account.google /\ Live(req[r].s)
       THEN session' = [session EXCEPT ![req[r].s].reauth = TRUE,
                                       ![req[r].s].credit = 1]
       ELSE UNCHANGED session
    /\ Finish(r)
    /\ UNCHANGED <<account, token, lockout, ghost>>

(* The caller of assertRecentlyAuthenticated goes on; the rest of an       *)
(* e-mail change belongs to Identities.                                    *)
Authorised(r) == IF req[r].op = "selfDelete" THEN Goto(r, "anonymise") ELSE Finish(r)

(* assertRecentlyAuthenticated: a right password is proof enough. *)
Prove(r, right) ==
    /\ At(r, "prove")
    /\ right => account.hash
    /\ IF right THEN Authorised(r) ELSE Goto(r, "consume")
    /\ UNCHANGED <<account, session, token, lockout, ghost>>

(* Fault: the proof is read and stays. *)
Spent_Kept(row) == [row EXCEPT !.credit = @ - 1]

Spent(row) == [row EXCEPT !.reauth = FALSE, !.credit = @ - 1]

(* consumeSessionReauthentication: one conditional UPDATE. *)
Consume(r) ==
    /\ At(r, "consume")
    /\ IF Live(req[r].s) /\ session[req[r].s].reauth
       THEN session' = [session EXCEPT ![req[r].s] = Spent(@)] /\ Authorised(r)
       ELSE Finish(r) /\ UNCHANGED session
    /\ UNCHANGED <<account, token, lockout, ghost>>

-----------------------------------------------------------------------------
(* Suspension, revocation and deletion *)

(* The administrator's requests, and the account as they read it. *)
Administer(r, op) ==
    /\ op = "anonymise" => ~account.deleted
    /\ Starts(r, op, CASE op = "forceLogout" -> "sweep"
                       [] op \in {"suspend", "unsuspend", "anonymise"} -> op)
    /\ UNCHANGED <<account, session, token, lockout, ghost>>

Suspend(r) ==
    /\ At(r, "suspend")
    /\ SessionsAge
    /\ account' = [account EXCEPT !.suspended = TRUE]
    /\ ForceLogout(r)
    /\ UNCHANGED <<token, lockout, ghost>>

Unsuspend(r) ==
    /\ At(r, "unsuspend")
    /\ account' = [account EXCEPT !.suspended = FALSE]
    /\ Finish(r)
    /\ UNCHANGED <<session, token, lockout, ghost>>

Anonymise(r) ==
    /\ At(r, "anonymise")
    /\ account' = [account EXCEPT !.deleted = TRUE, !.suspended = TRUE]
    /\ Goto(r, "forget")
    /\ UNCHANGED <<session, token, lockout, ghost>>

(* clearStoredPasswords *)
Forget(r) ==
    /\ At(r, "forget")
    /\ SessionsAge
    /\ account' = [account EXCEPT !.hash = FALSE]
    /\ ForceLogout(r)
    /\ UNCHANGED <<token, lockout, ghost>>

-----------------------------------------------------------------------------
(* Time and failure *)

LinkExpires(k) ==
    /\ token[k] # "none"
    /\ token' = [token EXCEPT ![k] = "none"]
    /\ UNCHANGED <<account, session, lockout, req, ghost>>

ReauthExpires(s) ==
    /\ Live(s) /\ session[s].reauth
    /\ session' = [session EXCEPT ![s].reauth = FALSE, ![s].credit = 0]
    /\ UNCHANGED <<account, token, lockout, req, ghost>>

(* Found expired by the request that comes with it. *)
SessionExpires(s) ==
    /\ Live(s)
    /\ session' = [session EXCEPT ![s] = NoSession]
    /\ UNCHANGED <<account, token, lockout, req, ghost>>

(* locked_until passes before the key expires, if a failure was counted late. *)
LockPasses ==
    /\ lockout.locked
    /\ lockout' = [lockout EXCEPT !.locked = FALSE]
    /\ ghost' = [ghost EXCEPT !.tries = 0]
    /\ UNCHANGED <<account, session, token, req>>

KeyExpires ==
    /\ lockout # NoLockout
    /\ lockout' = NoLockout
    /\ ghost' = [ghost EXCEPT !.tries = 0, !.lockLost = FALSE]
    /\ UNCHANGED <<account, session, token, req>>

(* The database or Redis fails, or the process is gone. *)
Die(r) ==
    /\ MayFail /\ req[r].pc # "idle"
    /\ ghost' = [ghost EXCEPT
           !.abandoned = @ \/ r \in Revoking,
           !.lockLost = @ \/ At(r, "lock"),
           !.tries = IF At(r, "lock") THEN 0 ELSE @]
    /\ Finish(r)
    /\ UNCHANGED <<account, session, token, lockout>>

-----------------------------------------------------------------------------
Init ==
    /\ account \in {a \in Account :
           /\ ~a.suspended /\ ~a.deleted /\ (a.row \/ a.google)
           /\ a.hash = a.row
           /\ a.google => a.verified}
    /\ session = [s \in Session |-> NoSession]
    /\ token = [k \in Token |-> "none"]
    /\ lockout = NoLockout
    /\ req = [r \in Req |-> Idle]
    /\ ghost = [abandoned |-> FALSE, tries |-> 0, lockLost |-> FALSE]

Anonymous(r) ==
    \/ \E right \in BOOLEAN : Login(r, right)
    \/ GoogleLogin(r)
    \/ \E for \in {"VERIFY", "RESET"} : Ask(r, for)
    \/ \E k \in Token : VerifyEmail(r, k) \/ ResetPassword(r, k)

Signed(r) ==
    \E s \in Session, op \in {"logout", "change", "reauth", "selfDelete", "emailChange"} :
        Validate(r, s, op)

Step(r) ==
    \/ Count(r) \/ Lock(r) \/ Clear(r)
    \/ \E s \in Session : CreateSession(r, s)
    \/ Invalidate(r)
    \/ \E k \in Token : Issue(r, k)
    \/ FindOwner(r) \/ WritePassword(r) \/ MarkUsed(r) \/ MarkVerified(r) \/ Sweep(r)
    \/ Touch(r) \/ EndSession(r)
    \/ \E right \in BOOLEAN : ReadCurrent(r, right) \/ Prove(r, right)
    \/ Stamp(r) \/ Consume(r)
    \/ Suspend(r) \/ Unsuspend(r) \/ Anonymise(r) \/ Forget(r)
    \/ Die(r)

Time ==
    \/ \E k \in Token : LinkExpires(k)
    \/ \E s \in Session : ReauthExpires(s) \/ SessionExpires(s)
    \/ LockPasses \/ KeyExpires

Next ==
    \/ \E r \in Req :
        \/ Anonymous(r) \/ Signed(r)
        \/ \E op \in {"suspend", "unsuspend", "forceLogout", "anonymise"} : Administer(r, op)
        \/ Step(r)
    \/ Time

Spec == Init /\ [][Next]_vars
-----------------------------------------------------------------------------
(* Properties *)

TypeOK ==
    /\ account \in Account
    /\ session \in [Session -> Row \cup {NoSession}]
    /\ token \in [Token -> Link]
    /\ lockout \in Lockout
    /\ req \in [Req -> Request]
    /\ ghost \in Ghost

(***************************************************************************)
(* A session that was there when the password changed or the account was   *)
(* suspended or deleted is there only while some request is on its way to  *)
(* revoke it, or because one died there: however changes, resets, logins   *)
(* and suspensions overlap.                                                *)
(***************************************************************************)
SessionsAreRevoked ==
    (\E s \in Session : Live(s) /\ session[s].old) => Revoking # {} \/ ghost.abandoned

(***************************************************************************)
(* One re-authentication with Google authorises at most one deletion or    *)
(* change of e-mail, whatever requests of the session race.                *)
(***************************************************************************)
OneActionPerProof == \A s \in Session : Live(s) => session[s].credit >= 0

(***************************************************************************)
(* Between two locks at most MaxFailures wrong passwords are counted, and  *)
(* one for every other request in flight: logins that race with the lock   *)
(* do not let more through, unless a lock could not be written.            *)
(***************************************************************************)
AttemptsAreBounded == ghost.tries <= MaxFailures - 1 + Cardinality(Req)

(***************************************************************************)
(* "Clears the stored password of an anonymised account": it gets none     *)
(* afterwards.                                                             *)
(***************************************************************************)
DeletedHoldsNoPassword ==
    [][account.deleted /\ ~account.hash => ~account'.hash]_vars
=============================================================================
