----------------------------- MODULE Identities -----------------------------
(***************************************************************************)
(* To whom an address and a Google identity belong: signup by e-mail and   *)
(* through Google, linking and disconnecting, verification, first and      *)
(* later passwords, the change of an address, and the deletion of an       *)
(* account, whose claims are released when somebody signs up with them.    *)
(*                                                                         *)
(* Each awaited statement is a step; consecutive reads of one handler are  *)
(* one.  A row is written by its id or by its user; the unique indexes on  *)
(* users(email) and on auth_accounts(provider, id) are looked at by every  *)
(* insert and update.  The password typed is the right one, and whoever    *)
(* needs a session has one.  Usernames, ages, consents, the rows of        *)
(* pending signups and the mail itself are left out; a request that is     *)
(* refused stutters.                                                       *)
(*                                                                         *)
(* A definition whose name has an underscore is a fault.                   *)
(***************************************************************************)
EXTENDS Naturals

CONSTANTS
    User,      \* rows of the table of users
    Address,   \* e-mail addresses
    Google,    \* identities at Google
    RowId,     \* rows of auth_accounts
    Token,     \* rows of the table of verification tokens
    Req,       \* requests in flight
    None

ASSUME ConstantsAssumption ==
    None \notin User \cup Address \cup Google \cup RowId \cup Token

VARIABLES
    user,      \* the users
    row,       \* the auth accounts
    token,     \* the unused and unexpired links
    req        \* the requests

vars == <<user, row, token, req>>

-----------------------------------------------------------------------------
(* Data *)

(***************************************************************************)
(* proof is a ghost, of the address the user has now: "shown", by a link   *)
(* mailed to it or by an identity for which Google has confirmed it;       *)
(* "given", by Google at signup, unconfirmed; or "none".                   *)
(***************************************************************************)
UserRow ==
    [state : {"none", "live", "deleted"}, email : Address \cup {None},
     pending : Address \cup {None}, verified : BOOLEAN,
     proof : {"none", "given", "shown"}]

NoUser == [state |-> "none", email |-> None, pending |-> None,
           verified |-> FALSE, proof |-> "none"]

NewUser(a, verified, proof) ==
    [state |-> "live", email |-> a, pending |-> None,
     verified |-> verified, proof |-> proof]

AuthAccount ==
    [user : User, provider : {"EMAIL"}, id : Address, hash : BOOLEAN]
    \cup [user : User, provider : {"GOOGLE"}, id : Google, hash : {FALSE}]

NoRow == [user |-> None]

Kind == {"VERIFY", "RESET", "CHANGE", "LINK"}

(* to: the address the link was mailed to, or the one Google gave. *)
Link == [kind : Kind, user : User, to : Address, google : Google \cup {None}]
NoLink == [kind |-> "none"]

Op == {"register", "google", "link", "verify", "ask", "reset", "change",
       "confirm", "disconnect", "anonymise"}

Request ==
    [op : Op \cup {None},
     pc : {"idle", "release", "create", "issue", "lookup", "invalidate",
           "add", "mark", "verify", "hash", "owner", "first", "pending", "apply",
           "delete", "anonymise", "forget"},
     u : User \cup {None}, a : Address \cup {None},
     at : Address \cup {None},    \* the address the owner had when it was read
     g : Google \cup {None}, w : RowId \cup {None}, k : Token \cup {None},
     kind : Kind \cup {None}, holder : User \cup {None}]

Idle == [op |-> None, pc |-> "idle", u |-> None, a |-> None, at |-> None, g |-> None,
         w |-> None, k |-> None, kind |-> None, holder |-> None]

Rows(u) == {w \in RowId : row[w].user = u}
EmailRows(u) == {w \in Rows(u) : row[w].provider = "EMAIL"}
Holding(provider, id) ==
    {w \in RowId : row[w] # NoRow /\ row[w].provider = provider /\ row[w].id = id}

(* findUserByEmail does not see deleted users, the unique index does. *)
FoundBy(a) == {u \in User : user[u].state = "live" /\ user[u].email = a}
EmailInUse(a) == \E u \in User : user[u].email = a

(* Fault: an account that was never verified is as good as deleted. *)
Gone_Unverified(u) == user[u].state = "deleted" \/ ~user[u].verified

Gone(u) == user[u].state = "deleted"

(* Whose claims u has to have released first: a deleted holder's, or nobody's. *)
Stale(u, provider, id) ==
    LET gone == {w \in Holding(provider, id) : row[w].user # u /\ Gone(row[w].user)}
    IN  IF gone = {} THEN {None} ELSE {row[w].user : w \in gone}

NoLiveClaim(u, a) == \A w \in Holding("EMAIL", a) : row[w].user = u \/ Gone(row[w].user)

Start(r, request) == req[r].pc = "idle" /\ req' = [req EXCEPT ![r] = request]
At(r, pc) == req[r].pc = pc
Goto(r, pc) == req' = [req EXCEPT ![r].pc = pc]
Finish(r) == req' = [req EXCEPT ![r] = Idle]

FreeRow(w) == row[w] = NoRow /\ \A r \in Req : req[r].w # w
FreeToken(k) == token[k] = NoLink /\ \A r \in Req : req[r].k # k

-----------------------------------------------------------------------------
(* Signup by e-mail *)

Register(r, a) ==
    /\ FoundBy(a) = {}
    /\ \E holder \in Stale(None, "EMAIL", a) :
           Start(r, [Idle EXCEPT !.op = "register", !.a = a, !.holder = holder,
                                 !.pc = IF holder = None THEN "create" ELSE "release"])
    /\ UNCHANGED <<user, row, token>>

(* releaseIdentityClaims: everything the holder has. *)
Release(r) ==
    /\ At(r, "release")
    /\ row' = [w \in RowId |-> IF row[w].user = req[r].holder THEN NoRow ELSE row[w]]
    /\ req' = [req EXCEPT ![r].holder = None,
                          ![r].pc = CASE req[r].op = "register" -> "create"
                                      [] req[r].op = "google" -> "lookup"
                                      [] req[r].op = "confirm" -> "apply"]
    /\ UNCHANGED <<user, token>>

(* createUserWithEmailAccount: user and row together, or neither. *)
CreateWithEmail(r, u, w) ==
    /\ At(r, "create") /\ req[r].op = "register"
    /\ user[u] = NoUser /\ FreeRow(w)
    /\ IF EmailInUse(req[r].a) \/ Holding("EMAIL", req[r].a) # {}
       THEN Finish(r) /\ UNCHANGED <<user, row>>
       ELSE /\ user' = [user EXCEPT ![u] = NewUser(req[r].a, FALSE, "none")]
            /\ row' = [row EXCEPT ![w] = [user |-> u, provider |-> "EMAIL",
                                          id |-> req[r].a, hash |-> TRUE]]
            /\ req' = [req EXCEPT ![r].pc = "issue", ![r].u = u, ![r].kind = "VERIFY"]
    /\ UNCHANGED token

-----------------------------------------------------------------------------
(* Links *)

(* resendVerification, forgotPassword *)
Ask(r, u, kind) ==
    /\ user[u].state = "live"
    /\ kind = "VERIFY" => ~user[u].verified /\ EmailRows(u) # {}
    /\ Start(r, [Idle EXCEPT !.op = "ask", !.pc = "invalidate", !.u = u,
                             !.a = user[u].email, !.kind = kind])
    /\ UNCHANGED <<user, row, token>>

Invalidate(r) ==
    /\ At(r, "invalidate")
    /\ token' = [k \in Token |->
           IF token[k] # NoLink /\ token[k].user = req[r].u /\ token[k].kind = req[r].kind
           THEN NoLink ELSE token[k]]
    /\ Goto(r, "issue")
    /\ UNCHANGED <<user, row>>

Issue(r, k) ==
    /\ At(r, "issue") /\ FreeToken(k)
    /\ token' = [token EXCEPT ![k] = [kind |-> req[r].kind, user |-> req[r].u,
                                      to |-> req[r].a, google |-> req[r].g]]
    /\ Finish(r)
    /\ UNCHANGED <<user, row>>

(* findVerificationToken *)
Finds(k, kind) == token[k] # NoLink /\ token[k].kind = kind

(* Fault: the metadata of the link is not looked at. *)
Follow_Bare(k, op, pc) ==
    [Idle EXCEPT !.op = op, !.pc = pc, !.k = k, !.u = token[k].user, !.a = token[k].to]

Follow(k, op, pc) ==
    [Idle EXCEPT !.op = op, !.pc = pc, !.k = k, !.u = token[k].user, !.a = token[k].to,
                 !.g = token[k].google]

(* Fault: a link of any kind will do. *)
VerifyEmail_AnyKind(r, k) ==
    /\ token[k] # NoLink
    /\ Start(r, Follow(k, "verify", "mark"))
    /\ UNCHANGED <<user, row, token>>

VerifyEmail(r, k) ==
    /\ Finds(k, "VERIFY")
    /\ Start(r, Follow(k, "verify", "mark"))
    /\ UNCHANGED <<user, row, token>>

(* markTokenUsed; sure: Google has confirmed the address it gave. *)
MarkUsed(r, sure) ==
    /\ At(r, "mark")
    /\ token' = [token EXCEPT ![req[r].k] = NoLink]
    /\ IF req[r].op = "confirm" \/ (req[r].op = "link" /\ ~sure)
       THEN Finish(r) ELSE Goto(r, "verify")
    /\ UNCHANGED <<user, row>>

(* markEmailVerified, of the address the user has by now. *)
MarkVerified(r) ==
    /\ At(r, "verify")
    /\ user' = [user EXCEPT ![req[r].u].verified = TRUE,
                            ![req[r].u].proof =
                                IF user[req[r].u].email = req[r].a THEN "shown" ELSE @]
    /\ Finish(r)
    /\ UNCHANGED <<row, token>>

-----------------------------------------------------------------------------
(* Passwords *)

ResetPassword(r, k) ==
    /\ Finds(k, "RESET")
    /\ IF EmailRows(token[k].user) = {}
       THEN Start(r, Follow(k, "reset", "owner"))
       ELSE \E w \in EmailRows(token[k].user) :
                Start(r, [Follow(k, "reset", "hash") EXCEPT !.w = w])
    /\ UNCHANGED <<user, row, token>>

WriteHash(r) ==
    /\ At(r, "hash")
    /\ IF row[req[r].w] = NoRow
       THEN Finish(r) /\ UNCHANGED row
       ELSE row' = [row EXCEPT ![req[r].w].hash = TRUE] /\ Goto(r, "mark")
    /\ UNCHANGED <<user, token>>

(* A first password: the row will be for the address the owner has now. *)
FindOwner(r) ==
    /\ At(r, "owner")
    /\ IF user[req[r].u].state = "live"
       THEN req' = [req EXCEPT ![r].pc = "first", ![r].at = user[req[r].u].email]
       ELSE Finish(r)
    /\ UNCHANGED <<user, row, token>>

(* createEmailAccountWithPassword *)
FirstPassword(r, w) ==
    /\ At(r, "first") /\ FreeRow(w)
    /\ IF Holding("EMAIL", req[r].at) # {}
       THEN Finish(r) /\ UNCHANGED row
       ELSE /\ row' = [row EXCEPT ![w] = [user |-> req[r].u, provider |-> "EMAIL",
                                          id |-> req[r].at, hash |-> TRUE]]
            /\ Goto(r, "mark")
    /\ UNCHANGED <<user, token>>

-----------------------------------------------------------------------------
(* Google *)

(***************************************************************************)
(* handleGoogleLogin, of an identity without a living account; signup says *)
(* whether the visitor comes from a pending signup.                        *)
(***************************************************************************)
GoogleCallback(r, g, a, signup) ==
    /\ \A w \in Holding("GOOGLE", g) : signup /\ Gone(row[w].user)
    /\ \E holder \in Stale(None, "GOOGLE", g) :
           Start(r, [Idle EXCEPT !.op = "google", !.g = g, !.a = a,
                                 !.holder = holder,
                                 !.pc = IF holder = None THEN "lookup" ELSE "release"])
    /\ UNCHANGED <<user, row, token>>

(* An account with the address is offered a link, a pending signup is used. *)
GoogleLookup(r, signup) ==
    /\ At(r, "lookup")
    /\ \/ \E u \in FoundBy(req[r].a) :
             req' = [req EXCEPT ![r].pc = "invalidate", ![r].u = u, ![r].kind = "LINK"]
       \/ FoundBy(req[r].a) = {} /\ (IF signup THEN Goto(r, "create") ELSE Finish(r))
    /\ UNCHANGED <<user, row, token>>

(* createUserWithOAuthAccount: verified, whether or not Google is sure. *)
CreateWithGoogle(r, u, w, sure) ==
    /\ At(r, "create") /\ req[r].op = "google"
    /\ user[u] = NoUser /\ FreeRow(w)
    /\ IF EmailInUse(req[r].a) \/ Holding("GOOGLE", req[r].g) # {}
       THEN UNCHANGED <<user, row>>
       ELSE /\ user' = [user EXCEPT ![u] = NewUser(req[r].a, TRUE,
                                                           IF sure THEN "shown" ELSE "given")]
            /\ row' = [row EXCEPT ![w] = [user |-> u, provider |-> "GOOGLE",
                                          id |-> req[r].g, hash |-> FALSE]]
    /\ Finish(r)
    /\ UNCHANGED token

(* linkGoogleAccount, with the password of the account. *)
LinkGoogle(r, k) ==
    /\ Finds(k, "LINK")
    /\ \E w \in EmailRows(token[k].user) : row[w].hash
    /\ Start(r, Follow(k, "link", "add"))
    /\ UNCHANGED <<user, row, token>>

AddGoogle(r, w) ==
    /\ At(r, "add") /\ FreeRow(w)
    /\ IF Holding("GOOGLE", req[r].g) # {}
       THEN Finish(r) /\ UNCHANGED row
       ELSE /\ row' = [row EXCEPT ![w] = [user |-> req[r].u, provider |-> "GOOGLE",
                                          id |-> req[r].g, hash |-> FALSE]]
            /\ Goto(r, "mark")
    /\ UNCHANGED <<user, token>>

(***************************************************************************)
(* disconnectAccount: another row has to be good for signing in.           *)
(***************************************************************************)
Disconnect(r, u, w) ==
    /\ user[u].state = "live" /\ w \in Rows(u)
    /\ \E v \in Rows(u) \ {w} : row[v].provider # "EMAIL" \/ row[v].hash
    /\ Start(r, [Idle EXCEPT !.op = "disconnect", !.pc = "delete", !.u = u, !.w = w])
    /\ UNCHANGED <<user, row, token>>

DeleteRow(r) ==
    /\ At(r, "delete")
    /\ row' = [row EXCEPT ![req[r].w] = NoRow]
    /\ Finish(r)
    /\ UNCHANGED <<user, token>>

-----------------------------------------------------------------------------
(* The change of an address *)

RequestEmailChange(r, u, a) ==
    /\ user[u].state = "live"
    /\ ~EmailInUse(a)
    /\ NoLiveClaim(u, a)
    /\ Start(r, [Idle EXCEPT !.op = "change", !.pc = "pending", !.u = u, !.a = a,
                             !.kind = "CHANGE"])
    /\ UNCHANGED <<user, row, token>>

SetPending(r) ==
    /\ At(r, "pending")
    /\ user' = [user EXCEPT ![req[r].u].pending = req[r].a]
    /\ Goto(r, "invalidate")
    /\ UNCHANGED <<row, token>>

(* confirmEmailChange: the link is for the change that is pending. *)
ConfirmEmailChange(r, k) ==
    /\ Finds(k, "CHANGE") /\ user[token[k].user].pending = token[k].to
    /\ ~EmailInUse(token[k].to)
    /\ NoLiveClaim(token[k].user, token[k].to)
    /\ \E holder \in Stale(token[k].user, "EMAIL", token[k].to) :
           Start(r, [Follow(k, "confirm", IF holder = None THEN "apply" ELSE "release")
                         EXCEPT !.holder = holder])
    /\ UNCHANGED <<user, row, token>>

(***************************************************************************)
(* applyEmailChange: the user and its EMAIL rows in one transaction, which *)
(* an index may refuse.                                                    *)
(***************************************************************************)
ApplyEmailChange(r) ==
    /\ At(r, "apply")
    /\ LET u == req[r].u
           mine == EmailRows(u)
       IN  IF \/ \E v \in User \ {u} : user[v].email = req[r].a
              \/ mine # {} /\ Holding("EMAIL", req[r].a) \ mine # {}
              \/ \E v, w \in mine : v # w
           THEN Finish(r) /\ UNCHANGED <<user, row>>
           ELSE /\ user' = [user EXCEPT ![u].email = req[r].a, ![u].pending = None,
                                        ![u].proof = "shown"]
                /\ row' = [w \in RowId |-> IF w \in mine THEN [row[w] EXCEPT !.id = req[r].a]
                                                        ELSE row[w]]
                /\ Goto(r, "mark")
    /\ UNCHANGED token

-----------------------------------------------------------------------------
(* anonymiseAccount, of the person or of an administrator *)

Delete(r, u) ==
    /\ user[u].state = "live"
    /\ Start(r, [Idle EXCEPT !.op = "anonymise", !.pc = "anonymise", !.u = u])
    /\ UNCHANGED <<user, row, token>>

Anonymise(r) ==
    /\ At(r, "anonymise")
    /\ user' = [user EXCEPT ![req[r].u] = [@ EXCEPT !.state = "deleted", !.email = None,
                                                    !.pending = None, !.proof = "none"]]
    /\ Goto(r, "forget")
    /\ UNCHANGED <<row, token>>

(* clearStoredPasswords: the rows stay. *)
Forget(r) ==
    /\ At(r, "forget")
    /\ row' = [w \in RowId |-> IF w \in Rows(req[r].u) THEN [row[w] EXCEPT !.hash = FALSE]
                                                      ELSE row[w]]
    /\ Finish(r)
    /\ UNCHANGED <<user, token>>

-----------------------------------------------------------------------------
(* Time and failure *)

LinkExpires(k) ==
    /\ token[k] # NoLink
    /\ token' = [token EXCEPT ![k] = NoLink]
    /\ UNCHANGED <<user, row, req>>

Die(r) ==
    /\ req[r].pc # "idle"
    /\ Finish(r)
    /\ UNCHANGED <<user, row, token>>

-----------------------------------------------------------------------------
Init ==
    /\ user = [u \in User |-> NoUser]
    /\ row = [w \in RowId |-> NoRow]
    /\ token = [k \in Token |-> NoLink]
    /\ req = [r \in Req |-> Idle]

Arrive(r) ==
    \/ \E a \in Address : Register(r, a)
    \/ \E g \in Google, a \in Address, signup \in BOOLEAN :
           GoogleCallback(r, g, a, signup)
    \/ \E k \in Token : \/ VerifyEmail(r, k) \/ ResetPassword(r, k)
                        \/ LinkGoogle(r, k) \/ ConfirmEmailChange(r, k)
    \/ \E u \in User :
           \/ \E kind \in {"VERIFY", "RESET"} : Ask(r, u, kind)
           \/ \E a \in Address : RequestEmailChange(r, u, a)
           \/ \E w \in RowId : Disconnect(r, u, w)
           \/ Delete(r, u)

Continue(r) ==
    \/ Release(r)
    \/ \E signup \in BOOLEAN : GoogleLookup(r, signup)
    \/ \E u \in User, w \in RowId : CreateWithEmail(r, u, w)
    \/ \E u \in User, w \in RowId, sure \in BOOLEAN : CreateWithGoogle(r, u, w, sure)
    \/ \E w \in RowId : FirstPassword(r, w) \/ AddGoogle(r, w)
    \/ Invalidate(r) \/ MarkVerified(r)
    \/ \E sure \in BOOLEAN : MarkUsed(r, sure)
    \/ \E k \in Token : Issue(r, k)
    \/ WriteHash(r) \/ FindOwner(r) \/ SetPending(r) \/ ApplyEmailChange(r)
    \/ DeleteRow(r) \/ Anonymise(r) \/ Forget(r)
    \/ Die(r)

Next ==
    \/ \E r \in Req : Arrive(r) \/ Continue(r)
    \/ \E k \in Token : LinkExpires(k)

Spec == Init /\ [][Next]_vars
-----------------------------------------------------------------------------
(* Properties *)

TypeOK ==
    /\ user \in [User -> UserRow]
    /\ row \in [RowId -> AuthAccount \cup {NoRow}]
    /\ token \in [Token -> Link \cup {NoLink}]
    /\ req \in [Req -> Request]

(***************************************************************************)
(* Nobody's signup or change of address takes a way to sign in from a      *)
(* living user: their rows go only when they disconnect them themselves.   *)
(***************************************************************************)
LiveClaimsStand ==
    [][\A w \in RowId :
         row[w] # NoRow /\ user[row[w].user].state = "live" /\ row'[w] = NoRow
             => \E r \in Req : /\ At(r, "delete") /\ req[r].w = w
                              /\ req[r].u = row[w].user]_vars

(***************************************************************************)
(* A verified user has shown that the address they have now is theirs: not *)
(* the one they had, the one they asked for, or one a link was replaced    *)
(* by, whatever links and changes are under way.  What is let pass is the  *)
(* address of a Google signup, kept since: createUserWithOAuthAccount      *)
(* takes it as verified although Google has not confirmed it.              *)
(***************************************************************************)
Verified(u) == user[u].state = "live" /\ user[u].verified

AddressVouched == \A u \in User : Verified(u) => user[u].proof # "none"

(***************************************************************************)
(* An identity Google itself has not confirmed marks no address verified,  *)
(* as google.strategy.ts says: a verified user has shown that the address  *)
(* is theirs.                                                              *)
(***************************************************************************)
AddressProved == \A u \in User : Verified(u) => user[u].proof = "shown"
=============================================================================
