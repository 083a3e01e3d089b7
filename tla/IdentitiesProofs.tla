-------------------------- MODULE IdentitiesProofs --------------------------
(***************************************************************************)
(* Machine-checked theorems about Identities, for every set of users,      *)
(* addresses, identities, rows, links and requests.                        *)
(***************************************************************************)
EXTENDS Identities, TLAPS

-----------------------------------------------------------------------------
(* The inductive invariant *)

LinkSteps == {"invalidate", "issue"}
FollowSteps == {"hash", "owner", "first", "add", "mark", "verify"}

(* What a request at a step has found out on its way. *)
Knows(q) ==
    /\ q.pc \in LinkSteps \cup FollowSteps \cup {"pending", "apply", "delete", "anonymise", "forget"}
           => q.u \in User
    /\ q.pc \in LinkSteps \cup FollowSteps \cup {"release", "create", "lookup", "pending", "apply"}
           => q.a \in Address
    /\ q.pc \in LinkSteps => q.kind \in Kind /\ (q.kind = "LINK" => q.g \in Google)
    /\ q.pc = "pending" => q.kind = "CHANGE"
    /\ q.pc = "release" => q.op \in {"register", "google", "confirm"}
    /\ q.pc = "release" /\ q.op = "confirm" => q.u \in User
    /\ q.pc = "release" /\ q.op = "google" => q.g \in Google
    /\ q.pc = "lookup" \/ (q.pc = "create" /\ q.op = "google") \/ q.pc = "add" => q.g \in Google
    /\ q.pc = "apply" => q.op = "confirm"
    /\ q.pc \in FollowSteps \ {"mark"} => q.op # "confirm"
    /\ q.pc = "first" => q.at \in Address
    /\ q.pc \in {"hash", "delete"} => q.w \in RowId

(***************************************************************************)
(* us are the users.  A link mailed to a says something about u: as long   *)
(* nothing speaks for the address of u, a is the address u has.                        *)
(***************************************************************************)
Fits(u, a, us) ==
    /\ us[u].state # "none"
    /\ us[u].state = "live" /\ us[u].proof = "none" => us[u].email = a

(* What a request takes for granted of users and rows it has read. *)
Relies(q, us, rs) ==
    /\ q.pc = "release" => q.holder \in User /\ us[q.holder].state = "deleted"
    /\ q.pc = "hash" => rs[q.w] = NoRow \/ rs[q.w].provider = "EMAIL"
    /\ q.pc = "delete" => rs[q.w] = NoRow \/ rs[q.w].user = q.u
    /\ q.pc \in LinkSteps /\ q.kind # "CHANGE" => Fits(q.u, q.a, us)
    /\ q.pc \in FollowSteps /\ q.op # "confirm" => Fits(q.u, q.a, us)

SoundUser(x) == x.state = "live" => x.email \in Address /\ (x.verified => x.proof # "none")

SoundLink(l, us) ==
    l # NoLink => /\ l.kind = "LINK" => l.google \in Google
                  /\ l.kind # "CHANGE" => Fits(l.user, l.to, us)

IInv ==
    /\ TypeOK
    /\ \A r \in Req : Knows(req[r]) /\ Relies(req[r], user, row)
    /\ \A u \in User : SoundUser(user[u])
    /\ \A k \in Token : SoundLink(token[k], user)

-----------------------------------------------------------------------------
(* What a step may do to what others rely on *)

(* A user who is deleted stays deleted, and no link stops to fit. *)
UsersGrow ==
    \A u \in User : /\ user[u].state = "deleted" => user'[u].state = "deleted"
                    /\ \A a \in Address : Fits(u, a, user) => Fits(u, a, user')

(* A row that a request has read goes or keeps its provider and its user. *)
RowsGrow ==
    \A w \in RowId : (\E r \in Req : req[r].w = w) =>
        \/ row'[w] = NoRow
        \/ row[w] # NoRow /\ row'[w].provider = row[w].provider /\ row'[w].user = row[w].user

LEMMA Types ==
    ASSUME IInv
    PROVE  /\ user \in [User -> UserRow] /\ row \in [RowId -> AuthAccount \cup {NoRow}]
           /\ token \in [Token -> Link \cup {NoLink}] /\ req \in [Req -> Request]
           /\ \A r \in Req : req[r] \in Request /\ Knows(req[r]) /\ Relies(req[r], user, row)
           /\ \A u \in User : user[u] \in UserRow /\ SoundUser(user[u])
           /\ \A k \in Token : token[k] \in Link \cup {NoLink} /\ SoundLink(token[k], user)
           /\ \A w \in RowId : row[w] \in AuthAccount \cup {NoRow}
  BY DEF IInv, TypeOK

EmailRow == [user : User, provider : {"EMAIL"}, id : Address, hash : BOOLEAN]
GoogleRow == [user : User, provider : {"GOOGLE"}, id : Google, hash : {FALSE}]

LEMMA RowTypes ==
    ASSUME NEW x \in AuthAccount
    PROVE  /\ x # NoRow /\ x.user \in User
           /\ x \in EmailRow \/ x \in GoogleRow
           /\ x.provider = "EMAIL" => x \in EmailRow
<1>1. x.user \in User /\ NoRow.user = None
  BY DEF AuthAccount, NoRow
<1>2. x # NoRow
  BY <1>1, ConstantsAssumption
<1>3. x \in EmailRow \/ x \in GoogleRow
  BY DEF AuthAccount, EmailRow, GoogleRow
<1>4. x \in GoogleRow => x.provider = "GOOGLE"
  BY DEF GoogleRow
<1> QED BY <1>1, <1>2, <1>3, <1>4

(* A row stays a row when its password, or the address of an EMAIL row, changes. *)
LEMMA RowChanges ==
    ASSUME NEW x \in AuthAccount
    PROVE  /\ LET y == [x EXCEPT !.hash = FALSE]
              IN  y \in AuthAccount /\ y.user = x.user /\ y.provider = x.provider
           /\ x.provider = "EMAIL" =>
                 LET y == [x EXCEPT !.hash = TRUE]
                 IN  y \in AuthAccount /\ y.user = x.user /\ y.provider = x.provider
           /\ \A a \in Address : x.provider = "EMAIL" =>
                 LET y == [x EXCEPT !.id = a]
                 IN  y \in AuthAccount /\ y.user = x.user /\ y.provider = x.provider
<1>1. x \in EmailRow \/ x \in GoogleRow
  BY RowTypes
<1>2. [x EXCEPT !.hash = FALSE] \in AuthAccount
  BY <1>1 DEF AuthAccount, EmailRow, GoogleRow
<1>3. ASSUME x.provider = "EMAIL" PROVE [x EXCEPT !.hash = TRUE] \in AuthAccount
  BY <1>3, RowTypes DEF AuthAccount, EmailRow
<1>4. ASSUME NEW a \in Address, x.provider = "EMAIL" PROVE [x EXCEPT !.id = a] \in AuthAccount
  BY <1>4, RowTypes DEF AuthAccount, EmailRow
<1> QED BY <1>1, <1>2, <1>3, <1>4 DEF EmailRow, GoogleRow

LEMMA LinkTypes ==
    ASSUME NEW l \in Link
    PROVE  /\ l # NoLink /\ l.kind \in Kind /\ l.user \in User /\ l.to \in Address
  BY DEF Link, NoLink, Kind

LEMMA ReliesGrow ==
    ASSUME NEW q \in Request, Knows(q), Relies(q, user, row), UsersGrow, RowsGrow,
           \E r \in Req : req[r] = q,
           \A u \in User : user[u] \in UserRow
    PROVE  Relies(q, user', row')
<1>1. ASSUME q.a \in Address, q.u \in User, Fits(q.u, q.a, user) PROVE Fits(q.u, q.a, user')
  BY <1>1 DEF UsersGrow
<1>2. q.pc = "release" => q.holder \in User /\ user'[q.holder].state = "deleted"
  BY DEF Relies, UsersGrow
<1>3. q.pc = "hash" => row'[q.w] = NoRow \/ row'[q.w].provider = "EMAIL"
  BY DEF Relies, Knows, RowsGrow
<1>4. q.pc = "delete" => row'[q.w] = NoRow \/ row'[q.w].user = q.u
  BY DEF Relies, Knows, RowsGrow
<1>5. q.pc \in LinkSteps /\ q.kind # "CHANGE" => Fits(q.u, q.a, user')
  BY <1>1 DEF Relies, Knows
<1>6. q.pc \in FollowSteps /\ q.op # "confirm" => Fits(q.u, q.a, user')
  BY <1>1 DEF Relies, Knows, FollowSteps
<1> QED BY <1>2, <1>3, <1>4, <1>5, <1>6 DEF Relies

LEMMA StepKeeps ==
    ASSUME IInv, NEW r \in Req, NEW q \in Request, req' = [req EXCEPT ![r] = q],
           Knows(q), Relies(q, user', row'),
           user' \in [User -> UserRow], row' \in [RowId -> AuthAccount \cup {NoRow}],
           token' \in [Token -> Link \cup {NoLink}],
           UsersGrow, RowsGrow,
           \A u \in User : SoundUser(user'[u]),
           \A k \in Token : SoundLink(token'[k], user')
    PROVE  IInv'
<1>1. /\ req \in [Req -> Request] /\ req' \in [Req -> Request]
      /\ req'[r] = q /\ \A p \in Req \ {r} : req'[p] = req[p]
  BY Types
<1>2. TypeOK'
  BY <1>1 DEF TypeOK
<1>3. ASSUME NEW p \in Req PROVE Knows(req'[p]) /\ Relies(req'[p], user', row')
  <2>1. CASE p = r
    BY <1>1, <2>1
  <2>2. CASE p # r
    <3>1. req'[p] = req[p] /\ Knows(req[p]) /\ Relies(req[p], user, row) /\ req[p] \in Request
      BY <1>1, <2>2, Types
    <3>2. Relies(req[p], user', row')
      BY <3>1, ReliesGrow, Types
    <3> QED BY <3>1, <3>2
  <2> QED BY <2>1, <2>2
<1> QED BY <1>2, <1>3 DEF IInv

LEMMA Unmoved ==
    ASSUME IInv
    PROVE  /\ UNCHANGED user => UsersGrow /\ \A u \in User : SoundUser(user'[u])
           /\ UNCHANGED row => RowsGrow
           /\ UNCHANGED <<user, token>> => \A k \in Token : SoundLink(token'[k], user')
<1>1. UNCHANGED row => RowsGrow
  BY Types, RowTypes DEF RowsGrow, NoRow
<1> QED BY <1>1, Types DEF UsersGrow

(* A link still fits when users grow. *)
LEMMA LinksGrow ==
    ASSUME IInv, UsersGrow
    PROVE  \A k \in Token : SoundLink(token[k], user')
<1> SUFFICES ASSUME NEW k \in Token, token[k] # NoLink PROVE SoundLink(token[k], user')
  BY DEF SoundLink
<1>1. token[k] \in Link /\ SoundLink(token[k], user)
  BY Types
<1> QED BY <1>1, LinkTypes DEF SoundLink, UsersGrow

(* A step that only reads. *)
LEMMA QuietKeeps ==
    ASSUME IInv, NEW r \in Req, NEW q \in Request, req' = [req EXCEPT ![r] = q],
           Knows(q), Relies(q, user, row), UNCHANGED <<user, row, token>>
    PROVE  IInv'
  BY StepKeeps, Unmoved, Types

(* A step that only writes links. *)
LEMMA LinkWriteKeeps ==
    ASSUME IInv, NEW r \in Req, NEW q \in Request, req' = [req EXCEPT ![r] = q],
           Knows(q), Relies(q, user, row), UNCHANGED <<user, row>>,
           token' \in [Token -> Link \cup {NoLink}],
           \A k \in Token : SoundLink(token'[k], user)
    PROVE  IInv'
  BY StepKeeps, Unmoved, Types

(* A step that only writes rows. *)
LEMMA RowWriteKeeps ==
    ASSUME IInv, NEW r \in Req, NEW q \in Request, req' = [req EXCEPT ![r] = q],
           Knows(q), Relies(q, user, row'), UNCHANGED <<user, token>>,
           row' \in [RowId -> AuthAccount \cup {NoRow}], RowsGrow
    PROVE  IInv'
  BY StepKeeps, Unmoved, Types

(* A step that only writes users. *)
LEMMA UserWriteKeeps ==
    ASSUME IInv, NEW r \in Req, NEW q \in Request, req' = [req EXCEPT ![r] = q],
           Knows(q), Relies(q, user', row), UNCHANGED <<row, token>>,
           user' \in [User -> UserRow], UsersGrow, \A u \in User : SoundUser(user'[u])
    PROVE  IInv'
  BY StepKeeps, Unmoved, LinksGrow, Types

LEMMA IdleType ==
    Idle \in Request /\ Knows(Idle) /\ \A us, rs : Relies(Idle, us, rs)
<1>1. Idle \in Request /\ Idle.pc = "idle"
  BY DEF Idle, Request
<1> QED BY <1>1 DEF Knows, Relies, LinkSteps, FollowSteps

LEMMA FinishKeeps ==
    ASSUME IInv, NEW r \in Req, Finish(r), UNCHANGED <<user, row, token>>
    PROVE  IInv'
  BY IdleType, QuietKeeps DEF Finish

LEMMA StaleMeans ==
    ASSUME IInv, NEW u, NEW provider, NEW id, NEW holder \in Stale(u, provider, id)
    PROVE  holder = None \/ (holder \in User /\ user[holder].state = "deleted")
<1> DEFINE gone == {w \in Holding(provider, id) : row[w].user # u /\ Gone(row[w].user)}
<1>1. ASSUME NEW w \in gone PROVE row[w].user \in User /\ user[row[w].user].state = "deleted"
  <2>1. row[w] \in AuthAccount
    BY Types DEF Holding
  <2> QED BY <2>1, RowTypes DEF Gone
<1> QED BY <1>1 DEF Stale

-----------------------------------------------------------------------------
(* Requests that begin *)

LEMMA RegisterKeeps ==
    ASSUME IInv, NEW r \in Req, NEW a \in Address, Register(r, a) PROVE IInv'
<1>1. PICK holder \in Stale(None, "EMAIL", a) :
          req' = [req EXCEPT ![r] =
                     [Idle EXCEPT !.op = "register", !.a = a, !.holder = holder,
                                  !.pc = IF holder = None THEN "create" ELSE "release"]]
  BY DEF Register, Start
<1> DEFINE q == [Idle EXCEPT !.op = "register", !.a = a, !.holder = holder,
                             !.pc = IF holder = None THEN "create" ELSE "release"]
<1>2. holder = None \/ (holder \in User /\ user[holder].state = "deleted")
  BY StaleMeans
<1>3. q \in Request
  BY <1>2 DEF Idle, Request, Op
<1>4. /\ q.op = "register" /\ q.a = a /\ q.holder = holder
      /\ q.pc = IF holder = None THEN "create" ELSE "release"
  BY DEF Idle
<1> HIDE DEF q
<1>5. Knows(q) /\ Relies(q, user, row)
  BY <1>2, <1>4 DEF Knows, Relies, LinkSteps, FollowSteps
<1> QED BY <1>1, <1>3, <1>5, QuietKeeps DEF Register, q

LEMMA GoogleCallbackKeeps ==
    ASSUME IInv, NEW r \in Req, NEW g \in Google, NEW a \in Address, NEW signup \in BOOLEAN,
           GoogleCallback(r, g, a, signup)
    PROVE  IInv'
<1>1. PICK holder \in Stale(None, "GOOGLE", g) :
          req' = [req EXCEPT ![r] =
                     [Idle EXCEPT !.op = "google", !.g = g, !.a = a, !.holder = holder,
                                  !.pc = IF holder = None THEN "lookup" ELSE "release"]]
  BY DEF GoogleCallback, Start
<1> DEFINE q == [Idle EXCEPT !.op = "google", !.g = g, !.a = a, !.holder = holder,
                             !.pc = IF holder = None THEN "lookup" ELSE "release"]
<1>2. holder = None \/ (holder \in User /\ user[holder].state = "deleted")
  BY StaleMeans
<1>3. q \in Request
  BY <1>2 DEF Idle, Request, Op
<1>4. /\ q.op = "google" /\ q.g = g /\ q.a = a /\ q.holder = holder
      /\ q.pc = IF holder = None THEN "lookup" ELSE "release"
  BY DEF Idle
<1> HIDE DEF q
<1>5. Knows(q) /\ Relies(q, user, row)
  BY <1>2, <1>4 DEF Knows, Relies, LinkSteps, FollowSteps
<1> QED BY <1>1, <1>3, <1>5, QuietKeeps DEF GoogleCallback, q

(* Who follows a link knows what the link says. *)
LEMMA FollowMeans ==
    ASSUME IInv, NEW k \in Token, token[k] # NoLink, NEW op \in Op \ {"confirm"},
           NEW pc \in {"mark", "hash", "owner", "add"}, token[k].kind # "CHANGE",
           pc = "add" => token[k].kind = "LINK"
    PROVE  LET q == Follow(k, op, pc)
           IN  /\ q \in Request /\ q.pc = pc /\ q.op = op
               /\ q.u \in User /\ q.a \in Address
               /\ q.u = token[k].user
               /\ pc = "add" => q.g \in Google
               /\ Fits(q.u, q.a, user)
<1> DEFINE q == Follow(k, op, pc)
<1>1. token[k] \in Link /\ SoundLink(token[k], user)
  BY Types
<1>2. /\ token[k].user \in User /\ token[k].to \in Address
      /\ token[k].google \in Google \cup {None}
      /\ Fits(token[k].user, token[k].to, user)
      /\ pc = "add" => token[k].google \in Google
  BY <1>1 DEF SoundLink, Link
<1>3. q \in Request
  BY <1>2 DEF Follow, Idle, Request
<1>4. /\ q.pc = pc /\ q.op = op /\ q.u = token[k].user /\ q.a = token[k].to
      /\ q.g = token[k].google
  BY DEF Follow, Idle
<1> QED BY <1>2, <1>3, <1>4

LEMMA FollowKeeps ==
    ASSUME IInv, NEW r \in Req, NEW k \in Token, token[k] # NoLink,
           NEW op \in Op \ {"confirm"}, NEW pc \in {"mark", "owner", "add"},
           token[k].kind # "CHANGE", pc = "add" => token[k].kind = "LINK",
           Start(r, Follow(k, op, pc)), UNCHANGED <<user, row, token>>
    PROVE  IInv'
<1> DEFINE q == Follow(k, op, pc)
<1>1. /\ q \in Request /\ q.pc = pc /\ q.op = op /\ q.u \in User /\ q.a \in Address
      /\ pc = "add" => q.g \in Google
      /\ Fits(q.u, q.a, user)
  BY FollowMeans
<1>2. req' = [req EXCEPT ![r] = q]
  BY DEF Start
<1> HIDE DEF q
<1>3. Knows(q) /\ Relies(q, user, row)
  BY <1>1 DEF Knows, Relies, LinkSteps, FollowSteps
<1> QED BY <1>1, <1>2, <1>3, QuietKeeps

LEMMA LinkFollowed ==
    ASSUME IInv, NEW r \in Req, NEW k \in Token,
           VerifyEmail(r, k) \/ LinkGoogle(r, k)
    PROVE  IInv'
<1>1. CASE VerifyEmail(r, k)
  BY <1>1, FollowKeeps DEF VerifyEmail, Finds, Op
<1>2. CASE LinkGoogle(r, k)
  BY <1>2, FollowKeeps DEF LinkGoogle, Finds, Op
<1> QED BY <1>1, <1>2

LEMMA ResetPasswordKeeps ==
    ASSUME IInv, NEW r \in Req, NEW k \in Token, ResetPassword(r, k) PROVE IInv'
<1>1. token[k] # NoLink /\ token[k].kind = "RESET" /\ UNCHANGED <<user, row, token>>
  BY DEF ResetPassword, Finds
<1>2. CASE Start(r, Follow(k, "reset", "owner"))
  BY <1>1, <1>2, FollowKeeps DEF Op
<1>3. ASSUME NEW w \in EmailRows(token[k].user),
             Start(r, [Follow(k, "reset", "hash") EXCEPT !.w = w])
      PROVE  IInv'
  <2> DEFINE f == Follow(k, "reset", "hash")
             q == [f EXCEPT !.w = w]
  <2>1. /\ f \in Request /\ f.pc = "hash" /\ f.op = "reset" /\ f.u \in User
        /\ f.a \in Address /\ Fits(f.u, f.a, user)
    BY <1>1, FollowMeans DEF Op
  <2>2. w \in RowId /\ row[w].provider = "EMAIL"
    BY DEF EmailRows, Rows
  <2>3. req' = [req EXCEPT ![r] = q]
    BY <1>3 DEF Start
  <2> HIDE DEF f
  <2>4. /\ q \in Request /\ q.pc = "hash" /\ q.op = "reset" /\ q.u = f.u /\ q.a = f.a /\ q.w = w
    BY <2>1, <2>2 DEF Request
  <2> HIDE DEF q
  <2>5. Knows(q) /\ Relies(q, user, row)
    BY <2>1, <2>2, <2>4 DEF Knows, Relies, LinkSteps, FollowSteps
  <2> QED BY <1>1, <2>3, <2>4, <2>5, QuietKeeps
<1> QED BY <1>2, <1>3 DEF ResetPassword

LEMMA ConfirmKeeps ==
    ASSUME IInv, NEW r \in Req, NEW k \in Token, ConfirmEmailChange(r, k) PROVE IInv'
<1>1. PICK holder \in Stale(token[k].user, "EMAIL", token[k].to) :
          Start(r, [Follow(k, "confirm", IF holder = None THEN "apply" ELSE "release")
                        EXCEPT !.holder = holder])
  BY DEF ConfirmEmailChange
<1> DEFINE q == [Follow(k, "confirm", IF holder = None THEN "apply" ELSE "release")
                     EXCEPT !.holder = holder]
<1>2. holder = None \/ (holder \in User /\ user[holder].state = "deleted")
  BY StaleMeans
<1>3. token[k] \in Link
  BY Types DEF ConfirmEmailChange, Finds
<1>4. /\ token[k].user \in User /\ token[k].to \in Address
      /\ token[k].google \in Google \cup {None}
  BY <1>3 DEF Link
<1>5. q \in Request
  BY <1>2, <1>4 DEF Follow, Idle, Request, Op
<1>6. /\ q.op = "confirm" /\ q.u = token[k].user /\ q.a = token[k].to /\ q.holder = holder
      /\ q.pc = IF holder = None THEN "apply" ELSE "release"
  BY DEF Follow, Idle
<1> HIDE DEF q
<1>7. Knows(q) /\ Relies(q, user, row)
  BY <1>2, <1>4, <1>6 DEF Knows, Relies, LinkSteps, FollowSteps
<1> QED BY <1>1, <1>5, <1>7, QuietKeeps DEF ConfirmEmailChange, Start, q

LEMMA UserTypes ==
    ASSUME IInv, NEW u \in User, user[u].state = "live"
    PROVE  user[u].email \in Address /\ Fits(u, user[u].email, user)
  BY Types DEF SoundUser, Fits

LEMMA AskKeeps ==
    ASSUME IInv, NEW r \in Req, NEW u \in User, NEW kind \in {"VERIFY", "RESET"}, Ask(r, u, kind)
    PROVE  IInv'
<1> DEFINE q == [Idle EXCEPT !.op = "ask", !.pc = "invalidate", !.u = u,
                             !.a = user[u].email, !.kind = kind]
<1>1. user[u].email \in Address /\ Fits(u, user[u].email, user)
  BY UserTypes DEF Ask
<1>2. q \in Request
  BY <1>1 DEF Idle, Request, Op, Kind
<1>3. q.op = "ask" /\ q.pc = "invalidate" /\ q.u = u /\ q.a = user[u].email /\ q.kind = kind
  BY DEF Idle
<1>4. req' = [req EXCEPT ![r] = q]
  BY DEF Ask, Start
<1> HIDE DEF q
<1>5. Knows(q) /\ Relies(q, user, row)
  BY <1>1, <1>3 DEF Knows, Relies, LinkSteps, FollowSteps, Kind
<1> QED BY <1>2, <1>4, <1>5, QuietKeeps DEF Ask

LEMMA RequestEmailChangeKeeps ==
    ASSUME IInv, NEW r \in Req, NEW u \in User, NEW a \in Address, RequestEmailChange(r, u, a)
    PROVE  IInv'
<1> DEFINE q == [Idle EXCEPT !.op = "change", !.pc = "pending", !.u = u, !.a = a, !.kind = "CHANGE"]
<1>1. q \in Request
  BY DEF Idle, Request, Op, Kind
<1>2. q.op = "change" /\ q.pc = "pending" /\ q.u = u /\ q.a = a /\ q.kind = "CHANGE"
  BY DEF Idle
<1>3. req' = [req EXCEPT ![r] = q]
  BY DEF RequestEmailChange, Start
<1> HIDE DEF q
<1>4. Knows(q) /\ Relies(q, user, row)
  BY <1>2 DEF Knows, Relies, LinkSteps, FollowSteps
<1> QED BY <1>1, <1>3, <1>4, QuietKeeps DEF RequestEmailChange

LEMMA DisconnectKeeps ==
    ASSUME IInv, NEW r \in Req, NEW u \in User, NEW w \in RowId, Disconnect(r, u, w)
    PROVE  IInv'
<1> DEFINE q == [Idle EXCEPT !.op = "disconnect", !.pc = "delete", !.u = u, !.w = w]
<1>1. q \in Request
  BY DEF Idle, Request, Op
<1>2. q.op = "disconnect" /\ q.pc = "delete" /\ q.u = u /\ q.w = w
  BY DEF Idle
<1>3. row[w].user = u /\ req' = [req EXCEPT ![r] = q]
  BY DEF Disconnect, Start, Rows
<1> HIDE DEF q
<1>4. Knows(q) /\ Relies(q, user, row)
  BY <1>2, <1>3 DEF Knows, Relies, LinkSteps, FollowSteps
<1> QED BY <1>1, <1>3, <1>4, QuietKeeps DEF Disconnect

LEMMA DeleteKeeps ==
    ASSUME IInv, NEW r \in Req, NEW u \in User, Delete(r, u) PROVE IInv'
<1> DEFINE q == [Idle EXCEPT !.op = "anonymise", !.pc = "anonymise", !.u = u]
<1>1. q \in Request
  BY DEF Idle, Request, Op
<1>2. q.op = "anonymise" /\ q.pc = "anonymise" /\ q.u = u
  BY DEF Idle
<1>3. req' = [req EXCEPT ![r] = q]
  BY DEF Delete, Start
<1> HIDE DEF q
<1>4. Knows(q) /\ Relies(q, user, row)
  BY <1>2 DEF Knows, Relies, LinkSteps, FollowSteps
<1> QED BY <1>1, <1>3, <1>4, QuietKeeps DEF Delete

LEMMA ArriveKeeps == ASSUME IInv, NEW r \in Req, Arrive(r) PROVE IInv'
  BY RegisterKeeps, GoogleCallbackKeeps, LinkFollowed, ResetPasswordKeeps, ConfirmKeeps,
     AskKeeps, RequestEmailChangeKeeps, DisconnectKeeps, DeleteKeeps
  DEF Arrive

-----------------------------------------------------------------------------
(* Steps that only read, or only write links *)

(* From one of the steps after a link was found to another one. *)
LEMMA OnwardSound ==
    ASSUME IInv, NEW r \in Req, NEW pc \in {"mark", "verify"}, NEW us, NEW rs,
           req[r].pc \in FollowSteps,
           req[r].op # "confirm", Relies(req[r], us, rs)
    PROVE  LET q == [req[r] EXCEPT !.pc = pc]
           IN  q \in Request /\ Knows(q) /\ Relies(q, us, rs)
<1> DEFINE q == [req[r] EXCEPT !.pc = pc]
<1>1. req[r] \in Request /\ Knows(req[r])
  BY Types
<1>2. /\ q \in Request /\ q.pc = pc /\ q.op = req[r].op /\ q.u = req[r].u /\ q.a = req[r].a
      /\ q.kind = req[r].kind
  BY <1>1, Types DEF Request
<1> HIDE DEF q
<1>3. Fits(q.u, q.a, us)
  BY <1>2 DEF Relies
<1>4. Knows(q)
  BY <1>1, <1>2 DEF Knows, LinkSteps, FollowSteps
<1>5. Relies(q, us, rs)
  BY <1>2, <1>3 DEF Relies, LinkSteps
<1> QED BY <1>2, <1>4, <1>5 DEF q

LEMMA InvalidateKeeps == ASSUME IInv, NEW r \in Req, Invalidate(r) PROVE IInv'
<1> DEFINE q == [req[r] EXCEPT !.pc = "issue"]
<1>1. req[r] \in Request /\ Knows(req[r]) /\ Relies(req[r], user, row) /\ req[r].pc = "invalidate"
  BY Types DEF Invalidate, At
<1>2. /\ q \in Request /\ q.pc = "issue" /\ q.op = req[r].op /\ q.u = req[r].u /\ q.a = req[r].a
      /\ q.kind = req[r].kind /\ q.g = req[r].g
  BY <1>1, Types DEF Request
<1>3. req' = [req EXCEPT ![r] = q]
  BY Types DEF Invalidate, Goto
<1> HIDE DEF q
<1>4. Knows(q) /\ Relies(q, user, row)
  BY <1>1, <1>2 DEF Knows, Relies, LinkSteps, FollowSteps
<1>5. /\ token' \in [Token -> Link \cup {NoLink}]
      /\ \A k \in Token : token'[k] = token[k] \/ token'[k] = NoLink
  BY Types DEF Invalidate
<1>6. \A k \in Token : SoundLink(token'[k], user)
  BY <1>5, Types DEF SoundLink
<1> QED BY <1>2, <1>3, <1>4, <1>5, <1>6, LinkWriteKeeps DEF Invalidate

LEMMA IssueKeeps ==
    ASSUME IInv, NEW r \in Req, NEW k \in Token, Issue(r, k) PROVE IInv'
<1> DEFINE l == [kind |-> req[r].kind, user |-> req[r].u, to |-> req[r].a, google |-> req[r].g]
<1>1. req[r] \in Request /\ Knows(req[r]) /\ Relies(req[r], user, row) /\ req[r].pc = "issue"
  BY Types DEF Issue, At
<1>2. l \in Link /\ SoundLink(l, user)
  BY <1>1 DEF Request, Knows, Relies, SoundLink, Link, LinkSteps
<1>3. /\ token' \in [Token -> Link \cup {NoLink}]
      /\ token'[k] = l /\ \A x \in Token \ {k} : token'[x] = token[x]
  BY <1>2, Types DEF Issue
<1>4. \A x \in Token : SoundLink(token'[x], user)
  BY <1>2, <1>3, Types
<1> QED BY <1>3, <1>4, LinkWriteKeeps, IdleType DEF Issue, Finish

LEMMA MarkUsedKeeps ==
    ASSUME IInv, NEW r \in Req, NEW sure \in BOOLEAN, MarkUsed(r, sure) PROVE IInv'
<1>1. /\ token' \in [Token -> Link \cup {NoLink}]
      /\ \A k \in Token : token'[k] = token[k] \/ token'[k] = NoLink
  BY Types DEF MarkUsed
<1>2. \A k \in Token : SoundLink(token'[k], user)
  BY <1>1, Types DEF SoundLink
<1>3. CASE Finish(r)
  BY <1>1, <1>2, <1>3, LinkWriteKeeps, IdleType DEF MarkUsed, Finish
<1>4. CASE Goto(r, "verify") /\ req[r].op # "confirm"
  <2>1. req[r].pc \in FollowSteps /\ Relies(req[r], user, row)
    BY Types DEF MarkUsed, At, FollowSteps
  <2>2. /\ [req[r] EXCEPT !.pc = "verify"] \in Request
        /\ Knows([req[r] EXCEPT !.pc = "verify"])
        /\ Relies([req[r] EXCEPT !.pc = "verify"], user, row)
    BY <1>4, <2>1, OnwardSound
  <2>3. req' = [req EXCEPT ![r] = [req[r] EXCEPT !.pc = "verify"]]
    BY <1>4, Types DEF Goto
  <2> QED BY <1>1, <1>2, <2>2, <2>3, LinkWriteKeeps DEF MarkUsed
<1> QED BY <1>3, <1>4 DEF MarkUsed

LEMMA FindOwnerKeeps == ASSUME IInv, NEW r \in Req, FindOwner(r) PROVE IInv'
<1>1. req[r] \in Request /\ Knows(req[r]) /\ Relies(req[r], user, row) /\ req[r].pc = "owner"
  BY Types DEF FindOwner, At
<1>2. CASE user[req[r].u].state = "live"
  <2> DEFINE at == user[req[r].u].email
             q == [req[r] EXCEPT !.pc = "first", !.at = at]
  <2>1. req[r].u \in User
    BY <1>1 DEF Knows, LinkSteps, FollowSteps
  <2>2. at \in Address
    BY <1>2, <2>1, UserTypes
  <2>3. req' = [req EXCEPT ![r] = q]
    BY <1>2, Types DEF FindOwner
  <2> HIDE DEF at
  <2>4. q \in Request /\ q.pc = "first" /\ q.op = req[r].op /\ q.u = req[r].u /\ q.a = req[r].a /\ q.at = at
    <3>1. q \in Request
      BY <1>1, <2>2, Zenon DEF Request
    <3>2. q.pc = "first" /\ q.op = req[r].op /\ q.u = req[r].u /\ q.a = req[r].a /\ q.at = at
      BY <1>1, Zenon DEF Request
    <3> QED BY <3>1, <3>2, Zenon
  <2> HIDE DEF q
  <2>5. Knows(q) /\ Relies(q, user, row)
    BY <1>1, <2>1, <2>2, <2>4 DEF Knows, Relies, LinkSteps, FollowSteps
  <2> QED BY <2>3, <2>4, <2>5, QuietKeeps DEF FindOwner
<1> QED BY <1>2, FinishKeeps DEF FindOwner

LEMMA GoogleLookupKeeps ==
    ASSUME IInv, NEW r \in Req, NEW signup \in BOOLEAN, GoogleLookup(r, signup) PROVE IInv'
<1>1. req[r] \in Request /\ Knows(req[r]) /\ Relies(req[r], user, row) /\ req[r].pc = "lookup"
  BY Types DEF GoogleLookup, At
<1>2. ASSUME NEW u \in FoundBy(req[r].a),
             req' = [req EXCEPT ![r].pc = "invalidate", ![r].u = u, ![r].kind = "LINK"]
      PROVE  IInv'
  <2> DEFINE q == [req[r] EXCEPT !.pc = "invalidate", !.u = u, !.kind = "LINK"]
  <2>1. u \in User /\ Fits(u, req[r].a, user)
    BY UserTypes DEF FoundBy
  <2>2. req' = [req EXCEPT ![r] = q]
    BY <1>2, Types
  <2>3. /\ q \in Request /\ q.pc = "invalidate" /\ q.op = req[r].op /\ q.u = u /\ q.a = req[r].a
        /\ q.kind = "LINK" /\ q.g = req[r].g
    <3>1. q \in Request
      BY <1>1, <2>1, Zenon DEF Request, Kind
    <3>2. /\ q.pc = "invalidate" /\ q.op = req[r].op /\ q.u = u /\ q.a = req[r].a
          /\ q.kind = "LINK" /\ q.g = req[r].g
      BY <1>1, Zenon DEF Request
    <3> QED BY <3>1, <3>2, Zenon
  <2> HIDE DEF q
  <2>4. Knows(q) /\ Relies(q, user, row)
    BY <1>1, <2>1, <2>3 DEF Knows, Relies, LinkSteps, FollowSteps, Kind
  <2> QED BY <2>2, <2>3, <2>4, QuietKeeps DEF GoogleLookup
<1>3. CASE Goto(r, "create")
  <2> DEFINE q == [req[r] EXCEPT !.pc = "create"]
  <2>1. /\ q \in Request /\ q.pc = "create" /\ q.op = req[r].op /\ q.a = req[r].a /\ q.g = req[r].g
    BY <1>1, Types DEF Request
  <2>2. req' = [req EXCEPT ![r] = q]
    BY <1>3, Types DEF Goto
  <2> HIDE DEF q
  <2>3. Knows(q) /\ Relies(q, user, row)
    BY <1>1, <2>1 DEF Knows, Relies, LinkSteps, FollowSteps
  <2> QED BY <2>1, <2>2, <2>3, QuietKeeps DEF GoogleLookup
<1> QED BY <1>2, <1>3, FinishKeeps DEF GoogleLookup

-----------------------------------------------------------------------------
(* Steps that write rows *)

(* A row that no request refers to can be written. *)
LEMMA FreeRowGrows ==
    ASSUME IInv, NEW w \in RowId, FreeRow(w), NEW x \in AuthAccount,
           row' = [row EXCEPT ![w] = x]
    PROVE  row' \in [RowId -> AuthAccount \cup {NoRow}] /\ RowsGrow
<1>1. /\ row' \in [RowId -> AuthAccount \cup {NoRow}]
      /\ \A v \in RowId \ {w} : row'[v] = row[v]
      /\ \A r \in Req : req[r].w # w
  BY Types DEF FreeRow
<1> QED BY <1>1 DEF RowsGrow

(* A row that goes. *)
LEMMA GoneRowGrows ==
    ASSUME IInv, row' \in [RowId -> AuthAccount \cup {NoRow}],
           \A w \in RowId : row'[w] = NoRow \/ row'[w] = row[w]
    PROVE  RowsGrow
  BY DEF RowsGrow

LEMMA ReleaseKeeps == ASSUME IInv, NEW r \in Req, Release(r) PROVE IInv'
<1>1. req[r] \in Request /\ Knows(req[r]) /\ Relies(req[r], user, row) /\ req[r].pc = "release"
  BY Types DEF Release, At
<1>2. /\ req[r].op \in {"register", "google", "confirm"} /\ req[r].a \in Address
      /\ req[r].op = "confirm" => req[r].u \in User
      /\ req[r].op = "google" => req[r].g \in Google
  BY <1>1 DEF Knows, LinkSteps, FollowSteps
<1>3. PICK pc \in {"create", "lookup", "apply"} :
        /\ req' = [req EXCEPT ![r].holder = None, ![r].pc = pc]
        /\ req[r].op = "google" => pc = "lookup"
        /\ req[r].op = "confirm" <=> pc = "apply"
        /\ pc = "lookup" => req[r].op = "google"
  BY <1>2 DEF Release
<1> DEFINE q == [req[r] EXCEPT !.holder = None, !.pc = pc]
<1>4. req' = [req EXCEPT ![r] = q]
  BY <1>3, Types
<1> DEFINE x == [req[r] EXCEPT !.holder = None]
<1>5. /\ x \in Request /\ x.op = req[r].op /\ x.u = req[r].u /\ x.a = req[r].a
      /\ x.g = req[r].g
  BY <1>1 DEF Request
<1>6. q = [x EXCEPT !.pc = pc]
  OBVIOUS
<1> HIDE DEF q, x
<1>7. /\ q \in Request /\ q.pc = pc /\ q.op = req[r].op /\ q.u = req[r].u /\ q.a = req[r].a
      /\ q.g = req[r].g
  BY <1>5, <1>6 DEF Request
<1>8. Knows(q) /\ Relies(q, user, row')
  BY <1>2, <1>3, <1>7 DEF Knows, Relies, LinkSteps, FollowSteps
<1>9. /\ row' \in [RowId -> AuthAccount \cup {NoRow}]
      /\ \A w \in RowId : row'[w] = NoRow \/ row'[w] = row[w]
  BY Types DEF Release
<1> QED BY <1>4, <1>7, <1>8, <1>9, GoneRowGrows, RowWriteKeeps DEF Release

LEMMA DeleteRowKeeps == ASSUME IInv, NEW r \in Req, DeleteRow(r) PROVE IInv'
<1>1. /\ row' \in [RowId -> AuthAccount \cup {NoRow}]
      /\ \A w \in RowId : row'[w] = NoRow \/ row'[w] = row[w]
  BY Types DEF DeleteRow
<1> QED BY <1>1, GoneRowGrows, RowWriteKeeps, IdleType DEF DeleteRow, Finish

LEMMA ForgetKeeps == ASSUME IInv, NEW r \in Req, Forget(r) PROVE IInv'
<1>1. ASSUME NEW w \in RowId
      PROVE  /\ row'[w] \in AuthAccount \cup {NoRow}
             /\ row'[w] = row[w] \/ (/\ row[w] # NoRow /\ row'[w].provider = row[w].provider
                                     /\ row'[w].user = row[w].user)
  <2>1. CASE w \in Rows(req[r].u)
    <3>1. row'[w] = [row[w] EXCEPT !.hash = FALSE]
      BY <2>1 DEF Forget
    <3>2. req[r].u \in User
      BY Types DEF Forget, At, Knows, LinkSteps, FollowSteps
    <3>3. row[w] # NoRow
      BY <2>1, <3>2, ConstantsAssumption DEF Rows, NoRow
    <3>4. row[w] \in AuthAccount
      BY <3>3, Types
    <3> QED BY <3>1, <3>3, <3>4, RowChanges
  <2>2. CASE w \notin Rows(req[r].u)
    BY <2>2, Types DEF Forget
  <2> QED BY <2>1, <2>2
<1>2. row' \in [RowId -> AuthAccount \cup {NoRow}]
  BY <1>1 DEF Forget
<1>3. RowsGrow
  BY <1>1, Types DEF RowsGrow
<1> QED BY <1>2, <1>3, RowWriteKeeps, IdleType DEF Forget, Finish

LEMMA WriteHashKeeps == ASSUME IInv, NEW r \in Req, WriteHash(r) PROVE IInv'
<1>1. req[r] \in Request /\ Knows(req[r]) /\ Relies(req[r], user, row) /\ req[r].pc = "hash"
  BY Types DEF WriteHash, At
<1>2. CASE row[req[r].w] # NoRow
  <2> DEFINE w == req[r].w
             x == [row[w] EXCEPT !.hash = TRUE]
             q == [req[r] EXCEPT !.pc = "mark"]
  <2>1. w \in RowId /\ row[w] \in AuthAccount /\ row[w].provider = "EMAIL"
    BY <1>1, <1>2, Types DEF Knows, Relies
  <2>2. x \in AuthAccount /\ x.user = row[w].user /\ x.provider = row[w].provider
    BY <2>1, RowChanges
  <2>3. row' = [row EXCEPT ![w] = x] /\ req' = [req EXCEPT ![r] = q]
    BY <1>2, <2>1, Types DEF WriteHash, Goto
  <2>4. q \in Request /\ q.pc = "mark" /\ q.op = req[r].op /\ q.u = req[r].u /\ q.a = req[r].a
    BY <1>1 DEF Request
  <2> HIDE DEF w, x, q
  <2>5. Knows(q) /\ Relies(q, user, row')
    BY <1>1, <2>4 DEF Knows, Relies, LinkSteps, FollowSteps
  <2>6. /\ row' \in [RowId -> AuthAccount \cup {NoRow}]
        /\ row'[w] = x /\ \A v \in RowId \ {w} : row'[v] = row[v]
    BY <2>1, <2>2, <2>3, Types
  <2>7. RowsGrow
    BY <1>2, <2>2, <2>6, Types DEF RowsGrow, w
  <2> QED BY <1>2, <2>3, <2>4, <2>5, <2>6, <2>7, RowWriteKeeps DEF WriteHash
<1>3. CASE row[req[r].w] = NoRow
  BY <1>3, FinishKeeps DEF WriteHash
<1> QED BY <1>2, <1>3

LEMMA FirstPasswordKeeps ==
    ASSUME IInv, NEW r \in Req, NEW w \in RowId, FirstPassword(r, w) PROVE IInv'
<1>1. req[r] \in Request /\ Knows(req[r]) /\ Relies(req[r], user, row) /\ req[r].pc = "first"
  BY Types DEF FirstPassword, At
<1>2. CASE Holding("EMAIL", req[r].at) = {}
  <2> DEFINE x == [user |-> req[r].u, provider |-> "EMAIL", id |-> req[r].at, hash |-> TRUE]
             q == [req[r] EXCEPT !.pc = "mark"]
  <2>1. x \in AuthAccount
    BY <1>1 DEF Knows, LinkSteps, FollowSteps, AuthAccount
  <2>2. row' = [row EXCEPT ![w] = x] /\ req' = [req EXCEPT ![r] = q]
    BY <1>2, Types DEF FirstPassword, Goto
  <2>3. q \in Request /\ q.pc = "mark" /\ q.op = req[r].op /\ q.u = req[r].u /\ q.a = req[r].a
    BY <1>1 DEF Request
  <2> HIDE DEF x, q
  <2>4. Knows(q) /\ Relies(q, user, row')
    BY <1>1, <2>3 DEF Knows, Relies, LinkSteps, FollowSteps
  <2> QED BY <2>1, <2>2, <2>3, <2>4, FreeRowGrows, RowWriteKeeps DEF FirstPassword
<1> QED BY <1>2, FinishKeeps DEF FirstPassword

LEMMA AddGoogleKeeps ==
    ASSUME IInv, NEW r \in Req, NEW w \in RowId, AddGoogle(r, w) PROVE IInv'
<1>1. req[r] \in Request /\ Knows(req[r]) /\ Relies(req[r], user, row) /\ req[r].pc = "add"
  BY Types DEF AddGoogle, At
<1>2. CASE Holding("GOOGLE", req[r].g) = {}
  <2> DEFINE x == [user |-> req[r].u, provider |-> "GOOGLE", id |-> req[r].g, hash |-> FALSE]
             q == [req[r] EXCEPT !.pc = "mark"]
  <2>1. x \in AuthAccount
    BY <1>1 DEF Knows, LinkSteps, FollowSteps, AuthAccount
  <2>2. row' = [row EXCEPT ![w] = x] /\ req' = [req EXCEPT ![r] = q]
    BY <1>2, Types DEF AddGoogle, Goto
  <2>3. q \in Request /\ q.pc = "mark" /\ q.op = req[r].op /\ q.u = req[r].u /\ q.a = req[r].a
    BY <1>1 DEF Request
  <2> HIDE DEF x, q
  <2>4. Knows(q) /\ Relies(q, user, row')
    BY <1>1, <2>3 DEF Knows, Relies, LinkSteps, FollowSteps
  <2> QED BY <2>1, <2>2, <2>3, <2>4, FreeRowGrows, RowWriteKeeps DEF AddGoogle
<1> QED BY <1>2, FinishKeeps DEF AddGoogle

-----------------------------------------------------------------------------
(* Steps that write users *)

(* One user is written. *)
LEMMA UserGrows ==
    ASSUME IInv, NEW u \in User, NEW x \in UserRow, user' = [user EXCEPT ![u] = x],
           SoundUser(x), user[u].state = "deleted" => x.state = "deleted",
           user[u].state # "none" => /\ x.state # "none"
                                     /\ x.state = "live" => /\ user[u].state = "live"
                                                            /\ user[u].proof # "none" => x.proof # "none"
                                     /\ x.proof # "none" \/ x.state # "live" \/ x.email = user[u].email
    PROVE  /\ user' \in [User -> UserRow] /\ UsersGrow
           /\ \A v \in User : SoundUser(user'[v])
<1>1. /\ user' \in [User -> UserRow]
      /\ user'[u] = x /\ \A v \in User \ {u} : user'[v] = user[v]
  BY Types
<1>2. \A v \in User : SoundUser(user'[v])
  BY <1>1, Types
<1>3. \A a \in Address : Fits(u, a, user) => Fits(u, a, user')
  BY <1>1 DEF Fits
<1>4. \A v \in User \ {u} : \A a \in Address : Fits(v, a, user) => Fits(v, a, user')
  BY <1>1 DEF Fits
<1> QED BY <1>1, <1>2, <1>3, <1>4 DEF UsersGrow

LEMMA MarkVerifiedKeeps == ASSUME IInv, NEW r \in Req, MarkVerified(r) PROVE IInv'
<1> DEFINE u == req[r].u
           p == IF user[u].email = req[r].a THEN "shown" ELSE user[u].proof
           x == [user[u] EXCEPT !.verified = TRUE, !.proof = p]
<1>1. req[r] \in Request /\ Knows(req[r]) /\ Relies(req[r], user, row) /\ req[r].pc = "verify"
  BY Types DEF MarkVerified, At
<1>2. u \in User /\ Fits(u, req[r].a, user)
  BY <1>1 DEF Knows, Relies, LinkSteps, FollowSteps
<1>3. user[u] \in UserRow /\ SoundUser(user[u]) /\ p \in {"none", "given", "shown"}
  BY <1>2, Types DEF UserRow
<1>4. user[u].state = "live" => p # "none"
  BY <1>2 DEF Fits
<1>5. user' = [user EXCEPT ![u] = x]
  BY <1>2, Types DEF MarkVerified
<1>6. user[u].proof # "none" => p # "none"
  OBVIOUS
<1> HIDE DEF p
<1>7. /\ x \in UserRow /\ x.state = user[u].state /\ x.email = user[u].email
  BY <1>3 DEF UserRow
<1>8. x.proof = p
  BY <1>3 DEF UserRow
<1> HIDE DEF x, u
<1>9. SoundUser(x)
  BY <1>3, <1>4, <1>7, <1>8 DEF SoundUser
<1>10. /\ user' \in [User -> UserRow] /\ UsersGrow
       /\ \A v \in User : SoundUser(user'[v])
  BY <1>2, <1>5, <1>6, <1>7, <1>8, <1>9, UserGrows
<1> QED BY <1>10, UserWriteKeeps, IdleType DEF MarkVerified, Finish

LEMMA SetPendingKeeps == ASSUME IInv, NEW r \in Req, SetPending(r) PROVE IInv'
<1> DEFINE u == req[r].u
           x == [user[u] EXCEPT !.pending = req[r].a]
           q == [req[r] EXCEPT !.pc = "invalidate"]
<1>1. req[r] \in Request /\ Knows(req[r]) /\ req[r].pc = "pending"
  BY Types DEF SetPending, At
<1>2. u \in User /\ req[r].a \in Address /\ req[r].kind = "CHANGE"
  BY <1>1 DEF Knows, LinkSteps, FollowSteps
<1>3. user[u] \in UserRow /\ SoundUser(user[u])
  BY <1>2, Types
<1>4. user' = [user EXCEPT ![u] = x] /\ req' = [req EXCEPT ![r] = q]
  BY Types DEF SetPending, Goto
<1>5. /\ x \in UserRow /\ x.state = user[u].state /\ x.email = user[u].email
      /\ x.verified = user[u].verified /\ x.proof = user[u].proof
  BY <1>2, <1>3 DEF UserRow
<1>6. q \in Request /\ q.pc = "invalidate" /\ q.u = u /\ q.a = req[r].a /\ q.kind = "CHANGE"
  BY <1>1, <1>2 DEF Request
<1> HIDE DEF x, u, q
<1>7. SoundUser(x)
  BY <1>3, <1>5 DEF SoundUser
<1>8. Knows(q) /\ Relies(q, user', row)
  BY <1>2, <1>6 DEF Knows, Relies, LinkSteps, FollowSteps, Kind
<1>9. /\ user' \in [User -> UserRow] /\ UsersGrow
      /\ \A v \in User : SoundUser(user'[v])
  BY <1>2, <1>4, <1>5, <1>7, UserGrows
<1> QED BY <1>4, <1>6, <1>8, <1>9, UserWriteKeeps DEF SetPending

LEMMA AnonymiseKeeps == ASSUME IInv, NEW r \in Req, Anonymise(r) PROVE IInv'
<1> DEFINE u == req[r].u
           x == [user[u] EXCEPT !.state = "deleted", !.email = None, !.pending = None,
                                !.proof = "none"]
           q == [req[r] EXCEPT !.pc = "forget"]
<1>1. req[r] \in Request /\ Knows(req[r]) /\ req[r].pc = "anonymise"
  BY Types DEF Anonymise, At
<1>2. u \in User
  BY <1>1 DEF Knows, LinkSteps, FollowSteps
<1>3. user[u] \in UserRow
  BY <1>2, Types
<1>4. user' = [user EXCEPT ![u] = x] /\ req' = [req EXCEPT ![r] = q]
  BY Types DEF Anonymise, Goto
<1>5. x \in UserRow /\ x.state = "deleted"
  BY <1>3 DEF UserRow
<1>6. q \in Request /\ q.pc = "forget" /\ q.u = u
  BY <1>1 DEF Request
<1> HIDE DEF x, u, q
<1>7. SoundUser(x)
  BY <1>5 DEF SoundUser
<1>8. Knows(q) /\ Relies(q, user', row)
  BY <1>2, <1>6 DEF Knows, Relies, LinkSteps, FollowSteps
<1>9. /\ user' \in [User -> UserRow] /\ UsersGrow
      /\ \A v \in User : SoundUser(user'[v])
  BY <1>2, <1>4, <1>5, <1>7, UserGrows
<1> QED BY <1>4, <1>6, <1>8, <1>9, UserWriteKeeps DEF Anonymise

-----------------------------------------------------------------------------
(* Steps that write users and rows *)

LEMMA NewUserGrows ==
    ASSUME IInv, NEW u \in User, user[u] = NoUser, NEW a \in Address, NEW v \in BOOLEAN,
           NEW p \in {"none", "given", "shown"}, v => p # "none",
           user' = [user EXCEPT ![u] = NewUser(a, v, p)]
    PROVE  /\ user' \in [User -> UserRow] /\ UsersGrow
           /\ \A x \in User : SoundUser(user'[x])
           /\ user'[u].state = "live" /\ user'[u].email = a
<1> DEFINE x == NewUser(a, v, p)
<1>1. x \in UserRow /\ x.state = "live" /\ x.email = a /\ x.verified = v /\ x.proof = p
  BY DEF NewUser, UserRow
<1>2. user[u].state = "none"
  BY DEF NoUser
<1> HIDE DEF x
<1>3. SoundUser(x)
  BY <1>1 DEF SoundUser
<1>4. user' = [user EXCEPT ![u] = x]
  BY DEF x
<1>5. /\ user' \in [User -> UserRow] /\ UsersGrow
      /\ \A y \in User : SoundUser(user'[y])
  BY <1>1, <1>2, <1>3, <1>4, UserGrows
<1> QED BY <1>1, <1>4, <1>5, Types

LEMMA CreateWithEmailKeeps ==
    ASSUME IInv, NEW r \in Req, NEW u \in User, NEW w \in RowId, CreateWithEmail(r, u, w)
    PROVE  IInv'
<1>1. /\ req[r] \in Request /\ Knows(req[r]) /\ req[r].pc = "create"
      /\ user[u] = NoUser /\ FreeRow(w) /\ UNCHANGED token
  BY Types DEF CreateWithEmail, At
<1>2. req[r].a \in Address
  BY <1>1 DEF Knows, LinkSteps, FollowSteps
<1>3. CASE EmailInUse(req[r].a) \/ Holding("EMAIL", req[r].a) # {}
  BY <1>3, FinishKeeps DEF CreateWithEmail
<1>4. CASE ~(EmailInUse(req[r].a) \/ Holding("EMAIL", req[r].a) # {})
  <2> DEFINE x == [user |-> u, provider |-> "EMAIL", id |-> req[r].a, hash |-> TRUE]
             q == [req[r] EXCEPT !.pc = "issue", !.u = u, !.kind = "VERIFY"]
  <2>1. /\ user' = [user EXCEPT ![u] = NewUser(req[r].a, FALSE, "none")]
        /\ row' = [row EXCEPT ![w] = x]
        /\ req' = [req EXCEPT ![r] = q]
    BY <1>4, Types DEF CreateWithEmail
  <2>2. /\ user' \in [User -> UserRow] /\ UsersGrow
        /\ \A y \in User : SoundUser(user'[y])
        /\ user'[u].state = "live" /\ user'[u].email = req[r].a
    BY <1>1, <1>2, <2>1, NewUserGrows
  <2>3. x \in AuthAccount
    BY <1>2 DEF AuthAccount
  <2>4. q \in Request /\ q.pc = "issue" /\ q.u = u /\ q.kind = "VERIFY" /\ q.a = req[r].a
    <3>1. q \in Request
      BY <1>1, Zenon DEF Request, Kind
    <3>2. q.pc = "issue" /\ q.u = u /\ q.kind = "VERIFY" /\ q.a = req[r].a
      BY <1>1, Zenon DEF Request
    <3> QED BY <3>1, <3>2, Zenon
  <2> HIDE DEF x, q
  <2>5. row' \in [RowId -> AuthAccount \cup {NoRow}] /\ RowsGrow
    BY <1>1, <2>1, <2>3, FreeRowGrows
  <2>6. Knows(q) /\ Relies(q, user', row')
    BY <1>2, <2>2, <2>4 DEF Knows, Relies, Fits, LinkSteps, FollowSteps, Kind
  <2>7. \A k \in Token : SoundLink(token[k], user')
    BY <2>2, LinksGrow
  <2> QED BY <1>1, <2>1, <2>2, <2>4, <2>5, <2>6, <2>7, StepKeeps, Types
<1> QED BY <1>3, <1>4

LEMMA CreateWithGoogleKeeps ==
    ASSUME IInv, NEW r \in Req, NEW u \in User, NEW w \in RowId,
           NEW sure \in BOOLEAN, CreateWithGoogle(r, u, w, sure)
    PROVE  IInv'
<1>1. /\ req[r] \in Request /\ Knows(req[r]) /\ req[r].pc = "create" /\ req[r].op = "google"
      /\ user[u] = NoUser /\ FreeRow(w) /\ UNCHANGED token /\ Finish(r)
  BY Types DEF CreateWithGoogle, At
<1>2. req[r].a \in Address /\ req[r].g \in Google
  BY <1>1 DEF Knows, LinkSteps, FollowSteps
<1>3. CASE UNCHANGED <<user, row>>
  BY <1>1, <1>3, FinishKeeps
<1> DEFINE p == IF sure THEN "shown" ELSE "given"
<1>4. CASE /\ user' = [user EXCEPT ![u] = NewUser(req[r].a, TRUE, p)]
           /\ row' = [row EXCEPT ![w] = [user |-> u, provider |-> "GOOGLE",
                                         id |-> req[r].g, hash |-> FALSE]]
  <2> DEFINE x == [user |-> u, provider |-> "GOOGLE", id |-> req[r].g, hash |-> FALSE]
  <2>1. /\ user' \in [User -> UserRow] /\ UsersGrow
        /\ \A y \in User : SoundUser(user'[y])
    BY <1>1, <1>2, <1>4, NewUserGrows
  <2>2. x \in AuthAccount
    BY <1>2 DEF AuthAccount
  <2>3. row' \in [RowId -> AuthAccount \cup {NoRow}] /\ RowsGrow
    BY <1>1, <1>4, <2>2, FreeRowGrows
  <2>4. \A k \in Token : SoundLink(token[k], user')
    BY <2>1, LinksGrow
  <2> QED BY <1>1, <2>1, <2>3, <2>4, StepKeeps, IdleType, Types DEF Finish
<1> QED BY <1>3, <1>4 DEF CreateWithGoogle

LEMMA ApplyEmailChangeKeeps == ASSUME IInv, NEW r \in Req, ApplyEmailChange(r) PROVE IInv'
<1>1. /\ req[r] \in Request /\ Knows(req[r]) /\ req[r].pc = "apply" /\ UNCHANGED token
  BY Types DEF ApplyEmailChange, At
<1>2. req[r].u \in User /\ req[r].a \in Address /\ req[r].op = "confirm"
  BY <1>1 DEF Knows, LinkSteps, FollowSteps
<1>3. CASE Finish(r) /\ UNCHANGED <<user, row>>
  BY <1>1, <1>3, FinishKeeps
<1>4. CASE /\ user' = [user EXCEPT ![req[r].u].email = req[r].a, ![req[r].u].pending = None,
                                   ![req[r].u].proof = "shown"]
           /\ row' = [w \in RowId |-> IF w \in EmailRows(req[r].u)
                                      THEN [row[w] EXCEPT !.id = req[r].a] ELSE row[w]]
           /\ Goto(r, "mark")
  <2> DEFINE u == req[r].u
             a == req[r].a
             x == [user[u] EXCEPT !.email = a, !.pending = None, !.proof = "shown"]
             q == [req[r] EXCEPT !.pc = "mark"]
  <2>1. user[u] \in UserRow /\ SoundUser(user[u])
    BY <1>2, Types
  <2>2. user' = [user EXCEPT ![u] = x] /\ req' = [req EXCEPT ![r] = q]
    BY <1>2, <1>4, Types DEF Goto
  <2>3. x \in UserRow /\ x.state = user[u].state /\ x.email = a /\ x.proof = "shown"
    BY <1>2, <2>1 DEF UserRow
  <2>4. /\ q \in Request /\ q.pc = "mark" /\ q.op = "confirm" /\ q.u = u /\ q.a = a
    BY <1>1, <1>2 DEF Request
  <2>5. ASSUME NEW w \in RowId
        PROVE  /\ row'[w] \in AuthAccount \cup {NoRow}
               /\ row'[w] = row[w] \/ (/\ row[w] # NoRow /\ row'[w].provider = row[w].provider
                                       /\ row'[w].user = row[w].user)
    <3>1. CASE w \in EmailRows(u)
      <4>1. row'[w] = [row[w] EXCEPT !.id = a]
        BY <1>4, <3>1
      <4>2. row[w] # NoRow /\ row[w].provider = "EMAIL"
        BY <3>1, <1>2, ConstantsAssumption DEF EmailRows, Rows, NoRow
      <4>3. row[w] \in AuthAccount
        BY <4>2, Types
      <4> QED BY <1>2, <4>1, <4>2, <4>3, RowChanges
    <3>2. CASE w \notin EmailRows(u)
      BY <1>4, <3>2, Types
    <3> QED BY <3>1, <3>2
  <2>6. row' \in [RowId -> AuthAccount \cup {NoRow}]
    BY <1>4, <2>5
  <2>7. RowsGrow
    BY <2>5, Types DEF RowsGrow
  <2> HIDE DEF x, u, a, q
  <2>8. SoundUser(x) /\ u \in User
    BY <1>2, <2>3 DEF SoundUser, a, u
  <2>9. /\ user' \in [User -> UserRow] /\ UsersGrow
        /\ \A v \in User : SoundUser(user'[v])
    BY <2>2, <2>3, <2>8, UserGrows
  <2>10. Knows(q) /\ Relies(q, user', row')
    BY <1>2, <2>4, <2>8 DEF Knows, Relies, LinkSteps, FollowSteps, a
  <2>11. \A k \in Token : SoundLink(token[k], user')
    BY <2>9, LinksGrow
  <2> QED BY <1>1, <2>2, <2>4, <2>6, <2>7, <2>9, <2>10, <2>11, StepKeeps, Types
<1> QED BY <1>3, <1>4 DEF ApplyEmailChange

-----------------------------------------------------------------------------
(* The theorems *)

LEMMA ContinueKeeps == ASSUME IInv, NEW r \in Req, Continue(r) PROVE IInv'
<1>1. CASE Die(r)
  BY <1>1, FinishKeeps DEF Die
<1> QED BY <1>1, ReleaseKeeps, GoogleLookupKeeps, CreateWithEmailKeeps, CreateWithGoogleKeeps,
           FirstPasswordKeeps, AddGoogleKeeps, InvalidateKeeps, MarkVerifiedKeeps,
           MarkUsedKeeps, IssueKeeps, WriteHashKeeps, FindOwnerKeeps, SetPendingKeeps,
           ApplyEmailChangeKeeps, DeleteRowKeeps, AnonymiseKeeps, ForgetKeeps
        DEF Continue

LEMMA StandStill ==
    ASSUME IInv, UNCHANGED <<user, row, req>>, token' \in [Token -> Link \cup {NoLink}],
           \A k \in Token : SoundLink(token'[k], user)
    PROVE  IInv'
<1>1. TypeOK'
  BY DEF IInv, TypeOK
<1> QED BY <1>1, Types DEF IInv

LEMMA InitInv == Init => IInv
<1> SUFFICES ASSUME Init PROVE IInv
  OBVIOUS
<1>1. NoUser \in UserRow /\ NoUser.state = "none"
  BY DEF NoUser, UserRow
<1>2. TypeOK
  BY <1>1, IdleType DEF Init, TypeOK
<1>3. \A r \in Req : Knows(req[r]) /\ Relies(req[r], user, row)
  BY IdleType DEF Init
<1>4. \A u \in User : SoundUser(user[u])
  BY <1>1 DEF Init, SoundUser
<1>5. \A k \in Token : SoundLink(token[k], user)
  BY DEF Init, SoundLink
<1> QED BY <1>2, <1>3, <1>4, <1>5 DEF IInv

LEMMA StepInv == IInv /\ [Next]_vars => IInv'
<1> SUFFICES ASSUME IInv, [Next]_vars PROVE IInv'
  OBVIOUS
<1>1. CASE UNCHANGED vars
  BY <1>1, StandStill, Types DEF vars
<1>2. ASSUME NEW r \in Req, Arrive(r) \/ Continue(r) PROVE IInv'
  BY <1>2, ArriveKeeps, ContinueKeeps
<1>3. ASSUME NEW k \in Token, LinkExpires(k) PROVE IInv'
  <2>1. /\ token' \in [Token -> Link \cup {NoLink}]
        /\ \A x \in Token : token'[x] = token[x] \/ token'[x] = NoLink
    BY <1>3, Types DEF LinkExpires
  <2>2. \A x \in Token : SoundLink(token'[x], user)
    BY <2>1, Types DEF SoundLink
  <2> QED BY <1>3, <2>1, <2>2, StandStill DEF LinkExpires
<1> QED BY <1>1, <1>2, <1>3 DEF Next

(***************************************************************************)
(* Users, rows, links and requests are always what they should be: a       *)
(* request never runs into a row, an address or an identity it did not     *)
(* read.                                                                   *)
(***************************************************************************)
THEOREM TypeCorrect == Spec => []TypeOK
<1>1. IInv => TypeOK
  BY DEF IInv
<1> QED BY InitInv, StepInv, <1>1, PTL DEF Spec

(***************************************************************************)
(* A verified user has shown that the address they have now is theirs, or  *)
(* Google gave it when they signed up and they have kept it since, whatever*)
(* links, changes and deletions are under way, for any number of users and *)
(* requests.                                                               *)
(***************************************************************************)
THEOREM Vouched == Spec => []AddressVouched
<1>1. IInv => AddressVouched
  BY Types DEF AddressVouched, Verified, SoundUser
<1> QED BY InitInv, StepInv, <1>1, PTL DEF Spec

(* A call that arrives only reads. *)
LEMMA ArriveReads == ASSUME NEW r \in Req, Arrive(r) PROVE UNCHANGED <<user, row, token>>
<1> DEFINE Same == UNCHANGED <<user, row, token>>
<1>1. ASSUME NEW a \in Address, Register(r, a) PROVE Same
  BY <1>1 DEF Register
<1>2. ASSUME NEW g \in Google, NEW a \in Address, NEW signup \in BOOLEAN,
             GoogleCallback(r, g, a, signup)
      PROVE  Same
  BY <1>2 DEF GoogleCallback
<1>3. ASSUME NEW k \in Token,
             VerifyEmail(r, k) \/ ResetPassword(r, k) \/ LinkGoogle(r, k) \/ ConfirmEmailChange(r, k)
      PROVE  Same
  BY <1>3 DEF VerifyEmail, ResetPassword, LinkGoogle, ConfirmEmailChange
<1>4. ASSUME NEW u \in User, \E kind \in {"VERIFY", "RESET"} : Ask(r, u, kind) PROVE Same
  BY <1>4 DEF Ask
<1>5. ASSUME NEW u \in User,
             \/ \E a \in Address : RequestEmailChange(r, u, a)
             \/ \E w \in RowId : Disconnect(r, u, w)
             \/ Delete(r, u)
      PROVE  Same
  BY <1>5 DEF RequestEmailChange, Disconnect, Delete
<1> HIDE DEF Same
<1>6. Same
  BY <1>1, <1>2, <1>3, <1>4, <1>5, Zenon DEF Arrive
<1> QED BY <1>6 DEF Same

(***************************************************************************)
(* No signup and no change of address takes a way to sign in from a living *)
(* user: a row of theirs goes only when they disconnect it.                *)
(***************************************************************************)
THEOREM Stand == Spec => LiveClaimsStand
<1>1. ASSUME IInv, [Next]_vars
      PROVE \A w \in RowId :
            row[w] # NoRow /\ user[row[w].user].state = "live" /\ row'[w] = NoRow
                => \E r \in Req : /\ At(r, "delete") /\ req[r].w = w
                                 /\ req[r].u = row[w].user
  <2> SUFFICES ASSUME NEW w \in RowId, row[w] # NoRow, user[row[w].user].state = "live",
                      row'[w] = NoRow
               PROVE  \E r \in Req : At(r, "delete") /\ req[r].w = w /\ req[r].u = row[w].user
    OBVIOUS
  <2>1. row[w] \in AuthAccount /\ row[w].user \in User
    BY <1>1, Types, RowTypes
  <2>2. row' # row
    OBVIOUS
  <2>3. PICK r \in Req : Continue(r)
    BY <1>1, <2>2, ArriveReads, Zenon DEF Next, vars, LinkExpires
  <2>4. ~Release(r)
    <3> SUFFICES ASSUME Release(r) PROVE FALSE
      OBVIOUS
    <3>1. row[w].user = req[r].holder
      BY DEF Release
    <3>2. user[req[r].holder].state = "deleted"
      BY <1>1, Types DEF Release, At, Relies
    <3> QED BY <3>1, <3>2
  <2>5. ~Forget(r)
    <3> SUFFICES ASSUME Forget(r) PROVE FALSE
      OBVIOUS
    <3>1. w \in Rows(req[r].u) /\ row'[w] = [row[w] EXCEPT !.hash = FALSE]
      BY DEF Forget
    <3> QED BY <2>1, <3>1, RowChanges, RowTypes
  <2>6. CASE DeleteRow(r)
    <3>1. req[r].w = w
      BY <2>6, <1>1, Types DEF DeleteRow
    <3>2. At(r, "delete") /\ req[r].u = row[w].user
      BY <2>6, <3>1, <1>1, Types DEF DeleteRow, At, Relies
    <3> QED BY <3>1, <3>2
  <2>7. CASE ApplyEmailChange(r)
    <3>1. req[r].a \in Address
      BY <2>7, <1>1, Types DEF ApplyEmailChange, At, Knows, LinkSteps, FollowSteps
    <3>2. w \in EmailRows(req[r].u) /\ row'[w] = [row[w] EXCEPT !.id = req[r].a]
      BY <2>2, <2>7 DEF ApplyEmailChange
    <3>3. row[w].provider = "EMAIL"
      BY <3>2 DEF EmailRows
    <3>4. row'[w] \in AuthAccount
      BY <2>1, <3>1, <3>2, <3>3, RowChanges
    <3> QED BY <3>4, RowTypes
  <2>8. CASE WriteHash(r)
    <3>1. req[r].w \in RowId /\ row' = [row EXCEPT ![req[r].w].hash = TRUE]
      BY <2>2, <2>8, <1>1, Types DEF WriteHash, At, Knows
    <3>2. row'[w] = [row[w] EXCEPT !.hash = TRUE] /\ w = req[r].w
      BY <3>1, <1>1, Types
    <3>3. row[w].provider = "EMAIL"
      BY <2>8, <3>2, <1>1, Types DEF WriteHash, At, Relies
    <3>4. row'[w] \in AuthAccount
      BY <2>1, <3>2, <3>3, RowChanges
    <3> QED BY <3>4, RowTypes
  <2>9. ASSUME NEW u \in User, NEW v \in RowId, NEW sure \in BOOLEAN,
               \/ CreateWithEmail(r, u, v) \/ CreateWithGoogle(r, u, v, sure)
               \/ FirstPassword(r, v) \/ AddGoogle(r, v)
        PROVE  FALSE
    <3>1. w # v
      BY <2>9 DEF CreateWithEmail, CreateWithGoogle, FirstPassword, AddGoogle, FreeRow
    <3>2. row'[w] = row[w]
      BY <2>9, <3>1, <1>1, Types DEF CreateWithEmail, CreateWithGoogle, FirstPassword, AddGoogle
    <3> QED BY <3>2
  <2> QED BY <2>1, <2>2, <2>3, <2>4, <2>5, <2>6, <2>7, <2>8, <2>9
          DEF Continue, GoogleLookup, Invalidate, MarkVerified, MarkUsed, Issue, FindOwner,
              SetPending, Anonymise, Die
<1>2. IInv /\ [Next]_vars =>
      [\A w \in RowId :
            row[w] # NoRow /\ user[row[w].user].state = "live" /\ row'[w] = NoRow
                => \E r \in Req : /\ At(r, "delete") /\ req[r].w = w
                                 /\ req[r].u = row[w].user]_vars
  BY <1>1
<1> QED BY InitInv, StepInv, <1>2, PTL DEF Spec, LiveClaimsStand
=============================================================================
