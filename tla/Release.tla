------------------------------ MODULE Release -------------------------------
(***************************************************************************)
(* From a commit on main to production: the CD workflow deploys a commit   *)
(* to UAT and records what it serves, the owner accepts it, and a run of   *)
(* the production controller prepares a manifest, waits for approval,      *)
(* claims its tag, deploys and records an outcome; a rollback is a         *)
(* release of an earlier success that skips the migrations.                *)
(*                                                                         *)
(* An image is named by the commit it was built from, and commits are      *)
(* numbered along main, so the schema of a database is the last commit     *)
(* whose migrations it has.  Any step of a run can fail, and any run can   *)
(* be lost.  The backup image, the Terraform configuration other than      *)
(* images, and the evidence that a run or an actor is genuine are left     *)
(* out; a request that is refused stutters.                                *)
(*                                                                         *)
(* A definition whose name has an underscore is a fault.                   *)
(***************************************************************************)
EXTENDS Naturals, Sequences

CONSTANTS
    Last,         \* the commits of main are 1..Last
    DocsOnly,     \* the commits that changed documentation only
    Tag,          \* production tags
    MaxRuns,      \* bound on the runs of the production controller
    MaxAccepted,  \* bound on the acceptances recorded: UAT stands still at it
    None          \* no run, no tag

ASSUME ConstantsAssumption ==
    /\ Last \in Nat \ {0} /\ MaxRuns \in Nat \ {0} /\ MaxAccepted \in Nat
    /\ DocsOnly \subseteq 1..Last
    /\ None \notin Nat

VARIABLES
    serving,   \* per environment, the image of each part
    schema,    \* per environment, the schema of its database
    cd,        \* the CD run under way
    receipt,   \* the UAT deployments recorded
    accepted,  \* the acceptances, oldest first
    tagAt,     \* where the tags point (0: no such tag)
    review,    \* rollback-requests/<tag>
    run,       \* the controller's runs, each with its manifest
    claim,     \* claims/<tag>: the run that claimed it
    outcome    \* outcomes/<tag>/<run>, oldest first

uatVars == <<cd, receipt, accepted>>
vars == <<serving, schema, uatVars, tagAt, review, run, claim, outcome>>

-----------------------------------------------------------------------------
(* Data *)

Commit == 1..Last
Run == 1..MaxRuns
Part == {"api", "web", "migrate"}
ImageSet == [Part -> Commit]
AllAt(c) == [p \in Part |-> c]

(* An image set that was tested together, and the commit it is known by. *)
Bundle == [commit : Commit, images : ImageSet]

Deployment ==
    [pc : {"idle", "started", "held", "migrated", "applied"},
     commit : Commit, images : ImageSet]

Idle == [pc |-> "idle", commit |-> 1, images |-> AllAt(1)]

(***************************************************************************)
(* seen is a ghost: the schema of production when the review was made.     *)
(***************************************************************************)
Review ==
    [target : Nat, baseline : Nat,
     run : Run \cup {None}, seen : 0..Last]

NoReview == [target |-> 0, baseline |-> 0, run |-> None, seen |-> 0]

Manifest ==
    [pc : {"idle", "prepared", "checked", "claimed", "held", "migrated", "applied",
           "deployed", "undeployed", "succeeded", "failed"},
     tag : Tag \cup {None}, bundle : Bundle,
     rollback : BOOLEAN, baseline : Nat]

NoManifest ==
    [pc |-> "idle", tag |-> None, bundle |-> [commit |-> 1, images |-> AllAt(1)],
     rollback |-> FALSE, baseline |-> 0]

Outcome == [run : Run, status : {"success", "failure"}]

Finished == {"succeeded", "failed"}

-----------------------------------------------------------------------------
(* The environments: what the action deploy-environment does to one *)

(* Fault: a job that reports success is believed. *)
Evidence_NotAsked(applied, passed) == TRUE

(* The migration job reports success: only its own output proves that it ran. *)
Evidence(applied, passed) == passed => applied

(* Only the jobs move; the apps stay on their images. *)
HoldApps(e, images) ==
    serving' = [serving EXCEPT ![e] = [@ EXCEPT !["migrate"] = images["migrate"]]]

Newer(a, b) == IF a < b THEN b ELSE a

(* Migrations never go back: an older job finds nothing to do. *)
MigrateTo(e, c, applied) ==
    schema' = IF applied THEN [schema EXCEPT ![e] = Newer(@, c)] ELSE schema

MoveApps(e, images, moved) ==
    serving' = [serving EXCEPT ![e] =
                   [p \in Part |-> IF p \in moved THEN images[p] ELSE @[p]]]

-----------------------------------------------------------------------------
(* CD on main: the concurrency group admits one run at a time *)

(***************************************************************************)
(* selectImageSet: a run that changed the documentation only builds web    *)
(* and keeps the other images as they are.                                 *)
(***************************************************************************)
SelectImages(c, docsOnly) ==
    IF docsOnly THEN [serving["uat"] EXCEPT !["web"] = c] ELSE AllAt(c)

(* Of any commit: nothing refuses the run of an older one, started again. *)
DeployUat(c, docsOnly) ==
    /\ cd.pc = "idle"
    /\ Len(accepted) < MaxAccepted
    /\ docsOnly => c \in DocsOnly     \* a deployment by hand builds everything
    /\ cd' = [pc |-> IF docsOnly THEN "migrated" ELSE "started",
              commit |-> c, images |-> SelectImages(c, docsOnly)]
    /\ UNCHANGED <<serving, schema, receipt, accepted, tagAt, review, run, claim, outcome>>

CdTo(pc) == cd' = [cd EXCEPT !.pc = pc]

UatHold(passed) ==
    /\ cd.pc = "started"
    /\ HoldApps("uat", cd.images)
    /\ CdTo(IF passed THEN "held" ELSE "idle")
    /\ UNCHANGED <<schema, receipt, accepted, tagAt, review, run, claim, outcome>>

UatMigrate(applied, passed) ==
    /\ cd.pc = "held" /\ Evidence(applied, passed)
    /\ MigrateTo("uat", cd.images["migrate"], applied)
    /\ CdTo(IF passed THEN "migrated" ELSE "idle")
    /\ UNCHANGED <<serving, receipt, accepted, tagAt, review, run, claim, outcome>>

UatMove(moved, passed) ==
    /\ cd.pc = "migrated" /\ (passed => moved = Part)
    /\ MoveApps("uat", cd.images, moved)
    /\ CdTo(IF passed THEN "applied" ELSE "idle")
    /\ UNCHANGED <<schema, receipt, accepted, tagAt, review, run, claim, outcome>>

(* recordUat: health and checks hold, and UAT serves the set it was built for. *)
RecordUat ==
    /\ cd.pc = "applied" /\ serving["uat"] = cd.images
    /\ receipt' = receipt \cup {[commit |-> cd.commit, images |-> cd.images]}
    /\ CdTo("idle")
    /\ UNCHANGED <<serving, schema, accepted, tagAt, review, run, claim, outcome>>

UatFails ==
    /\ cd.pc # "idle"
    /\ CdTo("idle")
    /\ UNCHANGED <<serving, schema, receipt, accepted, tagAt, review, run, claim, outcome>>

(***************************************************************************)
(* acceptUat, in the same concurrency group: the receipt may be old, what  *)
(* UAT serves has to be its images.                                        *)
(***************************************************************************)
AcceptUat(b) ==
    /\ cd.pc = "idle" /\ Len(accepted) < MaxAccepted
    /\ b \in receipt /\ serving["uat"] = b.images
    /\ accepted' = Append(accepted, b)
    /\ UNCHANGED <<serving, schema, cd, receipt, tagAt, review, run, claim, outcome>>

-----------------------------------------------------------------------------
(* The records a controller run consults *)

Recorded(t) == \E i \in DOMAIN outcome : run[outcome[i].run].tag = t

(***************************************************************************)
(* outcomes: every recorded run has ended, and a success is believed only  *)
(* if its whole run succeeded; one bad record refuses every request.       *)
(***************************************************************************)
Readable ==
    \A i \in DOMAIN outcome :
        LET pc == run[outcome[i].run].pc
        IN  pc \in Finished /\ (outcome[i].status = "success" => pc = "succeeded")

(* Fault: a claim without an outcome blocks nothing. *)
ClaimsClosed_Unchecked == TRUE

ClaimsClosed ==
    \A t \in Tag : claim[t] # None => \E i \in DOMAIN outcome : outcome[i].run = claim[t]

(* concurrency: production-release, held from the start of a run to its end. *)
GroupFree == \A r \in Run : run[r].pc \in {"idle"} \cup Finished

(* Runs are numbered in the order they start. *)
CanStart(r) == GroupFree /\ run[r].pc = "idle" /\ \A q \in 1..(r - 1) : run[q].pc # "idle"

HistoryIsClosed(t) == Readable /\ ClaimsClosed /\ ~Recorded(t)

(* acceptedFor: the newest acceptance of the commit. *)
AcceptedFor(c) == {i \in DOMAIN accepted :
                      /\ accepted[i].commit = c
                      /\ \A j \in DOMAIN accepted : accepted[j].commit = c => j <= i}

(* Fault: the review is not tied to the outcome it was made after. *)
ReviewStands_AnyBaseline(t) ==
    /\ review[t].run # None /\ run[review[t].run].pc = "succeeded"
    /\ review[t].target \in DOMAIN outcome

ReviewStands(t) ==
    /\ review[t].run # None /\ run[review[t].run].pc = "succeeded"
    /\ review[t].target \in DOMAIN outcome
    /\ review[t].baseline = Len(outcome)

-----------------------------------------------------------------------------
(* The controller *)

(***************************************************************************)
(* Tags are the owner's.  A tag that no run has read is as good as absent, *)
(* so it is placed by the request that reads it, and moved or deleted      *)
(* while that request waits.                                               *)
(***************************************************************************)
MoveTag(r, c) ==
    /\ run[r].pc = "prepared" /\ tagAt[run[r].tag] # c
    /\ tagAt' = [tagAt EXCEPT ![run[r].tag] = c]
    /\ UNCHANGED <<serving, schema, uatVars, review, run, claim, outcome>>

PlacedAt(t, c) == tagAt[t] \in {0, c} /\ tagAt' = [tagAt EXCEPT ![t] = c]

(***************************************************************************)
(* register-rollback: before its tag exists, against the outcome recorded  *)
(* last, of an outcome that succeeded.  The run of a request that was      *)
(* stored may still fail.                                                  *)
(***************************************************************************)
RegisterRollback(r, t, target, passed) ==
    /\ CanStart(r)
    /\ HistoryIsClosed(t) /\ tagAt[t] = 0
    /\ target \in DOMAIN outcome /\ outcome[target].status = "success"
    /\ review[t] = NoReview
    /\ review' = [review EXCEPT ![t] =
                     [target |-> target, baseline |-> Len(outcome), run |-> r,
                      seen |-> schema["prod"]]]
    /\ run' = [run EXCEPT ![r].pc = IF passed THEN "succeeded" ELSE "failed"]
    /\ UNCHANGED <<serving, schema, uatVars, tagAt, claim, outcome>>

Prepared(r, t, bundle, rollback) ==
    run' = [run EXCEPT ![r] = [pc |-> "prepared", tag |-> t, bundle |-> bundle,
                               rollback |-> rollback, baseline |-> Len(outcome)]]

PrepareRelease(r, t, c) ==
    /\ CanStart(r)
    /\ HistoryIsClosed(t) /\ PlacedAt(t, c)
    /\ review[t] = NoReview
    /\ \E i \in AcceptedFor(c) : Prepared(r, t, accepted[i], FALSE)
    /\ UNCHANGED <<serving, schema, uatVars, review, claim, outcome>>

PrepareRollback(r, t, c) ==
    /\ CanStart(r)
    /\ HistoryIsClosed(t) /\ PlacedAt(t, c)
    /\ ReviewStands(t)
    /\ LET b == run[outcome[review[t].target].run].bundle
       IN  b.commit = c /\ Prepared(r, t, b, TRUE)
    /\ UNCHANGED <<serving, schema, uatVars, review, claim, outcome>>

To(r, pc) == run' = [run EXCEPT ![r].pc = pc]

(* begin, after the approval: all that prepare saw is looked at again. *)
BeginCheck(r) ==
    /\ run[r].pc = "prepared"
    /\ tagAt[run[r].tag] = run[r].bundle.commit
    /\ HistoryIsClosed(run[r].tag)
    /\ Len(outcome) = run[r].baseline
    /\ run[r].rollback => ReviewStands(run[r].tag)
    /\ claim[run[r].tag] = None
    /\ To(r, "checked")
    /\ UNCHANGED <<serving, schema, uatVars, tagAt, review, claim, outcome>>

(* The claim is create-only, and may be stored although its answer is lost. *)
WriteClaim(r, answered) ==
    /\ run[r].pc = "checked" /\ claim[run[r].tag] = None
    /\ claim' = [claim EXCEPT ![run[r].tag] = r]
    /\ To(r, IF answered THEN "claimed" ELSE "failed")
    /\ UNCHANGED <<serving, schema, uatVars, tagAt, review, outcome>>

ProdHold(r, passed) ==
    /\ run[r].pc = "claimed" /\ ~run[r].rollback
    /\ HoldApps("prod", run[r].bundle.images)
    /\ To(r, IF passed THEN "held" ELSE "undeployed")
    /\ UNCHANGED <<schema, uatVars, tagAt, review, claim, outcome>>

ProdMigrate(r, applied, passed) ==
    /\ run[r].pc = "held" /\ Evidence(applied, passed)
    /\ serving["prod"]["migrate"] = run[r].bundle.images["migrate"]
    /\ MigrateTo("prod", run[r].bundle.images["migrate"], applied)
    /\ To(r, IF passed THEN "migrated" ELSE "undeployed")
    /\ UNCHANGED <<serving, uatVars, tagAt, review, claim, outcome>>

ProdMove(r, moved, passed) ==
    /\ run[r].pc = (IF run[r].rollback THEN "claimed" ELSE "migrated")
    /\ passed => moved = Part
    /\ MoveApps("prod", run[r].bundle.images, moved)
    /\ To(r, IF passed THEN "applied" ELSE "undeployed")
    /\ UNCHANGED <<schema, uatVars, tagAt, review, claim, outcome>>

(* The exact digests of the manifest are served. *)
Verified(r) == serving["prod"] = run[r].bundle.images

VerifyProd(r) ==
    /\ run[r].pc = "applied" /\ Verified(r)
    /\ To(r, "deployed")
    /\ UNCHANGED <<serving, schema, uatVars, tagAt, review, claim, outcome>>

(* A step after the authorization fails: the outcome step still runs. *)
StepFails(r) ==
    /\ run[r].pc \in {"claimed", "held", "migrated", "applied"}
    /\ To(r, "undeployed")
    /\ UNCHANGED <<serving, schema, uatVars, tagAt, review, claim, outcome>>

(* Faults: the stage of a failure as its status; the deployment's own result ignored. *)
Status_Stage(r, published) ==
    IF run[r].pc = "deployed" THEN IF published THEN "success" ELSE "audit" ELSE "failure"
Status_Published(r, published) == IF published THEN "success" ELSE "failure"

Status(r, published) == IF run[r].pc = "deployed" /\ published THEN "success" ELSE "failure"

(***************************************************************************)
(* finish: an outcome that could not be published is recorded as a         *)
(* failure.  The run succeeds only if every step did; the record may be    *)
(* stored by a run that fails all the same.                                *)
(***************************************************************************)
Finish(r, published, passed) ==
    /\ run[r].pc \in {"deployed", "undeployed"}
    /\ passed => published /\ run[r].pc = "deployed"
    /\ outcome' = Append(outcome, [run |-> r, status |-> Status(r, published)])
    /\ To(r, IF passed THEN "succeeded" ELSE "failed")
    /\ UNCHANGED <<serving, schema, uatVars, tagAt, review, claim>>

(***************************************************************************)
(* A check, the approval or the storage refuses, or the runner is lost.    *)
(* Before its claim a run leaves nothing that a later one reads: its slot  *)
(* is free again.                                                          *)
(***************************************************************************)
RunLost(r) ==
    /\ run[r].pc \notin {"idle"} \cup Finished
    /\ run' = [run EXCEPT ![r] =
                  IF @.pc \in {"prepared", "checked"} THEN NoManifest
                  ELSE [@ EXCEPT !.pc = "failed"]]
    /\ UNCHANGED <<serving, schema, uatVars, tagAt, review, claim, outcome>>

-----------------------------------------------------------------------------
(***************************************************************************)
(* The controller's first run has released the first commit, with a tag.   *)
(***************************************************************************)
First == [commit |-> 1, images |-> AllAt(1)]

Init ==
    /\ serving = [e \in {"uat", "prod"} |-> AllAt(1)]
    /\ schema = [e \in {"uat", "prod"} |-> 1]
    /\ cd = Idle
    /\ receipt = {First} /\ accepted = <<First>>
    /\ \E first \in Tag :
           /\ tagAt = [t \in Tag |-> IF t = first THEN 1 ELSE 0]
           /\ claim = [t \in Tag |-> IF t = first THEN 1 ELSE None]
           /\ run = [r \in Run |-> IF r = 1 THEN [NoManifest EXCEPT !.pc = "succeeded",
                                                                   !.tag = first]
                                           ELSE NoManifest]
    /\ review = [t \in Tag |-> NoReview]
    /\ outcome = <<[run |-> 1, status |-> "success"]>>

Uat ==
    \/ \E c \in Commit, docsOnly \in BOOLEAN : DeployUat(c, docsOnly)
    \/ \E passed \in BOOLEAN : UatHold(passed)
    \/ \E applied, passed \in BOOLEAN : UatMigrate(applied, passed)
    \/ \E moved \in SUBSET Part, passed \in BOOLEAN : UatMove(moved, passed)
    \/ RecordUat \/ UatFails
    \/ \E b \in receipt : AcceptUat(b)

Request(r, t) ==
    \/ \E target \in DOMAIN outcome, passed \in BOOLEAN :
           RegisterRollback(r, t, target, passed)
    \/ \E c \in Commit : PrepareRelease(r, t, c) \/ PrepareRollback(r, t, c)

Attempt(r) ==
    \/ BeginCheck(r)
    \/ \E answered \in BOOLEAN : WriteClaim(r, answered)
    \/ \E passed \in BOOLEAN : ProdHold(r, passed)
    \/ \E applied, passed \in BOOLEAN : ProdMigrate(r, applied, passed)
    \/ \E moved \in SUBSET Part, passed \in BOOLEAN : ProdMove(r, moved, passed)
    \/ VerifyProd(r) \/ StepFails(r)
    \/ \E published, passed \in BOOLEAN : Finish(r, published, passed)
    \/ RunLost(r)

Next ==
    \/ Uat
    \/ \E r \in Run, c \in 0..Last : MoveTag(r, c)
    \/ \E r \in Run, t \in Tag : Request(r, t)
    \/ \E r \in Run : Attempt(r)

Spec == Init /\ [][Next]_vars
-----------------------------------------------------------------------------
(* Properties *)

TypeOK ==
    /\ serving \in [{"uat", "prod"} -> ImageSet]
    /\ schema \in [{"uat", "prod"} -> Commit]
    /\ cd \in Deployment
    /\ receipt \subseteq Bundle
    /\ accepted \in Seq(Bundle)
    /\ tagAt \in [Tag -> 0..Last]
    /\ review \in [Tag -> Review]
    /\ run \in [Run -> Manifest]
    /\ claim \in [Tag -> Run \cup {None}]
    /\ outcome \in Seq(Outcome)

(***************************************************************************)
(* "Reversed, the app boots and queries columns that do not exist yet",    *)
(* says the action deploy-environment of the order it keeps: an API is     *)
(* never ahead of the migrations of its database.                          *)
(***************************************************************************)
Covered(e) == serving[e]["api"] <= schema[e]

SchemaCoversApi == \A e \in {"uat", "prod"} : Covered(e)

(***************************************************************************)
(* At UAT that is so: after a documentation-only deployment that followed  *)
(* a failed one, after an older commit is deployed again.  In production   *)
(* it is so, after a rollback and an attempt that stopped half-way, unless *)
(* its API is of an accepted set whose migration job is older than its     *)
(* API, as UAT can come to serve one.                                      *)
(***************************************************************************)
Mixed(images) == images["migrate"] < images["api"]

SchemaCoversUnlessMixed ==
    /\ Covered("uat")
    /\ \/ Covered("prod")
       \/ \E i \in DOMAIN accepted : /\ accepted[i].images["api"] = serving["prod"]["api"]
                                     /\ Mixed(accepted[i].images)

OpenTags == {t \in Tag : claim[t] # None /\ ~\E i \in DOMAIN outcome : outcome[i].run = claim[t]}

(***************************************************************************)
(* Between attempts production serves exactly the image set of the last    *)
(* outcome, if that is a success; and what it served was accepted at UAT.  *)
(***************************************************************************)
LastSuccessIsServed ==
    OpenTags = {} /\ outcome # <<>> /\ outcome[Len(outcome)].status = "success"
        => LET b == run[outcome[Len(outcome)].run].bundle
           IN  serving["prod"] = b.images /\ \E i \in DOMAIN accepted : accepted[i] = b

(***************************************************************************)
(* While a rollback moves the apps, the schema is still the one its        *)
(* compatibility review was about, whatever was released or lost between   *)
(* the review and the deployment.                                          *)
(***************************************************************************)
RollbackIsReviewed ==
    \A r \in Run :
        run[r].rollback /\ run[r].pc \in {"claimed", "applied", "deployed"}
            => review[run[r].tag].seen = schema["prod"]

(***************************************************************************)
(* The claims and outcomes implement the log of attempts.                  *)
(***************************************************************************)
Log == INSTANCE ReleaseLog WITH
    Image <- ImageSet, Schema <- Commit,
    open <- {[images |-> run[claim[t]].bundle.images,
              baseline |-> run[claim[t]].baseline] : t \in OpenTags},
    log <- [i \in DOMAIN outcome |-> outcome[i].status],
    serving <- serving["prod"], schema <- schema["prod"]

ImplementsReleaseLog == Log!Spec
=============================================================================
