--------------------------- MODULE ReleaseProofs ----------------------------
(***************************************************************************)
(* Machine-checked theorems about Release, for every number of commits,    *)
(* runs, acceptances and tags.                                             *)
(***************************************************************************)
EXTENDS Release, TLAPS

-----------------------------------------------------------------------------
(* The inductive invariant of the controller *)

Deploying == {"claimed", "held", "migrated", "applied", "deployed", "undeployed"}
Busy == {"prepared", "checked"} \cup Deploying

Closed(t) == claim[t] # None => \E i \in DOMAIN outcome : outcome[i].run = claim[t]

(***************************************************************************)
(* A run that has been checked is the only one that could claim; a run     *)
(* that has claimed is the only open one, prepared after the last outcome. *)
(***************************************************************************)
SoundRun(r, m) ==
    /\ m.pc \in Busy => m.tag \in Tag
    /\ m.pc \in {"held", "migrated"} => ~m.rollback
    /\ m.pc = "checked" => /\ \A t \in Tag : Closed(t)
                           /\ claim[m.tag] = None
                           /\ m.baseline = Len(outcome)
                           /\ m.rollback => ReviewStands(m.tag)
    /\ m.pc \in Deploying => /\ claim[m.tag] = r
                             /\ m.baseline = Len(outcome)
                             /\ \A t \in Tag \ {m.tag} : Closed(t)
    /\ m.pc = "deployed" => serving["prod"] = m.bundle.images
    /\ m.rollback /\ m.pc \in {"claimed", "applied", "deployed"}
           => review[m.tag].seen = schema["prod"]
    /\ \E i \in DOMAIN accepted : accepted[i] = m.bundle

SoundClaim(t) ==
    claim[t] # None => run[claim[t]].tag = t /\ run[claim[t]].pc \in Deploying \cup Finished

(* A review made after the last outcome is of the schema there is. *)
SoundReview(t) ==
    review[t].run # None =>
        /\ review[t].baseline <= Len(outcome)
        /\ review[t].target \in DOMAIN outcome
        /\ outcome[review[t].target].status = "success"
        /\ review[t].baseline = Len(outcome) /\ (\A x \in Tag : Closed(x))
               => review[t].seen = schema["prod"]

OneBusy == \A p, q \in Run : run[p].pc \in Busy /\ run[q].pc \in Busy => p = q

LastServed ==
    (\A t \in Tag : Closed(t)) /\ outcome # <<>> /\ outcome[Len(outcome)].status = "success"
        => serving["prod"] = run[outcome[Len(outcome)].run].bundle.images

(* What a free slot holds is accepted: it is the first release. *)
FirstAccepted == \E i \in DOMAIN accepted : accepted[i] = NoManifest.bundle

IInv ==
    /\ TypeOK
    /\ \A r \in Run : SoundRun(r, run[r])
    /\ \A t \in Tag : SoundClaim(t) /\ SoundReview(t)
    /\ \A i \in DOMAIN outcome : run[outcome[i].run].pc \in Finished
    /\ OneBusy
    /\ LastServed
    /\ FirstAccepted

-----------------------------------------------------------------------------
LEMMA Types ==
    ASSUME IInv
    PROVE  /\ serving \in [{"uat", "prod"} -> ImageSet]
           /\ serving["uat"] \in ImageSet /\ serving["prod"] \in ImageSet
           /\ schema \in [{"uat", "prod"} -> Commit]
           /\ schema["uat"] \in Commit /\ schema["prod"] \in Commit
           /\ cd \in Deployment /\ cd.images \in ImageSet /\ cd.commit \in Commit
           /\ receipt \subseteq Bundle /\ accepted \in Seq(Bundle)
           /\ tagAt \in [Tag -> 0..Last] /\ review \in [Tag -> Review]
           /\ run \in [Run -> Manifest] /\ \A r \in Run : run[r] \in Manifest /\ SoundRun(r, run[r])
           /\ claim \in [Tag -> Run \cup {None}] /\ outcome \in Seq(Outcome)
           /\ \A t \in Tag : claim[t] \in Run \cup {None}
           /\ \A i \in DOMAIN outcome : /\ outcome[i].run \in Run
                                        /\ run[outcome[i].run].pc \in Finished
<1>1. TypeOK /\ \A r \in Run : SoundRun(r, run[r])
  BY DEF IInv
<1>2. serving["uat"] \in ImageSet /\ serving["prod"] \in ImageSet
  BY <1>1 DEF TypeOK
<1>3. schema["uat"] \in Commit /\ schema["prod"] \in Commit
  BY <1>1 DEF TypeOK
<1>4. cd.images \in ImageSet /\ cd.commit \in Commit
  BY <1>1 DEF TypeOK, Deployment
<1>5. ASSUME NEW i \in DOMAIN outcome PROVE outcome[i].run \in Run
  <2>1. outcome[i] \in Outcome
    BY <1>1 DEF TypeOK
  <2> QED BY <2>1 DEF Outcome
<1>6. \A i \in DOMAIN outcome : run[outcome[i].run].pc \in Finished
  BY DEF IInv
<1> QED BY <1>1, <1>2, <1>3, <1>4, <1>5, <1>6 DEF TypeOK

LEMMA ManifestTypes ==
    ASSUME NEW m \in Manifest
    PROVE  /\ m.bundle \in Bundle /\ m.bundle.images \in ImageSet /\ m.bundle.commit \in Commit
           /\ m.rollback \in BOOLEAN /\ m.baseline \in Nat /\ m.tag \in Tag \cup {None}
           /\ m.pc \in {"idle"} \cup Busy \cup Finished
           /\ \A p \in Part : m.bundle.images[p] \in Commit
  BY DEF Manifest, Bundle, ImageSet, Busy, Deploying, Finished

LEMMA Steps ==
    /\ \A pc : ~(pc \in Busy /\ pc \in Finished)
    /\ "idle" \notin Busy \cup Finished /\ Deploying \subseteq Busy
  BY DEF Busy, Deploying, Finished

LEMMA OpenMeans == OpenTags = {} <=> \A t \in Tag : Closed(t)
  BY DEF OpenTags, Closed

(* What the properties need of the invariant. *)
LEMMA ServedFollows == IInv => LastSuccessIsServed
<1> SUFFICES ASSUME IInv, OpenTags = {}, outcome # <<>>, outcome[Len(outcome)].status = "success"
             PROVE  LET b == run[outcome[Len(outcome)].run].bundle
                    IN  serving["prod"] = b.images /\ \E i \in DOMAIN accepted : accepted[i] = b
  BY DEF LastSuccessIsServed
<1>1. outcome[Len(outcome)].run \in Run
  <2>1. Len(outcome) \in DOMAIN outcome
    BY Types
  <2> QED BY <2>1, Types
<1>2. serving["prod"] = run[outcome[Len(outcome)].run].bundle.images
  BY OpenMeans DEF IInv, LastServed
<1> QED BY <1>1, <1>2, Types DEF SoundRun

LEMMA ReviewedFollows == IInv => RollbackIsReviewed
  BY Types DEF RollbackIsReviewed, SoundRun

-----------------------------------------------------------------------------
(* Who is not busy cannot come to rely on anything *)

LEMMA StructKeeps ==
    ASSUME TypeOK', \A r \in Run : SoundRun(r, run[r])', \A t \in Tag : SoundClaim(t)',
           \A t \in Tag : SoundReview(t)',
           \A i \in DOMAIN outcome' : run'[outcome'[i].run].pc \in Finished,
           OneBusy', LastServed', FirstAccepted'
    PROVE  IInv'
  BY DEF IInv

(* The acceptances that there are stay. *)
Grows == \A i \in DOMAIN accepted : i \in DOMAIN accepted' /\ accepted'[i] = accepted[i]

(* A step that has nothing to do with production. *)
LEMMA AsideKeeps ==
    ASSUME IInv, TypeOK', Grows, UNCHANGED <<review, run, claim, outcome>>,
           serving'["prod"] = serving["prod"], schema'["prod"] = schema["prod"]
    PROVE  IInv'
<1>1. \A t \in Tag : Closed(t)' <=> Closed(t)
  BY DEF Closed
<1>2. ASSUME NEW r \in Run PROVE SoundRun(r, run[r])'
  <2>1. SoundRun(r, run[r]) /\ run[r] \in Manifest
    BY Types
  <2>2. run'[r] = run[r]
    OBVIOUS
  <2>3. \E i \in DOMAIN accepted' : accepted'[i] = run[r].bundle
    BY <2>1 DEF SoundRun, Grows
  <2> QED BY <2>1, <2>2, <2>3 DEF SoundRun, Closed, ReviewStands
<1>3. \A t \in Tag : SoundClaim(t)'
  BY DEF IInv, SoundClaim
<1>4. \A t \in Tag : SoundReview(t)'
  BY <1>1 DEF IInv, SoundReview
<1>5. OneBusy'
  BY DEF IInv, OneBusy
<1>6. LastServed'
  BY <1>1 DEF IInv, LastServed
<1>7. \A i \in DOMAIN outcome' : run'[outcome'[i].run].pc \in Finished
  BY DEF IInv
<1>8. FirstAccepted'
  BY DEF IInv, FirstAccepted, Grows, NoManifest
<1> QED BY <1>2, <1>3, <1>4, <1>5, <1>6, <1>7, <1>8, StructKeeps

-----------------------------------------------------------------------------
(* The environments *)

LEMMA NewerType ==
    ASSUME NEW a \in Commit, NEW b \in Commit
    PROVE  Newer(a, b) \in Commit /\ a <= Newer(a, b) /\ b <= Newer(a, b)
  BY ConstantsAssumption DEF Commit, Newer

LEMMA HoldMeans ==
    ASSUME serving \in [{"uat", "prod"} -> ImageSet], NEW e \in {"uat", "prod"},
           NEW images \in ImageSet, HoldApps(e, images)
    PROVE  /\ serving' \in [{"uat", "prod"} -> ImageSet]
           /\ \A x \in {"uat", "prod"} \ {e} : serving'[x] = serving[x]
           /\ serving'[e]["migrate"] = images["migrate"]
           /\ serving'[e]["api"] = serving[e]["api"]
<1> DEFINE new == [serving[e] EXCEPT !["migrate"] = images["migrate"]]
<1>1. serving[e] \in ImageSet /\ images["migrate"] \in Commit
  BY DEF ImageSet, Part
<1>2. new \in ImageSet /\ new["migrate"] = images["migrate"] /\ new["api"] = serving[e]["api"]
  BY <1>1 DEF ImageSet, Part
<1>3. serving' = [serving EXCEPT ![e] = new]
  BY DEF HoldApps
<1> HIDE DEF new
<1> QED BY <1>2, <1>3

LEMMA MoveMeans ==
    ASSUME serving \in [{"uat", "prod"} -> ImageSet], NEW e \in {"uat", "prod"},
           NEW images \in ImageSet, NEW moved \in SUBSET Part, MoveApps(e, images, moved)
    PROVE  /\ serving' \in [{"uat", "prod"} -> ImageSet]
           /\ \A x \in {"uat", "prod"} \ {e} : serving'[x] = serving[x]
           /\ \A p \in Part : serving'[e][p] \in {images[p], serving[e][p]}
<1> DEFINE new == [p \in Part |-> IF p \in moved THEN images[p] ELSE serving[e][p]]
<1>1. serving[e] \in ImageSet
  OBVIOUS
<1>2. new \in ImageSet /\ \A p \in Part : new[p] \in {images[p], serving[e][p]}
  BY <1>1 DEF ImageSet
<1>3. serving' = [serving EXCEPT ![e] = new]
  BY DEF MoveApps
<1> HIDE DEF new
<1> QED BY <1>2, <1>3

LEMMA MigrateMeans ==
    ASSUME schema \in [{"uat", "prod"} -> Commit], NEW e \in {"uat", "prod"}, NEW c \in Commit,
           NEW applied \in BOOLEAN, MigrateTo(e, c, applied)
    PROVE  /\ schema' \in [{"uat", "prod"} -> Commit]
           /\ \A x \in {"uat", "prod"} \ {e} : schema'[x] = schema[x]
           /\ schema[e] <= schema'[e] /\ (applied => c <= schema'[e])
<1>1. schema[e] \in Commit
  OBVIOUS
<1>2. Newer(schema[e], c) \in Commit /\ schema[e] <= Newer(schema[e], c) /\ c <= Newer(schema[e], c)
  BY <1>1, NewerType
<1>3. schema[e] <= schema[e]
  BY <1>1, ConstantsAssumption DEF Commit
<1> QED BY <1>1, <1>2, <1>3 DEF MigrateTo

LEMMA CdType ==
    ASSUME IInv, NEW pc \in {"idle", "started", "held", "migrated", "applied"}, CdTo(pc)
    PROVE  cd' \in Deployment
  BY Types DEF CdTo, Deployment

-----------------------------------------------------------------------------
(* UAT *)

LEMMA SelectType ==
    ASSUME IInv, NEW c \in Commit, NEW docsOnly \in BOOLEAN
    PROVE  SelectImages(c, docsOnly) \in ImageSet
  BY Types DEF SelectImages, AllAt, ImageSet, Part

LEMMA UatKeeps == ASSUME IInv, Uat PROVE IInv'
<1>1. ASSUME NEW c \in Commit, NEW docsOnly \in BOOLEAN, DeployUat(c, docsOnly) PROVE IInv'
  <2>1. cd' \in Deployment
    BY <1>1, SelectType DEF DeployUat, Deployment
  <2>2. TypeOK' /\ Grows
    BY <1>1, <2>1, Types DEF DeployUat, TypeOK, Grows
  <2> QED BY <1>1, <2>2, AsideKeeps DEF DeployUat
<1>2. ASSUME NEW passed \in BOOLEAN, UatHold(passed) PROVE IInv'
  <2>1. cd' \in Deployment
    BY <1>2, CdType DEF UatHold
  <2>2. /\ serving' \in [{"uat", "prod"} -> ImageSet] /\ serving'["prod"] = serving["prod"]
    BY <1>2, HoldMeans, Types DEF UatHold
  <2>3. TypeOK' /\ Grows
    BY <1>2, <2>1, <2>2, Types DEF UatHold, TypeOK, Grows
  <2> QED BY <1>2, <2>2, <2>3, AsideKeeps DEF UatHold
<1>3. ASSUME NEW applied \in BOOLEAN, NEW passed \in BOOLEAN, UatMigrate(applied, passed) PROVE IInv'
  <2>1. cd' \in Deployment
    BY <1>3, CdType DEF UatMigrate
  <2>2. cd.images["migrate"] \in Commit
    BY Types DEF ImageSet, Part
  <2>3. schema' \in [{"uat", "prod"} -> Commit] /\ schema'["prod"] = schema["prod"]
    BY <1>3, <2>2, MigrateMeans, Types DEF UatMigrate
  <2>4. TypeOK' /\ Grows
    BY <1>3, <2>1, <2>3, Types DEF UatMigrate, TypeOK, Grows
  <2> QED BY <1>3, <2>3, <2>4, AsideKeeps DEF UatMigrate
<1>4. ASSUME NEW moved \in SUBSET Part, NEW passed \in BOOLEAN, UatMove(moved, passed) PROVE IInv'
  <2>1. cd' \in Deployment
    BY <1>4, CdType DEF UatMove
  <2>2. /\ serving' \in [{"uat", "prod"} -> ImageSet] /\ serving'["prod"] = serving["prod"]
    BY <1>4, MoveMeans, Types DEF UatMove
  <2>3. TypeOK' /\ Grows
    BY <1>4, <2>1, <2>2, Types DEF UatMove, TypeOK, Grows
  <2> QED BY <1>4, <2>2, <2>3, AsideKeeps DEF UatMove
<1>5. CASE RecordUat \/ UatFails
  <2>1. cd' \in Deployment
    BY <1>5, CdType DEF RecordUat, UatFails
  <2>2. receipt' \subseteq Bundle
    BY <1>5, Types DEF RecordUat, UatFails, Bundle
  <2>3. TypeOK' /\ Grows
    BY <1>5, <2>1, <2>2, Types DEF RecordUat, UatFails, TypeOK, Grows
  <2> QED BY <1>5, <2>3, AsideKeeps DEF RecordUat, UatFails
<1>6. ASSUME NEW b \in receipt, AcceptUat(b) PROVE IInv'
  <2>1. accepted' \in Seq(Bundle) /\ Grows
    BY <1>6, Types DEF AcceptUat, Grows
  <2>2. TypeOK'
    BY <1>6, <2>1, Types DEF AcceptUat, TypeOK
  <2> QED BY <1>6, <2>1, <2>2, AsideKeeps DEF AcceptUat
<1> QED BY <1>1, <1>2, <1>3, <1>4, <1>5, <1>6 DEF Uat

-----------------------------------------------------------------------------
(* Requests, and runs before their claim *)

LEMMA FreeMeans ==
    ASSUME IInv, GroupFree, NEW r \in Run
    PROVE  run[r].pc \notin Busy
  BY Steps DEF GroupFree, Busy, Deploying, Finished

(* Run r is written, and no claim is its. *)
LEMMA RunKeeps ==
    ASSUME IInv, NEW r \in Run, NEW m \in Manifest, run' = [run EXCEPT ![r] = m],
           tagAt' \in [Tag -> 0..Last],
           UNCHANGED <<serving, schema, uatVars, review, claim, outcome>>,
           run[r].pc \notin Finished \cup Deploying,
           m.pc \in Busy => GroupFree \/ run[r].pc \in Busy,
           SoundRun(r, m)
    PROVE  IInv'
<1>1. /\ run \in [Run -> Manifest] /\ run' \in [Run -> Manifest]
      /\ run'[r] = m /\ \A q \in Run \ {r} : run'[q] = run[q]
  BY Types
<1>2. TypeOK'
  BY <1>1, Types DEF TypeOK, uatVars
<1>3. \A q \in Run : run[q].pc \in Finished \cup Deploying => run'[q] = run[q]
  BY <1>1
<1>4. ASSUME NEW t \in Tag, review[t].run # None, run[review[t].run].pc = "succeeded"
      PROVE  run'[review[t].run].pc = "succeeded"
  <2>1. review[t].run \in Run
    BY <1>4, Types DEF Review
  <2> QED BY <1>3, <1>4, <2>1 DEF Finished
<1>5. ASSUME NEW q \in Run PROVE SoundRun(q, run[q])'
  <2>1. SoundRun(q, run'[q])
    BY <1>1, Types
  <2>2. run'[q].pc = "checked" => run'[q].tag \in Tag
    BY <2>1 DEF SoundRun, Busy
  <2> QED BY <2>1, <2>2, <1>4 DEF SoundRun, Closed, ReviewStands, uatVars
<1>6. ASSUME NEW t \in Tag PROVE SoundClaim(t)' /\ SoundReview(t)'
  <2>1. SoundClaim(t) /\ SoundReview(t) /\ claim[t] \in Run \cup {None}
    BY Types DEF IInv
  <2>2. SoundClaim(t)'
    BY <1>3, <2>1 DEF SoundClaim
  <2>3. SoundReview(t)'
    BY <2>1 DEF SoundReview, Closed
  <2> QED BY <2>2, <2>3
<1>7. \A i \in DOMAIN outcome' : run'[outcome'[i].run].pc \in Finished
  BY <1>3, Types
<1>8. OneBusy'
  BY <1>1, FreeMeans DEF OneBusy, IInv
<1>9. LastServed'
  <2> SUFFICES ASSUME \A t \in Tag : Closed(t), outcome # <<>>, outcome[Len(outcome)].status = "success"
               PROVE  serving["prod"] = run'[outcome[Len(outcome)].run].bundle.images
    BY DEF LastServed, Closed
  <2>1. Len(outcome) \in DOMAIN outcome
    BY Types
  <2>2. run'[outcome[Len(outcome)].run] = run[outcome[Len(outcome)].run]
    BY <1>3, <2>1, Types
  <2> QED BY <2>2 DEF IInv, LastServed
<1>10. FirstAccepted'
  BY DEF IInv, FirstAccepted, uatVars
<1> QED BY <1>2, <1>5, <1>6, <1>7, <1>8, <1>9, <1>10, StructKeeps

LEMMA PcType ==
    ASSUME NEW m \in Manifest, NEW pc \in {"idle"} \cup Busy \cup Finished
    PROVE  /\ [m EXCEPT !.pc = pc] \in Manifest /\ [m EXCEPT !.pc = pc].pc = pc
           /\ [m EXCEPT !.pc = pc].tag = m.tag /\ [m EXCEPT !.pc = pc].bundle = m.bundle
           /\ [m EXCEPT !.pc = pc].rollback = m.rollback
           /\ [m EXCEPT !.pc = pc].baseline = m.baseline
  BY DEF Manifest, Busy, Deploying, Finished

LEMMA ToMeans ==
    ASSUME IInv, NEW r \in Run, NEW pc, To(r, pc)
    PROVE  run' = [run EXCEPT ![r] = [run[r] EXCEPT !.pc = pc]]
  BY Types DEF To

LEMMA RegisterKeeps ==
    ASSUME IInv, NEW r \in Run, NEW t \in Tag, NEW target \in DOMAIN outcome,
           NEW passed \in BOOLEAN, RegisterRollback(r, t, target, passed)
    PROVE  IInv'
<1> DEFINE pc == IF passed THEN "succeeded" ELSE "failed"
           m == [run[r] EXCEPT !.pc = pc]
           v == [target |-> target, baseline |-> Len(outcome), run |-> r, seen |-> schema["prod"]]
<1>1. /\ GroupFree /\ run[r].pc = "idle" /\ outcome[target].status = "success"
      /\ UNCHANGED <<serving, schema, cd, receipt, accepted, tagAt, claim, outcome>>
      /\ review' = [review EXCEPT ![t] = v]
      /\ run' = [run EXCEPT ![r] = m]
  BY Types DEF RegisterRollback, CanStart, uatVars
<1>2. m \in Manifest /\ m.pc \in Finished /\ m.bundle = run[r].bundle
  <2>1. run[r] \in Manifest /\ pc \in Finished
    BY Types DEF Finished
  <2> HIDE DEF pc
  <2>2. m \in Manifest /\ m.pc = pc /\ m.bundle = run[r].bundle
    BY <2>1, PcType
  <2> QED BY <2>1, <2>2
<1>3. v \in Review
  BY Types, ConstantsAssumption DEF Review, Commit
<1>4. /\ run' \in [Run -> Manifest] /\ run'[r] = m /\ \A q \in Run \ {r} : run'[q] = run[q]
      /\ review' \in [Tag -> Review] /\ review'[t] = v
      /\ \A x \in Tag \ {t} : review'[x] = review[x]
  BY <1>1, <1>2, <1>3, Types
<1>5. v.run = r /\ v.baseline = Len(outcome) /\ v.target = target /\ v.seen = schema["prod"]
  OBVIOUS
<1> HIDE DEF m, v
<1>6. TypeOK'
  BY <1>1, <1>4, Types DEF TypeOK
<1>7. \A q \in Run : run'[q].pc \notin Busy
  BY <1>1, <1>2, <1>4, FreeMeans, Steps
<1>8. ASSUME NEW q \in Run PROVE SoundRun(q, run[q])'
  <2>1. run'[q].bundle = run[q].bundle
    BY <1>2, <1>4
  <2>2. SoundRun(q, run[q])
    BY Types
  <2>3. \E i \in DOMAIN accepted : accepted[i] = run'[q].bundle
    BY <2>1, <2>2 DEF SoundRun
  <2>4. run'[q].pc \notin Busy
    BY <1>7
  <2> QED BY <1>1, <2>3, <2>4 DEF SoundRun, Busy, Deploying
<1>9. ASSUME NEW x \in Tag PROVE SoundClaim(x)' /\ SoundReview(x)'
  <2>1. SoundClaim(x) /\ SoundReview(x) /\ claim[x] \in Run \cup {None}
    BY Types DEF IInv
  <2>2. SoundClaim(x)'
    BY <1>1, <1>4, <2>1, Steps DEF SoundClaim
  <2>3. CASE x = t
    BY <1>1, <1>4, <1>5, <2>2, <2>3, Types DEF SoundReview, Closed
  <2>4. CASE x # t
    BY <1>1, <1>4, <2>1, <2>2, <2>4 DEF SoundReview, Closed
  <2> QED BY <2>3, <2>4
<1>10. \A i \in DOMAIN outcome' : run'[outcome'[i].run].pc \in Finished
  BY <1>1, <1>2, <1>4, Types
<1>11. OneBusy'
  BY <1>7 DEF OneBusy
<1>12. LastServed'
  <2> SUFFICES ASSUME \A x \in Tag : Closed(x), outcome # <<>>, outcome[Len(outcome)].status = "success"
               PROVE  serving["prod"] = run'[outcome[Len(outcome)].run].bundle.images
    BY <1>1 DEF LastServed, Closed
  <2>1. Len(outcome) \in DOMAIN outcome
    BY Types
  <2>2. run'[outcome[Len(outcome)].run].bundle = run[outcome[Len(outcome)].run].bundle
    BY <1>2, <1>4, <2>1, Types
  <2> QED BY <2>2 DEF IInv, LastServed
<1>13. FirstAccepted'
  BY <1>1 DEF IInv, FirstAccepted
<1> QED BY <1>6, <1>8, <1>9, <1>10, <1>11, <1>12, <1>13, StructKeeps

LEMMA PrepareKeeps ==
    ASSUME IInv, NEW r \in Run, NEW t \in Tag, NEW c \in Commit,
           PrepareRelease(r, t, c) \/ PrepareRollback(r, t, c)
    PROVE  IInv'
<1>1. /\ GroupFree /\ run[r].pc = "idle" /\ PlacedAt(t, c)
      /\ UNCHANGED <<serving, schema, uatVars, review, claim, outcome>>
  BY DEF PrepareRelease, PrepareRollback, CanStart
<1>2. tagAt' \in [Tag -> 0..Last]
  BY <1>1, Types, ConstantsAssumption DEF PlacedAt, Commit
<1>3. PICK b \in Bundle, rollback \in BOOLEAN :
          Prepared(r, t, b, rollback) /\ \E i \in DOMAIN accepted : accepted[i] = b
  <2>1. CASE PrepareRelease(r, t, c)
    <3>1. PICK i \in DOMAIN accepted : Prepared(r, t, accepted[i], FALSE)
      BY <2>1 DEF PrepareRelease, AcceptedFor
    <3>2. accepted[i] \in Bundle
      BY Types
    <3> QED BY <3>1, <3>2
  <2>2. CASE PrepareRollback(r, t, c)
    <3> DEFINE q == outcome[review[t].target].run
    <3>1. q \in Run
      BY <2>2, Types DEF PrepareRollback, ReviewStands
    <3>2. run[q].bundle \in Bundle /\ \E i \in DOMAIN accepted : accepted[i] = run[q].bundle
      BY <3>1, ManifestTypes, Types DEF SoundRun
    <3>3. Prepared(r, t, run[q].bundle, TRUE)
      BY <2>2 DEF PrepareRollback
    <3> QED BY <3>2, <3>3
  <2> QED BY <2>1, <2>2
<1> DEFINE m == [pc |-> "prepared", tag |-> t, bundle |-> b,
                 rollback |-> rollback, baseline |-> Len(outcome)]
<1>4. m \in Manifest
  BY Types DEF Manifest
<1>5. run' = [run EXCEPT ![r] = m]
  BY <1>3 DEF Prepared
<1>6. SoundRun(r, m)
  BY <1>3 DEF SoundRun, Deploying
<1> HIDE DEF m
<1> QED BY <1>1, <1>2, <1>4, <1>5, <1>6, RunKeeps, Steps DEF Finished, Deploying

LEMMA MoveTagKeeps ==
    ASSUME IInv, NEW r \in Run, NEW c \in 0..Last, MoveTag(r, c) PROVE IInv'
<1>1. tagAt' \in [Tag -> 0..Last]
  BY Types DEF MoveTag
<1>2. TypeOK' /\ Grows
  BY <1>1, Types DEF MoveTag, TypeOK, uatVars, Grows
<1> QED BY <1>2, AsideKeeps DEF MoveTag, uatVars

LEMMA BeginCheckKeeps == ASSUME IInv, NEW r \in Run, BeginCheck(r) PROVE IInv'
<1> DEFINE m == [run[r] EXCEPT !.pc = "checked"]
<1>1. run[r] \in Manifest /\ SoundRun(r, run[r]) /\ run[r].pc = "prepared"
  BY Types DEF BeginCheck
<1>2. m \in Manifest /\ m.pc = "checked" /\ m.tag = run[r].tag /\ m.bundle = run[r].bundle
      /\ m.rollback = run[r].rollback /\ m.baseline = run[r].baseline
  BY <1>1, PcType DEF Busy
<1>3. run' = [run EXCEPT ![r] = m]
  BY ToMeans DEF BeginCheck
<1>4. run[r].tag \in Tag
  BY <1>1 DEF SoundRun, Busy
<1>5. \A t \in Tag : Closed(t)
  BY DEF BeginCheck, HistoryIsClosed, ClaimsClosed, Closed
<1> HIDE DEF m
<1>6. m.rollback => ReviewStands(m.tag)
  BY <1>2 DEF BeginCheck
<1>7. SoundRun(r, m)
  BY <1>1, <1>2, <1>4, <1>5, <1>6 DEF BeginCheck, SoundRun, Deploying
<1> QED BY <1>1, <1>2, <1>3, <1>7, RunKeeps, Types DEF BeginCheck, Finished, Deploying, Busy

(* Before its claim a run can be lost: its slot is free again. *)
LEMMA LostEarlyKeeps ==
    ASSUME IInv, NEW r \in Run, RunLost(r), run[r].pc \in {"prepared", "checked"}
    PROVE  IInv'
<1> DEFINE m == NoManifest
<1>1. m \in Manifest /\ m.pc = "idle"
  BY ConstantsAssumption DEF NoManifest, Manifest, Bundle, ImageSet, AllAt, Commit
<1>2. run' = [run EXCEPT ![r] = NoManifest]
  BY Types DEF RunLost
<1>3. \E i \in DOMAIN accepted : accepted[i] = m.bundle
  BY DEF IInv, FirstAccepted
<1> HIDE DEF m
<1>4. SoundRun(r, m)
  BY <1>1, <1>3 DEF SoundRun, Busy, Deploying
<1>5. tagAt' \in [Tag -> 0..Last] /\ UNCHANGED <<serving, schema, uatVars, review, claim, outcome>>
  BY Types DEF RunLost
<1>6. run' = [run EXCEPT ![r] = m]
  BY <1>2 DEF m
<1> QED BY <1>1, <1>4, <1>5, <1>6, RunKeeps DEF Busy, Deploying, Finished

-----------------------------------------------------------------------------
(* From the claim to the outcome *)

LEMMA Alone ==
    ASSUME IInv, NEW r \in Run, run[r].pc \in Busy
    PROVE  /\ \A q \in Run \ {r} : run[q].pc \notin Busy
           /\ \A i \in DOMAIN outcome : outcome[i].run # r
  BY Steps, Types DEF IInv, OneBusy

(* A run that is not busy relies on nothing but its acceptance. *)
LEMMA AtRest ==
    ASSUME IInv, NEW q \in Run, run'[q] = run[q], run[q].pc \notin Busy, accepted' = accepted
    PROVE  SoundRun(q, run[q])'
<1>1. \E i \in DOMAIN accepted : accepted[i] = run[q].bundle
  BY Types DEF SoundRun
<1> QED BY <1>1 DEF SoundRun, Busy, Deploying

(* Run r writes only itself, and its claim is the open one afterwards. *)
LEMMA OpenKeeps ==
    ASSUME IInv, TypeOK', NEW r \in Run, NEW m \in Manifest, run' = [run EXCEPT ![r] = m],
           run[r].pc \in Busy, m.tag = run[r].tag, m.pc \in Deploying \cup {"failed"},
           UNCHANGED <<uatVars, review, outcome>>,
           NEW t \in Tag, m.tag = t, claim' = [claim EXCEPT ![t] = r],
           \A x \in Tag \ {t} : claim[x] # r,
           SoundRun(r, run[r])'
    PROVE  IInv'
<1>1. /\ run \in [Run -> Manifest] /\ run'[r] = m /\ \A q \in Run \ {r} : run'[q] = run[q]
      /\ claim'[t] = r /\ \A x \in Tag \ {t} : claim'[x] = claim[x]
      /\ accepted' = accepted
  BY Types DEF uatVars
<1>2. /\ \A q \in Run \ {r} : run[q].pc \notin Busy
      /\ \A i \in DOMAIN outcome : outcome[i].run # r
  BY Alone
<1>3. ~Closed(t)'
  BY <1>1, <1>2, ConstantsAssumption DEF Closed, Run
<1>4. \A q \in Run : SoundRun(q, run[q])'
  BY <1>1, <1>2, AtRest
<1>5. ASSUME NEW x \in Tag PROVE SoundClaim(x)' /\ SoundReview(x)'
  <2>1. SoundClaim(x) /\ SoundReview(x) /\ claim[x] \in Run \cup {None}
    BY Types DEF IInv
  <2>2. SoundClaim(x)'
    BY <1>1, <2>1 DEF SoundClaim, Finished
  <2>3. SoundReview(x)'
    BY <1>3, <2>1 DEF SoundReview
  <2> QED BY <2>2, <2>3
<1>6. \A i \in DOMAIN outcome' : run'[outcome'[i].run].pc \in Finished
  BY <1>1, <1>2, Types
<1>7. OneBusy'
  BY <1>1, <1>2 DEF OneBusy
<1>8. LastServed'
  BY <1>3 DEF LastServed
<1>9. FirstAccepted'
  BY <1>1 DEF IInv, FirstAccepted
<1> QED BY <1>4, <1>5, <1>6, <1>7, <1>8, <1>9, StructKeeps

LEMMA WriteClaimKeeps ==
    ASSUME IInv, NEW r \in Run, NEW answered \in BOOLEAN, WriteClaim(r, answered)
    PROVE  IInv'
<1> DEFINE pc == IF answered THEN "claimed" ELSE "failed"
           m == [run[r] EXCEPT !.pc = pc]
           t == run[r].tag
<1>1. run[r] \in Manifest /\ SoundRun(r, run[r]) /\ run[r].pc = "checked"
  BY Types DEF WriteClaim
<1>2. pc \in {"claimed", "failed"}
  OBVIOUS
<1>3. run' = [run EXCEPT ![r] = m]
  BY ToMeans DEF WriteClaim
<1> HIDE DEF pc
<1>4. /\ m \in Manifest /\ m.pc = pc /\ m.tag = t /\ m.bundle = run[r].bundle
      /\ m.rollback = run[r].rollback /\ m.baseline = run[r].baseline
  BY <1>1, <1>2, PcType DEF Busy, Deploying, Finished
<1>5. /\ t \in Tag /\ claim[t] = None /\ claim' = [claim EXCEPT ![t] = r]
      /\ UNCHANGED <<serving, schema, uatVars, tagAt, review, outcome>>
  BY <1>1 DEF WriteClaim, SoundRun, Busy
<1> HIDE DEF m
<1>6. run'[r] = m /\ claim'[t] = r /\ \A x \in Tag \ {t} : claim'[x] = claim[x]
  BY <1>3, <1>5, Types
<1>7. TypeOK'
  BY <1>3, <1>4, <1>5, Types DEF TypeOK, uatVars
<1>8. ASSUME NEW x \in Tag \ {t} PROVE claim[x] # r
  <2>1. r # None
    BY ConstantsAssumption DEF Run
  <2>2. SoundClaim(x)
    BY DEF IInv
  <2>3. run[r].pc \notin Deploying \cup Finished
    BY <1>1 DEF Deploying, Finished
  <2> QED BY <2>1, <2>2, <2>3 DEF SoundClaim
<1>9. m.rollback => review[t].seen = schema["prod"]
  <2>1. m.rollback => ReviewStands(t)
    BY <1>1, <1>4 DEF SoundRun
  <2>2. SoundReview(t) /\ \A x \in Tag : Closed(x)
    BY <1>1, <1>5 DEF SoundRun, IInv
  <2> QED BY <2>1, <2>2 DEF ReviewStands, SoundReview
<1>10. SoundRun(r, run[r])'
  <2>1. m.baseline = Len(outcome) /\ \A x \in Tag \ {t} : Closed(x)'
    BY <1>1, <1>4, <1>5, <1>6 DEF SoundRun, Closed
  <2>2. \E i \in DOMAIN accepted' : accepted'[i] = m.bundle
    BY <1>1, <1>4, <1>5 DEF SoundRun, uatVars
  <2> QED BY <1>2, <1>4, <1>5, <1>6, <1>9, <2>1, <2>2 DEF SoundRun, Deploying, Busy
<1> QED BY <1>1, <1>2, <1>3, <1>4, <1>5, <1>7, <1>8, <1>10, OpenKeeps DEF Deploying, Busy

(* What a step of a deployment does to its run: the claim is there and stays. *)
LEMMA DeployKeeps ==
    ASSUME IInv, NEW r \in Run, run[r].pc \in Deploying,
           NEW pc \in Deploying \cup {"failed"}, To(r, pc),
           serving' \in [{"uat", "prod"} -> ImageSet],
           schema' \in [{"uat", "prod"} -> Commit],
           UNCHANGED <<uatVars, tagAt, review, claim, outcome>>,
           pc \in {"held", "migrated"} => ~run[r].rollback,
           pc = "deployed" => serving'["prod"] = run[r].bundle.images,
           run[r].rollback /\ pc \in {"claimed", "applied", "deployed"}
               => review[run[r].tag].seen = schema'["prod"]
    PROVE  IInv'
<1> DEFINE m == [run[r] EXCEPT !.pc = pc]
           t == run[r].tag
<1>1. run[r] \in Manifest /\ SoundRun(r, run[r])
  BY Types
<1>2. run' = [run EXCEPT ![r] = m]
  BY ToMeans
<1>3. /\ m \in Manifest /\ m.pc = pc /\ m.tag = t /\ m.bundle = run[r].bundle
      /\ m.rollback = run[r].rollback /\ m.baseline = run[r].baseline
  BY <1>1, PcType DEF Busy, Finished
<1> HIDE DEF m
<1>4. t \in Tag /\ claim[t] = r
  BY <1>1, Steps DEF SoundRun
<1>5. claim' = [claim EXCEPT ![t] = r]
  BY <1>4, Types
<1>6. run'[r] = m
  BY <1>2, Types
<1>7. TypeOK'
  BY <1>2, <1>3, Types DEF TypeOK, uatVars
<1>8. ASSUME NEW x \in Tag \ {t} PROVE claim[x] # r
  <2>1. r # None
    BY ConstantsAssumption DEF Run
  <2>2. SoundClaim(x)
    BY DEF IInv
  <2> QED BY <2>1, <2>2 DEF SoundClaim
<1>9. SoundRun(r, run[r])'
  <2>1. m.baseline = Len(outcome) /\ \A x \in Tag \ {t} : Closed(x)'
    BY <1>1, <1>3 DEF SoundRun, Closed
  <2>2. \E i \in DOMAIN accepted' : accepted'[i] = m.bundle
    BY <1>1, <1>3 DEF SoundRun, uatVars
  <2> QED BY <1>3, <1>4, <1>6, <2>1, <2>2 DEF SoundRun, Deploying, Busy
<1>10. /\ run[r].pc \in Busy /\ m.pc \in Deploying \cup {"failed"} /\ m \in Manifest
       /\ m.tag = run[r].tag /\ m.tag = t /\ t \in Tag
  BY <1>3, <1>4, Steps
<1>11. UNCHANGED <<uatVars, review, outcome>>
  OBVIOUS
<1> HIDE DEF t
<1> QED BY ONLY IInv, r \in Run, <1>2, <1>5, <1>7, <1>8, <1>9, <1>10, <1>11, OpenKeeps

LEMMA ProdKeeps ==
    ASSUME IInv, NEW r \in Run,
           \/ \E passed \in BOOLEAN : ProdHold(r, passed)
           \/ \E applied, passed \in BOOLEAN : ProdMigrate(r, applied, passed)
           \/ \E moved \in SUBSET Part, passed \in BOOLEAN : ProdMove(r, moved, passed)
           \/ VerifyProd(r) \/ StepFails(r)
    PROVE  IInv'
<1>1. run[r] \in Manifest /\ SoundRun(r, run[r])
  BY Types
<1>2. run[r].bundle.images \in ImageSet /\ run[r].bundle.images["migrate"] \in Commit
  BY <1>1, ManifestTypes DEF Part
<1>3. ASSUME NEW passed \in BOOLEAN, ProdHold(r, passed) PROVE IInv'
  <2>1. serving' \in [{"uat", "prod"} -> ImageSet]
    BY <1>2, <1>3, HoldMeans, Types DEF ProdHold
  <2>2. PICK pc \in {"held", "undeployed"} : To(r, pc)
    BY <1>3 DEF ProdHold
  <2>3. run[r].pc \in Deploying /\ pc \in Deploying
    BY <1>3 DEF ProdHold, Deploying
  <2> QED BY <1>3, <2>1, <2>2, <2>3, DeployKeeps, Types DEF ProdHold
<1>4. ASSUME NEW applied \in BOOLEAN, NEW passed \in BOOLEAN, ProdMigrate(r, applied, passed)
      PROVE  IInv'
  <2>1. schema' \in [{"uat", "prod"} -> Commit]
    BY <1>2, <1>4, MigrateMeans, Types DEF ProdMigrate
  <2>2. PICK pc \in {"migrated", "undeployed"} : To(r, pc)
    BY <1>4 DEF ProdMigrate
  <2>3. run[r].pc \in Deploying /\ pc \in Deploying /\ ~run[r].rollback
    BY <1>1, <1>4 DEF ProdMigrate, Deploying, SoundRun
  <2>4. UNCHANGED <<serving, uatVars, tagAt, review, claim, outcome>>
    BY <1>4 DEF ProdMigrate
  <2>5. serving' \in [{"uat", "prod"} -> ImageSet] /\ pc \notin {"claimed", "applied", "deployed"}
    BY <2>2, <2>4, Types
  <2> QED BY <2>1, <2>2, <2>3, <2>4, <2>5, DeployKeeps
<1>5. ASSUME NEW moved \in SUBSET Part, NEW passed \in BOOLEAN, ProdMove(r, moved, passed)
      PROVE  IInv'
  <2>1. serving' \in [{"uat", "prod"} -> ImageSet]
    BY <1>2, <1>5, MoveMeans, Types DEF ProdMove
  <2>2. PICK pc \in {"applied", "undeployed"} : To(r, pc)
    BY <1>5 DEF ProdMove
  <2>3. run[r].pc \in Deploying /\ pc \in Deploying
    BY <1>5 DEF ProdMove, Deploying
  <2>4. run[r].rollback => review[run[r].tag].seen = schema["prod"]
    BY <1>1, <1>5 DEF SoundRun, ProdMove
  <2> QED BY <1>5, <2>1, <2>2, <2>3, <2>4, DeployKeeps, Types DEF ProdMove
<1>6. CASE VerifyProd(r)
  <2>1. run[r].pc \in Deploying /\ "deployed" \in Deploying /\ To(r, "deployed")
    BY <1>6 DEF VerifyProd, Deploying
  <2>2. run[r].rollback => review[run[r].tag].seen = schema["prod"]
    BY <1>1, <1>6 DEF SoundRun, VerifyProd
  <2> QED BY <1>6, <2>1, <2>2, DeployKeeps, Types DEF VerifyProd, Verified
<1>7. CASE StepFails(r)
  <2>1. run[r].pc \in Deploying /\ "undeployed" \in Deploying /\ To(r, "undeployed")
    BY <1>7 DEF StepFails, Deploying
  <2> QED BY <1>7, <2>1, DeployKeeps, Types DEF StepFails
<1> QED BY <1>3, <1>4, <1>5, <1>6, <1>7

LEMMA LostKeeps == ASSUME IInv, NEW r \in Run, RunLost(r) PROVE IInv'
<1>1. CASE run[r].pc \in {"prepared", "checked"}
  BY <1>1, LostEarlyKeeps
<1>2. CASE run[r].pc \notin {"prepared", "checked"}
  <2>1. run[r].pc \in Deploying
    BY <1>2, ManifestTypes, Types DEF RunLost, Busy
  <2>2. To(r, "failed")
    BY <1>2, Types DEF RunLost, To
  <2> QED BY <2>1, <2>2, DeployKeeps, Types DEF RunLost
<1> QED BY <1>1, <1>2

LEMMA FinishKeeps ==
    ASSUME IInv, NEW r \in Run, NEW published \in BOOLEAN, NEW passed \in BOOLEAN,
           Finish(r, published, passed)
    PROVE  IInv'
<1> DEFINE pc == IF passed THEN "succeeded" ELSE "failed"
           m == [run[r] EXCEPT !.pc = pc]
           n == Len(outcome)
           o == [run |-> r, status |-> Status(r, published)]
<1>1. run[r] \in Manifest /\ SoundRun(r, run[r]) /\ run[r].pc \in {"deployed", "undeployed"}
  BY Types DEF Finish
<1>2. pc \in Finished
  BY DEF Finished
<1>3. run' = [run EXCEPT ![r] = m]
  BY ToMeans DEF Finish
<1> HIDE DEF pc
<1>4. m \in Manifest /\ m.pc = pc /\ m.tag = run[r].tag /\ m.bundle = run[r].bundle
  BY <1>1, <1>2, PcType
<1>5. o \in Outcome /\ o.run = r /\ (o.status = "success" => run[r].pc = "deployed")
  BY DEF Outcome, Status
<1>6. outcome' = Append(outcome, o)
  BY DEF Finish
<1>7. UNCHANGED <<serving, schema, uatVars, tagAt, review, claim>>
  BY DEF Finish
<1> HIDE DEF m, o
<1>8. /\ run \in [Run -> Manifest] /\ run' \in [Run -> Manifest]
      /\ run'[r] = m /\ \A q \in Run \ {r} : run'[q] = run[q]
  BY <1>3, <1>4, Types
<1>9. /\ n \in Nat /\ outcome' \in Seq(Outcome) /\ Len(outcome') = n + 1 /\ outcome'[n + 1] = o
      /\ DOMAIN outcome = 1..n /\ DOMAIN outcome' = 1..(n + 1)
      /\ \A i \in 1..n : outcome'[i] = outcome[i]
  BY <1>5, <1>6, Types
<1> HIDE DEF n
<1>10. TypeOK'
  BY <1>7, <1>8, <1>9, Types DEF TypeOK, uatVars
<1>11. /\ \A q \in Run \ {r} : run[q].pc \notin Busy
       /\ \A i \in DOMAIN outcome : outcome[i].run # r
  BY <1>1, Alone DEF Busy, Deploying
<1>12. ASSUME NEW q \in Run PROVE SoundRun(q, run[q])'
  <2>1. run'[q].bundle = run[q].bundle /\ run'[q].pc \notin Busy
    BY <1>2, <1>4, <1>8, <1>11, Steps
  <2>2. \E i \in DOMAIN accepted' : accepted'[i] = run'[q].bundle
    BY <1>7, <2>1, Types DEF SoundRun, uatVars
  <2> QED BY <2>1, <2>2 DEF SoundRun, Busy, Deploying
<1>13. ASSUME NEW x \in Tag PROVE SoundClaim(x)' /\ SoundReview(x)'
  <2>1. SoundClaim(x) /\ SoundReview(x) /\ claim[x] \in Run \cup {None}
    BY Types DEF IInv
  <2>2. SoundClaim(x)'
    BY <1>2, <1>4, <1>7, <1>8, <2>1 DEF SoundClaim
  <2>3. review[x].run # None =>
            /\ review[x].baseline \in Nat /\ review[x].baseline <= n
            /\ review[x].target \in 1..n /\ outcome[review[x].target].status = "success"
    BY <1>9, <2>1, Types DEF SoundReview, Review, n
  <2>4. SoundReview(x)'
    BY <1>7, <1>9, <2>3 DEF SoundReview
  <2> QED BY <2>2, <2>4
<1>14. \A i \in DOMAIN outcome' : run'[outcome'[i].run].pc \in Finished
  BY <1>2, <1>4, <1>5, <1>8, <1>9, <1>11, Types
<1>15. OneBusy'
  BY <1>2, <1>4, <1>8, <1>11, Steps DEF OneBusy
<1>16. LastServed'
  <2>1. o.status = "success" => serving["prod"] = m.bundle.images
    BY <1>1, <1>4, <1>5 DEF SoundRun
  <2> QED BY <1>5, <1>7, <1>8, <1>9, <2>1 DEF LastServed
<1>17. FirstAccepted'
  BY <1>7 DEF IInv, FirstAccepted, uatVars
<1> QED BY <1>10, <1>12, <1>13, <1>14, <1>15, <1>16, <1>17, StructKeeps

-----------------------------------------------------------------------------
LEMMA InitInv == Init => IInv
<1> SUFFICES ASSUME Init PROVE IInv
  OBVIOUS
<1>1. 1 \in Commit /\ 1 \in Run /\ 0 \in 0..Last /\ 1 \in 0..Last
  BY ConstantsAssumption DEF Commit, Run
<1>2. AllAt(1) \in ImageSet /\ First \in Bundle /\ NoManifest.bundle = First
  BY <1>1 DEF AllAt, ImageSet, First, Bundle, NoManifest
<1>3. PICK first \in Tag :
          /\ tagAt = [t \in Tag |-> IF t = first THEN 1 ELSE 0]
          /\ claim = [t \in Tag |-> IF t = first THEN 1 ELSE None]
          /\ run = [r \in Run |-> IF r = 1 THEN [NoManifest EXCEPT !.pc = "succeeded", !.tag = first]
                                           ELSE NoManifest]
  BY DEF Init
<1> DEFINE m == [NoManifest EXCEPT !.pc = "succeeded", !.tag = first]
           o == [run |-> 1, status |-> "success"]
<1>4. /\ m \in Manifest /\ m.pc = "succeeded" /\ m.tag = first /\ m.bundle = First
      /\ NoManifest \in Manifest /\ NoManifest.pc = "idle"
  BY <1>2 DEF Manifest, NoManifest, First, Bundle
<1>5. o \in Outcome /\ o.run = 1 /\ outcome = <<o>>
  BY <1>1 DEF Init, Outcome
<1>6. NoReview \in Review /\ NoReview.run = None
  BY <1>1 DEF NoReview, Review
<1> HIDE DEF m, o
<1>7. /\ run \in [Run -> Manifest] /\ run[1] = m /\ \A r \in Run \ {1} : run[r] = NoManifest
      /\ \A r \in Run : run[r].pc \notin Busy /\ run[r].bundle = First
  BY <1>1, <1>3, <1>4 DEF m, Busy, Deploying
<1>8. outcome \in Seq(Outcome) /\ DOMAIN outcome = {1} /\ Len(outcome) = 1 /\ outcome[1] = o
  BY <1>5
<1>9. accepted \in Seq(Bundle) /\ \E i \in DOMAIN accepted : accepted[i] = First
  BY <1>2 DEF Init
<1>10. TypeOK
  <2>1. serving \in [{"uat", "prod"} -> ImageSet] /\ schema \in [{"uat", "prod"} -> Commit]
    BY <1>1, <1>2 DEF Init
  <2>2. cd \in Deployment /\ receipt \subseteq Bundle
    BY <1>1, <1>2 DEF Init, Deployment, Idle
  <2>3. tagAt \in [Tag -> 0..Last] /\ claim \in [Tag -> Run \cup {None}]
    BY <1>1, <1>3
  <2>4. review \in [Tag -> Review]
    BY <1>6 DEF Init
  <2> QED BY <1>7, <1>8, <1>9, <2>1, <2>2, <2>3, <2>4 DEF TypeOK
<1>11. \A r \in Run : SoundRun(r, run[r])
  BY <1>7, <1>9 DEF SoundRun, Busy, Deploying
<1>12. \A t \in Tag : SoundClaim(t) /\ SoundReview(t)
  <2>1. \A t \in Tag : review[t].run = None
    BY <1>6 DEF Init
  <2>2. \A t \in Tag : claim[t] # None => t = first /\ claim[t] = 1
    BY <1>3
  <2> QED BY <1>4, <1>7, <2>1, <2>2 DEF SoundClaim, SoundReview, Finished
<1>13. \A i \in DOMAIN outcome : run[outcome[i].run].pc \in Finished
  BY <1>4, <1>5, <1>7, <1>8 DEF Finished
<1>14. OneBusy
  BY <1>7 DEF OneBusy
<1>15. LastServed
  <2>1. serving["prod"] = First.images
    BY DEF Init, First
  <2> QED BY <1>1, <1>5, <1>7, <1>8, <2>1 DEF LastServed
<1>16. FirstAccepted
  BY <1>2, <1>9 DEF FirstAccepted
<1> QED BY <1>10, <1>11, <1>12, <1>13, <1>14, <1>15, <1>16 DEF IInv

LEMMA StepInv == IInv /\ [Next]_vars => IInv'
<1> SUFFICES ASSUME IInv, [Next]_vars PROVE IInv'
  OBVIOUS
<1>1. CASE Uat
  BY <1>1, UatKeeps
<1>2. ASSUME NEW r \in Run, NEW c \in 0..Last, MoveTag(r, c) PROVE IInv'
  BY <1>2, MoveTagKeeps
<1>3. ASSUME NEW r \in Run, NEW t \in Tag, Request(r, t) PROVE IInv'
  BY <1>3, RegisterKeeps, PrepareKeeps DEF Request
<1>4. ASSUME NEW r \in Run, Attempt(r) PROVE IInv'
  <2>1. CASE BeginCheck(r)
    BY <2>1, BeginCheckKeeps
  <2>2. CASE \E answered \in BOOLEAN : WriteClaim(r, answered)
    BY <2>2, WriteClaimKeeps
  <2>3. CASE \E published, passed \in BOOLEAN : Finish(r, published, passed)
    BY <2>3, FinishKeeps
  <2>4. CASE RunLost(r)
    BY <2>4, LostKeeps
  <2> QED BY <1>4, <2>1, <2>2, <2>3, <2>4, ProdKeeps DEF Attempt
<1>5. CASE UNCHANGED vars
  <2>1. TypeOK' /\ Grows
    BY <1>5, Types DEF TypeOK, vars, uatVars, Grows
  <2> QED BY <1>5, <2>1, AsideKeeps DEF vars, uatVars
<1> QED BY <1>1, <1>2, <1>3, <1>4, <1>5 DEF Next

-----------------------------------------------------------------------------
(***************************************************************************)
(* Type correctness.                                                       *)
(***************************************************************************)
THEOREM TypeCorrect == Spec => []TypeOK
<1>1. IInv => TypeOK
  BY DEF IInv
<1> QED BY <1>1, InitInv, StepInv, PTL DEF Spec

(***************************************************************************)
(* Between attempts production serves exactly the images of the last       *)
(* outcome, if that is a success, and they were accepted at UAT.           *)
(***************************************************************************)
THEOREM Served == Spec => []LastSuccessIsServed
  BY InitInv, StepInv, ServedFollows, PTL DEF Spec

(***************************************************************************)
(* A rollback moves the apps only over the schema its review was about.    *)
(***************************************************************************)
THEOREM Reviewed == Spec => []RollbackIsReviewed
  BY InitInv, StepInv, ReviewedFollows, PTL DEF Spec

-----------------------------------------------------------------------------
(* The log of attempts *)

Held == {[images |-> run[claim[t]].bundle.images,
          baseline |-> run[claim[t]].baseline] : t \in OpenTags}
Statuses == [i \in DOMAIN outcome |-> outcome[i].status]

(* Who has claimed keeps what it claimed. *)
Holds == \A q \in Run : run[q].pc \in Deploying \cup Finished =>
             run'[q].bundle = run[q].bundle /\ run'[q].baseline = run[q].baseline

LEMMA HeldKeeps ==
    ASSUME IInv, UNCHANGED <<claim, outcome>>, Holds
    PROVE  Held' = Held /\ Statuses' = Statuses
<1>1. OpenTags' = OpenTags
  BY DEF OpenTags
<1>2. ASSUME NEW t \in OpenTags
      PROVE  /\ run'[claim[t]].bundle = run[claim[t]].bundle
             /\ run'[claim[t]].baseline = run[claim[t]].baseline
  <2>1. t \in Tag /\ claim[t] # None /\ claim[t] \in Run
    BY Types DEF OpenTags
  <2>2. run[claim[t]].pc \in Deploying \cup Finished
    BY <2>1 DEF IInv, SoundClaim
  <2> QED BY <2>1, <2>2 DEF Holds
<1>3. Held' = {[images |-> run'[claim[t]].bundle.images,
                baseline |-> run'[claim[t]].baseline] : t \in OpenTags}
  BY <1>1 DEF Held
<1>4. Held' = Held
  BY <1>2, <1>3 DEF Held
<1> QED BY <1>4 DEF Statuses

LEMMA Stutters ==
    ASSUME IInv, UNCHANGED <<claim, outcome>>, Holds,
           serving'["prod"] = serving["prod"], schema'["prod"] = schema["prod"]
    PROVE  UNCHANGED <<Held, Statuses, serving["prod"], schema["prod"]>>
  BY HeldKeeps

(* The claim of a run that deploys is the one that is open. *)
LEMMA ClaimIsOpen ==
    ASSUME IInv, NEW r \in Run, run[r].pc \in Deploying
    PROVE  /\ run[r].tag \in Tag /\ claim[run[r].tag] = r
           /\ OpenTags = {run[r].tag}
           /\ Held = {[images |-> run[r].bundle.images, baseline |-> run[r].baseline]}
           /\ run[r].baseline = Len(outcome)
<1>1. SoundRun(r, run[r]) /\ run[r].pc \in Busy
  BY Steps, Types
<1>2. /\ run[r].tag \in Tag /\ claim[run[r].tag] = r /\ run[r].baseline = Len(outcome)
      /\ \A x \in Tag \ {run[r].tag} : Closed(x)
  BY <1>1 DEF SoundRun
<1>3. r # None /\ \A i \in DOMAIN outcome : outcome[i].run # r
  BY <1>1, Alone, ConstantsAssumption DEF Run
<1>4. OpenTags = {run[r].tag}
  BY <1>2, <1>3 DEF OpenTags, Closed
<1>5. Held = {[images |-> run[r].bundle.images, baseline |-> run[r].baseline]}
  BY <1>2, <1>4 DEF Held
<1> QED BY <1>2, <1>4, <1>5

LEMMA ToHolds == ASSUME IInv, NEW r \in Run, NEW pc, To(r, pc) PROVE Holds
<1>1. run' = [run EXCEPT ![r] = [run[r] EXCEPT !.pc = pc]]
  BY ToMeans
<1>2. run[r] \in Manifest /\ run \in [Run -> Manifest]
  BY Types
<1>3. [run[r] EXCEPT !.pc = pc].bundle = run[r].bundle
      /\ [run[r] EXCEPT !.pc = pc].baseline = run[r].baseline
  BY <1>2 DEF Manifest
<1> QED BY <1>1, <1>2, <1>3 DEF Holds

LEMMA LostHolds == ASSUME IInv, NEW r \in Run, RunLost(r) PROVE Holds
<1>1. CASE run[r].pc \in {"prepared", "checked"}
  <2>1. run' = [run EXCEPT ![r] = NoManifest] /\ run[r].pc \notin Deploying \cup Finished
    BY <1>1, Types DEF RunLost, Deploying, Finished
  <2> QED BY <2>1, Types DEF Holds
<1>2. CASE run[r].pc \notin {"prepared", "checked"}
  <2>1. To(r, "failed")
    BY <1>2, Types DEF RunLost, To
  <2> QED BY <2>1, ToHolds
<1> QED BY <1>1, <1>2

LEMMA RequestReads ==
    ASSUME NEW r \in Run, NEW t \in Tag, Request(r, t)
    PROVE  run[r].pc = "idle" /\ UNCHANGED <<serving, schema, claim, outcome>>
<1> DEFINE Reads == run[r].pc = "idle" /\ UNCHANGED <<serving, schema, claim, outcome>>
<1>1. ASSUME NEW target \in DOMAIN outcome, NEW passed \in BOOLEAN,
             RegisterRollback(r, t, target, passed)
      PROVE  Reads
  BY <1>1 DEF RegisterRollback, CanStart
<1>2. ASSUME NEW c \in Commit, PrepareRelease(r, t, c) PROVE Reads
  BY <1>2 DEF PrepareRelease, CanStart
<1>3. ASSUME NEW c \in Commit, PrepareRollback(r, t, c) PROVE Reads
  BY <1>3 DEF PrepareRollback, CanStart
<1> HIDE DEF Reads
<1>4. Reads
  BY <1>1, <1>2, <1>3, Zenon DEF Request
<1> QED BY <1>4 DEF Reads

LEMMA RequestHolds ==
    ASSUME IInv, NEW r \in Run, NEW t \in Tag, Request(r, t)
    PROVE  Holds /\ UNCHANGED <<serving, schema, claim, outcome>>
<1>1. run[r].pc = "idle" /\ UNCHANGED <<serving, schema, claim, outcome>>
  BY RequestReads
<1>2. \E m : run' = [run EXCEPT ![r] = m]
  <2>1. CASE \E target \in DOMAIN outcome, passed \in BOOLEAN : RegisterRollback(r, t, target, passed)
    BY <2>1, Types DEF RegisterRollback
  <2>2. CASE \E c \in Commit : PrepareRelease(r, t, c) \/ PrepareRollback(r, t, c)
    BY <2>2 DEF PrepareRelease, PrepareRollback, Prepared
  <2> QED BY <2>1, <2>2 DEF Request
<1>3. run[r].pc \notin Deploying \cup Finished
  BY <1>1 DEF Deploying, Finished
<1> QED BY <1>1, <1>2, <1>3, Types DEF Holds

LEMMA UatStutters ==
    ASSUME IInv, Uat
    PROVE  /\ UNCHANGED <<run, claim, outcome>>
           /\ serving'["prod"] = serving["prod"] /\ schema'["prod"] = schema["prod"]
<1>1. ASSUME NEW passed \in BOOLEAN, UatHold(passed)
      PROVE  serving'["prod"] = serving["prod"] /\ UNCHANGED <<schema, run, claim, outcome>>
  BY <1>1, HoldMeans, Types DEF UatHold
<1>2. ASSUME NEW applied \in BOOLEAN, NEW passed \in BOOLEAN, UatMigrate(applied, passed)
      PROVE  schema'["prod"] = schema["prod"] /\ UNCHANGED <<serving, run, claim, outcome>>
  <2>1. cd.images["migrate"] \in Commit
    BY Types DEF ImageSet, Part
  <2> QED BY <1>2, <2>1, MigrateMeans, Types DEF UatMigrate
<1>3. ASSUME NEW moved \in SUBSET Part, NEW passed \in BOOLEAN, UatMove(moved, passed)
      PROVE  serving'["prod"] = serving["prod"] /\ UNCHANGED <<schema, run, claim, outcome>>
  BY <1>3, MoveMeans, Types DEF UatMove
<1>4. ASSUME \/ \E c \in Commit, docsOnly \in BOOLEAN : DeployUat(c, docsOnly)
             \/ RecordUat \/ UatFails \/ \E b \in receipt : AcceptUat(b)
      PROVE  UNCHANGED <<serving, schema, run, claim, outcome>>
  BY <1>4 DEF DeployUat, RecordUat, UatFails, AcceptUat
<1> QED BY <1>1, <1>2, <1>3, <1>4 DEF Uat

(* A run that deploys changes production and nothing the log is made of. *)
LEMMA ProdMoves ==
    ASSUME IInv, IInv', NEW r \in Run,
           \/ \E passed \in BOOLEAN : ProdHold(r, passed)
           \/ \E applied, passed \in BOOLEAN : ProdMigrate(r, applied, passed)
           \/ \E moved \in SUBSET Part, passed \in BOOLEAN : ProdMove(r, moved, passed)
    PROVE  Log!Move
<1>1. run[r].pc \in Deploying /\ UNCHANGED <<claim, outcome>> /\ \E pc : To(r, pc)
  <2>1. CASE \E passed \in BOOLEAN : ProdHold(r, passed)
    BY <2>1 DEF ProdHold, Deploying
  <2>2. CASE \E applied, passed \in BOOLEAN : ProdMigrate(r, applied, passed)
    BY <2>2 DEF ProdMigrate, Deploying
  <2>3. CASE \E moved \in SUBSET Part, passed \in BOOLEAN : ProdMove(r, moved, passed)
    BY <2>3 DEF ProdMove, Deploying
  <2> QED BY <2>1, <2>2, <2>3, Zenon
<1>2. Held' = Held /\ Statuses' = Statuses
  BY <1>1, ToHolds, HeldKeeps
<1>3. Held # {}
  BY <1>1, ClaimIsOpen
<1>4. serving'["prod"] \in ImageSet /\ schema'["prod"] \in Commit
  BY DEF IInv, TypeOK
<1> QED BY <1>2, <1>3, <1>4 DEF Log!Move, Held, Statuses

LEMMA ClaimOpens ==
    ASSUME IInv, IInv', NEW r \in Run, NEW answered \in BOOLEAN, WriteClaim(r, answered)
    PROVE  \E images \in ImageSet : Log!Open(images)
<1> DEFINE t == run[r].tag
           images == run[r].bundle.images
<1>1. run[r] \in Manifest /\ SoundRun(r, run[r]) /\ run[r].pc = "checked"
  BY Types DEF WriteClaim
<1>2. images \in ImageSet
  BY <1>1, ManifestTypes
<1>3. /\ t \in Tag /\ \A x \in Tag : Closed(x)
      /\ claim[t] = None /\ run[r].baseline = Len(outcome)
  BY <1>1 DEF SoundRun, Busy
<1>4. UNCHANGED <<serving, schema, outcome>> /\ claim' = [claim EXCEPT ![t] = r] /\ \E pc : To(r, pc)
  BY DEF WriteClaim
<1>5. Holds
  BY <1>4, ToHolds
<1>6. run'[r].bundle = run[r].bundle /\ run'[r].baseline = run[r].baseline
  BY <1>1, <1>4, ToMeans, Types DEF Manifest
<1>7. Held = {}
  BY <1>3 DEF Held, OpenTags, Closed
<1>8. claim'[t] = r /\ \A x \in Tag \ {t} : claim'[x] = claim[x]
  BY <1>3, <1>4, Types
<1>9. OpenTags' = {t}
  <2>1. r # None /\ \A i \in DOMAIN outcome : outcome[i].run # r
    BY <1>1, Alone, ConstantsAssumption DEF Run, Busy
  <2>2. \A x \in Tag \ {t} : x \notin OpenTags'
    BY <1>3, <1>4, <1>8 DEF OpenTags, Closed
  <2>3. t \in OpenTags'
    BY <1>3, <1>4, <1>8, <2>1 DEF OpenTags
  <2>4. OpenTags' \subseteq Tag
    BY DEF OpenTags
  <2> QED BY <2>2, <2>3, <2>4
<1>10. Held' = {[images |-> images, baseline |-> Len(outcome)]}
  BY <1>3, <1>6, <1>8, <1>9 DEF Held
<1>11. Statuses' = Statuses /\ Len(Statuses) = Len(outcome)
  BY <1>4, Types DEF Statuses
<1> HIDE DEF images
<1> QED BY <1>2, <1>4, <1>7, <1>10, <1>11 DEF Log!Open, Held, Statuses

LEMMA FinishCloses ==
    ASSUME IInv, IInv', NEW r \in Run, NEW published \in BOOLEAN, NEW passed \in BOOLEAN,
           Finish(r, published, passed)
    PROVE  \E status \in {"success", "failure"} : Log!Close(status)
<1> DEFINE status == Status(r, published)
           o == [run |-> r, status |-> status]
<1>1. /\ run[r].pc \in Deploying /\ outcome' = Append(outcome, o)
      /\ UNCHANGED <<serving, schema, claim>>
  BY DEF Finish, Deploying
<1>2. status \in {"success", "failure"} /\ (status = "success" => run[r].pc = "deployed")
  BY DEF Status
<1> HIDE DEF status
<1>3. /\ claim[run[r].tag] = r /\ run[r].tag \in Tag /\ OpenTags = {run[r].tag}
      /\ Held = {[images |-> run[r].bundle.images, baseline |-> run[r].baseline]}
  BY <1>1, ClaimIsOpen
<1>4. status = "success" => \A a \in Held : serving["prod"] = a.images
  BY <1>2, <1>3, Types DEF SoundRun
<1>5. o \in Outcome
  BY <1>2 DEF Outcome
<1>6. /\ outcome \in Seq(Outcome) /\ Len(outcome) \in Nat /\ DOMAIN outcome = 1..Len(outcome)
      /\ DOMAIN outcome' = 1..(Len(outcome) + 1) /\ outcome'[Len(outcome) + 1] = o
      /\ \A i \in 1..Len(outcome) : outcome'[i] = outcome[i]
  BY <1>1, <1>5, Types
<1>7. Statuses' = Append(Statuses, status)
  <2>1. ASSUME NEW i \in 1..Len(outcome) PROVE outcome[i].status \in {"success", "failure"}
    <3>1. outcome[i] \in Outcome
      BY <1>6
    <3> QED BY <3>1 DEF Outcome
  <2>2. Statuses \in Seq({"success", "failure"}) /\ Len(Statuses) = Len(outcome)
    BY <1>6, <2>1 DEF Statuses
  <2>3. Statuses' = [i \in 1..(Len(outcome) + 1) |-> outcome'[i].status]
    BY <1>6 DEF Statuses
  <2>4. o.status = status
    OBVIOUS
  <2> QED BY <1>6, <2>2, <2>3, <2>4 DEF Statuses
<1>8. Held' = {}
  <2>1. OpenTags' = {}
    <3>1. \A x \in Tag : claim[x] # None /\ x # run[r].tag
                             => \E i \in DOMAIN outcome : outcome[i].run = claim[x]
      BY <1>3 DEF OpenTags
    <3>2. \A x \in Tag : claim[x] # None => \E i \in DOMAIN outcome' : outcome'[i].run = claim[x]
      BY <1>3, <1>6, <3>1
    <3> QED BY <1>1, <3>2 DEF OpenTags
  <2> QED BY <2>1 DEF Held
<1>9. Held # {}
  BY <1>3
<1> QED BY <1>1, <1>2, <1>4, <1>7, <1>8, <1>9 DEF Log!Close, Held, Statuses

(***************************************************************************)
(* The claims, outcomes and environments of the controller implement the   *)
(* log of attempts: one attempt at a time, prepared against the outcome    *)
(* recorded last, and production moved only during one.                    *)
(***************************************************************************)
THEOREM ImplementsLog == Spec => ImplementsReleaseLog
<1>1. Init => Log!Init
  <2> SUFFICES ASSUME Init PROVE Log!Init
    OBVIOUS
  <2>1. IInv
    BY InitInv
  <2>2. OpenTags = {}
    <3>1. \A t \in Tag : claim[t] # None => claim[t] = 1
      BY DEF Init
    <3>2. 1 \in DOMAIN outcome /\ outcome[1].run = 1
      BY DEF Init
    <3> QED BY <3>1, <3>2 DEF OpenTags
  <2>3. Held = {}
    BY <2>2 DEF Held
  <2>4. Statuses = <<"success">>
    BY DEF Init, Statuses
  <2> QED BY <2>1, <2>3, <2>4, Types DEF Log!Init, Held, Statuses
<1>2. IInv /\ IInv' /\ [Next]_vars => [Log!Next]_(Log!vars)
  <2> SUFFICES ASSUME IInv, IInv', [Next]_vars PROVE Log!Next \/ UNCHANGED Log!vars
    OBVIOUS
  <2>1. ASSUME UNCHANGED <<claim, outcome>>, Holds,
               serving'["prod"] = serving["prod"], schema'["prod"] = schema["prod"]
        PROVE  UNCHANGED Log!vars
    BY <2>1, Stutters DEF Log!vars, Held, Statuses
  <2>2. CASE Uat
    <3>1. Holds
      BY <2>2, UatStutters DEF Holds
    <3> QED BY <2>1, <2>2, <3>1, UatStutters
  <2>3. CASE \E r \in Run, c \in 0..Last : MoveTag(r, c)
    BY <2>1, <2>3 DEF MoveTag, Holds
  <2>4. CASE \E r \in Run, t \in Tag : Request(r, t)
    BY <2>1, <2>4, RequestHolds
  <2>5. ASSUME NEW r \in Run, Attempt(r) PROVE Log!Next \/ UNCHANGED Log!vars
    <3>1. CASE BeginCheck(r) \/ VerifyProd(r) \/ StepFails(r)
      <4>1. UNCHANGED <<serving, schema, claim, outcome>> /\ \E pc : To(r, pc)
        BY <3>1 DEF BeginCheck, VerifyProd, StepFails
      <4> QED BY <2>1, <4>1, ToHolds
    <3>2. CASE RunLost(r)
      BY <2>1, <3>2, LostHolds DEF RunLost
    <3>3. CASE \E answered \in BOOLEAN : WriteClaim(r, answered)
      BY <3>3, ClaimOpens DEF Log!Next
    <3>4. CASE \E published, passed \in BOOLEAN : Finish(r, published, passed)
      BY <3>4, FinishCloses DEF Log!Next
    <3>5. CASE \/ \E passed \in BOOLEAN : ProdHold(r, passed)
               \/ \E applied, passed \in BOOLEAN : ProdMigrate(r, applied, passed)
               \/ \E moved \in SUBSET Part, passed \in BOOLEAN : ProdMove(r, moved, passed)
      BY <3>5, ProdMoves DEF Log!Next
    <3> QED BY <2>5, <3>1, <3>2, <3>3, <3>4, <3>5 DEF Attempt
  <2>6. CASE UNCHANGED vars
    BY <2>1, <2>6 DEF vars, Holds
  <2> QED BY <2>2, <2>3, <2>4, <2>5, <2>6 DEF Next
<1> QED BY <1>1, <1>2, InitInv, StepInv, PTL DEF Spec, ImplementsReleaseLog, Log!Spec

-----------------------------------------------------------------------------
(* The schema covers the API *)

Api(images) == images["api"]
Job(images) == images["migrate"]

(***************************************************************************)
(* A full deployment of UAT builds the job with the API; once its          *)
(* migrations ran they cover the API that follows, and one that builds no  *)
(* job keeps an API that is covered.                                       *)
(***************************************************************************)
UatCovers ==
    /\ Api(serving["uat"]) <= schema["uat"]
    /\ cd.pc \in {"started", "held"} => Api(cd.images) <= Job(cd.images)
    /\ cd.pc \in {"migrated", "applied"} => Api(cd.images) <= schema["uat"]

(***************************************************************************)
(* The API a is covered by the schema s, or one of the sets of log has it  *)
(* with an older job.                                                      *)
(***************************************************************************)
Fine(a, s, log) ==
    a <= s \/ \E i \in DOMAIN log : log[i].images["api"] = a /\ Mixed(log[i].images)

Fit(m) == Fine(Api(m.bundle.images), schema["prod"], accepted)

(* What was once deployed stays covered: migrations never go back. *)
ProdCovers ==
    /\ Fine(Api(serving["prod"]), schema["prod"], accepted)
    /\ \A i \in DOMAIN outcome : outcome[i].status = "success" => Fit(run[outcome[i].run])
    /\ \A r \in Run :
           run[r].pc \in Busy /\ (run[r].rollback \/ run[r].pc \in {"migrated", "applied", "deployed"})
               => Fit(run[r])

LEMMA FineGrows ==
    ASSUME NEW a \in Nat, NEW s \in Nat, NEW t \in Nat, NEW log, Fine(a, s, log), s <= t
    PROVE  Fine(a, t, log)
  BY DEF Fine

(* Once the job of an accepted set has run, its API is covered or excused. *)
LEMMA FineOnceMigrated ==
    ASSUME NEW images \in ImageSet, NEW s \in Nat, NEW log, NEW i \in DOMAIN log,
           log[i].images = images, Job(images) <= s
    PROVE  Fine(Api(images), s, log)
  BY DEF Fine, Mixed, Api, Job, ImageSet, Part, Commit

(* The elements of a sequence that was appended to. *)
LEMMA AppendElements ==
    ASSUME NEW S, NEW log \in Seq(S), NEW o
    PROVE  \A i \in DOMAIN Append(log, o) :
              \/ Append(log, o)[i] = o
              \/ i \in DOMAIN log /\ Append(log, o)[i] = log[i]
  OBVIOUS

LEMMA ImageTypes ==
    ASSUME NEW images \in ImageSet
    PROVE  Api(images) \in Nat /\ Job(images) \in Nat
                /\ Api(images) \in Commit /\ Job(images) \in Commit
  BY DEF ImageSet, Part, Api, Job, Commit

LEMMA NatTypes ==
    ASSUME IInv
    PROVE  /\ schema["uat"] \in Nat /\ schema["prod"] \in Nat
           /\ Api(serving["uat"]) \in Nat /\ Job(serving["uat"]) \in Nat
           /\ Api(serving["prod"]) \in Nat
           /\ Api(cd.images) \in Nat /\ Job(cd.images) \in Nat
<1>1. schema["uat"] \in Nat /\ schema["prod"] \in Nat
  BY Types DEF Commit
<1>2. serving["uat"] \in ImageSet /\ serving["prod"] \in ImageSet /\ cd.images \in ImageSet
  BY Types
<1> QED BY <1>1, <1>2, ImageTypes

LEMMA CdMeans ==
    ASSUME IInv, NEW pc, CdTo(pc)
    PROVE  cd'.pc = pc /\ cd'.images = cd.images
  BY Types DEF CdTo, Deployment

LEMMA UatCoversKeeps ==
    ASSUME IInv, IInv', UatCovers, Uat
    PROVE  UatCovers'
<1>1. ASSUME NEW c \in Commit, NEW docsOnly \in BOOLEAN, DeployUat(c, docsOnly)
      PROVE  UatCovers'
  <2>1. UNCHANGED <<serving, schema>>
    BY <1>1 DEF DeployUat
  <2>2. CASE docsOnly
    <3>1. cd'.pc = "migrated" /\ cd'.images = [serving["uat"] EXCEPT !["web"] = c]
      BY <1>1, <2>2 DEF DeployUat, SelectImages
    <3>2. Api(cd'.images) = Api(serving["uat"]) /\ Job(cd'.images) = Job(serving["uat"])
      BY <3>1, Types DEF Api, Job, ImageSet, Part
    <3> QED BY <2>1, <3>1, <3>2, NatTypes DEF UatCovers, Commit
  <2>3. CASE ~docsOnly
    <3>1. cd'.pc = "started" /\ cd'.images = AllAt(c)
      BY <1>1, <2>3 DEF DeployUat, SelectImages
    <3>2. Api(cd'.images) = c /\ Job(cd'.images) = c
      BY <3>1 DEF Api, Job, AllAt, Part
    <3> QED BY <2>1, <3>1, <3>2, NatTypes DEF UatCovers, Commit
  <2> QED BY <2>2, <2>3
<1>2. ASSUME NEW passed \in BOOLEAN, UatHold(passed) PROVE UatCovers'
  <2>1. cd.pc = "started" /\ UNCHANGED schema
    BY <1>2 DEF UatHold
  <2>2. cd'.pc \in {"held", "idle"} /\ cd'.images = cd.images
    BY <1>2, CdMeans DEF UatHold
  <2>3. Api(serving'["uat"]) = Api(serving["uat"])
    BY <1>2, HoldMeans, Types DEF UatHold, Api
  <2> QED BY <2>1, <2>2, <2>3, NatTypes DEF UatCovers
<1>3. ASSUME NEW applied \in BOOLEAN, NEW passed \in BOOLEAN, UatMigrate(applied, passed)
      PROVE  UatCovers'
  <2>1. cd.pc = "held" /\ UNCHANGED serving /\ (passed => applied)
    BY <1>3 DEF UatMigrate, Evidence
  <2>2. cd'.pc = (IF passed THEN "migrated" ELSE "idle") /\ cd'.images = cd.images
    BY <1>3, CdMeans DEF UatMigrate
  <2>3. cd.images["migrate"] \in Commit
    BY Types DEF ImageSet, Part
  <2>4. schema["uat"] <= schema'["uat"] /\ (applied => Job(cd.images) <= schema'["uat"])
    BY <1>3, <2>3, MigrateMeans, Types DEF UatMigrate, Job
  <2>5. schema'["uat"] \in Nat
    BY DEF IInv, TypeOK, Commit
  <2>6. Api(serving["uat"]) <= schema'["uat"]
    BY <2>4, <2>5, NatTypes DEF UatCovers
  <2>7. passed => Api(cd.images) <= schema'["uat"]
    BY <2>1, <2>4, <2>5, NatTypes DEF UatCovers
  <2> QED BY <2>1, <2>2, <2>6, <2>7 DEF UatCovers
<1>4. ASSUME NEW moved \in SUBSET Part, NEW passed \in BOOLEAN, UatMove(moved, passed)
      PROVE  UatCovers'
  <2>1. cd.pc = "migrated" /\ UNCHANGED schema
    BY <1>4 DEF UatMove
  <2>2. cd'.pc \in {"applied", "idle"} /\ cd'.images = cd.images
    BY <1>4, CdMeans DEF UatMove
  <2>3. Api(serving'["uat"]) \in {Api(cd.images), Api(serving["uat"])}
    BY <1>4, MoveMeans, Types DEF UatMove, Api, Part
  <2> QED BY <2>1, <2>2, <2>3, NatTypes DEF UatCovers
<1>5. CASE RecordUat \/ UatFails
  <2>1. UNCHANGED <<serving, schema>> /\ cd'.pc = "idle"
    BY <1>5, CdMeans DEF RecordUat, UatFails
  <2> QED BY <2>1 DEF UatCovers
<1>6. ASSUME NEW b \in receipt, AcceptUat(b) PROVE UatCovers'
  BY <1>6 DEF AcceptUat, UatCovers
<1> QED BY <1>1, <1>2, <1>3, <1>4, <1>5, <1>6 DEF Uat

(* Run r is written, production stays covered, and the schema never goes back. *)
LEMMA CoveredKeeps ==
    ASSUME IInv, IInv', ProdCovers, NEW r \in Run, NEW m \in Manifest, run' = [run EXCEPT ![r] = m],
           run[r].pc \notin Finished, UNCHANGED <<outcome, accepted>>,
           schema["prod"] <= schema'["prod"],
           Fine(Api(serving'["prod"]), schema'["prod"], accepted),
           m.pc \in Busy /\ (m.rollback \/ m.pc \in {"migrated", "applied", "deployed"})
               => Fine(Api(m.bundle.images), schema'["prod"], accepted)
    PROVE  ProdCovers'
<1>1. run'[r] = m /\ \A q \in Run \ {r} : run'[q] = run[q]
  BY Types
<1>2. schema["prod"] \in Nat /\ schema'["prod"] \in Nat
  BY NatTypes DEF IInv, TypeOK, Commit
<1>3. ASSUME NEW q \in Run PROVE Fit(run[q]) => Fine(Api(run[q].bundle.images), schema'["prod"], accepted)
  <2>1. Api(run[q].bundle.images) \in Nat
    BY ImageTypes, ManifestTypes, Types
  <2> QED BY <1>2, <2>1, FineGrows DEF Fit
<1>4. ASSUME NEW i \in DOMAIN outcome, outcome[i].status = "success"
      PROVE  Fine(Api(run'[outcome[i].run].bundle.images), schema'["prod"], accepted)
  <2>1. outcome[i].run \in Run \ {r}
    BY Types
  <2> QED BY <1>1, <1>3, <1>4, <2>1 DEF ProdCovers
<1>5. ASSUME NEW q \in Run,
             run'[q].pc \in Busy /\ (run'[q].rollback \/ run'[q].pc \in {"migrated", "applied", "deployed"})
      PROVE  Fine(Api(run'[q].bundle.images), schema'["prod"], accepted)
  BY <1>1, <1>3, <1>5 DEF ProdCovers
<1> QED BY <1>4, <1>5 DEF ProdCovers, Fit

(* A step that moves a run on and leaves the environments alone. *)
LEMMA ToCovers ==
    ASSUME IInv, IInv', ProdCovers, NEW r \in Run, NEW pc \in {"idle"} \cup Busy \cup Finished,
           To(r, pc), UNCHANGED <<serving, schema, outcome, accepted>>, run[r].pc \notin Finished,
           pc \in Busy /\ (run[r].rollback \/ pc \in {"migrated", "applied", "deployed"})
               => Fit(run[r])
    PROVE  ProdCovers'
<1> DEFINE m == [run[r] EXCEPT !.pc = pc]
<1>1. run' = [run EXCEPT ![r] = m]
  BY ToMeans
<1>2. m \in Manifest /\ m.pc = pc /\ m.bundle = run[r].bundle /\ m.rollback = run[r].rollback
  BY PcType, Types
<1> HIDE DEF m
<1>3. /\ schema["prod"] <= schema'["prod"]
      /\ Fine(Api(serving'["prod"]), schema'["prod"], accepted)
  BY NatTypes DEF ProdCovers
<1> QED BY <1>1, <1>2, <1>3, CoveredKeeps DEF Fit

LEMMA RequestCovers ==
    ASSUME IInv, IInv', ProdCovers, NEW r \in Run, NEW t \in Tag, Request(r, t)
    PROVE  ProdCovers'
<1>1. UNCHANGED <<serving, schema, outcome, accepted>> /\ run[r].pc \notin Finished
  <2>1. run[r].pc = "idle"
    BY RequestReads
  <2>2. UNCHANGED accepted
    BY DEF Request, RegisterRollback, PrepareRelease, PrepareRollback, uatVars
  <2> QED BY <2>1, <2>2, RequestHolds DEF Finished
<1>2. CASE \E target \in DOMAIN outcome, passed \in BOOLEAN : RegisterRollback(r, t, target, passed)
  <2>1. PICK pc \in Finished : To(r, pc)
    BY <1>2 DEF RegisterRollback, To, Finished
  <2> QED BY <1>1, <2>1, Steps, ToCovers
<1>3. ASSUME NEW b \in Bundle, NEW rollback \in BOOLEAN, Prepared(r, t, b, rollback),
             rollback => Fine(Api(b.images), schema["prod"], accepted)
      PROVE  ProdCovers'
  <2> DEFINE m == [pc |-> "prepared", tag |-> t, bundle |-> b,
                   rollback |-> rollback, baseline |-> Len(outcome)]
  <2>1. m \in Manifest /\ m.pc = "prepared" /\ m.bundle = b /\ m.rollback = rollback
    BY Types DEF Manifest
  <2>2. run' = [run EXCEPT ![r] = m]
    BY <1>3 DEF Prepared
  <2> HIDE DEF m
  <2>3. /\ schema["prod"] <= schema'["prod"]
        /\ Fine(Api(serving'["prod"]), schema'["prod"], accepted)
    BY <1>1, NatTypes DEF ProdCovers
  <2> QED BY <1>1, <1>3, <2>1, <2>2, <2>3, CoveredKeeps
<1>4. ASSUME NEW c \in Commit, PrepareRelease(r, t, c) PROVE ProdCovers'
  <2>1. PICK i \in DOMAIN accepted : Prepared(r, t, accepted[i], FALSE)
    BY <1>4 DEF PrepareRelease, AcceptedFor
  <2>2. accepted[i] \in Bundle
    BY Types
  <2> QED BY <1>3, <2>1, <2>2
<1>5. ASSUME NEW c \in Commit, PrepareRollback(r, t, c) PROVE ProdCovers'
  <2> DEFINE i == review[t].target
             q == outcome[i].run
  <2>1. i \in DOMAIN outcome /\ outcome[i].status = "success"
    BY <1>5 DEF PrepareRollback, ReviewStands, IInv, SoundReview
  <2>2. q \in Run /\ run[q].bundle \in Bundle
    BY <2>1, ManifestTypes, Types
  <2>3. Prepared(r, t, run[q].bundle, TRUE)
    BY <1>5 DEF PrepareRollback
  <2>4. Fine(Api(run[q].bundle.images), schema["prod"], accepted)
    BY <2>1 DEF ProdCovers, Fit
  <2> QED BY <1>3, <2>2, <2>3, <2>4
<1> QED BY <1>2, <1>4, <1>5 DEF Request

LEMMA AttemptCovers ==
    ASSUME IInv, IInv', ProdCovers, NEW r \in Run, Attempt(r)
    PROVE  ProdCovers'
<1> DEFINE images == run[r].bundle.images
<1>1. /\ run[r] \in Manifest /\ SoundRun(r, run[r]) /\ images \in ImageSet
      /\ Api(images) \in Nat /\ Job(images) \in Nat
  BY ImageTypes, ManifestTypes, Types
<1>2. PICK a \in DOMAIN accepted : accepted[a].images = images
  BY <1>1 DEF SoundRun
<1>3. /\ schema["prod"] \in Nat /\ schema'["prod"] \in Nat /\ Api(serving["prod"]) \in Nat
      /\ Fine(Api(serving["prod"]), schema["prod"], accepted)
  BY NatTypes DEF IInv, TypeOK, Commit, ProdCovers
<1>0. UNCHANGED accepted
  BY DEF Attempt, BeginCheck, VerifyProd, StepFails, RunLost, WriteClaim, Finish, ProdHold,
         ProdMigrate, ProdMove, uatVars
<1>4. run[r].pc \in Busy /\ (run[r].rollback \/ run[r].pc \in {"migrated", "applied", "deployed"})
          => Fit(run[r])
  BY DEF ProdCovers
<1>5. CASE BeginCheck(r)
  <2>1. run[r].pc = "prepared" /\ To(r, "checked") /\ UNCHANGED <<serving, schema, outcome, accepted>>
    BY <1>5, <1>0 DEF BeginCheck
  <2> QED BY <1>4, <2>1, ToCovers DEF Busy, Finished
<1>6. CASE \E answered \in BOOLEAN : WriteClaim(r, answered)
  <2>1. PICK pc \in {"claimed", "failed"} : To(r, pc)
    BY <1>6, <1>0 DEF WriteClaim
  <2>2. run[r].pc = "checked" /\ UNCHANGED <<serving, schema, outcome, accepted>>
    BY <1>6, <1>0 DEF WriteClaim
  <2> QED BY <1>4, <2>1, <2>2, ToCovers DEF Busy, Deploying, Finished
<1>7. ASSUME NEW passed \in BOOLEAN, ProdHold(r, passed) PROVE ProdCovers'
  <2>1. PICK pc \in {"held", "undeployed"} : To(r, pc)
    BY <1>7, <1>0 DEF ProdHold
  <2>2. run[r].pc = "claimed" /\ ~run[r].rollback /\ UNCHANGED <<schema, outcome, accepted>>
    BY <1>7, <1>0 DEF ProdHold
  <2>3. Api(serving'["prod"]) = Api(serving["prod"])
    BY <1>1, <1>7, HoldMeans, Types DEF ProdHold, Api
  <2> DEFINE m == [run[r] EXCEPT !.pc = pc]
  <2>4. run' = [run EXCEPT ![r] = m]
    BY <2>1, ToMeans
  <2>5. m \in Manifest /\ m.pc = pc /\ m.rollback = run[r].rollback
    BY <1>1, <2>1, PcType DEF Busy, Deploying
  <2> HIDE DEF m
  <2>6. ~m.rollback /\ m.pc \notin {"migrated", "applied", "deployed"} /\ run[r].pc \notin Finished
    BY <2>1, <2>2, <2>5 DEF Finished
  <2>7. /\ UNCHANGED <<outcome, accepted>> /\ schema["prod"] <= schema'["prod"]
        /\ Fine(Api(serving'["prod"]), schema'["prod"], accepted)
    BY <1>3, <2>2, <2>3
  <2> QED BY <2>4, <2>5, <2>6, <2>7, CoveredKeeps
<1>8. ASSUME NEW applied \in BOOLEAN, NEW passed \in BOOLEAN, ProdMigrate(r, applied, passed)
      PROVE  ProdCovers'
  <2>1. PICK pc \in {"migrated", "undeployed"} : To(r, pc) /\ (pc = "migrated" => passed)
    BY <1>8 DEF ProdMigrate
  <2>2. run[r].pc = "held" /\ ~run[r].rollback /\ UNCHANGED <<serving, outcome, accepted>> /\ (passed => applied)
    BY <1>0, <1>1, <1>8 DEF ProdMigrate, Evidence, SoundRun
  <2>3. images["migrate"] \in Commit
    BY <1>1 DEF ImageSet, Part
  <2>4. schema["prod"] <= schema'["prod"] /\ (applied => Job(images) <= schema'["prod"])
    BY <1>8, <2>3, MigrateMeans, Types DEF ProdMigrate, Job
  <2> DEFINE m == [run[r] EXCEPT !.pc = pc]
  <2>5. run' = [run EXCEPT ![r] = m]
    BY <2>1, ToMeans
  <2>6. m \in Manifest /\ m.pc = pc /\ m.rollback = run[r].rollback /\ m.bundle.images = images
    BY <1>1, <2>1, PcType DEF Busy, Deploying
  <2> HIDE DEF m, images
  <2>7. pc = "migrated" => Fine(Api(images), schema'["prod"], accepted)
    <3>1. pc = "migrated" => Job(images) <= schema'["prod"]
      BY <2>1, <2>2, <2>4
    <3> QED BY <1>1, <1>2, <1>3, <3>1, FineOnceMigrated
  <2>8. m.pc \in Busy /\ (m.rollback \/ m.pc \in {"migrated", "applied", "deployed"})
            => Fine(Api(m.bundle.images), schema'["prod"], accepted)
    BY <2>1, <2>2, <2>6, <2>7
  <2>9. /\ UNCHANGED <<outcome, accepted>> /\ run[r].pc \notin Finished
        /\ Fine(Api(serving'["prod"]), schema'["prod"], accepted)
    <3>1. Fine(Api(serving["prod"]), schema'["prod"], accepted)
      BY <1>3, <2>4, FineGrows
    <3> QED BY <2>2, <3>1 DEF Finished
  <2> QED BY <2>4, <2>5, <2>6, <2>8, <2>9, CoveredKeeps
<1>9. ASSUME NEW moved \in SUBSET Part, NEW passed \in BOOLEAN, ProdMove(r, moved, passed)
      PROVE  ProdCovers'
  <2>1. PICK pc \in {"applied", "undeployed"} : To(r, pc)
    BY <1>9, <1>0 DEF ProdMove
  <2>2. run[r].pc = (IF run[r].rollback THEN "claimed" ELSE "migrated") /\ UNCHANGED <<schema, outcome, accepted>>
    BY <1>9, <1>0 DEF ProdMove
  <2>3. Fine(Api(images), schema["prod"], accepted)
    BY <1>4, <2>2 DEF Fit, Busy, Deploying
  <2>4. Api(serving'["prod"]) \in {Api(images), Api(serving["prod"])}
    BY <1>1, <1>9, MoveMeans, Types DEF ProdMove, Api, Part
  <2> DEFINE m == [run[r] EXCEPT !.pc = pc]
  <2>5. run' = [run EXCEPT ![r] = m]
    BY <2>1, ToMeans
  <2>6. m \in Manifest /\ m.bundle.images = images
    BY <1>1, <2>1, PcType DEF Busy, Deploying
  <2> HIDE DEF m, images
  <2>7. /\ UNCHANGED <<outcome, accepted>> /\ run[r].pc \notin Finished /\ schema["prod"] <= schema'["prod"]
        /\ Fine(Api(serving'["prod"]), schema'["prod"], accepted)
        /\ Fine(Api(m.bundle.images), schema'["prod"], accepted)
    BY <1>3, <2>2, <2>3, <2>4, <2>6 DEF Finished
  <2> QED BY <2>5, <2>6, <2>7, CoveredKeeps
<1>10. CASE VerifyProd(r)
  <2>1. run[r].pc = "applied" /\ To(r, "deployed") /\ UNCHANGED <<serving, schema, outcome, accepted>>
    BY <1>10, <1>0 DEF VerifyProd
  <2> QED BY <1>4, <2>1, ToCovers DEF Busy, Deploying, Finished
<1>11. CASE StepFails(r)
  <2>1. /\ run[r].pc \in {"claimed", "held", "migrated", "applied"} /\ To(r, "undeployed")
        /\ UNCHANGED <<serving, schema, outcome, accepted>>
    BY <1>11, <1>0 DEF StepFails
  <2> QED BY <1>4, <2>1, ToCovers DEF Busy, Deploying, Finished
<1>12. CASE \E published, passed \in BOOLEAN : Finish(r, published, passed)
  <2>1. PICK published \in BOOLEAN, passed \in BOOLEAN : Finish(r, published, passed)
    BY <1>12
  <2> DEFINE o == [run |-> r, status |-> Status(r, published)]
  <2>2. /\ run[r].pc \in Busy /\ UNCHANGED <<serving, schema, accepted>>
        /\ outcome' = Append(outcome, o) /\ \E pc \in Finished : To(r, pc)
    BY <1>0, <2>1 DEF Finish, Busy, Deploying, Finished
  <2>3. o.run = r /\ (o.status = "success" => Fine(Api(images), schema["prod"], accepted))
    BY <1>4, <2>2 DEF Status, Fit
  <2> HIDE DEF o, images
  <2>4. /\ \A q \in Run : run'[q].bundle = run[q].bundle
        /\ \A q \in Run \ {r} : run'[q] = run[q]
        /\ run'[r].pc \in Finished
    <3>1. PICK pc \in Finished : To(r, pc)
      BY <2>2
    <3> DEFINE m == [run[r] EXCEPT !.pc = pc]
    <3>2. run' = [run EXCEPT ![r] = m]
      BY <3>1, ToMeans
    <3>3. m.pc = pc /\ m.bundle = run[r].bundle
      BY <1>1, PcType
    <3> HIDE DEF m
    <3> QED BY <3>2, <3>3, Types
  <2>5. \A i \in DOMAIN outcome' : outcome'[i] = o \/ (i \in DOMAIN outcome /\ outcome'[i] = outcome[i])
    BY <2>2, Types, AppendElements, Zenon
  <2>6. ASSUME NEW i \in DOMAIN outcome', outcome'[i].status = "success"
        PROVE  Fine(Api(run'[outcome'[i].run].bundle.images), schema["prod"], accepted)
    <3>1. CASE outcome'[i] = o
      <4>1. Fine(Api(images), schema["prod"], accepted) /\ outcome'[i].run = r
        BY <2>3, <2>6, <3>1
      <4> QED BY <2>4, <4>1 DEF images
    <3>2. CASE i \in DOMAIN outcome /\ outcome'[i] = outcome[i]
      <4>1. outcome[i].run \in Run /\ Fit(run[outcome[i].run])
        BY <2>6, <3>2, Types DEF ProdCovers
      <4> QED BY <2>4, <3>2, <4>1 DEF Fit
    <3> QED BY <2>5, <3>1, <3>2
  <2>7. \A q \in Run : run'[q].pc \in Busy => run'[q] = run[q]
    BY <2>4, Steps
  <2> QED BY <2>2, <2>6, <2>7 DEF ProdCovers, Fit
<1>13. CASE RunLost(r)
  <2>1. UNCHANGED <<serving, schema, outcome, accepted>> /\ run[r].pc \notin Finished
    BY <1>13, <1>0 DEF RunLost
  <2>2. CASE run[r].pc \in {"prepared", "checked"}
    <3> DEFINE m == NoManifest
    <3>1. m \in Manifest /\ m.pc \notin Busy
      BY ConstantsAssumption, Steps DEF NoManifest, Manifest, Bundle, ImageSet, AllAt, Commit
    <3>2. run' = [run EXCEPT ![r] = NoManifest]
      BY <1>13, <2>2, Types, <1>0 DEF RunLost
    <3>3. run' = [run EXCEPT ![r] = m]
      BY <3>2
    <3> HIDE DEF m
    <3>4. /\ UNCHANGED <<outcome, accepted>> /\ schema["prod"] <= schema'["prod"]
          /\ Fine(Api(serving'["prod"]), schema'["prod"], accepted)
      BY <1>3, <2>1
    <3> QED BY <2>1, <3>1, <3>3, <3>4, CoveredKeeps
  <2>3. CASE run[r].pc \notin {"prepared", "checked"}
    <3>1. To(r, "failed")
      BY <1>13, <2>3, Types DEF RunLost, To
    <3> QED BY <2>1, <3>1, Steps, ToCovers DEF Finished
  <2> QED BY <2>2, <2>3
<1> QED BY <1>5, <1>6, <1>7, <1>8, <1>9, <1>10, <1>11, <1>12, <1>13 DEF Attempt

(* A step of UAT leaves production alone, and forgets no acceptance. *)
LEMMA UatLeavesProd == ASSUME IInv, IInv', ProdCovers, Uat PROVE ProdCovers'
<1>1. /\ serving'["prod"] = serving["prod"] /\ schema'["prod"] = schema["prod"]
      /\ UNCHANGED <<run, outcome>>
  BY UatStutters
<1>2. \A i \in DOMAIN accepted : i \in DOMAIN accepted' /\ accepted'[i] = accepted[i]
  <2>1. CASE UNCHANGED accepted
    BY <2>1
  <2>2. CASE \E b \in receipt : AcceptUat(b)
    BY <2>2, Types DEF AcceptUat
  <2> QED BY <2>1, <2>2 DEF Uat, DeployUat, UatHold, UatMigrate, UatMove, RecordUat, UatFails
<1>3. ASSUME NEW a, Fine(a, schema["prod"], accepted)
      PROVE  Fine(a, schema'["prod"], accepted')
  <2>1. CASE a <= schema["prod"]
    BY <1>1, <2>1 DEF Fine
  <2>2. CASE \E i \in DOMAIN accepted : accepted[i].images["api"] = a /\ Mixed(accepted[i].images)
    BY <1>2, <2>2 DEF Fine
  <2> QED BY <1>3, <2>1, <2>2 DEF Fine
<1> QED BY <1>1, <1>3 DEF ProdCovers, Fit

(* A step of the controller leaves UAT alone. *)
LEMMA ControllerKeeps ==
    ASSUME IInv, UatCovers, NEW r \in Run, Attempt(r) \/ \E t \in Tag : Request(r, t)
    PROVE  UatCovers'
<1>1. run[r].bundle.images \in ImageSet /\ run[r].bundle.images["migrate"] \in Commit
  BY ManifestTypes, Types DEF Part
<1>2. ASSUME NEW passed \in BOOLEAN, ProdHold(r, passed)
      PROVE  serving'["uat"] = serving["uat"] /\ UNCHANGED <<schema, uatVars>>
  BY <1>1, <1>2, HoldMeans, Types DEF ProdHold
<1>3. ASSUME NEW applied \in BOOLEAN, NEW passed \in BOOLEAN, ProdMigrate(r, applied, passed)
      PROVE  schema'["uat"] = schema["uat"] /\ UNCHANGED <<serving, uatVars>>
  BY <1>1, <1>3, MigrateMeans, Types DEF ProdMigrate
<1>4. ASSUME NEW moved \in SUBSET Part, NEW passed \in BOOLEAN, ProdMove(r, moved, passed)
      PROVE  serving'["uat"] = serving["uat"] /\ UNCHANGED <<schema, uatVars>>
  BY <1>1, <1>4, MoveMeans, Types DEF ProdMove
<1>5. ASSUME \/ BeginCheck(r) \/ VerifyProd(r) \/ StepFails(r) \/ RunLost(r)
             \/ \E answered \in BOOLEAN : WriteClaim(r, answered)
             \/ \E published, passed \in BOOLEAN : Finish(r, published, passed)
             \/ \E t \in Tag : Request(r, t)
      PROVE  UNCHANGED <<serving, schema, uatVars>>
  BY <1>5 DEF BeginCheck, VerifyProd, StepFails, RunLost, WriteClaim, Finish, Request,
              RegisterRollback, PrepareRelease, PrepareRollback
<1>6. serving'["uat"] = serving["uat"] /\ schema'["uat"] = schema["uat"] /\ UNCHANGED uatVars
  BY <1>2, <1>3, <1>4, <1>5 DEF Attempt
<1> QED BY <1>6 DEF UatCovers, uatVars

(***************************************************************************)
(* At UAT an API is never ahead of the migrations of its database, however *)
(* often the CD run of an older commit is started again; in production it  *)
(* is ahead only if it is the API of an accepted set with an older job.    *)
(***************************************************************************)
THEOREM Covers == Spec => []SchemaCoversUnlessMixed
<1>1. Init => UatCovers /\ ProdCovers
  <2> SUFFICES ASSUME Init PROVE UatCovers /\ ProdCovers
    OBVIOUS
  <2>1. Api(AllAt(1)) = 1
    BY DEF Api, AllAt, Part
  <2>2. serving["uat"] = AllAt(1) /\ serving["prod"] = AllAt(1) /\ schema["uat"] = 1 /\ schema["prod"] = 1
    BY DEF Init
  <2>3. cd.pc = "idle"
    BY DEF Init, Idle
  <2>4. UatCovers
    BY <2>1, <2>2, <2>3 DEF UatCovers
  <2>5. \A r \in Run : run[r].bundle.images = AllAt(1)
    BY DEF Init, NoManifest
  <2>6. IInv
    BY InitInv
  <2>7. ProdCovers
    BY <2>1, <2>2, <2>5, <2>6, Types DEF ProdCovers, Fit, Fine
  <2> QED BY <2>4, <2>7
<1>2. IInv /\ IInv' /\ UatCovers /\ ProdCovers /\ [Next]_vars => UatCovers' /\ ProdCovers'
  <2> SUFFICES ASSUME IInv, IInv', UatCovers, ProdCovers, [Next]_vars PROVE UatCovers' /\ ProdCovers'
    OBVIOUS
  <2>1. CASE Uat
    BY <2>1, UatCoversKeeps, UatLeavesProd
  <2>2. CASE UNCHANGED vars \/ \E r \in Run, c \in 0..Last : MoveTag(r, c)
    BY <2>2 DEF MoveTag, vars, uatVars, UatCovers, ProdCovers, Fit
  <2>3. CASE \E r \in Run, t \in Tag : Request(r, t)
    BY <2>3, ControllerKeeps, RequestCovers
  <2>4. CASE \E r \in Run : Attempt(r)
    BY <2>4, ControllerKeeps, AttemptCovers
  <2> QED BY <2>1, <2>2, <2>3, <2>4 DEF Next
<1>3. UatCovers /\ ProdCovers => SchemaCoversUnlessMixed
  BY DEF UatCovers, ProdCovers, SchemaCoversUnlessMixed, Covered, Fine, Api
<1> QED BY <1>1, <1>2, <1>3, InitInv, StepInv, PTL DEF Spec
=============================================================================
