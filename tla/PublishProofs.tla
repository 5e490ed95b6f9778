--------------------------- MODULE PublishProofs ---------------------------
(***************************************************************************)
(* What the tags of the image reach, for any versions and any number of    *)
(* changes and faults.  The per-arch tags are overwritten by every run and *)
(* keep what failed runs pushed, so little can be said of them at large:   *)
(* the invariant (OwnImages) speaks of the two that the current run names, *)
(* from the push of each until its manifest job has read them.  No other   *)
(* run moves `latest` meanwhile, so the reason to build still stands       *)
(* (ReasonStands) when the manifest job moves it.  When failed jobs run    *)
(* again, a newer run may have come between: what holds then is what holds *)
(* of the per-arch tags at large (RegistryInv).                            *)
(***************************************************************************)
EXTENDS Rerun, FiniteSetTheorems, TLAPS

-----------------------------------------------------------------------------
(* Types.                                                                  *)

\* A single trigger waits, or none.
LEMMA OneWaits ==
  ASSUME NEW t \in Triggers
  PROVE  /\ {t} \subseteq Triggers /\ Cardinality({t}) <= 1
         /\ {} \subseteq Triggers /\ Cardinality({}) <= 1
<1>1. Cardinality({t}) = 1 /\ Cardinality({}) = 0
  BY FS_EmptySet, FS_Singleton
<1>2. {t} \subseteq Triggers /\ {} \subseteq Triggers
  OBVIOUS
<1>. QED BY <1>1, <1>2

\* A change of one input leaves inputs.
LEMMA ChangedInputs ==
  ASSUME NEW i \in Inputs, NEW u \in Upstreams \union {"feed"}, NEW v \in Nat
  PROVE  [i EXCEPT ![u] = v] \in Inputs
<1>1. CASE u = "immortalwrt"
  BY <1>1 DEF Inputs
<1>2. CASE u = "passwall"
  BY <1>2 DEF Inputs
<1>3. CASE u = "landscape"
  BY <1>3 DEF Inputs
<1>4. CASE u = "feed"
  BY <1>4 DEF Inputs
<1>. QED BY <1>1, <1>2, <1>3, <1>4 DEF Upstreams

\* Without a run its variables have their types.
LEMMA EndRunType == EndRun => RunTypes'
<1>. SUFFICES ASSUME EndRun PROVE RunTypes'
  OBVIOUS
<1>1. phase' = "idle" /\ build' \in BOOLEAN /\ denied' \in BOOLEAN
  BY DEF EndRun
<1>2. trigger' \in Triggers
  BY DEF EndRun, NoTrigger, Triggers
<1>3. resolved' \in Inputs
  BY DEF EndRun, NoInputs, Inputs
<1>4. job' \in [Arches -> {"waiting", "tested", "pushed", "failed"}]
  BY DEF EndRun, NoJobs
<1>5. queue' \in Seq(Tags)
  BY DEF EndRun
<1>. QED BY <1>1, <1>2, <1>3, <1>4, <1>5 DEF RunTypes

\* The first state.
LEMMA PublishTypeInit == Init => TypeOK
<1>. SUFFICES ASSUME Init PROVE TypeOK
  OBVIOUS
<1>1. inputs \in Inputs
  BY BoundsAssumption DEF Init, Inputs
<1>2. pending \subseteq Triggers /\ Cardinality(pending) <= 1
  BY FS_EmptySet DEF Init
<1>3. RunTypes
  <2>1. <<>> \in Seq(Tags)
    OBVIOUS
  <2>. QED BY <2>1 DEF Init, Idle, RunTypes, NoTrigger, Triggers, NoInputs, Inputs, NoJobs
<1>4. RegistryTypes
  <2>1. DOMAIN <<>> = {}
    OBVIOUS
  <2>. QED BY <2>1 DEF Init, RegistryTypes
<1>. QED BY <1>1, <1>2, <1>3, <1>4, BoundsAssumption DEF Init, TypeOK

\* The tags of a run.
LEMMA RunTagsType == ASSUME resolved \in Inputs PROVE RunTags \in Seq(Tags)
<1>1. /\ Latest \in Tags
      /\ <<"immortalwrt", resolved.immortalwrt>> \in Tags
      /\ <<"passwall", resolved.passwall>> \in Tags
      /\ <<"landscape", resolved.landscape>> \in Tags
  BY DEF Tags, Upstreams, Inputs
<1>2. \A S : \A a, b, c, d \in S : <<a, b, c, d>> \in Seq(S)
  OBVIOUS
<1>. QED BY <1>1, <1>2 DEF RunTags

\* Every step keeps the types.
LEMMA PublishTypeNext == TypeOK /\ [Next]_vars => TypeOK'
<1>. SUFFICES ASSUME TypeOK, [Next]_vars PROVE TypeOK'
  OBVIOUS
<1>. USE BoundsAssumption DEF Outside, registryVars, runVars
<1>0. /\ inputs \in Inputs /\ pending \subseteq Triggers /\ Cardinality(pending) <= 1
      /\ RunTypes /\ RegistryTypes /\ changes \in 0..MaxChanges /\ faults \in 0..MaxFaults
  BY DEF TypeOK
<1>r. UNCHANGED registryVars => RegistryTypes'
  BY <1>0 DEF RegistryTypes
<1>u. UNCHANGED runVars => RunTypes'
  BY <1>0 DEF RunTypes
<1>1. ASSUME NEW u \in Moving, NEW v \in Version, UpstreamChanges(u, v) PROVE TypeOK'
  <2>1. inputs' \in Inputs
    BY <1>0, <1>1, ChangedInputs, MovingAssumption DEF UpstreamChanges
  <2>. QED BY <1>0, <1>1, <1>r, <1>u, <2>1 DEF UpstreamChanges, Change, TypeOK
<1>2. CASE Push
  <2>1. inputs' \in Inputs
    BY <1>0, <1>2 DEF Push, Inputs
  <2>2. [source |-> inputs.source + 1, force |-> FALSE, first |-> TRUE] \in Triggers
    BY <1>0 DEF Inputs, Triggers
  <2>3. pending' \subseteq Triggers /\ Cardinality(pending') <= 1
    BY <1>2, <2>2, OneWaits DEF Push, Queue
  <2>. QED BY <1>0, <1>2, <1>r, <1>u, <2>1, <2>3 DEF Push, Change, TypeOK
<1>3. ASSUME NEW force \in BOOLEAN, NEW first \in BOOLEAN,
             Schedule \/ Dispatch(force, first)
      PROVE  TypeOK'
  <2>1. PICK t \in Triggers : pending' = {t}
    BY <1>0, <1>3 DEF Schedule, Dispatch, Queue, Inputs, Triggers
  <2>2. pending' \subseteq Triggers /\ Cardinality(pending') <= 1
    BY <2>1, OneWaits
  <2>. QED BY <1>0, <1>3, <1>r, <1>u, <2>2 DEF Schedule, Dispatch, TypeOK
<1>4. CASE StartRun
  <2>1. pending' \subseteq Triggers /\ Cardinality(pending') <= 1
    BY <1>4, FS_EmptySet DEF StartRun
  <2>2. RunTypes'
    BY <1>0, <1>4 DEF StartRun, RunTypes
  <2>. QED BY <1>0, <1>4, <1>r, <2>1, <2>2 DEF StartRun, TypeOK
<1>5. CASE Resolve
  <2>1. RunTypes'
    BY <1>0, <1>5 DEF Resolve, RunTypes, Inputs, Triggers
  <2>. QED BY <1>0, <1>5, <1>r, <2>1 DEF Resolve, TypeOK
<1>6. CASE Compare
  <2>1. RunTypes'
    <3>1. NeedsBuild \in BOOLEAN
      BY DEF NeedsBuild
    <3>. QED BY <1>0, <1>6, <3>1 DEF Compare, RunTypes
  <2>. QED BY <1>0, <1>6, <1>r, <2>1 DEF Compare, TypeOK
<1>7. CASE AccessDenied
  <2>1. RunTypes'
    BY <1>0, <1>7, EndRunType DEF AccessDenied, RunTypes
  <2>. QED BY <1>0, <1>7, <1>r, <2>1 DEF AccessDenied, Fault, TypeOK
<1>8. CASE Download
  <2>1. RunTypes'
    BY <1>0, <1>8, EndRunType DEF Download, RunTypes
  <2>. QED BY <1>0, <1>8, <1>r, <2>1 DEF Download, TypeOK
<1>9. CASE Test
  <2>1. RunTypes'
    BY <1>0, <1>9 DEF Test, RunTypes
  <2>. QED BY <1>0, <1>9, <1>r, <2>1 DEF Test, TypeOK
<1>10. ASSUME NEW a \in Arches, PushImage(a) PROVE TypeOK'
  <2>1. RunTypes'
    BY <1>0, <1>10 DEF PushImage, RunTypes
  <2> DEFINE ref == <<resolved.immortalwrt, a>>
             image == [inputs |-> resolved, tested |-> job["amd64"] \in {"tested", "pushed"}]
  <2>2. ref \in Nat \X Arches /\ image \in Images
    BY <1>0 DEF RunTypes, Inputs, Images
  <2>3. pushed' = [r \in DOMAIN pushed \union {ref} |-> IF r = ref THEN image ELSE pushed[r]]
        /\ UNCHANGED manifests
    BY <1>10 DEF PushImage
  <2> HIDE DEF ref, image
  <2>4. RegistryTypes'
    BY <1>0, <2>2, <2>3 DEF RegistryTypes
  <2>. QED BY <1>0, <1>10, <2>1, <2>4 DEF PushImage, TypeOK
<1>11. ASSUME NEW a \in Arches, JobFails(a) PROVE TypeOK'
  <2>1. RunTypes'
    BY <1>0, <1>11 DEF JobFails, RunTypes
  <2>. QED BY <1>0, <1>11, <1>r, <2>1 DEF JobFails, Fault, TypeOK
<1>12. CASE BuildFailed \/ FinishRun
  BY <1>0, <1>12, <1>r, EndRunType DEF BuildFailed, FinishRun, TypeOK
<1>13. CASE StartManifest
  <2>1. RunTypes'
    BY <1>0, <1>13, RunTagsType DEF StartManifest, RunTypes
  <2>. QED BY <1>0, <1>13, <1>r, <2>1 DEF StartManifest, TypeOK
<1>14. CASE CreateTag
  <2> DEFINE index == [a \in Arches |-> pushed[<<resolved.immortalwrt, a>>]]
  <2>1. queue \in Seq(Tags) /\ queue # <<>> /\ queue' = Tail(queue)
    BY <1>0, <1>14 DEF CreateTag, RunTypes
  <2>2. Head(queue) \in Tags /\ queue' \in Seq(Tags)
    BY <2>1
  <2>3. RunTypes'
    BY <1>0, <1>14, <2>2 DEF CreateTag, RunTypes
  <2>4. index \in [Arches -> Images]
    BY <1>0, <1>14 DEF CreateTag, RegistryTypes
  <2>5. /\ manifests' = [t \in DOMAIN manifests \union {Head(queue)} |->
                           IF t = Head(queue) THEN index ELSE manifests[t]]
        /\ UNCHANGED pushed
    BY <1>14 DEF CreateTag
  <2> HIDE DEF index
  <2>6. RegistryTypes'
    BY <1>0, <2>2, <2>4, <2>5 DEF RegistryTypes
  <2>. QED BY <1>0, <1>14, <2>3, <2>6 DEF CreateTag, TypeOK
<1>15. CASE RunFails
  BY <1>0, <1>15, <1>r, EndRunType DEF RunFails, Fault, TypeOK
<1>16. CASE UNCHANGED vars
  BY <1>0, <1>16, <1>r, <1>u DEF vars, TypeOK
<1>. QED
  BY <1>1, <1>2, <1>3, <1>4, <1>5, <1>6, <1>7, <1>8, <1>9, <1>10, <1>11, <1>12,
     <1>13, <1>14, <1>15, <1>16 DEF Next, RunStep

\* Every variable of the workflow has its type, one trigger waits at most.
THEOREM PublishTypes == Spec => []TypeOK
BY PublishTypeInit, PublishTypeNext, PTL DEF Spec

-----------------------------------------------------------------------------
(* What the tags reach.                                                    *)

\* What the job a of the current run pushed.
OwnImage(a) ==
  LET ref == <<resolved.immortalwrt, a>>
  IN /\ ref \in DOMAIN pushed
     /\ pushed[ref].inputs = resolved
     /\ a = "amd64" => pushed[ref].tested

\* A tag of the current run.
OwnTag(t) == t = Latest \/ resolved[t[1]] = t[2]

\* A run starts with no job; the tags its jobs pushed are still theirs when
\* the manifest job reads them.
OwnImages ==
  /\ phase \notin {"build", "manifest"} => job = NoJobs
  /\ \A a \in Arches : job[a] = "pushed" => OwnImage(a)
  /\ phase = "manifest" =>
       AllJobsPushed /\ \A i \in 1..Len(queue) : OwnTag(queue[i])

Released == Homogeneous /\ ReleasedTested /\ TagsTellVersion

\* A run that is over has no job.
LEMMA NoJobsOwn == phase # "manifest" /\ job = NoJobs => OwnImages
BY DEF OwnImages, NoJobs

\* The first state.
LEMMA OwnInit == Init => OwnImages /\ Released
<1>. SUFFICES ASSUME Init PROVE OwnImages /\ Released
  OBVIOUS
<1>1. OwnImages
  BY NoJobsOwn DEF Init, Idle
<1>2. DOMAIN manifests = {}
  BY DEF Init
<1>. QED BY <1>1, <1>2 DEF Released, Homogeneous, ReleasedTested, TagsTellVersion

\* The tags of a run are its own.
LEMMA RunTagsOwn ==
  ASSUME resolved \in Inputs PROVE \A i \in 1..Len(RunTags) : OwnTag(RunTags[i])
BY DEF RunTags, OwnTag, Inputs

\* Every step keeps the tags of the current run its own.
LEMMA OwnNext == TypeOK /\ OwnImages /\ [Next]_vars => OwnImages'
<1>. SUFFICES ASSUME TypeOK, OwnImages, [Next]_vars PROVE OwnImages'
  OBVIOUS
<1>. USE DEF Outside, registryVars, runVars
<1>0. /\ resolved \in Inputs /\ queue \in Seq(Tags)
      /\ job \in [Arches -> {"waiting", "tested", "pushed", "failed"}]
  BY DEF TypeOK, RunTypes
<1>s. ASSUME UNCHANGED <<phase, resolved, job, queue, pushed>> PROVE OwnImages'
  BY <1>s DEF OwnImages, OwnImage, OwnTag, AllJobsPushed
<1>e. phase' # "manifest" /\ job' = NoJobs => OwnImages'
  BY DEF OwnImages, NoJobs
<1>1. ASSUME NEW u \in Moving, NEW v \in Version, UpstreamChanges(u, v) PROVE OwnImages'
  BY <1>1, <1>s DEF UpstreamChanges
<1>2. ASSUME NEW force \in BOOLEAN, NEW first \in BOOLEAN,
             Push \/ Schedule \/ Dispatch(force, first)
      PROVE  OwnImages'
  BY <1>2, <1>s DEF Push, Schedule, Dispatch
<1>3. CASE StartRun \/ Resolve \/ Compare \/ AccessDenied \/ Download
  <2>1. job = NoJobs
    BY <1>3 DEF OwnImages, StartRun, Resolve, Compare, AccessDenied, Download
  <2>2. job' = NoJobs /\ phase' # "manifest"
    BY <1>3, <2>1 DEF StartRun, Resolve, Compare, AccessDenied, Download, EndRun
  <2>. QED BY <2>2, <1>e
<1>4. CASE Test
  <2>1. /\ phase = "build" /\ UNCHANGED <<phase, resolved, queue, pushed>>
        /\ \A a \in Arches : job'[a] = "pushed" => job[a] = "pushed"
    BY <1>0, <1>4 DEF Test
  <2>. QED BY <2>1 DEF OwnImages, OwnImage
<1>5. ASSUME NEW a \in Arches, PushImage(a) PROVE OwnImages'
  <2> DEFINE ref == <<resolved.immortalwrt, a>>
             image == [inputs |-> resolved, tested |-> job["amd64"] \in {"tested", "pushed"}]
  <2>1. /\ phase = "build" /\ UNCHANGED <<phase, resolved, queue>>
        /\ job' = [job EXCEPT ![a] = "pushed"]
        /\ pushed' = [r \in DOMAIN pushed \union {ref} |-> IF r = ref THEN image ELSE pushed[r]]
    BY <1>5 DEF PushImage
  <2>2. a = "amd64" => image.tested
    BY <1>5 DEF PushImage, Ready
  <2>3. image.inputs = resolved
    OBVIOUS
  <2>4. OwnImage(a)'
    <3> HIDE DEF image
    <3>. QED BY <2>1, <2>2, <2>3 DEF OwnImage
  <2>5. ASSUME NEW b \in Arches, b # a, job'[b] = "pushed" PROVE OwnImage(b)'
    <3>1. OwnImage(b)
      BY <2>5, <2>1, <1>0 DEF OwnImages
    <3>2. <<resolved.immortalwrt, b>> # ref
      BY <2>5
    <3> HIDE DEF ref, image
    <3>. QED BY <3>1, <3>2, <2>1 DEF OwnImage
  <2>. QED BY <2>1, <2>4, <2>5 DEF OwnImages
<1>6. ASSUME NEW a \in Arches, JobFails(a) PROVE OwnImages'
  <2>1. /\ phase = "build" /\ UNCHANGED <<phase, resolved, queue, pushed>>
        /\ \A b \in Arches : job'[b] = "pushed" => job[b] = "pushed"
    BY <1>0, <1>6 DEF JobFails
  <2>. QED BY <2>1 DEF OwnImages, OwnImage
<1>7. CASE BuildFailed \/ FinishRun \/ RunFails
  BY <1>7, <1>e DEF BuildFailed, FinishRun, RunFails, EndRun
<1>8. CASE StartManifest
  <2>1. /\ phase = "build" /\ phase' = "manifest" /\ AllJobsPushed /\ queue' = RunTags
        /\ UNCHANGED <<resolved, job, pushed>>
    BY <1>8 DEF StartManifest
  <2>2. \A i \in 1..Len(queue') : OwnTag(queue'[i])
    BY <1>0, <2>1, RunTagsOwn
  <2>. QED BY <2>1, <2>2 DEF OwnImages, OwnImage, OwnTag, AllJobsPushed
<1>9. CASE CreateTag
  <2>1. /\ phase = "manifest" /\ queue # <<>> /\ queue' = Tail(queue)
        /\ UNCHANGED <<phase, resolved, job, pushed>>
    BY <1>9 DEF CreateTag
  <2>2. \A i \in 1..Len(queue') : i + 1 \in 1..Len(queue) /\ queue'[i] = queue[i + 1]
    BY <1>0, <2>1
  <2>3. \A i \in 1..Len(queue') : OwnTag(queue'[i])
    BY <2>1, <2>2 DEF OwnImages
  <2>. QED BY <2>1, <2>3 DEF OwnImages, OwnImage, OwnTag, AllJobsPushed
<1>10. CASE UNCHANGED vars
  BY <1>10, <1>s DEF vars
<1>. QED
  BY <1>1, <1>2, <1>3, <1>4, <1>5, <1>6, <1>7, <1>8, <1>9, <1>10 DEF Next, RunStep

\* A step that creates no tag changes nothing that tags reach.
LEMMA TagsOnlyCreated == [Next]_vars => CreateTag \/ UNCHANGED manifests
BY DEF Next, RunStep, vars, registryVars, Outside, UpstreamChanges, Push, Schedule,
       Dispatch, StartRun, Resolve, Compare, AccessDenied, Download, Test, PushImage,
       JobFails, BuildFailed, StartManifest, FinishRun, RunFails

\* A tag is created on images of one run, the amd64 one tested.
LEMMA ReleasedNext == TypeOK /\ OwnImages /\ Released /\ [Next]_vars => Released'
<1>. SUFFICES ASSUME TypeOK, OwnImages, Released, CreateTag PROVE Released'
  BY TagsOnlyCreated DEF Released, Homogeneous, ReleasedTested, TagsTellVersion
<1> DEFINE new == Head(queue)
           index == [a \in Arches |-> pushed[<<resolved.immortalwrt, a>>]]
<1>1. /\ phase = "manifest" /\ queue # <<>> /\ queue \in Seq(Tags)
      /\ manifests' = [t \in DOMAIN manifests \union {new} |->
                         IF t = new THEN index ELSE manifests[t]]
  BY DEF CreateTag, TypeOK, RunTypes
<1>2. \A a \in Arches : OwnImage(a)
  BY <1>1 DEF OwnImages, AllJobsPushed
<1>3. OwnTag(new)
  <2>1. 1 \in 1..Len(queue) /\ new = queue[1]
    BY <1>1
  <2>. QED BY <1>1, <2>1 DEF OwnImages
<1>4. /\ \A a \in Arches : index[a].inputs = resolved
      /\ index["amd64"].tested
  BY <1>2 DEF OwnImage, Arches
<1>. HIDE DEF new, index
<1>5. Homogeneous'
  BY <1>1, <1>4 DEF Released, Homogeneous, Arches
<1>6. ReleasedTested'
  BY <1>1, <1>4 DEF Released, ReleasedTested
<1>7. TagsTellVersion'
  BY <1>1, <1>3, <1>4 DEF Released, TagsTellVersion, OwnTag
<1>. QED BY <1>5, <1>6, <1>7 DEF Released

\* The three properties of the tags hold together with the invariant.
LEMMA OwnReleased == Spec => [](TypeOK /\ OwnImages /\ Released)
<1>1. Init => TypeOK /\ OwnImages /\ Released
  BY PublishTypeInit, OwnInit
<1>2. TypeOK /\ OwnImages /\ Released /\ [Next]_vars => (TypeOK /\ OwnImages /\ Released)'
  BY PublishTypeNext, OwnNext, ReleasedNext
<1>. QED BY <1>1, <1>2, PTL DEF Spec

\* Both architectures of every tag were built from the same inputs.
THEOREM TagsHomogeneous == Spec => []Homogeneous
<1>1. Released => Homogeneous
  BY DEF Released
<1>. QED BY <1>1, OwnReleased, PTL

\* No tag reaches an amd64 image that was not tested.
THEOREM TagsTested == Spec => []ReleasedTested
<1>1. Released => ReleasedTested
  BY DEF Released
<1>. QED BY <1>1, OwnReleased, PTL

\* A version tag holds an image of that version.
THEOREM TagsTruthful == Spec => []TagsTellVersion
<1>1. Released => TagsTellVersion
  BY DEF Released
<1>. QED BY <1>1, OwnReleased, PTL

-----------------------------------------------------------------------------
(* Why there is a new image.                                               *)

\* A run was asked to build, has something to build, or may be the first and
\* could not read what there is.
Reason ==
  \/ trigger.force
  \/ trigger.first /\ denied
  \/ ~Published
  \/ Monitored(manifests[Latest]["amd64"].inputs) # Monitored(resolved)

\* The reason of the check job still stands when `latest` moves: no other run
\* touches it.
ReasonStands ==
  /\ phase = "download" /\ build => Reason
  /\ phase = "build" => Reason
  /\ phase = "manifest" =>
       \A i \in 1..Len(queue) : queue[i] = Latest => i = 1 /\ Reason

\* Different digests are of different inputs.
LEMMA DigestMonitored ==
  ASSUME NEW i \in Inputs, NEW j \in Inputs, Digest(i) # Digest(j)
  PROVE  Monitored(i) # Monitored(j)
<1>. SUFFICES ASSUME Monitored(i) = Monitored(j) PROVE Digest(i) = Digest(j)
  OBVIOUS
<1>1. \A u \in Upstreams \union {"source"} : Monitored(i)[u] = i[u] /\ Monitored(j)[u] = j[u]
  BY DEF Monitored
<1>2. i["immortalwrt"] = j["immortalwrt"] /\ i["passwall"] = j["passwall"]
      /\ i["landscape"] = j["landscape"] /\ i["source"] = j["source"]
  BY <1>1 DEF Upstreams
<1>. QED BY <1>2 DEF Digest

\* What the check job finds is a reason.
LEMMA NeedsReason == TypeOK /\ NeedsBuild => Reason
<1>. SUFFICES ASSUME TypeOK, Published,
                     Digest(manifests[Latest]["amd64"].inputs) # Digest(resolved)
              PROVE  Monitored(manifests[Latest]["amd64"].inputs) # Monitored(resolved)
  BY DEF NeedsBuild, Reason
<1>1. resolved \in Inputs
  BY DEF TypeOK, RunTypes
<1>2. manifests[Latest] \in [Arches -> Images]
  BY DEF TypeOK, RegistryTypes, Published
<1>3. manifests[Latest]["amd64"].inputs \in Inputs
  BY <1>2 DEF Arches, Images
<1>. QED BY <1>1, <1>3, DigestMonitored

\* The first state.
LEMMA ReasonInit == Init => ReasonStands
BY DEF Init, Idle, ReasonStands

\* Every step of a run keeps its reason.
LEMMA ReasonNext == TypeOK /\ ReasonStands /\ [Next]_vars => ReasonStands'
<1>. SUFFICES ASSUME TypeOK, ReasonStands, [Next]_vars PROVE ReasonStands'
  OBVIOUS
<1>. USE DEF Outside, registryVars, runVars
<1>0. resolved \in Inputs /\ queue \in Seq(Tags)
  BY DEF TypeOK, RunTypes
<1>k. UNCHANGED <<trigger, resolved, denied, manifests>> => (Reason <=> Reason')
  BY DEF Reason, Published
<1>s. ASSUME UNCHANGED <<phase, build, trigger, resolved, denied, queue, manifests>>
      PROVE  ReasonStands'
  BY <1>s, <1>k DEF ReasonStands
<1>e. phase' \notin {"download", "build", "manifest"} => ReasonStands'
  BY DEF ReasonStands
<1>1. ASSUME NEW u \in Moving, NEW v \in Version, UpstreamChanges(u, v) PROVE ReasonStands'
  BY <1>1, <1>s DEF UpstreamChanges
<1>2. ASSUME NEW force \in BOOLEAN, NEW first \in BOOLEAN,
             Push \/ Schedule \/ Dispatch(force, first)
      PROVE  ReasonStands'
  BY <1>2, <1>s DEF Push, Schedule, Dispatch
<1>3. CASE StartRun \/ Resolve \/ BuildFailed \/ FinishRun \/ RunFails
  BY <1>3, <1>e DEF StartRun, Resolve, BuildFailed, FinishRun, RunFails, EndRun
<1>4. CASE Compare
  <2>1. phase' = "download" /\ build' = NeedsBuild
        /\ UNCHANGED <<trigger, resolved, denied, manifests>>
    BY <1>4 DEF Compare
  <2>. QED BY <2>1, <1>k, NeedsReason DEF ReasonStands
<1>5. CASE AccessDenied
  <2>1. CASE trigger.first
    BY <1>5, <2>1 DEF AccessDenied, ReasonStands, Reason, Published
  <2>2. CASE ~trigger.first
    BY <1>5, <2>2, <1>e DEF AccessDenied, EndRun
  <2>. QED BY <2>1, <2>2
<1>6. CASE Download
  <2>1. CASE inputs.feed = resolved.feed /\ build
    <3>1. phase = "download" /\ phase' = "build"
          /\ UNCHANGED <<trigger, resolved, denied, manifests>>
      BY <1>6, <2>1 DEF Download
    <3>. QED BY <2>1, <3>1, <1>k DEF ReasonStands
  <2>2. CASE ~(inputs.feed = resolved.feed /\ build)
    BY <1>6, <2>2, <1>e DEF Download, EndRun
  <2>. QED BY <2>1, <2>2
<1>7. CASE Test
  BY <1>7, <1>s DEF Test
<1>8. ASSUME NEW a \in Arches, PushImage(a) \/ JobFails(a) PROVE ReasonStands'
  BY <1>8, <1>s DEF PushImage, JobFails
<1>9. CASE StartManifest
  <2>1. /\ phase = "build" /\ phase' = "manifest" /\ queue' = RunTags
        /\ UNCHANGED <<trigger, resolved, denied, manifests>>
    BY <1>9 DEF StartManifest
  <2>2. \A i \in 1..Len(RunTags) : RunTags[i] = Latest => i = 1
    BY DEF RunTags, Latest
  <2>. QED BY <2>1, <2>2, <1>k DEF ReasonStands
<1>10. CASE CreateTag
  <2>1. phase = "manifest" /\ phase' = "manifest" /\ queue # <<>> /\ queue' = Tail(queue)
    BY <1>10 DEF CreateTag
  <2>2. \A i \in 1..Len(queue') : i + 1 \in 1..Len(queue) /\ queue'[i] = queue[i + 1]
    BY <1>0, <2>1
  <2>3. \A i \in 1..Len(queue') : queue'[i] # Latest
    BY <2>1, <2>2 DEF ReasonStands
  <2>. QED BY <2>1, <2>3 DEF ReasonStands
<1>11. CASE UNCHANGED vars
  BY <1>11, <1>s DEF vars
<1>. QED
  BY <1>1, <1>2, <1>3, <1>4, <1>5, <1>6, <1>7, <1>8, <1>9, <1>10, <1>11 DEF Next, RunStep

\* The step that moves `latest` has a reason.
LEMMA LatestMovesForReason ==
  ASSUME TypeOK, OwnImages, ReasonStands, [Next]_vars, Published,
         manifests'[Latest] # manifests[Latest]
  PROVE  \/ trigger.force
         \/ trigger.first /\ denied
         \/ Monitored(manifests'[Latest]["amd64"].inputs)
              # Monitored(manifests[Latest]["amd64"].inputs)
<1> DEFINE index == [a \in Arches |-> pushed[<<resolved.immortalwrt, a>>]]
<1>1. CreateTag
  BY TagsOnlyCreated
<1>2. /\ phase = "manifest" /\ queue # <<>> /\ queue \in Seq(Tags)
      /\ manifests' = [t \in DOMAIN manifests \union {Head(queue)} |->
                         IF t = Head(queue) THEN index ELSE manifests[t]]
  BY <1>1 DEF CreateTag, TypeOK, RunTypes
<1>3. OwnImage("amd64")
  BY <1>2 DEF OwnImages, AllJobsPushed, Arches
<1>4. index["amd64"].inputs = resolved
  BY <1>3 DEF OwnImage, Arches
<1>. HIDE DEF index
<1>5. Head(queue) = Latest /\ manifests'[Latest] = index
  BY <1>2 DEF Published
<1>6. 1 \in 1..Len(queue) /\ queue[1] = Latest
  BY <1>2, <1>5
<1>7. Reason
  BY <1>2, <1>6 DEF ReasonStands
<1>. QED BY <1>4, <1>5, <1>7 DEF Reason

\* When nothing monitored has changed `latest` is left alone, but for a run
\* that forces it, or may be the first and was denied the image.
THEOREM UnchangedSkipped == Spec => UnchangedInputsSkipped
<1>1. Spec => []ReasonStands
  BY PublishTypes, ReasonInit, ReasonNext, PTL DEF Spec
<1>2. TypeOK /\ OwnImages /\ ReasonStands /\ [Next]_vars =>
        [ Published /\ manifests'[Latest] # manifests[Latest] =>
            \/ trigger.force
            \/ trigger.first /\ denied
            \/ Monitored(manifests'[Latest]["amd64"].inputs)
                 # Monitored(manifests[Latest]["amd64"].inputs) ]_vars
  BY LatestMovesForReason
<1>. QED BY <1>1, <1>2, OwnReleased, PTL DEF Spec, UnchangedInputsSkipped

-----------------------------------------------------------------------------
(* Failed jobs that run again.                                             *)

rerunVars == <<vars, failed>>

RerunNext ==
  \/ Fails
  \/ GoesOn
  \/ \E r \in failed : RerunFailedJobs(r) \/ ArtifactExpires(r)

\* The tag of a version of ImmortalWrt, which names the per-arch tags too.
BaseTagsTellVersion ==
  \A t \in DOMAIN manifests : t[1] = "immortalwrt" =>
    \A a \in Arches : manifests[t][a].inputs.immortalwrt = t[2]

\* Whoever pushed it last: a per-arch tag holds its version, amd64 tested.
PushedInv ==
  \A v \in Nat, a \in Arches : <<v, a>> \in DOMAIN pushed =>
    /\ pushed[<<v, a>>].inputs.immortalwrt = v
    /\ a = "amd64" => pushed[<<v, a>>].tested

VersionsKnown(i) == i.immortalwrt \in Nat /\ i.passwall \in Nat /\ i.landscape \in Nat

\* The tags that a run has still to create are of what it resolved.
QueueInv ==
  /\ inputs \in Inputs
  /\ VersionsKnown(resolved) /\ queue \in Seq(Tags)
  /\ phase = "manifest" => \A i \in 1..Len(queue) :
       queue[i][1] = "immortalwrt" => queue[i][2] = resolved.immortalwrt
  /\ \A r \in failed : VersionsKnown(r.resolved)

RegistryInv == PushedInv /\ QueueInv /\ ReleasedTested /\ BaseTagsTellVersion

LEMMA RegistryInit == Init /\ failed = {} => RegistryInv
<1>. SUFFICES ASSUME Init, failed = {} PROVE RegistryInv
  OBVIOUS
<1>1. PushedInv
  BY DEF Init, PushedInv
<1>2. QueueInv
  <2>1. inputs \in Inputs /\ VersionsKnown(resolved)
    BY BoundsAssumption DEF Init, Idle, Inputs, NoInputs, VersionsKnown
  <2>. QED BY <2>1 DEF Init, Idle, QueueInv
<1>3. DOMAIN manifests = {}
  BY DEF Init
<1>. QED BY <1>1, <1>2, <1>3 DEF RegistryInv, ReleasedTested, BaseTagsTellVersion

\* What a job pushes is of the version that the tag names.
LEMMA PushedNext ==
  ASSUME QueueInv, PushedInv, NEW a \in Arches, PushImage(a)
  PROVE  PushedInv'
<1> DEFINE ref == <<resolved.immortalwrt, a>>
           image == [inputs |-> resolved, tested |-> job["amd64"] \in {"tested", "pushed"}]
<1>1. pushed' = [r \in DOMAIN pushed \union {ref} |-> IF r = ref THEN image ELSE pushed[r]]
  BY DEF PushImage
<1>2. image.inputs.immortalwrt = resolved.immortalwrt
  OBVIOUS
<1>3. a = "amd64" => image.tested
  BY DEF PushImage, Ready
<1>. HIDE DEF image
<1>. SUFFICES ASSUME NEW v \in Nat, NEW b \in Arches, <<v, b>> \in DOMAIN pushed'
     PROVE  /\ pushed'[<<v, b>>].inputs.immortalwrt = v
            /\ b = "amd64" => pushed'[<<v, b>>].tested
  BY DEF PushedInv
<1>4. CASE <<v, b>> = ref
  <2>1. v = resolved.immortalwrt /\ b = a /\ pushed'[<<v, b>>] = image
    BY <1>1, <1>4
  <2>. QED BY <1>2, <1>3, <2>1
<1>5. CASE <<v, b>> # ref
  <2>1. <<v, b>> \in DOMAIN pushed /\ pushed'[<<v, b>>] = pushed[<<v, b>>]
    BY <1>1, <1>5
  <2>. QED BY <2>1 DEF PushedInv
<1>. QED BY <1>4, <1>5

\* The tags of a run, whose source may be anything.
LEMMA RunTagsKnown ==
  ASSUME VersionsKnown(resolved)
  PROVE  /\ RunTags \in Seq(Tags)
         /\ \A i \in 1..Len(RunTags) :
              RunTags[i][1] = "immortalwrt" => RunTags[i][2] = resolved.immortalwrt
<1>1. /\ Latest \in Tags
      /\ <<"immortalwrt", resolved.immortalwrt>> \in Tags
      /\ <<"passwall", resolved.passwall>> \in Tags
      /\ <<"landscape", resolved.landscape>> \in Tags
  BY DEF Tags, Upstreams, VersionsKnown
<1>2. \A S : \A a, b, c, d \in S : <<a, b, c, d>> \in Seq(S)
  OBVIOUS
<1>. QED BY <1>1, <1>2 DEF RunTags, Latest

\* The queue of a run, through every step of the workflow.
LEMMA QueueNext ==
  ASSUME QueueInv, [RerunNext]_rerunVars
  PROVE  QueueInv'
<1>. USE DEF QueueInv, Outside, runVars, registryVars
<1> DEFINE Kept == /\ UNCHANGED <<resolved, queue>>
                   /\ phase' = "manifest" => phase = "manifest"
<1>s. ASSUME inputs' \in Inputs, Kept PROVE
        /\ VersionsKnown(resolved') /\ queue' \in Seq(Tags) /\ inputs' \in Inputs
        /\ phase' = "manifest" => \A i \in 1..Len(queue') :
             queue'[i][1] = "immortalwrt" => queue'[i][2] = resolved'.immortalwrt
  BY <1>s
<1>e. ASSUME EndRun, UNCHANGED inputs PROVE
        /\ VersionsKnown(resolved') /\ queue' \in Seq(Tags) /\ inputs' \in Inputs
        /\ phase' = "manifest" => \A i \in 1..Len(queue') :
             queue'[i][1] = "immortalwrt" => queue'[i][2] = resolved'.immortalwrt
  BY <1>e DEF EndRun, NoInputs, VersionsKnown
<1>1. ASSUME Next PROVE
        /\ VersionsKnown(resolved') /\ queue' \in Seq(Tags) /\ inputs' \in Inputs
        /\ phase' = "manifest" => \A i \in 1..Len(queue') :
             queue'[i][1] = "immortalwrt" => queue'[i][2] = resolved'.immortalwrt
  <2>1. ASSUME NEW u \in Moving, NEW v \in Version, UpstreamChanges(u, v) PROVE inputs' \in Inputs
    BY <2>1, ChangedInputs, BoundsAssumption, MovingAssumption DEF UpstreamChanges
  <2>2. ASSUME Push PROVE inputs' \in Inputs
    <3>1. inputs' = [inputs EXCEPT !.source = @ + 1] /\ inputs \in Inputs
      BY <2>2 DEF Push
    <3>. QED BY <3>1 DEF Inputs
  <2>3. ASSUME NEW u \in Moving, NEW v \in Version, UpstreamChanges(u, v)
        PROVE  Kept
    BY <2>3 DEF UpstreamChanges
  <2>4. ASSUME NEW force \in BOOLEAN, NEW first \in BOOLEAN,
               Schedule \/ Dispatch(force, first) \/ StartRun \/ Compare \/ Test
        PROVE  UNCHANGED inputs /\ Kept
    BY <2>4 DEF Schedule, Dispatch, StartRun, Compare, Test
  <2>5. Push => Kept
    BY DEF Push
  <2>6. ASSUME NEW a \in Arches, PushImage(a) \/ JobFails(a)
        PROVE  UNCHANGED inputs /\ Kept
    BY <2>6 DEF PushImage, JobFails
  <2>7. CASE Resolve
    <3>1. resolved' = [inputs EXCEPT !.source = trigger.source] /\ UNCHANGED <<inputs, queue>>
          /\ phase' = "compare"
      BY <2>7 DEF Resolve
    <3>2. VersionsKnown(resolved')
      BY <3>1 DEF Inputs, VersionsKnown
    <3>. QED BY <3>1, <3>2
  <2>8. CASE AccessDenied \/ Download
    <3>1. EndRun \/ Kept
      BY <2>8 DEF AccessDenied, Download
    <3>. QED BY <2>8, <3>1, <1>s, <1>e DEF AccessDenied, Download
  <2>9. CASE BuildFailed \/ FinishRun \/ RunFails
    BY <2>9, <1>e DEF BuildFailed, FinishRun, RunFails
  <2>10. CASE StartManifest
    <3>1. queue' = RunTags /\ UNCHANGED <<inputs, resolved>>
      BY <2>10 DEF StartManifest
    <3>. QED BY <3>1, RunTagsKnown
  <2>11. CASE CreateTag
    <3>1. queue # <<>> /\ queue' = Tail(queue) /\ phase = "manifest"
          /\ UNCHANGED <<inputs, resolved>>
      BY <2>11 DEF CreateTag
    <3>2. queue' \in Seq(Tags)
      BY <3>1
    <3>3. \A i \in 1..Len(queue') : i + 1 \in 1..Len(queue) /\ queue'[i] = queue[i + 1]
      BY <3>1
    <3>. QED BY <3>1, <3>2, <3>3
  <2>. QED
    BY <1>1, <1>s, <2>1, <2>2, <2>3, <2>4, <2>5, <2>6, <2>7, <2>8, <2>9, <2>10, <2>11
       DEF Next, RunStep
<1>2. CASE GoesOn
  BY <1>1, <1>2 DEF GoesOn
<1>3. CASE Fails
  <2>1. Next /\ failed' = failed \union {FailedRun}
    BY <1>3 DEF Fails, Next, RunStep
  <2>2. VersionsKnown(FailedRun.resolved)
    BY DEF FailedRun, NoInputs, VersionsKnown
  <2>. QED BY <1>1, <2>1, <2>2
<1>4. ASSUME NEW r \in failed, RerunFailedJobs(r) PROVE QueueInv'
  BY <1>4 DEF RerunFailedJobs
<1>5. ASSUME NEW r \in failed, ArtifactExpires(r) PROVE QueueInv'
  BY <1>5 DEF ArtifactExpires, vars
<1>6. CASE UNCHANGED rerunVars
  BY <1>6 DEF rerunVars, vars
<1>. QED BY <1>2, <1>3, <1>4, <1>5, <1>6 DEF RerunNext

\* Only a push and the creation of a tag change the registry.
LEMMA RegistryChanges ==
  [RerunNext]_rerunVars =>
    \/ UNCHANGED <<pushed, manifests>>
    \/ CreateTag
    \/ UNCHANGED manifests /\ \E a \in Arches : PushImage(a)
<1>1. Next => \/ UNCHANGED <<pushed, manifests>> \/ CreateTag
              \/ UNCHANGED manifests /\ \E a \in Arches : PushImage(a)
  BY DEF Next, RunStep, registryVars, Outside, UpstreamChanges, Push, Schedule, Dispatch,
         StartRun, Resolve, Compare, AccessDenied, Download, Test, PushImage, JobFails,
         BuildFailed, StartManifest, FinishRun, RunFails
<1>2. Fails \/ GoesOn => Next
  BY DEF Fails, GoesOn, Next, RunStep
<1>3. ASSUME NEW r \in failed, RerunFailedJobs(r) \/ ArtifactExpires(r)
      PROVE  UNCHANGED <<pushed, manifests>>
  BY <1>3 DEF RerunFailedJobs, ArtifactExpires, vars, registryVars
<1>. QED BY <1>1, <1>2, <1>3 DEF RerunNext, rerunVars, vars, registryVars

LEMMA RegistryNext == RegistryInv /\ [RerunNext]_rerunVars => RegistryInv'
<1>. SUFFICES ASSUME RegistryInv, [RerunNext]_rerunVars PROVE RegistryInv'
  OBVIOUS
<1>1. QueueInv'
  BY QueueNext DEF RegistryInv
<1>2. CASE UNCHANGED <<pushed, manifests>>
  BY <1>1, <1>2 DEF RegistryInv, PushedInv, ReleasedTested, BaseTagsTellVersion
<1>3. CASE UNCHANGED manifests /\ \E a \in Arches : PushImage(a)
  <2>1. PushedInv'
    BY <1>3, PushedNext DEF RegistryInv
  <2>. QED BY <1>1, <1>3, <2>1 DEF RegistryInv, ReleasedTested, BaseTagsTellVersion
<1>4. CASE CreateTag
  <2> DEFINE new == Head(queue)
             index == [a \in Arches |-> pushed[<<resolved.immortalwrt, a>>]]
  <2>1. /\ phase = "manifest" /\ queue # <<>> /\ UNCHANGED pushed
        /\ \A a \in Arches : <<resolved.immortalwrt, a>> \in DOMAIN pushed
        /\ manifests' = [t \in DOMAIN manifests \union {new} |->
                           IF t = new THEN index ELSE manifests[t]]
    BY <1>4 DEF CreateTag
  <2>2. resolved.immortalwrt \in Nat
    BY DEF RegistryInv, QueueInv, VersionsKnown
  <2>3. /\ \A a \in Arches : index[a].inputs.immortalwrt = resolved.immortalwrt
        /\ index["amd64"].tested
    BY <2>1, <2>2 DEF RegistryInv, PushedInv, Arches
  <2>4. new[1] = "immortalwrt" => new[2] = resolved.immortalwrt
    BY <2>1 DEF RegistryInv, QueueInv
  <2>. HIDE DEF new, index
  <2>5. ReleasedTested'
    BY <2>1, <2>3 DEF RegistryInv, ReleasedTested
  <2>6. BaseTagsTellVersion'
    BY <2>1, <2>3, <2>4 DEF RegistryInv, BaseTagsTellVersion
  <2>7. PushedInv'
    BY <2>1 DEF RegistryInv, PushedInv
  <2>. QED BY <1>1, <2>5, <2>6, <2>7 DEF RegistryInv
<1>. QED BY <1>2, <1>3, <1>4, RegistryChanges

\* Also when failed jobs are run again, at any time and in any number, every
\* released amd64 image has passed its test, and the tag of a version of
\* ImmortalWrt holds that version.
THEOREM RerunsStayTested == RerunSpec => [](ReleasedTested /\ BaseTagsTellVersion)
<1>1. RerunSpec => Init /\ failed = {} /\ [][RerunNext]_rerunVars
  BY DEF RerunSpec, RerunNext, rerunVars
<1>2. RegistryInv => ReleasedTested /\ BaseTagsTellVersion
  BY DEF RegistryInv
<1>. QED BY <1>1, <1>2, RegistryInit, RegistryNext, PTL
=============================================================================
