------------------------------ MODULE Publish ------------------------------
(***************************************************************************)
(* The workflow that follows three upstreams and this repository and       *)
(* publishes the image: scripts/upstreams.py decides (job check), one job  *)
(* per architecture builds and pushes, the job manifest points the tags    *)
(* of the image at what was pushed.  GitHub runs one workflow run of the   *)
(* concurrency group at a time and keeps one more waiting: a newer trigger *)
(* takes the place of the one that waits.                                  *)
(*                                                                         *)
(* Versions are numbers.  ImmortalWrt's version stands for its tag and the *)
(* commit of the tag; an artifact with a version in its URL is what its    *)
(* version says, the dependency feed is the one that changes in place.     *)
(***************************************************************************)
EXTENDS Naturals, Sequences, FiniteSets

CONSTANTS
  Version,     \* the versions of an upstream, the states of the feed
  Moving,      \* bound on what changes: some upstreams, or the feed
  MaxChanges,  \* bound on the changes of the inputs
  MaxFaults    \* bound on failing steps, cancelled and timed-out runs

ASSUME BoundsAssumption ==
  Version \subseteq Nat /\ MaxChanges \in Nat /\ MaxFaults \in Nat

Upstreams == {"immortalwrt", "passwall", "landscape"}

ASSUME MovingAssumption == Moving \subseteq Upstreams \union {"feed"}

Arches == {"amd64", "arm64"}

Inputs == [immortalwrt: Nat, passwall: Nat, landscape: Nat, source: Nat, feed: Nat]

\* force and first_build are inputs of a manual run; a push sets the second.
Triggers == [source: Nat, force: BOOLEAN, first: BOOLEAN]

Latest == <<"latest", 0>>
Tags == {Latest} \union (Upstreams \X Nat)

\* tested: the amd64 candidate of the run had passed its test by the push.
Images == [inputs: Inputs, tested: BOOLEAN]

VARIABLES
  inputs,     \* the newest stable upstreams, the feed and the head of main
  pending,    \* the trigger that waits, if any
  phase,      \* where the current run is
  trigger,    \* what started it
  resolved,   \* its build/upstream.json
  build,      \* the output `build` of its check job
  denied,     \* whether that job builds because it could not read the image
  job,        \* its two build jobs
  queue,      \* the tags its manifest job has still to create
  pushed,     \* the tags immortalwrt-<version>-<arch> of the registry
  manifests,  \* its multi-arch tags
  changes,    \* the changes of the inputs so far
  faults      \* the faults so far

runVars == <<phase, trigger, resolved, build, denied, job, queue>>
registryVars == <<pushed, manifests>>
vars == <<inputs, pending, runVars, registryVars, changes, faults>>

NoTrigger == [source |-> 0, force |-> FALSE, first |-> FALSE]
NoInputs == [immortalwrt |-> 0, passwall |-> 0, landscape |-> 0, source |-> 0, feed |-> 0]
NoJobs == [a \in Arches |-> "waiting"]

Idle ==
  /\ phase = "idle"
  /\ trigger = NoTrigger
  /\ resolved = NoInputs
  /\ build = FALSE
  /\ denied = FALSE
  /\ job = NoJobs
  /\ queue = <<>>

\* The run is over; nothing of its runners stays.
EndRun ==
  /\ phase' = "idle"
  /\ trigger' = NoTrigger
  /\ resolved' = NoInputs
  /\ build' = FALSE
  /\ denied' = FALSE
  /\ job' = NoJobs
  /\ queue' = <<>>

\* A package that is not published yet.
Init ==
  /\ \E v \in Version :
       /\ \A w \in Version : v <= w
       /\ inputs = [immortalwrt |-> v, passwall |-> v, landscape |-> v,
                    source |-> 1, feed |-> v]
  /\ pending = {}
  /\ Idle
  /\ pushed = <<>>
  /\ manifests = <<>>
  /\ changes = 0
  /\ faults = 0

-----------------------------------------------------------------------------
(* What happens outside a run.                                             *)

Change == changes < MaxChanges /\ changes' = changes + 1

\* An upstream publishes a stable version, or withdraws its newest; the feed
\* is updated in place.
UpstreamChanges(u, v) ==
  /\ inputs[u] # v
  /\ inputs' = [inputs EXCEPT ![u] = v]
  /\ Change
  /\ UNCHANGED <<pending, runVars, registryVars, faults>>

\* Defective variant: every trigger is kept.
QueueEvery(t) == pending' = pending \union {t}

\* A run of a concurrency group replaces the one that waits.
Queue(t) == pending' = {t}

Push ==
  /\ Change
  /\ inputs' = [inputs EXCEPT !.source = @ + 1]
  /\ Queue([source |-> inputs.source + 1, force |-> FALSE, first |-> TRUE])
  /\ UNCHANGED <<runVars, registryVars, faults>>

Schedule ==
  /\ Queue([source |-> inputs.source, force |-> FALSE, first |-> FALSE])
  /\ UNCHANGED <<inputs, runVars, registryVars, changes, faults>>

Dispatch(force, first) ==
  /\ Queue([source |-> inputs.source, force |-> force, first |-> first])
  /\ UNCHANGED <<inputs, runVars, registryVars, changes, faults>>

-----------------------------------------------------------------------------
(* The job check.                                                          *)

Outside == UNCHANGED <<inputs, changes, faults>>

StartRun ==
  /\ phase = "idle"
  /\ \E t \in pending : trigger' = t
  /\ pending' = {}
  /\ phase' = "resolve"
  /\ UNCHANGED <<resolved, build, denied, job, queue, registryVars>>
  /\ Outside

\* resolve(): the newest of everything, at the commit that was checked out.
Resolve ==
  /\ phase = "resolve"
  /\ resolved' = [inputs EXCEPT !.source = trigger.source]
  /\ phase' = "compare"
  /\ UNCHANGED <<pending, trigger, build, denied, job, queue, registryVars>>
  /\ Outside

\* Defective variants: a field is missing, or one too many is there.
DigestWithoutPasswall(i) == <<i.immortalwrt, i.landscape, i.source>>
DigestWithFeed(i) == <<i.immortalwrt, i.passwall, i.landscape, i.source, i.feed>>

\* inputs_digest: the label of an image and what is compared with it.
Digest(i) == <<i.immortalwrt, i.passwall, i.landscape, i.source>>

Published == Latest \in DOMAIN manifests

\* same_inputs and --force, against the amd64 image of `latest`; without one
\* the registry answers 404.
NeedsBuild ==
  \/ ~Published
  \/ trigger.force
  \/ Digest(manifests[Latest]["amd64"].inputs) # Digest(resolved)

Compare ==
  /\ phase = "compare"
  /\ build' = NeedsBuild
  /\ phase' = "download"
  /\ UNCHANGED <<pending, trigger, resolved, denied, job, queue, registryVars>>
  /\ Outside

Fault == faults < MaxFaults /\ faults' = faults + 1

\* GHCR answers 401 or 403: to a run that may not read the image, or because
\* there is none.  Only a run that permits a first build goes on; it builds,
\* whatever `latest` holds.  That a published image is denied is a fault.
AccessDenied ==
  /\ phase = "compare"
  /\ IF trigger.first
       THEN /\ build' = TRUE
            /\ denied' = TRUE
            /\ phase' = "download"
            /\ UNCHANGED <<trigger, resolved, job, queue>>
       ELSE EndRun
  /\ IF Published THEN Fault ELSE UNCHANGED faults
  /\ UNCHANGED <<inputs, pending, registryVars, changes>>

\* Every file is downloaded once more and verified, whether or not there is
\* something to build.  The feed is read twice: a change between the two
\* reads is a mismatch, and the run fails.
Download ==
  /\ phase = "download"
  /\ IF inputs.feed = resolved.feed /\ build
       THEN phase' = "build" /\ UNCHANGED <<trigger, resolved, build, denied, job, queue>>
       ELSE EndRun
  /\ UNCHANGED <<pending, registryVars>>
  /\ Outside

-----------------------------------------------------------------------------
(* The job build, once per architecture; fail-fast is off.                 *)

\* The amd64 candidate is built, loaded and put through the smoke test.
Test ==
  /\ phase = "build"
  /\ job["amd64"] = "waiting"
  /\ job' = [job EXCEPT !["amd64"] = "tested"]
  /\ UNCHANGED <<pending, phase, trigger, resolved, build, denied, queue, registryVars>>
  /\ Outside

\* Defective variant: amd64 does not wait for its test.
ReadyAnyway(a) == job[a] \in {"waiting", "tested"}

\* Only the amd64 job has a test.
Ready(a) == job[a] = IF a = "amd64" THEN "tested" ELSE "waiting"

\* The other per-arch tags that are pushed along are read by no job.
PushImage(a) ==
  /\ phase = "build"
  /\ Ready(a)
  /\ LET ref == <<resolved.immortalwrt, a>>
         image == [inputs |-> resolved, tested |-> job["amd64"] \in {"tested", "pushed"}]
     IN pushed' = [r \in DOMAIN pushed \union {ref} |->
                     IF r = ref THEN image ELSE pushed[r]]
  /\ job' = [job EXCEPT ![a] = "pushed"]
  /\ UNCHANGED <<pending, phase, trigger, resolved, build, denied, queue, manifests>>
  /\ Outside

\* Any step of a build job fails or times out, the upload of the diagnostics
\* after the push included.
JobFails(a) ==
  /\ phase = "build"
  /\ job[a] # "failed"
  /\ job' = [job EXCEPT ![a] = "failed"]
  /\ Fault
  /\ UNCHANGED <<inputs, pending, phase, trigger, resolved, build, denied, queue,
                 registryVars, changes>>

JobsOver == \A a \in Arches : job[a] \in {"pushed", "failed"}

BuildFailed ==
  /\ phase = "build"
  /\ JobsOver
  /\ \E a \in Arches : job[a] = "failed"
  /\ EndRun
  /\ UNCHANGED <<pending, registryVars>>
  /\ Outside

-----------------------------------------------------------------------------
(* The job manifest.                                                       *)

\* Defective variant: the tags are those of the newest upstreams.
NewestTags ==
  <<Latest, <<"immortalwrt", inputs.immortalwrt>>, <<"passwall", inputs.passwall>>,
    <<"landscape", inputs.landscape>> >>

RunTags ==
  <<Latest, <<"immortalwrt", resolved.immortalwrt>>, <<"passwall", resolved.passwall>>,
    <<"landscape", resolved.landscape>> >>

\* Defective variant: one failed job does not keep the manifest back.
SomeJobPushed == JobsOver /\ \E a \in Arches : job[a] = "pushed"

AllJobsPushed == \A a \in Arches : job[a] = "pushed"

StartManifest ==
  /\ phase = "build"
  /\ AllJobsPushed
  /\ phase' = "manifest"
  /\ queue' = RunTags
  /\ UNCHANGED <<pending, trigger, resolved, build, denied, job, registryVars>>
  /\ Outside

\* imagetools create: the tag gets what the two per-arch tags hold now.
CreateTag ==
  /\ phase = "manifest"
  /\ queue # <<>>
  /\ \A a \in Arches : <<resolved.immortalwrt, a>> \in DOMAIN pushed
  /\ LET index == [a \in Arches |-> pushed[<<resolved.immortalwrt, a>>]]
     IN manifests' = [t \in DOMAIN manifests \union {Head(queue)} |->
                        IF t = Head(queue) THEN index ELSE manifests[t]]
  /\ queue' = Tail(queue)
  /\ UNCHANGED <<pending, phase, trigger, resolved, build, denied, job, pushed>>
  /\ Outside

FinishRun ==
  /\ phase = "manifest"
  /\ queue = <<>>
  /\ EndRun
  /\ UNCHANGED <<pending, registryVars>>
  /\ Outside

\* A step of check or manifest fails: what was done stays done.
RunFails ==
  /\ phase \in {"resolve", "compare", "download", "manifest"}
  /\ EndRun
  /\ Fault
  /\ UNCHANGED <<inputs, pending, registryVars, changes>>

-----------------------------------------------------------------------------
RunStep ==
  \/ StartRun \/ Resolve \/ Compare \/ AccessDenied \/ Download
  \/ Test \/ (\E a \in Arches : PushImage(a)) \/ BuildFailed
  \/ StartManifest \/ CreateTag \/ FinishRun

Next ==
  \/ \E u \in Moving, v \in Version : UpstreamChanges(u, v)
  \/ Push
  \/ Schedule
  \/ \E force, first \in BOOLEAN : Dispatch(force, first)
  \/ RunStep
  \/ \E a \in Arches : JobFails(a)
  \/ RunFails

Spec == Init /\ [][Next]_vars

\* There is a scheduled run every day, and a run goes on to its end.
FairSpec == Spec /\ WF_vars(Schedule) /\ WF_vars(RunStep)

-----------------------------------------------------------------------------
RunTypes ==
  /\ phase \in {"idle", "resolve", "compare", "download", "build", "manifest"}
  /\ trigger \in Triggers
  /\ resolved \in Inputs
  /\ build \in BOOLEAN
  /\ denied \in BOOLEAN
  /\ job \in [Arches -> {"waiting", "tested", "pushed", "failed"}]
  /\ queue \in Seq(Tags)

RegistryTypes ==
  /\ DOMAIN pushed \subseteq Nat \X Arches
  /\ \A r \in DOMAIN pushed : pushed[r] \in Images
  /\ DOMAIN manifests \subseteq Tags
  /\ \A t \in DOMAIN manifests : manifests[t] \in [Arches -> Images]

\* Every variable has its type; one trigger waits at most.
TypeOK ==
  /\ inputs \in Inputs
  /\ pending \subseteq Triggers /\ Cardinality(pending) <= 1
  /\ RunTypes
  /\ RegistryTypes
  /\ changes \in 0..MaxChanges
  /\ faults \in 0..MaxFaults

\* Both architectures of a tag were built from the same inputs, although they
\* are found by tags that every run overwrites, failed runs included.
Homogeneous ==
  \A t \in DOMAIN manifests : manifests[t]["amd64"].inputs = manifests[t]["arm64"].inputs

\* No tag reaches an amd64 image that was not tested (README: a failing test
\* publishes nothing).
ReleasedTested == \A t \in DOMAIN manifests : manifests[t]["amd64"].tested

\* A version tag holds an image of that version, also when upstreams move on
\* while the run builds.
TagsTellVersion ==
  \A t \in DOMAIN manifests \ {Latest} :
    \A a \in Arches : manifests[t][a].inputs[t[1]] = t[2]

\* What README and inputs_digest name as the reason for a build.
Monitored(i) == [u \in Upstreams \union {"source"} |-> i[u]]

\* When nothing monitored has changed `latest` is left alone (README: unchanged
\* inputs are skipped), but for a run that forces it, and for one that permits
\* a first build, as every push does, and was denied the published image.
UnchangedInputsSkipped ==
  [][ Published /\ manifests'[Latest] # manifests[Latest] =>
        \/ trigger.force
        \/ trigger.first /\ denied
        \/ Monitored(manifests'[Latest]["amd64"].inputs)
             # Monitored(manifests[Latest]["amd64"].inputs) ]_vars

\* Once the inputs and the faults stop, `latest` is of the newest upstreams
\* and the head of main, for both architectures.
LatestCatchesUp ==
  <>[](Published =>
         \A a \in Arches : Monitored(manifests[Latest][a].inputs) = Monitored(inputs))

-----------------------------------------------------------------------------
(* What README says and the workflow does not keep.                        *)

\* `latest` moves when the other tags of the image are in place (README: the
\* last one to be updated is `latest`).
LatestUpdatedLast ==
  [][ Published' /\ (Published => manifests'[Latest] # manifests[Latest]) =>
        LET image == manifests'[Latest]
        IN \A u \in Upstreams :
             LET t == <<u, image["amd64"].inputs[u]>>
             IN t \in DOMAIN manifests /\ manifests[t] = image ]_vars

\* An image is pushed once a candidate of its run has passed the container
\* test (README: only candidates that passed the test are pushed).
OnlyTestedPushed == \A r \in DOMAIN pushed : pushed[r].tested

\* An update of the dependency feed is followed by a new image (README: the
\* daily check covers the index, a change of any input is built).
FeedFollowed ==
  <>[](Published => manifests[Latest]["amd64"].inputs.feed = inputs.feed)
=============================================================================
