------------------------------ MODULE Fixture -------------------------------
(***************************************************************************)
(* The IPv6 part of the smoke test: smoke-test.sh, network-fixture.py in   *)
(* its modes serve (a router that advertises prefixes), check, verify and  *)
(* stop, and the container under test.  They run at the same time and meet *)
(* in the file prefix-stage, in the advertisements and in docker exec.     *)
(*                                                                         *)
(* A tick is the 2 s that both the router and a poll sleep.  What is due   *)
(* happens before the second tick from then.                               *)
(***************************************************************************)
EXTENDS Naturals, Sequences

CONSTANTS
  ReadyTicks,  \* how long smoke-test.sh waits for the router
  WaitTicks,   \* the deadline of wait_address
  Defects      \* what an image may get wrong, some of:
               \*   "hotplug"  nothing is applied after an ifup
               \*   "router"   accept_ra_defrtr is not 0
               \*   "private"  other IPv4 sources reach the management ports
               \*   "public"   management over IPv6 is rejected

ASSUME TicksAssumption == ReadyTicks \in Nat /\ WaitTicks \in Nat

\* With shorter ones a good image may fail, and the trap may miss the router.
ASSUME DeadlinesAssumption == ReadyTicks >= 3 /\ WaitTicks >= 9

ASSUME DefectsAssumption == Defects \subseteq {"hotplug", "router", "private", "public"}

Prefixes == 1..2

VARIABLES
  defects, resets,  \* of the image; whether its netifd resets accept_ra
  server,           \* where serve is
  advertised,       \* the stage that its loop has read
  stopping,         \* the SIGTERM that its handler has noted
  client,           \* whether the namespace of the LAN client is there
  pid, ready, file, \* network.pid, network-ready, prefix-stage (0: empty)
  ra,               \* accept_ra of eth0
  address,          \* the address of each prefix
  up, event,        \* netifd has eth0 to set up, an ifup waits for hotplug
  phase, step,      \* of smoke-test.sh and its commands
  stage, left,      \* locals of verify and wait_address
  asleep,           \* between two polls
  passed,           \* the exit status of smoke-test.sh
  late              \* what was due at the last tick, and still is

image == <<defects, resets>>
serverVars == <<server, advertised, stopping>>
files == <<pid, ready, file>>
container == <<ra, address, up, event>>
locals == <<step, stage, left, asleep, passed>>
vars == <<image, serverVars, client, files, container, phase, locals, late>>

NoAddress == [i \in Prefixes |-> "none"]

Init ==
  /\ defects \in SUBSET Defects /\ resets \in BOOLEAN
  /\ server = "launched" /\ advertised = 0 /\ stopping = FALSE /\ client = FALSE
  /\ pid = FALSE /\ ready = FALSE /\ file = 0
  /\ ra = 0 /\ address = NoAddress /\ up = FALSE /\ event = FALSE
  /\ phase = "commands" /\ step = 1 /\ stage = 0 /\ left = ReadyTicks
  /\ asleep = FALSE /\ passed = FALSE
  /\ late = {}

Done(activity) == late' = late \ {activity}

-----------------------------------------------------------------------------
(* The container: kernel, netifd and the hotplug script.                   *)

\* Defective variant: no prefix is ever deprecated.
PreferredAll(n) == 1..n

\* preferredlifetime=180 if index == stage else 0
Preferred(n) == {n}

\* An advertisement of the prefixes up to n, under accept_ra=2.
Learned(n) ==
  [i \in Prefixes |->
    IF i > n THEN address[i]
    ELSE IF i \notin Preferred(n) THEN "deprecated"
    ELSE IF address[i] \in {"none", "tentative"} THEN "tentative"
    ELSE "preferred"]

DetectionEnds ==
  /\ \E i \in Prefixes : address[i] = "tentative"
  /\ address' = [i \in Prefixes |->
                   IF address[i] = "tentative" THEN "preferred" ELSE address[i]]
  /\ Done("detection")
  /\ UNCHANGED <<image, serverVars, client, files, ra, up, event, phase, locals>>

SetUpDevice ==
  /\ up
  /\ ra' = IF resets THEN 0 ELSE ra
  /\ up' = FALSE
  /\ event' = TRUE
  /\ Done("device")
  /\ UNCHANGED <<image, serverVars, client, files, address, phase, locals>>

Hotplug ==
  /\ event
  /\ event' = FALSE
  /\ ra' = IF "hotplug" \in defects THEN ra ELSE 2
  /\ Done("hotplug")
  /\ UNCHANGED <<image, serverVars, client, files, address, up, phase, locals>>

\* The kernel prefers an address that is not deprecated, then a public one;
\* 0 is the static private address.
Sources ==
  LET public == {i \in Prefixes : address[i] = "preferred"}
  IN IF public = {} THEN {0} ELSE public

-----------------------------------------------------------------------------
(* serve                                                                   *)

\* The process id and the first stage.
Launch ==
  /\ server = "launched"
  /\ server' = "configuring"
  /\ pid' = TRUE /\ file' = 1
  /\ Done("server")
  /\ UNCHANGED <<image, advertised, stopping, client, ready, container, phase, locals>>

\* setup_client, addresses, DNS, the handler of SIGTERM, network-ready.
SetUp ==
  /\ server = "configuring"
  /\ server' = "reading"
  /\ client' = TRUE /\ ready' = TRUE
  /\ Done("server")
  /\ UNCHANGED <<image, advertised, stopping, pid, file, container, phase, locals>>

SetUpFails ==
  /\ server = "configuring"
  /\ server' = "crashed"
  /\ client' \in BOOLEAN
  /\ Done("server")
  /\ UNCHANGED <<image, advertised, stopping, files, container, phase, locals>>

\* int() of the text: an empty one is a ValueError that nothing catches.
ReadStage ==
  /\ server = "reading"
  /\ server' = IF stopping THEN "ended" ELSE IF file = 0 THEN "crashed" ELSE "sending"
  /\ advertised' = file
  /\ Done("server")
  /\ UNCHANGED <<image, stopping, client, files, container, phase, locals>>

Send ==
  /\ server = "sending"
  /\ server' = "sleeping"
  /\ address' = IF ra = 2 /\ ~up THEN Learned(advertised) ELSE address
  /\ Done("server")
  /\ UNCHANGED <<image, advertised, stopping, client, files, ra, up, event, phase, locals>>

\* stop.wait(2) returns at once when the event is set.
StopSeen ==
  /\ server = "sleeping" /\ stopping
  /\ server' = "reading"
  /\ UNCHANGED <<image, advertised, stopping, client, files, container, phase, locals, late>>

-----------------------------------------------------------------------------
(* smoke-test.sh and the modes check, management and verify.               *)

Verify == <<"stage", "wait", "accept", "confirm">>

Commands ==
  <<"ready", "start", "healthy", "lookup">> \o Verify
    \o <<"public", "private", "reset", "restart">> \o Verify
    \o <<"truncate", "write">> \o Verify
    \o <<"start", "healthy", "private">> \o Verify \o <<"public">>

At(command) == phase = "commands" /\ Commands[step] = command

Passes ==
  /\ IF step < Len(Commands)
       THEN step' = step + 1 /\ UNCHANGED <<phase, passed>>
       ELSE phase' = "kill" /\ passed' = TRUE /\ UNCHANGED step
  /\ asleep' = FALSE
  /\ Done("poll")

\* An assertion, an exception or set -e: on to the trap.
Fails ==
  /\ phase' = "kill"
  /\ Done("poll")
  /\ UNCHANGED <<step, asleep, passed>>

Sleep == asleep' = TRUE /\ Done("poll") /\ UNCHANGED <<phase, passed>>

Outside == UNCHANGED <<image, serverVars, client, pid, ready>>

\* A command without effect on anything else.
Probe(command, result) ==
  /\ At(command)
  /\ IF result THEN Passes ELSE Fails
  /\ UNCHANGED <<file, container, stage, left>> /\ Outside

AwaitReady ==
  /\ At("ready") /\ ~asleep
  /\ IF ready THEN Passes
     ELSE IF left = 0 THEN Fails
     ELSE Sleep /\ UNCHANGED step
  /\ UNCHANGED <<file, container, stage, left>> /\ Outside

\* nslookup asks dnsmasq, and that the router.
Lookup == Probe("lookup", server \notin {"ended", "crashed"})

PublicManagement == Probe("public", "public" \notin defects)

Management == Probe("private", "private" \notin defects)

\* A new container: landscape-prepare applies the settings, then netifd runs.
StartContainer ==
  /\ At("start")
  /\ ra' = 2 /\ address' = NoAddress /\ up' = TRUE /\ event' = FALSE
  /\ Passes
  /\ UNCHANGED <<file, stage, left>> /\ Outside

\* The health check reads accept_ra and the state of the interface.
WaitHealthy ==
  \/ ra = 2 /\ ~up /\ Probe("healthy", TRUE)
  \/ ra # 2 /\ ~up /\ ~event /\ Probe("healthy", FALSE)

VerifyStage ==
  /\ At("stage")
  /\ stage' = file
  /\ left' = WaitTicks
  /\ Passes
  /\ UNCHANGED <<file, container>> /\ Outside

\* Defective variant: an address is taken before its detection ends.
UsableTooEarly(i) == address[i] \in {"tentative", "preferred"}

\* preferred_life_time > 0, not tentative, not dadfailed
Usable(i) == address[i] = "preferred"

\* Defective variant: the deadline is never met.
NoDeadline == FALSE

Expired == left = 0

PollAddress ==
  /\ At("wait") /\ ~asleep
  /\ IF Expired THEN Fails
     ELSE IF Usable(stage) THEN Passes
     ELSE Sleep /\ UNCHANGED step
  /\ UNCHANGED <<file, container, stage, left>> /\ Outside

PollAcceptRa ==
  /\ At("accept")
  /\ IF ra = 2 THEN Passes ELSE Sleep /\ step' = step - 1
  /\ UNCHANGED <<file, container, stage, left>> /\ Outside

Confirm ==
  \E source \in Sources :
    Probe("confirm", ra = 2 /\ "router" \notin defects /\ source = stage)

\* Defective variant: the values are left as the first ifup set them.
KeepSettings == ra

ClearedSettings == 0

\* sysctl -qw accept_ra=0 autoconf=0
ResetSettings ==
  /\ At("reset")
  /\ ra' = ClearedSettings
  /\ Passes
  /\ UNCHANGED <<file, address, up, event, stage, left>> /\ Outside

\* The interface is down when the command returns, and set up by netifd
\* later; the kernel may or may not keep the addresses.
RestartNetwork ==
  /\ At("restart")
  /\ up' = TRUE
  /\ address' \in {address, NoAddress}
  /\ Passes
  /\ UNCHANGED <<file, ra, event, stage, left>> /\ Outside

\* write_text: open truncates the file, close writes it.
WriteStage ==
  /\ \/ At("truncate") /\ file' = 0
     \/ At("write") /\ file' = 2
  /\ Passes
  /\ UNCHANGED <<container, stage, left>> /\ Outside

RunCommand ==
  \/ AwaitReady \/ StartContainer \/ WaitHealthy
  \/ Lookup \/ PublicManagement \/ Management
  \/ VerifyStage \/ PollAddress \/ PollAcceptRa \/ Confirm
  \/ ResetSettings \/ RestartNetwork \/ WriteStage

-----------------------------------------------------------------------------
(* The trap: stop, then wait for the process.                              *)

\* SIGTERM ends the process until its handler is installed.
Kill ==
  /\ phase = "kill"
  /\ phase' = "cleanup"
  /\ IF pid /\ server = "configuring"
       THEN server' = "ended" /\ client' \in BOOLEAN /\ UNCHANGED stopping
       ELSE stopping' = (pid /\ server \notin {"ended", "crashed"})
            /\ UNCHANGED <<server, client>>
  /\ Done("server")
  /\ UNCHANGED <<image, advertised, files, container, locals>>

\* Defective variant: only what was started completely is removed.
CleanedWhenReady == client /\ ~ready

Cleaned == FALSE

CleanupClient ==
  /\ phase = "cleanup"
  /\ phase' = "wait"
  /\ client' = Cleaned
  /\ UNCHANGED <<image, serverVars, files, container, locals, late>>

WaitServer ==
  /\ phase = "wait" /\ server \in {"ended", "crashed"}
  /\ phase' = "ended"
  /\ UNCHANGED <<image, serverVars, client, files, container, locals, late>>

-----------------------------------------------------------------------------
Pending ==
  (IF server \in {"launched", "configuring", "reading", "sending"} THEN {"server"} ELSE {})
    \union (IF \E i \in Prefixes : address[i] = "tentative" THEN {"detection"} ELSE {})
    \union (IF up THEN {"device"} ELSE {})
    \union (IF event THEN {"hotplug"} ELSE {})
    \union (IF phase = "commands" /\ Commands[step] \in {"ready", "wait", "accept"} /\ ~asleep
              THEN {"poll"} ELSE {})

\* Defective variant: time is counted below zero, as a difference of clocks.
Less(n) == n - 1

\* Time that is left of n ticks.
Elapse(n) == IF n = 0 THEN 0 ELSE n - 1

Tick ==
  /\ late = {}
  /\ late' = Pending
  /\ left' = Elapse(left)
  /\ asleep' = FALSE
  /\ server' = IF server = "sleeping" THEN "reading" ELSE server
  /\ UNCHANGED <<image, advertised, stopping, client, files, container, phase, step,
                 stage, passed>>

ServerStep == Launch \/ SetUp \/ SetUpFails \/ ReadStage \/ Send \/ StopSeen
ContainerStep == DetectionEnds \/ SetUpDevice \/ Hotplug
SmokeStep == RunCommand \/ Kill \/ CleanupClient \/ WaitServer

Next == ServerStep \/ ContainerStep \/ SmokeStep \/ Tick

\* Every process goes on, and time does.
Fairness ==
  WF_vars(ServerStep) /\ WF_vars(ContainerStep) /\ WF_vars(SmokeStep) /\ WF_vars(Tick)

Spec == Init /\ [][Next]_vars

FairSpec == Spec /\ Fairness

-----------------------------------------------------------------------------
\* Every variable has its type.
TypeOK ==
  /\ defects \subseteq Defects /\ resets \in BOOLEAN
  /\ server \in {"launched", "configuring", "reading", "sending", "sleeping",
                 "ended", "crashed"}
  /\ {advertised, file, stage} \subseteq 0..2
  /\ {stopping, client, pid, ready, up, event, asleep, passed} \subseteq BOOLEAN
  /\ ra \in {0, 2}
  /\ address \in [Prefixes -> {"none", "tentative", "preferred", "deprecated"}]
  /\ phase \in {"commands", "kill", "cleanup", "wait", "ended"}
  /\ step \in DOMAIN Commands
  /\ left \in 0..(ReadyTicks + WaitTicks)
  /\ late \subseteq {"server", "detection", "device", "hotplug", "poll"}

\* A test that passes passed a good image (network-fixture.py: "netifd restart
\* reapplies RA settings through hotplug"): no settings left over from the
\* boot, or from before the restart, can stand for what the image lacks.
NoFalsePass == passed => defects = {}

\* A test that passes has seen the renewal (network-fixture.py: "deprecates
\* the old source and selects the new one"): no older address is a source.
RenewalSeen == passed => Sources = {2}

\* A test that fails tells of the image, or its router has crashed: no race of
\* the polls with the router, detection or netifd fails a good image.
FailureExplained ==
  phase # "commands" /\ ~passed => defects # {} \/ server = "crashed"

\* The trap leaves nothing behind, wherever the test or the router stopped.
NothingLeft ==
  phase = "ended" => server \in {"ended", "crashed"} /\ ~client

\* The smoke test ends.
SmokeEnds == <>(phase = "ended")
=============================================================================
