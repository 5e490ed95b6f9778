---------------------------- MODULE FixtureProofs ----------------------------
(***************************************************************************)
(* What the network part of the smoke test proves, for all deadlines that  *)
(* DeadlinesAssumption admits.                                             *)
(***************************************************************************)
EXTENDS Fixture, TLAPS

\* The commands by their numbers.
LEMMA CommandList ==
  /\ Len(Commands) = 30 /\ DOMAIN Commands = 1..30
  /\ Commands[1] = "ready" /\ Commands[2] = "start" /\ Commands[3] = "healthy"
  /\ Commands[4] = "lookup" /\ Commands[5] = "stage" /\ Commands[6] = "wait"
  /\ Commands[7] = "accept" /\ Commands[8] = "confirm" /\ Commands[9] = "public"
  /\ Commands[10] = "private" /\ Commands[11] = "reset" /\ Commands[12] = "restart"
  /\ Commands[13] = "stage" /\ Commands[14] = "wait" /\ Commands[15] = "accept"
  /\ Commands[16] = "confirm" /\ Commands[17] = "truncate" /\ Commands[18] = "write"
  /\ Commands[19] = "stage" /\ Commands[20] = "wait" /\ Commands[21] = "accept"
  /\ Commands[22] = "confirm" /\ Commands[23] = "start" /\ Commands[24] = "healthy"
  /\ Commands[25] = "private" /\ Commands[26] = "stage" /\ Commands[27] = "wait"
  /\ Commands[28] = "accept" /\ Commands[29] = "confirm" /\ Commands[30] = "public"
BY DEF Commands, Verify

Activities == {"server", "detection", "device", "hotplug", "poll"}

LEMMA InitTypes == Init => TypeOK
<1>. SUFFICES ASSUME Init PROVE TypeOK
  OBVIOUS
<1>1. left \in 0..(ReadyTicks + WaitTicks) /\ step \in DOMAIN Commands
  BY TicksAssumption, CommandList DEF Init
<1>2. address \in [Prefixes -> {"none", "tentative", "preferred", "deprecated"}]
  BY DEF Init, NoAddress
<1>3. /\ {advertised, file, stage} \subseteq 0..2 /\ ra \in {0, 2}
      /\ late \subseteq {"server", "detection", "device", "hotplug", "poll"}
  BY DEF Init
<1>4. {stopping, client, pid, ready, up, event, asleep, passed} \subseteq BOOLEAN
  BY DEF Init
<1>. QED
  BY <1>1, <1>2, <1>3, <1>4 DEF Init, TypeOK

LEMMA TypeStep == TypeOK /\ [Next]_vars => TypeOK'
<1>. SUFFICES ASSUME TypeOK, [Next]_vars PROVE TypeOK'
  OBVIOUS
<1>. USE DEF TypeOK, Done
<1>1. CASE ServerStep
  <2>1. \A n \in 0..2 :
          Learned(n) \in [Prefixes -> {"none", "tentative", "preferred", "deprecated"}]
    BY DEF Learned, Preferred
  <2>. USE DEF image, serverVars, files, container, locals
  <2>2. CASE Launch
    BY <2>2 DEF Launch
  <2>5. CASE SetUp
    BY <2>5 DEF SetUp
  <2>6. CASE SetUpFails
    BY <2>6 DEF SetUpFails
  <2>3. CASE ReadStage \/ StopSeen
    BY <2>3 DEF ReadStage, StopSeen
  <2>4. CASE Send
    BY <2>1, <2>4 DEF Send
  <2>. QED
    BY <1>1, <2>2, <2>3, <2>4, <2>5, <2>6 DEF ServerStep
<1>2. CASE ContainerStep
  BY <1>2 DEF ContainerStep, DetectionEnds, SetUpDevice, Hotplug, image, serverVars, files,
    locals
<1>3. CASE RunCommand
  <2>1. Passes => /\ step' \in DOMAIN Commands /\ phase' \in {phase, "kill"}
                  /\ {passed', asleep'} \subseteq BOOLEAN /\ late' \subseteq late
    <3>1. Passes /\ step < Len(Commands) => step' \in DOMAIN Commands
      BY CommandList DEF Passes
    <3>. QED BY <3>1 DEF Passes
  <2>2. Fails => /\ step' = step /\ phase' = "kill" /\ asleep' = asleep /\ passed' = passed
                 /\ late' \subseteq late
    BY DEF Fails
  <2>3. CASE AwaitReady
    BY <1>3, <2>1, <2>2, <2>3 DEF AwaitReady, Sleep, Outside, image, serverVars, container
  <2>4. CASE StartContainer
    BY <2>1, <2>4 DEF StartContainer, Outside, image, serverVars, NoAddress
  <2>10. CASE ResetSettings
    BY <2>1, <2>10 DEF ResetSettings, ClearedSettings, Outside, image, serverVars
  <2>11. CASE RestartNetwork
    BY <2>1, <2>11 DEF RestartNetwork, Outside, image, serverVars, NoAddress
  <2>5. CASE Lookup \/ PublicManagement \/ Management \/ WaitHealthy \/ Confirm
    <3>1. /\ Passes \/ Fails
          /\ UNCHANGED <<file, container, stage, left>> /\ Outside
      BY <2>5 DEF Lookup, PublicManagement, Management, WaitHealthy, Confirm, Probe
    <3>. QED BY <2>1, <2>2, <3>1 DEF Outside, image, serverVars, container
  <2>6. CASE VerifyStage
    <3>1. left' \in 0..(ReadyTicks + WaitTicks)
      BY <2>6, TicksAssumption DEF VerifyStage
    <3>2. {advertised, file, stage}' \subseteq 0..2
      BY <2>6 DEF VerifyStage, Outside, serverVars
    <3>. QED BY <2>1, <2>6, <3>1, <3>2 DEF VerifyStage, Outside, image, serverVars, container
  <2>9. CASE WriteStage
    <3>1. {advertised, file, stage}' \subseteq 0..2
      BY <2>9 DEF WriteStage, Outside, serverVars
    <3>. QED BY <2>1, <2>9, <3>1 DEF WriteStage, Outside, image, serverVars, container
  <2>7. CASE PollAddress
    BY <2>1, <2>2, <2>7 DEF PollAddress, Sleep, Outside, image, serverVars, container
  <2>8. CASE PollAcceptRa
    <3>1. At("accept") => step - 1 \in DOMAIN Commands
      BY CommandList DEF At
    <3>. QED
      BY <2>1, <2>8, <3>1 DEF PollAcceptRa, Sleep, Outside, image, serverVars, container
  <2>. QED
    BY <1>3, <2>3, <2>4, <2>5, <2>6, <2>7, <2>8, <2>9, <2>10, <2>11 DEF RunCommand
<1>4. CASE Kill \/ CleanupClient \/ WaitServer
  BY <1>4 DEF Kill, CleanupClient, Cleaned, WaitServer, image, serverVars, files, container,
    locals
<1>5. CASE Tick
  <2>1. Pending \subseteq Activities
    BY DEF Pending, Activities
  <2>2. Elapse(left) \in 0..(ReadyTicks + WaitTicks)
    BY TicksAssumption DEF Elapse
  <2>. QED
    BY <1>5, <2>1, <2>2 DEF Tick, Activities, image, files, container
<1>6. CASE UNCHANGED vars
  BY <1>6 DEF vars, image, serverVars, files, container, locals
<1>. QED
  BY <1>1, <1>2, <1>3, <1>4, <1>5, <1>6 DEF Next, SmokeStep

\* Every variable of the smoke test keeps its type, for any deadlines; what is
\* left of one never falls below zero (wait_address compares clocks).
THEOREM FixtureTypes == Spec => []TypeOK
BY InitTypes, TypeStep, PTL DEF Spec

-----------------------------------------------------------------------------
(* The router's process and the trap.                                      *)

Waiting == {6, 14, 20, 27}
Accepting == {7, 15, 21, 28}

\* How many ticks may pass before a pending activity is done.
Slack(activity) == IF activity \in late THEN 0 ELSE 1

\* The ticks that set-up may still take.
SetUpDue == Slack("server") + (IF server = "launched" THEN 1 ELSE 0)

\* The script goes on when the router is set up, or stops after it crashed.
RouterStarts ==
  /\ server = "launched" =>
       ~pid /\ ~stopping /\ ~client /\ file = 0 /\ phase = "commands" /\ step = 1
  /\ server # "launched" => pid
  /\ server \in {"launched", "configuring"} => ~ready
  /\ step > 1 => ready
  /\ phase = "commands" /\ ~ready /\ server # "crashed" =>
       server \in {"launched", "configuring"} /\ left > SetUpDue

RouterStops ==
  /\ phase = "commands" => ~stopping /\ server # "ended" /\ ~passed
  /\ phase \in {"cleanup", "wait", "ended"} => server \notin {"launched", "configuring"}
  /\ phase \in {"wait", "ended"} => ~client
  /\ phase = "ended" => server \in {"ended", "crashed"}

-----------------------------------------------------------------------------
(* What a test that passes has seen.                                       *)

\* The first stage is advertised until the second one is written.
StageFollowed ==
  /\ step <= 17 => file = (IF server = "launched" THEN 0 ELSE 1)
  /\ step = 18 => file = 0
  /\ step > 18 => file = 2
  /\ step <= 18 => advertised < 2
  /\ server = "sending" => advertised # 0
  /\ step \in 6..19 => stage = 1
  /\ step > 19 => stage = 2

\* The second prefix comes with the end of the first.
PrefixesFollowed ==
  /\ address[2] # "deprecated"
  /\ advertised < 2 => address[2] = "none" /\ address[1] # "deprecated"
  /\ address[2] # "none" => address[1] = "deprecated"
  /\ step \in 7..12 => address[1] = "preferred"
  /\ step \in {15, 16} => address[1] = "preferred"
  /\ step \in {21, 22, 23, 28, 29, 30} => address[2] = "preferred"
  /\ step > 20 => advertised = 2 /\ address[1] \in {"none", "deprecated"}

\* What each probe has excluded.
DefectsFound ==
  /\ step > 8 => "router" \notin defects
  /\ step > 9 => "public" \notin defects
  /\ step > 10 => "private" \notin defects
  /\ "hotplug" \in defects => step < 16 /\ (step > 11 => ra = 0)
  /\ passed => step = 30 /\ "public" \notin defects

-----------------------------------------------------------------------------
(* A good image in time.                                                   *)

\* Where a reset of netifd is followed by an event, and where none is to come.
SettingsFollowed ==
  /\ step \in (3..11) \union (13..30) /\ "hotplug" \notin defects => up \/ event \/ ra = 2
  /\ step \in {3, 24} => (up => ~event) /\ (resets /\ event => ra = 0)
  /\ step \in (4..11) \union (25..30) => ra = 2 /\ ~up /\ (resets => ~event)
  /\ step = 12 => ~up /\ (resets => ~event /\ ra = 0)
  /\ step \in 13..23 /\ resets => ~(up /\ event) /\ (up \/ event => ra = 0)
  /\ step \in 16..23 => ra = 2
  /\ ra # 2 /\ step \in 13..15 => address[1] \in {"none", "preferred"}

Good == phase = "commands" /\ defects = {} /\ server # "crashed"

Settled == ra = 2 /\ address[stage] = "preferred"

\* The ticks before an advertisement of this stage, as long as ra = 2.
AdvertisementDue ==
  IF server = "sleeping" THEN 3
  ELSE IF server = "reading" THEN Slack("server") + 1
  ELSE Slack("server") + (IF advertised < stage THEN 3 ELSE 0)

\* The ticks before the settings are applied again.
SettingsDue ==
  IF ra = 2 THEN 0 ELSE IF up THEN Slack("device") + 1 ELSE Slack("hotplug")

\* The ticks before an address of this stage, and then its detection.
AddressDue ==
  IF address[stage] = "none"
    THEN IF ra # 2 THEN SettingsDue + 4
         ELSE IF up THEN Slack("device") + 5
         ELSE AdvertisementDue + 1
  ELSE IF address[stage] = "tentative" THEN Slack("detection")
  ELSE SettingsDue

\* The ticks before a poll.
PollDue == IF asleep THEN 2 ELSE Slack("poll")

\* There is more time left than anything that is awaited can take.
InTime ==
  Good =>
    /\ step \in Waiting => left > (IF Settled THEN PollDue ELSE AddressDue + 2)
    /\ step \in Accepting /\ ~Settled => left > AddressDue + 2
    /\ step \in Accepting => ~asleep

\* The invariant that the proofs are about.
FixtureInv ==
  /\ RouterStarts /\ RouterStops
  /\ StageFollowed /\ PrefixesFollowed /\ DefectsFound
  /\ SettingsFollowed /\ InTime
  /\ FailureExplained

-----------------------------------------------------------------------------
(* The steps of the script.                                                *)

LEMMA Numbers ==
  ASSUME TypeOK
  PROVE  /\ step \in 1..30
         /\ Commands[step] \in {"ready", "wait", "accept"} <=>
              step \in {1} \union Waiting \union Accepting
         /\ At("ready") <=> phase = "commands" /\ step = 1
         /\ At("start") <=> phase = "commands" /\ step \in {2, 23}
         /\ At("healthy") <=> phase = "commands" /\ step \in {3, 24}
         /\ At("lookup") <=> phase = "commands" /\ step = 4
         /\ At("stage") <=> phase = "commands" /\ step \in {5, 13, 19, 26}
         /\ At("wait") <=> phase = "commands" /\ step \in Waiting
         /\ At("accept") <=> phase = "commands" /\ step \in Accepting
         /\ At("confirm") <=> phase = "commands" /\ step \in {8, 16, 22, 29}
         /\ At("public") <=> phase = "commands" /\ step \in {9, 30}
         /\ At("private") <=> phase = "commands" /\ step \in {10, 25}
         /\ At("reset") <=> phase = "commands" /\ step = 11
         /\ At("restart") <=> phase = "commands" /\ step = 12
         /\ At("truncate") <=> phase = "commands" /\ step = 17
         /\ At("write") <=> phase = "commands" /\ step = 18
BY CommandList DEF TypeOK, At, Waiting, Accepting

\* A command that fails, with its reason.
Failed ==
  /\ phase' = "kill"
  /\ UNCHANGED <<step, asleep, passed, file, ra, address, up, event, stage, left>>
  /\ \/ step = 1 /\ ~ready /\ left = 0
     \/ step \in {3, 24} /\ ra # 2 /\ ~up /\ ~event
     \/ step = 4 /\ server \in {"ended", "crashed"}
     \/ step \in Waiting /\ left = 0
     \/ step \in {8, 16, 22, 29} /\ ra # 2
     \/ step \in {8, 16, 22, 29} /\ "router" \in defects
     \/ step \in {8, 16, 22, 29} /\ \E source \in Sources : source # stage
     \/ step \in {9, 30} /\ "public" \in defects
     \/ step \in {10, 25} /\ "private" \in defects

\* A poll that goes on.
Slept ==
  /\ asleep' = TRUE
  /\ UNCHANGED <<phase, passed, file, ra, address, up, event, stage, left>>
  /\ \/ step = 1 /\ step' = step /\ ~ready /\ left # 0
     \/ step \in Waiting /\ step' = step /\ left # 0 /\ address[stage] # "preferred"
     \/ step \in Accepting /\ step' = step - 1 /\ ra # 2

\* A command that passes, with what it has seen and what it does.
Passed ==
  /\ asleep' = FALSE
  /\ step < 30 => step' = step + 1 /\ UNCHANGED <<phase, passed>>
  /\ step = 30 => step' = step /\ phase' = "kill" /\ passed' = TRUE
  /\ step = 1 => ready
  /\ step \in {3, 24} => ra = 2 /\ ~up
  /\ step \in Waiting => address[stage] = "preferred"
  /\ step \in Accepting => ra = 2
  /\ step \in {8, 16, 22, 29} => "router" \notin defects /\ stage \in Sources
  /\ step \in {9, 30} => "public" \notin defects
  /\ step \in {10, 25} => "private" \notin defects
  /\ step \in {2, 23} => ra' = 2 /\ address' = NoAddress /\ up' = TRUE /\ event' = FALSE
  /\ step = 11 => ra' = 0
  /\ step = 12 => up' = TRUE /\ address' \in {address, NoAddress}
  /\ step = 17 => file' = 0
  /\ step = 18 => file' = 2
  /\ step \in {5, 13, 19, 26} => stage' = file /\ left' = WaitTicks
  /\ step \notin {2, 11, 23} => UNCHANGED ra
  /\ step \notin {2, 12, 23} => UNCHANGED <<address, up>>
  /\ step \notin {2, 23} => UNCHANGED event
  /\ step \notin {17, 18} => UNCHANGED file
  /\ step \notin {5, 13, 19, 26} => UNCHANGED <<stage, left>>

LEMMA CommandSteps ==
  ASSUME TypeOK, RunCommand
  PROVE  /\ phase = "commands" /\ late' = late \ {"poll"}
         /\ UNCHANGED <<defects, resets, server, advertised, stopping, client, pid, ready>>
         /\ Failed \/ Slept \/ Passed
<1>1. step \in 1..30
  BY Numbers
<1>2. Passes => /\ step < 30 => step' = step + 1 /\ UNCHANGED <<phase, passed>>
                /\ step = 30 => step' = step /\ phase' = "kill" /\ passed' = TRUE
                /\ asleep' = FALSE /\ late' = late \ {"poll"}
  BY <1>1, CommandList DEF Passes, Done
<1>3. Fails => phase' = "kill" /\ UNCHANGED <<step, asleep, passed>> /\ late' = late \ {"poll"}
  BY DEF Fails, Done
<1>4. Sleep => asleep' = TRUE /\ UNCHANGED <<phase, passed>> /\ late' = late \ {"poll"}
  BY DEF Sleep, Done
<1>. USE DEF Outside, image, serverVars, container, Waiting, Accepting
<1>5. CASE AwaitReady
  BY <1>1, <1>2, <1>3, <1>4, <1>5, Numbers DEF AwaitReady, Failed, Slept, Passed
<1>6. CASE StartContainer
  <2>1. /\ phase = "commands" /\ step \in {2, 23}
        /\ step' = step + 1 /\ asleep' = FALSE /\ late' = late \ {"poll"}
        /\ UNCHANGED <<phase, passed>>
    BY <1>1, <1>2, <1>6, Numbers DEF StartContainer
  <2>2. /\ ra' = 2 /\ address' = NoAddress /\ up' = TRUE /\ event' = FALSE
        /\ UNCHANGED <<file, stage, left>>
        /\ UNCHANGED <<defects, resets, server, advertised, stopping, client, pid, ready>>
    BY <1>6 DEF StartContainer
  <2>3. /\ step \notin {1, 3, 24, 11, 12, 17, 18, 5, 13, 19, 26, 30} /\ step < 30
        /\ step \notin Waiting \union Accepting \union {8, 16, 22, 29, 9, 10, 25}
    BY <2>1
  <2>4. Passed
    BY <2>1, <2>2, <2>3 DEF Passed
  <2>. QED BY <2>1, <2>2, <2>4
<1>7. CASE WaitHealthy
  BY <1>1, <1>2, <1>3, <1>7, Numbers DEF WaitHealthy, Probe, Failed, Passed
<1>8. CASE Lookup
  BY <1>1, <1>2, <1>3, <1>8, Numbers DEF Lookup, Probe, Failed, Passed
<1>9. CASE PublicManagement
  BY <1>1, <1>2, <1>3, <1>9, Numbers DEF PublicManagement, Probe, Failed, Passed
<1>10. CASE Management
  BY <1>1, <1>2, <1>3, <1>10, Numbers DEF Management, Probe, Failed, Passed
<1>11. CASE VerifyStage
  BY <1>1, <1>2, <1>11, Numbers DEF VerifyStage, Passed
<1>12. CASE PollAddress
  BY <1>1, <1>2, <1>3, <1>4, <1>12, Numbers DEF PollAddress, Expired, Usable, Failed, Slept, Passed
<1>13. CASE PollAcceptRa
  BY <1>1, <1>2, <1>4, <1>13, Numbers DEF PollAcceptRa, Slept, Passed
<1>14. CASE Confirm
  BY <1>1, <1>2, <1>3, <1>14, Numbers DEF Confirm, Probe, Failed, Passed
<1>15. CASE ResetSettings
  BY <1>1, <1>2, <1>15, Numbers DEF ResetSettings, ClearedSettings, Passed
<1>16. CASE RestartNetwork
  <2>1. /\ phase = "commands" /\ step = 12
        /\ step' = step + 1 /\ asleep' = FALSE /\ late' = late \ {"poll"}
        /\ UNCHANGED <<phase, passed>>
    BY <1>1, <1>2, <1>16, Numbers DEF RestartNetwork
  <2>2. /\ up' = TRUE /\ address' \in {address, NoAddress}
        /\ UNCHANGED <<file, ra, event, stage, left>>
        /\ UNCHANGED <<defects, resets, server, advertised, stopping, client, pid, ready>>
    BY <1>16 DEF RestartNetwork
  <2>. QED BY <2>1, <2>2 DEF Passed
<1>17. CASE WriteStage
  BY <1>1, <1>2, <1>17, Numbers DEF WriteStage, Passed
<1>. QED
  BY <1>5, <1>6, <1>7, <1>8, <1>9, <1>10, <1>11, <1>12, <1>13, <1>14, <1>15, <1>16, <1>17
  DEF RunCommand

-----------------------------------------------------------------------------
(* The invariant holds at first, and each of its parts through every step. *)

LEMMA InitHolds == Init => FixtureInv
<1>. SUFFICES ASSUME Init PROVE FixtureInv
  OBVIOUS
<1>1. step = 1 /\ phase = "commands" /\ server = "launched" /\ advertised = 0 /\ file = 0
  BY DEF Init
<1>2. address[1] = "none" /\ address[2] = "none"
  BY DEF Init, NoAddress, Prefixes
<1>3. RouterStarts /\ RouterStops
  BY DeadlinesAssumption, TicksAssumption DEF Init, RouterStarts, RouterStops, SetUpDue, Slack
<1>4. StageFollowed /\ PrefixesFollowed
  BY <1>1, <1>2 DEF StageFollowed, PrefixesFollowed
<1>5. DefectsFound /\ SettingsFollowed /\ InTime /\ FailureExplained
  BY <1>1 DEF Init, DefectsFound, SettingsFollowed, InTime, FailureExplained, Waiting, Accepting
<1>. QED BY <1>3, <1>4, <1>5 DEF FixtureInv

LEMMA RouterStep ==
  ASSUME TypeOK, RouterStarts, RouterStops, [Next]_vars
  PROVE  RouterStarts' /\ RouterStops'
<1>. USE DEF RouterStarts, RouterStops, SetUpDue, Slack
<1>1. step \in 1..30 /\ left \in Nat
  BY Numbers, TicksAssumption DEF TypeOK
<1>2. CASE ServerStep
  <2>. USE DEF image, files, container, locals, Done
  <2>1. CASE Launch
    BY <1>1, <2>1 DEF Launch
  <2>2. CASE SetUp
    BY <1>1, <2>2 DEF SetUp
  <2>3. CASE SetUpFails
    BY <1>1, <2>3 DEF SetUpFails
  <2>4. CASE ReadStage
    BY <1>1, <2>4 DEF ReadStage
  <2>5. CASE Send
    BY <1>1, <2>5 DEF Send
  <2>6. CASE StopSeen
    BY <1>1, <2>6 DEF StopSeen
  <2>. QED BY <1>2, <2>1, <2>2, <2>3, <2>4, <2>5, <2>6 DEF ServerStep
<1>3. CASE ContainerStep
  BY <1>1, <1>3 DEF ContainerStep, DetectionEnds, SetUpDevice, Hotplug, image, serverVars,
    files, locals, Done
<1>4. CASE RunCommand
  <2>1. CASE Failed
    BY <1>1, <1>4, <2>1, CommandSteps DEF Failed
  <2>2. CASE Slept
    BY <1>1, <1>4, <2>2, CommandSteps DEF Slept, Accepting
  <2>3. CASE Passed
    BY <1>1, <1>4, <2>3, CommandSteps DEF Passed
  <2>. QED BY <1>4, <2>1, <2>2, <2>3, CommandSteps
<1>5. CASE Kill
  BY <1>1, <1>5 DEF Kill, image, files, container, locals, Done
<1>6. CASE CleanupClient \/ WaitServer
  BY <1>1, <1>6 DEF CleanupClient, Cleaned, WaitServer, image, serverVars, files, container,
    locals
<1>7. CASE Tick
  BY <1>1, <1>7 DEF Tick, Elapse, Pending, image, files, container
<1>8. CASE UNCHANGED vars
  BY <1>8 DEF vars, image, serverVars, files, container, locals
<1>. QED
  BY <1>2, <1>3, <1>4, <1>5, <1>6, <1>7, <1>8 DEF Next, SmokeStep

LEMMA StageStep ==
  ASSUME TypeOK, RouterStarts, StageFollowed, [Next]_vars
  PROVE  StageFollowed'
<1>. USE DEF StageFollowed
<1>1. step \in 1..30
  BY Numbers
<1>2. CASE ServerStep
  BY <1>1, <1>2 DEF ServerStep, Launch, SetUp, SetUpFails, ReadStage, Send, StopSeen,
    RouterStarts, image, files, container, locals, TypeOK
<1>3. CASE ContainerStep
  BY <1>1, <1>3 DEF ContainerStep, DetectionEnds, SetUpDevice, Hotplug, image, serverVars,
    files, locals
<1>4. CASE RunCommand
  <2>1. CASE Failed
    BY <1>1, <1>4, <2>1, CommandSteps DEF Failed
  <2>2. CASE Slept
    BY <1>1, <1>4, <2>2, CommandSteps DEF Slept, Accepting
  <2>3. CASE Passed
    BY <1>1, <1>4, <2>3, CommandSteps DEF Passed, RouterStarts
  <2>. QED BY <1>4, <2>1, <2>2, <2>3, CommandSteps
<1>5. CASE Kill \/ CleanupClient \/ WaitServer
  BY <1>1, <1>5 DEF Kill, CleanupClient, WaitServer, RouterStarts, image, serverVars, files,
    container, locals
<1>6. CASE Tick
  BY <1>1, <1>6 DEF Tick, image, files, container
<1>7. CASE UNCHANGED vars
  BY <1>7 DEF vars, image, serverVars, files, container, locals
<1>. QED
  BY <1>2, <1>3, <1>4, <1>5, <1>6, <1>7 DEF Next, SmokeStep

\* What an advertisement does to either address.
LEMMA LearnedAddresses ==
  ASSUME TypeOK
  PROVE  /\ Learned(1)[1] \in {"tentative", "preferred"} /\ Learned(1)[2] = address[2]
         /\ address[1] = "preferred" => Learned(1)[1] = "preferred"
         /\ Learned(1)[1] = "preferred" => address[1] \in {"preferred", "deprecated"}
         /\ Learned(2)[1] = "deprecated" /\ Learned(2)[2] \in {"tentative", "preferred"}
         /\ address[2] = "preferred" => Learned(2)[2] = "preferred"
         /\ Learned(2)[2] = "preferred" => address[2] \in {"preferred", "deprecated"}
BY DEF TypeOK, Learned, Preferred, Prefixes

LEMMA DetectedAddresses ==
  ASSUME TypeOK, DetectionEnds, NEW i \in Prefixes
  PROVE  address'[i] = IF address[i] = "tentative" THEN "preferred" ELSE address[i]
BY DEF DetectionEnds

LEMMA NoAddresses == NoAddress[1] = "none" /\ NoAddress[2] = "none"
BY DEF NoAddress, Prefixes

LEMMA PrefixesStep ==
  ASSUME TypeOK, RouterStarts, StageFollowed, PrefixesFollowed, [Next]_vars
  PROVE  PrefixesFollowed'
<1>. USE DEF PrefixesFollowed
<1>1. step \in 1..30 /\ advertised \in 0..2
  BY Numbers DEF TypeOK
<1>2. CASE ServerStep
  <2>. USE DEF image, files, container, locals
  <2>1. CASE Launch \/ SetUp \/ SetUpFails \/ StopSeen
    BY <1>1, <2>1 DEF Launch, SetUp, SetUpFails, StopSeen
  <2>2. CASE ReadStage
    BY <1>1, <2>2 DEF ReadStage, StageFollowed
  <2>3. CASE Send
    <3>1. advertised \in {1, 2}
      BY <1>1, <2>3 DEF Send, StageFollowed
    <3>. QED BY <1>1, <2>3, <3>1, LearnedAddresses DEF Send, StageFollowed
  <2>. QED BY <1>2, <2>1, <2>2, <2>3 DEF ServerStep
<1>3. CASE DetectionEnds
  <2>1. /\ address'[1] = IF address[1] = "tentative" THEN "preferred" ELSE address[1]
        /\ address'[2] = IF address[2] = "tentative" THEN "preferred" ELSE address[2]
    BY <1>3, DetectedAddresses DEF Prefixes
  <2>. QED BY <1>1, <1>3, <2>1 DEF DetectionEnds, serverVars, locals
<1>4. CASE SetUpDevice \/ Hotplug
  BY <1>4 DEF SetUpDevice, Hotplug, serverVars, locals
<1>5. CASE RunCommand
  <2>1. CASE Failed
    BY <1>1, <1>5, <2>1, CommandSteps DEF Failed
  <2>2. CASE Slept
    BY <1>1, <1>5, <2>2, CommandSteps DEF Slept, Accepting
  <2>3. CASE Passed
    <3>1. step \in Waiting => stage \in {1, 2} /\ (stage = 1 <=> step \in {6, 14})
      BY <1>1 DEF StageFollowed, Waiting
    <3>2. CASE step \in {2, 12, 23}
      BY <1>1, <1>5, <2>3, <3>2, CommandSteps, NoAddresses DEF Passed
    <3>3. CASE step \notin {2, 12, 23}
      BY <1>1, <1>5, <2>3, <3>1, <3>3, CommandSteps DEF Passed, Waiting
    <3>. QED BY <3>2, <3>3
  <2>. QED BY <1>5, <2>1, <2>2, <2>3, CommandSteps
<1>6. CASE Kill \/ CleanupClient \/ WaitServer
  BY <1>6 DEF Kill, CleanupClient, WaitServer, serverVars, container, locals
<1>7. CASE Tick
  BY <1>7 DEF Tick, container
<1>8. CASE UNCHANGED vars
  BY <1>8 DEF vars, serverVars, container, locals
<1>. QED
  BY <1>2, <1>3, <1>4, <1>5, <1>6, <1>7, <1>8 DEF Next, SmokeStep, ContainerStep

LEMMA DefectsStep ==
  ASSUME TypeOK, RouterStops, DefectsFound, [Next]_vars
  PROVE  DefectsFound'
<1>. USE DEF DefectsFound
<1>1. step \in 1..30
  BY Numbers
<1>2. CASE ServerStep \/ DetectionEnds
  BY <1>2 DEF ServerStep, Launch, SetUp, SetUpFails, ReadStage, Send, StopSeen, DetectionEnds,
    image, container, locals
<1>3. CASE SetUpDevice \/ Hotplug
  BY <1>3 DEF SetUpDevice, Hotplug, image, locals
<1>4. CASE RunCommand
  <2>1. CASE Failed
    BY <1>1, <1>4, <2>1, CommandSteps DEF Failed
  <2>2. CASE Slept
    BY <1>1, <1>4, <2>2, CommandSteps DEF Slept, Accepting
  <2>3. CASE Passed
    BY <1>1, <1>4, <2>3, CommandSteps DEF Passed, Accepting, RouterStops
  <2>. QED BY <1>4, <2>1, <2>2, <2>3, CommandSteps
<1>5. CASE Kill \/ CleanupClient \/ WaitServer
  BY <1>5 DEF Kill, CleanupClient, WaitServer, image, container, locals
<1>6. CASE Tick
  BY <1>6 DEF Tick, image, container
<1>7. CASE UNCHANGED vars
  BY <1>7 DEF vars, image, container, locals
<1>. QED
  BY <1>2, <1>3, <1>4, <1>5, <1>6, <1>7 DEF Next, SmokeStep, ContainerStep

LEMMA SettingsFollowedStep ==
  ASSUME TypeOK, PrefixesFollowed, SettingsFollowed, StageFollowed, [Next]_vars
  PROVE  SettingsFollowed'
<1>. USE DEF SettingsFollowed
<1>1. step \in 1..30 /\ advertised \in 0..2
  BY Numbers DEF TypeOK
<1>2. CASE ServerStep
  <2>1. CASE Send
    BY <1>1, <2>1, LearnedAddresses DEF Send, image, locals, StageFollowed
  <2>2. CASE ~Send
    BY <1>2, <2>2 DEF ServerStep, Launch, SetUp, SetUpFails, ReadStage, StopSeen, image,
      container, locals
  <2>. QED BY <2>1, <2>2
<1>3. CASE DetectionEnds
  <2>1. address[1] \in {"none", "preferred"} => address'[1] = address[1]
    BY <1>3, DetectedAddresses DEF Prefixes
  <2>. QED BY <1>1, <1>3, <2>1 DEF DetectionEnds, image, locals
<1>4. CASE SetUpDevice
  <2>1. /\ up /\ ~up' /\ event' /\ ra' = (IF resets THEN 0 ELSE ra)
        /\ UNCHANGED <<step, resets, defects, address>>
    BY <1>4 DEF SetUpDevice, image, locals
  <2>2. step \notin (4..12) \union (25..30) /\ (resets => step \notin 16..23)
    BY <1>1, <2>1
  <2>3. ra' # 2 /\ step \in 13..15 => ra # 2
    BY <2>1
  <2>. QED BY <1>1, <2>1, <2>2, <2>3
<1>5. CASE Hotplug
  BY <1>1, <1>5 DEF Hotplug, image, locals
<1>6. CASE RunCommand
  <2>1. CASE Failed
    BY <1>1, <1>6, <2>1, CommandSteps DEF Failed
  <2>2. CASE Slept
    BY <1>1, <1>6, <2>2, CommandSteps DEF Slept, Accepting
  <2>3. CASE Passed
    BY <1>1, <1>6, <2>3, CommandSteps, NoAddresses DEF Passed, Accepting, PrefixesFollowed
  <2>. QED BY <1>6, <2>1, <2>2, <2>3, CommandSteps
<1>7. CASE Kill \/ CleanupClient \/ WaitServer
  BY <1>7 DEF Kill, CleanupClient, WaitServer, image, container, locals
<1>8. CASE Tick
  BY <1>8 DEF Tick, image, container
<1>9. CASE UNCHANGED vars
  BY <1>9 DEF vars, image, container, locals
<1>. QED
  BY <1>2, <1>3, <1>4, <1>5, <1>6, <1>7, <1>8, <1>9 DEF Next, SmokeStep, ContainerStep

\* Where something is awaited: the stage is the one that is advertised, and
\* the settings can be missing after the restart of the network only.
LEMMA Awaited ==
  ASSUME TypeOK, StageFollowed, PrefixesFollowed, SettingsFollowed, RouterStarts, RouterStops,
         Good, step \in Waiting \union Accepting
  PROVE  /\ stage \in {1, 2} /\ file = stage
         /\ server \in {"reading", "sending", "sleeping"} /\ ~stopping
         /\ address[stage] \in {"none", "tentative", "preferred"}
         /\ ra # 2 => stage = 1 /\ address[stage] # "tentative" /\ (up \/ event)
         /\ ra = 2 /\ up => ~resets
         /\ server = "sending" => advertised \in {1, 2}
<1>1. step \in 1..30 /\ stage \in 0..2 /\ advertised \in 0..2
  BY Numbers DEF TypeOK
<1>2. stage \in {1, 2} /\ file = stage /\ (stage = 1 <=> step < 20)
  BY <1>1 DEF StageFollowed, RouterStarts, Waiting, Accepting
<1>3. server \in {"reading", "sending", "sleeping"} /\ ~stopping
  BY <1>1 DEF Good, RouterStarts, RouterStops, TypeOK, Waiting, Accepting
<1>4. address[stage] \in {"none", "tentative", "preferred"}
  <2>1. address[1] \in {"none", "tentative", "preferred", "deprecated"}
        /\ address[2] \in {"none", "tentative", "preferred", "deprecated"}
    BY DEF TypeOK, Prefixes
  <2>2. stage = 1 => advertised < 2
    BY <1>2, <1>1 DEF StageFollowed, Waiting, Accepting
  <2>. QED BY <1>2, <2>1, <2>2 DEF PrefixesFollowed
<1>5. ra # 2 => step \in 13..15 /\ (up \/ event)
  BY <1>1 DEF Good, SettingsFollowed, Waiting, Accepting
<1>6. ra # 2 => stage = 1 /\ address[stage] # "tentative" /\ (up \/ event)
  BY <1>2, <1>5 DEF SettingsFollowed
<1>7. ra = 2 /\ up => ~resets
  BY <1>1 DEF SettingsFollowed, Waiting, Accepting
<1>. QED
  BY <1>1, <1>2, <1>3, <1>4, <1>6, <1>7 DEF StageFollowed

LEMMA Bounds ==
  /\ \A a : Slack(a) \in 0..1
  /\ AdvertisementDue \in 0..4 /\ SettingsDue \in 0..2
  /\ AddressDue \in 0..6 /\ PollDue \in 0..2
<1>1. \A a : Slack(a) \in 0..1
  BY DEF Slack
<1>2. AdvertisementDue \in 0..4 /\ SettingsDue \in 0..2 /\ PollDue \in 0..2
  BY <1>1 DEF AdvertisementDue, SettingsDue, PollDue
<1>. QED BY <1>1, <1>2 DEF AddressDue

\* What is due after a step, from the values that it leaves.
LEMMA DueNext ==
  /\ \A a : Slack(a)' = IF a \in late' THEN 0 ELSE 1
  /\ PollDue' = IF asleep' THEN 2 ELSE Slack("poll")'
  /\ SettingsDue' =
       IF ra' = 2 THEN 0 ELSE IF up' THEN Slack("device")' + 1 ELSE Slack("hotplug")'
  /\ AdvertisementDue' =
       IF server' = "sleeping" THEN 3
       ELSE IF server' = "reading" THEN Slack("server")' + 1
       ELSE Slack("server")' + (IF advertised' < stage' THEN 3 ELSE 0)
  /\ address'[stage'] = "none" /\ ra' # 2 => AddressDue' = SettingsDue' + 4
  /\ address'[stage'] = "none" /\ ra' = 2 /\ up' => AddressDue' = Slack("device")' + 5
  /\ address'[stage'] = "none" /\ ra' = 2 /\ ~up' => AddressDue' = AdvertisementDue' + 1
  /\ address'[stage'] = "tentative" => AddressDue' = Slack("detection")'
  /\ address'[stage'] \notin {"none", "tentative"} => AddressDue' = SettingsDue'
BY DEF AddressDue, AdvertisementDue, SettingsDue, PollDue, Slack

LEMMA BoundsNext ==
  /\ \A a : Slack(a)' \in 0..1
  /\ AdvertisementDue' \in 0..4 /\ SettingsDue' \in 0..2
  /\ AddressDue' \in 0..6 /\ PollDue' \in 0..2
BY DueNext

LEMMA InTimeNext ==
  ASSUME step' \in Waiting /\ Settled' => left' > PollDue',
         step' \in Waiting \union Accepting /\ ~Settled' => left' > AddressDue' + 2,
         step' \in Accepting => ~asleep'
  PROVE  InTime'
BY DEF InTime, Good, Settled, AddressDue, PollDue, SettingsDue, AdvertisementDue, Slack,
  Waiting, Accepting

\* A step between two ticks keeps InTime if nothing is due later than before.
LEMMA InTimeKept ==
  ASSUME TypeOK, InTime, Good, left' = left, asleep' = asleep,
         step' = step, step \in Waiting \union Accepting,
         PollDue' <= PollDue,
         Settled => Settled',
         ~Settled' => AddressDue' <= AddressDue
  PROVE  InTime'
<1>1. left \in Nat
  BY TicksAssumption DEF TypeOK
<1>2. step \in Waiting /\ Settled' => left' > PollDue'
  BY <1>1, Bounds, BoundsNext DEF InTime, Waiting
<1>3. ASSUME ~Settled' PROVE left' > AddressDue' + 2
  <2>1. left > AddressDue + 2
    BY <1>3 DEF InTime
  <2>2. AddressDue' <= AddressDue
    BY <1>3
  <2>3. AddressDue' \in Nat /\ AddressDue \in Nat /\ left \in Nat
    BY <1>1, Bounds, BoundsNext
  <2>4. \A x, y, z \in Nat : x > y + 2 /\ z <= y => x > z + 2
    OBVIOUS
  <2>5. left > AddressDue' + 2
    BY <2>1, <2>2, <2>3, <2>4
  <2>6. left' = left
    OBVIOUS
  <2>. QED BY <2>5, <2>6
<1>4. step \in Accepting => ~asleep'
  BY DEF InTime
<1>. QED BY <1>2, <1>3, <1>4, InTimeNext

\* What the router still needs grows with no step of its own.
LEMMA InTimeServer ==
  ASSUME TypeOK, StageFollowed, PrefixesFollowed, SettingsFollowed, RouterStarts, RouterStops,
         InTime, ServerStep
  PROVE  InTime'
<1>1. /\ step' = step /\ stage' = stage /\ left' = left /\ asleep' = asleep
      /\ phase' = phase /\ defects' = defects /\ ra' = ra /\ up' = up
      /\ server' # "crashed" => server # "crashed"
      /\ late' \in {late, late \ {"server"}}
  BY DEF ServerStep, Launch, SetUp, SetUpFails, ReadStage, Send, StopSeen, Done, image,
    container, locals
<1>. SUFFICES ASSUME Good', step \in Waiting \union Accepting PROVE InTime'
  BY <1>1 DEF InTime
<1>2. Good
  BY <1>1 DEF Good
<1>4. \A a : a # "server" => (a \in late' <=> a \in late)
  BY <1>1
<1>5. Slack("device")' = Slack("device") /\ Slack("hotplug")' = Slack("hotplug")
      /\ Slack("detection")' = Slack("detection") /\ Slack("poll")' = Slack("poll")
  BY <1>4 DEF Slack
<1>6. SettingsDue' = SettingsDue /\ PollDue' = PollDue
  BY <1>1, <1>5 DEF SettingsDue, PollDue
<1>7. CASE ReadStage
  <2>1. AdvertisementDue' <= AdvertisementDue /\ address' = address
    BY <1>1, <1>2, <1>7, Awaited, Bounds DEF ReadStage, Done, AdvertisementDue, Slack, container
  <2>2. Settled' = Settled
    BY <1>1, <2>1 DEF Settled
  <2>3. AddressDue' <= AddressDue
    BY <1>1, <1>5, <1>6, <2>1, Bounds, BoundsNext, DueNext DEF AddressDue
  <2>. QED BY <1>1, <1>2, <1>6, <2>2, <2>3, Bounds, InTimeKept
<1>8. CASE Send
  <2>1. /\ server = "sending" /\ server' = "sleeping" /\ advertised' = advertised
        /\ address' = IF ra = 2 /\ ~up THEN Learned(advertised) ELSE address
        /\ advertised \in {1, 2} /\ stage \in {1, 2}
    BY <1>2, <1>8, Awaited DEF Send
  <2>2. CASE ra # 2 \/ up
    <3>1. address' = address /\ Settled' = Settled
      BY <1>1, <2>1, <2>2 DEF Settled
    <3>2. AddressDue' <= AddressDue
      BY <1>1, <1>5, <1>6, <2>2, <3>1, Bounds, BoundsNext, DueNext DEF AddressDue
    <3>. QED BY <1>1, <1>2, <1>6, <3>1, <3>2, Bounds, InTimeKept
  <2>3. CASE ra = 2 /\ ~up
    <3>1. address' = Learned(advertised)
      BY <2>1, <2>3
    <3>2. CASE advertised = stage
      <4>1. /\ address[stage] = "preferred" => address'[stage] = "preferred"
            /\ address'[stage] \in {"tentative", "preferred"}
            /\ address[stage] \in {"none", "tentative", "preferred"}
            /\ address'[stage] = "preferred" => address[stage] = "preferred"
        BY <1>2, <2>1, <3>1, <3>2, LearnedAddresses, Awaited
      <4>2. Settled => Settled'
        BY <1>1, <4>1 DEF Settled
      <4>3. ~Settled' => AddressDue' <= AddressDue
        BY <1>1, <1>5, <2>3, <4>1, Bounds, BoundsNext, DueNext DEF AddressDue, Settled
      <4>. QED BY <1>1, <1>2, <1>6, <4>2, <4>3, Bounds, InTimeKept
    <3>3. CASE advertised < stage
      <4>1. address'[stage] = address[stage]
        BY <2>1, <3>1, <3>3, LearnedAddresses
      <4>2. AdvertisementDue' <= AdvertisementDue
        BY <2>1, <3>3, Bounds DEF AdvertisementDue
      <4>3. Settled' = Settled
        BY <1>1, <4>1 DEF Settled
      <4>4. AddressDue' <= AddressDue
        BY <1>1, <1>5, <1>6, <4>1, <4>2, Bounds, BoundsNext, DueNext DEF AddressDue
      <4>. QED BY <1>1, <1>2, <1>6, <4>3, <4>4, Bounds, InTimeKept
    <3>4. ~(advertised > stage)
      BY <1>2, <2>1, Awaited DEF StageFollowed, Waiting, Accepting
    <3>. QED BY <2>1, <3>2, <3>3, <3>4
  <2>. QED BY <2>2, <2>3
<1>9. CASE Launch \/ SetUp \/ SetUpFails \/ StopSeen
  BY <1>2, <1>9, Awaited DEF Launch, SetUp, SetUpFails, StopSeen
<1>. QED BY <1>7, <1>8, <1>9 DEF ServerStep

\* Nor does what the container still needs.
LEMMA InTimeContainer ==
  ASSUME TypeOK, StageFollowed, PrefixesFollowed, SettingsFollowed, RouterStarts, RouterStops,
         InTime, ContainerStep
  PROVE  InTime'
<1>1. /\ step' = step /\ stage' = stage /\ left' = left /\ asleep' = asleep
      /\ phase' = phase /\ defects' = defects /\ server' = server /\ advertised' = advertised
  BY DEF ContainerStep, DetectionEnds, SetUpDevice, Hotplug, image, serverVars, locals
<1>. SUFFICES ASSUME Good', step \in Waiting \union Accepting PROVE InTime'
  BY <1>1 DEF InTime
<1>2. Good /\ stage \in Prefixes /\ defects = {}
  BY <1>1, Awaited DEF Good, Prefixes
<1>3. late' \subseteq late /\ "server" \notin late \ late' /\ "poll" \notin late \ late'
  BY DEF ContainerStep, DetectionEnds, SetUpDevice, Hotplug, Done
<1>4. Slack("server")' = Slack("server") /\ Slack("poll")' = Slack("poll")
  BY <1>3 DEF Slack
<1>5. PollDue' = PollDue /\ AdvertisementDue' = AdvertisementDue
  BY <1>1, <1>4 DEF PollDue, AdvertisementDue
<1>6. CASE DetectionEnds
  <2>1. /\ address'[stage] = IF address[stage] = "tentative" THEN "preferred" ELSE address[stage]
        /\ ra' = ra /\ up' = up
        /\ Slack("device")' = Slack("device") /\ Slack("hotplug")' = Slack("hotplug")
    BY <1>2, <1>6, DetectedAddresses DEF DetectionEnds, Done, Slack
  <2>2. Settled => Settled'
    BY <1>1, <2>1 DEF Settled
  <2>3. ~Settled' => address[stage] # "tentative"
    BY <1>1, <1>2, <2>1, Awaited DEF Settled
  <2>4. ~Settled' => AddressDue' <= AddressDue
    BY <1>1, <1>5, <2>1, <2>3, Bounds, BoundsNext, DueNext DEF AddressDue, SettingsDue
  <2>. QED BY <1>1, <1>2, <1>5, <2>2, <2>4, Bounds, InTimeKept
<1>7. CASE SetUpDevice
  <2>1. /\ up /\ ~up' /\ address' = address /\ (ra = 2 => ra' = 2) /\ (ra # 2 => ra' # 2)
        /\ Slack("detection")' = Slack("detection")
    BY <1>2, <1>7, Awaited DEF SetUpDevice, Done, Slack
  <2>2. Settled' = Settled
    BY <1>1, <2>1 DEF Settled
  <2>3. SettingsDue' <= SettingsDue
    BY <2>1, Bounds, BoundsNext, DueNext DEF SettingsDue
  <2>4. AddressDue' <= AddressDue
    BY <1>1, <1>5, <2>1, <2>3, Bounds, BoundsNext, DueNext DEF AddressDue
  <2>. QED BY <1>1, <1>2, <1>5, <2>2, <2>4, Bounds, InTimeKept
<1>8. CASE Hotplug
  <2>1. /\ address' = address /\ ra' = 2 /\ up' = up
        /\ Slack("device")' = Slack("device") /\ Slack("detection")' = Slack("detection")
    BY <1>2, <1>8 DEF Hotplug, Done, Slack
  <2>2. Settled => Settled'
    BY <1>1, <2>1 DEF Settled
  <2>3. ra # 2 => AdvertisementDue <= 3
    BY <1>2, Awaited, Bounds DEF AdvertisementDue
  <2>4. /\ address[stage] \in {"none", "tentative", "preferred"}
        /\ ra # 2 => address[stage] # "tentative"
    BY <1>2, Awaited
  <2>5. ~Settled' => AddressDue' <= AddressDue
    BY <1>1, <1>5, <2>1, <2>3, <2>4, Bounds, BoundsNext, DueNext DEF AddressDue, SettingsDue,
      Settled
  <2>. QED BY <1>1, <1>2, <1>5, <2>2, <2>5, Bounds, InTimeKept
<1>. QED BY <1>6, <1>7, <1>8 DEF ContainerStep

\* A deadline is met or starts anew with each command.
LEMMA InTimeCommand ==
  ASSUME TypeOK, StageFollowed, PrefixesFollowed, SettingsFollowed, RouterStarts, RouterStops,
         InTime, RunCommand
  PROVE  InTime'
<1>1. /\ phase = "commands" /\ late' = late \ {"poll"}
      /\ UNCHANGED <<defects, resets, server, advertised, stopping, client, pid, ready>>
      /\ Failed \/ Slept \/ Passed
  BY CommandSteps
<1>. SUFFICES ASSUME Good', step' \in Waiting \union Accepting PROVE InTime'
  BY DEF InTime
<1>2. step \in 1..30 /\ left \in Nat
  BY Numbers, TicksAssumption DEF TypeOK
<1>3. Good
  BY <1>1 DEF Good
<1>4. \A a : a # "poll" => Slack(a)' = Slack(a)
  BY <1>1 DEF Slack
<1>5. CASE Failed
  BY <1>5 DEF Failed, Good
<1>6. UNCHANGED <<ra, address, up, event, stage>> =>
        SettingsDue' = SettingsDue /\ Settled' = Settled /\ AddressDue' = AddressDue
  <2>. SUFFICES ASSUME UNCHANGED <<ra, address, up, event, stage>>
                PROVE  SettingsDue' = SettingsDue /\ Settled' = Settled /\ AddressDue' = AddressDue
    OBVIOUS
  <2>1. SettingsDue' = SettingsDue /\ AdvertisementDue' = AdvertisementDue
    BY <1>1, <1>4 DEF SettingsDue, AdvertisementDue
  <2>2. AddressDue' = AddressDue
    BY <1>4, <2>1, DueNext DEF AddressDue
  <2>. QED BY <2>1, <2>2 DEF Settled
<1>7. CASE Slept
  <2>1. /\ UNCHANGED <<left, stage>> /\ Settled' = Settled /\ AddressDue' = AddressDue
        /\ asleep' /\ ~Settled /\ step' \in Waiting /\ step \in Waiting \union Accepting
    BY <1>2, <1>6, <1>7 DEF Slept, Settled, Waiting, Accepting
  <2>2. left > AddressDue + 2
    BY <1>3, <2>1 DEF InTime
  <2>3. step' \notin Accepting
    BY <2>1 DEF Waiting, Accepting
  <2>. QED BY <2>1, <2>2, <2>3, InTimeNext
<1>8. CASE Passed
  <2>1. step < 30 /\ step' = step + 1
    BY <1>2, <1>8 DEF Passed, Waiting, Accepting
  <2>2. CASE step' \in Waiting
    <3>1. left' = WaitTicks /\ left' >= 9 /\ left' \in Nat
      BY <1>2, <1>8, <2>1, <2>2, DeadlinesAssumption, TicksAssumption DEF Passed, Waiting
    <3>2. left' > PollDue' /\ left' > AddressDue' + 2
      <4>1. \A l, a, p \in Nat : l >= 9 /\ a <= 6 /\ p <= 2 => l > p /\ l > a + 2
        OBVIOUS
      <4>2. AddressDue' \in Nat /\ AddressDue' <= 6 /\ PollDue' \in Nat /\ PollDue' <= 2
        BY BoundsNext
      <4>. QED BY <3>1, <4>1, <4>2
    <3>3. step' \notin Accepting
      BY <2>2 DEF Waiting, Accepting
    <3>. QED BY <3>2, <3>3, InTimeNext
  <2>3. CASE step' \in Accepting
    <3>1. step \in Waiting /\ step' \notin Waiting
      BY <1>2, <2>1, <2>3 DEF Waiting, Accepting
    <3>2. ~asleep' /\ left' = left /\ Settled' = Settled /\ AddressDue' = AddressDue
      BY <1>2, <1>6, <1>8, <3>1 DEF Passed, Waiting
    <3>3. ~Settled => left > AddressDue + 2
      BY <1>3, <3>1 DEF InTime
    <3>. QED BY <3>1, <3>2, <3>3, InTimeNext
  <2>. QED BY <2>2, <2>3
<1>. QED BY <1>1, <1>5, <1>7, <1>8

\* A tick takes one from what is left, and one from what is due.
LEMMA InTimeTick ==
  ASSUME TypeOK, StageFollowed, PrefixesFollowed, SettingsFollowed, RouterStarts, RouterStops,
         InTime, Tick
  PROVE  InTime'
<1>1. /\ late = {} /\ late' = Pending /\ left' = Elapse(left) /\ ~asleep'
      /\ server' = IF server = "sleeping" THEN "reading" ELSE server
      /\ UNCHANGED <<defects, resets, advertised, stopping, ra, address, up, event, phase,
                     step, stage>>
  BY DEF Tick, image, container
<1>. SUFFICES ASSUME Good', step \in Waiting \union Accepting PROVE InTime'
  BY <1>1 DEF InTime
<1>2. step \in 1..30 /\ left \in Nat
  BY Numbers, TicksAssumption DEF TypeOK
<1>3. Good /\ phase = "commands"
  BY <1>1 DEF Good
<1>4. /\ stage \in {1, 2} /\ server \in {"reading", "sending", "sleeping"}
      /\ address[stage] \in {"none", "tentative", "preferred"}
      /\ ra # 2 => up \/ event
  BY <1>3, Awaited
<1>5. \A a : Slack(a) = 1
  BY <1>1 DEF Slack
<1>6. /\ server # "sleeping" => Slack("server")' = 0
      /\ address[stage] = "tentative" => Slack("detection")' = 0
      /\ up => Slack("device")' = 0
      /\ event => Slack("hotplug")' = 0
      /\ step \in Waiting /\ ~asleep => Slack("poll")' = 0
  <2>1. step \in Waiting => Commands[step] \in {"ready", "wait", "accept"}
    BY Numbers
  <2>2. /\ server # "sleeping" => "server" \in Pending
        /\ address[stage] = "tentative" => "detection" \in Pending
        /\ up => "device" \in Pending
        /\ event => "hotplug" \in Pending
        /\ step \in Waiting /\ ~asleep => "poll" \in Pending
    BY <1>3, <1>4, <2>1 DEF Pending, Prefixes
  <2>. QED BY <1>1, <2>2 DEF Slack
<1>7. Settled' = Settled
  BY <1>1 DEF Settled
<1>8. PollDue' < PollDue \/ step \in Accepting
  BY <1>1, <1>5, <1>6, DueNext, BoundsNext DEF PollDue
<1>9. AdvertisementDue' < AdvertisementDue
  BY <1>1, <1>4, <1>5, <1>6, DueNext, BoundsNext DEF AdvertisementDue
<1>10. ra # 2 => SettingsDue' < SettingsDue
  BY <1>1, <1>4, <1>5, <1>6, DueNext, BoundsNext DEF SettingsDue
<1>11. ~Settled => AddressDue' < AddressDue
  BY <1>1, <1>4, <1>5, <1>6, <1>9, <1>10, DueNext, Bounds, BoundsNext DEF AddressDue, Settled
<1>12. left > 0 => left' = left - 1
  BY <1>1, <1>2 DEF Elapse
<1>13. step \in Waiting /\ Settled => left' > PollDue'
  <2>1. step \in Waiting /\ Settled => left > PollDue /\ step \notin Accepting
    BY <1>3 DEF InTime, Waiting, Accepting
  <2>. QED BY <1>2, <1>8, <1>12, <2>1, Bounds, BoundsNext
<1>14. ~Settled => left' > AddressDue' + 2
  <2>1. ~Settled => left > AddressDue + 2
    BY <1>3 DEF InTime
  <2>. QED BY <1>2, <1>11, <1>12, <2>1, Bounds, BoundsNext
<1>. QED BY <1>1, <1>7, <1>13, <1>14, InTimeNext

LEMMA InTimeStep ==
  ASSUME TypeOK, StageFollowed, PrefixesFollowed, SettingsFollowed, RouterStarts, RouterStops,
         InTime, [Next]_vars
  PROVE  InTime'
<1>1. CASE ServerStep
  BY <1>1, InTimeServer
<1>2. CASE ContainerStep
  BY <1>2, InTimeContainer
<1>3. CASE RunCommand
  BY <1>3, InTimeCommand
<1>4. CASE Kill \/ CleanupClient \/ WaitServer
  BY <1>4 DEF Kill, CleanupClient, WaitServer, InTime, Good
<1>5. CASE Tick
  BY <1>5, InTimeTick
<1>6. CASE UNCHANGED vars
  <2>1. /\ step' = step /\ stage' = stage /\ left' = left /\ asleep' = asleep /\ ra' = ra
        /\ address' = address /\ up' = up /\ server' = server /\ advertised' = advertised
        /\ late' = late /\ phase' = phase /\ defects' = defects
    BY <1>6 DEF vars, image, serverVars, container, locals
  <2>. QED
    BY <2>1 DEF InTime, Good, Settled, AddressDue, PollDue, SettingsDue, AdvertisementDue,
      Slack
<1>. QED
  BY <1>1, <1>2, <1>3, <1>4, <1>5, <1>6 DEF Next, SmokeStep

\* What Confirm looks at while either stage is advertised.
LEMMA SourcesFollowed ==
  ASSUME TypeOK, StageFollowed, PrefixesFollowed, step \in {8, 16, 22, 29}
  PROVE  Sources = {stage}
<1>1. CASE step \in {8, 16}
  <2>1. stage = 1 /\ address[1] = "preferred" /\ address[2] = "none"
    BY <1>1 DEF StageFollowed, PrefixesFollowed
  <2>. QED BY <2>1 DEF Sources, Prefixes
<1>2. CASE step \in {22, 29}
  <2>1. stage = 2 /\ address[2] = "preferred" /\ address[1] # "preferred"
    BY <1>2 DEF StageFollowed, PrefixesFollowed
  <2>. QED BY <2>1 DEF Sources, Prefixes
<1>. QED BY <1>1, <1>2

\* A command fails for a defect of the image, or after the router has crashed.
LEMMA CommandExplained ==
  ASSUME TypeOK, FixtureInv, RunCommand, Failed
  PROVE  defects # {} \/ server = "crashed"
<1>. SUFFICES ASSUME defects = {}, server # "crashed" PROVE FALSE
  OBVIOUS
<1>. USE DEF FixtureInv
<1>1. Good /\ ~stopping /\ server # "ended"
  BY CommandSteps DEF Good, RouterStops
<1>2. step \in 1..30 /\ left \in Nat
  BY Numbers, TicksAssumption DEF TypeOK
<1>3. ~(step = 1 /\ ~ready /\ left = 0)
  <2>1. SetUpDue \in Nat
    BY Bounds DEF SetUpDue
  <2>. QED BY <1>1, <1>2, <2>1 DEF RouterStarts, Good
<1>4. ~(step \in {3, 24} /\ ra # 2 /\ ~up /\ ~event)
  BY DEF SettingsFollowed
<1>5. ~(step \in Waiting /\ left = 0)
  BY <1>1, <1>2, Bounds DEF InTime
<1>6. step \in {8, 16, 22, 29} => ra = 2 /\ \A source \in Sources : source = stage
  BY SourcesFollowed DEF SettingsFollowed
<1>. QED
  BY <1>1, <1>3, <1>4, <1>5, <1>6 DEF Failed

LEMMA FailureStep ==
  ASSUME TypeOK, FixtureInv, [Next]_vars
  PROVE  FailureExplained'
<1>. USE DEF FixtureInv, FailureExplained
<1>1. CASE ServerStep
  BY <1>1 DEF ServerStep, Launch, SetUp, SetUpFails, ReadStage, Send, StopSeen, image, locals
<1>2. CASE ContainerStep
  BY <1>2 DEF ContainerStep, DetectionEnds, SetUpDevice, Hotplug, image, serverVars, locals
<1>3. CASE RunCommand
  <2>1. CASE Failed
    BY <1>3, <2>1, CommandSteps, CommandExplained
  <2>2. CASE Slept \/ Passed
    BY <1>3, <2>2, CommandSteps, Numbers DEF Slept, Passed
  <2>. QED BY <1>3, <2>1, <2>2, CommandSteps
<1>4. CASE Kill \/ CleanupClient \/ WaitServer
  BY <1>4 DEF Kill, CleanupClient, WaitServer, image, serverVars, locals
<1>5. CASE Tick
  BY <1>5 DEF Tick, image
<1>6. CASE UNCHANGED vars
  BY <1>6 DEF vars, image, serverVars, locals
<1>. QED
  BY <1>1, <1>2, <1>3, <1>4, <1>5, <1>6 DEF Next, SmokeStep

LEMMA FixtureStep == TypeOK /\ FixtureInv /\ [Next]_vars => FixtureInv'
BY RouterStep, StageStep, PrefixesStep, DefectsStep, SettingsFollowedStep, InTimeStep,
  FailureStep DEF FixtureInv

\* The invariant holds in every state.
THEOREM FixtureInvariant == Spec => [](TypeOK /\ FixtureInv)
BY InitTypes, TypeStep, InitHolds, FixtureStep, PTL DEF Spec

-----------------------------------------------------------------------------
(* What the runs check, for all deadlines.                                 *)

\* A test that passes passed a good image: each of the four defects has been
\* excluded by a probe of its own (network-fixture.py, check and verify).
THEOREM NoFalsePassProved == Spec => []NoFalsePass
<1>1. TypeOK /\ FixtureInv => NoFalsePass
  BY DefectsAssumption DEF TypeOK, FixtureInv, DefectsFound, NoFalsePass
<1>. QED BY <1>1, FixtureInvariant, PTL

\* A test that passes has seen the renewal: the second address is the only
\* public source, for the first one is deprecated or gone.
THEOREM RenewalSeenProved == Spec => []RenewalSeen
<1>1. TypeOK /\ FixtureInv => RenewalSeen
  <2>. SUFFICES ASSUME TypeOK, FixtureInv, passed PROVE Sources = {2}
    BY DEF RenewalSeen
  <2>1. address[2] = "preferred" /\ address[1] # "preferred"
    BY DEF FixtureInv, DefectsFound, PrefixesFollowed
  <2>. QED BY <2>1 DEF Sources, Prefixes
<1>. QED BY <1>1, FixtureInvariant, PTL

\* A test that fails tells of the image, or its router has crashed, with any
\* deadlines of three ticks and of nine: smoke-test.sh gives 20 s to the router
\* and wait_address 45 s to an address.
THEOREM FailureExplainedProved == Spec => []FailureExplained
<1>1. FixtureInv => FailureExplained
  BY DEF FixtureInv
<1>. QED BY <1>1, FixtureInvariant, PTL

\* The trap leaves nothing behind, wherever the test or the router stopped.
THEOREM NothingLeftProved == Spec => []NothingLeft
<1>1. FixtureInv => NothingLeft
  BY DEF FixtureInv, RouterStops, NothingLeft
<1>. QED BY <1>1, FixtureInvariant, PTL
=============================================================================
