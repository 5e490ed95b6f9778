# TLA+ models and proofs of landscape-openwrt

The repository builds a container image: an ImmortalWrt system with PassWall that joins a
Landscape router as an exit node. Three parts of it keep state over time and are modelled here:

- **the container**: `start.sh` turns the environment of the container into OpenWrt
  configuration on a volume, then init boots services that guard the ports, prepare the network
  and offer the exit node to Landscape;
- **the workflow**: every day `upstreams.py` compares the newest stable upstreams with the
  published image, and a chain of jobs builds, tests, pushes and tags a new one; both the chain
  and, request by request, the script;
- **the smoke test's network**: a router made of packets, a container and a script of probes that
  run side by side and decide whether a candidate may be published.

Paths below are relative to the root of the repository.

## Inventory

| Part | State it keeps | Operations | Hard behaviour |
|---|---|---|---|
| `start.sh`, `landscape-management`, `-network-dns`, `-password`, `-console` | `/etc/config` (volume); password file and `/tmp/.uci` (layer of the container); console masks (mounts) | check the environment, mask, set the password, write and commit four files, exec init | ends at any command (crash, `set -e`), is restarted on what it left, is re-created with another environment on the same volume; an operator's `uci commit` between its commands |
| `landscape-prepare` (S18) with `-timezone`, `-dns`, `-ipv6`, `-proxy-check` | `/etc/config`, `/tmp/.uci` of the boot, the marker `/tmp/landscape-prepared`, an nft rule | rules for the ports of the day, DHCP off, first-time resolver settings, marker | may fail at any command and the boot goes on; runs before the firewall; two files committed one after the other |
| `landscape-redirect` (S99) | the procd instance | refuse without marker, build the command line, respawn | the handler exits at any time; the service is started again by hand |
| `landscape-ipv6` and hotplug script | sysctls of `eth0` | apply after `ifup`, `ifupdate` | netifd resets the values at moments of its own |
| `landscape-healthcheck` with `-proxy-check` | none | probes everything above, the interface `lan` with its default routes, and what the host's kernel can do | depends on the host: without the kernel modules the container is never healthy |
| uci, procd, fw4, netifd, listeners, Docker | (external) | as the scripts use them | staged against committed, tmpfs over layer, volume against layer |
| Workflow `build.yml` | the waiting run, the running one, the tags of the registry | check, build per architecture, manifest, all as jobs with artifacts between them | replaced triggers, one architecture failing, time-outs, a tag loop cut short, tags overwritten by every run |
| `upstreams.py`: `request` | attempts of one GET | try, wait, raise | failures that pass and failures that stay; a `Retry-After` of the server |
| `upstreams.py`: `resolve`, `Registry`, `main` | `build/upstream.json`, the files of `build/` | read tags page by page, releases, checksums, feeds, the published image; compare; download and verify | tags, releases, feeds, CDN edges and the image change between two of these reads; an error taken for "no image" |
| `network-fixture.py` with the trap of `smoke-test.sh` | `prefix-stage`, `network-ready`, `network.pid`, a network namespace; `accept_ra` and addresses of the container | `serve` advertises, `check`, `management` and `verify` probe, `stop` | router, netifd, hotplug script, duplicate address detection and polls with a deadline race one another; stale settings that look like success; a file that is empty for a moment; a router that dies half set up |
| `Dockerfile`, `install-packages.sh`, `keepalive.sh`, the other tests | none of their own | | |

The parts meet in few places. `start.sh` and the services share nothing but `/etc/config` and the
order "init after start"; the services meet through committed files, the marker and the loaded
ruleset; runs of the workflow meet in the registry only, and the job check hands the others an
artifact. The fixture, the container and the script of probes meet in one file, in
advertisements and in `docker exec`.

What makes each part correct:

- **Startup**: nothing is written before every check has passed; whatever earlier starts left, the
  services find the current environment and nothing else.
- **Preparation**: no listener on a port that the loaded rules do not guard, no offer before
  preparation in the same boot, user-owned settings are initialised once and kept.
- **Offer**: Landscape sees the parameters of the current environment; an interrupted offer
  returns; a life that was not prepared refuses to its end.
- **Health**: once faults stop, the container passes its health check for good; where it cannot, because
  the host's kernel lacks what PassWall needs, LuCI still answers.
- **Publication**: a tag reaches two images of one run, the tested one among them, of the
  version it names; `latest` follows what is monitored, and only `force`, or a first build of a run
  that was denied the image, moves it otherwise.
- **Check**: it ends; what passes does not end it early; what it hands over was shown by the
  sources, is of their newest stable versions and is verified file by file; nothing is built
  because something could not be read, but where a run permits a first build and GHCR denies the image.
- **Fixture**: a pass proves the image, a failure is the image's fault or the router's, and nothing
  stays for the next test.

`PROJECT.json` lists every component with its status, and the hazards of the code, each at its
line with the property that covers it.

## Modules

```
Uci <- Startup <- Services <- Container <- ContainerProperties <- MCContainer
                                                |  INSTANCE ExitNode
        ContainerProofs <- ContainerGuardProofs <- ContainerEnvironmentProofs
Publish <- MCPublish
Publish <- Rerun <- MCRerun
             |
           PublishProofs

Request, Versions <- Check <- MCCheck
                       |  INSTANCE CheckPromise (Versions <- CheckPromise)
          CheckTypeProofs <- CheckProofs <- CheckRetryProofs
Fixture <- MCFixture
   |
 FixtureProofs
```
(`A <- B`: B extends A. The modules of proofs extend what is above them.)

- **Uci** (external): the store. A committed option is a list (empty: absent); what is staged for
  an option is "was it reset" and "which items follow". `uci commit` merges and flushes one file.
- **Startup**: PID 1 until `exec /sbin/init`, one action per group of commands between two points
  where something can come in. `pc` is the command it is at, `conf` the volume, `layer` the
  staging area in the layer, `todo` what the `for` loops have still to add.
- **Services**: the boot after `exec`. `tmpfs` is the staging area of the boot, `marker` the file
  of that name, `chain`/`guarded`/`marks` what fw4 has loaded, `handler`/`args` the procd
  instance, `lan` the interface as netifd sees it (set up in its own time once its section is committed),
  `ra`/`events` the router advertisement values and the queued interface events.
- **Container**: composes both with the life cycle: `Die`, `Restart` (same layer, same
  environment), `Recreate` (new layer, any environment), `OperatorCommits`, `UserEdits`, failing
  preparation, exiting handler, an interface that is torn down (`TearDownLan`) or changed (`UpdateLan`)
  by netifd. `kernel` is the verdict of `landscape-proxy-check`, which belongs to the host and may change
  at any moment; `Kernels` says which verdicts there are. `Healthy` is `landscape-healthcheck`.
- **ContainerProperties**: what is checked, and the refinement mapping to ExitNode.
- **ExitNode**: the abstract specification: what a container promises to Landscape.
- **Publish**: the workflow. `inputs` is the world (upstreams, feed, head of `main`), `pending`
  the waiting trigger, `phase`/`trigger`/`resolved`/`build`/`job`/`queue` the current run,
  `pushed` the per-arch tags, `manifests` the multi-arch ones, `denied` whether the image was refused
  to the run. The job check is one step of it:
  Check is that step in detail.
- **Rerun**: Publish with GitHub's "re-run failed jobs": a failed run is remembered as it was and
  taken up again while its artifact is kept.
- **Request**: the attempts of one GET. `attempt` counts the failed ones; `Retries` is the
  condition under which another one follows, `RaisedStatus` what the caller gets otherwise.
  `Backoff` tabulates the delays below the limit of 60 s; the limit begins with the sixth attempt.
- **Versions**: the order of versions (`Newer`, part by part, as Python compares tuples) and the
  choice of the newest stable release and of its one asset per file. `Rank`, one number per
  version, is a second and independent definition of the order, for the properties.
- **Check**: `upstreams.py` as a list of requests per phase (`resolve`, `compare`, `download`).
  Each GET is a step that succeeds, fails and is tried again, or ends the check; `SourcesChange`
  moves tags, releases, contents and the published image between any two of them. `base`, `chosen` and
  `sha` are `upstream.json`, `kept` the files, `label` what was read of the image; `shown` is the history
  of what the sources have shown since the check began.
- **CheckPromise**: the abstract specification of Check: at some moment one result made
  of what was shown, or none. It knows nothing of requests, pages or retries.
- **Fixture**: three processes and a clock: `server` (serve), the container (`ra`,
  `address`, `up`, `event`) and the script (`phase`, `step` in the list `Commands`). A tick is
  the 2 s that both the router and a poll sleep.
- **MC…**: constants for TLC. Operators named "Defective variant" in a comment take no part in
  any specification: each states a plausible mistake in one definition, and a run that uses it in
  place of that definition must refute a property (`mutants` in `PROJECT.json`).

### What the models leave out of the code they model

- Texts are values. A port is a number, 0 when it is not written as a plain decimal; a flag is one
  of the spellings the code tells apart (`TrueFlags` names three of the case-insensitive ones).
- Interface sections, addresses and gateways of `network` are not represented; the two lists are. That
  `lan` is up stands for its addresses and both default routes, which the health check looks for.
- The verdict of `landscape-proxy-check` is one Boolean: its probes are not told apart.
- `guarded` speaks of the IPv4 rules. The rule for management over IPv6 is not modelled.
- `SystemDefaults`, `PrepareSystem`, `StopDhcp` and the two halves of `landscape-dns` merge `uci
  set` and the commit that follows; where the gap between the two matters (`SetContainer`,
  `SetPorts`, `StageFirewall`, the loops) they are two actions.
- ImmortalWrt's version stands for its tag and the commit of the tag. Of the per-arch tags only
  `immortalwrt-<version>-<arch>` is represented: it is the one that the manifest job reads.
- Every failing, cancelled or timed-out step of a run of Publish is `JobFails` or `RunFails`.
- In Check a version is the tuple of its numbers, a content stands for its digest, and a
  document of a list (tags, releases, `sha256sums`) for what is taken from it. A document that
  cannot be parsed, or is not what its digest says, ends the check as any refusal does. The
  parameters of a request, its jitter and the length of a wait are left out; whether there is a wait
  is not, because `time.sleep` raises on a negative one. The code reads one page of 100 releases
  of a repository (`upstreams.py:21-23`); in the model a document of releases lists all of them.
- In Fixture a prefix is the number of the stage that advertises it, and the console, login
  and DNS parts of the smoke test, which run before and between, are not represented. That the trap
  stops a router in the middle of its set-up takes a deadline that passes before the router is ready;
  `DeadlinesAssumption` rules that out.

## Runs

| Run | Checks | Result |
|---|---|---|
| `container_safety` | types, five invariants, two action properties | hold |
| `container_liveness` | `EventuallyHealthy`, `RouterAdvertisementsReapplied`, `ImplementsExitNode` | hold |
| `container_duplicates` | `ListsExact` | violated |
| `container_mark_rule` | `MarkRuleInstalled` | violated |
| `publish_safety` | types, `Homogeneous`, `ReleasedTested`, `TagsTellVersion` | hold |
| `publish_liveness` | `LatestCatchesUp`, `UnchangedInputsSkipped` | hold |
| `publish_latest_last` | `LatestUpdatedLast` | violated |
| `publish_untested` | `OnlyTestedPushed` | violated |
| `publish_feed` | `FeedFollowed` | violated |
| `publish_rerun` | `TagsTellVersion` | violated |
| `check` | types, `BlipsSurvived`, `NewestTagFound`, `NoNeedlessBuild`, `KeepsPromise`, `CheckEnds` | hold |
| `fixture` | types, `NoFalsePass`, `RenewalSeen`, `FailureExplained`, `NothingLeft`, `SmokeEnds` | hold |

What the passing runs show. However often starts are cut short, restarted and re-created with
other environments, and whatever an operator commits in between: the services of a boot find what
the environment of that container asks for (`EnvironmentReachesServices`, and exactly, item by
item, in a container that was not restarted: `NewContainerListsExact`); a start that gets
to init leaves nothing staged (`StartLeavesNothingStaged`); a rejected environment leaves the
volume as it was (`RejectedEnvironmentWritesNothing`); a prepared life guards exactly the ports
that listen (`PreparedPortsGuarded`) and only such a life has a handler (`OfferedOnlyGuarded`);
what belongs to LuCI and PassWall survives (`UserSettingsKept`, which begins when the flag of
`landscape-dns` is recorded: between the two commits of that script a failure can still make a later
boot repeat the first-time settings).

Every multi-arch tag reaches two images of one set of inputs (`Homogeneous`), the amd64 one tested
(`ReleasedTested`), of the version the tag names (`TagsTellVersion`), whatever failed runs left in
the registry. `latest` follows the monitored inputs once they and the faults stop
(`LatestCatchesUp`). It is replaced for two other reasons only (`UnchangedInputsSkipped`): `force`, and a
run that permits a first build, as every push to `main` does (`build.yml:59`), and is answered 401 or
403 when it looks at the image (`upstreams.py:401-403`). For such a push what README says of unchanged inputs
does not hold: a published image that the run may not read is built again. The container
implements the exit node of ExitNode, the return of an interrupted offer included
(`ImplementsExitNode`), and ends healthy when its faults end (`EventuallyHealthy`), unless its
environment is rejected, its last life was not prepared, or the host's kernel fails the proxy check: then it is
not healthy and LuCI is there, as README:159 of the repository says.

The job check ends, also when an upstream fails for ever (`CheckEnds`), and as long as nothing
changes and nothing is refused it takes as many failures to end it without a result as one request
has attempts (`BlipsSurvived`): five in the code, three in the run, any number in the proof. A tag that is pushed while the pages are read moves others towards the reader,
never past it (`NewestTagFound`; a tag that is withdrawn can move one past it, and the next day
corrects it). "Build" is decided when forced, when the label differs, or on an answer that says
there is no image, and in a run that permits a first build also on 401 or 403, of a published image
too; no other failure to read the image leads to a build (`NoNeedlessBuild`). The result names a stable tag,
releases that were the newest at some moment of the check, and files as their URLs served them with
the digests that the result states; "no build" needs an image with the digest of exactly this
result (`KeepsPromise`).

The fixture passes only a good image, whatever the kernel keeps across the restart of the network
(`NoFalsePass`), and only after the new prefix became the one source address (`RenewalSeen`).
A failing test has a bad image or a crashed router behind it: as long as nobody takes more than
two ticks for a step, no race of the polls fails a good image (`FailureExplained`). A crashed router is
one of set-up, or of `write_text`, which empties the file that the router reads every two
seconds. Wherever test or router stop, the namespace is removed and the process gone
(`NothingLeft`), and the test ends (`SmokeEnds`).

The six violated statements are of the repository's documentation; `findings` in `PROJECT.json`
quotes each one with the behaviour that refutes it:

- a start that dies inside the DNS loop makes the next start of the same container commit an
  address twice (`ListsExact`);
- the mark rule of the ICMP passthrough is added to a table that does not exist yet, and the
  error is discarded (`MarkRuleInstalled`);
- `latest` is the first tag to move, not the last (`LatestUpdatedLast`);
- arm64 is pushed to its per-arch tags without waiting for the test (`OnlyTestedPushed`);
- a new dependency index alone never leads to a new image (`FeedFollowed`);
- a run whose failed jobs are run again after a newer run takes its inputs from its own artifact
  and its images from tags that the newer run overwrote: `passwall-<version>` names what it does not
  hold (`TagsTellVersion`, which holds as long as nothing is run again; `Homogeneous` can break the
  same way, when one architecture of two is built again).

Two more differences between text and code were seen and are not modelled: `landscape-prepare`
writes the IPv6 management rule disabled (`enabled=0`) while README describes it as protection in
force, and the list of tags in README is not the list of the workflow's tag loop.

### Bounds, and why they are enough

- `Env` has two accepted environments that differ in every setting, one that is rejected by the
  last check before the console is masked, and one that is rejected by its password, the last
  check of all: a value of the wrong environment is told apart at once, and a third accepted
  environment adds no new way to mix two. `container_liveness` uses one accepted and one rejected
  environment: liveness does not depend on which values are written.
- `Kernels` is `{TRUE, FALSE}` in `container_liveness`, where the verdict may change as often as the bound
  on faults admits, and `{TRUE}` in the other runs of the container: no step of a script depends on it.
- `MaxFaults = 2`: a fault during the recovery from a fault. In Publish an answer of 401 or 403 about
  a published image counts as one. `MaxRestarts` bounds the restarts of
  one container (1 or 2); re-creations are not bounded. With 1, an item can be left in the layer
  by one start and met by the next.
- `MaxChanges = 2`: something moves during a run and moves again (or back) during the next;
  `Version` has two members. Which upstream moves is chosen by `Moving`: the one whose version is
  in the per-arch tags and one whose version is not (`MCVersions`), or one that is monitored and
  one that is not (`MCMonitored`); the others are treated alike by the code. Triggers and runs
  are not bounded. `publish_rerun` needs one change and one fault, with PassWall moving.
- `check`: `Attempts = 3` stands for `HTTP_ATTEMPTS`, which is 5 (`upstreams.py:38`): a first, a middle and
  a last attempt; the proofs are for any number. `MaxChanges = 1`, at any moment and of any source:
  each collision the code can have is between something read and one change before or after it.
  Two changes exceed what TLC explores in minutes; that the promise and the tags stand any number
  is proved below. `PageSize = 2` and `MaxPages = 3`: a full page, another one, and one that is
  empty or, after a push, not. The failures of requests are not bounded, the history of them is
  (`blips` stops counting at `Attempts`). MCCheck says which tags, releases and contents there
  are: among them 25.12.9 beside 25.12.10, a release half uploaded, one with its asset replaced,
  edges of a CDN that disagree, an index without amd64 and a single manifest. `Rank` takes parts of a
  version below 100.
- `fixture`: `ReadyTicks = 10` and `WaitTicks = 22` are the 20 s and 45 s of the scripts. What is due
  is done before the second tick from then, so each process takes between nothing and four
  seconds for a step: less than any deadline, more than enough for every order. The image has
  any subset of four defects. The proofs need no more than 3 and 9 ticks, 6 s and 18 s; with 2, or
  with 8, TLC finds a good image that fails.

Deadlock is checked in every run but `check`, where the job ends: there is always an environment
to re-create the container with, a daily run, and time in Fixture.

### Fairness

- `Starting`, `Booting`: a running script and the boot sequence go on. They need no more than a
  scheduler; a command that hangs is not represented.
- `Respawning`: procd's `respawn 3600 5 0` has no limit on the number of retries.
- `SettingUp`: netifd sets up an interface whose section is committed.
- `Reapplying`: netifd and procd deliver queued hotplug events.
- `Restart`: the restart policy of `docker-compose.yaml`, with `unless-stopped` as
  `.env.example` sets it. Crashes, `Recreate`, operators, users and what happens to the host's kernel
  (`KernelGained`, `KernelLost`) have no fairness.
- `WF_vars(Schedule)`: the cron line of `build.yml`. `WF_vars(RunStep)`: GitHub runs what is queued
  and every job ends, by a time-out if need be. Pushes and manual runs have no fairness.
- `WF_vars(RequestFails \/ RequestSucceeds)` in Check: each GET ends one way or the other,
  `HTTP_TIMEOUT` sees to it. Which way is not said, and changes have no fairness.
- `ServerStep`, `ContainerStep`, `SmokeStep`, `Tick` in Fixture: each process goes on, and time does. A
  command of docker or ip that hangs is not represented.

## Proofs

TLAPS checks them for every value of the constants: any set of environments, any texts, any
number of faults and restarts, any versions; any upstreams, any number of changes, pages and
attempts; any deadlines of the fixture. Every invariant and every action property that a passing run
checks is the statement of a theorem.

Assumptions: `EnvAssumption` (environments are records of texts, lists and numbers),
`TextAssumption` (the words that scripts write themselves are texts), `KernelsAssumption`, the two `BoundsAssumption`
and `MovingAssumption`; `VersionsAssumption` (the versions of one upstream have one length and parts
below 100), `SourcesAssumption`, `PagesAssumption`, `ChangesAssumption`, `AttemptsAssumption` and
`FaultsAssumption` (what passes has a status that is tried again, what is refused has not, and neither
is the model's word for "nothing"); of Fixture `TicksAssumption`, `DefectsAssumption` and
`DeadlinesAssumption` (the two deadlines are at least 3 and 9 ticks; the scripts wait 10 and 22). TLC
evaluates all of them. `BlipsAreSurvived` alone has a hypothesis besides: `CompleteSources` says that a
check of these sources can end well at all (there is a stable tag, each newest release has its assets, what
the URLs serve has the digests stated). Sources for which that is false give a check good reason to
fail without any blip. MCCheck has TLC confirm that the sources of the run `check` are complete
(`CompleteAssumption`).

| Theorem | Property | Along |
|---|---|---|
| `TypeCorrect` | `TypeOK` of the container | one step per action |
| `RejectionWritesNothing` | `RejectedEnvironmentWritesNothing` | `CheckedFirst` |
| `NothingLeftStaged` | `StartLeavesNothingStaged` | `StagedForLater` |
| `GuardedPorts` | `PreparedPortsGuarded` | `PortsWritten`, `BootInv` |
| `OfferedGuarded` | `OfferedOnlyGuarded` | the same |
| `EnvironmentReaches` | `EnvironmentReachesServices` | `EnvironmentWritten`, `PortsWritten` |
| `SettingsKept` | `UserSettingsKept` | `DefaultsUnstaged`, `StagedForLater` |
| `ContainerIsExitNode` | initial state and steps of `ImplementsExitNode` | `OfferAsked` |
| `NewListsExact` | `NewContainerListsExact` | `ListsInOrder` |
| `PublishTypes` | `TypeOK` of the workflow | one step per action |
| `TagsHomogeneous`, `TagsTested`, `TagsTruthful` | `Homogeneous`, `ReleasedTested`, `TagsTellVersion` | `OwnImages` |
| `UnchangedSkipped` | `UnchangedInputsSkipped` | `ReasonStands`, `OwnImages` |
| `CheckTypes` | `TypeOK` of the check | one step per action |
| `CheckKeepsPromise` | `KeepsPromise` | `PromiseInv` |
| `NothingRebuiltNeedlessly` | `NoNeedlessBuild` | `ReasonInv` |
| `NewestTagIsFound` | `NewestTagFound` | `PagesInv`, `FoundInv` |
| `BlipsAreSurvived` | `BlipsSurvived` | `StillInv`, `BlipInv` |
| `RerunsStayTested` | `ReleasedTested` under `RerunSpec`, `BaseTagsTellVersion` | `RegistryInv` |
| `FixtureTypes` | `TypeOK` of the fixture | one step per action |
| `NoFalsePassProved` | `NoFalsePass` | `DefectsFound` |
| `RenewalSeenProved` | `RenewalSeen` | `PrefixesFollowed` |
| `FailureExplainedProved` | `FailureExplained` | `SettingsFollowed`, `InTime` |
| `NothingLeftProved` | `NothingLeft` | `RouterStops` |

None of these properties is inductive by itself:

- **CheckedFirst**. A rejected environment writes nothing: at each step of `start.sh` past the
  checks the environment is known to be valid, and before them the layer has nothing staged if the
  environment is rejected (an earlier life of the same container was rejected too), so not even
  an operator's commit can write something.
- **StagedForLater**. At each step of `start.sh`, whatever is staged belongs to an option that
  a later step commits: no option is left over at the end. Staged leftovers of an earlier
  start are covered too, since the start passes the same commits.
- **PortsWritten** follows the ports on their way from the environment through the staging area to
  the committed files: it bounds, at each step, what the option would read as once committed, so
  it stands whether or not an operator commits at that moment. **BootInv** takes over at `exec`:
  the rules, then the ruleset, then the listeners are those of the stored ports.
- **OwnImages**. Per-arch tags are overwritten by every run and keep what failed runs pushed, so
  nothing holds of them at large. The invariant speaks of the two that the current run names:
  once a job has pushed, its tag is the image of this run until the manifest job has read it.
- **ReasonStands**. Why the check job builds, be it a difference, `force` or a denial, is still true when the
  first tag is created: no other run can have moved `latest`.
- **RegistryInv** is for runs whose failed jobs run again, when a newer run may have come between and
  OwnImages is false. It keeps what holds of the per-arch tags whoever pushed them last: amd64 is
  tested, and the image has the version of ImmortalWrt that its tag names. So what `publish_rerun` breaks
  for `passwall-<version>` is not broken for `immortalwrt-<version>`, nor is the promise that only what
  was tested is released.
- **EnvironmentWritten**. The parameters and address lists of the environment, on the same way as the
  ports: at each step what is staged already is of this environment (`StagedAddresses`), what is
  missing is still in `todo` (`AddressesComing`), and what later steps read is stored
  (`ParametersStored`). Leftovers of a start that died are of the same environment, since a
  re-creation has a new layer: sets are right, which is all that `EnvironmentReachesServices` says.
- **ListsInOrder** says it of sequences, for containers that were not restarted: what the loops have still
  to add completes, item by item, what is there.
- **OfferAsked**: a handler has the arguments that the environment asks for. With it each step
  of the container is one of the exit node or a stutter (`ContainerIsExitNode`).
- **PromiseInv** has four parts, one per part of the promise: what the sources show now is in
  `shown` (`ShownInv`); what was chosen was shown, and was the newest then (`VersionsInv`); a decision
  not to build goes back to an image that was read (`SkipInv`); what is kept has the digest stated and
  was served (`FilesInv`). The promise speaks of ranks and the code of tuples: a lemma shows that the two
  orders agree.
- **ReasonInv** keeps, through the attempts of a request, why the check goes on to build.
- **PagesInv** says where the tags of the beginning are while they are read: each one is among those
  read or at a place that no page so far has covered, and a push only moves places up. **FoundInv** takes
  it to the tag that was chosen.

- **BlipInv** counts: in a check that is undisturbed the failed attempts of the current request are
  at most the blips so far, so fewer blips than attempts leave one more try. That no answer ends it
  either needs that everything read so far equals what the sources showed at first (`ReadInv`, with
  `StillInv`), from the tags of each page to the digests of each file.
- The invariant of Fixture (`FixtureInv`) has eight parts. `RouterStarts` and `RouterStops` relate the router
  and the trap. `StageFollowed` and `PrefixesFollowed` follow the stage from the file through the router's
  loop and its advertisements to the addresses; `DefectsFound` says at each command which defects the
  commands before it have excluded. `SettingsFollowed` knows, for a hotplug script that works, where
  a reset by netifd still has its event to come. `InTime` makes time a quantity: for everything that
  a poll awaits, it bounds the ticks that may still pass before it is there (`SetUpDue`,
  `AdvertisementDue`, `SettingsDue`, `AddressDue`, and `PollDue` for the poll itself) and compares them
  with the ticks left. A step of a process lowers what is due or is not awaited; a tick takes one from
  both. The least deadlines that `DeadlinesAssumption` admits come out of the first of these comparisons.

Only model-checked is liveness, for which TLAPS has no `ENABLED`: `EventuallyHealthy`,
`RouterAdvertisementsReapplied`, `LatestCatchesUp`, `CheckEnds`, `SmokeEnds` and the fairness part of
`ImplementsExitNode`. For those the bounds above are the argument.

## Not modelled

- Of `upstreams.py`: the notice about skipped releases, the output file of the job, and the texts of errors.
- `landscape-console` device by device: one step masks everything. What a failure in the middle
  leaves is in the mount namespace, which ends with the life.
- The probes of `landscape-proxy-check` one by one. `landscape-prepare` only logs that it failed; the
  health check fails with it, which is modelled (`kernel`).
- The disabled rule for management over IPv6, and the expiry of what the router advertised after it is gone.
- `Dockerfile`, `install-packages.sh`: linear; their failure is a failing build job.
- The cleanup step of the workflow: as written its script is read from the standard input that
  already carries the data, so it deletes nothing (`build.yml:241-276`).
- `keepalive.sh`: its commits start no run and change no revision.
- Of the smoke tests everything but the network part: linear probes of one running container. A
  test server or router that is launched later than the 20 s that are waited for it is not represented.

## What could come next

1. **Console**: the devices one by one, a failing `mount` in the middle, a restart on a new mount
   namespace, the check of the result; Startup's `MaskConsoles` as its abstraction.
2. The disabled IPv6 management rule as a part of `guarded`; the registry's cleanup once it deletes.
3. **Fixture as a promise**: an abstract verdict of an image (passed, failed, undecided) that FixtureInv
   lets Fixture implement, as Check implements CheckPromise.
