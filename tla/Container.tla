----------------------------- MODULE Container -----------------------------
(***************************************************************************)
(* A container from its creation to its last life: start.sh, the services, *)
(* and what interrupts them.  A life ends by a stop, a crash or a failing  *)
(* command of start.sh; the next one is a restart of the same container    *)
(* (same environment, same layer) or a re-creation (new layer, perhaps a   *)
(* new environment).  The configuration volume outlives both.              *)
(***************************************************************************)
EXTENDS Services

CONSTANTS
  Kernels,     \* what landscape-proxy-check may find: a set of verdicts
  MaxFaults,   \* bound on the faults of a behaviour (see Fault)
  MaxRestarts  \* bound on the restarts of one container

ASSUME KernelsAssumption == Kernels \subseteq BOOLEAN

ASSUME BoundsAssumption == MaxFaults \in Nat /\ MaxRestarts \in Nat

VARIABLES
  kernel,   \* whether the host's kernel passes landscape-proxy-check
  faults,   \* the faults so far
  restarts  \* the restarts of the current container so far

vars == <<startupVars, servicesVars, kernel, faults, restarts>>

\* /etc/config of the image, which Docker copies into an empty volume.
ImageConfig ==
  [o \in Options |-> IF o \in {"resolver", "defaults"} THEN <<"image">> ELSE <<>>]

Init ==
  /\ pc = "validate"
  /\ env \in Env
  /\ conf = ImageConfig
  /\ layer = NothingStaged
  /\ todo = <<>>
  /\ password = ""
  /\ masked = FALSE
  /\ Halted
  /\ kernel \in Kernels
  /\ faults = 0
  /\ restarts = 0

-----------------------------------------------------------------------------
Fault == faults < MaxFaults /\ faults' = faults + 1

\* A stop, a crash, the loss of the host, or a failing command of start.sh.
Die ==
  /\ pc # "off"
  /\ Goto("off")
  /\ Halt
  /\ Fault
  /\ UNCHANGED <<env, conf, layer, todo, password, masked, kernel, restarts>>

\* Docker's restart policy, or docker start: a new mount namespace.
Restart ==
  /\ At("off")
  /\ restarts < MaxRestarts
  /\ restarts' = restarts + 1
  /\ Goto("validate")
  /\ masked' = FALSE
  /\ todo' = <<>>
  /\ UNCHANGED <<env, conf, layer, password, servicesVars, kernel, faults>>

\* docker compose up -d with another .env or another image: a new layer.
Recreate(e) ==
  /\ At("off")
  /\ Goto("validate")
  /\ env' = e
  /\ layer' = NothingStaged
  /\ password' = ""
  /\ masked' = FALSE
  /\ todo' = <<>>
  /\ restarts' = 0
  /\ UNCHANGED <<conf, servicesVars, kernel, faults>>

\* Settings that the image leaves to LuCI, PassWall or an operator.  They can
\* also edit the DNS list of the interface, which every start rewrites.
UserSettings == {"resolver", "defaults"}

UserEdits(o) ==
  /\ At("up")
  /\ conf' = [conf EXCEPT ![o] = <<"user">>]
  /\ UNCHANGED <<pc, layerVars, servicesVars, kernel, faults,
                 restarts>>

\* `uci commit` by docker exec at any moment, as the smoke test runs it:
\* it commits whatever a script has staged so far.
OperatorCommits ==
  /\ pc # "off"
  /\ IF pc \in StartupSteps
       THEN /\ conf' = CommittedAll(conf, layer)
            /\ layer' = NothingStaged
            /\ UNCHANGED tmpfs
       ELSE /\ conf' = CommittedAll(conf, tmpfs)
            /\ tmpfs' = NothingStaged
            /\ UNCHANGED layer
  /\ UNCHANGED <<pc, env, todo, password, masked, marker, chain, guarded,
                 marks, listening, handler, args, lan, ra, events, kernel, faults,
                 restarts>>

\* Modules of the host's kernel are loaded or unloaded, or it is another kernel.
KernelGained ==
  /\ ~kernel
  /\ TRUE \in Kernels
  /\ kernel' = TRUE
  /\ UNCHANGED <<startupVars, servicesVars, faults, restarts>>

KernelLost ==
  /\ kernel
  /\ FALSE \in Kernels
  /\ kernel' = FALSE
  /\ Fault
  /\ UNCHANGED <<startupVars, servicesVars, restarts>>

\* landscape-healthcheck.  The default routes are there while lan is up.
Healthy ==
  /\ At("up")
  /\ marker
  /\ masked
  /\ kernel
  /\ handler = "running"
  /\ lan = "up"
  /\ chain
  /\ conf.masq = <<"1">>
  /\ UNION {Range(conf[o]) : o \in {"http_port", "https_port", "ssh_port"}}
       \subseteq listening
  /\ ra = "applied"

Undisturbed == UNCHANGED <<kernel, faults, restarts>>
Disturbed == Fault /\ UNCHANGED <<kernel, restarts>>

Starting == StartupNext /\ UNCHANGED servicesVars /\ Undisturbed
Booting == BootStep /\ Undisturbed
Respawning == RespawnHandler /\ Undisturbed
SettingUp == SetUpLan /\ Undisturbed
Reapplying == (\E event \in InterfaceEvents : Hotplug(event)) /\ Undisturbed

Next ==
  \/ Starting
  \/ Booting
  \/ PrepareFails /\ Disturbed
  \/ HandlerExits /\ Disturbed
  \/ TearDownLan /\ Disturbed
  \/ UpdateLan /\ Disturbed
  \/ Respawning
  \/ SettingUp
  \/ Reapplying
  \/ ReloadFirewall /\ Undisturbed
  \/ RestartRedirect /\ Undisturbed
  \/ OperatorCommits
  \/ \E o \in UserSettings \union {"dns"} : UserEdits(o)
  \/ KernelGained
  \/ KernelLost
  \/ Die
  \/ Restart
  \/ \E e \in Env : Recreate(e)

Spec == Init /\ [][Next]_vars

\* A running script goes on, procd respawns and delivers events, netifd sets
\* its interface up, and the restart policy (unless-stopped in .env.example)
\* starts what has ended.
Fairness ==
  /\ WF_vars(Starting)
  /\ WF_vars(Booting)
  /\ WF_vars(Respawning)
  /\ WF_vars(SettingUp)
  /\ WF_vars(Reapplying)
  /\ WF_vars(Restart)

FairSpec == Spec /\ Fairness

-----------------------------------------------------------------------------
ValuesOf ==
  [ dns         |-> Text,         ip6addr      |-> Text,
    listen_http |-> Text \X Nat,  listen_https |-> Text \X Nat,
    ssh_listen  |-> Nat,          timezone     |-> Text,
    proxy       |-> ProxyParams,  http_port    |-> Nat,
    https_port  |-> Nat,          ssh_port     |-> Nat,
    initialized |-> Text,         dest_port    |-> SUBSET Nat,
    masq        |-> Text,         defaults     |-> Text,
    ignore      |-> Text,         resolver     |-> Text,
    zonename    |-> Text,         hostname     |-> Text ]

Steps == StartupSteps \union PrepareSteps
           \union {"off", "fw4", "netifd", "listeners", "redirect", "up"}

FilesOK(files) ==
  /\ files = [o \in Options |-> files[o]]
  /\ \A o \in Options : files[o] \in Seq(ValuesOf[o])

StoreOK(store) ==
  /\ store = [o \in Options |-> store[o]]
  /\ \A o \in Options : store[o] \in [reset: BOOLEAN, add: Seq(ValuesOf[o])]

\* The items of the add_list loops.
LoopItems == ({"dns", "ip6addr"} \X Text)
               \union ({"listen_http", "listen_https"} \X (Text \X Nat))

ConfigTypes ==
  /\ FilesOK(conf)
  /\ StoreOK(layer)
  /\ StoreOK(tmpfs)
  /\ todo \in Seq(LoopItems)

ContainerTypes ==
  /\ pc \in Steps
  /\ env \in Env
  /\ password \in Text
  /\ masked \in BOOLEAN
  /\ kernel \in BOOLEAN
  /\ faults \in 0..MaxFaults
  /\ restarts \in 0..MaxRestarts

ServiceTypes ==
  /\ marker \in BOOLEAN
  /\ chain \in BOOLEAN
  /\ guarded \subseteq Nat
  /\ marks \subseteq Nat
  /\ listening \subseteq Nat
  /\ handler \in {"none", "running", "exited"}
  /\ args \in [mode: Text, sport: Nat, level: Text, icmp: BOOLEAN, mark: Nat]
  /\ lan \in {"down", "setup", "up"}
  /\ ra \in {"kernel", "netifd", "applied"}
  /\ events \subseteq InterfaceEvents

\* Every variable has its type.
TypeOK == ConfigTypes /\ ContainerTypes /\ ServiceTypes
=============================================================================
