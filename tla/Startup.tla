------------------------------ MODULE Startup ------------------------------
(***************************************************************************)
(* PID 1 of the container until it becomes /sbin/init: start.sh and the    *)
(* helpers it runs, one action per group of commands between two points    *)
(* where a crash, a failing command (set -e) or a command of an operator   *)
(* can come in.  /etc/config is a volume and outlives the container; the   *)
(* password file and the staging area of uci are in the container's own    *)
(* layer: they outlive a restart and not a re-creation; the console masks  *)
(* are mounts and outlive neither.                                         *)
(***************************************************************************)
EXTENDS Uci, Naturals, FiniteSets

CONSTANTS
  Env,        \* the environments a container may be created with
  IPAddress,  \* the strings validate_data accepts as an address
  Zones,      \* the time zones installed in the image
  Text        \* the texts that settings and options are made of

VARIABLES
  pc,        \* the command PID 1, then the boot sequence, is at
  env,       \* the environment of the current container
  conf,      \* the committed files of /etc/config
  layer,     \* /tmp/.uci in the container's layer: staged changes
  todo,      \* the items that a running `for` loop has still to add
  password,  \* the root password of the layer, "" when none is set
  masked     \* whether the console devices are masked

startupVars == <<pc, env, conf, layer, todo, password, masked>>

ProxyParams ==
  [mode: Text, icmp: Text, mark: Nat, sport: Nat, level: Text]

Ports == [http: Nat, https: Nat, ssh: Nat]

EnvType == [dns: Seq(Text), ip6: Seq(Text), ports: Ports,
            proxy: ProxyParams, tz: Text, password: Text]

ASSUME EnvAssumption == Env \subseteq EnvType

\* The texts the scripts write themselves.
ASSUME TextAssumption ==
  {"", "1", "true", "false", "multiple-tproxy", "route", "ERROR", "0.0.0.0",
   "[::]", "ImmortalWrt", "Asia/Shanghai", "auto", "image", "user"} \subseteq Text

-----------------------------------------------------------------------------
(* Validation of the environment.  The text of a value is not modelled: a  *)
(* port that is not written as a plain decimal is 0, a flag is one of the  *)
(* spellings the code tells apart.                                         *)

Modes == {"route", "tproxy", "multiple-tproxy", "multiple_tproxy"}
TrueFlags == {"true", "True", "TRUE"}
FalseFlags == {"false", "False", "FALSE"}
Levels == {"OFF", "ERROR", "WARN", "INFO", "DEBUG", "TRACE"}

ValidProxy(p) ==
  /\ p.mode \in Modes
  /\ p.icmp \in TrueFlags \union FalseFlags
  /\ p.mark # 0
  /\ p.sport \in 1..65535
  /\ p.level \in Levels

\* The one spelling under which the parameters are stored.
NormalProxy(p) ==
  [p EXCEPT !.mode = IF @ = "multiple_tproxy" THEN "multiple-tproxy" ELSE @,
            !.icmp = IF @ \in TrueFlags THEN "true" ELSE "false"]

ValidPorts(p) ==
  /\ {p.http, p.https, p.ssh} \subseteq (1..65535) \ {53}
  /\ Cardinality({p.http, p.https, p.ssh}) = 3

ValidDns(addresses) ==
  /\ addresses # <<>>
  /\ \A i \in DOMAIN addresses : addresses[i] \in IPAddress

\* Everything that is checked before the first write.
Accepted(e) ==
  /\ e.ip6 # <<>>
  /\ ValidProxy(e.proxy)
  /\ e.tz \in Zones
  /\ ValidDns(e.dns)
  /\ ValidPorts(e.ports)

\* landscape-password refuses no value and the value of .env.example.
AcceptedPassword(e) == e.password \notin {"", "CHANGE_ME_BEFORE_START"}

Valid(e) == Accepted(e) /\ AcceptedPassword(e)

-----------------------------------------------------------------------------
At(step) == pc = step
Goto(step) == pc' = step

Stage(values) == layer' = SetAll(layer, values)

Commit(f) == /\ conf' = Committed(conf, layer, f)
             /\ layer' = Flushed(layer, f)

\* The pairs <<option, item>> that a `for` loop passes to uci add_list.
Items(o, list) == [i \in DOMAIN list |-> <<o, list[i]>>]

\* Defective variant: landscape-management --check is left out.
ValidateWithoutPorts ==
  /\ At("validate")
  /\ Goto(IF /\ env.ip6 # <<>> /\ ValidProxy(env.proxy) /\ env.tz \in Zones
             /\ ValidDns(env.dns)
            THEN "console" ELSE "off")
  /\ UNCHANGED <<env, conf, layer, todo, password, masked>>

Validate ==
  /\ At("validate")
  /\ Goto(IF Accepted(env) THEN "console" ELSE "off")
  /\ UNCHANGED <<env, conf, layer, todo, password, masked>>

MaskConsoles ==
  /\ At("console")
  /\ masked' = TRUE
  /\ Goto("password")
  /\ UNCHANGED <<env, conf, layer, todo, password>>

SetPassword ==
  /\ At("password")
  /\ IF AcceptedPassword(env)
       THEN password' = env.password /\ Goto("system")
       ELSE UNCHANGED password /\ Goto("off")
  /\ UNCHANGED <<env, conf, layer, todo, masked>>

\* Only a volume without a system file gets one.
SystemDefaults ==
  /\ At("system")
  /\ LET staged == SetAll(layer, [hostname |-> "ImmortalWrt",
                                  zonename |-> "Asia/Shanghai"])
     IN IF conf.hostname = <<>> /\ conf.zonename = <<>>
          THEN /\ conf' = Committed(conf, staged, "system")
               /\ layer' = Flushed(staged, "system")
          ELSE UNCHANGED <<conf, layer>>
  /\ Goto("network")
  /\ UNCHANGED <<env, todo, password, masked>>

\* Defective variant: the file is not emptied.
ResetNetworkKeepingFile ==
  /\ At("network")
  /\ todo' = Items("dns", env.dns) \o Items("ip6addr", env.ip6)
  /\ Goto("commit network")
  /\ UNCHANGED <<env, conf, layer, password, masked>>

\* The network file is emptied; what is staged for it is not.  The sets of
\* this step (interface sections, address, gateways) take no part in a
\* property: only the two lists that follow do.
ResetNetwork ==
  /\ At("network")
  /\ conf' = Emptied(conf, "network")
  /\ todo' = Items("dns", env.dns) \o Items("ip6addr", env.ip6)
  /\ Goto("commit network")
  /\ UNCHANGED <<env, layer, password, masked>>

\* One turn of a `for` loop, or one of the four add_list of the web server.
AddListItem ==
  /\ pc \in {"commit network", "commit uhttpd"}
  /\ todo # <<>>
  /\ layer' = AddList(layer, Head(todo)[1], Head(todo)[2])
  /\ todo' = Tail(todo)
  /\ UNCHANGED <<pc, env, conf, password, masked>>

CommitNetwork ==
  /\ At("commit network")
  /\ todo = <<>>
  /\ Commit("network")
  /\ Goto("container")
  /\ UNCHANGED <<env, todo, password, masked>>

\* Defective variant: the parameters are stored in a new volume only.
SetContainerOnce ==
  /\ At("container")
  /\ IF conf.proxy = <<>>
       THEN Stage([timezone |-> env.tz, proxy |-> NormalProxy(env.proxy)])
       ELSE UNCHANGED layer
  /\ Goto("commit container")
  /\ UNCHANGED <<env, conf, todo, password, masked>>

SetContainer ==
  /\ At("container")
  /\ Stage([timezone |-> env.tz, proxy |-> NormalProxy(env.proxy)])
  /\ Goto("commit container")
  /\ UNCHANGED <<env, conf, todo, password, masked>>

CommitContainer ==
  /\ At("commit container")
  /\ Commit("landscape")
  /\ Goto("uhttpd")
  /\ UNCHANGED <<env, todo, password, masked>>

\* landscape-management runs its checks once more; the image defaults of both
\* files have no listener.
CopyServiceDefaults ==
  /\ At("uhttpd")
  /\ ValidPorts(env.ports)
  /\ conf' = Emptied(Emptied(conf, "uhttpd"), "dropbear")
  /\ todo' = << <<"listen_http",  <<"0.0.0.0", env.ports.http>> >>,
                <<"listen_http",  <<"[::]",    env.ports.http>> >>,
                <<"listen_https", <<"0.0.0.0", env.ports.https>> >>,
                <<"listen_https", <<"[::]",    env.ports.https>> >> >>
  /\ Goto("commit uhttpd")
  /\ UNCHANGED <<env, layer, password, masked>>

CommitUhttpd ==
  /\ At("commit uhttpd")
  /\ todo = <<>>
  /\ LET staged == SetAll(layer, [ssh_listen |-> env.ports.ssh])
     IN /\ conf' = Committed(conf, staged, "uhttpd")
        /\ layer' = Flushed(staged, "uhttpd")
  /\ Goto("commit dropbear")
  /\ UNCHANGED <<env, todo, password, masked>>

\* Defective variant: the commit is forgotten.
DropbearNotCommitted ==
  /\ At("commit dropbear")
  /\ Goto("ports")
  /\ UNCHANGED <<env, conf, layer, todo, password, masked>>

CommitDropbear ==
  /\ At("commit dropbear")
  /\ Commit("dropbear")
  /\ Goto("ports")
  /\ UNCHANGED <<env, todo, password, masked>>

SetPorts ==
  /\ At("ports")
  /\ Stage([http_port  |-> env.ports.http,
            https_port |-> env.ports.https,
            ssh_port   |-> env.ports.ssh])
  /\ Goto("commit ports")
  /\ UNCHANGED <<env, conf, todo, password, masked>>

CommitPorts ==
  /\ At("commit ports")
  /\ Commit("landscape")
  /\ Goto("exec")
  /\ UNCHANGED <<env, todo, password, masked>>

StartupSteps ==
  {"validate", "console", "password", "system", "network", "commit network",
   "container", "commit container", "uhttpd", "commit uhttpd",
   "commit dropbear", "ports", "commit ports", "exec"}

StartupNext ==
  \/ Validate \/ MaskConsoles \/ SetPassword \/ SystemDefaults
  \/ ResetNetwork \/ AddListItem \/ CommitNetwork
  \/ SetContainer \/ CommitContainer
  \/ CopyServiceDefaults \/ CommitUhttpd \/ CommitDropbear
  \/ SetPorts \/ CommitPorts
=============================================================================
