------------------------------ MODULE Services ------------------------------
(***************************************************************************)
(* The container once /sbin/init runs: procd starts the services in the    *)
(* order of their numbers.  This repository supplies landscape-prepare     *)
(* (18), landscape-redirect (99), the hotplug script and the health check; *)
(* the firewall (19), netifd (20) and the listeners (19 and 50) are        *)
(* OpenWrt's and are modelled by what the scripts rely on.                 *)
(* Everything here is lost when the container stops: /tmp is a tmpfs that  *)
(* procd mounts over the layer's /tmp, so it also has a staging area of    *)
(* its own.                                                                *)
(***************************************************************************)
EXTENDS Startup, Functions

VARIABLES
  tmpfs,      \* /tmp/.uci of this boot: staged changes
  marker,     \* whether /tmp/landscape-prepared exists
  chain,      \* whether fw4 has loaded its ruleset
  guarded,    \* the ports the ruleset restricts to private IPv4 sources
  marks,      \* the marks with a masquerade rule in srcnat_lan
  listening,  \* the ports with a listener
  handler,    \* the instance of redirect_pkg_handler
  args,       \* the command line procd holds for it
  lan,        \* the interface lan of netifd: down, being set up, or up
  ra,         \* who set the router-advertisement parameters of eth0 last
  events      \* interface events queued for the hotplug scripts

servicesVars == <<tmpfs, marker, chain, guarded, marks, listening, handler,
                  args, lan, ra, events>>

NoArgs == [mode |-> "", sport |-> 0, level |-> "", icmp |-> FALSE, mark |-> 0]

Halted ==
  /\ tmpfs = NothingStaged
  /\ marker = FALSE
  /\ chain = FALSE
  /\ guarded = {}
  /\ marks = {}
  /\ listening = {}
  /\ handler = "none"
  /\ args = NoArgs
  /\ lan = "down"
  /\ ra = "kernel"
  /\ events = {}

\* What a stop, a crash or exec of a fresh init leaves of all this.
Halt ==
  /\ tmpfs' = NothingStaged
  /\ marker' = FALSE
  /\ chain' = FALSE
  /\ guarded' = {}
  /\ marks' = {}
  /\ listening' = {}
  /\ handler' = "none"
  /\ args' = NoArgs
  /\ lan' = "down"
  /\ ra' = "kernel"
  /\ events' = {}

\* exec /sbin/init: procd mounts an empty /tmp and runs the boot sequence.
ExecInit ==
  /\ At("exec")
  /\ Goto("prepare")
  /\ Halt
  /\ UNCHANGED <<env, conf, layer, todo, password, masked>>

layerVars == <<env, layer, todo, password, masked>>

-----------------------------------------------------------------------------
(* landscape-prepare.  Under `set -e` any command may end it: the boot     *)
(* goes on without the marker.  A failing proxy check does not end it.     *)

\* uci set of some options in this boot's staging area, and uci commit.
SetAndCommit(values, f) ==
  LET staged == SetAll(tmpfs, values)
  IN /\ conf' = Committed(conf, staged, f)
     /\ tmpfs' = Flushed(staged, f)

\* sysctl, landscape-ipv6 and landscape-timezone.
PrepareSystem ==
  /\ At("prepare")
  /\ Get(conf, tmpfs, "timezone") # <<>>
  /\ SetAndCommit([zonename |-> Get(conf, tmpfs, "timezone")[1]], "system")
  /\ ra' = "applied"
  /\ Goto("firewall rules")
  /\ UNCHANGED <<layerVars, marker, chain, guarded, marks, listening, handler,
                 args, lan, events>>

\* Defective variant: the rules keep the default ports.
ProtectedPortsFixed == {22, 80, 443, 53}

\* The ports of the rules.  start.sh has stored all three by now.
ProtectedPorts ==
  (UNION {Range(Get(conf, tmpfs, o)) : o \in {"http_port", "https_port", "ssh_port"}})
    \union {53}

StageFirewall ==
  /\ At("firewall rules")
  /\ tmpfs' = SetAll(tmpfs, [dest_port |-> ProtectedPorts, masq |-> "1"])
  /\ Goto("commit firewall")
  /\ UNCHANGED <<layerVars, conf, marker, chain, guarded, marks, listening,
                 handler, args, lan, ra, events>>

CommitFirewall ==
  /\ At("commit firewall")
  /\ conf' = Committed(conf, tmpfs, "firewall")
  /\ tmpfs' = Flushed(tmpfs, "firewall")
  /\ Goto("icmp")
  /\ UNCHANGED <<layerVars, marker, chain, guarded, marks, listening, handler,
                 args, lan, ra, events>>

DefaultProxy == [mode |-> "route", icmp |-> "true", mark |-> 2,
                 sport |-> 12345, level |-> "ERROR"]

\* uci -q get with the default of the script for each absent option.
StoredProxy == IF Get(conf, tmpfs, "proxy") = <<>>
                 THEN DefaultProxy
                 ELSE Get(conf, tmpfs, "proxy")[1]

\* nft cannot add a rule to a chain that is not loaded, and the error is
\* discarded.  A rule of this script that is there already is deleted first.
InstallMarkRule ==
  /\ At("icmp")
  /\ marks' = IF StoredProxy.icmp = "true" /\ chain
                THEN {StoredProxy.mark}
                ELSE marks
  /\ Goto("dhcp")
  /\ UNCHANGED <<layerVars, conf, tmpfs, marker, chain, guarded, listening,
                 handler, args, lan, ra, events>>

StopDhcp ==
  /\ At("dhcp")
  /\ SetAndCommit([ignore |-> "1"], "dhcp")
  /\ Goto("resolver")
  /\ UNCHANGED <<layerVars, marker, chain, guarded, marks, listening, handler,
                 args, lan, ra, events>>

\* Defective variant: the flag is not looked at.
InitialResolverAlways ==
  /\ At("resolver")
  /\ SetAndCommit([resolver |-> "auto"], "dhcp")
  /\ Goto("initialized")
  /\ UNCHANGED <<layerVars, marker, chain, guarded, marks, listening, handler,
                 args, lan, ra, events>>

\* landscape-dns up to the commit of dhcp.
InitialResolver ==
  /\ At("resolver")
  /\ IF Get(conf, tmpfs, "initialized") = <<"1">>
       THEN UNCHANGED <<conf, tmpfs>> /\ Goto("marker")
       ELSE SetAndCommit([resolver |-> "auto"], "dhcp") /\ Goto("initialized")
  /\ UNCHANGED <<layerVars, marker, chain, guarded, marks, listening, handler,
                 args, lan, ra, events>>

\* landscape-dns: the flag is committed in another file, after the settings.
RecordInitialized ==
  /\ At("initialized")
  /\ SetAndCommit([initialized |-> "1"], "landscape")
  /\ Goto("marker")
  /\ UNCHANGED <<layerVars, marker, chain, guarded, marks, listening, handler,
                 args, lan, ra, events>>

TouchMarker ==
  /\ At("marker")
  /\ marker' = TRUE
  /\ Goto("fw4")
  /\ UNCHANGED <<layerVars, conf, tmpfs, chain, guarded, marks, listening,
                 handler, args, lan, ra, events>>

PrepareSteps == {"prepare", "firewall rules", "commit firewall", "icmp", "dhcp",
                 "resolver", "initialized", "marker"}

\* Defective variant: the boot sequence ends with the script.
PrepareFailsForGood ==
  /\ pc \in PrepareSteps
  /\ Goto("failed")
  /\ UNCHANGED <<layerVars, conf, servicesVars>>

\* A command of landscape-prepare fails: what was done stays done.
PrepareFails ==
  /\ pc \in PrepareSteps
  /\ Goto("fw4")
  /\ UNCHANGED <<layerVars, conf, servicesVars>>

-----------------------------------------------------------------------------
(* The services of OpenWrt that the scripts count on.                      *)

\* fw4 builds its table anew from the committed file.
LoadRuleset ==
  /\ chain' = TRUE
  /\ guarded' = UNION Range(conf.dest_port)
  /\ marks' = {}

StartFirewall ==
  /\ At("fw4")
  /\ LoadRuleset
  /\ Goto("netifd")
  /\ UNCHANGED <<layerVars, conf, tmpfs, marker, listening, handler, args, lan, ra,
                 events>>

\* A reload that LuCI or the firewall's own hotplug script asks for.
ReloadFirewall ==
  /\ At("up")
  /\ LoadRuleset
  /\ UNCHANGED <<pc, layerVars, conf, tmpfs, marker, listening, handler, args,
                 lan, ra, events>>

InterfaceEvents == {"ifup", "ifupdate"}

\* procd starts netifd, which takes the device up with its own parameters;
\* the boot goes on while the interface is set up.
StartNetwork ==
  /\ At("netifd")
  /\ lan' = "setup"
  /\ ra' = "netifd"
  /\ Goto("listeners")
  /\ UNCHANGED <<layerVars, conf, tmpfs, marker, chain, guarded, marks,
                 listening, handler, args, events>>

\* The interface is up with its addresses and default routes, and the event
\* is queued.  start.sh commits the section and its gateways together with
\* the lists: without them netifd has no interface to set up.
SetUpLan ==
  /\ lan = "setup"
  /\ conf.ip6addr # <<>>
  /\ lan' = "up"
  /\ events' = events \union {"ifup"}
  /\ UNCHANGED <<pc, layerVars, conf, tmpfs, marker, chain, guarded, marks,
                 listening, handler, args, ra>>

\* netifd is reloaded or restarted, or the link is lost: the routes are gone
\* until the interface is set up again.
TearDownLan ==
  /\ At("up")
  /\ lan' = "setup"
  /\ ra' = "netifd"
  /\ UNCHANGED <<pc, layerVars, conf, tmpfs, marker, chain, guarded, marks,
                 listening, handler, args, events>>

\* netifd applies changed settings to the interface while it is up.
UpdateLan ==
  /\ At("up")
  /\ lan = "up"
  /\ ra' = "netifd"
  /\ events' = events \union {"ifupdate"}
  /\ UNCHANGED <<pc, layerVars, conf, tmpfs, marker, chain, guarded, marks,
                 listening, handler, args, lan>>

\* dnsmasq, dropbear and uhttpd.
StartListeners ==
  /\ At("listeners")
  /\ listening' = {l[2] : l \in Range(conf.listen_http) \union Range(conf.listen_https)}
                    \union Range(conf.ssh_listen) \union {53}
  /\ Goto("redirect")
  /\ UNCHANGED <<layerVars, conf, tmpfs, marker, chain, guarded, marks, handler,
                 args, lan, ra, events>>

-----------------------------------------------------------------------------
(* landscape-redirect and the handler, 99-landscape-ipv6.                  *)

\* Defective variant: the script answers ifup only.
HotplugIfupOnly(event) ==
  /\ event \in events
  /\ events' = events \ {event}
  /\ ra' = IF event = "ifup" THEN "applied" ELSE ra
  /\ UNCHANGED <<pc, layerVars, conf, tmpfs, marker, chain, guarded, marks,
                 listening, handler, args, lan>>

\* 99-landscape-ipv6 on one event of the lan interface.
Hotplug(event) ==
  /\ event \in events
  /\ events' = events \ {event}
  /\ ra' = IF event \in {"ifup", "ifupdate"} THEN "applied" ELSE ra
  /\ UNCHANGED <<pc, layerVars, conf, tmpfs, marker, chain, guarded, marks,
                 listening, handler, args, lan>>

\* Without the flag the handler is given no mark.
CommandLine(p) ==
  [mode |-> p.mode, sport |-> p.sport, level |-> p.level,
   icmp |-> p.icmp = "true", mark |-> IF p.icmp = "true" THEN p.mark ELSE 0]

\* Defective variant: the marker is not looked at.
StartServiceUnprepared ==
  IF StoredProxy.level \in Levels
    THEN handler' = "running" /\ args' = CommandLine(StoredProxy)
    ELSE UNCHANGED <<handler, args>>

\* start_service: refused without the marker of this boot.
StartService ==
  IF marker /\ StoredProxy.level \in Levels
    THEN handler' = "running" /\ args' = CommandLine(StoredProxy)
    ELSE UNCHANGED <<handler, args>>

StartRedirect ==
  /\ At("redirect")
  /\ StartService
  /\ Goto("up")
  /\ UNCHANGED <<layerVars, conf, tmpfs, marker, chain, guarded, marks,
                 listening, lan, ra, events>>

\* An operator starts the service again (it replaces the instance).
RestartRedirect ==
  /\ At("up")
  /\ StartService
  /\ UNCHANGED <<pc, layerVars, conf, tmpfs, marker, chain, guarded, marks,
                 listening, lan, ra, events>>

HandlerExits ==
  /\ handler = "running"
  /\ handler' = "exited"
  /\ UNCHANGED <<pc, layerVars, conf, tmpfs, marker, chain, guarded, marks,
                 listening, args, lan, ra, events>>

\* respawn 3600 5 0: again and again, with the same command line.
RespawnHandler ==
  /\ handler = "exited"
  /\ handler' = "running"
  /\ UNCHANGED <<pc, layerVars, conf, tmpfs, marker, chain, guarded, marks,
                 listening, args, lan, ra, events>>

BootStep ==
  \/ ExecInit
  \/ PrepareSystem \/ StageFirewall \/ CommitFirewall \/ InstallMarkRule
  \/ StopDhcp \/ InitialResolver \/ RecordInitialized \/ TouchMarker
  \/ StartFirewall \/ StartNetwork \/ StartListeners \/ StartRedirect
=============================================================================
