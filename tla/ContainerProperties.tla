------------------------ MODULE ContainerProperties ------------------------
(***************************************************************************)
(* What the container guarantees, and two statements of the repository     *)
(* that it does not keep (MarkRuleInstalled, ListsExact).                  *)
(***************************************************************************)
EXTENDS Container

\* From the end of start.sh to the first edit a user can make.
HandedOver ==
  pc \in {"exec", "fw4", "netifd", "listeners", "redirect"} \union PrepareSteps

EnvPorts == {env.ports.http, env.ports.https, env.ports.ssh}

Both(port) == << <<"0.0.0.0", port>>, <<"[::]", port>> >>

\* However many starts were cut short, and whatever they left staged, the
\* services find what this container's environment asks for and nothing of
\* an earlier one: the committed lists have exactly its items, the
\* parameters of the handler are its own in their stored spelling.
EnvironmentReachesServices ==
  HandedOver =>
    /\ Range(conf.dns) = Range(env.dns)
    /\ Range(conf.ip6addr) = Range(env.ip6)
    /\ Range(conf.listen_http) = Range(Both(env.ports.http))
    /\ Range(conf.listen_https) = Range(Both(env.ports.https))
    /\ conf.ssh_listen = <<env.ports.ssh>>
    /\ conf.proxy = <<NormalProxy(env.proxy)>>
    /\ conf.timezone = <<env.tz>>

\* Each address is one item of its list, in the order given (README: each
\* address is written as one list item; the lists are replaced, never
\* appended to).
ListsExact ==
  HandedOver =>
    /\ conf.dns = env.dns
    /\ conf.ip6addr = env.ip6
    /\ conf.listen_http = Both(env.ports.http)
    /\ conf.listen_https = Both(env.ports.https)

\* In a container that was not restarted the lists are exact, whatever
\* became of the containers that used the volume before.
NewContainerListsExact == restarts = 0 => ListsExact

\* A start that reaches init leaves nothing staged in the layer: what a
\* cut-short start left there does harm to the next start only.
StartLeavesNothingStaged == HandedOver => layer = NothingStaged

\* Landscape never sees an exit whose network was not prepared in this life:
\* while there is a handler, every listener is one the loaded ruleset
\* restricts, on the ports of this environment, and the LAN has no DHCP
\* server of ours.
OfferedOnlyGuarded ==
  handler # "none" =>
    /\ listening = EnvPorts \union {53}
    /\ guarded = listening
    /\ conf.ignore = <<"1">>

\* The protected ports follow the ports of the environment: once prepared,
\* the ruleset of every life, and of every reload, restricts exactly the
\* ports that have a listener (README: changing a port moves its protection).
PreparedPortsGuarded ==
  marker /\ pc \in {"redirect", "up"} => guarded = listening

\* An environment that start.sh rejects changes no file of the volume: every
\* check comes before the first write, whatever earlier containers left.
RejectedEnvironmentWritesNothing ==
  [][~Valid(env) => conf' = conf]_vars

\* What belongs to LuCI and PassWall is changed by no start: the firewall
\* defaults never, the resolver settings of dnsmasq not once
\* they were initialised.
UserSettingsKept ==
  [][ pc # "up" =>
        /\ conf'.defaults = conf.defaults
        /\ conf.initialized = <<"1">> => conf'.resolver = conf.resolver ]_vars

\* The rule that lets the handler's marked packets out exists in a healthy
\* container whose environment asks for ICMP passthrough.
MarkRuleInstalled ==
  Healthy /\ NormalProxy(env.proxy).icmp = "true" => env.proxy.mark \in marks

-----------------------------------------------------------------------------
\* Once faults stop, an accepted container is healthy for good, unless its
\* last life could not be prepared (it then refuses until it is restarted) or
\* the host's kernel fails the proxy check: then LuCI is there to find out
\* (README: the container is not healthy, LuCI stays usable).
EventuallyHealthy ==
  <>[](\/ Healthy
       \/ ~kernel /\ env.ports.http \in listening
       \/ pc = "up" /\ ~marker
       \/ ~Valid(env))

\* Parameters that netifd resets are applied again.
RouterAdvertisementsReapplied ==
  (ra = "netifd") ~> (ra = "applied" \/ pc = "off")

-----------------------------------------------------------------------------
(* The container implements an exit node.                                  *)

NoOffer == "none"
WantedOf(e) == CommandLine(NormalProxy(e.proxy))

Status ==
  CASE pc = "off" -> "down"
    [] handler = "running" -> "offering"
    [] handler = "exited" -> "interrupted"
    [] handler = "none" /\ marker -> "prepared"
    [] handler = "none" /\ pc = "up" /\ ~marker -> "refusing"
    [] OTHER -> "preparing"

Node == INSTANCE ExitNode WITH
          Offer <- {WantedOf(e) : e \in Env},
          status <- Status,
          wanted <- WantedOf(env),
          offered <- IF handler = "none" THEN NoOffer ELSE args

\* Through crashes, refusals and respawns the handler is offered as ExitNode
\* promises: after preparation, with the parameters of its own environment.
ImplementsExitNode == Node!NodeSpec
=============================================================================
