------------------------ MODULE ContainerGuardProofs ------------------------
(***************************************************************************)
(* Whatever is offered to Landscape is guarded, for every environment: the *)
(* ports with a listener are those of the environment, and the ruleset of  *)
(* a life that was prepared restricts exactly them.  The two meet only     *)
(* through files: start.sh writes the listeners and the ports, crashes and *)
(* commits of an operator may come in anywhere, landscape-prepare copies   *)
(* the ports into the rules, fw4 and the services read the result.  So the *)
(* invariant follows the ports from the list of start.sh to the sockets.   *)
(***************************************************************************)
EXTENDS ContainerProofs

\* The ports with a listener in a prepared container.
NodePorts == EnvPorts \union {53}

\* What uci get prints to a script in the layer.
View(o) == Get(conf, layer, o)

Lists == {"listen_http", "listen_https"}

\* The listeners that the environment asks for.
Wanted(o) ==
  IF o = "listen_http" THEN Range(Both(env.ports.http)) ELSE Range(Both(env.ports.https))

\* Staged listeners, even those of an earlier life, are wanted ones.
StagedListeners ==
  \A o \in Lists : ~layer[o].reset /\ Range(layer[o].add) \subseteq Wanted(o)

\* While landscape-management adds the listeners, each wanted one is there or
\* still to be added; after its commit they are all there.
ListenersComing ==
  /\ At("commit uhttpd") =>
       /\ \A x \in Range(todo) : x[2] \in Wanted(x[1])
       /\ \A o \in Lists :
            /\ Range(View(o)) \subseteq Wanted(o)
            /\ \A w \in Wanted(o) : w \in Range(View(o)) \/ <<o, w>> \in Range(todo)
  /\ pc \notin BeforeDropbear =>
       /\ \A o \in Lists : Range(View(o)) = Wanted(o)
       /\ View("ssh_listen") = <<env.ports.ssh>>

\* From "commit ports" on the stored ports are those of the environment.
PortsStored ==
  pc \notin BeforePorts \union {"ports"} =>
    /\ View("http_port") = <<env.ports.http>>
    /\ View("https_port") = <<env.ports.https>>
    /\ View("ssh_port") = <<env.ports.ssh>>

\* What a boot leaves staged belongs to the firewall.
BootStagesFirewall == \A o \in Options : ConfigOf[o] # "firewall" => tmpfs[o] = NoDelta

\* The rules of this life: staged, then committed, and committed in the life
\* that bears the marker.
RulesWritten ==
  /\ At("commit firewall") => Get(conf, tmpfs, "dest_port") = <<NodePorts>>
  /\ marker \/ pc \in {"icmp", "dhcp", "resolver", "initialized", "marker"} =>
       conf["dest_port"] = <<NodePorts>> /\ tmpfs["dest_port"] = NoDelta
  /\ marker \/ pc \in {"resolver", "initialized", "marker"} => conf["ignore"] = <<"1">>

\* What runs was set up from the files in this life.
ServicesFollow ==
  /\ marker => pc \in {"fw4", "netifd", "listeners", "redirect", "up"}
  /\ marker /\ pc # "fw4" => guarded = NodePorts
  /\ pc \in {"redirect", "up"} => listening = NodePorts
  /\ handler # "none" => marker /\ pc = "up"

-----------------------------------------------------------------------------
(* Lists.                                                                  *)

\* Nothing is lost or added when lists are joined.
LEMMA RangeConcat ==
  ASSUME NEW S, NEW s \in Seq(S), NEW t \in Seq(S)
  PROVE  Range(s \o t) = Range(s) \union Range(t)
<1>1. /\ DOMAIN s = 1..Len(s) /\ DOMAIN t = 1..Len(t)
      /\ DOMAIN (s \o t) = 1..(Len(s) + Len(t))
      /\ Len(s) \in Nat /\ Len(t) \in Nat
  OBVIOUS
<1>2. ASSUME NEW i \in DOMAIN s PROVE s[i] \in Range(s \o t)
  <2>1. i \in DOMAIN (s \o t) /\ (s \o t)[i] = s[i]
    BY <1>1, <1>2
  <2>. QED BY <2>1 DEF Range
<1>3. ASSUME NEW i \in DOMAIN t PROVE t[i] \in Range(s \o t)
  <2>1. Len(s) + i \in DOMAIN (s \o t) /\ (s \o t)[Len(s) + i] = t[i]
    BY <1>1, <1>3
  <2>. QED BY <2>1 DEF Range
<1>4. ASSUME NEW i \in DOMAIN (s \o t) PROVE (s \o t)[i] \in Range(s) \union Range(t)
  <2>1. CASE i <= Len(s)
    <3>1. i \in DOMAIN s /\ (s \o t)[i] = s[i]
      BY <1>1, <1>4, <2>1
    <3>. QED BY <3>1 DEF Range
  <2>2. CASE i > Len(s)
    <3>1. i - Len(s) \in DOMAIN t /\ (s \o t)[i] = t[i - Len(s)]
      BY <1>1, <1>4, <2>2
    <3>. QED BY <3>1 DEF Range
  <2>. QED BY <1>1, <1>4, <2>1, <2>2
<1>5. Range(s) \union Range(t) \subseteq Range(s \o t)
  BY <1>2, <1>3 DEF Range
<1>6. Range(s \o t) \subseteq Range(s) \union Range(t)
  BY <1>4 DEF Range
<1>. QED BY <1>5, <1>6

\* The only element of a list of one.
LEMMA RangeSingleton == ASSUME NEW x PROVE Range(<<x>>) = {x}
BY DEF Range

\* Appending adds one element.
LEMMA RangeAppend ==
  ASSUME NEW S, NEW s \in Seq(S), NEW x \in S
  PROVE  Range(Append(s, x)) = Range(s) \union {x}
<1>1. Append(s, x) = s \o <<x>> /\ <<x>> \in Seq(S)
  OBVIOUS
<1>2. Range(s \o <<x>>) = Range(s) \union Range(<<x>>)
  BY <1>1, RangeConcat
<1>3. Range(<<x>>) = {x}
  BY RangeSingleton
<1>. QED BY <1>1, <1>2, <1>3

\* One turn of a loop takes one element.
LEMMA RangeHeadTail ==
  ASSUME NEW S, NEW s \in Seq(S), s # <<>>
  PROVE  Range(s) = {Head(s)} \union Range(Tail(s))
<1>1. s = <<Head(s)>> \o Tail(s) /\ <<Head(s)>> \in Seq(S) /\ Tail(s) \in Seq(S)
  OBVIOUS
<1>2. \A first, rest \in Seq(S) :
        Range(first \o rest) = Range(first) \union Range(rest)
  BY RangeConcat, Zenon
<1>3. Range(<<Head(s)>>) = {Head(s)}
  BY RangeSingleton
<1>. QED BY <1>1, <1>2, <1>3

\* An empty list has no element.
LEMMA RangeEmpty == Range(<<>>) = {}
BY DEF Range

\* An option without a staged change.
LEMMA NoDeltaFields == NoDelta.reset = FALSE /\ NoDelta.add = <<>>
BY DEF NoDelta

\* Without a staged change a list is what the file holds.
LEMMA AppliedNothing == ASSUME NEW S, NEW s \in Seq(S) PROVE Applied(s, NoDelta) = s
BY DEF Applied, NoDelta

-----------------------------------------------------------------------------
(* What scripts read, before and after uci writes.                         *)

\* What is read through the layer is a list of the option's type.
LEMMA ViewType ==
  ASSUME TypeOK PROVE \A o \in Options : View(o) \in Seq(ValuesOf[o])
BY GetType DEF TypeOK, ConfigTypes, View

\* Reading again after a commit of one file gives the same.
LEMMA ViewCommit ==
  ASSUME TypeOK, NEW f, Commit(f)
  PROVE  \A o \in Options : View(o)' = View(o)
<1>1. ASSUME NEW o \in Options, ConfigOf[o] = f PROVE View(o)' = View(o)
  <2>1. conf'[o] = View(o) /\ layer'[o] = NoDelta
    BY <1>1 DEF Commit, Committed, Flushed, View
  <2>2. View(o)' = Applied(View(o), NoDelta)
    BY <2>1 DEF View, Get
  <2>. QED BY <2>2, ViewType, AppliedNothing
<1>2. ASSUME NEW o \in Options, ConfigOf[o] # f PROVE View(o)' = View(o)
  BY <1>2 DEF Commit, Committed, Flushed, View, Get
<1>. QED BY <1>1, <1>2

\* And after a commit of every file.
LEMMA ViewCommitAll ==
  ASSUME TypeOK, conf' = CommittedAll(conf, layer), layer' = NothingStaged
  PROVE  \A o \in Options : View(o)' = View(o)
<1>. SUFFICES ASSUME NEW o \in Options PROVE View(o)' = View(o)
  OBVIOUS
<1>1. conf'[o] = View(o) /\ layer'[o] = NoDelta
  BY DEF CommittedAll, NothingStaged, View
<1>2. View(o)' = Applied(View(o), NoDelta)
  BY <1>1 DEF View, Get
<1>. QED BY <1>2, ViewType, AppliedNothing

\* What is set is read back at once, the rest as before.
LEMMA ViewStage ==
  ASSUME NEW values, Stage(values), UNCHANGED conf
  PROVE  \A o \in Options :
           View(o)' = IF o \in DOMAIN values THEN <<values[o]>> ELSE View(o)
<1>. SUFFICES ASSUME NEW o \in Options
              PROVE  View(o)' = IF o \in DOMAIN values THEN <<values[o]>> ELSE View(o)
  OBVIOUS
<1>1. CASE o \in DOMAIN values
  BY <1>1 DEF Stage, SetAll, View, Get, Applied
<1>2. CASE o \notin DOMAIN values
  BY <1>2 DEF Stage, SetAll, View, Get
<1>. QED BY <1>1, <1>2

\* uci add_list adds one item to what is read of one option.
LEMMA ViewAdd ==
  ASSUME TypeOK, UNCHANGED conf, NEW o \in Options, NEW item \in ValuesOf[o],
         layer' = AddList(layer, o, item), ~layer[o].reset
  PROVE  /\ Range(View(o)') = Range(View(o)) \union {item}
         /\ \A p \in Options : p # o => View(p)' = View(p)
         /\ layer'[o].reset = FALSE
         /\ Range(layer'[o].add) = Range(layer[o].add) \union {item}
         /\ \A p \in Options : p # o => layer'[p] = layer[p]
<1>0. /\ layer = [p \in Options |-> layer[p]]
      /\ layer[o] \in [reset: BOOLEAN, add: Seq(ValuesOf[o])]
      /\ conf[o] \in Seq(ValuesOf[o])
  BY DEF TypeOK, ConfigTypes, StoreOK, FilesOK
<1>1. /\ layer = [p \in Options |-> layer[p]]
      /\ layer[o].add \in Seq(ValuesOf[o]) /\ conf[o] \in Seq(ValuesOf[o])
      /\ layer[o].reset = FALSE
  BY <1>0
<1>2. layer'[o] = [reset |-> FALSE, add |-> Append(layer[o].add, item)]
  BY <1>1 DEF AddList
<1>3. \A p \in Options : p # o => layer'[p] = layer[p]
  BY <1>1 DEF AddList
<1>4. Append(layer[o].add, item) \in Seq(ValuesOf[o])
  BY <1>1, AppendType
<1>5. Range(Append(layer[o].add, item)) = Range(layer[o].add) \union {item}
  BY <1>1, RangeAppend
<1>6. View(o) = conf[o] \o layer[o].add /\ View(o)' = conf[o] \o Append(layer[o].add, item)
  <2>1. View(o) = conf[o] \o layer[o].add
    BY <1>1 DEF View, Get, Applied
  <2>2. layer'[o].reset = FALSE /\ layer'[o].add = Append(layer[o].add, item)
    BY <1>2
  <2>3. View(o)' = conf[o] \o Append(layer[o].add, item)
    BY <2>2 DEF View, Get, Applied
  <2>. QED BY <2>1, <2>3
<1>7. Range(conf[o] \o layer[o].add) = Range(conf[o]) \union Range(layer[o].add)
  BY <1>1, RangeConcat
<1>8. Range(conf[o] \o Append(layer[o].add, item))
        = Range(conf[o]) \union Range(Append(layer[o].add, item))
  BY <1>1, <1>4, RangeConcat
<1>9. Range(View(o)') = Range(View(o)) \union {item}
  BY <1>5, <1>6, <1>7, <1>8
<1>10. \A p \in Options : p # o => View(p)' = View(p)
  BY <1>3 DEF View, Get
<1>. QED BY <1>2, <1>3, <1>5, <1>9, <1>10

\* The other options are as before.
LEMMA AddOther ==
  ASSUME TypeOK, UNCHANGED conf, NEW o, NEW item, layer' = AddList(layer, o, item)
  PROVE  \A p \in Options : p # o => layer'[p] = layer[p] /\ View(p)' = View(p)
<1>1. layer = [p \in Options |-> layer[p]]
  BY DEF TypeOK, ConfigTypes, StoreOK
<1>2. \A p \in Options : p # o => layer'[p] = layer[p]
  BY <1>1 DEF AddList
<1>. QED BY <1>2 DEF View, Get

\* uci set and commit of a file other than firewall's, at boot: the options
\* that are set change, and nothing stays staged that was not.
LEMMA BootCommit ==
  ASSUME TypeOK, BootStagesFirewall, NEW values, NEW f, f # "firewall",
         SetAndCommit(values, f), \A o \in DOMAIN values : ConfigOf[o] = f
  PROVE  \A o \in Options :
           /\ conf'[o] = IF o \in DOMAIN values THEN <<values[o]>> ELSE conf[o]
           /\ tmpfs'[o] = tmpfs[o]
<1>. SUFFICES ASSUME NEW o \in Options
              PROVE  /\ conf'[o] = IF o \in DOMAIN values THEN <<values[o]>> ELSE conf[o]
                     /\ tmpfs'[o] = tmpfs[o]
  OBVIOUS
<1>. DEFINE staged == SetAll(tmpfs, values)
<1>1. /\ conf'[o] = IF ConfigOf[o] = f THEN Get(conf, staged, o) ELSE conf[o]
      /\ tmpfs'[o] = IF ConfigOf[o] = f THEN NoDelta ELSE staged[o]
  BY DEF SetAndCommit, Committed, Flushed
<1>2. CASE o \in DOMAIN values
  <2>1. staged[o] = [reset |-> TRUE, add |-> <<values[o]>>]
    BY <1>2 DEF SetAll
  <2>2. ConfigOf[o] = f /\ tmpfs[o] = NoDelta
    BY <1>2 DEF BootStagesFirewall
  <2>. QED BY <1>1, <1>2, <2>1, <2>2 DEF Get, Applied
<1>3. CASE o \notin DOMAIN values
  <2>1. staged[o] = tmpfs[o]
    BY <1>3 DEF SetAll
  <2>2. CASE ConfigOf[o] = f
    <3>1. tmpfs[o] = NoDelta
      BY <2>2 DEF BootStagesFirewall
    <3>2. conf[o] \in Seq(ValuesOf[o])
      BY DEF TypeOK, ConfigTypes, FilesOK
    <3>3. Get(conf, staged, o) = conf[o]
      BY <2>1, <3>1, <3>2, AppliedNothing DEF Get
    <3>. QED BY <1>1, <1>3, <2>2, <3>1, <3>3
  <2>3. CASE ConfigOf[o] # f
    BY <1>1, <1>3, <2>1, <2>3
  <2>. QED BY <2>2, <2>3
<1>. QED BY <1>2, <1>3

-----------------------------------------------------------------------------
(* The listeners and the stored ports.                                     *)

\* The part of the invariant that start.sh establishes.
PortsWritten == StagedListeners /\ ListenersComing /\ PortsStored

\* What the invariant is about, in the store of uci.
KeptOptions == Lists \union {"ssh_listen", "http_port", "https_port", "ssh_port"}

\* They are options of three files.
LEMMA KeptFiles ==
  /\ KeptOptions \subseteq Options
  /\ \A o \in Lists : ConfigOf[o] = "uhttpd"
  /\ \A o \in KeptOptions : ConfigOf[o] \in {"uhttpd", "dropbear", "landscape"}
BY OptionNames, OptionFiles DEF KeptOptions, Lists

\* Two listeners are wanted on each port.
LEMMA WantedListeners ==
  /\ Wanted("listen_http") = {<<"0.0.0.0", env.ports.http>>, <<"[::]", env.ports.http>>}
  /\ Wanted("listen_https") = {<<"0.0.0.0", env.ports.https>>, <<"[::]", env.ports.https>>}
<1>1. \A a, b : Range(<<a, b>>) = {a, b}
  BY DEF Range
<1>2. "listen_http" # "listen_https"
  OBVIOUS
<1>. QED BY <1>1, <1>2 DEF Wanted, Both

\* At first nothing is written.
LEMMA PortsInit == Init => PortsWritten
<1>. SUFFICES ASSUME Init PROVE PortsWritten
  OBVIOUS
<1>1. \A o \in Lists : layer[o] = NoDelta
  BY KeptFiles DEF Init, NothingStaged, KeptOptions
<1>2. StagedListeners
  BY <1>1, RangeEmpty DEF StagedListeners, NoDelta
<1>3. ListenersComing /\ PortsStored
  BY DEF Init, ListenersComing, PortsStored, At, BeforePorts, BeforeDropbear, BeforeContainer
<1>. QED BY <1>2, <1>3 DEF PortsWritten

\* A step that changes none of these options keeps what was reached, if it
\* reaches no further.
LEMMA PortsKept ==
  ASSUME PortsWritten, UNCHANGED env,
         \A o \in KeptOptions : View(o)' = View(o),
         \A o \in Lists : layer'[o] = layer[o] \/ layer'[o] = NoDelta,
         ~At("commit uhttpd")' \/ (UNCHANGED todo /\ At("commit uhttpd")),
         pc' \notin BeforeDropbear => pc \notin BeforeDropbear,
         pc' \notin BeforePorts \union {"ports"} => pc \notin BeforePorts \union {"ports"}
  PROVE  PortsWritten'
<1>1. \A o : Wanted(o)' = Wanted(o)
  BY DEF Wanted, Both
<1>2. StagedListeners'
  <2>1. ASSUME NEW o \in Lists
        PROVE  ~layer'[o].reset /\ Range(layer'[o].add) \subseteq Wanted(o)
    <3>1. CASE layer'[o] = layer[o]
      BY <3>1 DEF PortsWritten, StagedListeners
    <3>2. CASE layer'[o] = NoDelta
      <4>1. layer'[o].reset = FALSE /\ layer'[o].add = <<>>
        BY <3>2, NoDeltaFields
      <4>. QED BY <4>1, RangeEmpty
    <3>. QED BY <3>1, <3>2
  <2>. QED BY <1>1, <2>1 DEF StagedListeners
<1>3. \A o \in Lists : View(o)' = View(o)
  BY DEF KeptOptions
<1>4. ListenersComing'
  <2>1. CASE At("commit uhttpd")'
    <3>1. At("commit uhttpd") /\ todo' = todo /\ pc' = pc
      BY <2>1 DEF At
    <3>. QED BY <1>1, <1>3, <2>1, <3>1
         DEF PortsWritten, ListenersComing, At, BeforeDropbear, BeforeContainer
  <2>2. CASE ~At("commit uhttpd")'
    BY <1>1, <1>3, <2>2 DEF PortsWritten, ListenersComing, KeptOptions
  <2>. QED BY <2>1, <2>2
<1>5. PortsStored'
  BY DEF PortsWritten, PortsStored, KeptOptions
<1>. QED BY <1>2, <1>4, <1>5 DEF PortsWritten

\* A step of start.sh.
LEMMA PortsByStart ==
  TypeOK /\ StagedForLater /\ PortsWritten /\ StartupNext => PortsWritten'
<1>. SUFFICES ASSUME TypeOK, StagedForLater, PortsWritten, StartupNext
              PROVE  PortsWritten'
  OBVIOUS
<1>. USE DEF BeforeContainer, BeforeDropbear, BeforePorts
<1>w. ASSUME UNCHANGED env PROVE \A o : Wanted(o)' = Wanted(o)
  BY <1>w DEF Wanted, Both
<1>1. CASE Validate \/ MaskConsoles \/ SetPassword
  <2>1. /\ UNCHANGED <<env, conf, layer>>
        /\ pc' \in {"console", "password", "system", "off"}
    BY <1>1 DEF Validate, MaskConsoles, SetPassword, Goto
  <2>2. \A o : View(o)' = View(o)
    BY <2>1 DEF View
  <2>. QED BY <2>1, <2>2, PortsKept DEF At
<1>2. CASE CommitNetwork
  <2>1. Commit("network") /\ pc' = "container" /\ UNCHANGED env
    BY <1>2 DEF CommitNetwork, Goto
  <2>2. \A o \in Lists : layer'[o] = layer[o] \/ layer'[o] = NoDelta
    BY <2>1, KeptFiles DEF Commit, Flushed, KeptOptions
  <2>. QED BY <2>1, <2>2, ViewCommit, KeptFiles, PortsKept DEF At
<1>3. CASE CommitContainer
  <2>1. Commit("landscape") /\ pc' = "uhttpd" /\ UNCHANGED env
    BY <1>3 DEF CommitContainer, Goto
  <2>2. \A o \in Lists : layer'[o] = layer[o] \/ layer'[o] = NoDelta
    BY <2>1, KeptFiles DEF Commit, Flushed, KeptOptions
  <2>. QED BY <2>1, <2>2, ViewCommit, KeptFiles, PortsKept DEF At
<1>4. CASE CommitDropbear
  <2>1. Commit("dropbear") /\ At("commit dropbear") /\ pc' = "ports" /\ UNCHANGED env
    BY <1>4 DEF CommitDropbear, Goto
  <2>2. \A o \in Lists : layer'[o] = layer[o] \/ layer'[o] = NoDelta
    BY <2>1, KeptFiles DEF Commit, Flushed, KeptOptions
  <2>. QED BY <2>1, <2>2, ViewCommit, KeptFiles, PortsKept DEF At
<1>5. CASE CommitPorts
  <2>1. Commit("landscape") /\ At("commit ports") /\ pc' = "exec" /\ UNCHANGED env
    BY <1>5 DEF CommitPorts, Goto
  <2>2. \A o \in Lists : layer'[o] = layer[o] \/ layer'[o] = NoDelta
    BY <2>1, KeptFiles DEF Commit, Flushed, KeptOptions
  <2>. QED BY <2>1, <2>2, ViewCommit, KeptFiles, PortsKept DEF At
<1>6. CASE SystemDefaults
  <2>1. UNCHANGED env /\ pc' = "network" /\ At("system")
    BY <1>6 DEF SystemDefaults, Goto
  <2>2. \A o \in KeptOptions : conf'[o] = conf[o] /\ layer'[o] = layer[o]
    <3> DEFINE values == [hostname |-> "ImmortalWrt", zonename |-> "Asia/Shanghai"]
    <3> DEFINE staged == SetAll(layer, values)
    <3>1. ASSUME NEW o \in KeptOptions
          PROVE  o \in Options /\ staged[o] = layer[o] /\ ConfigOf[o] # "system"
      BY KeptFiles, OptionFiles DEF SetAll
    <3>2. CASE conf' = Committed(conf, staged, "system") /\ layer' = Flushed(staged, "system")
      BY <3>1, <3>2 DEF Committed, Flushed
    <3>3. CASE UNCHANGED <<conf, layer>>
      BY <3>3
    <3>. QED BY <1>6, <3>2, <3>3 DEF SystemDefaults
  <2>3. \A o \in KeptOptions : View(o)' = View(o)
    BY <2>2 DEF View, Get
  <2>. QED BY <2>1, <2>2, <2>3, PortsKept DEF At, KeptOptions
<1>7. CASE ResetNetwork
  <2>1. UNCHANGED <<env, layer>> /\ pc' = "commit network" /\ At("network")
    BY <1>7 DEF ResetNetwork, Goto
  <2>2. \A o \in KeptOptions : conf'[o] = conf[o]
    BY <1>7, KeptFiles DEF ResetNetwork, Emptied
  <2>3. \A o \in KeptOptions : View(o)' = View(o)
    BY <2>1, <2>2 DEF View, Get
  <2>. QED BY <2>1, <2>3, PortsKept DEF At
<1>8. CASE SetContainer
  <2> DEFINE values == [timezone |-> env.tz, proxy |-> NormalProxy(env.proxy)]
  <2>1. UNCHANGED <<env, conf>> /\ pc' = "commit container" /\ Stage(values)
    BY <1>8 DEF SetContainer, Goto
  <2>2. DOMAIN values \intersect KeptOptions = {}
    BY DEF KeptOptions, Lists
  <2> HIDE DEF values
  <2>3. \A o \in KeptOptions : View(o)' = View(o)
    BY <2>1, <2>2, ViewStage, KeptFiles
  <2>4. \A o \in Lists : layer'[o] = layer[o]
    BY <2>1, <2>2, KeptFiles DEF Stage, SetAll, KeptOptions
  <2>. QED BY <2>1, <2>3, <2>4, PortsKept DEF At
<1>9. CASE SetPorts
  <2> DEFINE values == [http_port |-> env.ports.http, https_port |-> env.ports.https,
                        ssh_port |-> env.ports.ssh]
  <2>1. UNCHANGED <<env, conf>> /\ At("ports") /\ pc' = "commit ports" /\ Stage(values)
    BY <1>9 DEF SetPorts, Goto
  <2>2. /\ DOMAIN values = {"http_port", "https_port", "ssh_port"}
        /\ values["http_port"] = env.ports.http
        /\ values["https_port"] = env.ports.https
        /\ values["ssh_port"] = env.ports.ssh
    OBVIOUS
  <2> HIDE DEF values
  <2>3. \A o \in Lists \union {"ssh_listen"} : o \in Options /\ o \notin DOMAIN values
    BY <2>2, KeptFiles DEF KeptOptions, Lists
  <2>4. \A o \in Lists \union {"ssh_listen"} : View(o)' = View(o)
    BY <2>1, <2>3, ViewStage
  <2>5. \A o \in Lists : layer'[o] = layer[o]
    BY <2>1, <2>3 DEF Stage, SetAll
  <2>6. /\ View("http_port")' = <<env.ports.http>>
        /\ View("https_port")' = <<env.ports.https>>
        /\ View("ssh_port")' = <<env.ports.ssh>>
    BY <2>1, <2>2, ViewStage, KeptFiles DEF KeptOptions
  <2>7. StagedListeners'
    BY <1>w, <2>1, <2>5 DEF PortsWritten, StagedListeners
  <2>8. ListenersComing'
    BY <1>w, <2>1, <2>4 DEF PortsWritten, ListenersComing, At
  <2>9. PortsStored'
    BY <2>1, <2>6 DEF PortsStored
  <2>. QED BY <2>7, <2>8, <2>9 DEF PortsWritten
<1>10. CASE AddListItem /\ At("commit network")
  <2>1. Head(todo)[1] \in {"dns", "ip6addr"}
    <3>1. Head(todo) \in AddressItems
      BY <1>10, HeadTailType DEF AddListItem, StagedForLater
    <3>. QED BY <3>1 DEF AddressItems
  <2>2. \A o \in KeptOptions : layer'[o] = layer[o] /\ View(o)' = View(o)
    <3>1. UNCHANGED conf /\ layer' = AddList(layer, Head(todo)[1], Head(todo)[2])
      BY <1>10 DEF AddListItem
    <3>2. \A o \in KeptOptions : o \in Options /\ o # Head(todo)[1]
      BY <2>1, KeptFiles DEF KeptOptions, Lists
    <3>. QED BY <3>1, <3>2, AddOther
  <2>3. UNCHANGED <<env, pc>>
    BY <1>10 DEF AddListItem
  <2>. QED BY <1>10, <2>2, <2>3, PortsKept DEF At, KeptOptions
<1>11. CASE AddListItem /\ At("commit uhttpd")
  <2>0. /\ todo # <<>> /\ todo \in Seq(ListenItems) /\ todo' = Tail(todo)
        /\ layer' = AddList(layer, Head(todo)[1], Head(todo)[2])
        /\ UNCHANGED <<conf, env, pc>>
    BY <1>11 DEF AddListItem, StagedForLater
  <2>2. Head(todo) \in ListenItems /\ Range(todo) = {Head(todo)} \union Range(todo')
    BY <2>0, HeadTailType, RangeHeadTail
  <2>3. PICK o \in Lists, item \in Text \X Nat : Head(todo) = <<o, item>>
    BY <2>2 DEF ListenItems, Lists
  <2>1. layer' = AddList(layer, o, item) /\ UNCHANGED <<conf, env, pc>>
    BY <2>0, <2>3
  <2>4. o \in Options /\ ValuesOf[o] = Text \X Nat
    BY <2>3, ListOptions DEF Lists
  <2>5. item \in Wanted(o)
    <3>1. \A x \in Range(todo) : x[2] \in Wanted(x[1])
      BY <1>11 DEF PortsWritten, ListenersComing
    <3>. QED BY <2>2, <2>3, <3>1
  <2>6. ~layer[o].reset
    BY <2>3 DEF PortsWritten, StagedListeners
  <2>7. /\ Range(View(o)') = Range(View(o)) \union {item}
        /\ \A p \in Options : p # o => View(p)' = View(p)
        /\ layer'[o].reset = FALSE
        /\ Range(layer'[o].add) = Range(layer[o].add) \union {item}
        /\ \A p \in Options : p # o => layer'[p] = layer[p]
    BY <2>1, <2>3, <2>4, <2>6, ViewAdd
  <2>8. StagedListeners'
    <3>1. ASSUME NEW p \in Lists
          PROVE  ~layer'[p].reset /\ Range(layer'[p].add) \subseteq Wanted(p)
      BY <2>5, <2>7, KeptFiles DEF PortsWritten, StagedListeners, KeptOptions
    <3>. QED BY <1>w, <2>1, <3>1 DEF StagedListeners
  <2>9. ListenersComing'
    <3>1. \A x \in Range(todo') : x[2] \in Wanted(x[1])
      BY <1>11, <2>2 DEF PortsWritten, ListenersComing
    <3>2. ASSUME NEW p \in Lists PROVE Range(View(p)') \subseteq Wanted(p)
      BY <1>11, <2>5, <2>7, KeptFiles DEF PortsWritten, ListenersComing, KeptOptions
    <3>3. ASSUME NEW p \in Lists, NEW w \in Wanted(p)
          PROVE  w \in Range(View(p)') \/ <<p, w>> \in Range(todo')
      <4>1. w \in Range(View(p)) \/ <<p, w>> \in Range(todo)
        BY <1>11 DEF PortsWritten, ListenersComing
      <4>2. w \in Range(View(p)) => w \in Range(View(p)')
        BY <2>7, KeptFiles DEF KeptOptions
      <4>3. <<p, w>> = Head(todo) => w \in Range(View(p)')
        BY <2>3, <2>7
      <4>. QED BY <2>2, <4>1, <4>2, <4>3
    <3>4. pc' \in BeforeDropbear
      BY <1>11, <2>1 DEF At
    <3>. QED BY <1>w, <2>1, <3>1, <3>2, <3>3, <3>4 DEF ListenersComing
  <2>10. PortsStored'
    BY <1>11, <2>1 DEF PortsStored, At
  <2>. QED BY <2>8, <2>9, <2>10 DEF PortsWritten
<1>12. CASE CopyServiceDefaults
  <2>1. /\ UNCHANGED <<env, layer>> /\ pc' = "commit uhttpd"
        /\ conf' = Emptied(Emptied(conf, "uhttpd"), "dropbear")
        /\ todo' = << <<"listen_http",  <<"0.0.0.0", env.ports.http>> >>,
                      <<"listen_http",  <<"[::]",    env.ports.http>> >>,
                      <<"listen_https", <<"0.0.0.0", env.ports.https>> >>,
                      <<"listen_https", <<"[::]",    env.ports.https>> >> >>
    BY <1>12 DEF CopyServiceDefaults, Goto
  <2>2. \A a, b, c, d : Range(<<a, b, c, d>>) = {a, b, c, d}
    BY DEF Range
  <2> DEFINE http(ip) == <<"listen_http", <<ip, env.ports.http>> >>
  <2> DEFINE https(ip) == <<"listen_https", <<ip, env.ports.https>> >>
  <2>a. todo' = <<http("0.0.0.0"), http("[::]"), https("0.0.0.0"), https("[::]")>>
    BY <2>1
  <2> HIDE DEF http, https
  <2>3. Range(todo') = {http("0.0.0.0"), http("[::]"), https("0.0.0.0"), https("[::]")}
    BY <2>2, <2>a
  <2> USE DEF http, https
  <2>4. \A x \in Range(todo') : x[2] \in Wanted(x[1])
    BY <2>3, WantedListeners
  <2>5. \A o \in Lists : \A w \in Wanted(o) : <<o, w>> \in Range(todo')
    BY <2>3, WantedListeners DEF Lists
  <2>6. ASSUME NEW o \in Lists PROVE Range(View(o)') \subseteq Wanted(o)
    <3>1. o \in Options /\ ConfigOf[o] = "uhttpd"
      BY KeptFiles DEF KeptOptions
    <3>2. conf'[o] = <<>>
      BY <2>1, <3>1 DEF Emptied
    <3>3. /\ layer[o].add \in Seq(ValuesOf[o])
          /\ layer[o].reset = FALSE /\ layer'[o] = layer[o]
      <4>1. layer[o] \in [reset: BOOLEAN, add: Seq(ValuesOf[o])]
        BY <3>1 DEF TypeOK, ConfigTypes, StoreOK
      <4>2. ~layer[o].reset
        BY DEF PortsWritten, StagedListeners
      <4>. QED BY <2>1, <4>1, <4>2
    <3>4. View(o)' = <<>> \o layer[o].add
      BY <3>2, <3>3 DEF View, Get, Applied
    <3>5. View(o)' = layer[o].add
      BY <3>3, <3>4
    <3>. QED BY <3>5 DEF PortsWritten, StagedListeners
  <2>7. StagedListeners'
    BY <1>w, <2>1 DEF PortsWritten, StagedListeners
  <2>8. ListenersComing'
    BY <1>w, <2>1, <2>4, <2>5, <2>6 DEF ListenersComing
  <2>9. PortsStored'
    BY <2>1 DEF PortsStored
  <2>. QED BY <2>7, <2>8, <2>9 DEF PortsWritten
<1>13. CASE CommitUhttpd
  <2> DEFINE values == [ssh_listen |-> env.ports.ssh]
  <2> DEFINE staged == SetAll(layer, values)
  <2>1. /\ At("commit uhttpd") /\ todo = <<>> /\ UNCHANGED env /\ pc' = "commit dropbear"
        /\ conf' = Committed(conf, staged, "uhttpd") /\ layer' = Flushed(staged, "uhttpd")
    BY <1>13 DEF CommitUhttpd, Goto
  <2>2. DOMAIN values = {"ssh_listen"} /\ values["ssh_listen"] = env.ports.ssh
    OBVIOUS
  <2> HIDE DEF values
  <2>3. ASSUME NEW o \in Lists PROVE View(o)' = View(o) /\ layer'[o] = NoDelta
    <3>1. o \in Options /\ ConfigOf[o] = "uhttpd" /\ staged[o] = layer[o]
      BY <2>2, KeptFiles DEF KeptOptions, SetAll, Lists
    <3>2. conf'[o] = View(o) /\ layer'[o] = NoDelta
      BY <2>1, <3>1 DEF Committed, Flushed, View, Get
    <3>3. View(o)' = Applied(View(o), NoDelta)
      BY <3>2 DEF View, Get
    <3>. QED BY <3>1, <3>2, <3>3, ViewType, AppliedNothing
  <2>4. View("ssh_listen")' = <<env.ports.ssh>>
    <3>1. "ssh_listen" \in Options /\ ConfigOf["ssh_listen"] = "dropbear"
      BY KeptFiles, OptionFiles DEF KeptOptions
    <3>2. layer'["ssh_listen"] = [reset |-> TRUE, add |-> <<env.ports.ssh>>]
      BY <2>1, <2>2, <3>1 DEF Flushed, SetAll
    <3>. QED BY <3>2 DEF View, Get, Applied
  <2>5. \A o \in Lists : Range(View(o)) = Wanted(o)
    BY <2>1, RangeEmpty DEF PortsWritten, ListenersComing
  <2>6. StagedListeners'
    <3>1. ASSUME NEW o \in Lists
          PROVE  ~layer'[o].reset /\ Range(layer'[o].add) \subseteq Wanted(o)
      BY <2>3, NoDeltaFields, RangeEmpty
    <3>. QED BY <1>w, <2>1, <3>1 DEF StagedListeners
  <2>7. ListenersComing'
    BY <1>w, <2>1, <2>3, <2>4, <2>5 DEF ListenersComing, At
  <2>8. PortsStored'
    BY <2>1 DEF PortsStored
  <2>. QED BY <2>6, <2>7, <2>8 DEF PortsWritten
<1>. QED
  BY <1>1, <1>2, <1>3, <1>4, <1>5, <1>6, <1>7, <1>8, <1>9, <1>10, <1>11, <1>12,
     <1>13 DEF StartupNext, AddListItem, At

\* A step of the boot sequence leaves those options alone.
LEMMA BootKeeps ==
  ASSUME TypeOK, BootStagesFirewall, BootStep
  PROVE  \A o \in KeptOptions : conf'[o] = conf[o]
<1>. USE KeptFiles
<1>0. \A o \in KeptOptions : o \in Options /\ ConfigOf[o] # "firewall"
  OBVIOUS
<1>1. CASE PrepareSystem
  <2> DEFINE values == [zonename |-> Get(conf, tmpfs, "timezone")[1]]
  <2>1. SetAndCommit(values, "system")
    BY <1>1 DEF PrepareSystem
  <2>2. \A o \in DOMAIN values : ConfigOf[o] = "system"
    BY OptionFiles
  <2> HIDE DEF values
  <2>3. \A o \in KeptOptions : o \notin DOMAIN values
    BY <2>2
  <2>. QED BY <1>0, <2>1, <2>2, <2>3, BootCommit
<1>2. CASE StopDhcp
  <2> DEFINE values == [ignore |-> "1"]
  <2>1. SetAndCommit(values, "dhcp")
    BY <1>2 DEF StopDhcp
  <2>2. \A o \in DOMAIN values : ConfigOf[o] = "dhcp"
    BY OptionFiles
  <2> HIDE DEF values
  <2>3. \A o \in KeptOptions : o \notin DOMAIN values
    BY <2>2
  <2>. QED BY <1>0, <2>1, <2>2, <2>3, BootCommit
<1>3. CASE InitialResolver
  <2> DEFINE values == [resolver |-> "auto"]
  <2>1. SetAndCommit(values, "dhcp") \/ UNCHANGED conf
    BY <1>3 DEF InitialResolver
  <2>2. \A o \in DOMAIN values : ConfigOf[o] = "dhcp"
    BY OptionFiles
  <2> HIDE DEF values
  <2>3. \A o \in KeptOptions : o \notin DOMAIN values
    BY <2>2
  <2>. QED BY <1>0, <2>1, <2>2, <2>3, BootCommit
<1>4. CASE RecordInitialized
  <2> DEFINE values == [initialized |-> "1"]
  <2>1. SetAndCommit(values, "landscape")
    BY <1>4 DEF RecordInitialized
  <2>2. DOMAIN values = {"initialized"} /\ ConfigOf["initialized"] = "landscape"
    BY OptionFiles
  <2> HIDE DEF values
  <2>3. \A o \in KeptOptions : o \notin DOMAIN values
    BY <2>2 DEF KeptOptions, Lists
  <2>. QED BY <1>0, <2>1, <2>2, <2>3, BootCommit
<1>5. CASE CommitFirewall
  BY <1>0, <1>5 DEF CommitFirewall, Committed
<1>. QED
  BY <1>1, <1>2, <1>3, <1>4, <1>5 DEF BootStep, ExecInit, StageFirewall,
    InstallMarkRule, TouchMarker, StartFirewall, StartNetwork, StartListeners,
    StartRedirect

\* Every step keeps the listeners and ports of the environment: a commit of an
\* operator writes what a script has staged, an edit changes other options,
\* a new container has nothing staged.
LEMMA PortsNext ==
  TypeOK /\ StagedForLater /\ BootStagesFirewall /\ PortsWritten /\ [Next]_vars
    => PortsWritten'
<1>. SUFFICES ASSUME TypeOK, StagedForLater, BootStagesFirewall, PortsWritten, [Next]_vars
              PROVE  PortsWritten'
  OBVIOUS
<1>. USE DEF BeforeContainer, BeforeDropbear, BeforePorts, layerVars
<1>s. ASSUME UNCHANGED <<env, layer>>, \A o \in KeptOptions : conf'[o] = conf[o],
             \/ UNCHANGED <<pc, todo>>
             \/ pc \notin BeforeInit /\ pc' \notin BeforeInit
             \/ pc' \in {"off", "validate"}
      PROVE  PortsWritten'
  <2>1. \A o \in KeptOptions : View(o)' = View(o)
    BY <1>s DEF View, Get
  <2>. QED BY <1>s, <2>1, PortsKept DEF At, BeforeInit
<1>1. CASE Starting
  BY <1>1, PortsByStart DEF Starting
<1>2. CASE Booting
  <2>1. /\ UNCHANGED <<env, layer>>
        /\ pc \notin BeforeInit /\ pc' \notin BeforeInit
    BY <1>2 DEF Booting, BootStep, ExecInit, PrepareSystem, StageFirewall,
      CommitFirewall, InstallMarkRule, StopDhcp, InitialResolver,
      RecordInitialized, TouchMarker, StartFirewall, StartNetwork,
      StartListeners, StartRedirect, At, Goto, BeforeInit
  <2>2. \A o \in KeptOptions : conf'[o] = conf[o]
    BY <1>2, BootKeeps DEF Booting
  <2>. QED BY <2>1, <2>2, <1>s
<1>3. CASE PrepareFails
  <2>1. /\ UNCHANGED <<env, layer, conf>>
        /\ pc \notin BeforeInit /\ pc' \notin BeforeInit
    BY <1>3 DEF PrepareFails, PrepareSteps, Goto, BeforeInit
  <2>. QED BY <2>1, <1>s
<1>4. CASE OperatorCommits
  <2>1. CASE pc \in StartupSteps
    <3>1. /\ conf' = CommittedAll(conf, layer) /\ layer' = NothingStaged
          /\ UNCHANGED <<pc, env, todo>>
      BY <1>4, <2>1 DEF OperatorCommits
    <3>2. \A o \in KeptOptions : View(o)' = View(o)
      BY <3>1, ViewCommitAll, KeptFiles
    <3>3. \A o \in Lists : layer'[o] = NoDelta
      BY <3>1, KeptFiles DEF NothingStaged, KeptOptions
    <3>. QED BY <3>1, <3>2, <3>3, PortsKept DEF At
  <2>2. CASE pc \notin StartupSteps
    <3>1. conf' = CommittedAll(conf, tmpfs) /\ UNCHANGED <<pc, env, todo, layer>>
      BY <1>4, <2>2 DEF OperatorCommits
    <3>2. ASSUME NEW o \in KeptOptions PROVE conf'[o] = conf[o]
      <4>1. o \in Options /\ tmpfs[o] = NoDelta /\ conf[o] \in Seq(ValuesOf[o])
        BY KeptFiles DEF BootStagesFirewall, TypeOK, ConfigTypes, FilesOK
      <4>. QED BY <3>1, <4>1, AppliedNothing DEF CommittedAll, Get
    <3>. QED BY <3>1, <3>2, <1>s
  <2>. QED BY <2>1, <2>2
<1>5. ASSUME NEW u \in UserSettings \union {"dns"}, UserEdits(u) PROVE PortsWritten'
  <2>1. \A o \in KeptOptions : o \in Options /\ o # u
    BY KeptFiles DEF UserSettings, KeptOptions, Lists
  <2>2. conf = [o \in Options |-> conf[o]]
    BY DEF TypeOK, ConfigTypes, FilesOK
  <2>3. \A o \in KeptOptions : conf'[o] = conf[o]
    BY <1>5, <2>1, <2>2 DEF UserEdits
  <2>. QED BY <1>5, <2>3, <1>s DEF UserEdits
<1>6. CASE Die
  BY <1>6, <1>s DEF Die, Goto
<1>7. CASE Restart
  BY <1>7, <1>s DEF Restart, Goto
<1>8. ASSUME NEW e \in Env, Recreate(e) PROVE PortsWritten'
  <2>1. \A o \in Lists : layer'[o] = NoDelta
    BY <1>8, KeptFiles DEF Recreate, NothingStaged, KeptOptions
  <2>2. StagedListeners'
    <3>1. \A o \in Lists : ~layer'[o].reset /\ Range(layer'[o].add) = {}
      BY <2>1, NoDeltaFields, RangeEmpty
    <3>. QED BY <3>1 DEF StagedListeners
  <2>3. ListenersComing' /\ PortsStored'
    BY <1>8 DEF Recreate, Goto, ListenersComing, PortsStored, At
  <2>. QED BY <2>2, <2>3 DEF PortsWritten
<1>. QED
  <2>1. CASE HandlerExits \/ Respawning \/ Reapplying \/ ReloadFirewall \/ RestartRedirect
               \/ SettingUp \/ TearDownLan \/ UpdateLan \/ KernelGained \/ KernelLost
               \/ UNCHANGED vars
    BY <2>1, <1>s DEF HandlerExits, Respawning, RespawnHandler, Reapplying, Hotplug,
      ReloadFirewall, RestartRedirect,
      SettingUp, SetUpLan, TearDownLan, UpdateLan, KernelGained, KernelLost,
      vars, startupVars
  <2>. QED BY <1>1, <1>2, <1>3, <1>4, <1>5, <1>6, <1>7, <1>8, <2>1 DEF Next

-----------------------------------------------------------------------------
(* The rules of the firewall and what follows from them.                   *)

BootInv == BootStagesFirewall /\ RulesWritten /\ ServicesFollow

\* Before init nothing runs.
LEMMA BootInit == Init => BootInv
BY DEF Init, Halted, BootInv, BootStagesFirewall, RulesWritten, ServicesFollow,
   NothingStaged, At

\* Once start.sh has ended the files hold what it wrote.
LEMMA FilesWritten ==
  ASSUME TypeOK, StagedForLater, PortsWritten, pc \notin BeforeInit
  PROVE  /\ \A o \in Lists : Range(conf[o]) = Wanted(o)
         /\ conf["ssh_listen"] = <<env.ports.ssh>>
         /\ conf["http_port"] = <<env.ports.http>>
         /\ conf["https_port"] = <<env.ports.https>>
         /\ conf["ssh_port"] = <<env.ports.ssh>>
<1>1. Clean("uhttpd") /\ Clean("dropbear") /\ Clean("landscape")
  BY DEF StagedForLater, BeforeInit, BeforePorts
<1>2. ASSUME NEW o \in KeptOptions PROVE View(o) = conf[o]
  <2>1. o \in Options /\ layer[o] = NoDelta /\ conf[o] \in Seq(ValuesOf[o])
    BY <1>1, KeptFiles DEF Clean, TypeOK, ConfigTypes, FilesOK
  <2>. QED BY <2>1, AppliedNothing DEF View, Get
<1>3. pc \notin BeforeDropbear /\ pc \notin BeforePorts \union {"ports"}
  BY DEF BeforeInit, BeforePorts
<1>. QED BY <1>2, <1>3 DEF PortsWritten, ListenersComing, PortsStored, KeptOptions

\* The rules are given the ports of the environment.
LEMMA RulesProtect ==
  ASSUME TypeOK, StagedForLater, PortsWritten, BootStagesFirewall, pc \notin BeforeInit
  PROVE  ProtectedPorts = NodePorts
<1>1. ASSUME NEW o \in {"http_port", "https_port", "ssh_port"}
      PROVE  Get(conf, tmpfs, o) = conf[o]
  <2>1. o \in KeptOptions
    BY DEF KeptOptions
  <2>2. o \in Options /\ tmpfs[o] = NoDelta /\ conf[o] \in Seq(ValuesOf[o])
    BY <2>1, KeptFiles DEF BootStagesFirewall, TypeOK, ConfigTypes, FilesOK
  <2>. QED BY <2>2, AppliedNothing DEF Get
<1>2. /\ Range(Get(conf, tmpfs, "http_port")) = {env.ports.http}
      /\ Range(Get(conf, tmpfs, "https_port")) = {env.ports.https}
      /\ Range(Get(conf, tmpfs, "ssh_port")) = {env.ports.ssh}
  BY <1>1, FilesWritten, RangeSingleton
<1>3. UNION {Range(Get(conf, tmpfs, o)) : o \in {"http_port", "https_port", "ssh_port"}}
        = EnvPorts
  BY <1>2 DEF EnvPorts
<1>. QED BY <1>3 DEF ProtectedPorts, NodePorts

\* The listeners bind the ports of the environment.
LEMMA ListenersBind ==
  ASSUME TypeOK, StagedForLater, PortsWritten, StartListeners
  PROVE  listening' = NodePorts
<1>1. pc \notin BeforeInit
  BY DEF StartListeners, At, BeforeInit, BeforePorts, BeforeDropbear, BeforeContainer
<1>2. /\ Range(conf["listen_http"])
           = {<<"0.0.0.0", env.ports.http>>, <<"[::]", env.ports.http>>}
      /\ Range(conf["listen_https"])
           = {<<"0.0.0.0", env.ports.https>>, <<"[::]", env.ports.https>>}
      /\ Range(conf["ssh_listen"]) = {env.ports.ssh}
  BY <1>1, FilesWritten, WantedListeners, RangeSingleton DEF Lists
<1>3. {l[2] : l \in Range(conf["listen_http"]) \union Range(conf["listen_https"])}
        = {env.ports.http, env.ports.https}
  BY <1>2
<1>4. listening' = {l[2] : l \in Range(conf["listen_http"]) \union Range(conf["listen_https"])}
                     \union Range(conf["ssh_listen"]) \union {53}
  BY DEF StartListeners
<1>. QED BY <1>2, <1>3, <1>4 DEF NodePorts, EnvPorts

\* A ruleset loaded from the rules of this life restricts those ports.
LEMMA RulesetGuards ==
  ASSUME LoadRuleset, conf["dest_port"] = <<NodePorts>> PROVE guarded' = NodePorts
<1>1. Range(conf["dest_port"]) = {NodePorts}
  BY RangeSingleton
<1>. QED BY <1>1 DEF LoadRuleset

\* A step of the boot sequence: the rules are staged, committed and loaded one
\* after the other, and the marker comes after the commit.
LEMMA RulesByBoot ==
  TypeOK /\ StagedForLater /\ PortsWritten /\ BootInv /\ BootStep => BootInv'
<1>. SUFFICES ASSUME TypeOK, StagedForLater, PortsWritten, BootInv, BootStep
              PROVE  BootInv'
  OBVIOUS
<1>. USE DEF At, Goto, layerVars
<1>0. BootStagesFirewall /\ RulesWritten /\ ServicesFollow
  BY DEF BootInv
<1>n. UNCHANGED env
  BY DEF BootStep, ExecInit, PrepareSystem, StageFirewall, CommitFirewall,
    InstallMarkRule, StopDhcp, InitialResolver, RecordInitialized, TouchMarker,
    StartFirewall, StartNetwork, StartListeners, StartRedirect
<1>p. NodePorts' = NodePorts
  BY <1>n DEF NodePorts, EnvPorts
<1>r. pc = "firewall rules" => pc \notin BeforeInit
  BY DEF BeforeInit, BeforePorts, BeforeDropbear, BeforeContainer
<1>1. CASE ExecInit
  BY <1>1 DEF ExecInit, Halt, NothingStaged, BootInv, BootStagesFirewall, RulesWritten,
    ServicesFollow
<1>2. CASE PrepareSystem
  <2> DEFINE values == [zonename |-> Get(conf, tmpfs, "timezone")[1]]
  <2>1. SetAndCommit(values, "system")
    BY <1>2 DEF PrepareSystem
  <2>2. \A o \in DOMAIN values : ConfigOf[o] = "system"
    BY OptionFiles
  <2> HIDE DEF values
  <2>3. \A o \in Options : tmpfs'[o] = tmpfs[o]
    BY <1>0, <2>1, <2>2, BootCommit
  <2>4. ~marker /\ handler = "none"
    BY <1>0, <1>2 DEF PrepareSystem, ServicesFollow
  <2>. QED BY <1>0, <1>2, <2>3, <2>4
       DEF PrepareSystem, BootInv, BootStagesFirewall, RulesWritten, ServicesFollow
<1>3. CASE StageFirewall
  <2> DEFINE values == [dest_port |-> ProtectedPorts, masq |-> "1"]
  <2>1. /\ tmpfs' = SetAll(tmpfs, values) /\ At("firewall rules")
        /\ pc' = "commit firewall" /\ UNCHANGED <<marker, handler>>
    BY <1>3 DEF StageFirewall
  <2>2. DOMAIN values = {"dest_port", "masq"} /\ values["dest_port"] = ProtectedPorts
    OBVIOUS
  <2> HIDE DEF values
  <2>3. BootStagesFirewall'
    <3>1. ASSUME NEW o \in Options, ConfigOf[o] # "firewall" PROVE tmpfs'[o] = NoDelta
      <4>1. o \notin DOMAIN values
        BY <2>2, <3>1, OptionFiles
      <4>. QED BY <1>0, <2>1, <3>1, <4>1 DEF SetAll, BootStagesFirewall
    <3>. QED BY <3>1 DEF BootStagesFirewall
  <2>4. Get(conf, tmpfs, "dest_port")' = <<ProtectedPorts>>
    <3>1. tmpfs'["dest_port"] = [reset |-> TRUE, add |-> <<ProtectedPorts>>]
      BY <2>1, <2>2, OptionNames DEF SetAll
    <3>. QED BY <3>1 DEF Get, Applied
  <2>5. ProtectedPorts = NodePorts
    BY <1>0, <1>r, <2>1, RulesProtect
  <2>6. ~marker /\ handler = "none"
    BY <1>0, <2>1 DEF ServicesFollow
  <2>. QED BY <1>p, <2>1, <2>3, <2>4, <2>5, <2>6 DEF BootInv, RulesWritten, ServicesFollow
<1>4. CASE CommitFirewall
  <2>1. /\ pc = "commit firewall" /\ pc' = "icmp" /\ UNCHANGED <<marker, handler>>
        /\ conf' = Committed(conf, tmpfs, "firewall")
        /\ tmpfs' = Flushed(tmpfs, "firewall")
    BY <1>4 DEF CommitFirewall
  <2>2. conf'["dest_port"] = Get(conf, tmpfs, "dest_port") /\ tmpfs'["dest_port"] = NoDelta
    BY <2>1, OptionNames, OptionFiles DEF Committed, Flushed
  <2>3. BootStagesFirewall'
    BY <1>0, <2>1 DEF BootStagesFirewall, Flushed
  <2>4. ~marker /\ handler = "none" /\ Get(conf, tmpfs, "dest_port") = <<NodePorts>>
    BY <1>0, <2>1 DEF ServicesFollow, RulesWritten
  <2>. QED BY <1>p, <2>1, <2>2, <2>3, <2>4 DEF BootInv, RulesWritten, ServicesFollow
<1>5. CASE InstallMarkRule
  BY <1>0, <1>p, <1>5 DEF InstallMarkRule, BootInv, BootStagesFirewall, RulesWritten,
    ServicesFollow
<1>6. CASE StopDhcp
  <2> DEFINE values == [ignore |-> "1"]
  <2>1. SetAndCommit(values, "dhcp")
    BY <1>6 DEF StopDhcp
  <2>2. DOMAIN values = {"ignore"} /\ values["ignore"] = "1"
    OBVIOUS
  <2>3. \A o \in DOMAIN values : ConfigOf[o] = "dhcp"
    BY OptionFiles
  <2> HIDE DEF values
  <2>4. \A o \in Options :
          /\ conf'[o] = IF o \in DOMAIN values THEN <<values[o]>> ELSE conf[o]
          /\ tmpfs'[o] = tmpfs[o]
    BY <1>0, <2>1, <2>3, BootCommit
  <2>5. /\ conf'["ignore"] = <<"1">> /\ conf'["dest_port"] = conf["dest_port"]
        /\ \A o \in Options : tmpfs'[o] = tmpfs[o]
    BY <2>2, <2>4, OptionNames
  <2>6. tmpfs'["dest_port"] = tmpfs["dest_port"]
    BY <2>5, OptionNames
  <2>. QED BY <1>0, <1>p, <1>6, <2>5, <2>6
       DEF StopDhcp, BootInv, BootStagesFirewall, RulesWritten, ServicesFollow
<1>k. ASSUME \A o \in Options : tmpfs'[o] = tmpfs[o],
             conf'["ignore"] = conf["ignore"], conf'["dest_port"] = conf["dest_port"],
             pc \in {"resolver", "initialized"}, pc' \in {"initialized", "marker"},
             UNCHANGED <<marker, handler, guarded, listening>>
      PROVE  BootInv'
  <2>1. tmpfs'["dest_port"] = tmpfs["dest_port"]
    BY <1>k, OptionNames
  <2>. QED BY <1>0, <1>p, <1>k, <2>1
       DEF BootInv, BootStagesFirewall, RulesWritten, ServicesFollow
<1>7. CASE InitialResolver
  <2> DEFINE values == [resolver |-> "auto"]
  <2>1. DOMAIN values = {"resolver"}
    OBVIOUS
  <2>2. \A o \in DOMAIN values : ConfigOf[o] = "dhcp"
    BY OptionFiles
  <2>3. CASE SetAndCommit(values, "dhcp") /\ pc' = "initialized"
    <3> HIDE DEF values
    <3>1. \A o \in Options :
            /\ conf'[o] = IF o \in DOMAIN values THEN <<values[o]>> ELSE conf[o]
            /\ tmpfs'[o] = tmpfs[o]
      BY <1>0, <2>2, <2>3, BootCommit
    <3>2. /\ conf'["ignore"] = conf["ignore"] /\ conf'["dest_port"] = conf["dest_port"]
          /\ \A o \in Options : tmpfs'[o] = tmpfs[o]
      BY <2>1, <3>1, OptionNames
    <3>. QED BY <1>7, <1>k, <2>3, <3>2 DEF InitialResolver
  <2>4. CASE UNCHANGED <<conf, tmpfs>> /\ pc' = "marker"
    BY <1>7, <1>k, <2>4 DEF InitialResolver
  <2>. QED BY <1>7, <2>3, <2>4 DEF InitialResolver
<1>8. CASE RecordInitialized
  <2> DEFINE values == [initialized |-> "1"]
  <2>1. DOMAIN values = {"initialized"}
    OBVIOUS
  <2>2. \A o \in DOMAIN values : ConfigOf[o] = "landscape"
    BY OptionFiles
  <2>3. SetAndCommit(values, "landscape") /\ pc' = "marker"
    BY <1>8 DEF RecordInitialized
  <2> HIDE DEF values
  <2>4. \A o \in Options :
          /\ conf'[o] = IF o \in DOMAIN values THEN <<values[o]>> ELSE conf[o]
          /\ tmpfs'[o] = tmpfs[o]
    BY <1>0, <2>2, <2>3, BootCommit
  <2>5. /\ conf'["ignore"] = conf["ignore"] /\ conf'["dest_port"] = conf["dest_port"]
        /\ \A o \in Options : tmpfs'[o] = tmpfs[o]
    BY <2>1, <2>4, OptionNames
  <2>. QED BY <1>8, <1>k, <2>3, <2>5 DEF RecordInitialized
<1>9. CASE TouchMarker
  BY <1>0, <1>p, <1>9 DEF TouchMarker, BootInv, BootStagesFirewall, RulesWritten,
    ServicesFollow
<1>10. CASE StartFirewall
  <2>1. marker => guarded' = NodePorts
    BY <1>0, <1>10, RulesetGuards DEF StartFirewall, RulesWritten
  <2>. QED BY <1>0, <1>p, <1>10, <2>1
       DEF StartFirewall, BootInv, BootStagesFirewall, RulesWritten, ServicesFollow
<1>11. CASE StartNetwork
  BY <1>0, <1>p, <1>11 DEF StartNetwork, BootInv, BootStagesFirewall, RulesWritten,
    ServicesFollow
<1>12. CASE StartListeners
  <2>1. listening' = NodePorts
    BY <1>12, ListenersBind
  <2>. QED BY <1>0, <1>p, <1>12, <2>1
       DEF StartListeners, BootInv, BootStagesFirewall, RulesWritten, ServicesFollow
<1>13. CASE StartRedirect
  <2>1. handler' # "none" => marker
    BY <1>0, <1>13 DEF StartRedirect, StartService, ServicesFollow
  <2>. QED BY <1>0, <1>p, <1>13, <2>1
       DEF StartRedirect, BootInv, BootStagesFirewall, RulesWritten, ServicesFollow
<1>. QED
  BY <1>1, <1>2, <1>3, <1>4, <1>5, <1>6, <1>7, <1>8, <1>9, <1>10, <1>11, <1>12,
     <1>13 DEF BootStep

\* Every step keeps the rules of a prepared life: nothing but the boot
\* sequence stages a rule, so a commit of an operator only hastens it.
LEMMA RulesNext ==
  TypeOK /\ StagedForLater /\ PortsWritten /\ BootInv /\ [Next]_vars => BootInv'
<1>. SUFFICES ASSUME TypeOK, StagedForLater, PortsWritten, BootInv, [Next]_vars
              PROVE  BootInv'
  OBVIOUS
<1>. USE DEF At, Goto, layerVars
<1>0. BootStagesFirewall /\ RulesWritten /\ ServicesFollow
  BY DEF BootInv
<1>p. ASSUME UNCHANGED env PROVE NodePorts' = NodePorts
  BY <1>p DEF NodePorts, EnvPorts
<1>1. CASE Starting
  <2>1. pc \in StartupSteps /\ pc' \in StartupSteps \union {"off"}
    BY <1>1 DEF Starting, StartupNext, Validate, MaskConsoles, SetPassword,
      SystemDefaults, ResetNetwork, AddListItem, CommitNetwork, SetContainer,
      CommitContainer, CopyServiceDefaults, CommitUhttpd, CommitDropbear,
      SetPorts, CommitPorts, StartupSteps
  <2>2. ~marker /\ handler = "none"
    BY <1>0, <2>1 DEF ServicesFollow, StartupSteps
  <2>3. UNCHANGED <<tmpfs, marker, handler>>
    BY <1>1 DEF Starting, servicesVars
  <2>. QED BY <1>0, <2>1, <2>2, <2>3
       DEF BootInv, BootStagesFirewall, RulesWritten, ServicesFollow, StartupSteps
<1>2. CASE Booting
  BY <1>2, RulesByBoot DEF Booting
<1>3. CASE PrepareFails
  <2>1. ~marker /\ handler = "none"
    BY <1>0, <1>3 DEF PrepareFails, PrepareSteps, ServicesFollow
  <2>. QED BY <1>0, <1>3, <2>1
       DEF PrepareFails, servicesVars, BootInv, BootStagesFirewall, RulesWritten,
           ServicesFollow
<1>4. CASE OperatorCommits
  <2>1. CASE pc \in StartupSteps
    <3>1. ~marker /\ handler = "none"
      BY <1>0, <2>1 DEF ServicesFollow, StartupSteps
    <3>. QED BY <1>0, <1>4, <2>1, <3>1
         DEF OperatorCommits, BootInv, BootStagesFirewall, RulesWritten,
             ServicesFollow, StartupSteps
  <2>2. CASE pc \notin StartupSteps
    <3>1. /\ conf' = CommittedAll(conf, tmpfs) /\ tmpfs' = NothingStaged
          /\ UNCHANGED <<pc, env, marker, guarded, listening, handler>>
      BY <1>4, <2>2 DEF OperatorCommits
    <3>2. /\ conf'["dest_port"] = Get(conf, tmpfs, "dest_port")
          /\ conf'["ignore"] = Get(conf, tmpfs, "ignore")
          /\ tmpfs'["dest_port"] = NoDelta
      BY <3>1, OptionNames DEF CommittedAll, NothingStaged
    <3>3. conf["dest_port"] \in Seq(SUBSET Nat) /\ conf["ignore"] \in Seq(Text)
      BY OptionNames DEF TypeOK, ConfigTypes, FilesOK, ValuesOf
    <3>4. conf'["ignore"] = conf["ignore"]
      <4>1. tmpfs["ignore"] = NoDelta
        BY <1>0, OptionNames, OptionFiles DEF BootStagesFirewall
      <4>. QED BY <3>2, <3>3, <4>1, AppliedNothing DEF Get
    <3>5. tmpfs["dest_port"] = NoDelta => conf'["dest_port"] = conf["dest_port"]
      BY <3>2, <3>3, AppliedNothing DEF Get
    <3>6. Get(conf, tmpfs, "dest_port")' = conf'["dest_port"]
      <4>1. PICK c \in Seq(SUBSET Nat) : c = conf'["dest_port"]
        <5>1. Get(conf, tmpfs, "dest_port") \in Seq(ValuesOf["dest_port"])
          BY GetType, OptionNames DEF TypeOK, ConfigTypes
        <5>. QED BY <3>2, <5>1 DEF ValuesOf
      <4>2. Applied(c, NoDelta) = c
        BY AppliedNothing
      <4>. QED BY <3>2, <4>1, <4>2 DEF Get
    <3>7. BootStagesFirewall'
      BY <3>1 DEF BootStagesFirewall, NothingStaged
    <3>8. RulesWritten'
      BY <1>0, <1>p, <3>1, <3>2, <3>4, <3>5, <3>6 DEF RulesWritten
    <3>. QED BY <1>0, <1>p, <3>1, <3>7, <3>8 DEF BootInv, ServicesFollow
  <2>. QED BY <2>1, <2>2
<1>5. ASSUME NEW u \in UserSettings \union {"dns"}, UserEdits(u) PROVE BootInv'
  <2>1. conf = [o \in Options |-> conf[o]]
    BY DEF TypeOK, ConfigTypes, FilesOK
  <2>2. conf'["dest_port"] = conf["dest_port"] /\ conf'["ignore"] = conf["ignore"]
    BY <1>5, <2>1, OptionNames DEF UserEdits, UserSettings
  <2>3. pc = "up" /\ UNCHANGED <<pc, env, tmpfs, marker, guarded, listening, handler>>
    BY <1>5 DEF UserEdits, servicesVars
  <2>. QED BY <1>0, <1>p, <2>2, <2>3
       DEF BootInv, BootStagesFirewall, RulesWritten, ServicesFollow
<1>6. CASE Die
  BY <1>6 DEF Die, Halt, NothingStaged, BootInv, BootStagesFirewall, RulesWritten,
    ServicesFollow
<1>7. CASE Restart \/ \E e \in Env : Recreate(e)
  <2>1. pc = "off" /\ pc' = "validate" /\ UNCHANGED servicesVars
    BY <1>7 DEF Restart, Recreate
  <2>2. ~marker /\ handler = "none"
    BY <1>0, <2>1 DEF ServicesFollow
  <2>. QED BY <1>0, <2>1, <2>2
       DEF servicesVars, BootInv, BootStagesFirewall, RulesWritten, ServicesFollow
<1>8. CASE ReloadFirewall
  <2>1. marker => guarded' = NodePorts
    BY <1>0, <1>8, RulesetGuards DEF ReloadFirewall, RulesWritten
  <2>. QED BY <1>0, <1>p, <1>8, <2>1
       DEF ReloadFirewall, BootInv, BootStagesFirewall, RulesWritten, ServicesFollow
<1>9. CASE RestartRedirect
  <2>1. handler' # "none" => marker
    BY <1>0, <1>9 DEF RestartRedirect, StartService, ServicesFollow
  <2>. QED BY <1>0, <1>p, <1>9, <2>1
       DEF RestartRedirect, BootInv, BootStagesFirewall, RulesWritten, ServicesFollow
<1>10. CASE HandlerExits \/ Respawning
  BY <1>0, <1>p, <1>10 DEF HandlerExits, Respawning, RespawnHandler, BootInv,
    BootStagesFirewall, RulesWritten, ServicesFollow
<1>11. CASE Reapplying \/ SettingUp \/ TearDownLan \/ UpdateLan \/ KernelGained \/ KernelLost
  <2>1. UNCHANGED <<pc, env, conf, tmpfs, marker, guarded, listening, handler>>
    BY <1>11 DEF Reapplying, Hotplug, SettingUp, SetUpLan, TearDownLan, UpdateLan,
      KernelGained, KernelLost, startupVars, servicesVars
  <2>. QED BY <1>0, <1>p, <2>1
       DEF BootInv, BootStagesFirewall, RulesWritten, ServicesFollow
<1>12. CASE UNCHANGED vars
  BY <1>0, <1>p, <1>12 DEF vars, startupVars, servicesVars, BootInv,
    BootStagesFirewall, RulesWritten, ServicesFollow
<1>. QED
  BY <1>1, <1>2, <1>3, <1>4, <1>5, <1>6, <1>7, <1>8, <1>9, <1>10, <1>11, <1>12 DEF Next

-----------------------------------------------------------------------------
\* The invariant says what the two properties ask for.
LEMMA BootGuards == BootInv => PreparedPortsGuarded /\ OfferedOnlyGuarded
BY DEF BootInv, RulesWritten, ServicesFollow, PreparedPortsGuarded,
   OfferedOnlyGuarded, NodePorts

\* The whole invariant, as it is inductive.
LEMMA GuardsAlways == Spec => [](PortsWritten /\ BootInv)
<1>1. Init => TypeOK /\ StagedForLater /\ PortsWritten /\ BootInv
  BY InitType, StagedInit, PortsInit, BootInit
<1>2. TypeOK /\ StagedForLater /\ PortsWritten /\ BootInv /\ [Next]_vars
        => (TypeOK /\ StagedForLater /\ PortsWritten /\ BootInv)'
  BY NextType, StagedNext, PortsNext, RulesNext DEF BootInv
<1>. QED BY <1>1, <1>2, PTL DEF Spec

\* Once prepared, the ruleset restricts exactly the ports with a listener
\* (landscape-prepare reads them from the file start.sh wrote).
THEOREM GuardedPorts == Spec => []PreparedPortsGuarded
BY GuardsAlways, BootGuards, PTL

\* While Landscape has a handler, every listener is one the ruleset restricts,
\* on the ports of this environment, and dnsmasq serves no DHCP
\* (landscape-redirect starts nothing without the marker).
THEOREM OfferedGuarded == Spec => []OfferedOnlyGuarded
BY GuardsAlways, BootGuards, PTL
=============================================================================
