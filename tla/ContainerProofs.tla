--------------------------- MODULE ContainerProofs ----------------------------
(*****************************************************************************)
(* The types of the container, for every environment, every set of texts    *)
(* and addresses and every bound on faults: the store of uci first, then    *)
(* start.sh, then the boot sequence, then what interrupts them.  The        *)
(* provers reason badly about Seq(ValuesOf[o]), so what is known of         *)
(* sequences is stated for any set first.                                   *)
(*                                                                          *)
(* Then what start.sh writes and leaves unwritten: an environment it        *)
(* rejects changes no file, and a start that reaches init has committed     *)
(* all it staged, whatever was staged when it began.                        *)
(*****************************************************************************)
EXTENDS ContainerProperties, TLAPS

-----------------------------------------------------------------------------
(* Sequences and the operations of uci.                                    *)

\* The options, one by one.
LEMMA OptionNames ==
  Options = {"dns", "ip6addr", "listen_http", "listen_https", "ssh_listen",
             "timezone", "proxy", "http_port", "https_port", "ssh_port",
             "initialized", "dest_port", "masq", "defaults", "ignore",
             "resolver", "zonename", "hostname"}
BY DEF Options, ConfigOf

\* The file of each option.
LEMMA OptionFiles ==
  /\ ConfigOf["dns"] = "network" /\ ConfigOf["ip6addr"] = "network"
  /\ ConfigOf["listen_http"] = "uhttpd" /\ ConfigOf["listen_https"] = "uhttpd"
  /\ ConfigOf["ssh_listen"] = "dropbear" /\ ConfigOf["timezone"] = "landscape"
  /\ ConfigOf["proxy"] = "landscape" /\ ConfigOf["http_port"] = "landscape"
  /\ ConfigOf["https_port"] = "landscape" /\ ConfigOf["ssh_port"] = "landscape"
  /\ ConfigOf["initialized"] = "landscape" /\ ConfigOf["dest_port"] = "firewall"
  /\ ConfigOf["masq"] = "firewall" /\ ConfigOf["defaults"] = "firewall"
  /\ ConfigOf["ignore"] = "dhcp" /\ ConfigOf["resolver"] = "dhcp"
  /\ ConfigOf["zonename"] = "system" /\ ConfigOf["hostname"] = "system"
BY DEF ConfigOf

\* The empty list has any type of list.
LEMMA EmptySeqType == ASSUME NEW S PROVE <<>> \in Seq(S)
OBVIOUS

\* A scalar option is a list of one.
LEMMA SingletonType == ASSUME NEW S, NEW x \in S PROVE <<x>> \in Seq(S)
OBVIOUS

\* add_list keeps the type of a list.
LEMMA AppendType ==
  ASSUME NEW S, NEW s \in Seq(S), NEW x \in S PROVE Append(s, x) \in Seq(S)
OBVIOUS

\* One turn of a loop over a list.
LEMMA HeadTailType ==
  ASSUME NEW S, NEW s \in Seq(S), s # <<>>
  PROVE  Head(s) \in S /\ Tail(s) \in Seq(S)
OBVIOUS

\* The value of a scalar option that is present.
LEMMA FirstType ==
  ASSUME NEW S, NEW s \in Seq(S), s # <<>> PROVE s[1] \in S
OBVIOUS

\* A staged change of the option's type leads to a list of that type.
LEMMA AppliedType ==
  ASSUME NEW S, NEW old \in Seq(S), NEW d \in [reset: BOOLEAN, add: Seq(S)]
  PROVE  Applied(old, d) \in Seq(S)
BY DEF Applied

\* What uci get prints has the option's type.
LEMMA GetType ==
  ASSUME NEW files, FilesOK(files), NEW store, StoreOK(store),
         NEW o \in Options
  PROVE  Get(files, store, o) \in Seq(ValuesOf[o])
BY AppliedType DEF FilesOK, StoreOK, Get

\* uci set of well-typed values keeps the staging area well typed.
LEMMA SetAllType ==
  ASSUME NEW store, StoreOK(store), NEW values,
         \A o \in DOMAIN values : values[o] \in ValuesOf[o]
  PROVE  StoreOK(SetAll(store, values))
<1> DEFINE new == SetAll(store, values)
<1>1. new = [o \in Options |-> new[o]]
  BY DEF SetAll
<1>2. ASSUME NEW o \in Options
      PROVE  new[o] \in [reset: BOOLEAN, add: Seq(ValuesOf[o])]
  <2>1. CASE o \in DOMAIN values
    <3>1. new[o] = [reset |-> TRUE, add |-> <<values[o]>>]
      BY <2>1 DEF SetAll
    <3>2. <<values[o]>> \in Seq(ValuesOf[o])
      BY <2>1, SingletonType
    <3>. QED BY <3>1, <3>2
  <2>2. CASE o \notin DOMAIN values
    BY <2>2 DEF SetAll, StoreOK
  <2>. QED BY <2>1, <2>2
<1>. QED BY <1>1, <1>2 DEF StoreOK

\* So does uci add_list of a well-typed item.
LEMMA AddListType ==
  ASSUME NEW store, StoreOK(store), NEW o \in Options, NEW item \in ValuesOf[o]
  PROVE  StoreOK(AddList(store, o, item))
<1>1. store[o].reset \in BOOLEAN /\ store[o].add \in Seq(ValuesOf[o])
  BY DEF StoreOK
<1>2. Append(store[o].add, item) \in Seq(ValuesOf[o])
  BY <1>1, AppendType
<1>. QED BY <1>1, <1>2 DEF StoreOK, AddList

\* An option without a staged change is well typed.
LEMMA NoDeltaType == ASSUME NEW S PROVE NoDelta \in [reset: BOOLEAN, add: Seq(S)]
BY EmptySeqType DEF NoDelta

\* So is an empty staging area.
LEMMA NothingStagedType == StoreOK(NothingStaged)
BY NoDeltaType DEF StoreOK, NothingStaged

\* A commit keeps the files and the staging area well typed.
LEMMA CommittedType ==
  ASSUME NEW files, FilesOK(files), NEW store, StoreOK(store), NEW f
  PROVE  FilesOK(Committed(files, store, f)) /\ StoreOK(Flushed(store, f))
<1>1. FilesOK(Committed(files, store, f))
  BY GetType DEF FilesOK, Committed
<1>2. StoreOK(Flushed(store, f))
  BY NoDeltaType DEF StoreOK, Flushed
<1>. QED BY <1>1, <1>2

\* So does a commit of every file.
LEMMA CommittedAllType ==
  ASSUME NEW files, FilesOK(files), NEW store, StoreOK(store)
  PROVE  FilesOK(CommittedAll(files, store))
BY GetType DEF FilesOK, CommittedAll

\* And so does emptying a file.
LEMMA EmptiedType ==
  ASSUME NEW files, FilesOK(files), NEW f
  PROVE  FilesOK(Emptied(files, f))
BY EmptySeqType DEF FilesOK, Emptied

-----------------------------------------------------------------------------
(* The initial states.                                                     *)

\* A new container with an empty volume is well typed.
LEMMA InitType == Init => TypeOK
<1>. SUFFICES ASSUME Init PROVE TypeOK
  OBVIOUS
<1>1. FilesOK(conf)
  <2>1. "image" \in Text
    BY TextAssumption
  <2>2. ASSUME NEW o \in Options PROVE conf[o] \in Seq(ValuesOf[o])
    <3>1. CASE o \in {"resolver", "defaults"}
      <4>1. ValuesOf[o] = Text
        BY <3>1 DEF ValuesOf
      <4>2. conf[o] = <<"image">>
        BY <3>1 DEF Init, ImageConfig
      <4>. QED BY <2>1, <4>1, <4>2, SingletonType
    <3>2. CASE o \notin {"resolver", "defaults"}
      BY <3>2, EmptySeqType DEF Init, ImageConfig
    <3>. QED BY <3>1, <3>2
  <2>. QED BY <2>2 DEF FilesOK, Init, ImageConfig
<1>2. ConfigTypes
  BY <1>1, NothingStagedType, EmptySeqType DEF Init, Halted, ConfigTypes
<1>3. ContainerTypes
  <2>1. pc \in Steps
    BY DEF Init, Steps, StartupSteps
  <2>2. password \in Text
    BY TextAssumption DEF Init
  <2>3. 0 \in 0..MaxFaults /\ 0 \in 0..MaxRestarts
    BY BoundsAssumption
  <2>4. kernel \in BOOLEAN
    BY KernelsAssumption DEF Init
  <2>. QED BY <2>1, <2>2, <2>3, <2>4 DEF Init, ContainerTypes
<1>4. NoArgs \in [mode: Text, sport: Nat, level: Text, icmp: BOOLEAN, mark: Nat]
  BY TextAssumption DEF NoArgs
<1>5. ServiceTypes
  BY <1>4 DEF Init, Halted, ServiceTypes
<1>. QED BY <1>2, <1>3, <1>5 DEF TypeOK

-----------------------------------------------------------------------------
(* One step of start.sh.                                                   *)

\* The fields of an environment, from the assumption on Env.
LEMMA EnvFields ==
  ASSUME env \in Env
  PROVE  /\ env.dns \in Seq(Text) /\ env.ip6 \in Seq(Text)
         /\ env.ports \in Ports /\ env.tz \in Text /\ env.password \in Text
         /\ env.proxy \in ProxyParams
BY EnvAssumption DEF EnvType

\* Normalising the spelling of the parameters keeps their type.
LEMMA NormalProxyType ==
  ASSUME NEW p \in ProxyParams PROVE NormalProxy(p) \in ProxyParams
<1>1. {"multiple-tproxy", "true", "false"} \subseteq Text
  BY TextAssumption
<1>. QED BY <1>1 DEF NormalProxy, ProxyParams

\* The options that loops append to, and their items.
LEMMA ListOptions ==
  /\ {"dns", "ip6addr", "listen_http", "listen_https"} \subseteq Options
  /\ ValuesOf["dns"] = Text /\ ValuesOf["ip6addr"] = Text
  /\ ValuesOf["listen_http"] = Text \X Nat
  /\ ValuesOf["listen_https"] = Text \X Nat
BY OptionNames DEF ValuesOf

\* The items of the two loops.
AddressItems == {"dns", "ip6addr"} \X Text
ListenItems == {"listen_http", "listen_https"} \X (Text \X Nat)

\* The items of a `for` loop over addresses.
LEMMA ItemsType ==
  ASSUME NEW o \in {"dns", "ip6addr"}, NEW list \in Seq(Text)
  PROVE  Items(o, list) \in Seq(AddressItems)
<1>1. list \in [1..Len(list) -> Text] /\ DOMAIN list = 1..Len(list)
  OBVIOUS
<1>2. Items(o, list) \in [1..Len(list) -> AddressItems]
  BY <1>1 DEF Items, AddressItems
<1>3. Len(list) \in Nat
  OBVIOUS
<1>. QED BY <1>2, <1>3

\* A list of items of one kind is a list of items.
LEMMA WiderSeq == ASSUME NEW S, NEW T, S \subseteq T, NEW s \in Seq(S) PROVE s \in Seq(T)
OBVIOUS

\* Lists joined.
LEMMA ConcatType ==
  ASSUME NEW S, NEW s \in Seq(S), NEW t \in Seq(S) PROVE s \o t \in Seq(S)
OBVIOUS

\* What the loops of start.sh add to the network file.
LEMMA NetworkItemsType ==
  ASSUME NEW dns \in Seq(Text), NEW ip6 \in Seq(Text)
  PROVE  /\ Items("dns", dns) \o Items("ip6addr", ip6) \in Seq(AddressItems)
         /\ Items("dns", dns) \o Items("ip6addr", ip6) \in Seq(LoopItems)
<1>1. Items("dns", dns) \o Items("ip6addr", ip6) \in Seq(AddressItems)
  BY ItemsType, ConcatType
<1>2. AddressItems \subseteq LoopItems
  BY DEF AddressItems, LoopItems
<1>. QED BY <1>1, <1>2, WiderSeq

\* What landscape-management adds to the file of the web server.
LEMMA UhttpdItemsType ==
  ASSUME env.ports \in Ports, CopyServiceDefaults
  PROVE  todo' \in Seq(ListenItems) /\ todo' \in Seq(LoopItems)
<1>1. "0.0.0.0" \in Text /\ "[::]" \in Text
  BY TextAssumption
<1>2. env.ports.http \in Nat /\ env.ports.https \in Nat
  BY DEF Ports
<1>3. ASSUME NEW port \in Nat, NEW o \in {"listen_http", "listen_https"}
      PROVE  <<o, <<"0.0.0.0", port>> >> \in ListenItems /\ <<o, <<"[::]", port>> >> \in ListenItems
  BY <1>1 DEF ListenItems
<1>5. \A a, b, c, d \in ListenItems : <<a, b, c, d>> \in Seq(ListenItems)
  OBVIOUS
<1>6. todo' \in Seq(ListenItems)
  BY <1>2, <1>3, <1>5 DEF CopyServiceDefaults
<1>4. ListenItems \subseteq LoopItems
  BY DEF ListenItems, LoopItems
<1>. QED BY <1>6, <1>4, WiderSeq

\* What a step of start.sh may change.
StartupTypes ==
  /\ pc \in Steps /\ env \in Env /\ password \in Text /\ masked \in BOOLEAN
  /\ FilesOK(conf) /\ StoreOK(layer) /\ todo \in Seq(LoopItems)

\* Each step of start.sh keeps the types of what it works on.
LEMMA StartupType == StartupTypes /\ StartupNext => StartupTypes'
<1>. SUFFICES ASSUME StartupTypes, StartupNext PROVE StartupTypes'
  OBVIOUS
<1>. USE DEF StartupTypes
<1>t. StartupSteps \subseteq Steps /\ "off" \in Steps
  BY DEF Steps
<1>e. /\ env.dns \in Seq(Text) /\ env.ip6 \in Seq(Text)
      /\ env.ports \in Ports /\ env.tz \in Text /\ env.password \in Text
      /\ env.proxy \in ProxyParams
  BY EnvFields
<1>1. CASE Validate
  BY <1>1, <1>t DEF Validate, Goto, StartupSteps
<1>2. CASE MaskConsoles
  BY <1>2, <1>t DEF MaskConsoles, Goto, StartupSteps
<1>3. CASE SetPassword
  BY <1>3, <1>t, <1>e DEF SetPassword, Goto, StartupSteps
<1>4. CASE SystemDefaults
  <2> DEFINE values == [hostname |-> "ImmortalWrt", zonename |-> "Asia/Shanghai"]
  <2> DEFINE staged == SetAll(layer, values)
  <2>1. \A o \in DOMAIN values : values[o] \in ValuesOf[o]
    <3>1. ValuesOf["hostname"] = Text /\ ValuesOf["zonename"] = Text
      BY DEF ValuesOf
    <3>2. "ImmortalWrt" \in Text /\ "Asia/Shanghai" \in Text
      BY TextAssumption
    <3>. QED BY <3>1, <3>2
  <2>2. StoreOK(staged)
    BY <2>1, SetAllType
  <2>3. FilesOK(Committed(conf, staged, "system")) /\ StoreOK(Flushed(staged, "system"))
    BY <2>2, CommittedType
  <2>. QED BY <1>4, <1>t, <2>3 DEF SystemDefaults, Goto, StartupSteps
<1>5. CASE ResetNetwork
  <2>2. FilesOK(Emptied(conf, "network"))
    BY EmptiedType
  <2>3. Items("dns", env.dns) \o Items("ip6addr", env.ip6) \in Seq(LoopItems)
    BY <1>e, NetworkItemsType
  <2>. QED BY <1>5, <1>t, <2>2, <2>3 DEF ResetNetwork, Goto, StartupSteps
<1>6. CASE AddListItem
  <2>1. Head(todo) \in LoopItems /\ Tail(todo) \in Seq(LoopItems)
    BY <1>6, HeadTailType DEF AddListItem
  <2>2. Head(todo)[1] \in Options /\ Head(todo)[2] \in ValuesOf[Head(todo)[1]]
    <3>1. CASE Head(todo) \in {"dns", "ip6addr"} \X Text
      BY <3>1, ListOptions
    <3>2. CASE Head(todo) \in {"listen_http", "listen_https"} \X (Text \X Nat)
      BY <3>2, ListOptions
    <3>. QED BY <2>1, <3>1, <3>2 DEF LoopItems
  <2>4. StoreOK(AddList(layer, Head(todo)[1], Head(todo)[2]))
    BY <2>2, AddListType
  <2>. QED BY <1>6, <2>1, <2>4 DEF AddListItem
<1>7. CASE CommitNetwork
  BY <1>7, <1>t, CommittedType DEF CommitNetwork, Commit, Goto, StartupSteps
<1>8. CASE SetContainer
  <2> DEFINE values == [timezone |-> env.tz, proxy |-> NormalProxy(env.proxy)]
  <2>1. \A o \in DOMAIN values : values[o] \in ValuesOf[o]
    BY <1>e, NormalProxyType DEF ValuesOf
  <2>2. StoreOK(SetAll(layer, values))
    BY <2>1, SetAllType
  <2>. QED BY <1>8, <1>t, <2>2 DEF SetContainer, Stage, Goto, StartupSteps
<1>9. CASE CommitContainer
  BY <1>9, <1>t, CommittedType DEF CommitContainer, Commit, Goto, StartupSteps
<1>10. CASE CopyServiceDefaults
  <2>5. todo' \in Seq(LoopItems)
    BY <1>e, <1>10, UhttpdItemsType DEF CopyServiceDefaults
  <2>6. FilesOK(Emptied(Emptied(conf, "uhttpd"), "dropbear"))
    BY EmptiedType
  <2>. QED BY <1>10, <1>t, <2>5, <2>6 DEF CopyServiceDefaults, Goto, StartupSteps
<1>11. CASE CommitUhttpd
  <2> DEFINE values == [ssh_listen |-> env.ports.ssh]
  <2> DEFINE staged == SetAll(layer, values)
  <2>1. \A o \in DOMAIN values : values[o] \in ValuesOf[o]
    BY <1>e DEF ValuesOf, Ports
  <2>2. StoreOK(staged)
    BY <2>1, SetAllType
  <2>3. FilesOK(Committed(conf, staged, "uhttpd")) /\ StoreOK(Flushed(staged, "uhttpd"))
    BY <2>2, CommittedType
  <2>. QED BY <1>11, <1>t, <2>3 DEF CommitUhttpd, Goto, StartupSteps
<1>12. CASE CommitDropbear
  BY <1>12, <1>t, CommittedType DEF CommitDropbear, Commit, Goto, StartupSteps
<1>13. CASE SetPorts
  <2> DEFINE values == [http_port  |-> env.ports.http, https_port |-> env.ports.https,
                        ssh_port   |-> env.ports.ssh]
  <2>1. \A o \in DOMAIN values : values[o] \in ValuesOf[o]
    BY <1>e DEF ValuesOf, Ports
  <2>2. StoreOK(SetAll(layer, values))
    BY <2>1, SetAllType
  <2>. QED BY <1>13, <1>t, <2>2 DEF SetPorts, Stage, Goto, StartupSteps
<1>14. CASE CommitPorts
  BY <1>14, <1>t, CommittedType DEF CommitPorts, Commit, Goto, StartupSteps
<1>. QED
  BY <1>1, <1>2, <1>3, <1>4, <1>5, <1>6, <1>7, <1>8, <1>9, <1>10, <1>11, <1>12,
     <1>13, <1>14 DEF StartupNext

-----------------------------------------------------------------------------
(* One step of the boot sequence and of the running container.             *)

\* uci set and uci commit of landscape-prepare keep the types.
LEMMA SetAndCommitType ==
  ASSUME FilesOK(conf), StoreOK(tmpfs), NEW values, NEW f,
         \A o \in DOMAIN values : values[o] \in ValuesOf[o],
         SetAndCommit(values, f)
  PROVE  FilesOK(conf)' /\ StoreOK(tmpfs)'
<1>1. StoreOK(SetAll(tmpfs, values))
  BY SetAllType
<1>2. /\ FilesOK(Committed(conf, SetAll(tmpfs, values), f))
      /\ StoreOK(Flushed(SetAll(tmpfs, values), f))
  BY <1>1, CommittedType
<1>. QED BY <1>2 DEF SetAndCommit

\* The elements of a list have its element type.
LEMMA RangeType == ASSUME NEW S, NEW s \in Seq(S) PROVE Range(s) \subseteq S
BY DEF Range

\* The ports of the firewall rules are numbers.
LEMMA ProtectedPortsType ==
  ASSUME FilesOK(conf), StoreOK(tmpfs) PROVE ProtectedPorts \in SUBSET Nat
<1>1. ASSUME NEW o \in {"http_port", "https_port", "ssh_port"}
      PROVE  Range(Get(conf, tmpfs, o)) \subseteq Nat
  <2>1. o \in Options /\ ValuesOf[o] = Nat
    BY <1>1, OptionNames DEF ValuesOf
  <2>2. Get(conf, tmpfs, o) \in Seq(Nat)
    BY <2>1, GetType
  <2>. QED BY <2>2, RangeType
<1>2. UNION {Range(Get(conf, tmpfs, o)) : o \in {"http_port", "https_port", "ssh_port"}}
        \subseteq Nat
  BY <1>1
<1>. QED BY <1>2 DEF ProtectedPorts

\* The parameters read back, or their defaults, are parameters.
LEMMA StoredProxyType ==
  ASSUME FilesOK(conf), StoreOK(tmpfs) PROVE StoredProxy \in ProxyParams
<1>1. DefaultProxy \in ProxyParams
  <2>1. "route" \in Text /\ "true" \in Text /\ "ERROR" \in Text
    BY TextAssumption
  <2>. QED BY <2>1 DEF DefaultProxy, ProxyParams
<1>2. "proxy" \in Options /\ ValuesOf["proxy"] = ProxyParams
  BY OptionNames DEF ValuesOf
<1>3. Get(conf, tmpfs, "proxy") \in Seq(ProxyParams)
  BY <1>2, GetType
<1>. QED BY <1>1, <1>3, FirstType DEF StoredProxy

\* The command lines procd may hold.
ArgsType == [mode: Text, sport: Nat, level: Text, icmp: BOOLEAN, mark: Nat]

\* The command line made of parameters is a command line.
LEMMA CommandLineType ==
  ASSUME NEW p \in ProxyParams PROVE CommandLine(p) \in ArgsType
BY DEF CommandLine, ProxyParams, ArgsType

\* start_service leaves a well-typed instance.
LEMMA StartServiceType ==
  ASSUME TypeOK, StartService
  PROVE  handler' \in {"none", "running", "exited"} /\ args' \in ArgsType
<1>1. CommandLine(StoredProxy) \in ArgsType
  BY StoredProxyType, CommandLineType DEF TypeOK, ConfigTypes
<1>. QED BY <1>1 DEF StartService, TypeOK, ServiceTypes, ArgsType

\* fw4 loads a well-typed ruleset from well-typed files.
LEMMA LoadRulesetType ==
  ASSUME FilesOK(conf), LoadRuleset
  PROVE  chain' \in BOOLEAN /\ guarded' \subseteq Nat /\ marks' \subseteq Nat
<1>1. "dest_port" \in Options /\ ValuesOf["dest_port"] = SUBSET Nat
  BY OptionNames DEF ValuesOf
<1>2. conf["dest_port"] \in Seq(SUBSET Nat)
  BY <1>1 DEF FilesOK
<1>3. Range(conf["dest_port"]) \subseteq SUBSET Nat
  BY <1>2, RangeType
<1>. QED BY <1>3 DEF LoadRuleset

\* A stopped container is well typed.
LEMMA HaltType ==
  ASSUME Halt PROVE StoreOK(tmpfs)' /\ ServiceTypes'
<1>1. NoArgs \in ArgsType
  BY TextAssumption DEF NoArgs, ArgsType
<1>. QED BY <1>1, NothingStagedType DEF Halt, ServiceTypes, ArgsType

\* The ports with a listener are numbers.
LEMMA ListenersType ==
  ASSUME FilesOK(conf), StartListeners PROVE listening' \subseteq Nat
<1>1. /\ "listen_http" \in Options /\ ValuesOf["listen_http"] = Text \X Nat
      /\ "listen_https" \in Options /\ ValuesOf["listen_https"] = Text \X Nat
      /\ "ssh_listen" \in Options /\ ValuesOf["ssh_listen"] = Nat
  BY OptionNames DEF ValuesOf
<1>2. /\ conf["listen_http"] \in Seq(Text \X Nat)
      /\ conf["listen_https"] \in Seq(Text \X Nat)
      /\ conf["ssh_listen"] \in Seq(Nat)
  BY <1>1 DEF FilesOK
<1>3. /\ Range(conf["listen_http"]) \subseteq Text \X Nat
      /\ Range(conf["listen_https"]) \subseteq Text \X Nat
      /\ Range(conf["ssh_listen"]) \subseteq Nat
  BY <1>2, RangeType
<1>. QED BY <1>3 DEF StartListeners

\* Each step of the boot sequence keeps the types.
LEMMA BootType == TypeOK /\ BootStep => ConfigTypes' /\ ServiceTypes'
                          /\ pc' \in Steps /\ env' \in Env
                          /\ password' \in Text /\ masked' \in BOOLEAN
<1>. SUFFICES ASSUME TypeOK, BootStep
              PROVE  /\ ConfigTypes' /\ ServiceTypes'
                     /\ pc' \in Steps /\ env' \in Env
                     /\ password' \in Text /\ masked' \in BOOLEAN
  OBVIOUS
<1>. USE DEF TypeOK, ConfigTypes, ContainerTypes, layerVars
<1>t. PrepareSteps \union {"off", "fw4", "netifd", "listeners", "redirect", "up"} \subseteq Steps
  BY DEF Steps
<1>1. CASE ExecInit
  BY <1>1, <1>t, HaltType DEF ExecInit, Goto, PrepareSteps
<1>2. CASE PrepareSystem
  <2>1. Get(conf, tmpfs, "timezone")[1] \in Text
    <3>1. "timezone" \in Options /\ ValuesOf["timezone"] = Text
      BY OptionNames DEF ValuesOf
    <3>2. Get(conf, tmpfs, "timezone") \in Seq(Text)
      BY <3>1, GetType
    <3>. QED BY <1>2, <3>2, FirstType DEF PrepareSystem
  <2>2. ValuesOf["zonename"] = Text
    BY DEF ValuesOf
  <2> DEFINE values == [zonename |-> Get(conf, tmpfs, "timezone")[1]]
  <2>5. \A o \in DOMAIN values : values[o] \in ValuesOf[o]
    BY <2>1, <2>2
  <2>6. SetAndCommit(values, "system")
    BY <1>2 DEF PrepareSystem
  <2>3. FilesOK(conf)' /\ StoreOK(tmpfs)'
    BY <2>5, <2>6, SetAndCommitType
  <2>4. ServiceTypes'
    BY <1>2 DEF PrepareSystem, ServiceTypes
  <2>. QED BY <1>2, <1>t, <2>3, <2>4 DEF PrepareSystem, Goto, PrepareSteps
<1>3. CASE StageFirewall
  <2>1. ProtectedPorts \in SUBSET Nat /\ "1" \in Text
    BY ProtectedPortsType, TextAssumption
  <2>2. ValuesOf["dest_port"] = SUBSET Nat /\ ValuesOf["masq"] = Text
    BY DEF ValuesOf
  <2> DEFINE values == [dest_port |-> ProtectedPorts, masq |-> "1"]
  <2>5. \A o \in DOMAIN values : values[o] \in ValuesOf[o]
    <3>1. DOMAIN values = {"dest_port", "masq"}
      OBVIOUS
    <3>2. values["dest_port"] = ProtectedPorts /\ values["masq"] = "1"
      OBVIOUS
    <3> HIDE DEF values
    <3>. QED BY <2>1, <2>2, <3>1, <3>2
  <2>3. StoreOK(SetAll(tmpfs, values))
    BY <2>5, SetAllType
  <2>4. ServiceTypes'
    BY <1>3 DEF StageFirewall, ServiceTypes
  <2>. QED BY <1>3, <1>t, <2>3, <2>4 DEF StageFirewall, Goto, PrepareSteps
<1>4. CASE CommitFirewall
  <2>1. ServiceTypes'
    BY <1>4 DEF CommitFirewall, ServiceTypes
  <2>. QED BY <1>4, <1>t, <2>1, CommittedType DEF CommitFirewall, Goto, PrepareSteps
<1>5. CASE InstallMarkRule
  <2>1. StoredProxy.mark \in Nat
    BY StoredProxyType DEF ProxyParams
  <2>2. ServiceTypes'
    BY <1>5, <2>1 DEF InstallMarkRule, ServiceTypes
  <2>. QED BY <1>5, <1>t, <2>2 DEF InstallMarkRule, Goto, PrepareSteps
<1>6. CASE StopDhcp
  <2>1. "1" \in Text /\ ValuesOf["ignore"] = Text
    BY TextAssumption DEF ValuesOf
  <2>2. FilesOK(conf)' /\ StoreOK(tmpfs)'
    BY <1>6, <2>1, SetAndCommitType DEF StopDhcp
  <2>3. ServiceTypes'
    BY <1>6 DEF StopDhcp, ServiceTypes
  <2>. QED BY <1>6, <1>t, <2>2, <2>3 DEF StopDhcp, Goto, PrepareSteps
<1>7. CASE InitialResolver
  <2>1. "auto" \in Text /\ ValuesOf["resolver"] = Text
    BY TextAssumption DEF ValuesOf
  <2>2. FilesOK(conf)' /\ StoreOK(tmpfs)'
    BY <1>7, <2>1, SetAndCommitType DEF InitialResolver
  <2>3. ServiceTypes'
    BY <1>7 DEF InitialResolver, ServiceTypes
  <2>. QED BY <1>7, <1>t, <2>2, <2>3 DEF InitialResolver, Goto, PrepareSteps
<1>8. CASE RecordInitialized
  <2>1. "1" \in Text /\ ValuesOf["initialized"] = Text
    BY TextAssumption DEF ValuesOf
  <2>2. FilesOK(conf)' /\ StoreOK(tmpfs)'
    BY <1>8, <2>1, SetAndCommitType DEF RecordInitialized
  <2>3. ServiceTypes'
    BY <1>8 DEF RecordInitialized, ServiceTypes
  <2>. QED BY <1>8, <1>t, <2>2, <2>3 DEF RecordInitialized, Goto, PrepareSteps
<1>9. CASE TouchMarker
  <2>1. ServiceTypes'
    BY <1>9 DEF TouchMarker, ServiceTypes
  <2>. QED BY <1>9, <1>t, <2>1 DEF TouchMarker, Goto
<1>10. CASE StartFirewall
  <2>1. ServiceTypes'
    BY <1>10, LoadRulesetType DEF StartFirewall, ServiceTypes
  <2>. QED BY <1>10, <1>t, <2>1 DEF StartFirewall, Goto
<1>11. CASE StartNetwork
  <2>1. ServiceTypes'
    BY <1>11 DEF StartNetwork, ServiceTypes, InterfaceEvents
  <2>. QED BY <1>11, <1>t, <2>1 DEF StartNetwork, Goto
<1>12. CASE StartListeners
  <2>1. listening' \subseteq Nat
    BY <1>12, ListenersType
  <2>2. ServiceTypes'
    BY <1>12, <2>1 DEF StartListeners, ServiceTypes
  <2>. QED BY <1>12, <1>t, <2>2 DEF StartListeners, Goto
<1>13. CASE StartRedirect
  <2>1. ServiceTypes'
    BY <1>13, StartServiceType DEF StartRedirect, ServiceTypes, ArgsType
  <2>. QED BY <1>13, <1>t, <2>1 DEF StartRedirect, Goto
<1>. QED
  BY <1>1, <1>2, <1>3, <1>4, <1>5, <1>6, <1>7, <1>8, <1>9, <1>10, <1>11, <1>12,
     <1>13 DEF BootStep

-----------------------------------------------------------------------------
(* One step of the container.                                              *)

\* Each step of the container keeps the types.
LEMMA NextType == TypeOK /\ [Next]_vars => TypeOK'
<1>. SUFFICES ASSUME TypeOK, [Next]_vars PROVE TypeOK'
  OBVIOUS
<1>. USE DEF TypeOK, ConfigTypes, ContainerTypes
<1>t. {"off", "validate"} \subseteq Steps
  BY DEF Steps, StartupSteps
<1>f. ASSUME Fault PROVE faults' \in 0..MaxFaults
  BY <1>f, BoundsAssumption DEF Fault
<1>1. CASE Starting
  <2>1. ServiceTypes' /\ StoreOK(tmpfs)'
    BY <1>1 DEF Starting, servicesVars, ServiceTypes
  <2>2. StartupTypes'
    BY <1>1, StartupType DEF Starting, StartupTypes
  <2>. QED BY <1>1, <2>1, <2>2 DEF Starting, Undisturbed, StartupTypes
<1>2. CASE Booting
  BY <1>2, BootType DEF Booting, Undisturbed
<1>3. CASE PrepareFails /\ Disturbed
  <2>1. "fw4" \in Steps
    BY DEF Steps
  <2>2. ServiceTypes'
    BY <1>3 DEF PrepareFails, servicesVars, ServiceTypes
  <2>. QED BY <1>3, <1>f, <2>1, <2>2
       DEF PrepareFails, Disturbed, Goto, layerVars, servicesVars
<1>4. CASE HandlerExits /\ Disturbed
  <2>1. ServiceTypes'
    BY <1>4 DEF HandlerExits, ServiceTypes
  <2>. QED BY <1>4, <1>f, <2>1 DEF HandlerExits, Disturbed, layerVars
<1>5. CASE (TearDownLan \/ UpdateLan) /\ Disturbed
  <2>1. ServiceTypes'
    BY <1>5 DEF TearDownLan, UpdateLan, ServiceTypes, InterfaceEvents
  <2>. QED BY <1>5, <1>f, <2>1 DEF TearDownLan, UpdateLan, Disturbed, layerVars
<1>6. CASE Respawning
  <2>1. ServiceTypes'
    BY <1>6 DEF Respawning, RespawnHandler, ServiceTypes
  <2>. QED BY <1>6, <2>1 DEF Respawning, RespawnHandler, Undisturbed, layerVars
<1>7. CASE Reapplying
  <2>1. PICK event \in InterfaceEvents : Hotplug(event)
    BY <1>7 DEF Reapplying
  <2>2. ServiceTypes'
    BY <2>1 DEF Hotplug, ServiceTypes
  <2>. QED BY <1>7, <2>1, <2>2 DEF Reapplying, Hotplug, Undisturbed, layerVars
<1>8. CASE ReloadFirewall /\ Undisturbed
  <2>1. ServiceTypes'
    BY <1>8, LoadRulesetType DEF ReloadFirewall, ServiceTypes
  <2>. QED BY <1>8, <2>1 DEF ReloadFirewall, Undisturbed, layerVars
<1>9. CASE RestartRedirect /\ Undisturbed
  <2>1. ServiceTypes'
    BY <1>9, StartServiceType DEF RestartRedirect, ServiceTypes, ArgsType
  <2>. QED BY <1>9, <2>1 DEF RestartRedirect, Undisturbed, layerVars
<1>10. CASE OperatorCommits
  <2>1. ServiceTypes'
    BY <1>10 DEF OperatorCommits, ServiceTypes
  <2>. QED BY <1>10, <2>1, CommittedAllType, NothingStagedType DEF OperatorCommits
<1>11. ASSUME NEW o \in UserSettings \union {"dns"}, UserEdits(o) PROVE TypeOK'
  <2>1. ServiceTypes'
    BY <1>11 DEF UserEdits, servicesVars, ServiceTypes
  <2>2. "user" \in Text
    BY TextAssumption
  <2>3. o \in Options /\ ValuesOf[o] = Text
    BY OptionNames DEF ValuesOf, UserSettings
  <2>4. <<"user">> \in Seq(ValuesOf[o])
    BY <2>2, <2>3, SingletonType
  <2>5. FilesOK(conf)'
    BY <1>11, <2>4 DEF UserEdits, FilesOK
  <2>. QED BY <1>11, <2>1, <2>5 DEF UserEdits, layerVars, servicesVars
<1>12. CASE Die
  BY <1>12, <1>f, <1>t, HaltType DEF Die, Goto
<1>13. CASE Restart
  <2>1. ServiceTypes'
    BY <1>13 DEF Restart, servicesVars, ServiceTypes
  <2>2. restarts' \in 0..MaxRestarts
    BY <1>13, BoundsAssumption DEF Restart
  <2>3. todo' \in Seq(LoopItems)
    BY <1>13, EmptySeqType DEF Restart
  <2>. QED BY <1>13, <1>t, <2>1, <2>2, <2>3 DEF Restart, Goto, servicesVars
<1>14. ASSUME NEW e \in Env, Recreate(e) PROVE TypeOK'
  <2>1. ServiceTypes'
    BY <1>14 DEF Recreate, servicesVars, ServiceTypes
  <2>2. restarts' \in 0..MaxRestarts /\ password' \in Text
    <3>1. 0 \in 0..MaxRestarts
      BY BoundsAssumption
    <3>2. "" \in Text
      BY TextAssumption
    <3>. QED BY <1>14, <3>1, <3>2 DEF Recreate
  <2>3. todo' \in Seq(LoopItems) /\ StoreOK(layer)'
    BY <1>14, EmptySeqType, NothingStagedType DEF Recreate
  <2>. QED BY <1>14, <1>t, <2>1, <2>2, <2>3 DEF Recreate, Goto, servicesVars
<1>15. CASE SettingUp
  <2>1. ServiceTypes'
    BY <1>15 DEF SettingUp, SetUpLan, ServiceTypes, InterfaceEvents
  <2>. QED BY <1>15, <2>1 DEF SettingUp, SetUpLan, Undisturbed, layerVars
<1>16. CASE KernelGained \/ KernelLost
  <2>1. ServiceTypes'
    BY <1>16 DEF KernelGained, KernelLost, servicesVars, ServiceTypes
  <2>. QED BY <1>16, <1>f, <2>1 DEF KernelGained, KernelLost, startupVars, servicesVars
<1>17. CASE UNCHANGED vars
  <2>1. ServiceTypes'
    BY <1>17 DEF vars, servicesVars, ServiceTypes
  <2>. QED BY <1>17, <2>1 DEF vars, startupVars, servicesVars
<1>. QED
  BY <1>1, <1>2, <1>3, <1>4, <1>5, <1>6, <1>7, <1>8, <1>9, <1>10, <1>11, <1>12,
     <1>13, <1>14, <1>15, <1>16, <1>17 DEF Next

\* Every variable keeps its type in every behaviour: the files and both
\* staging areas hold only options the scripts know, each with values of
\* its own kind.
THEOREM TypeCorrect == Spec => []TypeOK
BY InitType, NextType, PTL DEF Spec

-----------------------------------------------------------------------------
(* A rejected environment.                                                 *)

\* Past the checks the environment is one that they accept, and a rejected
\* environment has staged nothing, in this life or in an earlier one of the
\* same container.  The second part is what the commit of an operator needs.
CheckedFirst ==
  /\ pc \notin {"off", "validate"} => Accepted(env)
  /\ pc \notin {"off", "validate", "console", "password"} => Valid(env)
  /\ ~Valid(env) => layer = NothingStaged

\* Committing when nothing is staged changes no file.
LEMMA CommitNothing ==
  ASSUME FilesOK(conf) PROVE CommittedAll(conf, NothingStaged) = conf
<1>1. ASSUME NEW o \in Options PROVE Get(conf, NothingStaged, o) = conf[o]
  <2>1. conf[o] \in Seq(ValuesOf[o])
    BY DEF FilesOK
  <2>2. \A S : \A s \in Seq(S) : s \o <<>> = s
    OBVIOUS
  <2>. QED BY <2>1, <2>2 DEF Get, Applied, NothingStaged, NoDelta
<1>2. CommittedAll(conf, NothingStaged) = [o \in Options |-> conf[o]]
  BY <1>1 DEF CommittedAll
<1>. QED BY <1>2 DEF FilesOK

\* At first nothing is staged.
LEMMA CheckedFirstInit == Init => CheckedFirst
BY DEF Init, CheckedFirst, Halted

\* No step but those of start.sh past its checks stages anything in the layer.
LEMMA CheckedFirstNext == TypeOK /\ CheckedFirst /\ [Next]_vars => CheckedFirst'
<1>. SUFFICES ASSUME TypeOK, CheckedFirst, [Next]_vars PROVE CheckedFirst'
  OBVIOUS
<1>. USE DEF CheckedFirst, layerVars
<1>1. CASE Starting
  <2>1. CASE Validate
    BY <2>1 DEF Validate, At, Goto, Valid
  <2>2. CASE MaskConsoles
    BY <2>2 DEF MaskConsoles, At, Goto
  <2>3. CASE SetPassword
    BY <2>3 DEF SetPassword, At, Goto, Valid
  <2>4. ASSUME SystemDefaults \/ ResetNetwork \/ AddListItem \/ CommitNetwork
                 \/ SetContainer \/ CommitContainer \/ CopyServiceDefaults
                 \/ CommitUhttpd \/ CommitDropbear \/ SetPorts \/ CommitPorts
        PROVE  CheckedFirst'
    <3>1. pc \notin {"off", "validate", "console", "password"} /\ env' = env
      BY <2>4 DEF SystemDefaults, ResetNetwork, AddListItem, CommitNetwork,
        SetContainer, CommitContainer, CopyServiceDefaults, CommitUhttpd,
        CommitDropbear, SetPorts, CommitPorts, At
    <3>. QED BY <3>1 DEF Valid
  <2>. QED BY <1>1, <2>1, <2>2, <2>3, <2>4 DEF Starting, StartupNext
<1>2. CASE Booting
  <2>1. pc \notin {"off", "validate", "console", "password"} /\ env' = env
    BY <1>2 DEF Booting, BootStep, ExecInit, PrepareSystem, StageFirewall,
      CommitFirewall, InstallMarkRule, StopDhcp, InitialResolver,
      RecordInitialized, TouchMarker, StartFirewall, StartNetwork,
      StartListeners, StartRedirect, At
  <2>. QED BY <2>1 DEF Valid
<1>3. CASE PrepareFails
  BY <1>3 DEF PrepareFails, PrepareSteps, Goto, Valid
<1>4. ASSUME UNCHANGED <<pc, env, layer>> PROVE CheckedFirst'
  BY <1>4 DEF Valid
<1>5. CASE OperatorCommits
  BY <1>5 DEF OperatorCommits, Valid
<1>6. CASE Die
  BY <1>6 DEF Die, Goto
<1>7. CASE Restart
  BY <1>7 DEF Restart, Goto
<1>8. ASSUME NEW e \in Env, Recreate(e) PROVE CheckedFirst'
  BY <1>8 DEF Recreate, Goto
<1>. QED
  <2>1. CASE HandlerExits \/ Respawning \/ Reapplying \/ ReloadFirewall \/ RestartRedirect
               \/ SettingUp \/ TearDownLan \/ UpdateLan \/ KernelGained \/ KernelLost
               \/ (\E o \in UserSettings \union {"dns"} : UserEdits(o)) \/ UNCHANGED vars
    BY <2>1, <1>4 DEF HandlerExits, Respawning, RespawnHandler, Reapplying, Hotplug,
      ReloadFirewall, RestartRedirect,
      SettingUp, SetUpLan, TearDownLan, UpdateLan, KernelGained, KernelLost,
      UserEdits, vars, startupVars
  <2>. QED BY <1>1, <1>2, <1>3, <1>5, <1>6, <1>7, <1>8, <2>1 DEF Next

\* A step taken while the environment is one that start.sh rejects leaves the
\* files alone: it is one of the checks, the end of a life, a new life, or
\* a commit with nothing staged.
LEMMA RejectedStep ==
  TypeOK /\ CheckedFirst /\ [Next]_vars /\ ~Valid(env) => conf' = conf
<1>. SUFFICES ASSUME TypeOK, CheckedFirst, [Next]_vars, ~Valid(env)
              PROVE  conf' = conf
  OBVIOUS
<1>0. pc \in {"off", "validate", "console", "password"} /\ layer = NothingStaged
  BY DEF CheckedFirst
<1>1. CASE Starting
  BY <1>0, <1>1 DEF Starting, StartupNext, Validate, MaskConsoles, SetPassword,
    SystemDefaults, ResetNetwork, AddListItem, CommitNetwork, SetContainer,
    CommitContainer, CopyServiceDefaults, CommitUhttpd, CommitDropbear,
    SetPorts, CommitPorts, At
<1>2. CASE Booting
  BY <1>0, <1>2 DEF Booting, BootStep, ExecInit, PrepareSystem, StageFirewall,
    CommitFirewall, InstallMarkRule, StopDhcp, InitialResolver,
    RecordInitialized, TouchMarker, StartFirewall, StartNetwork,
    StartListeners, StartRedirect, At
<1>3. CASE OperatorCommits
  <2>1. pc \in StartupSteps
    BY <1>0, <1>3 DEF OperatorCommits, StartupSteps
  <2>2. FilesOK(conf)
    BY DEF TypeOK, ConfigTypes
  <2>3. conf' = CommittedAll(conf, layer)
    BY <1>3, <2>1 DEF OperatorCommits
  <2>. QED BY <1>0, <2>2, <2>3, CommitNothing
<1>4. CASE \E o \in UserSettings \union {"dns"} : UserEdits(o)
  BY <1>0, <1>4 DEF UserEdits, At
<1>. QED
  BY <1>1, <1>2, <1>3, <1>4 DEF Next, PrepareFails, HandlerExits,
    SettingUp, SetUpLan, TearDownLan, UpdateLan, KernelGained, KernelLost,
    Respawning, RespawnHandler, Reapplying, Hotplug, ReloadFirewall,
    RestartRedirect, Die, Restart, Recreate, vars, startupVars, layerVars

\* An environment that start.sh rejects changes no file of the volume,
\* whatever earlier containers left on it and whoever commits meanwhile.
THEOREM RejectionWritesNothing == Spec => RejectedEnvironmentWritesNothing
<1>1. Spec => [](TypeOK /\ CheckedFirst)
  BY InitType, NextType, CheckedFirstInit, CheckedFirstNext, PTL DEF Spec
<1>2. TypeOK /\ CheckedFirst /\ [Next]_vars => [~Valid(env) => conf' = conf]_vars
  BY RejectedStep
<1>. QED BY <1>1, <1>2, PTL DEF Spec, RejectedEnvironmentWritesNothing

-----------------------------------------------------------------------------
(* What is staged is committed before init runs.                           *)

BeforeContainer ==
  {"off", "validate", "console", "password", "system", "network", "commit network"}

BeforeDropbear ==
  BeforeContainer \union {"container", "commit container", "uhttpd", "commit uhttpd"}

BeforePorts == BeforeDropbear \union {"commit dropbear"}

BeforeInit == BeforePorts \union {"ports", "commit ports"}

\* Nothing is staged in the layer for a file.
Clean(f) == \A o \in Options : ConfigOf[o] = f => layer[o] = NoDelta

\* Whatever is staged in the layer, by this life or an earlier one, belongs
\* to a file that is still to be committed; a loop stages nothing else.
StagedForLater ==
  /\ Clean("firewall") /\ Clean("dhcp") /\ Clean("system")
  /\ pc \notin BeforeContainer => Clean("network")
  /\ pc \notin BeforeDropbear => Clean("uhttpd")
  /\ pc \notin BeforePorts => Clean("dropbear")
  /\ pc \notin BeforeInit => Clean("landscape")
  /\ At("commit network") => todo \in Seq(AddressItems)
  /\ At("commit uhttpd") => todo \in Seq(ListenItems)

\* At first nothing is staged.
LEMMA StagedInit == Init => StagedForLater
BY DEF Init, StagedForLater, Clean, NothingStaged, At

\* A commit cleans its file and dirties none.
LEMMA CleanCommit ==
  ASSUME NEW f, layer' = Flushed(layer, f)
  PROVE  Clean(f)' /\ \A g : Clean(g) => Clean(g)'
BY DEF Clean, Flushed

\* Setting options dirties no file but theirs.
LEMMA CleanStage ==
  ASSUME NEW values, NEW f, layer' = SetAll(layer, values),
         \A o \in DOMAIN values : ConfigOf[o] = f
  PROVE  \A g : g # f /\ Clean(g) => Clean(g)'
BY DEF Clean, SetAll

\* Nor when another file, or the same, is committed at once.
LEMMA CleanStageCommit ==
  ASSUME NEW values, NEW f, NEW c, layer' = Flushed(SetAll(layer, values), c),
         \A o \in DOMAIN values : ConfigOf[o] = f
  PROVE  /\ Clean(c)'
         /\ \A g : g # f /\ Clean(g) => Clean(g)'
BY DEF Clean, SetAll, Flushed

\* Adding to a list dirties no file but that of the list.
LEMMA CleanAdd ==
  ASSUME TypeOK, NEW o \in Options, NEW item, layer' = AddList(layer, o, item)
  PROVE  \A g : g # ConfigOf[o] /\ Clean(g) => Clean(g)'
<1>1. layer = [p \in Options |-> layer[p]]
  BY DEF TypeOK, ConfigTypes, StoreOK
<1>2. \A p \in Options : p # o => layer'[p] = layer[p]
  BY <1>1 DEF AddList
<1>. QED BY <1>2 DEF Clean

\* What is not touched stays clean.
LEMMA CleanSame == UNCHANGED layer => \A g : Clean(g) => Clean(g)'
BY DEF Clean

\* A step of start.sh leaves staged only what it or a later step commits.
LEMMA StagedByStart ==
  TypeOK /\ StagedForLater /\ StartupNext => StagedForLater'
<1>. SUFFICES ASSUME TypeOK, StagedForLater, StartupNext PROVE StagedForLater'
  OBVIOUS
<1>. USE DEF StagedForLater, BeforeContainer, BeforeDropbear, BeforePorts, BeforeInit
<1>e. /\ env.dns \in Seq(Text) /\ env.ip6 \in Seq(Text) /\ env.ports \in Ports
  BY EnvFields DEF TypeOK, ContainerTypes
<1>1. CASE Validate \/ MaskConsoles \/ SetPassword
  BY <1>1, CleanSame DEF Validate, MaskConsoles, SetPassword, At, Goto
<1>2. CASE SystemDefaults
  <2> DEFINE values == [hostname |-> "ImmortalWrt", zonename |-> "Asia/Shanghai"]
  <2>1. \A o \in DOMAIN values : ConfigOf[o] = "system"
    BY OptionFiles
  <2>2. layer' = Flushed(SetAll(layer, values), "system") \/ UNCHANGED layer
    BY <1>2 DEF SystemDefaults
  <2> HIDE DEF values
  <2>3. CASE layer' = Flushed(SetAll(layer, values), "system")
    <3>1. Clean("system")' /\ \A g : g # "system" /\ Clean(g) => Clean(g)'
      BY <2>1, <2>3, CleanStageCommit
    <3>. QED BY <1>2, <3>1 DEF SystemDefaults, At, Goto
  <2>4. CASE UNCHANGED layer
    BY <1>2, <2>4, CleanSame DEF SystemDefaults, At, Goto
  <2>. QED BY <2>2, <2>3, <2>4
<1>3. CASE ResetNetwork
  <2>1. todo' \in Seq(AddressItems)
    BY <1>3, <1>e, NetworkItemsType DEF ResetNetwork
  <2>. QED BY <1>3, <2>1, CleanSame DEF ResetNetwork, At, Goto
<1>4. CASE AddListItem
  <2>1. CASE At("commit network")
    <3>1. Head(todo) \in AddressItems /\ Tail(todo) \in Seq(AddressItems)
      BY <1>4, <2>1, HeadTailType DEF AddListItem
    <3>2. Head(todo)[1] \in {"dns", "ip6addr"}
      BY <3>1 DEF AddressItems
    <3>3. Head(todo)[1] \in Options /\ ConfigOf[Head(todo)[1]] = "network"
      BY <3>2, OptionNames, OptionFiles
    <3>4. layer' = AddList(layer, Head(todo)[1], Head(todo)[2])
      BY <1>4 DEF AddListItem
    <3>5. \A g : g # "network" /\ Clean(g) => Clean(g)'
      BY <3>3, <3>4, CleanAdd
    <3>. QED BY <1>4, <2>1, <3>1, <3>5 DEF AddListItem, At
  <2>2. CASE At("commit uhttpd")
    <3>1. Head(todo) \in ListenItems /\ Tail(todo) \in Seq(ListenItems)
      BY <1>4, <2>2, HeadTailType DEF AddListItem
    <3>2. Head(todo)[1] \in {"listen_http", "listen_https"}
      BY <3>1 DEF ListenItems
    <3>3. Head(todo)[1] \in Options /\ ConfigOf[Head(todo)[1]] = "uhttpd"
      BY <3>2, OptionNames, OptionFiles
    <3>4. layer' = AddList(layer, Head(todo)[1], Head(todo)[2])
      BY <1>4 DEF AddListItem
    <3>5. \A g : g # "uhttpd" /\ Clean(g) => Clean(g)'
      BY <3>3, <3>4, CleanAdd
    <3>. QED BY <1>4, <2>2, <3>1, <3>5 DEF AddListItem, At
  <2>. QED BY <1>4, <2>1, <2>2 DEF AddListItem, At
<1>5. CASE CommitNetwork
  BY <1>5, CleanCommit DEF CommitNetwork, Commit, At, Goto
<1>6. CASE SetContainer
  <2> DEFINE values == [timezone |-> env.tz, proxy |-> NormalProxy(env.proxy)]
  <2>1. \A o \in DOMAIN values : ConfigOf[o] = "landscape"
    BY OptionFiles
  <2>2. layer' = SetAll(layer, values)
    BY <1>6 DEF SetContainer, Stage
  <2> HIDE DEF values
  <2>3. \A g : g # "landscape" /\ Clean(g) => Clean(g)'
    BY <2>1, <2>2, CleanStage
  <2>. QED BY <1>6, <2>3 DEF SetContainer, At, Goto
<1>7. CASE CommitContainer
  BY <1>7, CleanCommit DEF CommitContainer, Commit, At, Goto
<1>8. CASE CopyServiceDefaults
  <2>1. todo' \in Seq(ListenItems)
    BY <1>8, <1>e, UhttpdItemsType
  <2>. QED BY <1>8, <2>1, CleanSame DEF CopyServiceDefaults, At, Goto
<1>9. CASE CommitUhttpd
  <2> DEFINE values == [ssh_listen |-> env.ports.ssh]
  <2>1. \A o \in DOMAIN values : ConfigOf[o] = "dropbear"
    BY OptionFiles
  <2>2. layer' = Flushed(SetAll(layer, values), "uhttpd")
    BY <1>9 DEF CommitUhttpd
  <2> HIDE DEF values
  <2>3. Clean("uhttpd")' /\ \A g : g # "dropbear" /\ Clean(g) => Clean(g)'
    BY <2>1, <2>2, CleanStageCommit
  <2>. QED BY <1>9, <2>3 DEF CommitUhttpd, At, Goto
<1>10. CASE CommitDropbear
  BY <1>10, CleanCommit DEF CommitDropbear, Commit, At, Goto
<1>11. CASE SetPorts
  <2> DEFINE values == [http_port |-> env.ports.http, https_port |-> env.ports.https,
                        ssh_port |-> env.ports.ssh]
  <2>1. \A o \in DOMAIN values : ConfigOf[o] = "landscape"
    BY OptionFiles
  <2>2. layer' = SetAll(layer, values)
    BY <1>11 DEF SetPorts, Stage
  <2> HIDE DEF values
  <2>3. \A g : g # "landscape" /\ Clean(g) => Clean(g)'
    BY <2>1, <2>2, CleanStage
  <2>. QED BY <1>11, <2>3 DEF SetPorts, At, Goto
<1>12. CASE CommitPorts
  BY <1>12, CleanCommit DEF CommitPorts, Commit, At, Goto
<1>. QED
  BY <1>1, <1>2, <1>3, <1>4, <1>5, <1>6, <1>7, <1>8, <1>9, <1>10, <1>11, <1>12
  DEF StartupNext

\* Every step leaves staged only what it or a later step commits: a life
\* begins before the first commit, init with everything committed.
LEMMA StagedNext ==
  TypeOK /\ StagedForLater /\ [Next]_vars => StagedForLater'
<1>. SUFFICES ASSUME TypeOK, StagedForLater, [Next]_vars PROVE StagedForLater'
  OBVIOUS
<1>. USE DEF BeforeContainer, BeforeDropbear, BeforePorts, BeforeInit, layerVars
<1>1. CASE Starting
  BY <1>1, StagedByStart DEF Starting
<1>2. CASE Booting
  <2>1. /\ UNCHANGED layer
        /\ pc \notin BeforeInit
        /\ pc' \notin {"commit network", "commit uhttpd"}
    BY <1>2 DEF Booting, BootStep, ExecInit, PrepareSystem, StageFirewall,
      CommitFirewall, InstallMarkRule, StopDhcp, InitialResolver,
      RecordInitialized, TouchMarker, StartFirewall, StartNetwork,
      StartListeners, StartRedirect, At, Goto
  <2>. QED BY <2>1, CleanSame DEF StagedForLater, At
<1>3. CASE PrepareFails
  BY <1>3, CleanSame DEF PrepareFails, PrepareSteps, Goto, StagedForLater, At
<1>4. ASSUME UNCHANGED <<pc, todo, layer>> PROVE StagedForLater'
  BY <1>4, CleanSame DEF StagedForLater, At
<1>5. CASE OperatorCommits
  <2>1. \A g : Clean(g) => Clean(g)'
    BY <1>5 DEF OperatorCommits, Clean, NothingStaged
  <2>. QED BY <1>5, <2>1 DEF OperatorCommits, StagedForLater, At
<1>6. CASE Die
  BY <1>6, CleanSame DEF Die, Goto, StagedForLater, At
<1>7. CASE Restart
  BY <1>7, CleanSame DEF Restart, At, Goto, StagedForLater
<1>8. ASSUME NEW e \in Env, Recreate(e) PROVE StagedForLater'
  <2>1. \A g : Clean(g)'
    BY <1>8 DEF Recreate, Clean, NothingStaged
  <2>. QED BY <1>8, <2>1 DEF Recreate, At, Goto, StagedForLater
<1>. QED
  <2>1. CASE HandlerExits \/ Respawning \/ Reapplying \/ ReloadFirewall \/ RestartRedirect
               \/ SettingUp \/ TearDownLan \/ UpdateLan \/ KernelGained \/ KernelLost
               \/ (\E o \in UserSettings \union {"dns"} : UserEdits(o)) \/ UNCHANGED vars
    BY <2>1, <1>4 DEF HandlerExits, Respawning, RespawnHandler, Reapplying, Hotplug,
      ReloadFirewall, RestartRedirect,
      SettingUp, SetUpLan, TearDownLan, UpdateLan, KernelGained, KernelLost,
      UserEdits, vars, startupVars
  <2>. QED BY <1>1, <1>2, <1>3, <1>5, <1>6, <1>7, <1>8, <2>1 DEF Next

\* Once init runs every file has been committed.
LEMMA StagedNothing == TypeOK /\ StagedForLater => StartLeavesNothingStaged
<1>. SUFFICES ASSUME TypeOK, StagedForLater, HandedOver PROVE layer = NothingStaged
  BY DEF StartLeavesNothingStaged
<1>1. pc \notin BeforeInit
  BY DEF HandedOver, PrepareSteps, BeforeInit, BeforePorts, BeforeDropbear, BeforeContainer
<1>2. \A f \in {"network", "uhttpd", "dropbear", "landscape", "firewall", "dhcp",
                "system"} : Clean(f)
  BY <1>1 DEF StagedForLater, BeforeInit, BeforePorts, BeforeDropbear, BeforeContainer
<1>3. \A o \in Options : ConfigOf[o] \in {"network", "uhttpd", "dropbear", "landscape",
                                           "firewall", "dhcp", "system"}
  BY OptionNames, OptionFiles
<1>4. \A o \in Options : layer[o] = NoDelta
  BY <1>2, <1>3 DEF Clean
<1>5. layer = [o \in Options |-> layer[o]]
  BY DEF TypeOK, ConfigTypes, StoreOK
<1>. QED BY <1>4, <1>5 DEF NothingStaged

\* A start that reaches init leaves nothing staged, however many earlier
\* starts of the container were cut short and wherever.
THEOREM NothingLeftStaged == Spec => []StartLeavesNothingStaged
<1>1. Spec => [](TypeOK /\ StagedForLater)
  BY InitType, NextType, StagedInit, StagedNext, PTL DEF Spec
<1>. QED BY <1>1, StagedNothing, PTL
=============================================================================
