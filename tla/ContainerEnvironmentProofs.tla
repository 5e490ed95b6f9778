--------------------- MODULE ContainerEnvironmentProofs ---------------------
(***************************************************************************)
(* What the services of a boot find, for every environment: the addresses  *)
(* and parameters of the container they run in, and the settings of users  *)
(* as users left them.  The addresses are hard: `uci add_list` adds to     *)
(* what is there, and a start that was cut short leaves items staged for   *)
(* the next start of the same container, so the invariant bounds what the  *)
(* lists can hold from both sides while the loops run.  What the handler   *)
(* is offered with follows, and with it the steps of an exit node.         *)
(***************************************************************************)
EXTENDS ContainerGuardProofs

AddressLists == {"dns", "ip6addr"}

\* The addresses that the environment asks for.
Asked(o) == IF o = "dns" THEN Range(env.dns) ELSE Range(env.ip6)

\* Staged addresses, even those of an earlier life, are ones asked for.
StagedAddresses ==
  \A o \in AddressLists : ~layer[o].reset /\ Range(layer[o].add) \subseteq Asked(o)

\* While the loops run, each address is there or still to be added; after the
\* commit they are all there, until a user can edit them.
AddressesComing ==
  /\ At("commit network") =>
       /\ \A x \in Range(todo) : x[2] \in Asked(x[1])
       /\ \A o \in AddressLists :
            /\ Range(View(o)) \subseteq Asked(o)
            /\ \A w \in Asked(o) : w \in Range(View(o)) \/ <<o, w>> \in Range(todo)
  /\ pc \notin BeforeContainer \union {"up"} =>
       \A o \in AddressLists : Range(View(o)) = Asked(o)

\* From "commit container" on the stored parameters are those of the
\* environment.
ParametersStored ==
  pc \notin BeforeContainer \union {"container"} =>
    /\ View("timezone") = <<env.tz>>
    /\ View("proxy") = <<NormalProxy(env.proxy)>>

EnvironmentWritten == StagedAddresses /\ AddressesComing /\ ParametersStored

\* What the invariant is about, in the store of uci.
FollowedOptions == AddressLists \union {"timezone", "proxy"}

\* Nothing is staged for the defaults of the firewall.
DefaultsUnstaged == tmpfs["defaults"] = NoDelta

-----------------------------------------------------------------------------
\* They are options of two files.
LEMMA FollowedFiles ==
  /\ FollowedOptions \subseteq Options
  /\ \A o \in AddressLists : ConfigOf[o] = "network"
  /\ \A o \in FollowedOptions : ConfigOf[o] \in {"network", "landscape"}
BY OptionNames, OptionFiles DEF FollowedOptions, AddressLists

\* The items of a loop over the addresses of one option.
LEMMA RangeItems ==
  ASSUME NEW S, NEW list \in Seq(S), NEW o
  PROVE  Range(Items(o, list)) = {<<o, w>> : w \in Range(list)}
BY DEF Range, Items

\* At first nothing is written.
LEMMA EnvironmentInit == Init => EnvironmentWritten /\ DefaultsUnstaged
<1>. SUFFICES ASSUME Init PROVE EnvironmentWritten /\ DefaultsUnstaged
  OBVIOUS
<1>1. \A o \in AddressLists : layer[o] = NoDelta
  BY FollowedFiles DEF Init, NothingStaged, FollowedOptions
<1>2. StagedAddresses
  BY <1>1, RangeEmpty DEF StagedAddresses, NoDelta
<1>3. AddressesComing /\ ParametersStored
  BY DEF Init, AddressesComing, ParametersStored, At, BeforeContainer
<1>4. DefaultsUnstaged
  BY OptionNames DEF Init, Halted, NothingStaged, DefaultsUnstaged
<1>. QED BY <1>2, <1>3, <1>4 DEF EnvironmentWritten

\* A step that changes none of these options keeps what was reached, if it
\* reaches no further.
LEMMA EnvironmentKept ==
  ASSUME EnvironmentWritten, UNCHANGED env,
         \A o \in FollowedOptions : View(o)' = View(o),
         \A o \in AddressLists : layer'[o] = layer[o] \/ layer'[o] = NoDelta,
         ~At("commit network")' \/ (UNCHANGED todo /\ At("commit network")),
         pc' \notin BeforeContainer \union {"up"}
           => pc \notin BeforeContainer \union {"up"},
         pc' \notin BeforeContainer \union {"container"}
           => pc \notin BeforeContainer \union {"container"}
  PROVE  EnvironmentWritten'
<1>1. \A o : Asked(o)' = Asked(o)
  BY DEF Asked
<1>2. StagedAddresses'
  <2>1. ASSUME NEW o \in AddressLists
        PROVE  ~layer'[o].reset /\ Range(layer'[o].add) \subseteq Asked(o)
    <3>1. CASE layer'[o] = layer[o]
      BY <3>1 DEF EnvironmentWritten, StagedAddresses
    <3>2. CASE layer'[o] = NoDelta
      BY <3>2, NoDeltaFields, RangeEmpty
    <3>. QED BY <3>1, <3>2
  <2>. QED BY <1>1, <2>1 DEF StagedAddresses
<1>3. \A o \in AddressLists : View(o)' = View(o)
  BY DEF FollowedOptions
<1>4. AddressesComing'
  <2>1. CASE At("commit network")'
    <3>1. At("commit network") /\ todo' = todo /\ pc' = pc
      BY <2>1 DEF At
    <3>. QED BY <1>1, <1>3, <2>1, <3>1
         DEF EnvironmentWritten, AddressesComing, At, BeforeContainer
  <2>2. CASE ~At("commit network")'
    BY <1>1, <1>3, <2>2 DEF EnvironmentWritten, AddressesComing
  <2>. QED BY <2>1, <2>2
<1>5. ParametersStored'
  BY DEF EnvironmentWritten, ParametersStored, FollowedOptions
<1>. QED BY <1>2, <1>4, <1>5 DEF EnvironmentWritten

\* A step of start.sh.
LEMMA EnvironmentByStart ==
  TypeOK /\ StagedForLater /\ EnvironmentWritten /\ StartupNext => EnvironmentWritten'
<1>. SUFFICES ASSUME TypeOK, StagedForLater, EnvironmentWritten, StartupNext
              PROVE  EnvironmentWritten'
  OBVIOUS
<1>. USE DEF BeforeContainer
<1>e. env.dns \in Seq(Text) /\ env.ip6 \in Seq(Text)
  BY EnvFields DEF TypeOK, ContainerTypes
<1>w. ASSUME UNCHANGED env PROVE \A o : Asked(o)' = Asked(o)
  BY <1>w DEF Asked
<1>1. CASE Validate \/ MaskConsoles \/ SetPassword
  <2>1. /\ UNCHANGED <<env, conf, layer>>
        /\ pc' \in {"console", "password", "system", "off"}
    BY <1>1 DEF Validate, MaskConsoles, SetPassword, Goto
  <2>2. \A o : View(o)' = View(o)
    BY <2>1 DEF View
  <2>. QED BY <2>1, <2>2, EnvironmentKept DEF At
<1>2. CASE SystemDefaults
  <2>1. UNCHANGED env /\ pc' = "network" /\ At("system")
    BY <1>2 DEF SystemDefaults, Goto
  <2>2. \A o \in FollowedOptions : conf'[o] = conf[o] /\ layer'[o] = layer[o]
    <3> DEFINE values == [hostname |-> "ImmortalWrt", zonename |-> "Asia/Shanghai"]
    <3> DEFINE staged == SetAll(layer, values)
    <3>1. ASSUME NEW o \in FollowedOptions
          PROVE  o \in Options /\ staged[o] = layer[o] /\ ConfigOf[o] # "system"
      BY FollowedFiles, OptionFiles DEF SetAll
    <3>2. CASE conf' = Committed(conf, staged, "system") /\ layer' = Flushed(staged, "system")
      BY <3>1, <3>2 DEF Committed, Flushed
    <3>3. CASE UNCHANGED <<conf, layer>>
      BY <3>3
    <3>. QED BY <1>2, <3>2, <3>3 DEF SystemDefaults
  <2>3. \A o \in FollowedOptions : View(o)' = View(o)
    BY <2>2 DEF View, Get
  <2>. QED BY <2>1, <2>2, <2>3, EnvironmentKept DEF At, FollowedOptions
<1>3. CASE ResetNetwork
  <2>1. /\ UNCHANGED <<env, layer>> /\ pc' = "commit network"
        /\ conf' = Emptied(conf, "network")
        /\ todo' = Items("dns", env.dns) \o Items("ip6addr", env.ip6)
    BY <1>3 DEF ResetNetwork, Goto
  <2>2. Range(todo') = {<<"dns", w>> : w \in Range(env.dns)}
                         \union {<<"ip6addr", w>> : w \in Range(env.ip6)}
    <3>1. Items("dns", env.dns) \in Seq(AddressItems) /\ Items("ip6addr", env.ip6) \in Seq(AddressItems)
      BY <1>e, ItemsType
    <3>2. \A first, rest \in Seq(AddressItems) :
            Range(first \o rest) = Range(first) \union Range(rest)
      BY RangeConcat, Zenon
    <3>3. Range(todo') = Range(Items("dns", env.dns)) \union Range(Items("ip6addr", env.ip6))
      BY <2>1, <3>1, <3>2
    <3>. QED BY <1>e, <3>3, RangeItems
  <2>3. Asked("dns") = Range(env.dns) /\ Asked("ip6addr") = Range(env.ip6)
    BY DEF Asked
  <2>4. \A x \in Range(todo') : x[2] \in Asked(x[1])
    BY <2>2, <2>3
  <2>5. \A o \in AddressLists : \A w \in Asked(o) : <<o, w>> \in Range(todo')
    BY <2>2, <2>3 DEF AddressLists
  <2>6. ASSUME NEW o \in AddressLists PROVE Range(View(o)') \subseteq Asked(o)
    <3>1. o \in Options /\ ConfigOf[o] = "network"
      BY FollowedFiles DEF FollowedOptions
    <3>2. conf'[o] = <<>>
      BY <2>1, <3>1 DEF Emptied
    <3>3. /\ layer[o].add \in Seq(ValuesOf[o])
          /\ layer[o].reset = FALSE /\ layer'[o] = layer[o]
      <4>1. layer[o] \in [reset: BOOLEAN, add: Seq(ValuesOf[o])]
        BY <3>1 DEF TypeOK, ConfigTypes, StoreOK
      <4>2. ~layer[o].reset
        BY DEF EnvironmentWritten, StagedAddresses
      <4>. QED BY <2>1, <4>1, <4>2
    <3>4. View(o)' = <<>> \o layer[o].add
      BY <3>2, <3>3 DEF View, Get, Applied
    <3>5. View(o)' = layer[o].add
      BY <3>3, <3>4
    <3>. QED BY <3>5 DEF EnvironmentWritten, StagedAddresses
  <2>7. StagedAddresses'
    BY <1>w, <2>1 DEF EnvironmentWritten, StagedAddresses
  <2>8. AddressesComing'
    BY <1>w, <2>1, <2>4, <2>5, <2>6 DEF AddressesComing
  <2>9. ParametersStored'
    BY <2>1 DEF ParametersStored
  <2>. QED BY <2>7, <2>8, <2>9 DEF EnvironmentWritten
<1>4. CASE AddListItem /\ At("commit network")
  <2>0. /\ todo # <<>> /\ todo \in Seq(AddressItems) /\ todo' = Tail(todo)
        /\ layer' = AddList(layer, Head(todo)[1], Head(todo)[2])
        /\ UNCHANGED <<conf, env, pc>>
    BY <1>4 DEF AddListItem, StagedForLater
  <2>2. Head(todo) \in AddressItems /\ Range(todo) = {Head(todo)} \union Range(todo')
    BY <2>0, HeadTailType, RangeHeadTail
  <2>3. PICK o \in AddressLists, item \in Text : Head(todo) = <<o, item>>
    BY <2>2 DEF AddressItems, AddressLists
  <2>1. layer' = AddList(layer, o, item) /\ UNCHANGED <<conf, env, pc>>
    BY <2>0, <2>3
  <2>4. o \in Options /\ ValuesOf[o] = Text
    BY <2>3, ListOptions DEF AddressLists
  <2>5. item \in Asked(o)
    BY <1>4, <2>2, <2>3 DEF EnvironmentWritten, AddressesComing
  <2>6. ~layer[o].reset
    BY <2>3 DEF EnvironmentWritten, StagedAddresses
  <2>7. /\ Range(View(o)') = Range(View(o)) \union {item}
        /\ \A p \in Options : p # o => View(p)' = View(p)
        /\ layer'[o].reset = FALSE
        /\ Range(layer'[o].add) = Range(layer[o].add) \union {item}
        /\ \A p \in Options : p # o => layer'[p] = layer[p]
    BY <2>1, <2>3, <2>4, <2>6, ViewAdd
  <2>8. StagedAddresses'
    <3>1. ASSUME NEW p \in AddressLists
          PROVE  ~layer'[p].reset /\ Range(layer'[p].add) \subseteq Asked(p)
      BY <2>5, <2>7, FollowedFiles DEF EnvironmentWritten, StagedAddresses, FollowedOptions
    <3>. QED BY <1>w, <2>1, <3>1 DEF StagedAddresses
  <2>9. AddressesComing'
    <3>1. \A x \in Range(todo') : x[2] \in Asked(x[1])
      BY <1>4, <2>2 DEF EnvironmentWritten, AddressesComing
    <3>2. ASSUME NEW p \in AddressLists PROVE Range(View(p)') \subseteq Asked(p)
      BY <1>4, <2>5, <2>7, FollowedFiles
      DEF EnvironmentWritten, AddressesComing, FollowedOptions
    <3>3. ASSUME NEW p \in AddressLists, NEW w \in Asked(p)
          PROVE  w \in Range(View(p)') \/ <<p, w>> \in Range(todo')
      <4>1. w \in Range(View(p)) \/ <<p, w>> \in Range(todo)
        BY <1>4 DEF EnvironmentWritten, AddressesComing
      <4>2. w \in Range(View(p)) => w \in Range(View(p)')
        BY <2>7, FollowedFiles DEF FollowedOptions
      <4>3. <<p, w>> = Head(todo) => w \in Range(View(p)')
        BY <2>3, <2>7
      <4>. QED BY <2>2, <4>1, <4>2, <4>3
    <3>4. pc' \in BeforeContainer
      BY <1>4, <2>1 DEF At
    <3>. QED BY <1>w, <2>1, <3>1, <3>2, <3>3, <3>4 DEF AddressesComing
  <2>10. ParametersStored'
    BY <1>4, <2>1 DEF ParametersStored, At
  <2>. QED BY <2>8, <2>9, <2>10 DEF EnvironmentWritten
<1>5. CASE CommitNetwork
  <2>1. /\ Commit("network") /\ pc' = "container" /\ UNCHANGED env
        /\ At("commit network") /\ todo = <<>>
    BY <1>5 DEF CommitNetwork, Goto
  <2>2. \A o \in FollowedOptions : View(o)' = View(o)
    BY <2>1, ViewCommit, FollowedFiles
  <2>3. \A o \in AddressLists : layer'[o] = NoDelta
    BY <2>1, FollowedFiles DEF Commit, Flushed, FollowedOptions
  <2>4. \A o \in AddressLists : Range(View(o)) = Asked(o)
    BY <2>1, RangeEmpty DEF EnvironmentWritten, AddressesComing
  <2>5. StagedAddresses'
    <3>1. ASSUME NEW o \in AddressLists
          PROVE  ~layer'[o].reset /\ Range(layer'[o].add) \subseteq Asked(o)
      BY <2>3, NoDeltaFields, RangeEmpty
    <3>. QED BY <1>w, <2>1, <3>1 DEF StagedAddresses
  <2>6. AddressesComing'
    BY <1>w, <2>1, <2>2, <2>4 DEF AddressesComing, At, FollowedOptions
  <2>7. ParametersStored'
    BY <2>1 DEF ParametersStored
  <2>. QED BY <2>5, <2>6, <2>7 DEF EnvironmentWritten
<1>6. CASE SetContainer
  <2> DEFINE values == [timezone |-> env.tz, proxy |-> NormalProxy(env.proxy)]
  <2>1. /\ UNCHANGED <<env, conf>> /\ At("container") /\ pc' = "commit container"
        /\ Stage(values)
    BY <1>6 DEF SetContainer, Goto
  <2>2. /\ DOMAIN values = {"timezone", "proxy"} /\ values["timezone"] = env.tz
        /\ values["proxy"] = NormalProxy(env.proxy)
    OBVIOUS
  <2> HIDE DEF values
  <2>3. \A o \in AddressLists : o \in Options /\ o \notin DOMAIN values
    BY <2>2, FollowedFiles DEF FollowedOptions, AddressLists
  <2>4. \A o \in AddressLists : View(o)' = View(o) /\ layer'[o] = layer[o]
    BY <2>1, <2>3, ViewStage DEF Stage, SetAll
  <2>5. View("timezone")' = <<env.tz>> /\ View("proxy")' = <<NormalProxy(env.proxy)>>
    BY <2>1, <2>2, ViewStage, FollowedFiles DEF FollowedOptions
  <2>6. StagedAddresses'
    BY <1>w, <2>1, <2>4 DEF EnvironmentWritten, StagedAddresses
  <2>7. AddressesComing'
    BY <1>w, <2>1, <2>4 DEF EnvironmentWritten, AddressesComing, At
  <2>8. ParametersStored'
    BY <2>1, <2>5 DEF ParametersStored
  <2>. QED BY <2>6, <2>7, <2>8 DEF EnvironmentWritten
<1>7. CASE CommitContainer \/ CommitDropbear \/ CommitPorts
  <2>1. /\ \E f \in {"landscape", "dropbear"} : Commit(f)
        /\ pc \in {"commit container", "commit dropbear", "commit ports"}
        /\ pc' \in {"uhttpd", "ports", "exec"} /\ UNCHANGED env
    BY <1>7 DEF CommitContainer, CommitDropbear, CommitPorts, At, Goto
  <2>2. \A o \in FollowedOptions : View(o)' = View(o)
    BY <2>1, ViewCommit, FollowedFiles
  <2>3. \A o \in AddressLists : layer'[o] = layer[o] \/ layer'[o] = NoDelta
    BY <2>1, FollowedFiles DEF Commit, Flushed, FollowedOptions
  <2>. QED BY <2>1, <2>2, <2>3, EnvironmentKept DEF At
<1>8. CASE CopyServiceDefaults
  <2>1. /\ UNCHANGED <<env, layer>> /\ At("uhttpd") /\ pc' = "commit uhttpd"
        /\ conf' = Emptied(Emptied(conf, "uhttpd"), "dropbear")
    BY <1>8 DEF CopyServiceDefaults, Goto
  <2>2. \A o \in FollowedOptions : conf'[o] = conf[o]
    BY <2>1, FollowedFiles DEF Emptied
  <2>3. \A o \in FollowedOptions : View(o)' = View(o)
    BY <2>1, <2>2 DEF View, Get
  <2>. QED BY <2>1, <2>3, EnvironmentKept DEF At
<1>9. CASE AddListItem /\ At("commit uhttpd")
  <2>1. Head(todo)[1] \in {"listen_http", "listen_https"}
    <3>1. Head(todo) \in ListenItems
      BY <1>9, HeadTailType DEF AddListItem, StagedForLater
    <3>. QED BY <3>1 DEF ListenItems
  <2>2. \A o \in FollowedOptions : layer'[o] = layer[o] /\ View(o)' = View(o)
    <3>1. UNCHANGED conf /\ layer' = AddList(layer, Head(todo)[1], Head(todo)[2])
      BY <1>9 DEF AddListItem
    <3>2. \A o \in FollowedOptions : o \in Options /\ o # Head(todo)[1]
      BY <2>1, FollowedFiles DEF FollowedOptions, AddressLists
    <3>. QED BY <3>1, <3>2, AddOther
  <2>3. UNCHANGED <<env, pc>>
    BY <1>9 DEF AddListItem
  <2>. QED BY <1>9, <2>2, <2>3, EnvironmentKept DEF At, FollowedOptions
<1>10. CASE CommitUhttpd
  <2> DEFINE values == [ssh_listen |-> env.ports.ssh]
  <2> DEFINE staged == SetAll(layer, values)
  <2>1. /\ At("commit uhttpd") /\ UNCHANGED env /\ pc' = "commit dropbear"
        /\ conf' = Committed(conf, staged, "uhttpd") /\ layer' = Flushed(staged, "uhttpd")
    BY <1>10 DEF CommitUhttpd, Goto
  <2>2. DOMAIN values = {"ssh_listen"}
    OBVIOUS
  <2> HIDE DEF values
  <2>3. ASSUME NEW o \in FollowedOptions PROVE conf'[o] = conf[o] /\ layer'[o] = layer[o]
    <3>1. o \in Options /\ ConfigOf[o] # "uhttpd" /\ staged[o] = layer[o]
      BY <2>2, FollowedFiles DEF FollowedOptions, AddressLists, SetAll
    <3>. QED BY <2>1, <3>1 DEF Committed, Flushed
  <2>4. \A o \in FollowedOptions : View(o)' = View(o)
    BY <2>3 DEF View, Get
  <2>. QED BY <2>1, <2>3, <2>4, EnvironmentKept DEF At, FollowedOptions
<1>11. CASE SetPorts
  <2> DEFINE values == [http_port |-> env.ports.http, https_port |-> env.ports.https,
                        ssh_port |-> env.ports.ssh]
  <2>1. UNCHANGED <<env, conf>> /\ At("ports") /\ pc' = "commit ports" /\ Stage(values)
    BY <1>11 DEF SetPorts, Goto
  <2>2. DOMAIN values = {"http_port", "https_port", "ssh_port"}
    OBVIOUS
  <2> HIDE DEF values
  <2>3. \A o \in FollowedOptions : o \in Options /\ o \notin DOMAIN values
    BY <2>2, FollowedFiles DEF FollowedOptions, AddressLists
  <2>4. \A o \in FollowedOptions : View(o)' = View(o) /\ layer'[o] = layer[o]
    BY <2>1, <2>3, ViewStage DEF Stage, SetAll
  <2>. QED BY <2>1, <2>4, EnvironmentKept DEF At, FollowedOptions
<1>. QED
  BY <1>1, <1>2, <1>3, <1>4, <1>5, <1>6, <1>7, <1>8, <1>9, <1>10, <1>11
  DEF StartupNext, AddListItem, At

\* What the boot sequence writes.
BootOptions == {"zonename", "dest_port", "masq", "ignore", "resolver", "initialized"}

\* A step of the boot sequence leaves the other options alone, and stages
\* nothing for them.
LEMMA BootWrites ==
  ASSUME TypeOK, BootStagesFirewall, BootStep, NEW o \in Options \ BootOptions,
         tmpfs[o] = NoDelta
  PROVE  conf'[o] = conf[o] /\ tmpfs'[o] = NoDelta
<1>0. o \in Options /\ conf[o] \in Seq(ValuesOf[o])
  BY DEF TypeOK, ConfigTypes, FilesOK
<1>1. CASE PrepareSystem
  <2> DEFINE values == [zonename |-> Get(conf, tmpfs, "timezone")[1]]
  <2>1. SetAndCommit(values, "system") /\ o \notin DOMAIN values
    BY <1>1 DEF PrepareSystem, BootOptions
  <2>2. \A p \in DOMAIN values : ConfigOf[p] = "system"
    BY OptionFiles
  <2> HIDE DEF values
  <2>. QED BY <1>0, <2>1, <2>2, BootCommit
<1>2. CASE StopDhcp
  <2> DEFINE values == [ignore |-> "1"]
  <2>1. SetAndCommit(values, "dhcp") /\ o \notin DOMAIN values
    BY <1>2 DEF StopDhcp, BootOptions
  <2>2. \A p \in DOMAIN values : ConfigOf[p] = "dhcp"
    BY OptionFiles
  <2> HIDE DEF values
  <2>. QED BY <1>0, <2>1, <2>2, BootCommit
<1>3. CASE InitialResolver
  <2> DEFINE values == [resolver |-> "auto"]
  <2>1. SetAndCommit(values, "dhcp") \/ UNCHANGED <<conf, tmpfs>>
    BY <1>3 DEF InitialResolver
  <2>2. /\ o \notin DOMAIN values
        /\ \A p \in DOMAIN values : ConfigOf[p] = "dhcp"
    BY OptionFiles DEF BootOptions
  <2> HIDE DEF values
  <2>. QED BY <1>0, <2>1, <2>2, BootCommit
<1>4. CASE RecordInitialized
  <2> DEFINE values == [initialized |-> "1"]
  <2>1. SetAndCommit(values, "landscape") /\ o \notin DOMAIN values
    BY <1>4 DEF RecordInitialized, BootOptions
  <2>2. \A p \in DOMAIN values : ConfigOf[p] = "landscape"
    BY OptionFiles
  <2> HIDE DEF values
  <2>. QED BY <1>0, <2>1, <2>2, BootCommit
<1>5. CASE CommitFirewall
  <2>1. Get(conf, tmpfs, o) = conf[o]
    BY <1>0, AppliedNothing DEF Get
  <2>. QED BY <1>0, <1>5, <2>1 DEF CommitFirewall, Committed, Flushed
<1>6. CASE StageFirewall
  <2> DEFINE values == [dest_port |-> ProtectedPorts, masq |-> "1"]
  <2>1. tmpfs' = SetAll(tmpfs, values) /\ UNCHANGED conf /\ o \notin DOMAIN values
    BY <1>6 DEF StageFirewall, BootOptions
  <2> HIDE DEF values
  <2>. QED BY <1>0, <2>1 DEF SetAll
<1>7. CASE ExecInit
  BY <1>0, <1>7 DEF ExecInit, Halt, NothingStaged
<1>. QED
  BY <1>1, <1>2, <1>3, <1>4, <1>5, <1>6, <1>7 DEF BootStep, InstallMarkRule,
    TouchMarker, StartFirewall, StartNetwork, StartListeners, StartRedirect

\* Every step keeps what was written of the environment: the boot sequence
\* writes other options, an operator's commit what a script has staged, a
\* user edits the addresses only when no start depends on them any more.
LEMMA EnvironmentNext ==
  TypeOK /\ StagedForLater /\ BootStagesFirewall /\ EnvironmentWritten /\ [Next]_vars
    => EnvironmentWritten'
<1>. SUFFICES ASSUME TypeOK, StagedForLater, BootStagesFirewall, EnvironmentWritten,
                     [Next]_vars
              PROVE  EnvironmentWritten'
  OBVIOUS
<1>. USE DEF BeforeContainer, BeforeDropbear, BeforePorts, layerVars
<1>u. \A o \in FollowedOptions :
        o \in Options \ BootOptions /\ tmpfs[o] = NoDelta /\ conf[o] \in Seq(ValuesOf[o])
  BY FollowedFiles DEF BootStagesFirewall, BootOptions, FollowedOptions, AddressLists,
    TypeOK, ConfigTypes, FilesOK
<1>s. ASSUME UNCHANGED <<env, layer>>, \A o \in FollowedOptions : conf'[o] = conf[o],
             \/ UNCHANGED <<pc, todo>>
             \/ pc \notin BeforeInit \union {"up"} /\ pc' \notin BeforeInit
             \/ pc' \in {"off", "validate"}
      PROVE  EnvironmentWritten'
  <2>1. \A o \in FollowedOptions : View(o)' = View(o)
    BY <1>s DEF View, Get
  <2>. QED BY <1>s, <2>1, EnvironmentKept DEF At, BeforeInit
<1>1. CASE Starting
  BY <1>1, EnvironmentByStart DEF Starting
<1>2. CASE Booting
  <2>1. /\ UNCHANGED <<env, layer>>
        /\ pc \notin BeforeInit \union {"up"} /\ pc' \notin BeforeInit
    BY <1>2 DEF Booting, BootStep, ExecInit, PrepareSystem, StageFirewall,
      CommitFirewall, InstallMarkRule, StopDhcp, InitialResolver,
      RecordInitialized, TouchMarker, StartFirewall, StartNetwork,
      StartListeners, StartRedirect, At, Goto, BeforeInit
  <2>2. \A o \in FollowedOptions : conf'[o] = conf[o]
    BY <1>2, <1>u, BootWrites DEF Booting
  <2>. QED BY <2>1, <2>2, <1>s
<1>3. CASE PrepareFails
  <2>1. /\ UNCHANGED <<env, layer, conf>>
        /\ pc \notin BeforeInit \union {"up"} /\ pc' \notin BeforeInit
    BY <1>3 DEF PrepareFails, PrepareSteps, Goto, BeforeInit
  <2>. QED BY <2>1, <1>s
<1>4. CASE OperatorCommits
  <2>1. CASE pc \in StartupSteps
    <3>1. /\ conf' = CommittedAll(conf, layer) /\ layer' = NothingStaged
          /\ UNCHANGED <<pc, env, todo>>
      BY <1>4, <2>1 DEF OperatorCommits
    <3>2. \A o \in FollowedOptions : View(o)' = View(o)
      BY <3>1, ViewCommitAll, FollowedFiles
    <3>3. \A o \in AddressLists : layer'[o] = NoDelta
      BY <3>1, FollowedFiles DEF NothingStaged, FollowedOptions
    <3>. QED BY <3>1, <3>2, <3>3, EnvironmentKept DEF At
  <2>2. CASE pc \notin StartupSteps
    <3>1. conf' = CommittedAll(conf, tmpfs) /\ UNCHANGED <<pc, env, todo, layer>>
      BY <1>4, <2>2 DEF OperatorCommits
    <3>2. \A o \in FollowedOptions : conf'[o] = conf[o]
      BY <3>1, <1>u, AppliedNothing DEF CommittedAll, Get
    <3>. QED BY <3>1, <3>2, <1>s
  <2>. QED BY <2>1, <2>2
<1>5. ASSUME NEW u \in UserSettings \union {"dns"}, UserEdits(u) PROVE EnvironmentWritten'
  <2>1. At("up") /\ UNCHANGED <<pc, env, layer>> /\ conf' = [conf EXCEPT ![u] = <<"user">>]
    BY <1>5 DEF UserEdits
  <2>2. conf = [o \in Options |-> conf[o]]
    BY DEF TypeOK, ConfigTypes, FilesOK
  <2>3. \A o \in {"timezone", "proxy"} : o \in Options /\ o # u
    BY OptionNames DEF UserSettings
  <2>4. \A o \in {"timezone", "proxy"} : View(o)' = View(o)
    BY <2>1, <2>2, <2>3 DEF View, Get
  <2>5. ParametersStored'
    BY <2>1, <2>4 DEF EnvironmentWritten, ParametersStored
  <2>6. \A o : Asked(o)' = Asked(o)
    BY <2>1 DEF Asked
  <2>7. StagedAddresses' /\ AddressesComing'
    BY <2>1, <2>6 DEF EnvironmentWritten, StagedAddresses, AddressesComing, At
  <2>. QED BY <2>5, <2>7 DEF EnvironmentWritten
<1>6. CASE Die
  BY <1>6, <1>s DEF Die, Goto
<1>7. CASE Restart
  BY <1>7, <1>s DEF Restart, Goto
<1>8. ASSUME NEW e \in Env, Recreate(e) PROVE EnvironmentWritten'
  <2>1. \A o \in AddressLists : layer'[o] = NoDelta
    BY <1>8, FollowedFiles DEF Recreate, NothingStaged, FollowedOptions
  <2>2. StagedAddresses'
    <3>1. \A o \in AddressLists : ~layer'[o].reset /\ Range(layer'[o].add) = {}
      BY <2>1, NoDeltaFields, RangeEmpty
    <3>. QED BY <3>1 DEF StagedAddresses
  <2>3. AddressesComing' /\ ParametersStored'
    BY <1>8 DEF Recreate, Goto, AddressesComing, ParametersStored, At
  <2>. QED BY <2>2, <2>3 DEF EnvironmentWritten
<1>. QED
  <2>1. CASE HandlerExits \/ Respawning \/ Reapplying \/ ReloadFirewall \/ RestartRedirect
               \/ SettingUp \/ TearDownLan \/ UpdateLan \/ KernelGained \/ KernelLost
               \/ UNCHANGED vars
    BY <2>1, <1>s DEF HandlerExits, Respawning, RespawnHandler, Reapplying, Hotplug,
      ReloadFirewall, RestartRedirect,
      SettingUp, SetUpLan, TearDownLan, UpdateLan, KernelGained, KernelLost,
      vars, startupVars
  <2>. QED BY <1>1, <1>2, <1>3, <1>4, <1>5, <1>6, <1>7, <1>8, <2>1 DEF Next

\* Nothing stages the defaults of the firewall.
LEMMA DefaultsNext ==
  TypeOK /\ BootStagesFirewall /\ DefaultsUnstaged /\ [Next]_vars => DefaultsUnstaged'
<1>. SUFFICES ASSUME TypeOK, BootStagesFirewall, DefaultsUnstaged, [Next]_vars
              PROVE  DefaultsUnstaged'
  OBVIOUS
<1>. USE DEF DefaultsUnstaged
<1>0. "defaults" \in Options \ BootOptions /\ NothingStaged["defaults"] = NoDelta
  BY OptionNames DEF BootOptions, NothingStaged
<1>1. CASE Booting
  BY <1>0, <1>1, BootWrites DEF Booting
<1>2. CASE OperatorCommits
  BY <1>0, <1>2 DEF OperatorCommits
<1>3. CASE Die
  BY <1>0, <1>3 DEF Die, Halt
<1>. QED
  BY <1>1, <1>2, <1>3 DEF Next, Starting, PrepareFails, HandlerExits,
    SettingUp, SetUpLan, TearDownLan, UpdateLan, KernelGained, KernelLost,
    Respawning, RespawnHandler, Reapplying, Hotplug, ReloadFirewall, RestartRedirect,
    UserEdits, Restart, Recreate, vars, servicesVars, layerVars

\* The whole invariant.
LEMMA EnvironmentAlways ==
  Spec => [](TypeOK /\ StagedForLater /\ PortsWritten /\ BootInv
               /\ EnvironmentWritten /\ DefaultsUnstaged)
<1>1. Init => StagedForLater /\ TypeOK
  BY InitType, StagedInit
<1>2. BootInv => BootStagesFirewall
  BY DEF BootInv
<1>. QED
  BY <1>1, <1>2, InitType, NextType, StagedInit, StagedNext, PortsInit, BootInit,
     PortsNext, RulesNext, EnvironmentInit, EnvironmentNext, DefaultsNext, PTL DEF Spec

-----------------------------------------------------------------------------
\* Once start.sh has ended the files hold the environment: what is staged no
\* longer hides them.
LEMMA EnvironmentInFiles ==
  ASSUME TypeOK, StagedForLater, EnvironmentWritten, pc \notin BeforeInit
  PROVE  /\ pc # "up" => \A o \in AddressLists : Range(conf[o]) = Asked(o)
         /\ conf["timezone"] = <<env.tz>>
         /\ conf["proxy"] = <<NormalProxy(env.proxy)>>
<1>. USE DEF BeforeInit, BeforePorts, BeforeDropbear
<1>1. Clean("network") /\ Clean("landscape")
  BY DEF StagedForLater
<1>2. ASSUME NEW o \in FollowedOptions PROVE View(o) = conf[o]
  <2>1. o \in Options /\ layer[o] = NoDelta /\ conf[o] \in Seq(ValuesOf[o])
    BY <1>1, FollowedFiles DEF Clean, TypeOK, ConfigTypes, FilesOK
  <2>. QED BY <2>1, AppliedNothing DEF View, Get
<1>3. pc \notin BeforeContainer \union {"container"}
  BY DEF BeforeContainer
<1>. QED
  BY <1>2, <1>3
  DEF EnvironmentWritten, AddressesComing, ParametersStored, FollowedOptions

\* The invariant says what the property asks for.
LEMMA FilesReach ==
  TypeOK /\ StagedForLater /\ PortsWritten /\ EnvironmentWritten
    => EnvironmentReachesServices
<1>. SUFFICES ASSUME TypeOK, StagedForLater, PortsWritten, EnvironmentWritten, HandedOver
              PROVE  /\ Range(conf.dns) = Range(env.dns)
                     /\ Range(conf.ip6addr) = Range(env.ip6)
                     /\ Range(conf.listen_http) = Range(Both(env.ports.http))
                     /\ Range(conf.listen_https) = Range(Both(env.ports.https))
                     /\ conf.ssh_listen = <<env.ports.ssh>>
                     /\ conf.proxy = <<NormalProxy(env.proxy)>>
                     /\ conf.timezone = <<env.tz>>
  BY DEF EnvironmentReachesServices
<1>1. pc \notin BeforeInit /\ pc # "up"
  BY DEF HandedOver, PrepareSteps, BeforeInit, BeforePorts, BeforeDropbear, BeforeContainer
<1>2. /\ Range(conf.listen_http) = Wanted("listen_http")
      /\ Range(conf.listen_https) = Wanted("listen_https")
      /\ conf.ssh_listen = <<env.ports.ssh>>
  BY <1>1, FilesWritten DEF Lists
<1>3. /\ Range(conf.dns) = Asked("dns") /\ Range(conf.ip6addr) = Asked("ip6addr")
      /\ conf.timezone = <<env.tz>> /\ conf.proxy = <<NormalProxy(env.proxy)>>
  BY <1>1, EnvironmentInFiles DEF AddressLists
<1>. QED BY <1>2, <1>3 DEF Wanted, Asked

\* However many starts were cut short, the services find what the environment
\* of this container asks for (start.sh writes it anew at every start).
THEOREM EnvironmentReaches == Spec => []EnvironmentReachesServices
BY EnvironmentAlways, FilesReach, PTL

-----------------------------------------------------------------------------
\* No step of a start or a boot writes what users own: nothing is ever staged
\* for it, but by landscape-dns as long as the flag is not recorded.
LEMMA SettingsStep ==
  TypeOK /\ StagedForLater /\ BootStagesFirewall /\ DefaultsUnstaged /\ [Next]_vars
    => (pc # "up" =>
          /\ conf'.defaults = conf.defaults
          /\ conf.initialized = <<"1">> => conf'.resolver = conf.resolver)
<1>. SUFFICES ASSUME TypeOK, StagedForLater, BootStagesFirewall, DefaultsUnstaged,
                     [Next]_vars, pc # "up"
              PROVE  /\ conf'["defaults"] = conf["defaults"]
                     /\ conf["initialized"] = <<"1">> => conf'["resolver"] = conf["resolver"]
  OBVIOUS
<1>. DEFINE Owned == {"defaults", "resolver"}
<1>0. ASSUME NEW o \in Owned
      PROVE  /\ o \in Options /\ ConfigOf[o] \in {"firewall", "dhcp"}
             /\ layer[o] = NoDelta /\ tmpfs[o] = NoDelta
             /\ conf[o] \in Seq(ValuesOf[o])
             /\ Get(conf, layer, o) = conf[o] /\ Get(conf, tmpfs, o) = conf[o]
  <2>1. o \in Options /\ ConfigOf[o] \in {"firewall", "dhcp"}
    BY <1>0, OptionNames, OptionFiles
  <2>2. layer[o] = NoDelta /\ conf[o] \in Seq(ValuesOf[o])
    BY <2>1 DEF StagedForLater, Clean, TypeOK, ConfigTypes, FilesOK
  <2>3. tmpfs[o] = NoDelta
    BY <1>0, <2>1, OptionFiles DEF BootStagesFirewall, DefaultsUnstaged
  <2>. QED BY <2>1, <2>2, <2>3, AppliedNothing DEF Get
<1>1. CASE Starting
  <2>1. ASSUME NEW store, NEW f, f \notin {"firewall", "dhcp"}, conf' = Committed(conf, store, f)
        PROVE  \A o \in Owned : conf'[o] = conf[o]
    BY <1>0, <2>1 DEF Committed
  <2>2. ASSUME NEW f, f \notin {"firewall", "dhcp"}, Commit(f)
        PROVE  \A o \in Owned : conf'[o] = conf[o]
    BY <2>1, <2>2 DEF Commit
  <2>3. CASE SystemDefaults
    <3>1. UNCHANGED conf \/ \E store : conf' = Committed(conf, store, "system")
      BY <2>3 DEF SystemDefaults
    <3>. QED BY <2>1, <3>1
  <2>4. CASE CommitUhttpd
    <3>1. \E store : conf' = Committed(conf, store, "uhttpd")
      BY <2>4 DEF CommitUhttpd
    <3>. QED BY <2>1, <3>1
  <2>5. CASE CommitNetwork \/ CommitContainer \/ CommitDropbear \/ CommitPorts
    BY <2>2, <2>5 DEF CommitNetwork, CommitContainer, CommitDropbear, CommitPorts
  <2>6. CASE ResetNetwork \/ CopyServiceDefaults
    BY <1>0, <2>6 DEF ResetNetwork, CopyServiceDefaults, Emptied
  <2>. QED
    BY <1>1, <2>3, <2>4, <2>5, <2>6 DEF Starting, StartupNext, Validate, MaskConsoles,
      SetPassword, AddListItem, SetContainer, SetPorts
<1>2. CASE Booting
  <2>1. conf'["defaults"] = conf["defaults"]
    BY <1>0, <1>2, BootWrites DEF Booting, BootOptions
  <2>2. CASE InitialResolver
    <3>1. "initialized" \in Options /\ ConfigOf["initialized"] = "landscape"
      BY OptionNames, OptionFiles
    <3>2. tmpfs["initialized"] = NoDelta /\ conf["initialized"] \in Seq(ValuesOf["initialized"])
      BY <3>1 DEF BootStagesFirewall, TypeOK, ConfigTypes, FilesOK
    <3>3. Get(conf, tmpfs, "initialized") = conf["initialized"]
      BY <3>2, AppliedNothing DEF Get
    <3>. QED BY <2>1, <2>2, <3>3 DEF InitialResolver
  <2>3. CASE PrepareSystem
    <3>1. \E store : conf' = Committed(conf, store, "system")
      BY <2>3 DEF PrepareSystem, SetAndCommit
    <3>. QED BY <1>0, <3>1 DEF Committed
  <2>4. CASE CommitFirewall
    BY <1>0, <2>4 DEF CommitFirewall, Committed
  <2>5. CASE StopDhcp
    <3> DEFINE values == [ignore |-> "1"]
    <3>1. SetAndCommit(values, "dhcp") /\ "resolver" \notin DOMAIN values
      BY <2>5 DEF StopDhcp
    <3>2. \A p \in DOMAIN values : ConfigOf[p] = "dhcp"
      BY OptionFiles
    <3> HIDE DEF values
    <3>. QED BY <1>0, <2>1, <3>1, <3>2, BootCommit
  <2>6. CASE RecordInitialized
    <3>1. \E store : conf' = Committed(conf, store, "landscape")
      BY <2>6 DEF RecordInitialized, SetAndCommit
    <3>. QED BY <1>0, <3>1 DEF Committed
  <2>. QED
    BY <1>2, <2>1, <2>2, <2>3, <2>4, <2>5, <2>6 DEF Booting, BootStep, ExecInit,
      StageFirewall, InstallMarkRule, TouchMarker, StartFirewall, StartNetwork,
      StartListeners, StartRedirect
<1>3. CASE OperatorCommits
  BY <1>0, <1>3 DEF OperatorCommits, CommittedAll
<1>. QED
  BY <1>1, <1>2, <1>3 DEF Next, PrepareFails, HandlerExits,
    SettingUp, SetUpLan, TearDownLan, UpdateLan, KernelGained, KernelLost,
    Respawning,
    RespawnHandler, Reapplying, Hotplug, ReloadFirewall, RestartRedirect, UserEdits, At,
    Die, Restart, Recreate, vars, startupVars, layerVars

\* Settings of LuCI and PassWall outlive every start and boot (landscape-dns
\* looks at its flag; nothing else writes them).
THEOREM SettingsKept == Spec => UserSettingsKept
<1>1. BootInv => BootStagesFirewall
  BY DEF BootInv
<1>2. Spec => [](TypeOK /\ StagedForLater /\ BootStagesFirewall /\ DefaultsUnstaged)
  BY <1>1, EnvironmentAlways, PTL
<1>. QED BY <1>2, SettingsStep, PTL DEF Spec, UserSettingsKept

-----------------------------------------------------------------------------
(* The container takes the steps of an exit node, and no others.           *)

\* The handler is known by the parameters of its own environment.
OfferAsked == handler # "none" => args = WantedOf(env)

\* What landscape-redirect reads in a prepared container.
LEMMA StoredAsked ==
  ASSUME TypeOK, StagedForLater, BootStagesFirewall, EnvironmentWritten,
         pc \in {"redirect", "up"}
  PROVE  CommandLine(StoredProxy) = WantedOf(env)
<1>1. pc \notin BeforeInit
  BY DEF BeforeInit, BeforePorts, BeforeDropbear, BeforeContainer
<1>2. "proxy" \in Options /\ ConfigOf["proxy"] = "landscape"
  BY OptionNames, OptionFiles
<1>3. tmpfs["proxy"] = NoDelta /\ conf["proxy"] \in Seq(ValuesOf["proxy"])
  BY <1>2 DEF BootStagesFirewall, TypeOK, ConfigTypes, FilesOK
<1>4. Get(conf, tmpfs, "proxy") = <<NormalProxy(env.proxy)>>
  BY <1>1, <1>3, AppliedNothing, EnvironmentInFiles DEF Get
<1>5. \A p : <<p>> # <<>> /\ <<p>>[1] = p
  OBVIOUS
<1>6. StoredProxy = NormalProxy(env.proxy)
  BY <1>4, <1>5 DEF StoredProxy
<1>. QED BY <1>6 DEF WantedOf

\* At first there is no handler.
LEMMA OfferInit == Init => OfferAsked
BY DEF Init, Halted, OfferAsked

\* A handler is started with the parameters of its environment, respawned with
\* the same, and ends before the environment can change.
LEMMA OfferNext ==
  TypeOK /\ StagedForLater /\ BootInv /\ EnvironmentWritten /\ OfferAsked /\ [Next]_vars
    => OfferAsked'
<1>. SUFFICES ASSUME TypeOK, StagedForLater, BootInv, EnvironmentWritten, OfferAsked,
                     [Next]_vars
              PROVE  OfferAsked'
  OBVIOUS
<1>. USE DEF OfferAsked, layerVars, WantedOf
<1>0. /\ BootStagesFirewall
      /\ handler # "none" => pc = "up"
  BY DEF BootInv, ServicesFollow
<1>1. ASSUME StartService, pc \in {"redirect", "up"}, UNCHANGED env PROVE OfferAsked'
  BY <1>0, <1>1, StoredAsked DEF StartService
<1>2. CASE Starting
  BY <1>0, <1>2 DEF Starting, StartupNext, Validate, MaskConsoles, SetPassword,
    SystemDefaults, ResetNetwork, AddListItem, CommitNetwork, SetContainer,
    CommitContainer, CopyServiceDefaults, CommitUhttpd, CommitDropbear,
    SetPorts, CommitPorts, At, servicesVars
<1>3. CASE Booting
  <2>1. CASE StartRedirect
    BY <1>1, <2>1 DEF StartRedirect, At
  <2>2. CASE ExecInit
    BY <2>2 DEF ExecInit, Halt
  <2>. QED
    BY <1>3, <2>1, <2>2 DEF Booting, BootStep, PrepareSystem, StageFirewall,
      CommitFirewall, InstallMarkRule, StopDhcp, InitialResolver, RecordInitialized,
      TouchMarker, StartFirewall, StartNetwork, StartListeners
<1>4. CASE RestartRedirect
  BY <1>1, <1>4 DEF RestartRedirect, At
<1>5. CASE Die
  BY <1>5 DEF Die, Halt
<1>6. CASE Restart \/ \E e \in Env : Recreate(e)
  BY <1>0, <1>6 DEF Restart, Recreate, At, servicesVars
<1>7. CASE HandlerExits \/ Respawning
  BY <1>7 DEF HandlerExits, Respawning, RespawnHandler
<1>8. CASE UNCHANGED <<env, handler, args>>
  BY <1>8
<1>9. CASE \/ PrepareFails \/ Reapplying \/ ReloadFirewall \/ OperatorCommits
           \/ SettingUp \/ TearDownLan \/ UpdateLan \/ KernelGained \/ KernelLost
           \/ (\E o \in UserSettings \union {"dns"} : UserEdits(o)) \/ UNCHANGED vars
  BY <1>8, <1>9 DEF PrepareFails, Reapplying, Hotplug, ReloadFirewall, OperatorCommits,
      SettingUp, SetUpLan, TearDownLan, UpdateLan, KernelGained, KernelLost,
      UserEdits, vars, startupVars, servicesVars
<1>. QED
  BY <1>2, <1>3, <1>4, <1>5, <1>6, <1>7, <1>9 DEF Next

\* What the exit node is seen to do.
Shown == IF handler = "none" THEN NoOffer ELSE args

\* A container begins as an exit node does.
LEMMA NodeBegins == Init => Node!NodeInit
BY DEF Init, Halted, Node!NodeInit, Status, WantedOf

\* Each step of the container is one of the exit node or none.
LEMMA NodeSteps ==
  TypeOK /\ StagedForLater /\ BootInv /\ EnvironmentWritten /\ OfferAsked /\ [Next]_vars
    => [Node!NodeNext]_(Node!nodeVars)
<1>. SUFFICES ASSUME TypeOK, StagedForLater, BootInv, EnvironmentWritten, OfferAsked,
                     [Next]_vars
              PROVE  Node!NodeNext \/ UNCHANGED <<Status, WantedOf(env), Shown>>
  BY DEF Node!nodeVars, Shown
<1>. USE DEF layerVars
<1>0. /\ BootStagesFirewall
      /\ handler # "none" => marker /\ pc = "up" /\ args = WantedOf(env)
      /\ marker => pc \in {"fw4", "netifd", "listeners", "redirect", "up"}
      /\ handler \in {"none", "running", "exited"}
  BY DEF BootInv, ServicesFollow, OfferAsked, TypeOK, ServiceTypes
<1>w. UNCHANGED env => UNCHANGED WantedOf(env)
  BY DEF WantedOf
<1>s. ASSUME UNCHANGED <<env, marker, handler, args>>,
             pc # "off" /\ pc' # "off",
             pc' = "up" <=> pc = "up"
      PROVE  UNCHANGED <<Status, WantedOf(env), Shown>>
  BY <1>s, <1>w DEF Status, Shown
<1>d. ASSUME pc # "off", pc' = "off", handler' = "none", marker' = FALSE, UNCHANGED env
      PROVE  Node!Stop
  <2>1. Status # "down"
    BY <1>d, <1>0 DEF Status
  <2>2. Status' = "down"
    BY <1>d DEF Status
  <2>. QED BY <1>d, <1>w, <2>1, <2>2 DEF Node!Stop, NoOffer
<1>r. ASSUME StartService, pc \in {"redirect", "up"}, pc' = "up", UNCHANGED <<env, marker>>
      PROVE  Node!NodeNext \/ UNCHANGED <<Status, WantedOf(env), Shown>>
  <2>1. CommandLine(StoredProxy) = WantedOf(env)
    BY <1>0, <1>r, StoredAsked
  <2>2. CASE handler' = "running" /\ args' = WantedOf(env) /\ marker
    <3>1. CASE handler = "none"
      <4>1. Node!Accept
        BY <1>r, <1>w, <2>2, <3>1 DEF Node!Accept, Status
      <4>. QED BY <4>1 DEF Node!NodeNext
    <3>2. CASE handler = "exited"
      <4>1. Node!Resume
        BY <1>0, <1>r, <1>w, <2>2, <3>2 DEF Node!Resume, Status
      <4>. QED BY <4>1 DEF Node!NodeNext
    <3>3. CASE handler = "running"
      BY <1>0, <1>r, <1>w, <2>2, <3>3 DEF Status, Shown
    <3>. QED BY <1>0, <3>1, <3>2, <3>3
  <2>3. CASE UNCHANGED <<handler, args>>
    <3>1. CASE pc = "up" \/ marker
      BY <1>0, <1>r, <1>w, <2>3, <3>1 DEF Status, Shown
    <3>2. CASE pc = "redirect" /\ ~marker
      <4>1. Node!Refuse
        BY <1>0, <1>r, <1>w, <2>3, <3>2 DEF Node!Refuse, Status
      <4>. QED BY <4>1 DEF Node!NodeNext
    <3>. QED BY <1>r, <3>1, <3>2
  <2>. QED BY <1>r, <2>1, <2>2, <2>3 DEF StartService
<1>1. CASE Starting
  <2>1. /\ pc \in StartupSteps /\ pc' \in StartupSteps \union {"off"}
        /\ UNCHANGED <<env, marker, handler, args>>
    BY <1>1 DEF Starting, StartupNext, Validate, MaskConsoles, SetPassword,
      SystemDefaults, ResetNetwork, AddListItem, CommitNetwork, SetContainer,
      CommitContainer, CopyServiceDefaults, CommitUhttpd, CommitDropbear,
      SetPorts, CommitPorts, StartupSteps, At, Goto, servicesVars
  <2>2. pc \notin {"off", "up"} /\ pc' # "up"
    BY <2>1 DEF StartupSteps
  <2>3. CASE pc' = "off"
    <3>1. handler' = "none" /\ marker' = FALSE
      BY <1>0, <2>1, <2>2, <2>3 DEF StartupSteps, TypeOK, ServiceTypes
    <3>. QED BY <1>d, <2>1, <2>2, <2>3, <3>1 DEF Node!NodeNext
  <2>4. CASE pc' # "off"
    BY <1>s, <2>1, <2>2, <2>4
  <2>. QED BY <2>3, <2>4
<1>2. CASE Booting
  <2>1. CASE ExecInit
    <3>1. /\ pc = "exec" /\ pc' = "prepare" /\ marker' = FALSE /\ handler' = "none"
          /\ UNCHANGED env
      BY <2>1 DEF ExecInit, Halt, At, Goto
    <3>2. ~marker /\ handler = "none"
      BY <1>0, <3>1
    <3>. QED BY <1>w, <3>1, <3>2 DEF Status, Shown
  <2>2. CASE TouchMarker
    <3>1. /\ pc = "marker" /\ pc' = "fw4" /\ marker' = TRUE /\ UNCHANGED <<env, handler, args>>
      BY <2>2 DEF TouchMarker, At, Goto
    <3>2. ~marker /\ handler = "none"
      BY <1>0, <3>1
    <3>3. Node!Prepare
      BY <1>w, <3>1, <3>2 DEF Node!Prepare, Status
    <3>. QED BY <3>3 DEF Node!NodeNext
  <2>3. CASE StartRedirect
    BY <1>r, <2>3 DEF StartRedirect, At, Goto
  <2>4. CASE \/ PrepareSystem \/ StageFirewall \/ CommitFirewall \/ InstallMarkRule
             \/ StopDhcp \/ InitialResolver \/ RecordInitialized
             \/ StartFirewall \/ StartNetwork \/ StartListeners
    <3>1. UNCHANGED <<env, marker, handler, args>> /\ pc \notin {"off", "up"}
            /\ pc' \notin {"off", "up"}
      BY <2>4 DEF PrepareSystem, StageFirewall, CommitFirewall, InstallMarkRule, StopDhcp,
        InitialResolver, RecordInitialized, StartFirewall, StartNetwork, StartListeners,
        At, Goto
    <3>. QED BY <1>s, <3>1
  <2>. QED BY <1>2, <2>1, <2>2, <2>3, <2>4 DEF Booting, BootStep
<1>3. CASE PrepareFails
  <2>1. UNCHANGED <<env, marker, handler, args>> /\ pc \notin {"off", "up"} /\ pc' = "fw4"
    BY <1>3 DEF PrepareFails, PrepareSteps, Goto, servicesVars
  <2>. QED BY <1>s, <2>1
<1>4. CASE HandlerExits
  <2>1. /\ handler = "running" /\ handler' = "exited"
        /\ UNCHANGED <<pc, env, marker, args>>
    BY <1>4 DEF HandlerExits
  <2>2. Node!Interrupt
    BY <1>0, <1>w, <2>1 DEF Node!Interrupt, Status
  <2>. QED BY <2>2 DEF Node!NodeNext
<1>5. CASE Respawning
  <2>1. /\ handler = "exited" /\ handler' = "running"
        /\ UNCHANGED <<pc, env, marker, args>>
    BY <1>5 DEF Respawning, RespawnHandler
  <2>2. Node!Resume
    BY <1>0, <1>w, <2>1 DEF Node!Resume, Status
  <2>. QED BY <2>2 DEF Node!NodeNext
<1>6. CASE RestartRedirect
  BY <1>6, <1>r DEF RestartRedirect, At
<1>7. CASE Die
  <2>1. Node!Stop
    BY <1>7, <1>d DEF Die, Halt, Goto
  <2>. QED BY <2>1 DEF Node!NodeNext
<1>8. CASE Restart \/ \E e \in Env : Recreate(e)
  <2>1. /\ pc = "off" /\ pc' = "validate" /\ env' \in Env
        /\ UNCHANGED <<marker, handler, args>>
    BY <1>8 DEF Restart, Recreate, At, Goto, servicesVars, TypeOK, ContainerTypes
  <2>2. ~marker /\ handler = "none"
    BY <1>0, <2>1
  <2>3. Node!Start
    BY <2>1, <2>2 DEF Node!Start, Status, WantedOf
  <2>. QED BY <2>3 DEF Node!NodeNext
<1>9. CASE \/ Reapplying \/ ReloadFirewall \/ OperatorCommits
           \/ SettingUp \/ TearDownLan \/ UpdateLan \/ KernelGained \/ KernelLost
           \/ (\E o \in UserSettings \union {"dns"} : UserEdits(o)) \/ UNCHANGED vars
  <2>1. UNCHANGED <<pc, env, marker, handler, args>>
    BY <1>9 DEF Reapplying, Hotplug, ReloadFirewall, OperatorCommits,
      SettingUp, SetUpLan, TearDownLan, UpdateLan, KernelGained, KernelLost,
      UserEdits, vars, startupVars, servicesVars
  <2>. QED BY <1>w, <2>1 DEF Status, Shown
<1>. QED
  BY <1>1, <1>2, <1>3, <1>4, <1>5, <1>6, <1>7, <1>8, <1>9 DEF Next

\* Whatever happens inside it, Landscape sees the container begin and move as
\* an exit node: it is offered after preparation only, with what its owner
\* asked for, and refuses for the rest of a life it could not prepare.
THEOREM ContainerIsExitNode ==
  Spec => Node!NodeInit /\ [][Node!NodeNext]_(Node!nodeVars)
<1>1. Spec => []OfferAsked
  BY EnvironmentAlways, OfferInit, OfferNext, PTL DEF Spec
<1>. QED BY <1>1, EnvironmentAlways, NodeBegins, NodeSteps, PTL DEF Spec

-----------------------------------------------------------------------------
(* The lists, item by item and in order, in a container that was never     *)
(* restarted: its layer has nothing staged when a loop begins.             *)

LoopLists == AddressLists \union Lists

BeforeNetworkLoop == {"validate", "console", "password", "system", "network"}

BeforeUhttpdLoop ==
  BeforeNetworkLoop \union {"commit network", "container", "commit container", "uhttpd"}

\* What two loops have still to add completes what is there.
Completes(first, l1, second, l2) ==
  \E r1 \in Seq(ValuesOf[first]), r2 \in Seq(ValuesOf[second]) :
    /\ View(first) \o r1 = l1
    /\ View(second) \o r2 = l2
    /\ todo = Items(first, r1) \o Items(second, r2)

\* The same after a step, for lists that the step does not change.
CompletesNext(first, l1, second, l2) ==
  \E r1 \in Seq(ValuesOf[first]), r2 \in Seq(ValuesOf[second]) :
    /\ View(first)' \o r1 = l1
    /\ View(second)' \o r2 = l2
    /\ todo' = Items(first, r1) \o Items(second, r2)

\* The lists of a first start: untouched before their loop, completed by it,
\* complete after it.
FirstLists ==
  /\ pc \in BeforeNetworkLoop => \A o \in AddressLists : layer[o] = NoDelta
  /\ pc \in BeforeUhttpdLoop => \A o \in Lists : layer[o] = NoDelta
  /\ At("commit network") => Completes("dns", env.dns, "ip6addr", env.ip6)
  /\ At("commit uhttpd") =>
       Completes("listen_http", Both(env.ports.http),
                              "listen_https", Both(env.ports.https))
  /\ pc \notin BeforeContainer \union {"up"} =>
       View("dns") = env.dns /\ View("ip6addr") = env.ip6
  /\ pc \notin BeforeDropbear =>
       /\ View("listen_http") = Both(env.ports.http)
       /\ View("listen_https") = Both(env.ports.https)

ListsInOrder == restarts = 0 => FirstLists

\* They are options of two files.
LEMMA LoopFiles ==
  /\ LoopLists \subseteq Options
  /\ \A o \in AddressLists : ConfigOf[o] = "network"
  /\ \A o \in Lists : ConfigOf[o] = "uhttpd"
BY OptionNames, OptionFiles DEF LoopLists, AddressLists, Lists

\* A list is known by its items.
LEMMA ListOfItems ==
  ASSUME NEW S, NEW s \in Seq(S), NEW n, Len(s) = n
  PROVE  s = [i \in 1..n |-> s[i]]
OBVIOUS

\* Adding at the end of the second of two lists adds at the end of both.
LEMMA ConcatAppend ==
  ASSUME NEW S, NEW a \in Seq(S), NEW b \in Seq(S), NEW x \in S
  PROVE  a \o Append(b, x) = Append(a \o b, x)
OBVIOUS

\* One turn of a loop that has an item left.
LEMMA ItemsStep ==
  ASSUME NEW S, NEW s \in Seq(S), s # <<>>, NEW o, NEW T, NEW t \in Seq(T)
  PROVE  /\ Head(Items(o, s) \o t) = <<o, Head(s)>>
         /\ Tail(Items(o, s) \o t) = Items(o, Tail(s)) \o t
<1> DEFINE R == {<<o, x>> : x \in S} \union T
<1>1. Len(s) \in Nat /\ Len(s) >= 1 /\ DOMAIN s = 1..Len(s)
  OBVIOUS
<1>2. Items(o, s) \in Seq(R) /\ Len(Items(o, s)) = Len(s)
  <2>1. Items(o, s) \in [1..Len(s) -> R]
    BY <1>1 DEF Items
  <2>. QED BY <1>1, <2>1
<1>3. \A i \in 1..Len(s) : Items(o, s)[i] = <<o, s[i]>>
  BY <1>1 DEF Items
<1>4. Tail(s) \in Seq(S) /\ Len(Tail(s)) = Len(s) - 1
        /\ \A i \in 1..(Len(s) - 1) : Tail(s)[i] = s[i + 1]
  BY <1>1
<1>5. Tail(Items(o, s)) = Items(o, Tail(s))
  <2>1. DOMAIN Tail(s) = 1..(Len(s) - 1)
    BY <1>1, <1>4
  <2>2. Items(o, Tail(s)) = [i \in 1..(Len(s) - 1) |-> <<o, s[i + 1]>>]
    BY <1>4, <2>1 DEF Items
  <2>3. /\ DOMAIN Tail(Items(o, s)) = 1..(Len(s) - 1)
        /\ \A i \in 1..(Len(s) - 1) : Tail(Items(o, s))[i] = Items(o, s)[i + 1]
    BY <1>1, <1>2
  <2>4. \A i \in 1..(Len(s) - 1) : i + 1 \in 1..Len(s)
    BY <1>1
  <2>5. Tail(Items(o, s)) = [i \in 1..(Len(s) - 1) |-> Tail(Items(o, s))[i]]
    <3>1. Items(o, s) # <<>>
      BY <1>1, <1>2
    <3>2. Tail(Items(o, s)) \in Seq(R)
      BY <1>2, <3>1, HeadTailType
    <3>3. Len(Tail(Items(o, s))) = Len(s) - 1
      BY <1>1, <1>2, <3>1
    <3>. QED BY <3>2, <3>3, ListOfItems
  <2>. QED BY <1>3, <2>2, <2>3, <2>4, <2>5
<1>6. Head(Items(o, s)) = <<o, Head(s)>>
  BY <1>1, <1>2, <1>3
<1>7. \A Q : \A a, b \in Seq(Q) : a # <<>> =>
        Head(a \o b) = Head(a) /\ Tail(a \o b) = Tail(a) \o b
  OBVIOUS
<1>8. t \in Seq(R) /\ Items(o, s) # <<>>
  BY <1>1, <1>2
<1> HIDE DEF R
<1>. QED BY <1>2, <1>5, <1>6, <1>7, <1>8

\* An empty loop.
LEMMA ItemsEmpty == ASSUME NEW o PROVE Items(o, <<>>) = <<>>
BY DEF Items

\* An item moves from what is left to what is there.
LEMMA AppendShift ==
  ASSUME NEW S, NEW v \in Seq(S), NEW r \in Seq(S), r # <<>>
  PROVE  Append(v, Head(r)) \o Tail(r) = v \o r
<1>1. r = <<Head(r)>> \o Tail(r) /\ Append(v, Head(r)) = v \o <<Head(r)>>
  OBVIOUS
<1>2. \A a, b, c \in Seq(S) : (a \o b) \o c = a \o (b \o c)
  OBVIOUS
<1>3. <<Head(r)>> \in Seq(S) /\ Tail(r) \in Seq(S)
  OBVIOUS
<1>. QED BY <1>1, <1>2, <1>3

\* uci add_list adds at the end of what is read.
LEMMA ViewAppend ==
  ASSUME TypeOK, UNCHANGED conf, NEW o \in Options, NEW item \in ValuesOf[o],
         layer' = AddList(layer, o, item), ~layer[o].reset
  PROVE  View(o)' = Append(View(o), item)
<1>1. /\ layer = [p \in Options |-> layer[p]]
      /\ layer[o] \in [reset: BOOLEAN, add: Seq(ValuesOf[o])]
      /\ conf[o] \in Seq(ValuesOf[o])
  BY DEF TypeOK, ConfigTypes, StoreOK, FilesOK
<1>2. layer[o].reset = FALSE /\ layer[o].add \in Seq(ValuesOf[o])
  BY <1>1
<1>3. layer'[o].reset = FALSE /\ layer'[o].add = Append(layer[o].add, item)
  BY <1>1, <1>2 DEF AddList
<1>4. View(o) = conf[o] \o layer[o].add
  BY <1>2 DEF View, Get, Applied
<1>5. View(o)' = conf[o] \o Append(layer[o].add, item)
  BY <1>3 DEF View, Get, Applied
<1>6. conf[o] \o Append(layer[o].add, item) = Append(conf[o] \o layer[o].add, item)
  <2>1. PICK a, b : a = conf[o] /\ b = layer[o].add
    OBVIOUS
  <2>2. a \in Seq(ValuesOf[o]) /\ b \in Seq(ValuesOf[o]) /\ item \in ValuesOf[o]
    BY <1>1, <1>2, <2>1
  <2>3. a \o Append(b, item) = Append(a \o b, item)
    BY <2>2, ConcatAppend
  <2>. QED BY <2>1, <2>3
<1>. QED BY <1>4, <1>5, <1>6

\* A turn of one of two loops leaves what completes the lists.
LEMMA CompletesStep ==
  ASSUME TypeOK, NEW first \in Options, NEW second \in Options, first # second,
         ~layer[first].reset, ~layer[second].reset,
         NEW l1, NEW l2, Completes(first, l1, second, l2), AddListItem
  PROVE  CompletesNext(first, l1, second, l2)
<1>1. PICK r1 \in Seq(ValuesOf[first]), r2 \in Seq(ValuesOf[second]) :
        /\ View(first) \o r1 = l1
        /\ View(second) \o r2 = l2
        /\ todo = Items(first, r1) \o Items(second, r2)
  BY DEF Completes
<1>2. /\ todo # <<>> /\ todo' = Tail(todo) /\ UNCHANGED conf
      /\ layer' = AddList(layer, Head(todo)[1], Head(todo)[2])
  BY DEF AddListItem
<1>3. View(first) \in Seq(ValuesOf[first]) /\ View(second) \in Seq(ValuesOf[second])
  BY ViewType
<1>4. \A S, o, r : r \in Seq(S) => Items(o, r) \in Seq({o} \X S)
  BY DEF Items
<1>5. CASE r1 # <<>>
  <2>1. /\ Head(todo) = <<first, Head(r1)>>
        /\ Tail(todo) = Items(first, Tail(r1)) \o Items(second, r2)
    <3>1. Items(second, r2) \in Seq({second} \X ValuesOf[second])
      BY <1>4
    <3>. QED BY <1>1, <1>5, <3>1, ItemsStep
  <2>2. Head(r1) \in ValuesOf[first] /\ Tail(r1) \in Seq(ValuesOf[first])
    BY <1>5, HeadTailType
  <2>3. layer' = AddList(layer, first, Head(r1))
    BY <1>2, <2>1
  <2>4. View(first)' = Append(View(first), Head(r1)) /\ View(second)' = View(second)
    BY <1>2, <2>2, <2>3, ViewAppend, AddOther
  <2>5. View(first)' \o Tail(r1) = l1
    BY <1>1, <1>3, <1>5, <2>4, AppendShift
  <2>. QED BY <1>1, <1>2, <2>1, <2>2, <2>4, <2>5 DEF CompletesNext
<1>6. CASE r1 = <<>>
  <2>1. todo = Items(second, r2) /\ Items(second, r2) \o <<>> = Items(second, r2)
    <3>1. Items(second, r2) \in Seq({second} \X ValuesOf[second])
      BY <1>4
    <3>2. \A Q : \A s \in Seq(Q) : <<>> \o s = s /\ s \o <<>> = s
      OBVIOUS
    <3>. QED BY <1>1, <1>6, <3>1, <3>2, ItemsEmpty
  <2>2. r2 # <<>>
    BY <1>2, <2>1, ItemsEmpty
  <2>3. Head(todo) = <<second, Head(r2)>> /\ Tail(todo) = Items(second, Tail(r2)) \o <<>>
    <3>1. <<>> \in Seq(ValuesOf[first])
      OBVIOUS
    <3>2. /\ Head(Items(second, r2) \o <<>>) = <<second, Head(r2)>>
          /\ Tail(Items(second, r2) \o <<>>) = Items(second, Tail(r2)) \o <<>>
      BY <2>2, <3>1, ItemsStep
    <3>. QED BY <2>1, <3>2
  <2>4. Head(r2) \in ValuesOf[second] /\ Tail(r2) \in Seq(ValuesOf[second])
    BY <2>2, HeadTailType
  <2>5. layer' = AddList(layer, second, Head(r2))
    BY <1>2, <2>3
  <2>6. View(second)' = Append(View(second), Head(r2)) /\ View(first)' = View(first)
    BY <1>2, <2>4, <2>5, ViewAppend, AddOther
  <2>7. View(second)' \o Tail(r2) = l2
    BY <1>1, <1>3, <2>2, <2>6, AppendShift
  <2>8. todo' = Items(first, <<>>) \o Items(second, Tail(r2))
    <3>1. Items(second, Tail(r2)) \in Seq({second} \X ValuesOf[second])
      BY <1>4, <2>4
    <3>2. \A Q : \A s \in Seq(Q) : <<>> \o s = s /\ s \o <<>> = s
      OBVIOUS
    <3>3. Items(second, Tail(r2)) \o <<>> = <<>> \o Items(second, Tail(r2))
      BY <3>1, <3>2
    <3>. QED BY <1>2, <2>3, <3>3, ItemsEmpty
  <2>. QED BY <1>1, <1>6, <2>4, <2>6, <2>7, <2>8 DEF CompletesNext
<1>. QED BY <1>5, <1>6

\* A loop that has ended has completed the lists.
LEMMA CompletesEnd ==
  ASSUME TypeOK, NEW first \in Options, NEW second \in Options,
         NEW l1, NEW l2, Completes(first, l1, second, l2), todo = <<>>
  PROVE  View(first) = l1 /\ View(second) = l2
<1>1. PICK r1 \in Seq(ValuesOf[first]), r2 \in Seq(ValuesOf[second]) :
        /\ View(first) \o r1 = l1
        /\ View(second) \o r2 = l2
        /\ todo = Items(first, r1) \o Items(second, r2)
  BY DEF Completes
<1>2. View(first) \in Seq(ValuesOf[first]) /\ View(second) \in Seq(ValuesOf[second])
  BY ViewType
<1>3. \A S, o, r : r \in Seq(S) => Len(Items(o, r)) = Len(r)
  BY DEF Items
<1>4. Len(r1) = 0 /\ Len(r2) = 0
  <2>1. \A Q : \A a, b \in Seq(Q) : Len(a \o b) = Len(a) + Len(b)
    OBVIOUS
  <2>2. Items(first, r1) \in Seq({first, second} \X (ValuesOf[first] \union ValuesOf[second]))
          /\ Items(second, r2) \in Seq({first, second} \X (ValuesOf[first] \union ValuesOf[second]))
    BY DEF Items
  <2>3. Len(Items(first, r1) \o Items(second, r2)) = Len(r1) + Len(r2)
    <3>1. Len(Items(first, r1)) = Len(r1) /\ Len(Items(second, r2)) = Len(r2)
      BY <1>3
    <3>. QED BY <2>1, <2>2, <3>1
  <2>4. Len(todo) = 0
    OBVIOUS
  <2>5. Len(r1) \in Nat /\ Len(r2) \in Nat
    OBVIOUS
  <2>6. Len(r1) + Len(r2) = 0
    BY <1>1, <2>3, <2>4
  <2>. QED BY <2>5, <2>6
<1>5. r1 = <<>> /\ r2 = <<>>
  BY <1>4
<1>6. \A S : \A s \in Seq(S) : s \o <<>> = s
  OBVIOUS
<1>. QED BY <1>1, <1>2, <1>5, <1>6

\* The items of a loop over listeners.
LEMMA ListenItemsType ==
  ASSUME NEW o \in {"listen_http", "listen_https"}, NEW list \in Seq(Text \X Nat)
  PROVE  Items(o, list) \in Seq(ListenItems)
<1>1. list \in [1..Len(list) -> Text \X Nat] /\ DOMAIN list = 1..Len(list)
  OBVIOUS
<1>2. \A i \in 1..Len(list) : <<o, list[i]>> \in ListenItems
  BY <1>1 DEF ListenItems
<1>3. Items(o, list) \in [1..Len(list) -> ListenItems] /\ Len(list) \in Nat
  BY <1>1, <1>2 DEF Items
<1>. QED BY <1>3

\* Two lists of two.
LEMMA TwoAndTwo ==
  ASSUME NEW S, NEW a \in S, NEW b \in S, NEW c \in S, NEW d \in S
  PROVE  <<a, b>> \o <<c, d>> = <<a, b, c, d>>
<1> DEFINE s == <<a, b>> \o <<c, d>>
           u == <<a, b, c, d>>
<1>1. /\ s \in Seq(S) /\ Len(s) = 4
      /\ s[1] = a /\ s[2] = b /\ s[3] = c /\ s[4] = d
  OBVIOUS
<1>2. /\ u \in Seq(S) /\ Len(u) = 4
      /\ u[1] = a /\ u[2] = b /\ u[3] = c /\ u[4] = d
  OBVIOUS
<1>3. \A i \in 1..4 : i = 1 \/ i = 2 \/ i = 3 \/ i = 4
  OBVIOUS
<1> HIDE DEF s, u
<1>4. s = [i \in 1..4 |-> s[i]] /\ u = [i \in 1..4 |-> u[i]]
  BY <1>1, <1>2, ListOfItems
<1>5. \A i \in 1..4 : s[i] = u[i]
  BY <1>1, <1>2, <1>3
<1>6. s = u
  BY <1>4, <1>5
<1>. QED BY <1>6 DEF s, u

\* The lists of the environment are lists of their types.
LEMMA ListTypes ==
  ASSUME TypeOK
  PROVE  /\ env.dns \in Seq(Text) /\ env.ip6 \in Seq(Text)
         /\ Both(env.ports.http) \in Seq(Text \X Nat)
         /\ Both(env.ports.https) \in Seq(Text \X Nat)
<1>1. /\ env.dns \in Seq(Text) /\ env.ip6 \in Seq(Text)
      /\ env.ports.http \in Nat /\ env.ports.https \in Nat
  BY EnvFields DEF TypeOK, ContainerTypes, Ports
<1>2. "0.0.0.0" \in Text /\ "[::]" \in Text
  BY TextAssumption
<1>3. \A n \in Nat : Both(n) \in Seq(Text \X Nat)
  <2>1. ASSUME NEW n \in Nat PROVE Both(n) \in Seq(Text \X Nat)
    <3>1. <<"0.0.0.0", n>> \in Text \X Nat /\ <<"[::]", n>> \in Text \X Nat
      BY <1>2
    <3>2. \A R : \A a, b \in R : <<a, b>> \in Seq(R)
      OBVIOUS
    <3>. QED BY <3>1, <3>2 DEF Both
  <2>. QED BY <2>1
<1>. QED BY <1>1, <1>3

\* A step that changes none of these lists keeps what was reached, if it
\* reaches no further.
LEMMA FirstKept ==
  ASSUME ListsInOrder, UNCHANGED <<env, restarts>>,
         \A o \in LoopLists : View(o)' = View(o),
         \A o \in LoopLists : layer'[o] = layer[o] \/ layer'[o] = NoDelta,
         ~At("commit network")' \/ (UNCHANGED todo /\ At("commit network")),
         ~At("commit uhttpd")' \/ (UNCHANGED todo /\ At("commit uhttpd")),
         pc' \in BeforeNetworkLoop => pc \in BeforeNetworkLoop,
         pc' \in BeforeUhttpdLoop => pc \in BeforeUhttpdLoop,
         pc' \notin BeforeContainer \union {"up"}
           => pc \notin BeforeContainer \union {"up"},
         pc' \notin BeforeDropbear => pc \notin BeforeDropbear
  PROVE  ListsInOrder'
<1>. SUFFICES ASSUME restarts = 0 PROVE FirstLists'
  BY DEF ListsInOrder
<1>0. FirstLists
  BY DEF ListsInOrder
<1>1. /\ View("dns")' = View("dns") /\ View("ip6addr")' = View("ip6addr")
      /\ View("listen_http")' = View("listen_http")
      /\ View("listen_https")' = View("listen_https")
  BY DEF LoopLists, AddressLists, Lists
<1>2. pc' \in BeforeNetworkLoop => \A o \in AddressLists : layer'[o] = NoDelta
  BY <1>0 DEF FirstLists, LoopLists
<1>3. pc' \in BeforeUhttpdLoop => \A o \in Lists : layer'[o] = NoDelta
  BY <1>0 DEF FirstLists, LoopLists
<1>4. At("commit network")' => Completes("dns", env.dns, "ip6addr", env.ip6)'
  BY <1>0, <1>1 DEF FirstLists, Completes
<1>5. At("commit uhttpd")' =>
        Completes("listen_http", Both(env.ports.http),
                               "listen_https", Both(env.ports.https))'
  BY <1>0, <1>1 DEF FirstLists, Completes
<1>6. pc' \notin BeforeContainer \union {"up"} =>
        View("dns")' = env.dns /\ View("ip6addr")' = env.ip6
  BY <1>0, <1>1 DEF FirstLists
<1>7. pc' \notin BeforeDropbear =>
        /\ View("listen_http")' = Both(env.ports.http)
        /\ View("listen_https")' = Both(env.ports.https)
  BY <1>0, <1>1 DEF FirstLists
<1>8. Both(env.ports.http)' = Both(env.ports.http)
        /\ Both(env.ports.https)' = Both(env.ports.https)
  BY DEF Both
<1>. QED BY <1>2, <1>3, <1>4, <1>5, <1>6, <1>7, <1>8 DEF FirstLists

\* At first nothing is staged and no loop has begun.
LEMMA FirstInit == Init => ListsInOrder
BY LoopFiles DEF Init, ListsInOrder, FirstLists, NothingStaged, At, BeforeNetworkLoop,
  BeforeUhttpdLoop, BeforeContainer, BeforeDropbear, LoopLists

\* Nothing staged for an option of an absent list: it reads as empty.
LEMMA ViewEmpty ==
  ASSUME NEW o, conf'[o] = <<>>, layer'[o] = NoDelta PROVE View(o)' = <<>>
<1>1. layer'[o].reset = FALSE /\ layer'[o].add = <<>>
  BY NoDeltaFields
<1>2. <<>> \o <<>> = <<>>
  OBVIOUS
<1>. QED BY <1>1, <1>2 DEF View, Get, Applied

\* A step of start.sh.
LEMMA FirstByStart ==
  TypeOK /\ StagedListeners /\ StagedAddresses /\ ListsInOrder /\ Starting => ListsInOrder'
<1>. SUFFICES ASSUME TypeOK, StagedListeners, StagedAddresses, ListsInOrder, Starting
              PROVE  ListsInOrder'
  OBVIOUS
<1>. USE DEF BeforeNetworkLoop, BeforeUhttpdLoop, BeforeContainer, BeforeDropbear
<1>0. StartupNext /\ UNCHANGED restarts /\ LoopLists \subseteq Options
  BY LoopFiles DEF Starting, Undisturbed
<1>t. /\ env.dns \in Seq(Text) /\ env.ip6 \in Seq(Text)
      /\ Both(env.ports.http) \in Seq(Text \X Nat)
      /\ Both(env.ports.https) \in Seq(Text \X Nat)
  BY ListTypes
<1>o. /\ ValuesOf["dns"] = Text /\ ValuesOf["ip6addr"] = Text
      /\ ValuesOf["listen_http"] = Text \X Nat
      /\ ValuesOf["listen_https"] = Text \X Nat
      /\ {"dns", "ip6addr", "listen_http", "listen_https"} \subseteq Options
  BY ListOptions
<1>w. UNCHANGED env => /\ Both(env.ports.http)' = Both(env.ports.http)
                       /\ Both(env.ports.https)' = Both(env.ports.https)
  BY DEF Both
<1>1. CASE Validate \/ MaskConsoles \/ SetPassword
  <2>1. /\ UNCHANGED <<env, conf, layer>>
        /\ pc \in BeforeNetworkLoop
        /\ pc' \in {"console", "password", "system", "off"}
    BY <1>1 DEF Validate, MaskConsoles, SetPassword, At, Goto
  <2>2. \A o : View(o)' = View(o)
    BY <2>1 DEF View
  <2>. QED BY <1>0, <2>1, <2>2, FirstKept DEF At
<1>2. CASE SystemDefaults
  <2>1. UNCHANGED env /\ pc' = "network" /\ pc = "system"
    BY <1>2 DEF SystemDefaults, At, Goto
  <2>2. \A o \in LoopLists : conf'[o] = conf[o] /\ layer'[o] = layer[o]
    <3> DEFINE values == [hostname |-> "ImmortalWrt", zonename |-> "Asia/Shanghai"]
    <3> DEFINE staged == SetAll(layer, values)
    <3>1. ASSUME NEW o \in LoopLists
          PROVE  o \in Options /\ staged[o] = layer[o] /\ ConfigOf[o] # "system"
      BY LoopFiles, OptionFiles DEF SetAll, LoopLists
    <3>2. CASE conf' = Committed(conf, staged, "system") /\ layer' = Flushed(staged, "system")
      BY <3>1, <3>2 DEF Committed, Flushed
    <3>3. CASE UNCHANGED <<conf, layer>>
      BY <3>3
    <3>. QED BY <1>2, <3>2, <3>3 DEF SystemDefaults
  <2>3. \A o \in LoopLists : View(o)' = View(o)
    BY <2>2 DEF View, Get
  <2>. QED BY <1>0, <2>1, <2>2, <2>3, FirstKept DEF At
<1>3. CASE ResetNetwork
  <2>1. /\ UNCHANGED <<env, layer>> /\ pc = "network" /\ pc' = "commit network"
        /\ conf' = Emptied(conf, "network")
        /\ todo' = Items("dns", env.dns) \o Items("ip6addr", env.ip6)
    BY <1>3 DEF ResetNetwork, At, Goto
  <2>2. restarts = 0 => \A o \in LoopLists : layer'[o] = NoDelta
    BY <2>1 DEF ListsInOrder, FirstLists, LoopLists
  <2>3. \A o \in AddressLists : conf'[o] = <<>>
    BY <1>0, <2>1, LoopFiles DEF Emptied, LoopLists
  <2>4. restarts = 0 => View("dns")' = <<>> /\ View("ip6addr")' = <<>>
    BY <2>2, <2>3, ViewEmpty DEF LoopLists, AddressLists
  <2>5. \A S : \A s \in Seq(S) : <<>> \o s = s
    OBVIOUS
  <2>6. restarts = 0 => Completes("dns", env.dns, "ip6addr", env.ip6)'
    BY <1>o, <1>t, <2>1, <2>4, <2>5 DEF Completes
  <2>. QED BY <1>0, <2>1, <2>2, <2>6 DEF ListsInOrder, FirstLists, At, LoopLists
<1>4. CASE AddListItem /\ At("commit network")
  <2>1. UNCHANGED <<pc, env, conf>> /\ pc = "commit network"
    BY <1>4 DEF AddListItem, At
  <2>2. ~layer["dns"].reset /\ ~layer["ip6addr"].reset
    BY DEF StagedAddresses, AddressLists
  <2>3. SUFFICES ASSUME restarts = 0 PROVE FirstLists'
    BY <1>0 DEF ListsInOrder
  <2>4. Completes("dns", env.dns, "ip6addr", env.ip6)
    BY <1>4, <2>3 DEF ListsInOrder, FirstLists
  <2>5. CompletesNext("dns", env.dns, "ip6addr", env.ip6)
    <3>1. "dns" # "ip6addr" /\ "dns" \in Options /\ "ip6addr" \in Options
      BY <1>o
    <3>2. AddListItem
      BY <1>4
    <3>. QED BY <2>2, <2>4, <3>1, <3>2, CompletesStep
  <2>6. Completes("dns", env.dns, "ip6addr", env.ip6)'
    BY <2>1, <2>5 DEF Completes, CompletesNext
  <2>7. Head(todo)[1] \in {"dns", "ip6addr"}
    <3>1. PICK r1 \in Seq(Text), r2 \in Seq(Text) :
            todo = Items("dns", r1) \o Items("ip6addr", r2)
      BY <1>o, <2>4 DEF Completes
    <3>2. Items("dns", r1) \o Items("ip6addr", r2) \in Seq(AddressItems)
      BY <3>1, NetworkItemsType
    <3>3. Head(todo) \in AddressItems
      BY <1>4, <3>1, <3>2, HeadTailType DEF AddListItem
    <3>. QED BY <3>3 DEF AddressItems
  <2>8. \A o \in Lists : layer'[o] = layer[o]
    <3>1. layer' = AddList(layer, Head(todo)[1], Head(todo)[2])
      BY <1>4 DEF AddListItem
    <3>2. \A o \in Lists : o \in Options /\ o # Head(todo)[1]
      BY <1>0, <2>7 DEF Lists, LoopLists
    <3>. QED BY <2>1, <3>1, <3>2, AddOther
  <2>. QED BY <2>1, <2>3, <2>6, <2>8 DEF ListsInOrder, FirstLists, At
<1>5. CASE CommitNetwork
  <2>1. /\ Commit("network") /\ pc = "commit network" /\ pc' = "container"
        /\ UNCHANGED env /\ todo = <<>>
    BY <1>5 DEF CommitNetwork, At, Goto
  <2>2. SUFFICES ASSUME restarts = 0 PROVE FirstLists'
    BY <1>0 DEF ListsInOrder
  <2>3. View("dns") = env.dns /\ View("ip6addr") = env.ip6
    <3>1. Completes("dns", env.dns, "ip6addr", env.ip6)
      BY <2>1, <2>2 DEF ListsInOrder, FirstLists, At
    <3>2. "dns" \in Options /\ "ip6addr" \in Options /\ todo = <<>>
      BY <1>o, <2>1
    <3>. QED BY <3>1, <3>2, CompletesEnd
  <2>4. View("dns")' = env.dns /\ View("ip6addr")' = env.ip6
    BY <1>o, <2>1, <2>3, ViewCommit
  <2>5. \A o \in Lists : layer'[o] = NoDelta
    BY <1>0, <2>1, <2>2 DEF ListsInOrder, FirstLists, Commit, Flushed, LoopLists
  <2>. QED BY <2>1, <2>4, <2>5 DEF FirstLists, At
<1>6. CASE CommitContainer \/ CommitDropbear \/ CommitPorts
  <2>1. /\ \E f : Commit(f) /\ UNCHANGED env
        /\ \/ pc = "commit container" /\ pc' = "uhttpd"
           \/ pc = "commit dropbear" /\ pc' = "ports"
           \/ pc = "commit ports" /\ pc' = "exec"
    BY <1>6 DEF CommitContainer, CommitDropbear, CommitPorts, At, Goto
  <2>2. \A o \in LoopLists : View(o)' = View(o)
    BY <1>0, <2>1, ViewCommit
  <2>3. \A o \in LoopLists : layer'[o] = layer[o] \/ layer'[o] = NoDelta
    BY <1>0, <2>1 DEF Commit, Flushed
  <2>. QED BY <1>0, <2>1, <2>2, <2>3, FirstKept DEF At
<1>7. CASE SetContainer \/ SetPorts
  <2>1. PICK values : /\ Stage(values)
                      /\ \A o \in LoopLists : o \notin DOMAIN values
    <3>1. CASE SetContainer
      <4> DEFINE set == [timezone |-> env.tz, proxy |-> NormalProxy(env.proxy)]
      <4>1. Stage(set) /\ DOMAIN set = {"timezone", "proxy"}
        BY <3>1 DEF SetContainer
      <4> HIDE DEF set
      <4>. QED BY <4>1 DEF LoopLists, AddressLists, Lists
    <3>2. CASE SetPorts
      <4> DEFINE set == [http_port |-> env.ports.http, https_port |-> env.ports.https,
                         ssh_port |-> env.ports.ssh]
      <4>1. Stage(set) /\ DOMAIN set = {"http_port", "https_port", "ssh_port"}
        BY <3>2 DEF SetPorts
      <4> HIDE DEF set
      <4>. QED BY <4>1 DEF LoopLists, AddressLists, Lists
    <3>. QED BY <1>7, <3>1, <3>2
  <2>2. /\ UNCHANGED <<env, conf>>
        /\ \/ pc = "container" /\ pc' = "commit container"
           \/ pc = "ports" /\ pc' = "commit ports"
    BY <1>7 DEF SetContainer, SetPorts, At, Goto
  <2>3. \A o \in LoopLists : View(o)' = View(o) /\ layer'[o] = layer[o]
    BY <1>0, <2>1, <2>2, ViewStage DEF Stage, SetAll
  <2>. QED BY <1>0, <2>2, <2>3, FirstKept DEF At
<1>8. CASE CopyServiceDefaults
  <2>1. /\ UNCHANGED <<env, layer>> /\ pc = "uhttpd" /\ pc' = "commit uhttpd"
        /\ conf' = Emptied(Emptied(conf, "uhttpd"), "dropbear")
        /\ todo' = << <<"listen_http",  <<"0.0.0.0", env.ports.http>> >>,
                      <<"listen_http",  <<"[::]",    env.ports.http>> >>,
                      <<"listen_https", <<"0.0.0.0", env.ports.https>> >>,
                      <<"listen_https", <<"[::]",    env.ports.https>> >> >>
    BY <1>8 DEF CopyServiceDefaults, At, Goto
  <2>2. SUFFICES ASSUME restarts = 0 PROVE FirstLists'
    BY <1>0 DEF ListsInOrder
  <2>3. todo' = Items("listen_http", Both(env.ports.http))
                  \o Items("listen_https", Both(env.ports.https))
    <3>1. \A o, a, b : Items(o, <<a, b>>) = << <<o, a>>, <<o, b>> >>
      BY DEF Items
    <3> DEFINE item(o, ip, n) == <<o, <<ip, n>> >>
    <3>2. /\ Items("listen_http", Both(env.ports.http))
               = <<item("listen_http", "0.0.0.0", env.ports.http),
                   item("listen_http", "[::]", env.ports.http)>>
          /\ Items("listen_https", Both(env.ports.https))
               = <<item("listen_https", "0.0.0.0", env.ports.https),
                   item("listen_https", "[::]", env.ports.https)>>
      BY <3>1 DEF Both
    <3>3. todo' = <<item("listen_http", "0.0.0.0", env.ports.http),
                    item("listen_http", "[::]", env.ports.http),
                    item("listen_https", "0.0.0.0", env.ports.https),
                    item("listen_https", "[::]", env.ports.https)>>
      BY <2>1
    <3> HIDE DEF item
    <3>4. \A a, b, c, d : <<a, b>> \o <<c, d>> = <<a, b, c, d>>
      <4>1. ASSUME NEW a, NEW b, NEW c, NEW d
            PROVE  <<a, b>> \o <<c, d>> = <<a, b, c, d>>
        <5>1. PICK S : S = {a, b, c, d}
          OBVIOUS
        <5>2. a \in S /\ b \in S /\ c \in S /\ d \in S
          BY <5>1
        <5>. QED BY <5>2, TwoAndTwo
      <4>. QED BY <4>1
    <3>. QED BY <3>2, <3>3, <3>4
  <2>4. View("listen_http")' = <<>> /\ View("listen_https")' = <<>>
    <3>1. \A o \in Lists : o \in Options /\ conf'[o] = <<>>
      BY <1>0, <2>1, LoopFiles DEF Emptied, LoopLists
    <3>2. \A o \in Lists : layer'[o] = NoDelta
      BY <2>1, <2>2 DEF ListsInOrder, FirstLists
    <3>. QED BY <3>1, <3>2, ViewEmpty DEF Lists
  <2>5. \A S : \A s \in Seq(S) : <<>> \o s = s
    OBVIOUS
  <2>6. Completes("listen_http", Both(env.ports.http),
                               "listen_https", Both(env.ports.https))'
    <3>1. <<>> \o Both(env.ports.http) = Both(env.ports.http)
            /\ <<>> \o Both(env.ports.https) = Both(env.ports.https)
      BY <1>t, <2>5
    <3>. QED BY <1>o, <1>t, <1>w, <2>1, <2>3, <2>4, <3>1 DEF Completes
  <2>7. View("dns")' = env.dns /\ View("ip6addr")' = env.ip6
    <3>1. \A o \in AddressLists : conf'[o] = conf[o]
      BY <1>0, <2>1, LoopFiles DEF Emptied, LoopLists
    <3>2. \A o \in AddressLists : View(o)' = View(o)
      BY <2>1, <3>1 DEF View, Get
    <3>. QED BY <2>1, <2>2, <3>2 DEF ListsInOrder, FirstLists, AddressLists
  <2>. QED BY <2>1, <2>6, <2>7 DEF FirstLists, At
<1>9. CASE AddListItem /\ At("commit uhttpd")
  <2>1. UNCHANGED <<pc, env, conf>> /\ pc = "commit uhttpd"
    BY <1>9 DEF AddListItem, At
  <2>2. ~layer["listen_http"].reset /\ ~layer["listen_https"].reset
    BY DEF StagedListeners, Lists
  <2>3. SUFFICES ASSUME restarts = 0 PROVE FirstLists'
    BY <1>0 DEF ListsInOrder
  <2>4. Completes("listen_http", Both(env.ports.http),
                               "listen_https", Both(env.ports.https))
    BY <1>9, <2>3 DEF ListsInOrder, FirstLists
  <2>5. CompletesNext("listen_http", Both(env.ports.http),
                      "listen_https", Both(env.ports.https))
    <3>1. /\ "listen_http" # "listen_https"
          /\ "listen_http" \in Options /\ "listen_https" \in Options
      BY <1>o
    <3>2. AddListItem
      BY <1>9
    <3>. QED BY <2>2, <2>4, <3>1, <3>2, CompletesStep
  <2>6. Completes("listen_http", Both(env.ports.http),
                               "listen_https", Both(env.ports.https))'
    BY <1>w, <2>1, <2>5 DEF Completes, CompletesNext
  <2>7. Head(todo)[1] \in Lists
    <3>1. PICK r1 \in Seq(Text \X Nat), r2 \in Seq(Text \X Nat) :
            todo = Items("listen_http", r1) \o Items("listen_https", r2)
      BY <1>o, <2>4 DEF Completes
    <3>2. Items("listen_http", r1) \in Seq(ListenItems)
            /\ Items("listen_https", r2) \in Seq(ListenItems)
      BY ListenItemsType
    <3>3. todo \in Seq(ListenItems)
      BY <3>1, <3>2, ConcatType
    <3>4. Head(todo) \in ListenItems
      BY <1>9, <3>3, HeadTailType DEF AddListItem
    <3>. QED BY <3>4 DEF ListenItems, Lists
  <2>8. View("dns")' = env.dns /\ View("ip6addr")' = env.ip6
    <3>1. layer' = AddList(layer, Head(todo)[1], Head(todo)[2])
      BY <1>9 DEF AddListItem
    <3>2. \A o \in AddressLists : o \in Options /\ o # Head(todo)[1]
      BY <1>0, <2>7 DEF Lists, AddressLists, LoopLists
    <3>3. \A o \in AddressLists : View(o)' = View(o)
      BY <2>1, <3>1, <3>2, AddOther
    <3>. QED BY <2>1, <2>3, <3>3 DEF ListsInOrder, FirstLists, AddressLists
  <2>. QED BY <2>1, <2>3, <2>6, <2>8 DEF FirstLists, At
<1>10. CASE CommitUhttpd
  <2> DEFINE values == [ssh_listen |-> env.ports.ssh]
  <2> DEFINE staged == SetAll(layer, values)
  <2>1. /\ pc = "commit uhttpd" /\ todo = <<>> /\ UNCHANGED env /\ pc' = "commit dropbear"
        /\ conf' = Committed(conf, staged, "uhttpd") /\ layer' = Flushed(staged, "uhttpd")
    BY <1>10 DEF CommitUhttpd, At, Goto
  <2>2. DOMAIN values = {"ssh_listen"}
    OBVIOUS
  <2> HIDE DEF values
  <2>3. SUFFICES ASSUME restarts = 0 PROVE FirstLists'
    BY <1>0 DEF ListsInOrder
  <2>4. \A o \in LoopLists : o \in Options /\ staged[o] = layer[o]
    BY <1>0, <2>2 DEF SetAll, LoopLists, AddressLists, Lists
  <2>5. ASSUME NEW o \in LoopLists PROVE View(o)' = View(o)
    <3>1. CASE ConfigOf[o] = "uhttpd"
      <4>1. conf'[o] = View(o) /\ layer'[o] = NoDelta
        BY <2>1, <2>4, <3>1 DEF Committed, Flushed, View, Get
      <4>2. View(o)' = Applied(View(o), NoDelta)
        BY <4>1 DEF View, Get
      <4>. QED BY <2>4, <4>2, ViewType, AppliedNothing
    <3>2. CASE ConfigOf[o] # "uhttpd"
      <4>1. conf'[o] = conf[o] /\ layer'[o] = layer[o]
        BY <2>1, <2>4, <3>2 DEF Committed, Flushed
      <4>. QED BY <4>1 DEF View, Get
    <3>. QED BY <3>1, <3>2
  <2>6. /\ View("listen_http") = Both(env.ports.http)
        /\ View("listen_https") = Both(env.ports.https)
    <3>1. Completes("listen_http", Both(env.ports.http),
                                 "listen_https", Both(env.ports.https))
      BY <2>1, <2>3 DEF ListsInOrder, FirstLists, At
    <3>2. /\ "listen_http" \in Options /\ "listen_https" \in Options
          /\ todo = <<>>
      BY <1>o, <2>1
    <3>. QED BY <3>1, <3>2, CompletesEnd
  <2>7. View("dns") = env.dns /\ View("ip6addr") = env.ip6
    BY <2>1, <2>3 DEF ListsInOrder, FirstLists
  <2>. QED
    BY <1>w, <2>1, <2>5, <2>6, <2>7 DEF FirstLists, At, LoopLists, AddressLists, Lists
<1>. QED
  BY <1>0, <1>1, <1>2, <1>3, <1>4, <1>5, <1>6, <1>7, <1>8, <1>9, <1>10
  DEF StartupNext, AddListItem, At

\* Every step: a restart ends what is said of first starts, a new container
\* begins with nothing staged.
LEMMA FirstNext ==
  TypeOK /\ BootStagesFirewall /\ PortsWritten /\ EnvironmentWritten /\ ListsInOrder
    /\ [Next]_vars => ListsInOrder'
<1>. SUFFICES ASSUME TypeOK, BootStagesFirewall, PortsWritten, EnvironmentWritten,
                     ListsInOrder, [Next]_vars
              PROVE  ListsInOrder'
  OBVIOUS
<1>. USE DEF BeforeNetworkLoop, BeforeUhttpdLoop, BeforeContainer, BeforeDropbear,
             BeforePorts, layerVars
<1>u. \A o \in LoopLists :
        o \in Options \ BootOptions /\ tmpfs[o] = NoDelta /\ conf[o] \in Seq(ValuesOf[o])
  BY LoopFiles DEF BootStagesFirewall, BootOptions, LoopLists, AddressLists, Lists,
    TypeOK, ConfigTypes, FilesOK
<1>s. ASSUME UNCHANGED <<env, layer, restarts>>, \A o \in LoopLists : conf'[o] = conf[o],
             \/ UNCHANGED <<pc, todo>>
             \/ pc \notin BeforeInit \union {"up"} /\ pc' \notin BeforeInit
             \/ pc' = "off"
      PROVE  ListsInOrder'
  <2>1. \A o \in LoopLists : View(o)' = View(o)
    BY <1>s DEF View, Get
  <2>. QED BY <1>s, <2>1, FirstKept DEF At, BeforeInit
<1>1. CASE Starting
  BY <1>1, FirstByStart DEF PortsWritten, EnvironmentWritten
<1>2. CASE Booting
  <2>1. /\ UNCHANGED <<env, layer, restarts>>
        /\ pc \notin BeforeInit \union {"up"} /\ pc' \notin BeforeInit
    BY <1>2 DEF Booting, Undisturbed, BootStep, ExecInit, PrepareSystem, StageFirewall,
      CommitFirewall, InstallMarkRule, StopDhcp, InitialResolver,
      RecordInitialized, TouchMarker, StartFirewall, StartNetwork,
      StartListeners, StartRedirect, At, Goto, BeforeInit
  <2>2. \A o \in LoopLists : conf'[o] = conf[o]
    BY <1>2, <1>u, BootWrites DEF Booting
  <2>. QED BY <2>1, <2>2, <1>s
<1>3. CASE PrepareFails /\ Disturbed
  <2>1. /\ UNCHANGED <<env, layer, conf, restarts>>
        /\ pc \notin BeforeInit \union {"up"} /\ pc' \notin BeforeInit
    BY <1>3 DEF PrepareFails, Disturbed, PrepareSteps, Goto, BeforeInit
  <2>. QED BY <2>1, <1>s
<1>4. CASE OperatorCommits
  <2>1. CASE pc \in StartupSteps
    <3>1. /\ conf' = CommittedAll(conf, layer) /\ layer' = NothingStaged
          /\ UNCHANGED <<pc, env, todo, restarts>>
      BY <1>4, <2>1 DEF OperatorCommits
    <3>2. \A o \in LoopLists : View(o)' = View(o)
      BY <3>1, ViewCommitAll, LoopFiles
    <3>3. \A o \in LoopLists : layer'[o] = NoDelta
      BY <3>1, LoopFiles DEF NothingStaged
    <3>. QED BY <3>1, <3>2, <3>3, FirstKept DEF At
  <2>2. CASE pc \notin StartupSteps
    <3>1. conf' = CommittedAll(conf, tmpfs) /\ UNCHANGED <<pc, env, todo, layer, restarts>>
      BY <1>4, <2>2 DEF OperatorCommits
    <3>2. \A o \in LoopLists : conf'[o] = conf[o]
      BY <3>1, <1>u, AppliedNothing DEF CommittedAll, Get
    <3>. QED BY <3>1, <3>2, <1>s
  <2>. QED BY <2>1, <2>2
<1>5. ASSUME NEW u \in UserSettings \union {"dns"}, UserEdits(u) PROVE ListsInOrder'
  <2>1. /\ pc = "up" /\ UNCHANGED <<pc, env, layer, restarts>>
        /\ conf' = [conf EXCEPT ![u] = <<"user">>]
    BY <1>5 DEF UserEdits, At
  <2>2. conf = [o \in Options |-> conf[o]]
    BY DEF TypeOK, ConfigTypes, FilesOK
  <2>3. \A o \in Lists : o \in Options /\ o # u
    BY LoopFiles DEF UserSettings, Lists, LoopLists
  <2>4. \A o \in Lists : View(o)' = View(o)
    BY <2>1, <2>2, <2>3 DEF View, Get
  <2>5. /\ Both(env.ports.http)' = Both(env.ports.http)
        /\ Both(env.ports.https)' = Both(env.ports.https)
    BY <2>1 DEF Both
  <2>. QED BY <2>1, <2>4, <2>5 DEF ListsInOrder, FirstLists, At, Lists
<1>6. CASE Die
  BY <1>6, <1>s DEF Die, Goto
<1>7. CASE Restart
  <2>1. restarts' = restarts + 1 /\ restarts \in Nat
    BY <1>7, BoundsAssumption DEF Restart, TypeOK, ContainerTypes
  <2>. QED BY <2>1 DEF ListsInOrder
<1>8. ASSUME NEW e \in Env, Recreate(e) PROVE ListsInOrder'
  <2>1. \A o \in LoopLists : layer'[o] = NoDelta
    BY <1>8, LoopFiles DEF Recreate, NothingStaged
  <2>. QED BY <1>8, <2>1 DEF Recreate, Goto, ListsInOrder, FirstLists, At, LoopLists
<1>. QED
  <2>1. CASE \/ HandlerExits /\ Disturbed
             \/ Respawning
             \/ Reapplying
             \/ ReloadFirewall /\ Undisturbed
             \/ RestartRedirect /\ Undisturbed
             \/ SettingUp
             \/ (TearDownLan \/ UpdateLan) /\ Disturbed
             \/ KernelGained \/ KernelLost
             \/ UNCHANGED vars
    BY <2>1, <1>s DEF HandlerExits, Respawning, RespawnHandler, Reapplying, Hotplug,
      ReloadFirewall, RestartRedirect,
      SettingUp, SetUpLan, TearDownLan, UpdateLan, KernelGained, KernelLost,
      vars, startupVars, Undisturbed, Disturbed
  <2>. QED BY <1>1, <1>2, <1>3, <1>4, <1>5, <1>6, <1>7, <1>8, <2>1 DEF Next

\* The invariant says what the property asks for.
LEMMA FirstExact == TypeOK /\ StagedForLater /\ ListsInOrder => NewContainerListsExact
<1>. SUFFICES ASSUME TypeOK, StagedForLater, ListsInOrder, restarts = 0, HandedOver
              PROVE  /\ conf["dns"] = env.dns
                     /\ conf["ip6addr"] = env.ip6
                     /\ conf["listen_http"] = Both(env.ports.http)
                     /\ conf["listen_https"] = Both(env.ports.https)
  BY DEF NewContainerListsExact, ListsExact
<1>1. pc \notin BeforeInit /\ pc # "up"
  BY DEF HandedOver, PrepareSteps, BeforeInit, BeforePorts, BeforeDropbear, BeforeContainer
<1>2. Clean("network") /\ Clean("uhttpd")
  BY <1>1 DEF StagedForLater, BeforeInit, BeforePorts, BeforeDropbear
<1>3. ASSUME NEW o \in LoopLists PROVE View(o) = conf[o]
  <2>1. o \in Options /\ layer[o] = NoDelta /\ conf[o] \in Seq(ValuesOf[o])
    BY <1>2, LoopFiles DEF Clean, LoopLists, TypeOK, ConfigTypes, FilesOK
  <2>. QED BY <2>1, AppliedNothing DEF View, Get
<1>. QED
  BY <1>1, <1>3 DEF ListsInOrder, FirstLists, BeforeInit, BeforePorts, BeforeDropbear,
    LoopLists, AddressLists, Lists

\* In a container that was not restarted each address and listener is one item
\* of its list, in the order given, whatever used the volume before it
\* (start.sh empties the files, and a new layer has nothing staged).
THEOREM NewListsExact == Spec => []NewContainerListsExact
<1>1. BootInv => BootStagesFirewall
  BY DEF BootInv
<1>2. Spec => []ListsInOrder
  BY <1>1, EnvironmentAlways, FirstInit, FirstNext, PTL DEF Spec
<1>. QED BY <1>2, EnvironmentAlways, FirstExact, PTL
=============================================================================
