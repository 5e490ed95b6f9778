-------------------------------- MODULE Uci --------------------------------
(***************************************************************************)
(* OpenWrt's configuration store as the scripts of this repository use it. *)
(* An option of a committed file is a list: the empty list is an absent    *)
(* option, a scalar has one element.  `uci set` and `uci add_list` do not  *)
(* write the file: they append to a staging area (/tmp/.uci) which         *)
(* `uci commit <file>` merges into the file and then empties.  Of what is  *)
(* staged for one option only two facts matter: whether a `set` came first *)
(* (it discards what the file holds) and the items that follow.            *)
(* uci itself is not part of the repository, nor is its atomicity: a       *)
(* commit writes a new file and renames it.                                *)
(***************************************************************************)
EXTENDS Sequences

\* The options the scripts write or depend on, each with its file.
ConfigOf ==
  [ dns          |-> "network",   ip6addr      |-> "network",
    listen_http  |-> "uhttpd",    listen_https |-> "uhttpd",
    ssh_listen   |-> "dropbear",
    timezone     |-> "landscape", proxy        |-> "landscape",
    http_port    |-> "landscape", https_port   |-> "landscape",
    ssh_port     |-> "landscape", initialized  |-> "landscape",
    dest_port    |-> "firewall",  masq         |-> "firewall",
    defaults     |-> "firewall",
    ignore       |-> "dhcp",      resolver     |-> "dhcp",
    zonename     |-> "system",    hostname     |-> "system" ]

Options == DOMAIN ConfigOf

NoDelta == [reset |-> FALSE, add |-> <<>>]

NothingStaged == [o \in Options |-> NoDelta]

\* What the file holds once a staged change is applied to it.
Applied(old, delta) == IF delta.reset THEN delta.add ELSE old \o delta.add

\* uci get: staged changes are visible before they are committed.
Get(files, store, o) == Applied(files[o], store[o])

\* uci set of several options of one file.
SetAll(store, values) ==
  [o \in Options |->
     IF o \in DOMAIN values THEN [reset |-> TRUE, add |-> <<values[o]>>]
                            ELSE store[o]]

\* uci add_list of one item.
AddList(store, o, item) ==
  [store EXCEPT ![o] = [reset |-> @.reset, add |-> Append(@.add, item)]]

\* uci commit of one file: the file, then the staging area.
Committed(files, store, f) ==
  [o \in Options |->
     IF ConfigOf[o] = f THEN Get(files, store, o) ELSE files[o]]

Flushed(store, f) ==
  [o \in Options |-> IF ConfigOf[o] = f THEN NoDelta ELSE store[o]]

\* uci commit without an argument: every file.
CommittedAll(files, store) == [o \in Options |-> Get(files, store, o)]

\* The file is replaced by one in which these options are absent
\* (`: > file`, or a copy of an image default that does not set them).
Emptied(files, f) ==
  [o \in Options |-> IF ConfigOf[o] = f THEN <<>> ELSE files[o]]
=============================================================================
