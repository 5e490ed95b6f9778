---------------------------- MODULE MCContainer ----------------------------
(***************************************************************************)
(* The container with four environments on one volume: two that are        *)
(* accepted and differ in every setting, one that asks for a reserved      *)
(* port, and one with the password of .env.example.                        *)
(***************************************************************************)
EXTENDS ContainerProperties

MCIPAddress == {"8.8.8.8", "1.1.1.1", "fd00::1"}
MCZones == {"Asia/Shanghai", "Europe/Berlin"}

MCText == {"", "1", "true", "True", "false", "multiple-tproxy", "multiple_tproxy",
           "route", "ERROR", "OFF", "0.0.0.0", "[::]", "ImmortalWrt", "auto",
           "image", "user", "first", "second", "fd00::2", "fd00::3",
           "CHANGE_ME_BEFORE_START"}
            \union MCIPAddress \union MCZones

First ==
  [dns |-> <<"8.8.8.8", "1.1.1.1">>, ip6 |-> <<"fd00::2">>,
   ports |-> [http |-> 80, https |-> 443, ssh |-> 22],
   proxy |-> [mode |-> "multiple_tproxy", icmp |-> "True", mark |-> 2,
              sport |-> 12345, level |-> "ERROR"],
   tz |-> "Asia/Shanghai", password |-> "first"]

Second ==
  [dns |-> <<"fd00::1">>, ip6 |-> <<"fd00::3">>,
   ports |-> [http |-> 18000, https |-> 18443, ssh |-> 12222],
   proxy |-> [mode |-> "route", icmp |-> "false", mark |-> 7,
              sport |-> 12345, level |-> "OFF"],
   tz |-> "Europe/Berlin", password |-> "second"]

Rejected == [Second EXCEPT !.ports.ssh = 53]

Unchanged == [Second EXCEPT !.password = "CHANGE_ME_BEFORE_START"]

MCEnv == {First, Second, Rejected, Unchanged}
MCTwoEnv == {First, Rejected}
=============================================================================
