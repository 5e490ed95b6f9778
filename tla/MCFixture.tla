----------------------------- MODULE MCFixture ------------------------------
(***************************************************************************)
(* The delays of the scripts: 20 s and 45 s, in ticks of 2 s.              *)
(***************************************************************************)
EXTENDS Fixture

MCDefects == {"hotplug", "router", "private", "public"}
=============================================================================
