------------------------------ MODULE MCRerun -------------------------------
(***************************************************************************)
(* PassWall moves on between a run that failed and the one after it; both  *)
(* push to the same per-arch tags, which name ImmortalWrt only.            *)
(***************************************************************************)
EXTENDS Rerun

MCVersion == {1, 2}

MCPassWall == {"passwall"}
=============================================================================
