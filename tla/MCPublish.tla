----------------------------- MODULE MCPublish -----------------------------
(***************************************************************************)
(* Two versions of what moves, and two changes: enough for a version to    *)
(* move on during a run and to be withdrawn again, and for two runs to     *)
(* push different images to the same per-arch tags.                        *)
(***************************************************************************)
EXTENDS Publish

MCVersion == {1, 2}

\* The version in the per-arch tags, and one that is not.
MCVersions == {"immortalwrt", "passwall"}

\* What is monitored, and what is not.
MCMonitored == {"passwall", "feed"}
=============================================================================
