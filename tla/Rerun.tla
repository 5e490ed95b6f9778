------------------------------- MODULE Rerun --------------------------------
(***************************************************************************)
(* The workflow of Publish with GitHub's "re-run failed jobs".  A run that *)
(* failed can be taken up again while its artifact build-inputs is kept:   *)
(* the jobs that failed, and those that need them, run once more, with the *)
(* inputs that were resolved then.  The registry is the one of now.        *)
(***************************************************************************)
EXTENDS Publish

VARIABLE failed   \* the failed runs that can be taken up again

\* The current run as it can be taken up.  Without an artifact it begins with
\* the job check.
FailedRun ==
  [phase |-> IF phase \in {"build", "manifest"} THEN "build" ELSE "resolve",
   trigger |-> trigger,
   resolved |-> IF phase \in {"build", "manifest"} THEN resolved ELSE NoInputs,
   build |-> phase \in {"build", "manifest"},
   denied |-> phase \in {"build", "manifest"} /\ denied,
   job |-> [a \in Arches |-> IF job[a] = "failed" THEN "waiting" ELSE job[a]]]

Fails == (BuildFailed \/ RunFails) /\ failed' = failed \union {FailedRun}

GoesOn == Next /\ ~(BuildFailed \/ RunFails) /\ UNCHANGED failed

RerunFailedJobs(r) ==
  /\ phase = "idle"
  /\ phase' = r.phase
  /\ trigger' = r.trigger
  /\ resolved' = r.resolved
  /\ build' = r.build
  /\ denied' = r.denied
  /\ job' = r.job
  /\ queue' = <<>>
  /\ failed' = failed \ {r}
  /\ UNCHANGED <<inputs, pending, registryVars, changes, faults>>

\* retention-days: 1
ArtifactExpires(r) == failed' = failed \ {r} /\ UNCHANGED vars

RerunSpec ==
  /\ Init /\ failed = {}
  /\ [][ \/ Fails
         \/ GoesOn
         \/ \E r \in failed : RerunFailedJobs(r) \/ ArtifactExpires(r) ]_<<vars, failed>>
=============================================================================
