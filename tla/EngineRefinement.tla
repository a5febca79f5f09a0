-------------------------- MODULE EngineRefinement --------------------------
(***************************************************************************)
(* Engine implements RunControl: a cancellation hides a pause, a commit is *)
(* pending while the flag is set, and the steps are those of the executing *)
(* node.                                                                   *)
(***************************************************************************)
EXTENDS Engine

Mode == IF ~Running THEN "stopped"
        ELSE IF Aborted THEN "cancelling"
        ELSE IF paused THEN "paused" ELSE "running"

AbstractRun == INSTANCE RunControl WITH
  mode <- Mode, committing <- commitFlag, trained <- step

(* The executor's flags, waiters and node walk implement the promise made  *)
(* of a run, its liveness included.                                        *)
ImplementsRunControl == AbstractRun!Spec
=============================================================================
