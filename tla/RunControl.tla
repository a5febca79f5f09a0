----------------------------- MODULE RunControl -----------------------------
(***************************************************************************)
(* What the executor promises a client about a run, without flags, waiters *)
(* or nodes: a run is stopped, running, paused or cancelling, and training *)
(* advances only while it is running and no commit is pending.             *)
(***************************************************************************)
EXTENDS Naturals

VARIABLES mode,       (* "stopped", "running", "paused" or "cancelling"    *)
          committing, (* the executing node was asked to finish early      *)
          trained     (* optimizer steps of the executing node             *)

vars == <<mode, committing, trained>>

Init == mode = "stopped" /\ committing = FALSE /\ trained = 0

Begin  == mode = "stopped" /\ mode' = "running" /\ UNCHANGED <<committing, trained>>
Pause  == mode = "running" /\ mode' = "paused" /\ UNCHANGED <<committing, trained>>
Resume == mode = "paused" /\ mode' = "running" /\ UNCHANGED <<committing, trained>>
Cancel == mode \in {"running", "paused"} /\ mode' = "cancelling"
          /\ UNCHANGED <<committing, trained>>
Commit == /\ mode # "stopped"
          /\ committing' = TRUE
          /\ mode' = IF mode = "paused" THEN "running" ELSE mode
          /\ UNCHANGED trained

(* One optimizer step. *)
Train == /\ mode = "running" /\ ~committing
         /\ trained' = trained + 1
         /\ UNCHANGED <<mode, committing>>

(* The executing node ends, or the next one starts: its controls are new.  *)
NodeEnds   == mode # "stopped" /\ committing' = FALSE /\ UNCHANGED <<mode, trained>>
NodeStarts == /\ mode \in {"running", "paused"}
              /\ committing' = FALSE /\ trained' = 0 /\ UNCHANGED mode

End == mode # "stopped" /\ mode' = "stopped" /\ UNCHANGED <<committing, trained>>

Next == \/ Begin \/ Pause \/ Resume \/ Cancel \/ Commit \/ Train
        \/ NodeEnds \/ NodeStarts \/ End

Safety == Init /\ [][Next]_vars

(* A cancelled run is brought to its end. *)
Spec == Safety /\ WF_vars(mode = "cancelling" /\ End)

=============================================================================
