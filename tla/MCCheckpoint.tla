----------------------------- MODULE MCCheckpoint -----------------------------
(* A slot shared by a full model, by adapters on the same base and by a model*)
(* of another shape; the biases are no multiple of the alignment.            *)
EXTENDS Checkpoint
Full == [V |-> 5, d |-> 3, ctx |-> 2, h |-> 2, L |-> 2, r |-> 1, lora |-> FALSE, es |-> TRUE]
MCConfigs == {Full, [Full EXCEPT !.lora = TRUE], [Full EXCEPT !.L = 1, !.es = FALSE]}
=============================================================================
