----------------------------- MODULE MCTokenizer -----------------------------
(* Two keys that share one output file. *)
EXTENDS Tokenizer
CONSTANTS k1, k2
TwoKeys == {k1, k2}
=============================================================================
