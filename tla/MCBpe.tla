-------------------------------- MODULE MCBpe --------------------------------
(* Two workers on every text of two bytes up to a length: runs of one byte,  *)
(* pairs that overlap, merges of merges, the last chunk one byte shorter.    *)
EXTENDS Bpe
CONSTANTS Longest
MCSamples == UNION { [1..n -> 0..(Bytes-1)] : n \in {Longest - 1, Longest} }
=============================================================================
