------------------------------- MODULE MCIngest -------------------------------
(* Two configs with a quota of two documents each.  The file of the first has*)
(* a run that is too short before two documents, the mixed corpus two files *)
(* and a run that is too long.                                               *)
EXTENDS Ingest
Bytes(text) == [i \in 1..Len(text) |-> text[i] = 1]
MCConfigs == <<"js", "go">>
MCCandidates == [js |-> <<"js", "mixed">>, go |-> <<"go", "mixed">>]
MCShards == [js    |-> <<Bytes(<<1, 0, 1, 1, 0, 1, 1>>)>>,
             go    |-> <<Bytes(<<0, 1, 1>>)>>,
             mixed |-> <<Bytes(<<1, 1, 1, 1>>), Bytes(<<1, 1>>)>>]
=============================================================================
