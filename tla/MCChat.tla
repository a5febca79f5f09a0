-------------------------------- MODULE MCChat --------------------------------
(* Users of one tab with two sessions, of two tabs that share a session, of  *)
(* a tab that loses its connection, and a tab that watches workers come and  *)
(* go: the four share one run and never mix, which keeps it small.           *)
EXTENDS Chat
CONSTANTS t1, s1, acts
Alone  == [send |-> 2, act |-> acts, drop |-> 0, register |-> 0, report |-> 0]
Pair   == [send |-> 2, act |-> 2, drop |-> 0, register |-> 0, report |-> 0]
Losses == [send |-> 2, act |-> 1, drop |-> 1, register |-> 0, report |-> 0]
Remote == [send |-> 0, act |-> 0, drop |-> 1, register |-> 3, report |-> 1]
MCInit ==
  /\ Init
  /\ \/ pages = {t1} /\ ui = {t1} /\ left \in {Alone, Losses} /\ made = {}
     \/ pages = Tabs /\ ui = Tabs /\ left = Pair /\ made = Sessions \ {s1}
     \/ pages = {t1} /\ ui = {} /\ left = Remote /\ made = {}
MCSpec == MCInit /\ [][Next]_chatVars /\ Fairness
=============================================================================
