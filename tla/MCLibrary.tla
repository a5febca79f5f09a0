------------------------------ MODULE MCLibrary ------------------------------
(* Two export names and two variants: enough for a link to a link. *)
EXTENDS Library
CONSTANTS x1, x2, c1, c2, small, large
TwoNames  == {x1, x2}
TwoClones == {c1, c2}

(* Every operation and two shapes with one export; every operation with    *)
(* two; and three sets of weights: the export's and those of two variants  *)
(* that are linked to it, or one to the other, and train at once.          *)
Everything == {"accept", "rename", "delete", "throw"}
Shaped   == [ops |-> Everything, names |-> {x1}, shapes |-> {small, large}, versions |-> 2]
Named    == [ops |-> Everything, names |-> TwoNames, shapes |-> {small}, versions |-> 2]
Together == [ops |-> {"delete", "tokenizer"}, names |-> {x1}, shapes |-> {small}, versions |-> 3]
ThreeScenes == {Shaped, Named, Together}

(* Renames only.                                                           *)
RenameScene == {[ops |-> {"rename"}, names |-> TwoNames, shapes |-> {small}, versions |-> 2]}
=============================================================================
