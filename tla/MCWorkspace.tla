----------------------------- MODULE MCWorkspace -----------------------------
(* One browser, and two variants beside the default project. *)
EXTENDS Workspace, TLC
CONSTANTS tab, v1, v2
OneClient  == {tab}
VariantsAlike == Permutations({v1, v2})
TwoVariants == {v1, v2}
=============================================================================
