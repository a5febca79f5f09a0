------------------------------ MODULE MCEngine ------------------------------
(***************************************************************************)
(* Instances of Engine.  The run-control instance has one pipeline in      *)
(* which a data node feeds two trainers, one of which feeds a harness; the *)
(* editing instance has small good and bad pipelines, whose eval is a node *)
(* without a gate.                                                         *)
(***************************************************************************)
EXTENDS EngineRefinement

CONSTANTS data, fast, slow, eval, in1

Wire(a, b) == [from |-> a, to |-> b, port |-> in1]

(* The run-control pipeline. *)
RunNodes == {data, fast, slow, eval}
RunEdges == { Wire(data, fast), Wire(data, slow), Wire(fast, eval) }
RunSpecs == { [nodes |-> RunNodes, edges |-> RunEdges, unknown |-> {}] }

(* The editing instance: data feeds the trainer, which feeds eval.          *)
(* slow -> data is a type match only when the cycle test must refuse it.   *)
SmallNodes == {data, slow, eval}
SmallConnectable ==
  { Wire(data, slow), Wire(slow, eval), Wire(eval, slow), Wire(slow, data) }
SmallEdges == SmallConnectable \cup { Wire(data, eval), Wire(eval, eval) }
SmallSpecs ==
  { [nodes |-> {data, slow}, edges |-> {Wire(data, slow)}, unknown |-> {}],
    [nodes |-> SmallNodes, edges |-> {Wire(data, slow), Wire(slow, eval)}, unknown |-> {}],
    (* two edges into one input, which validate does not mind *)
    [nodes |-> SmallNodes, edges |-> {Wire(data, slow), Wire(eval, slow)}, unknown |-> {}],
    (* a cycle, a type mismatch and an edge to a missing node *)
    [nodes |-> {slow, eval}, edges |-> {Wire(slow, eval), Wire(eval, slow)}, unknown |-> {}],
    [nodes |-> {data, eval}, edges |-> {Wire(data, eval)}, unknown |-> {}],
    [nodes |-> {data}, edges |-> {Wire(data, slow)}, unknown |-> {}],
    (* dangling edges that hide from the order of data *)
    [nodes |-> {data, eval}, edges |-> {Wire(data, slow), Wire(eval, eval)}, unknown |-> {}],
    (* a node type the registry lacks *)
    [nodes |-> SmallNodes, edges |-> {}, unknown |-> {slow}] }
=============================================================================
