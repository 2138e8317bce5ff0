---------------------------- MODULE MCCollector -----------------------------
(* The collector: all types on two objects, object graphs on three.        *)
EXTENDS Collector, TLC

CONSTANTS o1, o2, o3

MCObjects == {o1, o2, o3}
TwoObjects == {o1, o2}

\* Objects that can point to themselves and to each other.
GraphTypes == {"instance", "closure", "upvalue"}
GraphKinds == {"stack", "open"}

\* Sizes that tell an array from another one with as many elements.
SmallSizes == [t \in ObjType \cup ElementTypes |-> IF t \in {"Entry", "int"} THEN 2 ELSE 1]

\* Addresses are interchangeable.
Addresses == Permutations(Objects)
=============================================================================
