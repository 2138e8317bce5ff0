----------------------------- MODULE MCClosures -----------------------------
(* The VM's closures on a small stack.                                     *)
EXTENDS Closures, TLC

CONSTANTS c1, c2, c3, c4, u1, u2, d1, d2

TwoClosures == {c1, c2}
ThreeClosures == {c1, c2, c3}
FourClosures == {c1, c2, c3, c4}
OneUpvalue == {u1}
TwoUpvalues == {u1, u2}
TwoData == {d1, d2}
OneDatum == {d1}

\* Addresses and data are interchangeable.
Addresses == Permutations(ClosureIds) \cup Permutations(UpvalueIds) \cup Permutations(Data)

\* A bound of the run calls: one native function or bound method at a time, and
\* the method is the initializer.
FewCallees ==
  /\ \A s \in Slots : stack[s][1] = "bound" => stack[s][2] = init
  /\ \A s, t \in Slots : {stack[s][1], stack[t][1]} \subseteq {"native", "bound"} => s = t
=============================================================================
