------------------------------ MODULE Sharing -------------------------------
(***************************************************************************)
(* What closures promise the Lox programmer, without a word on upvalues: a *)
(* variable has one value under all its names.  Its names are the stack    *)
(* slot it was declared in and the places where closures keep it.  A write *)
(* through one name is seen through all the others, and through no other   *)
(* name; the closures keep the variable when its slot is gone.             *)
(* Module Closures is shown to implement this specification.               *)
(***************************************************************************)
EXTENDS Integers

CONSTANTS
  Slots,     \* the stack slots, 0 .. n
  Captures,  \* the names variables have in closures
  Values,
  Absent     \* the value of a name that is not in use

VARIABLES
  top,       \* the slots below it are in use
  val,       \* the value of each name
  group      \* the names of a name's variable, its own among them

svars == <<top, val, group>>

StackName(s) == <<"stack", s>>
StackNames == {StackName(s) : s \in Slots}
Names == StackNames \cup Captures
Live == {n \in Names : val[n] # Absent}

Init ==
  /\ top = 0
  /\ val = [n \in Names |-> Absent]
  /\ group = [n \in Names |-> {}]

\* The names left when the slots from s on have gone out of scope: no other name
\* loses its variable.
Kept(s) == Live \ {StackName(t) : t \in {x \in Slots : x >= s}}

Drop(s) ==
  /\ top' = s
  /\ LET K == Kept(s) IN
       /\ val' = [n \in Names |-> IF n \in K THEN val[n] ELSE Absent]
       /\ group' = [n \in Names |-> IF n \in K THEN group[n] \cap K ELSE {}]

\* A new variable in slot s, or the result that takes the place of the operands
\* from s on.
Push(s) ==
  /\ top' = s + 1
  /\ LET K == Kept(s)  N == StackName(s)  v == val'[N] IN
       /\ v \in Values
       /\ val' = [n \in Names |-> IF n = N THEN v ELSE IF n \in K THEN val[n] ELSE Absent]
       /\ group' = [n \in Names |-> IF n = N THEN {N}
                                   ELSE IF n \in K THEN group[n] \cap K ELSE {}]

\* Assignment through any name: the new value is that of the variable's other
\* names too, and all other variables keep theirs.
Write(n) ==
  /\ UNCHANGED top
  /\ val[n] # Absent
  /\ LET G == group[n]  v == val'[n] IN
       /\ v \in Values
       /\ val' = [m \in Names |-> IF m \in G THEN v ELSE val[m]]
  /\ UNCHANGED group

\* A closure captures the variable of name n under its own name c.
Capture(c, n) ==
  /\ UNCHANGED top
  /\ val[c] = Absent /\ val[n] # Absent
  /\ val' = [val EXCEPT ![c] = val[n]]
  /\ LET G == group[n] \cup {c} IN
       group' = [m \in Names |-> IF m \in G THEN G ELSE group[m]]

Next ==
  \/ \E s \in 0..top : Drop(s)
  \/ \E s \in Slots \cap 0..top : Push(s)
  \/ \E n \in Names : Write(n)
  \/ \E c \in Captures, n \in Names : Capture(c, n)

Spec == Init /\ [][Next]_svars
=============================================================================
