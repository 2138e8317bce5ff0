--------------------------- MODULE ClosuresProofs ---------------------------
(***************************************************************************)
(* Proofs about the VM's frames, closures and upvalues, for a stack, a     *)
(* number of frames, closures, upvalues and arguments of any size.         *)
(***************************************************************************)
EXTENDS Closures, TLAPS

-----------------------------------------------------------------------------
(* The inductive invariant *)

\* The values a program can hold: every closure among them has been made.
Held ==
  {NoValue, Class, Native, Instance} \cup {Datum(d) : d \in Data}
  \cup {Closure(c) : c \in made} \cup {Bound(c) : c \in made}

HeldInv ==
  /\ stack \in [Slots -> Held] /\ closed \in [UpvalueIds -> Held] /\ result \in Held

\* The frames are nested from the bottom of the stack to its top.
FrameInv ==
  /\ \A i \in 1..frameCount : frames[i].slots < top /\ frames[i].closure \in made \ {making}
  /\ \A i, j \in 1..frameCount : i < j => frames[i].slots < frames[j].slots
  /\ frameCount = 0 => top = 0

\* The upvalues of closure c are all filled in.
Complete(c) == \A j \in Indices : j < count[c] => upvalues[c][j] # Null

\* Only the closure OP_CLOSURE is working on lacks upvalues, and those it has are
\* the ones below ui.
MakeInv ==
  /\ pc \in {"capture", "walk"} <=> making # Null
  /\ making # Null => ui <= count[making]
  /\ pc = "walk" => ui < count[making] /\ local \in Slots /\ local < top
  /\ \A j \in Indices : making # Null => (j < ui <=> upvalues[making][j] # Null)
  /\ \A c \in ClosureIds \ {making} : Complete(c)
  /\ \A c \in ClosureIds \ made, j \in Indices : upvalues[c][j] = Null
  /\ \A c \in ClosureIds, j \in Indices :
       upvalues[c][j] # Null => location[upvalues[c][j]] # Null

\* What the callers of closeUpvalues have prepared.
CloseInv ==
  pc = "close" =>
    /\ after = "pop" => last = top - 1 /\ Frame.slots < top - 1
    /\ after = "return" => last = Frame.slots /\ (frameCount = 1 => top = 1)

\* The list is sorted strictly, from the highest slot down, with no open upvalue
\* of the list between two neighbours; it is empty outside of run.
ListInv ==
  /\ \A u \in OpenList : IsOpen(u) /\ location[u] < top /\ location[u] <= location[open]
  /\ \A u \in OpenList : next[u] # Null => location[next[u]] < location[u]
  /\ \A u, w \in OpenList : location[u] = location[w] => u = w
  /\ \A u, w \in OpenList : location[w] < location[u] =>
       next[u] # Null /\ location[w] <= location[next[u]]
  /\ pc \in {"idle", "wild", "done"} => open = Null

\* captureUpvalue's cursors are neighbours, the slot looked for is below pre's.
WalkInv ==
  pc = "walk" =>
    /\ pre = Null => cur = open
    /\ pre # Null => pre \in OpenList /\ next[pre] = cur /\ location[pre] > local

\* Without the repl, an upvalue that points into the stack is on the list until
\* the program ends, and it is the only one for its slot.
OpenInv ==
  ~Repl =>
    /\ pc \notin {"wild", "done"} => \A u \in UpvalueIds : IsOpen(u) => u \in OpenList
    /\ pc = "idle" => \A u \in UpvalueIds : location[u] = Null
    /\ OneUpvaluePerValue

\* Without the repl, the slots below the top, the closed upvalues and the result
\* that is being returned hold values.
FilledInv ==
  ~Repl =>
    /\ \A s \in Slots : s < top => stack[s] # NoValue
    /\ \A u \in UpvalueIds : location[u] = Self => closed[u] # NoValue
    /\ pc = "close" /\ after = "return" => result # NoValue

IInv ==
  /\ TypeOK /\ HeldInv /\ FrameInv /\ MakeInv /\ CloseInv /\ ListInv /\ WalkInv
  /\ OpenInv /\ FilledInv
-----------------------------------------------------------------------------
(* Values and the list *)

\* What a value the program holds can be.
LEMMA HeldValues ==
  /\ made \subseteq ClosureIds => Held \subseteq Values \cup {NoValue}
  /\ Known \subseteq Held /\ {NoValue, Instance} \subseteq Held
  /\ \A d \in Data : Datum(d) \in Held
  /\ \A c \in made : Closure(c) \in Held
  /\ \A v \in Held : v[1] \in {"closure", "bound"} => v[2] \in made
<1>1. made \subseteq ClosureIds => Held \subseteq Values \cup {NoValue}
  BY DEF Held, Values
<1>2. Known \subseteq Held
  BY DEF Known, Held
<1>3. /\ {NoValue, Instance} \subseteq Held
      /\ \A d \in Data : Datum(d) \in Held
      /\ \A c \in made : Closure(c) \in Held
  BY DEF Held
<1>4. ASSUME NEW v \in Held, v[1] \in {"closure", "bound"} PROVE v[2] \in made
  BY <1>4 DEF Held, NoValue, Class, Native, Instance, Datum, Closure, Bound
<1> QED BY <1>1, <1>2, <1>3, <1>4

\* A value whose closure has been made is one the program can hold.
LEMMA ValuesHeld ==
  ASSUME NEW v \in Values, v[1] \in {"closure", "bound"} => v[2] \in made
  PROVE  v \in Held
<1>1. ASSUME NEW c \in ClosureIds, v = Closure(c) PROVE v \in Held
  BY <1>1 DEF Held, Closure
<1>2. ASSUME NEW c \in ClosureIds, v = Bound(c) PROVE v \in Held
  BY <1>2 DEF Held, Bound
<1>3. CASE v \in {Class, Native, Instance} \cup {Datum(d) : d \in Data}
  BY <1>3 DEF Held
<1> QED BY <1>1, <1>2, <1>3 DEF Values

\* A popped slot holds no value.
LEMMA ValuesAreValues ==
  /\ NoValue \notin Values /\ Instance \in Values
  /\ \A d \in Data : Datum(d) \in Values
  /\ \A c \in ClosureIds : Closure(c) \in Values
BY DEF Values, NoValue, Class, Native, Instance, Datum, Closure, Bound

\* What is held stays held when closures are made.
LEMMA HeldGrows ==
  ASSUME made \subseteq made' PROVE Held \subseteq Held'
BY DEF Held

\* OpenList is the least set with the head of the list that next does not leave.
LEMMA OpenListLeast ==
  ASSUME open \in UpvalueIds \cup {Null}, next \in [UpvalueIds -> UpvalueIds \cup {Null}]
  PROVE  /\ OpenList \subseteq UpvalueIds
         /\ open \in OpenList \cup {Null}
         /\ \A x \in OpenList : next[x] \in OpenList \cup {Null}
         /\ \A T \in SUBSET UpvalueIds :
              open \in T \cup {Null} /\ (\A x \in T : next[x] \in T \cup {Null})
                => OpenList \subseteq T
<1>1. /\ OpenList \subseteq UpvalueIds
      /\ open \in OpenList \cup {Null}
      /\ \A T \in SUBSET UpvalueIds :
           open \in T \cup {Null} /\ (\A x \in T : next[x] \in T \cup {Null})
             => OpenList \subseteq T
  BY DEF OpenList
<1>2. ASSUME NEW x \in OpenList, next[x] # Null PROVE next[x] \in OpenList
  <2>1. x \in UpvalueIds /\ next[x] \in UpvalueIds
    BY <1>1, <1>2
  <2>2. ASSUME NEW T \in SUBSET UpvalueIds, open \in T \cup {Null},
               \A y \in T : next[y] \in T \cup {Null}
        PROVE  next[x] \in T
    BY <1>1, <1>2, <2>2
  <2> QED BY <2>1, <2>2 DEF OpenList
<1> QED BY <1>1, <1>2

\* Without a head the list is empty.
LEMMA EmptyList == open = Null => OpenList = {}
<1> SUFFICES ASSUME open = Null PROVE OpenList = {}
  OBVIOUS
<1>1. open \in {} \cup {Null} /\ \A x \in {} : next[x] \in {} \cup {Null}
  OBVIOUS
<1> QED BY <1>1 DEF OpenList

LEMMA EmptyListNext == open' = Null => OpenList' = {}
<1> SUFFICES ASSUME open' = Null PROVE OpenList' = {}
  OBVIOUS
<1>1. open' \in {} \cup {Null} /\ \A x \in {} : next'[x] \in {} \cup {Null}
  OBVIOUS
<1> QED BY <1>1 DEF OpenList

\* The list depends on its head and its links only.
LEMMA SameList == UNCHANGED <<open, next>> => OpenList' = OpenList
BY DEF OpenList

-----------------------------------------------------------------------------
(* Instructions that leave closures and upvalues alone *)

\* The frame of the function that runs is the highest.
LEMMA TopFrame ==
  ASSUME IInv, pc \in {"run", "capture", "walk", "close"}
  PROVE  /\ frameCount \in 1..FramesMax
         /\ Frame = frames[frameCount]
         /\ Frame.slots \in Nat /\ Frame.slots < top /\ Frame.closure \in made \ {making}
         /\ \A i \in 1..frameCount : frames[i].slots \in Nat /\ frames[i].slots <= Frame.slots
<1>1. /\ frameCount \in 1..FramesMax
      /\ \A i \in 1..FramesMax : frames[i] \in [closure : ClosureIds \cup {Null}, slots : Nat]
  BY DEF IInv, TypeOK
<1>2. \A i \in 1..frameCount : i = frameCount \/ frames[i].slots < frames[frameCount].slots
  BY <1>1 DEF IInv, FrameInv
<1>3. \A i \in 1..frameCount : frames[i].slots \in Nat /\ i \in 1..FramesMax
  BY <1>1, ClosuresAssumption
<1> QED BY <1>1, <1>2, <1>3 DEF IInv, FrameInv, Frame

\* An instruction that changes the stack and the frames only.
LEMMA RunStep ==
  ASSUME IInv, pc = "run", pc' = "run",
         UNCHANGED <<made, arity, count, upvalues, open, next, location, loopVars>>,
         stack' \in [Slots -> Held], closed' \in [UpvalueIds -> Held],
         init' \in made \cup {Null}, top' \in 0..StackMax,
         frames' \in [1..FramesMax -> [closure : ClosureIds \cup {Null}, slots : Nat]],
         frameCount' \in 1..FramesMax, FrameInv',
         \A u \in OpenList : location[u] < top',
         ~Repl => /\ \A s \in Slots : s < top' => stack'[s] # NoValue
                  /\ \A u \in UpvalueIds : location[u] = Self => closed'[u] # NoValue
  PROVE  IInv'
<1>0. /\ UNCHANGED <<made, arity, count, upvalues, open, next, location>>
      /\ UNCHANGED <<making, ui, local, pre, cur, last, after, result>>
  BY DEF loopVars
<1>1. OpenList' = OpenList /\ Held' = Held
  BY <1>0, SameList DEF Held
<1>2. \A u \in UpvalueIds : IsOpen(u)' <=> IsOpen(u)
  BY <1>0 DEF IsOpen
<1>3. TypeOK'
  <2>1. Held \subseteq Values \cup {NoValue}
    BY HeldValues DEF IInv, TypeOK
  <2>2. /\ stack' \in [Slots -> Values \cup {NoValue}]
        /\ closed' \in [UpvalueIds -> Values \cup {NoValue}]
    BY <2>1
  <2>3. frameCount' \in 0..FramesMax /\ frameCount' # 0
    BY ClosuresAssumption
  <2>4. /\ pc' \in {"idle", "run", "capture", "walk", "close", "wild", "done"}
        /\ frameCount' = 0 <=> pc' \in {"idle", "wild", "done"}
    BY <2>3
  <2>5. /\ made' \subseteq ClosureIds /\ init' \in made' \cup {Null}
        /\ arity' \in [ClosureIds -> Arities] /\ count' \in [ClosureIds -> 0..MaxUpvalues]
        /\ upvalues' \in [ClosureIds -> [Indices -> UpvalueIds \cup {Null}]]
        /\ open' \in UpvalueIds \cup {Null} /\ next' \in [UpvalueIds -> UpvalueIds \cup {Null}]
        /\ location' \in [UpvalueIds -> Slots \cup {Null, Self}]
    BY <1>0 DEF IInv, TypeOK
  <2>6. /\ making' \in made' \cup {Null} /\ ui' \in 0..MaxUpvalues /\ local' \in Nat
        /\ pre' \in UpvalueIds \cup {Null} /\ cur' \in UpvalueIds \cup {Null}
        /\ last' \in Nat /\ after' \in {"pop", "return"} /\ result' \in Values \cup {NoValue}
    BY <1>0 DEF IInv, TypeOK
  <2> QED BY <2>2, <2>3, <2>4, <2>5, <2>6 DEF TypeOK
<1>4. HeldInv'
  BY <1>0, <1>1 DEF IInv, HeldInv
<1>5. MakeInv'
  BY <1>0 DEF IInv, MakeInv, Complete
<1>6. CloseInv' /\ WalkInv'
  BY DEF CloseInv, WalkInv
<1>7. ListInv'
  BY <1>0, <1>1, <1>2, OpenListLeast DEF IInv, TypeOK, ListInv
<1>8. OpenInv'
  BY <1>0, <1>1, <1>2 DEF IInv, OpenInv, OneUpvaluePerValue
<1>9. FilledInv'
  BY <1>0 DEF FilledInv
<1> QED BY <1>3, <1>4, <1>5, <1>6, <1>7, <1>8, <1>9 DEF IInv

\* One that stays in its frame.
LEMMA MoveStep ==
  ASSUME IInv, pc = "run",
         UNCHANGED <<pc, frames, frameCount, made, arity, count, upvalues, open, next,
                     location, loopVars>>,
         stack' \in [Slots -> Held], closed' \in [UpvalueIds -> Held],
         init' \in made \cup {Null}, top' \in 0..StackMax, Frame.slots < top',
         \A u \in OpenList : location[u] < top',
         ~Repl => /\ \A s \in Slots : s < top' => stack'[s] # NoValue
                  /\ \A u \in UpvalueIds : location[u] = Self => closed'[u] # NoValue
  PROVE  IInv'
<1>1. /\ frameCount \in 1..FramesMax /\ top' \in Nat
      /\ \A i \in 1..frameCount : frames[i].slots \in Nat /\ frames[i].slots <= Frame.slots
      /\ Frame.slots \in Nat
  BY TopFrame
<1>2. FrameInv'
  BY <1>1 DEF IInv, FrameInv, loopVars
<1> QED BY <1>1, <1>2, RunStep DEF IInv, TypeOK

\* What most steps use of the invariant.
LEMMA Basics ==
  ASSUME IInv
  PROVE  /\ StackMax \in Nat /\ top \in Nat /\ top <= StackMax
         /\ Slots \subseteq Nat /\ \A s \in Int : s \in Slots <=> 0 <= s /\ s < StackMax
         /\ stack \in [Slots -> Held] /\ closed \in [UpvalueIds -> Held] /\ result \in Held
         /\ made \subseteq ClosureIds /\ init \in made \cup {Null}
         /\ OpenList \subseteq UpvalueIds
         /\ \A u \in OpenList : location[u] \in Slots /\ location[u] < top
         /\ ~Repl => /\ \A s \in Slots : s < top => stack[s] # NoValue
                     /\ \A u \in UpvalueIds : location[u] = Self => closed[u] # NoValue
<1>1. StackMax \in Nat /\ top \in Nat /\ top <= StackMax
  BY ClosuresAssumption DEF IInv, TypeOK
<1>2. Slots \subseteq Nat /\ \A s \in Int : s \in Slots <=> 0 <= s /\ s < StackMax
  BY <1>1 DEF Slots
<1>3. OpenList \subseteq UpvalueIds
  BY OpenListLeast DEF IInv, TypeOK
<1> QED BY <1>1, <1>2, <1>3 DEF IInv, TypeOK, HeldInv, ListInv, IsOpen, FilledInv

\* The instruction's contract keeps what it drops apart from captured variables.
LEMMA Dropping ==
  ASSUME IInv, pc = "run", NEW s \in Int, s < top, Droppable(s)
  PROVE  /\ s \in Slots /\ Frame.slots < s /\ Frame.slots \in Nat
         /\ \A u \in OpenList : location[u] < s
BY Basics, TopFrame DEF Droppable

\* Slots that are cut or kept.
LEMMA CutStack ==
  ASSUME IInv, NEW n \in Int, n <= top
  PROVE  /\ Cut(stack, n) \in [Slots -> Held]
         /\ \A s \in Slots : s < n => Cut(stack, n)[s] = stack[s]
         /\ ~Repl => \A s \in Slots : s < n => Cut(stack, n)[s] # NoValue
<1>1. NoValue \in Held
  BY HeldValues
<1>2. ~Repl => \A s \in Slots : s < n => stack[s] # NoValue
  BY Basics
<1> QED BY <1>1, <1>2, Basics DEF Cut

\* A value is pushed.
LEMMA PushStep ==
  ASSUME IInv, pc = "run", top < StackMax, NEW v \in Held, ~Repl => v # NoValue,
         stack' = [stack EXCEPT ![top] = v], top' = top + 1,
         UNCHANGED <<pc, frames, frameCount, closureVars, listVars, loopVars>>
  PROVE  IInv'
<1>1. /\ top' \in 0..StackMax /\ Frame.slots < top'
      /\ \A u \in OpenList : location[u] < top'
  BY Basics, TopFrame
<1>2. /\ stack' \in [Slots -> Held]
      /\ \A s \in Slots : stack'[s] = IF s = top THEN v ELSE stack[s]
  BY Basics
<1>3. ~Repl => \A s \in Slots : s < top' => stack'[s] # NoValue
  BY <1>2, Basics
<1> QED BY <1>1, <1>2, <1>3, Basics, MoveStep DEF closureVars, listVars

\* The slots from n on are popped.
LEMMA PopStep ==
  ASSUME IInv, pc = "run", NEW n \in Int, n < top, Droppable(n),
         stack' = Cut(stack, n), top' = n, init' \in made \cup {Null},
         UNCHANGED <<pc, frames, frameCount, made, arity, count, upvalues, listVars, loopVars>>
  PROVE  IInv'
<1>1. top' \in 0..StackMax /\ Frame.slots < top' /\ \A u \in OpenList : location[u] < top'
  BY Basics, Dropping
<1> QED BY <1>1, Basics, CutStack, MoveStep DEF closureVars, listVars

\* The slots from n on give way to a value.
LEMMA ReplaceStep ==
  ASSUME IInv, pc = "run", NEW n \in Int, n < top, Droppable(n),
         NEW v \in Held, ~Repl => v # NoValue,
         stack' = [Cut(stack, n) EXCEPT ![n] = v], top' = n + 1,
         UNCHANGED <<pc, frames, frameCount, closureVars, listVars, loopVars>>
  PROVE  IInv'
<1>1. /\ top' \in 0..StackMax /\ Frame.slots < top'
      /\ \A u \in OpenList : location[u] < top'
  BY Basics, Dropping
<1>2. /\ stack' \in [Slots -> Held]
      /\ \A s \in Slots : stack'[s] = IF s = n THEN v ELSE Cut(stack, n)[s]
  <2>1. Cut(stack, n) \in [Slots -> Held]
    BY Basics, CutStack
  <2> QED BY <2>1
<1>3. ~Repl => \A s \in Slots : s < top' => stack'[s] # NoValue
  BY <1>2, Basics, CutStack
<1>4. /\ UNCHANGED <<pc, frames, frameCount, made, arity, count, upvalues, open, next,
                     location, loopVars>>
      /\ closed' = closed /\ init' = init
  BY DEF closureVars, listVars
<1>5. /\ closed' \in [UpvalueIds -> Held] /\ init' \in made \cup {Null}
      /\ ~Repl => \A u \in UpvalueIds : location[u] = Self => closed'[u] # NoValue
  BY <1>4, Basics
<1> QED BY <1>1, <1>2, <1>3, <1>4, <1>5, MoveStep

\* A value is assigned to a slot below the top.
LEMMA AssignStep ==
  ASSUME IInv, pc = "run", NEW s \in Slots, NEW v \in Held, ~Repl => v # NoValue,
         stack' = [stack EXCEPT ![s] = v],
         UNCHANGED <<pc, top, frames, frameCount, closureVars, listVars, loopVars>>
  PROVE  IInv'
<1>1. /\ stack' \in [Slots -> Held]
      /\ \A t \in Slots : stack'[t] = IF t = s THEN v ELSE stack[t]
  BY Basics
<1>2. ~Repl => \A t \in Slots : t < top' => stack'[t] # NoValue
  BY <1>1, Basics
<1> QED BY <1>1, <1>2, Basics, TopFrame, MoveStep DEF closureVars, listVars

-----------------------------------------------------------------------------
(* Calls, returns and errors *)

\* A frame that is not in use is one all the same.
LEMMA NoFrames ==
  [i \in 1..FramesMax |-> NoFrame] \in [1..FramesMax -> [closure : ClosureIds \cup {Null}, slots : Nat]]
BY DEF NoFrame

\* resetStack: whatever the stack holds, no frame and no list is left to reach it.
LEMMA ResetStep ==
  ASSUME IInv, pc = "run", pc' \in {Finished, "wild"}, ResetStack,
         stack' \in [Slots -> Held],
         UNCHANGED <<next, location, closed, closureVars, loopVars>>
  PROVE  IInv'
<1>0. /\ UNCHANGED <<made, arity, count, upvalues, init, next, location, closed>>
      /\ UNCHANGED <<making, ui, local, pre, cur, last, after, result>>
      /\ top' = 0 /\ open' = Null /\ frameCount' = 0
      /\ frames' = [i \in 1..FramesMax |-> NoFrame]
      /\ pc' \in {"idle", "done", "wild"} /\ (~Repl => pc' # "idle")
  BY DEF ResetStack, closureVars, loopVars, Finished
<1>1. OpenList' = {} /\ Held' = Held
  BY <1>0, EmptyListNext DEF Held
<1>2. TypeOK'
  <2>1. Held \subseteq Values \cup {NoValue}
    BY HeldValues, Basics
  <2>2. stack' \in [Slots -> Values \cup {NoValue}]
    BY <2>1
  <2>3. top' \in 0..StackMax /\ frameCount' \in 0..FramesMax
    BY <1>0, ClosuresAssumption
  <2> QED BY <1>0, <2>2, <2>3, NoFrames DEF IInv, TypeOK
<1>3. HeldInv' /\ FrameInv'
  BY <1>0, <1>1 DEF IInv, HeldInv, FrameInv
<1>4. MakeInv'
  BY <1>0 DEF IInv, MakeInv, Complete
<1>5. CloseInv' /\ WalkInv' /\ ListInv'
  BY <1>0, <1>1 DEF CloseInv, WalkInv, ListInv
<1>6. OpenInv'
  BY <1>0 DEF IInv, OpenInv, OneUpvaluePerValue, IsOpen
<1>7. FilledInv'
  BY <1>0, Basics DEF FilledInv
<1> QED BY <1>2, <1>3, <1>4, <1>5, <1>6, <1>7 DEF IInv

\* call.
LEMMA CallStep ==
  ASSUME IInv, pc = "run", NEW c \in made, NEW argCount \in Nat,
         NEW s \in Int, Droppable(s), s + argCount + 1 <= top,
         Call(c, argCount, s), stack' \in [Slots -> Held],
         ~Repl => \A t \in Slots : t < s + argCount + 1 => stack'[t] # NoValue,
         UNCHANGED <<closureVars, loopVars>>
  PROVE  IInv'
<1>0. /\ frameCount \in 1..FramesMax /\ FramesMax \in Nat
      /\ \A i \in 1..frameCount : frames[i].slots \in Nat /\ frames[i].slots <= Frame.slots
      /\ Frame.slots < s /\ Frame.slots \in Nat /\ s \in Slots /\ making = Null
      /\ \A u \in OpenList : location[u] < s
  <2>1. s < top
    BY Basics
  <2> QED BY <2>1, TopFrame, Dropping, ClosuresAssumption DEF IInv, MakeInv
<1>1. CASE RuntimeError
  BY <1>1, ResetStep DEF RuntimeError
<1>2. CASE /\ frameCount < FramesMax /\ Enter(c, s) /\ top' = s + argCount + 1
           /\ UNCHANGED <<pc, listVars>>
  <2>1. /\ frameCount' = frameCount + 1 /\ frameCount' \in 1..FramesMax
        /\ top' \in 0..StackMax /\ s < top' /\ s \in Nat
        /\ \A u \in OpenList : location[u] < top'
    <3>1. frameCount' = frameCount + 1 /\ frameCount' \in 1..FramesMax
      BY <1>0, <1>2 DEF Enter
    <3>2. s \in Nat /\ top' \in 0..StackMax /\ s < top'
      BY <1>0, <1>2, Basics
    <3>3. ASSUME NEW u \in OpenList PROVE location[u] < top'
      <4>1. location[u] \in Nat
        BY Basics
      <4>2. location[u] < s
        BY <1>0
      <4>3. top' \in Nat
        BY <3>2, Basics
      <4> QED BY <3>2, <4>1, <4>2, <4>3
    <3> QED BY <3>1, <3>2, <3>3
  <2>2. /\ frames' \in [1..FramesMax -> [closure : ClosureIds \cup {Null}, slots : Nat]]
        /\ frames'[frameCount + 1] = [closure |-> c, slots |-> s]
        /\ \A i \in 1..frameCount : frames'[i] = frames[i]
    <3>1. /\ frames \in [1..FramesMax -> [closure : ClosureIds \cup {Null}, slots : Nat]]
          /\ [closure |-> c, slots |-> s] \in [closure : ClosureIds \cup {Null}, slots : Nat]
          /\ frameCount + 1 \in 1..FramesMax
      BY <1>0, <1>2, <2>1, Basics DEF IInv, TypeOK
    <3> QED BY <1>0, <1>2, <3>1 DEF Enter
  <2>3. FrameInv'
    <3>0. /\ made' = made /\ making' = making /\ c # making
          /\ \A i \in 1..frameCount : frames[i].closure \in made \ {making}
          /\ \A i, j \in 1..frameCount : i < j => frames[i].slots < frames[j].slots
      BY <1>0, Basics, ClosuresAssumption DEF IInv, FrameInv, closureVars, loopVars
    <3>1. ASSUME NEW i \in 1..frameCount'
          PROVE frames'[i].slots < top' /\ frames'[i].closure \in made' \ {making'}
      <4>1. CASE i \in 1..frameCount
        <5>1. frames[i].slots \in Nat /\ frames[i].slots < s
          BY <1>0, <2>1, <4>1
        <5> QED BY <2>1, <2>2, <3>0, <4>1, <5>1
      <4>2. CASE i = frameCount + 1
        BY <2>1, <2>2, <3>0, <4>2
      <4> QED BY <1>0, <2>1, <4>1, <4>2
    <3>2. ASSUME NEW i \in 1..frameCount', NEW j \in 1..frameCount', i < j
          PROVE frames'[i].slots < frames'[j].slots
      <4>1. i \in 1..frameCount /\ (j \in 1..frameCount \/ j = frameCount + 1)
        BY <1>0, <2>1, <3>2
      <4>2. frames[i].slots \in Nat /\ frames[i].slots < s
        BY <1>0, <2>1, <4>1
      <4> QED BY <2>2, <3>0, <3>2, <4>1, <4>2
    <3> QED BY <1>0, <2>1, <3>1, <3>2 DEF FrameInv
  <2>4. ~Repl => /\ \A t \in Slots : t < top' => stack'[t] # NoValue
                 /\ \A u \in UpvalueIds : location[u] = Self => closed'[u] # NoValue
    BY <1>2, Basics DEF listVars
  <2> QED BY <1>2, <2>1, <2>2, <2>3, <2>4, Basics, RunStep DEF closureVars, listVars
<1> QED BY <1>1, <1>2 DEF Call

\* callValue.
LEMMA CallValueStep ==
  ASSUME IInv, pc = "run", NEW v \in Held, ~Repl => v # NoValue, NEW argCount \in Nat,
         NEW s \in Int, Droppable(s), s + argCount + 1 = top,
         CallValue(v, argCount, s), UNCHANGED <<closureVars, loopVars>>
  PROVE  IInv'
<1>0. s < top /\ s \in Slots /\ s + argCount + 1 <= top
  <2>1. s < top /\ s + argCount + 1 <= top
    BY Basics
  <2> QED BY <2>1, Dropping
<1>1. ASSUME NEW w \in Held, w # NoValue \/ w = v, stack' = [stack EXCEPT ![s] = w]
      PROVE  /\ stack' \in [Slots -> Held]
             /\ ~Repl => \A t \in Slots : t < s + argCount + 1 => stack'[t] # NoValue
  <2>1. /\ stack' \in [Slots -> Held]
        /\ \A t \in Slots : stack'[t] = IF t = s THEN w ELSE stack[t]
    BY <1>0, <1>1, Basics
  <2>2. ~Repl => \A t \in Slots : t < top => stack'[t] # NoValue
    BY <1>1, <2>1, Basics
  <2> QED BY <2>1, <2>2
<1>2. Instance \in Held /\ Instance # NoValue
  BY HeldValues, ValuesAreValues
<1>3. CASE /\ v[1] \in {"closure", "bound"} /\ Call(v[2], argCount, s)
           /\ stack' = [stack EXCEPT ![s] = IF v[1] = "bound" THEN Instance ELSE v]
  <2>1. v[2] \in made
    BY <1>3, HeldValues
  <2>2. /\ stack' \in [Slots -> Held]
        /\ ~Repl => \A t \in Slots : t < s + argCount + 1 => stack'[t] # NoValue
    BY <1>1, <1>2, <1>3
  <2> QED BY <1>0, <1>3, <2>1, <2>2, CallStep
<1>4. CASE v[1] = "class" /\ init # Null /\ Call(init, argCount, s) /\ stack' = [stack EXCEPT ![s] = Instance]
  <2>1. init \in made
    BY <1>4, Basics
  <2>2. /\ stack' \in [Slots -> Held]
        /\ ~Repl => \A t \in Slots : t < s + argCount + 1 => stack'[t] # NoValue
    BY <1>1, <1>2, <1>4
  <2> QED BY <1>0, <1>4, <2>1, <2>2, CallStep
<1>5. CASE /\ stack' = [stack EXCEPT ![s] = Instance]
           /\ UNCHANGED <<pc, top, frames, frameCount, listVars>>
  BY <1>0, <1>2, <1>5, AssignStep
<1>6. CASE /\ stack' = [stack EXCEPT ![s] = Instance] /\ ResetStack /\ pc' = "wild"
           /\ UNCHANGED <<next, location, closed>>
  BY <1>1, <1>2, <1>6, ResetStep
<1>7. CASE /\ \E d \in Data : stack' = [Cut(stack, s) EXCEPT ![s] = Datum(d)]
           /\ top' = s + 1
           /\ UNCHANGED <<pc, frames, frameCount, listVars>>
  <2>1. PICK d \in Data : stack' = [Cut(stack, s) EXCEPT ![s] = Datum(d)]
    BY <1>7
  <2>2. Datum(d) \in Held /\ Datum(d) # NoValue
    BY HeldValues, ValuesAreValues
  <2> QED BY <1>0, <1>7, <2>1, <2>2, ReplaceStep
<1>8. CASE RuntimeError /\ stack' = [stack EXCEPT ![s] = v]
  <2>1. stack' \in [Slots -> Held]
    BY <1>1, <1>8
  <2> QED BY <1>8, <2>1, ResetStep DEF RuntimeError
<1> QED BY <1>3, <1>4, <1>5, <1>6, <1>7, <1>8 DEF CallValue

\* A value the bytecode can push.
LEMMA KnownHeld ==
  ASSUME NEW v \in Values, v \in Known PROVE v \in Held /\ v # NoValue
BY HeldValues, ValuesAreValues

\* The stack entries an instruction looks at.
LEMMA Peeking ==
  ASSUME IInv, NEW d \in Nat, d < top
  PROVE  /\ top - 1 - d \in Slots /\ Peek(d) \in Held
         /\ ~Repl => Peek(d) # NoValue
<1>1. top - 1 - d \in Slots /\ top - 1 - d < top
  BY Basics
<1> QED BY <1>1, Basics DEF Peek

LEMMA OpCallIInv ==
  ASSUME IInv, NEW a \in Arities, OpCall(a) PROVE IInv'
<1>1. /\ pc = "run" /\ Droppable(top - a - 1) /\ a \in Nat /\ top - a - 1 \in Int
      /\ CallValue(Peek(a), a, top - a - 1) /\ UNCHANGED <<closureVars, loopVars>>
  BY Basics, ClosuresAssumption DEF OpCall, Arities
<1>2. top - a - 1 < top /\ (top - a - 1) + a + 1 = top
  BY <1>1, Basics
<1>3. top - a - 1 \in Slots
  BY <1>1, <1>2, Dropping
<1>4. a < top
  BY <1>1, <1>3, Basics
<1> QED BY <1>1, <1>2, <1>4, Peeking, CallValueStep

LEMMA InvokeFieldIInv ==
  ASSUME IInv, NEW a \in Arities, NEW v \in Values, InvokeField(a, v) PROVE IInv'
<1>1. /\ pc = "run" /\ Droppable(top - a - 1) /\ a \in Nat /\ top - a - 1 \in Int
      /\ CallValue(v, a, top - a - 1) /\ UNCHANGED <<closureVars, loopVars>> /\ v \in Known
  BY Basics, ClosuresAssumption DEF InvokeField, Arities
<1>2. (top - a - 1) + a + 1 = top
  BY <1>1, Basics
<1> QED BY <1>1, <1>2, KnownHeld, CallValueStep

LEMMA InvokeMethodIInv ==
  ASSUME IInv, NEW a \in Arities, NEW c \in ClosureIds, InvokeMethod(a, c) PROVE IInv'
<1>1. /\ pc = "run" /\ Droppable(top - a - 1) /\ a \in Nat /\ top - a - 1 \in Int
      /\ Call(c, a, top - a - 1) /\ c \in made /\ UNCHANGED <<stack, closureVars, loopVars>>
  BY Basics, ClosuresAssumption DEF InvokeMethod, Arities
<1>2. (top - a - 1) + a + 1 = top /\ (top - a - 1) + a + 1 <= top
  BY <1>1, Basics
<1>3. /\ stack' \in [Slots -> Held]
      /\ ~Repl => \A t \in Slots : t < (top - a - 1) + a + 1 => stack'[t] # NoValue
  BY <1>1, <1>2, Basics
<1> QED BY <1>1, <1>2, <1>3, CallStep

LEMMA SuperInvokeIInv ==
  ASSUME IInv, NEW a \in Arities, NEW c \in ClosureIds, SuperInvoke(a, c) PROVE IInv'
<1>1. /\ pc = "run" /\ Droppable(top - a - 2) /\ a \in Nat /\ top - a - 2 \in Int
      /\ Call(c, a, top - a - 2) /\ c \in made /\ UNCHANGED <<closureVars, loopVars>>
      /\ stack' = Cut(stack, top - 1)
  BY Basics, ClosuresAssumption DEF SuperInvoke, Arities
<1>2. /\ (top - a - 2) + a + 1 = top - 1 /\ (top - a - 2) + a + 1 <= top
      /\ top - 1 \in Int /\ top - 1 <= top
  BY <1>1, Basics
<1>3. /\ stack' \in [Slots -> Held]
      /\ ~Repl => \A t \in Slots : t < (top - a - 2) + a + 1 => stack'[t] # NoValue
  BY <1>1, <1>2, CutStack
<1> QED BY <1>1, <1>2, <1>3, CallStep

LEMMA ErrorIInv == IInv /\ Error => IInv'
BY Basics, ResetStep DEF Error, RuntimeError

\* interpret: the stack is empty, and no upvalue is open that the list could miss.
LEMMA InterpretIInv ==
  ASSUME IInv, NEW c \in ClosureIds, Interpret(c) PROVE IInv'
<1>0. /\ pc = "idle" /\ pc' = "run" /\ c \notin made /\ made' = made \cup {c}
      /\ top < StackMax /\ top' = top + 1
      /\ stack' = [stack EXCEPT ![top] = Closure(c)]
      /\ frames' = [frames EXCEPT ![frameCount + 1] = [closure |-> c, slots |-> top]]
      /\ frameCount' = frameCount + 1
      /\ UNCHANGED <<arity, count, upvalues, init, open, next, location, closed>>
      /\ UNCHANGED <<making, ui, local, pre, cur, last, after, result>>
  BY DEF Interpret, listVars, loopVars
<1>1. /\ frameCount = 0 /\ top = 0 /\ making = Null /\ open = Null /\ top \in Slots
      /\ FramesMax \in Nat \ {0} /\ 1 \in 1..FramesMax
  BY <1>0, Basics, ClosuresAssumption DEF IInv, TypeOK, FrameInv, MakeInv, ListInv
<1>2. OpenList' = {} /\ Held \subseteq Held' /\ Closure(c) \in Held' /\ made' \subseteq ClosureIds
  BY <1>0, <1>1, EmptyListNext, HeldGrows, Basics DEF Held
<1>3. HeldInv' /\ \A s \in Slots : stack'[s] = IF s = top THEN Closure(c) ELSE stack[s]
  <2>1. stack \in [Slots -> Held'] /\ closed' \in [UpvalueIds -> Held'] /\ result' \in Held'
    BY <1>0, <1>2, Basics
  <2> QED BY <1>0, <1>2, <2>1 DEF HeldInv
<1>4. /\ frames' \in [1..FramesMax -> [closure : ClosureIds \cup {Null}, slots : Nat]]
      /\ frames'[1] = [closure |-> c, slots |-> 0]
  <2>1. /\ frames \in [1..FramesMax -> [closure : ClosureIds \cup {Null}, slots : Nat]]
        /\ [closure |-> c, slots |-> 0] \in [closure : ClosureIds \cup {Null}, slots : Nat]
    BY DEF IInv, TypeOK
  <2> QED BY <1>0, <1>1, <2>1
<1>5. TypeOK'
  <2>1. Held' \subseteq Values \cup {NoValue}
    BY <1>2 DEF Held, Values
  <2>2. stack' \in [Slots -> Values \cup {NoValue}]
    BY <1>3, <2>1 DEF HeldInv
  <2>3. top' \in 0..StackMax /\ frameCount' \in 0..FramesMax /\ frameCount' # 0
    BY <1>0, <1>1, Basics
  <2> QED BY <1>0, <1>2, <1>4, <2>2, <2>3 DEF IInv, TypeOK
<1>6. FrameInv'
  BY <1>0, <1>1, <1>4, ClosuresAssumption DEF FrameInv
<1>7. MakeInv'
  BY <1>0 DEF IInv, MakeInv, Complete
<1>8. CloseInv' /\ WalkInv' /\ ListInv'
  BY <1>0, <1>2 DEF CloseInv, WalkInv, ListInv
<1>9. OpenInv'
  BY <1>0, AddressAssumption DEF IInv, OpenInv, OneUpvaluePerValue, IsOpen
<1>10. FilledInv'
  <2>1. Closure(c) # NoValue
    BY ValuesAreValues
  <2> QED BY <1>0, <1>1, <1>3, <2>1, Basics DEF FilledInv
<1> QED BY <1>3, <1>5, <1>6, <1>7, <1>8, <1>9, <1>10 DEF IInv

LEMMA PushIInv ==
  ASSUME IInv, NEW v \in Values, Push(v) PROVE IInv'
BY KnownHeld, PushStep DEF Push

LEMMA PopIInv == IInv /\ Pop => IInv'
<1> SUFFICES ASSUME IInv, Pop PROVE IInv'
  OBVIOUS
<1>1. top - 1 \in Int /\ top - 1 < top
  BY Basics
<1> QED BY <1>1, Basics, PopStep DEF Pop, closureVars

LEMMA OperateIInv ==
  ASSUME IInv, NEW v \in Values, NEW n \in {1, 2}, Operate(n, v) PROVE IInv'
<1>1. top - n \in Int /\ top - n < top
  BY Basics
<1> QED BY <1>1, KnownHeld, ReplaceStep DEF Operate

LEMMA DefineInitIInv == IInv /\ DefineInit => IInv'
<1> SUFFICES ASSUME IInv, DefineInit PROVE IInv'
  OBVIOUS
<1>1. top - 1 \in Int /\ top - 1 < top
  BY Basics
<1>2. 0 < top
  BY <1>1, Dropping, Basics DEF DefineInit
<1>3. init' \in made \cup {Null}
  BY <1>2, Peeking, HeldValues DEF DefineInit
<1> QED BY <1>1, <1>3, PopStep DEF DefineInit

LEMMA GetLocalIInv ==
  ASSUME IInv, NEW s \in Slots, GetLocal(s) PROVE IInv'
<1>1. stack[s] \in Held /\ (~Repl => stack[s] # NoValue)
  BY Basics DEF GetLocal
<1> QED BY <1>1, PushStep DEF GetLocal

LEMMA SetLocalIInv ==
  ASSUME IInv, NEW s \in Slots, SetLocal(s) PROVE IInv'
<1>1. 0 < top
  BY Basics DEF SetLocal
<1> QED BY <1>1, Peeking, AssignStep DEF SetLocal

\* An upvalue of the function that runs: a variable on the stack or a closed one.
LEMMA OwnUpvalue ==
  ASSUME IInv, pc \in {"run", "capture"}, NEW i \in Indices, i < count[Frame.closure]
  PROVE  LET u == upvalues[Frame.closure][i] IN
           /\ u \in UpvalueIds /\ location[u] \in Slots \cup {Self}
           /\ Frame.closure \in made \ {making}
           /\ Deref(u) \in Held /\ (~Repl => Deref(u) # NoValue)
           /\ ~Repl /\ location[u] # Self => location[u] < top
<1> DEFINE u == upvalues[Frame.closure][i]
<1>1. Frame.closure \in ClosureIds \ {making} /\ Frame.closure \in made
  BY TopFrame, Basics
<1>2. u # Null /\ u \in UpvalueIds
  BY <1>1 DEF IInv, MakeInv, Complete, TypeOK
<1>3. location[u] # Null
  BY <1>1, <1>2 DEF IInv, MakeInv
<1>4. location[u] \in Slots \cup {Self}
  BY <1>2, <1>3 DEF IInv, TypeOK
<1>5. ~Repl /\ location[u] # Self => location[u] < top
  BY <1>2, <1>4, Basics DEF IInv, OpenInv, IsOpen
<1>6. Deref(u) \in Held /\ (~Repl => Deref(u) # NoValue)
  <2>1. CASE location[u] = Self
    BY <1>2, <2>1, Basics DEF Deref
  <2>2. CASE location[u] # Self
    BY <1>4, <1>5, <2>2, Basics DEF Deref
  <2> QED BY <2>1, <2>2
<1> QED BY <1>1, <1>2, <1>4, <1>5, <1>6

LEMMA GetUpvalueIInv ==
  ASSUME IInv, NEW i \in Indices, GetUpvalue(i) PROVE IInv'
<1> DEFINE u == upvalues[Frame.closure][i]
<1>1. PICK v \in Read(u) : stack' = [stack EXCEPT ![top] = v]
  BY DEF GetUpvalue
<1>2. Deref(u) \in Held /\ (~Repl => Deref(u) # NoValue)
  BY OwnUpvalue DEF GetUpvalue
<1>3. v \in Held /\ (~Repl => v # NoValue)
  BY <1>1, <1>2, ValuesHeld DEF Read
<1> QED BY <1>1, <1>3, PushStep DEF GetUpvalue

LEMMA SetUpvalueIInv ==
  ASSUME IInv, NEW i \in Indices, SetUpvalue(i) PROVE IInv'
<1> DEFINE u == upvalues[Frame.closure][i]
<1>0. /\ pc = "run" /\ i < count[Frame.closure]
      /\ UNCHANGED <<pc, top, frames, frameCount, closureVars, open, next, location, loopVars>>
  BY DEF SetUpvalue
<1>1. u \in UpvalueIds /\ location[u] \in Slots \cup {Self}
  BY <1>0, OwnUpvalue
<1>2. Peek(0) \in Held /\ (~Repl => Peek(0) # NoValue)
  <2>1. 0 < top
    BY <1>0, TopFrame, Basics
  <2> QED BY <2>1, Peeking
<1>3. CASE location[u] = Self
  <2>1. closed' = [closed EXCEPT ![u] = Peek(0)] /\ stack' = stack
    BY <1>3 DEF SetUpvalue
  <2>2. /\ closed' \in [UpvalueIds -> Held]
        /\ \A w \in UpvalueIds : closed'[w] = IF w = u THEN Peek(0) ELSE closed[w]
    BY <1>1, <1>2, <2>1, Basics
  <2>3. ~Repl => \A w \in UpvalueIds : location[w] = Self => closed'[w] # NoValue
    BY <1>2, <2>2, Basics
  <2>4. top' \in 0..StackMax /\ Frame.slots < top' /\ \A w \in OpenList : location[w] < top'
    BY <1>0, Basics, TopFrame
  <2> QED BY <1>0, <2>1, <2>2, <2>3, <2>4, Basics, MoveStep DEF closureVars
<1>4. CASE location[u] # Self
  <2>1. stack' = [stack EXCEPT ![location[u]] = Peek(0)] /\ closed' = closed
    BY <1>4 DEF SetUpvalue
  <2>2. location[u] \in Slots
    BY <1>1, <1>4
  <2> QED BY <1>0, <1>2, <2>1, <2>2, AssignStep DEF listVars
<1> QED BY <1>3, <1>4

-----------------------------------------------------------------------------
(* OP_CLOSURE *)

LEMMA ClosureBeginIInv ==
  ASSUME IInv, NEW c \in ClosureIds, NEW n \in 0..MaxUpvalues, NEW a \in Arities,
         ClosureBegin(c, n, a)
  PROVE  IInv'
<1>0. /\ pc = "run" /\ pc' = "capture" /\ c \notin made /\ made' = made \cup {c}
      /\ top < StackMax /\ top' = top + 1
      /\ stack' = [stack EXCEPT ![top] = Closure(c)]
      /\ count' = [count EXCEPT ![c] = n] /\ arity' = [arity EXCEPT ![c] = a]
      /\ making' = c /\ ui' = 0
      /\ UNCHANGED <<frames, frameCount, upvalues, init, open, next, location, closed>>
      /\ UNCHANGED <<local, pre, cur, last, after, result>>
  BY DEF ClosureBegin, listVars
<1>1. making = Null /\ c # Null /\ top \in Slots
  BY <1>0, Basics, ClosuresAssumption DEF IInv, MakeInv
<1>2. /\ OpenList' = OpenList /\ Held \subseteq Held' /\ Closure(c) \in Held'
      /\ made' \subseteq ClosureIds
  BY <1>0, <1>1, SameList, HeldGrows, Basics DEF Held
<1>3. HeldInv' /\ \A s \in Slots : stack'[s] = IF s = top THEN Closure(c) ELSE stack[s]
  <2>1. stack \in [Slots -> Held'] /\ closed' \in [UpvalueIds -> Held'] /\ result' \in Held'
    BY <1>0, <1>2, Basics
  <2> QED BY <1>0, <1>2, <2>1 DEF HeldInv
<1>4. TypeOK'
  <2>1. Held' \subseteq Values \cup {NoValue}
    BY <1>2 DEF Held, Values
  <2>2. stack' \in [Slots -> Values \cup {NoValue}]
    BY <1>3, <2>1 DEF HeldInv
  <2>3. top' \in 0..StackMax /\ ui' \in 0..MaxUpvalues
    BY <1>0, Basics, ClosuresAssumption
  <2> QED BY <1>0, <1>2, <2>2, <2>3 DEF IInv, TypeOK
<1>5. FrameInv'
  <2>1. /\ frameCount \in 1..FramesMax
        /\ \A i \in 1..frameCount : frames[i].slots \in Nat /\ frames[i].slots <= Frame.slots
        /\ Frame.slots \in Nat /\ Frame.slots < top /\ top \in Nat
    BY <1>0, TopFrame, Basics
  <2>2. \A i \in 1..frameCount : frames[i].slots < top'
    BY <1>0, <2>1
  <2> QED BY <1>0, <2>1, <2>2 DEF IInv, FrameInv
<1>6. MakeInv'
  <2>1. /\ count' \in [ClosureIds -> 0..MaxUpvalues] /\ count'[c] = n
        /\ \A x \in ClosureIds \ {c} : count'[x] = count[x]
    BY <1>0 DEF IInv, TypeOK
  <2>2. /\ ui' <= count'[making'] /\ n \in Nat
        /\ \A j \in Indices : ~ (j < ui') /\ upvalues'[making'][j] = Null
    BY <1>0, <2>1, ClosuresAssumption DEF IInv, MakeInv, Indices
  <2>3. \A x \in ClosureIds \ {making'} : Complete(x)'
    BY <1>0, <1>1, <2>1, ClosuresAssumption DEF IInv, MakeInv, Complete
  <2>4. /\ \A x \in ClosureIds \ made', j \in Indices : upvalues'[x][j] = Null
        /\ \A x \in ClosureIds, j \in Indices :
             upvalues'[x][j] # Null => location'[upvalues'[x][j]] # Null
    BY <1>0 DEF IInv, MakeInv
  <2> QED BY <1>0, <1>1, <2>2, <2>3, <2>4 DEF MakeInv
<1>7. CloseInv' /\ WalkInv'
  BY <1>0 DEF CloseInv, WalkInv
<1>8. ListInv'
  <2>1. \A u \in OpenList : location[u] < top'
    BY <1>0, Basics
  <2> QED BY <1>0, <1>2, <2>1 DEF IInv, ListInv, IsOpen
<1>9. OpenInv'
  BY <1>0, <1>2 DEF IInv, OpenInv, OneUpvaluePerValue, IsOpen
<1>10. FilledInv'
  <2>1. Closure(c) # NoValue
    BY ValuesAreValues
  <2>2. ~Repl => \A s \in Slots : s < top' => stack'[s] # NoValue
    BY <1>0, <1>3, <2>1, Basics
  <2> QED BY <1>0, <2>2, Basics DEF FilledInv
<1> QED BY <1>3, <1>4, <1>5, <1>6, <1>7, <1>8, <1>9, <1>10 DEF IInv

\* While OP_CLOSURE works, its closure and its counter are as they should be.
LEMMA Making ==
  ASSUME IInv, pc \in {"capture", "walk"}, ui < count[making]
  PROVE  /\ making \in made /\ making \in ClosureIds /\ making # Null
         /\ ui \in Indices /\ ui \in Nat /\ count[making] \in Nat /\ upvalues[making][ui] = Null
<1>1. making \in made /\ making \in ClosureIds /\ making # Null
  BY Basics DEF IInv, MakeInv, TypeOK
<1>2. ui \in 0..MaxUpvalues /\ count[making] \in 0..MaxUpvalues
  BY <1>1 DEF IInv, TypeOK
<1>3. ui \in Indices /\ ui \in Nat /\ count[making] \in Nat
  BY <1>2, ClosuresAssumption DEF Indices
<1> QED BY <1>1, <1>3 DEF IInv, MakeInv

\* An upvalue is stored in the closure, a new one or an old one.
LEMMA StoredStep ==
  ASSUME IInv, pc \in {"capture", "walk"}, ui < count[making], NEW u \in UpvalueIds,
         upvalues' = [upvalues EXCEPT ![making][ui] = u], ui' = ui + 1,
         local' = 0, pre' = Null, cur' = Null, pc' = "capture",
         UNCHANGED <<stack, top, frames, frameCount, made, arity, count, init, closed,
                     making, last, after, result>>,
         open' \in UpvalueIds \cup {Null}, next' \in [UpvalueIds -> UpvalueIds \cup {Null}],
         location' \in [UpvalueIds -> Slots \cup {Null, Self}], location'[u] # Null,
         \A w \in UpvalueIds :
           location'[w] = location[w] \/ (location[w] = Null /\ location'[w] \in Slots),
         ListInv', OpenInv'
  PROVE  IInv'
<1>0. /\ upvalues' = [upvalues EXCEPT ![making][ui] = u] /\ ui' = ui + 1
      /\ local' = 0 /\ pre' = Null /\ cur' = Null /\ pc' = "capture"
  OBVIOUS
<1>1. /\ making \in made /\ making \in ClosureIds /\ making # Null
      /\ ui \in Indices /\ ui \in Nat /\ count[making] \in Nat
  BY Making
<1>2. /\ upvalues' \in [ClosureIds -> [Indices -> UpvalueIds \cup {Null}]]
      /\ \A c \in ClosureIds, j \in Indices :
           upvalues'[c][j] = IF c = making /\ j = ui THEN u ELSE upvalues[c][j]
  <2>1. upvalues \in [ClosureIds -> [Indices -> UpvalueIds \cup {Null}]]
    BY DEF IInv, TypeOK
  <2> QED BY <1>0, <1>1, <2>1
<1>3. u # Null
  BY ClosuresAssumption
<1>4. TypeOK'
  <2>1. ui' \in 0..MaxUpvalues
    BY <1>0, <1>1, ClosuresAssumption DEF Indices
  <2>2. frameCount # 0
    BY DEF IInv, TypeOK
  <2> QED BY <1>0, <1>2, <2>1, <2>2 DEF IInv, TypeOK
<1>5. HeldInv' /\ FrameInv'
  BY DEF IInv, HeldInv, FrameInv, Held
<1>6. MakeInv'
  <2>1. ui' <= count'[making']
    BY <1>0, <1>1
  <2>2. ASSUME NEW j \in Indices PROVE j < ui' <=> upvalues'[making'][j] # Null
    <3>1. j \in Nat /\ (j < ui' <=> j < ui \/ j = ui)
      BY <1>0, <1>1 DEF Indices
    <3>2. j < ui <=> upvalues[making][j] # Null
      BY <1>1 DEF IInv, MakeInv
    <3> QED BY <1>1, <1>2, <1>3, <3>1, <3>2
  <2>3. \A c \in ClosureIds \ {making'} : Complete(c)'
    BY <1>2 DEF IInv, MakeInv, Complete
  <2>4. \A c \in ClosureIds \ made', j \in Indices : upvalues'[c][j] = Null
    BY <1>1, <1>2 DEF IInv, MakeInv
  <2>5. ASSUME NEW c \in ClosureIds, NEW j \in Indices, upvalues'[c][j] # Null
        PROVE  location'[upvalues'[c][j]] # Null
    <3>1. CASE c = making /\ j = ui
      BY <1>2, <3>1
    <3>2. CASE ~ (c = making /\ j = ui)
      <4>1. /\ upvalues'[c][j] = upvalues[c][j] /\ upvalues[c][j] \in UpvalueIds
            /\ location[upvalues[c][j]] # Null
        BY <1>2, <2>5, <3>2 DEF IInv, MakeInv, TypeOK
      <4> QED BY <4>1
    <3> QED BY <3>1, <3>2
  <2> QED BY <1>0, <1>1, <2>1, <2>2, <2>3, <2>4, <2>5 DEF MakeInv
<1>7. CloseInv' /\ WalkInv'
  BY <1>0 DEF CloseInv, WalkInv
<1>8. FilledInv'
  BY <1>0, AddressAssumption, Basics DEF FilledInv
<1> QED BY <1>4, <1>5, <1>6, <1>7, <1>8 DEF IInv

\* Steps that leave the list, the stack and its top alone keep the list sorted.
LEMMA ListKept ==
  ASSUME IInv, UNCHANGED <<open, next, location, top>>, pc' \notin {"idle", "wild", "done"},
         pc \notin {"idle", "wild", "done"}
  PROVE  ListInv' /\ OpenInv' /\ OpenList' = OpenList
<1>1. OpenList' = OpenList
  BY SameList
<1>2. ListInv'
  BY <1>1 DEF IInv, ListInv, IsOpen
<1>3. OpenInv'
  BY <1>1 DEF IInv, OpenInv, OneUpvaluePerValue, IsOpen
<1> QED BY <1>1, <1>2, <1>3

LEMMA CaptureOuterIInv ==
  ASSUME IInv, NEW i \in Indices, CaptureOuter(i) PROVE IInv'
<1>1. /\ upvalues[Frame.closure][i] \in UpvalueIds
      /\ location[upvalues[Frame.closure][i]] \in Slots \cup {Self}
  BY OwnUpvalue DEF CaptureOuter
<1>2. ListInv' /\ OpenInv'
  BY ListKept DEF CaptureOuter, Stored, listVars
<1>3. /\ pc = "capture" /\ ui < count[making]
      /\ upvalues' = [upvalues EXCEPT ![making][ui] = upvalues[Frame.closure][i]] /\ ui' = ui + 1
      /\ local' = 0 /\ pre' = Null /\ cur' = Null /\ pc' = "capture"
      /\ UNCHANGED <<stack, top, frames, frameCount, made, arity, count, init>>
      /\ UNCHANGED <<open, next, location, closed, making, last, after, result>>
  BY DEF CaptureOuter, Stored, listVars
<1>4. /\ location'[upvalues[Frame.closure][i]] # Null
      /\ open' \in UpvalueIds \cup {Null} /\ next' \in [UpvalueIds -> UpvalueIds \cup {Null}]
      /\ location' \in [UpvalueIds -> Slots \cup {Null, Self}]
  BY <1>1, <1>3, AddressAssumption DEF IInv, TypeOK
<1>5. \A w \in UpvalueIds :
        location'[w] = location[w] \/ (location[w] = Null /\ location'[w] \in Slots)
  BY <1>3
<1> QED BY <1>5, <1>1, <1>2, <1>3, <1>4, StoredStep

LEMMA CaptureLocalIInv ==
  ASSUME IInv, NEW s \in Slots, CaptureLocal(s) PROVE IInv'
<1>0. /\ pc = "capture" /\ pc' = "walk" /\ ui < count[making] /\ s < top
      /\ local' = s /\ pre' = Null /\ cur' = open
      /\ UNCHANGED <<stack, top, frames, frameCount, made, arity, count, upvalues, init>>
      /\ UNCHANGED <<open, next, location, closed, making, ui, last, after, result>>
  BY DEF CaptureLocal, listVars, closureVars
<1>1. ListInv' /\ OpenInv' /\ OpenList' = OpenList
  BY <1>0, ListKept
<1>2. TypeOK'
  BY <1>0, Basics DEF IInv, TypeOK
<1>3. HeldInv' /\ FrameInv' /\ MakeInv'
  BY <1>0 DEF IInv, HeldInv, FrameInv, MakeInv, Complete, Held
<1>4. CloseInv' /\ WalkInv' /\ FilledInv'
  BY <1>0 DEF IInv, CloseInv, WalkInv, FilledInv
<1> QED BY <1>1, <1>2, <1>3, <1>4 DEF IInv

\* The cursor is on the list or past its end.
LEMMA CursorOnList ==
  ASSUME IInv, pc = "walk"
  PROVE  /\ cur \in OpenList \cup {Null} /\ pre \in OpenList \cup {Null}
         /\ local \in Slots /\ local < top /\ ui < count[making]
         /\ OpenList \subseteq UpvalueIds
<1>1. /\ open \in OpenList \cup {Null} /\ OpenList \subseteq UpvalueIds
      /\ \A x \in OpenList : next[x] \in OpenList \cup {Null}
  BY OpenListLeast DEF IInv, TypeOK
<1> QED BY <1>1 DEF IInv, WalkInv, MakeInv

LEMMA WalkIInv == IInv /\ Walk => IInv'
<1> SUFFICES ASSUME IInv, Walk PROVE IInv'
  OBVIOUS
<1>0. /\ pc = "walk" /\ pc' = "walk" /\ cur # Null /\ location[cur] > local
      /\ pre' = cur /\ cur' = next[cur]
      /\ UNCHANGED <<stack, top, frames, frameCount, made, arity, count, upvalues, init>>
      /\ UNCHANGED <<open, next, location, closed, making, ui, local, last, after, result>>
  BY DEF Walk, WalkOn, listVars, closureVars
<1>1. ListInv' /\ OpenInv' /\ OpenList' = OpenList
  BY <1>0, ListKept
<1>2. cur \in OpenList /\ cur \in UpvalueIds
  BY <1>0, CursorOnList
<1>3. TypeOK'
  BY <1>0, <1>2 DEF IInv, TypeOK
<1>4. HeldInv' /\ FrameInv' /\ MakeInv'
  BY <1>0 DEF IInv, HeldInv, FrameInv, MakeInv, Complete, Held
<1>5. WalkInv'
  BY <1>0, <1>1, <1>2, ClosuresAssumption DEF WalkInv
<1>6. CloseInv' /\ FilledInv'
  BY <1>0 DEF IInv, CloseInv, FilledInv
<1> QED BY <1>1, <1>3, <1>4, <1>5, <1>6 DEF IInv

LEMMA WalkFoundIInv == IInv /\ WalkFound => IInv'
<1> SUFFICES ASSUME IInv, WalkFound PROVE IInv'
  OBVIOUS
<1>1. /\ pc = "walk" /\ cur # Null /\ location[cur] = local
      /\ upvalues' = [upvalues EXCEPT ![making][ui] = cur] /\ ui' = ui + 1
      /\ local' = 0 /\ pre' = Null /\ cur' = Null /\ pc' = "capture"
      /\ UNCHANGED <<stack, top, frames, frameCount, made, arity, count, init>>
      /\ UNCHANGED <<open, next, location, closed, making, last, after, result>>
  BY DEF WalkFound, SameSlot, Stored, listVars
<1>2. cur \in UpvalueIds /\ location[cur] \in Slots /\ ui < count[making]
  BY <1>1, CursorOnList
<1>3. ListInv' /\ OpenInv'
  BY <1>1, ListKept
<1>4. /\ location'[cur] # Null
      /\ open' \in UpvalueIds \cup {Null} /\ next' \in [UpvalueIds -> UpvalueIds \cup {Null}]
      /\ location' \in [UpvalueIds -> Slots \cup {Null, Self}]
  BY <1>1, <1>2, AddressAssumption DEF IInv, TypeOK
<1>5. \A w \in UpvalueIds :
        location'[w] = location[w] \/ (location[w] = Null /\ location'[w] \in Slots)
  BY <1>1
<1> QED BY <1>1, <1>2, <1>3, <1>4, <1>5, StoredStep

\* newUpvalue: the new upvalue goes between the cursors, nothing else moves.
LEMMA InsertList ==
  ASSUME IInv, pc = "walk", NEW u \in UpvalueIds, u \notin OpenList,
         IF pre = Null
         THEN open' = u /\ next' = [next EXCEPT ![u] = cur]
         ELSE next' = [next EXCEPT ![u] = cur, ![pre] = u] /\ open' = open
  PROVE  /\ OpenList' = OpenList \cup {u}
         /\ open' \in UpvalueIds /\ next' \in [UpvalueIds -> UpvalueIds \cup {Null}]
         /\ next'[u] = cur /\ (pre # Null => next'[pre] = u)
         /\ \A x \in OpenList \ {pre} : next'[x] = next[x]
<1>1. /\ cur \in OpenList \cup {Null} /\ pre \in OpenList \cup {Null}
      /\ OpenList \subseteq UpvalueIds /\ u # Null
      /\ pre = Null => cur = open
      /\ pre # Null => next[pre] = cur
  BY CursorOnList, ClosuresAssumption DEF IInv, WalkInv
<1>2. /\ open \in OpenList \cup {Null}
      /\ \A x \in OpenList : next[x] \in OpenList \cup {Null}
      /\ open \in UpvalueIds \cup {Null} /\ next \in [UpvalueIds -> UpvalueIds \cup {Null}]
      /\ \A T \in SUBSET UpvalueIds :
           open \in T \cup {Null} /\ (\A x \in T : next[x] \in T \cup {Null})
             => OpenList \subseteq T
  BY OpenListLeast DEF IInv, TypeOK
<1>3. pre # Null => open # Null
  <2>1. open = Null => OpenList = {}
    BY EmptyList
  <2> QED BY <1>1, <2>1
<1>4. /\ open' \in UpvalueIds /\ next' \in [UpvalueIds -> UpvalueIds \cup {Null}]
      /\ next'[u] = cur /\ (pre # Null => next'[pre] = u)
      /\ \A x \in OpenList \ {pre} : next'[x] = next[x]
  BY <1>1, <1>2, <1>3
<1>5. OpenList' \subseteq OpenList \cup {u}
  <2> DEFINE R == OpenList \cup {u}
  <2>1. open' \in R \cup {Null} /\ R \in SUBSET UpvalueIds
    BY <1>1, <1>2
  <2>2. \A x \in R : next'[x] \in R \cup {Null}
    BY <1>1, <1>2, <1>4
  <2>3. OpenList' \subseteq R
    <3> HIDE DEF R
    <3> QED BY <2>1, <2>2 DEF OpenList
  <2> QED BY <2>3
<1>6. ASSUME NEW T \in SUBSET UpvalueIds, open' \in T \cup {Null},
             \A x \in T : next'[x] \in T \cup {Null}
      PROVE  OpenList \cup {u} \subseteq T
  <2> DEFINE R == T \cap OpenList
  <2>1. open \in R \cup {Null}
    <3>1. CASE pre = Null
      <4>1. u \in T
        BY <1>1, <1>6, <3>1
      <4> QED BY <1>1, <1>2, <1>4, <1>6, <3>1, <4>1
    <3>2. CASE pre # Null
      BY <1>2, <1>6, <3>2
    <3> QED BY <3>1, <3>2
  <2>2. ASSUME NEW x \in R PROVE next[x] \in R \cup {Null}
    <3>1. CASE x = pre
      <4>1. u \in T
        BY <1>1, <1>4, <1>6, <2>2, <3>1, ClosuresAssumption
      <4> QED BY <1>1, <1>2, <1>4, <1>6, <2>2, <3>1, <4>1, ClosuresAssumption
    <3>2. CASE x # pre
      BY <1>2, <1>4, <1>6, <2>2, <3>2
    <3> QED BY <3>1, <3>2
  <2>3. OpenList \subseteq R
    <3>1. R \in SUBSET UpvalueIds
      OBVIOUS
    <3> HIDE DEF R
    <3> QED BY <1>2, <2>1, <2>2, <3>1
  <2>4. u \in T
    <3>1. CASE pre = Null
      BY <1>1, <1>6, <3>1
    <3>2. CASE pre # Null
      BY <1>1, <1>4, <1>6, <2>3, <3>2
    <3> QED BY <3>1, <3>2
  <2> QED BY <2>3, <2>4
<1>7. OpenList \cup {u} \subseteq OpenList'
  BY <1>1, <1>6 DEF OpenList
<1> QED BY <1>4, <1>5, <1>7

\* Where the walk stopped: every slot with an upvalue is above pre's, or it is
\* pre's, or cur's, or below; the slot looked for is strictly between the two.
LEMMA WalkEnded ==
  ASSUME IInv, pc = "walk", ~WalkOn, ~SameSlot
  PROVE  /\ pre # Null => location[pre] \in Nat /\ local < location[pre]
         /\ cur # Null => location[cur] \in Nat /\ location[cur] < local
         /\ local \in Nat
         /\ \A x \in OpenList :
              /\ location[x] \in Nat
              /\ \/ pre # Null /\ location[pre] <= location[x]
                 \/ cur # Null /\ location[x] <= location[cur]
<1>1. /\ cur \in OpenList \cup {Null} /\ pre \in OpenList \cup {Null}
      /\ local \in Nat
      /\ \A x \in OpenList : location[x] \in Nat
  BY CursorOnList, Basics
<1>2. cur # Null => location[cur] < local
  BY <1>1 DEF WalkOn, SameSlot
<1>3. pre # Null => local < location[pre]
  BY <1>1 DEF IInv, WalkInv
<1>4. ASSUME NEW x \in OpenList
      PROVE  \/ pre # Null /\ location[pre] <= location[x]
             \/ cur # Null /\ location[x] <= location[cur]
  <2>1. CASE pre = Null
    <3>1. cur = open /\ open # Null
      BY <2>1, EmptyList DEF IInv, WalkInv
    <3>2. location[x] <= location[open]
      BY DEF IInv, ListInv
    <3> QED BY <3>1, <3>2
  <2>2. CASE pre # Null
    <3>1. pre \in OpenList /\ next[pre] = cur
      BY <2>2 DEF IInv, WalkInv
    <3>2. location[x] < location[pre] => cur # Null /\ location[x] <= location[cur]
      BY <3>1 DEF IInv, ListInv
    <3> QED BY <1>1, <2>2, <3>1, <3>2
  <2> QED BY <2>1, <2>2
<1> QED BY <1>1, <1>2, <1>3, <1>4

LEMMA WalkNewIInv ==
  ASSUME IInv, NEW u \in UpvalueIds, WalkNew(u) PROVE IInv'
<1>0. /\ pc = "walk" /\ ~WalkOn /\ ~SameSlot /\ location[u] = Null
      /\ location' = [location EXCEPT ![u] = local]
      /\ upvalues' = [upvalues EXCEPT ![making][ui] = u] /\ ui' = ui + 1
      /\ local' = 0 /\ pre' = Null /\ cur' = Null /\ pc' = "capture"
      /\ UNCHANGED <<stack, top, frames, frameCount, made, arity, count, init, closed,
                     making, last, after, result>>
  BY DEF WalkNew, Stored
<1>1. IF pre = Null
      THEN open' = u /\ next' = [next EXCEPT ![u] = cur]
      ELSE next' = [next EXCEPT ![u] = cur, ![pre] = u] /\ open' = open
  BY DEF WalkNew
<1>2. u \notin OpenList
  BY <1>0, Basics, AddressAssumption
<1>3. /\ OpenList' = OpenList \cup {u}
      /\ open' \in UpvalueIds /\ next' \in [UpvalueIds -> UpvalueIds \cup {Null}]
      /\ next'[u] = cur /\ (pre # Null => next'[pre] = u)
      /\ \A x \in OpenList \ {pre} : next'[x] = next[x]
  BY <1>0, <1>1, <1>2, InsertList
<1>4. /\ cur \in OpenList \cup {Null} /\ pre \in OpenList \cup {Null}
      /\ local \in Slots /\ local < top /\ ui < count[making]
      /\ OpenList \subseteq UpvalueIds /\ u # Null
  BY <1>0, CursorOnList, ClosuresAssumption
<1>5. /\ location' \in [UpvalueIds -> Slots \cup {Null, Self}]
      /\ location'[u] = local
      /\ \A w \in UpvalueIds : w # u => location'[w] = location[w]
  BY <1>0, <1>4 DEF IInv, TypeOK
<1>6. /\ pre # Null => location[pre] \in Nat /\ local < location[pre]
      /\ cur # Null => location[cur] \in Nat /\ location[cur] < local
      /\ local \in Nat
      /\ \A x \in OpenList :
           /\ location[x] \in Nat
           /\ \/ pre # Null /\ location[pre] <= location[x]
              \/ cur # Null /\ location[x] <= location[cur]
  BY <1>0, WalkEnded
<1>7. ListInv'
  <2>0. /\ \A x \in OpenList : location'[x] = location[x] /\ location[x] \in Slots /\ location[x] < top
        /\ \A x \in OpenList : next[x] \in OpenList \cup {Null}
        /\ open \in OpenList \cup {Null}
    BY <1>2, <1>4, <1>5, Basics, OpenListLeast DEF IInv, TypeOK
  <2>1. \A x \in OpenList : location[x] # local
    BY <1>6
  <2>2. ASSUME NEW x \in OpenList'
        PROVE  IsOpen(x)' /\ location'[x] < top' /\ location'[x] <= location'[open']
    <3>1. location'[x] \in Slots /\ location'[x] < top'
      BY <1>0, <1>3, <1>4, <1>5, <2>0
    <3>2. location'[x] <= location'[open']
      <4>1. CASE pre = Null
        BY <1>1, <1>3, <1>5, <1>6, <2>0, <4>1
      <4>2. CASE pre # Null
        <5>1. open' = open /\ open \in OpenList /\ location[pre] <= location[open]
          BY <1>1, <1>3, <1>4, <2>0, <4>2, ClosuresAssumption DEF IInv, ListInv
        <5>2. \A y \in OpenList : location[y] <= location[open]
          BY DEF IInv, ListInv
        <5> QED BY <1>3, <1>5, <1>6, <2>0, <4>2, <5>1, <5>2
      <4> QED BY <4>1, <4>2
    <3> QED BY <3>1, <3>2 DEF IsOpen
  <2>3. ASSUME NEW x \in OpenList', next'[x] # Null
        PROVE  location'[next'[x]] < location'[x]
    <3>1. CASE x = u
      BY <1>3, <1>4, <1>5, <1>6, <2>0, <2>3, <3>1
    <3>2. CASE x = pre
      BY <1>2, <1>3, <1>4, <1>5, <1>6, <2>0, <2>3, <3>2, ClosuresAssumption
    <3>3. CASE x # u /\ x # pre
      <4>1. x \in OpenList /\ next'[x] = next[x] /\ next[x] \in OpenList
        BY <1>3, <2>0, <2>3, <3>3
      <4>2. location[next[x]] < location[x]
        BY <2>3, <4>1 DEF IInv, ListInv
      <4> QED BY <2>0, <4>1, <4>2
    <3> QED BY <3>1, <3>2, <3>3
  <2>4. ASSUME NEW x \in OpenList', NEW w \in OpenList', location'[x] = location'[w]
        PROVE  x = w
    <3>1. CASE x \in OpenList /\ w \in OpenList
      BY <2>0, <2>4, <3>1 DEF IInv, ListInv
    <3> QED BY <1>3, <1>5, <2>0, <2>1, <2>4, <3>1
  <2>5. ASSUME NEW x \in OpenList', NEW w \in OpenList', location'[w] < location'[x]
        PROVE  next'[x] # Null /\ location'[w] <= location'[next'[x]]
    <3>1. CASE x = u
      <4>1. w \in OpenList /\ location[w] < local
        BY <1>3, <1>5, <1>6, <2>0, <2>5, <3>1
      <4> QED BY <1>3, <1>4, <1>6, <2>0, <3>1, <4>1
    <3>2. CASE x = pre
      <4>1. x \in OpenList /\ next'[x] = u /\ x # u
        BY <1>2, <1>3, <1>4, <3>2, ClosuresAssumption
      <4>2. CASE w = u
        BY <1>4, <1>5, <1>6, <4>1, <4>2
      <4>3. CASE w \in OpenList
        BY <1>4, <1>5, <1>6, <2>0, <2>5, <3>2, <4>1, <4>3
      <4> QED BY <1>3, <4>2, <4>3
    <3>3. CASE x # u /\ x # pre
      <4>1. x \in OpenList /\ next'[x] = next[x] /\ next[x] \in OpenList \cup {Null}
        BY <1>3, <2>0, <3>3
      <4>2. CASE w = u
        <5>1. pre # Null /\ location[pre] <= location[x] /\ pre \in OpenList
          BY <1>4, <1>5, <1>6, <2>0, <2>5, <4>1, <4>2
        <5>2. location[pre] # location[x]
          BY <3>3, <4>1, <5>1 DEF IInv, ListInv
        <5>3. next[x] # Null /\ location[pre] <= location[next[x]]
          BY <1>6, <4>1, <5>1, <5>2 DEF IInv, ListInv
        <5> QED BY <1>5, <1>6, <2>0, <4>1, <4>2, <5>1, <5>3
      <4>3. CASE w \in OpenList
        <5>1. next[x] # Null /\ location[w] <= location[next[x]]
          BY <2>0, <2>5, <4>1, <4>3 DEF IInv, ListInv
        <5> QED BY <2>0, <4>1, <4>3, <5>1
      <4> QED BY <1>3, <4>2, <4>3
    <3> QED BY <3>1, <3>2, <3>3
  <2> QED BY <1>0, <2>2, <2>3, <2>4, <2>5 DEF ListInv
<1>8. OpenInv'
  <2>1. ~Repl => \A w \in UpvalueIds : IsOpen(w)' => w \in OpenList'
    BY <1>0, <1>3, <1>5 DEF IInv, OpenInv, IsOpen
  <2>2. \A w, x \in OpenList' : location'[w] = location'[x] => w = x
    BY <1>7 DEF ListInv
  <2> QED BY <1>0, <2>1, <2>2 DEF OpenInv, OneUpvaluePerValue
<1>9. /\ \A w \in UpvalueIds :
           location'[w] = location[w] \/ (location[w] = Null /\ location'[w] \in Slots)
      /\ location'[u] # Null
  BY <1>0, <1>4, <1>5, AddressAssumption
<1> QED BY <1>0, <1>3, <1>4, <1>5, <1>7, <1>8, <1>9, StoredStep

LEMMA ClosureEndIInv == IInv /\ ClosureEnd => IInv'
<1> SUFFICES ASSUME IInv, ClosureEnd PROVE IInv'
  OBVIOUS
<1>0. /\ pc = "capture" /\ pc' = "run" /\ ui = count[making] /\ making' = Null /\ ui' = 0
      /\ UNCHANGED <<stack, top, frames, frameCount, made, arity, count, upvalues, init>>
      /\ UNCHANGED <<open, next, location, closed, local, pre, cur, last, after, result>>
  BY DEF ClosureEnd, listVars, closureVars
<1>1. ListInv' /\ OpenInv'
  BY <1>0, ListKept
<1>2. TypeOK'
  <2>1. 0 \in 0..MaxUpvalues
    BY ClosuresAssumption
  <2> QED BY <1>0, <2>1 DEF IInv, TypeOK
<1>3. HeldInv' /\ CloseInv' /\ WalkInv' /\ FilledInv'
  BY <1>0 DEF IInv, HeldInv, CloseInv, WalkInv, FilledInv, Held
<1>4. FrameInv'
  <2>1. Null \notin made
    BY Basics, ClosuresAssumption
  <2> QED BY <1>0, <2>1 DEF IInv, FrameInv
<1>5. MakeInv'
  <2>1. Complete(making)
    BY <1>0 DEF IInv, MakeInv, Complete
  <2>2. \A c \in ClosureIds : Complete(c)
    BY <2>1 DEF IInv, MakeInv
  <2> QED BY <1>0, <2>2 DEF IInv, MakeInv, Complete
<1> QED BY <1>1, <1>2, <1>3, <1>4, <1>5 DEF IInv

-----------------------------------------------------------------------------
(* OP_CLOSE_UPVALUE and OP_RETURN *)

LEMMA CloseBeginIInv == IInv /\ CloseBegin => IInv'
<1> SUFFICES ASSUME IInv, CloseBegin PROVE IInv'
  OBVIOUS
<1>0. /\ pc = "run" /\ pc' = "close" /\ Frame.slots < top - 1 /\ last' = top - 1 /\ after' = "pop"
      /\ UNCHANGED <<stack, top, frames, frameCount, made, arity, count, upvalues, init>>
      /\ UNCHANGED <<open, next, location, closed, making, ui, local, pre, cur, result>>
  BY Basics, TopFrame DEF CloseBegin, listVars, closureVars
<1>1. ListInv' /\ OpenInv'
  BY <1>0, ListKept
<1>2. TypeOK'
  <2>1. last' \in Nat
    BY <1>0, TopFrame, Basics
  <2> QED BY <1>0, <2>1 DEF IInv, TypeOK
<1>3. HeldInv' /\ FrameInv' /\ MakeInv'
  BY <1>0 DEF IInv, HeldInv, FrameInv, MakeInv, Complete, Held
<1>4. CloseInv' /\ WalkInv' /\ FilledInv'
  BY <1>0 DEF IInv, CloseInv, WalkInv, FilledInv, Frame
<1> QED BY <1>1, <1>2, <1>3, <1>4 DEF IInv

LEMMA ReturnIInv == IInv /\ Return => IInv'
<1> SUFFICES ASSUME IInv, Return PROVE IInv'
  OBVIOUS
<1>0. /\ pc = "run" /\ pc' = "close" /\ Droppable(top - 1) /\ result' = Peek(0)
      /\ stack' = Cut(stack, top - 1) /\ top' = top - 1 /\ last' = Frame.slots /\ after' = "return"
      /\ frameCount = 1 => top = 2
      /\ UNCHANGED <<frames, frameCount, made, arity, count, upvalues, init>>
      /\ UNCHANGED <<open, next, location, closed, making, ui, local, pre, cur>>
  BY DEF Return, listVars, closureVars
<1>1. /\ top - 1 \in Int /\ top - 1 < top /\ top - 1 <= top /\ top - 1 \in Slots
      /\ Frame.slots < top - 1 /\ Frame.slots \in Nat
      /\ \A u \in OpenList : location[u] < top - 1
  <2>1. top - 1 \in Int /\ top - 1 < top /\ top - 1 <= top
    BY Basics
  <2> QED BY <1>0, <2>1, Dropping
<1>2. OpenList' = OpenList /\ Held' = Held
  BY <1>0, SameList DEF Held
<1>3. /\ stack' \in [Slots -> Held]
      /\ ~Repl => \A s \in Slots : s < top' => stack'[s] # NoValue
  BY <1>0, <1>1, CutStack
<1>4. result' \in Held /\ (~Repl => result' # NoValue)
  <2>1. 0 < top
    BY <1>1, Basics
  <2> QED BY <1>0, <2>1, Peeking
<1>5. TypeOK'
  <2>1. Held \subseteq Values \cup {NoValue}
    BY HeldValues, Basics
  <2>2. stack' \in [Slots -> Values \cup {NoValue}] /\ result' \in Values \cup {NoValue}
    BY <1>3, <1>4, <2>1
  <2>3. top' \in 0..StackMax /\ last' \in Nat
    BY <1>0, <1>1, Basics
  <2> QED BY <1>0, <2>2, <2>3 DEF IInv, TypeOK
<1>6. HeldInv'
  BY <1>0, <1>2, <1>3, <1>4, Basics DEF HeldInv
<1>7. FrameInv'
  <2>1. /\ frameCount \in 1..FramesMax
        /\ \A i \in 1..frameCount : frames[i].slots \in Nat /\ frames[i].slots <= Frame.slots
    BY <1>0, TopFrame
  <2>2. \A i \in 1..frameCount : frames[i].slots < top'
    BY <1>0, <1>1, <2>1
  <2> QED BY <1>0, <2>1, <2>2 DEF IInv, FrameInv
<1>8. MakeInv' /\ WalkInv'
  BY <1>0 DEF IInv, MakeInv, WalkInv, Complete
<1>9. CloseInv'
  BY <1>0 DEF CloseInv, Frame
<1>10. ListInv'
  BY <1>0, <1>1, <1>2 DEF IInv, ListInv, IsOpen
<1>11. OpenInv'
  BY <1>0, <1>2 DEF IInv, OpenInv, OneUpvaluePerValue, IsOpen
<1>12. FilledInv'
  BY <1>0, <1>3, <1>4, Basics DEF FilledInv
<1> QED BY <1>5, <1>6, <1>7, <1>8, <1>9, <1>10, <1>11, <1>12 DEF IInv

\* closeUpvalues takes the head off the list, and only the head.
LEMMA RemoveHead ==
  ASSUME IInv, open # Null, open' = next[open], next' = next
  PROVE  /\ OpenList' = OpenList \ {open} /\ open \in OpenList
         /\ next[open] \in OpenList' \cup {Null}
         /\ \A x \in OpenList : next[x] # open
<1>1. /\ open \in OpenList /\ OpenList \subseteq UpvalueIds
      /\ \A x \in OpenList : next[x] \in OpenList \cup {Null}
      /\ \A T \in SUBSET UpvalueIds :
           open \in T \cup {Null} /\ (\A x \in T : next[x] \in T \cup {Null})
             => OpenList \subseteq T
  BY OpenListLeast DEF IInv, TypeOK
<1>2. \A x \in OpenList : next[x] # open
  <2> SUFFICES ASSUME NEW x \in OpenList, next[x] = open PROVE FALSE
    OBVIOUS
  <2>1. location[open] < location[x] /\ location[x] <= location[open]
    BY DEF IInv, ListInv
  <2>2. location[open] \in Nat /\ location[x] \in Nat
    BY <1>1, Basics
  <2> QED BY <2>1, <2>2
<1>3. OpenList' \subseteq OpenList \ {open}
  <2> DEFINE R == OpenList \ {open}
  <2>1. open' \in R \cup {Null} /\ R \in SUBSET UpvalueIds
    BY <1>1, <1>2
  <2>2. \A x \in R : next'[x] \in R \cup {Null}
    BY <1>1, <1>2
  <2>3. OpenList' \subseteq R
    <3> HIDE DEF R
    <3> QED BY <2>1, <2>2 DEF OpenList
  <2> QED BY <2>3
<1>4. ASSUME NEW T \in SUBSET UpvalueIds, open' \in T \cup {Null},
             \A x \in T : next'[x] \in T \cup {Null}
      PROVE  OpenList \ {open} \subseteq T
  <2> DEFINE R == T \cup {open}
  <2>1. open \in R \cup {Null} /\ R \in SUBSET UpvalueIds
    BY <1>1
  <2>2. \A x \in R : next[x] \in R \cup {Null}
    BY <1>4
  <2>3. OpenList \subseteq R
    <3> HIDE DEF R
    <3> QED BY <1>1, <2>1, <2>2
  <2> QED BY <2>3
<1>5. OpenList \ {open} \subseteq OpenList'
  BY <1>1, <1>4 DEF OpenList
<1> QED BY <1>1, <1>2, <1>3, <1>5

LEMMA CloseStepIInv == IInv /\ CloseStep => IInv'
<1> SUFFICES ASSUME IInv, CloseStep PROVE IInv'
  OBVIOUS
<1>0. /\ pc = "close" /\ pc' = "close" /\ open # Null
      /\ closed' = [closed EXCEPT ![open] = stack[location[open]]]
      /\ location' = [location EXCEPT ![open] = Self] /\ open' = next[open]
      /\ UNCHANGED <<stack, top, frames, frameCount, made, arity, count, upvalues, init, next>>
      /\ UNCHANGED <<making, ui, local, pre, cur, last, after, result>>
  BY DEF CloseStep, CloseOn, closureVars, loopVars
<1>1. /\ OpenList' = OpenList \ {open} /\ open \in OpenList /\ open \in UpvalueIds
      /\ next[open] \in OpenList' \cup {Null}
      /\ \A x \in OpenList : next[x] # open
      /\ location[open] \in Slots /\ location[open] < top
  BY <1>0, RemoveHead, Basics
<1>2. /\ location' \in [UpvalueIds -> Slots \cup {Null, Self}] /\ location'[open] = Self
      /\ \A x \in UpvalueIds \ {open} : location'[x] = location[x]
      /\ closed' \in [UpvalueIds -> Held] /\ closed'[open] = stack[location[open]]
      /\ \A x \in UpvalueIds \ {open} : closed'[x] = closed[x]
  BY <1>0, <1>1, Basics DEF IInv, TypeOK
<1>3. TypeOK'
  <2>1. Held \subseteq Values \cup {NoValue}
    BY HeldValues, Basics
  <2>2. closed' \in [UpvalueIds -> Values \cup {NoValue}]
    BY <1>2, <2>1
  <2>3. open' \in UpvalueIds \cup {Null}
    BY <1>0, <1>1 DEF IInv, TypeOK
  <2> QED BY <1>0, <1>2, <2>2, <2>3 DEF IInv, TypeOK
<1>4. HeldInv' /\ FrameInv'
  BY <1>0, <1>2 DEF IInv, HeldInv, FrameInv, Held
<1>5. MakeInv'
  <2>1. ASSUME NEW c \in ClosureIds, NEW j \in Indices, upvalues'[c][j] # Null
        PROVE  location'[upvalues'[c][j]] # Null
    <3>1. /\ upvalues'[c][j] = upvalues[c][j] /\ upvalues[c][j] \in UpvalueIds
          /\ location[upvalues[c][j]] # Null
      BY <1>0, <2>1 DEF IInv, MakeInv, TypeOK
    <3> QED BY <1>2, <3>1, AddressAssumption
  <2> QED BY <1>0, <2>1 DEF IInv, MakeInv, Complete
<1>6. CloseInv' /\ WalkInv'
  BY <1>0 DEF IInv, CloseInv, WalkInv, Frame
<1>7. ListInv'
  <2>0. /\ OpenList \subseteq UpvalueIds
        /\ \A x \in OpenList : location[x] \in Slots /\ location[x] < top /\ location[x] \in Nat
        /\ \A x \in OpenList : next[x] \in OpenList \cup {Null}
    BY Basics, OpenListLeast DEF IInv, TypeOK
  <2>1. ASSUME NEW x \in OpenList'
        PROVE  IsOpen(x)' /\ location'[x] < top' /\ location'[x] <= location'[open']
    <3>1. x \in OpenList /\ x # open /\ location'[x] = location[x]
      BY <1>1, <1>2, <2>0
    <3>2. location[x] < location[open]
      <4>1. location[x] <= location[open] /\ location[x] # location[open]
        BY <1>1, <3>1 DEF IInv, ListInv
      <4> QED BY <1>1, <2>0, <3>1, <4>1
    <3>3. next[open] # Null /\ location[x] <= location[next[open]]
      BY <1>1, <3>1, <3>2 DEF IInv, ListInv
    <3>4. location'[open'] = location[next[open]]
      BY <1>0, <1>1, <1>2, <2>0, <3>3
    <3> QED BY <1>0, <2>0, <3>1, <3>3, <3>4 DEF IsOpen
  <2>2. ASSUME NEW x \in OpenList'
        PROVE  /\ x \in OpenList /\ location'[x] = location[x] /\ next'[x] = next[x]
               /\ next[x] # Null => location'[next'[x]] = location[next[x]]
    BY <1>0, <1>1, <1>2, <2>0
  <2>3. \A x \in OpenList' : next'[x] # Null => location'[next'[x]] < location'[x]
    BY <2>2 DEF IInv, ListInv
  <2>4. \A x, w \in OpenList' : location'[x] = location'[w] => x = w
    BY <2>2 DEF IInv, ListInv
  <2>5. \A x, w \in OpenList' : location'[w] < location'[x] =>
          next'[x] # Null /\ location'[w] <= location'[next'[x]]
    BY <2>2 DEF IInv, ListInv
  <2> QED BY <1>0, <2>1, <2>3, <2>4, <2>5 DEF ListInv
<1>8. OpenInv'
  <2>1. ~Repl => \A w \in UpvalueIds : IsOpen(w)' => w \in OpenList'
    BY <1>0, <1>1, <1>2, AddressAssumption DEF IInv, OpenInv, IsOpen
  <2>2. \A w, x \in OpenList' : location'[w] = location'[x] => w = x
    BY <1>7 DEF ListInv
  <2> QED BY <1>0, <2>1, <2>2 DEF OpenInv, OneUpvaluePerValue
<1>9. FilledInv'
  BY <1>0, <1>1, <1>2, Basics DEF IInv, FilledInv
<1> QED BY <1>3, <1>4, <1>5, <1>6, <1>7, <1>8, <1>9 DEF IInv

\* closeUpvalues has stopped: no upvalue is left from last on, because the head of
\* the list has the highest slot.
LEMMA AllClosed ==
  ASSUME IInv, pc = "close", ~CloseOn
  PROVE  last \in Nat /\ \A u \in OpenList : location[u] \in Nat /\ location[u] < last
<1>1. last \in Nat /\ \A u \in OpenList : location[u] \in Nat
  BY Basics DEF IInv, TypeOK
<1>2. ASSUME NEW u \in OpenList PROVE location[u] < last
  <2>1. open \in OpenList
    BY EmptyList, OpenListLeast DEF IInv, TypeOK
  <2>2. location[u] <= location[open] /\ ~ (location[open] >= last)
    BY <2>1, ClosuresAssumption, Basics DEF IInv, ListInv, CloseOn
  <2> QED BY <1>1, <2>1, <2>2
<1> QED BY <1>1, <1>2

\* Back in run, or out of it, with the slots from n on gone.
LEMMA CloseEndStep ==
  ASSUME IInv, pc = "close", ~CloseOn, pc' \in {"run", Finished}, Closed,
         UNCHANGED <<closureVars, listVars>>,
         stack' \in [Slots -> Held], top' \in 0..StackMax,
         ~Repl => \A s \in Slots : s < top' => stack'[s] # NoValue,
         frames' \in [1..FramesMax -> [closure : ClosureIds \cup {Null}, slots : Nat]],
         frameCount' \in 0..FramesMax, frameCount' = 0 <=> pc' # "run",
         FrameInv', \A u \in OpenList : location[u] < top'
  PROVE  IInv'
<1>0. /\ UNCHANGED <<made, arity, count, upvalues, init, open, next, location, closed>>
      /\ UNCHANGED <<making, ui, local, pre, cur>>
      /\ last' = 0 /\ after' = "pop" /\ result' = NoValue
      /\ pc' \in {"run", "idle", "done"} /\ (~Repl => pc' # "idle")
  BY DEF Closed, closureVars, listVars, Finished
<1>1. OpenList' = OpenList /\ Held' = Held /\ NoValue \in Held
  BY <1>0, SameList, HeldValues DEF Held
<1>2. TypeOK'
  <2>1. Held \subseteq Values \cup {NoValue}
    BY HeldValues, Basics
  <2>2. stack' \in [Slots -> Values \cup {NoValue}]
    BY <2>1
  <2> QED BY <1>0, <2>2 DEF IInv, TypeOK
<1>3. HeldInv'
  BY <1>0, <1>1, Basics DEF HeldInv
<1>4. MakeInv' /\ CloseInv' /\ WalkInv'
  BY <1>0 DEF IInv, MakeInv, CloseInv, WalkInv, Complete
<1>5. ListInv'
  <2>1. pc' # "run" => open = Null
    <3>1. SUFFICES ASSUME pc' # "run", open # Null PROVE FALSE
      OBVIOUS
    <3>2. top' = 0
      BY <3>1 DEF FrameInv
    <3>3. open \in OpenList
      BY <3>1, OpenListLeast DEF IInv, TypeOK
    <3> QED BY <3>2, <3>3, Basics
  <2> QED BY <1>0, <1>1, <2>1 DEF IInv, ListInv, IsOpen
<1>6. OpenInv'
  BY <1>0, <1>1 DEF IInv, OpenInv, OneUpvaluePerValue, IsOpen
<1>7. FilledInv'
  BY <1>0, Basics DEF FilledInv
<1> QED BY <1>2, <1>3, <1>4, <1>5, <1>6, <1>7 DEF IInv

LEMMA CloseEndPopIInv == IInv /\ CloseEndPop => IInv'
<1> SUFFICES ASSUME IInv, CloseEndPop PROVE IInv'
  OBVIOUS
<1>0. /\ pc = "close" /\ ~CloseOn /\ after = "pop" /\ pc' = "run" /\ Closed
      /\ stack' = Cut(stack, top - 1) /\ top' = top - 1
      /\ UNCHANGED <<frames, frameCount, closureVars, listVars>>
  BY DEF CloseEndPop
<1>1. /\ last = top - 1 /\ Frame.slots < top - 1 /\ Frame.slots \in Nat
      /\ frameCount \in 1..FramesMax
      /\ \A i \in 1..frameCount : frames[i].slots \in Nat /\ frames[i].slots <= Frame.slots
  BY <1>0, TopFrame DEF IInv, CloseInv
<1>2. top - 1 \in Int /\ top - 1 <= top /\ top' \in 0..StackMax
  BY <1>0, <1>1, Basics
<1>3. /\ stack' \in [Slots -> Held]
      /\ ~Repl => \A s \in Slots : s < top' => stack'[s] # NoValue
  BY <1>0, <1>2, CutStack
<1>4. FrameInv'
  BY <1>0, <1>1, <1>2 DEF IInv, FrameInv, Closed, closureVars
<1>5. \A u \in OpenList : location[u] < top'
  BY <1>0, <1>1, AllClosed
<1>6. /\ frames' \in [1..FramesMax -> [closure : ClosureIds \cup {Null}, slots : Nat]]
      /\ frameCount' \in 0..FramesMax /\ frameCount' # 0
  BY <1>0, <1>1 DEF IInv, TypeOK
<1> QED BY <1>0, <1>2, <1>3, <1>4, <1>5, <1>6, CloseEndStep

LEMMA ReturnEndIInv == IInv /\ ReturnEnd => IInv'
<1> SUFFICES ASSUME IInv, ReturnEnd PROVE IInv'
  OBVIOUS
<1>0. /\ pc = "close" /\ ~CloseOn /\ after = "return" /\ Closed
      /\ frameCount' = frameCount - 1 /\ frames' = [frames EXCEPT ![frameCount] = NoFrame]
      /\ UNCHANGED <<closureVars, listVars>>
  BY DEF ReturnEnd
<1>1. /\ last = Frame.slots /\ (frameCount = 1 => top = 1)
      /\ Frame = frames[frameCount] /\ Frame.slots \in Nat /\ Frame.slots < top
      /\ frameCount \in 1..FramesMax /\ FramesMax \in Nat
      /\ frameCount' \in 0..FramesMax
  BY <1>0, TopFrame, ClosuresAssumption DEF IInv, CloseInv
<1>2. /\ frames' \in [1..FramesMax -> [closure : ClosureIds \cup {Null}, slots : Nat]]
      /\ \A i \in 1..(frameCount - 1) : frames'[i] = frames[i]
  <2>1. /\ frames \in [1..FramesMax -> [closure : ClosureIds \cup {Null}, slots : Nat]]
        /\ NoFrame \in [closure : ClosureIds \cup {Null}, slots : Nat]
    BY DEF IInv, TypeOK, NoFrame
  <2> QED BY <1>0, <1>1, <2>1
<1>3. \A u \in OpenList : location[u] \in Nat /\ location[u] < Frame.slots
  BY <1>0, <1>1, AllClosed
<1>4. CASE frameCount = 1
  <2>1. stack' = Cut(stack, top - 1) /\ top' = top - 1 /\ pc' = Finished /\ top' = 0
    BY <1>1, <1>4 DEF ReturnEnd
  <2>2. top - 1 \in Int /\ top - 1 <= top /\ top' \in 0..StackMax
    BY <2>1, Basics
  <2>3. /\ stack' \in [Slots -> Held]
        /\ ~Repl => \A s \in Slots : s < top' => stack'[s] # NoValue
    BY <2>1, <2>2, CutStack
  <2>4. FrameInv' /\ frameCount' = 0
    <3>1. frameCount' = 0 /\ 1..frameCount' = {}
      BY <1>0, <1>4
    <3> QED BY <2>1, <3>1 DEF FrameInv
  <2>5. \A u \in OpenList : location[u] < top'
    BY <1>1, <1>3, <1>4, <2>1
  <2>6. pc' # "run"
    BY <2>1 DEF Finished
  <2> QED BY <1>0, <1>1, <1>2, <2>1, <2>2, <2>3, <2>4, <2>5, <2>6, CloseEndStep
<1>5. CASE frameCount # 1
  <2>1. /\ stack' = [Cut(stack, Frame.slots) EXCEPT ![Frame.slots] = result]
        /\ top' = Frame.slots + 1 /\ pc' = "run" /\ frameCount' # 0
    BY <1>0, <1>1, <1>5 DEF ReturnEnd
  <2>2. Frame.slots <= top /\ top' \in 0..StackMax /\ Frame.slots \in Slots
    BY <1>1, <2>1, Basics
  <2>3. Cut(stack, Frame.slots) \in [Slots -> Held]
    BY <1>1, <2>2, CutStack
  <2>4. /\ stack' \in [Slots -> Held]
        /\ \A s \in Slots : stack'[s] = IF s = Frame.slots THEN result ELSE Cut(stack, Frame.slots)[s]
    BY <2>1, <2>2, <2>3, Basics
  <2>5. ~Repl => result # NoValue
    BY <1>0 DEF IInv, FilledInv
  <2>6. ~Repl => \A s \in Slots : s < top' => stack'[s] # NoValue
    <3>1. ~Repl => \A s \in Slots : s < Frame.slots => Cut(stack, Frame.slots)[s] # NoValue
      BY <1>1, <2>2, CutStack
    <3>2. \A s \in Slots : s < top' => s = Frame.slots \/ s < Frame.slots
      BY <1>1, <2>1, Basics
    <3> QED BY <2>4, <2>5, <3>1, <3>2
  <2>7. FrameInv'
    <3>1. /\ \A i, j \in 1..frameCount : i < j => frames[i].slots < frames[j].slots
          /\ \A i \in 1..frameCount : frames[i].closure \in made \ {making}
          /\ \A i \in 1..frameCount : frames[i].slots \in Nat
      BY <1>0, TopFrame DEF IInv, FrameInv
    <3>2. ASSUME NEW i \in 1..frameCount'
          PROVE  /\ i \in 1..frameCount /\ frames'[i] = frames[i]
                 /\ frames[i].slots < Frame.slots /\ frames[i].slots \in Nat
      <4>1. i \in 1..(frameCount - 1) /\ i \in 1..frameCount /\ i < frameCount
        BY <1>0, <1>1
      <4> QED BY <1>1, <1>2, <3>1, <4>1
    <3>3. made' = made /\ making' = making
      BY <1>0 DEF Closed, closureVars
    <3> QED BY <1>1, <2>1, <3>1, <3>2, <3>3 DEF FrameInv
  <2>8. \A u \in OpenList : location[u] < top'
    BY <1>1, <1>3, <2>1
  <2> QED BY <1>0, <1>1, <1>2, <2>1, <2>2, <2>4, <2>6, <2>7, <2>8, CloseEndStep
<1> QED BY <1>4, <1>5

-----------------------------------------------------------------------------
(* The invariant holds in every state *)

LEMMA InitIInv == Init => IInv
<1> SUFFICES ASSUME Init PROVE IInv
  OBVIOUS
<1>1. OpenList = {}
  BY EmptyList DEF Init
<1>2. TypeOK
  <2>1. top \in 0..StackMax /\ ui \in 0..MaxUpvalues /\ frameCount \in 0..FramesMax
    BY ClosuresAssumption DEF Init
  <2>2. /\ arity \in [ClosureIds -> Arities] /\ count \in [ClosureIds -> 0..MaxUpvalues]
    BY ClosuresAssumption DEF Init, Arities
  <2> QED BY <2>1, <2>2, NoFrames DEF Init, TypeOK
<1>3. HeldInv /\ FrameInv
  BY HeldValues DEF Init, HeldInv, FrameInv
<1>4. MakeInv
  <2>1. \A j \in Indices : ~ (j < 0)
    BY ClosuresAssumption DEF Indices
  <2> QED BY <2>1 DEF Init, MakeInv, Complete
<1>5. CloseInv /\ ListInv /\ WalkInv
  BY <1>1 DEF Init, CloseInv, ListInv, WalkInv
<1>6. OpenInv /\ FilledInv
  <2>1. \A s \in Slots : ~ (s < 0)
    BY ClosuresAssumption DEF Slots
  <2> QED BY <2>1, AddressAssumption DEF Init, OpenInv, FilledInv, OneUpvaluePerValue, IsOpen
<1> QED BY <1>2, <1>3, <1>4, <1>5, <1>6 DEF IInv

\* Nothing changes, nothing is violated.
LEMMA StutterIInv == IInv /\ UNCHANGED vars => IInv'
<1> SUFFICES ASSUME IInv, UNCHANGED vars PROVE IInv'
  OBVIOUS
<1>0. /\ UNCHANGED <<pc, stack, top, frames, frameCount, made, arity, count, upvalues, init>>
      /\ UNCHANGED <<open, next, location, closed>>
      /\ UNCHANGED <<making, ui, local, pre, cur, last, after, result>>
  BY DEF vars, closureVars, listVars, loopVars
<1>1. OpenList' = OpenList /\ Held' = Held
  BY <1>0, SameList DEF Held
<1>2. TypeOK' /\ HeldInv'
  BY <1>0, <1>1 DEF IInv, TypeOK, HeldInv
<1>3. FrameInv' /\ MakeInv' /\ CloseInv'
  BY <1>0 DEF IInv, FrameInv, MakeInv, CloseInv, Complete, Frame
<1>4. ListInv' /\ WalkInv'
  BY <1>0, <1>1 DEF IInv, ListInv, WalkInv, IsOpen
<1>5. OpenInv' /\ FilledInv'
  BY <1>0, <1>1 DEF IInv, OpenInv, FilledInv, OneUpvaluePerValue, IsOpen
<1> QED BY <1>2, <1>3, <1>4, <1>5 DEF IInv

LEMMA NextIInv == IInv /\ [Next]_vars => IInv'
<1> SUFFICES ASSUME IInv, [Next]_vars PROVE IInv'
  OBVIOUS
<1>1. CASE \E c \in ClosureIds : Interpret(c)
  BY <1>1, InterpretIInv
<1>2. CASE \E v \in Values : Push(v) \/ Operate(1, v) \/ Operate(2, v)
  <2>1. PICK v \in Values : Push(v) \/ Operate(1, v) \/ Operate(2, v)
    BY <1>2
  <2>2. CASE Push(v)
    BY <2>2, PushIInv
  <2>3. CASE Operate(1, v)
    <3>1. 1 \in {1, 2}
      OBVIOUS
    <3> QED BY <2>3, <3>1, OperateIInv
  <2>4. CASE Operate(2, v)
    <3>1. 2 \in {1, 2}
      OBVIOUS
    <3> QED BY <2>4, <3>1, OperateIInv
  <2> QED BY <2>1, <2>2, <2>3, <2>4
<1>3. CASE \E a \in Arities : OpCall(a)
  BY <1>3, OpCallIInv
<1>4. CASE \E a \in Arities, v \in Values : InvokeField(a, v)
  BY <1>4, InvokeFieldIInv
<1>5. CASE \E a \in Arities, c \in ClosureIds : InvokeMethod(a, c) \/ SuperInvoke(a, c)
  BY <1>5, InvokeMethodIInv, SuperInvokeIInv
<1>6. CASE \E s \in Slots : GetLocal(s) \/ SetLocal(s) \/ CaptureLocal(s)
  BY <1>6, GetLocalIInv, SetLocalIInv, CaptureLocalIInv
<1>7. CASE \E i \in Indices : GetUpvalue(i) \/ SetUpvalue(i) \/ CaptureOuter(i)
  BY <1>7, GetUpvalueIInv, SetUpvalueIInv, CaptureOuterIInv
<1>8. CASE \E c \in ClosureIds, n \in 0..MaxUpvalues, a \in Arities : ClosureBegin(c, n, a)
  BY <1>8, ClosureBeginIInv
<1>9. CASE \E u \in UpvalueIds : WalkNew(u)
  BY <1>9, WalkNewIInv
<1>10. CASE Error \/ Pop \/ DefineInit \/ Walk \/ WalkFound \/ ClosureEnd
  BY <1>10, ErrorIInv, PopIInv, DefineInitIInv, WalkIInv, WalkFoundIInv, ClosureEndIInv
<1>11. CASE CloseBegin \/ Return \/ CloseStep \/ CloseEndPop \/ ReturnEnd
  BY <1>11, CloseBeginIInv, ReturnIInv, CloseStepIInv, CloseEndPopIInv, ReturnEndIInv
<1>12. CASE UNCHANGED vars
  BY <1>12, StutterIInv
<1> QED BY <1>1, <1>2, <1>3, <1>4, <1>5, <1>6, <1>7, <1>8, <1>9, <1>10, <1>11, <1>12 DEF Next

\* The inductive invariant holds of every state of the VM.
LEMMA ClosuresInvariant == Spec => []IInv
BY InitIInv, NextIInv, PTL DEF Spec

\* Every variable of the VM keeps its type, in the repl too: reading a variable
\* through an upvalue, closing it and walking the list never follow a wild
\* pointer; run has a frame exactly while it runs.
THEOREM ClosuresTypeCorrect == Spec => []TypeOK
<1>1. IInv => TypeOK
  BY DEF IInv
<1> QED BY <1>1, ClosuresInvariant, PTL

\* The frames are nested and below the stack top, and no frame runs a closure
\* that OP_CLOSURE has not finished.
THEOREM ClosuresFramesNested == Spec => []FramesNested
<1>1. ASSUME IInv PROVE FramesNested
  <2>1. /\ frameCount \in 0..FramesMax /\ FramesMax \in Nat /\ made \subseteq ClosureIds
    BY <1>1, ClosuresAssumption DEF IInv, TypeOK
  <2>2. ASSUME NEW i \in 1..frameCount
        PROVE  /\ frames[i].slots < top
               /\ i > 1 => frames[i - 1].slots < frames[i].slots
               /\ frames[i].closure \in made \ {making}
               /\ \A j \in Indices : j < count[frames[i].closure] =>
                    upvalues[frames[i].closure][j] # Null
    <3>1. frames[i].slots < top /\ frames[i].closure \in made \ {making}
      BY <1>1 DEF IInv, FrameInv
    <3>2. i > 1 => frames[i - 1].slots < frames[i].slots
      <4>1. i > 1 => i - 1 \in 1..frameCount /\ i - 1 < i
        BY <2>1
      <4> QED BY <1>1, <4>1 DEF IInv, FrameInv
    <3>3. Complete(frames[i].closure)
      BY <1>1, <2>1, <3>1 DEF IInv, MakeInv
    <3> QED BY <3>1, <3>2, <3>3 DEF Complete
  <2> QED BY <1>1, <2>2 DEF FramesNested, IInv, FrameInv
<1> QED BY <1>1, ClosuresInvariant, PTL

\* Run from a file, the list vm.openUpvalues holds every upvalue that points into
\* the stack, sorted by slot, one per slot, none above the stack top: the early
\* exits of captureUpvalue and closeUpvalues miss nothing.
THEOREM ClosuresOpenListExact ==
  ASSUME ~Repl PROVE Spec => []OpenListExact
<1>1. IInv => OpenListExact
  <2>1. SUFFICES ASSUME IInv, pc \notin {"wild", "done"}
                 PROVE  /\ OpenList = {u \in UpvalueIds : IsOpen(u)}
                        /\ \A u \in OpenList :
                             /\ location[u] < top
                             /\ next[u] # Null => location[next[u]] < location[u]
    BY DEF OpenListExact
  <2>2. OpenList \subseteq UpvalueIds
    BY <2>1, Basics
  <2> QED BY <2>1, <2>2 DEF IInv, ListInv, OpenInv
<1> QED BY <1>1, ClosuresInvariant, PTL

\* Run from a file, "two ObjUpvalues cannot store the same Value" (captureUpvalue):
\* what the repl breaks after an error holds of every other run.
THEOREM ClosuresOneUpvaluePerValue ==
  ASSUME ~Repl PROVE Spec => []OneUpvaluePerValue
<1>1. IInv => OneUpvaluePerValue
  BY DEF IInv, OpenInv
<1> QED BY <1>1, ClosuresInvariant, PTL

=============================================================================
