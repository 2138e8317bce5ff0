------------------------------ MODULE Closures ------------------------------
(***************************************************************************)
(* The value stack, the call frames and the upvalues of the clox VM (vm.c).*)
(*                                                                         *)
(* A captured variable lives in its stack slot as long as the slot does;   *)
(* the list vm.openUpvalues, sorted by slot, finds the upvalue of a slot;  *)
(* closeUpvalues moves the value into the upvalue when the slot goes.      *)
(*                                                                         *)
(* The bytecode is any that keeps to what the compiler guarantees: it does *)
(* not pop below the frame's own slot 0, and it drops a slot that a        *)
(* closure has captured by OP_CLOSE_UPVALUE or OP_RETURN only; operands,   *)
(* callees and arguments are never captured while they wait for their      *)
(* instruction.                                                            *)
(***************************************************************************)
EXTENDS Integers

CONSTANTS
  ClosureIds,   \* the ObjClosures that can be made (bound of the model)
  UpvalueIds,   \* the ObjUpvalues that can be made (bound of the model)
  Data,         \* the values that cannot be called
  Library,      \* which of "closure", "class", "native" and "bound" the program
                \* has in globals and properties
  Null,         \* the C NULL
  Self,         \* &upvalue->closed, the location of a closed upvalue
  Absent,       \* no value, for the refinement mapping
  StackMax,     \* STACK_MAX; the code does not check it, the model is cut there
  FramesMax,    \* FRAMES_MAX
  MaxUpvalues,  \* upvalues of a function; 256 in the compiler
  MaxArity,     \* arguments of a call; 255 in the compiler
  Repl          \* TRUE: main.c's repl; FALSE: runFile

ASSUME ClosuresAssumption ==
  /\ StackMax \in Nat /\ FramesMax \in Nat \ {0} /\ MaxUpvalues \in Nat /\ MaxArity \in Nat
  /\ Null \notin ClosureIds \cup UpvalueIds
  /\ Data # {}
  /\ Repl \in BOOLEAN

VARIABLES
  pc,          \* "idle" between two calls of interpret; "run" at the head of
               \* run's loop; "capture", "walk" inside OP_CLOSURE; "close"
               \* inside closeUpvalues; "wild": run uses vm.frames[-1]; "done"
  stack, top,  \* vm.stack, vm.stackTop
  frames, frameCount,
  made,        \* the closures that exist
  arity,       \* closure->function->arity
  count,       \* closure->upvalueCount
  upvalues,    \* closure->upvalues
  init,        \* the init method of the class the program pushes, or Null
  open,        \* vm.openUpvalues
  next,        \* upvalue->next
  location,    \* upvalue->location: a slot, or Self; Null: not allocated
  closed,      \* upvalue->closed
  making, ui,  \* the closure OP_CLOSURE fills, and its loop counter
  local, pre, cur,      \* argument and cursors of captureUpvalue
  last, after, result   \* argument of closeUpvalues, who called it, with what

closureVars == <<made, arity, count, upvalues, init>>
listVars == <<open, next, location, closed>>
loopVars == <<making, ui, local, pre, cur, last, after, result>>
vars == <<pc, stack, top, frames, frameCount, closureVars, listVars, loopVars>>

-----------------------------------------------------------------------------
(* Values and variables *)

Slots == 0..(StackMax - 1)
Indices == 0..(MaxUpvalues - 1)
Arities == 0..MaxArity

Class == <<"class", Null>>
Native == <<"native", Null>>
Instance == <<"instance", Null>>
Bound(c) == <<"bound", c>>
Closure(c) == <<"closure", c>>
Datum(d) == <<"data", d>>

\* What a popped slot holds: C leaves the old bits there, which nobody may read.
NoValue == <<"none", Null>>

Values ==
  {Class, Native, Instance} \cup {Datum(d) : d \in Data}
  \cup {Closure(c) : c \in ClosureIds} \cup {Bound(c) : c \in ClosureIds}

\* NULL, &upvalue->closed, the slots and the objects are different addresses; the
\* names the refinement mapping uses are none of them.
ASSUME AddressAssumption ==
  /\ Null \notin Slots /\ Self \notin Slots \cup {Null}
  /\ UpvalueIds \cap Slots = {} /\ "stack" \notin ClosureIds
  /\ Absent \notin Slots /\ Absent \notin UpvalueIds /\ Absent \notin Values

\* What bytecode can push: constants, globals, properties.
Known ==
  {Datum(d) : d \in Data}
  \cup {v \in {Class, Native} \cup {Closure(c) : c \in made} \cup {Bound(c) : c \in made} :
          v[1] \in Library}

\* The stack once the slots from n on have been popped.
Cut(st, n) == [s \in Slots |-> IF s < n THEN st[s] ELSE NoValue]

Frame == frames[frameCount]
Peek(d) == stack[top - 1 - d]

\* *upvalue->location.
Deref(u) == IF location[u] = Self THEN closed[u] ELSE stack[location[u]]

\* What reading through an upvalue gives.  In the REPL the location of a forgotten
\* one may be a popped slot, which holds any value that was ever there.
Read(u) ==
  IF Deref(u) # NoValue THEN {Deref(u)}
  ELSE {v \in Values : v[1] \in {"closure", "bound"} => v[2] \in made}

IsOpen(u) == location[u] \in Slots

\* The upvalues on the list vm.openUpvalues.
OpenList == {u \in UpvalueIds :
               \A S \in SUBSET UpvalueIds :
                 open \in S \cup {Null} /\ (\A x \in S : next[x] \in S \cup {Null}) => u \in S}

\* The compiler's contract for instructions that drop the slots from s on: they
\* hold no variable with an open upvalue and are not the frame's slot 0.  What
\* resetStack has forgotten does not hold anything back.
Droppable(s) ==
  /\ s > Frame.slots
  /\ \A u \in OpenList : location[u] < s

-----------------------------------------------------------------------------
\* Frames that are not in use; the C array keeps what was there, nothing reads it.
NoFrame == [closure |-> Null, slots |-> 0]

Init ==
  /\ pc = "idle"
  /\ stack = [s \in Slots |-> NoValue]
  /\ top = 0
  /\ frames = [i \in 1..FramesMax |-> NoFrame]
  /\ frameCount = 0
  /\ made = {}
  /\ arity = [c \in ClosureIds |-> 0]
  /\ count = [c \in ClosureIds |-> 0]
  /\ upvalues = [c \in ClosureIds |-> [i \in Indices |-> Null]]
  /\ init = Null
  /\ open = Null
  /\ next = [u \in UpvalueIds |-> Null]
  /\ location = [u \in UpvalueIds |-> Null]
  /\ closed = [u \in UpvalueIds |-> NoValue]
  /\ making = Null /\ ui = 0
  /\ local = 0 /\ pre = Null /\ cur = Null
  /\ last = 0 /\ after = "pop" /\ result = NoValue

-----------------------------------------------------------------------------
(* Calls, returns and errors *)

Finished == IF Repl THEN "idle" ELSE "done"

\* Mutated form: the stack is not emptied.
ResetStackKeepsTop ==
  /\ frameCount' = 0 /\ frames' = [i \in 1..FramesMax |-> NoFrame]
  /\ open' = Null
  /\ UNCHANGED top

\* Mutated form: the frames are left in place.
ResetStackKeepsFrames ==
  /\ top' = 0 /\ open' = Null
  /\ UNCHANGED <<frames, frameCount>>

\* resetStack: the open upvalues are forgotten, not closed.
ResetStack ==
  /\ top' = 0 /\ open' = Null
  /\ frameCount' = 0 /\ frames' = [i \in 1..FramesMax |-> NoFrame]

\* runtimeError, and run returns INTERPRET_RUNTIME_ERROR.
RuntimeError ==
  /\ ResetStack
  /\ pc' = Finished
  /\ UNCHANGED <<next, location, closed>>

\* Mutated form: the frame starts behind the callee.
EnterPastCallee(c, s) ==
  /\ frames' = [frames EXCEPT ![frameCount + 1] = [closure |-> c, slots |-> s + 1]]
  /\ frameCount' = frameCount + 1

Enter(c, s) ==
  /\ frames' = [frames EXCEPT ![frameCount + 1] = [closure |-> c, slots |-> s]]
  /\ frameCount' = frameCount + 1

\* call, slot s being that of the callee: the arguments reach up to the stack top.
Call(c, argCount, s) ==
  \/ /\ argCount # arity[c] \/ frameCount = FramesMax
     /\ RuntimeError
  \/ /\ argCount = arity[c] /\ frameCount < FramesMax
     /\ Enter(c, s)
     /\ top' = s + argCount + 1
     /\ UNCHANGED <<pc, listVars>>

\* callValue, slot s being that of the callee.
CallValue(v, argCount, s) ==
  \/ /\ v[1] = "closure"
     /\ Call(v[2], argCount, s)
     /\ stack' = [stack EXCEPT ![s] = v]
  \/ /\ v[1] = "bound"
     /\ Call(v[2], argCount, s)
     /\ stack' = [stack EXCEPT ![s] = Instance]
  \/ /\ v[1] = "class" /\ init # Null
     /\ Call(init, argCount, s)
     /\ stack' = [stack EXCEPT ![s] = Instance]
  \/ /\ v[1] = "class" /\ init = Null /\ argCount = 0
     /\ stack' = [stack EXCEPT ![s] = Instance]
     /\ UNCHANGED <<pc, top, frames, frameCount, listVars>>
  \/ \* the error is reported, the stack is reset, and true is returned
     /\ v[1] = "class" /\ init = Null /\ argCount > 0
     /\ stack' = [stack EXCEPT ![s] = Instance]
     /\ ResetStack
     /\ pc' = "wild"
     /\ UNCHANGED <<next, location, closed>>
  \/ /\ v[1] = "native"
     /\ \E d \in Data : stack' = [Cut(stack, s) EXCEPT ![s] = Datum(d)]
     /\ top' = s + 1
     /\ UNCHANGED <<pc, frames, frameCount, listVars>>
  \/ /\ v[1] \in {"data", "instance"}
     /\ RuntimeError
     /\ stack' = [stack EXCEPT ![s] = v]

\* OP_CALL.
OpCall(argCount) ==
  /\ pc = "run" /\ Droppable(top - argCount - 1)
  /\ CallValue(Peek(argCount), argCount, top - argCount - 1)
  /\ UNCHANGED <<closureVars, loopVars>>

\* OP_INVOKE of a field: its value replaces the receiver and is called.
InvokeField(argCount, v) ==
  /\ pc = "run" /\ Droppable(top - argCount - 1)
  /\ Peek(argCount) = Instance /\ v \in Known
  /\ CallValue(v, argCount, top - argCount - 1)
  /\ UNCHANGED <<closureVars, loopVars>>

\* OP_INVOKE of a method: the receiver stays.
InvokeMethod(argCount, c) ==
  /\ pc = "run" /\ Droppable(top - argCount - 1)
  /\ Peek(argCount) = Instance /\ c \in made
  /\ Call(c, argCount, top - argCount - 1)
  /\ UNCHANGED <<stack, closureVars, loopVars>>

\* OP_SUPER_INVOKE: the superclass is popped first, the receiver stays.
SuperInvoke(argCount, c) ==
  /\ pc = "run" /\ Droppable(top - argCount - 2)
  /\ Peek(0) = Class /\ Peek(argCount + 1) = Instance /\ c \in made
  /\ Call(c, argCount, top - argCount - 2)
  /\ stack' = Cut(stack, top - 1)
  /\ UNCHANGED <<closureVars, loopVars>>

\* An instruction that fails: a type error, an undefined variable or property.
Error ==
  /\ pc = "run"
  /\ RuntimeError
  /\ UNCHANGED <<stack, closureVars, loopVars>>

\* interpret: the script's closure, called with no arguments.
Interpret(c) ==
  /\ pc = "idle" /\ c \notin made /\ top < StackMax
  /\ made' = made \cup {c}
  /\ stack' = [stack EXCEPT ![top] = Closure(c)]
  /\ top' = top + 1
  /\ frames' = [frames EXCEPT ![frameCount + 1] = [closure |-> c, slots |-> top]]
  /\ frameCount' = frameCount + 1
  /\ pc' = "run"
  /\ UNCHANGED <<arity, count, upvalues, init, listVars, loopVars>>

-----------------------------------------------------------------------------
(* Instructions that move values *)

\* OP_CONSTANT, OP_GET_GLOBAL and all that push a value.
Push(v) ==
  /\ pc = "run" /\ v \in Known /\ top < StackMax
  /\ stack' = [stack EXCEPT ![top] = v]
  /\ top' = top + 1
  /\ UNCHANGED <<pc, frames, frameCount, closureVars, listVars, loopVars>>

\* OP_POP, OP_PRINT, and the pop of OP_DEFINE_GLOBAL.
Pop ==
  /\ pc = "run" /\ Droppable(top - 1)
  /\ stack' = Cut(stack, top - 1)
  /\ top' = top - 1
  /\ UNCHANGED <<pc, frames, frameCount, closureVars, listVars, loopVars>>

\* Operators, comparisons and accesses to properties: the n operands are popped
\* and the result is pushed.
Operate(n, v) ==
  /\ pc = "run" /\ Droppable(top - n) /\ v \in Known
  /\ stack' = [Cut(stack, top - n) EXCEPT ![top - n] = v]
  /\ top' = top - n + 1
  /\ UNCHANGED <<pc, frames, frameCount, closureVars, listVars, loopVars>>

\* OP_METHOD with the name init: the method stays in the class.
DefineInit ==
  /\ pc = "run" /\ Droppable(top - 1)
  /\ Peek(0)[1] = "closure" /\ "class" \in Library
  /\ init' = Peek(0)[2]
  /\ stack' = Cut(stack, top - 1)
  /\ top' = top - 1
  /\ UNCHANGED <<pc, frames, frameCount, made, arity, count, upvalues, listVars, loopVars>>

GetLocal(s) ==
  /\ pc = "run" /\ s >= Frame.slots /\ s < top /\ top < StackMax
  /\ stack' = [stack EXCEPT ![top] = stack[s]]
  /\ top' = top + 1
  /\ UNCHANGED <<pc, frames, frameCount, closureVars, listVars, loopVars>>

SetLocal(s) ==
  /\ pc = "run" /\ s >= Frame.slots /\ s < top
  /\ stack' = [stack EXCEPT ![s] = Peek(0)]
  /\ UNCHANGED <<pc, top, frames, frameCount, closureVars, listVars, loopVars>>

GetUpvalue(i) ==
  /\ pc = "run" /\ i < count[Frame.closure] /\ top < StackMax
  /\ \E v \in Read(upvalues[Frame.closure][i]) : stack' = [stack EXCEPT ![top] = v]
  /\ top' = top + 1
  /\ UNCHANGED <<pc, frames, frameCount, closureVars, listVars, loopVars>>

SetUpvalue(i) ==
  /\ pc = "run" /\ i < count[Frame.closure]
  /\ LET u == upvalues[Frame.closure][i] IN
       IF location[u] = Self
       THEN /\ closed' = [closed EXCEPT ![u] = Peek(0)]
            /\ UNCHANGED stack
       ELSE /\ stack' = [stack EXCEPT ![location[u]] = Peek(0)]
            /\ UNCHANGED closed
  /\ UNCHANGED <<pc, top, frames, frameCount, closureVars, open, next, location, loopVars>>

-----------------------------------------------------------------------------
(* OP_CLOSURE *)

\* newClosure: the closure is on the stack before its upvalues are filled.
ClosureBegin(c, n, a) ==
  /\ pc = "run" /\ c \notin made /\ top < StackMax
  /\ made' = made \cup {c}
  /\ count' = [count EXCEPT ![c] = n]
  /\ arity' = [arity EXCEPT ![c] = a]
  /\ stack' = [stack EXCEPT ![top] = Closure(c)]
  /\ top' = top + 1
  /\ making' = c /\ ui' = 0
  /\ pc' = "capture"
  /\ UNCHANGED <<frames, frameCount, upvalues, init, listVars, local, pre, cur, last, after, result>>

\* The upvalue is stored in the closure; the loop goes on.
Stored(u) ==
  /\ upvalues' = [upvalues EXCEPT ![making][ui] = u]
  /\ ui' = ui + 1
  /\ local' = 0 /\ pre' = Null /\ cur' = Null
  /\ pc' = "capture"

\* isLocal is 0: the enclosing function has it already.
CaptureOuter(i) ==
  /\ pc = "capture" /\ ui < count[making]
  /\ i < count[Frame.closure]
  /\ Stored(upvalues[Frame.closure][i])
  /\ UNCHANGED <<stack, top, frames, frameCount, made, arity, count, init, listVars,
                 making, last, after, result>>

\* isLocal is 1: captureUpvalue(frame->slots + index).  Slot 0 of the script has
\* no name.
CaptureLocal(s) ==
  /\ pc = "capture" /\ ui < count[making]
  /\ s >= Frame.slots /\ s < top /\ s > 0
  /\ local' = s /\ pre' = Null /\ cur' = open
  /\ pc' = "walk"
  /\ UNCHANGED <<stack, top, frames, frameCount, closureVars, listVars, making, ui, last, after, result>>

\* Mutated form: the walk stops at the first upvalue.
WalkOnNever == FALSE

\* The condition of the loop of captureUpvalue.
WalkOn == cur # Null /\ location[cur] > local

Walk ==
  /\ pc = "walk" /\ WalkOn
  /\ pre' = cur /\ cur' = next[cur]
  /\ UNCHANGED <<pc, stack, top, frames, frameCount, closureVars, listVars,
                 making, ui, local, last, after, result>>

\* Mutated form: a slot gets a new upvalue each time it is captured.
SameSlotNever == FALSE

SameSlot == cur # Null /\ location[cur] = local

WalkFound ==
  /\ pc = "walk" /\ ~WalkOn /\ SameSlot
  /\ Stored(cur)
  /\ UNCHANGED <<stack, top, frames, frameCount, made, arity, count, init, listVars,
                 making, last, after, result>>

\* newUpvalue, linked between the two cursors.
WalkNew(u) ==
  /\ pc = "walk" /\ ~WalkOn /\ ~SameSlot
  /\ location[u] = Null
  /\ location' = [location EXCEPT ![u] = local]
  /\ IF pre = Null
     THEN /\ open' = u
          /\ next' = [next EXCEPT ![u] = cur]
     ELSE /\ next' = [next EXCEPT ![u] = cur, ![pre] = u]
          /\ UNCHANGED open
  /\ Stored(u)
  /\ UNCHANGED <<stack, top, frames, frameCount, made, arity, count, init, closed,
                 making, last, after, result>>

ClosureEnd ==
  /\ pc = "capture" /\ ui = count[making]
  /\ making' = Null /\ ui' = 0
  /\ pc' = "run"
  /\ UNCHANGED <<stack, top, frames, frameCount, closureVars, listVars,
                 local, pre, cur, last, after, result>>

-----------------------------------------------------------------------------
(* OP_CLOSE_UPVALUE and OP_RETURN *)

CloseBegin ==
  /\ pc = "run" /\ top - 1 > Frame.slots
  /\ last' = top - 1 /\ after' = "pop"
  /\ pc' = "close"
  /\ UNCHANGED <<stack, top, frames, frameCount, closureVars, listVars,
                 making, ui, local, pre, cur, result>>

\* The script returns with nothing but its closure left on the stack.
Return ==
  /\ pc = "run" /\ Droppable(top - 1)
  /\ frameCount = 1 => top = 2
  /\ result' = Peek(0)
  /\ stack' = Cut(stack, top - 1) /\ top' = top - 1
  /\ last' = Frame.slots /\ after' = "return"
  /\ pc' = "close"
  /\ UNCHANGED <<frames, frameCount, closureVars, listVars, making, ui, local, pre, cur>>

\* Mutated form: the upvalue of the last slot itself stays open.
CloseOnAbove == open # Null /\ location[open] > last

\* The condition of the loop of closeUpvalues.
CloseOn == open # Null /\ location[open] >= last

CloseStep ==
  /\ pc = "close" /\ CloseOn
  /\ closed' = [closed EXCEPT ![open] = stack[location[open]]]
  /\ location' = [location EXCEPT ![open] = Self]
  /\ open' = next[open]
  /\ UNCHANGED <<pc, stack, top, frames, frameCount, closureVars, next, loopVars>>

\* closeUpvalues has returned; its caller's locals go with it.
Closed ==
  /\ last' = 0 /\ after' = "pop" /\ result' = NoValue
  /\ UNCHANGED <<making, ui, local, pre, cur>>

CloseEndPop ==
  /\ pc = "close" /\ ~CloseOn /\ after = "pop"
  /\ stack' = Cut(stack, top - 1) /\ top' = top - 1
  /\ pc' = "run"
  /\ Closed
  /\ UNCHANGED <<frames, frameCount, closureVars, listVars>>

ReturnEnd ==
  /\ pc = "close" /\ ~CloseOn /\ after = "return"
  /\ frameCount' = frameCount - 1
  /\ frames' = [frames EXCEPT ![frameCount] = NoFrame]
  /\ IF frameCount = 1
     THEN /\ stack' = Cut(stack, top - 1) /\ top' = top - 1
          /\ pc' = Finished
     ELSE /\ stack' = [Cut(stack, Frame.slots) EXCEPT ![Frame.slots] = result]
          /\ top' = Frame.slots + 1
          /\ pc' = "run"
  /\ Closed
  /\ UNCHANGED <<closureVars, listVars>>

-----------------------------------------------------------------------------
Next ==
  \/ \E c \in ClosureIds : Interpret(c)
  \/ \E v \in Values : Push(v) \/ Operate(1, v) \/ Operate(2, v)
  \/ \E a \in Arities : OpCall(a)
  \/ \E a \in Arities, v \in Values : InvokeField(a, v)
  \/ \E a \in Arities, c \in ClosureIds : InvokeMethod(a, c) \/ SuperInvoke(a, c)
  \/ \E s \in Slots : GetLocal(s) \/ SetLocal(s) \/ CaptureLocal(s)
  \/ \E i \in Indices : GetUpvalue(i) \/ SetUpvalue(i) \/ CaptureOuter(i)
  \/ \E c \in ClosureIds, n \in 0..MaxUpvalues, a \in Arities : ClosureBegin(c, n, a)
  \/ \E u \in UpvalueIds : WalkNew(u)
  \/ Error \/ Pop \/ DefineInit
  \/ Walk \/ WalkFound \/ ClosureEnd
  \/ CloseBegin \/ Return \/ CloseStep \/ CloseEndPop \/ ReturnEnd

Spec == Init /\ [][Next]_vars

-----------------------------------------------------------------------------
(* Properties *)

\* Type invariant; run has a frame exactly while it runs.
TypeOK ==
  /\ pc \in {"idle", "run", "capture", "walk", "close", "wild", "done"}
  /\ stack \in [Slots -> Values \cup {NoValue}] /\ top \in 0..StackMax
  /\ frames \in [1..FramesMax -> [closure : ClosureIds \cup {Null}, slots : Nat]]
  /\ frameCount \in 0..FramesMax
  /\ frameCount = 0 <=> pc \in {"idle", "wild", "done"}
  /\ made \subseteq ClosureIds /\ init \in made \cup {Null}
  /\ arity \in [ClosureIds -> Arities] /\ count \in [ClosureIds -> 0..MaxUpvalues]
  /\ upvalues \in [ClosureIds -> [Indices -> UpvalueIds \cup {Null}]]
  /\ open \in UpvalueIds \cup {Null} /\ next \in [UpvalueIds -> UpvalueIds \cup {Null}]
  /\ location \in [UpvalueIds -> Slots \cup {Null, Self}]
  /\ closed \in [UpvalueIds -> Values \cup {NoValue}]
  /\ making \in made \cup {Null} /\ ui \in 0..MaxUpvalues /\ local \in Nat
  /\ pre \in UpvalueIds \cup {Null} /\ cur \in UpvalueIds \cup {Null}
  /\ last \in Nat /\ after \in {"pop", "return"} /\ result \in Values \cup {NoValue}

\* The frames are nested, each starts at its callee, below the stack top, and no
\* frame runs a closure whose upvalues are not all filled in; without a frame
\* the stack is empty.
FramesNested ==
  /\ \A i \in 1..frameCount :
       /\ frames[i].slots < top
       /\ i > 1 => frames[i - 1].slots < frames[i].slots
       /\ frames[i].closure \in made \ {making}
       /\ \A j \in Indices : j < count[frames[i].closure] =>
            upvalues[frames[i].closure][j] # Null
  /\ frameCount = 0 => top = 0

\* Until the program has ended, the list holds every upvalue that points into
\* the stack, sorted by slot, one per slot, none above the stack top: the early
\* exits of captureUpvalue and closeUpvalues miss nothing.
OpenListExact ==
  pc \notin {"wild", "done"} =>
    /\ OpenList = {u \in UpvalueIds : IsOpen(u)}
    /\ \A u \in OpenList :
         /\ location[u] < top
         /\ next[u] # Null => location[next[u]] < location[u]

\* The names of variables: slots below the stack top (closeUpvalues empties the
\* slots from last on), and upvalues of closures.
Visible == IF pc = "close" THEN last ELSE top
Captures == ClosureIds \X Indices
Names == ({"stack"} \X Slots) \cup Captures

\* Where the variable of a name is kept: in a slot, or in a closed upvalue.
Place(n) ==
  IF n[1] = "stack"
  THEN IF n[2] < Visible THEN n[2] ELSE Absent
  ELSE LET u == upvalues[n[1]][n[2]] IN
         IF u = Null THEN Absent ELSE IF IsOpen(u) THEN location[u] ELSE u

ValueOf(n) ==
  LET p == Place(n) IN
    IF p = Absent THEN Absent ELSE IF p \in Slots THEN stack[p] ELSE closed[p]

\* The names of n's variable.
Group(n) ==
  LET p == Place(n) IN IF p = Absent THEN {} ELSE {m \in Names : Place(m) = p}

\* Closures implement shared variables: reads through any name agree, writes are
\* seen by exactly the closures that captured the variable, and a captured
\* variable survives the return of the function that declared it.
S == INSTANCE Sharing WITH
       top <- Visible,
       val <- [n \in Names |-> ValueOf(n)],
       group <- [n \in Names |-> Group(n)]
ImplementsSharing == S!Spec

\* captureUpvalue: "two ObjUpvalues cannot store the same Value".
OneUpvaluePerValue ==
  \A u, w \in UpvalueIds : IsOpen(u) /\ IsOpen(w) /\ location[u] = location[w] => u = w

\* After a call that failed, run returns; while it runs it has a frame.
RunHasFrame == pc # "wild"
=============================================================================
