----------------------------- MODULE Allocation -----------------------------
(***************************************************************************)
(* The clox VM between two allocations: initVM, compile and every          *)
(* instruction of run, split at each call of reallocate, where a garbage   *)
(* collection may free what no root leads to.                              *)
(*                                                                         *)
(* An operation that allocates is a list of steps, todo, over its C locals,*)
(* regs.  A step names the locals it uses, so that the pointers the rest   *)
(* of the operation still relies on are known: Held.  A collection is one  *)
(* step that frees exactly what is unreachable, as module Collector shows  *)
(* it to do; tables are functions, as module Table shows them to be.       *)
(***************************************************************************)
EXTENDS Integers, SequencesExt

CONSTANTS
  MaxObjects,   \* addresses of objects are 1..MaxObjects
  FramesMax,    \* FRAMES_MAX
  Functions,    \* the functions of the source by key: name, arity, constants
                \* (texts and functions), upvalues and code
  Scripts,      \* the functions that are scripts of the REPL, with what each prints
  MaxLines      \* how many scripts the REPL reads

ASSUME AllocationAssumption ==
  /\ MaxObjects \in Nat /\ FramesMax \in Nat \ {0} /\ MaxLines \in Nat
  /\ DOMAIN Scripts \subseteq DOMAIN Functions

VARIABLES
  program, lines,       \* the scripts read by the REPL, those not interpreted yet
  heap,                 \* objects by address
  strings,              \* vm.strings, the interned strings
  stack, frames, open,  \* vm.stack, vm.frames, the upvalues on vm.openUpvalues
  globals, initString,  \* vm.globals, vm.initString
  compilers,            \* the functions being compiled, the innermost last
  todo, regs,           \* the rest of the operation, its C locals
  output                \* what has been printed

machine == <<stack, frames, open>>
roots == <<globals, initString, compilers>>
vars == <<program, lines, heap, strings, machine, roots, todo, regs, output>>

-----------------------------------------------------------------------------
(* Values and objects.  Addresses are positive, other values are not.      *)

Nil == 0
True == -1
False == -2
Number(n) == -100 - n             \* for small n
IsNumber(v) == v <= -10
IsObj(v) == v > 0
Bool(b) == IF b THEN True ELSE False

IsA(v, type) == IsObj(v) /\ heap[v].type = type
IsFalsey(v) == v \in {Nil, False}

Empty == <<>>                     \* a table without entries
Put(table, k, v) == (k :> v) @@ table

\* What printFunction, printObject and printValue show, as a text.
ShownFunction(f) ==
  IF heap[f].name = Nil THEN <<"script">> ELSE <<"fn">> \o heap[heap[f].name].text

ShownObject(o) ==
  CASE heap[o].type = "string"   -> heap[o].text
    [] heap[o].type = "closure"  -> ShownFunction(heap[o].function)
    [] heap[o].type = "bound"    -> ShownFunction(heap[heap[o].method].function)
    [] heap[o].type = "class"    -> heap[heap[o].name].text
    [] heap[o].type = "instance" -> heap[heap[heap[o].klass].name].text \o <<"instance">>
    [] heap[o].type = "native"   -> <<"native fn">>

Shown(v) ==
  CASE v = Nil     -> <<"nil">>
    [] v = True    -> <<"true">>
    [] v = False   -> <<"false">>
    [] IsNumber(v) -> <<"number">>
    [] IsObj(v)    -> ShownObject(v)

\* blackenObject: what an object points to.
References(o) ==
  CASE o.type = "bound"    -> {o.receiver, o.method}
    [] o.type = "instance" -> {o.klass} \cup DOMAIN o.table \cup {o.table[k] : k \in DOMAIN o.table}
    [] o.type = "class"    -> {o.name} \cup DOMAIN o.table \cup {o.table[k] : k \in DOMAIN o.table}
    [] o.type = "closure"  -> {o.function} \cup {o.upvalues[i] : i \in DOMAIN o.upvalues}
    [] o.type = "function" -> {o.name} \cup {o.constants[i] : i \in DOMAIN o.constants}
    [] o.type = "upvalue"  -> {o.closed}
    [] OTHER               -> {}

\* markRoots.
Roots ==
  {stack[i] : i \in DOMAIN stack} \cup {frames[i].closure : i \in DOMAIN frames} \cup open
  \cup DOMAIN globals \cup {globals[k] : k \in DOMAIN globals}
  \cup {compilers[i] : i \in DOMAIN compilers} \cup {initString}

Reachable ==
  LET Traced[S \in SUBSET DOMAIN heap] ==
        LET more == UNION {References(heap[o]) : o \in S} \cap DOMAIN heap
        IN IF more \subseteq S THEN S ELSE Traced[S \cup more]
  IN Traced[Roots \cap DOMAIN heap]

-----------------------------------------------------------------------------
(* Steps *)

Regs == {"string", "name", "value", "object", "klass", "receiver", "method",
         "function", "closure", "upvalue", "a", "b"}
Blank == [r \in Regs |-> Nil]

\* A step that writes the local to (or none) and reads the locals in use.
Step(do, to, use, x) == [do |-> do, to |-> to, use |-> use, x |-> x]

Doing(do) == todo # <<>> /\ Head(todo).do = do
X == Head(todo).x

\* The current step is replaced by steps; the locals end with the operation.
Become(steps, locals) ==
  LET rest == steps \o Tail(todo) IN
    /\ todo' = rest
    /\ regs' = IF rest = <<>> THEN Blank ELSE locals

Grow == Step("grow", "", {}, "")     \* reallocate, for an array
New(to, type, use, x) == [Step("new", to, use, x) EXCEPT !.x = <<type, x>>]
Push(r) == Step("push", "", {r}, "")
Pop == Step("pop", "", {}, "")
CopyString(text) == Step("copyString", "string", {}, text)
TableSet == Step("tableSet", "", {"object", "name", "value"}, "")

\* The locals that are read before they are written again.
Used ==
  {r \in Regs : \E i \in 1..Len(todo) :
     r \in todo[i].use /\ \A j \in 1..(i - 1) : todo[j].to # r}
Held == {regs[r] : r \in Used}

Init ==
  /\ program \in [1..MaxLines -> DOMAIN Scripts] /\ lines = program
  /\ heap = Empty /\ strings = {}
  /\ stack = <<>> /\ frames = <<>> /\ open = {}
  /\ globals = Empty /\ initString = Nil /\ compilers = <<>>
  /\ todo = <<CopyString(<<"init">>), Step("initString", "", {"string"}, ""),
              CopyString(<<"clock">>), Push("string"), New("object", "native", {}, ""),
              Push("object"), Grow, Step("defineNative", "", {}, ""), Pop, Pop>>
  /\ regs = Blank
  /\ output = <<>>

-----------------------------------------------------------------------------
(* Allocation *)

\* reallocate may collect before it allocates.
CollectGarbage ==
  /\ Doing("grow") \/ Doing("new")
  /\ heap' = [o \in Reachable |-> heap[o]]
  /\ strings' = strings \cap Reachable
  /\ UNCHANGED <<program, lines, machine, roots, todo, regs, output>>

GrowArray ==
  /\ Doing("grow")
  /\ Become(<<>>, regs)
  /\ UNCHANGED <<program, lines, heap, strings, machine, roots, output>>

\* The constructors: what a new object holds.
Made(type, x) ==
  CASE type = "string"   -> [type |-> type, text |-> x]
    [] type = "function" -> [type |-> type, key |-> x, name |-> Nil, constants |-> <<>>]
    [] type = "closure"  -> [type |-> type, function |-> regs["function"],
                             upvalues |-> [i \in DOMAIN Functions[heap[regs["function"]].key].upvalues
                                             |-> Nil]]
    [] type = "upvalue"  -> [type |-> type, slot |-> x, closed |-> Nil]
    [] type = "class"    -> [type |-> type, name |-> regs["name"], table |-> Empty]
    [] type = "instance" -> [type |-> type, klass |-> regs["klass"], table |-> Empty]
    [] type = "bound"    -> [type |-> type, receiver |-> regs["receiver"],
                             method |-> regs["method"]]
    [] type = "native"   -> [type |-> type]

\* allocateObject; the address is the lowest free one, the choice being malloc's.
AllocateObject ==
  /\ Doing("new")
  /\ LET free == (1..MaxObjects) \ DOMAIN heap
         o == CHOOSE x \in free : \A y \in free : x <= y
     IN /\ free # {}
        /\ heap' = Put(heap, o, Made(X[1], X[2]))
        /\ Become(<<>>, [regs EXCEPT ![Head(todo).to] = o])
  /\ UNCHANGED <<program, lines, strings, machine, roots, output>>

\* allocateString keeps the new string on the stack while the table may grow.
AllocateString(text) ==
  <<New("string", "string", {}, text), Push("string"), Grow,
    Step("intern", "", {"string"}, ""), Pop>>

\* Mutated form: the string is not looked for.
FoundNever(text) == {}

\* tableFindString.
Found(text) == {s \in strings : heap[s].text = text}

\* copyString, and takeString behind the allocation of the characters.
DoCopyString ==
  /\ Doing("copyString") \/ Doing("takeString")
  /\ LET copy == Doing("copyString")
         text == IF copy THEN X ELSE heap[regs["a"]].text \o heap[regs["b"]].text
     IN IF Found(text) # {}
        THEN Become(<<>>, [regs EXCEPT !["string"] = CHOOSE s \in Found(text) : TRUE])
        ELSE Become((IF copy THEN <<Grow>> ELSE <<>>) \o AllocateString(text), regs)
  /\ UNCHANGED <<program, lines, heap, strings, machine, roots, output>>

Intern ==
  /\ Doing("intern")
  /\ strings' = strings \cup {regs["string"]}
  /\ Become(<<>>, regs)
  /\ UNCHANGED <<program, lines, heap, machine, roots, output>>

-----------------------------------------------------------------------------
(* Steps that only store *)

DoPush ==
  /\ Doing("push")
  /\ \E r \in Head(todo).use : stack' = Append(stack, regs[r])
  /\ Become(<<>>, regs)
  /\ UNCHANGED <<program, lines, heap, strings, frames, open, roots, output>>

DoPop ==
  /\ Doing("pop")
  /\ stack' = Front(stack)
  /\ Become(<<>>, regs)
  /\ UNCHANGED <<program, lines, heap, strings, frames, open, roots, output>>

\* Mutated form: an entry that is there is kept.
DoTableSetKeeps ==
  /\ Doing("tableSet")
  /\ heap' = [heap EXCEPT ![regs["object"]].table = @ @@ (regs["name"] :> regs["value"])]
  /\ Become(<<>>, regs)
  /\ UNCHANGED <<program, lines, strings, machine, roots, output>>

\* tableSet on the fields of an instance or the methods of a class.
DoTableSet ==
  /\ Doing("tableSet")
  /\ heap' = [heap EXCEPT ![regs["object"]].table = Put(@, regs["name"], regs["value"])]
  /\ Become(<<>>, regs)
  /\ UNCHANGED <<program, lines, strings, machine, roots, output>>

SetInitString ==
  /\ Doing("initString")
  /\ initString' = regs["string"]
  /\ Become(<<>>, regs)
  /\ UNCHANGED <<program, lines, heap, strings, machine, globals, compilers, output>>

\* defineNative: the name and the function are the only values on the stack.
DefineNative ==
  /\ Doing("defineNative")
  /\ globals' = Put(globals, stack[1], stack[2])
  /\ Become(<<>>, regs)
  /\ UNCHANGED <<program, lines, heap, strings, machine, initString, compilers, output>>

-----------------------------------------------------------------------------
(* The compiler's allocations.  A function of the source is compiled by    *)
(* initCompiler, one makeConstant per constant, and endCompiler; writing   *)
(* bytes may grow the chunk.                                               *)

Compile(key) == Step("compile", "function", {}, key)

\* Mutated form: the value is not pushed while the array may grow.
AddConstantUnpushed(r) == <<Grow, Step("writeConstant", "", {r}, "")>>

\* addConstant and the writeValueArray in it.
AddConstant(r) == <<Push(r), Grow, Step("writeConstant", "", {r}, ""), Pop>>

\* makeConstant of a number, of a name or string, of a function.
MakeConstant(c) ==
  CASE c.kind = "number"   -> <<Step("literal", "value", {}, c.x)>> \o AddConstant("value")
    [] c.kind = "text"     -> <<CopyString(c.x)>> \o AddConstant("string")
    [] c.kind = "function" -> <<Compile(c.x)>> \o AddConstant("function")

\* initCompiler (a script has no name), the body, endCompiler.
DoCompile ==
  /\ Doing("compile")
  /\ LET f == Functions[X]
         name == IF f.name = <<>> THEN <<>>
                 ELSE <<CopyString(f.name), Step("setName", "", {"string"}, "")>>
         body == FlattenSeq([i \in DOMAIN f.constants |-> MakeConstant(f.constants[i])])
     IN Become(<<New("function", "function", {}, X), Step("initCompiler", "", {"function"}, "")>>
                 \o name \o body \o <<Grow, Step("endCompiler", "function", {}, "")>>, regs)
  /\ UNCHANGED <<program, lines, heap, strings, machine, roots, output>>

InitCompiler ==
  /\ Doing("initCompiler")
  /\ compilers' = Append(compilers, regs["function"])
  /\ Become(<<>>, regs)
  /\ UNCHANGED <<program, lines, heap, strings, machine, globals, initString, output>>

SetName ==
  /\ Doing("setName")
  /\ heap' = [heap EXCEPT ![Last(compilers)].name = regs["string"]]
  /\ Become(<<>>, regs)
  /\ UNCHANGED <<program, lines, strings, machine, roots, output>>

Literal ==
  /\ Doing("literal")
  /\ Become(<<>>, [regs EXCEPT !["value"] = Number(X)])
  /\ UNCHANGED <<program, lines, heap, strings, machine, roots, output>>

WriteConstant ==
  /\ Doing("writeConstant")
  /\ \E r \in Head(todo).use :
       heap' = [heap EXCEPT ![Last(compilers)].constants = Append(@, regs[r])]
  /\ Become(<<>>, regs)
  /\ UNCHANGED <<program, lines, strings, machine, roots, output>>

EndCompiler ==
  /\ Doing("endCompiler")
  /\ compilers' = Front(compilers)
  /\ Become(<<>>, [regs EXCEPT !["function"] = Last(compilers)])
  /\ UNCHANGED <<program, lines, heap, strings, machine, globals, initString, output>>

-----------------------------------------------------------------------------
(* Interpreting a script *)

Begin(steps, locals) ==
  /\ todo' = steps
  /\ regs' = IF steps = <<>> THEN Blank ELSE locals

Idle == todo = <<>> /\ frames = <<>>

\* interpret, for the next script.  newClosure allocates no array for no upvalues.
Interpret ==
  /\ Idle /\ lines # <<>>
  /\ lines' = Tail(lines)
  /\ Begin(<<Compile(Head(lines)), Push("function"), New("closure", "closure", {"function"}, ""),
             Pop, Push("closure"), Step("call", "", {"closure"}, "")>>, Blank)
  /\ UNCHANGED <<program, heap, strings, machine, roots, output>>

CallScript ==
  /\ Doing("call")
  /\ frames' = <<[closure |-> regs["closure"], slots |-> Len(stack), ip |-> 1]>>
  /\ Become(<<>>, regs)
  /\ UNCHANGED <<program, lines, heap, strings, stack, open, roots, output>>

Finished == Idle /\ lines = <<>> /\ UNCHANGED vars

Frame == Last(frames)
Function(closure) == heap[heap[closure].function]
Source(closure) == Functions[Function(closure).key]
Instruction == Source(Frame.closure).code[Frame.ip]
Constant == Function(Frame.closure).constants[Instruction[2]]   \* READ_CONSTANT
Running == todo = <<>> /\ frames # <<>>
Op(o) == Running /\ Instruction[1] = o

Moved(n) == [frames EXCEPT ![Len(frames)].ip = @ + n]
Peek(distance) == stack[Len(stack) - distance]
Drop(n) == SubSeq(stack, 1, Len(stack) - n)
Local(i) == Frame.slots + i

\* *upvalue->location
Location(u) == IF heap[u].slot > 0 THEN stack[heap[u].slot] ELSE heap[u].closed

\* An instruction that only changes the stack.
Leaves(s) ==
  /\ stack' = s /\ frames' = Moved(1)
  /\ UNCHANGED <<program, lines, heap, strings, open, roots, todo, regs, output>>

\* An instruction that goes on in steps with the stack s.
Continues(s, steps, locals) ==
  /\ stack' = s /\ frames' = Moved(1)
  /\ Begin(steps, locals)
  /\ UNCHANGED <<program, lines, heap, strings, open, roots, output>>

-----------------------------------------------------------------------------
(* Instructions on values *)

Load ==
  \/ Op("OP_CONSTANT") /\ Leaves(Append(stack, Constant))
  \/ Op("OP_NIL") /\ Leaves(Append(stack, Nil))
  \/ Op("OP_TRUE") /\ Leaves(Append(stack, True))
  \/ Op("OP_FALSE") /\ Leaves(Append(stack, False))
  \/ Op("OP_GET_LOCAL") /\ Leaves(Append(stack, stack[Local(Instruction[2])]))
  \/ Op("OP_GET_UPVALUE")
     /\ Leaves(Append(stack, Location(heap[Frame.closure].upvalues[Instruction[2]])))
  \/ Op("OP_GET_GLOBAL") /\ Constant \in DOMAIN globals
     /\ Leaves(Append(stack, globals[Constant]))

Assign ==
  \/ Op("OP_POP") /\ Leaves(Drop(1))
  \/ Op("OP_SET_LOCAL") /\ Leaves([stack EXCEPT ![Local(Instruction[2])] = Peek(0)])

SetUpvalue ==
  /\ Op("OP_SET_UPVALUE")
  /\ LET u == heap[Frame.closure].upvalues[Instruction[2]]
         slot == heap[u].slot
     IN IF slot > 0
        THEN stack' = [stack EXCEPT ![slot] = Peek(0)] /\ UNCHANGED heap
        ELSE heap' = [heap EXCEPT ![u].closed = Peek(0)] /\ UNCHANGED stack
  /\ frames' = Moved(1)
  /\ UNCHANGED <<program, lines, strings, open, roots, todo, regs, output>>

\* valuesEqual: strings are equal when they are the same object.
ValuesEqual(a, b) == a = b

Numeric == {"OP_GREATER", "OP_LESS", "OP_ADD", "OP_SUBTRACT", "OP_MULTIPLY", "OP_DIVIDE"}

Calculated(o, v, w) ==
  LET a == Number(v)     \* Number is its own inverse
      b == Number(w)
  IN CASE o = "OP_GREATER"  -> Bool(a > b)
       [] o = "OP_LESS"     -> Bool(a < b)
       [] o = "OP_ADD"      -> Number(a + b)
       [] o = "OP_SUBTRACT" -> Number(a - b)
       [] o = "OP_MULTIPLY" -> Number(a * b)
       [] o = "OP_DIVIDE"   -> Number(a \div b)

Calculate ==
  \/ Op("OP_EQUAL") /\ Leaves(Append(Drop(2), Bool(ValuesEqual(Peek(1), Peek(0)))))
  \/ Op("OP_NOT") /\ Leaves(Append(Drop(1), Bool(IsFalsey(Peek(0)))))
  \/ Op("OP_NEGATE") /\ IsNumber(Peek(0)) /\ Leaves(Append(Drop(1), Number(-Number(Peek(0)))))
  \/ /\ Running /\ Instruction[1] \in Numeric /\ IsNumber(Peek(0)) /\ IsNumber(Peek(1))
     /\ Leaves(Append(Drop(2), Calculated(Instruction[1], Peek(1), Peek(0))))

\* concatenate, with its operands left on the stack while it allocates.
Concatenate ==
  /\ Op("OP_ADD") /\ IsA(Peek(0), "string") /\ IsA(Peek(1), "string")
  /\ Continues(stack, <<Grow, Step("takeString", "string", {"a", "b"}, ""), Pop, Pop, Push("string")>>,
               [Blank EXCEPT !["a"] = Peek(1), !["b"] = Peek(0)])

Jump ==
  /\ \/ Op("OP_JUMP") /\ frames' = Moved(1 + Instruction[2])
     \/ Op("OP_LOOP") /\ frames' = Moved(1 - Instruction[2])
     \/ Op("OP_JUMP_IF_FALSE") /\ frames' = Moved(1 + IF IsFalsey(Peek(0)) THEN Instruction[2] ELSE 0)
  /\ UNCHANGED <<program, lines, heap, strings, stack, open, roots, todo, regs, output>>

PrintTop ==
  /\ Op("OP_PRINT")
  /\ output' = Append(output, Shown(Peek(0)))
  /\ stack' = Drop(1) /\ frames' = Moved(1)
  /\ UNCHANGED <<program, lines, heap, strings, open, roots, todo, regs>>

\* tableSet on vm.globals with the value still on the stack.
SetsGlobal(x) == <<Grow, Step("setGlobal", "", {"name", "value"}, x)>>

WriteGlobal ==
  LET locals == [Blank EXCEPT !["name"] = Constant, !["value"] = Peek(0)] IN
  \/ Op("OP_DEFINE_GLOBAL") /\ Continues(stack, Append(SetsGlobal("define"), Pop), locals)
  \/ Op("OP_SET_GLOBAL") /\ Continues(stack, SetsGlobal("assign"), locals)

Unassignable == X = "assign" /\ regs["name"] \notin DOMAIN globals

SetGlobal ==
  /\ Doing("setGlobal") /\ ~Unassignable
  /\ globals' = Put(globals, regs["name"], regs["value"])
  /\ Become(<<>>, regs)
  /\ UNCHANGED <<program, lines, heap, strings, machine, initString, compilers, output>>

-----------------------------------------------------------------------------
(* Closures and upvalues *)

\* OP_CLOSURE: the array of upvalues, the closure, then one capture per upvalue.
MakeClosure ==
  /\ Op("OP_CLOSURE")
  /\ LET n == Len(Functions[heap[Constant].key].upvalues) IN
       Continues(stack,
         (IF n = 0 THEN <<>> ELSE <<Grow>>)
           \o <<New("closure", "closure", {"function"}, ""), Push("closure")>>
           \o [i \in 1..n |-> Step("capture", "", {"closure"}, i)],
         [Blank EXCEPT !["function"] = Constant])

OpenAt(slot) == {u \in open : heap[u].slot = slot}

\* captureUpvalue, or the upvalue of the enclosing closure.
Capture ==
  /\ Doing("capture")
  /\ LET wanted == Source(regs["closure"]).upvalues[X]
         slot == Local(wanted.index)
         store == Step("storeUpvalue", "", {"closure", "upvalue"}, X)
     IN IF ~wanted.isLocal
        THEN Become(<<store>>, [regs EXCEPT !["upvalue"] = heap[Frame.closure].upvalues[wanted.index]])
        ELSE IF OpenAt(slot) # {}
        THEN Become(<<store>>, [regs EXCEPT !["upvalue"] = CHOOSE u \in OpenAt(slot) : TRUE])
        ELSE Become(<<New("upvalue", "upvalue", {}, slot), store>>, regs)
  /\ UNCHANGED <<program, lines, heap, strings, machine, roots, output>>

StoreUpvalue ==
  /\ Doing("storeUpvalue")
  /\ heap' = [heap EXCEPT ![regs["closure"]].upvalues[X] = regs["upvalue"]]
  /\ open' = IF heap[regs["upvalue"]].slot > 0 THEN open \cup {regs["upvalue"]} ELSE open
  /\ Become(<<>>, regs)
  /\ UNCHANGED <<program, lines, strings, stack, frames, roots, output>>

\* closeUpvalues(last)
CloseUpvalues(last) ==
  LET closing == {u \in open : heap[u].slot >= last} IN
    /\ heap' = [o \in DOMAIN heap |->
                  IF o \in closing THEN [heap[o] EXCEPT !.closed = Location(o), !.slot = 0]
                  ELSE heap[o]]
    /\ open' = open \ closing

CloseUpvalue ==
  /\ Op("OP_CLOSE_UPVALUE")
  /\ CloseUpvalues(Len(stack))
  /\ stack' = Drop(1) /\ frames' = Moved(1)
  /\ UNCHANGED <<program, lines, strings, roots, todo, regs, output>>

\* Mutated form: the script's closure is left on the stack.
ReturnLeaves ==
  /\ Op("OP_RETURN")
  /\ CloseUpvalues(Frame.slots)
  /\ frames' = Front(frames)
  /\ stack' = IF Len(frames) = 1 THEN Drop(1)
              ELSE Append(SubSeq(stack, 1, Frame.slots - 1), Peek(0))
  /\ UNCHANGED <<program, lines, strings, roots, todo, regs, output>>

\* OP_RETURN; the last frame leaves the stack without the script.
Return ==
  /\ Op("OP_RETURN")
  /\ CloseUpvalues(Frame.slots)
  /\ frames' = Front(frames)
  /\ stack' = IF Len(frames) = 1 THEN Drop(2)
              ELSE Append(SubSeq(stack, 1, Frame.slots - 1), Peek(0))
  /\ UNCHANGED <<program, lines, strings, roots, todo, regs, output>>

-----------------------------------------------------------------------------
(* Calls.  A callee is called with n arguments on the stack s, whose value *)
(* under the arguments is the callee or the receiver.                      *)

Uncallable(closure, n) == n # Source(closure).arity \/ Len(frames) = FramesMax

\* call, entered with slot 0 holding v.
Enter(closure, n, s, v, caller) ==
  /\ ~Uncallable(closure, n)
  /\ stack' = [s EXCEPT ![Len(s) - n] = v]
  /\ frames' = Append(caller, [closure |-> closure, slots |-> Len(s) - n, ip |-> 1])

EntersFrom(closure, n, s, v) ==
  /\ Enter(closure, n, s, v, Moved(1))
  /\ UNCHANGED <<program, lines, heap, strings, open, roots, todo, regs, output>>

\* callValue.  clock takes its arguments off the stack and returns a number.
CallValue(callee, n, s) ==
  \/ IsA(callee, "closure") /\ EntersFrom(callee, n, s, callee)
  \/ IsA(callee, "bound") /\ EntersFrom(heap[callee].method, n, s, heap[callee].receiver)
  \/ IsA(callee, "native") /\ Leaves(Append(SubSeq(s, 1, Len(s) - n - 1), Number(0)))
  \/ /\ IsA(callee, "class")
     /\ Continues([s EXCEPT ![Len(s) - n] = callee],
          <<New("object", "instance", {"klass"}, ""), Step("construct", "", {"object", "klass"}, n)>>,
          [Blank EXCEPT !["klass"] = callee])

Uncalled(callee, n) ==
  \/ ~\E t \in {"closure", "bound", "native", "class"} : IsA(callee, t)
  \/ IsA(callee, "closure") /\ Uncallable(callee, n)
  \/ IsA(callee, "bound") /\ Uncallable(heap[callee].method, n)

Has(o, name) == name \in DOMAIN heap[o].table
Method(klass, name) == heap[klass].table[name]
Field(o, name) == heap[o].table[name]

\* After newInstance: the instance takes the class's place, init is called.
\* Arguments without an init are an error after which run goes on without a
\* frame (module Closures, run class_args); here the script ends.
Initializes == Has(regs["klass"], initString)

Construct ==
  /\ Doing("construct")
  /\ IF Initializes
     THEN Enter(Method(regs["klass"], initString), X, stack, regs["object"], frames)
     ELSE X = 0 /\ stack' = [stack EXCEPT ![Len(stack)] = regs["object"]] /\ UNCHANGED frames
  /\ Become(<<>>, regs)
  /\ UNCHANGED <<program, lines, heap, strings, open, roots, output>>

Receiver == Peek(Instruction[3])

Call ==
  \/ Op("OP_CALL") /\ CallValue(Peek(Instruction[2]), Instruction[2], stack)
  \/ /\ Op("OP_INVOKE") /\ IsA(Receiver, "instance")
     /\ IF Has(Receiver, Constant)
        THEN CallValue(Field(Receiver, Constant), Instruction[3], stack)
        ELSE /\ Has(heap[Receiver].klass, Constant)
             /\ EntersFrom(Method(heap[Receiver].klass, Constant), Instruction[3], stack, Receiver)
  \/ /\ Op("OP_SUPER_INVOKE") /\ Has(Peek(0), Constant)
     /\ EntersFrom(Method(Peek(0), Constant), Instruction[3], Drop(1), Peek(Instruction[3] + 1))

-----------------------------------------------------------------------------
(* Classes and properties *)

\* bindMethod, with the receiver on top of the stack s.
BindMethod(klass, name, s) ==
  /\ Has(klass, name)
  /\ Continues(s, <<New("object", "bound", {"receiver", "method"}, ""), Pop, Push("object")>>,
               [Blank EXCEPT !["receiver"] = Last(s), !["method"] = Method(klass, name)])

GetProperty ==
  /\ Op("OP_GET_PROPERTY") /\ IsA(Peek(0), "instance")
  /\ IF Has(Peek(0), Constant) THEN Leaves(Append(Drop(1), Field(Peek(0), Constant)))
     ELSE BindMethod(heap[Peek(0)].klass, Constant, stack)

\* OP_GET_SUPER pops the superclass before it allocates.
GetSuper ==
  /\ Op("OP_GET_SUPER")
  /\ BindMethod(Peek(0), Constant, Drop(1))

SetProperty ==
  /\ Op("OP_SET_PROPERTY") /\ IsA(Peek(1), "instance")
  /\ Continues(stack, <<Grow, TableSet, Pop, Pop, Push("value")>>,
       [Blank EXCEPT !["object"] = Peek(1), !["name"] = Constant, !["value"] = Peek(0)])

MakeClass ==
  /\ Op("OP_CLASS")
  /\ Continues(stack, <<New("object", "class", {"name"}, ""), Push("object")>>,
       [Blank EXCEPT !["name"] = Constant])

DefineMethod ==
  /\ Op("OP_METHOD")
  /\ Continues(stack, <<Grow, TableSet, Pop>>,
       [Blank EXCEPT !["object"] = Peek(1), !["name"] = Constant, !["value"] = Peek(0)])

\* tableAddAll, in the order of the entries, which the keys' hashes decide.
AddAll(keys) == Step("addAll", "", {"klass", "object"}, keys)

Inherit ==
  /\ Op("OP_INHERIT") /\ IsA(Peek(1), "class")
  /\ Continues(stack, <<AddAll(DOMAIN heap[Peek(1)].table), Pop>>,
       [Blank EXCEPT !["klass"] = Peek(1), !["object"] = Peek(0)])

TableAddAll ==
  /\ Doing("addAll")
  /\ \/ X = {} /\ Become(<<>>, regs)
     \/ \E k \in X :
          Become(<<Grow, TableSet, AddAll(X \ {k})>>,
                 [regs EXCEPT !["name"] = k, !["value"] = Method(regs["klass"], k)])
  /\ UNCHANGED <<program, lines, heap, strings, machine, roots, output>>

-----------------------------------------------------------------------------
(* Errors *)

\* The conditions of the calls of runtimeError.
Fails ==
  \/ Op("OP_GET_GLOBAL") /\ Constant \notin DOMAIN globals
  \/ Op("OP_NEGATE") /\ ~IsNumber(Peek(0))
  \/ /\ Running /\ Instruction[1] \in Numeric /\ ~(IsNumber(Peek(0)) /\ IsNumber(Peek(1)))
     /\ ~(Op("OP_ADD") /\ IsA(Peek(0), "string") /\ IsA(Peek(1), "string"))
  \/ Op("OP_CALL") /\ Uncalled(Peek(Instruction[2]), Instruction[2])
  \/ /\ Op("OP_INVOKE")
     /\ \/ ~IsA(Receiver, "instance")
        \/ /\ Has(Receiver, Constant)
           /\ Uncalled(Field(Receiver, Constant), Instruction[3])
        \/ /\ ~Has(Receiver, Constant)
           /\ \/ ~Has(heap[Receiver].klass, Constant)
              \/ Uncallable(Method(heap[Receiver].klass, Constant), Instruction[3])
  \/ /\ Op("OP_SUPER_INVOKE")
     /\ ~Has(Peek(0), Constant) \/ Uncallable(Method(Peek(0), Constant), Instruction[3])
  \/ /\ Op("OP_GET_PROPERTY")
     /\ \/ ~IsA(Peek(0), "instance")
        \/ ~Has(Peek(0), Constant) /\ ~Has(heap[Peek(0)].klass, Constant)
  \/ Op("OP_GET_SUPER") /\ ~Has(Peek(0), Constant)
  \/ Op("OP_SET_PROPERTY") /\ ~IsA(Peek(1), "instance")
  \/ Op("OP_INHERIT") /\ ~IsA(Peek(1), "class")
  \/ Doing("setGlobal") /\ Unassignable
  \/ /\ Doing("construct")
     /\ IF Initializes THEN Uncallable(Method(regs["klass"], initString), X) ELSE X # 0

\* runtimeError and the resetStack in it.
RuntimeError ==
  /\ Fails
  /\ stack' = <<>> /\ frames' = <<>> /\ open' = {}
  /\ Begin(<<>>, Blank)
  /\ output' = Append(output, <<"error">>)
  /\ UNCHANGED <<program, lines, heap, strings, roots>>

-----------------------------------------------------------------------------

Allocating == CollectGarbage \/ GrowArray \/ AllocateObject
Storing == \/ DoCopyString \/ Intern \/ DoPush \/ DoPop \/ DoTableSet \/ SetInitString
           \/ DefineNative \/ SetGlobal \/ TableAddAll \/ Capture \/ StoreUpvalue \/ Construct
Compiling == \/ Interpret \/ DoCompile \/ InitCompiler \/ SetName \/ Literal \/ WriteConstant
             \/ EndCompiler \/ CallScript
Executing == \/ Load \/ Assign \/ SetUpvalue \/ Calculate \/ Concatenate \/ Jump \/ PrintTop
             \/ WriteGlobal \/ MakeClosure \/ CloseUpvalue \/ Return \/ Call \/ GetProperty
             \/ GetSuper \/ SetProperty \/ MakeClass \/ DefineMethod \/ Inherit \/ RuntimeError

Next == Allocating \/ Storing \/ Compiling \/ Executing \/ Finished

Spec == Init /\ [][Next]_vars

-----------------------------------------------------------------------------
(* Properties *)

\* No collection, wherever it starts, frees an object that a C local of the
\* operation under way still refers to: every constructor, addConstant,
\* concatenate, bindMethod, tableAddAll, ... has rooted what it goes on with.
HeldAreLive == \A v \in Held : IsObj(v) => v \in DOMAIN heap

\* Two strings never have the same characters, which valuesEqual and the
\* tables rely on when they compare addresses: not even when a string was
\* collected and made again, or is being made while the other is garbage.
StringsUnique ==
  \A s, t \in DOMAIN heap :
    (IsA(s, "string") /\ IsA(t, "string") /\ heap[s].text = heap[t].text) => s = t

\* A program prints what its source says, whenever collections happen: the
\* methods are those of the nearest class, a bound method keeps its receiver,
\* super is the class it was when the subclass was made, a runtime error ends
\* its own script only.
PrintsAsWritten ==
  LET prints == FlattenSeq([i \in DOMAIN program |-> Scripts[program[i]]]) IN
    IF Idle /\ lines = <<>> THEN output = prints ELSE IsPrefix(output, prints)

\* Between scripts nothing is left on the stack, and no upvalue is open, no
\* compiler active: a script leaves to the next one of a REPL only globals.  The
\* upvalues are those that OP_RETURN and OP_CLOSE_UPVALUE closed: a script that
\* captures a variable and then fails is not among the scripts.
NothingLeft ==
  (Idle /\ initString # Nil) => (stack = <<>> /\ open = {} /\ compilers = <<>>)
=============================================================================
