# A verification project for the Lox implementations

The repository holds two implementations of the Lox language: `clox`, a
bytecode compiler and virtual machine in C (`src/clox`), and `jlox`, a
tree-walking interpreter in Java (`src/jlox`). This project models the parts of
them whose correctness depends on long sequences of operations: of clox the
hash table, the garbage collector, the values, the VM and its closures, the
places where it allocates, the scanner and the compiler; of jlox the resolver
with the interpreter and its environments. TLC checks the models on small
instances; for clox's table, collector, values, frames, closures and compiler and
for jlox's resolver and interpreter TLAPS proves theorems about every instance.

There are no threads and no messages in this code. What is hard about it is of
another kind: a collection can start inside every allocation, the table is
modified while it grows, three linked lists are edited in place, raw pointers
into the stack survive the frame they point into, and the REPL keeps a VM
alive after a runtime error has thrown half of its state away.

## Inventory

| component | state | operations | hard behaviour | what makes it correct |
|---|---|---|---|---|
| clox table (`table.c`) | count, capacity, entries with tombstones | set, get, delete, find string, remove white, add all, free | a collection inside the allocation of a growing table; tombstones; wrap-around; a loop that ends only at an empty entry | it is a dictionary; every probe ends |
| clox collector (`memory.c`) | object list, mark bits, gray stack, byte count, threshold | reallocate, mark, blacken, remove white strings, sweep, free all | starts in any allocation; cycles; weak intern table; list surgery | frees exactly what is unreachable; ends; bookkeeping is exact |
| clox objects (`object.c`) | the eight object types, the intern table | constructors, `copyString`, `takeString` | a temporary that is in no root when a collection starts | every temporary is rooted |
| clox VM (`vm.c`) | value stack, frames, globals, open upvalues | one per instruction, `interpret` | captured variables move from stack to heap; errors unwind everything; two call paths replace a stack slot | frames and stack agree; a variable is one variable under all its names |
| clox compiler (`compiler.c`) | chain of `Compiler`s with locals, upvalues and scope depth, parser tokens, panic mode | one per grammar rule, `resolveLocal`, `resolveUpvalue`, `patchJump`, `synchronize` | its compile-time stack must mirror the VM's; recovery after errors | the stack effect of code is what the locals array says; it ends |
| clox scanner (`scanner.c`) | start, current, line | `scanToken` | look-ahead at the end, keyword trie, lines inside strings and comments | longest token, exact lines, progress |
| clox chunks, values (`chunk.c`, `value.c`, `value.h`) | growable arrays, 64-bit words | write, add constant, type tests, equality | growth collects; types are bits of a NaN | a constant is rooted while the array grows; a word means one value |
| clox main (`main.c`) | none | `repl`, `runFile` | the REPL reuses the VM after errors | a new line starts from a clean VM |
| jlox resolver (`Resolver.java`) | stack of scopes, kind of function and class | declare, define, resolve | its scopes must mirror the interpreter's environments | depth found = environment that has the variable |
| jlox interpreter (`Interpreter.java`, `Environment.java`, `Lox*.java`) | chain of environments, globals, depths | visit methods, calls, returns by exception | environment restored on every exit | lexical scope |
| jlox scanner, parser, driver | tokens, position, error flags | one per grammar rule, `synchronize` | error recovery | progress, no lost statement |
| disassembler, AST classes, AST generator and printer | none | output | none | not modelled |

The compiler calls the scanner for every token and allocates objects while it
does; the VM runs what the compiler made; both allocate through `reallocate`,
which calls the collector, which looks at the compiler's and the VM's state and
edits the intern table and the object list. Every arrow of this kind is a
hazard of `PROJECT.json`.

## Modules

| module | models | state and actions |
|---|---|---|
| `Dict` | nothing of the code: what a table promises | a function from keys to values, and the answer of the last call |
| `Table` | `table.c` | `entries`, `count`, `capacity`; `SetBegin` decides on growth, `RehashBegin`/`RehashStep`/`RehashEnd` are `adjustCapacity` entry by entry, `Insert` is the end of `tableSet`; `Get`, `Delete`, `FindString`, `Free`; `RemoveWhiteBegin`/`Step`/`End` are `tableRemoveWhite`, which may also run between `SetBegin` and `RehashBegin`, where the code allocates |
| `Collector` | `memory.c`, allocation in `object.c`, growth in `table.c`, `chunk.c`, `value.c` | the heap as a graph, `vm.objects` with its next pointers, marks, gray objects, intern set; the blocks each object owns with the counts the code keeps of them, and `bytesAllocated`. `Store`, `Assign`, `Root`, `Drop`, `CloseUpvalue`, `ResetStack` are the program. Each call of `reallocate` is two actions with the collection between them: `AllocateLocal`/`LinkLocal` (the characters of a string, the upvalue array of a closure), `Allocate`/`Link` (`allocateObject`), `GrowTable`/`LinkTable`, `GrowCode`/`LinkCode`/`LinkLines`, `GrowConstants`/`LinkConstants`; `OutOfMemory` is its `exit`. `MarkRoots`, `Blacken`, `RemoveWhite`, `SweepKeep`, `SweepFree`, `SweepEnd` are the collection, `FreeChars` the end of `takeString`, `Intern` that of `allocateString`, `FreeVM` and `FreeObjects*` the end |
| `Sharing` | nothing of the code: what closures promise | each variable has a set of names and one value |
| `Closures` | `vm.c`: stack, frames, calls, upvalues | one action per group of instructions with the same effect on the stack; `Walk*` and `CloseStep` are the loops of `captureUpvalue` and `closeUpvalues`, node by node |
| `Allocation` | `object.c`, every instruction of `run`, `initVM`, `interpret`, the compiler's allocations, `addConstant`, `tableAddAll` | the heap with the contents of its objects, the stack, frames, globals, open upvalues, compilers, and the operation under way: `todo`, its steps up to and behind each call of `reallocate`, and `regs`, its C locals. `CollectGarbage` may come before any allocation; `Executing` is one action per group of instructions |
| `Values` | `value.h`, `valuesEqual` | no state: the NaN-boxed word and the tagged struct, and the theorems that they are the same |
| `Scanner` | `scanner.c` | source, start, current, line; one action, `ScanToken` |
| `Compiler` | `compiler.c` | the parser's tokens and flags, the chains of `Compiler`s and `ClassCompiler`s, and `todo`, the C call stack: the calls that are left to do. A parsing function is an action that replaces its entry by its calls (a function that looks at the next token twice is split there: `IfThen`, `IfElse`, `Else`); `Scan` chooses the next piece of the source |
| `Lexical` | `Resolver.java`, `Interpreter.java`, `Environment.java`, `LoxFunction.java`, `LoxClass.java`, `run` and `runPrompt` of `Lox.java` | `Resolve*` read a line statement by statement, keep the resolver's scopes and write the statement with its distances; the other actions execute it: environments, `calls`, the activations of `executeBlock`, and `throwing`, the exception on its way up. `Throw` and `Finally` are `Return` and `RuntimeError` and what catches them |
| `TableProofs`, `CollectorProofs`, `ClosuresProofs`, `LexicalProofs` | theorems about `Table`, `Collector`, `Closures` and `Lexical` | |
| `SharingProofs` | the theorem that `Closures` implements `Sharing` | |
| `CompilerContracts` | for each function of the compiler what holds when it is called and what it does, and that the calls it makes fulfil this | |
| `CompilerProofs` | theorems about `Compiler` from these contracts | |
| `MC...` | instances for TLC | |

Abstractions. The table's keys are names with a given hash, so that collisions
are chosen and not computed; comparing the characters of interned strings is
comparing keys. `Closures` has no bytecode: it takes any instruction at any time as
long as the compiler's contract (operator `Droppable`) permits it: a slot whose
upvalue is on the open list is dropped by `OP_CLOSE_UPVALUE` or `OP_RETURN` only,
and slot 0 of a frame is never popped. An upvalue that `resetStack` has forgotten
holds nothing back: its slot is dropped and used again, and reading through it
gives what the slot then holds, or, if it was popped, any value (`Read`).
Values are data, closures, bound methods, a
class, an instance, a native function. A source of the scanner is a string.

An object of `Collector` is the set of its pointers and up to four blocks: the
struct, and the array of characters, upvalues, entries or code, the lines and
the constants, as its type has them. `count` and `constants` are what the code
keeps (a length, an `upvalueCount`, a capacity); the ghost `size` is what
`malloc` knows of each block, which the program never reads; it changes when a
block is allocated, grown or freed. `freeObject` frees the blocks by `Number`
and `Element`, from type and counts, as the macros `FREE` and `FREE_APPLY` do,
so that a block can be freed with another size than it has; `BytesExact` is that
this never happens. `chunk->capacity` and `constants.capacity` are the new ones
while the allocation runs, a table's is still the old one, as in the code. The
program may grow any array it holds, whether or not it is full; the gray stack
is not counted, since `markObject` uses `realloc` itself.
An upvalue's `location` is in the stack or in the upvalue itself. Through an open
upvalue the program gets to the stack, which is a root. `ResetStack` empties
stack, frames and open list together, at any time: what a forgotten upvalue
still points to is a slot no root covers, and the model says nothing about
what is read there (`NoDangling` is about all other pointers). That is the defect
the run `repl` is about.

`Scanner` counts lines where the code does: `WithLine` in the newline case of
`skipWhitespace`, `InString` in the loop of `string`. `LinesExact` compares them with
the number of newlines in the source so far, so a newline that neither or both
of them see is found.

`Compiler` keeps of the code it emits what it does to the height of the VM's
stack: `Emit(n)` pushes `n` values, `land` sets the height to that of the jump
that is patched, `meet` requires the two paths that join to have the same
height and makes it `Clash` otherwise. Operators with the same rule are one
token (`<` stands for all comparisons, `*` for `/`). `env`, `captured` and
`access` are ghosts, what a reader of the source knows: which variable is in
which stack slot and in scope, which ones compiled functions capture, and what
the last access denotes and should denote. An upvalue carries one more ghost,
`slot`, the variable that is behind it when the closure is made: that of its
local, or that of the upvalue it is passed on from; `addUpvalue` compares index
and `isLocal` only, as the code does. Limits of 256 are constants. The
limit of constants per chunk and the 16-bit limit of jumps are left out.

`Allocation` composes what the other modules show: a collection is one step
that frees exactly what is unreachable (`Collector`), a table is a function
(`Table`), closing upvalues is one step (`Closures`). What is new in it is where
the program stands when the collection happens. A step says which C locals it
reads; a local is held as long as a later step reads it before one writes it
(`Used`). A text is a sequence of pieces, so that concatenation makes new texts
and texts that exist already. Scripts are given as the bytecode and constants
the compiler makes of the source in the comment above them, without repeated
constants; compiling goes through the constants in their order, nested
functions included. An address that was freed is used again at once. A script
that captures a variable and fails, and a class called with arguments it does
not take, are left to `Closures`, where they are the runs `repl` and
`class_args`.

`Lexical` keeps programs flat: a bracket is a statement, and its end knows where
it began. A statement has at most two names (`var a = b;`, `class a < b`,
`var a = b();`), a function at most one parameter, a class a method and an
initializer, and the condition of a loop is any value. The result of a call is
dropped or defines a variable. The ghost `bound` is what a reader of the
source knows: the environment in which each name means a variable here; it is
carried along with functions as their environment is, but made from the
declarations and not from distances. Of the same kind are the `scopes` each
statement keeps: those the resolver had open when it read the statement.
`classes` numbers the classes made. A
resolver error ends the line, as `hadError` does in `run`; that the resolver
looks for more errors first changes nothing.

## Runs

| run | bounds | shows |
|---|---|---|
| `table` | keys whose hashes collide, wrap around and separate when the table grows; smallest capacity 4 in place of 8; two growths | the table is a dictionary (`ImplementsDict`), its probes end, keys are findable, counts and load are exact, and a collection removes exactly the white keys |
| `collector_types` | 2 objects, 8 types, 6 kinds of roots, a collection at every allocation; strings of one character and closures of one upvalue; arrays begin with 2 elements; the sizes of types are 1 or 2 (`Entry`, `int`); at most 15 bytes | every type's fields and every root are traced (`NoDangling`); marks and intern table are right; `BytesExact`; `AllFreed`: freeVM leaves nothing but the array of `vm.globals`, which the code never frees |
| `collector_graphs` | 3 objects that point to each other freely, closures of two upvalues, threshold 4, at most 12 bytes | cycles, unlinking at every place of the list, exactness and termination of a collection |
| `closures` | 3 closures, 2 upvalues, 4 slots, 2 frames | the refinement `ImplementsSharing`; the open list is sorted and complete |
| `calls` | 3 closures (two scripts and a function), 1 upvalue, 3 slots, 2 frames, at most 1 argument, every kind of callee, of natives and bound methods one at a time and of methods only the initializer (the constraint `FewCallees`), in a REPL that goes on after errors | frames and stack agree after calls, errors and returns, also where a forgotten upvalue points into the stack |
| `scanner` | a set of short sources made of tokens, blanks, comments, strings over lines, and their unfinished forms | longest token, gaps, lines counted once each, keywords, progress |
| `compiler` | six kinds of sources: up to 7 pieces of blocks, variables and functions in each other; 5 with more locals, upvalues, arguments and parameters than the limits of 5, 2, 2; 4 of statements with jumps; 5 of classes; 5 of expression tokens; 4 arbitrary tokens, also unscannable ones. The first five end at their first error, the last goes on | `NamesResolve`: every access reaches the slot that holds the variable meant; `StackMatchesLocals`; `CapturedAreClosed`, the contract `Closures` assumes; `CompileEnds` |
| `allocation` | 8 scripts that between them execute every instruction and fail in three ways, compiled and run two after the other in one VM, in all 64 pairs; 4 frames; a collection or none at every allocation; 60 addresses, more than are ever in use | `HeldAreLive`: no pointer in a C local is freed under it, also in `OP_GET_SUPER`, `OP_INHERIT`, `addConstant` and `concatenate`; `StringsUnique`, on which comparing strings by address relies; `PrintsAsWritten`: the output does not depend on when collections happen; `NothingLeft`, on the error path for the stack and the compilers only: no script both captures and fails |
| `lexical` | 6 kinds of programs with two names, 5 to 14 statements, in two lines: nested scopes and functions, flow with returns and errors, shadowing, functions that outlive their scope, functions returned by calls, classes with initializers, `this` and `super`; 7 environments ever made, which ends recursion and loops | `AccessIsLexical`, `DepthsAgree`, `LinesStartGlobal` |
| `repl`, `class_args`, `scanner_names` | as `closures`, `calls`, `scanner` | the three disagreements below |

Why the bounds are enough. A probe sequence needs a key in its home entry, one
displaced past it, one wrapped around and a tombstone between them: the table
run has all of them, before and after a growth. Unlinking has three cases, the
head, the middle and the end of the list, and needs three objects; tracing
needs one edge of every kind, hence two objects with all types. A wrong size
shows with one block of each kind that is allocated, grown twice and freed; 15
bytes have room for a table that grows from 2 to 4 entries (12 bytes while both
arrays exist) beside an object, and for a function whose code, lines and
constants grow. A closure that
captures through another one needs three functions and the two frames that are
live when it happens; the list of open upvalues needs two entries to be out of
order. An upvalue that is passed on needs a function between the variable's
and the one that uses it, and shadowing on either level: 7 pieces give three
nested functions with a variable and a use. After an error the compiler's
output is dropped, so only termination and types are of interest then, and one
error needs few tokens to be reached from any parsing function. A string or
function can be lost at one allocation of one instruction, so one use of every
instruction with a collection before it is what `allocation` needs; a string
that is remade, an inherited method or an upvalue that is closed needs a second
script or call behind it. A wrong distance needs a scope between variable and
use that one of resolver and interpreter has and the other has not; those are
the block, the call, the parameter, `this` and `super`, and three of them inside
each other fit in 7 environments. What lies beyond these bounds is what the proofs are for.

Where the runs do not check deadlock the program really ends: a file's program
returns, the scanner is at its end, `compile` returns, the VM has been freed, the
bound on environments or lines of `lexical` is reached. `allocation` checks it:
no instruction of any script is without an action.

Fairness. `Collector` has weak fairness of the collector's own steps: it runs in
the caller's thread and nothing interrupts it. `Compiler` has weak fairness of
its next step for the same reason, and its source is finite. `Scanner` has weak fairness of
`ScanToken`: the compiler asks for tokens until the end of the source. No other
run has a liveness property.

## Disagreements between code and comments

* `repl`: `resetStack` (`vm.c:25`) forgets the open upvalues instead of closing
  them. After a runtime error in the REPL a closure held by a global still
  points into the stack, and a later line makes a second upvalue for the slot,
  which `vm.c:242` says cannot be.
* `class_args`: calling a class without `init` with arguments reports an error
  and returns `true` (`vm.c:157-161`), so `run` goes on at `vm.c:488` with
  `vm.frames[-1]`.
* `scanner_names`: two cases of `identifierType` fall through (`scanner.c:92`
  and `:107`): `ff` is scanned as `if` and `tar` as `var`.

Two more the models meet and no run is about. `visitClassStmt` of
`Resolver.java` calls `declare` twice (207, 208) where the second call should be
`define`: outside the global scope the second one finds the name declared and
reports it, so that jlox rejects every class in a block or function. `Lexical`
has it in `Rejects`. And in `synchronize` of `Parser.java` the `break` at 495
leaves the `switch`, not the loop, so that recovery goes on past `class`, `fun`
or `var` to the next semicolon.

## Proofs

`TableProofs` proves, for every finite set of keys with any hashes, every set of
values and every bound on the capacity, that the table's invariants hold and
that it implements `Dict`. The inductive invariant is
`TypeOK /\ Structure /\ Load /\ Rehash`. `Structure` says of each array that no
key occurs twice and that the entries between a key's home and its place are
all used: that, and not findability itself, is what inserting into a tombstone
and deleting preserve. `Load` counts the used entries, so that an empty one is
always left and probes end. `Rehash` relates the new array to the part of the
old one that has been copied; without it a half-copied table says nothing about
the finished one. The refinement follows from a lemma for each way the array
changes what keys it holds. `RemoveWhiteIsExact`, that a collection takes the
white keys out of the table and no others, is a property of steps: it follows
from an invariant on the part of the array the loop of `tableRemoveWhite` has
passed.

`CollectorProofs` proves, for every finite set of objects and any sizes of the C
types, that nothing reachable is freed, that a collection leaves exactly the
reachable objects, that marks, object list and intern table are exact, and that
`bytesAllocated` is the sum of the sizes of all blocks. There are two inductive
invariants. The first is about pointers: `IInv == PointerTypes /\ ListInv /\
HeapInv /\ MarkInv /\ SweepInv /\ StringInv`. `MarkInv` is the tricolour invariant: a marked object that is not
gray points to marked objects only, and marked objects are reachable.
`SweepInv` says what the two cursors of `sweep` have passed: everything kept is
unmarked again and still linked, everything freed was unreachable. `ListInv`
describes the linked list as the least set closed under `next`, which needs no
induction over sequences. An open upvalue's `location` adds nothing: it leads to
the stack, so a set that contains the roots is closed with it if it is closed
without it (`ClosedIsSealed`).

The second, `AInv`, is about the account and rests on the first. `SizeInv` says of
every block that its size is what `freeObject` would compute for it, or, for the
array the call in progress is about to grow, what its old capacity gives
(`Held`, `Growing`): between the assignment to `chunk->capacity` and the return of
`reallocate` the two differ, and a collection runs there. It cannot free that
object, since it is held by a root that does not change during the call
(`CallInv`), and this is why the size is right again when it is next
needed. `LocalInv` is about the array that has no owner yet. With them
`BytesExact` is inductive: `Memory` is the set of all allocated bytes, each step
changes one block of it (`OneBlock`), `freeObject` up to four (`FourBlocks`), and the
sum follows from the cardinality of disjoint sets. `FreedInv` adds for `AllFreed`
that behind `freeVM` no local array and no array of `vm.strings` is left.

`Values` proves that the NaN-boxed word and the tagged struct of `value.h` are two
representations of the same values: for each value exactly one type test holds
and its conversion gives back what was stored (`BoxingKeepsTypes`), and the two
`valuesEqual` agree (`BoxingKeepsEquality`). A word is the set of its bits, and
the argument is four lemmas on which bits of `QUAN`, the sign and the tags a
word of each type has. It rests on two facts about the machine, stated as the
sets `Pointers` and `Doubles`: addresses have 48 bits, and no computed double
has all bits of `QUAN`, the NaN of `0/0` included.

`ClosuresProofs` proves, for any numbers of closures, upvalues, slots, frames
and arguments, that frames are nested (`FramesNested`) and that
`vm.openUpvalues` is sorted, without duplicates, and holds exactly the upvalues
that point into the live stack (`OpenListExact`), also between the steps of the
loops that walk and edit it. The list is again the least set closed under
`next`. What makes the invariant inductive is that the order is stated twice,
for neighbours and as the head being the highest slot: inserting behind `pre`
needs the first, closing from the head needs the second. Besides, it says where
the loops stand: everything before the cursor of `captureUpvalue` is above the
slot looked for, so that an upvalue for it is found if there is one; everything
`closeUpvalues` has left is below what it has closed; and a closure that is
being made has its first `ui` upvalues and is not yet callable. `FramesNested`
and the types hold for the REPL too, with errors at any place, forgotten
upvalues that point into the stack, and pops, calls and returns at and below the
slots they point to. `OpenListExact` and `OneUpvaluePerValue`
have the hypothesis `~Repl`, a program run from a file: in the REPL
`resetStack` forgets open upvalues, and the run `repl` is the counterexample.

`SharingProofs` proves that `Closures` implements `Sharing` (with `~Repl` for the
same reason): assigning through any name of a captured variable, the stack slot
or an upvalue of some closure, changes what all its names read, and capturing,
returning and closing change nothing. The refinement maps a variable to the
place where it is, a live slot or an upvalue that has been closed. The step
that has to be argued is `CloseStep`: the upvalue points to itself from then
on, and as the list is exact there was no other one for that slot, so the
variable keeps all its names.

`LexicalProofs` proves, for any set of names, any number of lines, statements
and environments, that jlox finds variables where the source means them:
`AccessIsLexical`, `DepthsAgree` and `LinesStartGlobal`. The inductive invariant is
`Types /\ CodeInv /\ HeapInv /\ RunInv`.

* `CodeInv` is about the resolver: each statement's distances were counted in
  the scopes it keeps, those scopes follow from the scopes of the statement
  before it (`Static`) or, behind a bracket, from those of the statement that
  opened it, open brackets are nested (`Nested`) and all others are closed
  (`Closed`), and `this` and `super` are exactly in the scopes of the class
  around (`ClassAround`), which is why a method that is found by name along the
  superclasses may assume the scopes of its own class.
* `Match` relates the two halves: environment `e` matches scopes `S` if the path
  from `e` to the globals is as long as `S` and each name is, at its distance, in
  the environment `bound` says it is meant to be, and defined there.
* `HeapInv` says that every function and method anywhere in the heap matches the
  scopes of its declaration, also long after its block was left, because
  environments only ever grow (`Extends`).
* `RunInv` says that the current environment matches the statement to be
  executed next, that every activation in `calls` matches the statement it will go
  back to, and that the outermost one goes back to the globals. The
  variable that a call's result will define is the exception (`MatchBut`): the
  resolver knows it already and the interpreter does not.

In `LexicalProofs` three facts would be inductions, that `ancestor` arrives where the path says
(`AncestorIsPath`), what `findMethod` finds (`FindMethodIs`) and that `DepthsAgree`
counts the length of the path (`DepthIsLength`). They are proved by the least
counterexample: the library's theorem that the naturals are well founded takes
a set, not an operator.

`CompilerProofs` proves, for every source, of any length and with any errors in it,
and for any limits on locals, upvalues and arguments, that the compiler's
tables keep their types and are empty at the end (`TypeOK`); and, as long as no
error was reported, that the stack holds exactly the locals between two
declarations (`StackMatchesLocals`), that every name is resolved to the variable
meant (`NamesResolve`), and that no captured local is popped
(`CapturedAreClosed`, the contract that `Closures` assumes of the bytecode).

The difficulty is that the parser is recursive and its state is a stack of
calls, `todo`, of any depth: that the height is right behind an `if` inside a
`for` inside a method is no fact about any one entry of it. The proof gives
every function `f` of `compiler.c` a contract, in `CompilerContracts`: `Pre(f, s)`,
what holds when `f` is called in `s`, and `Rel(f, s, t)`, how the state `t` in which
it returns is related to `s`. An expression leaves one value more on the
stack and the locals as they were (`Expr`); a statement leaves the stack as it
was (`Stmt`); a declaration may add locals of the present depth and a value for
each (`Decl`); `endScope` takes away those of its scope (`Leaves`); a function
leaves the enclosing `Compiler`s as they were but for upvalues and marks. Behind
an error a contract says of the height, of the names and of the variables in
scope nothing more, but still that tables are within their limits and every
`Compiler` and class that was begun is ended.

* `Safe(todo, s)`: from `s`, however each call in `todo` does what its contract
  allows, every call is made with its `Pre`, and at the end no `Compiler` and no
  class is left. It is the invariant's main part.
* `Fulfils(calls, s, f, s0)`: putting `calls` in the place of `f` keeps `todo` safe. For
  each alternative of each parsing function `CompilerContracts` proves this of the
  calls it makes, from the contracts of the callees alone. No induction over the
  depth of the parse is needed: each action replaces one entry.
* `Good(s)`: what is true of every state between two actions. Each `Compiler` is
  well-formed; and the variables in scope, as the reader of the source counts
  them in `env`, are exactly the locals in scope of all `Compiler`s, in the same
  order (`EnvOK`). From the order it follows that the last local of a name that
  `resolveLocal` finds, in the innermost function that has one, is the one meant.
* `UpvaluesOK`: behind each upvalue is a captured local of an enclosing function,
  and an upvalue that is passed on has the same slot as the one it comes from.
  This is what makes the way back of `resolveUpvalue` arrive at the variable where
  the way out found it, and why reusing an upvalue with the same index is right.
* `CapturesOK`: what compiled functions have captured is in use, and marked.

The inductive invariant is `IInv == TablesOK /\ CallsOK /\ UpvaluesOK /\
CapturesOK /\ NamesResolve`, where `CallsOK` is `Good(Now) /\ Safe(todo, Now)`.
`CompilerProofs` has one lemma per action. The parsing functions that change
nothing but `todo` (`Grammar`) follow from `CompilerContracts`; for the others
the lemma shows that the step satisfies its own contract. `CompilerAssumption`
says that there is room for a local beside slot 0 (the limit is 256), that an
identifier is none of the other tokens the parser tells it apart from and not
empty, and that the pieces of a source are not empty, which the scanner grants.

Assumptions are those of the modules: `CollectorAssumption` (finitely many
addresses, every C type has a size above zero, arrays start with at least one
element), the table's on
hashes and capacities, `ClosuresAssumption` and `AddressAssumption` of `Closures`
(limits are natural numbers, there is at least one frame; addresses of
different things are different), `CompilerAssumption`, `LexicalAssumption` (no variable is called
`this` or `super`, which the scanner reads as keywords; `none` stands for a
missing name). TLC evaluates them in every run. `Values` has none.

Only model-checked: `CapacityIsPowerOfTwo` (the provers know no
exponentiation); everything about `Scanner` and `Allocation`; and
all liveness (`CollectionEnds`, `ScanEnds`, `CompileEnds`), which the prover cannot
do. What recursive definitions compute is out of its reach too: the scans for
the end of a token in `Scanner`. Of `Allocation`
one would have to prove for every script what it does for the eight
that are given; its scripts are data, and the theorem would be about the
compiler that makes them.

## Plan

1. Done: `Table`, `Collector`, `Closures`, `Values`, `Compiler` and `Lexical` with
   their proofs; `Scanner`; `Allocation`, which composes collector, tables,
   closures and the compiler's allocations.
2. Proofs: of `Allocation`, `StringsUnique` and `HeldAreLive` of the constructors.
3. jlox: fields of instances and the parser's recovery.

## Not modelled

Arithmetic on doubles, printing and parsing of numbers, the FNV hash (any hash
is allowed), reading of files and exit codes, the disassembler, and the
generated AST classes: they have no state whose order of changes could be
wrong. Of clox's compiler the bytes and line numbers of the code it emits. Of
jlox the scanner and the parser, fields of instances, what an initializer
returns when it is called as a method, and the evaluation of operators. `STACK_MAX` is not checked by the code; the models are
cut there and say nothing about what happens beyond.
