------------------------------ MODULE Compiler ------------------------------
(***************************************************************************)
(* The one-pass compiler of clox (compiler.c): a recursive-descent and     *)
(* Pratt parser that resolves variables and emits code while it reads.     *)
(*                                                                         *)
(* The C call stack is todo, the work that is left: a parsing function is  *)
(* an action that replaces its own entry by the calls it makes.  The       *)
(* source is any sequence of pieces, chosen as the scanner is asked for    *)
(* tokens.  Of the code only its effect on the height of the VM's stack is *)
(* kept, jumps included; with it and with env, the scopes as a reader of   *)
(* the source sees them, the compiler's own tables can be compared.        *)
(***************************************************************************)
EXTENDS Integers, Sequences

CONSTANTS
  Sources,      \* kinds of sources, by name: the pieces a source is made of, how
                \* many it has at most, and whether it ends with its first error
  Names,        \* the identifiers
  MaxLocals,    \* UINT8_COUNT: locals of a function, slot 0 included
  MaxUpvalues,  \* UINT8_COUNT: upvalues of a function
  MaxArgs       \* 255: arguments and parameters

\* The name of slot 0 where it is not this.
NoName == ""

ASSUME CompilerAssumption ==
  /\ MaxLocals \in Nat \ {0, 1} /\ MaxUpvalues \in Nat \ {0} /\ MaxArgs \in Nat
  /\ Names \subseteq STRING /\ "init" \in Names
  /\ Names \cap {NoName, "this", "super", "(", "-", "!", "1", "nil"} = {}
  /\ \A k \in DOMAIN Sources :
       /\ Sources[k].alphabet \subseteq Seq(STRING) \ {<<>>}
       /\ Sources[k].pieces \in Nat /\ Sources[k].strict \in BOOLEAN

VARIABLES
  source, left, ahead,   \* the source's kind, pieces and tokens not read yet
  current, previous, hadError, panicMode,   \* parser
  todo,                  \* the calls that are left to do, the next one first
  compilers,             \* the chain of Compilers, the innermost last
  classes,               \* the chain of ClassCompilers: hasSuperclass
  env,                   \* ghost: the variables in scope and their stack slots
  captured,              \* ghost: the variables that compiled functions capture
  access                 \* ghost: what the last access denotes and should denote

input  == <<source, left, ahead>>
parser == <<current, previous, hadError, panicMode>>
ghosts == <<env, captured, access>>
vars == <<input, parser, todo, compilers, classes, ghosts>>

-----------------------------------------------------------------------------
(* Tokens and the work to do *)

Literals == {"1", "nil"}
Starters == {"class", "fun", "var", "for", "if", "while", "print", "return"}

\* TOKEN_IDENTIFIER is "id", the other types are named by their text.
Is(token, t) == IF t = "id" THEN token \in Names ELSE token = t

Doing(f) == todo # <<>> /\ Head(todo)[1] = f
Arg == Head(todo)[2]
Arg2 == Head(todo)[3]
Become(calls) == todo' = calls \o Tail(todo)
When(b, calls) == IF b THEN calls ELSE <<>>

Call(f) == <<f>>
Advance == <<"advance">>
Consume(t) == <<"consume", t>>
Error == <<"error">>
Emit(n) == <<"emit", n>>              \* an instruction that pushes n values
ParsePrecedence(p) == <<"parsePrecedence", p>>
NamedVariable(name, canAssign) == <<"namedVariable", name, canAssign>>

\* The precedences, PREC_NONE to PREC_PRIMARY.
None == 0
Assignment == 1
OrPrec == 2
AndPrec == 3
Unary == 8

Precedence(token) ==
  CASE token \in {"(", "."} -> 9
    [] token = "*"          -> 7
    [] token \in {"-", "+"} -> 6
    [] token = "<"          -> 5
    [] token = "=="         -> 4
    [] token = "and"        -> AndPrec
    [] token = "or"         -> OrPrec
    [] OTHER                -> None

Binaries == {"*", "-", "+", "<", "=="}
Expression == ParsePrecedence(Assignment)

-----------------------------------------------------------------------------
(* The compiler's tables *)

Level == Len(compilers)
Current == compilers[Level]
Largest(S) == CHOOSE x \in S : \A y \in S : y <= x

\* A new Compiler.  Slot 0 is the callee or the receiver; height is a ghost, the
\* number of stack slots the frame has in use.
NewCompiler(type) ==
  [type |-> type, depth |-> 0, arity |-> 0, upvalues |-> <<>>,
   locals |-> <<[name |-> IF type = "function" THEN NoName ELSE "this",
                 depth |-> 0, isCaptured |-> FALSE]>>,
   height |-> 1]

Init ==
  /\ source \in DOMAIN Sources /\ left = Sources[source].pieces /\ ahead = <<>>
  /\ current = "none" /\ previous = "none"
  /\ hadError = FALSE /\ panicMode = FALSE
  /\ todo = <<Advance, Call("program")>>
  /\ compilers = <<NewCompiler("script")>>
  /\ classes = <<>>
  /\ env = <<>> /\ captured = {}
  /\ access = [got |-> <<>>, want |-> <<>>]

\* Mutated form: the outermost variable of the name.
ResolveLocalFirst(locals, name) ==
  LET S == {i \in 1..Len(locals) : locals[i].name = name}
  IN IF S = {} THEN -1 ELSE (CHOOSE x \in S : \A y \in S : x <= y) - 1

\* resolveLocal: the innermost local of the name, or -1.
ResolveLocal(locals, name) ==
  LET S == {i \in 1..Len(locals) : locals[i].name = name}
  IN IF S = {} THEN -1 ELSE Largest(S) - 1

\* addUpvalue: the same variable is captured once.
AddUpvalue(upvalues, u) ==
  LET Same == {i \in 1..Len(upvalues) :
                 upvalues[i].index = u.index /\ upvalues[i].isLocal = u.isLocal}
  IN IF Same # {} THEN [upvalues |-> upvalues, arg |-> Largest(Same) - 1, full |-> FALSE]
     ELSE IF Len(upvalues) = MaxUpvalues
     THEN [upvalues |-> upvalues, arg |-> 0, full |-> TRUE]
     ELSE [upvalues |-> Append(upvalues, u), arg |-> Len(upvalues), full |-> FALSE]

\* The compilers that have a local of the name.
Owners(name) == {k \in 1..Level : ResolveLocal(compilers[k].locals, name) # -1}

\* Mutated form: the local is not marked.
CapturedNot(comps, k, i) == comps

Captured(comps, k, i) == [comps EXCEPT ![k].locals[i + 1].isCaptured = TRUE]

\* The stack slot behind an upvalue of function m when its closure is made: a
\* slot of the enclosing function, or what is behind one of its upvalues.  It is
\* kept with the upvalue, as a ghost.
SlotOf(m, index, isLocal) ==
  IF isLocal THEN <<m - 1, index>> ELSE compilers[m - 1].upvalues[index + 1].slot

\* What a reader of the source takes the name for.
Global == <<0, 0>>
Meant(name) ==
  LET S == {i \in 1..Len(env) : env[i].name = name}
  IN IF S = {} THEN Global ELSE env[Largest(S)].slot

-----------------------------------------------------------------------------
(* Tokens *)

\* errorAt: only the first error before the next synchronize is reported.
ReportError ==
  /\ Doing("error")
  /\ hadError' = TRUE /\ panicMode' = TRUE
  /\ Become(<<>>)
  /\ UNCHANGED <<input, current, previous, compilers, classes, ghosts>>

\* advance, up to its loop.
AdvanceBegin ==
  /\ Doing("advance")
  /\ previous' = current
  /\ Become(<<Call("scan")>>)
  /\ UNCHANGED <<input, current, hadError, panicMode, compilers, classes, ghosts>>

\* scanToken; an error token is reported and skipped.
Scanned(token) ==
  IF token = "error"
  THEN /\ hadError' = TRUE /\ panicMode' = TRUE
       /\ UNCHANGED <<current, todo>>
  ELSE /\ current' = token
       /\ Become(<<>>)
       /\ UNCHANGED <<hadError, panicMode>>

Scan ==
  /\ Doing("scan")
  /\ \/ /\ ahead # <<>>
        /\ Scanned(Head(ahead)) /\ ahead' = Tail(ahead) /\ UNCHANGED left
     \/ /\ ahead = <<>> /\ left > 0 /\ ~(Sources[source].strict /\ hadError)
        /\ \E piece \in Sources[source].alphabet :
             Scanned(Head(piece)) /\ ahead' = Tail(piece) /\ left' = left - 1
     \/ /\ ahead = <<>>
        /\ current' = "EOF" /\ Become(<<>>)
        /\ left' = 0 /\ UNCHANGED <<ahead, hadError, panicMode>>
  /\ UNCHANGED <<source, previous, compilers, classes, ghosts>>

-----------------------------------------------------------------------------
(* Parsing functions that only call others.  A jump is represented by the   *)
(* height H it is made at: "land" is patchJump behind an unconditional      *)
(* jump, "meet" is patchJump or emitLoop where two paths come together.     *)

H == Current.height

\* Functions without a choice of their own, as the calls they make.
ExpressionStatement == <<Expression, Consume(";"), Emit(-1)>>
PrintStatement == <<Advance, Expression, Consume(";"), Emit(-1)>>
Grouping == <<Expression, Consume(")")>>
DoUnary == <<ParsePrecedence(Unary), Emit(0)>>
Binary(op) == <<ParsePrecedence(Precedence(op) + 1), Emit(-1)>>
And == <<Emit(-1), ParsePrecedence(AndPrec), <<"meet", H>>>>
Or == <<<<"land", H>>, Emit(-1), ParsePrecedence(OrPrec), <<"meet", H>>>>

DoConsume ==
  /\ Doing("consume")
  /\ Become(IF Is(current, Arg) THEN <<Advance>> ELSE <<Error>>)

\* compile: declarations up to the end, which is matched.
Program ==
  /\ Doing("program")
  /\ Become(IF current = "EOF" THEN <<Advance, Call("endCompile")>>
            ELSE <<Call("declaration"), Call("program")>>)

Declaration ==
  /\ Doing("declaration")
  /\ Become(CASE current = "var"   -> <<Advance, Call("varDeclaration"), Call("recover")>>
              [] current = "fun"   -> <<Advance, Call("funDeclaration"), Call("recover")>>
              [] current = "class" -> <<Advance, Call("classDeclaration"), Call("recover")>>
              [] OTHER             -> <<Call("statement"), Call("recover")>>)

VarDeclaration ==
  /\ Doing("varDeclaration")
  /\ Become(<<Consume("id"), Call("declareVariable"), Call("initializer"), Consume(";"),
              Call("defineVariable")>>)

Initializer ==
  /\ Doing("initializer")
  /\ Become(IF current = "=" THEN <<Advance, Expression>> ELSE <<Emit(1)>>)

FunDeclaration ==
  /\ Doing("funDeclaration")
  /\ Become(<<Consume("id"), Call("declareVariable"), Call("markInitialized"),
              <<"function", "function">>, Call("defineFunction")>>)

Statement ==
  /\ Doing("statement")
  /\ Become(CASE current = "print"  -> PrintStatement
              [] current = "{"      -> <<Advance, Call("beginScope"), Call("block"),
                                         <<"endScope", Len(env)>>>>
              [] current = "if"     -> <<Advance, Consume("("), Expression, Consume(")"),
                                         Call("ifThen")>>
              [] current = "while"  -> <<Advance, Consume("("), Expression, Consume(")"),
                                         <<"whileBody", H>>>>
              [] current = "for"    -> <<Advance, Call("beginScope"), Consume("("),
                                         Call("forInitializer"), Call("forCondition"),
                                         <<"endScope", Len(env)>>>>
              [] current = "return" -> <<Advance, Call("returnStatement")>>
              [] OTHER              -> ExpressionStatement)

Block ==
  /\ Doing("block")
  /\ Become(IF current \in {"}", "EOF"} THEN <<Consume("}")>>
            ELSE <<Call("declaration"), Call("block")>>)

\* Mutated form: the condition is not popped on the else path.
IfElseUnpopped ==
  /\ Doing("ifElse")
  /\ Become(<<<<"land", Arg>>, Call("else"), <<"meet", H>>>>)

\* ifStatement behind its condition, then behind its first branch.
IfThen ==
  /\ Doing("ifThen")
  /\ Become(<<Emit(-1), Call("statement"), <<"ifElse", H>>>>)

IfElse ==
  /\ Doing("ifElse")
  /\ Become(<<<<"land", Arg>>, Emit(-1), Call("else"), <<"meet", H>>>>)

Else ==
  /\ Doing("else")
  /\ Become(When(current = "else", <<Advance, Call("statement")>>))

\* whileStatement behind its condition.
WhileBody ==
  /\ Doing("whileBody")
  /\ Become(<<Emit(-1), Call("statement"), <<"meet", Arg>>, <<"land", H>>, Emit(-1)>>)

\* forStatement, clause by clause.
ForInitializer ==
  /\ Doing("forInitializer")
  /\ Become(CASE current = ";"   -> <<Advance>>
              [] current = "var" -> <<Advance, Call("varDeclaration")>>
              [] OTHER           -> ExpressionStatement)

ForCondition ==
  /\ Doing("forCondition")
  /\ Become(IF current = ";" THEN <<Advance, <<"forIncrement", H, <<>>>>>>
            ELSE <<Expression, Consume(";"), <<"forExit", H>>>>)

ForExit ==
  /\ Doing("forExit")
  /\ Become(<<Emit(-1), <<"forIncrement", Arg, <<<<"land", H>>, Emit(-1)>>>>>>)

ForIncrement ==
  /\ Doing("forIncrement")
  /\ Become((IF current = ")"
             THEN <<Advance, Call("statement"), <<"meet", Arg>>>>
             ELSE <<Expression, Emit(-1), Consume(")"), <<"meet", Arg>>, <<"land", H>>,
                    Call("statement"), <<"meet", H>>>>)
            \o Arg2)

ReturnStatement ==
  /\ Doing("returnStatement")
  /\ Become(When(Current.type = "script", <<Error>>)
            \o (IF current = ";" THEN <<Advance>>
                ELSE When(Current.type = "initializer", <<Error>>)
                     \o <<Expression, Consume(";"), Emit(-1)>>))

\* parsePrecedence: a prefix expression, then infix operators as long as they
\* bind tightly enough.
DoParsePrecedence ==
  /\ Doing("parsePrecedence")
  /\ Become(<<Advance, <<"prefix", Arg>>>>)

Prefix ==
  /\ Doing("prefix")
  /\ LET canAssign == Arg <= Assignment
         Then(calls) == calls \o <<<<"infix", Arg>>>>
     IN Become(CASE previous = "("          -> Then(Grouping)
                 [] previous \in {"-", "!"} -> Then(DoUnary)
                 [] previous \in Literals   -> Then(<<Emit(1)>>)
                 [] previous \in Names      -> Then(<<NamedVariable(previous, canAssign)>>)
                 [] previous = "this"       -> Then(<<Call("this")>>)
                 [] previous = "super"      -> Then(<<Call("super")>>)
                 [] OTHER                   -> <<Error>>)

Infix ==
  /\ Doing("infix")
  /\ LET canAssign == Arg <= Assignment
         Rest(calls) == <<Advance>> \o calls \o <<<<"infix", Arg>>>>
     IN Become(
          IF Arg <= Precedence(current)
          THEN CASE current \in Binaries -> Rest(Binary(current))
                 [] current = "("   -> Rest(<<<<"argumentList", 0, "call">>>>)
                 [] current = "."   -> Rest(<<Consume("id"), <<"dot", canAssign>>>>)
                 [] current = "and" -> Rest(And)
                 [] current = "or"  -> Rest(Or)
          ELSE When(canAssign /\ current = "=", <<Advance, Error>>))

\* dot, behind the property's name.
Dot ==
  /\ Doing("dot")
  /\ Become(CASE Arg /\ current = "=" -> <<Advance, Expression, Emit(-1)>>
              [] current = "("        -> <<Advance, <<"argumentList", 0, "call">>>>
              [] OTHER                -> <<Emit(0)>>)

\* argumentList, then the call: its result replaces the callee and the arguments.
\* A call of a method of super has the superclass on top of them.
ArgumentList ==
  /\ Doing("argumentList")
  /\ LET n == Arg
         TooMany == When(n = MaxArgs + 1, <<Error>>)
         CallIt == IF Arg2 = "super" THEN <<NamedVariable("super", FALSE), Emit(-n - 1)>>
                   ELSE <<Emit(-n)>>
     IN Become(CASE n = 0 /\ current # ")" -> <<Expression, <<"argumentList", 1, Arg2>>>>
                 [] n > 0 /\ current = "," ->
                      TooMany \o <<Advance, Expression, <<"argumentList", n + 1, Arg2>>>>
                 [] OTHER -> TooMany \o <<Consume(")")>> \o CallIt)

This ==
  /\ Doing("this")
  /\ Become(IF classes = <<>> THEN <<Error>> ELSE <<NamedVariable("this", FALSE)>>)

\* super_: the receiver, the arguments, the superclass.
Super ==
  /\ Doing("super")
  /\ Become(When(classes = <<>> \/ ~classes[Len(classes)], <<Error>>)
            \o <<Consume("."), Consume("id"), NamedVariable("this", FALSE), Call("superRest")>>)

SuperRest ==
  /\ Doing("superRest")
  /\ Become(IF current = "("
            THEN <<Advance, <<"argumentList", 0, "super">>>>
            ELSE <<NamedVariable("super", FALSE), Emit(-1)>>)

\* function, behind initCompiler: parameters and body.
Parameters ==
  /\ Doing("parameters")
  /\ Become(IF current = ")" THEN <<Consume(")"), Consume("{"), Call("block")>>
            ELSE <<Call("parameter"), Call("moreParameters")>>)

MoreParameters ==
  /\ Doing("moreParameters")
  /\ Become(IF current = "," THEN <<Advance, Call("parameter"), Call("moreParameters")>>
            ELSE <<Consume(")"), Consume("{"), Call("block")>>)

\* classDeclaration.
ClassDeclaration ==
  /\ Doing("classDeclaration")
  /\ Become(<<Consume("id"), Call("className")>>)

ClassName ==
  /\ Doing("className")
  /\ Become(<<Call("declareVariable"), Emit(1), Call("defineVariable"), Call("beginClass"),
              <<"inherit", previous>>>>)

ClassBody(name) ==
  <<NamedVariable(name, FALSE), Consume("{"), Call("methods"), Consume("}"), Emit(-1)>>

Inherit ==
  /\ Doing("inherit")
  /\ Become(IF current = "<"
            THEN <<Advance, Consume("id"), <<"superclass", Arg>>>>
            ELSE ClassBody(Arg) \o <<Call("endClass")>>)

Superclass ==
  /\ Doing("superclass")
  /\ Become(<<NamedVariable(previous, FALSE)>>
            \o When(previous = Arg, <<Error>>)
            \o <<Call("beginScope"), <<"addLocal", "super">>, Call("defineVariable"),
                 NamedVariable(Arg, FALSE), Emit(-1), Call("hasSuperclass")>>
            \o ClassBody(Arg)
            \o <<<<"endScope", Len(env)>>, Call("endClass")>>)

Methods ==
  /\ Doing("methods")
  /\ Become(When(current \notin {"}", "EOF"},
                 <<Consume("id"), Call("method"), Call("methods")>>))

Method ==
  /\ Doing("method")
  /\ Become(<<<<"function", IF previous = "init" THEN "initializer" ELSE "method">>, Emit(-1)>>)

\* Mutated form: the token is not skipped.
SynchronizeStuck ==
  /\ Doing("synchronize")
  /\ Become(When(previous \notin {"EOF", ";"} /\ current \notin Starters,
                 <<Call("synchronize")>>))

\* synchronize, behind the reset of panicMode.
Synchronize ==
  /\ Doing("synchronize")
  /\ Become(When(previous \notin {"EOF", ";"} /\ current \notin Starters,
                 <<Advance, Call("synchronize")>>))

Grammar ==
  \/ DoConsume \/ Program \/ Declaration \/ VarDeclaration \/ Initializer \/ FunDeclaration
  \/ Statement \/ Block \/ IfThen \/ IfElse \/ Else \/ WhileBody
  \/ ForInitializer \/ ForCondition \/ ForExit \/ ForIncrement \/ ReturnStatement
  \/ DoParsePrecedence \/ Prefix \/ Infix \/ Dot \/ ArgumentList \/ This \/ Super \/ SuperRest
  \/ Parameters \/ MoreParameters
  \/ ClassDeclaration \/ ClassName \/ Inherit \/ Superclass \/ Methods \/ Method
  \/ Synchronize

-----------------------------------------------------------------------------
(* Code *)

\* emitByte and its kin.
DoEmit ==
  /\ Doing("emit")
  /\ compilers' = [compilers EXCEPT ![Level].height = @ + Arg]
  /\ Become(<<>>)
  /\ UNCHANGED <<input, parser, classes, ghosts>>

\* A height no code has.
Clash == -100

\* patchJump and emitLoop.
Land ==
  /\ Doing("land")
  /\ compilers' = [compilers EXCEPT ![Level].height = Arg]
  /\ Become(<<>>)
  /\ UNCHANGED <<input, parser, classes, ghosts>>

Meet ==
  /\ Doing("meet")
  /\ compilers' = [compilers EXCEPT ![Level].height = IF @ = Arg THEN @ ELSE Clash]
  /\ Become(<<>>)
  /\ UNCHANGED <<input, parser, classes, ghosts>>

\* What the error function does where it is one step among others.
ErrorIf(b) ==
  IF b THEN hadError' = TRUE /\ panicMode' = TRUE ELSE UNCHANGED <<hadError, panicMode>>

\* declaration: synchronize if an error was reported.
Recover ==
  /\ Doing("recover")
  /\ panicMode' = FALSE
  /\ Become(When(panicMode, <<Call("synchronize")>>))
  /\ UNCHANGED <<input, current, previous, hadError, compilers, classes, ghosts>>

-----------------------------------------------------------------------------
(* Scopes and variables *)

BeginScope ==
  /\ Doing("beginScope")
  /\ compilers' = [compilers EXCEPT ![Level].depth = @ + 1]
  /\ Become(<<>>)
  /\ UNCHANGED <<input, parser, classes, ghosts>>

\* endScope, up to its loop.
EndScope ==
  /\ Doing("endScope")
  /\ compilers' = [compilers EXCEPT ![Level].depth = @ - 1]
  /\ env' = SubSeq(env, 1, Arg)
  /\ Become(<<Call("dropLocals")>>)
  /\ UNCHANGED <<input, parser, classes, captured, access>>

\* Mutated form: the local that was declared last stays.
OutOfScopeOuter(c) == c.locals # <<>> /\ c.locals[Len(c.locals)].depth > c.depth + 1

\* The condition of endScope's loop.
OutOfScope(c) == c.locals # <<>> /\ c.locals[Len(c.locals)].depth > c.depth

\* OP_CLOSE_UPVALUE or OP_POP.
DropLocal ==
  /\ Doing("dropLocals") /\ OutOfScope(Current)
  /\ LET n == Len(Current.locals) IN
       /\ compilers' = [compilers EXCEPT ![Level].locals = SubSeq(@, 1, n - 1),
                                         ![Level].height = @ - 1]
       /\ captured' = IF Current.locals[n].isCaptured THEN captured \ {<<Level, n - 1>>}
                      ELSE captured
  /\ UNCHANGED <<input, parser, todo, classes, env, access>>

DropEnd ==
  /\ Doing("dropLocals") /\ ~OutOfScope(Current)
  /\ Become(<<>>)
  /\ UNCHANGED <<input, parser, compilers, classes, ghosts>>

\* addLocal; full: too many locals.
AddLocal(name, clash) ==
  LET full == Len(Current.locals) = MaxLocals IN
    /\ compilers' = IF full THEN compilers
                    ELSE [compilers EXCEPT ![Level].locals =
                            Append(@, [name |-> name, depth |-> -1, isCaptured |-> FALSE])]
    /\ ErrorIf(full \/ clash)

AddSuper ==
  /\ Doing("addLocal")
  /\ AddLocal(Arg, FALSE)
  /\ Become(<<>>)
  /\ UNCHANGED <<input, current, previous, classes, ghosts>>

\* The locals of the current scope, innermost first until an outer one is met.
InThisScope ==
  LET L == Current.locals IN
    {i \in 1..Len(L) : \A j \in i..Len(L) : L[j].depth = -1 \/ L[j].depth >= Current.depth}

DeclareVariable ==
  /\ Doing("declareVariable")
  /\ IF Current.depth = 0 THEN UNCHANGED <<compilers, hadError, panicMode>>
     ELSE AddLocal(previous, \E i \in InThisScope : Current.locals[i].name = previous)
  /\ Become(<<>>)
  /\ UNCHANGED <<input, current, previous, classes, ghosts>>

\* markInitialized, of the local declared last.
Marked == [compilers EXCEPT ![Level].locals[Len(Current.locals)].depth = Current.depth]

\* The variable is in scope from here on; its value is in the given slot.
Enters(slot) ==
  env' = Append(env, [name |-> Current.locals[Len(Current.locals)].name, slot |-> <<Level, slot>>])

\* A function can refer to itself: its closure will be in the next slot.
MarkInitialized ==
  /\ Doing("markInitialized")
  /\ IF Current.depth = 0 THEN UNCHANGED <<compilers, env>>
     ELSE compilers' = Marked /\ Enters(H)
  /\ Become(<<>>)
  /\ UNCHANGED <<input, parser, classes, captured, access>>

\* defineVariable; OP_DEFINE_GLOBAL pops the value.
DefineVariable ==
  /\ Doing("defineVariable")
  /\ IF Current.depth = 0
     THEN Become(<<Emit(-1)>>) /\ UNCHANGED <<compilers, env>>
     ELSE Become(<<>>) /\ compilers' = Marked /\ Enters(H - 1)
  /\ UNCHANGED <<input, parser, classes, captured, access>>

\* The same, for a function that has been marked already.
DefineFunction ==
  /\ Doing("defineFunction")
  /\ Become(When(Current.depth = 0, <<Emit(-1)>>))
  /\ UNCHANGED <<input, parser, compilers, classes, ghosts>>

\* namedVariable, behind the choice of the instruction: an assignment if one
\* follows and is allowed.
GetOrSet == IF Arg2 /\ current = "=" THEN <<Advance, Expression, Emit(0)>> ELSE <<Emit(1)>>

\* A local of the current function, or a global.
NamedHere ==
  /\ Doing("namedVariable")
  /\ LET i == ResolveLocal(Current.locals, Arg) IN
       /\ Owners(Arg) = {} \/ i # -1
       /\ ErrorIf(i # -1 /\ Current.locals[i + 1].depth = -1)
       /\ access' = [got |-> IF i = -1 THEN Global ELSE <<Level, i>>, want |-> Meant(Arg)]
  /\ Become(GetOrSet)
  /\ UNCHANGED <<input, current, previous, compilers, classes, env, captured>>

\* resolveUpvalue, down to the nearest enclosing function that has the local.
NamedOuter ==
  /\ Doing("namedVariable")
  /\ Owners(Arg) # {} /\ Level \notin Owners(Arg)
  /\ LET k == Largest(Owners(Arg))
         i == ResolveLocal(compilers[k].locals, Arg)
     IN /\ compilers' = Captured(compilers, k, i)
        /\ ErrorIf(compilers[k].locals[i + 1].depth = -1)
        /\ Become(<<<<"upvalue", k + 1, i, TRUE, Meant(Arg)>>>> \o GetOrSet)
  /\ UNCHANGED <<input, current, previous, classes, ghosts>>

\* resolveUpvalue on its way back: function m gets an upvalue for a local or an
\* upvalue of the function around it.
ResolveUpvalue ==
  /\ Doing("upvalue")
  /\ LET m == Arg
         index == Arg2
         isLocal == Head(todo)[4]
         meant == Head(todo)[5]
         added == AddUpvalue(compilers[m].upvalues,
                             [index |-> index, isLocal |-> isLocal,
                              slot |-> SlotOf(m, index, isLocal)])
         slot == added.upvalues[added.arg + 1].slot
     IN /\ compilers' = [compilers EXCEPT ![m].upvalues = added.upvalues]
        /\ ErrorIf(added.full)
        /\ IF m < Level
           THEN /\ Become(<<<<"upvalue", m + 1, added.arg, FALSE, meant>>>>)
                /\ UNCHANGED <<captured, access>>
           ELSE /\ Become(<<>>)
                /\ access' = [got |-> slot, want |-> meant]
                /\ captured' = captured \cup {slot}
  /\ UNCHANGED <<input, current, previous, classes, env>>

-----------------------------------------------------------------------------
(* Functions and classes *)

\* initCompiler, and the scope of the parameters.
BeginFunction ==
  /\ Doing("function")
  /\ compilers' = Append(compilers, [NewCompiler(Arg) EXCEPT !.depth = 1])
  /\ env' = IF Arg = "function" THEN env
            ELSE Append(env, [name |-> "this", slot |-> <<Level + 1, 0>>])
  /\ Become(<<Consume("("), Call("parameters"), <<"endFunction", Len(env)>>>>)
  /\ UNCHANGED <<input, parser, classes, captured, access>>

\* One parameter; the caller has pushed its value.
Parameter ==
  /\ Doing("parameter")
  /\ compilers' = [compilers EXCEPT ![Level].arity = @ + 1]
  /\ ErrorIf(Current.arity >= MaxArgs)
  /\ Become(<<Consume("id"), Call("declareVariable"), Emit(1), Call("defineVariable")>>)
  /\ UNCHANGED <<input, current, previous, classes, ghosts>>

\* endCompiler, and OP_CLOSURE in the enclosing function.  Returning closes the
\* upvalues of all slots of the frame.
EndFunction ==
  /\ Doing("endFunction")
  /\ compilers' = SubSeq(compilers, 1, Level - 1)
  /\ env' = SubSeq(env, 1, Arg)
  /\ captured' = {v \in captured : v[1] < Level}
  /\ Become(<<Emit(1)>>)
  /\ UNCHANGED <<input, parser, classes, access>>

\* endCompiler of the script.
EndCompile ==
  /\ Doing("endCompile")
  /\ compilers' = <<>>
  /\ captured' = {}
  /\ Become(<<>>)
  /\ UNCHANGED <<input, parser, classes, env, access>>

BeginClass ==
  /\ Doing("beginClass")
  /\ classes' = Append(classes, FALSE)
  /\ Become(<<>>)
  /\ UNCHANGED <<input, parser, compilers, ghosts>>

HasSuperclass ==
  /\ Doing("hasSuperclass")
  /\ classes' = [classes EXCEPT ![Len(classes)] = TRUE]
  /\ Become(<<>>)
  /\ UNCHANGED <<input, parser, compilers, ghosts>>

EndClass ==
  /\ Doing("endClass")
  /\ classes' = SubSeq(classes, 1, Len(classes) - 1)
  /\ Become(<<>>)
  /\ UNCHANGED <<input, parser, compilers, ghosts>>

-----------------------------------------------------------------------------
Next ==
  \/ Grammar /\ UNCHANGED <<input, parser, compilers, classes, ghosts>>
  \/ ReportError \/ AdvanceBegin \/ Scan \/ Recover
  \/ DoEmit \/ Land \/ Meet
  \/ BeginScope \/ EndScope \/ DropLocal \/ DropEnd
  \/ AddSuper \/ DeclareVariable \/ MarkInitialized \/ DefineVariable \/ DefineFunction
  \/ NamedHere \/ NamedOuter \/ ResolveUpvalue
  \/ BeginFunction \/ Parameter \/ EndFunction \/ EndCompile
  \/ BeginClass \/ HasSuperclass \/ EndClass

\* compile runs in its caller's thread; the source is finite.
Spec == Init /\ [][Next]_vars /\ WF_vars(Next)

-----------------------------------------------------------------------------
(* Properties *)

\* Type invariant of the compiler's tables.
TypeOK ==
  /\ hadError \in BOOLEAN /\ panicMode \in BOOLEAN /\ (panicMode => hadError)
  /\ \A k \in 1..Level :
       /\ compilers[k].type \in {"script", "function", "method", "initializer"}
       /\ compilers[k].depth \in Nat
       /\ Len(compilers[k].locals) \in 1..MaxLocals
       /\ Len(compilers[k].upvalues) \in 0..MaxUpvalues
       /\ \A i \in 1..Len(compilers[k].locals) :
            compilers[k].locals[i].depth \in -1..(compilers[k].depth + 1)
  /\ todo = <<>> => compilers = <<>> /\ classes = <<>>

\* Between two declarations the VM's stack holds exactly the locals, on every
\* path of jumps through the code: the slot of a local is its index.
StackMatchesLocals ==
  ~hadError /\ Doing("recover") =>
    Current.height = Len(Current.locals)

\* Every access, direct or through any number of enclosing functions, is to the
\* variable that the scopes of the source mean.
NamesResolve == ~hadError => access.got = access.want

\* A local that a function has captured goes by OP_CLOSE_UPVALUE, never by
\* OP_POP: what module Closures assumes of the code.
CapturedAreClosed ==
  ~hadError => \A v \in captured : v[2] < Len(compilers[v[1]].locals)

\* compile ends for every source, whatever errors it has.
CompileEnds == <>(todo = <<>>)
=============================================================================
