------------------------------ MODULE Lexical -------------------------------
(***************************************************************************)
(* jlox: the resolver, which counts scopes, and the interpreter, which     *)
(* walks environments by those counts.                                     *)
(*                                                                         *)
(* A line of the REPL is chosen statement by statement while it is         *)
(* resolved, and then executed.  The statements are kept flat, with an     *)
(* item for each bracket; a loop's condition and a value are anything.     *)
(* bound is a ghost, what a reader of the source knows: in which           *)
(* environment each name means a variable here.                            *)
(***************************************************************************)
EXTENDS Integers, SequencesExt

CONSTANTS
  Names,         \* names of variables, functions and classes
  Sources,       \* kinds of programs: for each place, the statements that may be there
  MaxLines,      \* lines of the REPL
  MaxEnvs        \* environments ever made

ASSUME LexicalAssumption ==
  /\ Names \cap {"this", "super", "none"} = {}
  /\ MaxLines \in Nat /\ MaxEnvs \in Nat \ {0}

VARIABLES
  source, line, phase,        \* the kind of program; the line, and "resolve" or "run"
  code, start,                \* the statements so far, where those of the line begin
  scopes, brackets,           \* the resolver's scopes; the open brackets
  currentFunction, currentClass,
  envs, environment, classes, \* environments, the current one, the classes made
  pc, calls,                  \* the next statement, executeBlock's activations
  throwing, returned,         \* the exception on its way, the value of a Return
  bound, access               \* ghosts; access: the variables the last step reached

resolver == <<scopes, brackets, currentFunction, currentClass>>
interpreter == <<envs, environment, classes, pc, calls, throwing, returned, bound, access>>
vars == <<source, line, phase, code, start, resolver, interpreter>>

Globals == 1
None == "none"
Unresolved == -1
Empty == [n \in {} |-> None]
Only(k, v) == [n \in {k} |-> v]
Put(map, k, v) == [n \in DOMAIN map \cup {k} |-> IF n = k THEN v ELSE map[n]]

NoOne == [n \in Names \cup {"this", "super"} |-> Globals]
Value(kind, at, env, scope) == [kind |-> kind, at |-> at, env |-> env, bound |-> scope]
Nil == Value("nil", 0, Globals, NoOne)
Number == Value("number", 0, Globals, NoOne)

Init ==
  /\ source \in Sources /\ line = 1 /\ phase = "resolve"
  /\ code = <<>> /\ start = 1
  /\ scopes = <<>> /\ brackets = <<>> /\ currentFunction = "NONE" /\ currentClass = "NONE"
  /\ envs = <<[enclosing |-> 0, values |-> Empty]>> /\ environment = Globals /\ classes = <<>>
  /\ pc = 1 /\ calls = <<>> /\ throwing = None /\ returned = Nil
  /\ bound = NoOne /\ access = {}

-----------------------------------------------------------------------------
(* The resolver *)

\* Mutated form: the outermost scope that has the name.
DistanceOutermost(name, s) ==
  LET found == {i \in DOMAIN s : name \in DOMAIN s[i]} IN
    IF found = {} THEN Unresolved ELSE Len(s) - Min(found)

\* resolveLocal: how many scopes up the name is, if it is in one.
Distance(name, s) ==
  LET found == {i \in DOMAIN s : name \in DOMAIN s[i]} IN
    IF found = {} THEN Unresolved ELSE Len(s) - Max(found)

\* declare reports a name that the scope has already; define.
Redeclares(name) == scopes # <<>> /\ name \in DOMAIN Last(scopes)
SetTop(name, ready) ==
  IF scopes = <<>> THEN scopes ELSE [scopes EXCEPT ![Len(scopes)] = Put(@, name, ready)]
Declared(name) == SetTop(name, FALSE)
Defined(name) == SetTop(name, TRUE)

Item(op, name, from, distance, fromDistance) ==
  [op |-> op, name |-> name, from |-> from, distance |-> distance, fromDistance |-> fromDistance,
   scopes |-> scopes, end |-> 0]

ReadsItself(name, from) == Distance(from, Declared(name)) = 0 /\ ~Last(Declared(name))[from]

\* The errors the resolver reports.  A class is declared twice, so that it is
\* accepted only where there is no scope.
Rejects(op, name, from) ==
  \/ op \in {"var", "make"} /\ (Redeclares(name) \/ ReadsItself(name, from))
  \/ op = "fun" /\ Redeclares(name)
  \/ op = "class" /\ (scopes # <<>> \/ name = from)
  \/ op = "this" /\ currentClass = "NONE"
  \/ op = "super" /\ currentClass # "SUBCLASS"
  \/ op = "return" /\ currentFunction = "NONE"
  \/ op = "return" /\ from # None /\ currentFunction = "INITIALIZER"

\* The next statement of the line is op, with these names.  Methods, and
\* nothing else, are directly in a class.
Place == Len(code) + 1
Offers(op, name, from) ==
  /\ phase = "resolve" /\ line <= MaxLines
  /\ Place <= Len(source) /\ <<op, name, from>> \in source[Place]
  /\ op \in {"method", "init"} <=> (brackets # <<>> /\ Last(brackets).op = "class")

Reads(op, name, from) == Offers(op, name, from) /\ ~Rejects(op, name, from)

Writes(item) ==
  /\ code' = Append(code, item)
  /\ UNCHANGED <<source, line, phase, start, interpreter>>

\* A bracket remembers where it is, and what its end restores.
Opens(op, pushed) ==
  brackets' = Append(brackets, [op |-> op, at |-> Place, pushed |-> pushed,
                                function |-> currentFunction, class |-> currentClass])

ResolveBlock ==
  \E op \in {"block", "while"} :
    /\ Reads(op, None, None)
    /\ Opens(op, 1)
    /\ scopes' = Append(scopes, Empty)
    /\ Writes(Item(op, None, None, Unresolved, Unresolved))
    /\ UNCHANGED <<currentFunction, currentClass>>

\* var name = from; a literal when from is None.
ResolveVar ==
  \E name \in Names, from \in Names \cup {None} :
    /\ Reads("var", name, from)
    /\ scopes' = Defined(name)
    /\ Writes(Item("var", name, from, Unresolved, Distance(from, Declared(name))))
    /\ UNCHANGED <<brackets, currentFunction, currentClass>>

\* name = from; the value is resolved first.
ResolveAssign ==
  \E name \in Names, from \in Names \cup {None} :
    /\ Reads("assign", name, from)
    /\ Writes(Item("assign", name, from, Distance(name, scopes), Distance(from, scopes)))
    /\ UNCHANGED resolver

\* A statement that prints name, or calls it, or a method of it.
ResolveUse ==
  \E op \in {"print", "call", "invoke"}, name \in Names :
    /\ Reads(op, name, None)
    /\ Writes(Item(op, name, None, Distance(name, scopes), Unresolved))
    /\ UNCHANGED resolver

\* var name = from();
ResolveMake ==
  \E name, from \in Names :
    /\ Reads("make", name, from)
    /\ scopes' = Defined(name)
    /\ Writes(Item("make", name, from, Unresolved, Distance(from, Declared(name))))
    /\ UNCHANGED <<brackets, currentFunction, currentClass>>

\* resolveFunction opens one scope for the parameter, if any, and the body.
Parameters(from) == IF from = None THEN Empty ELSE Only(from, TRUE)

\* Mutated form: the body has a scope inside the parameter's.
ResolveFunctionNested ==
  \E name \in Names, from \in Names \cup {None} :
    /\ Reads("fun", name, from)
    /\ Opens("fun", 2)
    /\ scopes' = Append(Defined(name), Parameters(from)) \o <<Empty>>
    /\ currentFunction' = "FUNCTION"
    /\ Writes(Item("fun", name, from, Unresolved, Unresolved))
    /\ UNCHANGED currentClass

ResolveFunction ==
  \E name \in Names, from \in Names \cup {None} :
    /\ Reads("fun", name, from)
    /\ Opens("fun", 1)
    /\ scopes' = Append(Defined(name), Parameters(from))
    /\ currentFunction' = "FUNCTION"
    /\ Writes(Item("fun", name, from, Unresolved, Unresolved))
    /\ UNCHANGED currentClass

ResolveMethod ==
  \E op \in {"method", "init"} :
    /\ Reads(op, None, None)
    /\ Opens(op, 1)
    /\ scopes' = Append(scopes, Empty)
    /\ currentFunction' = IF op = "init" THEN "INITIALIZER" ELSE "METHOD"
    /\ Writes(Item(op, None, None, Unresolved, Unresolved))
    /\ UNCHANGED currentClass

\* visitClassStmt opens a scope for super, if there is a superclass, and one
\* for this.
ClassScopes(from) ==
  IF from = None THEN <<Only("this", TRUE)>> ELSE <<Only("super", TRUE), Only("this", TRUE)>>

ResolveClass ==
  \E name \in Names, from \in Names \cup {None} :
    /\ Reads("class", name, from)
    /\ Opens("class", IF from = None THEN 1 ELSE 2)
    /\ currentClass' = IF from = None THEN "CLASS" ELSE "SUBCLASS"
    /\ scopes' = scopes \o ClassScopes(from)
    /\ Writes(Item("class", name, from, Unresolved, Distance(from, scopes)))
    /\ UNCHANGED currentFunction

\* visitThisExpr, visitSuperExpr
ResolveThis ==
  \E op \in {"this", "super"} :
    /\ Reads(op, None, None)
    /\ Writes(Item(op, op, None, Distance(op, scopes), Unresolved))
    /\ UNCHANGED resolver

\* return from; or a statement with an error the resolver does not see: -nil;
ResolveExit ==
  \E op \in {"return", "fail"}, from \in Names \cup {None} :
    /\ Reads(op, None, from)
    /\ Writes(Item(op, None, from, Unresolved, Distance(from, scopes)))
    /\ UNCHANGED resolver

\* The closing bracket: endScope for each scope, and what was current before.
ResolveClose ==
  /\ phase = "resolve" /\ brackets # <<>>
  /\ Place <= Len(source) => <<"end", None, None>> \in source[Place]
  /\ LET b == Last(brackets) IN
       /\ code' = [Append(code, Item("end", b.op, None, Unresolved, Unresolved))
                     EXCEPT ![b.at].end = Place]
       /\ scopes' = SubSeq(scopes, 1, Len(scopes) - b.pushed)
       /\ currentFunction' = b.function /\ currentClass' = b.class
  /\ brackets' = Front(brackets)
  /\ UNCHANGED <<source, line, phase, start, interpreter>>

\* The next line has a resolver of its own.
NextLine ==
  /\ line' = line + 1 /\ phase' = "resolve"
  /\ scopes' = <<>> /\ brackets' = <<>> /\ currentFunction' = "NONE" /\ currentClass' = "NONE"
  /\ UNCHANGED source

\* run returns when the resolver had an error; what it finds after the first
\* one makes no difference.
Reject ==
  /\ Place <= Len(source)
  /\ \E s \in source[Place] : Offers(s[1], s[2], s[3]) /\ Rejects(s[1], s[2], s[3])
  /\ NextLine
  /\ code' = SubSeq(code, 1, start - 1)
  /\ UNCHANGED <<start, interpreter>>

\* The line is resolved and can be interpreted.
Interpret ==
  /\ phase = "resolve" /\ brackets = <<>> /\ Len(code) >= start
  /\ phase' = "run" /\ pc' = start
  /\ UNCHANGED <<source, line, code, start, resolver, envs, environment, classes, calls, throwing,
                 returned, bound, access>>

-----------------------------------------------------------------------------
(* Environments *)

\* ancestor(distance)
Ancestor(env, distance) ==
  LET up[d \in 0..distance] == IF d = 0 THEN env ELSE envs[up[d - 1]].enclosing
  IN up[distance]

\* Where lookUpVariable and visitAssignExpr go.
Found(distance) == IF distance = Unresolved THEN Globals ELSE Ancestor(environment, distance)

\* get throws for a global that is not there; getAt reads null then.
Undefined(name, distance) == distance = Unresolved /\ name \notin DOMAIN envs[Globals].values
Read(name, distance) ==
  LET values == envs[Found(distance)].values IN IF name \in DOMAIN values THEN values[name] ELSE Nil

\* What reaching name by distance meant and got.
Reach(name, distance) == [name |-> name, got |-> Found(distance), meant |-> bound[name]]

Room(n) == Len(envs) + n <= MaxEnvs
Environment(enclosing, values) == [enclosing |-> enclosing, values |-> values]
Defining(es, env, name, v) == [es EXCEPT ![env].values = Put(@, name, v)]

-----------------------------------------------------------------------------
(* The interpreter *)

Statement == code[pc]
Op(op) == phase = "run" /\ throwing = None /\ pc <= Len(code) /\ Statement.op = op
fixed == <<source, line, phase, code, start, resolver, returned>>

\* A statement that defines name as v in the current environment.
Defines(name, v, reached) ==
  /\ envs' = Defining(envs, environment, name, v)
  /\ bound' = [bound EXCEPT ![name] = environment]
  /\ access' = reached
  /\ UNCHANGED <<fixed, environment, classes, calls, throwing>>

\* The value on the right of = : of a variable, or a literal.
Given == Statement.from # None
NotGiven == Given /\ Undefined(Statement.from, Statement.fromDistance)
Right == IF Given THEN Read(Statement.from, Statement.fromDistance) ELSE Number
RightReached == IF Given THEN {Reach(Statement.from, Statement.fromDistance)} ELSE {}

Var ==
  /\ Op("var") /\ ~NotGiven
  /\ Defines(Statement.name, Right, RightReached)
  /\ pc' = pc + 1

\* visitPrintStmt, and this as a statement.
Use ==
  /\ Op("print") \/ Op("this")
  /\ ~Undefined(Statement.name, Statement.distance)
  /\ access' = {Reach(Statement.name, Statement.distance)}
  /\ pc' = pc + 1
  /\ UNCHANGED <<fixed, envs, environment, classes, calls, throwing, bound>>

Assign ==
  /\ Op("assign") /\ ~NotGiven /\ ~Undefined(Statement.name, Statement.distance)
  /\ envs' = Defining(envs, Found(Statement.distance), Statement.name, Right)
  /\ access' = {Reach(Statement.name, Statement.distance)} \cup RightReached
  /\ pc' = pc + 1
  /\ UNCHANGED <<fixed, environment, classes, calls, throwing, bound>>

\* executeBlock in the last of es, which goes on at back when it is left.  A
\* call defines into, if it is a name, as its result or as the new instance.
NoResult == [into |-> None, instance |-> Nil]

ExecuteBlock(kind, es, at, back, scope, result) ==
  /\ envs' = es /\ environment' = Len(es)
  /\ calls' = Append(calls, [kind |-> kind, previous |-> environment, back |-> back, bound |-> bound,
                             result |-> result])
  /\ pc' = at /\ bound' = scope
  /\ UNCHANGED <<fixed, classes, throwing>>

Block ==
  /\ Op("block") /\ Room(1)
  /\ access' = {}
  /\ ExecuteBlock("block", Append(envs, Environment(environment, Empty)), pc + 1, Statement.end + 1, bound,
                  NoResult)

\* The condition is true, and will be evaluated again, or it is false.
While ==
  /\ Op("while") /\ access' = {}
  /\ \/ /\ Room(1)
        /\ ExecuteBlock("block", Append(envs, Environment(environment, Empty)), pc + 1, pc, bound,
                        NoResult)
     \/ /\ pc' = Statement.end + 1
        /\ UNCHANGED <<fixed, envs, environment, classes, calls, throwing, bound>>

Function ==
  /\ Op("fun")
  /\ LET scope == [bound EXCEPT ![Statement.name] = environment] IN
       Defines(Statement.name, Value("fun", pc, environment, scope), {})
  /\ pc' = Statement.end + 1

\* LoxFunction.call of f with environments es, and an argument if it takes one.
CallFunction(f, es, result) ==
  LET param == code[f.at].from
      new == Len(es) + 1
  IN IF param = None
     THEN ExecuteBlock("call", Append(es, Environment(f.env, Empty)), f.at + 1, pc + 1, f.bound, result)
     ELSE ExecuteBlock("call", Append(es, Environment(f.env, Only(param, Number))), f.at + 1, pc + 1,
                       [f.bound EXCEPT ![param] = new], result)

\* findMethod, of "method" or "init", in class c or the nearest superclass that
\* has it.
FindMethod(c, name) ==
  LET Find[k \in 0..Len(classes)] ==
        IF k = 0 THEN Nil
        ELSE IF classes[k][name] # Nil THEN classes[k][name] ELSE Find[classes[k].super]
  IN Find[c]

\* bind(instance), then call.
CallMethod(m, instance, result) ==
  LET this == Len(envs) + 1 IN
    CallFunction([m EXCEPT !.env = this, !.bound["this"] = this],
                 Append(envs, Environment(m.env, Only("this", instance))), result)

\* LoxClass.call, where there is an initializer: its own result is dropped.
HasInit(class) == FindMethod(class.at, "init") # Nil
Instance(class) == [class EXCEPT !.kind = "instance"]
Construct(class, into) ==
  /\ HasInit(class) /\ Room(2)
  /\ CallMethod(FindMethod(class.at, "init"), Instance(class),
                [into |-> into, instance |-> Instance(class)])

\* name(), with an argument if the function takes one; the result is dropped.
Callee == Read(Statement.name, Statement.distance)

Call ==
  /\ Op("call") /\ ~Undefined(Statement.name, Statement.distance)
  /\ access' = {Reach(Statement.name, Statement.distance)}
  /\ \/ Callee.kind = "fun" /\ Room(1) /\ CallFunction(Callee, envs, NoResult)
     \/ Callee.kind = "class" /\ Construct(Callee, None)
     \/ /\ Callee.kind = "class" /\ ~HasInit(Callee) /\ pc' = pc + 1
        /\ UNCHANGED <<fixed, envs, environment, classes, calls, throwing, bound>>

\* var name = from();
Make ==
  /\ Op("make") /\ ~NotGiven
  /\ \/ /\ Right.kind = "fun" /\ Room(1) /\ access' = RightReached
        /\ CallFunction(Right, envs, [into |-> Statement.name, instance |-> Nil])
     \/ Right.kind = "class" /\ access' = RightReached /\ Construct(Right, Statement.name)
     \/ /\ Right.kind = "class" /\ ~HasInit(Right) /\ pc' = pc + 1
        /\ Defines(Statement.name, Instance(Right), RightReached)

\* name.m();
Invoke ==
  /\ Op("invoke") /\ ~Undefined(Statement.name, Statement.distance)
  /\ Callee.kind = "instance" /\ FindMethod(Callee.at, "method") # Nil /\ Room(2)
  /\ access' = {Reach(Statement.name, Statement.distance)}
  /\ CallMethod(FindMethod(Callee.at, "method"), Callee, NoResult)

\* super.m(); this is one environment nearer than super.
Super ==
  /\ Op("super")
  /\ LET d == Statement.distance
         m == FindMethod(Read("super", d).at, "method")
     IN /\ m # Nil /\ Room(2)
        /\ access' = {Reach("super", d), Reach("this", d - 1)}
        /\ CallMethod(m, Read("this", d - 1), NoResult)

\* visitClassStmt: the methods close over an environment for super.
Class ==
  /\ Op("class") /\ ~NotGiven /\ (Given => Right.kind = "class" /\ Room(1))
  /\ LET env == IF Given THEN Len(envs) + 1 ELSE environment
         es == IF Given THEN Append(envs, Environment(environment, Only("super", Right))) ELSE envs
         scope == [bound EXCEPT ![Statement.name] = environment,
                                !["super"] = IF Given THEN env ELSE @]
         Latest(op) == LET found == {i \in (pc + 1)..Statement.end : code[i].op = op}
                       IN IF found = {} THEN Nil ELSE Value("fun", Max(found), env, scope)
     IN /\ classes' = Append(classes,
             [super |-> IF Given THEN Right.at ELSE 0,
              method |-> Latest("method"), init |-> Latest("init")])
        /\ envs' = Defining(es, environment, Statement.name,
                            Value("class", Len(classes) + 1, Globals, NoOne))
        /\ bound' = [bound EXCEPT ![Statement.name] = environment]
  /\ access' = RightReached
  /\ pc' = Statement.end + 1
  /\ UNCHANGED <<fixed, environment, calls, throwing>>

\* What becomes of the value v that activation c returns.
Returns(c, v) ==
  LET into == c.result.into IN
    IF into = None THEN UNCHANGED envs /\ bound' = c.bound
    ELSE /\ envs' = Defining(envs, c.previous, into, IF c.result.instance # Nil THEN c.result.instance ELSE v)
         /\ bound' = [c.bound EXCEPT ![into] = c.previous]

\* The end of a body: executeBlock returns.
End ==
  /\ Op("end")
  /\ environment' = Last(calls).previous /\ pc' = Last(calls).back
  /\ Returns(Last(calls), Nil)
  /\ calls' = Front(calls) /\ access' = {}
  /\ UNCHANGED <<fixed, classes, throwing>>

\* The conditions of the RuntimeErrors.
Fails ==
  LET undefined == Undefined(Statement.name, Statement.distance) IN
  \/ Op("fail")
  \/ (Op("print") \/ Op("assign") \/ Op("call") \/ Op("invoke")) /\ undefined
  \/ (Op("var") \/ Op("assign") \/ Op("make") \/ Op("class") \/ Op("return")) /\ NotGiven
  \/ Op("call") /\ ~undefined /\ Callee.kind \notin {"fun", "class"}
  \/ Op("invoke") /\ ~undefined /\ (Callee.kind = "instance" => FindMethod(Callee.at, "method") = Nil)
  \/ Op("make") /\ ~NotGiven /\ Right.kind \notin {"fun", "class"}
  \/ Op("class") /\ Given /\ ~NotGiven /\ Right.kind # "class"
  \/ Op("super") /\ FindMethod(Read("super", Statement.distance).at, "method") = Nil

\* throw new Return, throw new RuntimeError
Throw ==
  /\ \/ /\ Op("return") /\ ~NotGiven
        /\ throwing' = "Return" /\ returned' = (IF Given THEN Right ELSE Nil) /\ access' = RightReached
     \/ Fails /\ throwing' = "RuntimeError" /\ access' = {} /\ UNCHANGED returned
  /\ UNCHANGED <<source, line, phase, code, start, resolver, envs, environment, classes, pc, calls, bound>>

\* Mutated form: the environment is restored for a Return only.
FinallyForgets ==
  /\ throwing # None /\ calls # <<>>
  /\ LET c == Last(calls) IN
       /\ environment' = IF throwing = "Return" THEN c.previous ELSE environment
       /\ IF throwing = "Return" /\ c.kind = "call"
          THEN throwing' = None /\ returned' = Nil /\ pc' = c.back /\ Returns(c, returned)
          ELSE bound' = c.bound /\ UNCHANGED <<throwing, returned, pc, envs>>
  /\ calls' = Front(calls) /\ access' = {}
  /\ UNCHANGED <<source, line, phase, code, start, resolver, classes>>

\* executeBlock's finally; LoxFunction.call catches a Return.
Finally ==
  /\ throwing # None /\ calls # <<>>
  /\ LET c == Last(calls) IN
       /\ environment' = c.previous
       /\ IF throwing = "Return" /\ c.kind = "call"
          THEN throwing' = None /\ returned' = Nil /\ pc' = c.back /\ Returns(c, returned)
          ELSE bound' = c.bound /\ UNCHANGED <<throwing, returned, pc, envs>>
  /\ calls' = Front(calls) /\ access' = {}
  /\ UNCHANGED <<source, line, phase, code, start, resolver, classes>>

\* interpret returns after the last statement or with a RuntimeError; the
\* REPL reads the next line.
Return ==
  /\ phase = "run" /\ calls = <<>>
  /\ throwing = "RuntimeError" \/ pc > Len(code)
  /\ NextLine
  /\ start' = Len(code) + 1 /\ throwing' = None /\ access' = {}
  /\ UNCHANGED <<code, envs, environment, classes, pc, calls, returned, bound>>

Next ==
  \/ ResolveBlock \/ ResolveVar \/ ResolveUse \/ ResolveAssign \/ ResolveMake \/ ResolveFunction
  \/ ResolveMethod \/ ResolveClass \/ ResolveThis \/ ResolveExit \/ ResolveClose
  \/ Reject \/ Interpret
  \/ Var \/ Use \/ Assign \/ Block \/ While \/ Function \/ Call \/ Make \/ Invoke \/ Super \/ Class
  \/ End \/ Throw \/ Finally \/ Return

Spec == Init /\ [][Next]_vars

-----------------------------------------------------------------------------
(* Properties *)

\* Every variable expression, assignment, this and super reaches, by the
\* distance the resolver counted, the environment that holds the variable its
\* source means, and the variable is defined there (getAt would silently read
\* nil): through closures, shadowing, loops, methods and calls of super.
AccessIsLexical ==
  \A a \in access :
    a.got = a.meant /\ (a.got # Globals => a.name \in DOMAIN envs[a.got].values)

\* The resolver and the interpreter open and close scopes at the same places:
\* before each statement there are as many environments above the current one
\* as the resolver had scopes there.
DepthsAgree ==
  LET up[e \in 1..Len(envs)] == IF e = Globals THEN 0 ELSE 1 + up[envs[e].enclosing]
  IN (phase = "run" /\ throwing = None /\ pc <= Len(code)) => up[environment] = Len(code[pc].scopes)

\* Whatever a line did, through returns out of nested blocks and runtime
\* errors inside calls, the next line of the REPL starts in the globals.
LinesStartGlobal == phase = "resolve" => environment = Globals
=============================================================================
