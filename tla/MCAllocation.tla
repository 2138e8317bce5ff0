---------------------------- MODULE MCAllocation ----------------------------
(***************************************************************************)
(* Scripts for Allocation, with the code the compiler makes of them       *)
(* (without its repeated constants).  A text is a sequence of pieces.      *)
(***************************************************************************)
EXTENDS Allocation

T(x) == [kind |-> "text", x |-> <<x>>]
F(x) == [kind |-> "function", x |-> x]
N(x) == [kind |-> "number", x |-> x]
Fun(name, arity, upvalues, constants, code) ==
  [name |-> name, arity |-> arity, upvalues |-> upvalues, constants |-> constants, code |-> code]
Script(constants, code) == Fun(<<>>, 0, <<>>, constants, code)
LocalAt(i) == [isLocal |-> TRUE, index |-> i]
Outer(i) == [isLocal |-> FALSE, index |-> i]

O(o) == <<o>>
Exit == <<O("OP_NIL"), O("OP_RETURN")>>
GlobalGet(c) == <<"OP_GET_GLOBAL", c>>
GlobalDef(c) == <<"OP_DEFINE_GLOBAL", c>>
GlobalSet(c) == <<"OP_SET_GLOBAL", c>>
LocalGet(c) == <<"OP_GET_LOCAL", c>>
Const(c) == <<"OP_CONSTANT", c>>
Calls(n) == <<"OP_CALL", n>>
PopOff == O("OP_POP")
PrintIt == O("OP_PRINT")

\* var a = "x"; var b = a + "y"; print b == "xy";
\* { var i = 0; while (i < 2) { print a + "y"; i = i + 1; } }
\* a = "y"; print a;
Strings == Script(
  <<T("a"), T("x"), T("b"), T("y"), [kind |-> "text", x |-> <<"x", "y">>], N(0), N(2), N(1)>>,
  <<Const(2), GlobalDef(1), GlobalGet(1), Const(4), O("OP_ADD"), GlobalDef(3),
    GlobalGet(3), Const(5), O("OP_EQUAL"), PrintIt,
    Const(6), LocalGet(1), Const(7), O("OP_LESS"), <<"OP_JUMP_IF_FALSE", 11>>, PopOff,
    GlobalGet(1), Const(4), O("OP_ADD"), PrintIt,
    LocalGet(1), Const(8), O("OP_ADD"), <<"OP_SET_LOCAL", 1>>, PopOff, <<"OP_LOOP", 15>>,
    PopOff, PopOff, Const(4), GlobalSet(1), PopOff, GlobalGet(1), PrintIt>> \o Exit)

\* print clock(); if (!(false == true)) print -1; else print nil;
Logic == Script(
  <<T("clock"), N(1)>>,
  <<GlobalGet(1), Calls(0), PrintIt,
    O("OP_FALSE"), O("OP_TRUE"), O("OP_EQUAL"), O("OP_NOT"), <<"OP_JUMP_IF_FALSE", 5>>, PopOff,
    Const(2), O("OP_NEGATE"), PrintIt, <<"OP_JUMP", 3>>, PopOff, O("OP_NIL"), PrintIt>> \o Exit)

\* class A { init(x) { this.x = x; } m() { print this.x; } }
\* var a = A("s"); var f = a.m; a.g = f; a.g(); a = nil; f(); print f; print A("s");
Class == Script(
  <<T("A"), T("init"), F("Ainit"), T("m"), F("Am"), T("s"), T("a"), T("f"), T("g")>>,
  <<<<"OP_CLASS", 1>>, GlobalDef(1), GlobalGet(1), <<"OP_CLOSURE", 3>>, <<"OP_METHOD", 2>>,
    <<"OP_CLOSURE", 5>>, <<"OP_METHOD", 4>>, PopOff,
    GlobalGet(1), Const(6), Calls(1), GlobalDef(7),
    GlobalGet(7), <<"OP_GET_PROPERTY", 4>>, GlobalDef(8),
    GlobalGet(7), GlobalGet(8), <<"OP_SET_PROPERTY", 9>>, PopOff,
    GlobalGet(7), <<"OP_INVOKE", 9, 0>>, PopOff,
    O("OP_NIL"), GlobalSet(7), PopOff, GlobalGet(8), Calls(0), PopOff,
    GlobalGet(8), PrintIt, GlobalGet(1), Const(6), Calls(1), PrintIt>> \o Exit)

AInit == Fun(<<"init">>, 1, <<>>, <<T("x")>>,
  <<LocalGet(0), LocalGet(1), <<"OP_SET_PROPERTY", 1>>, PopOff, LocalGet(0), O("OP_RETURN")>>)

AM == Fun(<<"m">>, 0, <<>>, <<T("x")>>,
  <<LocalGet(0), <<"OP_GET_PROPERTY", 1>>, PrintIt>> \o Exit)

\* class B { m() { print "B"; } n() { print "n"; } }
\* class C < B { m() { super.m(); var f = super.n; f(); } }
\* B = nil; C().m(); C().n();
Inherits == Script(
  <<T("B"), T("m"), F("Bm"), T("n"), F("Bn"), T("C"), F("Cm")>>,
  <<<<"OP_CLASS", 1>>, GlobalDef(1), GlobalGet(1), <<"OP_CLOSURE", 3>>, <<"OP_METHOD", 2>>,
    <<"OP_CLOSURE", 5>>, <<"OP_METHOD", 4>>, PopOff,
    <<"OP_CLASS", 6>>, GlobalDef(6), GlobalGet(1), GlobalGet(6), O("OP_INHERIT"), GlobalGet(6),
    <<"OP_CLOSURE", 7>>, <<"OP_METHOD", 2>>, PopOff, O("OP_CLOSE_UPVALUE"),
    O("OP_NIL"), GlobalSet(1), PopOff,
    GlobalGet(6), Calls(0), <<"OP_INVOKE", 2, 0>>, PopOff,
    GlobalGet(6), Calls(0), <<"OP_INVOKE", 4, 0>>, PopOff>> \o Exit)

BM == Fun(<<"m">>, 0, <<>>, <<T("B")>>, <<Const(1), PrintIt>> \o Exit)
BN == Fun(<<"n">>, 0, <<>>, <<T("n")>>, <<Const(1), PrintIt>> \o Exit)
CM == Fun(<<"m">>, 0, <<LocalAt(1)>>, <<T("m"), T("n")>>,
  <<LocalGet(0), <<"OP_GET_UPVALUE", 1>>, <<"OP_SUPER_INVOKE", 1, 0>>, PopOff,
    LocalGet(0), <<"OP_GET_UPVALUE", 1>>, <<"OP_GET_SUPER", 2>>,
    LocalGet(1), Calls(0), PopOff>> \o Exit)

\* var s; fun make() { var x = "p"; fun set() { x = x + "q"; }
\*   fun get() { fun in() { return x; } return in(); } set(); s = set; return get; }
\* var g = make(); s(); print g(); print g;
Closures == Script(
  <<T("s"), T("make"), F("make"), T("g")>>,
  <<O("OP_NIL"), GlobalDef(1), <<"OP_CLOSURE", 3>>, GlobalDef(2),
    GlobalGet(2), Calls(0), GlobalDef(4), GlobalGet(1), Calls(0), PopOff,
    GlobalGet(4), Calls(0), PrintIt, GlobalGet(4), PrintIt>> \o Exit)

Make == Fun(<<"make">>, 0, <<>>, <<T("p"), F("set"), F("get"), T("s")>>,
  <<Const(1), <<"OP_CLOSURE", 2>>, <<"OP_CLOSURE", 3>>, LocalGet(2), Calls(0), PopOff,
    LocalGet(2), GlobalSet(4), PopOff, LocalGet(3), O("OP_RETURN")>>)
Setter == Fun(<<"set">>, 0, <<LocalAt(1)>>, <<T("q")>>,
  <<<<"OP_GET_UPVALUE", 1>>, Const(1), O("OP_ADD"), <<"OP_SET_UPVALUE", 1>>, PopOff>> \o Exit)
Getter == Fun(<<"get">>, 0, <<LocalAt(1)>> , <<F("in")>>,
  <<<<"OP_CLOSURE", 1>>, LocalGet(1), Calls(0), O("OP_RETURN")>>)
Inner == Fun(<<"in">>, 0, <<Outer(1)>>, <<>>, <<<<"OP_GET_UPVALUE", 1>>, O("OP_RETURN")>>)

\* fun f() { f(); } f();
Overflow == Script(<<T("f"), F("f")>>,
  <<<<"OP_CLOSURE", 2>>, GlobalDef(1), GlobalGet(1), Calls(0), PopOff>> \o Exit)
Forever == Fun(<<"f">>, 0, <<>>, <<T("f")>>, <<GlobalGet(1), Calls(0), PopOff>> \o Exit)

\* u = "x" + "x";
Undefined == Script(<<T("u"), T("x")>>,
  <<Const(2), Const(2), O("OP_ADD"), GlobalSet(1), PopOff>> \o Exit)

\* class B {} B().m;
Property == Script(<<T("B"), T("m")>>,
  <<<<"OP_CLASS", 1>>, GlobalDef(1), GlobalGet(1), Calls(0), <<"OP_GET_PROPERTY", 2>>, PopOff>> \o Exit)

MCFunctions == [
  strings |-> Strings, logic |-> Logic,
  class |-> Class, Ainit |-> AInit, Am |-> AM,
  inherit |-> Inherits, Bm |-> BM, Bn |-> BN, Cm |-> CM,
  closures |-> Closures, make |-> Make, set |-> Setter, get |-> Getter, in |-> Inner,
  overflow |-> Overflow, f |-> Forever, undefined |-> Undefined, property |-> Property]

MCScripts == [
  strings   |-> <<<<"true">>, <<"x", "y">>, <<"x", "y">>, <<"y">>>>,
  logic     |-> <<<<"number">>, <<"number">>>>,
  class     |-> <<<<"s">>, <<"s">>, <<"fn", "m">>, <<"A", "instance">>>>,
  inherit   |-> <<<<"B">>, <<"n">>, <<"n">>>>,
  closures  |-> <<<<"p", "q", "q">>, <<"fn", "get">>>>,
  overflow  |-> <<<<"error">>>>,
  undefined |-> <<<<"error">>>>,
  property  |-> <<<<"error">>>>]
=============================================================================
