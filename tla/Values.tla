------------------------------- MODULE Values -------------------------------
(***************************************************************************)
(* value.h holds two representations of a Lox value: a word of 64 bits     *)
(* with the type in the bits of a NaN (NAN_BOXING, which common.h turns    *)
(* on), and a struct with a type tag.  A word is the set of its bits that  *)
(* are 1, so that | is \cup, & is \cap, and two words are == when they are *)
(* the same set.  The theorems say that the two representations are one.   *)
(***************************************************************************)
EXTENDS Integers, TLAPS

CONSTANT DoubleEqual(_, _)     \* == of two doubles, given by their bits

Word == SUBSET (0..63)

-----------------------------------------------------------------------------
(* NAN_BOXING *)

SIGN_BIT == {63}
QUAN == 50..62                 \* 0x7ffc000000000000

TAG_NIL == {0}
TAG_FALSE == {1}
TAG_TRUE == {0, 1}

NIL_VAL == QUAN \cup TAG_NIL
FALSE_VAL == QUAN \cup TAG_FALSE
TRUE_VAL == QUAN \cup TAG_TRUE
BOOL_VAL(b) == IF b THEN TRUE_VAL ELSE FALSE_VAL
OBJ_VAL(obj) == SIGN_BIT \cup QUAN \cup obj
NUMBER_VAL(num) == num         \* numToValue copies the bits

IS_NUMBER(value) == value \cap QUAN # QUAN
IS_NIL(value) == value = NIL_VAL
IS_BOOL(value) == value \cup {0} = TRUE_VAL
IS_OBJ(value) == value \cap (QUAN \cup SIGN_BIT) = QUAN \cup SIGN_BIT

AS_NUMBER(value) == value      \* valueToNum copies the bits
AS_BOOL(value) == value = TRUE_VAL
AS_OBJ(value) == value \ (SIGN_BIT \cup QUAN)

valuesEqual(a, b) ==
  IF IS_NUMBER(a) /\ IS_NUMBER(b) THEN DoubleEqual(AS_NUMBER(a), AS_NUMBER(b)) ELSE a = b

-----------------------------------------------------------------------------
(* The struct.  A pointer of a user process has no bit above the 48th; a   *)
(* double that arithmetic makes, NaN included, has not all bits of QUAN.   *)

Pointers == SUBSET (0..47)
Doubles == {w \in Word : ~(QUAN \subseteq w)}

Value ==
  [type : {"VAL_BOOL"}, as : BOOLEAN] \cup [type : {"VAL_NIL"}, as : {0}]
  \cup [type : {"VAL_NUMBER"}, as : Doubles] \cup [type : {"VAL_OBJ"}, as : Pointers]

\* valuesEqual of two structs.
StructsEqual(a, b) ==
  /\ a.type = b.type
  /\ \/ a.type = "VAL_BOOL" /\ a.as = b.as
     \/ a.type = "VAL_NIL"
     \/ a.type = "VAL_NUMBER" /\ DoubleEqual(a.as, b.as)
     \/ a.type = "VAL_OBJ" /\ a.as = b.as

\* The word for a struct.
Box(v) ==
  CASE v.type = "VAL_BOOL"   -> BOOL_VAL(v.as)
    [] v.type = "VAL_NIL"    -> NIL_VAL
    [] v.type = "VAL_NUMBER" -> NUMBER_VAL(v.as)
    [] v.type = "VAL_OBJ"    -> OBJ_VAL(v.as)

-----------------------------------------------------------------------------
(* The bits that tell the representations apart. *)

LEMMA Bits ==
  /\ 50 \in QUAN /\ 63 \notin QUAN /\ 0 \notin QUAN /\ 1 \notin QUAN
  /\ \A p \in Pointers : \A b \in p : b \notin QUAN /\ b # 63
BY DEF QUAN, Pointers

LEMMA BoolWords ==
  ASSUME NEW b \in BOOLEAN
  PROVE  LET w == BOOL_VAL(b) IN
         /\ IS_BOOL(w) /\ ~IS_NIL(w) /\ ~IS_NUMBER(w) /\ ~IS_OBJ(w)
         /\ AS_BOOL(w) <=> b
BY Bits DEF BOOL_VAL, TRUE_VAL, FALSE_VAL, NIL_VAL, TAG_NIL, TAG_TRUE, TAG_FALSE, SIGN_BIT,
            IS_BOOL, IS_NIL, IS_NUMBER, IS_OBJ, AS_BOOL

LEMMA NilWord ==
  ~IS_BOOL(NIL_VAL) /\ IS_NIL(NIL_VAL) /\ ~IS_NUMBER(NIL_VAL) /\ ~IS_OBJ(NIL_VAL)
BY Bits DEF TRUE_VAL, NIL_VAL, TAG_NIL, TAG_TRUE, SIGN_BIT, IS_BOOL, IS_NIL, IS_NUMBER, IS_OBJ

LEMMA NumberWords ==
  ASSUME NEW w \in Doubles
  PROVE  /\ ~IS_BOOL(w) /\ ~IS_NIL(w) /\ IS_NUMBER(w) /\ ~IS_OBJ(w)
<1>1. PICK q \in QUAN : q \notin w
  BY DEF Doubles
<1>2. q # 0
  BY Bits
<1> QED
  BY <1>1, <1>2 DEF TRUE_VAL, NIL_VAL, IS_BOOL, IS_NIL, IS_NUMBER, IS_OBJ

LEMMA ObjectWords ==
  ASSUME NEW p \in Pointers
  PROVE  LET w == OBJ_VAL(p) IN
         /\ ~IS_BOOL(w) /\ ~IS_NIL(w) /\ ~IS_NUMBER(w) /\ IS_OBJ(w)
         /\ AS_OBJ(w) = p
BY Bits DEF OBJ_VAL, TRUE_VAL, NIL_VAL, TAG_NIL, TAG_TRUE, SIGN_BIT,
            IS_BOOL, IS_NIL, IS_NUMBER, IS_OBJ, AS_OBJ

\* The type tests of value.h give the struct's type, exactly one of them for
\* every word the VM makes, and the conversions give back what was stored:
\* no NaN is taken for an object, no pointer for a boolean.
THEOREM BoxingKeepsTypes ==
  \A v \in Value :
    LET w == Box(v) IN
      /\ IS_BOOL(w) <=> v.type = "VAL_BOOL"
      /\ IS_NIL(w) <=> v.type = "VAL_NIL"
      /\ IS_NUMBER(w) <=> v.type = "VAL_NUMBER"
      /\ IS_OBJ(w) <=> v.type = "VAL_OBJ"
      /\ IS_BOOL(w) => (AS_BOOL(w) <=> v.as)
      /\ IS_NUMBER(w) => AS_NUMBER(w) = v.as
      /\ IS_OBJ(w) => AS_OBJ(w) = v.as
<1> SUFFICES ASSUME NEW v \in Value
             PROVE  LET w == Box(v) IN
                    /\ IS_BOOL(w) <=> v.type = "VAL_BOOL"
                    /\ IS_NIL(w) <=> v.type = "VAL_NIL"
                    /\ IS_NUMBER(w) <=> v.type = "VAL_NUMBER"
                    /\ IS_OBJ(w) <=> v.type = "VAL_OBJ"
                    /\ IS_BOOL(w) => (AS_BOOL(w) <=> v.as)
                    /\ IS_NUMBER(w) => AS_NUMBER(w) = v.as
                    /\ IS_OBJ(w) => AS_OBJ(w) = v.as
  OBVIOUS
<1>1. CASE v.type = "VAL_BOOL" /\ v.as \in BOOLEAN
  <2>1. Box(v) = BOOL_VAL(v.as)
    BY <1>1 DEF Box
  <2> QED
    BY <1>1, <2>1, BoolWords
<1>2. CASE v.type = "VAL_NIL"
  <2>1. Box(v) = NIL_VAL
    BY <1>2 DEF Box
  <2> QED
    BY <1>2, <2>1, NilWord
<1>3. CASE v.type = "VAL_NUMBER" /\ v.as \in Doubles
  <2>1. Box(v) = v.as
    BY <1>3 DEF Box, NUMBER_VAL
  <2> QED
    BY <1>3, <2>1, NumberWords DEF AS_NUMBER
<1>4. CASE v.type = "VAL_OBJ" /\ v.as \in Pointers
  <2>1. Box(v) = OBJ_VAL(v.as)
    BY <1>4 DEF Box
  <2> QED
    BY <1>4, <2>1, ObjectWords
<1> QED
  BY <1>1, <1>2, <1>3, <1>4 DEF Value

\* valuesEqual of the words, a comparison of bits unless both are numbers,
\* says the same as valuesEqual of the structs, which looks at the types.
THEOREM BoxingKeepsEquality ==
  \A v, w \in Value : valuesEqual(Box(v), Box(w)) <=> StructsEqual(v, w)
<1> SUFFICES ASSUME NEW v \in Value, NEW w \in Value
             PROVE  valuesEqual(Box(v), Box(w)) <=> StructsEqual(v, w)
  OBVIOUS
<1>1. CASE v.type = "VAL_NUMBER" /\ w.type = "VAL_NUMBER"
  BY <1>1, BoxingKeepsTypes DEF valuesEqual, StructsEqual
<1>2. CASE ~(v.type = "VAL_NUMBER" /\ w.type = "VAL_NUMBER")
  <2>1. valuesEqual(Box(v), Box(w)) <=> Box(v) = Box(w)
    BY <1>2, BoxingKeepsTypes DEF valuesEqual
  <2>2. CASE v.type # w.type
    BY <2>1, <2>2, BoxingKeepsTypes DEF StructsEqual, Value
  <2>3. CASE v.type = "VAL_BOOL" /\ w.type = "VAL_BOOL"
    BY <2>1, <2>3, BoxingKeepsTypes DEF StructsEqual, Value, Box
  <2>4. CASE v.type = "VAL_NIL" /\ w.type = "VAL_NIL"
    BY <2>1, <2>4 DEF StructsEqual, Box
  <2>5. CASE v.type = "VAL_OBJ" /\ w.type = "VAL_OBJ"
    BY <2>1, <2>5, BoxingKeepsTypes DEF StructsEqual, Box
  <2> QED
    BY <1>2, <2>2, <2>3, <2>4, <2>5 DEF Value
<1> QED
  BY <1>1, <1>2
=============================================================================
