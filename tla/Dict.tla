-------------------------------- MODULE Dict --------------------------------
(***************************************************************************)
(* What a table promises its users (vm.strings, vm.globals, the methods of *)
(* a class, the fields of an instance): a finite map from interned strings *)
(* to values.  Probing, tombstones, the load factor and rehashing are not  *)
(* visible.  Module Table is shown to implement this specification.        *)
(***************************************************************************)
CONSTANTS
  Keys,     \* the ObjString pointers used as keys
  Values,   \* the Lox values that are stored
  Nil,      \* NIL_VAL
  Absent    \* "no such key": not a Lox value

VARIABLES
  dict,     \* the map, total, with Absent outside its domain
  result    \* what the last completed call returned

dvars == <<dict, result>>

Init ==
  /\ dict = [k \in Keys |-> Absent]
  /\ result = [op |-> "none"]

Has(k) == dict[k] # Absent

\* tableSet tells its caller whether the key is new: OP_SET_GLOBAL relies on it.
Set(k, v) ==
  /\ dict' = [dict EXCEPT ![k] = v]
  /\ result' = [op |-> "set", key |-> k, ok |-> ~Has(k)]

\* A value is delivered exactly when the key is present.
Get(k) ==
  /\ result' = [op |-> "get", key |-> k, ok |-> Has(k),
                value |-> IF Has(k) THEN dict[k] ELSE Nil]
  /\ UNCHANGED dict

Delete(k) ==
  /\ dict' = [dict EXCEPT ![k] = Absent]
  /\ result' = [op |-> "delete", key |-> k, ok |-> Has(k)]

\* The lookup by content: interned strings with the same content are one key.
FindString(k) ==
  /\ result' = [op |-> "find", key |-> k, ok |-> Has(k)]
  /\ UNCHANGED dict

\* The collector drops an unmarked string, silently.
Forget(k) ==
  /\ dict' = [dict EXCEPT ![k] = Absent]
  /\ UNCHANGED result

\* freeTable.
Clear ==
  /\ dict' = [k \in Keys |-> Absent]
  /\ UNCHANGED result

Next ==
  \/ Clear
  \/ \E k \in Keys :
       \/ \E v \in Values : Set(k, v)
       \/ Get(k)
       \/ Delete(k)
       \/ FindString(k)
       \/ Forget(k)

Spec == Init /\ [][Next]_dvars
=============================================================================
