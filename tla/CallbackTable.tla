--------------------------- MODULE CallbackTable ---------------------------
(***************************************************************************)
(* mlCallbackMgr and its mlCallback_table: how functions and methods of    *)
(* the host are registered, and under which keys.                          *)
(*                                                                         *)
(* A key is the address of a function, the address of the parameter that   *)
(* carried a method, or the name an interpreter knows the function by.     *)
(* Nothing is ever stored (mlCallback.cpp:18), so that mlCallbackMgr::call *)
(* finds no key, runs nothing and answers nil (mlCallback.h:240-243).      *)
(***************************************************************************)

CONSTANTS
  Functions,  \* functions of the host; the function itself stands for its address
  Methods,    \* member functions of the host
  Slots,      \* addresses the parameter of callback_register may have
  Names       \* names functions are given in interpreters

VARIABLES
  callbacks,   \* the table: what each key leads to
  registered   \* history: the registrations made

tableVars == <<callbacks, registered>>

At(key, callee) == [key |-> key, callee |-> callee]

\* mlCallback_table::set: the return in line 18 comes before the only lines that
\* store, so the table stays as it is.
Stored(key, callee) == callbacks

Register(key, callee) ==
  /\ callbacks' = Stored(key, callee)
  /\ registered' = registered \cup {At(key, callee)}

-----------------------------------------------------------------------------

TableInit ==
  /\ callbacks = {}
  /\ registered = {}

\* mlVariable(function_pointer) registers the function under its address.
RegisterFunction(f) == Register(f, f)

\* mlVariable(method_pointer): the key is the address of the local parameter,
\* whatever that is in this call.
RegisterMethod(m) == \E s \in Slots : Register(s, m)

\* set(name, function) of an interpreter: the entry found for the function, or
\* else the variable itself, is stored under the name; both lead to f.
RegisterName(n, f) == Register(n, f)

TableNext ==
  \/ \E f \in Functions : RegisterFunction(f)
  \/ \E m \in Methods : RegisterMethod(m)
  \/ \E n \in Names, f \in Functions : RegisterName(n, f)

TableSpec == TableInit /\ [][TableNext]_tableVars

-----------------------------------------------------------------------------

\* What mlCallback.cpp:25 says of a registration under a name: the function is
\* searched in the table and an alias is generated for it.
AliasGenerated ==
  \A r \in registered :
    r.key \in Names /\ At(r.callee, r.callee) \in registered => r \in callbacks
=============================================================================
