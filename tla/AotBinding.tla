----------------------------- MODULE AotBinding -----------------------------
(***************************************************************************)
(* luaot numbers the functions of a source file in a traversal of its tree *)
(* of prototypes (create_functions) and writes a table of C functions,     *)
(* LUAOT_FUNCTIONS; each time the module is opened, its source is parsed   *)
(* again and bind_magic walks the new tree, giving its prototypes the      *)
(* functions of the table in the order of `next_id'.                       *)
(*                                                                         *)
(* A recursive traversal is a stack of the calls that are still to begin.  *)
(***************************************************************************)
EXTENDS Naturals, Sequences

CONSTANTS
    Trees,        \* the trees they may form: functions to sequences of children
    Root,         \* the main function
    NoFunction,   \* NULL, for a prototype without one
    MaxLoads      \* bound: how many times the module is opened

VARIABLES
    tree,         \* the prototypes below each prototype
    todo,         \* calls of create_functions or bind_magic, next one first
    phase,        \* "compile", "closed", "bind", "run" or "exit"
    functions,    \* LUAOT_FUNCTIONS, by the prototype each was compiled from
    next_id,      \* the static variable of the generated module
    bound,        \* the index each prototype of the newest copy was given
    loads
bindingVars == <<tree, todo, phase, functions, next_id, bound, loads>>

Protos == DOMAIN tree

\* The calls left when one for p begins: p, then its children, in order.
ChildrenFirst(p, rest) == tree[p] \o rest
ChildrenLast(p, rest) == rest \o tree[p]                     \* variant

CreatedAfter(p, rest) == ChildrenFirst(p, rest)
BoundAfter(p, rest) == ChildrenFirst(p, rest)

\* create_functions: one more magic_implementation.
CreateFunction ==
    /\ phase = "compile" /\ todo # <<>>
    /\ functions' = Append(functions, Head(todo))
    /\ todo' = CreatedAfter(Head(todo), Tail(todo))
    /\ UNCHANGED <<tree, phase, next_id, bound, loads>>

\* print_functions ends; the C code is compiled and linked.
Link ==
    /\ phase = "compile" /\ todo = <<>>
    /\ phase' = "closed"
    /\ UNCHANGED <<tree, todo, functions, next_id, bound, loads>>

\* LUAOT_LUAOPEN_NAME: the bundled source becomes a new copy of the prototypes.
LuaOpen ==
    /\ phase \in {"closed", "run"} /\ loads < MaxLoads
    /\ loads' = loads + 1
    /\ phase' = "bind" /\ todo' = <<Root>>
    /\ bound' = [p \in Protos |-> NoFunction]
    /\ UNCHANGED <<tree, functions, next_id>>

\* The bundled source cannot be loaded, for want of memory: exit(1).
LuaOpenFails ==
    /\ phase \in {"closed", "run"} /\ loads < MaxLoads
    /\ phase' = "exit"
    /\ UNCHANGED <<tree, todo, functions, next_id, bound, loads>>

BindMagic ==
    /\ phase = "bind" /\ todo # <<>>
    /\ bound' = [bound EXCEPT ![Head(todo)] = next_id]
    /\ next_id' = next_id + 1
    /\ todo' = BoundAfter(Head(todo), Tail(todo))
    /\ UNCHANGED <<tree, phase, functions, loads>>

\* lua_call: from here the functions of the module run.
CallMain ==
    /\ phase = "bind" /\ todo = <<>>
    /\ phase' = "run"
    /\ UNCHANGED <<tree, todo, functions, next_id, bound, loads>>

BindingInit ==
    /\ tree \in Trees
    /\ todo = <<Root>> /\ phase = "compile" /\ functions = <<>>
    /\ next_id = 0 /\ bound = [p \in Protos |-> NoFunction] /\ loads = 0

BindingNext == CreateFunction \/ Link \/ LuaOpen \/ LuaOpenFails \/ BindMagic \/ CallMain

BindingSpec == BindingInit /\ [][BindingNext]_bindingVars

-----------------------------------------------------------------------------
(* Properties.                                                             *)

\* bind_magic never reads past the NULL that ends LUAOT_FUNCTIONS (which leaves a
\* prototype to the interpreter), a prototype is only given the code that was
\* compiled from it, and none is left out when the module runs.  (C arrays begin
\* at 0.)
BoundToOwnCode ==
    \A p \in Protos :
        /\ phase = "run" => bound[p] # NoFunction
        /\ bound[p] # NoFunction =>
              /\ bound[p] <= Len(functions)
              /\ bound[p] < Len(functions) => functions[bound[p] + 1] = p

=============================================================================
