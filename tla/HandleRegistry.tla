--------------------------- MODULE HandleRegistry ---------------------------
(***************************************************************************)
(* Service identities: core/actor/sources/handle_registry.cpp.             *)
(*                                                                         *)
(* A registry has the class's two maps, byHandle (m_handle_to_name) and    *)
(* byName (m_name_to_handle).  Absent keys map to NoName and to 0; an      *)
(* anonymous service is in byHandle under AnonymousName only.  Handles are *)
(* a 64-bit counter that skips 0 and is never reused.                      *)
(***************************************************************************)
EXTENDS Naturals

CONSTANTS MaxHandle,        \* bound: allocations
          Names,            \* non-empty service names
          NoName,           \* the handle is not registered
          AnonymousName     \* the handle is registered under the empty name

ASSUME RegistryAssumption ==
    /\ MaxHandle \in Nat
    /\ NoName # AnonymousName
    /\ NoName \notin Names
    /\ AnonymousName \notin Names

Handles == 1 .. MaxHandle

EmptyRegistry == [byHandle |-> [h \in Handles |-> NoName],
                  byName   |-> [n \in Names |-> 0]]

ContainsHandle(r, h) == r.byHandle[h] # NoName

(* register_service refuses handle 0, a handle it knows and a name in use. *)
CanRegister(r, h, n) ==
    /\ h # 0
    /\ ~ContainsHandle(r, h)
    /\ n \in Names => r.byName[n] = 0

RegisterName(r, h, n) ==
    [byHandle |-> [r.byHandle EXCEPT ![h] = n],
     byName   |-> [m \in Names |-> IF m = n THEN h ELSE r.byName[m]]]

UnregisterKeepsName(r, h) ==  \* mutation: the name stays taken
    [r EXCEPT !.byHandle[h] = NoName]

UnregisterHandle(r, h) ==
    [byHandle |-> [r.byHandle EXCEPT ![h] = NoName],
     byName   |-> [m \in Names |-> IF m = r.byHandle[h] THEN 0 ELSE r.byName[m]]]
=============================================================================
