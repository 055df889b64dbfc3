--------------------------- MODULE SessionManager ---------------------------
(***************************************************************************)
(* The pending request/response correlations:                              *)
(* core/actor/sources/session_manager.cpp.                                 *)
(*                                                                         *)
(* m_entries is a set of records; an identifier is a 64-bit counter that   *)
(* starts at 1 and is never reused.                                        *)
(***************************************************************************)
EXTENDS Naturals

Entry(id, caller, callee) == [id |-> id, caller |-> caller, callee |-> callee]

BeginSession(entries, id, caller, callee) == entries \cup {Entry(id, caller, callee)}

(* lookup_requester and complete only answer the service that was called.  *)
Answerable(entries, id, responder) ==
    \E e \in entries : e.id = id /\ e.callee = responder

LookupRequester(entries, id, responder) ==
    (CHOOSE e \in entries : e.id = id /\ e.callee = responder).caller

CompleteNothing(entries, id, responder) == entries   \* mutation

CompleteSession(entries, id, responder) ==
    {e \in entries : ~(e.id = id /\ e.callee = responder)}

CancelForCaller(entries, handle) ==    \* mutation: sessions to the service survive it
    {e \in entries : e.caller # handle}

CancelForHandle(entries, handle) ==
    {e \in entries : e.caller # handle /\ e.callee # handle}
=============================================================================
