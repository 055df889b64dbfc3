-------------------------- MODULE WorkerScheduler ---------------------------
(***************************************************************************)
(* The scheduler of services that have work:                               *)
(* core/scheduler/sources/worker_scheduler.cpp and ready_queue.cpp.        *)
(*                                                                         *)
(* handles is the FIFO of ready services, queued the membership index that *)
(* ReadyQueue keeps beside it, inFlight the services being executed.       *)
(***************************************************************************)
EXTENDS Naturals, Sequences

IdleScheduler == [handles |-> <<>>, queued |-> {}, inFlight |-> {}]

(* mark_ready refuses the zero handle, a service in flight and a service   *)
(* that the ready queue already holds.                                     *)
MarkReadyInFlightToo(s, h) == \* mutation: the in-flight check is missing
    IF h = 0 \/ h \in s.queued
    THEN s
    ELSE [s EXCEPT !.handles = Append(s.handles, h), !.queued = s.queued \cup {h}]

MarkReadyInFront(s, h) ==     \* mutation: push_front instead of push_back
    IF h = 0 \/ h \in s.inFlight \/ h \in s.queued
    THEN s
    ELSE [s EXCEPT !.handles = <<h>> \o s.handles, !.queued = s.queued \cup {h}]

MarkReady(s, h) ==
    IF h = 0 \/ h \in s.inFlight \/ h \in s.queued
    THEN s
    ELSE [handles  |-> Append(s.handles, h),
          queued   |-> s.queued \cup {h},
          inFlight |-> s.inFlight]

HasReady(s) == s.handles # <<>>

(* acquire_next pops the oldest ready service and puts it in flight.       *)
NextReady(s) == Head(s.handles)

AcquireKeepsIndex(s) ==       \* mutation: pop forgets the membership index
    [s EXCEPT !.handles = Tail(s.handles),
              !.inFlight = s.inFlight \cup {NextReady(s)}]

AcquireNext(s) ==
    [handles  |-> Tail(s.handles),
     queued   |-> s.queued \ {NextReady(s)},
     inFlight |-> s.inFlight \cup {NextReady(s)}]

Complete(s, h) ==
    [handles |-> s.handles, queued |-> s.queued, inFlight |-> s.inFlight \ {h}]
=============================================================================
