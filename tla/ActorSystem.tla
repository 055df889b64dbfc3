---------------------------- MODULE ActorSystem -----------------------------
(***************************************************************************)
(* The actor system of crynet-server: core/actor/sources/actor_system.cpp, *)
(* composed of the handle registry, the session manager, the mailboxes,    *)
(* the scheduler and the timeout queue.                                    *)
(*                                                                         *)
(* The system runs on one thread, but a message handler is called in the   *)
(* middle of dispatch_batch and may call any operation of the system, also *)
(* dispatch_batch again.  Execution is therefore a stack of dispatch       *)
(* frames; an operation is one step, except dispatch_batch, which hands    *)
(* control to handlers, and pump_timers, whose loop sends one message per  *)
(* step.                                                                   *)
(*                                                                         *)
(* Handlers are assumed never to release a service that is on the dispatch *)
(* stack, to which dispatch_batch keeps a reference, and never to throw,   *)
(* which would leave the service in flight for good.  A handler may        *)
(* register a service; m_services may rehash then, which leaves the nodes  *)
(* in place, and the iterator of dispatch_batch is taken as still good.    *)
(***************************************************************************)
EXTENDS Naturals, Sequences, FiniteSets, FiniteSetsExt,
        MessageQueue, WorkerScheduler, SessionManager, HandleRegistry, Timeouts

CONSTANTS MaxSession,   \* bound: calls
          MaxTimer,     \* bound: timeouts scheduled
          MaxTick,      \* bound: the timer's clock
          MaxSend,      \* bound: messages offered to send
          MaxDepth,     \* bound: nested dispatch_batch calls
          MaxBatch,     \* bound: max_messages_per_service
          MaxDelay      \* bound: the delay of a timeout

ASSUME BoundsAssumption ==
    /\ MaxSession \in Nat /\ MaxTimer \in Nat
    /\ MaxTick \in Nat /\ MaxSend \in Nat /\ MaxDepth \in Nat
    /\ MaxBatch \in Nat \ {0} /\ MaxDelay \in Nat

VARIABLES
    nextHandle, registry,   \* m_handle_registry
    state,                  \* ServiceContext::m_state; "Created" before registration
    queues,                 \* ServiceSlot::queue
    sched,                  \* m_scheduler
    nextSession, entries,   \* m_session_manager
    returned,               \* the session identifiers call has returned to its callers
    nextTimer, timers, tick,\* m_timer_queue
    expired,                \* pump_timers: expired timeouts it has still to send
    stack,                  \* dispatch_batch activations, innermost last
    metrics                 \* m_metrics

vars == <<nextHandle, registry, state, queues, sched, nextSession, entries,
          returned, nextTimer, timers, tick, expired, stack, metrics>>

ServiceStates == {"Created", "Running", "Stopped", "Released"}
Counters == {"enqueued", "dispatched", "timer", "dropped", "overload", "peak"}
MessageTypes  == {"System", "Request", "Response", "Timer"}

Message(type, source, target, session) ==
    [type |-> type, source |-> source, target |-> target, session |-> session]

Messages == [type : MessageTypes, source : 0 .. MaxHandle, target : Handles,
             session : 0 .. MaxSession]

(* A frame is in "loop" between messages and in "handler" while the        *)
(* service's handler runs; left is how many messages the batch may take.   *)
Frames == [handle : Handles, left : 0 .. MaxBatch, phase : {"loop", "handler"}]

Frame(h, n, p) == [handle |-> h, left |-> n, phase |-> p]

Depth == Len(stack)
Top   == stack[Depth]

OnStack(h) == \E i \in 1 .. Depth : stack[i].handle = h

(* The slot of h is in m_services.                                         *)
Registered(h) == state[h] \in {"Running", "Stopped"}

Init ==
    /\ nextHandle = 1 /\ registry = EmptyRegistry
    /\ state = [h \in Handles |-> "Created"]
    /\ queues = [h \in Handles |-> EmptyQueue]
    /\ sched = IdleScheduler
    /\ nextSession = 1 /\ entries = {} /\ returned = {}
    /\ nextTimer = 1 /\ timers = {} /\ tick = 0 /\ expired = {}
    /\ stack = <<>>
    /\ metrics = [c \in Counters |-> 0]

(***************************************************************************)
(* Code that may call the system is in control: the owner of the system    *)
(* between dispatches, or the handler of the innermost frame.              *)
(***************************************************************************)
Caller == expired = {} /\ (stack # <<>> => Top.phase = "handler")

(***************************************************************************)
(* register_service: the handle is used up even if the name is taken.      *)
(***************************************************************************)
RegisterService(n) ==
    /\ Caller
    /\ nextHandle <= MaxHandle
    /\ nextHandle' = nextHandle + 1
    /\ IF CanRegister(registry, nextHandle, n)
       THEN /\ registry' = RegisterName(registry, nextHandle, n)
            /\ state' = [state EXCEPT ![nextHandle] = "Running"]
       ELSE UNCHANGED <<registry, state>>
    /\ UNCHANGED <<queues, sched, nextSession, entries, returned, nextTimer,
                   timers, tick, expired, stack, metrics>>

(***************************************************************************)
(* send, as used by every operation that delivers a message.  Its bound is *)
(* a guard of those operations: CanOffer.                                  *)
(***************************************************************************)
CanOffer == metrics["enqueued"] + metrics["dropped"] < MaxSend

Deliverable(m) ==
    /\ state[m.target] = "Running"
    /\ AcceptsMessage(m.target, m)

Counted(m) ==
    LET q == Enqueue(queues[m.target], m)
    IN  [metrics EXCEPT !["enqueued"] = @ + 1,
                        !["timer"] = IF m.type = "Timer" THEN @ + 1 ELSE @,
                        !["overload"] = IF Overloaded(q) THEN @ + 1 ELSE @,
                        !["peak"] = IF Size(q) > @ THEN Size(q) ELSE @]

SendCountsDropped(m) ==       \* mutation: the message is counted before it is accepted
    IF Deliverable(m)
    THEN /\ queues' = [queues EXCEPT ![m.target] = TakeOverload(Enqueue(@, m))]
         /\ sched' = MarkReady(sched, m.target)
         /\ metrics' = Counted(m)
    ELSE /\ metrics' = [metrics EXCEPT !["enqueued"] = @ + 1, !["dropped"] = @ + 1]
         /\ UNCHANGED <<queues, sched>>

Send(m) ==
    IF Deliverable(m)
    THEN /\ queues' = [queues EXCEPT ![m.target] = TakeOverload(Enqueue(@, m))]
         /\ sched' = MarkReady(sched, m.target)
         /\ metrics' = Counted(m)
    ELSE /\ metrics' = [metrics EXCEPT !["dropped"] = @ + 1]
         /\ UNCHANGED <<queues, sched>>

SendMessage(target) ==
    /\ Caller /\ CanOffer
    /\ Send(Message("System", 0, target, 0))
    /\ UNCHANGED <<nextHandle, registry, state, nextSession, entries, returned,
                   nextTimer, timers, tick, expired, stack>>

(***************************************************************************)
(* stop_service leaves the mailbox and the place in the ready queue alone. *)
(***************************************************************************)
StopService(h) ==
    /\ Caller
    /\ state[h] = "Running"
    /\ state' = [state EXCEPT ![h] = "Stopped"]
    /\ UNCHANGED <<nextHandle, registry, queues, sched, nextSession, entries,
                   returned, nextTimer, timers, tick, expired, stack, metrics>>

(***************************************************************************)
(* release_service erases the slot with its mailbox, but not the handle's  *)
(* place in the ready queue.                                               *)
(***************************************************************************)
ReleaseService(h) ==
    /\ Caller
    /\ Registered(h) /\ ~OnStack(h)
    /\ state' = [state EXCEPT ![h] = "Released"]
    /\ entries' = CancelForHandle(entries, h)
    /\ timers' = CancelForTarget(timers, h)
    /\ registry' = UnregisterHandle(registry, h)
    /\ queues' = [queues EXCEPT ![h] = EmptyQueue]
    /\ UNCHANGED <<nextHandle, sched, nextSession, returned, nextTimer, tick,
                   expired, stack, metrics>>

(***************************************************************************)
(* call opens the session before it sends the request.                     *)
(***************************************************************************)
Call(source, target) ==
    /\ Caller /\ CanOffer
    /\ nextSession <= MaxSession
    /\ Registered(source) /\ Registered(target)
    /\ entries' = BeginSession(entries, nextSession, source, target)
    /\ nextSession' = nextSession + 1
    /\ LET m == Message("Request", source, target, nextSession)
       IN  /\ Send(m)
           /\ returned' = IF Deliverable(m) THEN returned \cup {nextSession} ELSE returned
    /\ UNCHANGED <<nextHandle, registry, state, nextTimer, timers, tick, expired, stack>>

(***************************************************************************)
(* respond closes the session only if the response could be delivered.     *)
(***************************************************************************)
Respond(source, id) ==
    /\ Caller /\ CanOffer
    /\ Answerable(entries, id, source)
    /\ LET m == Message("Response", source, LookupRequester(entries, id, source), id)
       IN  /\ Send(m)
           /\ entries' = IF Deliverable(m) THEN CompleteSession(entries, id, source)
                                           ELSE entries
    /\ UNCHANGED <<nextHandle, registry, state, nextSession, returned, nextTimer,
                   timers, tick, expired, stack>>

(***************************************************************************)
(* schedule_timeout does not look at its target.                           *)
(***************************************************************************)
ScheduleTimeout(target, delay) ==
    /\ Caller
    /\ nextTimer <= MaxTimer
    /\ timers' = ScheduleAfter(timers, nextTimer, target, tick, delay)
    /\ nextTimer' = nextTimer + 1
    /\ UNCHANGED <<nextHandle, registry, state, queues, sched, nextSession, entries,
                   returned, tick, expired, stack, metrics>>

CancelTimeout(id) ==
    /\ Caller
    /\ \E t \in timers : t.id = id
    /\ timers' = CancelTimer(timers, id)
    /\ UNCHANGED <<nextHandle, registry, state, queues, sched, nextSession, entries,
                   returned, nextTimer, tick, expired, stack, metrics>>

(***************************************************************************)
(* pump_timers: poll_expired first, then one send per expired timeout.     *)
(***************************************************************************)
PumpTimers(delta) ==
    /\ Caller
    /\ tick + delta <= MaxTick
    /\ tick' = tick + delta
    /\ expired' = Due(timers, tick + delta)
    /\ timers' = timers \ Due(timers, tick + delta)
    /\ UNCHANGED <<nextHandle, registry, state, queues, sched, nextSession, entries,
                   returned, nextTimer, stack, metrics>>

PumpNext(t) ==
    /\ IsEarliest(t, expired)
    /\ expired' = expired \ {t}
    /\ Send(Message("Timer", 0, t.target, 0))
    /\ UNCHANGED <<nextHandle, registry, state, nextSession, entries, returned,
                   nextTimer, timers, tick, stack>>

(***************************************************************************)
(* dispatch_batch: acquire a ready service, or only drop it from the ready *)
(* queue if it has been released meanwhile.                                *)
(***************************************************************************)
DispatchBatch(max) ==
    /\ Caller
    /\ Depth < MaxDepth
    /\ HasReady(sched)
    /\ LET h == NextReady(sched)
       IN  IF Registered(h)
           THEN /\ sched' = AcquireNext(sched)
                /\ stack' = Append(stack, Frame(h, max, "loop"))
           ELSE /\ sched' = Complete(AcquireNext(sched), h)
                /\ UNCHANGED stack
    /\ UNCHANGED <<nextHandle, registry, state, queues, nextSession, entries,
                   returned, nextTimer, timers, tick, expired, metrics>>

InLoop == stack # <<>> /\ Top.phase = "loop"

BatchGoesOn == Top.left > 0 /\ ~IsEmpty(queues[Top.handle])

DispatchNext ==
    /\ InLoop /\ BatchGoesOn
    /\ queues' = [queues EXCEPT ![Top.handle] = Dequeue(@)]
    /\ stack' = [stack EXCEPT ![Depth] = Frame(Top.handle, Top.left, "handler")]
    /\ UNCHANGED <<nextHandle, registry, state, sched, nextSession, entries,
                   returned, nextTimer, timers, tick, expired, metrics>>

HandlerReturns ==
    /\ Caller /\ stack # <<>>
    /\ stack' = [stack EXCEPT ![Depth] = Frame(Top.handle, Top.left - 1, "loop")]
    /\ metrics' = [metrics EXCEPT !["dispatched"] = @ + 1]
    /\ UNCHANGED <<nextHandle, registry, state, queues, sched, nextSession, entries,
                   returned, nextTimer, timers, tick, expired>>

BatchEndsUnqueued ==          \* mutation: the rest of the mailbox is forgotten
    /\ InLoop /\ ~BatchGoesOn
    /\ sched' = Complete(sched, Top.handle)
    /\ stack' = SubSeq(stack, 1, Depth - 1)
    /\ UNCHANGED <<nextHandle, registry, state, queues, nextSession, entries,
                   returned, nextTimer, timers, tick, expired, metrics>>

BatchEndsRequeued ==          \* mutation: marked ready with an empty mailbox too
    /\ InLoop /\ ~BatchGoesOn
    /\ sched' = MarkReady(Complete(sched, Top.handle), Top.handle)
    /\ stack' = SubSeq(stack, 1, Depth - 1)
    /\ UNCHANGED <<nextHandle, registry, state, queues, nextSession, entries,
                   returned, nextTimer, timers, tick, expired, metrics>>

BatchEnds ==
    /\ InLoop /\ ~BatchGoesOn
    /\ LET h == Top.handle
           done == Complete(sched, h)
       IN  sched' = IF ~IsEmpty(queues[h]) /\ state[h] = "Running"
                    THEN MarkReady(done, h)
                    ELSE done
    /\ stack' = SubSeq(stack, 1, Depth - 1)
    /\ UNCHANGED <<nextHandle, registry, state, queues, nextSession, entries,
                   returned, nextTimer, timers, tick, expired, metrics>>

(***************************************************************************)
(* shutdown, called by the owner of the system: every service is released. *)
(***************************************************************************)
Shutdown ==
    /\ Caller /\ stack = <<>>
    /\ \E h \in Handles : Registered(h)
    /\ state' = [h \in Handles |-> IF Registered(h) THEN "Released" ELSE state[h]]
    /\ entries' = {e \in entries : ~Registered(e.caller) /\ ~Registered(e.callee)}
    /\ timers' = {t \in timers : ~Registered(t.target)}
    /\ registry' = EmptyRegistry
    /\ queues' = [h \in Handles |-> EmptyQueue]
    /\ UNCHANGED <<nextHandle, sched, nextSession, returned, nextTimer, tick,
                   expired, stack, metrics>>

Next ==
    \/ \E n \in Names \cup {AnonymousName} : RegisterService(n)
    \/ \E h \in Handles : SendMessage(h) \/ StopService(h) \/ ReleaseService(h)
    \/ \E s, t \in Handles : Call(s, t)
    \/ \E s \in Handles, id \in 1 .. MaxSession : Respond(s, id)
    \/ \E t \in Handles, d \in 0 .. MaxDelay : ScheduleTimeout(t, d)
    \/ \E id \in 1 .. MaxTimer : CancelTimeout(id)
    \/ \E d \in 1 .. MaxTick : PumpTimers(d)
    \/ \E t \in expired : PumpNext(t)
    \/ \E max \in 1 .. MaxBatch : DispatchBatch(max)
    \/ DispatchNext \/ HandlerReturns \/ BatchEnds
    \/ Shutdown

Spec == Init /\ [][Next]_vars

(***************************************************************************)
(* The owner keeps dispatching and every handler returns: the worker loop  *)
(* calls pump_timers and dispatch_batch again and again.                   *)
(***************************************************************************)
Fairness ==
    /\ WF_vars(\E t \in expired : PumpNext(t))
    /\ WF_vars(DispatchNext \/ HandlerReturns \/ BatchEnds)
    /\ WF_vars(\E max \in 1 .. MaxBatch : DispatchBatch(max))

FairSpec == Spec /\ Fairness

-----------------------------------------------------------------------------
(***************************************************************************)
(* Safety properties.                                                      *)
(***************************************************************************)
Queues == [messages : Seq(Messages), threshold : Nat \ {0}, overload : {0}]

Schedulers == [handles : Seq(Handles), queued : SUBSET Handles,
               inFlight : SUBSET Handles]

Timeouts == [id : 1 .. MaxTimer, target : Handles, expire : Nat]

(* Type invariant.  It includes that send leaves no overload untaken.      *)
TypeOK ==
    /\ nextHandle \in 1 .. MaxHandle + 1
    /\ registry \in [byHandle : [Handles -> Names \cup {NoName, AnonymousName}],
                     byName : [Names -> 0 .. MaxHandle]]
    /\ state \in [Handles -> ServiceStates]
    /\ queues \in [Handles -> Queues]
    /\ sched \in Schedulers
    /\ nextSession \in 1 .. MaxSession + 1
    /\ entries \subseteq [id : 1 .. MaxSession, caller : Handles, callee : Handles]
    /\ returned \subseteq 1 .. MaxSession
    /\ nextTimer \in 1 .. MaxTimer + 1
    /\ timers \subseteq Timeouts /\ expired \subseteq Timeouts
    /\ tick \in Nat
    /\ stack \in Seq(Frames)
    /\ metrics \in [Counters -> Nat]

(* A service executes at most one message at a time, however handlers nest *)
(* dispatch_batch: no service has two frames on the stack, and the         *)
(* scheduler's in-flight set is exactly the services being executed.       *)
SerialExecution ==
    /\ \A i, j \in 1 .. Depth : stack[i].handle = stack[j].handle => i = j
    /\ sched.inFlight = {stack[i].handle : i \in 1 .. Depth}

(* The ready queue holds a service at most once, its index agrees with it, *)
(* and a service in flight is never also ready.                            *)
ReadyQueueConsistent ==
    /\ sched.queued = {sched.handles[i] : i \in 1 .. Len(sched.handles)}
    /\ \A i, j \in 1 .. Len(sched.handles) :
          sched.handles[i] = sched.handles[j] => i = j
    /\ sched.queued \cap sched.inFlight = {}

(* No wake-up is lost: a running service with messages is ready, or in     *)
(* flight and will be marked ready again when its batch ends.              *)
NoLostWakeup ==
    \A h \in Handles :
        state[h] = "Running" /\ ~IsEmpty(queues[h])
            => h \in sched.queued \cup sched.inFlight

(* A service in the ready queue that has not been released has a message:  *)
(* a batch for it dispatches at least one, so only a released service can  *)
(* make dispatch_batch return 0 while services are ready.                  *)
ReadyHasWork ==
    \A h \in sched.queued : Registered(h) => ~IsEmpty(queues[h])

(* release_service and shutdown leave nothing of a service behind: no mail *)
(* in a mailbox without a slot, no session and no frame of such a service. *)
(* Of timeouts nothing is said: schedule_timeout takes any target, so one  *)
(* may be pending for a released service; send then drops its message.     *)
NothingOutlivesRelease ==
    /\ \A h \in Handles : ~Registered(h) => IsEmpty(queues[h])
    /\ \A e \in entries : Registered(e.caller) /\ Registered(e.callee)
    /\ \A i \in 1 .. Depth : Registered(stack[i].handle)

(* Every request gets at most one response: while a session is pending no  *)
(* response to it is under way, and never are two.                         *)
MailOf(h) == queues[h].messages

OneResponsePerSession ==
    \A g, h \in Handles : \A i \in DOMAIN MailOf(g) :
        MailOf(g)[i].type = "Response" =>
            /\ \A e \in entries : e.id # MailOf(g)[i].session
            /\ \A j \in DOMAIN MailOf(h) :
                   MailOf(h)[j].type = "Response" /\ MailOf(h)[j].session = MailOf(g)[i].session
                       => g = h /\ i = j

(* The two maps of the handle registry and the slots agree.                *)
RegistryConsistent ==
    /\ \A h \in Handles : Registered(h) <=> ContainsHandle(registry, h)
    /\ \A h \in Handles, n \in Names :
          registry.byName[n] = h <=> registry.byHandle[h] = n
    /\ \A h \in Handles : h >= nextHandle => state[h] = "Created"

(* A mailbox never outgrows its threshold unnoticed: every crossing has    *)
(* doubled it, which is also why the doubling loop of enqueue runs at most *)
(* once.                                                                   *)
WithinThreshold ==
    \A h \in Handles : Size(queues[h]) <= queues[h].threshold

(* The metrics account for every accepted message: it is in a mailbox, in  *)
(* the hands of a handler, or dispatched; only the release of a service    *)
(* (which discards its mailbox) makes the sum fall short.                  *)
Executing == Cardinality({i \in 1 .. Depth : stack[i].phase = "handler"})

QueuedMessages == MapThenSumSet(LAMBDA h : Size(queues[h]), Handles)

MetricsBalance ==
    /\ metrics["dispatched"] + Executing + QueuedMessages <= metrics["enqueued"]
    /\ (\A h \in Handles : state[h] # "Released")
          => metrics["dispatched"] + Executing + QueuedMessages = metrics["enqueued"]
    /\ \A h \in Handles : Size(queues[h]) <= metrics["peak"]

-----------------------------------------------------------------------------
(***************************************************************************)
(* Action and liveness properties.                                         *)
(***************************************************************************)

(* The ready queue is fair: a service that waits in it never falls back.   *)
NoOvertaking ==
    [][\A i \in 1 .. Len(sched.handles) : \A j \in 1 .. Len(sched'.handles) :
           sched'.handles[j] = sched.handles[i] => j <= i]_vars

(* Every mailbox is drained unless its service is stopped or released.     *)
EventuallyServed ==
    \A h \in Handles :
        state[h] = "Running" /\ ~IsEmpty(queues[h])
            ~> state[h] # "Running" \/ IsEmpty(queues[h])

-----------------------------------------------------------------------------
(***************************************************************************)
(* What comments of the code say and the code does not keep.               *)
(***************************************************************************)

(* session_manager.h: a pending session is one whose request waits for a   *)
(* response.  call leaves an entry behind for a request that it could not  *)
(* send and whose identifier nobody was told.                              *)
PendingIsRequested == \A e \in entries : e.id \in returned
=============================================================================
