------------------------- MODULE ActorSystem_proofs -------------------------
(***************************************************************************)
(* Theorems about the actor system, for every value of its bounds: its     *)
(* types, what a service leaves behind, the scheduler, the handle registry *)
(* and the mailboxes, sessions and responses, the order of the ready queue *)
(* and the metrics.                                                        *)
(***************************************************************************)
EXTENDS ActorSystem, Inductions, SequenceTheorems, TLAPS

(* What is left of a stack when its top is popped.                         *)
LEMMA PopProperties ==
    ASSUME NEW S, NEW s \in Seq(S), s # <<>>
    PROVE  /\ Len(SubSeq(s, 1, Len(s) - 1)) = Len(s) - 1
           /\ \A i \in 1 .. Len(s) - 1 : SubSeq(s, 1, Len(s) - 1)[i] = s[i]
<1> DEFINE n == Len(s) - 1
           p == SubSeq(s, 1, n)
<1>1. n \in Nat /\ n \in Int
  OBVIOUS
<1>2. \A i \in 1 .. n : s[i] \in S
  OBVIOUS
<1> HIDE DEF n
<1>3. /\ Len(p) = IF 1 <= n THEN n - 1 + 1 ELSE 0
      /\ \A i \in 1 .. n - 1 + 1 : p[i] = s[1 + i - 1]
  BY <1>1, <1>2, SubSeqProperties
<1> HIDE DEF p
<1>4. Len(p) = n /\ \A i \in 1 .. n : p[i] = s[i]
  BY <1>1, <1>3
<1> QED BY <1>4 DEF n, p
-----------------------------------------------------------------------------
(***************************************************************************)
(* Type correctness.  A frame in "handler" has a message of its budget in  *)
(* hand, which is why HandlerReturns cannot take the budget below zero.    *)
(***************************************************************************)
BudgetInHand == \A i \in 1 .. Depth : stack[i].phase = "handler" => stack[i].left > 0

TypeInv == TypeOK /\ BudgetInHand

(* The scheduler's operations keep it well formed.                         *)
LEMMA MarkReadyType ==
    ASSUME NEW s \in Schedulers, NEW h \in Handles
    PROVE  MarkReady(s, h) \in Schedulers
BY DEF MarkReady, Schedulers

LEMMA AcquireNextType ==
    ASSUME NEW s \in Schedulers, HasReady(s)
    PROVE  AcquireNext(s) \in Schedulers /\ NextReady(s) \in Handles
<1>1. Head(s.handles) \in Handles /\ Tail(s.handles) \in Seq(Handles)
  BY DEF HasReady, Schedulers
<1> QED BY <1>1 DEF AcquireNext, NextReady, Schedulers

LEMMA CompleteType ==
    ASSUME NEW s \in Schedulers, NEW h
    PROVE  Complete(s, h) \in Schedulers
BY DEF Complete, Schedulers

(* send keeps the mailboxes, the scheduler and the metrics well formed.    *)
LEMMA SendType ==
    ASSUME TypeOK, NEW m \in Messages, Send(m)
    PROVE  /\ queues' \in [Handles -> Queues]
           /\ sched' \in Schedulers
           /\ metrics' \in [Counters -> Nat]
<1>1. CASE Deliverable(m)
  <2>1. m.target \in Handles
    BY DEF Messages
  <2>2. queues[m.target] \in Queues
    BY <2>1 DEF TypeOK
  <2>3. TakeOverload(Enqueue(queues[m.target], m)) \in Queues
    BY <2>2 DEF Queues, TakeOverload, Enqueue
  <2>4. queues' \in [Handles -> Queues]
    BY <1>1, <2>1, <2>3 DEF Send, TypeOK
  <2>5. sched' \in Schedulers
    BY <1>1, <2>1, MarkReadyType DEF Send, TypeOK
  <2>6. Size(Enqueue(queues[m.target], m)) \in Nat
    BY <2>2 DEF Queues, Size, Enqueue
  <2>7. metrics' \in [Counters -> Nat]
    <3> DEFINE q == Enqueue(queues[m.target], m)
    <3>1. metrics' = Counted(m) /\ metrics \in [Counters -> Nat] /\ Size(q) \in Nat
      BY <1>1, <2>6 DEF Send, TypeOK
    <3> HIDE DEF q
    <3> QED BY <3>1 DEF Counted, Counters, q
  <2> QED BY <2>4, <2>5, <2>7
<1>2. CASE ~Deliverable(m)
  BY <1>2 DEF Send, TypeOK, Counters
<1> QED BY <1>1, <1>2

LEMMA InitType == Init => TypeInv
BY BaseThresholdAssumption, RegistryAssumption, BoundsAssumption
   DEF Init, TypeInv, TypeOK, BudgetInHand, Depth, EmptyRegistry, EmptyQueue,
       IdleScheduler, Schedulers, Counters, Queues, ServiceStates, Handles, Timeouts

LEMMA NextType == TypeInv /\ [Next]_vars => TypeInv'
<1> SUFFICES ASSUME TypeInv, [Next]_vars PROVE TypeInv'
  OBVIOUS
<1> USE BaseThresholdAssumption, RegistryAssumption, BoundsAssumption
<1> USE DEF TypeInv
<1>1. CASE UNCHANGED vars
  BY <1>1 DEF vars, TypeOK, BudgetInHand, Depth
<1>2. ASSUME NEW n \in Names \cup {AnonymousName}, RegisterService(n) PROVE TypeInv'
  <2>1. nextHandle \in Handles /\ nextHandle' \in 1 .. MaxHandle + 1
    BY <1>2 DEF RegisterService, TypeOK, Handles
  <2>2. RegisterName(registry, nextHandle, n)
            \in [byHandle : [Handles -> Names \cup {NoName, AnonymousName}],
                byName : [Names -> 0 .. MaxHandle]]
    BY <2>1 DEF RegisterName, TypeOK, Handles
  <2> QED BY <1>2, <2>1, <2>2 DEF RegisterService, TypeOK, BudgetInHand, Depth, ServiceStates
<1>3. ASSUME NEW h \in Handles, SendMessage(h) PROVE TypeInv'
  <2>1. Message("System", 0, h, 0) \in Messages
    BY DEF Message, Messages, MessageTypes
  <2> QED BY <1>3, <2>1, SendType DEF SendMessage, TypeOK, BudgetInHand, Depth
<1>4. ASSUME NEW h \in Handles, StopService(h) PROVE TypeInv'
  BY <1>4 DEF StopService, TypeOK, BudgetInHand, Depth, ServiceStates
<1>5. ASSUME NEW h \in Handles, ReleaseService(h) PROVE TypeInv'
  BY <1>5, SMTT(30) DEF ReleaseService, TypeOK, BudgetInHand, Depth, ServiceStates, Queues,
              EmptyQueue, CancelForHandle, CancelForTarget, UnregisterHandle
<1>6. ASSUME NEW s \in Handles, NEW t \in Handles, Call(s, t) PROVE TypeInv'
  <2>1. Message("Request", s, t, nextSession) \in Messages
    BY <1>6 DEF Call, Message, Messages, MessageTypes, TypeOK, Handles
  <2>2. entries' \subseteq [id : 1 .. MaxSession, caller : Handles, callee : Handles]
    BY <1>6 DEF Call, TypeOK, BeginSession, Entry
  <2> QED BY <1>6, <2>1, <2>2, SendType, SMTT(30) DEF Call, TypeOK, BudgetInHand, Depth
<1>7. ASSUME NEW s \in Handles, NEW id \in 1 .. MaxSession, Respond(s, id) PROVE TypeInv'
  <2>1. LookupRequester(entries, id, s) \in Handles
    BY <1>7 DEF Respond, Answerable, LookupRequester, TypeOK
  <2>2. Message("Response", s, LookupRequester(entries, id, s), id) \in Messages
    BY <2>1 DEF Message, Messages, MessageTypes, Handles
  <2>3. entries' \subseteq entries
    BY <1>7 DEF Respond, CompleteSession
  <2> QED BY <1>7, <2>2, <2>3, SendType DEF Respond, TypeOK, BudgetInHand, Depth
<1>8. ASSUME NEW t \in Handles, NEW d \in 0 .. MaxDelay, ScheduleTimeout(t, d)
      PROVE  TypeInv'
  BY <1>8, SMTT(30)
     DEF ScheduleTimeout, TypeOK, BudgetInHand, Depth, ScheduleAfter, Timeout, Timeouts
<1>9. ASSUME NEW id \in 1 .. MaxTimer, CancelTimeout(id) PROVE TypeInv'
  BY <1>9 DEF CancelTimeout, TypeOK, BudgetInHand, Depth, CancelTimer
<1>10. ASSUME NEW d \in 1 .. MaxTick, PumpTimers(d) PROVE TypeInv'
  BY <1>10 DEF PumpTimers, TypeOK, BudgetInHand, Depth, Due
<1>11. ASSUME NEW t \in expired, PumpNext(t) PROVE TypeInv'
  <2>1. Message("Timer", 0, t.target, 0) \in Messages
    BY DEF Message, Messages, MessageTypes, TypeOK, Timeouts
  <2> QED BY <1>11, <2>1, SendType DEF PumpNext, TypeOK, BudgetInHand, Depth
<1>12. ASSUME NEW max \in 1 .. MaxBatch, DispatchBatch(max) PROVE TypeInv'
  <2>1. AcquireNext(sched) \in Schedulers /\ NextReady(sched) \in Handles
    BY <1>12, AcquireNextType DEF DispatchBatch, TypeOK
  <2>2. sched' \in Schedulers
    BY <1>12, <2>1, CompleteType DEF DispatchBatch
  <2>3. /\ Frame(NextReady(sched), max, "loop") \in Frames
        /\ Frame(NextReady(sched), max, "loop").phase # "handler"
    BY <2>1 DEF Frame, Frames
  <2>4. CASE stack' = stack
    BY <2>4, <2>2, <1>12 DEF DispatchBatch, TypeOK, BudgetInHand, Depth
  <2>5. CASE stack' = Append(stack, Frame(NextReady(sched), max, "loop"))
    <3>1. stack' \in Seq(Frames)
      BY <2>3, <2>5 DEF TypeOK
    <3>2. BudgetInHand'
      BY <2>3, <2>5 DEF TypeOK, BudgetInHand, Depth
    <3> QED BY <3>1, <3>2, <2>2, <1>12 DEF DispatchBatch, TypeOK
  <2> QED BY <1>12, <2>4, <2>5 DEF DispatchBatch
<1>13. ASSUME DispatchNext PROVE TypeInv'
  <2>1. Depth \in 1 .. Len(stack) /\ Top \in Frames
    BY <1>13 DEF DispatchNext, InLoop, TypeOK, Depth, Top
  <2>2. queues[Top.handle] \in Queues /\ queues[Top.handle].messages # <<>>
    BY <1>13, <2>1 DEF DispatchNext, BatchGoesOn, IsEmpty, TypeOK, Frames
  <2>3. Dequeue(queues[Top.handle]) \in Queues
    BY <2>2 DEF Dequeue, Queues
  <2>4. queues' \in [Handles -> Queues]
    BY <1>13, <2>3 DEF DispatchNext, TypeOK
  <2>5. stack' \in Seq(Frames) /\ BudgetInHand'
    BY <1>13, <2>1 DEF DispatchNext, BatchGoesOn, TypeOK, BudgetInHand, Depth, Frame, Frames
  <2> QED BY <1>13, <2>4, <2>5 DEF DispatchNext, TypeOK
<1>14. ASSUME HandlerReturns PROVE TypeInv'
  <2>1. Depth \in 1 .. Len(stack) /\ Top \in Frames /\ Top.left > 0
    BY <1>14 DEF HandlerReturns, Caller, TypeOK, BudgetInHand, Depth, Top
  <2>2. stack' \in Seq(Frames) /\ BudgetInHand'
    BY <1>14, <2>1 DEF HandlerReturns, TypeOK, BudgetInHand, Depth, Frame, Frames
  <2> QED BY <1>14, <2>2 DEF HandlerReturns, TypeOK, Counters
<1>15. ASSUME BatchEnds PROVE TypeInv'
  <2>1. Depth \in 1 .. Len(stack) /\ Top \in Frames
    BY <1>15 DEF BatchEnds, InLoop, TypeOK, Depth, Top
  <2>2. sched' \in Schedulers
    BY <1>15, <2>1, CompleteType, MarkReadyType DEF BatchEnds, TypeOK, Frames
  <2>3. stack' \in Seq(Frames) /\ BudgetInHand'
    BY <1>15, <2>1 DEF BatchEnds, TypeOK, BudgetInHand, Depth
  <2> QED BY <1>15, <2>2, <2>3 DEF BatchEnds, TypeOK
<1>16. ASSUME Shutdown PROVE TypeInv'
  <2>1. EmptyQueue \in Queues
    BY DEF EmptyQueue, Queues
  <2>2. EmptyRegistry \in [byHandle : [Handles -> Names \cup {NoName, AnonymousName}],
                          byName : [Names -> 0 .. MaxHandle]]
    BY DEF EmptyRegistry
  <2>3. state' \in [Handles -> ServiceStates]
    BY <1>16 DEF Shutdown, TypeOK, ServiceStates
  <2> QED BY <1>16, <2>1, <2>2, <2>3 DEF Shutdown, TypeOK, BudgetInHand, Depth
<1> QED BY <1>1, <1>2, <1>3, <1>4, <1>5, <1>6, <1>7, <1>8, <1>9, <1>10, <1>11,
           <1>12, <1>13, <1>14, <1>15, <1>16 DEF Next

(***************************************************************************)
(* Every reachable state of the actor system is well typed.                *)
(***************************************************************************)
THEOREM TypeCorrect == Spec => []TypeOK
<1>1. Spec => []TypeInv
  BY InitType, NextType, PTL DEF Spec
<1> QED BY <1>1, PTL DEF TypeInv

-----------------------------------------------------------------------------
(***************************************************************************)
(* Scheduling.  The five parts of SchedInv hold one another up: a wake-up  *)
(* is not lost because mark_ready only refuses services that are ready or  *)
(* in flight, a service in flight is one on the dispatch stack, and the    *)
(* end of its batch marks it ready again; a released service has no frame, *)
(* so what is in flight has a mailbox.                                     *)
(***************************************************************************)
Consistent(s) ==
    /\ s.queued = {s.handles[i] : i \in 1 .. Len(s.handles)}
    /\ \A i, j \in 1 .. Len(s.handles) : s.handles[i] = s.handles[j] => i = j
    /\ s.queued \cap s.inFlight = {}

(* Handles are allocated in order and only a registered one is scheduled.  *)
HandlesInOrder ==
    /\ \A h \in Handles : h >= nextHandle => state[h] = "Created"
    /\ \A h \in sched.queued : state[h] # "Created"

SchedInv ==
    /\ SerialExecution
    /\ ReadyQueueConsistent
    /\ NoLostWakeup
    /\ ReadyHasWork
    /\ NothingOutlivesRelease
    /\ HandlesInOrder

LEMMA MarkReadyEffect ==
    ASSUME NEW s \in Schedulers, NEW h \in Handles, Consistent(s)
    PROVE  /\ Consistent(MarkReady(s, h))
           /\ MarkReady(s, h).inFlight = s.inFlight
           /\ MarkReady(s, h).queued = IF h \in s.inFlight THEN s.queued
                                                          ELSE s.queued \cup {h}
<1>1. CASE h \in s.inFlight \/ h \in s.queued
  BY <1>1 DEF MarkReady
<1>2. CASE h \notin s.inFlight /\ h \notin s.queued
  <2>1. h # 0
    BY DEF Handles
  <2> DEFINE t == MarkReady(s, h)
  <2>2. /\ t.handles = Append(s.handles, h)
        /\ t.queued = s.queued \cup {h}
        /\ t.inFlight = s.inFlight
    BY <1>2, <2>1 DEF MarkReady
  <2>3. s.handles \in Seq(Handles)
    BY DEF Schedulers
  <2>4. /\ Len(t.handles) = Len(s.handles) + 1
        /\ t.handles[Len(s.handles) + 1] = h
        /\ \A i \in 1 .. Len(s.handles) : t.handles[i] = s.handles[i]
    BY <2>2, <2>3
  <2>5. t.queued = {t.handles[i] : i \in 1 .. Len(t.handles)}
    BY <2>2, <2>3, <2>4 DEF Consistent
  <2>6. \A i, j \in 1 .. Len(t.handles) : t.handles[i] = t.handles[j] => i = j
    BY <1>2, <2>3, <2>4, SMTT(30) DEF Consistent
  <2> QED BY <1>2, <2>2, <2>5, <2>6 DEF Consistent
<1> QED BY <1>1, <1>2

LEMMA AcquireNextEffect ==
    ASSUME NEW s \in Schedulers, HasReady(s), Consistent(s)
    PROVE  /\ Consistent(AcquireNext(s))
           /\ NextReady(s) \in s.queued
           /\ NextReady(s) \notin s.inFlight
           /\ AcquireNext(s).queued = s.queued \ {NextReady(s)}
           /\ AcquireNext(s).inFlight = s.inFlight \cup {NextReady(s)}
<1> DEFINE t == AcquireNext(s)
<1>1. s.handles \in Seq(Handles) /\ s.handles # <<>>
  BY DEF Schedulers, HasReady
<1>2. /\ NextReady(s) = s.handles[1]
      /\ t.handles = Tail(s.handles)
      /\ t.queued = s.queued \ {s.handles[1]}
      /\ t.inFlight = s.inFlight \cup {s.handles[1]}
  BY <1>1 DEF NextReady, AcquireNext
<1>3. /\ Len(s.handles) \in Nat /\ Len(s.handles) > 0
      /\ Len(t.handles) = Len(s.handles) - 1
      /\ \A i \in 1 .. Len(t.handles) : t.handles[i] = s.handles[i + 1]
  BY <1>1, <1>2
<1>4. \A i, j \in 1 .. Len(t.handles) : t.handles[i] = t.handles[j] => i = j
  BY <1>3 DEF Consistent
<1>5. t.queued = {t.handles[i] : i \in 1 .. Len(t.handles)}
  <2>1. ASSUME NEW x \in t.queued PROVE \E i \in 1 .. Len(t.handles) : x = t.handles[i]
    <3>1. PICK k \in 1 .. Len(s.handles) : x = s.handles[k] /\ k # 1
      BY <2>1, <1>2 DEF Consistent
    <3>2. k - 1 \in 1 .. Len(t.handles) /\ t.handles[k - 1] = s.handles[k]
      BY <3>1, <1>3
    <3> QED BY <3>1, <3>2
  <2>2. ASSUME NEW i \in 1 .. Len(t.handles) PROVE t.handles[i] \in t.queued
    <3>1. i + 1 \in 1 .. Len(s.handles) /\ 1 \in 1 .. Len(s.handles) /\ i + 1 # 1
      BY <1>3
    <3>2. s.handles[i + 1] # s.handles[1] /\ s.handles[i + 1] \in s.queued
      BY <3>1 DEF Consistent
    <3> QED BY <3>2, <1>2, <1>3
  <2> QED BY <2>1, <2>2
<1>6. s.handles[1] \in s.queued
  BY <1>3 DEF Consistent
<1>7. t.queued \cap t.inFlight = {}
  BY <1>2 DEF Consistent
<1>8. Consistent(t)
  BY <1>4, <1>5, <1>7 DEF Consistent
<1>9. s.handles[1] \notin s.inFlight
  BY <1>6 DEF Consistent
<1> QED BY <1>2, <1>6, <1>8, <1>9

LEMMA CompleteEffect ==
    ASSUME NEW s \in Schedulers, NEW h, Consistent(s)
    PROVE  /\ Consistent(Complete(s, h))
           /\ Complete(s, h).queued = s.queued
           /\ Complete(s, h).inFlight = s.inFlight \ {h}
BY DEF Complete, Consistent

(* send wakes the service it gives a message to, and no other.             *)
LEMMA SendSched ==
    ASSUME TypeOK, SchedInv, NEW m \in Messages, Send(m), UNCHANGED <<nextHandle, state, stack>>
    PROVE  /\ SerialExecution' /\ ReadyQueueConsistent'
           /\ NoLostWakeup' /\ ReadyHasWork' /\ HandlesInOrder'
           /\ \A h \in Handles : ~Registered(h)' => IsEmpty(queues[h])'
           /\ \A i \in 1 .. Depth' : Registered(stack[i].handle)'
<1>1. CASE ~Deliverable(m)
  <2>1. UNCHANGED <<queues, sched>>
    BY <1>1 DEF Send
  <2>2. SerialExecution'
    BY <2>1 DEF SchedInv, SerialExecution, Depth
  <2>3. ReadyQueueConsistent'
    BY <2>1 DEF SchedInv, ReadyQueueConsistent
  <2>4. NoLostWakeup' /\ ReadyHasWork' /\ HandlesInOrder'
    BY <2>1 DEF SchedInv, NoLostWakeup, ReadyHasWork, HandlesInOrder, Registered, IsEmpty
  <2> QED BY <2>1, <2>2, <2>3, <2>4
          DEF SchedInv, NothingOutlivesRelease, Registered, IsEmpty, Depth
<1>2. CASE Deliverable(m)
  <2> DEFINE t == m.target
  <2>1. t \in Handles /\ state[t] = "Running"
    BY <1>2 DEF Deliverable, Messages
  <2>2. sched' = MarkReady(sched, t) /\ sched \in Schedulers /\ Consistent(sched)
    BY <1>2 DEF Send, TypeOK, SchedInv, ReadyQueueConsistent, Consistent
  <2>3. /\ Consistent(sched') /\ sched'.inFlight = sched.inFlight
        /\ sched'.queued = IF t \in sched.inFlight THEN sched.queued
                                                   ELSE sched.queued \cup {t}
    BY <2>1, <2>2, MarkReadyEffect
  <2>4. /\ \A h \in Handles \ {t} : queues'[h] = queues[h]
        /\ ~IsEmpty(queues'[t])
    <3>1. queues[t] \in Queues
      BY <2>1 DEF TypeOK
    <3>2. TakeOverload(Enqueue(queues[t], m)).messages # <<>>
      BY <3>1 DEF TakeOverload, Enqueue, Queues
    <3> QED BY <1>2, <2>1, <3>2 DEF Send, TypeOK, IsEmpty
  <2>5. SerialExecution' /\ ReadyQueueConsistent'
    <3>1. SerialExecution'
      BY <2>3 DEF SchedInv, SerialExecution, Depth
    <3>2. ReadyQueueConsistent'
      BY <2>3 DEF ReadyQueueConsistent, Consistent
    <3> QED BY <3>1, <3>2
  <2>6. NoLostWakeup'
    BY <2>3, <2>4 DEF SchedInv, NoLostWakeup
  <2>7. ReadyHasWork' /\ HandlesInOrder'
    <3>1. \A h \in sched'.queued : h \in Handles
      BY <2>1, <2>2, <2>3 DEF Schedulers
    <3> QED BY <2>1, <2>3, <2>4, <3>1 DEF SchedInv, ReadyHasWork, HandlesInOrder, Registered
  <2>8. \A h \in Handles : ~Registered(h)' => IsEmpty(queues[h])'
    BY <2>1, <2>4 DEF SchedInv, NothingOutlivesRelease, Registered
  <2> QED BY <2>5, <2>6, <2>7, <2>8
          DEF SchedInv, NothingOutlivesRelease, Registered, Depth
<1> QED BY <1>1, <1>2

(* What the types say of the handles in the scheduler, on the stack and in *)
(* sessions.                                                               *)
LEMMA HandleTypes ==
    ASSUME TypeOK
    PROVE  /\ \A h \in sched.queued : h \in Handles
           /\ Depth \in Nat
           /\ \A i \in 1 .. Depth : stack[i] \in Frames /\ stack[i].handle \in Handles
           /\ \A e \in entries : e.caller \in Handles /\ e.callee \in Handles
           /\ stack # <<>> => Depth \in 1 .. Depth /\ Top \in Frames /\ Top.handle \in Handles
<1>1. \A h \in sched.queued : h \in Handles
  BY DEF TypeOK, Schedulers
<1>2. Depth \in Nat /\ \A i \in 1 .. Depth : stack[i] \in Frames
  BY DEF TypeOK, Depth
<1>3. \A f \in Frames : f.handle \in Handles
  BY DEF Frames
<1>4. \A e \in entries : e.caller \in Handles /\ e.callee \in Handles
  BY DEF TypeOK
<1>5. stack # <<>> => Depth \in 1 .. Depth
  BY DEF TypeOK, Depth
<1> QED BY <1>1, <1>2, <1>3, <1>4, <1>5 DEF Top

(* The service of the top frame is in flight, not ready, and registered.   *)
LEMMA TopInFlight ==
    ASSUME SchedInv, Depth \in 1 .. Depth
    PROVE  Top.handle \in sched.inFlight /\ Top.handle \notin sched.queued /\ Registered(Top.handle)
<1>1. Top.handle \in sched.inFlight
  BY DEF SchedInv, SerialExecution, Top
<1>2. Top.handle \notin sched.queued
  BY <1>1 DEF SchedInv, ReadyQueueConsistent
<1>3. Registered(Top.handle)
  BY DEF SchedInv, NothingOutlivesRelease, Top
<1> QED BY <1>1, <1>2, <1>3

LEMMA InitSched == Init => SchedInv
<1> SUFFICES ASSUME Init PROVE SchedInv
  OBVIOUS
<1>1. sched.handles = <<>> /\ sched.queued = {} /\ sched.inFlight = {} /\ stack = <<>>
  BY DEF Init, IdleScheduler
<1>2. SerialExecution /\ ReadyQueueConsistent
  BY <1>1 DEF SerialExecution, ReadyQueueConsistent, Depth
<1> QED BY <1>1, <1>2 DEF Init, SchedInv, NoLostWakeup, ReadyHasWork, HandlesInOrder,
           NothingOutlivesRelease, EmptyQueue, IsEmpty, Depth

(* Steps that leave the services, the mailboxes, the scheduler and the     *)
(* stack alone, and open no session.                                       *)
LEMMA QuietSched ==
    ASSUME SchedInv, UNCHANGED <<nextHandle, state, queues, sched, stack>>, entries' \subseteq entries
    PROVE  SchedInv'
<1>1. SerialExecution'
  BY DEF SchedInv, SerialExecution, Depth
<1>2. ReadyQueueConsistent'
  BY DEF SchedInv, ReadyQueueConsistent
<1>3. NoLostWakeup' /\ ReadyHasWork' /\ HandlesInOrder'
  BY DEF SchedInv, NoLostWakeup, ReadyHasWork, HandlesInOrder, Registered, IsEmpty
<1>4. NothingOutlivesRelease'
  BY DEF SchedInv, NothingOutlivesRelease, Registered, IsEmpty, Depth
<1> QED BY <1>1, <1>2, <1>3, <1>4 DEF SchedInv

LEMMA NextSched == TypeInv /\ SchedInv /\ [Next]_vars => SchedInv'
<1> SUFFICES ASSUME TypeOK, BudgetInHand, SchedInv, [Next]_vars PROVE SchedInv'
  BY DEF TypeInv
<1> USE RegistryAssumption, BoundsAssumption
<1>1. CASE UNCHANGED vars
  BY <1>1, QuietSched DEF vars
<1>2. ASSUME NEW n \in Names \cup {AnonymousName}, RegisterService(n) PROVE SchedInv'
  <2>1. UNCHANGED <<queues, sched, stack, entries>>
    BY <1>2 DEF RegisterService
  <2>2. nextHandle \in Handles /\ state[nextHandle] = "Created"
    BY <1>2 DEF RegisterService, TypeOK, Handles, SchedInv, HandlesInOrder
  <2>3. /\ nextHandle' = nextHandle + 1
        /\ \A h \in Handles \ {nextHandle} : state'[h] = state[h]
        /\ state'[nextHandle] \in {"Running", "Created"}
    BY <1>2, <2>2 DEF RegisterService, TypeOK
  <2>4. /\ nextHandle \notin sched.queued
        /\ IsEmpty(queues[nextHandle])
        /\ \A i \in 1 .. Depth : stack[i].handle # nextHandle
        /\ \A h \in sched.queued : h \in Handles
        /\ \A i \in 1 .. Depth : stack[i].handle \in Handles
        /\ \A e \in entries : e.caller \in Handles \ {nextHandle}
                            /\ e.callee \in Handles \ {nextHandle}
    BY <2>2, HandleTypes DEF SchedInv, HandlesInOrder, NothingOutlivesRelease, Registered
  <2>5. SerialExecution'
    BY <2>1 DEF SchedInv, SerialExecution, Depth
  <2>6. ReadyQueueConsistent'
    BY <2>1 DEF SchedInv, ReadyQueueConsistent
  <2>7. NoLostWakeup' /\ ReadyHasWork'
    BY <2>1, <2>3, <2>4 DEF SchedInv, NoLostWakeup, ReadyHasWork, Registered, IsEmpty
  <2>8. HandlesInOrder'
    BY <2>1, <2>2, <2>3, <2>4 DEF SchedInv, HandlesInOrder, Handles
  <2>9. NothingOutlivesRelease'
    BY <2>1, <2>3, <2>4 DEF SchedInv, NothingOutlivesRelease, Registered, IsEmpty, Depth
  <2> QED BY <2>5, <2>6, <2>7, <2>8, <2>9 DEF SchedInv
<1>3. ASSUME NEW h \in Handles, SendMessage(h) PROVE SchedInv'
  <2>1. Message("System", 0, h, 0) \in Messages
    BY DEF Message, Messages, MessageTypes
  <2>2. UNCHANGED <<nextHandle, state, stack, entries>> /\ Send(Message("System", 0, h, 0))
    BY <1>3 DEF SendMessage
  <2>3. \A e \in entries' : Registered(e.caller)' /\ Registered(e.callee)'
    BY <2>2 DEF SchedInv, NothingOutlivesRelease, Registered
  <2> QED BY <2>1, <2>2, <2>3, SendSched DEF SchedInv, NothingOutlivesRelease
<1>4. ASSUME NEW h \in Handles, StopService(h) PROVE SchedInv'
  <2>1. UNCHANGED <<nextHandle, queues, sched, stack, entries>>
    BY <1>4 DEF StopService
  <2>2. /\ \A g \in Handles \ {h} : state'[g] = state[g]
        /\ state[h] = "Running" /\ state'[h] = "Stopped"
    BY <1>4 DEF StopService, TypeOK
  <2>3. \A g \in Handles : Registered(g)' <=> Registered(g)
    BY <2>2 DEF Registered
  <2>4. /\ \A g \in sched.queued : g \in Handles
        /\ \A i \in 1 .. Depth : stack[i].handle \in Handles
        /\ \A e \in entries : e.caller \in Handles /\ e.callee \in Handles
    BY HandleTypes
  <2>5. SerialExecution'
    BY <2>1 DEF SchedInv, SerialExecution, Depth
  <2>6. ReadyQueueConsistent'
    BY <2>1 DEF SchedInv, ReadyQueueConsistent
  <2>7. NoLostWakeup' /\ ReadyHasWork' /\ HandlesInOrder'
    BY <2>1, <2>2, <2>3, <2>4
       DEF SchedInv, NoLostWakeup, ReadyHasWork, HandlesInOrder, IsEmpty
  <2>8. NothingOutlivesRelease'
    BY <2>1, <2>3, <2>4 DEF SchedInv, NothingOutlivesRelease, IsEmpty, Depth
  <2> QED BY <2>5, <2>6, <2>7, <2>8 DEF SchedInv
<1>5. ASSUME NEW h \in Handles, ReleaseService(h) PROVE SchedInv'
  <2>1. UNCHANGED <<nextHandle, sched, stack>> /\ entries' = CancelForHandle(entries, h)
    BY <1>5 DEF ReleaseService
  <2>2. /\ \A g \in Handles \ {h} : state'[g] = state[g] /\ queues'[g] = queues[g]
        /\ state[h] # "Created" /\ state'[h] = "Released" /\ IsEmpty(queues'[h])
    BY <1>5 DEF ReleaseService, TypeOK, Registered, EmptyQueue, IsEmpty
  <2>3. /\ \A g \in sched.queued : g \in Handles
        /\ \A i \in 1 .. Depth : stack[i].handle \in Handles \ {h}
        /\ \A e \in entries' : e \in entries /\ e.caller \in Handles \ {h}
                                             /\ e.callee \in Handles \ {h}
    BY <1>5, <2>1, HandleTypes DEF ReleaseService, OnStack, CancelForHandle
  <2>4. SerialExecution'
    BY <2>1 DEF SchedInv, SerialExecution, Depth
  <2>5. ReadyQueueConsistent'
    BY <2>1 DEF SchedInv, ReadyQueueConsistent
  <2>6. NoLostWakeup' /\ ReadyHasWork' /\ HandlesInOrder'
    BY <2>1, <2>2, <2>3
       DEF SchedInv, NoLostWakeup, ReadyHasWork, HandlesInOrder, IsEmpty, Registered
  <2>7. NothingOutlivesRelease'
    BY <2>1, <2>2, <2>3
       DEF SchedInv, NothingOutlivesRelease, IsEmpty, Registered, Depth
  <2> QED BY <2>4, <2>5, <2>6, <2>7 DEF SchedInv
<1>6. ASSUME NEW s \in Handles, NEW t \in Handles, Call(s, t) PROVE SchedInv'
  <2> DEFINE m == Message("Request", s, t, nextSession)
  <2>1. m \in Messages
    BY <1>6 DEF Call, Message, Messages, MessageTypes, TypeOK, Handles
  <2>2. UNCHANGED <<nextHandle, state, stack>> /\ Send(m)
    BY <1>6 DEF Call
  <2>3. \A e \in entries' : Registered(e.caller)' /\ Registered(e.callee)'
    BY <1>6, <2>2 DEF Call, BeginSession, Entry, SchedInv, NothingOutlivesRelease, Registered
  <2> HIDE DEF m
  <2> QED BY <2>1, <2>2, <2>3, SendSched DEF SchedInv, NothingOutlivesRelease
<1>7. ASSUME NEW s \in Handles, NEW id \in 1 .. MaxSession, Respond(s, id) PROVE SchedInv'
  <2> DEFINE m == Message("Response", s, LookupRequester(entries, id, s), id)
  <2>1. LookupRequester(entries, id, s) \in Handles
    BY <1>7 DEF Respond, Answerable, LookupRequester, TypeOK
  <2>2. m \in Messages
    BY <2>1 DEF Message, Messages, MessageTypes, Handles
  <2>3. UNCHANGED <<nextHandle, state, stack>> /\ Send(m) /\ entries' \subseteq entries
    BY <1>7 DEF Respond, CompleteSession
  <2>4. \A e \in entries' : Registered(e.caller)' /\ Registered(e.callee)'
    BY <2>3 DEF SchedInv, NothingOutlivesRelease, Registered
  <2> HIDE DEF m
  <2> QED BY <2>2, <2>3, <2>4, SendSched DEF SchedInv, NothingOutlivesRelease
<1>8. ASSUME NEW t \in Handles, NEW d \in 0 .. MaxDelay, ScheduleTimeout(t, d)
      PROVE  SchedInv'
  BY <1>8, QuietSched DEF ScheduleTimeout
<1>9. ASSUME NEW id \in 1 .. MaxTimer, CancelTimeout(id) PROVE SchedInv'
  BY <1>9, QuietSched DEF CancelTimeout
<1>10. ASSUME NEW d \in 1 .. MaxTick, PumpTimers(d) PROVE SchedInv'
  BY <1>10, QuietSched DEF PumpTimers
<1>11. ASSUME NEW t \in expired, PumpNext(t) PROVE SchedInv'
  <2>1. Message("Timer", 0, t.target, 0) \in Messages
    BY DEF Message, Messages, MessageTypes, TypeOK, Timeouts
  <2>2. /\ UNCHANGED <<nextHandle, state, stack, entries>>
        /\ Send(Message("Timer", 0, t.target, 0))
    BY <1>11 DEF PumpNext
  <2>3. \A e \in entries' : Registered(e.caller)' /\ Registered(e.callee)'
    BY <2>2 DEF SchedInv, NothingOutlivesRelease, Registered
  <2> QED BY <2>1, <2>2, <2>3, SendSched DEF SchedInv, NothingOutlivesRelease
<1>12. ASSUME NEW max \in 1 .. MaxBatch, DispatchBatch(max) PROVE SchedInv'
  <2> DEFINE h == NextReady(sched)
             acq == AcquireNext(sched)
  <2>1. UNCHANGED <<nextHandle, state, queues, entries>>
    BY <1>12 DEF DispatchBatch
  <2>2. /\ acq \in Schedulers /\ Consistent(acq) /\ h \in sched.queued
        /\ h \notin sched.inFlight
        /\ acq.queued = sched.queued \ {h}
        /\ acq.inFlight = sched.inFlight \cup {h}
        /\ h \in Handles
    BY <1>12, AcquireNextEffect, AcquireNextType
       DEF DispatchBatch, TypeOK, SchedInv, ReadyQueueConsistent, Consistent
  <2>3. /\ Consistent(sched')
        /\ sched'.queued = sched.queued \ {h}
        /\ sched'.inFlight = IF Registered(h) THEN sched.inFlight \cup {h} ELSE sched.inFlight
    <3>1. CASE Registered(h)
      BY <1>12, <2>2, <3>1 DEF DispatchBatch
    <3>2. CASE ~Registered(h)
      <4>1. sched' = Complete(acq, h)
        BY <1>12, <3>2 DEF DispatchBatch
      <4> HIDE DEF h, acq
      <4>2. /\ Consistent(sched') /\ sched'.queued = acq.queued
            /\ sched'.inFlight = acq.inFlight \ {h}
        BY <2>2, <4>1, CompleteEffect
      <4> QED BY <2>2, <3>2, <4>2
    <3> QED BY <3>1, <3>2
  <2>4. ReadyQueueConsistent'
    BY <2>3 DEF ReadyQueueConsistent, Consistent
  <2>5. ReadyHasWork' /\ HandlesInOrder'
    BY <2>1, <2>3 DEF SchedInv, ReadyHasWork, HandlesInOrder, Registered, IsEmpty
  <2>6. NoLostWakeup'
    BY <2>1, <2>3 DEF SchedInv, NoLostWakeup, Registered, IsEmpty
  <2>7. SerialExecution' /\ \A i \in 1 .. Depth' : Registered(stack[i].handle)'
    <3>1. CASE Registered(h)
      <4>1. stack' = Append(stack, Frame(h, max, "loop"))
        BY <1>12, <3>1 DEF DispatchBatch
      <4>2. /\ Depth \in Nat /\ Depth' = Depth + 1
            /\ stack'[Depth + 1].handle = h
            /\ \A i \in 1 .. Depth : stack'[i] = stack[i]
        BY <4>1 DEF TypeOK, Depth, Frame
      <4>3. \A i \in 1 .. Depth : stack[i].handle \in sched.inFlight
        BY DEF SchedInv, SerialExecution
      <4>4. SerialExecution'
        BY <2>2, <2>3, <3>1, <4>2, <4>3 DEF SchedInv, SerialExecution
      <4> QED BY <2>1, <3>1, <4>2, <4>4 DEF SchedInv, NothingOutlivesRelease, Registered
    <3>2. CASE ~Registered(h)
      <4>1. stack' = stack /\ sched'.inFlight = sched.inFlight
        BY <1>12, <2>3, <3>2 DEF DispatchBatch
      <4> QED BY <2>1, <4>1 DEF SchedInv, SerialExecution, NothingOutlivesRelease,
                                Registered, Depth
    <3> QED BY <3>1, <3>2
  <2>8. NothingOutlivesRelease'
    BY <2>1, <2>7 DEF SchedInv, NothingOutlivesRelease, Registered, IsEmpty
  <2> QED BY <2>4, <2>5, <2>6, <2>7, <2>8 DEF SchedInv
<1>13. ASSUME DispatchNext PROVE SchedInv'
  <2> DEFINE h == Top.handle
  <2>1. UNCHANGED <<nextHandle, state, sched, entries>>
    BY <1>13 DEF DispatchNext
  <2>2. Depth \in Nat /\ Depth \in 1 .. Depth /\ Top \in Frames /\ h \in Handles
    BY <1>13, HandleTypes DEF DispatchNext, InLoop
  <2>3. /\ h \in sched.inFlight /\ h \notin sched.queued /\ Registered(h)
    BY <2>2, TopInFlight
  <2>4. /\ Depth' = Depth
        /\ \A i \in 1 .. Depth : stack'[i].handle = stack[i].handle
    BY <1>13, <2>2, SMTT(30) DEF DispatchNext, TypeOK, Depth, Top, Frame
  <2>5. \A g \in Handles \ {h} : queues'[g] = queues[g]
    BY <1>13, <2>2 DEF DispatchNext, TypeOK
  <2>6. SerialExecution'
    BY <2>1, <2>4 DEF SchedInv, SerialExecution
  <2>7. ReadyQueueConsistent'
    BY <2>1 DEF SchedInv, ReadyQueueConsistent
  <2>8. NoLostWakeup' /\ ReadyHasWork' /\ HandlesInOrder'
    <3>1. \A g \in sched.queued : g \in Handles
      BY DEF TypeOK, Schedulers
    <3> QED BY <2>1, <2>3, <2>5, <3>1
            DEF SchedInv, NoLostWakeup, ReadyHasWork, HandlesInOrder, Registered, IsEmpty
  <2>9. NothingOutlivesRelease'
    BY <2>1, <2>3, <2>4, <2>5 DEF SchedInv, NothingOutlivesRelease, Registered, IsEmpty
  <2> QED BY <2>6, <2>7, <2>8, <2>9 DEF SchedInv
<1>14. ASSUME HandlerReturns PROVE SchedInv'
  <2>1. UNCHANGED <<nextHandle, state, queues, sched, entries>>
    BY <1>14 DEF HandlerReturns
  <2>2. /\ Depth' = Depth
        /\ \A i \in 1 .. Depth : stack'[i].handle = stack[i].handle
    <3>1. /\ stack' = [stack EXCEPT ![Depth] = Frame(Top.handle, Top.left - 1, "loop")]
          /\ stack \in Seq(Frames) /\ Depth \in 1 .. Depth /\ Top = stack[Depth]
      BY <1>14, HandleTypes DEF HandlerReturns, TypeOK, Top
    <3> QED BY <3>1 DEF Depth, Frame
  <2>3. SerialExecution'
    BY <2>1, <2>2 DEF SchedInv, SerialExecution
  <2>4. ReadyQueueConsistent'
    BY <2>1 DEF SchedInv, ReadyQueueConsistent
  <2>5. NoLostWakeup' /\ ReadyHasWork' /\ HandlesInOrder'
    BY <2>1 DEF SchedInv, NoLostWakeup, ReadyHasWork, HandlesInOrder, Registered, IsEmpty
  <2>6. NothingOutlivesRelease'
    BY <2>1, <2>2 DEF SchedInv, NothingOutlivesRelease, Registered, IsEmpty
  <2> QED BY <2>3, <2>4, <2>5, <2>6 DEF SchedInv
<1>15. ASSUME BatchEnds PROVE SchedInv'
  <2> DEFINE h == Top.handle
             done == Complete(sched, h)
             again == ~IsEmpty(queues[h]) /\ state[h] = "Running"
  <2>1. UNCHANGED <<nextHandle, state, queues, entries>>
    BY <1>15 DEF BatchEnds
  <2>2. Depth \in Nat /\ Depth \in 1 .. Depth /\ Top \in Frames /\ h \in Handles
    BY <1>15, HandleTypes DEF BatchEnds, InLoop
  <2>3. h \in sched.inFlight /\ h \notin sched.queued /\ Registered(h)
    BY <2>2, TopInFlight
  <2>4. /\ done \in Schedulers /\ Consistent(done)
        /\ done.queued = sched.queued /\ done.inFlight = sched.inFlight \ {h}
    <3> HIDE DEF h
    <3>1. sched \in Schedulers /\ Consistent(sched)
      BY DEF TypeOK, SchedInv, ReadyQueueConsistent, Consistent
    <3> QED BY <3>1, CompleteEffect, CompleteType
  <2>5. /\ Consistent(sched')
        /\ sched'.inFlight = sched.inFlight \ {h}
        /\ sched'.queued = IF again THEN sched.queued \cup {h} ELSE sched.queued
    <3>1. CASE again
      <4>1. sched' = MarkReady(done, h)
        BY <1>15, <3>1 DEF BatchEnds
      <4> QED BY <2>2, <2>4, <3>1, <4>1, MarkReadyEffect
    <3>2. CASE ~again
      <4>1. sched' = done
        BY <1>15, <3>2 DEF BatchEnds
      <4> QED BY <2>4, <3>2, <4>1
    <3> QED BY <3>1, <3>2
  <2>6. Depth' = Depth - 1 /\ \A i \in 1 .. Depth - 1 : stack'[i] = stack[i]
    <3>1. stack' = SubSeq(stack, 1, Len(stack) - 1) /\ stack \in Seq(Frames)
      BY <1>15 DEF BatchEnds, TypeOK, Depth
    <3>2. stack # <<>>
      BY <1>15 DEF BatchEnds, InLoop
    <3> QED BY <3>1, <3>2, PopProperties DEF Depth
  <2>7. SerialExecution'
    <3>1. \A i, j \in 1 .. Depth' : stack'[i].handle = stack'[j].handle => i = j
      BY <2>2, <2>6 DEF SchedInv, SerialExecution
    <3>2. \A i \in 1 .. Depth - 1 : stack[i].handle # h
      BY <2>2 DEF SchedInv, SerialExecution, Top
    <3>3. sched'.inFlight = {stack'[i].handle : i \in 1 .. Depth'}
      BY <2>2, <2>5, <2>6, <3>2 DEF SchedInv, SerialExecution, Top
    <3> QED BY <3>1, <3>3 DEF SerialExecution
  <2>8. ReadyQueueConsistent'
    BY <2>5 DEF ReadyQueueConsistent, Consistent
  <2>9. NoLostWakeup' /\ ReadyHasWork' /\ HandlesInOrder'
    BY <2>1, <2>3, <2>5
       DEF SchedInv, NoLostWakeup, ReadyHasWork, HandlesInOrder, Registered, IsEmpty
  <2>10. NothingOutlivesRelease'
    BY <2>1, <2>2, <2>6 DEF SchedInv, NothingOutlivesRelease, Registered, IsEmpty
  <2> QED BY <2>7, <2>8, <2>9, <2>10 DEF SchedInv
<1>16. ASSUME Shutdown PROVE SchedInv'
  <2>1. UNCHANGED <<nextHandle, sched, stack>> /\ stack = <<>>
    BY <1>16 DEF Shutdown
  <2>2. \A h \in Handles : /\ state'[h] = IF Registered(h) THEN "Released" ELSE state[h]
                           /\ IsEmpty(queues'[h]) /\ ~Registered(h)'
    BY <1>16 DEF Shutdown, Registered, EmptyQueue, IsEmpty
  <2>3. entries' = {}
    BY <1>16 DEF Shutdown, SchedInv, NothingOutlivesRelease
  <2>4. SerialExecution'
    BY <2>1 DEF SchedInv, SerialExecution, Depth
  <2>5. ReadyQueueConsistent'
    BY <2>1 DEF SchedInv, ReadyQueueConsistent
  <2>6. \A h \in sched.queued : h \in Handles
    BY DEF TypeOK, Schedulers
  <2>7. NoLostWakeup' /\ ReadyHasWork' /\ HandlesInOrder'
    BY <2>1, <2>2, <2>6
       DEF SchedInv, NoLostWakeup, ReadyHasWork, HandlesInOrder, IsEmpty, Registered
  <2>8. NothingOutlivesRelease'
    BY <2>1, <2>2, <2>3 DEF NothingOutlivesRelease, IsEmpty, Depth
  <2> QED BY <2>4, <2>5, <2>7, <2>8 DEF SchedInv
<1> QED BY <1>1, <1>2, <1>3, <1>4, <1>5, <1>6, <1>7, <1>8, <1>9, <1>10, <1>11,
           <1>12, <1>13, <1>14, <1>15, <1>16 DEF Next

LEMMA SchedCorrect == Spec => []SchedInv
<1>1. Init => TypeInv /\ SchedInv
  BY InitType, InitSched
<1>2. TypeInv /\ SchedInv /\ [Next]_vars => TypeInv' /\ SchedInv'
  BY NextType, NextSched
<1> QED BY <1>1, <1>2, PTL DEF Spec

(***************************************************************************)
(* A service never executes two messages at once, however handlers nest    *)
(* dispatch_batch, and only what executes is in flight.                    *)
(***************************************************************************)
THEOREM SerialExecutionHolds == Spec => []SerialExecution
BY SchedCorrect, PTL DEF SchedInv

(***************************************************************************)
(* The ready queue, its index and the in-flight set never disagree.        *)
(***************************************************************************)
THEOREM ReadyQueueConsistentHolds == Spec => []ReadyQueueConsistent
BY SchedCorrect, PTL DEF SchedInv

(***************************************************************************)
(* A running service with mail is always ready or in flight.               *)
(***************************************************************************)
THEOREM NoLostWakeupHolds == Spec => []NoLostWakeup
BY SchedCorrect, PTL DEF SchedInv

(***************************************************************************)
(* A ready service that is still registered has mail.                      *)
(***************************************************************************)
THEOREM ReadyHasWorkHolds == Spec => []ReadyHasWork
BY SchedCorrect, PTL DEF SchedInv

(***************************************************************************)
(* Releasing a service leaves no mail, session or frame of it behind.      *)
(***************************************************************************)
THEOREM NothingOutlivesReleaseHolds == Spec => []NothingOutlivesRelease
BY SchedCorrect, PTL DEF SchedInv

-----------------------------------------------------------------------------
(* The registry changes with the slots: in register_service,               *)
(* release_service and shutdown; stop_service keeps the slot.              *)

LEMMA InitRegistry == Init => RegistryConsistent
BY RegistryAssumption
   DEF Init, RegistryConsistent, Registered, ContainsHandle, EmptyRegistry, Handles

LEMMA RegisterKeepsRegistry ==
    ASSUME TypeOK, RegistryConsistent, NEW n \in Names \cup {AnonymousName},
           RegisterService(n)
    PROVE  RegistryConsistent'
<1>1. nextHandle \in Handles /\ nextHandle \in Nat /\ nextHandle' = nextHandle + 1
  BY RegistryAssumption DEF RegisterService, TypeOK, Handles
<1>2. CASE ~CanRegister(registry, nextHandle, n)
  <2>1. UNCHANGED <<registry, state>>
    BY <1>2 DEF RegisterService
  <2> QED BY <2>1, <1>1, RegistryAssumption
          DEF RegistryConsistent, Registered, ContainsHandle, Handles
<1>3. CASE CanRegister(registry, nextHandle, n)
  <2>1. /\ registry' = RegisterName(registry, nextHandle, n)
        /\ state' = [state EXCEPT ![nextHandle] = "Running"]
    BY <1>3 DEF RegisterService
  <2>2. \A h \in Handles :
           /\ state'[h] = IF h = nextHandle THEN "Running" ELSE state[h]
           /\ registry'.byHandle[h] = IF h = nextHandle THEN n ELSE registry.byHandle[h]
    BY <1>1, <2>1 DEF RegisterName, TypeOK
  <2>3. \A k \in Names :
           registry'.byName[k] = IF k = n THEN nextHandle ELSE registry.byName[k]
    BY <2>1 DEF RegisterName
  <2>4. /\ registry.byHandle[nextHandle] = NoName
        /\ n \in Names => registry.byName[n] = 0
        /\ n # NoName
    BY <1>3, RegistryAssumption DEF CanRegister, ContainsHandle
  <2>5. \A h \in Handles : Registered(h)' <=> ContainsHandle(registry, h)'
    BY <2>2, <2>4 DEF RegistryConsistent, Registered, ContainsHandle
  <2>6. \A h \in Handles, k \in Names :
           registry'.byName[k] = h <=> registry'.byHandle[h] = k
    <3> SUFFICES ASSUME NEW h \in Handles, NEW k \in Names
                 PROVE  registry'.byName[k] = h <=> registry'.byHandle[h] = k
      OBVIOUS
    <3>1. registry.byName[k] = h <=> registry.byHandle[h] = k
      BY DEF RegistryConsistent
    <3>2. k # NoName /\ h # 0
      BY RegistryAssumption DEF Handles
    <3>3. registry.byName[k] # nextHandle
      BY <1>1, <2>4, <3>2 DEF RegistryConsistent
    <3> QED BY <2>2, <2>3, <2>4, <3>1, <3>2, <3>3
  <2>7. \A h \in Handles : h >= nextHandle' => state'[h] = "Created"
    BY <1>1, <2>2 DEF RegistryConsistent, Handles
  <2> QED BY <2>5, <2>6, <2>7 DEF RegistryConsistent
<1> QED BY <1>2, <1>3

LEMMA ReleaseKeepsRegistry ==
    ASSUME TypeOK, RegistryConsistent, NEW h \in Handles, ReleaseService(h)
    PROVE  RegistryConsistent'
<1>1. /\ registry' = UnregisterHandle(registry, h)
      /\ state' = [state EXCEPT ![h] = "Released"]
      /\ nextHandle' = nextHandle /\ Registered(h)
  BY DEF ReleaseService
<1>2. \A g \in Handles :
         /\ state'[g] = IF g = h THEN "Released" ELSE state[g]
         /\ registry'.byHandle[g] = IF g = h THEN NoName ELSE registry.byHandle[g]
  BY <1>1 DEF UnregisterHandle, TypeOK
<1>3. \A k \in Names :
         registry'.byName[k] = IF k = registry.byHandle[h] THEN 0 ELSE registry.byName[k]
  BY <1>1 DEF UnregisterHandle
<1>4. \A g \in Handles : Registered(g)' <=> ContainsHandle(registry, g)'
  BY <1>2 DEF RegistryConsistent, Registered, ContainsHandle
<1>5. \A g \in Handles, k \in Names :
         registry'.byName[k] = g <=> registry'.byHandle[g] = k
  <2> SUFFICES ASSUME NEW g \in Handles, NEW k \in Names
               PROVE  registry'.byName[k] = g <=> registry'.byHandle[g] = k
    OBVIOUS
  <2>1. /\ registry.byName[k] = g <=> registry.byHandle[g] = k
        /\ registry.byName[k] = h <=> registry.byHandle[h] = k
    BY DEF RegistryConsistent
  <2>2. k # NoName /\ g # 0
    BY RegistryAssumption DEF Handles
  <2> QED BY <1>2, <1>3, <2>1, <2>2
<1>6. \A g \in Handles : g >= nextHandle' => state'[g] = "Created"
  BY <1>1, <1>2 DEF RegistryConsistent, Registered
<1> QED BY <1>4, <1>5, <1>6 DEF RegistryConsistent

LEMMA ShutdownKeepsRegistry ==
    ASSUME TypeOK, RegistryConsistent, Shutdown
    PROVE  RegistryConsistent'
<1>1. registry' = EmptyRegistry /\ nextHandle' = nextHandle
  BY DEF Shutdown
<1>2. \A h \in Handles : /\ state'[h] = IF Registered(h) THEN "Released" ELSE state[h]
                         /\ ~Registered(h)'
  BY DEF Shutdown, Registered
<1>3. \A h \in Handles : ~ContainsHandle(registry, h)'
  BY <1>1 DEF ContainsHandle, EmptyRegistry
<1>4. \A h \in Handles, n \in Names :
         registry'.byName[n] = h <=> registry'.byHandle[h] = n
  BY <1>1, RegistryAssumption DEF EmptyRegistry, Handles
<1>5. \A h \in Handles : h >= nextHandle' => state'[h] = "Created"
  BY <1>1, <1>2 DEF RegistryConsistent, Registered
<1> QED BY <1>2, <1>3, <1>4, <1>5 DEF RegistryConsistent

LEMMA NextRegistry == TypeInv /\ RegistryConsistent /\ [Next]_vars => RegistryConsistent'
<1> SUFFICES ASSUME TypeOK, RegistryConsistent, [Next]_vars PROVE RegistryConsistent'
  BY DEF TypeInv
<1>1. ASSUME NEW n \in Names \cup {AnonymousName}, RegisterService(n)
      PROVE  RegistryConsistent'
  BY <1>1, RegisterKeepsRegistry
<1>2. ASSUME NEW h \in Handles, StopService(h) PROVE RegistryConsistent'
  <2>1. UNCHANGED <<registry, nextHandle>>
    BY <1>2 DEF StopService
  <2>2. \A g \in Handles : state'[g] = IF g = h THEN "Stopped" ELSE state[g]
    BY <1>2 DEF StopService, TypeOK
  <2>3. state[h] = "Running"
    BY <1>2 DEF StopService
  <2> QED BY <2>1, <2>2, <2>3 DEF RegistryConsistent, Registered, ContainsHandle
<1>3. ASSUME NEW h \in Handles, ReleaseService(h) PROVE RegistryConsistent'
  BY <1>3, ReleaseKeepsRegistry
<1>4. CASE Shutdown
  BY <1>4, ShutdownKeepsRegistry
<1>5. CASE UNCHANGED <<nextHandle, registry, state>>
  BY <1>5 DEF RegistryConsistent, Registered, ContainsHandle
<1> QED BY <1>1, <1>2, <1>3, <1>4, <1>5
        DEF Next, vars, SendMessage, Call, Respond, ScheduleTimeout, CancelTimeout,
            PumpTimers, PumpNext, DispatchBatch, DispatchNext, HandlerReturns, BatchEnds

(***************************************************************************)
(* The registry's two maps and the slots agree: a handle has a name if and *)
(* only if its service has a slot, a name stands for one handle, and a     *)
(* handle that was not given out yet is new.                               *)
(***************************************************************************)
THEOREM RegistryConsistentHolds == Spec => []RegistryConsistent
<1>1. Init => TypeInv /\ RegistryConsistent
  BY InitType, InitRegistry
<1>2. TypeInv /\ RegistryConsistent /\ [Next]_vars => TypeInv' /\ RegistryConsistent'
  BY NextType, NextRegistry
<1> QED BY <1>1, <1>2, PTL DEF Spec

-----------------------------------------------------------------------------
(* Mailboxes.  A step leaves a mailbox alone, empties it, takes its oldest *)
(* message or appends one.                                                 *)

(* send gives the message to the mailbox of its target, or to nobody.      *)
LEMMA SendQueues ==
    ASSUME TypeOK, NEW m \in Messages, Send(m)
    PROVE  \/ queues' = queues /\ ~Deliverable(m)
           \/ /\ Deliverable(m) /\ m.target \in Handles
              /\ \A h \in Handles :
                    queues'[h] = IF h = m.target THEN TakeOverload(Enqueue(queues[h], m))
                                                 ELSE queues[h]
<1>1. CASE ~Deliverable(m)
  BY <1>1 DEF Send
<1>2. CASE Deliverable(m)
  <2>1. m.target \in Handles
    BY DEF Messages
  <2> QED BY <1>2, <2>1 DEF Send, TypeOK
<1> QED BY <1>1, <1>2

QueueStep(h) ==
    \/ queues'[h] = queues[h]
    \/ queues'[h] = EmptyQueue
    \/ queues[h].messages # <<>> /\ queues'[h] = Dequeue(queues[h])
    \/ \E m \in Messages : queues'[h] = TakeOverload(Enqueue(queues[h], m))

LEMMA SendStep ==
    ASSUME TypeOK, NEW m \in Messages, Send(m)
    PROVE  \A h \in Handles : QueueStep(h)
<1>1. CASE queues' = queues
  BY <1>1 DEF QueueStep
<1>2. CASE queues' # queues
  <2>1. \A h \in Handles : queues'[h] = queues[h]
                           \/ queues'[h] = TakeOverload(Enqueue(queues[h], m))
    BY <1>2, SendQueues
  <2> QED BY <2>1 DEF QueueStep
<1> QED BY <1>1, <1>2

(* Four operations send.                                                   *)
Sends ==
    \/ \E h \in Handles : SendMessage(h)
    \/ \E s, t \in Handles : Call(s, t)
    \/ \E s \in Handles, id \in 1 .. MaxSession : Respond(s, id)
    \/ \E t \in expired : PumpNext(t)

LEMMA SendsMessage ==
    ASSUME TypeOK, Sends
    PROVE  \E m \in Messages : Send(m)
<1> USE RegistryAssumption, BoundsAssumption
<1>1. ASSUME NEW h \in Handles, SendMessage(h) PROVE \E m \in Messages : Send(m)
  BY <1>1 DEF SendMessage, Message, Messages, MessageTypes
<1>2. ASSUME NEW s \in Handles, NEW t \in Handles, Call(s, t)
      PROVE  \E m \in Messages : Send(m)
  <2>1. /\ Message("Request", s, t, nextSession) \in Messages
        /\ Send(Message("Request", s, t, nextSession))
    BY <1>2 DEF Call, Message, Messages, MessageTypes, TypeOK, Handles
  <2> QED BY <2>1
<1>3. ASSUME NEW s \in Handles, NEW id \in 1 .. MaxSession, Respond(s, id)
      PROVE  \E m \in Messages : Send(m)
  <2> DEFINE m == Message("Response", s, LookupRequester(entries, id, s), id)
  <2>1. LookupRequester(entries, id, s) \in Handles
    BY <1>3 DEF Respond, Answerable, LookupRequester, TypeOK
  <2>2. m \in Messages /\ Send(m)
    BY <1>3, <2>1 DEF Respond, Message, Messages, MessageTypes, Handles
  <2> HIDE DEF m
  <2> QED BY <2>2
<1>4. ASSUME NEW t \in expired, PumpNext(t) PROVE \E m \in Messages : Send(m)
  <2>1. /\ Message("Timer", 0, t.target, 0) \in Messages
        /\ Send(Message("Timer", 0, t.target, 0))
    BY <1>4 DEF PumpNext, Message, Messages, MessageTypes, TypeOK, Timeouts
  <2> QED BY <2>1
<1> QED BY <1>1, <1>2, <1>3, <1>4 DEF Sends

(* What a step does to the mailboxes and the scheduler: nothing, a send,   *)
(* or one of the five operations that do more than send.                   *)
LEMMA StepKinds ==
    ASSUME TypeOK, [Next]_vars
    PROVE  \/ UNCHANGED <<queues, sched>>
           \/ \E m \in Messages : Send(m)
           \/ \E h \in Handles : ReleaseService(h)
           \/ \E max \in 1 .. MaxBatch : DispatchBatch(max)
           \/ DispatchNext \/ BatchEnds \/ Shutdown
BY SendsMessage
   DEF Sends, Next, vars, RegisterService, StopService, ScheduleTimeout, CancelTimeout,
       PumpTimers, HandlerReturns

LEMMA NextQueueStep ==
    ASSUME TypeOK, [Next]_vars
    PROVE  \A h \in Handles : QueueStep(h)
<1>1. CASE queues' = queues
  BY <1>1 DEF QueueStep
<1>2. ASSUME NEW m \in Messages, Send(m) PROVE \A h \in Handles : QueueStep(h)
  BY <1>2, SendStep
<1>3. ASSUME NEW h \in Handles, ReleaseService(h) PROVE \A g \in Handles : QueueStep(g)
  BY <1>3 DEF ReleaseService, TypeOK, QueueStep
<1>4. CASE Shutdown
  BY <1>4 DEF Shutdown, QueueStep
<1>5. CASE DispatchNext
  <2>1. Top.handle \in Handles
    BY <1>5, HandleTypes DEF DispatchNext, InLoop
  <2>2. /\ queues' = [queues EXCEPT ![Top.handle] = Dequeue(queues[Top.handle])]
        /\ queues[Top.handle].messages # <<>>
    BY <1>5 DEF DispatchNext, BatchGoesOn, IsEmpty
  <2> QED BY <2>1, <2>2 DEF TypeOK, QueueStep
<1> QED BY <1>1, <1>2, <1>3, <1>4, <1>5, StepKinds DEF DispatchBatch, BatchEnds

LEMMA StepWithinThreshold ==
    ASSUME TypeOK, NEW h \in Handles, Size(queues[h]) <= queues[h].threshold, QueueStep(h)
    PROVE  Size(queues'[h]) <= queues'[h].threshold
<1>1. /\ queues[h].messages \in Seq(Messages) /\ queues[h].threshold \in Nat \ {0}
      /\ Len(queues[h].messages) <= queues[h].threshold
  BY DEF TypeOK, Queues, Size
<1>2. CASE queues'[h] = queues[h]
  BY <1>2
<1>3. CASE queues'[h] = EmptyQueue
  BY <1>3, BaseThresholdAssumption DEF EmptyQueue, Size
<1>4. CASE queues[h].messages # <<>> /\ queues'[h] = Dequeue(queues[h])
  <2>1. Len(Tail(queues[h].messages)) = Len(queues[h].messages) - 1
    BY <1>1, <1>4
  <2>2. Len(queues[h].messages) \in Nat
    BY <1>1
  <2> QED BY <1>1, <1>4, <2>1, <2>2, BaseThresholdAssumption DEF Dequeue, Size
<1>5. ASSUME NEW m \in Messages, queues'[h] = TakeOverload(Enqueue(queues[h], m))
      PROVE  Size(queues'[h]) <= queues'[h].threshold
  <2>1. Len(Append(queues[h].messages, m)) = Len(queues[h].messages) + 1
    BY <1>1
  <2>2. Len(queues[h].messages) \in Nat
    BY <1>1
  <2> QED BY <1>1, <1>5, <2>1, <2>2 DEF Enqueue, TakeOverload, Size
<1> QED BY <1>2, <1>3, <1>4, <1>5 DEF QueueStep

(***************************************************************************)
(* A mailbox never outgrows its threshold: enqueue doubles it in time, and *)
(* dequeue resets it only when the mailbox is empty.                       *)
(***************************************************************************)
THEOREM WithinThresholdHolds == Spec => []WithinThreshold
<1>1. Init => TypeInv /\ WithinThreshold
  <2>1. Init => WithinThreshold
    BY BaseThresholdAssumption DEF Init, WithinThreshold, EmptyQueue, Size
  <2> QED BY <2>1, InitType
<1>2. TypeInv /\ WithinThreshold /\ [Next]_vars => TypeInv' /\ WithinThreshold'
  <2>1. ASSUME TypeOK, WithinThreshold, [Next]_vars PROVE WithinThreshold'
    BY <2>1, NextQueueStep, StepWithinThreshold DEF WithinThreshold
  <2> QED BY <2>1, NextType DEF TypeInv
<1> QED BY <1>1, <1>2, PTL DEF Spec

-----------------------------------------------------------------------------
(* The ready queue.  Services enter it at the back and leave it at the     *)
(* front, and none enters it twice.                                        *)

NoneFallsBack(s, t) ==
    \A i \in 1 .. Len(s.handles) : \A j \in 1 .. Len(t.handles) :
        t.handles[j] = s.handles[i] => j <= i

LEMMA MarkReadyInOrder ==
    ASSUME NEW s \in Schedulers, Consistent(s), NEW h \in Handles
    PROVE  NoneFallsBack(s, MarkReady(s, h))
<1>1. s.handles \in Seq(Handles) /\ Len(s.handles) \in Nat
  BY DEF Schedulers
<1>2. CASE MarkReady(s, h) = s
  BY <1>2, <1>1 DEF NoneFallsBack, Consistent
<1>3. CASE MarkReady(s, h) # s
  <2>1. h \notin s.queued /\ MarkReady(s, h).handles = Append(s.handles, h)
    BY <1>3 DEF MarkReady
  <2>2. \A i \in 1 .. Len(s.handles) : s.handles[i] # h
    BY <2>1 DEF Consistent
  <2>3. /\ Len(Append(s.handles, h)) = Len(s.handles) + 1
        /\ Append(s.handles, h)[Len(s.handles) + 1] = h
        /\ \A i \in 1 .. Len(s.handles) : Append(s.handles, h)[i] = s.handles[i]
    BY <1>1
  <2> QED BY <1>1, <2>1, <2>2, <2>3 DEF NoneFallsBack, Consistent
<1> QED BY <1>2, <1>3

LEMMA AcquireNextInOrder ==
    ASSUME NEW s \in Schedulers, Consistent(s), HasReady(s)
    PROVE  NoneFallsBack(s, AcquireNext(s))
<1>1. s.handles \in Seq(Handles) /\ Len(s.handles) \in Nat /\ s.handles # <<>>
  BY DEF Schedulers, HasReady
<1>2. /\ Len(Tail(s.handles)) = Len(s.handles) - 1
      /\ \A j \in 1 .. Len(s.handles) - 1 : Tail(s.handles)[j] = s.handles[j + 1]
  BY <1>1
<1>3. AcquireNext(s).handles = Tail(s.handles)
  BY DEF AcquireNext
<1> QED BY <1>1, <1>2, <1>3 DEF NoneFallsBack, Consistent

LEMMA SendInOrder ==
    ASSUME TypeOK, SchedInv, NEW m \in Messages, Send(m)
    PROVE  NoneFallsBack(sched, sched')
<1>1. sched \in Schedulers /\ Consistent(sched) /\ sched.handles \in Seq(Handles)
  BY DEF TypeOK, Schedulers, SchedInv, ReadyQueueConsistent, Consistent
<1>2. CASE Deliverable(m)
  <2>1. m.target \in Handles /\ sched' = MarkReady(sched, m.target)
    BY <1>2 DEF Send, Messages
  <2> QED BY <1>1, <2>1, MarkReadyInOrder
<1>3. CASE ~Deliverable(m)
  BY <1>1, <1>3 DEF Send, NoneFallsBack, Consistent
<1> QED BY <1>2, <1>3

LEMMA NextInOrder ==
    ASSUME TypeOK, SchedInv, [Next]_vars
    PROVE  NoneFallsBack(sched, sched')
<1>1. /\ sched \in Schedulers /\ Consistent(sched)
      /\ sched.handles \in Seq(Handles) /\ Len(sched.handles) \in Nat
  BY DEF TypeOK, Schedulers, SchedInv, ReadyQueueConsistent, Consistent
<1>2. CASE sched'.handles = sched.handles
  BY <1>1, <1>2 DEF NoneFallsBack, Consistent
<1>3. ASSUME NEW max \in 1 .. MaxBatch, DispatchBatch(max)
      PROVE  NoneFallsBack(sched, sched')
  <2>1. HasReady(sched) /\ sched'.handles = AcquireNext(sched).handles
    BY <1>3 DEF DispatchBatch, Complete
  <2>2. NoneFallsBack(sched, AcquireNext(sched))
    BY <1>1, <2>1, AcquireNextInOrder
  <2> QED BY <2>1, <2>2 DEF NoneFallsBack
<1>4. CASE BatchEnds
  <2> DEFINE h == Top.handle
             done == Complete(sched, h)
  <2>1. h \in Handles
    BY <1>4, HandleTypes DEF BatchEnds, InLoop
  <2>2. sched' = done \/ sched' = MarkReady(done, h)
    BY <1>4 DEF BatchEnds
  <2>3. done.handles = sched.handles
    BY DEF Complete
  <2> HIDE DEF h
  <2>4. done \in Schedulers /\ Consistent(done)
    BY <1>1, CompleteType, CompleteEffect
  <2> HIDE DEF done
  <2>5. CASE sched' = done
    BY <1>2, <2>3, <2>5
  <2>6. CASE sched' = MarkReady(done, h)
    <3>1. NoneFallsBack(done, sched')
      BY <2>1, <2>4, <2>6, MarkReadyInOrder
    <3> QED BY <2>3, <3>1 DEF NoneFallsBack
  <2> QED BY <2>2, <2>5, <2>6
<1> QED BY <1>2, <1>3, <1>4, SendInOrder, StepKinds
        DEF ReleaseService, DispatchNext, Shutdown

(***************************************************************************)
(* The ready queue is first in, first out: no step of any operation makes  *)
(* a service that waits in it wait behind more services than before.       *)
(***************************************************************************)
THEOREM NoOvertakingHolds == Spec => NoOvertaking
<1>1. Spec => []TypeInv
  BY InitType, NextType, PTL DEF Spec
<1>2. TypeInv /\ SchedInv /\ [Next]_vars =>
        [\A i \in 1 .. Len(sched.handles) : \A j \in 1 .. Len(sched'.handles) :
            sched'.handles[j] = sched.handles[i] => j <= i]_vars
  BY NextInOrder DEF TypeInv, NoneFallsBack
<1> QED BY <1>1, <1>2, SchedCorrect, PTL DEF Spec, NoOvertaking

-----------------------------------------------------------------------------
(* Sessions.  Identifiers grow and an identifier has one entry, so that    *)
(* complete removes the only entry of the session it answers; a response   *)
(* under way is to a session that was opened and is not pending.           *)

SessionsInOrder ==
    /\ \A e \in entries : e.id < nextSession
    /\ \A e, f \in entries : e.id = f.id => e = f
    /\ \A h \in Handles : \A i \in DOMAIN MailOf(h) :
          MailOf(h)[i].type = "Response" => MailOf(h)[i].session < nextSession

SessionInv == SessionsInOrder /\ OneResponsePerSession

(* The responses of a mailbox after a step were there before it: at the    *)
(* same place, or one place further back.                                  *)
OldResponses(h, d) ==
    \A i \in DOMAIN MailOf(h)' :
        MailOf(h)'[i].type = "Response" =>
            i + d \in DOMAIN MailOf(h) /\ MailOf(h)[i + d] = MailOf(h)'[i]

(* A step that adds no response to a mailbox, and opens at most the next   *)
(* session.                                                                *)
LEMMA NoNewResponse ==
    ASSUME TypeOK, TypeOK', SessionInv,
           NEW d \in [Handles -> {0, 1}],
           \A h \in Handles : OldResponses(h, d[h]),
           \A e \in entries' : e \in entries \/ e.id = nextSession,
           \A e, f \in entries' : e.id = nextSession /\ f.id = nextSession => e = f,
           \/ entries' \subseteq entries /\ nextSession' = nextSession
           \/ nextSession' = nextSession + 1
    PROVE  SessionInv'
<1>1. /\ nextSession \in Nat /\ nextSession' \in Nat /\ nextSession <= nextSession'
      /\ \A e \in entries' : e.id \in Nat
  BY BoundsAssumption DEF TypeOK
<1>2. \A h \in Handles : MailOf(h)' \in Seq(Messages)
  BY DEF TypeOK, Queues, MailOf
<1>3. \A h \in Handles : \A i \in DOMAIN MailOf(h)' :
         i \in Int /\ MailOf(h)'[i].session \in Nat
  <2>1. \A m \in Messages : m.session \in Nat
    BY BoundsAssumption DEF Messages
  <2>2. \A h \in Handles : \A i \in DOMAIN MailOf(h)' :
           i \in Int /\ MailOf(h)'[i] \in Messages
    BY <1>2
  <2> QED BY <2>1, <2>2
<1>4. SessionsInOrder'
  <2>1. \A e \in entries' : e.id < nextSession'
    BY <1>1 DEF SessionInv, SessionsInOrder
  <2>2. \A e, f \in entries' : e.id = f.id => e = f
    BY <1>1 DEF SessionInv, SessionsInOrder
  <2>3. ASSUME NEW h \in Handles, NEW i \in DOMAIN MailOf(h)', MailOf(h)'[i].type = "Response"
        PROVE  MailOf(h)'[i].session < nextSession'
    <3>1. MailOf(h)'[i].session < nextSession
      BY <2>3 DEF OldResponses, SessionInv, SessionsInOrder
    <3> QED BY <3>1, <1>1, <1>3
  <2> QED BY <2>1, <2>2, <2>3 DEF SessionsInOrder
<1>5. ASSUME NEW g \in Handles, NEW h \in Handles,
             NEW i \in DOMAIN MailOf(g)', MailOf(g)'[i].type = "Response"
      PROVE  /\ \A e \in entries' : e.id # MailOf(g)'[i].session
             /\ \A j \in DOMAIN MailOf(h)' :
                   MailOf(h)'[j].type = "Response"
                   /\ MailOf(h)'[j].session = MailOf(g)'[i].session => g = h /\ i = j
  <2>1. /\ i + d[g] \in DOMAIN MailOf(g) /\ MailOf(g)[i + d[g]] = MailOf(g)'[i]
    BY <1>5 DEF OldResponses
  <2>2. MailOf(g)'[i].session < nextSession
    BY <1>5, <2>1 DEF SessionInv, SessionsInOrder
  <2>3. \A e \in entries : e.id # MailOf(g)'[i].session
    BY <1>5, <2>1 DEF SessionInv, OneResponsePerSession
  <2>4. \A e \in entries' : e.id # MailOf(g)'[i].session
    BY <1>1, <1>3, <2>2, <2>3
  <2>5. ASSUME NEW j \in DOMAIN MailOf(h)', MailOf(h)'[j].type = "Response",
               MailOf(h)'[j].session = MailOf(g)'[i].session
        PROVE  g = h /\ i = j
    <3>1. /\ j + d[h] \in DOMAIN MailOf(h) /\ MailOf(h)[j + d[h]] = MailOf(h)'[j]
      BY <2>5 DEF OldResponses
    <3>2. g = h /\ i + d[g] = j + d[h]
      BY <1>5, <2>1, <2>5, <3>1 DEF SessionInv, OneResponsePerSession
    <3>3. i \in Int /\ j \in Int /\ d[g] \in Int
      BY <1>3
    <3> QED BY <3>2, <3>3
  <2> QED BY <2>4, <2>5
<1>6. OneResponsePerSession'
  BY <1>5 DEF OneResponsePerSession
<1> QED BY <1>4, <1>6 DEF SessionInv

LEMMA EnqueuedMail ==
    ASSUME NEW q, NEW m
    PROVE  TakeOverload(Enqueue(q, m)).messages = Append(q.messages, m)
BY DEF TakeOverload, Enqueue

(* What sending a message that is not a response does to the responses.    *)
LEMMA SendOldResponses ==
    ASSUME TypeOK, NEW m \in Messages, Send(m), m.type # "Response"
    PROVE  \A h \in Handles : OldResponses(h, 0)
<1> SUFFICES ASSUME NEW h \in Handles, NEW i \in DOMAIN MailOf(h)',
                    MailOf(h)'[i].type = "Response"
             PROVE  i + 0 \in DOMAIN MailOf(h) /\ MailOf(h)[i + 0] = MailOf(h)'[i]
  BY DEF OldResponses
<1>1. MailOf(h) \in Seq(Messages)
  BY DEF TypeOK, Queues, MailOf
<1>2. MailOf(h)' = MailOf(h) \/ MailOf(h)' = Append(MailOf(h), m)
  <2>1. queues'[h] = queues[h] \/ queues'[h] = TakeOverload(Enqueue(queues[h], m))
    BY SendQueues
  <2> QED BY <2>1, EnqueuedMail DEF MailOf
<1>3. i \in DOMAIN MailOf(h) /\ MailOf(h)[i] = MailOf(h)'[i] /\ i \in Int
  BY <1>1, <1>2
<1> QED BY <1>3

(* A step that changes no session and no mailbox.                          *)
LEMMA QuietSession ==
    ASSUME SessionInv, UNCHANGED <<queues, nextSession, entries>>
    PROVE  SessionInv'
BY DEF SessionInv, SessionsInOrder, OneResponsePerSession, MailOf

LEMMA RespondSession ==
    ASSUME TypeOK, TypeOK', SessionInv, NEW s \in Handles, NEW id \in 1 .. MaxSession,
           Respond(s, id)
    PROVE  SessionInv'
<1> DEFINE m == Message("Response", s, LookupRequester(entries, id, s), id)
<1>1. LookupRequester(entries, id, s) \in Handles
  BY DEF Respond, Answerable, LookupRequester, TypeOK
<1>2. m \in Messages /\ Send(m) /\ m.type = "Response" /\ m.session = id
  BY <1>1, RegistryAssumption, BoundsAssumption
     DEF Respond, Message, Messages, MessageTypes, Handles
<1>3. PICK e \in entries : e.id = id /\ e.callee = s
  BY DEF Respond, Answerable
<1>4. nextSession' = nextSession /\ nextSession \in Nat /\ id < nextSession
  BY <1>3, BoundsAssumption DEF Respond, TypeOK, SessionInv, SessionsInOrder
<1>5. entries' = IF Deliverable(m) THEN CompleteSession(entries, id, s) ELSE entries
  BY DEF Respond
<1> HIDE DEF m
<1>6. CASE ~Deliverable(m)
  <2>1. UNCHANGED <<queues, nextSession, entries>>
    BY <1>2, <1>4, <1>5, <1>6, SendQueues
  <2> QED BY <2>1, QuietSession
<1>7. CASE Deliverable(m)
  <2> DEFINE t == m.target
  <2>1. t \in Handles
    BY <1>2 DEF Messages
  <2>2. \A h \in Handles : MailOf(h)' = IF h = t THEN Append(MailOf(h), m) ELSE MailOf(h)
    <3>1. \A h \in Handles :
             queues'[h] = IF h = t THEN TakeOverload(Enqueue(queues[h], m)) ELSE queues[h]
      BY <1>2, <1>7, SendQueues
    <3> QED BY <3>1, EnqueuedMail DEF MailOf
  <2>3. entries' \subseteq entries /\ \A f \in entries' : f.id # id
    BY <1>3, <1>5, <1>7 DEF CompleteSession, SessionInv, SessionsInOrder
  <2>4. \A h \in Handles : MailOf(h) \in Seq(Messages)
    BY DEF TypeOK, Queues, MailOf
  <2> DEFINE k == Len(MailOf(t)) + 1
  <2>5. ASSUME NEW h \in Handles, NEW i \in DOMAIN MailOf(h)'
        PROVE  \/ i \in DOMAIN MailOf(h) /\ MailOf(h)'[i] = MailOf(h)[i]
               \/ h = t /\ i = k /\ MailOf(h)'[i] = m
    BY <2>1, <2>2, <2>4
  <2>6. ASSUME NEW h \in Handles, NEW i \in DOMAIN MailOf(h), MailOf(h)[i].type = "Response"
        PROVE  MailOf(h)[i].session # id /\ MailOf(h)[i].session < nextSession
    BY <1>3, <2>6 DEF SessionInv, SessionsInOrder, OneResponsePerSession
  <2> HIDE DEF t, k
  <2>7. SessionsInOrder'
    <3>1. \A h \in Handles : \A i \in DOMAIN MailOf(h)' :
             MailOf(h)'[i].type = "Response" => MailOf(h)'[i].session < nextSession
      BY <1>2, <1>4, <2>5, <2>6
    <3> QED BY <1>4, <2>3, <3>1 DEF SessionInv, SessionsInOrder
  <2>8. ASSUME NEW g \in Handles, NEW h \in Handles,
               NEW i \in DOMAIN MailOf(g)', MailOf(g)'[i].type = "Response"
        PROVE  /\ \A f \in entries' : f.id # MailOf(g)'[i].session
               /\ \A j \in DOMAIN MailOf(h)' :
                     MailOf(h)'[j].type = "Response"
                     /\ MailOf(h)'[j].session = MailOf(g)'[i].session => g = h /\ i = j
    <3>1. CASE i \in DOMAIN MailOf(g) /\ MailOf(g)'[i] = MailOf(g)[i]
      BY <1>2, <2>3, <2>5, <2>6, <2>8, <3>1 DEF SessionInv, OneResponsePerSession
    <3>2. CASE g = t /\ i = k /\ MailOf(g)'[i] = m
      BY <1>2, <2>3, <2>5, <2>6, <2>8, <3>2
    <3> QED BY <2>5, <3>1, <3>2
  <2>9. OneResponsePerSession'
    BY <2>8 DEF OneResponsePerSession
  <2> QED BY <2>7, <2>9 DEF SessionInv
<1> QED BY <1>6, <1>7

LEMMA NextSession == TypeInv /\ SessionInv /\ [Next]_vars => SessionInv'
<1> SUFFICES ASSUME TypeInv, SessionInv, [Next]_vars PROVE SessionInv'
  OBVIOUS
<1>1. TypeOK /\ TypeOK'
  BY NextType DEF TypeInv
<1> USE RegistryAssumption, BoundsAssumption
<1> DEFINE none == [h \in Handles |-> 0]
<1>2. none \in [Handles -> {0, 1}] /\ \A h \in Handles : none[h] = 0
  OBVIOUS
<1> HIDE DEF none
<1>3. ASSUME NEW m \in Messages, Send(m), m.type # "Response",
             UNCHANGED <<nextSession, entries>>
      PROVE  SessionInv'
  <2>1. \A h \in Handles : OldResponses(h, none[h])
    BY <1>1, <1>2, <1>3, SendOldResponses
  <2>2. \A e, f \in entries' : e.id = nextSession /\ f.id = nextSession => e = f
    BY <1>3 DEF SessionInv, SessionsInOrder
  <2> QED BY <1>1, <1>2, <1>3, <2>1, <2>2, NoNewResponse
<1>4. ASSUME NEW h \in Handles, SendMessage(h) PROVE SessionInv'
  <2> DEFINE m == Message("System", 0, h, 0)
  <2>1. m \in Messages /\ Send(m) /\ m.type # "Response" /\ UNCHANGED <<nextSession, entries>>
    BY <1>4 DEF SendMessage, Message, Messages, MessageTypes
  <2> HIDE DEF m
  <2> QED BY <2>1, <1>3
<1>5. ASSUME NEW t \in expired, PumpNext(t) PROVE SessionInv'
  <2> DEFINE m == Message("Timer", 0, t.target, 0)
  <2>1. m \in Messages /\ Send(m) /\ m.type # "Response" /\ UNCHANGED <<nextSession, entries>>
    BY <1>1, <1>5 DEF PumpNext, Message, Messages, MessageTypes, TypeOK, Timeouts
  <2> HIDE DEF m
  <2> QED BY <2>1, <1>3
<1>6. ASSUME NEW s \in Handles, NEW t \in Handles, Call(s, t) PROVE SessionInv'
  <2> DEFINE m == Message("Request", s, t, nextSession)
             e == Entry(nextSession, s, t)
  <2>1. m \in Messages /\ Send(m) /\ m.type # "Response"
    BY <1>1, <1>6 DEF Call, Message, Messages, MessageTypes, TypeOK, Handles
  <2>2. nextSession' = nextSession + 1 /\ entries' = entries \cup {e} /\ e.id = nextSession
    BY <1>6 DEF Call, BeginSession, Entry
  <2> HIDE DEF m, e
  <2>3. \A h \in Handles : OldResponses(h, none[h])
    BY <1>1, <1>2, <2>1, SendOldResponses
  <2>4. \A f \in entries : f.id # nextSession
    BY <1>1 DEF TypeOK, SessionInv, SessionsInOrder
  <2>5. /\ \A f \in entries' : f \in entries \/ f.id = nextSession
        /\ \A f, g \in entries' : f.id = nextSession /\ g.id = nextSession => f = g
    BY <2>2, <2>4
  <2> QED BY <1>1, <1>2, <2>2, <2>3, <2>5, NoNewResponse
<1>7. ASSUME NEW s \in Handles, NEW id \in 1 .. MaxSession, Respond(s, id)
      PROVE  SessionInv'
  BY <1>1, <1>7, RespondSession
<1>8. ASSUME NEW h \in Handles, ReleaseService(h) PROVE SessionInv'
  <2>1. /\ nextSession' = nextSession /\ entries' \subseteq entries
        /\ \A g \in Handles : queues'[g] = IF g = h THEN EmptyQueue ELSE queues[g]
    BY <1>1, <1>8 DEF ReleaseService, CancelForHandle, TypeOK
  <2>2. \A g \in Handles : MailOf(g)' = <<>> \/ MailOf(g)' = MailOf(g)
    BY <2>1 DEF MailOf, EmptyQueue
  <2>3. \A g \in Handles : MailOf(g) \in Seq(Messages)
    BY <1>1 DEF TypeOK, Queues, MailOf
  <2>4. \A g \in Handles : OldResponses(g, none[g])
    BY <1>2, <2>2, <2>3 DEF OldResponses
  <2>5. \A e, f \in entries' : e.id = nextSession /\ f.id = nextSession => e = f
    BY <2>1 DEF SessionInv, SessionsInOrder
  <2> QED BY <1>1, <1>2, <2>1, <2>4, <2>5, NoNewResponse
<1>9. CASE Shutdown
  <2>1. /\ nextSession' = nextSession /\ entries' \subseteq entries
        /\ \A g \in Handles : MailOf(g)' = <<>>
    BY <1>9 DEF Shutdown, MailOf, EmptyQueue
  <2>2. \A g \in Handles : OldResponses(g, none[g])
    BY <2>1 DEF OldResponses
  <2>3. \A e, f \in entries' : e.id = nextSession /\ f.id = nextSession => e = f
    BY <2>1 DEF SessionInv, SessionsInOrder
  <2> QED BY <1>1, <1>2, <2>1, <2>2, <2>3, NoNewResponse
<1>10. CASE DispatchNext
  <2>1. PICK t \in Handles : t = Top.handle
    BY <1>1, <1>10, HandleTypes DEF DispatchNext, InLoop
  <2>2. /\ queues' = [queues EXCEPT ![t] = Dequeue(queues[t])] /\ queues[t].messages # <<>>
        /\ UNCHANGED <<nextSession, entries>>
    BY <1>10, <2>1 DEF DispatchNext, BatchGoesOn, IsEmpty
  <2> DEFINE d == [h \in Handles |-> IF h = t THEN 1 ELSE 0]
  <2>3. \A h \in Handles : MailOf(h) \in Seq(Messages)
    BY <1>1 DEF TypeOK, Queues, MailOf
  <2>4. /\ MailOf(t)' = Tail(MailOf(t)) /\ MailOf(t) # <<>>
        /\ \A h \in Handles \ {t} : MailOf(h)' = MailOf(h)
    <3>1. /\ queues'[t] = Dequeue(queues[t])
          /\ \A h \in Handles \ {t} : queues'[h] = queues[h]
      BY <1>1, <2>1, <2>2 DEF TypeOK
    <3>2. Dequeue(queues[t]).messages = Tail(queues[t].messages)
      BY DEF Dequeue
    <3> QED BY <2>2, <3>1, <3>2 DEF MailOf
  <2>5. /\ d \in [Handles -> {0, 1}] /\ d[t] = 1
        /\ \A h \in Handles \ {t} : d[h] = 0
    BY <2>1
  <2> HIDE DEF d
  <2>6. OldResponses(t, 1)
    <3>1. \A i \in DOMAIN Tail(MailOf(t)) :
             i + 1 \in DOMAIN MailOf(t) /\ MailOf(t)[i + 1] = Tail(MailOf(t))[i]
      BY <2>1, <2>3, <2>4
    <3> QED BY <2>4, <3>1 DEF OldResponses
  <2>7. \A h \in Handles \ {t} : OldResponses(h, 0)
    BY <2>3, <2>4 DEF OldResponses
  <2>8. \A h \in Handles : OldResponses(h, d[h])
    BY <2>5, <2>6, <2>7
  <2>9. \A e, f \in entries' : e.id = nextSession /\ f.id = nextSession => e = f
    BY <2>2 DEF SessionInv, SessionsInOrder
  <2> QED BY <1>1, <2>2, <2>5, <2>8, <2>9, NoNewResponse
<1>11. CASE UNCHANGED <<queues, nextSession, entries>>
  BY <1>11, QuietSession
<1> QED BY <1>4, <1>5, <1>6, <1>7, <1>8, <1>9, <1>10, <1>11
        DEF Next, vars, RegisterService, StopService, ScheduleTimeout, CancelTimeout,
            PumpTimers, DispatchBatch, HandlerReturns, BatchEnds

(***************************************************************************)
(* A request gets at most one response: respond answers a session only     *)
(* while it is pending, closes it with the response it delivers, and no    *)
(* identifier is opened twice.                                             *)
(***************************************************************************)
THEOREM OneResponseHolds == Spec => []OneResponsePerSession
<1>1. Init => TypeInv /\ SessionInv
  <2>1. Init => SessionInv
    BY DEF Init, SessionInv, SessionsInOrder, OneResponsePerSession, MailOf, EmptyQueue
  <2> QED BY <2>1, InitType
<1>2. TypeInv /\ SessionInv /\ [Next]_vars => TypeInv' /\ SessionInv'
  BY NextType, NextSession
<1> QED BY <1>1, <1>2, PTL DEF Spec, SessionInv

-----------------------------------------------------------------------------
(***************************************************************************)
(* The metrics.  The mailboxes' sizes are summed over all handles, and the *)
(* frames that are in a handler are counted; every action moves at most    *)
(* one message from one of the three places to the next.                   *)
(***************************************************************************)
Sizes == [h \in Handles |-> Size(queues[h])]
Handlers == {i \in 1 .. Depth : stack[i].phase = "handler"}

LEMMA QueuedTotal == QueuedMessages = TotalOf(Sizes)
<1> DEFINE g == [x \in Handles |-> Size(queues[x])]
           Q(f) == [s \in SUBSET Handles |-> IF s = {} THEN 0 ELSE g[AnyOf(s)] + f[s \ {AnyOf(s)}]]
           R(f) == [s \in SUBSET Handles |-> IF s = {} THEN 0 ELSE Size(queues[AnyOf(s)]) + f[s \ {AnyOf(s)}]]
<1>1. \A s \in SUBSET Handles : s # {} => g[AnyOf(s)] = Size(queues[AnyOf(s)])
  BY DEF AnyOf
<1>2. \A f : Q(f) = R(f)
  BY <1>1
<1>3. (CHOOSE f : f = Q(f)) = CHOOSE f : f = R(f)
  BY <1>2
<1>4. TotalOf(g) = (CHOOSE f : f = Q(f))[Handles]
  BY DEF TotalOf, IsSum
<1>5. QueuedMessages = (CHOOSE f : f = R(f))[Handles]
  BY DEF QueuedMessages, MapThenSumSet, MapThenFoldSet, AnyOf
<1> QED BY <1>3, <1>4, <1>5 DEF Sizes

LEMMA QueuedTotalNext == (QueuedMessages = TotalOf(Sizes))'
BY QueuedTotal, PTL

LEMMA SizesNat ==
    ASSUME NEW q \in [Handles -> Queues]
    PROVE  [h \in Handles |-> Size(q[h])] \in [Handles -> Nat]
BY DEF Size, Queues

LEMMA Counting ==
    ASSUME TypeOK
    PROVE  /\ IsFiniteSet(Handles)
           /\ Sizes \in [Handles -> Nat] /\ QueuedMessages \in Nat
           /\ IsFiniteSet(Handlers) /\ Executing = Cardinality(Handlers) /\ Executing \in Nat
           /\ metrics["dispatched"] \in Nat /\ metrics["enqueued"] \in Nat /\ metrics["peak"] \in Nat
<1>1. IsFiniteSet(Handles)
  BY RegistryAssumption, FS_Interval DEF Handles
<1>2. Sizes \in [Handles -> Nat]
  BY SizesNat DEF Sizes, TypeOK
<1>3. QueuedMessages \in Nat
  BY <1>1, <1>2, TotalNat, QueuedTotal
<1>4. IsFiniteSet(Handlers)
  <2>1. Depth \in Nat
    BY HandleTypes
  <2>2. IsFiniteSet(1 .. Depth) /\ Handlers \in SUBSET (1 .. Depth)
    BY <2>1, FS_Interval DEF Handlers
  <2> QED BY <2>2, FS_Subset
<1>5. Executing = Cardinality(Handlers)
  BY DEF Executing, Handlers
<1>6. metrics["dispatched"] \in Nat /\ metrics["enqueued"] \in Nat /\ metrics["peak"] \in Nat
  BY DEF TypeOK, Counters
<1> QED BY <1>1, <1>2, <1>3, <1>4, <1>5, <1>6, FS_CardinalityType

(* A step that changes the mailbox of h only.                              *)
LEMMA QueuedChange ==
    ASSUME TypeOK, TypeOK', NEW h \in Handles, \A g \in Handles \ {h} : queues'[g] = queues[g]
    PROVE  QueuedMessages' = QueuedMessages + Size(queues'[h]) - Size(queues[h])
<1>1. IsFiniteSet(Handles) /\ Sizes \in [Handles -> Nat]
  BY Counting
<1>2. Sizes' \in [Handles -> Nat]
  BY SizesNat DEF Sizes, TypeOK
<1>3. /\ Sizes \in [Handles -> Int] /\ Sizes' \in [Handles -> Int]
      /\ Sizes[h] = Size(queues[h]) /\ Sizes'[h] = Size(queues'[h])
      /\ \A g \in Handles \ {h} : Sizes'[g] = Sizes[g]
  BY <1>1, <1>2 DEF Sizes
<1>4. TotalOf(Sizes') = TotalOf(Sizes) + Sizes'[h] - Sizes[h]
  BY ONLY <1>1, <1>3, h \in Handles, TotalChange, Zenon
<1> QED BY <1>3, <1>4, QueuedTotal, QueuedTotalNext

LEMMA QueuedSame ==
    ASSUME \A g \in Handles : queues'[g] = queues[g]
    PROVE  QueuedMessages' = QueuedMessages
<1>1. Sizes' = Sizes
  BY DEF Sizes
<1> QED BY <1>1, QueuedTotal, QueuedTotalNext

(* The sum goes with what was enqueued.                                    *)
Handled == metrics["dispatched"] + Executing + QueuedMessages

LEMMA BalanceStep ==
    ASSUME TypeOK, TypeOK', MetricsBalance,
           metrics'["enqueued"] + Handled = metrics["enqueued"] + Handled',
           Handled \in Int, Handled' \in Int,
           \A h \in Handles : state'[h] # "Released" => state[h] # "Released",
           \A h \in Handles : Size(queues'[h]) <= metrics'["peak"]
    PROVE  MetricsBalance'
<1>1. metrics["enqueued"] \in Int /\ metrics'["enqueued"] \in Int
  BY DEF TypeOK, Counters
<1>2. Handled <= metrics["enqueued"] /\ ((\A h \in Handles : state[h] # "Released") => Handled = metrics["enqueued"])
  BY DEF MetricsBalance, Handled
<1> DEFINE a == Handled
           b == Handled'
           m == metrics["enqueued"]
           n == metrics'["enqueued"]
<1>3. a \in Int /\ b \in Int /\ m \in Int /\ n \in Int /\ n + a = m + b /\ a <= m
  BY <1>1, <1>2
<1> HIDE DEF a, b, m, n
<1>4. b <= n /\ (a = m => b = n)
  BY ONLY <1>3
<1>5. Handled' <= metrics'["enqueued"] /\ (Handled = metrics["enqueued"] => Handled' = metrics'["enqueued"])
  BY <1>4 DEF a, b, m, n
<1> QED BY <1>2, <1>5 DEF MetricsBalance, Handled

(* A release only takes away.                                              *)
LEMMA BalanceRelease ==
    ASSUME TypeOK, TypeOK', MetricsBalance, UNCHANGED metrics, Executing' = Executing,
           QueuedMessages' <= QueuedMessages, \E h \in Handles : state'[h] = "Released",
           \A h \in Handles : Size(queues'[h]) <= Size(queues[h])
    PROVE  MetricsBalance'
<1>1. QueuedMessages \in Nat /\ Executing \in Nat /\ metrics["dispatched"] \in Nat /\ metrics["enqueued"] \in Nat
  BY Counting
<1>2. QueuedMessages' \in Int
  <2>1. Sizes' \in [Handles -> Nat] /\ IsFiniteSet(Handles)
    BY Counting, SizesNat DEF Sizes, TypeOK
  <2>2. TotalOf(Sizes') \in Nat
    BY <2>1, TotalNat
  <2> QED BY <2>2, QueuedTotalNext
<1>3. metrics'["dispatched"] + Executing' + QueuedMessages' <= metrics'["enqueued"]
  BY <1>1, <1>2 DEF MetricsBalance
<1>4. \A h \in Handles : Size(queues'[h]) <= metrics'["peak"]
  <2>1. ASSUME NEW h \in Handles PROVE Size(queues'[h]) <= metrics'["peak"]
    <3>1. Size(queues[h]) \in Nat /\ Size(queues'[h]) \in Nat /\ metrics["peak"] \in Nat
      <4>1. queues[h] \in Queues /\ queues'[h] \in Queues
        BY DEF TypeOK
      <4> QED BY <4>1, Counting DEF Size, Queues
    <3>2. Size(queues[h]) <= metrics["peak"] /\ metrics' = metrics /\ Size(queues'[h]) <= Size(queues[h])
      BY DEF MetricsBalance
    <3> QED BY <3>1, <3>2
  <2> QED BY <2>1
<1> QED BY <1>3, <1>4 DEF MetricsBalance

(* send counts the message that it gives to a mailbox.                     *)
LEMMA BalanceSend ==
    ASSUME TypeOK, TypeOK', MetricsBalance, NEW m \in Messages, Send(m), UNCHANGED <<state, stack>>
    PROVE  MetricsBalance'
<1>0. /\ QueuedMessages \in Nat /\ Executing \in Nat /\ metrics["dispatched"] \in Nat
      /\ metrics["enqueued"] \in Nat /\ metrics["peak"] \in Nat
  BY Counting
<1>1. Executing' = Executing
  BY DEF Executing, Depth
<1>2. CASE ~Deliverable(m)
  <2>1. queues' = queues /\ metrics' = [metrics EXCEPT !["dropped"] = @ + 1]
    BY <1>2 DEF Send
  <2>2. /\ metrics'["dispatched"] = metrics["dispatched"] /\ metrics'["enqueued"] = metrics["enqueued"]
        /\ metrics'["peak"] = metrics["peak"]
    BY <2>1 DEF TypeOK, Counters
  <2>3. QueuedMessages' = QueuedMessages
    BY <2>1, QueuedSame
  <2> QED BY <1>1, <2>1, <2>2, <2>3 DEF MetricsBalance
<1>3. CASE Deliverable(m)
  <2> DEFINE q == Enqueue(queues[m.target], m)
  <2>1. m.target \in Handles /\ queues[m.target] \in Queues
    BY DEF Messages, TypeOK
  <2>2. /\ queues'[m.target] = TakeOverload(q) /\ \A g \in Handles \ {m.target} : queues'[g] = queues[g]
        /\ metrics' = Counted(m)
    BY <1>3, <2>1 DEF Send, TypeOK
  <2>3. Size(TakeOverload(q)) = Size(q) /\ Size(q) = Size(queues[m.target]) + 1 /\ Size(queues[m.target]) \in Nat
    BY <2>1 DEF Size, Enqueue, TakeOverload, Queues
  <2>4. /\ metrics'["dispatched"] = metrics["dispatched"] /\ metrics'["enqueued"] = metrics["enqueued"] + 1
        /\ metrics'["peak"] = IF Size(q) > metrics["peak"] THEN Size(q) ELSE metrics["peak"]
    BY <2>2 DEF Counted, TypeOK, Counters
  <2> HIDE DEF q
  <2>5. QueuedMessages' = QueuedMessages + 1
    <3>1. QueuedMessages' = QueuedMessages + Size(queues'[m.target]) - Size(queues[m.target])
      BY <2>1, <2>2, QueuedChange
    <3>2. \A w, s \in Nat : w + (s + 1) - s = w + 1
      OBVIOUS
    <3> QED BY <1>0, <2>2, <2>3, <3>1, <3>2
  <2>6. \A h \in Handles : Size(queues'[h]) <= metrics'["peak"]
    <3>1. ASSUME NEW h \in Handles PROVE Size(queues'[h]) <= metrics'["peak"]
      <4>1. Size(queues[h]) <= metrics["peak"] /\ Size(queues[h]) \in Nat
        BY DEF MetricsBalance, TypeOK, Size, Queues
      <4>2. Size(queues'[h]) = Size(q) \/ Size(queues'[h]) = Size(queues[h])
        BY <2>2, <2>3
      <4> QED BY <1>0, <2>3, <2>4, <4>1, <4>2
    <3> QED BY <3>1
  <2>7. /\ Handled' = metrics["dispatched"] + Executing + (QueuedMessages + 1)
        /\ Handled = metrics["dispatched"] + Executing + QueuedMessages
    BY <1>1, <2>4, <2>5 DEF Handled
  <2>8. \A d, e, w, n \in Nat : n + 1 + (d + e + w) = n + (d + e + (w + 1)) /\ d + e + w \in Int /\ d + e + (w + 1) \in Int
    OBVIOUS
  <2>9. metrics'["enqueued"] + Handled = metrics["enqueued"] + Handled' /\ Handled \in Int /\ Handled' \in Int
    BY ONLY <1>0, <2>4, <2>7, <2>8
  <2> QED BY <2>6, <2>9, BalanceStep
<1> QED BY <1>2, <1>3

(* Nothing that is counted changes.                                        *)
LEMMA BalanceQuiet ==
    ASSUME TypeOK, MetricsBalance, UNCHANGED <<queues, metrics>>, Executing' = Executing,
           \A h \in Handles : state'[h] # "Released" => state[h] # "Released"
    PROVE  MetricsBalance'
<1>1. QueuedMessages' = QueuedMessages
  BY QueuedSame
<1> QED BY <1>1 DEF MetricsBalance

LEMMA BalanceDispatch ==
    ASSUME TypeOK, TypeOK', MetricsBalance, DispatchNext
    PROVE  MetricsBalance'
<1> DEFINE h == Top.handle
<1>0. /\ QueuedMessages \in Nat /\ Executing \in Nat /\ metrics["dispatched"] \in Nat
      /\ metrics["enqueued"] \in Nat /\ IsFiniteSet(Handlers) /\ Executing = Cardinality(Handlers)
  BY Counting
<1>1. h \in Handles /\ Depth \in 1 .. Depth /\ Depth \in Nat /\ Top.phase = "loop"
  BY HandleTypes DEF DispatchNext, InLoop
<1>2. /\ queues' = [queues EXCEPT ![h] = Dequeue(queues[h])] /\ queues[h].messages # <<>> /\ UNCHANGED <<metrics, state>>
      /\ stack' = [stack EXCEPT ![Depth] = Frame(h, Top.left, "handler")]
  BY DEF DispatchNext, BatchGoesOn, IsEmpty
<1>3. Handlers' = Handlers \cup {Depth} /\ Depth \notin Handlers
  <2>1. Depth' = Depth /\ stack'[Depth].phase = "handler" /\ \A i \in 1 .. Depth : i # Depth => stack'[i] = stack[i]
    BY <1>1, <1>2 DEF Depth, TypeOK, Frame
  <2>2. stack[Depth].phase # "handler"
    BY <1>1 DEF Top
  <2> QED BY <1>1, <2>1, <2>2 DEF Handlers
<1>4. Executing' = Executing + 1
  <2>1. Cardinality(Handlers \cup {Depth}) = Cardinality(Handlers) + 1
    BY <1>0, <1>3, FS_AddElement
  <2>2. Executing' = Cardinality(Handlers')
    BY DEF Executing, Handlers
  <2> QED BY <1>0, <1>3, <2>1, <2>2
<1>5. /\ queues[h] \in Queues /\ queues'[h] = Dequeue(queues[h]) /\ \A g \in Handles \ {h} : queues'[g] = queues[g]
      /\ \A g \in Handles : Size(queues[g]) \in Nat
  BY <1>1, <1>2 DEF TypeOK, Size, Queues
<1> HIDE DEF h
<1>6. Size(queues'[h]) = Size(queues[h]) - 1
  BY <1>2, <1>5 DEF Size, Dequeue, Queues
<1>7. QueuedMessages' = QueuedMessages - 1
  <2>1. QueuedMessages' = QueuedMessages + Size(queues'[h]) - Size(queues[h])
    BY <1>1, <1>5, QueuedChange
  <2>2. \A w, s \in Nat : w + (s - 1) - s = w - 1
    OBVIOUS
  <2> QED BY <1>0, <1>1, <1>5, <1>6, <2>1, <2>2
<1>8. \A g \in Handles : Size(queues'[g]) <= metrics'["peak"]
  <2>1. ASSUME NEW g \in Handles PROVE Size(queues'[g]) <= metrics'["peak"]
    <3>1. Size(queues[g]) <= metrics["peak"] /\ metrics["peak"] \in Nat /\ metrics' = metrics
      BY <1>2, Counting DEF MetricsBalance
    <3>2. Size(queues'[g]) = Size(queues[g]) - 1 \/ Size(queues'[g]) = Size(queues[g])
      BY <1>5, <1>6
    <3> QED BY <1>5, <3>1, <3>2
  <2> QED BY <2>1
<1>9. /\ Handled' = metrics["dispatched"] + (Executing + 1) + (QueuedMessages - 1)
      /\ Handled = metrics["dispatched"] + Executing + QueuedMessages
  BY <1>2, <1>4, <1>7 DEF Handled
<1>10. Handled' = Handled /\ Handled \in Int
  <2>1. \A d, e, w \in Nat : d + (e + 1) + (w - 1) = d + e + w /\ d + e + w \in Int
    OBVIOUS
  <2> QED BY ONLY <1>0, <1>9, <2>1
<1>11. metrics'["enqueued"] + Handled = metrics["enqueued"] + Handled'
  BY <1>2, <1>10
<1> QED BY <1>2, <1>8, <1>10, <1>11, BalanceStep

LEMMA BalanceReturn ==
    ASSUME TypeOK, TypeOK', MetricsBalance, HandlerReturns
    PROVE  MetricsBalance'
<1>0. /\ QueuedMessages \in Nat /\ Executing \in Nat /\ metrics["dispatched"] \in Nat
      /\ metrics["enqueued"] \in Nat /\ IsFiniteSet(Handlers) /\ Executing = Cardinality(Handlers)
  BY Counting
<1>1. Depth \in 1 .. Depth /\ Depth \in Nat /\ Top.phase = "handler"
  BY HandleTypes DEF HandlerReturns, Caller
<1>2. /\ metrics' = [metrics EXCEPT !["dispatched"] = @ + 1] /\ UNCHANGED <<queues, state>>
      /\ stack' = [stack EXCEPT ![Depth] = Frame(Top.handle, Top.left - 1, "loop")]
  BY DEF HandlerReturns
<1>3. Handlers' = Handlers \ {Depth} /\ Depth \in Handlers
  <2>1. Depth' = Depth /\ stack'[Depth].phase = "loop" /\ \A i \in 1 .. Depth : i # Depth => stack'[i] = stack[i]
    BY <1>1, <1>2 DEF Depth, TypeOK, Frame
  <2>2. stack[Depth].phase = "handler"
    BY <1>1 DEF Top
  <2> QED BY <1>1, <2>1, <2>2 DEF Handlers
<1>4. Executing' = Executing - 1
  <2>1. Cardinality(Handlers \ {Depth}) = Cardinality(Handlers) - 1
    BY <1>0, <1>3, FS_RemoveElement
  <2>2. Executing' = Cardinality(Handlers')
    BY DEF Executing, Handlers
  <2> QED BY <1>0, <1>3, <2>1, <2>2
<1>5. /\ metrics'["dispatched"] = metrics["dispatched"] + 1 /\ metrics'["enqueued"] = metrics["enqueued"]
      /\ metrics'["peak"] = metrics["peak"]
  BY <1>2 DEF TypeOK, Counters
<1>6. QueuedMessages' = QueuedMessages
  BY <1>2, QueuedSame
<1>7. \A g \in Handles : Size(queues'[g]) <= metrics'["peak"]
  BY <1>2, <1>5 DEF MetricsBalance
<1>8. /\ Handled' = (metrics["dispatched"] + 1) + (Executing - 1) + QueuedMessages
      /\ Handled = metrics["dispatched"] + Executing + QueuedMessages
  BY <1>4, <1>5, <1>6 DEF Handled
<1>9. Handled' = Handled /\ Handled \in Int
  <2>1. \A d, e, w \in Nat : (d + 1) + (e - 1) + w = d + e + w /\ d + e + w \in Int
    OBVIOUS
  <2> QED BY ONLY <1>0, <1>8, <2>1
<1>10. metrics'["enqueued"] + Handled = metrics["enqueued"] + Handled'
  BY <1>5, <1>9
<1> QED BY <1>2, <1>7, <1>9, <1>10, BalanceStep

(* A frame that is not in a handler comes or goes.                         *)
LEMMA SameHandlers ==
    ASSUME TypeOK, \/ \E max \in 1 .. MaxBatch : DispatchBatch(max)
                   \/ BatchEnds
    PROVE  Executing' = Executing
<1>0. stack \in Seq(Frames) /\ Depth \in Nat /\ Depth = Len(stack)
  BY DEF TypeOK, Depth
<1>1. ASSUME NEW max \in 1 .. MaxBatch, DispatchBatch(max) PROVE Handlers' = Handlers
  <2>1. stack' = stack \/ \E h : stack' = Append(stack, Frame(h, max, "loop"))
    BY <1>1 DEF DispatchBatch
  <2>2. CASE stack' = stack
    BY <2>2 DEF Handlers, Depth
  <2>3. ASSUME NEW f, f.phase = "loop", stack' = Append(stack, f) PROVE Handlers' = Handlers
    <3>1. Depth' = Depth + 1 /\ stack'[Depth + 1] = f /\ \A i \in 1 .. Depth : stack'[i] = stack[i]
      BY <1>0, <2>3 DEF Depth
    <3> QED BY <1>0, <2>3, <3>1 DEF Handlers
  <2>4. \A h : Frame(h, max, "loop").phase = "loop"
    BY DEF Frame
  <2> QED BY <2>1, <2>2, <2>3, <2>4
<1>2. ASSUME BatchEnds PROVE Handlers' = Handlers
  <2>1. stack' = SubSeq(stack, 1, Depth - 1) /\ stack # <<>> /\ stack[Depth].phase = "loop"
    BY <1>2 DEF BatchEnds, InLoop, Top
  <2>2. Depth' = Depth - 1 /\ Depth >= 1 /\ \A i \in 1 .. Depth - 1 : stack'[i] = stack[i]
    BY <1>0, <2>1, PopProperties DEF Depth
  <2>3. \A i \in 1 .. Depth : i \in 1 .. Depth' \/ i = Depth
    BY <1>0, <2>2
  <2>4. \A i \in 1 .. Depth' : i \in 1 .. Depth /\ stack'[i] = stack[i]
    BY <1>0, <2>2
  <2>5. "loop" # "handler"
    OBVIOUS
  <2>6. \A i : i \in Handlers' <=> i \in Handlers
    BY <2>1, <2>3, <2>4, <2>5 DEF Handlers
  <2> QED BY <2>6
<1>3. Handlers' = Handlers
  <2>1. (\E max \in 1 .. MaxBatch : DispatchBatch(max)) => Handlers' = Handlers
    BY <1>1
  <2> QED BY <1>2, <2>1
<1>4. Executing' = Cardinality(Handlers') /\ Executing = Cardinality(Handlers)
  BY DEF Executing, Handlers
<1> QED BY <1>3, <1>4

LEMMA BalanceNext ==
    ASSUME TypeInv, TypeOK', RegistryConsistent, MetricsBalance, [Next]_vars
    PROVE  MetricsBalance'
<1>0. TypeOK /\ \A h \in Handles : Size(queues[h]) \in Nat
  <2>1. TypeOK
    BY DEF TypeInv
  <2>2. queues \in [Handles -> Queues]
    BY <2>1 DEF TypeOK
  <2> QED BY <2>1, <2>2 DEF Size, Queues
<1>a. Size(EmptyQueue) = 0
  BY DEF Size, EmptyQueue
<1>1. ASSUME NEW m \in Messages, Send(m), UNCHANGED <<state, stack>> PROVE MetricsBalance'
  BY <1>0, <1>1, BalanceSend
<1>2. ASSUME NEW h \in Handles, ReleaseService(h) PROVE MetricsBalance'
  <2>1. UNCHANGED <<metrics, stack>> /\ queues' = [queues EXCEPT ![h] = EmptyQueue] /\ state'[h] = "Released"
    BY <1>0, <1>2 DEF ReleaseService, TypeOK
  <2>2. queues'[h] = EmptyQueue /\ \A g \in Handles \ {h} : queues'[g] = queues[g]
    BY <1>0, <2>1 DEF TypeOK
  <2>3. QueuedMessages' = QueuedMessages + Size(queues'[h]) - Size(queues[h]) /\ QueuedMessages \in Nat
    BY <1>0, <2>2, QueuedChange, Counting
  <2>4. QueuedMessages' <= QueuedMessages
    BY <1>0, <1>a, <2>2, <2>3
  <2>5. \A g \in Handles : Size(queues'[g]) <= Size(queues[g])
    BY <1>0, <1>a, <2>2
  <2>6. Executing' = Executing
    BY <2>1 DEF Executing, Depth
  <2> QED BY <1>0, <2>1, <2>4, <2>5, <2>6, BalanceRelease
<1>3. CASE Shutdown
  <2>1. UNCHANGED <<metrics, stack>> /\ queues' = [h \in Handles |-> EmptyQueue]
    BY <1>3 DEF Shutdown
  <2>2. \E h \in Handles : state'[h] = "Released"
    BY <1>3 DEF Shutdown
  <2>3. Sizes' \in [Handles -> Int] /\ \A h \in Handles : Sizes'[h] = 0
    BY <1>a, <2>1 DEF Sizes
  <2>4. QueuedMessages' = 0 /\ QueuedMessages \in Nat
    BY <1>0, <2>3, TotalZero, Counting, QueuedTotalNext
  <2>5. QueuedMessages' <= QueuedMessages /\ \A g \in Handles : Size(queues'[g]) <= Size(queues[g])
    BY <1>0, <1>a, <2>1, <2>4
  <2>6. Executing' = Executing
    BY <2>1 DEF Executing, Depth
  <2> QED BY <1>0, <2>1, <2>2, <2>5, <2>6, BalanceRelease
<1>4. CASE DispatchNext \/ HandlerReturns
  BY <1>0, <1>4, BalanceDispatch, BalanceReturn
<1>5. ASSUME UNCHANGED <<queues, metrics, state>>, Executing' = Executing PROVE MetricsBalance'
  BY <1>0, <1>5, BalanceQuiet
<1>6. CASE (\E max \in 1 .. MaxBatch : DispatchBatch(max)) \/ BatchEnds
  <2>1. UNCHANGED <<queues, metrics, state>>
    BY <1>6 DEF DispatchBatch, BatchEnds
  <2> QED BY <1>0, <1>5, <1>6, <2>1, SameHandlers
<1>7. CASE UNCHANGED <<queues, metrics, stack>> /\ \A h \in Handles : state'[h] # "Released" => state[h] # "Released"
  <2>1. Executing' = Executing
    BY <1>7 DEF Executing, Depth
  <2> QED BY <1>0, <1>7, <2>1, BalanceQuiet
<1>8. ASSUME NEW n \in Names \cup {AnonymousName}, RegisterService(n) PROVE MetricsBalance'
  <2>1. UNCHANGED <<queues, metrics, stack>> /\ (state' = state \/ state' = [state EXCEPT ![nextHandle] = "Running"])
    BY <1>8 DEF RegisterService
  <2>2. nextHandle \in Handles /\ nextHandle >= nextHandle
    BY <1>0, <1>8, RegistryAssumption DEF RegisterService, TypeOK, Handles
  <2>3. state[nextHandle] = "Created" /\ state \in [Handles -> ServiceStates]
    BY <1>0, <2>2 DEF RegistryConsistent, TypeOK
  <2>4. \A h \in Handles : state'[h] # "Released" => state[h] # "Released"
    BY <2>1, <2>2, <2>3
  <2> QED BY <1>7, <2>1, <2>4
<1>9. ASSUME NEW h \in Handles, StopService(h) PROVE MetricsBalance'
  <2>1. UNCHANGED <<queues, metrics, stack>> /\ \A g \in Handles : state'[g] # "Released" => state[g] # "Released"
    BY <1>0, <1>9 DEF StopService, TypeOK
  <2> QED BY <1>7, <2>1
<1>10. CASE UNCHANGED <<queues, metrics, stack, state>>
  BY <1>7, <1>10
<1>11. CASE Sends
  <2>1. UNCHANGED <<state, stack>>
    BY <1>11 DEF Sends, SendMessage, Call, Respond, PumpNext
  <2> QED BY <1>0, <1>1, <1>11, <2>1, SendsMessage
<1> QED BY <1>2, <1>3, <1>4, <1>6, <1>8, <1>9, <1>10, <1>11
        DEF Next, vars, Sends, ScheduleTimeout, CancelTimeout, PumpTimers

(* The metrics are right at every moment of every nested dispatch: what    *)
(* was enqueued is dispatched, being handled or in a mailbox, or was       *)
(* discarded by a release; and no mailbox was ever larger than the peak.   *)
THEOREM MetricsBalanceHolds == Spec => []MetricsBalance
<1>1. Init => TypeInv /\ RegistryConsistent /\ MetricsBalance
  <2> SUFFICES ASSUME Init PROVE MetricsBalance
    BY InitType, InitRegistry
  <2>1. TypeOK
    BY InitType DEF TypeInv
  <2>2. \A h \in Handles : Size(queues[h]) = 0
    BY DEF Init, Size, EmptyQueue
  <2>3. QueuedMessages = 0
    <3>1. Sizes \in [Handles -> Int] /\ (\A h \in Handles : Sizes[h] = 0) /\ IsFiniteSet(Handles)
      BY <2>1, <2>2, Counting DEF Sizes
    <3> QED BY <3>1, TotalZero, QueuedTotal
  <2>4. Executing = 0
    <3>1. {i \in 1 .. Depth : stack[i].phase = "handler"} = {}
      BY DEF Init, Depth
    <3> QED BY <3>1, FS_EmptySet DEF Executing
  <2>5. metrics["dispatched"] = 0 /\ metrics["enqueued"] = 0 /\ metrics["peak"] = 0
    BY DEF Init, Counters
  <2> QED BY <2>2, <2>3, <2>4, <2>5 DEF MetricsBalance
<1>2. TypeInv /\ RegistryConsistent /\ MetricsBalance /\ [Next]_vars
        => TypeInv' /\ RegistryConsistent' /\ MetricsBalance'
  BY NextType, NextRegistry, BalanceNext DEF TypeInv
<1> QED BY <1>1, <1>2, PTL DEF Spec
=============================================================================
