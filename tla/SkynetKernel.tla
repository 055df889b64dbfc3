---------------------------- MODULE SkynetKernel ----------------------------
(***************************************************************************)
(* The multithreaded core of skynet: skynet_mq.c, the life of a context in *)
(* skynet_server.c and skynet_handle.c, and the threads of skynet_start.c. *)
(*                                                                         *)
(* Workers pass message queues around.  A queue is in the global queue, or *)
(* with the one worker that dispatches it, or it is out: empty and waiting *)
(* for the push that puts it back.  Contexts are reference counted, and a  *)
(* queue outlives its context: the last holder marks it released, and the  *)
(* worker that gets it then drops its messages and frees it.               *)
(*                                                                         *)
(* A step is one critical section of a lock or one atomic operation.  What *)
(* happens under a lock of a queue nobody else can reach is joined to the  *)
(* step next to it.                                                        *)
(***************************************************************************)
EXTENDS Integers, Sequences, FiniteSets, FiniteSetsExt

CONSTANTS Services,     \* handles; each is launched at most once
          Root,         \* the service that skynet_start launches before the workers
          None,         \* NULL
          Workers,      \* worker threads
          Outside,      \* the timer or the socket thread, which also send
          Weight,       \* worker_parm.weight
          MaxSend       \* bound: messages sent by services and threads

ASSUME KernelAssumption ==
    /\ Root \in Services /\ None \notin Services /\ IsFiniteSet(Services)
    /\ IsFiniteSet(Workers) /\ Outside \notin Workers
    /\ Weight \in [Workers -> Nat \cup {-1}]
    /\ \A w \in Workers : Weight[w] >= 0 => 2 ^ Weight[w] \in Nat \ {0}
    /\ MaxSend \in Nat

Threads == Workers \cup {Outside}

VARIABLES
    slots,      \* H->slot: the services that skynet_handle_grab finds
    life,       \* of a context: "none", "init", "up" (ctx->init) or "freed"
    ref,        \* ctx->ref
    mail,       \* message_queue: the messages, each the handle of its source
    inGlobal,   \* message_queue: in_global
    released,   \* message_queue: release
    mqLife,     \* "none", "live" or "freed"
    globalq,    \* Q, the global queue
    pc,         \* where a thread is
    held,       \* q of thread_worker and skynet_context_message_dispatch
    nextq,      \* nq of skynet_context_message_dispatch
    left,       \* n - i - 1: further messages that the dispatch loop takes
    op, to,     \* a call on a context in progress: what is next, and on which
    from,       \* source of the message that the call pushes
    new,        \* the service that skynet_context_new is launching
    sent,       \* messages sent, for the bound
    pushed,     \* messages that came into a queue
    done,       \* messages dispatched or dropped
    quit        \* monitor.quit

ctxVars    == <<slots, life, ref>>
queueVars  == <<mail, inGlobal, released, mqLife>>
callVars   == <<op, to, from>>
workerVars == <<pc, held, nextq, left, new>>
countVars  == <<sent, pushed, done>>

vars == <<ctxVars, queueVars, globalq, callVars, workerVars, countVars, quit>>

Put(f, x, v) == [f EXCEPT ![x] = v]

(* skynet_start launches the root service, which leaves its queue in the   *)
(* global queue, before any thread runs.                                   *)
Init ==
    /\ slots = {Root}
    /\ life = [s \in Services |-> IF s = Root THEN "up" ELSE "none"]
    /\ ref = [s \in Services |-> IF s = Root THEN 1 ELSE 0]
    /\ mail = [s \in Services |-> <<>>]
    /\ inGlobal = [s \in Services |-> s = Root]
    /\ released = [s \in Services |-> FALSE]
    /\ mqLife = [s \in Services |-> IF s = Root THEN "live" ELSE "none"]
    /\ globalq = <<Root>>
    /\ pc = [t \in Threads |-> IF t = Outside THEN "outside" ELSE "top"]
    /\ held = [t \in Threads |-> None] /\ nextq = [t \in Threads |-> None]
    /\ left = [t \in Threads |-> 0]
    /\ op = [t \in Threads |-> "none"]
    /\ to = [t \in Threads |-> None] /\ from = [t \in Threads |-> None]
    /\ new = [t \in Threads |-> None]
    /\ sent = 0 /\ pushed = 0 /\ done = 0 /\ quit = FALSE

(* skynet_context_total                                                    *)
Total == Cardinality({s \in Services : life[s] \in {"init", "up"}})

Idle(t) == op[t] = "none"

(* Code of services: a handler, or the init function of a module.          *)
InService(t) == pc[t] \in {"handler", "init"} /\ Idle(t)

GlobalmqPush(s) == globalq' = Append(globalq, s)

(***************************************************************************)
(* Calls on contexts, by any thread.  skynet_context_push is a grab, a     *)
(* push and a release; retire unlinks the context and releases it.         *)
(***************************************************************************)
BeginRelease(t, s) ==
    /\ op' = Put(op, t, "release") /\ to' = Put(to, t, s)
    /\ UNCHANGED from

GrabUncounted(t, s, source) ==     \* mutation: the sender takes no reference
    /\ s \in slots
    /\ op' = Put(op, t, "push") /\ to' = Put(to, t, s) /\ from' = Put(from, t, source)
    /\ UNCHANGED <<slots, life, ref>>

GrabToPush(t, s, source) ==
    /\ s \in slots
    /\ ref' = [ref EXCEPT ![s] = @ + 1]
    /\ op' = Put(op, t, "push") /\ to' = Put(to, t, s) /\ from' = Put(from, t, source)
    /\ UNCHANGED <<slots, life>>

(* skynet_send from a service to a local destination; a send to a handle   *)
(* that is not there fails and changes nothing.                            *)
SendMessage(t, s) ==
    /\ InService(t) /\ sent < MaxSend
    /\ GrabToPush(t, s, IF new[t] = None THEN held[t] ELSE new[t])
    /\ sent' = sent + 1
    /\ UNCHANGED <<queueVars, globalq, workerVars, pushed, done, quit>>

(* The timer's and the socket thread's messages have no source.            *)
SendOutside(s) ==
    /\ Idle(Outside) /\ sent < MaxSend
    /\ GrabToPush(Outside, s, None)
    /\ sent' = sent + 1
    /\ UNCHANGED <<queueVars, globalq, workerVars, pushed, done, quit>>

MqPushAlways(t) ==                 \* mutation: in_global is not looked at
    /\ op[t] = "push"
    /\ mail' = [mail EXCEPT ![to[t]] = Append(@, from[t])]
    /\ inGlobal' = Put(inGlobal, to[t], TRUE)
    /\ GlobalmqPush(to[t])
    /\ op' = Put(op, t, "release") /\ from' = Put(from, t, None)
    /\ pushed' = pushed + 1
    /\ UNCHANGED <<ctxVars, released, mqLife, to, workerVars, sent, done, quit>>

(* skynet_mq_push                                                          *)
MqPush(t) ==
    /\ op[t] = "push"
    /\ mail' = [mail EXCEPT ![to[t]] = Append(@, from[t])]
    /\ inGlobal' = Put(inGlobal, to[t], TRUE)
    /\ IF inGlobal[to[t]] THEN UNCHANGED globalq ELSE GlobalmqPush(to[t])
    /\ op' = Put(op, t, "release") /\ from' = Put(from, t, None)
    /\ pushed' = pushed + 1
    /\ UNCHANGED <<ctxVars, released, mqLife, to, workerVars, sent, done, quit>>

(* skynet_context_release: the one who takes the last reference deletes.   *)
ContextRelease(t) ==
    /\ op[t] = "release"
    /\ ref' = [ref EXCEPT ![to[t]] = @ - 1]
    /\ IF ref[to[t]] = 1
       THEN op' = Put(op, t, "delete") /\ UNCHANGED to
       ELSE op' = Put(op, t, "none") /\ to' = Put(to, t, None)
    /\ UNCHANGED <<slots, life, from, queueVars, globalq, workerVars, countVars, quit>>

MarkReleaseOnly(s) ==              \* mutation: a queue that is out is not put back
    /\ released' = Put(released, s, TRUE)
    /\ UNCHANGED globalq

(* skynet_mq_mark_release: a queue that is out comes back to be dropped.   *)
MarkRelease(s) ==
    /\ released' = Put(released, s, TRUE)
    /\ IF inGlobal[s] THEN UNCHANGED globalq ELSE GlobalmqPush(s)

(* delete_context                                                          *)
DeleteContext(t) ==
    /\ op[t] = "delete"
    /\ MarkRelease(to[t])
    /\ life' = Put(life, to[t], "freed")
    /\ op' = Put(op, t, "none") /\ to' = Put(to, t, None)
    /\ UNCHANGED <<slots, ref, mail, inGlobal, mqLife, from, workerVars, countVars, quit>>

(* handle_exit, by a service on itself or on another: skynet_handle_retire *)
Retire(t, s) ==
    /\ InService(t)
    /\ s \in slots
    /\ slots' = slots \ {s}
    /\ BeginRelease(t, s)
    /\ UNCHANGED <<life, ref, queueVars, globalq, workerVars, countVars, quit>>

(***************************************************************************)
(* skynet_context_new, called by a handler.  One reference is the handle   *)
(* table's and one is the init function's; in_global is set so that no     *)
(* push puts the queue into the global queue before init has returned.     *)
(***************************************************************************)
MqCreate(s) == mqLife' = Put(mqLife, s, "live") /\ inGlobal' = Put(inGlobal, s, TRUE)

ContextNew(t, s) ==
    /\ pc[t] = "handler" /\ Idle(t)
    /\ life[s] = "none"
    /\ slots' = slots \cup {s}
    /\ life' = Put(life, s, "init") /\ ref' = Put(ref, s, 2)
    /\ MqCreate(s)
    /\ pc' = Put(pc, t, "init") /\ new' = Put(new, t, s)
    /\ UNCHANGED <<mail, released, globalq, callVars, held, nextq, left, countVars, quit>>

InitSucceeds(t) ==
    /\ pc[t] = "init" /\ Idle(t)
    /\ life' = Put(life, new[t], "up")
    /\ GlobalmqPush(new[t])
    /\ BeginRelease(t, new[t])
    /\ pc' = Put(pc, t, "handler") /\ new' = Put(new, t, None)
    /\ UNCHANGED <<slots, ref, queueVars, held, nextq, left, countVars, quit>>

InitFails(t) ==
    /\ pc[t] = "init" /\ Idle(t)
    /\ BeginRelease(t, new[t])
    /\ pc' = Put(pc, t, "retire")
    /\ UNCHANGED <<ctxVars, queueVars, globalq, held, nextq, left, new, countVars, quit>>

RetireSkipped(t) ==                \* mutation: the failed service stays in the table
    /\ pc[t] = "retire" /\ Idle(t)
    /\ pc' = Put(pc, t, "mqrelease")
    /\ UNCHANGED <<ctxVars, callVars, queueVars, globalq, held, nextq, left, new, countVars, quit>>

RetireFailed(t) ==
    /\ pc[t] = "retire" /\ Idle(t)
    /\ IF new[t] \in slots
       THEN slots' = slots \ {new[t]} /\ BeginRelease(t, new[t])
       ELSE UNCHANGED <<slots, callVars>>
    /\ pc' = Put(pc, t, "mqrelease")
    /\ UNCHANGED <<life, ref, queueVars, globalq, held, nextq, left, new, countVars, quit>>

(***************************************************************************)
(* skynet_mq_release of a queue whose context cannot be found: drop and    *)
(* free it if the context has marked it, else hand it to a later worker.   *)
(* The thread comes here from a failed init or from the dispatch loop.     *)
(***************************************************************************)
Orphan(t) == IF new[t] = None THEN held[t] ELSE new[t]

AfterOrphan(t) ==
    IF new[t] = None
    THEN pc' = Put(pc, t, "next") /\ held' = Put(held, t, None) /\ UNCHANGED new
    ELSE pc' = Put(pc, t, "handler") /\ new' = Put(new, t, None) /\ UNCHANGED held

MqReleaseUnmarked(t) ==            \* mutation: the release flag is not looked at
    /\ pc[t] = "mqrelease" /\ Idle(t)
    /\ pc' = Put(pc, t, "drop") /\ UNCHANGED <<globalq, held, new>>
    /\ UNCHANGED <<ctxVars, queueVars, callVars, nextq, left, countVars, quit>>

MqRelease(t) ==
    /\ pc[t] = "mqrelease" /\ Idle(t)
    /\ IF released[Orphan(t)]
       THEN pc' = Put(pc, t, "drop") /\ UNCHANGED <<globalq, held, new>>
       ELSE GlobalmqPush(Orphan(t)) /\ AfterOrphan(t)
    /\ UNCHANGED <<ctxVars, queueVars, callVars, nextq, left, countVars, quit>>

(* drop_message reports an error to the source, if that is still there.    *)
DropMessage(t) ==
    LET q == Orphan(t)
        source == Head(mail[q])
    IN  /\ pc[t] = "drop" /\ Idle(t)
        /\ mail[q] # <<>>
        /\ mail' = [mail EXCEPT ![q] = Tail(@)]
        /\ done' = done + 1
        /\ IF source \in slots THEN GrabToPush(t, source, q)
                               ELSE UNCHANGED <<ctxVars, callVars>>
        /\ UNCHANGED <<inGlobal, released, mqLife, globalq, workerVars, sent, pushed, quit>>

(* _drop_queue has emptied the queue and frees it.                         *)
FreeQueue(t) ==
    /\ pc[t] = "drop" /\ Idle(t)
    /\ mail[Orphan(t)] = <<>>
    /\ inGlobal' = Put(inGlobal, Orphan(t), FALSE)
    /\ mqLife' = Put(mqLife, Orphan(t), "freed")
    /\ AfterOrphan(t)
    /\ UNCHANGED <<ctxVars, mail, released, globalq, callVars, nextq, left, countVars, quit>>

(***************************************************************************)
(* thread_worker and skynet_context_message_dispatch.                      *)
(***************************************************************************)
AtTop(t) == pc[t] = "top" /\ Idle(t)

Stop(t) ==
    /\ AtTop(t) /\ quit
    /\ pc' = Put(pc, t, "stopped")
    /\ UNCHANGED <<ctxVars, queueVars, globalq, callVars, held, nextq, left, new, countVars, quit>>

Continue(t) ==
    /\ AtTop(t) /\ ~quit
    /\ pc' = Put(pc, t, IF held[t] = None THEN "first" ELSE "grab")
    /\ UNCHANGED <<ctxVars, queueVars, globalq, callVars, held, nextq, left, new, countVars, quit>>

(* skynet_globalmq_pop, as the first thing of a dispatch without a queue   *)
(* or the last thing of a dispatch; without a queue the worker goes to     *)
(* sleep.                                                                  *)
GlobalmqPop(t) ==
    /\ pc[t] \in {"first", "next"} /\ Idle(t)
    /\ IF globalq = <<>>
       THEN pc' = Put(pc, t, "sleep") /\ UNCHANGED <<globalq, held>>
       ELSE /\ held' = Put(held, t, Head(globalq)) /\ globalq' = Tail(globalq)
            /\ pc' = Put(pc, t, IF pc[t] = "first" THEN "grab" ELSE "top")
    /\ UNCHANGED <<ctxVars, queueVars, callVars, nextq, left, new, countVars, quit>>

GrabContextUncounted(t) ==         \* mutation: the dispatcher takes no reference
    /\ pc[t] = "grab" /\ Idle(t)
    /\ pc' = Put(pc, t, IF held[t] \in slots THEN "pop" ELSE "mqrelease")
    /\ left' = Put(left, t, -1)
    /\ UNCHANGED <<ctxVars, queueVars, globalq, callVars, held, nextq, new, countVars, quit>>

GrabContext(t) ==
    /\ pc[t] = "grab" /\ Idle(t)
    /\ IF held[t] \in slots
       THEN ref' = [ref EXCEPT ![held[t]] = @ + 1] /\ pc' = Put(pc, t, "pop")
       ELSE UNCHANGED ref /\ pc' = Put(pc, t, "mqrelease")
    /\ left' = Put(left, t, -1)
    /\ UNCHANGED <<slots, life, queueVars, globalq, callVars, held, nextq, new, countVars, quit>>

MqPopKeepsHead(t) ==               \* mutation: the head index does not move
    /\ pc[t] = "pop" /\ Idle(t)
    /\ mail[held[t]] # <<>>
    /\ pc' = Put(pc, t, "handler") /\ left' = Put(left, t, 0)
    /\ UNCHANGED <<ctxVars, queueVars, globalq, callVars, held, nextq, new, countVars, quit>>

(* skynet_mq_pop finds a message.                                          *)
MqPop(t) ==
    /\ pc[t] = "pop" /\ Idle(t)
    /\ mail[held[t]] # <<>>
    /\ mail' = [mail EXCEPT ![held[t]] = Tail(@)]
    /\ IF left[t] = -1 /\ Weight[t] >= 0
       THEN pc' = Put(pc, t, "measure") /\ UNCHANGED left
       ELSE /\ pc' = Put(pc, t, "handler")
            /\ left' = Put(left, t, IF left[t] = -1 THEN 0 ELSE left[t] - 1)
    /\ UNCHANGED <<ctxVars, inGlobal, released, mqLife, globalq, callVars, held, nextq, new, countVars, quit>>

MqPopKeepsFlag(t) ==               \* mutation: in_global stays set on an empty queue
    /\ pc[t] = "pop" /\ Idle(t)
    /\ mail[held[t]] = <<>>
    /\ BeginRelease(t, held[t])
    /\ pc' = Put(pc, t, "next") /\ held' = Put(held, t, None)
    /\ UNCHANGED <<ctxVars, queueVars, globalq, nextq, left, new, countVars, quit>>

(* skynet_mq_pop finds none: the queue is out.                             *)
MqPopEmpty(t) ==
    /\ pc[t] = "pop" /\ Idle(t)
    /\ mail[held[t]] = <<>>
    /\ inGlobal' = Put(inGlobal, held[t], FALSE)
    /\ BeginRelease(t, held[t])
    /\ pc' = Put(pc, t, "next") /\ held' = Put(held, t, None)
    /\ UNCHANGED <<ctxVars, mail, released, mqLife, globalq, nextq, left, new, countVars, quit>>

(* n = skynet_mq_length(q) >> weight; one message has been taken already.  *)
Measure(t) ==
    /\ pc[t] = "measure"
    /\ LET n == Len(mail[held[t]]) \div 2 ^ Weight[t]
       IN  left' = Put(left, t, IF n = 0 THEN 0 ELSE n - 1)
    /\ pc' = Put(pc, t, "handler")
    /\ UNCHANGED <<ctxVars, queueVars, globalq, callVars, held, nextq, new, countVars, quit>>

HandlerReturns(t) ==
    /\ pc[t] = "handler" /\ Idle(t)
    /\ pc' = Put(pc, t, IF left[t] = 0 THEN "requeue" ELSE "pop")
    /\ done' = done + 1
    /\ UNCHANGED <<ctxVars, queueVars, globalq, callVars, held, nextq, left, new, sent, pushed, quit>>

(* The batch is over: another queue comes first, if there is one.          *)
PopNext(t) ==
    /\ pc[t] = "requeue" /\ Idle(t)
    /\ IF globalq = <<>>
       THEN pc' = Put(pc, t, "top") /\ BeginRelease(t, held[t]) /\ UNCHANGED <<nextq, globalq>>
       ELSE /\ nextq' = Put(nextq, t, Head(globalq)) /\ globalq' = Tail(globalq)
            /\ pc' = Put(pc, t, "pushback") /\ UNCHANGED callVars
    /\ UNCHANGED <<ctxVars, queueVars, held, left, new, countVars, quit>>

PushBackForgotten(t) ==            \* mutation: the queue is not put back
    /\ pc[t] = "pushback"
    /\ held' = Put(held, t, nextq[t]) /\ nextq' = Put(nextq, t, None)
    /\ BeginRelease(t, held[t])
    /\ pc' = Put(pc, t, "top")
    /\ UNCHANGED <<ctxVars, queueVars, globalq, left, new, countVars, quit>>

PushBack(t) ==
    /\ pc[t] = "pushback"
    /\ GlobalmqPush(held[t])
    /\ held' = Put(held, t, nextq[t]) /\ nextq' = Put(nextq, t, None)
    /\ BeginRelease(t, held[t])
    /\ pc' = Put(pc, t, "top")
    /\ UNCHANGED <<ctxVars, queueVars, left, new, countVars, quit>>

SleepUnchecked(t) ==               \* mutation: quit is not read again under the mutex
    /\ pc[t] = "sleep" /\ Idle(t)
    /\ pc' = Put(pc, t, "asleep")
    /\ UNCHANGED <<ctxVars, queueVars, globalq, callVars, held, nextq, left, new, countVars, quit>>

(* Under the mutex: wait on the condition unless told to quit.             *)
Sleep(t) ==
    /\ pc[t] = "sleep" /\ Idle(t)
    /\ pc' = Put(pc, t, IF quit THEN "top" ELSE "asleep")
    /\ UNCHANGED <<ctxVars, queueVars, globalq, callVars, held, nextq, left, new, countVars, quit>>

(***************************************************************************)
(* thread_timer signals a sleeping worker every 2.5 ms, whether or not     *)
(* there is work (pushes do not signal), until no context is left.         *)
(***************************************************************************)
Wakeup(t) ==
    /\ pc[t] = "asleep" /\ ~quit
    /\ pc' = Put(pc, t, "top")
    /\ UNCHANGED <<ctxVars, queueVars, globalq, callVars, held, nextq, left, new, countVars, quit>>

Abort ==
    /\ Total = 0 /\ ~quit
    /\ quit' = TRUE
    /\ pc' = [t \in Threads |-> IF pc[t] = "asleep" THEN "top" ELSE pc[t]]
    /\ UNCHANGED <<ctxVars, queueVars, globalq, callVars, held, nextq, left, new, countVars>>

Terminated ==
    /\ \A t \in Workers : pc[t] = "stopped"
    /\ UNCHANGED vars

CallStep(t) == MqPush(t) \/ ContextRelease(t) \/ DeleteContext(t)

WorkerStep(t) ==
    \/ InitSucceeds(t) \/ InitFails(t) \/ RetireFailed(t)
    \/ MqRelease(t) \/ DropMessage(t) \/ FreeQueue(t)
    \/ Stop(t) \/ Continue(t) \/ GlobalmqPop(t) \/ GrabContext(t)
    \/ MqPop(t) \/ MqPopEmpty(t) \/ Measure(t) \/ HandlerReturns(t)
    \/ PopNext(t) \/ PushBack(t) \/ Sleep(t)

Next ==
    \/ \E t \in Threads : CallStep(t)
    \/ \E t \in Workers : WorkerStep(t) \/ Wakeup(t)
    \/ \E t \in Workers, s \in Services :
          SendMessage(t, s) \/ Retire(t, s) \/ ContextNew(t, s)
    \/ \E s \in Services : SendOutside(s)
    \/ Abort
    \/ Terminated

Spec == Init /\ [][Next]_vars

(***************************************************************************)
(* Threads are scheduled, handlers and init functions return, and the      *)
(* timer thread runs.  What services send, retire or launch is up to them. *)
(***************************************************************************)
Fairness ==
    /\ \A t \in Threads : WF_vars(CallStep(t))
    /\ \A t \in Workers : WF_vars(WorkerStep(t))
    /\ WF_vars(\E t \in Workers : Wakeup(t))
    /\ WF_vars(Abort)

FairSpec == Spec /\ Fairness

-----------------------------------------------------------------------------
(***************************************************************************)
(* Safety properties.                                                      *)
(***************************************************************************)
Places == {"outside", "top", "first", "next", "grab", "pop", "measure",
           "handler", "init", "retire", "mqrelease", "drop", "requeue",
           "pushback", "sleep", "asleep", "stopped"}

Handle == Services \cup {None}

(* Type invariant.                                                         *)
TypeOK ==
    /\ slots \subseteq Services
    /\ life \in [Services -> {"none", "init", "up", "freed"}]
    /\ ref \in [Services -> Nat]
    /\ mail \in [Services -> Seq(Handle)]
    /\ inGlobal \in [Services -> BOOLEAN] /\ released \in [Services -> BOOLEAN]
    /\ mqLife \in [Services -> {"none", "live", "freed"}]
    /\ globalq \in Seq(Services)
    /\ pc \in [Threads -> Places]
    /\ held \in [Threads -> Handle] /\ nextq \in [Threads -> Handle]
    /\ left \in [Threads -> Nat \cup {-1}]
    /\ op \in [Threads -> {"none", "push", "release", "delete"}]
    /\ to \in [Threads -> Handle] /\ from \in [Threads -> Handle]
    /\ new \in [Threads -> Handle]
    /\ sent \in Nat /\ pushed \in Nat /\ done \in Nat /\ quit \in BOOLEAN

InQueue(s) == \E i \in 1 .. Len(globalq) : globalq[i] = s

(* A queue is in one place: it is in the global queue at most once, or     *)
(* with one thread, never both.  So a service runs one message at a time,  *)
(* and skynet_globalmq_push never meets a queue that is already linked,    *)
(* as it asserts (skynet_mq.c:48).                                         *)
OnePlace ==
    /\ \A i, j \in 1 .. Len(globalq) : globalq[i] = globalq[j] => i = j
    /\ \A s \in Services : InQueue(s) =>
          \A t \in Threads : s \notin {held[t], nextq[t], new[t]}
    /\ \A t, u \in Threads, s \in Services :
          t # u /\ s \in {held[t], nextq[t], new[t]}
              => s \notin {held[u], nextq[u], new[u]}

(* in_global says where a queue is: with a thread or in the global queue,  *)
(* or else it is empty, so that no message waits in a queue that nobody    *)
(* will look at.  A queue marked as released is with somebody or already   *)
(* freed.                                                                  *)
Placed(s) == InQueue(s) \/ \E t \in Threads : s \in {held[t], nextq[t], new[t]}

NoStrandedMail ==
    \A s \in Services :
        /\ inGlobal[s] => Placed(s)
        /\ mail[s] # <<>> => Placed(s)
        /\ released[s] => Placed(s) \/ mqLife[s] = "freed"

(* The references that threads hold to a context.                          *)
Dispatching(t, s) ==
    /\ held[t] = s
    /\ pc[t] \in {"pop", "measure", "handler", "init", "retire", "requeue", "pushback"}
       \/ (pc[t] \in {"mqrelease", "drop"} /\ new[t] # None)

Calling(t, s) == to[t] = s /\ op[t] \in {"push", "release"}

Launching(t, s) == new[t] = s /\ pc[t] = "init"

(* Reference counting is exact: the count is the handle table's reference  *)
(* and the threads'.  Nobody uses a context after it is freed, nor a queue *)
(* after that, and a context is deleted once.                              *)
RefCountExact ==
    /\ \A s \in Services :
          ref[s] = Cardinality({t \in Threads : Dispatching(t, s)})
                   + Cardinality({t \in Threads : Calling(t, s)})
                   + Cardinality({t \in Threads : Launching(t, s)})
                   + (IF s \in slots THEN 1 ELSE 0)

NoUseAfterFree ==
    /\ \A s \in Services :
          /\ s \in slots \/ (\E t \in Threads :
                 Dispatching(t, s) \/ Calling(t, s) \/ Launching(t, s)
                 \/ (to[t] = s /\ op[t] = "delete"))
                => life[s] \in {"init", "up"} /\ mqLife[s] = "live" /\ ~released[s]
          /\ Placed(s) => mqLife[s] = "live"
    /\ \A t, u \in Threads :
          op[t] = "delete" /\ op[u] = "delete" /\ to[t] = to[u] => t = u

(* dispatch_message's assertion that the service is initialised            *)
(* (skynet_server.c:257): pushes during init never get it dispatched, and  *)
(* neither does the queue of a failed init that goes to the workers.       *)
NoDispatchBeforeInit ==
    \A t \in Workers :
        pc[t] \in {"pop", "measure", "handler", "init", "retire", "requeue", "pushback"}
            => life[held[t]] = "up"

(* A worker has taken a message and is not finished with it.               *)
Handling(t) ==
    \/ pc[t] \in {"measure", "handler", "init", "retire"}
    \/ pc[t] \in {"mqrelease", "drop"} /\ new[t] # None

InHand == Cardinality({t \in Workers : Handling(t)})

Waiting == MapThenSumSet(LAMBDA s : Len(mail[s]), Services)

(* Every message that came into a queue is in one, in the hands of a       *)
(* worker, or was dispatched or dropped: none is lost or handled twice.    *)
(* The error report for a dropped message is a message like any other.     *)
MessagesConserved == pushed = done + InHand + Waiting

-----------------------------------------------------------------------------
(***************************************************************************)
(* Liveness properties.                                                    *)
(***************************************************************************)

(* A message for a service in the handle table is taken from its queue.    *)
EventuallyDispatched ==
    \A s \in Services :
        s \in slots /\ mail[s] # <<>> ~> mail[s] = <<>> \/ s \notin slots

(* The queue of a retired service is freed, unless the process ends first. *)
EventuallyFreed ==
    \A s \in Services :
        s \notin slots /\ mqLife[s] = "live" ~> mqLife[s] = "freed" \/ quit

(* When the last context is gone every worker stops.                       *)
EventuallyStopped == Total = 0 ~> \A t \in Workers : pc[t] = "stopped"
=============================================================================
