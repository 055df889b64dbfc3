--------------------------- MODULE WorkerRuntime ----------------------------
(***************************************************************************)
(* What drives the actor system: the worker loop and the worker runner     *)
(* (core/scheduler/sources/worker_loop.cpp, worker_runner.cpp), the worker *)
(* monitor attached to the runners as a plugin (worker_monitor.cpp), and   *)
(* the monitor runner (core/monitor/sources/monitor_runner.cpp).           *)
(*                                                                         *)
(* Everything runs on one thread; several runners share one system and one *)
(* monitor and take turns.  Handlers run inside a turn and may send,       *)
(* release another service, ask for the stop, and run a monitor check,     *)
(* which is how a check meets a message that is still being executed.      *)
(*                                                                         *)
(* Of the actor system only what a turn sees is kept: which services have  *)
(* a slot, how many messages each has, the scheduler, and the timeouts     *)
(* that the next pump_timers will deliver.  Released handles stay in the   *)
(* ready queue as they do in ActorSystem.                                  *)
(***************************************************************************)
EXTENDS Naturals, Sequences, FiniteSets, SequencesExt, WorkerScheduler

CONSTANTS Services,     \* registered services
          Workers,      \* worker identifiers
          None,         \* no worker, no service
          MaxSend,      \* bound: messages sent and timeouts scheduled
          MaxCycles,    \* bound: max_cycles
          MaxBatch,     \* bound: max_messages_per_service
          MaxStall      \* bound: stall events

ASSUME RuntimeAssumption ==
    /\ None \notin Services \cup Workers /\ 0 \notin Services
    /\ IsFiniteSet(Workers)
    /\ {MaxSend, MaxCycles, MaxBatch, MaxStall} \subseteq Nat

VARIABLES
    alive, mail, sched, \* the actor system: slots, mailbox sizes, m_scheduler
    due,                \* targets of the timeouts that have expired; None where cancelled
    sent,               \* messages and timeouts so far
    runner,             \* the worker in run_until_idle, or None
    pc,                 \* "owner", "turn", "batch", "handler" or "end"
    cycles, batch,      \* cycles left; max_messages_per_service
    current, left,      \* dispatch_batch: the service, messages it may take
    injected, dispatched, \* the turn's result
    idle,               \* the last run_until_idle met an idle turn, nothing happened since
    sleeping, sleepers, \* WorkerSlot::sleeping, m_sleeping_workers
    wakeEvents, stallEvents, \* m_wake_events, m_stall_events
    route,              \* WorkerSlot::route: the target, or None
    version, checked,   \* WorkerSlot::version, checked_version
    quit,               \* m_quit_requested
    progress            \* workers that began a message or ended a turn since their last check

systemVars  == <<alive, mail, sched, due, sent>>
turnVars    == <<runner, pc, cycles, batch, current, left, injected, dispatched>>
slotVars    == <<route, version, checked, progress>>
monitorVars == <<sleeping, sleepers, wakeEvents, stallEvents, slotVars, quit>>

vars == <<systemVars, turnVars, idle, monitorVars>>

Init ==
    /\ alive = Services /\ mail = [s \in Services |-> 0]
    /\ sched = IdleScheduler /\ due = <<>> /\ sent = 0
    /\ runner = None /\ pc = "owner" /\ cycles = 0 /\ batch = 0
    /\ current = None /\ left = 0 /\ injected = 0 /\ dispatched = 0
    /\ idle = FALSE
    /\ sleeping = {} /\ sleepers = 0 /\ wakeEvents = 0 /\ stallEvents = 0
    /\ route = [w \in Workers |-> None]
    /\ version = [w \in Workers |-> 0] /\ checked = [w \in Workers |-> 0]
    /\ quit = FALSE /\ progress = {}

(* The owner between runs, or the handler that is running.                 *)
Caller == pc \in {"owner", "handler"}

(***************************************************************************)
(* The actor system as handlers and the owner change it.                   *)
(***************************************************************************)
Deliver(s) ==
    /\ mail' = [mail EXCEPT ![s] = @ + 1]
    /\ sched' = MarkReady(sched, s)

SendMessage(s) ==
    /\ Caller /\ sent < MaxSend /\ s \in alive
    /\ Deliver(s)
    /\ sent' = sent + 1 /\ idle' = FALSE
    /\ UNCHANGED <<alive, due, turnVars, monitorVars>>

(* A timeout that has expired by the next turn.                            *)
ScheduleTimeout(s) ==
    /\ Caller /\ sent < MaxSend /\ s \in alive
    /\ due' = Append(due, s)
    /\ sent' = sent + 1 /\ idle' = FALSE
    /\ UNCHANGED <<alive, mail, sched, turnVars, monitorVars>>

ReleaseService(s) ==
    /\ Caller /\ s \in alive /\ s # current
    /\ alive' = alive \ {s}
    /\ mail' = [mail EXCEPT ![s] = 0]
    /\ due' = [i \in DOMAIN due |-> IF due[i] = s THEN None ELSE due[i]]
    /\ idle' = FALSE
    /\ UNCHANGED <<sched, sent, turnVars, monitorVars>>

(***************************************************************************)
(* The monitor.                                                            *)
(***************************************************************************)
MarkSleepingAgain(w) ==       \* mutation: a sleeping worker is counted again
    /\ sleeping' = sleeping \cup {w}
    /\ sleepers' = sleepers + 1

MarkSleeping(w) ==
    /\ sleeping' = sleeping \cup {w}
    /\ sleepers' = IF w \in sleeping THEN sleepers ELSE sleepers + 1

MarkAwakeUnchecked(w) ==      \* mutation: a worker that was awake is taken off the count
    /\ sleeping' = sleeping \ {w}
    /\ sleepers' = IF sleepers > 0 THEN sleepers - 1 ELSE 0
    /\ wakeEvents' = wakeEvents + 1

MarkAwake(w) ==
    /\ sleeping' = sleeping \ {w}
    /\ sleepers' = IF w \in sleeping THEN sleepers - 1 ELSE sleepers
    /\ wakeEvents' = IF w \in sleeping THEN wakeEvents + 1 ELSE wakeEvents

TriggerUnversioned(w, s) ==   \* mutation: a new message is not a new version
    /\ route' = [route EXCEPT ![w] = s]
    /\ progress' = progress \cup {w}
    /\ UNCHANGED <<version, checked>>

Trigger(w, s) ==
    /\ route' = [route EXCEPT ![w] = s]
    /\ version' = [version EXCEPT ![w] = @ + 1]
    /\ progress' = progress \cup {w}
    /\ UNCHANGED checked

ClearKeepsRoute(w) ==         \* mutation: the route of the finished turn stays
    /\ version' = [version EXCEPT ![w] = @ + 1]
    /\ checked' = [checked EXCEPT ![w] = version[w] + 1]
    /\ progress' = progress \cup {w}
    /\ UNCHANGED route

Clear(w) ==
    /\ route' = [route EXCEPT ![w] = None]
    /\ version' = [version EXCEPT ![w] = @ + 1]
    /\ checked' = [checked EXCEPT ![w] = version[w] + 1]
    /\ progress' = progress \cup {w}

RequestQuit ==
    /\ Caller /\ ~quit
    /\ quit' = TRUE
    /\ UNCHANGED <<systemVars, turnVars, idle, sleeping, sleepers, wakeEvents,
                   stallEvents, slotVars>>

(* check_stalled: the worker is stalled if the version of its route is the *)
(* one that the last check saw.                                            *)
Stalled(w) == route[w] # None /\ version[w] = checked[w]

(* check_once looks at every worker.                                       *)
CheckOnce ==
    /\ Caller
    /\ stallEvents + Cardinality({w \in Workers : Stalled(w)}) <= MaxStall
    /\ stallEvents' = stallEvents + Cardinality({w \in Workers : Stalled(w)})
    /\ checked' = version
    /\ progress' = {}
    /\ UNCHANGED <<systemVars, turnVars, idle, sleeping, sleepers, wakeEvents,
                   route, version, quit>>

(***************************************************************************)
(* run_until_idle of a runner, turn by turn.                               *)
(***************************************************************************)
RunUntilIdle(w, maxCycles, max) ==
    /\ pc = "owner"
    /\ runner' = w /\ pc' = "turn" /\ cycles' = maxCycles /\ batch' = max
    /\ idle' = FALSE
    /\ UNCHANGED <<systemVars, current, left, injected, dispatched, monitorVars>>

Return(met) ==
    /\ runner' = None /\ pc' = "owner" /\ cycles' = 0 /\ batch' = 0
    /\ idle' = met

(* The plugin asks for the stop before the turn begins.                    *)
StopRequested ==
    /\ pc = "turn" /\ quit
    /\ Return(FALSE)
    /\ UNCHANGED <<systemVars, current, left, injected, dispatched, monitorVars>>

(* pump_timers: one send per expired timeout that was not cancelled.       *)
PumpTimers ==
    FoldLeft(LAMBDA sc, s : IF s = None THEN sc ELSE MarkReady(sc, s), sched, due)

(* A turn: pump, then acquire a service for a batch.                       *)
BeginTurn ==
    /\ pc = "turn" /\ ~quit
    /\ mail' = [s \in Services |-> mail[s] + Cardinality({i \in DOMAIN due : due[i] = s})]
    /\ injected' = Cardinality({i \in DOMAIN due : due[i] # None})
    /\ due' = <<>> /\ dispatched' = 0
    /\ LET pumped == PumpTimers
       IN  IF ~HasReady(pumped)
           THEN sched' = pumped /\ pc' = "end" /\ UNCHANGED <<current, left>>
           ELSE IF NextReady(pumped) \in alive
           THEN /\ sched' = AcquireNext(pumped)
                /\ current' = NextReady(pumped) /\ left' = batch /\ pc' = "batch"
           ELSE /\ sched' = Complete(AcquireNext(pumped), NextReady(pumped))
                /\ pc' = "end" /\ UNCHANGED <<current, left>>
    /\ UNCHANGED <<alive, sent, runner, cycles, batch, idle, monitorVars>>

(* The observer tells the monitor before the handler is called.            *)
DispatchMessage ==
    /\ pc = "batch" /\ left > 0 /\ mail[current] > 0
    /\ mail' = [mail EXCEPT ![current] = @ - 1]
    /\ Trigger(runner, current)
    /\ pc' = "handler"
    /\ UNCHANGED <<alive, sched, due, sent, runner, cycles, batch, current, left,
                   injected, dispatched, idle, sleeping, sleepers, wakeEvents,
                   stallEvents, quit>>

HandlerReturns ==
    /\ pc = "handler"
    /\ pc' = "batch" /\ left' = left - 1 /\ dispatched' = dispatched + 1
    /\ UNCHANGED <<systemVars, runner, cycles, batch, current, injected, idle, monitorVars>>

EndBatch ==
    /\ pc = "batch" /\ (left = 0 \/ mail[current] = 0)
    /\ LET completed == Complete(sched, current)
       IN  sched' = IF mail[current] > 0 THEN MarkReady(completed, current) ELSE completed
    /\ current' = None /\ left' = 0 /\ pc' = "end"
    /\ UNCHANGED <<alive, mail, due, sent, runner, cycles, batch, injected, dispatched,
                   idle, monitorVars>>

TurnIdle == injected = 0 /\ dispatched = 0

(* on_idle, and run_until_idle returns.                                    *)
EndIdleTurn ==
    /\ pc = "end" /\ TurnIdle
    /\ MarkSleeping(runner)
    /\ Return(TRUE)
    /\ UNCHANGED <<systemVars, current, left, injected, dispatched, wakeEvents,
                   stallEvents, slotVars, quit>>

(* on_dispatch_end: mark_awake, clear, on_busy_turn; then the next cycle.  *)
(* on_busy_turn calls mark_awake again, which does nothing by then.        *)
EndBusyTurn ==
    /\ pc = "end" /\ ~TurnIdle
    /\ MarkAwake(runner) /\ Clear(runner)
    /\ IF cycles > 1
       THEN cycles' = cycles - 1 /\ pc' = "turn" /\ UNCHANGED <<runner, batch, idle>>
       ELSE Return(FALSE)
    /\ injected' = 0 /\ dispatched' = 0
    /\ UNCHANGED <<systemVars, current, left, stallEvents, quit>>

Next ==
    \/ \E s \in Services : SendMessage(s) \/ ScheduleTimeout(s) \/ ReleaseService(s)
    \/ RequestQuit \/ CheckOnce
    \/ \E w \in Workers, c \in 1 .. MaxCycles, m \in 1 .. MaxBatch : RunUntilIdle(w, c, m)
    \/ StopRequested \/ BeginTurn \/ DispatchMessage \/ HandlerReturns
    \/ EndBatch \/ EndIdleTurn \/ EndBusyTurn

Spec == Init /\ [][Next]_vars

-----------------------------------------------------------------------------
(***************************************************************************)
(* Properties.                                                             *)
(***************************************************************************)

(* Type invariant.                                                         *)
TypeOK ==
    /\ alive \subseteq Services /\ mail \in [Services -> 0 .. MaxSend]
    /\ due \in Seq(Services \cup {None}) /\ sent \in 0 .. MaxSend
    /\ runner \in Workers \cup {None}
    /\ pc \in {"owner", "turn", "batch", "handler", "end"}
    /\ cycles \in 0 .. MaxCycles /\ batch \in 0 .. MaxBatch
    /\ current \in Services \cup {None} /\ left \in 0 .. MaxBatch
    /\ injected \in Nat /\ dispatched \in 0 .. MaxBatch /\ idle \in BOOLEAN
    /\ sleeping \subseteq Workers /\ sleepers \in 0 .. Cardinality(Workers)
    /\ wakeEvents \in Nat /\ stallEvents \in 0 .. MaxStall
    /\ route \in [Workers -> Services \cup {None}]
    /\ version \in [Workers -> Nat] /\ checked \in [Workers -> Nat]
    /\ quit \in BOOLEAN /\ progress \subseteq Workers

(* The number of sleepers that should_wake compares is the number of       *)
(* workers marked as sleeping, through any order of idle and busy turns.   *)
SleepersCounted == sleepers = Cardinality(sleeping)

(* A worker's route is the message it executes: while a handler runs the   *)
(* route names its service, and a worker that is not in a turn has none,   *)
(* so that no check reports a worker that has long finished.               *)
RouteFollowsDispatch ==
    /\ pc = "handler" => route[runner] = current
    /\ \A w \in Workers : route[w] # None => w = runner

(* A check reports exactly the workers that are in a message and have      *)
(* neither begun one nor ended a turn since the check before: the versions *)
(* that check_stalled compares stand for progress.                         *)
StallIsReal ==
    [][CheckOnce => stallEvents' - stallEvents =
           Cardinality({w \in Workers : route[w] # None /\ w \notin progress})]_vars

(* worker_runner.h: run_until_idle continues "until idle, the cycle limit  *)
(* is reached, or the monitor requests quit": after an idle turn there is  *)
(* nothing left to dispatch.  A released service at the head of the ready  *)
(* queue makes a turn look idle.                                           *)
IdleMeansIdle == idle => \A s \in alive : mail[s] = 0
=============================================================================
