----------------------------- MODULE TimerQueue -----------------------------
(***************************************************************************)
(* The hierarchical timing wheel:                                          *)
(* core/scheduler/timer/sources/timer_queue.cpp.                           *)
(*                                                                         *)
(* The code has a near wheel of 256 buckets and 4 levels of 64; here the   *)
(* sizes are constants.  Ticks are milliseconds, as m_current_point moves  *)
(* by one millisecond per tick; clock is the steady clock, counted from    *)
(* the construction of the queue.  poll_expired runs its loop body once    *)
(* per step, and no other operation comes in between.                      *)
(***************************************************************************)
EXTENDS Naturals, Sequences, FiniteSets, SequencesExt, Timeouts

CONSTANTS NearSize,     \* k_near_size
          LevelSize,    \* k_level_size
          LevelCount,   \* k_level_count
          Targets,      \* service handles
          MaxTimer,     \* bound: timers scheduled
          MaxClock,     \* bound: the clock
          Horizon       \* bound: the tick at which a timer expires

ASSUME WheelAssumption ==
    /\ NearSize \in Nat /\ LevelSize \in Nat /\ NearSize > 1 /\ LevelSize > 1
    /\ LevelCount \in Nat \ {0}
    /\ MaxTimer \in Nat /\ MaxClock \in Nat /\ Horizon \in Nat

VARIABLES near, levels, \* m_near, m_levels: buckets are sequences of timeouts
          tick,         \* m_current_tick
          nextTimer,    \* m_next_timer_id
          pendingSize,  \* m_pending_size
          clock,
          start, until, \* the poll in progress took the tick from start and is to bring it to until
          batch,        \* expired_messages of the poll in progress, or of the last one
          hung          \* move_bucket does not terminate

vars == <<near, levels, tick, nextTimer, pendingSize, clock, start,
          until, batch, hung>>

Levels  == 0 .. LevelCount - 1
NearIdx == 0 .. NearSize - 1
LvlIdx  == 0 .. LevelSize - 1

(* The ticks one bucket of a level spans.                                     *)
Unit(level) == NearSize * LevelSize ^ level
Digit(t, level) == (t \div Unit(level)) % LevelSize

Wheel == [near |-> near, levels |-> levels]

Init ==
    /\ near = [i \in NearIdx |-> <<>>]
    /\ levels = [l \in Levels |-> [i \in LvlIdx |-> <<>>]]
    /\ tick = 0 /\ nextTimer = 1 /\ pendingSize = 0 /\ clock = 0
    /\ start = 0 /\ until = 0 /\ batch = <<>> /\ hung = FALSE

Polling == tick < until
Ready   == ~Polling /\ ~hung

(***************************************************************************)
(* add_entry: the near wheel if the expiry agrees with the current tick in *)
(* all but the near bits, else the lowest level that covers the first bit  *)
(* in which they differ, the last level for everything beyond.             *)
(***************************************************************************)
LevelForLow(expire, now) ==        \* mutation: the mask starts one level too high
    LET covering == {l \in 0 .. LevelCount - 2 :
                        expire \div Unit(l + 2) = now \div Unit(l + 2)}
    IN  IF covering = {} THEN LevelCount - 1
        ELSE CHOOSE l \in covering : \A k \in covering : l <= k

LevelForUnmasked(expire, now) ==   \* mutation: the current tick is not masked
    LET covering == {l \in 0 .. LevelCount - 2 : expire \div Unit(l + 1) = now}
    IN  IF covering = {} THEN LevelCount - 1
        ELSE CHOOSE l \in covering : \A k \in covering : l <= k

LevelFor(expire, now) ==
    LET covering == {l \in 0 .. LevelCount - 2 :
                        expire \div Unit(l + 1) = now \div Unit(l + 1)}
    IN  IF covering = {} THEN LevelCount - 1
        ELSE CHOOSE l \in covering : \A k \in covering : l <= k

AddEntry(w, e, now) ==
    IF e.expire \div NearSize = now \div NearSize
    THEN [w EXCEPT !.near[e.expire % NearSize] = Append(@, e)]
    ELSE LET l == LevelFor(e.expire, now)
         IN  [w EXCEPT !.levels[l][Digit(e.expire, l)] = Append(@, e)]

(***************************************************************************)
(* advance_tick at the new tick t: the first level whose digit of t is not *)
(* zero, all lower ones being zero, has one bucket moved down.             *)
(***************************************************************************)
CascadeFirstLevel(t) ==            \* mutation: higher levels are never moved down
    {l \in {0} : t % Unit(l) = 0 /\ Digit(t, l) # 0}

CascadeLevels(t) == {l \in Levels : t % Unit(l) = 0 /\ Digit(t, l) # 0}

(* move_bucket re-adds the entries of a bucket until the bucket is empty:  *)
(* it does not end if one of them belongs to the same bucket again.        *)
Returns(e, t, l) ==
    /\ e.expire \div NearSize # t \div NearSize
    /\ LevelFor(e.expire, t) = l /\ Digit(e.expire, l) = Digit(t, l)

MoveNeverEnds(w, t) ==
    \E l \in CascadeLevels(t) :
        LET bucket == w.levels[l][Digit(t, l)]
        IN  \E i \in DOMAIN bucket : Returns(bucket[i], t, l)

MoveBucket(w, l, index, t) ==
    FoldLeft(LAMBDA acc, e : AddEntry(acc, e, t),
             [w EXCEPT !.levels[l][index] = <<>>],
             w.levels[l][index])

AdvanceTick(w, t) ==
    IF CascadeLevels(t) = {} THEN w
    ELSE LET l == CHOOSE k \in CascadeLevels(t) : TRUE
         IN  MoveBucket(w, l, Digit(t, l), t)

(* collect_current_bucket                                                  *)
Collected(w, t) == w.near[t % NearSize]
CollectKeeps(w, t) == w            \* mutation: the bucket is read but not emptied

Collect(w, t)   == [w EXCEPT !.near[t % NearSize] = <<>>]

(***************************************************************************)
(* The operations.                                                         *)
(***************************************************************************)
ScheduleTimer(target, delay) ==
    /\ Ready
    /\ nextTimer <= MaxTimer /\ tick + delay <= Horizon
    /\ LET w == AddEntry(Wheel, Timeout(nextTimer, target, tick + delay), tick)
       IN  near' = w.near /\ levels' = w.levels
    /\ nextTimer' = nextTimer + 1
    /\ pendingSize' = pendingSize + 1
    /\ UNCHANGED <<tick, clock, start, until, batch, hung>>

(* remove_by_timer_id and remove_by_target walk every bucket.              *)
Filtered(w, Keep(_)) ==
    [near   |-> [i \in NearIdx |-> SelectSeq(w.near[i], Keep)],
     levels |-> [l \in Levels |-> [i \in LvlIdx |-> SelectSeq(w.levels[l][i], Keep)]]]

Entries ==
    UNION ({ToSet(near[i]) : i \in NearIdx}
           \cup {ToSet(levels[l][i]) : l \in Levels, i \in LvlIdx})

RemoveCountsOne(removed) ==        \* mutation: one decrement for several removals
    LET Keep(e) == e \notin removed
        w == Filtered(Wheel, Keep)
    IN  /\ near' = w.near /\ levels' = w.levels
        /\ pendingSize' = pendingSize - 1
        /\ UNCHANGED <<tick, nextTimer, clock, start, until, batch, hung>>

RemoveEntries(removed) ==
    LET Keep(e) == e \notin removed
        w == Filtered(Wheel, Keep)
    IN  /\ near' = w.near /\ levels' = w.levels
        /\ pendingSize' = pendingSize - Cardinality(removed)
        /\ UNCHANGED <<tick, nextTimer, clock, start, until, batch, hung>>

CancelOne(id) ==
    /\ Ready
    /\ \E e \in Entries : e.id = id
    /\ RemoveEntries({e \in Entries : e.id = id})

CancelAllFor(target) ==
    /\ Ready
    /\ \E e \in Entries : e.target = target
    /\ RemoveEntries({e \in Entries : e.target = target})

(* poll_expired(now): nothing to do unless a whole tick has gone by.       *)
PollExpired ==
    /\ Ready
    /\ clock > tick
    /\ start' = tick /\ until' = clock /\ batch' = <<>>
    /\ UNCHANGED <<near, levels, tick, nextTimer, pendingSize, clock, hung>>

(* One iteration: collect, advance, collect.                               *)
PollStep ==
    /\ Polling /\ ~hung
    /\ LET w1 == Collect(Wheel, tick)
           b1 == batch \o Collected(Wheel, tick)
           t  == tick + 1
           w2 == AdvanceTick(w1, t)
           b2 == b1 \o Collected(w2, t)
           w3 == Collect(w2, t)
       IN  IF MoveNeverEnds(w1, t)
           THEN hung' = TRUE /\ UNCHANGED <<near, levels, tick, pendingSize, batch>>
           ELSE /\ near' = w3.near /\ levels' = w3.levels /\ tick' = t
                /\ batch' = b2
                /\ pendingSize' = pendingSize - (Len(b2) - Len(batch))
                /\ UNCHANGED hung
    /\ UNCHANGED <<nextTimer, clock, start, until>>

(* Time goes by between calls.                                             *)
ClockAdvances ==
    /\ ~Polling
    /\ clock < MaxClock
    /\ clock' = clock + 1
    /\ UNCHANGED <<near, levels, tick, nextTimer, pendingSize, start, until,
                   batch, hung>>

Next ==
    \/ \E target \in Targets, delay \in 0 .. Horizon : ScheduleTimer(target, delay)
    \/ \E id \in 1 .. MaxTimer : CancelOne(id)
    \/ \E target \in Targets : CancelAllFor(target)
    \/ PollExpired \/ PollStep
    \/ ClockAdvances

Spec == Init /\ [][Next]_vars

-----------------------------------------------------------------------------
(***************************************************************************)
(* Properties.                                                             *)
(***************************************************************************)
Timers == [id : 1 .. MaxTimer, target : Targets, expire : 0 .. Horizon]

(* Type invariant.                                                         *)
TypeOK ==
    /\ DOMAIN near = NearIdx /\ DOMAIN levels = Levels
    /\ Entries \subseteq Timers /\ ToSet(batch) \subseteq Timers
    /\ nextTimer \in 1 .. MaxTimer + 1 /\ pendingSize \in 0 .. MaxTimer
    /\ {start, tick, until, clock} \subseteq 0 .. MaxClock
    /\ start <= tick /\ tick <= until /\ until <= clock /\ hung \in BOOLEAN

(* A timer is in one bucket, size() counts them, and no timer that has     *)
(* been handed over is still in the wheel.                                 *)
Occurrences ==
    LET Total(f, S) == FoldLeft(LAMBDA a, i : a + Len(f[i]), 0, SetToSeq(S))
    IN  Total(near, NearIdx)
        + FoldLeft(LAMBDA a, l : a + Total(levels[l], LvlIdx), 0, SetToSeq(Levels))

EachTimerOnce ==
    /\ pendingSize = Occurrences
    /\ pendingSize = Cardinality({e.id : e \in Entries})
    /\ \A e \in Entries : \A i \in DOMAIN batch : batch[i].id # e.id

(* The wheel finds a timer where it will look for it: in the near wheel    *)
(* only timers of the current turn, in a level only timers that lie beyond *)
(* the turn below and are cascaded when their bucket comes up.             *)
WellPlaced ==
    /\ \A i \in NearIdx : \A e \in ToSet(near[i]) :
          e.expire \div NearSize = tick \div NearSize /\ e.expire % NearSize = i
    /\ \A l \in Levels, i \in LvlIdx : \A e \in ToSet(levels[l][i]) :
          /\ Digit(e.expire, l) = i
          /\ e.expire \div Unit(l) > tick \div Unit(l)
          /\ e.expire \div Unit(l + 1) = tick \div Unit(l + 1)

(* The wheel implements the timeout queue without a wheel: polling hands   *)
(* over exactly the timers that are due, in order, cancelled ones never.   *)
SpecQueue == INSTANCE TimerSpec WITH
    pending <- IF Polling THEN Entries \cup ToSet(batch) ELSE Entries,
    tick    <- IF Polling THEN start ELSE tick,
    batch   <- IF Polling THEN <<>> ELSE batch

ImplementsTimerSpec == SpecQueue!TimerSpec

(* timer_queue.h: poll_expired hands over "all timeout messages that have  *)
(* expired by the specified time point": none is left behind.              *)
NoneLeftBehind == Ready => \A e \in Entries : e.expire >= tick

(* ... and it returns.                                                     *)
PollReturns == ~hung
=============================================================================
