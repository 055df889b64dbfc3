------------------------------ MODULE Timeouts ------------------------------
(***************************************************************************)
(* What core/scheduler/timer promises its users: a pending timeout is a    *)
(* record, schedule_after adds one that expires delay ticks after the      *)
(* current tick, cancel and cancel_for_target remove pending ones, and     *)
(* poll_expired hands over the ones whose tick has come, earliest expiry   *)
(* first and in scheduling order within a tick.  The module TimerQueue     *)
(* models the timing wheel that implements this.                           *)
(***************************************************************************)
EXTENDS Naturals

Timeout(id, target, expire) == [id |-> id, target |-> target, expire |-> expire]

ScheduleAfter(pending, id, target, tick, delay) ==
    pending \cup {Timeout(id, target, tick + delay)}

CancelTimer(pending, id) == {t \in pending : t.id # id}

CancelForTarget(pending, target) == {t \in pending : t.target # target}

Due(pending, tick) == {t \in pending : t.expire <= tick}

(* The order in which timeouts are handed over.                            *)
Precedes(t, u) == t.expire < u.expire \/ (t.expire = u.expire /\ t.id < u.id)

IsEarliest(t, due) == t \in due /\ \A u \in due \ {t} : Precedes(t, u)
=============================================================================
