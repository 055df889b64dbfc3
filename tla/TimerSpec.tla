----------------------------- MODULE TimerSpec ------------------------------
(***************************************************************************)
(* What a timeout queue promises, without the wheel: pending timeouts are  *)
(* a set, and a poll up to a tick hands over exactly the ones that are due *)
(* by then, earliest expiry first and in scheduling order within a tick.   *)
(***************************************************************************)
EXTENDS Naturals, Sequences, Timeouts

CONSTANTS Targets, MaxTimer, Horizon

VARIABLES nextTimer, pending, tick, batch

specVars == <<nextTimer, pending, tick, batch>>

SpecInit == nextTimer = 1 /\ pending = {} /\ tick = 0 /\ batch = <<>>

SpecSchedule(target, delay) ==
    /\ pending' = ScheduleAfter(pending, nextTimer, target, tick, delay)
    /\ nextTimer' = nextTimer + 1
    /\ UNCHANGED <<tick, batch>>

SpecCancel(id) ==
    /\ pending' = CancelTimer(pending, id)
    /\ UNCHANGED <<nextTimer, tick, batch>>

SpecCancelForTarget(target) ==
    /\ pending' = CancelForTarget(pending, target)
    /\ UNCHANGED <<nextTimer, tick, batch>>

InOrder(s, due) ==
    /\ {s[i] : i \in DOMAIN s} = due
    /\ \A i, j \in DOMAIN s : i < j => Precedes(s[i], s[j])

SpecPoll(now) ==
    /\ tick' = now
    /\ InOrder(batch', Due(pending, now))
    /\ pending' = pending \ Due(pending, now)
    /\ UNCHANGED nextTimer

(* The caller of the poll is done with the messages.                       *)
SpecTaken ==
    /\ batch' = <<>>
    /\ UNCHANGED <<nextTimer, pending, tick>>

SpecNext ==
    \/ \E target \in Targets, delay \in 0 .. Horizon : SpecSchedule(target, delay)
    \/ \E id \in 1 .. MaxTimer : SpecCancel(id)
    \/ \E target \in Targets : SpecCancelForTarget(target)
    \/ \E now \in tick .. Horizon : SpecPoll(now)
    \/ SpecTaken

TimerSpec == SpecInit /\ [][SpecNext]_specVars
=============================================================================
