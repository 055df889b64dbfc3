---------------------------- MODULE MessageQueue ----------------------------
(***************************************************************************)
(* The mailbox of one service: core/actor/sources/message_queue.cpp.       *)
(*                                                                         *)
(* A mailbox is a record with the fields of the class: the buffered        *)
(* messages (m_messages), the overload threshold (m_overload_threshold)    *)
(* and the size at which an overload was last detected and not yet taken   *)
(* (m_overload_size, 0 when there is none).  m_peak_size only feeds an     *)
(* accessor and is the same number the metrics keep for the whole system.  *)
(***************************************************************************)
EXTENDS Naturals, Sequences

CONSTANT BaseThreshold      \* 1024 in the code

ASSUME BaseThresholdAssumption == BaseThreshold \in Nat \ {0}

EmptyQueue == [messages |-> <<>>, threshold |-> BaseThreshold, overload |-> 0]

(***************************************************************************)
(* enqueue refuses a message that is routed to another service, appends    *)
(* any other and, past the threshold, records the size and doubles the     *)
(* threshold.  The code's loop doubles once: the size grows by one at a    *)
(* time, so before the append it was at most the threshold.                *)
(***************************************************************************)
AcceptsMessage(owner, m) == m.target = owner

Enqueue(q, m) ==
    LET size == Len(q.messages) + 1
    IN  [messages  |-> Append(q.messages, m),
         threshold |-> IF size > q.threshold THEN 2 * q.threshold ELSE q.threshold,
         overload  |-> IF size > q.threshold THEN size ELSE q.overload]

(* dequeue hands out the oldest message and forgets the doubling when the  *)
(* mailbox has drained.                                                    *)
DequeueResetsEarly(q) ==      \* mutation: resets with messages left
    [messages  |-> Tail(q.messages),
     threshold |-> BaseThreshold,
     overload  |-> q.overload]

Dequeue(q) ==
    [messages  |-> Tail(q.messages),
     threshold |-> IF Len(q.messages) = 1 THEN BaseThreshold ELSE q.threshold,
     overload  |-> q.overload]

IsEmpty(q) == q.messages = <<>>

Size(q) == Len(q.messages)

Overloaded(q) == q.overload # 0

OverloadKept(q) == q          \* mutation: the overload is reported but not taken

TakeOverload(q) ==
    [messages |-> q.messages, threshold |-> q.threshold, overload |-> 0]
=============================================================================
