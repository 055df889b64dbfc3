---------------------- MODULE SocketTransfers_proofs ------------------------
(***************************************************************************)
(* More theorems about the socket server: what is queued is under way, the *)
(* counters of a socket count what they should, and the bytes on the wire  *)
(* are those that were sent.                                               *)
(***************************************************************************)
EXTENDS SocketServer_proofs

-----------------------------------------------------------------------------
(* What is queued is under way.                                            *)

(* The command that turns on the write event of an id is coming.           *)
Waking(id) ==
    \/ \E j \in DOMAIN pipe : pipe[j].cmd = "W" /\ pipe[j].id = id
    \/ \E c \in Clients : cl[c].pc = "wake" /\ cl[c].m.to = id

Closing(i) == fc # None /\ fc.i = i

Live(i) == slot[i].type \in {"CONNECTED", "HALFCLOSE_READ"} /\ ~slot[i].closing /\ ~Closing(i)

Armed(i) == Live(i) /\ ~NothingQueued(i) => slot[i].writing \/ Waking(slot[i].id)

(* Nothing is queued on a connection that was accepted and not started.    *)
Fallow(i) == slot[i].type = "PACCEPT" => NothingQueued(i)

ArmedInv == \A i \in Indices : Armed(i) /\ Fallow(i)

LEMMA InitArmed == Init => ArmedInv
BY DEF Init, ArmedInv, Armed, Fallow, Live

LEMMA ArmedImplies == ArmedInv => TransmissionArmed
<1> SUFFICES ASSUME ArmedInv, NEW id \in Ids, Sending(id), ~NothingQueued(HASH_ID(id))
             PROVE  slot[HASH_ID(id)].writing \/ Waking(id)
  BY DEF TransmissionArmed, Waking
<1>1. HASH_ID(id) \in Indices /\ slot[HASH_ID(id)].id = id /\ Live(HASH_ID(id))
  BY IdFacts DEF Sending, Live, Closing
<1> QED BY <1>1 DEF ArmedInv, Armed

(* A step keeps what wakes id.                                             *)
LEMMA WakingPipe ==
    ASSUME SocketType, Commanded, cl' = cl, NEW id, Waking(id), ~(Cmd.cmd = "W" /\ Cmd.id = id)
    PROVE  Waking(id)'
<1>1. CASE \E c \in Clients : cl[c].pc = "wake" /\ cl[c].m.to = id
  BY <1>1 DEF Waking
<1>2. ASSUME NEW j \in DOMAIN pipe, pipe[j].cmd = "W", pipe[j].id = id PROVE Waking(id)'
  <2>1. j # 1
    BY <1>2, CommandedFacts
  <2>2. j - 1 \in DOMAIN pipe' /\ pipe'[j - 1] = pipe[j]
    BY <2>1, CommandedFacts
  <2> QED BY <1>2, <2>2 DEF Waking
<1> QED BY <1>1, <1>2 DEF Waking

LEMMA WakingSame ==
    ASSUME pipe' = pipe, cl' = cl
    PROVE  \A id : Waking(id) => Waking(id)'
BY DEF Waking

LEMMA WakingGrow ==
    ASSUME SocketType, NEW c \in Clients, NEW x \in Callers, cl' = [cl EXCEPT ![c] = x],
           cl[c].pc # "wake",
           pipe' = pipe \/ \E y \in Commands : pipe' = Append(pipe, y)
    PROVE  \A id : Waking(id) => Waking(id)'
<1>1. cl'[c] = x /\ \A d \in Clients \ {c} : cl'[d] = cl[d]
  BY ClientPut
<1>2. DOMAIN pipe \subseteq DOMAIN pipe' /\ \A j \in DOMAIN pipe : pipe'[j] = pipe[j]
  BY PipeAppend
<1> QED BY <1>1, <1>2 DEF Waking

(* A step on slot i.                                                       *)
LEMMA ArmedStep ==
    ASSUME SocketType, ArmedInv, NEW i \in Indices, Others(i),
           \A j \in Indices \ {i} : Closing(j) => Closing(j)',
           \A j \in Indices \ {i} : slot[j].type \notin Dormant /\ Waking(slot[j].id) => Waking(slot[j].id)',
           Armed(i)', Fallow(i)'
    PROVE  ArmedInv'
<1> SUFFICES ASSUME NEW j \in Indices \ {i} PROVE Armed(j)' /\ Fallow(j)'
  BY DEF ArmedInv
<1>1. slot'[j] = slot[j] /\ Armed(j) /\ Fallow(j)
  BY DEF Others, ArmedInv
<1>2. NothingQueued(j)' <=> NothingQueued(j)
  BY <1>1 DEF NothingQueued, send_buffer_empty
<1>3. Live(j)' => Live(j)
  BY <1>1 DEF Live
<1>4. Live(j) /\ Waking(slot[j].id) => Waking(slot[j].id)'
  BY DEF Live, Dormant
<1> QED BY <1>1, <1>2, <1>3, <1>4 DEF Armed, Fallow

LEMMA ArmedQuiet ==
    ASSUME SocketType, ArmedInv, \A i \in Indices : Alike(i), fc' = fc,
           \A i \in Indices : slot[i].type \notin Dormant /\ Waking(slot[i].id) => Waking(slot[i].id)'
    PROVE  ArmedInv'
<1> SUFFICES ASSUME NEW j \in Indices PROVE Armed(j)' /\ Fallow(j)'
  BY DEF ArmedInv
<1>1. Alike(j) /\ Armed(j) /\ Fallow(j)
  BY DEF ArmedInv
<1>2. NothingQueued(j)' <=> NothingQueued(j)
  BY <1>1 DEF NothingQueued, send_buffer_empty, Alike
<1>3. Live(j)' => Live(j)
  BY <1>1 DEF Live, Closing, Alike
<1>4. Live(j) /\ Waking(slot[j].id) => Waking(slot[j].id)'
  BY DEF Live, Dormant
<1> QED BY <1>1, <1>2, <1>3, <1>4 DEF Armed, Fallow, Alike

(* The commands.  One that wakes an id wakes the socket of that id.        *)
LEMMA WakingElsewhere ==
    ASSUME SocketType, LifeInv, Running, Commanded, cl' = cl, NEW i, i = HASH_ID(Cmd.id),
           NEW j \in Indices, slot[j].type \notin Dormant, Waking(slot[j].id),
           j # i \/ socket_invalid(i, Cmd.id) \/ Cmd.cmd # "W", slot'[j].id = slot[j].id
    PROVE  Waking(slot[j].id)'
<1> SUFFICES ASSUME NEW id, id = slot[j].id PROVE Waking(id)'
  BY DEF Waking
<1>1. Life(j) /\ id # 0 /\ HASH_ID(id) = j
  BY IdFacts DEF LifeInv, Lives, Life, SocketType
<1>2. ~(Cmd.cmd = "W" /\ Cmd.id = id)
  BY <1>1 DEF socket_invalid, Dormant
<1> QED BY <1>2, WakingPipe

LEMMA ArmedForced ==
    ASSUME SocketType, LifeInv, ArmedInv, Running, fc = None, NEW i \in Indices, NEW kind, Closable(i, kind),
           NEW ctrl \in BOOLEAN, ForceClose(i, kind, ctrl), Fallow(i),
           \A j \in Indices \ {i} : slot[j].type \notin Dormant /\ Waking(slot[j].id) => Waking(slot[j].id)'
    PROVE  ArmedInv'
<1>1. /\ Others(i) /\ fc' \in Closings /\ fc'.i = i
      /\ slot'[i].high = <<>> /\ slot'[i].low = <<>> /\ slot'[i].dw = slot[i].dw
      /\ slot'[i].type = slot[i].type
  BY ForceCloseFacts, Zenon
<1>2. Closing(i)'
  BY <1>1, NoneAssumption DEF Closing
<1>3. Armed(i)'
  BY <1>2 DEF Armed, Live
<1>4. Fallow(i)'
  BY <1>1 DEF Fallow, NothingQueued, send_buffer_empty
<1>5. \A j \in Indices \ {i} : Closing(j) => Closing(j)'
  BY DEF Closing
<1> QED BY <1>1, <1>3, <1>4, <1>5, ArmedStep

(* A change of mode of a socket, of which nothing is queued unless it was  *)
(* live or writes.                                                         *)
LEMMA ArmedMode ==
    ASSUME SocketType, ArmedInv, fc' = fc, NEW i \in Indices, NEW t, NEW c, NEW w, ModeStep(i, t, c, w),
           \A j \in Indices \ {i} : slot[j].type \notin Dormant /\ Waking(slot[j].id) => Waking(slot[j].id)',
           t = "PACCEPT" => slot[i].type = "PACCEPT",
           Live(i)' => \/ w
                       \/ Live(i) /\ (slot[i].writing => w) /\ (Waking(slot[i].id) => Waking(slot[i].id)')
                       \/ NothingQueued(i)
    PROVE  ArmedInv'
<1>1. /\ Others(i) /\ slot'[i].type = t /\ slot'[i].closing = c /\ slot'[i].writing = w /\ slot'[i].id = slot[i].id
      /\ slot'[i].high = slot[i].high /\ slot'[i].low = slot[i].low /\ slot'[i].dw = slot[i].dw
  BY DEF ModeStep, Calm
<1>2. NothingQueued(i)' <=> NothingQueued(i)
  BY <1>1 DEF NothingQueued, send_buffer_empty
<1>3. Armed(i) /\ Fallow(i)
  BY DEF ArmedInv
<1>4. Armed(i)' /\ Fallow(i)'
  BY <1>1, <1>2, <1>3 DEF Armed, Fallow
<1>5. \A j \in Indices \ {i} : Closing(j) => Closing(j)'
  BY DEF Closing
<1> QED BY <1>1, <1>4, <1>5, ArmedStep

LEMMA ArmedCommands ==
    ASSUME SocketType, LifeInv, ArmedInv, close_socket \/ resume_socket \/ pause_socket \/ trigger_write
    PROVE  ArmedInv'
<1> SUFFICES ASSUME NEW i, i = HASH_ID(Cmd.id) PROVE ArmedInv'
  OBVIOUS
<1> DEFINE t == slot[i].type
<1>1. Served /\ Commanded /\ Running /\ cl' = cl
  BY ServerFrames DEF Served
<1>2. Stale /\ ~socket_invalid(i, Cmd.id)
  BY CloseSocketEffect, ResumeEffect, ToggleEffect
<1>3. i \in Indices /\ fc = None /\ Armed(i) /\ Fallow(i)
  BY <1>1, <1>2, ValidCommand DEF ArmedInv
<1>4. ASSUME Others(i)
      PROVE \A j \in Indices \ {i} : slot[j].type \notin Dormant /\ Waking(slot[j].id) => Waking(slot[j].id)'
  BY <1>1, <1>4, WakingElsewhere DEF Others
<1>5. ASSUME NEW n, NEW c, NEW w, ModeStep(i, n, c, w), fc' = fc,
             n = "PACCEPT" => t = "PACCEPT",
             Live(i)' => \/ w
                         \/ Live(i) /\ (slot[i].writing => w) /\ (Waking(slot[i].id) => Waking(slot[i].id)')
                         \/ NothingQueued(i)
      PROVE ArmedInv'
  <2>1. Others(i)
    BY <1>5 DEF ModeStep, Calm
  <2> QED BY <1>3, <1>4, <1>5, <2>1, ArmedMode
<1>6. CASE close_socket
  <2>1. ASSUME NEW kind, Closable(i, kind), ForceClose(i, kind, TRUE) PROVE ArmedInv'
    <3>1. Others(i)
      BY <1>3, <2>1, ForceCloseFacts, Zenon
    <3> QED BY <1>1, <1>3, <1>4, <2>1, <3>1, ArmedForced
  <2>2. CASE /\ ModeStep(i, "HALFCLOSE_READ", TRUE, slot[i].writing) /\ UNCHANGED <<fc, crashed>>
    <3>1. ~Live(i)'
      BY <2>2 DEF Live, ModeStep
    <3> QED BY <1>5, <2>2, <3>1
  <2> QED BY <1>6, <2>1, <2>2, CloseSocketEffect
<1>7. ASSUME Cmd.cmd # "W", slot'[i].id = slot[i].id, Live(i)
      PROVE  Waking(slot[i].id) => Waking(slot[i].id)'
  BY <1>1, <1>3, <1>7, WakingElsewhere DEF Live, Dormant
<1>8. CASE resume_socket
  <2>0. UNCHANGED fc /\ Cmd.cmd # "W"
    BY <1>8, ServerFrames, ResumeEffect
  <2>1. CASE UNCHANGED slot
    <3>1. \A j \in Indices : slot[j].type \notin Dormant /\ Waking(slot[j].id) => Waking(slot[j].id)'
      BY <1>1, <2>0, <2>1, WakingElsewhere
    <3> QED BY <2>0, <2>1, <3>1, SameAlike, ArmedQuiet
  <2>2. CASE /\ t # "HALFCLOSE_READ"
             /\ ModeStep(i, CASE t = "PACCEPT" -> "CONNECTED" [] t = "PLISTEN" -> "LISTEN" [] OTHER -> t,
                         slot[i].closing, slot[i].writing)
    <3> DEFINE n == CASE t = "PACCEPT" -> "CONNECTED" [] t = "PLISTEN" -> "LISTEN" [] OTHER -> t
    <3>1. n # "PACCEPT" /\ (n \in {"CONNECTED", "HALFCLOSE_READ"} => t \in {"PACCEPT", n})
      OBVIOUS
    <3>2. ModeStep(i, n, slot[i].closing, slot[i].writing)
      BY <2>2
    <3> HIDE DEF n
    <3>3. slot'[i].id = slot[i].id /\ slot'[i].type = n /\ slot'[i].closing = slot[i].closing
      BY <3>2 DEF ModeStep, Calm
    <3>4. Live(i)' => t = "PACCEPT" \/ Live(i)
      BY <2>0, <3>1, <3>3 DEF Live, Closing
    <3>5. t = "PACCEPT" => NothingQueued(i)
      BY <1>3 DEF Fallow
    <3> QED BY <1>5, <1>7, <2>0, <3>1, <3>2, <3>3, <3>4, <3>5
  <2> QED BY <1>8, <2>1, <2>2, ResumeEffect
<1>9. CASE trigger_write
  <2>1. UNCHANGED fc /\ ModeStep(i, t, slot[i].closing, TRUE)
    BY <1>9, ServerFrames, ToggleEffect
  <2> QED BY <1>5, <2>1
<1>10. CASE pause_socket
  <2>1. UNCHANGED fc /\ ModeStep(i, t, slot[i].closing, slot[i].writing) /\ Cmd.cmd # "W"
    BY <1>1, <1>10, ServerFrames, ToggleEffect DEF pause_socket, Valid, Ctrl
  <2>2. slot'[i].id = slot[i].id /\ (Live(i)' => Live(i))
    BY <2>1 DEF ModeStep, Calm, Live, Closing
  <2> QED BY <1>5, <1>7, <2>1, <2>2
<1> QED BY <1>6, <1>8, <1>9, <1>10

LEMMA ArmedPackage ==
    ASSUME SocketType, LifeInv, ArmedInv, SendPackage
    PROVE  ArmedInv'
<1> SUFFICES ASSUME NEW i, i = HASH_ID(Cmd.id) PROVE ArmedInv'
  OBVIOUS
<1> SUFFICES ASSUME NEW n, n = IF Counted(i, Cmd.id) THEN slot[i].sending - 1 ELSE slot[i].sending
             PROVE  ArmedInv'
  OBVIOUS
<1>1. Served /\ Commanded /\ fc' = fc /\ fc = None /\ Running /\ cl' = cl
  BY ServerFrames DEF Served, Commanded
<1>2. /\ Cmd.m \in Messages /\ i \in Indices /\ n \in Int /\ Cmd.cmd # "W"
      /\ IF Refuses(i, Cmd.m.to) THEN Dropped(i, n) ELSE Appended(i, Cmd.m, n)
  BY SendPackageEffect DEF Packages
<1>3. ASSUME NEW j \in Indices, slot'[j].id = slot[j].id, slot[j].type \notin Dormant, Waking(slot[j].id)
      PROVE  Waking(slot[j].id)'
  BY <1>1, <1>2, <1>3, WakingElsewhere
<1>4. CASE Refuses(i, Cmd.m.to)
  <2>1. \A j \in Indices : Alike(j)
    BY <1>2, <1>4, TallyAlike DEF Dropped
  <2> QED BY <1>1, <1>3, <2>1, ArmedQuiet DEF Alike
<1>5. CASE ~Refuses(i, Cmd.m.to)
  <2>1. Appended(i, Cmd.m, n) /\ Others(i)
    BY <1>2, <1>5 DEF Appended
  <2>2. /\ slot'[i].id = slot[i].id /\ slot'[i].dw = slot[i].dw
        /\ slot'[i].type = slot[i].type /\ slot'[i].closing = slot[i].closing
        /\ slot'[i].writing = (slot[i].writing \/ send_buffer_empty(i))
    BY <1>2, <2>1, AppendedFields
  <2>3. Armed(i) /\ (Live(i)' => Live(i)) /\ slot[i].type # "PACCEPT"
    BY <1>1, <1>2, <1>5, <2>2 DEF Live, Closing, ArmedInv, Refuses
  <2>4. Armed(i)'
    <3>1. CASE send_buffer_empty(i)
      BY <2>2, <3>1 DEF Armed
    <3>2. CASE ~send_buffer_empty(i) /\ Live(i)
      <4>1. slot[i].writing \/ Waking(slot[i].id)
        BY <2>3, <3>2 DEF Armed, NothingQueued
      <4>2. slot[i].type \notin Dormant
        BY <3>2 DEF Live, Dormant
      <4> QED BY <1>2, <1>3, <2>2, <4>1, <4>2 DEF Armed
    <3>3. CASE ~Live(i)
      BY <2>3, <3>3 DEF Armed
    <3> QED BY <3>1, <3>2, <3>3
  <2>5. Fallow(i)'
    BY <2>2, <2>3 DEF Fallow
  <2>6. \A j \in Indices \ {i} : slot[j].type \notin Dormant /\ Waking(slot[j].id) => Waking(slot[j].id)'
    BY <1>3, <2>1 DEF Others
  <2>7. \A j \in Indices \ {i} : Closing(j) => Closing(j)'
    BY <1>1 DEF Closing
  <2> QED BY <1>2, <2>1, <2>4, <2>5, <2>6, <2>7, ArmedStep
<1> QED BY <1>4, <1>5

LEMMA ArmedOthers ==
    ASSUME SocketType, LifeInv, ArmedInv, open_socket \/ Ignored \/ FinishClose \/ NoMoreCommands \/ Wait
    PROVE  ArmedInv'
<1>1. Served /\ Running /\ cl' = cl
  BY ServerFrames DEF Served
<1>2. CASE open_socket
  <2> SUFFICES ASSUME NEW i, NEW id, id = Cmd.id, i = HASH_ID(id) PROVE ArmedInv'
    OBVIOUS
  <2>1. Commanded /\ fc' = fc /\ fc = None
    BY <1>2, ServerFrames DEF Commanded
  <2>2. i \in Indices /\ id \in Ids /\ Cmd.cmd # "W"
    BY <1>2, <2>1, CommandedFacts, OpenSocketEffect
  <2>3. ASSUME Others(i)
        PROVE \A j \in Indices \ {i} : slot[j].type \notin Dormant /\ Waking(slot[j].id) => Waking(slot[j].id)'
    BY <1>1, <2>1, <2>2, <2>3, WakingElsewhere DEF Others
  <2>4. \A j \in Indices \ {i} : Closing(j) => Closing(j)'
    BY <2>1 DEF Closing
  <2>5. ASSUME NEW type \in {"CONNECTED", "CONNECTING", "PLISTEN"},
               Opened(id, type, type # "PLISTEN", type = "CONNECTING")
        PROVE ArmedInv'
    <3>1. type \in Types /\ (type # "PLISTEN") \in BOOLEAN /\ (type = "CONNECTING") \in BOOLEAN
      BY <2>5 DEF Types
    <3>2. /\ Others(i) /\ slot'[i].type = type
          /\ slot'[i].high = <<>> /\ slot'[i].low = <<>> /\ slot'[i].dw = None
      BY <2>2, <2>5, <3>1, OpenedEffect, Zenon
    <3>3. NothingQueued(i)'
      BY <3>2 DEF NothingQueued, send_buffer_empty
    <3>4. Armed(i)' /\ Fallow(i)'
      BY <3>3 DEF Armed, Fallow
    <3> QED BY <2>2, <2>3, <2>4, <3>2, <3>4, ArmedStep
  <2>6. CASE ModeStep(i, "INVALID", slot[i].closing, slot[i].writing)
    <3>1. Others(i) /\ ~Live(i)'
      BY <2>6 DEF ModeStep, Calm, Live
    <3> QED BY <2>1, <2>2, <2>3, <2>6, <3>1, ArmedMode
  <2> QED BY <1>2, <2>5, <2>6, OpenSocketEffect
<1>3. CASE Ignored
  <2> SUFFICES ASSUME NEW i, i = HASH_ID(Cmd.id) PROVE ArmedInv'
    OBVIOUS
  <2>1. Commanded /\ UNCHANGED <<slot, fc>> /\ socket_invalid(i, Cmd.id)
    BY <1>3, ServerFrames DEF Ignored
  <2>2. \A j \in Indices : slot[j].type \notin Dormant /\ Waking(slot[j].id) => Waking(slot[j].id)'
    BY <1>1, <2>1, WakingElsewhere
  <2> QED BY <2>1, <2>2, SameAlike, ArmedQuiet
<1>4. CASE NoMoreCommands \/ Wait
  <2>1. UNCHANGED <<slot, fc, pipe>>
    BY <1>4, ServerFrames
  <2>2. \A j \in Indices : slot[j].type \notin Dormant /\ Waking(slot[j].id) => Waking(slot[j].id)'
    BY <1>1, <2>1, WakingSame
  <2> QED BY <2>1, <2>2, SameAlike, ArmedQuiet
<1>5. CASE FinishClose
  <2> SUFFICES ASSUME NEW i, i = fc.i PROVE ArmedInv'
    OBVIOUS
  <2>1. i \in Indices /\ Others(i) /\ slot'[i].type = "INVALID" /\ pipe' = pipe
    BY <1>5, FinishCloseEffect, ServerFrames
  <2>2. Armed(i)' /\ Fallow(i)'
    BY <2>1 DEF Armed, Fallow, Live
  <2>3. \A j \in Indices \ {i} : slot[j].type \notin Dormant /\ Waking(slot[j].id) => Waking(slot[j].id)'
    BY <1>1, <2>1, WakingSame DEF Others
  <2>4. \A j \in Indices \ {i} : Closing(j) => Closing(j)'
    BY DEF Closing
  <2> QED BY <2>1, <2>2, <2>3, <2>4, ArmedStep
<1> QED BY <1>2, <1>3, <1>4, <1>5

LEMMA FlushLeaves ==
    ASSUME NEW s \in Sockets, NEW t, NEW out, Flushed(s, t, out), t.high # <<>> \/ t.low # <<>>
    PROVE  ~(s.high = <<>> /\ s.low = <<>> /\ s.dw = None)
<1> SUFFICES ASSUME s.high = <<>>, s.low = <<>>, s.dw = None PROVE FALSE
  OBVIOUS
<1>1. Backlog(s) = <<>>
  <2>1. DwSeq(s) = <<>>
    BY DEF DwSeq
  <2> QED BY <2>1 DEF Backlog
<1>2. t \in Sockets /\ out \in Seq(Pieces) /\ Flat(Backlog(s)) = out \o Flat(t.high \o t.low)
  BY DEF Flushed
<1>3. t.high \in Seq(Buffers) /\ t.low \in Seq(Buffers)
  BY <1>2, BacklogType
<1>4. t.high \o t.low \in Seq(Buffers) /\ t.high \o t.low # <<>>
  BY ONLY <1>3, t.high # <<>> \/ t.low # <<>>
<1>5. Flat(t.high \o t.low) # <<>> /\ Flat(t.high \o t.low) \in Seq(Pieces)
  BY <1>4, FlatLength, FlatType
<1>6. out \o Flat(t.high \o t.low) # <<>>
  BY ONLY <1>2, <1>5
<1> QED BY <1>1, <1>2, <1>6, FlatEmpty

LEMMA ArmedEvents ==
    ASSUME SocketType, LifeInv, ArmedInv, report_connect \/ ReadEnd \/ Eof \/ send_buffer
    PROVE  ArmedInv'
<1> SUFFICES ASSUME NEW i, i = E.i PROVE ArmedInv'
  OBVIOUS
<1> DEFINE t == slot[i].type
<1>1. Served /\ Signalled /\ Running /\ cl' = cl /\ pipe' = pipe /\ fc = None
  BY EventFrames DEF Served, Signalled
<1>2. i \in Indices /\ Armed(i) /\ Fallow(i)
  BY ConnectEffect, ReadEndEffect, EofEffect, SendBufferEffect DEF ArmedInv
<1>3. \A id : Waking(id) => Waking(id)'
  BY <1>1, WakingSame
<1>4. ASSUME Others(i)
      PROVE \A j \in Indices \ {i} : slot[j].type \notin Dormant /\ Waking(slot[j].id) => Waking(slot[j].id)'
  BY <1>3, <1>4 DEF Others
<1>5. ASSUME NEW kind, Closable(i, kind), ForceClose(i, kind, FALSE) PROVE ArmedInv'
  <2>1. Others(i)
    BY <1>2, <1>5, ForceCloseFacts, Zenon
  <2> QED BY <1>1, <1>2, <1>4, <1>5, <2>1, ArmedForced
<1>6. CASE report_connect
  <2>1. CASE ForceClose(i, "ERR", FALSE)
    BY <1>5, <2>1 DEF Closable
  <2>2. ASSUME NEW w \in BOOLEAN, ModeStep(i, "CONNECTED", slot[i].closing, w),
               slot[i].writing /\ ~NothingQueued(i) => w, UNCHANGED <<fc, crashed>>
        PROVE ArmedInv'
    <3>1. slot[i].writing /\ t = "CONNECTING"
      BY <1>1, <1>2, <1>6, ConnectEffect DEF LifeInv, Lives, Life
    <3>2. Others(i)
      BY <2>2 DEF ModeStep, Calm
    <3> QED BY <1>2, <1>4, <2>2, <3>1, <3>2, ArmedMode
  <2> QED BY <1>6, <2>1, <2>2, ConnectEffect
<1>7. CASE ReadEnd
  <2>1. CASE UNCHANGED <<slot, fc>>
    <3>1. \A j \in Indices : slot[j].type \notin Dormant /\ Waking(slot[j].id) => Waking(slot[j].id)'
      BY <1>3, <2>1
    <3> QED BY <2>1, <3>1, SameAlike, ArmedQuiet
  <2>2. CASE /\ t \in {"CONNECTED", "PACCEPT"} /\ ~slot[i].closing
             /\ ModeStep(i, "HALFCLOSE_READ", slot[i].closing, slot[i].writing) /\ UNCHANGED fc
    <3>1. Others(i) /\ slot'[i].id = slot[i].id
      BY <2>2 DEF ModeStep, Calm
    <3>2. NothingQueued(i) \/ Live(i)
      BY <1>1, <1>2, <2>2 DEF Fallow, Live, Closing
    <3>3. Waking(slot[i].id) => Waking(slot[i].id)'
      BY <1>3, <3>1
    <3> QED BY <1>2, <1>4, <2>2, <3>1, <3>2, <3>3, ArmedMode
  <2> QED BY <1>5, <1>7, <2>1, <2>2, ReadEndEffect
<1>8. CASE Eof
  BY <1>5, <1>8, EofEffect
<1>9. CASE send_buffer
  <2>1. PICK out, u, v : Flushes(i, out, u, v)
    BY <1>9, SendBufferEffect
  <2>2. UNCHANGED fc
    BY <1>9, EventFrames
  <2>3. /\ Others(i) /\ v = slot'[i] /\ Flushed(slot[i], u, out) /\ v.id = slot[i].id
        /\ u.type = t /\ u.closing = slot[i].closing /\ u.writing = slot[i].writing /\ u.dw = None
        /\ v.closing = slot[i].closing
    BY <2>1 DEF Flushes, Flushed, Same
  <2>4. Frees(u, v) \/ Shuts(u, v) \/ Empties(u, v) \/ Keeps(u, v)
    BY <2>1 DEF Flushes
  <2>5. CASE Frees(u, v) \/ Shuts(u, v)
    <3>1. Armed(i)' /\ Fallow(i)'
      BY <2>3, <2>5 DEF Frees, Shuts, Armed, Fallow, Live
    <3>2. \A j \in Indices \ {i} : Closing(j) => Closing(j)'
      BY <1>1 DEF Closing
    <3> QED BY <1>2, <1>4, <2>3, <3>1, <3>2, ArmedStep
  <2>6. CASE Empties(u, v) \/ Keeps(u, v)
    <3>1. v.type = t /\ v.high = u.high /\ v.low = u.low /\ v.dw = None
      BY <2>3, <2>6 DEF Empties, Keeps
    <3>2. (Live(i)' => Live(i)) /\ (t = "PACCEPT" <=> slot'[i].type = "PACCEPT")
      BY <2>2, <2>3, <3>1 DEF Live, Closing
    <3>3. NothingQueued(i) => NothingQueued(i)'
      BY <1>2, <2>3, <3>1, FlushLeaves, SocketFields DEF NothingQueued, send_buffer_empty
    <3>4. Empties(u, v) => NothingQueued(i)'
      BY <2>3, <3>1 DEF NothingQueued, send_buffer_empty, Empties
    <3>5. Keeps(u, v) => slot'[i].writing = slot[i].writing
      BY <2>3 DEF Keeps
    <3>6. Waking(slot[i].id) => Waking(slot[i].id)'
      BY <1>3, <2>3
    <3>7. Armed(i)' /\ Fallow(i)'
      BY <1>2, <2>6, <3>2, <3>3, <3>4, <3>5, <3>6 DEF Armed, Fallow
    <3>8. \A j \in Indices \ {i} : Closing(j) => Closing(j)'
      BY <1>1 DEF Closing
    <3> QED BY <1>2, <1>4, <2>3, <3>7, <3>8, ArmedStep
  <2> QED BY <2>4, <2>5, <2>6
<1> QED BY <1>6, <1>7, <1>8, <1>9

LEMMA ArmedCalm ==
    ASSUME SocketType, LifeInv, ArmedInv,
           ReadAgain \/ ReadError \/ ReadData \/ WriteBlocked \/ InvalidEvent \/ StaleEvent
    PROVE  ArmedInv'
<1>1. pipe' = pipe /\ cl' = cl
  BY EventFrames DEF Served, Signalled
<1>2. UNCHANGED <<slot, fc>>
  BY CalmEvents
<1>3. \A j \in Indices : slot[j].type \notin Dormant /\ Waking(slot[j].id) => Waking(slot[j].id)'
  BY <1>1, <1>2, WakingSame
<1> QED BY <1>2, <1>3, SameAlike, ArmedQuiet

LEMMA ArmedAccept ==
    ASSUME SocketType, LifeInv, ArmedInv, report_accept
    PROVE  ArmedInv'
<1> SUFFICES ASSUME NEW id, NEW i, id = allocId', i = HASH_ID(id) PROVE ArmedInv'
  OBVIOUS
<1>1. pipe' = pipe /\ cl' = cl /\ UNCHANGED fc
  BY EventFrames DEF Served, Signalled
<1>2. \A x : Waking(x) => Waking(x)'
  BY <1>1, WakingSame
<1>3. CASE UNCHANGED slot
  <2>1. \A j \in Indices : slot[j].type \notin Dormant /\ Waking(slot[j].id) => Waking(slot[j].id)'
    BY <1>2, <1>3
  <2> QED BY <1>1, <1>3, <2>1, SameAlike, ArmedQuiet
<1>4. ASSUME id \in Ids, Others(i), slot'[i].type \in {"INVALID", "PACCEPT"}, Fallow(i)' PROVE ArmedInv'
  <2>1. Armed(i)' /\ i \in Indices
    BY <1>4, IdFacts DEF Armed, Live
  <2>2. \A j \in Indices \ {i} : slot[j].type \notin Dormant /\ Waking(slot[j].id) => Waking(slot[j].id)'
    BY <1>2, <1>4 DEF Others
  <2>3. \A j \in Indices \ {i} : Closing(j) => Closing(j)'
    BY <1>1 DEF Closing
  <2> QED BY <1>4, <2>1, <2>2, <2>3, ArmedStep
<1>5. CASE id \in Ids /\ slot[i].type = "INVALID" /\ slot' = Claimed(slot, id)
  <2>1. Others(i) /\ slot'[i].type = slot[i].type
    BY <1>5, ClaimedEffect
  <2>2. Fallow(i)'
    BY <1>5, <2>1 DEF Fallow
  <2> QED BY <1>4, <1>5, <2>1, <2>2
<1>6. CASE id \in Ids /\ Opened(id, "PACCEPT", FALSE, FALSE)
  <2>0. "PACCEPT" \in Types /\ FALSE \in BOOLEAN
    BY DEF Types
  <2>1. /\ Others(i) /\ slot'[i].type = "PACCEPT"
        /\ slot'[i].high = <<>> /\ slot'[i].low = <<>> /\ slot'[i].dw = None
    BY <1>6, <2>0, OpenedEffect, Zenon
  <2>2. Fallow(i)'
    BY <2>1 DEF Fallow, NothingQueued, send_buffer_empty
  <2> QED BY <1>4, <1>6, <2>1, <2>2
<1> QED BY <1>3, <1>5, <1>6, AcceptEffect

(* What a step of a service does to its own place.                         *)
LEMMA CallStep ==
    ASSUME SocketType, opened \subseteq held, NEW c \in Clients,
           \/ Open(c) \/ OpenFull(c) \/ Publish(c) \/ Request(c)
           \/ Send(c) \/ DoubleCheck(c) \/ DirectWrite(c)
           \/ inc_sending_ref(c) \/ SendCommand(c)
    PROVE  cl[c].pc # "wake" /\ \E x \in Callers : cl' = [cl EXCEPT ![c] = x]
<1>1. cl \in [Clients -> Callers]
  BY DEF SocketType
<1>2. [cl EXCEPT ![c] = cl[c]] = cl /\ cl[c] \in Callers
  BY <1>1
<1>3. CASE OpenFull(c) \/ Request(c)
  <2>1. cl' = cl /\ cl[c].pc = "idle"
    BY <1>3, ClientFrames DEF OpenFull, Request, At
  <2> QED BY <1>2, <2>1
<1>4. CASE Open(c)
  <2>1. cl[c].pc = "idle" /\ allocId' \in Ids /\ cl' = [cl EXCEPT ![c] = [pc |-> "reserved", id |-> allocId']]
    BY <1>4, OpenEffect
  <2> QED BY <2>1, CallerTypes
<1>5. CASE Publish(c) \/ SendCommand(c)
  <2>1. cl[c].pc # "wake" /\ cl' = [cl EXCEPT ![c] = [pc |-> "idle"]]
    BY <1>5, PublishEffect, SendCommandEffect
  <2> QED BY <2>1, CallerTypes
<1>6. CASE Send(c)
  <2>1. PICK id \in opened, low \in BOOLEAN, direct \in BOOLEAN :
           /\ cl[c].pc = "idle"
           /\ Cardinality(sent) < MaxSends
           /\ cl' = [cl EXCEPT ![c] = [pc |-> IF direct THEN "locked" ELSE "inc",
                                       m |-> NewMessage(c, id, low)]]
    BY <1>6, SendEffect
  <2>2. NewMessage(c, id, low) \in Messages
    <3>1. id \in Ids
      BY DEF SocketType
    <3> QED BY <2>1, <3>1, SentAdd
  <2>3. (IF direct THEN "locked" ELSE "inc") \in Busy \cup {"wake"}
    BY DEF Busy
  <2> QED BY <2>1, <2>2, <2>3, CallerTypes
<1>7. CASE DoubleCheck(c) \/ inc_sending_ref(c)
  <2>1. PICK p \in Busy : /\ cl[c].pc \in Busy /\ cl[c].m \in Messages
                          /\ cl' = [cl EXCEPT ![c] = [pc |-> p, m |-> cl[c].m]]
    BY <1>7, DoubleCheckEffect, IncEffect DEF Busy
  <2>2. p \in Busy \cup {"wake"} /\ cl[c].pc # "wake"
    BY <2>1 DEF Busy
  <2> QED BY <2>1, <2>2, CallerTypes
<1>8. CASE DirectWrite(c)
  <2> SUFFICES ASSUME NEW m, m = cl[c].m
               PROVE  cl[c].pc # "wake" /\ \E x \in Callers : cl' = [cl EXCEPT ![c] = x]
    OBVIOUS
  <2>1. /\ cl[c].pc = "checked" /\ m \in Messages
        /\ NotWritten(c, m) \/ AllWritten(c, m) \/ \E l \in {1, 2} : RestKept(c, m, l)
    BY <1>8, DirectWriteEffect
  <2>2. \/ cl' = [cl EXCEPT ![c] = [pc |-> "idle"]]
        \/ cl' = [cl EXCEPT ![c] = [pc |-> "inc", m |-> m]]
        \/ cl' = [cl EXCEPT ![c] = [pc |-> "wake", m |-> m]]
    BY <2>1, Zenon DEF NotWritten, AllWritten, RestKept
  <2>3. [pc |-> "idle"] \in Callers /\ [pc |-> "inc", m |-> m] \in Callers /\ [pc |-> "wake", m |-> m] \in Callers
    BY <2>1, CallerTypes DEF Busy
  <2> QED BY <2>1, <2>2, <2>3, Zenon
<1> QED BY <1>3, <1>4, <1>5, <1>6, <1>7, <1>8

LEMMA ArmedCalls ==
    ASSUME SocketType, LifeInv, ArmedInv, NEW c \in Clients,
           \/ Open(c) \/ OpenFull(c) \/ Publish(c) \/ Request(c)
           \/ Send(c) \/ DoubleCheck(c) \/ DirectWrite(c)
           \/ inc_sending_ref(c) \/ SendCommand(c)
    PROVE  ArmedInv'
<1>0. fc' = fc /\ opened \subseteq held /\ Running
  BY ClientFrames DEF LifeInv, Known
<1>1. \A id : Waking(id) => Waking(id)'
  <2>1. pipe' = pipe \/ \E y \in Commands : pipe' = Append(pipe, y)
    <3>1. CASE Publish(c)
      BY <3>1, PublishEffect
    <3>2. CASE Request(c)
      BY <3>2, RequestEffect
    <3>3. CASE SendCommand(c)
      BY <3>3, SendCommandEffect
    <3>4. CASE ~Publish(c) /\ ~Request(c) /\ ~SendCommand(c)
      BY <3>4, ClientFrames
    <3> QED BY <3>1, <3>2, <3>3, <3>4
  <2>2. PICK x \in Callers : cl' = [cl EXCEPT ![c] = x] /\ cl[c].pc # "wake"
    BY <1>0, CallStep
  <2> QED BY <2>1, <2>2, WakingGrow
<1>2. \A j \in Indices : Closing(j) => Closing(j)'
  BY <1>0 DEF Closing
<1>3. ASSUME \A j \in Indices : Alike(j) PROVE ArmedInv'
  <2>1. \A j \in Indices : slot[j].type \notin Dormant /\ Waking(slot[j].id) => Waking(slot[j].id)'
    BY <1>1, <1>3 DEF Alike
  <2> QED BY <1>0, <1>3, <2>1, ArmedQuiet
<1>4. ASSUME NEW i \in Indices, Others(i), Armed(i)', Fallow(i)' PROVE ArmedInv'
  <2>1. \A j \in Indices \ {i} : slot[j].type \notin Dormant /\ Waking(slot[j].id) => Waking(slot[j].id)'
    BY <1>1, <1>4 DEF Others
  <2> QED BY <1>2, <1>4, <2>1, ArmedStep
<1>5. CASE OpenFull(c) \/ Request(c) \/ Send(c) \/ DoubleCheck(c) \/ SendCommand(c)
  <2>1. UNCHANGED slot
    BY <1>5, ClientFrames
  <2> QED BY <1>3, <2>1, SameAlike
<1>6. CASE inc_sending_ref(c)
  <2> SUFFICES ASSUME NEW i, i = HASH_ID(cl[c].m.to) PROVE ArmedInv'
    OBVIOUS
  <2>1. i \in Indices /\ Tally(i, IF Counting(cl[c].m.to) THEN slot[i].sending + 1 ELSE slot[i].sending)
    BY <1>6, IncEffect
  <2>2. (IF Counting(cl[c].m.to) THEN slot[i].sending + 1 ELSE slot[i].sending) \in Int
    BY <2>1, SocketFields
  <2> QED BY <1>3, <2>1, <2>2, TallyAlike
<1>7. CASE Open(c)
  <2> SUFFICES ASSUME NEW i, i = HASH_ID(allocId') PROVE ArmedInv'
    OBVIOUS
  <2>1. i \in Indices /\ Others(i) /\ slot'[i].type = "RESERVE"
    BY <1>7, OpenEffect DEF Calm
  <2>2. Armed(i)' /\ Fallow(i)'
    BY <2>1 DEF Armed, Fallow, Live
  <2> QED BY <1>4, <2>1, <2>2
<1>8. CASE Publish(c)
  <2> SUFFICES ASSUME NEW i, NEW id, id = cl[c].id, i = HASH_ID(id) PROVE ArmedInv'
    OBVIOUS
  <2>0. cl[c].pc = "reserved" /\ id \in Ids /\ slot' = Claimed(slot, id)
    BY <1>8, PublishEffect
  <2>1. i \in Indices /\ Others(i) /\ slot'[i].type = slot[i].type
    BY <2>0, ClaimedEffect
  <2>2. slot[i].type = "RESERVE"
    BY <1>0, <2>0 DEF LifeInv, Booked, Reserves
  <2>3. Armed(i)' /\ Fallow(i)'
    BY <2>1, <2>2 DEF Armed, Fallow, Live
  <2> QED BY <1>4, <2>1, <2>3
<1>9. CASE DirectWrite(c)
  <2> SUFFICES ASSUME NEW m, NEW i, m = cl[c].m, i = HASH_ID(m.to) PROVE ArmedInv'
    OBVIOUS
  <2>1. /\ cl[c].pc = "checked" /\ m \in Messages /\ m.to \in Ids /\ i \in Indices
        /\ NotWritten(c, m) \/ AllWritten(c, m) \/ \E l \in {1, 2} : RestKept(c, m, l)
    BY <1>9, DirectWriteEffect
  <2>2. CASE NotWritten(c, m) \/ AllWritten(c, m)
    <3>1. UNCHANGED slot
      BY <2>2 DEF NotWritten, AllWritten
    <3> QED BY <1>3, <3>1, SameAlike
  <2>3. ASSUME NEW l \in {1, 2}, RestKept(c, m, l) PROVE ArmedInv'
    <3> DEFINE b == [m |-> m, left |-> l]
               x == [pc |-> "wake", m |-> m]
    <3>1. b \in Buffers /\ slot[i] \in Sockets
      BY <2>1, SocketFields DEF Buffers
    <3>2. /\ Others(i) /\ slot'[i] = [slot[i] EXCEPT !.dw = b] /\ slot[i].type = "CONNECTED" /\ slot[i].id = m.to
          /\ cl' = [cl EXCEPT ![c] = x]
      BY <2>3 DEF RestKept, ReadyToWrite
    <3>3. x \in Callers /\ x.pc = "wake" /\ x.m = m
      BY <2>1, CallerTypes DEF Busy
    <3> HIDE DEF b, x
    <3>4. slot'[i].id = slot[i].id /\ slot'[i].type = slot[i].type
      BY <3>1, <3>2, DwFields
    <3>5. cl'[c] = x
      BY <3>2, <3>3, ClientPut
    <3>6. Waking(m.to)'
      BY <3>3, <3>5 DEF Waking
    <3>7. Waking(slot[i].id)'
      BY <3>2, <3>4, <3>6
    <3>8. Armed(i)' /\ Fallow(i)'
      BY <3>2, <3>4, <3>7 DEF Armed, Fallow
    <3> QED BY <1>4, <2>1, <3>2, <3>8
  <2> QED BY <2>1, <2>2, <2>3
<1> QED BY <1>5, <1>6, <1>7, <1>8, <1>9

LEMMA ArmedWake ==
    ASSUME SocketType, LifeInv, ArmedInv, NEW c \in Clients, Wake(c)
    PROVE  ArmedInv'
<1> SUFFICES ASSUME NEW x, x = [cmd |-> "W", id |-> cl[c].m.to] PROVE ArmedInv'
  OBVIOUS
<1>1. UNCHANGED <<slot, fc>>
  BY ClientFrames
<1>2. /\ cl[c].pc = "wake" /\ x \in Commands
      /\ pipe' = Append(pipe, x) /\ cl' = [cl EXCEPT ![c] = [pc |-> "idle"]]
  BY WakeEffect
<1>3. x.cmd = "W" /\ x.id = cl[c].m.to
  OBVIOUS
<1>4. cl'[c].pc = "idle" /\ \A d \in Clients \ {c} : cl'[d] = cl[d]
  BY <1>2, ClientPut, CallerTypes
<1>5. /\ DOMAIN pipe' = DOMAIN pipe \cup {Len(pipe) + 1} /\ pipe'[Len(pipe) + 1] = x
      /\ \A j \in DOMAIN pipe : pipe'[j] = pipe[j]
  BY <1>2, PipeAppend
<1>6. ASSUME NEW id, Waking(id) PROVE Waking(id)'
  <2>1. CASE \E j \in DOMAIN pipe : pipe[j].cmd = "W" /\ pipe[j].id = id
    BY <1>5, <2>1 DEF Waking
  <2>2. CASE id = cl[c].m.to
    BY <1>3, <1>5, <2>2 DEF Waking
  <2>3. ASSUME NEW d \in Clients \ {c}, cl[d].pc = "wake", cl[d].m.to = id PROVE Waking(id)'
    BY <1>4, <2>3 DEF Waking
  <2> QED BY <1>6, <2>1, <2>2, <2>3 DEF Waking
<1>7. \A j \in Indices : slot[j].type \notin Dormant /\ Waking(slot[j].id) => Waking(slot[j].id)'
  BY <1>1, <1>6
<1> QED BY <1>1, <1>7, SameAlike, ArmedQuiet

LEMMA NextArmed ==
    ASSUME SocketType, LifeInv, ArmedInv, [Next]_vars
    PROVE  ArmedInv'
<1>1. CASE UNCHANGED vars
  <2>1. UNCHANGED <<slot, fc, pipe, cl>>
    BY <1>1 DEF vars, sockVars, pollVars
  <2>2. \A j \in Indices : slot[j].type \notin Dormant /\ Waking(slot[j].id) => Waking(slot[j].id)'
    BY <2>1, WakingSame
  <2> QED BY <2>1, <2>2, SameAlike, ArmedQuiet
<1>2. CASE Next
  BY <1>2, ArmedCalls, ArmedWake, ArmedOthers, ArmedCommands, ArmedPackage, ArmedEvents, ArmedCalm,
     ArmedAccept DEF Next
<1> QED BY <1>1, <1>2

(* What is queued on an open socket is under way, for any number of slots, *)
(* services, ids and calls.                                                *)
THEOREM QueuedIsUnderWay == Spec => []TransmissionArmed
<1>1. Init => SocketType /\ LifeInv /\ ArmedInv
  BY InitType, InitLife, InitArmed
<1>2. SocketType /\ LifeInv /\ ArmedInv /\ [Next]_vars => (SocketType /\ LifeInv /\ ArmedInv)'
  BY NextType, NextLife, NextArmed DEF LifeInv, Known
<1>3. ArmedInv => TransmissionArmed
  BY ArmedImplies
<1> QED BY <1>1, <1>2, <1>3, PTL DEF Spec
-----------------------------------------------------------------------------
(* The messages on their way: numbered in the order of the send calls, in  *)
(* the hands of the service that sent them until they are in the pipe, and *)
(* in order there.                                                         *)

Holding == {"locked", "checked"}
Parcels == {j \in DOMAIN pipe : pipe[j].cmd \in Packages}

Numbered ==
    /\ \A m \in sent : m.to \in opened /\ m.n <= Cardinality(sent)
    /\ \A m, o \in sent : m.n = o.n => m = o

Carried(c) ==
    /\ cl[c].pc \in Busy \cup {"wake"} => cl[c].m \in sent /\ cl[c].m.by = c
    /\ cl[c].pc \in Busy => \A o \in sent : o.by = c => o.n <= cl[c].m.n
    /\ cl[c].pc \in Busy => \A j \in Parcels : pipe[j].m.by = c => pipe[j].m.n < cl[c].m.n

Queued ==
    /\ \A j \in Parcels : pipe[j].m \in sent
    /\ \A j, k \in Parcels : j < k /\ pipe[j].m.by = pipe[k].m.by => pipe[j].m.n < pipe[k].m.n

Locked(c) == cl[c].pc \in Holding => lock[HASH_ID(cl[c].m.to)] = c

MailInv == Numbered /\ Queued /\ \A c \in Clients : Carried(c) /\ Locked(c)

LEMMA InitMail == Init => MailInv
BY DEF Init, MailInv, Numbered, Carried, Queued, Locked, Parcels, Busy, Holding

NoNewParcel ==
    \E f \in [Parcels' -> Parcels] :
       /\ \A j \in Parcels' : pipe'[j] = pipe[f[j]]
       /\ \A j, k \in Parcels' : j < k => f[j] < f[k]

LEMMA ShorterParcels ==
    ASSUME SocketType, Shorter
    PROVE  NoNewParcel
<1>1. PICK f \in [DOMAIN pipe' -> DOMAIN pipe] :
              /\ \A j \in DOMAIN pipe' : pipe'[j] = pipe[f[j]]
              /\ \A j, k \in DOMAIN pipe' : j # k => f[j] # f[k]
              /\ \A j, k \in DOMAIN pipe' : j < k => f[j] < f[k]
              /\ Commanded => \A j \in DOMAIN pipe' : f[j] # 1
  BY ShorterFacts
<1> DEFINE g == [j \in Parcels' |-> f[j]]
<1>2. \A j \in Parcels' : f[j] \in Parcels
  BY <1>1 DEF Parcels
<1>3. g \in [Parcels' -> Parcels]
  BY <1>2
<1>4. /\ \A j \in Parcels' : pipe'[j] = pipe[g[j]]
      /\ \A j, k \in Parcels' : j < k => g[j] < g[k]
  BY <1>1 DEF Parcels
<1> HIDE DEF g
<1> QED BY <1>3, <1>4 DEF NoNewParcel

LEMMA AppendParcels ==
    ASSUME SocketType, NEW x \in Commands, pipe' = Append(pipe, x), x.cmd \notin Packages
    PROVE  NoNewParcel /\ Parcels' = Parcels /\ \A j \in Parcels : pipe'[j] = pipe[j]
<1> DEFINE g == [j \in Parcels' |-> j]
<1>1. Parcels' = Parcels /\ \A j \in Parcels : pipe'[j] = pipe[j]
  BY PipeAppend DEF Parcels
<1>2. /\ g \in [Parcels' -> Parcels]
      /\ \A j \in Parcels' : pipe'[j] = pipe[g[j]]
      /\ \A j, k \in Parcels' : j < k => g[j] < g[k]
  BY <1>1
<1> HIDE DEF g
<1> QED BY <1>1, <1>2 DEF NoNewParcel

(* A step that sends nothing.                                              *)
SamePost(d) ==
    /\ cl'[d].pc \in Busy => cl[d].pc \in Busy
    /\ cl'[d].pc \in Busy \cup {"wake"} => cl[d].pc \in Busy \cup {"wake"} /\ cl'[d].m = cl[d].m

LEMMA MailKeep ==
    ASSUME SocketType, MailInv, sent' = sent, opened \subseteq opened', NoNewParcel,
           \A d \in Clients : SamePost(d) /\ Locked(d)'
    PROVE  MailInv'
<1>1. PICK f \in [Parcels' -> Parcels] :
         /\ \A j \in Parcels' : pipe'[j] = pipe[f[j]]
         /\ \A j, k \in Parcels' : j < k => f[j] < f[k]
  BY DEF NoNewParcel
<1>2. Numbered'
  BY DEF MailInv, Numbered
<1>3. Queued'
  BY <1>1 DEF MailInv, Queued
<1>4. ASSUME NEW c \in Clients PROVE Carried(c)'
  <2>1. Carried(c) /\ SamePost(c)
    BY DEF MailInv
  <2>2. cl'[c].pc \in Busy => \A j \in Parcels' : pipe'[j].m.by = c => pipe'[j].m.n < cl'[c].m.n
    BY <1>1, <2>1 DEF Carried, SamePost
  <2> QED BY <2>1, <2>2 DEF Carried, SamePost
<1> QED BY <1>2, <1>3, <1>4 DEF MailInv

LEMMA MailServer ==
    ASSUME SocketType, MailInv, UNCHANGED <<lock, cl, sent>>, Shorter, opened \subseteq opened'
    PROVE  MailInv'
<1>1. \A d \in Clients : SamePost(d) /\ Locked(d)'
  BY DEF SamePost, MailInv, Locked
<1> QED BY <1>1, ShorterParcels, MailKeep

LEMMA MailThread ==
    ASSUME SocketType, MailInv,
           \/ open_socket \/ Ignored \/ close_socket \/ resume_socket \/ pause_socket
           \/ trigger_write \/ SendPackage \/ FinishClose \/ NoMoreCommands \/ Wait
           \/ report_connect \/ report_accept \/ InvalidEvent
           \/ StaleEvent \/ ReadAgain \/ ReadError \/ ReadData \/ ReadEnd
           \/ WriteBlocked \/ send_buffer \/ Eof
    PROVE  MailInv'
<1>1. UNCHANGED <<lock, cl, sent>> /\ Shorter
  BY ServerFrames, EventFrames DEF Served, Signalled, Shorter
<1>2. opened \subseteq opened'
  <2> USE DEF Report, Silent, tellVars
  <2>1. CASE open_socket \/ close_socket \/ resume_socket
    <3>1. CASE open_socket
      BY <3>1, OpenSocketEffect
    <3>2. CASE close_socket
      BY <3>2, CloseSocketEffect DEF ForceClose
    <3>3. CASE resume_socket
      BY <3>3, ResumeEffect
    <3> QED BY <2>1, <3>1, <3>2, <3>3
  <2>2. CASE Ignored \/ pause_socket \/ trigger_write \/ SendPackage \/ NoMoreCommands \/ Wait
    BY <2>2, ServerFrames
  <2>3. CASE FinishClose
    BY <2>3 DEF FinishClose
  <2>4. CASE report_connect \/ ReadEnd \/ Eof
    <3>1. CASE report_connect
      BY <3>1, ConnectEffect DEF ForceClose
    <3>2. CASE ReadEnd
      BY <3>2, ReadEndEffect DEF ForceClose
    <3>3. CASE Eof
      BY <3>3, EofEffect DEF ForceClose
    <3> QED BY <2>4, <3>1, <3>2, <3>3
  <2>5. CASE report_accept \/ send_buffer
    BY <2>5, EventFrames
  <2>6. CASE InvalidEvent \/ StaleEvent \/ ReadAgain \/ ReadError \/ ReadData \/ WriteBlocked
    BY <2>6, CalmEvents
  <2> QED BY <2>1, <2>2, <2>3, <2>4, <2>5, <2>6
<1> QED BY <1>1, <1>2, MailServer

(* A step of a service that leaves the lock alone, or gives it back.       *)
LEMMA PostPut ==
    ASSUME SocketType, MailInv, NEW c \in Clients, NEW x \in Callers, cl' = [cl EXCEPT ![c] = x],
           x.pc \in Busy => cl[c].pc \in Busy,
           x.pc \in Busy \cup {"wake"} => cl[c].pc \in Busy \cup {"wake"} /\ x.m = cl[c].m,
           \/ lock' = lock /\ (x.pc \in Holding => cl[c].pc \in Holding)
           \/ /\ cl[c].pc \in Holding /\ x.pc \notin Holding
              /\ lock' = [lock EXCEPT ![HASH_ID(cl[c].m.to)] = None]
    PROVE  \A d \in Clients : SamePost(d) /\ Locked(d)'
<1>1. cl'[c] = x /\ \A d \in Clients \ {c} : cl'[d] = cl[d]
  BY ClientPut
<1>2. \A d \in Clients : SamePost(d)
  BY <1>1 DEF SamePost
<1>3. lock \in [Indices -> Clients \cup {None}]
  BY DEF SocketType
<1>4. ASSUME NEW d \in Clients, cl'[d].pc \in Holding PROVE lock'[HASH_ID(cl'[d].m.to)] = d
  <2>0. cl[d].pc \in Holding => cl[d].pc \in Busy \cup {"wake"}
    BY DEF Holding, Busy
  <2>1. CASE d = c
    BY <1>1, <1>4, <2>1 DEF Locked, MailInv, Holding, Busy
  <2>2. CASE d # c
    <3>1. cl'[d] = cl[d] /\ lock[HASH_ID(cl[d].m.to)] = d /\ HASH_ID(cl[d].m.to) \in Indices
      BY <1>1, <1>4, <2>0, <2>2, CallerFacts, MessageFacts, IdFacts DEF Locked, MailInv
    <3>2. cl[c].pc \in Holding => lock[HASH_ID(cl[c].m.to)] = c
      BY DEF MailInv, Locked
    <3> QED BY <1>3, <2>2, <3>1, <3>2
  <2> QED BY <2>1, <2>2
<1> QED BY <1>2, <1>4 DEF Locked

LEMMA MailCalls ==
    ASSUME SocketType, MailInv, NEW c \in Clients,
           \/ Open(c) \/ OpenFull(c) \/ Publish(c) \/ Request(c)
           \/ DoubleCheck(c) \/ DirectWrite(c) \/ Wake(c) \/ inc_sending_ref(c)
    PROVE  MailInv'
<1>1. sent' = sent /\ opened' = opened
  BY ClientFrames
<1>2. NoNewParcel
  <2>1. ASSUME NEW cmd \in {"O", "L", "K", "shutdown", "R", "S", "W"}, NEW id,
               [cmd |-> cmd, id |-> id] \in Commands, pipe' = Append(pipe, [cmd |-> cmd, id |-> id])
        PROVE NoNewParcel
    <3>1. [cmd |-> cmd, id |-> id].cmd \notin Packages
      BY DEF Packages
    <3> QED BY <2>1, <3>1, AppendParcels
  <2>2. CASE Publish(c)
    BY <2>1, <2>2, PublishEffect
  <2>3. CASE Request(c)
    BY <2>1, <2>3, RequestEffect
  <2>4. CASE Wake(c)
    BY <2>1, <2>4, WakeEffect
  <2>5. CASE Open(c) \/ OpenFull(c) \/ DoubleCheck(c) \/ DirectWrite(c) \/ inc_sending_ref(c)
    <3>1. pipe' = pipe
      BY <2>5, ClientFrames
    <3> QED BY <3>1, ShorterParcels DEF Shorter
  <2> QED BY <2>2, <2>3, <2>4, <2>5
<1>3. \A d \in Clients : SamePost(d) /\ Locked(d)'
  <2> DEFINE idle == [pc |-> "idle"]
  <2>0. idle \in Callers /\ idle.pc \notin Busy \cup {"wake"} /\ idle.pc \notin Holding
    BY CallerTypes DEF Busy, Holding
  <2>1. CASE OpenFull(c) \/ Request(c)
    <3>1. UNCHANGED <<cl, lock>>
      BY <2>1, ClientFrames
    <3> QED BY <3>1 DEF SamePost, MailInv, Locked
  <2>2. CASE Open(c)
    <3> SUFFICES ASSUME NEW x, x = [pc |-> "reserved", id |-> allocId']
                 PROVE  \A d \in Clients : SamePost(d) /\ Locked(d)'
      OBVIOUS
    <3>1. x.pc = "reserved" /\ x \in Callers /\ cl' = [cl EXCEPT ![c] = x] /\ lock' = lock
      BY <2>2, OpenEffect, CallerTypes, ClientFrames
    <3>2. x.pc \notin Busy \cup {"wake"} /\ x.pc \notin Holding
      BY <3>1 DEF Busy, Holding
    <3> QED BY <3>1, <3>2, PostPut
  <2>3. CASE Publish(c) \/ Wake(c)
    <3>1. cl' = [cl EXCEPT ![c] = idle] /\ lock' = lock
      BY <2>3, PublishEffect, WakeEffect, ClientFrames
    <3> HIDE DEF idle
    <3> QED BY <2>0, <3>1, PostPut
  <2>4. ASSUME NEW p \in {"checked", "inc", "push", "wake"}, cl[c].pc \in Busy, cl[c].m \in Messages,
               cl' = [cl EXCEPT ![c] = [pc |-> p, m |-> cl[c].m]],
               \/ lock' = lock /\ (p = "checked" => cl[c].pc = "locked")
               \/ /\ cl[c].pc \in Holding /\ p # "checked"
                  /\ lock' = [lock EXCEPT ![HASH_ID(cl[c].m.to)] = None]
        PROVE  \A d \in Clients : SamePost(d) /\ Locked(d)'
    <3> DEFINE x == [pc |-> p, m |-> cl[c].m]
    <3>1. x \in Callers /\ x.pc = p /\ x.m = cl[c].m
      BY <2>4, CallerTypes DEF Busy
    <3>2. (p \in Holding <=> p = "checked") /\ "locked" \in Holding
      BY <2>4 DEF Holding
    <3>3. /\ cl' = [cl EXCEPT ![c] = x]
          /\ x.pc \in Busy => cl[c].pc \in Busy
          /\ x.pc \in Busy \cup {"wake"} => cl[c].pc \in Busy \cup {"wake"} /\ x.m = cl[c].m
          /\ \/ lock' = lock /\ (x.pc \in Holding => cl[c].pc \in Holding)
             \/ /\ cl[c].pc \in Holding /\ x.pc \notin Holding
                /\ lock' = [lock EXCEPT ![HASH_ID(cl[c].m.to)] = None]
      BY <2>4, <3>1, <3>2
    <3> HIDE DEF x
    <3> QED BY <3>1, <3>3, PostPut
  <2>5. CASE inc_sending_ref(c)
    <3>1. /\ cl[c].pc = "inc" /\ cl[c].m \in Messages /\ lock' = lock
          /\ cl' = [cl EXCEPT ![c] = [pc |-> "push", m |-> cl[c].m]]
      BY <2>5, IncEffect, ClientFrames
    <3>2. cl[c].pc \in Busy
      BY <3>1 DEF Busy
    <3> QED BY <2>4, <3>1, <3>2
  <2>6. CASE DoubleCheck(c)
    <3>1. /\ cl[c].pc = "locked" /\ cl[c].m \in Messages
          /\ \/ lock' = lock /\ cl' = [cl EXCEPT ![c] = [pc |-> "checked", m |-> cl[c].m]]
             \/ /\ lock' = [lock EXCEPT ![HASH_ID(cl[c].m.to)] = None]
                /\ cl' = [cl EXCEPT ![c] = [pc |-> "inc", m |-> cl[c].m]]
      BY <2>6, DoubleCheckEffect
    <3>2. cl[c].pc \in Busy /\ cl[c].pc \in Holding
      BY <3>1 DEF Busy, Holding
    <3> QED BY <2>4, <3>1, <3>2
  <2>7. CASE DirectWrite(c)
    <3> SUFFICES ASSUME NEW m, m = cl[c].m PROVE \A d \in Clients : SamePost(d) /\ Locked(d)'
      OBVIOUS
    <3>1. /\ cl[c].pc = "checked" /\ m \in Messages /\ lock' = [lock EXCEPT ![HASH_ID(m.to)] = None]
          /\ NotWritten(c, m) \/ AllWritten(c, m) \/ \E l \in {1, 2} : RestKept(c, m, l)
      BY <2>7, DirectWriteEffect
    <3>2. cl[c].pc \in Busy /\ cl[c].pc \in Holding
      BY <3>1 DEF Busy, Holding
    <3>3. CASE AllWritten(c, m)
      <4>1. cl' = [cl EXCEPT ![c] = idle]
        BY <3>3 DEF AllWritten
      <4> HIDE DEF idle
      <4> QED BY <2>0, <3>1, <3>2, <4>1, PostPut
    <3>4. CASE NotWritten(c, m)
      <4>1. cl' = [cl EXCEPT ![c] = [pc |-> "inc", m |-> cl[c].m]]
        BY <3>4 DEF NotWritten
      <4> QED BY <2>4, <3>1, <3>2, <4>1
    <3>5. ASSUME NEW l \in {1, 2}, RestKept(c, m, l) PROVE \A d \in Clients : SamePost(d) /\ Locked(d)'
      <4>1. cl' = [cl EXCEPT ![c] = [pc |-> "wake", m |-> cl[c].m]]
        BY <3>5 DEF RestKept
      <4> QED BY <2>4, <3>1, <3>2, <4>1
    <3> QED BY <3>1, <3>3, <3>4, <3>5
  <2> QED BY <2>1, <2>2, <2>3, <2>5, <2>6, <2>7
<1> QED BY <1>1, <1>2, <1>3, MailKeep

(* A new message has the highest number.                                   *)
LEMMA SendFacts ==
    ASSUME SocketType, opened \subseteq held, Numbered, NEW c \in Clients, Send(c)
    PROVE  \E m, x : /\ m \in Messages /\ m \notin sent /\ sent' = sent \cup {m}
                     /\ m.by = c /\ m.to \in opened /\ m.n = Cardinality(sent) + 1
                     /\ Cardinality(sent) \in Nat /\ Cardinality(sent') = Cardinality(sent) + 1
                     /\ cl[c].pc = "idle" /\ x \in Callers /\ x.pc \in {"locked", "inc"} /\ x.m = m
                     /\ cl' = [cl EXCEPT ![c] = x] /\ ~socket_invalid(HASH_ID(m.to), m.to)
                     /\ x.pc = "inc" => lock' = lock
                     /\ x.pc = "locked" => /\ lock[HASH_ID(m.to)] = None /\ lock' = [lock EXCEPT ![HASH_ID(m.to)] = c]
                                           /\ can_direct_write(HASH_ID(m.to), m.to)
<1>1. PICK id \in opened, low \in BOOLEAN, direct \in BOOLEAN :
              LET i == HASH_ID(id)
                  m == NewMessage(c, id, low)
              IN  /\ cl[c].pc = "idle" /\ id \in Nat
                  /\ ~socket_invalid(i, id) /\ (low \/ ~slot[i].closing)
                  /\ direct => ~low /\ can_direct_write(i, id) /\ lock[i] = None
                  /\ sent' = sent \cup {m} /\ Cardinality(sent) < MaxSends
                  /\ lock' = IF direct THEN [lock EXCEPT ![i] = c] ELSE lock
                  /\ cl' = [cl EXCEPT ![c] = [pc |-> IF direct THEN "locked" ELSE "inc", m |-> m]]
  BY SendEffect
<1> DEFINE m == NewMessage(c, id, low)
           p == IF direct THEN "locked" ELSE "inc"
           x == [pc |-> p, m |-> m]
<1>2. id \in Ids
  BY DEF SocketType
<1>3. /\ m \in Messages /\ Cardinality(sent) \in Nat
      /\ m \notin sent => Cardinality(sent \cup {m}) = Cardinality(sent) + 1
      /\ m.n = Cardinality(sent) + 1 /\ m.by = c /\ m.to = id
  <2>1. Cardinality(sent) < MaxSends
    BY <1>1
  <2> QED BY <1>2, <2>1, SentAdd
<1> HIDE DEF m
<1>4. m \notin sent
  BY <1>3 DEF Numbered
<1>5. p \in {"locked", "inc"} /\ p \in Busy \cup {"wake"} /\ (p = "locked" <=> direct)
  BY DEF Busy
<1> HIDE DEF p
<1>6. x \in Callers /\ x.pc = p /\ x.m = m
  BY <1>3, <1>5, CallerTypes
<1>7. cl' = [cl EXCEPT ![c] = x] /\ sent' = sent \cup {m} /\ cl[c].pc = "idle"
  BY <1>1 DEF m, p
<1>8. /\ p = "inc" => lock' = lock
      /\ p = "locked" => /\ lock[HASH_ID(m.to)] = None /\ lock' = [lock EXCEPT ![HASH_ID(m.to)] = c]
                         /\ can_direct_write(HASH_ID(m.to), m.to)
      /\ ~socket_invalid(HASH_ID(m.to), m.to)
  BY <1>1, <1>3, <1>5
<1> HIDE DEF x
<1> QED BY <1>3, <1>4, <1>5, <1>6, <1>7, <1>8

LEMMA MailSend ==
    ASSUME SocketType, opened \subseteq held, MailInv, NEW c \in Clients, Send(c)
    PROVE  MailInv'
<1>1. UNCHANGED <<pipe, opened>>
  BY ClientFrames
<1>2. PICK m, x : /\ m \in Messages /\ m \notin sent /\ sent' = sent \cup {m}
                  /\ m.by = c /\ m.to \in opened /\ m.n = Cardinality(sent) + 1
                  /\ Cardinality(sent) \in Nat /\ Cardinality(sent') = Cardinality(sent) + 1
                  /\ cl[c].pc = "idle" /\ x \in Callers /\ x.pc \in {"locked", "inc"} /\ x.m = m
                  /\ cl' = [cl EXCEPT ![c] = x] /\ ~socket_invalid(HASH_ID(m.to), m.to)
                  /\ x.pc = "inc" => lock' = lock
                  /\ x.pc = "locked" => /\ lock[HASH_ID(m.to)] = None /\ lock' = [lock EXCEPT ![HASH_ID(m.to)] = c]
                                        /\ can_direct_write(HASH_ID(m.to), m.to)
  BY SendFacts DEF MailInv
<1>3. cl'[c] = x /\ \A d \in Clients \ {c} : cl'[d] = cl[d]
  BY <1>2, ClientPut
<1>4. \A o \in sent : o.n \in Nat /\ o.n < m.n
  BY <1>2, MessageFacts DEF MailInv, Numbered, SocketType
<1>5. Numbered'
  BY <1>1, <1>2, <1>4 DEF MailInv, Numbered
<1>6. Parcels' = Parcels
  BY <1>1 DEF Parcels
<1>7. Queued'
  BY <1>1, <1>2, <1>6 DEF MailInv, Queued
<1>8. ASSUME NEW d \in Clients PROVE Carried(d)' /\ Locked(d)'
  <2>1. CASE d = c
    <3>1. m.n <= m.n
      BY <1>2
    <3>2. \A j \in Parcels : pipe[j].m.n < m.n
      BY <1>4 DEF MailInv, Queued
    <3>3. Carried(c)'
      BY <1>1, <1>2, <1>3, <1>4, <1>6, <3>1, <3>2 DEF Carried
    <3>4. lock \in [Indices -> Clients \cup {None}] /\ HASH_ID(m.to) \in Indices
      BY <1>2, MessageFacts, IdFacts DEF SocketType
    <3>5. Locked(c)'
      BY <1>2, <1>3, <3>4 DEF Locked, Holding
    <3> QED BY <2>1, <3>3, <3>5
  <2>2. CASE d # c
    <3>1. cl'[d] = cl[d] /\ Carried(d) /\ Locked(d)
      BY <1>3, <2>2 DEF MailInv
    <3>2. Carried(d)'
      BY <1>1, <1>2, <1>6, <2>2, <3>1 DEF Carried
    <3>3. ASSUME cl[d].pc \in Holding PROVE lock'[HASH_ID(cl[d].m.to)] = d
      <4>1. lock[HASH_ID(cl[d].m.to)] = d /\ d # None /\ lock \in [Indices -> Clients \cup {None}]
        BY <3>1, <3>3, NoneAssumption DEF Locked, SocketType
      <4>2. cl[d].pc \in Busy \cup {"wake"}
        BY <3>3 DEF Holding, Busy
      <4>3. HASH_ID(cl[d].m.to) \in Indices
        BY <4>2, CallerFacts, MessageFacts, IdFacts
      <4> QED BY <1>2, <4>1, <4>3
    <3> QED BY <3>1, <3>2, <3>3 DEF Locked
  <2> QED BY <2>1, <2>2
<1> QED BY <1>5, <1>7, <1>8 DEF MailInv

LEMMA MailCommand ==
    ASSUME SocketType, MailInv, NEW c \in Clients, SendCommand(c)
    PROVE  MailInv'
<1>1. UNCHANGED <<lock, sent, opened>>
  BY ClientFrames
<1>2. PICK x : /\ x \in Commands /\ x.cmd \in Packages /\ x.m = cl[c].m /\ pipe' = Append(pipe, x)
               /\ cl[c].pc = "push" /\ cl[c].m \in Messages /\ cl' = [cl EXCEPT ![c] = [pc |-> "idle"]]
  <2>1. PICK cmd \in Packages :
              LET m == cl[c].m
                  x == [cmd |-> cmd, id |-> m.to, m |-> m]
              IN  /\ cl[c].pc = "push" /\ m \in Messages /\ m.to \in Ids /\ x \in Commands
                  /\ pipe' = Append(pipe, x) /\ cl' = [cl EXCEPT ![c] = [pc |-> "idle"]]
    BY SendCommandEffect
  <2> DEFINE x == [cmd |-> cmd, id |-> cl[c].m.to, m |-> cl[c].m]
  <2>2. x.cmd = cmd /\ x.m = cl[c].m /\ x \in Commands
    BY <2>1
  <2>3. pipe' = Append(pipe, x)
    BY <2>1
  <2> HIDE DEF x
  <2> QED BY <2>1, <2>2, <2>3
<1>3. cl'[c].pc = "idle" /\ \A d \in Clients \ {c} : cl'[d] = cl[d]
  BY <1>2, ClientPut, CallerTypes
<1>4. Parcels' = Parcels \cup {Len(pipe) + 1} /\ pipe'[Len(pipe) + 1] = x
      /\ \A j \in Parcels : pipe'[j] = pipe[j] /\ j \in 1 .. Len(pipe)
  <2>1. \A j \in DOMAIN pipe : j \in 1 .. Len(pipe)
    BY DEF SocketType
  <2> QED BY <1>2, <2>1, PipeAppend DEF Parcels
<1>5. Len(pipe) \in Nat
  BY DEF SocketType
<1>6. /\ cl[c].m \in sent /\ cl[c].m.by = c
      /\ \A j \in Parcels : pipe[j].m.by = c => pipe[j].m.n < cl[c].m.n
  BY <1>2 DEF MailInv, Carried, Busy
<1>7. Numbered'
  BY <1>1 DEF MailInv, Numbered
<1>8. Queued'
  BY <1>1, <1>2, <1>4, <1>5, <1>6 DEF MailInv, Queued
<1>9. ASSUME NEW d \in Clients PROVE Carried(d)' /\ Locked(d)'
  <2>1. CASE d = c
    BY <1>3, <2>1 DEF Carried, Locked, Busy, Holding
  <2>2. CASE d # c
    <3>1. cl'[d] = cl[d] /\ Carried(d) /\ Locked(d)
      BY <1>3, <2>2 DEF MailInv
    <3> QED BY <1>1, <1>2, <1>4, <1>6, <2>2, <3>1 DEF Carried, Locked
  <2> QED BY <2>1, <2>2
<1> QED BY <1>7, <1>8, <1>9 DEF MailInv

LEMMA NextMail ==
    ASSUME SocketType, LifeInv, MailInv, [Next]_vars
    PROVE  MailInv'
<1>1. CASE UNCHANGED vars
  <2>1. UNCHANGED <<lock, cl, sent, pipe, opened>>
    BY <1>1 DEF vars, sockVars, callVars, tellVars
  <2> QED BY <2>1, MailServer DEF Shorter
<1>2. CASE Next
  <2>1. opened \subseteq held
    BY DEF LifeInv, Known
  <2> QED BY <1>2, <2>1, MailCalls, MailSend, MailCommand, MailThread DEF Next
<1> QED BY <1>1, <1>2
-----------------------------------------------------------------------------
(* What is counted: the messages of an id in the pipe or about to be, and  *)
(* the bytes that are queued.                                              *)

OnWay(m)  == (\E c \in Clients : cl[c].pc \in Busy /\ cl[c].m = m) \/ \E j \in Parcels : pipe[j].m = m
Pushed(m) == (\E c \in Clients : cl[c].pc = "push" /\ cl[c].m = m) \/ \E j \in Parcels : pipe[j].m = m

InFlight(id) == {m \in sent : m.to = id /\ Pushed(m)}
Settled      == {m \in sent : ~OnWay(m)}

(* While the model follows the socket, its count of messages is exact, and *)
(* so is that of bytes unless it is being closed.  The count of bytes is   *)
(* bounded by what has been sent and is no longer on its way.              *)
Counts(i) ==
    LET s == slot[i]
    IN  /\ s.sending \in 0 .. MaxSends
        /\ s.wb >= 0 /\ s.wb + DwLeft(s) <= 2 * Cardinality(Settled)
        /\ Running /\ s.tcp => s.sending = Cardinality(InFlight(s.id))
        /\ Running /\ s.type \notin Dormant /\ ~Closing(i) => s.wb = Len(Flat(s.high \o s.low))
        /\ Whole(s.low)

CountInv == AssertionsHold /\ \A i \in Indices : Counts(i)

LEMMA MailSets ==
    ASSUME SocketType
    PROVE  /\ IsFiniteSet(Settled) /\ Cardinality(Settled) \in Nat /\ Cardinality(Settled) <= MaxSends
           /\ \A id : /\ IsFiniteSet(InFlight(id)) /\ Cardinality(InFlight(id)) \in Nat
                      /\ Cardinality(InFlight(id)) <= MaxSends
<1>1. IsFiniteSet(sent) /\ Cardinality(sent) <= MaxSends /\ Cardinality(sent) \in Nat
  BY FS_CardinalityType DEF SocketType
<1>2. ASSUME NEW S \in SUBSET sent
      PROVE  IsFiniteSet(S) /\ Cardinality(S) \in Nat /\ Cardinality(S) <= MaxSends
  <2>1. IsFiniteSet(S) /\ Cardinality(S) <= Cardinality(sent)
    BY <1>1, FS_Subset
  <2>2. Cardinality(S) \in Nat
    BY <2>1, FS_CardinalityType
  <2> QED BY <1>1, <2>1, <2>2, SocketAssumption
<1>3. Settled \subseteq sent /\ \A id : InFlight(id) \subseteq sent
  BY DEF Settled, InFlight
<1> QED BY <1>2, <1>3

LEMMA InitCount == Init => CountInv
<1> SUFFICES ASSUME Init PROVE CountInv
  OBVIOUS
<1>1. AssertionsHold
  BY DEF Init, AssertionsHold
<1>2. SocketType
  BY InitType
<1>3. Cardinality(Settled) \in Nat
  BY <1>2, MailSets
<1>4. ASSUME NEW i \in Indices PROVE Counts(i)
  <2>1. /\ slot[i].sending = 0 /\ slot[i].wb = 0 /\ slot[i].tcp = FALSE /\ slot[i].type = "INVALID"
        /\ slot[i].dw = None /\ slot[i].low = <<>>
    BY DEF Init
  <2>2. DwLeft(slot[i]) = 0 /\ Whole(slot[i].low)
    BY <2>1 DEF DwLeft, Whole
  <2> QED BY <1>3, <2>1, <2>2, SocketAssumption DEF Counts, Dormant
<1> QED BY <1>1, <1>4 DEF CountInv

(* A step after which the same messages are on their way.                  *)
SameMail ==
    /\ sent' = sent
    /\ \A m : (OnWay(m)' <=> OnWay(m)) /\ (Pushed(m)' <=> Pushed(m))

LEMMA SameSets ==
    ASSUME SameMail
    PROVE  Settled' = Settled /\ \A id : InFlight(id)' = InFlight(id)
BY DEF SameMail, Settled, InFlight

LEMMA SameMailThread ==
    ASSUME SocketType, cl' = cl, sent' = sent, pipe' = pipe \/ (Commanded /\ Cmd.cmd \notin Packages)
    PROVE  SameMail
<1>1. {pipe'[j].m : j \in Parcels'} = {pipe[j].m : j \in Parcels}
  <2>1. CASE pipe' = pipe
    BY <2>1 DEF Parcels
  <2>2. CASE Commanded /\ Cmd.cmd \notin Packages
    <3>1. \A j \in Parcels' : j + 1 \in Parcels /\ pipe'[j] = pipe[j + 1]
      BY <2>2, CommandedFacts DEF Parcels
    <3>2. \A j \in Parcels : j - 1 \in Parcels' /\ pipe'[j - 1] = pipe[j]
      BY <2>2, CommandedFacts DEF Parcels
    <3> QED BY <3>1, <3>2
  <2> QED BY <2>1, <2>2
<1>2. \A m : (\E j \in Parcels' : pipe'[j].m = m) <=> (\E j \in Parcels : pipe[j].m = m)
  BY <1>1
<1> QED BY <1>2 DEF SameMail, OnWay, Pushed

LEMMA SettledGrows ==
    ASSUME SocketType, SocketType', sent \subseteq sent', \A m \in sent : OnWay(m)' => OnWay(m)
    PROVE  Cardinality(Settled) <= Cardinality(Settled')
<1>1. Settled \subseteq Settled'
  BY DEF Settled
<1>2. IsFiniteSet(sent') /\ Settled' \subseteq sent'
  BY DEF SocketType, Settled
<1>3. IsFiniteSet(Settled')
  BY <1>2, FS_Subset
<1> QED BY <1>1, <1>3, FS_Subset

LEMMA SettledMore ==
    ASSUME SocketType, SocketType', sent' = sent, \A m \in sent : OnWay(m)' => OnWay(m),
           NEW m \in sent, OnWay(m), ~OnWay(m)'
    PROVE  Cardinality(Settled) + 1 <= Cardinality(Settled')
<1>1. Settled \cup {m} \subseteq Settled' /\ m \notin Settled
  BY DEF Settled
<1>2. IsFiniteSet(Settled') /\ IsFiniteSet(Settled)
  <2>1. /\ IsFiniteSet(sent') /\ Settled' \subseteq sent'
        /\ IsFiniteSet(sent) /\ Settled \subseteq sent
    BY DEF SocketType, Settled
  <2> QED BY <2>1, FS_Subset
<1>3. Cardinality(Settled \cup {m}) = Cardinality(Settled) + 1
  BY <1>1, <1>2, FS_AddElement
<1>4. Cardinality(Settled \cup {m}) <= Cardinality(Settled')
  BY <1>1, <1>2, FS_Subset
<1> QED BY <1>3, <1>4

(* A package leaves the pipe.                                              *)
LEMMA PackageMail ==
    ASSUME SocketType, MailInv, Commanded, cl' = cl, sent' = sent, Cmd.cmd \in Packages, NEW m, m = Cmd.m
    PROVE  /\ m \in sent /\ OnWay(m) /\ Pushed(m) /\ ~OnWay(m)' /\ ~Pushed(m)'
           /\ \A o : o # m => (OnWay(o)' <=> OnWay(o)) /\ (Pushed(o)' <=> Pushed(o))
<1>1. 1 \in Parcels /\ Cmd = pipe[1] /\ m = pipe[1].m /\ m \in sent /\ Cmd.m \in Messages
  BY CommandedFacts, CommandFacts DEF Parcels, MailInv, Queued
<1>2. \A j \in Parcels : j \in DOMAIN pipe /\ j \in Nat /\ j >= 1
  BY PipeFacts DEF Parcels, SocketType
<1>3. m.n \in Nat
  BY <1>1, MessageFacts
<1>4. \A j \in Parcels : j # 1 => pipe[j].m # m
  <2> SUFFICES ASSUME NEW j \in Parcels, j # 1, pipe[j].m = m PROVE FALSE
    OBVIOUS
  <2>1. 1 < j
    BY <1>2
  <2>2. m.n < m.n
    BY <1>1, <2>1 DEF MailInv, Queued
  <2> QED BY <1>3, <2>2
<1>5. \A c \in Clients : cl[c].pc \in Busy => cl[c].m # m
  <2> SUFFICES ASSUME NEW c \in Clients, cl[c].pc \in Busy, cl[c].m = m PROVE FALSE
    OBVIOUS
  <2>1. m.by = c
    BY DEF MailInv, Carried
  <2>2. m.n < m.n
    BY <1>1, <2>1 DEF MailInv, Carried
  <2> QED BY <1>3, <2>2
<1>6. /\ \A j \in Parcels' : j + 1 \in Parcels /\ j + 1 # 1 /\ pipe'[j] = pipe[j + 1]
      /\ \A j \in Parcels : j # 1 => j - 1 \in Parcels' /\ pipe'[j - 1] = pipe[j]
  BY CommandedFacts DEF Parcels
<1>7. \A o : (\E j \in Parcels' : pipe'[j].m = o) <=> (\E j \in Parcels : j # 1 /\ pipe[j].m = o)
  BY <1>6
<1>8. "push" \in Busy
  BY DEF Busy
<1>9. ASSUME NEW o PROVE /\ OnWay(o)' <=> \/ \E c \in Clients : cl[c].pc \in Busy /\ cl[c].m = o
                                          \/ \E j \in Parcels : j # 1 /\ pipe[j].m = o
                         /\ Pushed(o)' <=> \/ \E c \in Clients : cl[c].pc = "push" /\ cl[c].m = o
                                           \/ \E j \in Parcels : j # 1 /\ pipe[j].m = o
  BY <1>7 DEF OnWay, Pushed
<1>10. ~OnWay(m)' /\ ~Pushed(m)'
  BY <1>4, <1>5, <1>8, <1>9
<1>11. OnWay(m) /\ Pushed(m)
  BY <1>1 DEF OnWay, Pushed
<1>12. \A o : o # m => (OnWay(o)' <=> OnWay(o)) /\ (Pushed(o)' <=> Pushed(o))
  BY <1>1, <1>9 DEF OnWay, Pushed
<1> QED BY <1>1, <1>10, <1>11, <1>12

(* A step on slot i, and one that leaves the slots alone.                  *)
LEMMA CountStep ==
    ASSUME SocketType, CountInv, Running, NEW i \in Indices, Others(i), crashed' => stale',
           Cardinality(Settled') \in Nat, Cardinality(Settled) <= Cardinality(Settled'),
           \A j \in Indices \ {i} : Closing(j) => Closing(j)',
           \A j \in Indices \ {i} : slot[j].tcp => InFlight(slot[j].id)' = InFlight(slot[j].id),
           Counts(i)'
    PROVE  CountInv'
<1>1. AssertionsHold'
  BY DEF AssertionsHold
<1>2. ASSUME NEW j \in Indices \ {i} PROVE Counts(j)'
  <2>1. Counts(j) /\ slot'[j] = slot[j] /\ slot[j].wb \in Int /\ slot[j] \in Sockets
    BY SocketFields DEF CountInv, Others
  <2>2. DwLeft(slot[j]) \in Nat /\ DwLeft(slot'[j]) = DwLeft(slot[j])
    BY <2>1, BacklogType
  <2>3. Cardinality(Settled) \in Nat
    BY MailSets
  <2>4. slot'[j].wb + DwLeft(slot'[j]) <= 2 * Cardinality(Settled')
    BY <2>1, <2>2, <2>3 DEF Counts
  <2>5. slot'[j].tcp => slot'[j].sending = Cardinality(InFlight(slot[j].id)')
    BY <2>1 DEF Counts
  <2>6. slot'[j].type \notin Dormant /\ ~Closing(j)' => slot'[j].wb = Len(Flat(slot'[j].high \o slot'[j].low))
    BY <2>1 DEF Counts
  <2> QED BY <2>1, <2>4, <2>5, <2>6 DEF Counts
<1> QED BY <1>1, <1>2 DEF CountInv

LEMMA CountSame ==
    ASSUME SocketType, CountInv, Running, UNCHANGED slot, crashed' => stale',
           Cardinality(Settled') \in Nat, Cardinality(Settled) <= Cardinality(Settled'),
           \A j \in Indices : Closing(j) => Closing(j)',
           \A j \in Indices : slot[j].tcp => InFlight(slot[j].id)' = InFlight(slot[j].id)
    PROVE  CountInv'
<1>1. AssertionsHold'
  BY DEF AssertionsHold
<1>2. ASSUME NEW j \in Indices PROVE Counts(j)'
  <2>1. Counts(j) /\ slot'[j] = slot[j] /\ slot[j].wb \in Int /\ slot[j] \in Sockets
    BY SocketFields DEF CountInv
  <2>2. DwLeft(slot[j]) \in Nat /\ DwLeft(slot'[j]) = DwLeft(slot[j])
    BY <2>1, BacklogType
  <2>3. Cardinality(Settled) \in Nat
    BY MailSets
  <2>4. slot'[j].wb + DwLeft(slot'[j]) <= 2 * Cardinality(Settled')
    BY <2>1, <2>2, <2>3 DEF Counts
  <2>5. slot'[j].tcp => slot'[j].sending = Cardinality(InFlight(slot[j].id)')
    BY <2>1 DEF Counts
  <2>6. slot'[j].type \notin Dormant /\ ~Closing(j)' => slot'[j].wb = Len(Flat(slot'[j].high \o slot'[j].low))
    BY <2>1 DEF Counts
  <2> QED BY <2>1, <2>4, <2>5, <2>6 DEF Counts
<1> QED BY <1>1, <1>2 DEF CountInv

(* A step on slot i with the same messages on their way.                   *)
LEMMA CountOne ==
    ASSUME SocketType, CountInv, Running, SameMail, NEW i \in Indices, Others(i), crashed' => stale',
           \A j \in Indices \ {i} : Closing(j) => Closing(j)', Counts(i)'
    PROVE  CountInv'
<1>1. Settled' = Settled /\ \A id : InFlight(id)' = InFlight(id)
  BY SameSets
<1>2. Cardinality(Settled') \in Nat /\ Cardinality(Settled) <= Cardinality(Settled')
  BY <1>1, MailSets
<1>3. \A j \in Indices \ {i} : slot[j].tcp => InFlight(slot[j].id)' = InFlight(slot[j].id)
  BY <1>1 DEF Others
<1> QED BY <1>2, <1>3, CountStep

LEMMA CountNone ==
    ASSUME SocketType, CountInv, Running, SameMail, UNCHANGED slot, crashed' => stale',
           \A j \in Indices : Closing(j) => Closing(j)'
    PROVE  CountInv'
<1>1. Settled' = Settled /\ \A id : InFlight(id)' = InFlight(id)
  BY SameSets
<1>2. Cardinality(Settled') \in Nat /\ Cardinality(Settled) <= Cardinality(Settled')
  BY <1>1, MailSets
<1>3. \A j \in Indices : slot[j].tcp => InFlight(slot[j].id)' = InFlight(slot[j].id)
  BY <1>1
<1> QED BY <1>2, <1>3, CountSame

(* What a step leaves of the counts of a socket whose counters it does not *)
(* touch.                                                                  *)
LEMMA CountKept ==
    ASSUME SocketType, CountInv, Running, SameMail, NEW i \in Indices,
           slot'[i].sending = slot[i].sending, slot'[i].wb = slot[i].wb,
           slot'[i].tcp => slot[i].tcp /\ slot'[i].id = slot[i].id,
           slot'[i].dw \in {None, slot[i].dw}, Whole(slot'[i].low),
           Running' /\ slot'[i].type \notin Dormant /\ ~Closing(i)'
               => /\ slot[i].type \notin Dormant /\ ~Closing(i)
                  /\ slot'[i].high = slot[i].high /\ slot'[i].low = slot[i].low
    PROVE  Counts(i)'
<1>1. Settled' = Settled /\ \A id : InFlight(id)' = InFlight(id)
  BY SameSets
<1>2. Counts(i) /\ slot[i].wb \in Int /\ slot[i] \in Sockets
  BY SocketFields DEF CountInv
<1>3. Cardinality(Settled) \in Nat /\ DwLeft(slot[i]) \in Nat
  BY <1>2, MailSets, BacklogType
<1>4. DwLeft(slot'[i]) \in {0, DwLeft(slot[i])}
  BY DEF DwLeft
<1>5. slot'[i].wb + DwLeft(slot'[i]) <= 2 * Cardinality(Settled')
  BY <1>1, <1>2, <1>3, <1>4 DEF Counts
<1>6. slot'[i].tcp => slot'[i].sending = Cardinality(InFlight(slot[i].id)')
  <2> SUFFICES ASSUME slot'[i].tcp PROVE slot'[i].sending = Cardinality(InFlight(slot[i].id)')
    OBVIOUS
  <2>1. slot[i].tcp /\ slot'[i].id = slot[i].id
    OBVIOUS
  <2>2. InFlight(slot[i].id)' = InFlight(slot[i].id)
    BY <1>1, <2>1
  <2> QED BY <1>2, <2>1, <2>2 DEF Counts
<1>7. Running' /\ slot'[i].type \notin Dormant /\ ~Closing(i)' => slot'[i].wb = Len(Flat(slot'[i].high \o slot'[i].low))
  BY <1>2 DEF Counts
<1> QED BY <1>2, <1>5, <1>6, <1>7 DEF Counts

LEMMA CountMode ==
    ASSUME SocketType, CountInv, Running, SameMail, fc' = fc, NEW i \in Indices,
           NEW t, NEW c, NEW w, ModeStep(i, t, c, w), crashed' => stale',
           Running' /\ t \notin Dormant => slot[i].type \notin Dormant
    PROVE  CountInv'
<1>1. /\ Others(i) /\ slot'[i].type = t /\ slot'[i].id = slot[i].id /\ slot'[i].tcp = slot[i].tcp
      /\ slot'[i].sending = slot[i].sending /\ slot'[i].wb = slot[i].wb
      /\ slot'[i].high = slot[i].high /\ slot'[i].low = slot[i].low /\ slot'[i].dw = slot[i].dw
  BY DEF ModeStep, Calm
<1>2. \A j \in Indices : Closing(j)' <=> Closing(j)
  BY DEF Closing
<1>3. Whole(slot'[i].low)
  BY <1>1 DEF CountInv, Counts
<1>4. Counts(i)'
  BY <1>1, <1>2, <1>3, CountKept
<1> QED BY <1>1, <1>2, <1>4, CountOne

LEMMA CountForced ==
    ASSUME SocketType, CountInv, Running, SameMail, fc = None, NEW i \in Indices, NEW kind, Closable(i, kind),
           NEW ctrl \in BOOLEAN, ForceClose(i, kind, ctrl), slot[i].type = "RESERVE" => stale'
    PROVE  CountInv'
<1>1. /\ Others(i) /\ fc' \in Closings /\ fc'.i = i /\ crashed' = (slot[i].type = "RESERVE")
      /\ slot'[i].id = slot[i].id /\ slot'[i].tcp = slot[i].tcp
      /\ slot'[i].sending = slot[i].sending /\ slot'[i].wb = slot[i].wb
      /\ slot'[i].low = <<>> /\ slot'[i].dw = slot[i].dw
  BY ForceCloseFacts, Zenon
<1>2. Closing(i)' /\ \A j \in Indices \ {i} : Closing(j) => Closing(j)'
  BY <1>1, NoneAssumption DEF Closing
<1>3. Whole(slot'[i].low)
  BY <1>1 DEF Whole
<1>4. Counts(i)'
  BY <1>1, <1>2, <1>3, CountKept
<1> QED BY <1>1, <1>2, <1>4, CountOne

(* A socket that comes up has nothing on its way.                          *)
Blank(i, id) ==
    /\ i \in Indices /\ Others(i) /\ slot'[i].id = id /\ slot'[i].sending = 0 /\ slot'[i].wb = 0
    /\ slot'[i].high = <<>> /\ slot'[i].low = <<>> /\ slot'[i].dw = None

LEMMA OpenedBlank ==
    ASSUME SocketType, NEW id \in Ids, NEW type \in Types,
           NEW reading \in BOOLEAN, NEW writing \in BOOLEAN, Opened(id, type, reading, writing)
    PROVE  Blank(HASH_ID(id), id)
<1> SUFFICES ASSUME NEW i, i = HASH_ID(id) PROVE Blank(i, id)
  OBVIOUS
<1>1. i \in Indices /\ Others(i) /\ NewSocket(slot'[i], id, type, writing)
  BY OpenedSocket
<1> QED BY <1>1 DEF Blank, NewSocket

LEMMA CountOpened ==
    ASSUME SocketType, CountInv, MailInv, Running, SameMail, fc' = fc, NEW id \in Ids, id \notin opened,
           Blank(HASH_ID(id), id), crashed' => stale'
    PROVE  CountInv'
<1> SUFFICES ASSUME NEW i, i = HASH_ID(id) PROVE CountInv'
  OBVIOUS
<1>1. /\ i \in Indices /\ Others(i) /\ slot'[i].id = id /\ slot'[i].sending = 0 /\ slot'[i].wb = 0
      /\ slot'[i].high = <<>> /\ slot'[i].low = <<>> /\ slot'[i].dw = None
  BY DEF Blank
<1>2. Settled' = Settled /\ InFlight(id)' = InFlight(id)
  BY SameSets
<1>3. InFlight(id) = {}
  BY DEF InFlight, MailInv, Numbered
<1>4. Cardinality(InFlight(slot[i].id)') = 0
  BY <1>1, <1>2, <1>3, FS_EmptySet
<1>5. Cardinality(Settled') \in Nat
  BY <1>2, MailSets
<1>6. Whole(slot'[i].low) /\ DwLeft(slot'[i]) = 0
  BY <1>1 DEF Whole, DwLeft
<1>7. Len(Flat(slot'[i].high \o slot'[i].low)) = 0
  <2>1. slot'[i].high \o slot'[i].low = <<>>
    BY <1>1
  <2> QED BY <2>1, FlatEmpty
<1>8. Counts(i)'
  BY <1>1, <1>4, <1>5, <1>6, <1>7, SocketAssumption DEF Counts
<1>9. \A j \in Indices : Closing(j) => Closing(j)'
  BY DEF Closing
<1> QED BY <1>1, <1>8, <1>9, CountOne

(* The commands and the events, but those that carry messages.             *)
LEMMA CountCommands ==
    ASSUME SocketType, LifeInv, CountInv, close_socket \/ resume_socket \/ pause_socket \/ trigger_write
    PROVE  CountInv'
<1> SUFFICES ASSUME NEW i, i = HASH_ID(Cmd.id) PROVE CountInv'
  OBVIOUS
<1> DEFINE t == slot[i].type
<1>1. Served /\ Commanded /\ Running /\ cl' = cl /\ sent' = sent
  BY ServerFrames DEF Served
<1>2. Stale /\ ~socket_invalid(i, Cmd.id) /\ Cmd.cmd \in {"K", "shutdown", "R", "S", "W"}
  BY CloseSocketEffect, ResumeEffect, ToggleEffect DEF pause_socket, trigger_write, Valid, Ctrl
<1>3. SameMail
  BY <1>1, <1>2, SameMailThread DEF Packages
<1>4. i \in Indices /\ fc = None /\ slot[i].id = Cmd.id /\ (Running' => t \notin Dormant)
  BY <1>1, <1>2, ValidCommand
<1>5. t = "RESERVE" => stale'
  BY <1>2, <1>4 DEF Stale
<1>6. ASSUME NEW n, NEW c, NEW w, ModeStep(i, n, c, w), UNCHANGED <<fc, crashed>> PROVE CountInv'
  <2>1. ~crashed'
    BY <1>1, <1>6 DEF Running
  <2> QED BY <1>1, <1>3, <1>4, <1>6, <2>1, CountMode
<1>7. CASE close_socket
  <2>1. ASSUME NEW kind, Closable(i, kind), ForceClose(i, kind, TRUE) PROVE CountInv'
    BY <1>1, <1>3, <1>4, <1>5, <2>1, CountForced
  <2> QED BY <1>6, <1>7, <2>1, CloseSocketEffect
<1>8. CASE resume_socket
  <2>1. UNCHANGED <<fc, crashed>>
    BY <1>8, ServerFrames
  <2>2. CASE UNCHANGED slot
    <3>1. ~crashed' /\ \A j \in Indices : Closing(j) => Closing(j)'
      BY <1>1, <2>1 DEF Running, Closing
    <3> QED BY <1>1, <1>3, <2>2, <3>1, CountNone
  <2> QED BY <1>6, <1>8, <2>1, <2>2, ResumeEffect
<1>9. CASE pause_socket \/ trigger_write
  BY <1>6, <1>9, ServerFrames, ToggleEffect
<1> QED BY <1>7, <1>8, <1>9

LEMMA CountOpening ==
    ASSUME SocketType, LifeInv, MailInv, CountInv, open_socket
    PROVE  CountInv'
<1> SUFFICES ASSUME NEW i, NEW id, id = Cmd.id, i = HASH_ID(id) PROVE CountInv'
  OBVIOUS
<1>1. Served /\ Commanded /\ Running /\ cl' = cl /\ sent' = sent /\ fc' = fc
  BY ServerFrames DEF Served
<1>2. id = pipe[1].id /\ 1 \in DOMAIN pipe /\ id \in Ids /\ i \in Indices /\ pipe[1].cmd \in Opening
      /\ Cmd.cmd \in {"O", "L"}
  BY <1>1, CommandedFacts, OpenSocketEffect DEF Opening
<1>3. SameMail
  BY <1>1, <1>2, SameMailThread DEF Packages
<1>4. Life(i) /\ slot[i].type = "RESERVE" /\ id \notin opened
  BY <1>1, <1>2 DEF LifeInv, Lives, Booked, Opens
<1>5. CanOpen(id)
  BY <1>4 DEF CanOpen, send_buffer_empty, Life, Dormant
<1>6. ASSUME NEW type \in {"CONNECTED", "CONNECTING", "PLISTEN"},
             Opened(id, type, type # "PLISTEN", type = "CONNECTING"), crashed' = ~CanOpen(id)
      PROVE CountInv'
  <2>1. type \in Types /\ (type # "PLISTEN") \in BOOLEAN /\ (type = "CONNECTING") \in BOOLEAN
    BY DEF Types
  <2>2. Blank(HASH_ID(id), id)
    BY <1>2, <1>6, <2>1, OpenedBlank
  <2> QED BY <1>1, <1>2, <1>3, <1>4, <1>5, <1>6, <2>2, CountOpened
<1>7. CASE /\ ModeStep(i, "INVALID", slot[i].closing, slot[i].writing)
           /\ crashed' = (Cmd.cmd # "O" /\ slot[i].type # "RESERVE")
  <2>1. "INVALID" \in Dormant /\ ~crashed'
    BY <1>4, <1>7 DEF Dormant
  <2> QED BY <1>1, <1>2, <1>3, <1>7, <2>1, CountMode
<1> QED BY <1>6, <1>7, OpenSocketEffect

LEMMA CountRest ==
    ASSUME SocketType, CountInv,
           \/ Ignored \/ NoMoreCommands \/ Wait
           \/ ReadAgain \/ ReadError \/ ReadData \/ WriteBlocked \/ InvalidEvent \/ StaleEvent
    PROVE  CountInv'
<1>1. Running /\ cl' = cl /\ sent' = sent /\ UNCHANGED <<slot, fc>> /\ (crashed' => stale')
  <2>1. CASE Ignored \/ NoMoreCommands \/ Wait
    BY <2>1, ServerFrames DEF Served, Running
  <2>2. CASE ReadAgain \/ ReadError \/ ReadData \/ WriteBlocked \/ InvalidEvent \/ StaleEvent
    <3>1. Served
      BY <2>2, EventFrames
    <3>2. UNCHANGED <<slot, fc>>
      BY <2>2, CalmEvents
    <3>3. CASE StaleEvent
      BY <3>1, <3>2, <3>3, CalmEvents DEF Served
    <3>4. CASE ~StaleEvent
      <4>1. crashed' = crashed
        BY <2>2, <3>4, CalmEvents
      <4> QED BY <3>1, <3>2, <4>1 DEF Served, Running
    <3> QED BY <3>3, <3>4
  <2> QED BY <2>1, <2>2
<1>2. pipe' = pipe \/ (Commanded /\ Cmd.cmd \notin Packages)
  <2>1. CASE Ignored
    BY <2>1, ServerFrames DEF Ignored, Ctrl, Packages
  <2>2. CASE ~Ignored
    BY <2>2, ServerFrames, EventFrames DEF Served, Signalled
  <2> QED BY <2>1, <2>2
<1>3. SameMail /\ \A j \in Indices : Closing(j) => Closing(j)'
  BY <1>1, <1>2, SameMailThread DEF Closing
<1> QED BY <1>1, <1>3, CountNone

LEMMA CountFinish ==
    ASSUME SocketType, LifeInv, CountInv, FinishClose
    PROVE  CountInv'
<1> SUFFICES ASSUME NEW i, i = fc.i PROVE CountInv'
  OBVIOUS
<1>1. Running /\ cl' = cl /\ sent' = sent /\ pipe' = pipe /\ ~crashed'
  BY DEF FinishClose, callVars, Running
<1>2. /\ i \in Indices /\ fc' = None /\ Others(i)
      /\ slot'[i].id = slot[i].id /\ slot'[i].tcp = slot[i].tcp
      /\ slot'[i].sending = slot[i].sending /\ slot'[i].wb = slot[i].wb
      /\ slot'[i].low = slot[i].low /\ slot'[i].dw = None /\ slot'[i].type = "INVALID"
  BY FinishCloseEffect
<1>3. SameMail
  BY <1>1, SameMailThread
<1>4. Whole(slot'[i].low) /\ slot'[i].type \in Dormant
  BY <1>2 DEF CountInv, Counts, Dormant
<1>5. Counts(i)'
  BY <1>1, <1>2, <1>3, <1>4, CountKept
<1>6. \A j \in Indices \ {i} : Closing(j) => Closing(j)'
  BY DEF Closing
<1> QED BY <1>1, <1>2, <1>3, <1>5, <1>6, CountOne

LEMMA CountAccept ==
    ASSUME SocketType, LifeInv, MailInv, CountInv, report_accept
    PROVE  CountInv'
<1> SUFFICES ASSUME NEW id, NEW i, id = allocId', i = HASH_ID(id) PROVE CountInv'
  OBVIOUS
<1>1. Running /\ cl' = cl /\ sent' = sent /\ pipe' = pipe /\ UNCHANGED fc
  BY EventFrames DEF Served, Signalled
<1>2. SameMail /\ \A j \in Indices : Closing(j) => Closing(j)'
  BY <1>1, SameMailThread DEF Closing
<1>3. CASE UNCHANGED <<slot, crashed>>
  BY <1>1, <1>2, <1>3, CountNone DEF Running
<1>4. CASE id \in Ids /\ slot[i].type = "INVALID" /\ slot' = Claimed(slot, id) /\ UNCHANGED crashed
  <2>1. /\ i \in Indices /\ Others(i) /\ slot'[i].tcp = FALSE /\ slot'[i].type = slot[i].type
        /\ slot'[i].sending = slot[i].sending /\ slot'[i].wb = slot[i].wb
        /\ slot'[i].low = slot[i].low /\ slot'[i].dw = slot[i].dw
    BY <1>4, ClaimedEffect
  <2>2. Whole(slot'[i].low) /\ slot'[i].type \in Dormant
    BY <1>4, <2>1 DEF CountInv, Counts, Dormant
  <2>3. Counts(i)'
    BY <1>1, <1>2, <2>1, <2>2, CountKept
  <2> QED BY <1>1, <1>2, <1>4, <2>1, <2>3, CountOne DEF Running
<1>5. CASE /\ id \in Ids /\ id > allocId /\ slot[i].type = "INVALID" /\ Opened(id, "PACCEPT", FALSE, FALSE)
           /\ crashed' = ~send_buffer_empty(i)
  <2>1. "PACCEPT" \in Types /\ FALSE \in BOOLEAN
    BY DEF Types
  <2>2. Blank(HASH_ID(id), id)
    BY <1>5, <2>1, OpenedBlank
  <2>3. i \in Indices /\ Life(i)
    BY <1>1, <1>5, IdFacts DEF LifeInv, Lives
  <2>4. ~crashed'
    BY <1>5, <2>3 DEF Life, Dormant, send_buffer_empty
  <2>5. id \notin opened
    <3>1. id \in Nat /\ allocId \in Nat
      BY <1>5, IdFacts, SocketAssumption DEF SocketType
    <3> QED BY <1>5, <3>1 DEF LifeInv, Known
  <2> QED BY <1>1, <1>2, <1>5, <2>2, <2>4, <2>5, CountOpened
<1> QED BY <1>3, <1>4, <1>5, AcceptEffect

(* What send_buffer writes leaves the count, and an empty list a count of  *)
(* nothing.                                                                *)
LEMMA FlushedBytes ==
    ASSUME NEW s \in Sockets, NEW t, NEW out, Flushed(s, t, out), s.wb = Len(Flat(s.high \o s.low))
    PROVE  /\ t.wb = Len(Flat(t.high \o t.low)) /\ t.wb \in Nat /\ t.wb <= s.wb + DwLeft(s)
           /\ t.high = <<>> /\ t.low = <<>> => t.wb = 0
<1> DEFINE q == s.high \o s.low
           r == t.high \o t.low
<1>1. /\ DwSeq(s) \in Seq(Buffers) /\ s.high \in Seq(Buffers) /\ s.low \in Seq(Buffers)
      /\ DwLeft(s) \in Nat /\ Len(Flat(DwSeq(s))) = DwLeft(s)
  BY BacklogType
<1>2. q \in Seq(Buffers) /\ Backlog(s) = DwSeq(s) \o q
  <2>1. (DwSeq(s) \o s.high) \o s.low = DwSeq(s) \o (s.high \o s.low)
    <3> SUFFICES ASSUME NEW d \in Seq(Buffers), NEW h \in Seq(Buffers), NEW l \in Seq(Buffers)
                 PROVE  (d \o h) \o l = d \o (h \o l)
      BY <1>1
    <3> QED BY ONLY ConcatAssociative, d \in Seq(Buffers), h \in Seq(Buffers), l \in Seq(Buffers)
  <2>2. q \in Seq(Buffers)
    BY <1>1
  <2> QED BY <2>1, <2>2 DEF Backlog
<1>3. t.high \in Seq(Buffers) /\ t.low \in Seq(Buffers) /\ out \in Seq(Pieces)
  BY DEF Flushed, Sockets
<1>4. r \in Seq(Buffers)
  BY <1>3
<1> HIDE DEF q, r
<1>5. Flat(Backlog(s)) = Flat(DwSeq(s)) \o Flat(q)
  BY <1>1, <1>2, FlatConcat
<1>6. Flat(Backlog(s)) = out \o Flat(r) /\ t.wb = s.wb + DwLeft(s) - Len(out)
  BY DEF Flushed, r
<1>7. Flat(q) \in Seq(Pieces) /\ Flat(r) \in Seq(Pieces) /\ Flat(DwSeq(s)) \in Seq(Pieces)
  BY <1>1, <1>2, <1>4, FlatType
<1>8. /\ Len(Flat(Backlog(s))) = DwLeft(s) + Len(Flat(q)) /\ Len(Flat(Backlog(s))) = Len(out) + Len(Flat(r))
      /\ Len(Flat(q)) \in Nat /\ Len(Flat(r)) \in Nat /\ Len(out) \in Nat
  <2>1. Len(Flat(DwSeq(s)) \o Flat(q)) = Len(Flat(DwSeq(s))) + Len(Flat(q))
    BY <1>7
  <2>2. Len(out \o Flat(r)) = Len(out) + Len(Flat(r))
    BY <1>3, <1>7
  <2>3. Len(Flat(q)) \in Nat /\ Len(Flat(r)) \in Nat /\ Len(out) \in Nat
    BY <1>3, <1>7
  <2> QED BY ONLY <1>1, <1>5, <1>6, <2>1, <2>2, <2>3
<1>9. s.wb = Len(Flat(q))
  BY DEF q
<1>10. t.wb = Len(Flat(r)) /\ t.wb \in Nat /\ t.wb <= s.wb + DwLeft(s)
  <2>1. \A a, b, c, d \in Nat : \A w : d + a = c + b /\ w = a + d - c => w = b /\ w \in Nat /\ w <= a + d
    OBVIOUS
  <2>2. DwLeft(s) + Len(Flat(q)) = Len(out) + Len(Flat(r)) /\ t.wb = Len(Flat(q)) + DwLeft(s) - Len(out)
    BY <1>6, <1>8, <1>9
  <2> QED BY ONLY SMTT(30), <1>1, <1>8, <1>9, <2>1, <2>2
<1>11. t.high = <<>> /\ t.low = <<>> => Len(Flat(r)) = 0
  <2> SUFFICES ASSUME t.high = <<>>, t.low = <<>> PROVE Len(Flat(r)) = 0
    OBVIOUS
  <2>1. r = <<>>
    BY DEF r
  <2> QED BY <2>1, FlatEmpty
<1> QED BY <1>10, <1>11 DEF r

LEMMA CountEvents ==
    ASSUME SocketType, LifeInv, CountInv, report_connect \/ ReadEnd \/ Eof \/ send_buffer
    PROVE  CountInv'
<1> SUFFICES ASSUME NEW i, i = E.i PROVE CountInv'
  OBVIOUS
<1> DEFINE t == slot[i].type
<1>1. Running /\ cl' = cl /\ sent' = sent /\ pipe' = pipe /\ fc = None
  BY EventFrames DEF Served, Signalled
<1>2. i \in Indices /\ t \notin Dormant
  BY ConnectEffect, ReadEndEffect, EofEffect, SendBufferEffect DEF Streams, Connections, Dormant
<1>3. SameMail
  BY <1>1, SameMailThread
<1>4. t # "RESERVE"
  BY <1>2 DEF Dormant
<1>5. ASSUME NEW kind, Closable(i, kind), ForceClose(i, kind, FALSE) PROVE CountInv'
  BY <1>1, <1>2, <1>3, <1>4, <1>5, CountForced
<1>6. ASSUME NEW n, NEW c, NEW w, ModeStep(i, n, c, w), UNCHANGED <<fc, crashed>> PROVE CountInv'
  <2>1. ~crashed'
    BY <1>1, <1>6 DEF Running
  <2> QED BY <1>1, <1>2, <1>3, <1>6, <2>1, CountMode
<1>7. CASE report_connect
  <2>1. CASE ForceClose(i, "ERR", FALSE)
    BY <1>5, <2>1 DEF Closable
  <2> QED BY <1>6, <1>7, <2>1, ConnectEffect
<1>8. CASE ReadEnd
  <2>1. CASE UNCHANGED <<slot, fc, crashed>>
    <3>1. ~crashed' /\ \A j \in Indices : Closing(j) => Closing(j)'
      BY <1>1, <2>1 DEF Running, Closing
    <3> QED BY <1>1, <1>3, <2>1, <3>1, CountNone
  <2> QED BY <1>5, <1>6, <1>8, <2>1, ReadEndEffect
<1>9. CASE Eof
  BY <1>5, <1>9, EofEffect
<1>10. CASE send_buffer
  <2>1. PICK out, u, v : Flushes(i, out, u, v)
    BY <1>10, SendBufferEffect
  <2>2. UNCHANGED fc
    BY <1>10, EventFrames
  <2>3. /\ Others(i) /\ v = slot'[i] /\ Flushed(slot[i], u, out) /\ v.id = slot[i].id /\ v.tcp = slot[i].tcp
        /\ v.sending = slot[i].sending /\ v.wb = u.wb /\ u.dw = None /\ u.type = t
        /\ (Whole(slot[i].low) => Whole(u.low))
    BY <2>1 DEF Flushes, Flushed, Same
  <2>4. Frees(u, v) \/ Shuts(u, v) \/ Empties(u, v) \/ Keeps(u, v)
    BY <2>1 DEF Flushes
  <2>5. Counts(i) /\ slot[i] \in Sockets /\ ~Closing(i)
    BY <1>1, <1>2, SocketFields DEF CountInv, Closing
  <2>6. slot[i].wb = Len(Flat(slot[i].high \o slot[i].low)) /\ Whole(slot[i].low)
    BY <1>1, <1>2, <2>5 DEF Counts
  <2>7. /\ u.wb = Len(Flat(u.high \o u.low)) /\ u.wb \in Nat /\ u.wb <= slot[i].wb + DwLeft(slot[i])
        /\ u.high = <<>> /\ u.low = <<>> => u.wb = 0
    BY <2>3, <2>5, <2>6, FlushedBytes
  <2>8. ~crashed'
    BY <2>1, <2>6, <2>7 DEF Flushes
  <2>9. v.dw = None /\ Whole(v.low) /\ (v.type \notin Dormant => v.high = u.high /\ v.low = u.low)
    <3>1. CASE Frees(u, v)
      BY <3>1 DEF Frees, Dormant, Whole
    <3>2. CASE Shuts(u, v) \/ Empties(u, v) \/ Keeps(u, v)
      BY <2>3, <2>6, <3>2 DEF Shuts, Empties, Keeps
    <3> QED BY <2>4, <3>1, <3>2
  <2>10. Settled' = Settled /\ Cardinality(Settled) \in Nat /\ \A id : InFlight(id)' = InFlight(id)
    BY <1>3, SameSets, MailSets
  <2>11. DwLeft(v) = 0 /\ DwLeft(slot[i]) \in Nat /\ slot[i].wb \in Int
    BY <1>2, <2>5, <2>9, BacklogType, SocketFields DEF DwLeft
  <2>12. v.wb >= 0 /\ v.wb + DwLeft(v) <= 2 * Cardinality(Settled')
    <3>1. slot[i].wb + DwLeft(slot[i]) <= 2 * Cardinality(Settled)
      BY <2>5 DEF Counts
    <3> QED BY <2>3, <2>7, <2>10, <2>11, <3>1
  <2>13. v.tcp => v.sending = Cardinality(InFlight(slot[i].id)')
    <3>1. InFlight(slot[i].id)' = InFlight(slot[i].id)
      BY <2>3, <2>10
    <3> QED BY <1>1, <2>3, <2>5, <3>1 DEF Counts
  <2>14. v.sending \in 0 .. MaxSends /\ (v.type \notin Dormant => v.wb = Len(Flat(v.high \o v.low)))
    BY <2>3, <2>5, <2>7, <2>9 DEF Counts
  <2>15. Counts(i)'
    BY <2>3, <2>9, <2>12, <2>13, <2>14 DEF Counts
  <2>16. \A j \in Indices \ {i} : Closing(j) => Closing(j)'
    BY <2>2 DEF Closing
  <2> QED BY <1>1, <1>2, <1>3, <2>3, <2>8, <2>15, <2>16, CountOne
<1> QED BY <1>7, <1>8, <1>9, <1>10

(* The messages that reach the socket thread.                              *)
LEMMA AppendBytes ==
    ASSUME NEW h \in Seq(Buffers), NEW l \in Seq(Buffers), NEW b \in Buffers, b.left = 2
    PROVE  /\ Len(Flat(Append(h, b) \o l)) = Len(Flat(h \o l)) + 2
           /\ Len(Flat(h \o Append(l, b))) = Len(Flat(h \o l)) + 2
<1> DEFINE one == <<b>>
<1>1. one \in Seq(Buffers) /\ Append(h, b) = h \o one /\ Append(l, b) = l \o one
  OBVIOUS
<1>2. Len(Flat(one)) = 2
  BY FlatOne, BufferFacts
<1> HIDE DEF one
<1>3. /\ Flat(h \o one) = Flat(h) \o Flat(one) /\ Flat(l \o one) = Flat(l) \o Flat(one)
      /\ Flat(h \o l) = Flat(h) \o Flat(l)
  BY <1>1, FlatConcat
<1>4. /\ Flat((h \o one) \o l) = Flat(h \o one) \o Flat(l)
      /\ Flat(h \o (l \o one)) = Flat(h) \o Flat(l \o one)
  <2>1. h \o one \in Seq(Buffers) /\ l \o one \in Seq(Buffers)
    BY <1>1
  <2> QED BY <2>1, FlatConcat
<1>5. Flat(h) \in Seq(Pieces) /\ Flat(l) \in Seq(Pieces) /\ Flat(one) \in Seq(Pieces)
  BY <1>1, FlatType
<1>6. ASSUME NEW p \in Seq(Pieces), NEW q \in Seq(Pieces), NEW o \in Seq(Pieces), Len(o) = 2
      PROVE Len((p \o o) \o q) = Len(p \o q) + 2 /\ Len(p \o (q \o o)) = Len(p \o q) + 2
  <2>0. \A x, y \in Seq(Pieces) : Len(x \o y) = Len(x) + Len(y) /\ x \o y \in Seq(Pieces)
    OBVIOUS
  <2>1. p \o o \in Seq(Pieces) /\ q \o o \in Seq(Pieces) /\ Len(p) \in Nat /\ Len(q) \in Nat
    BY <1>6
  <2>2. Len(p \o o) = Len(p) + 2 /\ Len(q \o o) = Len(q) + 2 /\ Len(p \o q) = Len(p) + Len(q)
    <3>1. Len(p \o o) = Len(p) + Len(o)
      BY <2>0
    <3>2. Len(q \o o) = Len(q) + Len(o)
      BY <2>0
    <3>3. Len(p \o q) = Len(p) + Len(q)
      BY <2>0
    <3> QED BY ONLY <3>1, <3>2, <3>3, Len(o) = 2
  <2>3. Len((p \o o) \o q) = Len(p \o o) + Len(q) /\ Len(p \o (q \o o)) = Len(p) + Len(q \o o)
    BY ONLY <2>0, <2>1, p \in Seq(Pieces), q \in Seq(Pieces)
  <2> QED BY ONLY <2>1, <2>2, <2>3
<1> QED BY <1>1, <1>2, <1>3, <1>4, <1>5, <1>6

LEMMA CountPackage ==
    ASSUME SocketType, LifeInv, MailInv, CountInv, SendPackage
    PROVE  CountInv'
<1> SUFFICES ASSUME NEW i, NEW m, i = HASH_ID(Cmd.id), m = Cmd.m PROVE CountInv'
  OBVIOUS
<1> SUFFICES ASSUME NEW n, n = IF Counted(i, Cmd.id) THEN slot[i].sending - 1 ELSE slot[i].sending
             PROVE  CountInv'
  OBVIOUS
<1>1. Served /\ Commanded /\ fc' = fc /\ fc = None /\ Running /\ cl' = cl /\ sent' = sent
  BY ServerFrames DEF Served, Commanded
<1>2. /\ m \in Messages /\ Cmd.cmd \in Packages /\ Cmd.id \in Ids /\ i \in Indices /\ n \in Int
      /\ IF Refuses(i, m.to) THEN Dropped(i, n) ELSE Appended(i, m, n)
  BY SendPackageEffect
<1>3. m.to = Cmd.id
  <2>1. 1 \in DOMAIN pipe /\ Cmd = pipe[1]
    BY <1>1, CommandedFacts
  <2> QED BY <1>2, <2>1 DEF LifeInv, Known, Addressed
<1>4. SocketType'
  BY CommandType
<1>5. /\ m \in sent /\ OnWay(m) /\ Pushed(m) /\ ~OnWay(m)' /\ ~Pushed(m)'
      /\ \A o : o # m => (OnWay(o)' <=> OnWay(o)) /\ (Pushed(o)' <=> Pushed(o))
  BY <1>1, <1>2, PackageMail
<1>6. Cardinality(Settled) \in Nat /\ Cardinality(Settled') \in Nat /\ Cardinality(Settled) + 1 <= Cardinality(Settled')
  <2>1. Cardinality(Settled) + 1 <= Cardinality(Settled')
    BY <1>1, <1>4, <1>5, SettledMore
  <2>2. IsFiniteSet(sent') /\ Settled' \subseteq sent'
    BY <1>4 DEF SocketType, Settled
  <2>3. Cardinality(Settled') \in Nat
    BY <2>2, FS_Subset, FS_CardinalityType
  <2> QED BY <2>1, <2>3, MailSets
<1>7. /\ \A id : id # m.to => InFlight(id)' = InFlight(id)
      /\ InFlight(m.to)' = InFlight(m.to) \ {m} /\ m \in InFlight(m.to)
  BY <1>1, <1>5 DEF InFlight
<1>8. /\ Cardinality(InFlight(m.to)) \in Nat /\ Cardinality(InFlight(m.to)) >= 1
      /\ Cardinality(InFlight(m.to)') = Cardinality(InFlight(m.to)) - 1
  <2>1. IsFiniteSet(InFlight(m.to)) /\ Cardinality(InFlight(m.to)) \in Nat
    BY MailSets
  <2>2. Cardinality(InFlight(m.to) \ {m}) = Cardinality(InFlight(m.to)) - 1
    BY <1>7, <2>1, FS_RemoveElement
  <2>3. Cardinality(InFlight(m.to) \ {m}) \in Nat
    BY <2>1, FS_RemoveElement, FS_CardinalityType
  <2> QED BY <1>7, <2>1, <2>2, <2>3
<1>9. Counts(i) /\ Life(i) /\ slot[i].sending \in 0 .. MaxSends /\ slot[i] \in Sockets /\ slot[i].wb \in Int
  BY <1>1, <1>2, SocketFields DEF CountInv, Counts, LifeInv, Lives
<1>10. Counted(i, Cmd.id) => slot[i].sending = Cardinality(InFlight(m.to)) /\ slot[i].sending >= 1
  BY <1>1, <1>3, <1>8, <1>9 DEF Counted, Counts
<1>11. n \in 0 .. MaxSends /\ ~crashed'
  <2>1. ~crashed'
    <3>1. crashed' => Counted(i, Cmd.id) /\ slot[i].sending = 0
      BY DEF SendPackage
    <3>2. ~(Counted(i, Cmd.id) /\ slot[i].sending = 0)
      BY <1>10
    <3> QED BY <3>1, <3>2
  <2> QED BY <1>2, <1>9, <1>10, <2>1, SocketAssumption
<1>12. \A j \in Indices \ {i} : slot[j].tcp => slot[j].id # m.to
  BY <1>1, <1>3 DEF LifeInv, Lives, Life
<1>13. Others(i) /\ slot'[i].id = slot[i].id /\ slot'[i].tcp = slot[i].tcp /\ slot'[i].sending = n
       /\ slot'[i].dw = slot[i].dw /\ slot'[i].type = slot[i].type
  <2>1. CASE Refuses(i, m.to)
    BY <1>2, <2>1, TallyFields DEF Dropped, Tally
  <2>2. CASE ~Refuses(i, m.to)
    <3>1. Appended(i, m, n) /\ Others(i)
      BY <1>2, <2>2 DEF Appended
    <3> QED BY ZenonT(30), <1>2, <3>1, AppendedFields
  <2> QED BY <2>1, <2>2
<1>14. \A j \in Indices \ {i} : slot[j].tcp => InFlight(slot[j].id)' = InFlight(slot[j].id)
  BY <1>7, <1>12, <1>13 DEF Others
<1>15. slot[i].tcp => n = Cardinality(InFlight(slot[i].id)')
  <2>1. CASE slot[i].id = m.to
    BY <1>3, <1>7, <1>8, <1>10, <1>13, <2>1 DEF Counted
  <2>2. CASE slot[i].id # m.to
    <3>1. InFlight(slot[i].id)' = InFlight(slot[i].id)
      BY <1>7, <1>13, <2>2
    <3> QED BY <1>1, <1>3, <1>9, <2>2, <3>1 DEF Counted, Counts
  <2> QED BY <2>1, <2>2
<1>16. DwLeft(slot'[i]) = DwLeft(slot[i]) /\ DwLeft(slot[i]) \in Nat
  BY <1>9, <1>13, BacklogType DEF DwLeft
<1>17. /\ slot'[i].wb >= 0 /\ slot'[i].wb <= slot[i].wb + 2 /\ slot'[i].wb \in Int /\ Whole(slot'[i].low)
       /\ slot[i].wb = Len(Flat(slot[i].high \o slot[i].low))
             => slot'[i].wb = Len(Flat(slot'[i].high \o slot'[i].low))
  <2>0. slot[i].wb >= 0 /\ Whole(slot[i].low) /\ slot[i].high \in Seq(Buffers) /\ slot[i].low \in Seq(Buffers)
    BY <1>2, <1>9, SocketFields DEF Counts
  <2>1. CASE Refuses(i, m.to)
    <3>1. slot'[i].wb = slot[i].wb /\ slot'[i].high = slot[i].high /\ slot'[i].low = slot[i].low
      BY <1>2, <2>1, TallyFields DEF Dropped
    <3> QED BY <1>9, <2>0, <3>1
  <2>2. CASE ~Refuses(i, m.to)
    <3> DEFINE b == [m |-> m, left |-> 2]
               low == m.low /\ ~send_buffer_empty(i)
    <3>1. b \in Buffers /\ b.left = 2
      BY <1>2 DEF Buffers
    <3>2. /\ slot'[i].wb = slot[i].wb + 2
          /\ slot'[i].high = IF low THEN slot[i].high ELSE Append(slot[i].high, b)
          /\ slot'[i].low = IF low THEN Append(slot[i].low, b) ELSE slot[i].low
      BY <1>2, <2>2, AppendedFields
    <3> HIDE DEF b, low
    <3>3. Len(Flat(slot'[i].high \o slot'[i].low)) = Len(Flat(slot[i].high \o slot[i].low)) + 2
      <4>1. CASE low
        BY <2>0, <3>1, <3>2, <4>1, AppendBytes
      <4>2. CASE ~low
        BY <2>0, <3>1, <3>2, <4>2, AppendBytes
      <4> QED BY <4>1, <4>2
    <3>4. Whole(slot'[i].low)
      <4>1. CASE low
        <5>1. slot'[i].low = Append(slot[i].low, b)
          BY <3>2, <4>1
        <5>2. \A j \in DOMAIN Append(slot[i].low, b) : Append(slot[i].low, b)[j].left = 2
          BY <2>0, <3>1 DEF Whole
        <5> QED BY <5>1, <5>2 DEF Whole
      <4>2. CASE ~low
        BY <2>0, <3>2, <4>2
      <4> QED BY <4>1, <4>2
    <3>5. slot'[i].wb >= 0 /\ slot'[i].wb <= slot[i].wb + 2 /\ slot'[i].wb \in Int
      BY <1>9, <2>0, <3>2
    <3> QED BY <3>2, <3>3, <3>4, <3>5
  <2> QED BY <2>1, <2>2
<1>18. slot'[i].wb + DwLeft(slot'[i]) <= 2 * Cardinality(Settled')
  <2>1. slot[i].wb + DwLeft(slot[i]) <= 2 * Cardinality(Settled)
    BY <1>9 DEF Counts
  <2>2. \A a, b, c, d, e \in Int : a + b <= 2 * d /\ c <= a + 2 /\ d + 1 <= e => c + b <= 2 * e
    OBVIOUS
  <2>3. /\ slot[i].wb \in Int /\ slot'[i].wb \in Int /\ DwLeft(slot[i]) \in Int /\ slot'[i].wb <= slot[i].wb + 2
        /\ Cardinality(Settled) \in Int /\ Cardinality(Settled') \in Int
    BY <1>6, <1>9, <1>16, <1>17
  <2> QED BY ONLY <1>6, <1>16, <2>1, <2>2, <2>3
<1>19. \A j \in Indices : Closing(j)' <=> Closing(j)
  BY <1>1 DEF Closing
<1>20. slot'[i].type \notin Dormant /\ ~Closing(i)' => slot'[i].wb = Len(Flat(slot'[i].high \o slot'[i].low))
  BY <1>1, <1>2, <1>9, <1>13, <1>17, <1>19 DEF Counts
<1>21. Counts(i)'
  BY <1>11, <1>13, <1>15, <1>17, <1>18, <1>20 DEF Counts
<1>22. Cardinality(Settled) <= Cardinality(Settled')
  BY <1>6
<1> QED BY <1>1, <1>2, <1>6, <1>11, <1>13, <1>14, <1>19, <1>21, <1>22, CountStep

(* The calls of services.  A message that one carries is nowhere else.     *)
Elsewhere(c, m) ==
    (\E d \in Clients \ {c} : cl[d].pc \in Busy /\ cl[d].m = m) \/ \E j \in Parcels : pipe[j].m = m
PushedElsewhere(c, m) ==
    (\E d \in Clients \ {c} : cl[d].pc = "push" /\ cl[d].m = m) \/ \E j \in Parcels : pipe[j].m = m

LEMMA WayParts ==
    ASSUME NEW c \in Clients, NEW m
    PROVE  /\ OnWay(m) <=> (cl[c].pc \in Busy /\ cl[c].m = m) \/ Elsewhere(c, m)
           /\ Pushed(m) <=> (cl[c].pc = "push" /\ cl[c].m = m) \/ PushedElsewhere(c, m)
           /\ PushedElsewhere(c, m) => Elsewhere(c, m)
BY DEF OnWay, Pushed, Elsewhere, PushedElsewhere, Busy

LEMMA WayPartsNext ==
    ASSUME NEW c \in Clients, NEW m
    PROVE  /\ OnWay(m)' <=> (cl'[c].pc \in Busy /\ cl'[c].m = m) \/ Elsewhere(c, m)'
           /\ Pushed(m)' <=> (cl'[c].pc = "push" /\ cl'[c].m = m) \/ PushedElsewhere(c, m)'
BY DEF OnWay, Pushed, Elsewhere, PushedElsewhere, Busy

LEMMA NotElsewhere ==
    ASSUME SocketType, MailInv, NEW c \in Clients, NEW m, m = cl[c].m, cl[c].pc \in Busy
    PROVE  m \in sent /\ m.by = c /\ ~Elsewhere(c, m)
<1>1. Carried(c) /\ Queued /\ \A d \in Clients : Carried(d)
  BY DEF MailInv
<1>2. m \in sent /\ m.by = c /\ \A j \in Parcels : pipe[j].m.by = c => pipe[j].m.n < m.n
  BY <1>1 DEF Carried
<1>3. m.n \in Nat
  BY <1>2, MessageFacts DEF SocketType
<1>4. \A j \in Parcels : pipe[j].m # m
  BY <1>2, <1>3
<1>5. \A d \in Clients \ {c} : cl[d].pc \in Busy => cl[d].m # m
  BY <1>1, <1>2 DEF Carried
<1> QED BY <1>2, <1>4, <1>5 DEF Elsewhere

LEMMA ElsewhereSame ==
    ASSUME SocketType, NEW c \in Clients, \A d \in Clients \ {c} : cl'[d] = cl[d],
           pipe' = pipe \/ \E y \in Commands : y.cmd \notin Packages /\ pipe' = Append(pipe, y)
    PROVE  \A m : (Elsewhere(c, m)' <=> Elsewhere(c, m)) /\ (PushedElsewhere(c, m)' <=> PushedElsewhere(c, m))
<1>1. Parcels' = Parcels /\ \A j \in Parcels : pipe'[j] = pipe[j]
  <2>1. CASE pipe' = pipe
    BY <2>1 DEF Parcels
  <2>2. ASSUME NEW y \in Commands, y.cmd \notin Packages, pipe' = Append(pipe, y)
        PROVE  Parcels' = Parcels /\ \A j \in Parcels : pipe'[j] = pipe[j]
    BY <2>2, AppendParcels
  <2> QED BY <2>1, <2>2
<1> QED BY <1>1 DEF Elsewhere, PushedElsewhere

LEMMA SameMailCall ==
    ASSUME SocketType, NEW c \in Clients, sent' = sent, \A d \in Clients \ {c} : cl'[d] = cl[d],
           cl'[c].pc \in Busy <=> cl[c].pc \in Busy, cl'[c].pc = "push" <=> cl[c].pc = "push",
           cl[c].pc \in Busy => cl'[c].m = cl[c].m,
           pipe' = pipe \/ \E y \in Commands : y.cmd \notin Packages /\ pipe' = Append(pipe, y)
    PROVE  SameMail
<1>1. \A m : (Elsewhere(c, m)' <=> Elsewhere(c, m)) /\ (PushedElsewhere(c, m)' <=> PushedElsewhere(c, m))
  BY ElsewhereSame
<1>2. "push" \in Busy
  BY DEF Busy
<1>3. ASSUME NEW m PROVE (OnWay(m)' <=> OnWay(m)) /\ (Pushed(m)' <=> Pushed(m))
  BY <1>1, <1>2, WayParts, WayPartsNext
<1> QED BY <1>3 DEF SameMail

LEMMA CallsMail ==
    ASSUME SocketType, NEW c \in Clients,
           \/ Open(c) \/ OpenFull(c) \/ Publish(c) \/ Request(c) \/ DoubleCheck(c) \/ Wake(c)
    PROVE  /\ pipe' = pipe \/ \E y \in Commands : y.cmd \notin Packages /\ pipe' = Append(pipe, y)
           /\ SameMail
<1>1. sent' = sent
  BY ClientFrames
<1>2. pipe' = pipe \/ \E y \in Commands : y.cmd \notin Packages /\ pipe' = Append(pipe, y)
  <2>1. ASSUME NEW cmd \in {"O", "L", "K", "shutdown", "R", "S", "W"}, NEW id,
               [cmd |-> cmd, id |-> id] \in Commands, pipe' = Append(pipe, [cmd |-> cmd, id |-> id])
        PROVE \E y \in Commands : y.cmd \notin Packages /\ pipe' = Append(pipe, y)
    <3>1. [cmd |-> cmd, id |-> id].cmd \notin Packages
      BY DEF Packages
    <3> QED BY <2>1, <3>1
  <2>2. CASE Publish(c)
    BY <2>1, <2>2, PublishEffect
  <2>3. CASE Request(c)
    BY <2>1, <2>3, RequestEffect
  <2>4. CASE Wake(c)
    BY <2>1, <2>4, WakeEffect
  <2>5. CASE Open(c) \/ OpenFull(c) \/ DoubleCheck(c)
    BY <2>5, ClientFrames
  <2> QED BY <2>2, <2>3, <2>4, <2>5
<1>3. SameMail
  <2>1. ASSUME NEW x \in Callers, cl' = [cl EXCEPT ![c] = x], x.pc \in Busy <=> cl[c].pc \in Busy,
               x.pc = "push" <=> cl[c].pc = "push", cl[c].pc \in Busy => x.m = cl[c].m
        PROVE  SameMail
    <3>1. cl'[c] = x /\ \A d \in Clients \ {c} : cl'[d] = cl[d]
      BY <2>1, ClientPut
    <3> QED BY <1>1, <1>2, <2>1, <3>1, SameMailCall
  <2>2. CASE OpenFull(c) \/ Request(c)
    <3>1. cl' = cl
      BY <2>2, ClientFrames
    <3> QED BY <1>1, <1>2, <3>1, SameMailCall
  <2>3. CASE Open(c)
    <3> SUFFICES ASSUME NEW x, x = [pc |-> "reserved", id |-> allocId'] PROVE SameMail
      OBVIOUS
    <3>1. x.pc = "reserved" /\ cl[c].pc = "idle" /\ x \in Callers /\ cl' = [cl EXCEPT ![c] = x]
      BY <2>3, OpenEffect, CallerTypes
    <3> QED BY <2>1, <3>1 DEF Busy
  <2>4. CASE Publish(c) \/ Wake(c)
    <3> SUFFICES ASSUME NEW x, x = [pc |-> "idle"] PROVE SameMail
      OBVIOUS
    <3>1. x.pc = "idle" /\ cl[c].pc \in {"reserved", "wake"} /\ x \in Callers /\ cl' = [cl EXCEPT ![c] = x]
      BY <2>4, PublishEffect, WakeEffect, CallerTypes
    <3> QED BY <2>1, <3>1 DEF Busy
  <2>5. CASE DoubleCheck(c)
    <3>1. /\ cl[c].pc = "locked" /\ cl[c].m \in Messages
          /\ \E p \in {"checked", "inc"} : cl' = [cl EXCEPT ![c] = [pc |-> p, m |-> cl[c].m]]
      BY <2>5, DoubleCheckEffect
    <3>2. PICK p \in {"checked", "inc"} : cl' = [cl EXCEPT ![c] = [pc |-> p, m |-> cl[c].m]]
      BY <3>1
    <3> SUFFICES ASSUME NEW x, x = [pc |-> p, m |-> cl[c].m] PROVE SameMail
      OBVIOUS
    <3>3. x \in Callers /\ x.pc = p /\ x.m = cl[c].m /\ p \in Busy /\ cl[c].pc \in Busy
      BY <3>1, <3>2, CallerTypes DEF Busy
    <3> QED BY <2>1, <3>1, <3>2, <3>3
  <2> QED BY <2>2, <2>3, <2>4, <2>5
<1> QED BY <1>2, <1>3

LEMMA CountCalls ==
    ASSUME SocketType, LifeInv, CountInv, NEW c \in Clients,
           \/ Open(c) \/ OpenFull(c) \/ Publish(c) \/ Request(c) \/ DoubleCheck(c) \/ Wake(c)
    PROVE  CountInv'
<1>1. Running /\ sent' = sent /\ UNCHANGED <<fc, crashed>> /\ ~crashed'
  BY ClientFrames DEF Running
<1>2. SameMail
  BY CallsMail
<1>4. \A j \in Indices : Closing(j)' <=> Closing(j)
  BY <1>1 DEF Closing
<1>5. CASE OpenFull(c) \/ Request(c) \/ DoubleCheck(c) \/ Wake(c)
  <2>1. UNCHANGED slot
    BY <1>5, ClientFrames
  <2> QED BY <1>1, <1>2, <1>4, <2>1, CountNone
<1>6. ASSUME NEW i \in Indices, Others(i), slot'[i].type \in Dormant, slot'[i].sending = slot[i].sending,
             slot'[i].wb = slot[i].wb, slot'[i].low = slot[i].low, slot'[i].dw = slot[i].dw,
             slot'[i].tcp => slot[i].tcp /\ slot'[i].id = slot[i].id
      PROVE CountInv'
  <2>1. Whole(slot'[i].low)
    BY <1>6 DEF CountInv, Counts
  <2>2. Counts(i)'
    BY <1>1, <1>2, <1>6, <2>1, CountKept
  <2> QED BY <1>1, <1>2, <1>4, <1>6, <2>2, CountOne
<1>7. CASE Open(c)
  <2> SUFFICES ASSUME NEW i, i = HASH_ID(allocId') PROVE CountInv'
    OBVIOUS
  <2>1. i \in Indices /\ Calm(i) /\ slot'[i].type = "RESERVE"
    BY <1>7, OpenEffect
  <2> QED BY <1>6, <2>1 DEF Calm, Dormant
<1>8. CASE Publish(c)
  <2> SUFFICES ASSUME NEW i, NEW id, id = cl[c].id, i = HASH_ID(id) PROVE CountInv'
    OBVIOUS
  <2>0. cl[c].pc = "reserved" /\ id \in Ids /\ slot' = Claimed(slot, id)
    BY <1>8, PublishEffect
  <2>1. /\ i \in Indices /\ Others(i) /\ slot'[i].type = slot[i].type /\ slot'[i].tcp = FALSE
        /\ slot'[i].sending = slot[i].sending /\ slot'[i].wb = slot[i].wb
        /\ slot'[i].low = slot[i].low /\ slot'[i].dw = slot[i].dw
    BY <2>0, ClaimedEffect
  <2>2. slot[i].type = "RESERVE"
    BY <1>1, <2>0 DEF LifeInv, Booked, Reserves
  <2> QED BY <1>6, <2>1, <2>2 DEF Dormant
<1> QED BY <1>5, <1>7, <1>8

LEMMA CountSend ==
    ASSUME SocketType, LifeInv, MailInv, CountInv, NEW c \in Clients, Send(c)
    PROVE  CountInv'
<1>0. opened \subseteq held /\ Numbered /\ Queued /\ \A d \in Clients : Carried(d)
  BY DEF LifeInv, Known, MailInv
<1>1. Running /\ UNCHANGED <<slot, pipe, fc, crashed>> /\ ~crashed' /\ SocketType'
  <2>1. Running /\ UNCHANGED <<slot, pipe, fc, crashed>>
    BY ClientFrames
  <2> QED BY <1>0, <2>1, ClientType DEF Running
<1>2. PICK m, x : /\ m \in Messages /\ m \notin sent /\ sent' = sent \cup {m}
                  /\ m.by = c /\ m.to \in opened /\ m.n = Cardinality(sent) + 1
                  /\ Cardinality(sent) \in Nat /\ Cardinality(sent') = Cardinality(sent) + 1
                  /\ cl[c].pc = "idle" /\ x \in Callers /\ x.pc \in {"locked", "inc"} /\ x.m = m
                  /\ cl' = [cl EXCEPT ![c] = x] /\ ~socket_invalid(HASH_ID(m.to), m.to)
                  /\ x.pc = "inc" => lock' = lock
                  /\ x.pc = "locked" => /\ lock[HASH_ID(m.to)] = None /\ lock' = [lock EXCEPT ![HASH_ID(m.to)] = c]
                                        /\ can_direct_write(HASH_ID(m.to), m.to)
  BY <1>0, SendFacts
<1>3. cl'[c] = x /\ (\A d \in Clients \ {c} : cl'[d] = cl[d]) /\ cl[c].pc \notin Busy /\ cl[c].pc # "push"
  BY <1>2, ClientPut DEF Busy
<1>4. \A o : (Elsewhere(c, o)' <=> Elsewhere(c, o)) /\ (PushedElsewhere(c, o)' <=> PushedElsewhere(c, o))
  BY <1>1, <1>3, ElsewhereSame
<1>5. ~Elsewhere(c, m) /\ ~PushedElsewhere(c, m)
  <2>1. \A d \in Clients : cl[d].pc \in Busy => cl[d].m # m
    BY <1>0, <1>2 DEF Carried
  <2>2. \A j \in Parcels : pipe[j].m # m
    BY <1>0, <1>2 DEF Queued
  <2>3. "push" \in Busy
    BY DEF Busy
  <2> QED BY <2>1, <2>2, <2>3 DEF Elsewhere, PushedElsewhere
<1>6. \A o : o # m => (OnWay(o)' <=> OnWay(o)) /\ (Pushed(o)' <=> Pushed(o))
  BY <1>2, <1>3, <1>4, WayParts, WayPartsNext
<1>7. ~Pushed(m)'
  BY <1>2, <1>3, <1>4, <1>5, WayPartsNext
<1>8. Cardinality(Settled) <= Cardinality(Settled')
  <2>1. sent \subseteq sent' /\ \A o \in sent : OnWay(o)' => OnWay(o)
    BY <1>2, <1>6
  <2> QED BY <1>1, <2>1, SettledGrows
<1>9. Cardinality(Settled') \in Nat
  <2>1. IsFiniteSet(sent') /\ Settled' \subseteq sent'
    BY <1>1 DEF SocketType, Settled
  <2> QED BY <2>1, FS_Subset, FS_CardinalityType
<1>10. \A id : InFlight(id)' = InFlight(id)
  BY <1>2, <1>6, <1>7 DEF InFlight
<1>11. \A j \in Indices : slot[j].tcp => InFlight(slot[j].id)' = InFlight(slot[j].id)
  BY <1>1, <1>10
<1>12. \A j \in Indices : Closing(j) => Closing(j)'
  BY <1>1 DEF Closing
<1> QED BY <1>1, <1>8, <1>9, <1>11, <1>12, CountSame

LEMMA CountPush ==
    ASSUME SocketType, CountInv, NEW c \in Clients, SendCommand(c)
    PROVE  CountInv'
<1>1. Running /\ UNCHANGED <<slot, fc, crashed, sent>> /\ ~crashed'
  BY ClientFrames DEF Running
<1>2. PICK cmd \in Packages :
              LET m == cl[c].m
                  x == [cmd |-> cmd, id |-> m.to, m |-> m]
              IN  /\ cl[c].pc = "push" /\ m \in Messages /\ m.to \in Ids /\ x \in Commands
                  /\ pipe' = Append(pipe, x) /\ cl' = [cl EXCEPT ![c] = [pc |-> "idle"]]
  BY SendCommandEffect
<1> SUFFICES ASSUME NEW m, NEW x, m = cl[c].m, x = [cmd |-> cmd, id |-> m.to, m |-> m] PROVE CountInv'
  OBVIOUS
<1>3. x \in Commands /\ x.cmd \in Packages /\ x.m = m /\ cl[c].pc = "push" /\ pipe' = Append(pipe, x)
  BY <1>2
<1>4. cl'[c].pc = "idle" /\ \A d \in Clients \ {c} : cl'[d] = cl[d]
  BY <1>2, ClientPut, CallerTypes
<1>5. /\ Parcels' = Parcels \cup {Len(pipe) + 1} /\ pipe'[Len(pipe) + 1].m = m
      /\ \A j \in Parcels : pipe'[j] = pipe[j]
  BY <1>3, PipeAppend DEF Parcels
<1>6. "push" \in Busy /\ "idle" \notin Busy
  BY DEF Busy
<1>7. ASSUME NEW o PROVE (OnWay(o)' <=> OnWay(o)) /\ (Pushed(o)' <=> Pushed(o))
  <2>1. /\ Elsewhere(c, o)' <=> Elsewhere(c, o) \/ o = m
        /\ PushedElsewhere(c, o)' <=> PushedElsewhere(c, o) \/ o = m
    BY <1>4, <1>5 DEF Elsewhere, PushedElsewhere
  <2> QED BY <1>3, <1>4, <1>6, <2>1, WayParts, WayPartsNext
<1>8. SameMail /\ \A j \in Indices : Closing(j) => Closing(j)'
  BY <1>1, <1>7 DEF SameMail, Closing
<1> QED BY <1>1, <1>8, CountNone

LEMMA CountInc ==
    ASSUME SocketType, LifeInv, MailInv, CountInv, NEW c \in Clients, inc_sending_ref(c)
    PROVE  CountInv'
<1> SUFFICES ASSUME NEW m, NEW i, m = cl[c].m, i = HASH_ID(m.to) PROVE CountInv'
  OBVIOUS
<1> SUFFICES ASSUME NEW n, n = IF Counting(m.to) THEN slot[i].sending + 1 ELSE slot[i].sending PROVE CountInv'
  OBVIOUS
<1>1. Running /\ UNCHANGED <<pipe, fc, crashed, sent>> /\ ~crashed'
  BY ClientFrames DEF Running
<1>2. /\ cl[c].pc = "inc" /\ m \in Messages /\ i \in Indices /\ Tally(i, n)
      /\ cl' = [cl EXCEPT ![c] = [pc |-> "push", m |-> m]]
  BY IncEffect
<1>3. cl'[c].pc = "push" /\ cl'[c].m = m /\ \A d \in Clients \ {c} : cl'[d] = cl[d]
  <2> SUFFICES ASSUME NEW x, x = [pc |-> "push", m |-> m]
               PROVE  cl'[c].pc = "push" /\ cl'[c].m = m /\ \A d \in Clients \ {c} : cl'[d] = cl[d]
    OBVIOUS
  <2>1. x \in Callers /\ x.pc = "push" /\ x.m = m /\ cl' = [cl EXCEPT ![c] = x]
    BY <1>2, CallerTypes DEF Busy
  <2> QED BY <2>1, ClientPut
<1>4. "push" \in Busy /\ "inc" \in Busy
  BY DEF Busy
<1>5. m \in sent /\ ~Elsewhere(c, m)
  BY <1>2, <1>4, NotElsewhere
<1>6. \A o : (Elsewhere(c, o)' <=> Elsewhere(c, o)) /\ (PushedElsewhere(c, o)' <=> PushedElsewhere(c, o))
  BY <1>1, <1>3, ElsewhereSame
<1>7. /\ \A o : (OnWay(o)' <=> OnWay(o)) /\ (o # m => (Pushed(o)' <=> Pushed(o)))
      /\ Pushed(m)' /\ ~Pushed(m)
  BY <1>2, <1>3, <1>4, <1>5, <1>6, WayParts, WayPartsNext
<1>8. Settled' = Settled /\ Cardinality(Settled) \in Nat
  BY <1>1, <1>7, MailSets DEF Settled
<1>9. /\ \A id : id # m.to => InFlight(id)' = InFlight(id)
      /\ InFlight(m.to)' = InFlight(m.to) \cup {m} /\ m \notin InFlight(m.to)
  BY <1>1, <1>5, <1>7 DEF InFlight
<1>10. /\ Cardinality(InFlight(m.to)') = Cardinality(InFlight(m.to)) + 1
       /\ Cardinality(InFlight(m.to)) \in Nat /\ Cardinality(InFlight(m.to)') <= MaxSends
  <2>1. IsFiniteSet(InFlight(m.to)) /\ Cardinality(InFlight(m.to)) \in Nat
    BY MailSets
  <2>2. Cardinality(InFlight(m.to) \cup {m}) = Cardinality(InFlight(m.to)) + 1
    BY <1>9, <2>1, FS_AddElement
  <2>3. InFlight(m.to) \cup {m} \subseteq sent /\ IsFiniteSet(sent) /\ Cardinality(sent) <= MaxSends
    BY <1>5 DEF InFlight, SocketType
  <2>4. Cardinality(InFlight(m.to) \cup {m}) <= Cardinality(sent) /\ Cardinality(sent) \in Nat
    BY <2>3, FS_Subset, FS_CardinalityType
  <2> QED BY <1>9, <2>1, <2>2, <2>3, <2>4, SocketAssumption
<1>11. Counts(i) /\ Life(i) /\ slot[i] \in Sockets /\ slot[i].id \in Nat /\ slot[i].sending \in 0 .. MaxSends
  <2>1. Counts(i) /\ Life(i)
    BY <1>1, <1>2 DEF CountInv, LifeInv, Lives
  <2>2. slot[i] \in Sockets /\ slot[i].id \in Nat
    BY <1>2, SocketFields
  <2>3. slot[i].sending \in 0 .. MaxSends
    BY <2>1 DEF Counts
  <2> QED BY <2>1, <2>2, <2>3
<1>12. m.to \in Nat
  BY <1>2, MessageFacts, IdFacts
<1>13. slot[i].tcp => (Counting(m.to) <=> slot[i].id = m.to)
  <2>1. slot[i].tcp => slot[i].tag = ID_TAG16(slot[i].id) /\ HASH_ID(slot[i].id) = i
    BY <1>11 DEF Life
  <2> QED BY <1>11, <1>12, <2>1, HashFacts DEF Counting
<1>14. Counting(m.to) => slot[i].tcp
  BY DEF Counting
<1>15. n \in 0 .. MaxSends
  <2>1. Counting(m.to) => slot[i].sending = Cardinality(InFlight(m.to))
    BY <1>1, <1>11, <1>13, <1>14 DEF Counts
  <2> QED BY <1>10, <1>11, <2>1, SocketAssumption
<1>16. /\ Others(i) /\ slot'[i].id = slot[i].id /\ slot'[i].tcp = slot[i].tcp /\ slot'[i].sending = n
       /\ slot'[i].wb = slot[i].wb /\ slot'[i].high = slot[i].high /\ slot'[i].low = slot[i].low
       /\ slot'[i].dw = slot[i].dw /\ slot'[i].type = slot[i].type
  <2>1. n \in Int /\ i \in Indices /\ Tally(i, n)
    BY <1>2, <1>15, SocketAssumption
  <2>2. Others(i)
    BY <2>1 DEF Tally
  <2> QED BY <2>1, <2>2, TallyFields
<1>17. slot[i].tcp => n = Cardinality(InFlight(slot[i].id)')
  <2>1. CASE slot[i].id = m.to /\ slot[i].tcp
    <3>1. slot[i].sending = Cardinality(InFlight(m.to)) /\ Counting(m.to)
      BY <1>1, <1>11, <1>13, <2>1 DEF Counts
    <3>2. n = Cardinality(InFlight(m.to)) + 1
      BY <3>1
    <3>3. InFlight(slot[i].id)' = InFlight(m.to)'
      BY <1>16, <2>1
    <3> QED BY <1>10, <3>2, <3>3
  <2>2. CASE slot[i].id # m.to /\ slot[i].tcp
    <3>1. InFlight(slot[i].id)' = InFlight(slot[i].id)
      BY <1>9, <1>16, <2>2
    <3> QED BY <1>1, <1>11, <1>13, <2>2, <3>1 DEF Counts
  <2> QED BY <2>1, <2>2
<1>18. \A j \in Indices : Closing(j)' <=> Closing(j)
  BY <1>1 DEF Closing
<1>19. DwLeft(slot'[i]) = DwLeft(slot[i])
  BY <1>16 DEF DwLeft
<1>20. Counts(i)'
  <2>1. /\ slot[i].wb >= 0 /\ slot[i].wb + DwLeft(slot[i]) <= 2 * Cardinality(Settled) /\ Whole(slot[i].low)
        /\ slot[i].type \notin Dormant /\ ~Closing(i) => slot[i].wb = Len(Flat(slot[i].high \o slot[i].low))
    BY <1>1, <1>11 DEF Counts
  <2>2. slot'[i].wb >= 0 /\ slot'[i].wb + DwLeft(slot'[i]) <= 2 * Cardinality(Settled') /\ Whole(slot'[i].low)
    BY <1>8, <1>16, <1>19, <2>1
  <2>3. slot'[i].type \notin Dormant /\ ~Closing(i)' => slot'[i].wb = Len(Flat(slot'[i].high \o slot'[i].low))
    <3>1. slot'[i].high \o slot'[i].low = slot[i].high \o slot[i].low /\ (Closing(i)' <=> Closing(i))
      BY <1>2, <1>16, <1>18
    <3> QED BY <1>16, <2>1, <3>1
  <2>4. slot'[i].sending \in 0 .. MaxSends /\ (slot'[i].tcp => slot'[i].sending = Cardinality(InFlight(slot[i].id)'))
    BY <1>15, <1>16, <1>17
  <2> QED BY <2>2, <2>3, <2>4 DEF Counts
<1>21. \A j \in Indices \ {i} : slot[j].tcp => InFlight(slot[j].id)' = InFlight(slot[j].id)
  <2>1. \A j \in Indices \ {i} : slot[j].tcp => slot[j].id # m.to
    BY <1>1 DEF LifeInv, Lives, Life
  <2> QED BY ZenonT(30), <1>9, <1>16, <2>1 DEF Others
<1>22. Cardinality(Settled') \in Nat /\ Cardinality(Settled) <= Cardinality(Settled')
  BY <1>8
<1>23. Others(i) /\ \A j \in Indices \ {i} : Closing(j) => Closing(j)'
  BY <1>16, <1>18
<1> QED BY <1>1, <1>2, <1>20, <1>21, <1>22, <1>23, CountStep

LEMMA CountWrite ==
    ASSUME SocketType, LifeInv, MailInv, CountInv, NEW c \in Clients, DirectWrite(c)
    PROVE  CountInv'
<1> SUFFICES ASSUME NEW m, NEW i, m = cl[c].m, i = HASH_ID(m.to) PROVE CountInv'
  OBVIOUS
<1>1. Running /\ UNCHANGED <<pipe, fc, crashed, sent>> /\ ~crashed' /\ SocketType'
  <2>1. Running /\ UNCHANGED <<pipe, fc, crashed, sent>>
    BY ClientFrames
  <2>2. opened \subseteq held
    BY DEF LifeInv, Known
  <2> QED BY <2>1, <2>2, ClientType DEF Running
<1>2. /\ cl[c].pc = "checked" /\ m \in Messages /\ i \in Indices
      /\ NotWritten(c, m) \/ AllWritten(c, m) \/ \E l \in {1, 2} : RestKept(c, m, l)
  BY DirectWriteEffect
<1>3. "checked" \in Busy /\ "inc" \in Busy /\ "idle" \notin Busy /\ "wake" \notin Busy /\ "push" \in Busy
  BY DEF Busy
<1>4. m \in sent /\ ~Elsewhere(c, m)
  BY <1>2, <1>3, NotElsewhere
<1>5. \A j \in Indices : Closing(j)' <=> Closing(j)
  BY <1>1 DEF Closing
<1>6. CASE NotWritten(c, m)
  <2> SUFFICES ASSUME NEW x, x = [pc |-> "inc", m |-> m] PROVE CountInv'
    OBVIOUS
  <2>1. x \in Callers /\ x.pc = "inc" /\ x.m = m /\ cl' = [cl EXCEPT ![c] = x] /\ slot' = slot
    BY <1>2, <1>3, <1>6, CallerTypes DEF NotWritten
  <2>2. cl'[c] = x /\ \A d \in Clients \ {c} : cl'[d] = cl[d]
    BY <2>1, ClientPut
  <2>3. SameMail
    BY <1>1, <1>2, <1>3, <2>1, <2>2, SameMailCall
  <2> QED BY <1>1, <1>5, <2>1, <2>3, CountNone
<1>7. ASSUME NEW x \in Callers, cl' = [cl EXCEPT ![c] = x], x.pc \in {"idle", "wake"}
      PROVE  /\ Cardinality(Settled') \in Nat /\ Cardinality(Settled) + 1 <= Cardinality(Settled')
             /\ \A id : InFlight(id)' = InFlight(id)
  <2>1. cl'[c] = x /\ \A d \in Clients \ {c} : cl'[d] = cl[d]
    BY <1>7, ClientPut
  <2>2. \A o : (Elsewhere(c, o)' <=> Elsewhere(c, o)) /\ (PushedElsewhere(c, o)' <=> PushedElsewhere(c, o))
    BY <1>1, <2>1, ElsewhereSame
  <2>3. x.pc \notin Busy /\ x.pc # "push"
    BY <1>3, <1>7
  <2>4. /\ \A o : (OnWay(o)' => OnWay(o)) /\ (Pushed(o)' <=> Pushed(o))
        /\ OnWay(m) /\ ~OnWay(m)'
    BY <1>2, <1>3, <1>4, <2>1, <2>2, <2>3, WayParts, WayPartsNext
  <2>5. Cardinality(Settled) + 1 <= Cardinality(Settled')
    BY <1>1, <1>4, <2>4, SettledMore
  <2>6. IsFiniteSet(sent') /\ Settled' \subseteq sent'
    BY <1>1 DEF SocketType, Settled
  <2>7. Cardinality(Settled') \in Nat
    BY <2>6, FS_Subset, FS_CardinalityType
  <2>8. \A id : InFlight(id)' = InFlight(id)
    BY <1>1, <2>4 DEF InFlight
  <2> QED BY <2>5, <2>7, <2>8
<1>8. Cardinality(Settled) \in Nat
  BY MailSets
<1>9. CASE AllWritten(c, m)
  <2> SUFFICES ASSUME NEW x, x = [pc |-> "idle"] PROVE CountInv'
    OBVIOUS
  <2>1. x \in Callers /\ x.pc \in {"idle", "wake"} /\ cl' = [cl EXCEPT ![c] = x] /\ slot' = slot
    BY <1>9, CallerTypes DEF AllWritten
  <2>a. /\ Cardinality(Settled') \in Nat /\ Cardinality(Settled) + 1 <= Cardinality(Settled')
        /\ \A id : InFlight(id)' = InFlight(id)
    <3>1. x \in Callers /\ cl' = [cl EXCEPT ![c] = x] /\ x.pc \in {"idle", "wake"}
      BY <2>1
    <3> QED BY ONLY <1>7, <3>1
  <2>2. /\ Cardinality(Settled') \in Nat /\ Cardinality(Settled) <= Cardinality(Settled')
        /\ \A id : InFlight(id)' = InFlight(id)
    BY ONLY <1>8, <2>a
  <2>3. \A j \in Indices : slot[j].tcp => InFlight(slot[j].id)' = InFlight(slot[j].id)
    BY <2>1, <2>2
  <2> QED BY <1>1, <1>5, <2>1, <2>2, <2>3, CountSame
<1>10. ASSUME NEW l \in {1, 2}, RestKept(c, m, l) PROVE CountInv'
  <2>0. /\ slot' \in [Indices -> Sockets] /\ Others(i)
        /\ slot'[i] = [slot[i] EXCEPT !.dw = [m |-> m, left |-> l]]
        /\ cl' = [cl EXCEPT ![c] = [pc |-> "wake", m |-> m]]
    BY <1>10 DEF RestKept
  <2> SUFFICES ASSUME NEW x, x = [pc |-> "wake", m |-> m] PROVE CountInv'
    OBVIOUS
  <2> SUFFICES ASSUME NEW b, b = [m |-> m, left |-> l] PROVE CountInv'
    OBVIOUS
  <2>1. x \in Callers /\ x.pc \in {"idle", "wake"} /\ cl' = [cl EXCEPT ![c] = x]
    BY <1>2, <2>0, CallerTypes
  <2>2. b \in Buffers /\ b.left = l /\ b # None
    BY <1>2, NoneAssumption DEF Buffers
  <2>3. slot[i] \in Sockets /\ Others(i) /\ slot'[i] = [slot[i] EXCEPT !.dw = b]
    BY <1>2, <2>0, SocketFields
  <2>4. /\ slot'[i].id = slot[i].id /\ slot'[i].tcp = slot[i].tcp /\ slot'[i].sending = slot[i].sending
        /\ slot'[i].wb = slot[i].wb /\ slot'[i].high = slot[i].high /\ slot'[i].low = slot[i].low
        /\ slot'[i].dw = b /\ slot'[i].type = slot[i].type
    BY <2>2, <2>3, DwFields
  <2>a. /\ Cardinality(Settled') \in Nat /\ Cardinality(Settled) + 1 <= Cardinality(Settled')
        /\ \A id : InFlight(id)' = InFlight(id)
    <3>1. x \in Callers /\ cl' = [cl EXCEPT ![c] = x] /\ x.pc \in {"idle", "wake"}
      BY <2>1
    <3> QED BY ONLY <1>7, <3>1
  <2>5. /\ Cardinality(Settled') \in Nat /\ Cardinality(Settled) + 1 <= Cardinality(Settled')
        /\ Cardinality(Settled) <= Cardinality(Settled') /\ \A id : InFlight(id)' = InFlight(id)
    BY ONLY <1>8, <2>a
  <2>6. DwLeft(slot'[i]) = l /\ DwLeft(slot[i]) \in Nat /\ slot[i].wb \in Int
    BY <1>2, <2>2, <2>3, <2>4, BacklogType, SocketFields DEF DwLeft
  <2>7. Counts(i)
    BY <1>2 DEF CountInv
  <2>8. /\ slot[i].wb >= 0 /\ slot[i].wb + DwLeft(slot[i]) <= 2 * Cardinality(Settled) /\ Whole(slot[i].low)
        /\ slot[i].type \notin Dormant /\ ~Closing(i) => slot[i].wb = Len(Flat(slot[i].high \o slot[i].low))
        /\ slot[i].sending \in 0 .. MaxSends
        /\ slot[i].tcp => slot[i].sending = Cardinality(InFlight(slot[i].id))
    BY <1>1, <2>7 DEF Counts
  <2>9. slot'[i].wb >= 0 /\ slot'[i].wb + DwLeft(slot'[i]) <= 2 * Cardinality(Settled')
    <3>1. \A x0, x1, x2, x3 \in Int : x0 >= 0 /\ x1 >= 0 /\ x0 + x1 <= 2 * x2 /\ x2 + 1 <= x3 => x0 + l <= 2 * x3
      OBVIOUS
    <3> QED BY ONLY <1>8, <2>4, <2>5, <2>6, <2>8, <3>1
  <2>10. slot'[i].type \notin Dormant /\ ~Closing(i)' => slot'[i].wb = Len(Flat(slot'[i].high \o slot'[i].low))
    <3>1. slot'[i].high \o slot'[i].low = slot[i].high \o slot[i].low /\ (Closing(i)' <=> Closing(i))
      BY <1>2, <1>5, <2>4
    <3> QED BY <2>4, <2>8, <3>1
  <2>11. slot'[i].tcp => slot'[i].sending = Cardinality(InFlight(slot[i].id)')
    <3>1. InFlight(slot[i].id)' = InFlight(slot[i].id)
      BY <2>4, <2>5
    <3> QED BY <2>4, <2>8, <3>1
  <2>12. slot'[i].sending \in 0 .. MaxSends /\ Whole(slot'[i].low)
    BY <2>4, <2>8
  <2>13. Counts(i)'
    BY <2>9, <2>10, <2>11, <2>12 DEF Counts
  <2>14. \A j \in Indices \ {i} : slot[j].tcp => InFlight(slot[j].id)' = InFlight(slot[j].id)
    BY <2>3, <2>5 DEF Others
  <2>15. \A j \in Indices \ {i} : Closing(j) => Closing(j)'
    BY <1>5
  <2> QED BY <1>1, <1>2, <2>3, <2>5, <2>13, <2>14, <2>15, CountStep
<1> QED BY <1>2, <1>6, <1>9, <1>10

LEMMA NextCount ==
    ASSUME SocketType, LifeInv, MailInv, CountInv, [Next]_vars
    PROVE  CountInv'
<1>1. CASE UNCHANGED vars
  <2>1. UNCHANGED <<slot, pipe, fc, cl, sent, stale, crashed>>
    BY <1>1 DEF vars, sockVars, pollVars, callVars
  <2>2. Settled' = Settled /\ \A id : InFlight(id)' = InFlight(id)
    BY <2>1 DEF Settled, InFlight, OnWay, Pushed, Parcels
  <2>3. (Running' <=> Running) /\ \A i \in Indices : Closing(i)' <=> Closing(i)
    BY <2>1 DEF Running, Closing
  <2>4. ASSUME NEW i \in Indices PROVE Counts(i)'
    <3>1. Counts(i) /\ slot'[i] = slot[i] /\ InFlight(slot[i].id)' = InFlight(slot[i].id)
      BY <2>1, <2>2 DEF CountInv
    <3> QED BY <2>2, <2>3, <3>1 DEF Counts
  <2> QED BY <2>1, <2>4 DEF CountInv, AssertionsHold
<1>2. CASE Next
  BY <1>2, CountCalls, CountSend, CountPush, CountInc, CountWrite, CountOpening,
     CountCommands, CountPackage,
     CountRest, CountFinish, CountEvents, CountAccept DEF Next
<1> QED BY <1>1, <1>2

(* The four invariants together.                                           *)
SocketInv == SocketType /\ LifeInv /\ MailInv /\ CountInv

LEMMA SocketInductive == Spec => []SocketInv
<1>1. Init => SocketInv
  BY InitType, InitLife, InitMail, InitCount DEF SocketInv
<1>2. SocketInv /\ [Next]_vars => SocketInv'
  BY NextType, NextLife, NextMail, NextCount DEF SocketInv, LifeInv, Known
<1> QED BY <1>1, <1>2, PTL DEF Spec

(* The assertions of the socket thread fail for a stale command or event   *)
(* only, for any number of slots, services, ids and calls: new_fd finds a  *)
(* reserved slot with nothing queued, dec_sending_ref counts back what was *)
(* counted, and wb_size is 0 when the lists are empty.                     *)
THEOREM AssertionsAreSound == Spec => []AssertionsHold
<1>1. SocketInv => AssertionsHold
  BY DEF SocketInv, CountInv
<1> QED BY <1>1, SocketInductive, PTL

(* The types of the variables: the two counters of a socket stay within    *)
(* what was sent, and no report is about an id that nobody was told of.    *)
THEOREM SocketTypeCorrect == Spec => []TypeOK
<1>1. ASSUME SocketInv PROVE TypeOK
  <2>1. SocketType /\ LifeInv /\ CountInv
    BY <1>1 DEF SocketInv
  <2>2. ASSUME NEW i \in Indices
        PROVE  slot[i] \in [id : 0 .. MaxId, type : Types, tcp : BOOLEAN,
                            closing : BOOLEAN, reading : BOOLEAN, writing : BOOLEAN,
                            high : Seq(Buffers), low : Seq(Buffers),
                            dw : Buffers \cup {None}, tag : Nat,
                            sending : 0 .. MaxSends, wb : 0 .. 2 * MaxSends]
    <3>1. slot[i] \in Sockets /\ slot[i].wb \in Int /\ Counts(i)
      BY <2>1, SocketFields DEF CountInv
    <3>2. DwLeft(slot[i]) \in Nat /\ Cardinality(Settled) \in Nat /\ Cardinality(Settled) <= MaxSends
      BY <2>1, <3>1, BacklogType, MailSets
    <3>3. slot[i].sending \in 0 .. MaxSends /\ slot[i].wb >= 0 /\ slot[i].wb + DwLeft(slot[i]) <= 2 * Cardinality(Settled)
      BY <3>1 DEF Counts
    <3>4. slot[i].wb \in 0 .. 2 * MaxSends
      BY <3>1, <3>2, <3>3, SocketAssumption
    <3> QED BY <3>1, <3>3, <3>4 DEF Sockets
  <2>3. slot \in [Indices -> Sockets]
    BY <2>1 DEF SocketType
  <2>4. slot \in [Indices -> [id : 0 .. MaxId, type : Types, tcp : BOOLEAN,
                              closing : BOOLEAN, reading : BOOLEAN, writing : BOOLEAN,
                              high : Seq(Buffers), low : Seq(Buffers),
                              dw : Buffers \cup {None}, tag : Nat,
                              sending : 0 .. MaxSends, wb : 0 .. 2 * MaxSends]]
    BY <2>2, <2>3
  <2>5. opened \subseteq held /\ closed \subseteq held
    BY <2>1 DEF LifeInv, Known
  <2> QED BY <2>1, <2>4, <2>5 DEF TypeOK, SocketType
<1> QED BY <1>1, SocketInductive, PTL
=============================================================================
