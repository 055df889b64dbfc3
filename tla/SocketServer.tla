---------------------------- MODULE SocketServer ----------------------------
(***************************************************************************)
(* The TCP half of skynet's socket server, socket_server.c: a table of     *)
(* sockets that one socket thread owns, and the service threads that       *)
(* reserve slots of it, write to sockets directly while nothing is queued, *)
(* and send everything else as commands through a pipe.                    *)
(*                                                                         *)
(* The socket thread takes a command or an event per step.  The one place  *)
(* where it can be interrupted is force_close, which frees the buffers     *)
(* before it takes the lock of the socket (ForceClose, FinishClose).  The  *)
(* steps of a service are the points where another thread can get between: *)
(* the CAS of reserve_id and the id it writes later, the lock of a direct  *)
(* write, the two halves of the second check, the count of what is being   *)
(* sent and the command that carries it.                                   *)
(*                                                                         *)
(* A message has two parts, which stand for what a partial write splits.   *)
(* The kernel is the environment: connect, accept, read and write return   *)
(* any outcome, and any event may come up that the socket waits for.  Left *)
(* out: UDP, bound descriptors, the owner of a socket, socket options,     *)
(* userobject buffers, which differ in how they are freed, buffer          *)
(* warnings, the exit command and failures of epoll_ctl on an open         *)
(* descriptor.                                                             *)
(***************************************************************************)
EXTENDS Integers, Sequences, SequencesExt, FiniteSetsExt

CONSTANTS Slots,        \* MAX_SOCKET
          Clients,      \* threads of services that call the socket server
          None,         \* NULL
          MaxId,        \* bound: ids that reserve_id hands out
          MaxSends,     \* bound: messages that services send
          MaxCalls      \* bound: calls of services

ASSUME SocketAssumption ==
    /\ Slots \in Nat \ {0}
    /\ MaxId \in Nat /\ MaxSends \in Nat /\ MaxCalls \in Nat

VARIABLES
    slot,       \* socket_server.slot
    lock,       \* dw_lock: the client that holds it
    allocId,    \* alloc_id
    pipe,       \* the commands between sendctrl_fd and recvctrl_fd
    poll,       \* "ctrl" while checkctrl, "first" right after sp_wait, else "events"
    batch,      \* ev: the events of the last sp_wait not dispatched yet
    fc,         \* a force_close that waits for the lock
    cl,         \* where a client is in its call
    held,       \* ids that were returned or announced to services
    opened,     \* ids for which SOCKET_OPEN was reported
    closed,     \* ids for which SOCKET_CLOSE was reported
    late,       \* reports that came after the SOCKET_CLOSE of their id
    sent,       \* messages that a send call accepted
    wire,       \* of an id: the parts written to its connection
    calls,      \* calls made, for the bound
    stale,      \* a command or an event of an old id reached a reserved slot
    crashed     \* an assertion failed

sockVars  == <<slot, lock, allocId>>
pollVars  == <<poll, batch, fc>>
tellVars  == <<opened, closed, late>>
callVars  == <<sent, calls>>
vars == <<sockVars, pipe, pollVars, cl, held, tellVars, callVars, wire, stale, crashed>>

Indices == 0 .. Slots - 1
Ids     == 1 .. MaxId

HASH_ID(id)  == id % Slots
ID_TAG16(id) == id \div Slots

Types == {"INVALID", "RESERVE", "PLISTEN", "LISTEN", "CONNECTING", "CONNECTED",
          "HALFCLOSE_READ", "HALFCLOSE_WRITE", "PACCEPT"}

Messages == [n : 1 .. MaxSends, by : Clients, to : Ids, low : BOOLEAN]
Buffers  == [m : Messages, left : {1, 2}]
Closings == [i : Indices, kind : {"none", "ERR", "CLOSE"}, ctrl : BOOLEAN]

(* NULL is none of the things that may be there instead.                   *)
ASSUME NoneAssumption == None \notin Clients \cup Buffers \cup Closings

(* socket_server_create.  The slots are not cleared: id 0 stands for what  *)
(* a slot that was never used holds.                                       *)
Init ==
    /\ slot = [i \in Indices |->
                 [id |-> 0, type |-> "INVALID", tcp |-> FALSE, closing |-> FALSE,
                  reading |-> FALSE, writing |-> FALSE, high |-> <<>>, low |-> <<>>,
                  dw |-> None, tag |-> 0, sending |-> 0, wb |-> 0]]
    /\ lock = [i \in Indices |-> None]
    /\ allocId = 0
    /\ pipe = <<>>
    /\ poll = "ctrl" /\ batch = <<>> /\ fc = None
    /\ cl = [c \in Clients |-> [pc |-> "idle"]]
    /\ held = {} /\ opened = {} /\ closed = {} /\ late = {}
    /\ sent = {} /\ calls = 0
    /\ wire = [id \in Ids |-> <<>>]
    /\ stale = FALSE /\ crashed = FALSE

-----------------------------------------------------------------------------
(* What is read of a socket.                                               *)

socket_invalid(i, id) == slot[i].id # id \/ slot[i].type = "INVALID"

send_buffer_empty(i) == slot[i].high = <<>> /\ slot[i].low = <<>>

(* The part of nomore_sending_data and can_direct_write that reads the     *)
(* buffers, and the part that reads the rest.                              *)
NothingQueuedInLists(i) == send_buffer_empty(i)      \* mutation: dw_buffer is not looked at

NothingQueued(i) == send_buffer_empty(i) /\ slot[i].dw = None

halfclose_readUnseen(i) == FALSE     \* mutation: the half-close is not remembered

halfclose_read(i) == slot[i].type = "HALFCLOSE_READ"

nomore_sending_data(i) ==
    \/ NothingQueued(i) /\ slot[i].sending = 0
    \/ slot[i].type = "HALFCLOSE_WRITE"

ReadyToWrite(i, id) ==
    slot[i].id = id /\ slot[i].sending = 0 /\ slot[i].type = "CONNECTED"

can_direct_write(i, id) == NothingQueued(i) /\ ReadyToWrite(i, id)

-----------------------------------------------------------------------------
(* What the socket thread reports: a return value of socket_server_poll,   *)
(* which skynet_socket_poll forwards to the owner.                         *)

Report(kind, id) ==
    /\ opened' = IF kind = "OPEN" THEN opened \cup {id} ELSE opened
    /\ closed' = IF kind = "CLOSE" THEN closed \cup {id} ELSE closed
    /\ late' = IF id \in closed /\ kind \in {"OPEN", "DATA", "CLOSE"}
               THEN late \cup {<<kind, id>>} ELSE late

Silent == UNCHANGED tellVars

(* An assertion that fails ends the process.  A command or an event that   *)
(* takes a reserved slot for the socket that was there before ends what    *)
(* the model follows.                                                      *)
Running == ~crashed /\ ~stale

(* clear_closed_event, for an id whose slot is INVALID in sl.              *)
clear_closed_event(sl, id) ==
    batch' = FlattenSeq([j \in DOMAIN batch |->
                LET s == sl[batch[j].i]
                IN  IF s.type = "INVALID" /\ s.id = id THEN <<>> ELSE <<batch[j]>>])

(* force_close of slot i, whose lock the socket thread does not hold: the  *)
(* buffers go, and the rest waits for the lock.                            *)
ForceClose(i, kind, ctrl) ==
    /\ slot' = [slot EXCEPT ![i].high = <<>>, ![i].low = <<>>]
    /\ fc' = [i |-> i, kind |-> kind, ctrl |-> ctrl]
    /\ crashed' = (slot[i].type = "RESERVE")
    /\ UNCHANGED <<lock, allocId, held, tellVars, wire>>

FinishClose ==
    /\ Running /\ fc # None
    /\ lock[fc.i] = None
    /\ slot' = [slot EXCEPT ![fc.i].type = "INVALID", ![fc.i].dw = None]
    /\ IF fc.kind = "none" THEN Silent ELSE Report(fc.kind, slot[fc.i].id)
    /\ IF fc.ctrl /\ fc.kind # "none" THEN clear_closed_event(slot', slot[fc.i].id)
                                      ELSE UNCHANGED batch
    /\ fc' = None
    /\ UNCHANGED <<lock, allocId, pipe, poll, cl, held, callVars, wire, stale, crashed>>

-----------------------------------------------------------------------------
(* Calls of services.                                                      *)

At(c, pc) == Running /\ cl[c].pc = pc

Call == calls < MaxCalls /\ calls' = calls + 1

(* The id that reserve_id gets from one pass over the table.               *)
FreeIds == {id \in allocId + 1 .. allocId + Slots : slot[HASH_ID(id)].type = "INVALID"}

Reserved(sl, id) == [sl EXCEPT ![HASH_ID(id)].type = "RESERVE"]

(* What reserve_id writes to the slot after its CAS.                       *)
Claimed(sl, id) == [sl EXCEPT ![HASH_ID(id)].id = id, ![HASH_ID(id)].tcp = FALSE]

(* socket_server_connect and socket_server_listen, up to the CAS of        *)
(* reserve_id ...                                                          *)
Open(c) ==
    /\ At(c, "idle") /\ Call
    /\ FreeIds # {} /\ Min(FreeIds) <= MaxId
    /\ allocId' = Min(FreeIds)
    /\ slot' = Reserved(slot, allocId')
    /\ cl' = [cl EXCEPT ![c] = [pc |-> "reserved", id |-> allocId']]
    /\ UNCHANGED <<lock, pipe, pollVars, held, tellVars, sent, wire, stale, crashed>>

(* ... or with a table that is full ...                                    *)
OpenFull(c) ==
    /\ At(c, "idle") /\ Call
    /\ FreeIds = {} /\ allocId < MaxId
    /\ allocId' = allocId + Slots
    /\ UNCHANGED <<slot, lock, pipe, pollVars, cl, held, tellVars, sent, wire, stale, crashed>>

(* ... and from there to the command, which tells the calls apart.         *)
Publish(c) ==
    /\ At(c, "reserved")
    /\ slot' = Claimed(slot, cl[c].id)
    /\ \E cmd \in {"O", "L"} : pipe' = Append(pipe, [cmd |-> cmd, id |-> cl[c].id])
    /\ held' = held \cup {cl[c].id}
    /\ cl' = [cl EXCEPT ![c] = [pc |-> "idle"]]
    /\ UNCHANGED <<lock, allocId, pollVars, tellVars, callVars, wire, stale, crashed>>

(* socket_server_close, socket_server_shutdown, socket_server_start and    *)
(* socket_server_pause.                                                    *)
Request(c) ==
    /\ At(c, "idle")
    /\ Call
    /\ \E id \in held, cmd \in {"K", "shutdown", "R", "S"} :
          pipe' = Append(pipe, [cmd |-> cmd, id |-> id])
    /\ UNCHANGED <<sockVars, pollVars, cl, held, tellVars, sent, wire, stale, crashed>>

(* socket_server_send up to the lock of the direct write, and              *)
(* socket_server_send_lowpriority up to inc_sending_ref, where the socket  *)
(* is there and not closing; otherwise they fail.  Services send to        *)
(* sockets that were reported open: before that the protocol of the slot   *)
(* is unknown, and inc_sending_ref would not count what dec_sending_ref    *)
(* counts back.                                                            *)
Send(c) ==
    /\ At(c, "idle")
    /\ Cardinality(sent) < MaxSends /\ Call
    /\ \E id \in opened, low \in BOOLEAN :
          LET i == HASH_ID(id)
              m == [n |-> Cardinality(sent) + 1, by |-> c, to |-> id, low |-> low]
              direct == ~low /\ can_direct_write(i, id) /\ lock[i] = None
          IN  /\ ~socket_invalid(i, id)
              /\ low \/ ~slot[i].closing
              /\ sent' = sent \cup {m}
              /\ lock' = IF direct THEN [lock EXCEPT ![i] = c] ELSE lock
              /\ cl' = [cl EXCEPT ![c] = [pc |-> IF direct THEN "locked" ELSE "inc", m |-> m]]
    /\ UNCHANGED <<slot, allocId, pipe, pollVars, held, tellVars, wire, stale, crashed>>

(* Under the lock, the second can_direct_write: first the buffers ...      *)
DoubleCheck(c) ==
    /\ At(c, "locked")
    /\ LET i == HASH_ID(cl[c].m.to)
       IN  \/ /\ NothingQueued(i)
              /\ cl' = [cl EXCEPT ![c].pc = "checked"]
              /\ UNCHANGED lock
           \/ /\ ~NothingQueued(i)
              /\ cl' = [cl EXCEPT ![c].pc = "inc"]
              /\ lock' = [lock EXCEPT ![i] = None]
    /\ UNCHANGED <<slot, allocId, pipe, pollVars, held, tellVars, callVars, wire, stale, crashed>>

(* ... then the rest of the check and the write: all of the message, or a  *)
(* part or nothing, which leaves the rest in dw_buffer.                    *)
DirectWrite(c) ==
    /\ At(c, "checked")
    /\ LET m == cl[c].m
           i == HASH_ID(m.to)
       IN  /\ lock' = [lock EXCEPT ![i] = None]
           /\ \/ /\ ReadyToWrite(i, m.to)
                 /\ \E n \in 0 .. 2 :
                       /\ wire' = [wire EXCEPT ![m.to] = @ \o [k \in 1 .. n |-> <<m, k>>]]
                       /\ slot' = IF n = 2 THEN slot
                                  ELSE [slot EXCEPT ![i].dw = [m |-> m, left |-> 2 - n]]
                       /\ cl' = [cl EXCEPT ![c] = IF n = 2 THEN [pc |-> "idle"]
                                                  ELSE [pc |-> "wake", m |-> m]]
              \/ /\ ~ReadyToWrite(i, m.to)
                 /\ cl' = [cl EXCEPT ![c].pc = "inc"]
                 /\ UNCHANGED <<slot, wire>>
    /\ UNCHANGED <<allocId, pipe, pollVars, held, tellVars, callVars, stale, crashed>>

Wake(c) ==
    /\ At(c, "wake")
    /\ pipe' = Append(pipe, [cmd |-> "W", id |-> cl[c].m.to])
    /\ cl' = [cl EXCEPT ![c] = [pc |-> "idle"]]
    /\ UNCHANGED <<sockVars, pollVars, held, tellVars, callVars, wire, stale, crashed>>

inc_sending_ref(c) ==
    /\ At(c, "inc")
    /\ LET id == cl[c].m.to
           i  == HASH_ID(id)
       IN  slot' = IF slot[i].tcp /\ slot[i].tag = ID_TAG16(id)
                   THEN [slot EXCEPT ![i].sending = @ + 1] ELSE slot
    /\ cl' = [cl EXCEPT ![c].pc = "push"]
    /\ UNCHANGED <<lock, allocId, pipe, pollVars, held, tellVars, callVars, wire, stale, crashed>>

SendCommand(c) ==
    /\ At(c, "push")
    /\ pipe' = Append(pipe, [cmd |-> IF cl[c].m.low THEN "P" ELSE "D",
                             id |-> cl[c].m.to, m |-> cl[c].m])
    /\ cl' = [cl EXCEPT ![c] = [pc |-> "idle"]]
    /\ UNCHANGED <<sockVars, pollVars, held, tellVars, callVars, wire, stale, crashed>>

-----------------------------------------------------------------------------
(* Commands, ctrl_cmd.                                                     *)

Cmd == Head(pipe)

(* The frame of a command.  One for an id whose slot another thread has    *)
(* just reserved, and has not written its id to, finds the old id there.   *)
Ctrl(cmds) ==
    /\ Running /\ poll = "ctrl" /\ fc = None
    /\ pipe # <<>> /\ Cmd.cmd \in cmds
    /\ pipe' = Tail(pipe)
    /\ UNCHANGED <<poll, cl, callVars>>

Stale == stale' = (stale \/ LET s == slot[HASH_ID(Cmd.id)]
                            IN  s.type = "RESERVE" /\ s.id = Cmd.id)

Opened(id, type, reading, writing) ==
    LET i == HASH_ID(id)
    IN  slot' = [slot EXCEPT ![i] =
                   [id |-> id, type |-> type, tcp |-> TRUE, closing |-> FALSE,
                    reading |-> reading, writing |-> writing, high |-> <<>>, low |-> <<>>,
                    dw |-> None, tag |-> ID_TAG16(id), sending |-> 0, wb |-> 0]]

(* The assertions of new_fd.                                               *)
CanOpen(id) == slot[HASH_ID(id)].type = "RESERVE" /\ send_buffer_empty(HASH_ID(id))

Failed(id) ==
    /\ slot' = [slot EXCEPT ![HASH_ID(id)].type = "INVALID"]
    /\ clear_closed_event(slot', id)

(* What the two opening commands make of a slot: a connect is complete or  *)
(* in progress.                                                            *)
Outcome == [O |-> {"CONNECTED", "CONNECTING"}, L |-> {"PLISTEN"}]

(* open_socket and listen_socket: the socket comes up, or the host is      *)
(* unknown, the connection refused, or sp_add fails.                       *)
open_socket ==
    /\ Ctrl({"O", "L"})
    /\ LET id == Cmd.id
       IN  \/ /\ \E type \in Outcome[Cmd.cmd] :
                    /\ Opened(id, type, type # "PLISTEN", type = "CONNECTING")
                    /\ IF type = "CONNECTING" THEN Silent ELSE Report("OPEN", id)
              /\ crashed' = ~CanOpen(id)
              /\ UNCHANGED batch
           \/ /\ Failed(id) /\ Silent
              /\ crashed' = (Cmd.cmd # "O" /\ slot[HASH_ID(id)].type # "RESERVE")
    /\ UNCHANGED <<lock, allocId, fc, held, wire, stale>>

(* A command for a socket that is gone is ignored; a start reports an      *)
(* error.                                                                  *)
Ignored ==
    /\ Ctrl({"K", "shutdown", "R", "S", "W"})
    /\ socket_invalid(HASH_ID(Cmd.id), Cmd.id)
    /\ IF Cmd.cmd = "R" THEN clear_closed_event(slot, Cmd.id) ELSE UNCHANGED batch
    /\ UNCHANGED <<sockVars, fc, held, tellVars, wire, stale, crashed>>

Valid(cmds) ==
    /\ Ctrl(cmds) /\ Stale
    /\ ~socket_invalid(HASH_ID(Cmd.id), Cmd.id)

close_socket ==
    /\ Valid({"K", "shutdown"})
    /\ UNCHANGED batch
    /\ LET i == HASH_ID(Cmd.id)
           half == halfclose_read(i)
       IN  \/ /\ Cmd.cmd = "shutdown" \/ nomore_sending_data(i)
              /\ ForceClose(i, IF half THEN "none" ELSE "CLOSE", TRUE)
           \/ /\ Cmd.cmd = "K" /\ ~nomore_sending_data(i)
              /\ slot' = [slot EXCEPT ![i].closing = TRUE,
                                      ![i].type = "HALFCLOSE_READ",
                                      ![i].reading = IF half THEN @ ELSE FALSE]
              /\ IF half THEN Silent ELSE Report("CLOSE", Cmd.id)
              /\ UNCHANGED <<lock, allocId, fc, held, wire, crashed>>

resume_socket ==
    /\ Valid({"R"})
    /\ LET i == HASH_ID(Cmd.id)
           t == slot[i].type
       IN  \/ /\ halfclose_read(i)
              /\ UNCHANGED slot /\ Silent
           \/ /\ ~halfclose_read(i)
              /\ slot' = [slot EXCEPT ![i].reading = TRUE,
                                      ![i].type = CASE t = "PACCEPT" -> "CONNECTED"
                                                    [] t = "PLISTEN" -> "LISTEN"
                                                    [] OTHER -> t]
              /\ IF t \in {"PACCEPT", "PLISTEN", "CONNECTED"} THEN Report("OPEN", Cmd.id)
                                                              ELSE Silent
    /\ UNCHANGED <<lock, allocId, batch, fc, held, wire, crashed>>

pause_socket ==
    /\ Valid({"S"})
    /\ slot' = [slot EXCEPT ![HASH_ID(Cmd.id)].reading = FALSE]
    /\ UNCHANGED <<lock, allocId, batch, fc, held, tellVars, wire, crashed>>

trigger_writeForLists ==             \* mutation: only the lists are looked at
    /\ Valid({"W"})
    /\ slot' = [slot EXCEPT ![HASH_ID(Cmd.id)].writing = @ \/ ~send_buffer_empty(HASH_ID(Cmd.id))]
    /\ UNCHANGED <<lock, allocId, batch, fc, held, tellVars, wire, crashed>>

trigger_write ==
    /\ Valid({"W"})
    /\ slot' = [slot EXCEPT ![HASH_ID(Cmd.id)].writing = TRUE]
    /\ UNCHANGED <<lock, allocId, batch, fc, held, tellVars, wire, crashed>>

(* The sockets for which send_socket drops the message.                    *)
RefusesHalfclosed(i, id) ==          \* mutation: the peer's half-close ends writing too
    \/ socket_invalid(i, id) \/ slot[i].closing
    \/ slot[i].type \in {"HALFCLOSE_READ", "HALFCLOSE_WRITE", "PACCEPT", "PLISTEN", "LISTEN"}

Refuses(i, id) ==
    \/ socket_invalid(i, id) \/ slot[i].closing
    \/ slot[i].type \in {"HALFCLOSE_WRITE", "PACCEPT", "PLISTEN", "LISTEN"}

(* The slots after send_socket, which otherwise appends it.                *)
send_socket(i, m) ==
    LET b == [m |-> m, left |-> 2]
        low == m.low /\ ~send_buffer_empty(i)
    IN  IF Refuses(i, m.to) THEN slot
        ELSE [slot EXCEPT ![i].high = IF low THEN @ ELSE Append(@, b),
                          ![i].low  = IF low THEN Append(@, b) ELSE @,
                          ![i].wb = @ + 2,
                          ![i].writing = @ \/ send_buffer_empty(i)]

(* The messages that dec_sending_ref counts back.                          *)
CountedAnyId(i, id) == slot[i].tcp   \* mutation: the id is not compared

Counted(i, id) == slot[i].id = id /\ slot[i].tcp

(* A 'D' or 'P': send_socket, then dec_sending_ref.                        *)
SendPackage ==
    /\ Ctrl({"D", "P"}) /\ Stale
    /\ LET i == HASH_ID(Cmd.id)
           counted == Counted(i, Cmd.id)
       IN  /\ slot' = [send_socket(i, Cmd.m) EXCEPT
                         ![i].sending = IF counted THEN @ - 1 ELSE @]
           /\ crashed' = (counted /\ slot[i].sending = 0)
    /\ UNCHANGED <<lock, allocId, batch, fc, held, tellVars, wire>>

-----------------------------------------------------------------------------
(* Events, socket_server_poll.                                             *)

(* The pipe is empty: the events that are left come next.                  *)
NoMoreCommands ==
    /\ Running /\ poll = "ctrl" /\ fc = None
    /\ pipe = <<>> /\ batch # <<>>
    /\ poll' = "events"
    /\ UNCHANGED <<sockVars, pipe, batch, fc, cl, held, tellVars, callVars, wire, stale, crashed>>

(* Events that epoll can report of a slot: "r" and "w" if they are asked   *)
(* for.  The hang-up of a connection comes unasked, but makes it readable  *)
(* and writable too, and the code looks at these first.  An error event is *)
(* not modelled: its report changes no state.                              *)
Pending(i) ==
    LET s == slot[i]
        asked == (IF s.reading THEN {"r"} ELSE {}) \cup (IF s.writing THEN {"w"} ELSE {})
                   \cup (IF s.reading /\ s.writing THEN {"rw"} ELSE {})
    IN  CASE s.type \in {"INVALID", "RESERVE", "PLISTEN"} -> {}
          [] s.type = "LISTEN" -> asked \ {"w", "rw"}
          [] s.type = "CONNECTING" -> asked \ {"r", "rw"}
          [] OTHER -> IF asked = {} THEN {"eof"} ELSE asked

(* sp_wait, which comes when no events are left and, unless the last one   *)
(* was dispatched just now, no commands.  The event of the pipe is the     *)
(* first one, and commands come next, or an event of a socket is.          *)
Wait ==
    /\ Running /\ batch = <<>> /\ fc = None
    /\ \/ poll = "events"
       \/ poll = "ctrl" /\ pipe = <<>>
    /\ \E S \in SUBSET {i \in Indices : Pending(i) # {}} :
          \E ev \in {f \in [S -> UNION {Pending(i) : i \in S}] : \A i \in S : f[i] \in Pending(i)} :
             batch' \in SetToSeqs({[i |-> i, kind |-> ev[i]] : i \in S})
    /\ \/ poll' = "ctrl"
       \/ poll' = "first" /\ batch' # <<>>
    /\ UNCHANGED <<sockVars, pipe, fc, cl, held, tellVars, callVars, wire, stale, crashed>>

E == Head(batch)

(* The frame of an event.  After the first one of a batch the commands are *)
(* looked at.                                                              *)
Event(types) ==
    /\ Running /\ poll \in {"first", "events"} /\ fc = None
    /\ batch # <<>> /\ slot[E.i].type \in types
    /\ poll' = IF poll = "first" THEN "ctrl" ELSE "events"
    /\ stale' = (stale \/ slot[E.i].type = "RESERVE")
    /\ UNCHANGED <<pipe, cl, callVars>>

Done == batch' = Tail(batch)

report_connect ==
    /\ Event({"CONNECTING"}) /\ Done
    /\ \/ ForceClose(E.i, "ERR", FALSE)
       \/ /\ slot' = [slot EXCEPT ![E.i].type = "CONNECTED",
                                  ![E.i].writing = @ /\ ~nomore_sending_data(E.i)]
          /\ Report("OPEN", slot[E.i].id)
          /\ UNCHANGED <<lock, allocId, fc, held, wire, crashed>>

(* report_accept: nothing to accept or no descriptor left, no slot left,   *)
(* or a new connection, which waits for a start unless sp_add fails.       *)
report_accept ==
    /\ Event({"LISTEN"}) /\ Done
    /\ \/ UNCHANGED <<slot, allocId, held, crashed>>
       \/ /\ FreeIds = {} /\ allocId < MaxId
          /\ allocId' = allocId + Slots
          /\ UNCHANGED <<slot, held, crashed>>
       \/ /\ FreeIds # {} /\ Min(FreeIds) <= MaxId
          /\ allocId' = Min(FreeIds)
          /\ \/ /\ slot' = Claimed(slot, allocId')
                /\ UNCHANGED <<held, crashed>>
             \/ /\ Opened(allocId', "PACCEPT", FALSE, FALSE)
                /\ held' = held \cup {allocId'}
                /\ crashed' = ~send_buffer_empty(HASH_ID(allocId'))
    /\ UNCHANGED <<lock, fc, tellVars, wire>>

InvalidEvent ==
    /\ Event({"INVALID"}) /\ Done
    /\ UNCHANGED <<sockVars, fc, held, tellVars, wire, crashed>>

(* An event of the socket that had the slot before comes to a slot that    *)
(* is reserved.  A hang-up, and a read while the protocol is not known,    *)
(* end in the assertion of force_close.                                    *)
StaleEvent ==
    /\ Event({"RESERVE"}) /\ Done
    /\ crashed' = (E.kind = "eof" \/ (E.kind \in {"r", "rw"} /\ ~slot[E.i].tcp))
    /\ UNCHANGED <<sockVars, fc, held, tellVars, wire>>

(* The rest, by the kind of the event.  It may also be one of the socket   *)
(* before when a new one has been opened in the meantime.                  *)
Connections == {"CONNECTED", "HALFCLOSE_READ", "HALFCLOSE_WRITE", "PACCEPT"}
Streams     == Connections \cup {"PLISTEN"}

(* What is left of the event after a read: the write, if there is one.     *)
ReadDone == batch' = IF E.kind = "rw" THEN <<[E EXCEPT !.kind = "w"]>> \o Tail(batch)
                                      ELSE Tail(batch)

(* forward_message_tcp, by the outcome of the read.                        *)
ReadAgain ==
    /\ Event(Streams) /\ E.kind \in {"r", "rw"}
    /\ ReadDone
    /\ UNCHANGED <<sockVars, fc, held, tellVars, wire, crashed>>

ReadError ==
    /\ Event(Streams) /\ E.kind \in {"r", "rw"}
    /\ Done
    /\ UNCHANGED <<sockVars, fc, held, tellVars, wire, crashed>>

ReadData ==
    /\ Event(Connections) /\ E.kind \in {"r", "rw"}
    /\ \/ /\ ~halfclose_read(E.i)
          /\ ReadDone \/ UNCHANGED batch
          /\ Report("DATA", slot[E.i].id)
       \/ /\ halfclose_read(E.i)
          /\ ReadDone
          /\ Silent
    /\ UNCHANGED <<sockVars, fc, held, wire, crashed>>

ReadEnd ==
    /\ Event(Connections) /\ E.kind \in {"r", "rw"}
    /\ LET i == E.i
           s == slot[i]
           Keep == UNCHANGED <<lock, allocId, fc, held, wire, crashed>>
       IN  \/ /\ s.closing /\ nomore_sending_data(i)
              /\ ReadDone /\ ForceClose(i, "none", FALSE)
           \/ /\ s.type = "HALFCLOSE_READ" /\ ~(s.closing /\ nomore_sending_data(i))
              /\ ReadDone /\ Silent /\ UNCHANGED slot /\ Keep
           \/ /\ ~s.closing /\ s.type = "HALFCLOSE_WRITE"
              /\ Done /\ ForceClose(i, "CLOSE", FALSE)
           \/ /\ ~s.closing /\ s.type \notin {"HALFCLOSE_READ", "HALFCLOSE_WRITE"}
              /\ slot' = [slot EXCEPT ![i].type = "HALFCLOSE_READ", ![i].reading = FALSE]
              /\ Done /\ Report("CLOSE", s.id) /\ Keep

(* The hang-up of a connection.                                            *)
Eof ==
    /\ Event(Streams) /\ E.kind = "eof" /\ Done
    /\ ForceClose(E.i, IF halfclose_read(E.i) THEN "none" ELSE "CLOSE", FALSE)

-----------------------------------------------------------------------------
(* The write event, send_buffer.                                           *)

Parts(b) == IF b.left = 2 THEN <<<<b.m, 1>>, <<b.m, 2>>>> ELSE <<<<b.m, 2>>>>

(* The length of the high list after k of its h buffers, or all of them    *)
(* and some low ones, were written.  A low buffer that was cut moves to it *)
(* (raise_uncomplete).                                                     *)
HighLeftUnraised(h, k, cut) ==       \* mutation: no raise_uncomplete
    IF k < h THEN h - k ELSE 0

HighLeft(h, k, cut) == IF k < h THEN h - k ELSE IF cut THEN 1 ELSE 0

(* Slot i with the buffers all, of which k were written, and of the next   *)
(* one a part if cut; the first h of them are the high list.               *)
Written(i, all, h, k, cut) ==
    LET rest == SubSeq(all, k + 1, Len(all))
        left == IF cut THEN [rest EXCEPT ![1].left = 1] ELSE rest
        high == HighLeft(h, k, cut)
        out  == FlattenSeq([j \in 1 .. k |-> Parts(all[j])])
                  \o (IF cut THEN <<<<rest[1].m, 1>>>> ELSE <<>>)
    IN  [out |-> out,
         slot |-> [slot[i] EXCEPT !.high = SubSeq(left, 1, high),
                                  !.low = SubSeq(left, high + 1, Len(left)),
                                  !.dw = None,
                                  !.wb = @ + (IF slot[i].dw = None THEN 0 ELSE slot[i].dw.left)
                                           - Len(out)]]

(* What force_close leaves, called with the lock held.                     *)
Freed(s) == [s EXCEPT !.type = "INVALID", !.high = <<>>, !.low = <<>>, !.dw = None]

(* close_write.                                                            *)
WriteFailed(s) ==
    CASE s.closing \/ s.type = "HALFCLOSE_READ" -> Freed(s)
      [] OTHER -> [s EXCEPT !.type = "HALFCLOSE_WRITE", !.writing = @ /\ s.type = "HALFCLOSE_WRITE"]

(* Step 4 of send_buffer_: both lists are empty.                           *)
check_close(s) == IF s.closing THEN Freed(s) ELSE [s EXCEPT !.writing = FALSE]

WriteBlocked ==
    /\ Event(Streams) /\ E.kind = "w" /\ Done
    /\ lock[E.i] # None
    /\ UNCHANGED <<sockVars, fc, held, tellVars, wire, crashed>>

send_buffer ==
    /\ Event(Streams) /\ E.kind = "w" /\ Done
    /\ lock[E.i] = None
    /\ LET i == E.i
           s == slot[i]
           dw == IF s.dw = None THEN <<>> ELSE <<s.dw>>
           all == dw \o s.high \o s.low
           h == Len(dw) + Len(s.high)
           shut == s.type \in {"HALFCLOSE_WRITE", "PLISTEN"}
           uncomplete == \E j \in DOMAIN s.low : j = 1 /\ s.low[j].left = 1
       IN  \E k \in 0 .. Len(all), cut \in BOOLEAN, fails \in BOOLEAN :
              LET w == Written(i, all, h, k, cut)
              IN  /\ cut => ~fails /\ k < Len(all) /\ all[k + 1].left = 2
                  /\ fails => k < Len(all)
                  /\ shut => k = 0 /\ ~cut /\ (fails \/ all = <<>>)
                  /\ wire' = IF w.out = <<>> THEN wire ELSE [wire EXCEPT ![s.id] = @ \o w.out]
                  /\ slot' = [slot EXCEPT ![i] = IF fails THEN WriteFailed(w.slot)
                                                 ELSE IF k = Len(all) THEN check_close(w.slot)
                                                 ELSE w.slot]
                  /\ crashed' = (uncomplete \/ (k = Len(all) /\ w.slot.wb # 0))
    /\ UNCHANGED <<lock, allocId, fc, held, tellVars>>

-----------------------------------------------------------------------------
Next ==
    \/ \E c \in Clients :
          \/ Open(c) \/ OpenFull(c) \/ Publish(c) \/ Request(c)
          \/ Send(c) \/ DoubleCheck(c) \/ DirectWrite(c) \/ Wake(c)
          \/ inc_sending_ref(c) \/ SendCommand(c)
    \/ open_socket \/ Ignored \/ close_socket \/ resume_socket \/ pause_socket
    \/ trigger_write \/ SendPackage \/ FinishClose
    \/ NoMoreCommands \/ Wait
    \/ report_connect \/ report_accept \/ InvalidEvent
    \/ StaleEvent \/ ReadAgain \/ ReadError \/ ReadData \/ ReadEnd
    \/ WriteBlocked \/ send_buffer \/ Eof

Spec == Init /\ [][Next]_vars

-----------------------------------------------------------------------------
(* Properties.                                                             *)

TypeOK ==
    /\ slot \in [Indices -> [id : 0 .. MaxId, type : Types, tcp : BOOLEAN,
                             closing : BOOLEAN, reading : BOOLEAN, writing : BOOLEAN,
                             high : Seq(Buffers), low : Seq(Buffers),
                             dw : Buffers \cup {None}, tag : Nat,
                             sending : 0 .. MaxSends, wb : 0 .. 2 * MaxSends]]
    /\ lock \in [Indices -> Clients \cup {None}]
    /\ allocId \in 0 .. MaxId + Slots
    /\ poll \in {"ctrl", "events", "first"}
    /\ opened \subseteq held /\ closed \subseteq held /\ held \subseteq Ids
    /\ sent \subseteq Messages

(* An id whose socket still takes and sends data.                          *)
Sending(id) ==
    LET i == HASH_ID(id)
    IN  /\ slot[i].id = id /\ ~slot[i].closing
        /\ slot[i].type \in {"CONNECTED", "HALFCLOSE_READ"}
        /\ fc = None \/ fc.i # i

(* A connection carries its own messages only, each at most once, those    *)
(* that one service sends at high priority in the order it sent them, and  *)
(* no message is cut by another one: not by a direct write that overtakes  *)
(* the buffers, nor by a low message that has begun when a high one comes. *)
(* Only on a socket that is being closed may a message stay cut: there     *)
(* force_close frees the rest of it before it takes the lock, and a direct *)
(* write may still follow.                                                 *)
StreamIntact ==
    \A id \in Ids :
       LET w == wire[id]
       IN  /\ \A a, b \in DOMAIN w :
                 /\ w[a][1].to = id
                 /\ a # b => w[a] # w[b]
                 /\ a < b /\ w[a][1].by = w[b][1].by /\ ~w[a][1].low /\ ~w[b][1].low
                       => w[a][1].n <= w[b][1].n
           /\ \A a \in DOMAIN w :
                 /\ w[a][2] = 2 => a > 1 /\ w[a - 1] = <<w[a][1], 1>>
                 /\ w[a][2] = 1 /\ a < Len(w) /\ Sending(id) => w[a + 1] = <<w[a][1], 2>>

(* A message that a send call took is not lost while its socket is open:   *)
(* it was written, or the service, the pipe or the socket still has it.    *)
NoSilentLoss ==
    \A m \in sent :
       Sending(m.to) =>
          LET s == slot[HASH_ID(m.to)]
          IN  \/ \E a \in DOMAIN wire[m.to] : wire[m.to][a] = <<m, 2>>
              \/ \E c \in Clients : "m" \in DOMAIN cl[c] /\ cl[c].m = m
              \/ \E j \in DOMAIN pipe : "m" \in DOMAIN pipe[j] /\ pipe[j].m = m
              \/ \E b \in Range(s.high \o s.low) : b.m = m
              \/ s.dw # None /\ s.dw.m = m

(* What is queued on an open socket is under way: its write event is on,   *)
(* or the command that turns it on is coming.  A direct write that was cut *)
(* short and the socket thread that has just emptied the buffers must not  *)
(* leave the rest to nobody.                                               *)
TransmissionArmed ==
    \A id \in Ids :
       LET i == HASH_ID(id)
       IN  Sending(id) /\ ~NothingQueued(i) =>
              \/ slot[i].writing
              \/ \E j \in DOMAIN pipe : pipe[j].cmd = "W" /\ pipe[j].id = id
              \/ \E c \in Clients : cl[c].pc = "wake" /\ cl[c].m.to = id

(* SOCKET_CLOSE is the last that a service hears of an id, errors of later *)
(* writes excepted, whoever closes and whatever the batch still holds.     *)
NothingAfterClose == ~stale => late = {}

(* The assertions of the socket thread fail in one case only: reserve_id   *)
(* has taken a slot and a command or an event of the socket before reaches *)
(* it.                                                                     *)
AssertionsHold == crashed => stale

(* "waiting for sending data out": a socket whose close was put off has    *)
(* data to send.  With nothing to send it waits for ever, since only the   *)
(* write that empties the buffers closes it.                               *)
ClosingHasData ==
    \A i \in Indices :
       slot[i].closing /\ slot[i].type = "HALFCLOSE_READ" /\ (fc = None \/ fc.i # i)
          => ~nomore_sending_data(i)
=============================================================================
