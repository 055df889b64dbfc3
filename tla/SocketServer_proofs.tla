------------------------ MODULE SocketServer_proofs -------------------------
(***************************************************************************)
(* Theorems about the socket server, for every number of slots, services,  *)
(* ids, calls and messages.                                                *)
(***************************************************************************)
EXTENDS SocketServer, Inductions, FiniteSetTheorems

Plain    == {"O", "L", "K", "shutdown", "R", "S", "W"}
Packages == {"D", "P"}
Commands == [cmd : Plain, id : Ids] \cup [cmd : Packages, id : Ids, m : Messages]
Kinds    == {"r", "w", "rw", "eof"}
Events   == [i : Indices, kind : Kinds]
Busy     == {"locked", "checked", "inc", "push"}
Carrying == [pc : Busy \cup {"wake"}, m : Messages]
Reserving == [pc : {"reserved"}, id : Ids]
Callers  == [pc : {"idle"}] \cup Reserving \cup Carrying
Sockets  == [id : 0 .. MaxId, type : Types, tcp : BOOLEAN,
             closing : BOOLEAN, reading : BOOLEAN, writing : BOOLEAN,
             high : Seq(Buffers), low : Seq(Buffers),
             dw : Buffers \cup {None}, tag : Nat, sending : Int, wb : Int]

(* The type of every variable.  The bounds of the two counters of a socket *)
(* come later.                                                             *)
SocketType ==
    /\ slot \in [Indices -> Sockets]
    /\ lock \in [Indices -> Clients \cup {None}]
    /\ allocId \in 0 .. MaxId + Slots
    /\ pipe \in Seq(Commands)
    /\ poll \in {"ctrl", "events", "first"}
    /\ batch \in Seq(Events)
    /\ fc \in Closings \cup {None}
    /\ cl \in [Clients -> Callers]
    /\ held \subseteq Ids /\ opened \subseteq 0 .. MaxId /\ closed \subseteq 0 .. MaxId
    /\ sent \subseteq Messages /\ IsFiniteSet(sent) /\ Cardinality(sent) <= MaxSends
    /\ wire \in [Ids -> Seq(Messages \X {1, 2})]
    /\ stale \in BOOLEAN /\ crashed \in BOOLEAN

(* An id is in one slot, and the slot and the tag tell which it is.        *)
LEMMA HashFacts ==
    /\ \A id \in Nat : HASH_ID(id) \in Indices /\ ID_TAG16(id) \in Nat
    /\ \A a, b \in Nat : HASH_ID(a) = HASH_ID(b) /\ ID_TAG16(a) = ID_TAG16(b) => a = b
<1>1. \A id \in Nat : HASH_ID(id) \in Indices /\ ID_TAG16(id) \in Nat
  BY SocketAssumption DEF HASH_ID, ID_TAG16, Indices
<1>2. \A id \in Nat : id = Slots * ID_TAG16(id) + HASH_ID(id)
  BY SocketAssumption DEF HASH_ID, ID_TAG16
<1> QED BY <1>1, <1>2

LEMMA IdFacts ==
    /\ Ids \subseteq Nat /\ Indices \subseteq Nat /\ 0 \notin Ids
    /\ \A id \in Ids : HASH_ID(id) \in Indices /\ ID_TAG16(id) \in Nat /\ id \in 0 .. MaxId
<1>1. /\ Ids \subseteq Nat /\ Indices \subseteq Nat /\ 0 \notin Ids
      /\ \A id \in Ids : id \in Nat /\ id \in 0 .. MaxId
  BY SocketAssumption DEF Ids, Indices
<1> QED BY <1>1, HashFacts
LEMMA CallerFacts ==
    ASSUME SocketType, NEW c \in Clients
    PROVE  /\ cl[c] \in Callers
           /\ cl[c].pc = "reserved" => cl[c] \in Reserving /\ cl[c].id \in Ids
           /\ cl[c].pc \in Busy \cup {"wake"} => cl[c] \in Carrying /\ cl[c].m \in Messages
<1>1. cl[c] \in Callers
  BY DEF SocketType
<1>2. cl[c].pc = "reserved" => cl[c] \in Reserving
  BY <1>1 DEF Callers, Carrying, Busy
<1>3. cl[c].pc \in Busy \cup {"wake"} => cl[c] \in Carrying
  BY <1>1 DEF Callers, Reserving, Busy
<1> QED BY <1>1, <1>2, <1>3 DEF Reserving, Carrying

LEMMA CommandFacts ==
    \A x \in Commands : /\ x.id \in Ids /\ x.cmd \in Plain \cup Packages
                        /\ x.cmd \in Packages => x.m \in Messages
BY DEF Commands, Plain, Packages

LEMMA PipeFacts ==
    ASSUME SocketType
    PROVE  /\ \A j \in DOMAIN pipe : /\ j \in Nat /\ pipe[j] \in Commands /\ pipe[j].id \in Ids
                                     /\ pipe[j].cmd \in Packages => pipe[j].m \in Messages
           /\ pipe # <<>> => /\ 1 \in DOMAIN pipe /\ Cmd = pipe[1] /\ Cmd \in Commands
                             /\ Tail(pipe) \in Seq(Commands)
<1>1. pipe \in Seq(Commands)
  BY DEF SocketType
<1>2. \A j \in DOMAIN pipe : j \in Nat /\ pipe[j] \in Commands
  BY <1>1
<1>3. pipe # <<>> => /\ 1 \in DOMAIN pipe /\ Head(pipe) = pipe[1] /\ Tail(pipe) \in Seq(Commands)
  BY <1>1
<1> QED BY <1>2, <1>3, CommandFacts DEF Cmd

LEMMA MessageFacts ==
    \A m \in Messages : m.n \in Nat /\ m.n >= 1 /\ m.to \in Ids /\ m.by \in Clients /\ m.low \in BOOLEAN
BY SocketAssumption DEF Messages

LEMMA EventFacts ==
    ASSUME SocketType, batch # <<>>
    PROVE  /\ E \in Events /\ E.i \in Indices /\ E.kind \in Kinds
           /\ Tail(batch) \in Seq(Events)
<1>1. batch \in Seq(Events)
  BY DEF SocketType
<1>2. E \in Events /\ Tail(batch) \in Seq(Events)
  BY <1>1 DEF E
<1> QED BY <1>2 DEF Events

LEMMA ClearedBatch ==
    ASSUME SocketType, NEW sl, NEW id, clear_closed_event(sl, id)
    PROVE  batch' \in Seq(Events)
<1> DEFINE ss == [j \in DOMAIN batch |->
                    LET s == sl[batch[j].i]
                    IN  IF s.type = "INVALID" /\ s.id = id THEN <<>> ELSE <<batch[j]>>]
<1>1. batch \in Seq(Events)
  BY DEF SocketType
<1>2. ss \in Seq(Seq(Events))
  <2>1. DOMAIN batch = 1 .. Len(batch) /\ Len(batch) \in Nat /\ \A j \in DOMAIN batch : batch[j] \in Events
    BY <1>1
  <2>2. \A j \in DOMAIN batch : ss[j] \in Seq(Events)
    BY <2>1
  <2> HIDE DEF ss
  <2>3. ss \in [1 .. Len(batch) -> Seq(Events)]
    BY <2>1, <2>2 DEF ss
  <2> QED BY <2>1, <2>3
<1>3. batch' = FlattenSeq(ss)
  BY DEF clear_closed_event
<1> HIDE DEF ss
<1> QED BY <1>2, <1>3, FlattenType
-----------------------------------------------------------------------------
(* The steps change one socket at most.                                    *)

Others(i) == \A j \in Indices \ {i} : slot'[j] = slot[j]

(* The types of the variables that are not about one socket.               *)
RestType ==
    /\ lock \in [Indices -> Clients \cup {None}]
    /\ allocId \in 0 .. MaxId + Slots
    /\ pipe \in Seq(Commands)
    /\ poll \in {"ctrl", "events", "first"}
    /\ batch \in Seq(Events)
    /\ fc \in Closings \cup {None}
    /\ cl \in [Clients -> Callers]
    /\ held \subseteq Ids /\ opened \subseteq 0 .. MaxId /\ closed \subseteq 0 .. MaxId
    /\ sent \subseteq Messages /\ IsFiniteSet(sent) /\ Cardinality(sent) <= MaxSends
    /\ wire \in [Ids -> Seq(Messages \X {1, 2})]
    /\ stale \in BOOLEAN /\ crashed \in BOOLEAN

LEMMA TypeParts == SocketType <=> slot \in [Indices -> Sockets] /\ RestType
BY DEF SocketType, RestType

(* The fields of a socket.                                                 *)
LEMMA SocketFields ==
    ASSUME SocketType, NEW i \in Indices
    PROVE  /\ slot[i] \in Sockets /\ slot[i].id \in 0 .. MaxId /\ slot[i].id \in Nat
           /\ slot[i].type \in Types /\ slot[i].tcp \in BOOLEAN /\ slot[i].closing \in BOOLEAN
           /\ slot[i].reading \in BOOLEAN /\ slot[i].writing \in BOOLEAN
           /\ slot[i].high \in Seq(Buffers) /\ slot[i].low \in Seq(Buffers)
           /\ slot[i].dw \in Buffers \cup {None} /\ slot[i].tag \in Nat
           /\ slot[i].sending \in Int /\ slot[i].wb \in Int
<1>1. slot[i] \in Sockets
  BY DEF SocketType
<1> QED BY <1>1, SocketAssumption DEF Sockets
-----------------------------------------------------------------------------
(* What the steps do to a socket.  Many leave its buffers and counters     *)
(* alone.                                                                  *)

Calm(i) ==
    /\ slot' \in [Indices -> Sockets] /\ Others(i)
    /\ slot'[i].id = slot[i].id /\ slot'[i].tcp = slot[i].tcp /\ slot'[i].tag = slot[i].tag
    /\ slot'[i].sending = slot[i].sending /\ slot'[i].wb = slot[i].wb
    /\ slot'[i].high = slot[i].high /\ slot'[i].low = slot[i].low /\ slot'[i].dw = slot[i].dw

LEMMA SlotPut ==
    ASSUME SocketType, NEW i \in Indices, NEW t \in Sockets, slot' = [slot EXCEPT ![i] = t]
    PROVE  slot' \in [Indices -> Sockets] /\ Others(i) /\ slot'[i] = t
BY DEF SocketType, Others

LEMMA PutLists ==
    \A s \in Sockets, h, l \in Seq(Buffers) : [s EXCEPT !.high = h, !.low = l] \in Sockets
BY DEF Sockets

LEMMA PutDw ==
    \A s \in Sockets, t \in Types, b \in Buffers \cup {None} :
        [s EXCEPT !.dw = b] \in Sockets /\ [s EXCEPT !.type = t, !.dw = b] \in Sockets
BY DEF Sockets

LEMMA EmptyLists == <<>> \in Seq(Buffers) /\ None \in Buffers \cup {None}
OBVIOUS

LEMMA ForceCloseEffect ==
    ASSUME SocketType, NEW i \in Indices, NEW kind \in {"none", "ERR", "CLOSE"},
           NEW ctrl \in BOOLEAN, ForceClose(i, kind, ctrl)
    PROVE  /\ slot' \in [Indices -> Sockets] /\ Others(i)
           /\ slot'[i] = [slot[i] EXCEPT !.high = <<>>, !.low = <<>>]
           /\ fc' \in Closings /\ fc'.i = i /\ fc'.kind = kind
           /\ crashed' = (slot[i].type = "RESERVE")
           /\ UNCHANGED <<lock, allocId, held, opened, closed, late, wire>>
<1>0. slot \in [Indices -> Sockets] /\ slot[i] \in Sockets
  BY DEF SocketType
<1> DEFINE t == [slot[i] EXCEPT !.high = <<>>, !.low = <<>>]
<1>1. slot' = [slot EXCEPT ![i] = t]
  BY <1>0 DEF ForceClose
<1>2. t \in Sockets
  BY <1>0, PutLists, EmptyLists
<1>3. fc' \in Closings /\ fc'.i = i /\ fc'.kind = kind
  BY DEF ForceClose, Closings
<1>4. /\ crashed' = (slot[i].type = "RESERVE")
      /\ UNCHANGED <<lock, allocId, held, opened, closed, late, wire>>
  BY DEF ForceClose, tellVars
<1> HIDE DEF t
<1>5. slot' \in [Indices -> Sockets] /\ Others(i) /\ slot'[i] = t
  BY <1>1, <1>2, SlotPut
<1> QED BY <1>3, <1>4, <1>5 DEF t

LEMMA ForceCloseFields ==
    ASSUME SocketType, NEW i \in Indices, slot'[i] = [slot[i] EXCEPT !.high = <<>>, !.low = <<>>]
    PROVE  /\ slot'[i].id = slot[i].id /\ slot'[i].tcp = slot[i].tcp /\ slot'[i].tag = slot[i].tag
           /\ slot'[i].sending = slot[i].sending /\ slot'[i].wb = slot[i].wb
           /\ slot'[i].high = <<>> /\ slot'[i].low = <<>> /\ slot'[i].dw = slot[i].dw
           /\ slot'[i].type = slot[i].type /\ slot'[i].closing = slot[i].closing
           /\ slot'[i].reading = slot[i].reading /\ slot'[i].writing = slot[i].writing
<1>1. slot[i] \in Sockets
  BY DEF SocketType
<1> QED BY <1>1 DEF Sockets

LEMMA FinishCloseEffect ==
    ASSUME SocketType, FinishClose
    PROVE  /\ fc \in Closings /\ fc.i \in Indices /\ fc' = None
           /\ slot' \in [Indices -> Sockets] /\ Others(fc.i)
           /\ slot'[fc.i].id = slot[fc.i].id /\ slot'[fc.i].tcp = slot[fc.i].tcp
           /\ slot'[fc.i].tag = slot[fc.i].tag
           /\ slot'[fc.i].sending = slot[fc.i].sending /\ slot'[fc.i].wb = slot[fc.i].wb
           /\ slot'[fc.i].high = slot[fc.i].high /\ slot'[fc.i].low = slot[fc.i].low
           /\ slot'[fc.i].dw = None /\ slot'[fc.i].type = "INVALID"
           /\ slot'[fc.i].closing = slot[fc.i].closing
           /\ batch' \in Seq(Events)
<1>1. fc \in Closings /\ fc.i \in Indices /\ fc' = None
  BY DEF SocketType, FinishClose, Closings
<1> DEFINE i == fc.i
           t == [slot[i] EXCEPT !.type = "INVALID", !.dw = None]
<1>2. slot[i] \in Sockets /\ slot \in [Indices -> Sockets]
  BY <1>1 DEF SocketType
<1>3. slot' = [slot EXCEPT ![i] = t]
  BY <1>1, <1>2 DEF FinishClose
<1>4. t \in Sockets
  BY <1>2, PutDw, EmptyLists DEF Types
<1>5. /\ t.id = slot[i].id /\ t.tcp = slot[i].tcp /\ t.tag = slot[i].tag
      /\ t.sending = slot[i].sending /\ t.wb = slot[i].wb
      /\ t.high = slot[i].high /\ t.low = slot[i].low /\ t.dw = None /\ t.type = "INVALID"
      /\ t.closing = slot[i].closing
  BY <1>2 DEF Sockets
<1>6. batch' \in Seq(Events)
  <2>1. batch' = batch \/ clear_closed_event(slot', slot[i].id)
    BY DEF FinishClose
  <2> QED BY <2>1, ClearedBatch DEF SocketType
<1> HIDE DEF t
<1>7. slot' \in [Indices -> Sockets] /\ Others(i) /\ slot'[i] = t
  BY <1>1, <1>3, <1>4, SlotPut
<1> QED BY <1>1, <1>5, <1>6, <1>7

(* Steps that leave the buffers and the counters of a socket alone.        *)
LEMMA CalmPut ==
    ASSUME SocketType, NEW i \in Indices, NEW t \in Sockets, slot' = [slot EXCEPT ![i] = t],
           t.id = slot[i].id, t.tcp = slot[i].tcp, t.tag = slot[i].tag,
           t.sending = slot[i].sending, t.wb = slot[i].wb,
           t.high = slot[i].high, t.low = slot[i].low, t.dw = slot[i].dw
    PROVE  Calm(i) /\ slot'[i] = t
BY SlotPut DEF Calm

LEMMA ReservedEffect ==
    ASSUME SocketType, NEW id \in Ids, NEW type \in Types,
           slot' = [slot EXCEPT ![HASH_ID(id)].type = type]
    PROVE  LET i == HASH_ID(id)
           IN  /\ i \in Indices /\ Calm(i) /\ slot'[i].type = type
               /\ slot'[i].closing = slot[i].closing /\ slot'[i].writing = slot[i].writing
<1> DEFINE i == HASH_ID(id)
           t == [slot[i] EXCEPT !.type = type]
<1>1. i \in Indices
  BY IdFacts
<1> HIDE DEF i
<1>2. slot[i] \in Sockets /\ slot \in [Indices -> Sockets]
  BY <1>1 DEF SocketType
<1>3. slot' = [slot EXCEPT ![i] = t]
  BY <1>1, <1>2 DEF i
<1>4. t \in Sockets
  BY <1>2 DEF Sockets
<1>5. /\ t.id = slot[i].id /\ t.tcp = slot[i].tcp /\ t.tag = slot[i].tag
      /\ t.sending = slot[i].sending /\ t.wb = slot[i].wb
      /\ t.high = slot[i].high /\ t.low = slot[i].low /\ t.dw = slot[i].dw
      /\ t.type = type /\ t.closing = slot[i].closing /\ t.writing = slot[i].writing
  BY <1>2 DEF Sockets
<1> HIDE DEF t
<1>6. Calm(i) /\ slot'[i] = t
  BY <1>1, <1>3, <1>4, <1>5, CalmPut
<1> QED BY <1>1, <1>5, <1>6 DEF i

(* ... of the kind that change the mode of a socket.                       *)
ModeStep(i, t, c, w) ==
    /\ Calm(i) /\ slot'[i].type = t /\ slot'[i].closing = c /\ slot'[i].writing = w

LEMMA ModePut ==
    ASSUME SocketType, NEW i \in Indices, NEW x \in Sockets, slot' = [slot EXCEPT ![i] = x],
           x.id = slot[i].id, x.tcp = slot[i].tcp, x.tag = slot[i].tag,
           x.sending = slot[i].sending, x.wb = slot[i].wb,
           x.high = slot[i].high, x.low = slot[i].low, x.dw = slot[i].dw
    PROVE  ModeStep(i, x.type, x.closing, x.writing)
BY CalmPut DEF ModeStep

LEMMA CloseMode ==
    ASSUME SocketType, NEW i \in Indices, NEW t \in Types, NEW c \in BOOLEAN, NEW r \in BOOLEAN,
           slot' = [slot EXCEPT ![i].closing = c, ![i].type = t, ![i].reading = r]
    PROVE  ModeStep(i, t, c, slot[i].writing)
<1> DEFINE x == [slot[i] EXCEPT !.closing = c, !.type = t, !.reading = r]
<1>1. slot[i] \in Sockets /\ slot \in [Indices -> Sockets]
  BY DEF SocketType
<1>2. slot' = [slot EXCEPT ![i] = x]
  BY <1>1
<1>3. x \in Sockets
  BY <1>1 DEF Sockets
<1>4. /\ x.id = slot[i].id /\ x.tcp = slot[i].tcp /\ x.tag = slot[i].tag
      /\ x.sending = slot[i].sending /\ x.wb = slot[i].wb
      /\ x.high = slot[i].high /\ x.low = slot[i].low /\ x.dw = slot[i].dw
      /\ x.type = t /\ x.closing = c /\ x.writing = slot[i].writing
  BY <1>1 DEF Sockets
<1> HIDE DEF x
<1>5. ModeStep(i, x.type, x.closing, x.writing)
  BY <1>2, <1>3, <1>4, ModePut
<1> QED BY ONLY <1>4, <1>5

LEMMA ReadMode ==
    ASSUME SocketType, NEW i \in Indices, NEW t \in Types, NEW r \in BOOLEAN,
           slot' = [slot EXCEPT ![i].reading = r, ![i].type = t]
    PROVE  ModeStep(i, t, slot[i].closing, slot[i].writing)
<1> DEFINE x == [slot[i] EXCEPT !.reading = r, !.type = t]
<1>1. slot[i] \in Sockets /\ slot \in [Indices -> Sockets]
  BY DEF SocketType
<1>2. slot' = [slot EXCEPT ![i] = x]
  BY <1>1
<1>3. x \in Sockets
  BY <1>1 DEF Sockets
<1>4. /\ x.id = slot[i].id /\ x.tcp = slot[i].tcp /\ x.tag = slot[i].tag
      /\ x.sending = slot[i].sending /\ x.wb = slot[i].wb
      /\ x.high = slot[i].high /\ x.low = slot[i].low /\ x.dw = slot[i].dw
      /\ x.type = t /\ x.closing = slot[i].closing /\ x.writing = slot[i].writing
  BY <1>1 DEF Sockets
<1> HIDE DEF x
<1>5. ModeStep(i, x.type, x.closing, x.writing)
  BY <1>2, <1>3, <1>4, ModePut
<1> QED BY ONLY <1>4, <1>5

LEMMA EndMode ==
    ASSUME SocketType, NEW i \in Indices, NEW t \in Types, NEW r \in BOOLEAN,
           slot' = [slot EXCEPT ![i].type = t, ![i].reading = r]
    PROVE  ModeStep(i, t, slot[i].closing, slot[i].writing)
<1> DEFINE x == [slot[i] EXCEPT !.type = t, !.reading = r]
<1>1. slot[i] \in Sockets /\ slot \in [Indices -> Sockets]
  BY DEF SocketType
<1>2. slot' = [slot EXCEPT ![i] = x]
  BY <1>1
<1>3. x \in Sockets
  BY <1>1 DEF Sockets
<1>4. /\ x.id = slot[i].id /\ x.tcp = slot[i].tcp /\ x.tag = slot[i].tag
      /\ x.sending = slot[i].sending /\ x.wb = slot[i].wb
      /\ x.high = slot[i].high /\ x.low = slot[i].low /\ x.dw = slot[i].dw
      /\ x.type = t /\ x.closing = slot[i].closing /\ x.writing = slot[i].writing
  BY <1>1 DEF Sockets
<1> HIDE DEF x
<1>5. ModeStep(i, x.type, x.closing, x.writing)
  BY <1>2, <1>3, <1>4, ModePut
<1> QED BY ONLY <1>4, <1>5

LEMMA WriteMode ==
    ASSUME SocketType, NEW i \in Indices, NEW t \in Types, NEW w \in BOOLEAN,
           slot' = [slot EXCEPT ![i].type = t, ![i].writing = w]
    PROVE  ModeStep(i, t, slot[i].closing, w)
<1> DEFINE x == [slot[i] EXCEPT !.type = t, !.writing = w]
<1>1. slot[i] \in Sockets /\ slot \in [Indices -> Sockets]
  BY DEF SocketType
<1>2. slot' = [slot EXCEPT ![i] = x]
  BY <1>1
<1>3. x \in Sockets
  BY <1>1 DEF Sockets
<1>4. /\ x.id = slot[i].id /\ x.tcp = slot[i].tcp /\ x.tag = slot[i].tag
      /\ x.sending = slot[i].sending /\ x.wb = slot[i].wb
      /\ x.high = slot[i].high /\ x.low = slot[i].low /\ x.dw = slot[i].dw
      /\ x.type = t /\ x.closing = slot[i].closing /\ x.writing = w
  BY <1>1 DEF Sockets
<1> HIDE DEF x
<1>5. ModeStep(i, x.type, x.closing, x.writing)
  BY <1>2, <1>3, <1>4, ModePut
<1> QED BY ONLY <1>4, <1>5

LEMMA ReadingMode ==
    ASSUME SocketType, NEW i \in Indices, NEW r \in BOOLEAN,
           slot' = [slot EXCEPT ![i].reading = r]
    PROVE  ModeStep(i, slot[i].type, slot[i].closing, slot[i].writing)
<1> DEFINE x == [slot[i] EXCEPT !.reading = r]
<1>1. slot[i] \in Sockets /\ slot \in [Indices -> Sockets]
  BY DEF SocketType
<1>2. slot' = [slot EXCEPT ![i] = x]
  BY <1>1
<1>3. x \in Sockets
  BY <1>1 DEF Sockets
<1>4. /\ x.id = slot[i].id /\ x.tcp = slot[i].tcp /\ x.tag = slot[i].tag
      /\ x.sending = slot[i].sending /\ x.wb = slot[i].wb
      /\ x.high = slot[i].high /\ x.low = slot[i].low /\ x.dw = slot[i].dw
      /\ x.type = slot[i].type /\ x.closing = slot[i].closing /\ x.writing = slot[i].writing
  BY <1>1 DEF Sockets
<1> HIDE DEF x
<1>5. ModeStep(i, x.type, x.closing, x.writing)
  BY <1>2, <1>3, <1>4, ModePut
<1> QED BY ONLY <1>4, <1>5

LEMMA WritingMode ==
    ASSUME SocketType, NEW i \in Indices, NEW w \in BOOLEAN,
           slot' = [slot EXCEPT ![i].writing = w]
    PROVE  ModeStep(i, slot[i].type, slot[i].closing, w)
<1> DEFINE x == [slot[i] EXCEPT !.writing = w]
<1>1. slot[i] \in Sockets /\ slot \in [Indices -> Sockets]
  BY DEF SocketType
<1>2. slot' = [slot EXCEPT ![i] = x]
  BY <1>1
<1>3. x \in Sockets
  BY <1>1 DEF Sockets
<1>4. /\ x.id = slot[i].id /\ x.tcp = slot[i].tcp /\ x.tag = slot[i].tag
      /\ x.sending = slot[i].sending /\ x.wb = slot[i].wb
      /\ x.high = slot[i].high /\ x.low = slot[i].low /\ x.dw = slot[i].dw
      /\ x.type = slot[i].type /\ x.closing = slot[i].closing /\ x.writing = w
  BY <1>1 DEF Sockets
<1> HIDE DEF x
<1>5. ModeStep(i, x.type, x.closing, x.writing)
  BY <1>2, <1>3, <1>4, ModePut
<1> QED BY ONLY <1>4, <1>5

LEMMA ClaimedEffect ==
    ASSUME SocketType, NEW id \in Ids, slot' = Claimed(slot, id)
    PROVE  LET i == HASH_ID(id)
           IN  /\ i \in Indices /\ slot' \in [Indices -> Sockets] /\ Others(i)
               /\ slot'[i].id = id /\ slot'[i].tcp = FALSE /\ slot'[i].type = slot[i].type
               /\ slot'[i].sending = slot[i].sending /\ slot'[i].wb = slot[i].wb
               /\ slot'[i].high = slot[i].high /\ slot'[i].low = slot[i].low
               /\ slot'[i].dw = slot[i].dw /\ slot'[i].closing = slot[i].closing
<1> DEFINE i == HASH_ID(id)
           t == [slot[i] EXCEPT !.id = id, !.tcp = FALSE]
<1>1. i \in Indices /\ id \in 0 .. MaxId
  BY IdFacts
<1>2. slot' = [slot EXCEPT ![i].id = id, ![i].tcp = FALSE]
  BY DEF Claimed
<1> HIDE DEF i
<1>3. slot[i] \in Sockets /\ slot \in [Indices -> Sockets]
  BY <1>1 DEF SocketType
<1>4. slot' = [slot EXCEPT ![i] = t]
  BY <1>1, <1>2, <1>3
<1>5. t \in Sockets
  BY <1>1, <1>3 DEF Sockets
<1>6. /\ t.id = id /\ t.tcp = FALSE /\ t.type = slot[i].type
      /\ t.sending = slot[i].sending /\ t.wb = slot[i].wb
      /\ t.high = slot[i].high /\ t.low = slot[i].low /\ t.dw = slot[i].dw
      /\ t.closing = slot[i].closing
  BY <1>3 DEF Sockets
<1> HIDE DEF t
<1>7. slot' \in [Indices -> Sockets] /\ Others(i) /\ slot'[i] = t
  BY <1>1, <1>4, <1>5, SlotPut
<1> QED BY <1>1, <1>6, <1>7 DEF i

(* A socket as new_fd leaves it.                                           *)
NewSocket(s, id, type, writing) ==
    /\ s.id = id /\ s.tcp = TRUE /\ s.tag = ID_TAG16(id)
    /\ s.type = type /\ s.closing = FALSE /\ s.writing = writing
    /\ s.sending = 0 /\ s.wb = 0 /\ s.high = <<>> /\ s.low = <<>> /\ s.dw = None

LEMMA OpenedSocket ==
    ASSUME SocketType, NEW id \in Ids, NEW type \in Types,
           NEW reading \in BOOLEAN, NEW writing \in BOOLEAN, Opened(id, type, reading, writing)
    PROVE  LET i == HASH_ID(id)
           IN  /\ i \in Indices /\ slot' \in [Indices -> Sockets] /\ Others(i)
               /\ NewSocket(slot'[i], id, type, writing)
<1> DEFINE i == HASH_ID(id)
           g == ID_TAG16(id)
           t == [id |-> id, type |-> type, tcp |-> TRUE, closing |-> FALSE,
                 reading |-> reading, writing |-> writing, high |-> <<>>, low |-> <<>>,
                 dw |-> None, tag |-> g, sending |-> 0, wb |-> 0]
<1>1. i \in Indices /\ g \in Nat /\ id \in 0 .. MaxId
  BY IdFacts
<1>2. slot' = [slot EXCEPT ![i] = t]
  BY DEF Opened
<1> HIDE DEF i, g
<1>3. t \in Sockets
  BY <1>1, EmptyLists DEF Sockets
<1>4. /\ t.id = id /\ t.tcp = TRUE /\ t.tag = g
      /\ t.type = type /\ t.closing = FALSE /\ t.writing = writing
      /\ t.sending = 0 /\ t.wb = 0
      /\ t.high = <<>> /\ t.low = <<>> /\ t.dw = None
  OBVIOUS
<1> HIDE DEF t
<1>5. slot' \in [Indices -> Sockets] /\ Others(i) /\ slot'[i] = t
  BY <1>1, <1>2, <1>3, SlotPut
<1> QED BY <1>1, <1>4, <1>5 DEF i, g, NewSocket

LEMMA OpenedEffect ==
    ASSUME SocketType, NEW id \in Ids, NEW type \in Types,
           NEW reading \in BOOLEAN, NEW writing \in BOOLEAN, Opened(id, type, reading, writing)
    PROVE  LET i == HASH_ID(id)
           IN  /\ i \in Indices /\ slot' \in [Indices -> Sockets] /\ Others(i)
               /\ slot'[i].id = id /\ slot'[i].tcp = TRUE /\ slot'[i].tag = ID_TAG16(id)
               /\ slot'[i].type = type /\ slot'[i].closing = FALSE /\ slot'[i].writing = writing
               /\ slot'[i].sending = 0 /\ slot'[i].wb = 0
               /\ slot'[i].high = <<>> /\ slot'[i].low = <<>> /\ slot'[i].dw = None
<1>1. LET i == HASH_ID(id)
      IN  /\ i \in Indices /\ slot' \in [Indices -> Sockets] /\ Others(i)
          /\ NewSocket(slot'[i], id, type, writing)
  BY OpenedSocket
<1> QED BY <1>1 DEF NewSocket

(* reserve_id takes an id that was never given out, of a slot that is free.*)
LEMMA FirstFree ==
    ASSUME SocketType, FreeIds # {}, Min(FreeIds) <= MaxId
    PROVE  /\ Min(FreeIds) \in Ids /\ Min(FreeIds) > allocId
           /\ Min(FreeIds) \in 0 .. MaxId + Slots
           /\ slot[HASH_ID(Min(FreeIds))].type = "INVALID"
<1>1. allocId \in Nat
  BY SocketAssumption DEF SocketType
<1>2. FreeIds \in SUBSET Nat
  BY <1>1, SocketAssumption DEF FreeIds
<1>3. \E n \in FreeIds : \A m \in FreeIds : n <= m
  BY <1>2, LeastNatural
<1>4. Min(FreeIds) \in FreeIds
  BY <1>3 DEF Min
<1>5. Min(FreeIds) \in Nat /\ Min(FreeIds) > allocId /\ slot[HASH_ID(Min(FreeIds))].type = "INVALID"
  BY <1>1, <1>4, SocketAssumption DEF FreeIds
<1> HIDE DEF FreeIds
<1> QED BY <1>1, <1>5, SocketAssumption DEF Ids

(* Steps that change the count of what is being sent, and nothing else.    *)
Tally(i, n) ==
    /\ slot' \in [Indices -> Sockets] /\ Others(i)
    /\ slot'[i] = [slot[i] EXCEPT !.sending = n]

LEMMA TallyFields ==
    ASSUME SocketType, NEW i \in Indices, NEW n \in Int, Tally(i, n)
    PROVE  /\ slot'[i].id = slot[i].id /\ slot'[i].tcp = slot[i].tcp /\ slot'[i].tag = slot[i].tag
           /\ slot'[i].sending = n /\ slot'[i].wb = slot[i].wb
           /\ slot'[i].high = slot[i].high /\ slot'[i].low = slot[i].low /\ slot'[i].dw = slot[i].dw
           /\ slot'[i].type = slot[i].type /\ slot'[i].closing = slot[i].closing
           /\ slot'[i].reading = slot[i].reading /\ slot'[i].writing = slot[i].writing
<1>1. slot[i] \in Sockets
  BY DEF SocketType
<1> QED BY <1>1 DEF Tally, Sockets

LEMMA PutSending == \A s \in Sockets, n \in Int : [s EXCEPT !.sending = n] \in Sockets
BY DEF Sockets

LEMMA TallyPut ==
    ASSUME SocketType, NEW i \in Indices, NEW n \in Int, slot' = [slot EXCEPT ![i].sending = n]
    PROVE  Tally(i, n)
<1> DEFINE t == [slot[i] EXCEPT !.sending = n]
<1>1. slot[i] \in Sockets /\ slot \in [Indices -> Sockets]
  BY DEF SocketType
<1>2. slot' = [slot EXCEPT ![i] = t]
  BY <1>1
<1>3. t \in Sockets
  BY <1>1, PutSending
<1> HIDE DEF t
<1>4. slot' \in [Indices -> Sockets] /\ Others(i) /\ slot'[i] = t
  BY <1>2, <1>3, SlotPut
<1> QED BY <1>4 DEF Tally, t

(* inc_sending_ref counts on a socket of its id only.                      *)
Counting(id) == slot[HASH_ID(id)].tcp /\ slot[HASH_ID(id)].tag = ID_TAG16(id)

LEMMA IncEffect ==
    ASSUME SocketType, NEW c \in Clients, inc_sending_ref(c)
    PROVE  LET i == HASH_ID(cl[c].m.to)
           IN  /\ cl[c].pc = "inc" /\ cl[c].m \in Messages /\ i \in Indices
               /\ Tally(i, IF Counting(cl[c].m.to) THEN slot[i].sending + 1 ELSE slot[i].sending)
               /\ cl' = [cl EXCEPT ![c] = [pc |-> "push", m |-> cl[c].m]]
<1> DEFINE id == cl[c].m.to
           i == HASH_ID(id)
           n == IF Counting(id) THEN slot[i].sending + 1 ELSE slot[i].sending
<1>1. cl[c].pc = "inc" /\ cl[c] \in Carrying /\ cl[c].m \in Messages
  BY CallerFacts DEF inc_sending_ref, At, Busy
<1>2. id \in Ids /\ i \in Indices
  BY <1>1, MessageFacts, IdFacts
<1>3. slot' = IF Counting(id) THEN [slot EXCEPT ![i].sending = @ + 1] ELSE slot
  BY DEF inc_sending_ref, Counting
<1>4. cl' = [cl EXCEPT ![c] = [pc |-> "push", m |-> cl[c].m]]
  <2>1. cl' = [cl EXCEPT ![c].pc = "push"]
    BY DEF inc_sending_ref
  <2>2. [cl[c] EXCEPT !.pc = "push"] = [pc |-> "push", m |-> cl[c].m]
    BY <1>1 DEF Carrying
  <2>3. cl' = [cl EXCEPT ![c] = [cl[c] EXCEPT !.pc = "push"]]
    BY <2>1
  <2> QED BY <2>2, <2>3
<1> HIDE DEF id, i
<1>5. slot[i].sending \in Int /\ n \in Int
  BY <1>2, SocketFields
<1>6. Tally(i, n)
  <2>1. slot' = [slot EXCEPT ![i].sending = n]
    <3>1. slot \in [Indices -> Sockets] /\ slot[i] \in Sockets
      BY <1>2 DEF SocketType
    <3>2. CASE Counting(id)
      BY <1>3, <3>2
    <3>3. CASE ~Counting(id)
      <4>1. [slot[i] EXCEPT !.sending = slot[i].sending] = slot[i]
        BY <3>1 DEF Sockets
      <4>2. [slot EXCEPT ![i] = slot[i]] = slot
        BY <3>1, <1>2
      <4> QED BY <1>3, <3>3, <4>1, <4>2
    <3> QED BY <3>2, <3>3
  <2> HIDE DEF n
  <2> QED BY <1>2, <1>5, <2>1, TallyPut
<1> QED BY <1>1, <1>2, <1>4, <1>6 DEF i, id

(* The outcomes of a direct write: it was not the time for it, all was     *)
(* written, or a rest is left in dw_buffer.                                *)
NotWritten(c, m) ==
    /\ ~ReadyToWrite(HASH_ID(m.to), m.to)
    /\ cl' = [cl EXCEPT ![c] = [pc |-> "inc", m |-> m]] /\ UNCHANGED <<slot, wire>>

AllWritten(c, m) ==
    /\ ReadyToWrite(HASH_ID(m.to), m.to)
    /\ wire' = [wire EXCEPT ![m.to] = @ \o <<<<m, 1>>, <<m, 2>>>>]
    /\ cl' = [cl EXCEPT ![c] = [pc |-> "idle"]] /\ UNCHANGED slot

RestKept(c, m, l) ==
    LET i == HASH_ID(m.to)
    IN  /\ ReadyToWrite(i, m.to)
        /\ wire' = [wire EXCEPT ![m.to] = @ \o (IF l = 1 THEN <<<<m, 1>>>> ELSE <<>>)]
        /\ slot' \in [Indices -> Sockets] /\ Others(i)
        /\ slot'[i] = [slot[i] EXCEPT !.dw = [m |-> m, left |-> l]]
        /\ cl' = [cl EXCEPT ![c] = [pc |-> "wake", m |-> m]]

LEMMA DwFields ==
    ASSUME NEW s \in Sockets, NEW b \in Buffers \cup {None}, NEW t, t = [s EXCEPT !.dw = b]
    PROVE  /\ t.id = s.id /\ t.tcp = s.tcp /\ t.tag = s.tag
           /\ t.sending = s.sending /\ t.wb = s.wb
           /\ t.high = s.high /\ t.low = s.low /\ t.dw = b
           /\ t.type = s.type /\ t.closing = s.closing
           /\ t.reading = s.reading /\ t.writing = s.writing
BY DEF Sockets

LEMMA DirectWriteEffect ==
    ASSUME SocketType, NEW c \in Clients, DirectWrite(c)
    PROVE  LET m == cl[c].m
               i == HASH_ID(m.to)
           IN  /\ cl[c].pc = "checked" /\ m \in Messages /\ m.to \in Ids /\ i \in Indices
               /\ lock' = [lock EXCEPT ![i] = None]
               /\ NotWritten(c, m) \/ AllWritten(c, m) \/ \E l \in {1, 2} : RestKept(c, m, l)
<1> DEFINE m == cl[c].m
           i == HASH_ID(m.to)
<1>1. cl[c].pc = "checked" /\ cl[c] \in Carrying /\ m \in Messages
  BY CallerFacts DEF DirectWrite, At, Busy
<1>2. m.to \in Ids /\ i \in Indices
  BY <1>1, MessageFacts, IdFacts
<1>3. lock' = [lock EXCEPT ![i] = None]
  BY DEF DirectWrite
<1>4. \/ /\ ReadyToWrite(i, m.to)
         /\ \E n \in 0 .. 2 :
               /\ wire' = [wire EXCEPT ![m.to] = @ \o [k \in 1 .. n |-> <<m, k>>]]
               /\ slot' = IF n = 2 THEN slot
                          ELSE [slot EXCEPT ![i].dw = [m |-> m, left |-> 2 - n]]
               /\ cl' = [cl EXCEPT ![c] = IF n = 2 THEN [pc |-> "idle"]
                                          ELSE [pc |-> "wake", m |-> m]]
      \/ /\ ~ReadyToWrite(i, m.to)
         /\ cl' = [cl EXCEPT ![c].pc = "inc"]
         /\ UNCHANGED <<slot, wire>>
  BY DEF DirectWrite
<1>5. slot \in [Indices -> Sockets] /\ slot[i] \in Sockets
  BY <1>2 DEF SocketType
<1>6. [cl[c] EXCEPT !.pc = "inc"] = [pc |-> "inc", m |-> m]
  BY <1>1 DEF Carrying
<1> HIDE DEF m, i
<1>7. CASE ~ReadyToWrite(i, m.to)
  <2>1. cl' = [cl EXCEPT ![c] = [cl[c] EXCEPT !.pc = "inc"]] /\ UNCHANGED <<slot, wire>>
    BY <1>4, <1>7
  <2>2. NotWritten(c, m)
    BY <2>1, <1>6, <1>7 DEF NotWritten, i
  <2> QED BY <2>2, <1>1, <1>2, <1>3 DEF m, i
<1>8. CASE ReadyToWrite(i, m.to)
  <2>1. PICK n \in 0 .. 2 :
               /\ wire' = [wire EXCEPT ![m.to] = @ \o [k \in 1 .. n |-> <<m, k>>]]
               /\ slot' = IF n = 2 THEN slot
                          ELSE [slot EXCEPT ![i].dw = [m |-> m, left |-> 2 - n]]
               /\ cl' = [cl EXCEPT ![c] = IF n = 2 THEN [pc |-> "idle"]
                                          ELSE [pc |-> "wake", m |-> m]]
    BY <1>4, <1>8
  <2>2. CASE n = 2
    <3>1. [k \in 1 .. n |-> <<m, k>>] = <<<<m, 1>>, <<m, 2>>>>
      BY <2>2
    <3>2. AllWritten(c, m)
      BY <2>1, <2>2, <3>1, <1>8 DEF AllWritten, i
    <3> QED BY <3>2, <1>1, <1>2, <1>3 DEF m, i
  <2>3. CASE n # 2
    <3> DEFINE l == 2 - n
               b == [m |-> m, left |-> l]
               t == [slot[i] EXCEPT !.dw = b]
    <3>1. l \in {1, 2} /\ b \in Buffers
      BY <2>3, <1>1 DEF Buffers, m
    <3>2. [k \in 1 .. n |-> <<m, k>>] = IF l = 1 THEN <<<<m, 1>>>> ELSE <<>>
      <4>1. CASE n = 1
        BY <4>1
      <4>2. CASE n = 0
        BY <4>2
      <4> QED BY <4>1, <4>2, <2>3
    <3>3. slot' = [slot EXCEPT ![i] = t]
      BY <2>1, <2>3
    <3>4. t \in Sockets
      <4> HIDE DEF b
      <4> QED BY <3>1, <1>5, PutDw DEF Types
    <3>5. slot' \in [Indices -> Sockets] /\ Others(i) /\ slot'[i] = t
      <4> HIDE DEF t
      <4> QED BY <3>3, <3>4, <1>2, SlotPut
    <3>6. RestKept(c, m, l)
      <4>1. cl' = [cl EXCEPT ![c] = [pc |-> "wake", m |-> m]]
        BY <2>1, <2>3
      <4>2. wire' = [wire EXCEPT ![m.to] = @ \o (IF l = 1 THEN <<<<m, 1>>>> ELSE <<>>)]
        BY <2>1, <3>2
      <4> HIDE DEF l
      <4> QED BY <4>1, <4>2, <3>5, <1>8 DEF RestKept, i
    <3> HIDE DEF l
    <3> QED BY <3>1, <3>6, <1>1, <1>2, <1>3 DEF m, i
  <2> QED BY <2>2, <2>3
<1> QED BY <1>7, <1>8

(* send_socket and dec_sending_ref, by what becomes of the message.        *)
Dropped(i, n) == Tally(i, n)

Appended(i, m, n) ==
    LET b == [m |-> m, left |-> 2]
        low == m.low /\ ~send_buffer_empty(i)
    IN  /\ slot' \in [Indices -> Sockets] /\ Others(i)
        /\ slot'[i] = [slot[i] EXCEPT !.high = IF low THEN @ ELSE Append(@, b),
                                      !.low  = IF low THEN Append(@, b) ELSE @,
                                      !.wb = @ + 2,
                                      !.writing = @ \/ send_buffer_empty(i),
                                      !.sending = n]

LEMMA AppendedFields ==
    ASSUME SocketType, NEW i \in Indices, NEW m \in Messages, NEW n \in Int, Appended(i, m, n)
    PROVE  LET b == [m |-> m, left |-> 2]
               low == m.low /\ ~send_buffer_empty(i)
           IN  /\ slot'[i].id = slot[i].id /\ slot'[i].tcp = slot[i].tcp /\ slot'[i].tag = slot[i].tag
               /\ slot'[i].sending = n /\ slot'[i].wb = slot[i].wb + 2
               /\ slot'[i].high = IF low THEN slot[i].high ELSE Append(slot[i].high, b)
               /\ slot'[i].low = IF low THEN Append(slot[i].low, b) ELSE slot[i].low
               /\ slot'[i].dw = slot[i].dw
               /\ slot'[i].type = slot[i].type /\ slot'[i].closing = slot[i].closing
               /\ slot'[i].writing = (slot[i].writing \/ send_buffer_empty(i))
<1>1. slot[i] \in Sockets
  BY DEF SocketType
<1> DEFINE b == [m |-> m, left |-> 2]
           low == m.low /\ ~send_buffer_empty(i)
<1>2. slot'[i] = [slot[i] EXCEPT !.high = IF low THEN @ ELSE Append(@, b),
                                 !.low  = IF low THEN Append(@, b) ELSE @,
                                 !.wb = @ + 2,
                                 !.writing = @ \/ send_buffer_empty(i),
                                 !.sending = n]
  BY DEF Appended
<1> HIDE DEF b, low
<1>3. /\ slot'[i].id = slot[i].id /\ slot'[i].tcp = slot[i].tcp /\ slot'[i].tag = slot[i].tag
      /\ slot'[i].sending = n /\ slot'[i].wb = slot[i].wb + 2
      /\ slot'[i].high = IF low THEN slot[i].high ELSE Append(slot[i].high, b)
      /\ slot'[i].low = IF low THEN Append(slot[i].low, b) ELSE slot[i].low
      /\ slot'[i].dw = slot[i].dw
      /\ slot'[i].type = slot[i].type /\ slot'[i].closing = slot[i].closing
      /\ slot'[i].writing = (slot[i].writing \/ send_buffer_empty(i))
  BY <1>1, <1>2 DEF Sockets
<1> QED BY <1>3 DEF b, low

LEMMA PutQueue ==
    ASSUME NEW s \in Sockets, NEW h \in Seq(Buffers), NEW l \in Seq(Buffers),
           NEW w \in Int, NEW g \in BOOLEAN, NEW n \in Int
    PROVE  [s EXCEPT !.high = h, !.low = l, !.wb = w, !.writing = g, !.sending = n] \in Sockets
BY DEF Sockets

LEMMA SendPackageEffect ==
    ASSUME SocketType, SendPackage
    PROVE  LET id == Cmd.id
               i == HASH_ID(id)
               n == IF Counted(i, id) THEN slot[i].sending - 1 ELSE slot[i].sending
           IN  /\ pipe # <<>> /\ Cmd \in Commands /\ Cmd.cmd \in Packages /\ Cmd.m \in Messages
               /\ id \in Ids /\ i \in Indices /\ n \in Int
               /\ IF Refuses(i, Cmd.m.to) THEN Dropped(i, n) ELSE Appended(i, Cmd.m, n)
<1> DEFINE id == Cmd.id
           m == Cmd.m
           i == HASH_ID(id)
           n == IF Counted(i, id) THEN slot[i].sending - 1 ELSE slot[i].sending
           b == [m |-> m, left |-> 2]
           low == m.low /\ ~send_buffer_empty(i)
<1>1. pipe # <<>> /\ Cmd.cmd \in Packages
  BY DEF SendPackage, Ctrl, Packages
<1>2. Cmd \in Commands /\ m \in Messages /\ id \in Ids
  BY <1>1, PipeFacts, CommandFacts
<1>3. i \in Indices
  BY <1>2, IdFacts
<1>4. slot' = [send_socket(i, m) EXCEPT ![i].sending = IF Counted(i, id) THEN @ - 1 ELSE @]
  BY DEF SendPackage
<1>5. b \in Buffers
  BY <1>2 DEF Buffers
<1> HIDE DEF id, m, i
<1>6. slot \in [Indices -> Sockets] /\ slot[i] \in Sockets /\ n \in Int
  BY <1>3, SocketFields DEF SocketType
<1>7. CASE Refuses(i, m.to)
  <2>1. send_socket(i, m) = slot
    BY <1>7 DEF send_socket
  <2>2. slot' = [slot EXCEPT ![i].sending = n]
    BY <1>4, <2>1, <1>6
  <2>3. Tally(i, n)
    <3> HIDE DEF n
    <3> QED BY <2>2, <1>3, <1>6, TallyPut
  <2> QED BY <1>1, <1>2, <1>3, <1>6, <1>7, <2>3 DEF id, i, m, Dropped
<1>8. CASE ~Refuses(i, m.to)
  <2> DEFINE t == [slot[i] EXCEPT !.high = IF low THEN @ ELSE Append(@, b),
                                  !.low  = IF low THEN Append(@, b) ELSE @,
                                  !.wb = @ + 2,
                                  !.writing = @ \/ send_buffer_empty(i),
                                  !.sending = n]
             u == [slot[i] EXCEPT !.high = IF low THEN @ ELSE Append(@, b),
                                  !.low  = IF low THEN Append(@, b) ELSE @,
                                  !.wb = @ + 2,
                                  !.writing = @ \/ send_buffer_empty(i)]
  <2>1. send_socket(i, m) = [slot EXCEPT ![i] = u]
    BY <1>8, <1>6, <1>3 DEF send_socket
  <2>2. u.sending = slot[i].sending
    BY <1>6 DEF Sockets
  <2>3. [u EXCEPT !.sending = n] = t
    <3> HIDE DEF n, b, low
    <3> QED BY <1>6 DEF Sockets
  <2>4. slot' = [slot EXCEPT ![i] = [u EXCEPT !.sending = n]]
    <3> HIDE DEF u
    <3> QED BY <1>4, <2>1, <2>2, <1>6, <1>3
  <2>5. t \in Sockets
    <3> DEFINE h == IF low THEN slot[i].high ELSE Append(slot[i].high, b)
               l == IF low THEN Append(slot[i].low, b) ELSE slot[i].low
               w == slot[i].wb + 2
               g == slot[i].writing \/ send_buffer_empty(i)
    <3>1. slot[i].high \in Seq(Buffers) /\ slot[i].low \in Seq(Buffers) /\ slot[i].wb \in Int
      BY <1>3, SocketFields
    <3>2. h \in Seq(Buffers) /\ l \in Seq(Buffers) /\ w \in Int /\ g \in BOOLEAN
      <4> HIDE DEF low, b
      <4> QED BY <3>1, <1>5
    <3>3. t = [slot[i] EXCEPT !.high = h, !.low = l, !.wb = w, !.writing = g, !.sending = n]
      OBVIOUS
    <3> HIDE DEF h, l, w, g, t, n
    <3> QED BY <3>2, <3>3, <1>6, PutQueue
  <2>6. slot' \in [Indices -> Sockets] /\ Others(i) /\ slot'[i] = t
    <3> HIDE DEF t
    <3> QED BY <2>3, <2>4, <2>5, <1>3, SlotPut
  <2>7. Appended(i, m, n)
    BY <2>6 DEF Appended
  <2> HIDE DEF n
  <2> QED BY <1>1, <1>2, <1>3, <1>6, <1>8, <2>7 DEF id, i, m, n
<1> QED BY <1>7, <1>8
-----------------------------------------------------------------------------
(* What waits in the buffers of a socket, in the order it will be written, *)
(* and the parts of messages that it holds.                                *)

Pieces == Messages \X {1, 2}

Flat(q) == FlattenSeq([j \in DOMAIN q |-> Parts(q[j])])

DwSeq(s)   == IF s.dw = None THEN <<>> ELSE <<s.dw>>
DwLeft(s)  == IF s.dw = None THEN 0 ELSE s.dw.left
Backlog(s) == DwSeq(s) \o s.high \o s.low
Whole(q)   == \A j \in DOMAIN q : q[j].left = 2

LEMMA ShortSeqs ==
    \A S : \A x, y \in S : /\ <<x, y>> \in Seq(S) /\ Len(<<x, y>>) = 2
                          /\ <<x>> \in Seq(S) /\ Len(<<x>>) = 1
OBVIOUS

LEMMA BufferFacts ==
    \A b \in Buffers : /\ b.m \in Messages /\ b.left \in {1, 2} /\ Parts(b) \in Seq(Pieces)
                       /\ Len(Parts(b)) = b.left
                       /\ b.left = 2 => Parts(b) = <<<<b.m, 1>>, <<b.m, 2>>>>
                       /\ b.left = 1 => Parts(b) = <<<<b.m, 2>>>>
<1> SUFFICES ASSUME NEW b \in Buffers
             PROVE  /\ b.m \in Messages /\ b.left \in {1, 2} /\ Parts(b) \in Seq(Pieces)
                    /\ Len(Parts(b)) = b.left
                    /\ b.left = 2 => Parts(b) = <<<<b.m, 1>>, <<b.m, 2>>>>
                    /\ b.left = 1 => Parts(b) = <<<<b.m, 2>>>>
  OBVIOUS
<1>1. b.m \in Messages /\ b.left \in {1, 2}
  BY DEF Buffers
<1>2. <<b.m, 1>> \in Pieces /\ <<b.m, 2>> \in Pieces
  BY <1>1 DEF Pieces
<1>3. b.left = 2 => Parts(b) = <<<<b.m, 1>>, <<b.m, 2>>>>
  BY DEF Parts
<1>4. b.left = 1 => Parts(b) = <<<<b.m, 2>>>>
  BY DEF Parts
<1>5. b.left = 2 => Parts(b) \in Seq(Pieces) /\ Len(Parts(b)) = 2
  BY <1>2, <1>3, ShortSeqs
<1>6. b.left = 1 => Parts(b) \in Seq(Pieces) /\ Len(Parts(b)) = 1
  BY <1>2, <1>4, ShortSeqs
<1> QED BY <1>1, <1>3, <1>4, <1>5, <1>6

LEMMA PartsSeq ==
    ASSUME NEW q \in Seq(Buffers)
    PROVE  [j \in DOMAIN q |-> Parts(q[j])] \in Seq(Seq(Pieces))
<1> DEFINE ss == [j \in DOMAIN q |-> Parts(q[j])]
<1>1. DOMAIN q = 1 .. Len(q) /\ Len(q) \in Nat /\ \A j \in DOMAIN q : q[j] \in Buffers
  OBVIOUS
<1>2. \A j \in DOMAIN q : Parts(q[j]) \in Seq(Pieces)
  BY <1>1, BufferFacts
<1>3. ss \in [1 .. Len(q) -> Seq(Pieces)]
  BY <1>1, <1>2
<1> QED BY <1>1, <1>3

LEMMA FlatType == \A q \in Seq(Buffers) : Flat(q) \in Seq(Pieces)
<1> SUFFICES ASSUME NEW q \in Seq(Buffers) PROVE Flat(q) \in Seq(Pieces)
  OBVIOUS
<1> DEFINE ss == [j \in DOMAIN q |-> Parts(q[j])]
<1>1. ss \in Seq(Seq(Pieces)) /\ Flat(q) = FlattenSeq(ss)
  BY PartsSeq DEF Flat
<1> HIDE DEF ss
<1> QED BY <1>1, FlattenType

LEMMA FlatConcat ==
    ASSUME NEW p \in Seq(Buffers), NEW q \in Seq(Buffers)
    PROVE  Flat(p \o q) = Flat(p) \o Flat(q)
<1> DEFINE F(r) == [j \in DOMAIN r |-> Parts(r[j])]
<1>1. F(p) \in Seq(Seq(Pieces)) /\ F(q) \in Seq(Seq(Pieces)) /\ p \o q \in Seq(Buffers)
  BY PartsSeq
<1>2. F(p \o q) \in Seq(Seq(Pieces))
  BY <1>1, PartsSeq
<1>3. F(p \o q) = F(p) \o F(q)
  <2>1. /\ DOMAIN p = 1 .. Len(p) /\ DOMAIN q = 1 .. Len(q) /\ Len(p) \in Nat /\ Len(q) \in Nat
        /\ DOMAIN (p \o q) = 1 .. Len(p) + Len(q)
        /\ \A j \in 1 .. Len(p) + Len(q) : (p \o q)[j] = IF j <= Len(p) THEN p[j] ELSE q[j - Len(p)]
    OBVIOUS
  <2>2. /\ Len(F(p)) = Len(p) /\ Len(F(q)) = Len(q) /\ Len(F(p \o q)) = Len(p) + Len(q)
    BY <2>1, <1>1, <1>2
  <2>3. /\ \A j \in 1 .. Len(p) : F(p)[j] = Parts(p[j])
        /\ \A j \in 1 .. Len(q) : F(q)[j] = Parts(q[j])
        /\ \A j \in 1 .. Len(p) + Len(q) : F(p \o q)[j] = Parts((p \o q)[j])
    BY <2>1
  <2> DEFINE x == F(p)
             y == F(q)
             z == F(p \o q)
  <2>4. x \in Seq(Seq(Pieces)) /\ y \in Seq(Seq(Pieces)) /\ z \in Seq(Seq(Pieces))
    BY <1>1, <1>2
  <2>5. \A j \in 1 .. Len(p) + Len(q) : z[j] = IF j <= Len(p) THEN x[j] ELSE y[j - Len(p)]
    <3> HIDE DEF F
    <3> QED BY <2>1, <2>3
  <2> HIDE DEF x, y, z
  <2>6. Len(x) = Len(p) /\ Len(y) = Len(q) /\ Len(z) = Len(p) + Len(q)
    BY <2>2 DEF x, y, z
  <2>7. z = x \o y
    <3>1. /\ x \o y \in Seq(Seq(Pieces)) /\ Len(x \o y) = Len(x) + Len(y)
          /\ \A j \in 1 .. Len(x) + Len(y) : (x \o y)[j] = IF j <= Len(x) THEN x[j] ELSE y[j - Len(x)]
      BY <2>4, ConcatProperties
    <3>2. \A j \in 1 .. Len(z) : z[j] = (x \o y)[j]
      BY <2>5, <2>6, <3>1
    <3> QED BY <2>4, <2>6, <3>1, <3>2, SeqEqual
  <2> QED BY <2>7 DEF x, y, z
<1>4. Flat(p \o q) = FlattenSeq(F(p \o q)) /\ Flat(p) = FlattenSeq(F(p)) /\ Flat(q) = FlattenSeq(F(q))
  BY DEF Flat
<1> DEFINE x == F(p)
           y == F(q)
<1>5. x \in Seq(Seq(Pieces)) /\ y \in Seq(Seq(Pieces)) /\ F(p \o q) = x \o y
  BY <1>1, <1>3
<1> HIDE DEF x, y
<1>6. FlattenSeq(x \o y) = FlattenSeq(x) \o FlattenSeq(y)
  BY <1>5, FlattenConcat
<1> HIDE DEF F
<1> QED BY <1>4, <1>5, <1>6 DEF x, y

LEMMA FlatEmpty == Flat(<<>>) = <<>>
<1>1. [j \in DOMAIN <<>> |-> Parts(<<>>[j])] = <<>>
  OBVIOUS
<1> QED BY <1>1 DEF Flat, FlattenSeq

LEMMA FlatOne ==
    ASSUME NEW b \in Buffers
    PROVE  Flat(<<b>>) = Parts(b)
<1>1. [j \in DOMAIN <<b>> |-> Parts(<<b>>[j])] = <<Parts(b)>>
  OBVIOUS
<1>2. Append(<<>>, Parts(b)) = <<Parts(b)>> /\ Parts(b) \in Seq(Pieces) /\ <<>> \in Seq(Seq(Pieces))
  BY BufferFacts
<1>3. FlattenSeq(Append(<<>>, Parts(b))) = FlattenSeq(<<>>) \o Parts(b)
  BY <1>2, FlattenAppend
<1>4. FlattenSeq(<<>>) = <<>>
  BY DEF FlattenSeq
<1>5. <<>> \o Parts(b) = Parts(b)
  BY <1>2
<1> QED BY <1>1, <1>2, <1>3, <1>4, <1>5 DEF Flat

LEMMA FlatLength == \A q \in Seq(Buffers) : q # <<>> => Flat(q) # <<>>
<1> SUFFICES ASSUME NEW q \in Seq(Buffers), q # <<>> PROVE Flat(q) # <<>>
  OBVIOUS
<1>1. PICK b \in Buffers, r \in Seq(Buffers) : q = <<b>> \o r
  <2>1. q = <<Head(q)>> \o Tail(q) /\ Head(q) \in Buffers /\ Tail(q) \in Seq(Buffers)
    OBVIOUS
  <2> QED BY <2>1
<1>2. <<b>> \in Seq(Buffers)
  OBVIOUS
<1>3. Flat(q) = Flat(<<b>>) \o Flat(r)
  BY <1>1, <1>2, FlatConcat
<1>4. Flat(<<b>>) \in Seq(Pieces) /\ Len(Flat(<<b>>)) > 0
  <2>1. Parts(b) \in Seq(Pieces) /\ Len(Parts(b)) = b.left /\ b.left \in {1, 2}
    BY BufferFacts
  <2>2. Flat(<<b>>) = Parts(b)
    BY FlatOne
  <2> QED BY <2>1, <2>2
<1>5. Flat(r) \in Seq(Pieces)
  BY FlatType
<1> QED BY <1>3, <1>4, <1>5

LEMMA BacklogType ==
    ASSUME NEW s \in Sockets
    PROVE  /\ DwSeq(s) \in Seq(Buffers) /\ s.high \in Seq(Buffers) /\ s.low \in Seq(Buffers)
           /\ Backlog(s) \in Seq(Buffers) /\ DwLeft(s) \in Nat
           /\ Len(Flat(DwSeq(s))) = DwLeft(s)
<1>1. s.dw \in Buffers \cup {None} /\ s.high \in Seq(Buffers) /\ s.low \in Seq(Buffers)
  BY DEF Sockets
<1>2. CASE s.dw = None
  <2>1. DwSeq(s) = <<>> /\ DwLeft(s) = 0
    BY <1>2 DEF DwSeq, DwLeft
  <2> QED BY <1>1, <2>1, FlatEmpty DEF Backlog
<1>3. CASE s.dw # None
  <2>1. DwSeq(s) = <<s.dw>> /\ DwLeft(s) = s.dw.left /\ s.dw \in Buffers
    BY <1>1, <1>3 DEF DwSeq, DwLeft
  <2>2. DwSeq(s) \in Seq(Buffers) /\ DwLeft(s) \in Nat
    BY <2>1, BufferFacts
  <2>3. Len(Flat(DwSeq(s))) = DwLeft(s)
    BY <2>1, FlatOne, BufferFacts
  <2> QED BY <1>1, <2>2, <2>3 DEF Backlog
<1> QED BY <1>2, <1>3

(* Writing k buffers, and a part of the next one if cut, takes the parts   *)
(* that were written from the front of the backlog.                        *)
LEMMA CutFacts ==
    ASSUME NEW all \in Seq(Buffers), NEW k \in 0 .. Len(all), NEW cut \in BOOLEAN,
           cut => k < Len(all) /\ all[k + 1].left = 2
    PROVE  LET rest == SubSeq(all, k + 1, Len(all))
               left == IF cut THEN [rest EXCEPT ![1].left = 1] ELSE rest
               out  == FlattenSeq([j \in 1 .. k |-> Parts(all[j])])
                         \o (IF cut THEN <<<<rest[1].m, 1>>>> ELSE <<>>)
           IN  /\ left \in Seq(Buffers) /\ Len(left) = Len(all) - k
               /\ \A j \in 1 .. Len(left) : j # 1 \/ ~cut => left[j] = all[k + j]
               /\ out \in Seq(Pieces) /\ Flat(all) = out \o Flat(left)
<1> DEFINE done == SubSeq(all, 1, k)
           rest == SubSeq(all, k + 1, Len(all))
           left == IF cut THEN [rest EXCEPT ![1].left = 1] ELSE rest
           some == IF cut THEN <<<<rest[1].m, 1>>>> ELSE <<>>
           out  == FlattenSeq([j \in 1 .. k |-> Parts(all[j])]) \o some
<1>1. /\ done \in Seq(Buffers) /\ rest \in Seq(Buffers) /\ Len(done) = k /\ Len(rest) = Len(all) - k
      /\ \A j \in 1 .. k : done[j] = all[j]
      /\ \A j \in 1 .. Len(all) - k : rest[j] = all[k + j]
      /\ all = done \o rest
  BY ZenonT(30), SplitAt
<1>2. FlattenSeq([j \in 1 .. k |-> Parts(all[j])]) = Flat(done)
  <2>1. DOMAIN done = 1 .. k
    BY <1>1
  <2>2. [j \in 1 .. k |-> Parts(all[j])] = [j \in DOMAIN done |-> Parts(done[j])]
    BY <2>1, <1>1
  <2> QED BY <2>2 DEF Flat
<1> HIDE DEF done, rest
<1>3. Flat(all) = Flat(done) \o Flat(rest) /\ Flat(done) \in Seq(Pieces) /\ Flat(rest) \in Seq(Pieces)
  BY <1>1, FlatConcat, FlatType
<1>4. CASE ~cut
  <2>1. left = rest /\ some = <<>> /\ out = Flat(done)
    BY <1>2, <1>3, <1>4
  <2>2. left \in Seq(Buffers) /\ Len(left) = Len(all) - k /\ out \in Seq(Pieces) /\ Flat(all) = out \o Flat(left)
    BY <2>1, <1>1, <1>3
  <2>3. \A j \in 1 .. Len(left) : left[j] = all[k + j]
    BY <2>1, <1>1
  <2> QED BY <2>2, <2>3 DEF rest
<1>5. CASE cut
  <2> DEFINE b == rest[1]
             a == [b EXCEPT !.left = 1]
             more == SubSeq(rest, 2, Len(rest))
  <2>1. k < Len(all) /\ Len(rest) > 0 /\ b \in Buffers /\ b.left = 2
    BY <1>1, <1>5
  <2>2. a \in Buffers /\ a.left = 1 /\ a.m = b.m
    BY <2>1 DEF Buffers
  <2>3. left = [rest EXCEPT ![1] = a]
    BY <1>5
  <2> HIDE DEF a, b
  <2>4. left \in Seq(Buffers) /\ Len(left) = Len(rest) /\ \A j \in 1 .. Len(rest) : left[j] = IF j = 1 THEN a ELSE rest[j]
    <3> HIDE DEF left
    <3> QED BY <2>1, <2>2, <2>3, <1>1, ExceptSeq
  <2>5. more \in Seq(Buffers) /\ rest = <<b>> \o more
    <3>1. rest = <<rest[1]>> \o more /\ more \in Seq(Buffers)
      BY <1>1, <2>1
    <3> QED BY <3>1 DEF b
  <2>6. left = <<a>> \o more
    <3> HIDE DEF left, some
    <3>1. /\ Len(<<a>> \o more) = Len(left) /\ <<a>> \o more \in Seq(Buffers)
      BY <2>1, <2>2, <2>4, <1>1
    <3>2. \A j \in 1 .. Len(left) : left[j] = (<<a>> \o more)[j]
      BY SMTT(30), <2>1, <2>2, <2>4, <1>1
    <3> QED BY <3>1, <3>2, <2>4, SeqEqual
  <2> HIDE DEF more
  <2>7. Flat(rest) = Parts(b) \o Flat(more) /\ Flat(left) = Parts(a) \o Flat(more)
    <3>1. <<a>> \in Seq(Buffers) /\ <<b>> \in Seq(Buffers)
      BY <2>1, <2>2
    <3>2. Flat(<<b>> \o more) = Flat(<<b>>) \o Flat(more) /\ Flat(<<a>> \o more) = Flat(<<a>>) \o Flat(more)
      BY <3>1, <2>5, FlatConcat
    <3>3. Flat(<<a>>) = Parts(a) /\ Flat(<<b>>) = Parts(b)
      BY <2>1, <2>2, FlatOne
    <3> QED BY <3>2, <3>3, <2>5, <2>6
  <2>8. Parts(b) = <<<<b.m, 1>>, <<b.m, 2>>>> /\ Parts(a) = <<<<b.m, 2>>>> /\ some = <<<<b.m, 1>>>>
    BY <2>1, <2>2, <1>5, BufferFacts DEF b
  <2>9. some \in Seq(Pieces) /\ Parts(a) \in Seq(Pieces) /\ Flat(more) \in Seq(Pieces)
    <3>1. <<b.m, 1>> \in Pieces
      BY <2>1, BufferFacts DEF Pieces
    <3>2. some \in Seq(Pieces)
      BY <3>1, <2>8, ShortSeqs
    <3> HIDE DEF some
    <3> QED BY <3>2, <2>2, <2>5, BufferFacts, FlatType
  <2>10. Parts(b) = some \o Parts(a)
    BY <2>8
  <2> HIDE DEF some, left
  <2> DEFINE d == Flat(done)
             pa == Parts(a)
             fm == Flat(more)
  <2>11. d \o ((some \o pa) \o fm) = (d \o some) \o (pa \o fm)
    <3>1. d \in Seq(Pieces) /\ pa \in Seq(Pieces) /\ fm \in Seq(Pieces) /\ some \in Seq(Pieces) /\ pa \o fm \in Seq(Pieces)
      BY <2>9, <1>3
    <3> HIDE DEF d, pa, fm
    <3> DEFINE y == pa \o fm
    <3>2. y \in Seq(Pieces)
      BY <3>1
    <3>a. pa \in Seq(Pieces) /\ fm \in Seq(Pieces) /\ some \in Seq(Pieces)
      BY <3>1
    <3>3. (some \o pa) \o fm = some \o y
      BY ONLY SMTT(30), <3>a, ConcatAssociative DEF y
    <3> HIDE DEF y
    <3>4. d \in Seq(Pieces) /\ some \in Seq(Pieces)
      BY <3>1
    <3>5. (d \o some) \o y = d \o (some \o y)
      BY ONLY <3>2, <3>4, ConcatAssociative
    <3> QED BY ONLY <3>3, <3>5 DEF y
  <2>12. Flat(all) = out \o Flat(left) /\ out \in Seq(Pieces)
    <3>1. out = d \o some /\ Flat(all) = d \o ((some \o pa) \o fm) /\ Flat(left) = pa \o fm
      BY <1>2, <1>3, <2>7, <2>10
    <3>2. d \in Seq(Pieces) /\ some \in Seq(Pieces)
      BY <1>3, <2>9
    <3> HIDE DEF out, d, pa, fm
    <3>3. d \o some \in Seq(Pieces)
      BY ONLY <3>2
    <3> QED BY ONLY <3>1, <3>3, <2>11
  <2>13. \A j \in 1 .. Len(left) : j # 1 => left[j] = all[k + j]
    BY <2>4, <1>1
  <2> QED BY <1>1, <1>5, <2>4, <2>12, <2>13 DEF left, rest, some
<1> QED BY <1>4, <1>5

(* The elements of p are among those of q.                                 *)
Among(p, q) == \A j \in DOMAIN p : \E x \in DOMAIN q : p[j] = q[x]

(* What a write event leaves of a socket s that it wrote out from: t.      *)
Flushed(s, t, out) ==
    /\ t \in Sockets /\ out \in Seq(Pieces)
    /\ t.id = s.id /\ t.tcp = s.tcp /\ t.tag = s.tag /\ t.sending = s.sending
    /\ t.type = s.type /\ t.closing = s.closing /\ t.reading = s.reading /\ t.writing = s.writing
    /\ t.dw = None
    /\ Flat(Backlog(s)) = out \o Flat(t.high \o t.low)
    /\ t.wb = s.wb + DwLeft(s) - Len(out)
    /\ (Whole(s.low) => Whole(t.low)) /\ Among(t.low, s.low)

(* The buffers left are those of all without the first k, and the last of  *)
(* all, after h others, are the low ones.                                  *)
TakenOff(all, low, left, h, k, cut) ==
    /\ all \in Seq(Buffers) /\ low \in Seq(Buffers) /\ left \in Seq(Buffers)
    /\ h \in Nat /\ k \in Nat /\ cut \in BOOLEAN /\ k <= Len(all)
    /\ Len(all) = h + Len(low) /\ \A j \in 1 .. Len(low) : all[h + j] = low[j]
    /\ Len(left) = Len(all) - k /\ (cut => k < Len(all))
    /\ \A j \in 1 .. Len(left) : j # 1 \/ ~cut => left[j] = all[k + j]

LEMMA Requeue ==
    ASSUME NEW all, NEW low, NEW left, NEW h, NEW k, NEW cut, TakenOff(all, low, left, h, k, cut)
    PROVE  LET g == HighLeft(h, k, cut)
               hi == SubSeq(left, 1, g)
               lo == SubSeq(left, g + 1, Len(left))
           IN  /\ hi \in Seq(Buffers) /\ lo \in Seq(Buffers) /\ left = hi \o lo
               /\ k = Len(all) => hi = <<>> /\ lo = <<>>
               /\ (Whole(low) => Whole(lo)) /\ Among(lo, low)
<1> DEFINE g == HighLeft(h, k, cut)
           hi == SubSeq(left, 1, g)
           lo == SubSeq(left, g + 1, Len(left))
<1> USE DEF TakenOff
<1>1. Len(all) \in Nat /\ Len(low) \in Nat /\ Len(left) \in Nat
  OBVIOUS
<1>2. g \in 0 .. Len(left) /\ (k >= h /\ cut => g = 1) /\ (k >= h /\ ~cut => g = 0) /\ (k < h => g = h - k)
  BY <1>1 DEF HighLeft
<1> HIDE DEF g
<1>3. /\ hi \in Seq(Buffers) /\ lo \in Seq(Buffers) /\ left = hi \o lo
      /\ Len(hi) = g /\ Len(lo) = Len(left) - g
      /\ \A j \in 1 .. Len(left) - g : lo[j] = left[g + j]
  <2>1. left \in Seq(Buffers) /\ g \in 0 .. Len(left)
    BY <1>2
  <2> QED BY ONLY ZenonT(30), <2>1, SplitAt
<1> HIDE DEF hi, lo
<1>4. k = Len(all) => hi = <<>> /\ lo = <<>>
  <2> SUFFICES ASSUME k = Len(all) PROVE hi = <<>> /\ lo = <<>>
    OBVIOUS
  <2>1. Len(hi) = 0 /\ Len(lo) = 0
    BY <1>1, <1>2, <1>3
  <2> QED BY ONLY <2>1, <1>3
<1>5. Among(lo, low)
  <2>1. ASSUME NEW j \in 1 .. Len(left) - g PROVE \E x \in DOMAIN low : lo[j] = low[x]
    <3>0. j \in Nat /\ j >= 1 /\ j <= Len(left) - g /\ g \in Nat
      BY <1>1, <1>2
    <3> DEFINE x == k + (g + j) - h
    <3>1. g + j \in 1 .. Len(left) /\ (g + j # 1 \/ ~cut)
      BY <1>1, <1>2, <3>0
    <3>2. left[g + j] = all[k + (g + j)]
      BY <3>1
    <3>3. x \in 1 .. Len(low) /\ h + x = k + (g + j)
      BY <1>1, <1>2, <3>0
    <3> HIDE DEF x
    <3>4. all[h + x] = low[x] /\ x \in DOMAIN low
      BY <3>3
    <3>5. lo[j] = left[g + j]
      BY <1>3
    <3> QED BY <3>2, <3>3, <3>4, <3>5
  <2>2. DOMAIN lo = 1 .. Len(left) - g
    BY <1>3
  <2> QED BY <2>1, <2>2 DEF Among
<1>6. Whole(low) => Whole(lo)
  BY <1>5 DEF Among, Whole
<1> QED BY <1>3, <1>4, <1>5, <1>6 DEF hi, lo, g

LEMMA WrittenFacts ==
    ASSUME SocketType, NEW i \in Indices,
           NEW all, all = Backlog(slot[i]), NEW h, h = Len(DwSeq(slot[i])) + Len(slot[i].high),
           NEW k \in 0 .. Len(all), NEW cut \in BOOLEAN,
           cut => k < Len(all) /\ all[k + 1].left = 2
    PROVE  LET w == Written(i, all, h, k, cut)
           IN  /\ Flushed(slot[i], w.slot, w.out)
               /\ k = Len(all) => w.slot.high = <<>> /\ w.slot.low = <<>>
<1> DEFINE s == slot[i]
           rest == SubSeq(all, k + 1, Len(all))
           left == IF cut THEN [rest EXCEPT ![1].left = 1] ELSE rest
           out  == FlattenSeq([j \in 1 .. k |-> Parts(all[j])])
                     \o (IF cut THEN <<<<rest[1].m, 1>>>> ELSE <<>>)
           g == HighLeft(h, k, cut)
           hi == SubSeq(left, 1, g)
           lo == SubSeq(left, g + 1, Len(left))
           n == s.wb + DwLeft(s) - Len(out)
           t == [s EXCEPT !.high = hi, !.low = lo, !.dw = None, !.wb = n]
<1>1. s \in Sockets /\ s.high \in Seq(Buffers) /\ s.low \in Seq(Buffers) /\ s.wb \in Int
  BY SocketFields
<1>a. all = Backlog(s) /\ h = Len(DwSeq(s)) + Len(s.high)
  OBVIOUS
<1>5. Written(i, all, h, k, cut) = [out |-> out, slot |-> t]
  BY <1>1 DEF Written, DwLeft
<1> HIDE DEF s
<1>2. /\ DwSeq(s) \in Seq(Buffers) /\ Backlog(s) \in Seq(Buffers) /\ DwLeft(s) \in Nat
  BY <1>1, BacklogType
<1>3. all \in Seq(Buffers) /\ h \in Nat /\ Len(all) = h + Len(s.low)
      /\ \A j \in 1 .. Len(s.low) : all[h + j] = s.low[j]
  <2> DEFINE d == DwSeq(s)
             e == s.high
             y == s.low
             x == d \o e
  <2>0. d \in Seq(Buffers) /\ e \in Seq(Buffers) /\ y \in Seq(Buffers)
    BY <1>1, <1>2
  <2>1. all = x \o y /\ h = Len(d) + Len(e)
    BY <1>a DEF Backlog
  <2> HIDE DEF d, e, y
  <2>2. x \in Seq(Buffers) /\ Len(x) = Len(d) + Len(e) /\ Len(x) \in Nat
    BY ONLY <2>0
  <2> HIDE DEF x
  <2>4. x \in Seq(Buffers) /\ y \in Seq(Buffers)
    BY <2>0, <2>2
  <2>3. /\ x \o y \in Seq(Buffers) /\ Len(y) \in Nat /\ Len(x \o y) = Len(x) + Len(y)
        /\ \A j \in 1 .. Len(y) : (x \o y)[Len(x) + j] = y[j]
    BY ONLY <2>4
  <2> QED BY ONLY <2>1, <2>2, <2>3 DEF y
<1>3a. k \in Nat /\ k <= Len(all)
  <2>1. Len(all) \in Nat
    BY ONLY <1>3
  <2>2. k \in 0 .. Len(all)
    OBVIOUS
  <2> QED BY ONLY <2>1, <2>2
<1>4. /\ left \in Seq(Buffers) /\ Len(left) = Len(all) - k
      /\ \A j \in 1 .. Len(left) : j # 1 \/ ~cut => left[j] = all[k + j]
      /\ out \in Seq(Pieces) /\ Flat(all) = out \o Flat(left)
  <2>1. /\ all \in Seq(Buffers) /\ k \in 0 .. Len(all) /\ cut \in BOOLEAN
        /\ cut => k < Len(all) /\ all[k + 1].left = 2
    BY <1>3
  <2> QED BY ONLY <2>1, CutFacts
<1> HIDE DEF left, rest, out
<1>6. /\ hi \in Seq(Buffers) /\ lo \in Seq(Buffers) /\ left = hi \o lo
      /\ k = Len(all) => hi = <<>> /\ lo = <<>>
      /\ (Whole(s.low) => Whole(lo)) /\ Among(lo, s.low)
  <2> DEFINE low == s.low
  <2>1. TakenOff(all, low, left, h, k, cut)
    BY <1>1, <1>3, <1>3a, <1>4 DEF TakenOff
  <2> HIDE DEF low
  <2> QED BY ONLY <2>1, Requeue DEF low
<1>8. n \in Int
  <2>1. Len(out) \in Nat
    BY <1>4
  <2> QED BY <1>1, <1>2, <2>1
<1> HIDE DEF hi, lo, n
<1>11. /\ t \in Sockets
       /\ t.id = s.id /\ t.tcp = s.tcp /\ t.tag = s.tag /\ t.sending = s.sending
       /\ t.type = s.type /\ t.closing = s.closing /\ t.reading = s.reading /\ t.writing = s.writing
       /\ t.dw = None /\ t.high = hi /\ t.low = lo /\ t.wb = n
  <2>1. s \in Sockets /\ hi \in Seq(Buffers) /\ lo \in Seq(Buffers) /\ n \in Int
    BY ONLY <1>1, <1>6, <1>8
  <2>2. t = [s EXCEPT !.high = hi, !.low = lo, !.dw = None, !.wb = n]
    OBVIOUS
  <2> HIDE DEF t
  <2> QED BY ONLY <2>1, <2>2 DEF Sockets
<1> HIDE DEF t
<1>12. Flushed(s, t, out)
  BY <1>a, <1>4, <1>6, <1>11 DEF Flushed, n
<1> DEFINE w == Written(i, all, h, k, cut)
<1>13. w.out = out /\ w.slot = t
  BY ONLY <1>5
<1> HIDE DEF w
<1> QED BY ONLY <1>6, <1>11, <1>12, <1>13 DEF s, w

(* How a write event leaves the socket t that it wrote from: freed, shut   *)
(* for writing, no longer waiting to write, or with more to write.         *)
Frees(t, v) ==
    /\ v.type = "INVALID" /\ v.high = <<>> /\ v.low = <<>> /\ v.dw = None
    /\ v.writing = t.writing

Shuts(t, v) ==
    /\ ~t.closing /\ t.type # "HALFCLOSE_READ"
    /\ v.type = "HALFCLOSE_WRITE" /\ v.high = t.high /\ v.low = t.low /\ v.dw = t.dw

Empties(t, v) ==
    /\ t.high = <<>> /\ t.low = <<>> /\ ~t.closing
    /\ v.type = t.type /\ v.high = t.high /\ v.low = t.low /\ v.dw = t.dw /\ ~v.writing

Keeps(t, v) == v = t

Same(t, v) ==
    /\ v \in Sockets /\ v.id = t.id /\ v.tcp = t.tcp /\ v.tag = t.tag
    /\ v.sending = t.sending /\ v.wb = t.wb /\ v.closing = t.closing /\ v.reading = t.reading

LEMMA FreedFacts ==
    ASSUME NEW t \in Sockets
    PROVE  Same(t, Freed(t)) /\ Frees(t, Freed(t))
<1> DEFINE e == <<>>
           v == [t EXCEPT !.type = "INVALID", !.high = e, !.low = e, !.dw = None]
<1>1. e \in Seq(Buffers) /\ "INVALID" \in Types
  BY EmptyLists DEF Types
<1>2. Freed(t) = v
  BY DEF Freed
<1> HIDE DEF e
<1>3. Same(t, v)
  BY <1>1 DEF Same, Sockets
<1>4. v.type = "INVALID" /\ v.high = e /\ v.low = e /\ v.dw = None /\ v.writing = t.writing
  BY DEF Sockets
<1> HIDE DEF v
<1> QED BY <1>2, <1>3, <1>4 DEF Frees, e

LEMMA WriteFailedFacts ==
    ASSUME NEW t \in Sockets
    PROVE  LET v == WriteFailed(t) IN Same(t, v) /\ (Frees(t, v) \/ Shuts(t, v))
<1>1. CASE t.closing \/ t.type = "HALFCLOSE_READ"
  BY <1>1, FreedFacts DEF WriteFailed
<1>2. CASE ~(t.closing \/ t.type = "HALFCLOSE_READ")
  <2> DEFINE g == t.writing /\ t.type = "HALFCLOSE_WRITE"
             v == [t EXCEPT !.type = "HALFCLOSE_WRITE", !.writing = g]
  <2>1. WriteFailed(t) = v
    BY <1>2 DEF WriteFailed
  <2>2. "HALFCLOSE_WRITE" \in Types /\ g \in BOOLEAN
    BY DEF Types, Sockets
  <2> HIDE DEF g
  <2>3. /\ Same(t, v) /\ v.type = "HALFCLOSE_WRITE" /\ v.high = t.high /\ v.low = t.low /\ v.dw = t.dw
    BY <2>2 DEF Same, Sockets
  <2> HIDE DEF v
  <2> QED BY <1>2, <2>1, <2>3 DEF Shuts
<1> QED BY <1>1, <1>2

LEMMA CheckCloseFacts ==
    ASSUME NEW t \in Sockets, t.high = <<>>, t.low = <<>>
    PROVE  LET v == check_close(t) IN Same(t, v) /\ (Frees(t, v) \/ Empties(t, v))
<1>1. CASE t.closing
  BY <1>1, FreedFacts DEF check_close
<1>2. CASE ~t.closing
  <2> DEFINE v == [t EXCEPT !.writing = FALSE]
  <2>1. check_close(t) = v
    BY <1>2 DEF check_close
  <2>2. Same(t, v) /\ v.type = t.type /\ v.high = t.high /\ v.low = t.low /\ v.dw = t.dw /\ ~v.writing
    BY DEF Same, Sockets
  <2> HIDE DEF v
  <2> QED BY <1>2, <2>1, <2>2 DEF Empties
<1> QED BY <1>1, <1>2

(* A write event: the parts out go from the backlog of the socket to its   *)
(* connection.                                                             *)
Flushes(i, out, t, v) ==
    /\ Flushed(slot[i], t, out)
    /\ wire' = IF out = <<>> THEN wire ELSE [wire EXCEPT ![slot[i].id] = @ \o out]
    /\ slot' \in [Indices -> Sockets] /\ Others(i) /\ slot'[i] = v
    /\ Same(t, v) /\ (Frees(t, v) \/ Shuts(t, v) \/ Empties(t, v) \/ Keeps(t, v))
    /\ \/ crashed' = FALSE
       \/ ~Whole(slot[i].low)
       \/ t.high = <<>> /\ t.low = <<>> /\ t.wb # 0

LEMMA SendBufferEffect ==
    ASSUME SocketType, send_buffer
    PROVE  /\ batch # <<>> /\ E.i \in Indices /\ lock[E.i] = None
           /\ slot[E.i].type \in Streams
           /\ \E out, t, v : Flushes(E.i, out, t, v)
           /\ crashed' \in BOOLEAN
<1> DEFINE i == E.i
           s == slot[i]
           dw == IF s.dw = None THEN <<>> ELSE <<s.dw>>
           all == dw \o s.high \o s.low
           h == Len(dw) + Len(s.high)
           shut == s.type \in {"HALFCLOSE_WRITE", "PLISTEN"}
           uncomplete == \E j \in DOMAIN s.low : j = 1 /\ s.low[j].left = 1
<1>1. batch # <<>> /\ i \in Indices /\ lock[i] = None /\ slot[i].type \in Streams
  BY EventFacts DEF send_buffer, Event
<1>2. PICK k \in 0 .. Len(all), cut \in BOOLEAN, fails \in BOOLEAN :
              LET w == Written(i, all, h, k, cut)
              IN  /\ cut => ~fails /\ k < Len(all) /\ all[k + 1].left = 2
                  /\ fails => k < Len(all)
                  /\ shut => k = 0 /\ ~cut /\ (fails \/ all = <<>>)
                  /\ wire' = IF w.out = <<>> THEN wire ELSE [wire EXCEPT ![s.id] = @ \o w.out]
                  /\ slot' = [slot EXCEPT ![i] = IF fails THEN WriteFailed(w.slot)
                                                 ELSE IF k = Len(all) THEN check_close(w.slot)
                                                 ELSE w.slot]
                  /\ crashed' = (uncomplete \/ (k = Len(all) /\ w.slot.wb # 0))
  BY DEF send_buffer
<1>3. all = Backlog(s) /\ h = Len(DwSeq(s)) + Len(s.high)
  BY DEF Backlog, DwSeq
<1>4. uncomplete => ~Whole(s.low)
  BY DEF Whole
<1> DEFINE w == Written(i, all, h, k, cut)
           t == w.slot
           out == w.out
           v == IF fails THEN WriteFailed(t) ELSE IF k = Len(all) THEN check_close(t) ELSE t
<1>5. /\ cut => k < Len(all) /\ all[k + 1].left = 2
      /\ fails => k < Len(all)
      /\ wire' = IF out = <<>> THEN wire ELSE [wire EXCEPT ![s.id] = @ \o out]
      /\ slot' = [slot EXCEPT ![i] = v]
      /\ crashed' = (uncomplete \/ (k = Len(all) /\ t.wb # 0))
  BY <1>2
<1> HIDE DEF i, all, h
<1>6. Flushed(s, t, out) /\ (k = Len(all) => t.high = <<>> /\ t.low = <<>>)
  <2> HIDE DEF uncomplete, v, w
  <2>1. all = Backlog(slot[i]) /\ h = Len(DwSeq(slot[i])) + Len(slot[i].high)
    BY <1>3
  <2>2. cut => k < Len(all) /\ all[k + 1].left = 2
    BY <1>5
  <2>3. LET ww == Written(i, all, h, k, cut)
        IN  /\ Flushed(slot[i], ww.slot, ww.out)
            /\ k = Len(all) => ww.slot.high = <<>> /\ ww.slot.low = <<>>
    BY <1>1, <2>1, <2>2, WrittenFacts
  <2> QED BY <2>3 DEF w
<1> HIDE DEF w, uncomplete, t, out
<1>7. t \in Sockets
  BY <1>6 DEF Flushed
<1>8. Same(t, v) /\ (Frees(t, v) \/ Shuts(t, v) \/ Empties(t, v) \/ Keeps(t, v))
  <2>1. CASE fails
    BY <2>1, <1>7, WriteFailedFacts
  <2>2. CASE ~fails /\ k = Len(all)
    BY <2>2, <1>6, <1>7, CheckCloseFacts
  <2>3. CASE ~fails /\ k # Len(all)
    BY <2>3, <1>7 DEF Keeps, Same
  <2> QED BY <2>1, <2>2, <2>3
<1> HIDE DEF v
<1>9. v \in Sockets
  BY <1>8 DEF Same
<1>10. slot' \in [Indices -> Sockets] /\ Others(i) /\ slot'[i] = v
  BY <1>1, <1>5, <1>9, SlotPut
<1>11. \/ crashed' = FALSE \/ ~Whole(s.low)
       \/ t.high = <<>> /\ t.low = <<>> /\ t.wb # 0
  BY <1>4, <1>5, <1>6
<1>12. Flushes(i, out, t, v)
  BY <1>5, <1>6, <1>8, <1>10, <1>11 DEF Flushes
<1>13. crashed' \in BOOLEAN
  BY <1>5
<1> QED BY <1>1, <1>12, <1>13 DEF i

(* sp_wait reports a finite number of events.                              *)
LEMMA WaitEffect ==
    ASSUME SocketType, Wait
    PROVE  batch' \in Seq(Events)
<1>1. PICK S \in SUBSET {i \in Indices : Pending(i) # {}} :
          \E ev \in {f \in [S -> UNION {Pending(i) : i \in S}] : \A i \in S : f[i] \in Pending(i)} :
             batch' \in SetToSeqs({[i |-> i, kind |-> ev[i]] : i \in S})
  BY DEF Wait
<1>2. PICK ev \in {f \in [S -> UNION {Pending(i) : i \in S}] : \A i \in S : f[i] \in Pending(i)} :
             batch' \in SetToSeqs({[i |-> i, kind |-> ev[i]] : i \in S})
  BY <1>1
<1> DEFINE T == {[i |-> i, kind |-> ev[i]] : i \in S}
<1>3. S \subseteq Indices /\ IsFiniteSet(S)
  <2>1. S \subseteq Indices
    OBVIOUS
  <2>2. IsFiniteSet(Indices)
    <3>1. 0 \in Int /\ Slots - 1 \in Int
      BY SocketAssumption
    <3> QED BY <3>1, FS_Interval DEF Indices
  <2> QED BY <2>1, <2>2, FS_Subset
<1>4. IsFiniteSet(T)
  <2> DEFINE F == [i \in S |-> [i |-> i, kind |-> ev[i]]]
  <2>1. F \in [S -> T] /\ \A x \in T : \E i \in S : F[i] = x
    OBVIOUS
  <2> HIDE DEF F, T
  <2>2. F \in Surjection(S, T)
    BY <2>1 DEF Surjection
  <2> QED BY <1>3, <2>2, FS_Surjection
<1>5. T \subseteq Events
  <2>1. \A i \in S : ev[i] \in Kinds
    <3>1. \A i \in S : ev[i] \in Pending(i)
      BY <1>2
    <3>2. \A i : Pending(i) \subseteq Kinds
      BY DEF Pending, Kinds
    <3> QED BY <3>1, <3>2
  <2> QED BY <1>3, <2>1 DEF Events
<1>6. Cardinality(T) \in Nat
  BY <1>4, FS_CardinalityType
<1> HIDE DEF T
<1>7. batch' \in [1 .. Cardinality(T) -> T]
  BY <1>2 DEF SetToSeqs, T
<1> QED BY <1>5, <1>6, <1>7
-----------------------------------------------------------------------------
(* Types.                                                                  *)

LEMMA ReportType ==
    ASSUME SocketType, NEW kind, NEW id \in 0 .. MaxId, Report(kind, id)
    PROVE  opened' \subseteq 0 .. MaxId /\ closed' \subseteq 0 .. MaxId
BY DEF Report, SocketType

LEMMA InitType == Init => SocketType
<1> SUFFICES ASSUME Init PROVE SocketType
  OBVIOUS
<1> USE SocketAssumption DEF Init
<1>1. slot \in [Indices -> Sockets]
  <2> DEFINE t == [id |-> 0, type |-> "INVALID", tcp |-> FALSE, closing |-> FALSE,
                   reading |-> FALSE, writing |-> FALSE, high |-> <<>>, low |-> <<>>,
                   dw |-> None, tag |-> 0, sending |-> 0, wb |-> 0]
  <2>1. t \in Sockets
    BY EmptyLists DEF Sockets, Types
  <2>2. slot = [i \in Indices |-> t]
    OBVIOUS
  <2> HIDE DEF t
  <2> QED BY ONLY <2>1, <2>2
<1>2. cl \in [Clients -> Callers]
  BY DEF Callers
<1>3. IsFiniteSet(sent) /\ Cardinality(sent) <= MaxSends
  BY FS_EmptySet
<1>4. wire \in [Ids -> Seq(Messages \X {1, 2})]
  OBVIOUS
<1>5. pipe \in Seq(Commands) /\ batch \in Seq(Events)
  OBVIOUS
<1>6. lock \in [Indices -> Clients \cup {None}]
  OBVIOUS
<1>7. allocId \in 0 .. MaxId + Slots /\ poll \in {"ctrl", "events", "first"} /\ fc \in Closings \cup {None}
  OBVIOUS
<1>8. /\ held \subseteq Ids /\ opened \subseteq 0 .. MaxId /\ closed \subseteq 0 .. MaxId
      /\ sent \subseteq Messages /\ stale \in BOOLEAN /\ crashed \in BOOLEAN
  OBVIOUS
<1> QED BY ONLY <1>1, <1>2, <1>3, <1>4, <1>5, <1>6, <1>7, <1>8 DEF SocketType

(* The steps of services.                                                  *)
LEMMA ClientPut ==
    ASSUME SocketType, NEW c \in Clients, NEW x \in Callers, cl' = [cl EXCEPT ![c] = x]
    PROVE  cl' \in [Clients -> Callers] /\ cl'[c] = x /\ \A d \in Clients \ {c} : cl'[d] = cl[d]
BY DEF SocketType

LEMMA CallerTypes ==
    /\ [pc |-> "idle"] \in Callers
    /\ \A id \in Ids : [pc |-> "reserved", id |-> id] \in Callers
    /\ \A p \in Busy \cup {"wake"}, m \in Messages : [pc |-> p, m |-> m] \in Callers
BY DEF Callers, Reserving, Carrying

LEMMA CommandTypes ==
    /\ \A cmd \in Plain, id \in Ids : [cmd |-> cmd, id |-> id] \in Commands
    /\ \A cmd \in Packages, id \in Ids, m \in Messages : [cmd |-> cmd, id |-> id, m |-> m] \in Commands
BY DEF Commands

LEMMA PipeAppend ==
    ASSUME SocketType, NEW x \in Commands, pipe' = Append(pipe, x)
    PROVE  /\ pipe' \in Seq(Commands) /\ Len(pipe') = Len(pipe) + 1 /\ pipe'[Len(pipe) + 1] = x
           /\ DOMAIN pipe' = DOMAIN pipe \cup {Len(pipe) + 1}
           /\ \A j \in DOMAIN pipe : j # Len(pipe) + 1 /\ pipe'[j] = pipe[j]
<1>1. pipe \in Seq(Commands)
  BY DEF SocketType
<1> QED BY <1>1

(* A step of a service changes what the step of its call says.             *)
LEMMA OpenEffect ==
    ASSUME SocketType, NEW c \in Clients, Open(c)
    PROVE  LET i == HASH_ID(allocId')
           IN  /\ cl[c].pc = "idle" /\ allocId' \in Ids /\ allocId' > allocId
               /\ allocId' \in 0 .. MaxId + Slots
               /\ i \in Indices /\ Calm(i) /\ slot[i].type = "INVALID" /\ slot'[i].type = "RESERVE"
               /\ slot'[i].closing = slot[i].closing
               /\ cl' = [cl EXCEPT ![c] = [pc |-> "reserved", id |-> allocId']]
<1>1. /\ cl[c].pc = "idle" /\ FreeIds # {} /\ Min(FreeIds) <= MaxId /\ allocId' = Min(FreeIds)
      /\ slot' = Reserved(slot, allocId')
      /\ cl' = [cl EXCEPT ![c] = [pc |-> "reserved", id |-> allocId']]
  BY DEF Open, At
<1>2. /\ allocId' \in Ids /\ allocId' > allocId /\ slot[HASH_ID(allocId')].type = "INVALID"
      /\ allocId' \in 0 .. MaxId + Slots
  BY <1>1, FirstFree
<1> DEFINE n == allocId'
<1>3. slot' = [slot EXCEPT ![HASH_ID(n)].type = "RESERVE"] /\ n \in Ids
  BY <1>1, <1>2 DEF Reserved
<1> HIDE DEF n
<1>4. "RESERVE" \in Types
  BY DEF Types
<1>5. LET i == HASH_ID(n)
      IN  i \in Indices /\ Calm(i) /\ slot'[i].type = "RESERVE" /\ slot'[i].closing = slot[i].closing
  BY <1>3, <1>4, ReservedEffect
<1> QED BY <1>1, <1>2, <1>5 DEF n

LEMMA PublishEffect ==
    ASSUME SocketType, NEW c \in Clients, Publish(c)
    PROVE  LET id == cl[c].id
           IN  /\ cl[c].pc = "reserved" /\ id \in Ids /\ slot' = Claimed(slot, id)
               /\ cl' = [cl EXCEPT ![c] = [pc |-> "idle"]] /\ held' = held \cup {id}
               /\ \E cmd \in {"O", "L"} : /\ [cmd |-> cmd, id |-> id] \in Commands
                                          /\ pipe' = Append(pipe, [cmd |-> cmd, id |-> id])
<1>1. cl[c].pc = "reserved" /\ cl[c].id \in Ids
  BY CallerFacts DEF Publish, At
<1>2. /\ slot' = Claimed(slot, cl[c].id)
      /\ cl' = [cl EXCEPT ![c] = [pc |-> "idle"]] /\ held' = held \cup {cl[c].id}
  BY DEF Publish
<1>3. PICK cmd \in {"O", "L"} : pipe' = Append(pipe, [cmd |-> cmd, id |-> cl[c].id])
  BY DEF Publish
<1>4. [cmd |-> cmd, id |-> cl[c].id] \in Commands
  BY <1>1, CommandTypes DEF Plain
<1> QED BY <1>1, <1>2, <1>3, <1>4

LEMMA RequestEffect ==
    ASSUME SocketType, NEW c \in Clients, Request(c)
    PROVE  \E id \in held, cmd \in {"K", "shutdown", "R", "S"} :
              /\ id \in Ids /\ [cmd |-> cmd, id |-> id] \in Commands
              /\ pipe' = Append(pipe, [cmd |-> cmd, id |-> id])
<1>1. PICK id \in held, cmd \in {"K", "shutdown", "R", "S"} :
              pipe' = Append(pipe, [cmd |-> cmd, id |-> id])
  BY DEF Request
<1>2. id \in Ids
  BY DEF SocketType
<1>3. [cmd |-> cmd, id |-> id] \in Commands
  BY <1>2, CommandTypes DEF Plain
<1> QED BY <1>1, <1>2, <1>3

(* The message of a call, and whether the call goes on to write directly.  *)
NewMessage(c, id, low) == [n |-> Cardinality(sent) + 1, by |-> c, to |-> id, low |-> low]

LEMMA SendEffect ==
    ASSUME SocketType, NEW c \in Clients, Send(c)
    PROVE  \E id \in opened, low \in BOOLEAN, direct \in BOOLEAN :
              LET i == HASH_ID(id)
                  m == NewMessage(c, id, low)
              IN  /\ cl[c].pc = "idle" /\ id \in Nat
                  /\ ~socket_invalid(i, id) /\ (low \/ ~slot[i].closing)
                  /\ direct => ~low /\ can_direct_write(i, id) /\ lock[i] = None
                  /\ sent' = sent \cup {m} /\ Cardinality(sent) < MaxSends
                  /\ lock' = IF direct THEN [lock EXCEPT ![i] = c] ELSE lock
                  /\ cl' = [cl EXCEPT ![c] = [pc |-> IF direct THEN "locked" ELSE "inc", m |-> m]]
<1>1. PICK id \in opened, low \in BOOLEAN :
          LET i == HASH_ID(id)
              m == NewMessage(c, id, low)
              direct == ~low /\ can_direct_write(i, id) /\ lock[i] = None
          IN  /\ ~socket_invalid(i, id)
              /\ low \/ ~slot[i].closing
              /\ sent' = sent \cup {m}
              /\ lock' = IF direct THEN [lock EXCEPT ![i] = c] ELSE lock
              /\ cl' = [cl EXCEPT ![c] = [pc |-> IF direct THEN "locked" ELSE "inc", m |-> m]]
  BY DEF Send, NewMessage
<1>2. cl[c].pc = "idle" /\ Cardinality(sent) < MaxSends
  BY DEF Send, At
<1>3. id \in Nat
  BY SocketAssumption DEF SocketType
<1> DEFINE direct == ~low /\ can_direct_write(HASH_ID(id), id) /\ lock[HASH_ID(id)] = None
<1>4. direct \in BOOLEAN
  OBVIOUS
<1> WITNESS id \in opened, low \in BOOLEAN, direct \in BOOLEAN
<1> QED BY <1>1, <1>2, <1>3

LEMMA SentAdd ==
    ASSUME SocketType, NEW c \in Clients, NEW id \in Ids, NEW low \in BOOLEAN,
           Cardinality(sent) < MaxSends
    PROVE  LET m == NewMessage(c, id, low)
           IN  /\ m \in Messages /\ sent \cup {m} \subseteq Messages /\ IsFiniteSet(sent \cup {m})
               /\ Cardinality(sent \cup {m}) <= MaxSends /\ Cardinality(sent) \in Nat
               /\ m \notin sent => Cardinality(sent \cup {m}) = Cardinality(sent) + 1
               /\ m.n = Cardinality(sent) + 1 /\ m.by = c /\ m.to = id /\ m.low = low
<1> DEFINE m == NewMessage(c, id, low)
<1>1. sent \subseteq Messages /\ IsFiniteSet(sent)
  BY DEF SocketType
<1>2. Cardinality(sent) \in Nat
  BY <1>1, FS_CardinalityType
<1>3. m \in Messages
  BY <1>2, SocketAssumption DEF NewMessage, Messages
<1>4. m.n = Cardinality(sent) + 1 /\ m.by = c /\ m.to = id /\ m.low = low
  BY DEF NewMessage
<1> HIDE DEF m
<1>5. /\ IsFiniteSet(sent \cup {m})
      /\ Cardinality(sent \cup {m}) = IF m \in sent THEN Cardinality(sent) ELSE Cardinality(sent) + 1
  BY <1>1, FS_AddElement
<1> QED BY <1>1, <1>2, <1>3, <1>4, <1>5, SocketAssumption DEF m

LEMMA DoubleCheckEffect ==
    ASSUME SocketType, NEW c \in Clients, DoubleCheck(c)
    PROVE  LET m == cl[c].m
               i == HASH_ID(m.to)
           IN  /\ cl[c].pc = "locked" /\ m \in Messages /\ m.to \in Ids /\ i \in Indices
               /\ \/ /\ NothingQueued(i) /\ cl' = [cl EXCEPT ![c] = [pc |-> "checked", m |-> m]]
                     /\ UNCHANGED lock
                  \/ /\ ~NothingQueued(i) /\ cl' = [cl EXCEPT ![c] = [pc |-> "inc", m |-> m]]
                     /\ lock' = [lock EXCEPT ![i] = None]
<1> DEFINE m == cl[c].m
           i == HASH_ID(m.to)
<1>1. cl[c].pc = "locked" /\ cl[c] \in Carrying /\ m \in Messages
  BY CallerFacts DEF DoubleCheck, At, Busy
<1>2. m.to \in Ids /\ i \in Indices
  BY <1>1, MessageFacts, IdFacts
<1>3. /\ [cl[c] EXCEPT !.pc = "checked"] = [pc |-> "checked", m |-> m]
      /\ [cl[c] EXCEPT !.pc = "inc"] = [pc |-> "inc", m |-> m]
  BY <1>1 DEF Carrying
<1>4. \/ /\ NothingQueued(i) /\ cl' = [cl EXCEPT ![c] = [cl[c] EXCEPT !.pc = "checked"]]
         /\ UNCHANGED lock
      \/ /\ ~NothingQueued(i) /\ cl' = [cl EXCEPT ![c] = [cl[c] EXCEPT !.pc = "inc"]]
         /\ lock' = [lock EXCEPT ![i] = None]
  BY DEF DoubleCheck
<1> HIDE DEF m, i
<1> QED BY <1>1, <1>2, <1>3, <1>4 DEF m, i

LEMMA WakeEffect ==
    ASSUME SocketType, NEW c \in Clients, Wake(c)
    PROVE  LET x == [cmd |-> "W", id |-> cl[c].m.to]
           IN  /\ cl[c].pc = "wake" /\ cl[c].m \in Messages /\ cl[c].m.to \in Ids /\ x \in Commands
               /\ pipe' = Append(pipe, x) /\ cl' = [cl EXCEPT ![c] = [pc |-> "idle"]]
<1>1. cl[c].pc = "wake" /\ cl[c].m \in Messages
  BY CallerFacts DEF Wake, At
<1>2. cl[c].m.to \in Ids
  BY <1>1, MessageFacts
<1>3. [cmd |-> "W", id |-> cl[c].m.to] \in Commands
  BY <1>2, CommandTypes DEF Plain
<1> QED BY <1>1, <1>2, <1>3 DEF Wake

LEMMA SendCommandEffect ==
    ASSUME SocketType, NEW c \in Clients, SendCommand(c)
    PROVE  \E cmd \in Packages :
              LET m == cl[c].m
                  x == [cmd |-> cmd, id |-> m.to, m |-> m]
              IN  /\ cl[c].pc = "push" /\ m \in Messages /\ m.to \in Ids /\ x \in Commands
                  /\ pipe' = Append(pipe, x) /\ cl' = [cl EXCEPT ![c] = [pc |-> "idle"]]
<1>1. cl[c].pc = "push" /\ cl[c].m \in Messages
  BY CallerFacts DEF SendCommand, At, Busy
<1>2. cl[c].m.to \in Ids
  BY <1>1, MessageFacts
<1> DEFINE cmd == IF cl[c].m.low THEN "P" ELSE "D"
<1>3. cmd \in Packages
  BY DEF Packages
<1>4. pipe' = Append(pipe, [cmd |-> cmd, id |-> cl[c].m.to, m |-> cl[c].m])
  BY DEF SendCommand
<1> HIDE DEF cmd
<1>5. [cmd |-> cmd, id |-> cl[c].m.to, m |-> cl[c].m] \in Commands
  BY <1>1, <1>2, <1>3, CommandTypes
<1>6. cl' = [cl EXCEPT ![c] = [pc |-> "idle"]]
  BY DEF SendCommand
<1> QED BY <1>1, <1>2, <1>3, <1>4, <1>5, <1>6

(* The variables that a step of a service leaves alone.                    *)
LEMMA ClientFrames ==
    ASSUME NEW c \in Clients
    PROVE  /\ Open(c) => Running /\ UNCHANGED <<lock, pipe, poll, batch, fc, held, opened, closed, late, sent, wire, stale, crashed>>
           /\ OpenFull(c) => Running /\ UNCHANGED <<slot, lock, pipe, poll, batch, fc, cl, held, opened, closed, late, sent, wire, stale, crashed>>
           /\ Publish(c) => Running /\ UNCHANGED <<lock, allocId, poll, batch, fc, opened, closed, late, sent, wire, stale, crashed>>
           /\ Request(c) => Running /\ UNCHANGED <<slot, lock, allocId, poll, batch, fc, cl, held, opened, closed, late, sent, wire, stale, crashed>>
           /\ Send(c) => Running /\ UNCHANGED <<slot, allocId, pipe, poll, batch, fc, held, opened, closed, late, wire, stale, crashed>>
           /\ DoubleCheck(c) => Running /\ UNCHANGED <<slot, allocId, pipe, poll, batch, fc, held, opened, closed, late, sent, wire, stale, crashed>>
           /\ DirectWrite(c) => Running /\ UNCHANGED <<allocId, pipe, poll, batch, fc, held, opened, closed, late, sent, stale, crashed>>
           /\ Wake(c) => Running /\ UNCHANGED <<slot, lock, allocId, poll, batch, fc, held, opened, closed, late, sent, wire, stale, crashed>>
           /\ inc_sending_ref(c) => Running /\ UNCHANGED <<lock, allocId, pipe, poll, batch, fc, held, opened, closed, late, sent, wire, stale, crashed>>
           /\ SendCommand(c) => Running /\ UNCHANGED <<slot, lock, allocId, poll, batch, fc, held, opened, closed, late, sent, wire, stale, crashed>>
<1> USE DEF At, sockVars, pollVars, tellVars, callVars
<1>1. Open(c) => Running /\ UNCHANGED <<lock, pipe, poll, batch, fc, held, opened, closed, late, sent, wire, stale, crashed>>
  BY DEF Open
<1>2. OpenFull(c) => Running /\ UNCHANGED <<slot, lock, pipe, poll, batch, fc, cl, held, opened, closed, late, sent, wire, stale, crashed>>
  BY DEF OpenFull
<1>3. Publish(c) => Running /\ UNCHANGED <<lock, allocId, poll, batch, fc, opened, closed, late, sent, wire, stale, crashed>>
  BY DEF Publish
<1>4. Request(c) => Running /\ UNCHANGED <<slot, lock, allocId, poll, batch, fc, cl, held, opened, closed, late, sent, wire, stale, crashed>>
  BY DEF Request
<1>5. Send(c) => Running /\ UNCHANGED <<slot, allocId, pipe, poll, batch, fc, held, opened, closed, late, wire, stale, crashed>>
  BY DEF Send
<1>6. DoubleCheck(c) => Running /\ UNCHANGED <<slot, allocId, pipe, poll, batch, fc, held, opened, closed, late, sent, wire, stale, crashed>>
  BY DEF DoubleCheck
<1>7. DirectWrite(c) => Running /\ UNCHANGED <<allocId, pipe, poll, batch, fc, held, opened, closed, late, sent, stale, crashed>>
  BY DEF DirectWrite
<1>8. Wake(c) => Running /\ UNCHANGED <<slot, lock, allocId, poll, batch, fc, held, opened, closed, late, sent, wire, stale, crashed>>
  BY DEF Wake
<1>9. inc_sending_ref(c) => Running /\ UNCHANGED <<lock, allocId, pipe, poll, batch, fc, held, opened, closed, late, sent, wire, stale, crashed>>
  BY DEF inc_sending_ref
<1>10. SendCommand(c) => Running /\ UNCHANGED <<slot, lock, allocId, poll, batch, fc, held, opened, closed, late, sent, wire, stale, crashed>>
  BY DEF SendCommand
<1> QED BY <1>1, <1>2, <1>3, <1>4, <1>5, <1>6, <1>7, <1>8, <1>9, <1>10

LEMMA ClientType ==
    ASSUME SocketType, opened \subseteq held, NEW c \in Clients,
           \/ Open(c) \/ OpenFull(c) \/ Publish(c) \/ Request(c)
           \/ Send(c) \/ DoubleCheck(c) \/ DirectWrite(c) \/ Wake(c)
           \/ inc_sending_ref(c) \/ SendCommand(c)
    PROVE  SocketType'
<1>1. CASE Open(c)
  <2>1. slot' \in [Indices -> Sockets] /\ allocId' \in 0 .. MaxId + Slots
    BY <1>1, OpenEffect DEF Calm
  <2>2. cl' \in [Clients -> Callers]
    BY <1>1, OpenEffect, CallerTypes, ClientPut
  <2> QED BY <2>1, <2>2, <1>1, ClientFrames DEF SocketType
<1>2. CASE OpenFull(c)
  <2>1. allocId' \in 0 .. MaxId + Slots
    BY <1>2, SocketAssumption DEF OpenFull, SocketType
  <2> QED BY <2>1, <1>2, ClientFrames DEF SocketType
<1>3. CASE Publish(c)
  <2>1. slot' \in [Indices -> Sockets]
    BY <1>3, PublishEffect, ClaimedEffect
  <2>2. cl' \in [Clients -> Callers]
    BY <1>3, PublishEffect, CallerTypes, ClientPut
  <2>3. pipe' \in Seq(Commands)
    BY <1>3, PublishEffect, PipeAppend
  <2>4. held' \subseteq Ids
    BY <1>3, PublishEffect DEF SocketType
  <2> QED BY <2>1, <2>2, <2>3, <2>4, <1>3, ClientFrames DEF SocketType
<1>4. CASE Request(c)
  <2>3. pipe' \in Seq(Commands)
    BY <1>4, RequestEffect, PipeAppend
  <2> QED BY <2>3, <1>4, ClientFrames DEF SocketType
<1>5. CASE Send(c)
  <2>1. PICK id \in opened, low \in BOOLEAN, direct \in BOOLEAN :
              LET i == HASH_ID(id)
                  m == NewMessage(c, id, low)
              IN  /\ cl[c].pc = "idle" /\ id \in Nat
                  /\ ~socket_invalid(i, id) /\ (low \/ ~slot[i].closing)
                  /\ direct => ~low /\ can_direct_write(i, id) /\ lock[i] = None
                  /\ sent' = sent \cup {m} /\ Cardinality(sent) < MaxSends
                  /\ lock' = IF direct THEN [lock EXCEPT ![i] = c] ELSE lock
                  /\ cl' = [cl EXCEPT ![c] = [pc |-> IF direct THEN "locked" ELSE "inc", m |-> m]]
    BY <1>5, SendEffect
  <2> DEFINE m == NewMessage(c, id, low)
             p == IF direct THEN "locked" ELSE "inc"
  <2>2. id \in Ids
    BY DEF SocketType
  <2>3. /\ m \in Messages /\ sent' \subseteq Messages /\ IsFiniteSet(sent') /\ Cardinality(sent') <= MaxSends
    BY <2>1, <2>2, SentAdd
  <2>4. lock' \in [Indices -> Clients \cup {None}]
    BY <2>1 DEF SocketType
  <2>5. cl' \in [Clients -> Callers]
    <3>1. p \in Busy \cup {"wake"} /\ cl' = [cl EXCEPT ![c] = [pc |-> p, m |-> m]]
      BY <2>1 DEF Busy
    <3> HIDE DEF p, m
    <3>2. [pc |-> p, m |-> m] \in Callers
      BY <2>3, <3>1, CallerTypes
    <3> QED BY <3>1, <3>2, ClientPut
  <2> HIDE DEF m
  <2> QED BY <2>3, <2>4, <2>5, <1>5, ClientFrames DEF SocketType
<1>6. CASE DoubleCheck(c)
  <2>1. lock' \in [Indices -> Clients \cup {None}]
    BY <1>6, DoubleCheckEffect DEF SocketType
  <2>2. cl' \in [Clients -> Callers]
    <3>1. \E x \in Callers : cl' = [cl EXCEPT ![c] = x]
      BY <1>6, DoubleCheckEffect, CallerTypes DEF Busy
    <3> QED BY <3>1, ClientPut
  <2> QED BY <2>1, <2>2, <1>6, ClientFrames DEF SocketType
<1>7. CASE DirectWrite(c)
  <2> DEFINE m == cl[c].m
             i == HASH_ID(m.to)
  <2>1. /\ m \in Messages /\ m.to \in Ids /\ i \in Indices /\ lock' = [lock EXCEPT ![i] = None]
        /\ NotWritten(c, m) \/ AllWritten(c, m) \/ \E l \in {1, 2} : RestKept(c, m, l)
    BY <1>7, DirectWriteEffect
  <2>2. lock' \in [Indices -> Clients \cup {None}]
    BY <2>1 DEF SocketType
  <2> HIDE DEF m, i
  <2>3. cl' \in [Clients -> Callers]
    <3>1. \E x \in Callers : cl' = [cl EXCEPT ![c] = x]
      BY <2>1, CallerTypes DEF Busy, NotWritten, AllWritten, RestKept
    <3> QED BY <3>1, ClientPut
  <2>4. slot' \in [Indices -> Sockets]
    BY <2>1 DEF NotWritten, AllWritten, RestKept, SocketType
  <2>5. wire' \in [Ids -> Seq(Pieces)]
    <3>0. wire \in [Ids -> Seq(Pieces)] /\ wire[m.to] \in Seq(Pieces)
      BY <2>1 DEF SocketType, Pieces
    <3>1. \E x \in Seq(Pieces) : wire' = [wire EXCEPT ![m.to] = @ \o x] \/ wire' = wire
      <4>1. <<m, 1>> \in Pieces /\ <<m, 2>> \in Pieces
        BY <2>1 DEF Pieces
      <4>2. <<<<m, 1>>, <<m, 2>>>> \in Seq(Pieces) /\ <<<<m, 1>>>> \in Seq(Pieces) /\ <<>> \in Seq(Pieces)
        BY <4>1, ShortSeqs
      <4> QED BY <4>2, <2>1 DEF NotWritten, AllWritten, RestKept
    <3>2. PICK x \in Seq(Pieces) : wire' = [wire EXCEPT ![m.to] = @ \o x] \/ wire' = wire
      BY <3>1
    <3>3. wire[m.to] \o x \in Seq(Pieces)
      BY <3>0
    <3> QED BY <3>0, <3>2, <3>3
  <2> QED BY <2>2, <2>3, <2>4, <2>5, <1>7, ClientFrames DEF SocketType, Pieces
<1>8. CASE Wake(c)
  <2>2. cl' \in [Clients -> Callers]
    BY <1>8, WakeEffect, CallerTypes, ClientPut
  <2>3. pipe' \in Seq(Commands)
    BY <1>8, WakeEffect, PipeAppend
  <2> QED BY <2>2, <2>3, <1>8, ClientFrames DEF SocketType
<1>9. CASE inc_sending_ref(c)
  <2>1. slot' \in [Indices -> Sockets]
    BY <1>9, IncEffect DEF Tally
  <2>2. cl' \in [Clients -> Callers]
    <3>1. \E x \in Callers : cl' = [cl EXCEPT ![c] = x]
      BY <1>9, IncEffect, CallerTypes DEF Busy
    <3> QED BY <3>1, ClientPut
  <2> QED BY <2>1, <2>2, <1>9, ClientFrames DEF SocketType
<1>10. CASE SendCommand(c)
  <2>2. cl' \in [Clients -> Callers]
    BY <1>10, SendCommandEffect, CallerTypes, ClientPut
  <2>3. pipe' \in Seq(Commands)
    BY <1>10, SendCommandEffect, PipeAppend
  <2> QED BY <2>2, <2>3, <1>10, ClientFrames DEF SocketType
<1> QED BY <1>1, <1>2, <1>3, <1>4, <1>5, <1>6, <1>7, <1>8, <1>9, <1>10

(* The variables that a step of the socket thread leaves alone: the locks, *)
(* the calls, and what was sent.                                           *)
Commanded == pipe # <<>> /\ fc = None /\ pipe' = Tail(pipe) /\ poll' = poll
Signalled == batch # <<>> /\ fc = None /\ pipe' = pipe /\ poll' \in {"ctrl", "events"}
Served    == Running /\ UNCHANGED <<lock, cl, sent>>

LEMMA ServerFrames ==
    /\ open_socket => Served /\ Commanded /\ UNCHANGED <<allocId, fc, held, wire, stale>>
    /\ Ignored => Served /\ Commanded /\ UNCHANGED <<slot, allocId, fc, held, opened, closed, late, wire, stale, crashed>>
    /\ close_socket => Served /\ Commanded /\ UNCHANGED <<allocId, batch, held, wire>>
    /\ resume_socket => Served /\ Commanded /\ UNCHANGED <<allocId, batch, fc, held, wire, crashed>>
    /\ pause_socket => Served /\ Commanded /\ UNCHANGED <<allocId, batch, fc, held, opened, closed, late, wire, crashed>>
    /\ trigger_write => Served /\ Commanded /\ UNCHANGED <<allocId, batch, fc, held, opened, closed, late, wire, crashed>>
    /\ SendPackage => Served /\ Commanded /\ UNCHANGED <<allocId, batch, fc, held, opened, closed, late, wire>>
    /\ FinishClose => Served /\ UNCHANGED <<allocId, pipe, poll, held, wire, stale, crashed>>
    /\ NoMoreCommands => Served /\ poll' = "events" /\ UNCHANGED <<slot, allocId, pipe, batch, fc, held, opened, closed, late, wire, stale, crashed>>
    /\ Wait => Served /\ poll' \in {"ctrl", "first"} /\ UNCHANGED <<slot, allocId, pipe, fc, held, opened, closed, late, wire, stale, crashed>>
<1> USE DEF Served, Commanded, Ctrl, Valid, ForceClose, sockVars, pollVars, tellVars, callVars
<1>1. open_socket => Served /\ Commanded /\ UNCHANGED <<allocId, fc, held, wire, stale>>
  BY DEF open_socket
<1>2. Ignored => Served /\ Commanded /\ UNCHANGED <<slot, allocId, fc, held, opened, closed, late, wire, stale, crashed>>
  BY DEF Ignored
<1>3. close_socket => Served /\ Commanded /\ UNCHANGED <<allocId, batch, held, wire>>
  BY DEF close_socket
<1>4. resume_socket => Served /\ Commanded /\ UNCHANGED <<allocId, batch, fc, held, wire, crashed>>
  BY DEF resume_socket
<1>5. pause_socket => Served /\ Commanded /\ UNCHANGED <<allocId, batch, fc, held, opened, closed, late, wire, crashed>>
  BY DEF pause_socket
<1>6. trigger_write => Served /\ Commanded /\ UNCHANGED <<allocId, batch, fc, held, opened, closed, late, wire, crashed>>
  BY DEF trigger_write
<1>7. SendPackage => Served /\ Commanded /\ UNCHANGED <<allocId, batch, fc, held, opened, closed, late, wire>>
  BY DEF SendPackage
<1>8. FinishClose => Served /\ UNCHANGED <<allocId, pipe, poll, held, wire, stale, crashed>>
  BY DEF FinishClose
<1>9. NoMoreCommands => Served /\ poll' = "events" /\ UNCHANGED <<slot, allocId, pipe, batch, fc, held, opened, closed, late, wire, stale, crashed>>
  BY DEF NoMoreCommands
<1>10. Wait => Served /\ poll' \in {"ctrl", "first"} /\ UNCHANGED <<slot, allocId, pipe, fc, held, opened, closed, late, wire, stale, crashed>>
  BY DEF Wait
<1> QED BY <1>1, <1>2, <1>3, <1>4, <1>5, <1>6, <1>7, <1>8, <1>9, <1>10

LEMMA EventFrames ==
    /\ report_connect => Served /\ Signalled /\ batch' = Tail(batch) /\ UNCHANGED <<allocId, held, wire>>
    /\ report_accept => Served /\ Signalled /\ batch' = Tail(batch) /\ UNCHANGED <<fc, opened, closed, late, wire>>
    /\ InvalidEvent => Served /\ Signalled /\ batch' = Tail(batch) /\ UNCHANGED <<slot, allocId, fc, held, opened, closed, late, wire, crashed>>
    /\ StaleEvent => Served /\ Signalled /\ batch' = Tail(batch) /\ UNCHANGED <<slot, allocId, fc, held, opened, closed, late, wire>>
    /\ ReadAgain => Served /\ Signalled /\ ReadDone /\ UNCHANGED <<slot, allocId, fc, held, opened, closed, late, wire, crashed>>
    /\ ReadError => Served /\ Signalled /\ batch' = Tail(batch) /\ UNCHANGED <<slot, allocId, fc, held, opened, closed, late, wire, crashed>>
    /\ ReadData => Served /\ Signalled /\ (ReadDone \/ batch' = batch) /\ UNCHANGED <<slot, allocId, fc, held, wire, crashed>>
    /\ ReadEnd => Served /\ Signalled /\ (ReadDone \/ batch' = Tail(batch)) /\ UNCHANGED <<allocId, held, wire>>
    /\ WriteBlocked => Served /\ Signalled /\ batch' = Tail(batch) /\ UNCHANGED <<slot, allocId, fc, held, opened, closed, late, wire, crashed>>
    /\ send_buffer => Served /\ Signalled /\ batch' = Tail(batch) /\ UNCHANGED <<allocId, fc, held, opened, closed, late>>
    /\ Eof => Served /\ Signalled /\ batch' = Tail(batch) /\ UNCHANGED <<allocId, held, wire>>
<1> USE DEF Served, Signalled, Event, Done, ForceClose, sockVars, pollVars, tellVars, callVars
<1>1. report_connect => Served /\ Signalled /\ batch' = Tail(batch) /\ UNCHANGED <<allocId, held, wire>>
  BY DEF report_connect
<1>2. report_accept => Served /\ Signalled /\ batch' = Tail(batch) /\ UNCHANGED <<fc, opened, closed, late, wire>>
  BY DEF report_accept
<1>3. InvalidEvent => Served /\ Signalled /\ batch' = Tail(batch) /\ UNCHANGED <<slot, allocId, fc, held, opened, closed, late, wire, crashed>>
  BY DEF InvalidEvent
<1>4. StaleEvent => Served /\ Signalled /\ batch' = Tail(batch) /\ UNCHANGED <<slot, allocId, fc, held, opened, closed, late, wire>>
  BY DEF StaleEvent
<1>5. ReadAgain => Served /\ Signalled /\ ReadDone /\ UNCHANGED <<slot, allocId, fc, held, opened, closed, late, wire, crashed>>
  BY DEF ReadAgain
<1>6. ReadError => Served /\ Signalled /\ batch' = Tail(batch) /\ UNCHANGED <<slot, allocId, fc, held, opened, closed, late, wire, crashed>>
  BY DEF ReadError
<1>7. ReadData => Served /\ Signalled /\ (ReadDone \/ batch' = batch) /\ UNCHANGED <<slot, allocId, fc, held, wire, crashed>>
  BY DEF ReadData
<1>8. ReadEnd => Served /\ Signalled /\ (ReadDone \/ batch' = Tail(batch)) /\ UNCHANGED <<allocId, held, wire>>
  BY DEF ReadEnd
<1>9. WriteBlocked => Served /\ Signalled /\ batch' = Tail(batch) /\ UNCHANGED <<slot, allocId, fc, held, opened, closed, late, wire, crashed>>
  BY DEF WriteBlocked
<1>10. send_buffer => Served /\ Signalled /\ batch' = Tail(batch) /\ UNCHANGED <<allocId, fc, held, opened, closed, late>>
  BY DEF send_buffer
<1>11. Eof => Served /\ Signalled /\ batch' = Tail(batch) /\ UNCHANGED <<allocId, held, wire>>
  BY DEF Eof
<1> QED BY <1>1, <1>2, <1>3, <1>4, <1>5, <1>6, <1>7, <1>8, <1>9, <1>10, <1>11

LEMMA BatchType ==
    ASSUME SocketType, batch # <<>>, ReadDone \/ batch' = Tail(batch) \/ batch' = batch
    PROVE  batch' \in Seq(Events)
<1>1. E \in Events /\ Tail(batch) \in Seq(Events) /\ batch \in Seq(Events)
  BY EventFacts DEF SocketType
<1>2. [E EXCEPT !.kind = "w"] \in Events
  BY <1>1 DEF Events, Kinds
<1> DEFINE x == [E EXCEPT !.kind = "w"]
<1>3. ReadDone => batch' = <<x>> \o Tail(batch) \/ batch' = Tail(batch)
  BY DEF ReadDone
<1> HIDE DEF x
<1>4. <<x>> \o Tail(batch) \in Seq(Events)
  BY <1>1, <1>2 DEF x
<1> QED BY <1>1, <1>3, <1>4

LEMMA CommandedFacts ==
    ASSUME SocketType, Commanded
    PROVE  /\ Cmd = pipe[1] /\ 1 \in DOMAIN pipe /\ Cmd \in Commands /\ Cmd.id \in Ids
           /\ HASH_ID(Cmd.id) \in Indices /\ pipe' \in Seq(Commands)
           /\ \A j \in DOMAIN pipe' : j + 1 \in DOMAIN pipe /\ j + 1 # 1 /\ pipe'[j] = pipe[j + 1]
           /\ \A j \in DOMAIN pipe : j # 1 => j - 1 \in DOMAIN pipe' /\ pipe'[j - 1] = pipe[j]
           /\ poll' \in {"ctrl", "events", "first"} /\ fc = None
<1>1. pipe \in Seq(Commands) /\ pipe # <<>> /\ pipe' = Tail(pipe)
  BY DEF SocketType, Commanded
<1>2. /\ pipe' \in Seq(Commands)
      /\ \A j \in DOMAIN pipe' : j + 1 \in DOMAIN pipe /\ j + 1 # 1 /\ pipe'[j] = pipe[j + 1]
  BY <1>1
<1>3. \A j \in DOMAIN pipe : j # 1 => j - 1 \in DOMAIN pipe' /\ pipe'[j - 1] = pipe[j]
  BY <1>1
<1>4. Cmd = pipe[1] /\ 1 \in DOMAIN pipe /\ Cmd \in Commands
  BY <1>1 DEF Cmd
<1>5. Cmd.id \in Ids /\ HASH_ID(Cmd.id) \in Indices
  BY <1>4, CommandFacts, IdFacts
<1> QED BY <1>2, <1>3, <1>4, <1>5 DEF Commanded, SocketType

LEMMA OpenSocketEffect ==
    ASSUME SocketType, open_socket
    PROVE  LET id == Cmd.id
               i == HASH_ID(id)
           IN  /\ Cmd.cmd \in {"O", "L"}
               /\ \/ /\ \E type \in {"CONNECTED", "CONNECTING", "PLISTEN"} :
                           /\ Opened(id, type, type # "PLISTEN", type = "CONNECTING")
                           /\ IF type = "CONNECTING" THEN Silent ELSE Report("OPEN", id)
                     /\ crashed' = ~CanOpen(id) /\ batch' \in Seq(Events)
                  \/ /\ ModeStep(i, "INVALID", slot[i].closing, slot[i].writing)
                     /\ Silent /\ batch' \in Seq(Events)
                     /\ crashed' = (Cmd.cmd # "O" /\ slot[i].type # "RESERVE")
<1> DEFINE id == Cmd.id
           i == HASH_ID(id)
<1>1. Cmd.cmd \in {"O", "L"} /\ Commanded
  BY ServerFrames DEF open_socket, Ctrl
<1>2. id \in Ids /\ i \in Indices
  BY <1>1, CommandedFacts
<1>3. \/ /\ \E type \in Outcome[Cmd.cmd] :
                    /\ Opened(id, type, type # "PLISTEN", type = "CONNECTING")
                    /\ IF type = "CONNECTING" THEN Silent ELSE Report("OPEN", id)
         /\ crashed' = ~CanOpen(id) /\ UNCHANGED batch
      \/ /\ Failed(id) /\ Silent
         /\ crashed' = (Cmd.cmd # "O" /\ slot[i].type # "RESERVE")
  BY DEF open_socket
<1>4. Outcome[Cmd.cmd] \subseteq {"CONNECTED", "CONNECTING", "PLISTEN"}
  BY <1>1 DEF Outcome
<1> HIDE DEF id
<1>5. Failed(id) => ModeStep(i, "INVALID", slot[i].closing, slot[i].writing) /\ batch' \in Seq(Events)
  <2> SUFFICES ASSUME Failed(id)
               PROVE  ModeStep(i, "INVALID", slot[i].closing, slot[i].writing) /\ batch' \in Seq(Events)
    OBVIOUS
  <2>1. slot' = [slot EXCEPT ![HASH_ID(id)].type = "INVALID"] /\ clear_closed_event(slot', id)
    BY DEF Failed
  <2>2. "INVALID" \in Types
    BY DEF Types
  <2>3. batch' \in Seq(Events)
    BY <2>1, ClearedBatch
  <2> QED BY <1>2, <2>1, <2>2, <2>3, ReservedEffect DEF ModeStep
<1>6. batch \in Seq(Events)
  BY DEF SocketType
<1> QED BY <1>1, <1>3, <1>4, <1>5, <1>6 DEF id

(* The kinds of force_close that a socket of type t allows.                *)
Closable(i, kind) == kind \in {"none", "ERR", "CLOSE"} /\ (kind = "CLOSE" => slot[i].type # "HALFCLOSE_READ")

LEMMA CloseSocketEffect ==
    ASSUME SocketType, close_socket
    PROVE  LET id == Cmd.id
               i == HASH_ID(id)
           IN  /\ Cmd.cmd \in {"K", "shutdown"} /\ Stale /\ ~socket_invalid(i, id)
               /\ \/ \E kind : Closable(i, kind) /\ ForceClose(i, kind, TRUE)
                  \/ /\ ModeStep(i, "HALFCLOSE_READ", TRUE, slot[i].writing)
                     /\ ~nomore_sending_data(i) /\ UNCHANGED <<fc, crashed>>
                     /\ IF slot[i].type = "HALFCLOSE_READ" THEN Silent ELSE Report("CLOSE", id)
<1> DEFINE id == Cmd.id
           i == HASH_ID(id)
           half == halfclose_read(i)
           kd == IF half THEN "none" ELSE "CLOSE"
<1>1. Cmd.cmd \in {"K", "shutdown"} /\ Stale /\ ~socket_invalid(i, id) /\ Commanded
  BY ServerFrames DEF close_socket, Valid, Ctrl
<1>2. id \in Ids /\ i \in Indices
  BY <1>1, CommandedFacts
<1>3. \/ ForceClose(i, kd, TRUE)
      \/ /\ ~nomore_sending_data(i)
         /\ slot' = [slot EXCEPT ![i].closing = TRUE, ![i].type = "HALFCLOSE_READ",
                                 ![i].reading = IF half THEN @ ELSE FALSE]
         /\ IF half THEN Silent ELSE Report("CLOSE", Cmd.id)
         /\ UNCHANGED <<fc, crashed>>
  BY DEF close_socket
<1>4. Closable(i, kd)
  BY DEF Closable, halfclose_read
<1> HIDE DEF id, i
<1>5. CASE ForceClose(i, kd, TRUE)
  BY <1>1, <1>4, <1>5 DEF id, i
<1>6. CASE /\ ~nomore_sending_data(i)
           /\ slot' = [slot EXCEPT ![i].closing = TRUE, ![i].type = "HALFCLOSE_READ",
                                   ![i].reading = IF half THEN @ ELSE FALSE]
           /\ IF half THEN Silent ELSE Report("CLOSE", Cmd.id)
           /\ UNCHANGED <<fc, crashed>>
  <2> DEFINE r == IF half THEN slot[i].reading ELSE FALSE
  <2>1. r \in BOOLEAN /\ slot[i].writing \in BOOLEAN /\ "HALFCLOSE_READ" \in Types
    BY <1>2, SocketFields DEF Types
  <2>2. slot' = [slot EXCEPT ![i].closing = TRUE, ![i].type = "HALFCLOSE_READ", ![i].reading = r]
    BY <1>6
  <2> HIDE DEF r
  <2>3. ModeStep(i, "HALFCLOSE_READ", TRUE, slot[i].writing)
    <3>1. TRUE \in BOOLEAN
      OBVIOUS
    <3> QED BY <1>2, <2>1, <2>2, <3>1, CloseMode
  <2> QED BY <1>1, <1>6, <2>3 DEF id, i, halfclose_read
<1> QED BY <1>3, <1>5, <1>6

LEMMA ResumeEffect ==
    ASSUME SocketType, resume_socket
    PROVE  LET id == Cmd.id
               i == HASH_ID(id)
               t == slot[i].type
           IN  /\ Cmd.cmd = "R" /\ Stale /\ ~socket_invalid(i, id)
               /\ \/ UNCHANGED slot /\ Silent
                  \/ /\ t # "HALFCLOSE_READ"
                     /\ ModeStep(i, CASE t = "PACCEPT" -> "CONNECTED" [] t = "PLISTEN" -> "LISTEN" [] OTHER -> t,
                                 slot[i].closing, slot[i].writing)
                     /\ IF t \in {"PACCEPT", "PLISTEN", "CONNECTED"} THEN Report("OPEN", id) ELSE Silent
<1> DEFINE id == Cmd.id
           i == HASH_ID(id)
           t == slot[i].type
           u == CASE t = "PACCEPT" -> "CONNECTED" [] t = "PLISTEN" -> "LISTEN" [] OTHER -> t
<1>1. Cmd.cmd = "R" /\ Stale /\ ~socket_invalid(i, id) /\ Commanded
  BY ServerFrames DEF resume_socket, Valid, Ctrl
<1>2. id \in Ids /\ i \in Indices
  BY <1>1, CommandedFacts
<1>3. \/ UNCHANGED slot /\ Silent
      \/ /\ t # "HALFCLOSE_READ"
         /\ slot' = [slot EXCEPT ![i].reading = TRUE, ![i].type = u]
         /\ IF t \in {"PACCEPT", "PLISTEN", "CONNECTED"} THEN Report("OPEN", id) ELSE Silent
  BY DEF resume_socket, halfclose_read
<1> HIDE DEF id, i
<1>4. /\ u \in Types /\ slot[i].writing \in BOOLEAN /\ slot[i].closing \in BOOLEAN
  BY <1>2, SocketFields DEF Types
<1> HIDE DEF u
<1>5. slot' = [slot EXCEPT ![i].reading = TRUE, ![i].type = u] => ModeStep(i, u, slot[i].closing, slot[i].writing)
  BY <1>2, <1>4, ReadMode
<1> QED BY <1>1, <1>3, <1>5 DEF id, i, u

LEMMA ToggleEffect ==
    ASSUME SocketType
    PROVE  LET id == Cmd.id
               i == HASH_ID(id)
           IN  /\ pause_socket => /\ Stale /\ ~socket_invalid(i, id)
                                  /\ ModeStep(i, slot[i].type, slot[i].closing, slot[i].writing)
               /\ trigger_write => /\ Stale /\ ~socket_invalid(i, id)
                                   /\ ModeStep(i, slot[i].type, slot[i].closing, TRUE)
<1> DEFINE id == Cmd.id
           i == HASH_ID(id)
<1>1. ASSUME pause_socket
      PROVE Stale /\ ~socket_invalid(i, id) /\ ModeStep(i, slot[i].type, slot[i].closing, slot[i].writing)
  <2>1. Stale /\ ~socket_invalid(i, id) /\ Commanded /\ slot' = [slot EXCEPT ![i].reading = FALSE]
    BY <1>1, ServerFrames DEF pause_socket, Valid
  <2>2. i \in Indices
    BY <2>1, CommandedFacts
  <2> HIDE DEF id, i
  <2>3. slot[i].type \in Types /\ slot[i].closing \in BOOLEAN /\ slot[i].writing \in BOOLEAN
    BY <2>2, SocketFields
  <2> QED BY <2>1, <2>2, <2>3, ReadingMode
<1>2. ASSUME trigger_write
      PROVE Stale /\ ~socket_invalid(i, id) /\ ModeStep(i, slot[i].type, slot[i].closing, TRUE)
  <2>1. Stale /\ ~socket_invalid(i, id) /\ Commanded /\ slot' = [slot EXCEPT ![i].writing = TRUE]
    BY <1>2, ServerFrames DEF trigger_write, Valid
  <2>2. i \in Indices
    BY <2>1, CommandedFacts
  <2> HIDE DEF id, i
  <2>3. slot[i].type \in Types /\ slot[i].closing \in BOOLEAN /\ slot[i].reading \in BOOLEAN
    BY <2>2, SocketFields
  <2> QED BY <2>1, <2>2, <2>3, WritingMode
<1> QED BY <1>1, <1>2

LEMMA ConnectEffect ==
    ASSUME SocketType, report_connect
    PROVE  LET i == E.i
           IN  /\ i \in Indices /\ slot[i].type = "CONNECTING" /\ stale' = stale
               /\ \/ ForceClose(i, "ERR", FALSE)
                  \/ /\ \E w \in BOOLEAN : /\ ModeStep(i, "CONNECTED", slot[i].closing, w)
                                           /\ slot[i].writing /\ ~NothingQueued(i) => w
                     /\ Report("OPEN", slot[i].id) /\ UNCHANGED <<fc, crashed>>
<1> DEFINE i == E.i
           w == slot[i].writing /\ ~nomore_sending_data(i)
<1>1. batch # <<>> /\ slot[i].type = "CONNECTING" /\ stale' = (stale \/ slot[i].type = "RESERVE")
  BY DEF report_connect, Event
<1>2. i \in Indices
  BY <1>1, EventFacts
<1>3. \/ ForceClose(i, "ERR", FALSE)
      \/ /\ slot' = [slot EXCEPT ![i].type = "CONNECTED", ![i].writing = @ /\ ~nomore_sending_data(i)]
         /\ Report("OPEN", slot[i].id) /\ UNCHANGED <<fc, crashed>>
  BY DEF report_connect
<1> HIDE DEF i
<1>4. w \in BOOLEAN /\ slot[i].closing \in BOOLEAN /\ slot[i].reading \in BOOLEAN /\ "CONNECTED" \in Types
  BY <1>2, SocketFields DEF Types
<1>5. slot[i].writing /\ ~NothingQueued(i) => w
  BY <1>1 DEF nomore_sending_data
<1>6. stale' = stale
  BY <1>1 DEF SocketType
<1>7. slot' = [slot EXCEPT ![i].type = "CONNECTED", ![i].writing = @ /\ ~nomore_sending_data(i)]
         => slot' = [slot EXCEPT ![i].type = "CONNECTED", ![i].writing = w]
  OBVIOUS
<1> HIDE DEF w
<1>8. slot' = [slot EXCEPT ![i].type = "CONNECTED", ![i].writing = w] => ModeStep(i, "CONNECTED", slot[i].closing, w)
  BY <1>2, <1>4, WriteMode
<1> QED BY <1>1, <1>2, <1>3, <1>4, <1>5, <1>6, <1>7, <1>8 DEF i

LEMMA AcceptEffect ==
    ASSUME SocketType, report_accept
    PROVE  /\ E.i \in Indices /\ slot[E.i].type = "LISTEN" /\ stale' = stale
           /\ \/ allocId' >= allocId /\ UNCHANGED <<slot, held, crashed>>
              \/ /\ allocId' \in Ids /\ allocId' > allocId
                 /\ slot[HASH_ID(allocId')].type = "INVALID"
                 /\ \/ slot' = Claimed(slot, allocId') /\ UNCHANGED <<held, crashed>>
                    \/ /\ Opened(allocId', "PACCEPT", FALSE, FALSE)
                       /\ held' = held \cup {allocId'}
                       /\ crashed' = ~send_buffer_empty(HASH_ID(allocId'))
           /\ allocId' \in 0 .. MaxId + Slots
<1>1. batch # <<>> /\ slot[E.i].type = "LISTEN" /\ stale' = (stale \/ slot[E.i].type = "RESERVE")
  BY DEF report_accept, Event
<1>2. E.i \in Indices /\ allocId \in 0 .. MaxId + Slots /\ allocId \in Nat
  BY <1>1, EventFacts, SocketAssumption DEF SocketType
<1>3. stale' = stale
  BY <1>1 DEF SocketType
<1>4. \/ UNCHANGED <<slot, allocId, held, crashed>>
      \/ /\ allocId < MaxId /\ allocId' = allocId + Slots /\ UNCHANGED <<slot, held, crashed>>
      \/ /\ FreeIds # {} /\ Min(FreeIds) <= MaxId /\ allocId' = Min(FreeIds)
         /\ \/ slot' = Claimed(slot, allocId') /\ UNCHANGED <<held, crashed>>
            \/ /\ Opened(allocId', "PACCEPT", FALSE, FALSE)
               /\ held' = held \cup {allocId'}
               /\ crashed' = ~send_buffer_empty(HASH_ID(allocId'))
  BY DEF report_accept
<1>5. CASE UNCHANGED <<slot, allocId, held, crashed>>
  <2>1. allocId' >= allocId /\ allocId' \in 0 .. MaxId + Slots
    BY <1>2, <1>5
  <2> QED BY <1>1, <1>2, <1>3, <1>5, <2>1
<1>6. CASE /\ allocId < MaxId /\ allocId' = allocId + Slots /\ UNCHANGED <<slot, held, crashed>>
  <2>1. allocId' >= allocId /\ allocId' \in 0 .. MaxId + Slots
    BY <1>2, <1>6, SocketAssumption
  <2> QED BY <1>1, <1>2, <1>3, <1>6, <2>1
<1>7. CASE /\ FreeIds # {} /\ Min(FreeIds) <= MaxId /\ allocId' = Min(FreeIds)
           /\ \/ slot' = Claimed(slot, allocId') /\ UNCHANGED <<held, crashed>>
              \/ /\ Opened(allocId', "PACCEPT", FALSE, FALSE)
                 /\ held' = held \cup {allocId'}
                 /\ crashed' = ~send_buffer_empty(HASH_ID(allocId'))
  BY <1>1, <1>2, <1>3, <1>7, FirstFree
<1> QED BY <1>4, <1>5, <1>6, <1>7

LEMMA ReadEndEffect ==
    ASSUME SocketType, ReadEnd
    PROVE  LET i == E.i
           IN  /\ i \in Indices /\ slot[i].type \in Connections /\ stale' = stale
               /\ \/ \E kind : Closable(i, kind) /\ ForceClose(i, kind, FALSE)
                  \/ UNCHANGED <<slot, opened, closed, late, fc, crashed>>
                  \/ /\ slot[i].type \in {"CONNECTED", "PACCEPT"} /\ ~slot[i].closing
                     /\ ModeStep(i, "HALFCLOSE_READ", slot[i].closing, slot[i].writing)
                     /\ Report("CLOSE", slot[i].id) /\ UNCHANGED <<fc, crashed>>
<1> DEFINE i == E.i
           s == slot[i]
<1>1. batch # <<>> /\ s.type \in Connections /\ stale' = (stale \/ s.type = "RESERVE")
  BY DEF ReadEnd, Event
<1>2. i \in Indices
  BY <1>1, EventFacts
<1>3. stale' = stale
  BY <1>1 DEF SocketType, Connections
<1>4. \/ ForceClose(i, "none", FALSE)
      \/ UNCHANGED <<slot, opened, closed, late, fc, crashed>>
      \/ s.type = "HALFCLOSE_WRITE" /\ ForceClose(i, "CLOSE", FALSE)
      \/ /\ ~s.closing /\ s.type \notin {"HALFCLOSE_READ", "HALFCLOSE_WRITE"}
         /\ slot' = [slot EXCEPT ![i].type = "HALFCLOSE_READ", ![i].reading = FALSE]
         /\ Report("CLOSE", s.id) /\ UNCHANGED <<fc, crashed>>
  BY DEF ReadEnd, Silent, tellVars
<1>5. Closable(i, "none") /\ (s.type = "HALFCLOSE_WRITE" => Closable(i, "CLOSE"))
  BY DEF Closable
<1> HIDE DEF i
<1>6. slot' = [slot EXCEPT ![i].type = "HALFCLOSE_READ", ![i].reading = FALSE]
        => ModeStep(i, "HALFCLOSE_READ", slot[i].closing, slot[i].writing)
  <2>1. slot[i].writing \in BOOLEAN /\ slot[i].closing \in BOOLEAN /\ "HALFCLOSE_READ" \in Types
    BY <1>2, SocketFields DEF Types
  <2> QED BY <1>2, <2>1, EndMode
<1>7. s.type \notin {"HALFCLOSE_READ", "HALFCLOSE_WRITE"} => s.type \in {"CONNECTED", "PACCEPT"}
  BY <1>1 DEF Connections
<1> QED BY <1>1, <1>2, <1>3, <1>4, <1>5, <1>6, <1>7 DEF i

LEMMA EofEffect ==
    ASSUME SocketType, Eof
    PROVE  /\ E.i \in Indices /\ slot[E.i].type \in Streams /\ stale' = stale
           /\ \E kind : Closable(E.i, kind) /\ ForceClose(E.i, kind, FALSE)
<1>1. batch # <<>> /\ slot[E.i].type \in Streams /\ stale' = (stale \/ slot[E.i].type = "RESERVE")
  BY DEF Eof, Event
<1>2. E.i \in Indices
  BY <1>1, EventFacts
<1>3. stale' = stale
  BY <1>1 DEF SocketType, Streams, Connections
<1> DEFINE kd == IF halfclose_read(E.i) THEN "none" ELSE "CLOSE"
<1>4. ForceClose(E.i, kd, FALSE) /\ Closable(E.i, kd)
  BY DEF Eof, Closable, halfclose_read
<1> QED BY <1>1, <1>2, <1>3, <1>4

(* The other events leave the sockets alone.                               *)
LEMMA CalmEvents ==
    ASSUME SocketType, ReadAgain \/ ReadError \/ ReadData \/ WriteBlocked \/ InvalidEvent \/ StaleEvent
    PROVE  /\ E.i \in Indices /\ UNCHANGED <<slot, allocId, fc, held, wire>>
           /\ ~StaleEvent => stale' = stale /\ crashed' = crashed
           /\ StaleEvent => stale' = TRUE /\ crashed' \in BOOLEAN
           /\ ~ReadData => Silent
           /\ ReadData => \/ Silent
                          \/ slot[E.i].type \in Connections \ {"HALFCLOSE_READ"} /\ Report("DATA", slot[E.i].id)
<1>1. batch # <<>>
  BY EventFrames DEF Signalled
<1>2. E.i \in Indices
  BY <1>1, EventFacts
<1>3. UNCHANGED <<slot, allocId, fc, held, wire>>
  BY EventFrames
<1>4. StaleEvent => stale' = TRUE /\ crashed' \in BOOLEAN /\ Silent
  BY DEF StaleEvent, Event, Silent
<1>5. ReadAgain \/ ReadError \/ WriteBlocked \/ InvalidEvent => stale' = stale /\ crashed' = crashed /\ Silent
  BY
     DEF ReadAgain, ReadError, WriteBlocked, InvalidEvent, Event, Streams, Connections,
         SocketType, Silent
<1>6. ReadData => /\ stale' = stale /\ crashed' = crashed
                  /\ \/ Silent
                     \/ slot[E.i].type \in Connections \ {"HALFCLOSE_READ"} /\ Report("DATA", slot[E.i].id)
  BY DEF ReadData, Event, Connections, SocketType, halfclose_read
<1> QED BY <1>2, <1>3, <1>4, <1>5, <1>6

LEMMA ForceCloseType ==
    ASSUME SocketType, NEW i \in Indices, NEW kind, Closable(i, kind), NEW ctrl \in BOOLEAN,
           ForceClose(i, kind, ctrl)
    PROVE  /\ slot' \in [Indices -> Sockets] /\ fc' \in Closings /\ crashed' \in BOOLEAN
           /\ opened' = opened /\ closed' = closed /\ late' = late
<1>1. kind \in {"none", "ERR", "CLOSE"}
  BY DEF Closable
<1> QED BY <1>1, ForceCloseEffect

LEMMA StaleType ==
    ASSUME SocketType, Stale
    PROVE  stale' \in BOOLEAN
BY DEF Stale, SocketType

LEMMA FrameType ==
    ASSUME SocketType, Served, Commanded \/ Signalled,
           slot' \in [Indices -> Sockets], allocId' \in 0 .. MaxId + Slots, batch' \in Seq(Events),
           fc' \in Closings \cup {None}, held' \subseteq Ids,
           opened' \subseteq 0 .. MaxId, closed' \subseteq 0 .. MaxId,
           wire' \in [Ids -> Seq(Pieces)], stale' \in BOOLEAN, crashed' \in BOOLEAN
    PROVE  SocketType'
<1>1. pipe' \in Seq(Commands) /\ poll' \in {"ctrl", "events", "first"}
  <2>1. Commanded => pipe' \in Seq(Commands) /\ poll' \in {"ctrl", "events", "first"}
    BY CommandedFacts
  <2>2. Signalled => pipe' \in Seq(Commands) /\ poll' \in {"ctrl", "events", "first"}
    BY DEF Signalled, SocketType
  <2> QED BY <2>1, <2>2
<1> QED BY <1>1 DEF SocketType, Served, Pieces

LEMMA TypeUse ==
    ASSUME SocketType
    PROVE  /\ slot \in [Indices -> Sockets] /\ allocId \in 0 .. MaxId + Slots /\ batch \in Seq(Events)
           /\ fc \in Closings \cup {None} /\ held \subseteq Ids
           /\ opened \subseteq 0 .. MaxId /\ closed \subseteq 0 .. MaxId
           /\ wire \in [Ids -> Seq(Pieces)] /\ stale \in BOOLEAN /\ crashed \in BOOLEAN
BY DEF SocketType, Pieces

LEMMA TellType ==
    ASSUME SocketType, NEW kind, NEW id \in 0 .. MaxId, Silent \/ Report(kind, id)
    PROVE  opened' \subseteq 0 .. MaxId /\ closed' \subseteq 0 .. MaxId
BY ReportType DEF Silent, tellVars, SocketType

LEMMA CommandType ==
    ASSUME SocketType,
           \/ open_socket \/ Ignored \/ close_socket \/ resume_socket \/ pause_socket
           \/ trigger_write \/ SendPackage
    PROVE  SocketType'
<1> DEFINE id == Cmd.id
           i == HASH_ID(id)
<1>0. Served /\ Commanded
  BY ServerFrames
<1>a. id \in Ids /\ id \in 0 .. MaxId /\ i \in Indices
  BY <1>0, CommandedFacts, IdFacts
<1>1. CASE open_socket
  <2>1. slot' \in [Indices -> Sockets]
    <3>1. CASE \E type \in {"CONNECTED", "CONNECTING", "PLISTEN"} :
                    Opened(id, type, type # "PLISTEN", type = "CONNECTING")
      <4>1. PICK type \in {"CONNECTED", "CONNECTING", "PLISTEN"} :
                    Opened(id, type, type # "PLISTEN", type = "CONNECTING")
        BY <3>1
      <4>2. type \in Types /\ (type # "PLISTEN") \in BOOLEAN /\ (type = "CONNECTING") \in BOOLEAN
        BY DEF Types
      <4> QED BY <1>a, <4>1, <4>2, OpenedEffect
    <3>2. CASE ModeStep(i, "INVALID", slot[i].closing, slot[i].writing)
      BY <3>2 DEF ModeStep, Calm
    <3> QED BY <1>1, <3>1, <3>2, OpenSocketEffect
  <2>2. opened' \subseteq 0 .. MaxId /\ closed' \subseteq 0 .. MaxId
    <3>1. Silent \/ Report("OPEN", id)
      BY <1>1, OpenSocketEffect
    <3> QED BY <1>a, <3>1, TellType
  <2>3. batch' \in Seq(Events) /\ crashed' \in BOOLEAN
    BY <1>1, OpenSocketEffect
  <2> QED BY <1>0, <1>1, <2>1, <2>2, <2>3, ServerFrames, FrameType, TypeUse
<1>2. CASE Ignored
  <2>1. batch' \in Seq(Events)
    <3>1. batch' = batch \/ clear_closed_event(slot, Cmd.id)
      BY <1>2 DEF Ignored
    <3> QED BY <3>1, ClearedBatch, TypeUse
  <2> QED BY <1>0, <1>2, <2>1, ServerFrames, FrameType, TypeUse
<1>3. CASE close_socket
  <2>1. stale' \in BOOLEAN
    BY <1>3, CloseSocketEffect, StaleType
  <2>2. CASE \E kind : Closable(i, kind) /\ ForceClose(i, kind, TRUE)
    <3>1. /\ slot' \in [Indices -> Sockets] /\ fc' \in Closings /\ crashed' \in BOOLEAN
          /\ opened' = opened /\ closed' = closed
      BY <1>a, <2>2, ForceCloseType
    <3> QED BY <1>0, <1>3, <2>1, <3>1, ServerFrames, FrameType, TypeUse
  <2>3. CASE /\ ModeStep(i, "HALFCLOSE_READ", TRUE, slot[i].writing)
             /\ UNCHANGED <<fc, crashed>>
             /\ Silent \/ Report("CLOSE", id)
    <3>1. slot' \in [Indices -> Sockets]
      BY <2>3 DEF ModeStep, Calm
    <3>2. opened' \subseteq 0 .. MaxId /\ closed' \subseteq 0 .. MaxId
      BY <1>a, <2>3, TellType
    <3> QED BY <1>0, <1>3, <2>1, <2>3, <3>1, <3>2, ServerFrames, FrameType, TypeUse
  <2> QED BY <1>3, <2>2, <2>3, CloseSocketEffect
<1>4. CASE resume_socket
  <2>1. stale' \in BOOLEAN
    BY <1>4, ResumeEffect, StaleType
  <2>2. slot' \in [Indices -> Sockets]
    BY <1>4, ResumeEffect, TypeUse DEF ModeStep, Calm
  <2>3. opened' \subseteq 0 .. MaxId /\ closed' \subseteq 0 .. MaxId
    <3>1. Silent \/ Report("OPEN", id)
      BY <1>4, ResumeEffect
    <3> QED BY <1>a, <3>1, TellType
  <2> QED BY <1>0, <1>4, <2>1, <2>2, <2>3, ServerFrames, FrameType, TypeUse
<1>5. CASE pause_socket \/ trigger_write
  <2>1. stale' \in BOOLEAN
    BY <1>5, ToggleEffect, StaleType
  <2>2. slot' \in [Indices -> Sockets]
    BY <1>5, ToggleEffect DEF ModeStep, Calm
  <2> QED BY <1>0, <1>5, <2>1, <2>2, ServerFrames, FrameType, TypeUse
<1>6. CASE SendPackage
  <2>1. stale' \in BOOLEAN
    BY <1>6, StaleType DEF SendPackage
  <2>2. slot' \in [Indices -> Sockets]
    BY <1>6, SendPackageEffect DEF Dropped, Tally, Appended
  <2>3. crashed' \in BOOLEAN
    BY <1>6 DEF SendPackage
  <2> QED BY <1>0, <1>6, <2>1, <2>2, <2>3, ServerFrames, FrameType, TypeUse
<1> QED BY <1>1, <1>2, <1>3, <1>4, <1>5, <1>6

LEMMA OtherType ==
    ASSUME SocketType, FinishClose \/ NoMoreCommands \/ Wait
    PROVE  SocketType'
<1>1. CASE FinishClose
  <2>1. /\ fc.i \in Indices /\ slot' \in [Indices -> Sockets] /\ batch' \in Seq(Events) /\ fc' = None
    BY <1>1, FinishCloseEffect
  <2>2. opened' \subseteq 0 .. MaxId /\ closed' \subseteq 0 .. MaxId
    <3>1. slot[fc.i].id \in 0 .. MaxId
      BY <2>1, SocketFields
    <3>2. Silent \/ Report(fc.kind, slot[fc.i].id)
      BY <1>1 DEF FinishClose
    <3> QED BY <3>1, <3>2, TellType
  <2> QED BY <1>1, <2>1, <2>2, ServerFrames DEF SocketType, Served
<1>2. CASE NoMoreCommands
  BY <1>2, ServerFrames DEF SocketType, Served
<1>3. CASE Wait
  <2>1. batch' \in Seq(Events)
    BY <1>3, WaitEffect
  <2> QED BY <1>3, <2>1, ServerFrames DEF SocketType, Served
<1> QED BY <1>1, <1>2, <1>3

LEMMA EventType ==
    ASSUME SocketType,
           \/ report_connect \/ report_accept \/ InvalidEvent
           \/ StaleEvent \/ ReadAgain \/ ReadError \/ ReadData \/ ReadEnd
           \/ WriteBlocked \/ send_buffer \/ Eof
    PROVE  SocketType'
<1>0. Served /\ Signalled /\ (ReadDone \/ batch' = Tail(batch) \/ batch' = batch)
  BY EventFrames
<1>a. batch' \in Seq(Events) /\ E.i \in Indices
  BY <1>0, BatchType, EventFacts DEF Signalled
<1>b. slot[E.i].id \in 0 .. MaxId
  BY <1>a, SocketFields
<1>1. CASE report_connect
  <2>1. CASE ForceClose(E.i, "ERR", FALSE)
    <3>1. Closable(E.i, "ERR")
      BY DEF Closable
    <3>2. /\ slot' \in [Indices -> Sockets] /\ fc' \in Closings /\ crashed' \in BOOLEAN
          /\ opened' = opened /\ closed' = closed
      BY <1>a, <2>1, <3>1, ForceCloseType
    <3> QED BY <1>0, <1>1, <1>a, <3>2, EventFrames, ConnectEffect, FrameType, TypeUse
  <2>2. CASE /\ \E w \in BOOLEAN : ModeStep(E.i, "CONNECTED", slot[E.i].closing, w)
             /\ Report("OPEN", slot[E.i].id) /\ UNCHANGED <<fc, crashed>>
    <3>1. slot' \in [Indices -> Sockets]
      BY <2>2 DEF ModeStep, Calm
    <3>2. opened' \subseteq 0 .. MaxId /\ closed' \subseteq 0 .. MaxId
      BY <1>b, <2>2, TellType
    <3> QED BY <1>0, <1>1, <1>a, <2>2, <3>1, <3>2, EventFrames, ConnectEffect, FrameType, TypeUse
  <2> QED BY <1>1, <2>1, <2>2, ConnectEffect
<1>2. CASE report_accept
  <2>1. /\ allocId' \in 0 .. MaxId + Slots /\ stale' = stale
        /\ UNCHANGED <<fc, opened, closed, wire>>
    BY <1>2, AcceptEffect, EventFrames
  <2>2. slot' \in [Indices -> Sockets] /\ held' \subseteq Ids /\ crashed' \in BOOLEAN
    <3>1. CASE UNCHANGED <<slot, held, crashed>>
      BY <3>1, TypeUse
    <3>2. CASE /\ allocId' \in Ids
               /\ \/ slot' = Claimed(slot, allocId') /\ UNCHANGED <<held, crashed>>
                  \/ /\ Opened(allocId', "PACCEPT", FALSE, FALSE)
                     /\ held' = held \cup {allocId'}
                     /\ crashed' = ~send_buffer_empty(HASH_ID(allocId'))
      <4> DEFINE n == allocId'
      <4>1. n \in Ids /\ "PACCEPT" \in Types /\ FALSE \in BOOLEAN
        BY <3>2 DEF Types
      <4>2. /\ held' \subseteq Ids /\ crashed' \in BOOLEAN
        BY <3>2, TypeUse
      <4>3. slot' = Claimed(slot, n) \/ Opened(n, "PACCEPT", FALSE, FALSE)
        BY <3>2
      <4> HIDE DEF n
      <4> QED BY <4>1, <4>2, <4>3, ClaimedEffect, OpenedEffect
    <3> QED BY <1>2, <3>1, <3>2, AcceptEffect
  <2> QED BY <1>0, <1>a, <2>1, <2>2, FrameType, TypeUse
<1>3. CASE ReadEnd
  <2>0. stale' = stale /\ UNCHANGED <<allocId, held, wire>>
    BY <1>3, ReadEndEffect, EventFrames
  <2>1. CASE \E kind : Closable(E.i, kind) /\ ForceClose(E.i, kind, FALSE)
    <3>1. /\ slot' \in [Indices -> Sockets] /\ fc' \in Closings /\ crashed' \in BOOLEAN
          /\ opened' = opened /\ closed' = closed
      BY <1>a, <2>1, ForceCloseType
    <3> QED BY <1>0, <1>a, <2>0, <3>1, FrameType, TypeUse
  <2>2. CASE UNCHANGED <<slot, opened, closed, late, fc, crashed>>
    BY <1>0, <1>a, <2>0, <2>2, FrameType, TypeUse
  <2>3. CASE /\ ModeStep(E.i, "HALFCLOSE_READ", slot[E.i].closing, slot[E.i].writing)
             /\ Report("CLOSE", slot[E.i].id) /\ UNCHANGED <<fc, crashed>>
    <3>1. slot' \in [Indices -> Sockets]
      BY <2>3 DEF ModeStep, Calm
    <3>2. opened' \subseteq 0 .. MaxId /\ closed' \subseteq 0 .. MaxId
      BY <1>b, <2>3, TellType
    <3> QED BY <1>0, <1>a, <2>0, <2>3, <3>1, <3>2, FrameType, TypeUse
  <2> QED BY <1>3, <2>1, <2>2, <2>3, ReadEndEffect
<1>4. CASE send_buffer
  <2>1. PICK out, t, v : Flushes(E.i, out, t, v)
    BY <1>4, SendBufferEffect
  <2>2. slot' \in [Indices -> Sockets] /\ out \in Seq(Pieces)
    BY <2>1 DEF Flushes, Flushed
  <2>3. wire' = [wire EXCEPT ![slot[E.i].id] = @ \o out] \/ wire' = wire
    BY <2>1 DEF Flushes
  <2>4. wire' \in [Ids -> Seq(Pieces)]
    <3>1. wire \in [Ids -> Seq(Pieces)]
      BY TypeUse
    <3>2. slot[E.i].id \in Ids => wire[slot[E.i].id] \o out \in Seq(Pieces)
      BY <2>2, <3>1
    <3> QED BY <2>3, <3>1, <3>2
  <2>5. crashed' \in BOOLEAN
    BY <1>4, SendBufferEffect
  <2>6. stale' = stale
    BY <1>4 DEF send_buffer, Event, Streams, Connections, SocketType
  <2>7. UNCHANGED <<allocId, fc, held, opened, closed>>
    BY <1>4, EventFrames
  <2> QED BY <1>0, <1>a, <2>2, <2>4, <2>5, <2>6, <2>7, FrameType, TypeUse
<1>5. CASE Eof
  <2>0. stale' = stale /\ UNCHANGED <<allocId, held, wire>>
    BY <1>5, EofEffect, EventFrames
  <2>1. /\ slot' \in [Indices -> Sockets] /\ fc' \in Closings /\ crashed' \in BOOLEAN
        /\ opened' = opened /\ closed' = closed
    BY <1>a, <1>5, EofEffect, ForceCloseType
  <2> QED BY <1>0, <1>a, <2>0, <2>1, FrameType, TypeUse
<1>6. CASE ReadAgain \/ ReadError \/ ReadData \/ WriteBlocked \/ InvalidEvent \/ StaleEvent
  <2>1. /\ UNCHANGED <<slot, allocId, fc, held, wire>> /\ stale' \in BOOLEAN /\ crashed' \in BOOLEAN
    BY <1>6, CalmEvents, TypeUse
  <2>2. Silent \/ Report("DATA", slot[E.i].id)
    BY <1>6, CalmEvents
  <2>3. opened' \subseteq 0 .. MaxId /\ closed' \subseteq 0 .. MaxId
    BY <1>b, <2>2, TellType
  <2> QED BY <1>0, <1>a, <2>1, <2>3, FrameType, TypeUse
<1> QED BY <1>1, <1>2, <1>3, <1>4, <1>5, <1>6

LEMMA NextType ==
    ASSUME SocketType, opened \subseteq held, [Next]_vars
    PROVE  SocketType'
<1>1. CASE UNCHANGED vars
  BY <1>1 DEF vars, sockVars, pollVars, tellVars, callVars, SocketType
<1>2. CASE Next
  BY <1>2, ClientType, CommandType, OtherType, EventType DEF Next
<1> QED BY <1>1, <1>2
-----------------------------------------------------------------------------
(* The life of a slot: which id it has, and what is known of it.           *)

Dormant == {"INVALID", "RESERVE"}
Untold  == {"PACCEPT", "CONNECTING"}
Opening == {"O", "L"}

(* A slot that is in use has an id that its service knows, and one that is *)
(* not has no buffers.  After the SOCKET_CLOSE of an id its socket is at   *)
(* most half open, and is closing only then.                               *)
Life(i) ==
    LET s == slot[i]
    IN  /\ s.id # 0 => HASH_ID(s.id) = i
        /\ s.id <= allocId
        /\ s.tcp => s.id # 0 /\ s.tag = ID_TAG16(s.id)
        /\ s.type \in Dormant => s.high = <<>> /\ s.low = <<>> /\ s.dw = None
        /\ s.type \notin Dormant => s.id \in held /\ s.tcp
        /\ s.closing => s.type \in Dormant \cup {"HALFCLOSE_READ"}
        /\ s.id \in closed => s.type \in Dormant \cup {"HALFCLOSE_READ"}
        /\ s.id \in opened => s.type \notin Untold
        /\ s.type = "CONNECTING" => s.writing

(* An id that reserve_id has taken is new, and the slot is its caller's.   *)
Reserves(c) ==
    cl[c].pc = "reserved" =>
       LET i == HASH_ID(cl[c].id)
       IN  /\ slot[i].type = "RESERVE"
           /\ cl[c].id \notin held /\ cl[c].id <= allocId /\ slot[i].id < cl[c].id
           /\ \A d \in Clients \ {c} : cl[d].pc = "reserved" => HASH_ID(cl[d].id) # i
           /\ \A j \in DOMAIN pipe : pipe[j].cmd \in Opening => HASH_ID(pipe[j].id) # i

(* ... until the command that opens it, which is the only one.             *)
Opens(j) ==
    pipe[j].cmd \in Opening =>
       LET i == HASH_ID(pipe[j].id)
       IN  /\ slot[i].type = "RESERVE" /\ slot[i].id = pipe[j].id
           /\ pipe[j].id \notin opened /\ pipe[j].id \notin closed
           /\ \A k \in DOMAIN pipe \ {j} : pipe[k].cmd \in Opening => pipe[k].id # pipe[j].id

(* A force_close that waits for the lock has a socket to close.            *)
Closes ==
    fc # None =>
       LET s == slot[fc.i]
       IN  /\ s.type \notin Dormant /\ s.high = <<>> /\ s.low = <<>>
           /\ fc.kind = "CLOSE" => s.type # "HALFCLOSE_READ"

(* A command is for an id that a service knows.                            *)
Addressed(x, ids) == x.id \in ids /\ (x.cmd \in Packages => x.m.to = x.id)

Known ==
    /\ opened \subseteq held /\ closed \subseteq held
    /\ \A id \in held : id <= allocId
    /\ \A j \in DOMAIN pipe : Addressed(pipe[j], held)

(* ... and so is what a call still carries.                                *)
Mailing == \A c \in Clients : cl[c].pc \in Busy \cup {"wake"} => cl[c].m.to \in held

Lives  == \A i \in Indices : Life(i)
Booked == (\A c \in Clients : Reserves(c)) /\ (\A j \in DOMAIN pipe : Opens(j))

LifeInv ==
    /\ Known /\ Mailing
    /\ Running => Lives /\ Booked /\ Closes
    /\ NothingAfterClose

LEMMA InitLife == Init => LifeInv
<1> SUFFICES ASSUME Init PROVE LifeInv
  OBVIOUS
<1>1. Known /\ Mailing /\ Booked /\ Closes /\ NothingAfterClose
  BY DEF Init, Known, Mailing, Busy, Booked, Reserves, Opens, Closes, NothingAfterClose
<1>2. Lives
  BY DEF Init, Lives, Life, Dormant, Untold
<1> QED BY <1>1, <1>2 DEF LifeInv

(* The ids that a step reports are of slot i.                              *)
Fresh(i) == \A x \in (opened' \ opened) \cup (closed' \ closed) : x \in Ids /\ HASH_ID(x) = i

LEMMA LifeElsewhere ==
    ASSUME SocketType, Lives, NEW i, Others(i), Fresh(i), allocId' >= allocId, allocId' \in Nat,
           held \subseteq held', NEW j \in Indices, j # i
    PROVE  Life(j)'
<1>1. slot'[j] = slot[j] /\ Life(j)
  BY DEF Others, Lives
<1>2. slot[j].id \in Nat /\ allocId \in Nat
  BY SocketFields, SocketAssumption DEF SocketType
<1>3. slot[j].id \in Ids => HASH_ID(slot[j].id) = j
  BY <1>1, IdFacts DEF Life
<1>4. /\ slot[j].id \in closed' => slot[j].id \in closed
      /\ slot[j].id \in opened' => slot[j].id \in opened
  BY <1>3 DEF Fresh
<1> QED BY <1>1, <1>2, <1>4 DEF Life

(* The pipe loses its first command at most.                               *)
Shorter == pipe' = pipe \/ Commanded

LEMMA ShorterFacts ==
    ASSUME SocketType, Shorter
    PROVE  \E f \in [DOMAIN pipe' -> DOMAIN pipe] :
              /\ \A j \in DOMAIN pipe' : pipe'[j] = pipe[f[j]]
              /\ \A j, k \in DOMAIN pipe' : j # k => f[j] # f[k]
              /\ \A j, k \in DOMAIN pipe' : j < k => f[j] < f[k]
              /\ Commanded => \A j \in DOMAIN pipe' : f[j] # 1
<1>1. CASE Commanded
  <2> DEFINE f == [j \in DOMAIN pipe' |-> j + 1]
  <2>1. \A j \in DOMAIN pipe' : j + 1 \in DOMAIN pipe /\ j + 1 # 1 /\ pipe'[j] = pipe[j + 1]
    BY <1>1, CommandedFacts
  <2>2. \A j \in DOMAIN pipe' : j \in Nat
    <3>1. pipe' \in Seq(Commands)
      BY <1>1, CommandedFacts
    <3> QED BY <3>1
  <2>3. f \in [DOMAIN pipe' -> DOMAIN pipe]
    BY <2>1
  <2>4. \A j, k \in DOMAIN pipe' : (j # k => j + 1 # k + 1) /\ (j < k => j + 1 < k + 1)
    BY <2>2
  <2>5. /\ \A j \in DOMAIN pipe' : pipe'[j] = pipe[f[j]]
        /\ \A j, k \in DOMAIN pipe' : j # k => f[j] # f[k]
        /\ \A j, k \in DOMAIN pipe' : j < k => f[j] < f[k]
        /\ \A j \in DOMAIN pipe' : f[j] # 1
    BY <2>1, <2>4
  <2> HIDE DEF f
  <2> QED BY <2>3, <2>5
<1>2. CASE pipe' = pipe /\ ~Commanded
  <2> DEFINE f == [j \in DOMAIN pipe |-> j]
  <2>1. /\ f \in [DOMAIN pipe' -> DOMAIN pipe]
        /\ \A j \in DOMAIN pipe' : pipe'[j] = pipe[f[j]]
        /\ \A j, k \in DOMAIN pipe' : j # k => f[j] # f[k]
        /\ \A j, k \in DOMAIN pipe' : j < k => f[j] < f[k]
    BY <1>2
  <2> HIDE DEF f
  <2> QED BY <1>2, <2>1
<1> QED BY <1>1, <1>2 DEF Shorter


(* The commands that open a socket, and the calls that are about to send   *)
(* one.  A quiet step adds none of either.                                 *)
Openings == {j \in DOMAIN pipe : pipe[j].cmd \in Opening}

NoNewOpening ==
    \E f \in [Openings' -> Openings] :
       /\ \A j \in Openings' : pipe'[j] = pipe[f[j]]
       /\ \A j, k \in Openings' : j # k => f[j] # f[k]

SameCall(d) == cl'[d] = cl[d] \/ (cl[d].pc # "reserved" /\ cl'[d].pc # "reserved")
SameCalls   == \A d \in Clients : SameCall(d)

(* Slot i is not one of those that are reserved after a step.              *)
Unbooked(i) ==
    /\ \A d \in Clients : cl'[d].pc = "reserved" => HASH_ID(cl'[d].id) # i
    /\ \A j \in Openings' : HASH_ID(pipe'[j].id) # i

LEMMA ShorterOpenings ==
    ASSUME SocketType, Shorter
    PROVE  NoNewOpening /\ \A j \in DOMAIN pipe' : \E k \in DOMAIN pipe : pipe'[j] = pipe[k]
<1>1. PICK f \in [DOMAIN pipe' -> DOMAIN pipe] :
              /\ \A j \in DOMAIN pipe' : pipe'[j] = pipe[f[j]]
              /\ \A j, k \in DOMAIN pipe' : j # k => f[j] # f[k]
              /\ \A j, k \in DOMAIN pipe' : j < k => f[j] < f[k]
              /\ Commanded => \A j \in DOMAIN pipe' : f[j] # 1
  BY ShorterFacts
<1> DEFINE g == [j \in Openings' |-> f[j]]
<1>2. \A j \in Openings' : f[j] \in Openings
  BY <1>1 DEF Openings
<1>3. g \in [Openings' -> Openings]
  BY <1>2
<1>4. /\ \A j \in Openings' : pipe'[j] = pipe[g[j]]
      /\ \A j, k \in Openings' : j # k => g[j] # g[k]
  BY <1>1 DEF Openings
<1> HIDE DEF g
<1>5. NoNewOpening
  BY <1>3, <1>4 DEF NoNewOpening
<1> QED BY <1>1, <1>5

LEMMA AppendOpenings ==
    ASSUME SocketType, NEW x \in Commands, pipe' = Append(pipe, x), x.cmd \notin Opening
    PROVE  NoNewOpening
<1> DEFINE g == [j \in Openings' |-> j]
<1>1. Openings' = Openings /\ \A j \in Openings : pipe'[j] = pipe[j]
  BY PipeAppend DEF Openings
<1>2. /\ g \in [Openings' -> Openings]
      /\ \A j \in Openings' : pipe'[j] = pipe[g[j]]
      /\ \A j, k \in Openings' : j # k => g[j] # g[k]
  BY <1>1
<1> HIDE DEF g
<1> QED BY <1>2 DEF NoNewOpening

LEMMA Unreserved ==
    ASSUME Booked, NoNewOpening, SameCalls, NEW i, slot[i].type # "RESERVE"
    PROVE  Unbooked(i)
<1>1. ASSUME NEW d \in Clients, cl'[d].pc = "reserved" PROVE HASH_ID(cl'[d].id) # i
  BY <1>1 DEF Booked, Reserves, SameCalls, SameCall
<1>2. ASSUME NEW j \in Openings' PROVE HASH_ID(pipe'[j].id) # i
  <2>1. PICK k \in Openings : pipe'[j] = pipe[k]
    BY <1>2 DEF NoNewOpening
  <2> QED BY <2>1 DEF Booked, Opens, Openings
<1> QED BY <1>1, <1>2 DEF Unbooked

(* A step on a slot that is not reserved leaves the reservations as they   *)
(* are.                                                                    *)
LEMMA SlotStep ==
    ASSUME SocketType, Lives, Booked, NEW i \in Indices, Others(i), Unbooked(i),
           SameCalls, allocId' >= allocId, allocId' \in Nat, held \subseteq held',
           \A x \in held' \ held : x \in Nat /\ x > allocId,
           NoNewOpening, Fresh(i), Life(i)'
    PROVE  Lives' /\ Booked'
<1>1. Lives'
  BY LifeElsewhere DEF Lives
<1>2. PICK f \in [Openings' -> Openings] :
              /\ \A j \in Openings' : pipe'[j] = pipe[f[j]]
              /\ \A j, k \in Openings' : j # k => f[j] # f[k]
  BY DEF NoNewOpening
<1>a. allocId \in Nat
  BY SocketAssumption DEF SocketType
<1>3. ASSUME NEW c \in Clients PROVE Reserves(c)'
  <2> SUFFICES ASSUME cl'[c].pc = "reserved" PROVE Reserves(c)'
    BY DEF Reserves
  <2> DEFINE id == cl[c].id
             n == HASH_ID(id)
  <2>0. cl[c].pc = "reserved" /\ cl'[c] = cl[c]
    BY DEF SameCalls, SameCall
  <2>1. id \in Ids /\ id \in Nat /\ n \in Indices /\ n # i
    BY <2>0, CallerFacts, IdFacts DEF Unbooked
  <2>2. /\ slot[n].type = "RESERVE" /\ id \notin held /\ id <= allocId /\ slot[n].id < id
        /\ \A d \in Clients \ {c} : cl[d].pc = "reserved" => HASH_ID(cl[d].id) # n
        /\ \A j \in DOMAIN pipe : pipe[j].cmd \in Opening => HASH_ID(pipe[j].id) # n
    BY <2>0 DEF Booked, Reserves
  <2>3. slot'[n] = slot[n]
    BY <2>1 DEF Others
  <2>4. id \notin held' /\ id <= allocId'
    BY <2>1, <2>2, <1>a
  <2>5. \A j \in DOMAIN pipe' : pipe'[j].cmd \in Opening => HASH_ID(pipe'[j].id) # n
    BY <1>2, <2>2 DEF Openings
  <2>6. \A d \in Clients \ {c} : cl'[d].pc = "reserved" => HASH_ID(cl'[d].id) # n
    BY <2>2 DEF SameCalls, SameCall
  <2> QED BY <2>0, <2>2, <2>3, <2>4, <2>5, <2>6 DEF Reserves
<1>4. ASSUME NEW j \in DOMAIN pipe' PROVE Opens(j)'
  <2> SUFFICES ASSUME pipe'[j].cmd \in Opening PROVE Opens(j)'
    BY DEF Opens
  <2> DEFINE k == f[j]
             id == pipe[k].id
             n == HASH_ID(id)
  <2>0. j \in Openings'
    BY DEF Openings
  <2>1. k \in DOMAIN pipe /\ k \in Openings /\ pipe'[j] = pipe[k]
    BY <1>2, <2>0 DEF Openings
  <2>2. id \in Ids /\ n \in Indices /\ n # i
    BY <2>0, <2>1, PipeFacts, IdFacts DEF Unbooked
  <2>3. /\ slot[n].type = "RESERVE" /\ slot[n].id = id /\ id \notin opened /\ id \notin closed
        /\ \A l \in DOMAIN pipe \ {k} : pipe[l].cmd \in Opening => pipe[l].id # id
    BY <2>1 DEF Booked, Opens, Openings
  <2>4. slot'[n] = slot[n]
    BY <2>2 DEF Others
  <2>5. id \notin opened' /\ id \notin closed'
    BY <2>2, <2>3 DEF Fresh
  <2>6. \A l \in DOMAIN pipe' \ {j} : pipe'[l].cmd \in Opening => pipe'[l].id # id
    BY <1>2, <2>0, <2>1, <2>3 DEF Openings
  <2> QED BY <2>1, <2>3, <2>4, <2>5, <2>6 DEF Opens
<1> QED BY <1>1, <1>3, <1>4 DEF Booked

(* ... and so does one that changes nothing of the sockets but the count   *)
(* of what is being sent.                                                  *)
Alike(i) ==
    /\ slot'[i].id = slot[i].id /\ slot'[i].tcp = slot[i].tcp /\ slot'[i].tag = slot[i].tag
    /\ slot'[i].high = slot[i].high /\ slot'[i].low = slot[i].low /\ slot'[i].dw = slot[i].dw
    /\ slot'[i].type = slot[i].type /\ slot'[i].closing = slot[i].closing
    /\ slot'[i].writing = slot[i].writing

LEMMA QuietStep ==
    ASSUME SocketType, Lives, Booked, \A i \in Indices : Alike(i), SameCalls,
           UNCHANGED <<held, opened, closed>>,
           allocId' >= allocId, allocId' \in Nat, NoNewOpening
    PROVE  Lives' /\ Booked'
<1>1. PICK f \in [Openings' -> Openings] :
              /\ \A j \in Openings' : pipe'[j] = pipe[f[j]]
              /\ \A j, k \in Openings' : j # k => f[j] # f[k]
  BY DEF NoNewOpening
<1>2. allocId \in Nat
  BY SocketAssumption DEF SocketType
<1>3. ASSUME NEW i \in Indices PROVE Life(i)'
  <2>1. Life(i) /\ Alike(i) /\ slot[i].id \in Nat
    BY SocketFields DEF Lives
  <2> QED BY <1>2, <2>1 DEF Life, Alike
<1>4. ASSUME NEW c \in Clients PROVE Reserves(c)'
  <2> SUFFICES ASSUME cl'[c].pc = "reserved" PROVE Reserves(c)'
    BY DEF Reserves
  <2>0. cl[c].pc = "reserved" /\ cl'[c] = cl[c]
    BY DEF SameCalls, SameCall
  <2>1. cl[c].id \in Nat /\ HASH_ID(cl[c].id) \in Indices /\ Reserves(c)
    BY <2>0, CallerFacts, IdFacts DEF Booked
  <2>2. Alike(HASH_ID(cl[c].id))
    BY <2>1
  <2>5. \A j \in DOMAIN pipe' : pipe'[j].cmd \in Opening => HASH_ID(pipe'[j].id) # HASH_ID(cl[c].id)
    BY <1>1, <2>0, <2>1 DEF Openings, Reserves
  <2>6. \A d \in Clients \ {c} : cl'[d].pc = "reserved" => HASH_ID(cl'[d].id) # HASH_ID(cl[c].id)
    BY <2>0, <2>1 DEF SameCalls, SameCall, Reserves
  <2>7. cl[c].id <= allocId'
    BY <1>2, <2>0, <2>1 DEF Reserves
  <2> QED BY <2>0, <2>1, <2>2, <2>5, <2>6, <2>7 DEF Reserves, Alike
<1>5. ASSUME NEW j \in DOMAIN pipe' PROVE Opens(j)'
  <2> SUFFICES ASSUME pipe'[j].cmd \in Opening PROVE Opens(j)'
    BY DEF Opens
  <2>0. j \in Openings'
    BY DEF Openings
  <2>1. f[j] \in Openings /\ f[j] \in DOMAIN pipe /\ pipe'[j] = pipe[f[j]]
    BY <1>1, <2>0 DEF Openings
  <2>2. HASH_ID(pipe[f[j]].id) \in Indices
    BY <2>1, PipeFacts, IdFacts
  <2>3. Alike(HASH_ID(pipe[f[j]].id))
    BY <2>2
  <2>4. Opens(f[j])
    BY <2>1 DEF Booked
  <2>6. \A l \in DOMAIN pipe' \ {j} : pipe'[l].cmd \in Opening => pipe'[l].id # pipe[f[j]].id
    BY <1>1, <2>0, <2>1, <2>4 DEF Openings, Opens
  <2> QED BY <2>1, <2>3, <2>4, <2>6 DEF Opens, Alike
<1> QED BY <1>3, <1>4, <1>5 DEF Booked, Lives

(* When a change of mode keeps the life of a slot.                         *)
LEMMA LifeMode ==
    ASSUME SocketType, NEW i \in Indices, Life(i), NEW t \in Types, NEW c \in BOOLEAN, NEW w \in BOOLEAN,
           ModeStep(i, t, c, w), UNCHANGED <<allocId, held>>,
           t \in Dormant <=> slot[i].type \in Dormant,
           c => t \in Dormant \cup {"HALFCLOSE_READ"},
           slot[i].id \in closed' => t \in Dormant \cup {"HALFCLOSE_READ"},
           slot[i].id \in opened' => t \notin Untold,
           t = "CONNECTING" => w
    PROVE  Life(i)'
BY DEF Life, ModeStep, Calm

-----------------------------------------------------------------------------
(* LifeInv is inductive.                                                   *)

(* What a step reports is of slot i, and comes in time.                    *)
Tells(i) ==
    \/ Silent
    \/ \E kind : Report(kind, slot[i].id) /\ (stale' \/ slot[i].id \notin closed \/ kind = "ERR")

LEMMA TellsFacts ==
    ASSUME SocketType, LifeInv, Running, NEW i \in Indices, Tells(i), slot[i].id \in held,
           allocId' = allocId, held' = held, \A j \in DOMAIN pipe' : Addressed(pipe'[j], held)
    PROVE  /\ Known' /\ NothingAfterClose'
           /\ Life(i) => Fresh(i)
<1>1. late = {}
  BY DEF LifeInv, NothingAfterClose, Running
<1>2. CASE Silent
  BY <1>1, <1>2 DEF Silent, tellVars, LifeInv, Known, NothingAfterClose, Fresh
<1>3. ASSUME NEW kind, Report(kind, slot[i].id),
             stale' \/ slot[i].id \notin closed \/ kind = "ERR"
      PROVE  Known' /\ NothingAfterClose' /\ (Life(i) => Fresh(i))
  <2>1. Known' /\ NothingAfterClose'
    BY <1>1, <1>3 DEF Report, LifeInv, Known, NothingAfterClose
  <2>2. \A x \in (opened' \ opened) \cup (closed' \ closed) : x = slot[i].id
    BY <1>3 DEF Report
  <2>3. slot[i].id \in Ids
    BY DEF SocketType
  <2> QED BY <2>1, <2>2, <2>3, IdFacts DEF Fresh, Life
<1> QED BY <1>2, <1>3 DEF Tells

(* A step of the socket thread on the socket in slot i.                    *)
LEMMA SocketStep ==
    ASSUME SocketType, LifeInv, Running, NEW i \in Indices, Others(i), cl' = cl,
           slot[i].id \in held, Running' => slot[i].type # "RESERVE",
           UNCHANGED <<allocId, held>>, Shorter, Tells(i), Running' => Life(i)' /\ Closes'
    PROVE  LifeInv'
<1>1. Lives /\ Booked /\ Life(i) /\ allocId' \in Nat /\ allocId' >= allocId
  BY SocketAssumption DEF LifeInv, Lives, SocketType
<1>2. NoNewOpening /\ \A j \in DOMAIN pipe' : Addressed(pipe'[j], held)
  BY ShorterOpenings DEF LifeInv, Known
<1>3. Known' /\ NothingAfterClose' /\ Fresh(i)
  BY <1>1, <1>2, TellsFacts
<1>4. SameCalls
  BY DEF SameCalls, SameCall
<1>5. ASSUME Running' PROVE Lives' /\ Booked'
  <2>1. Unbooked(i) /\ Life(i)'
    BY <1>1, <1>2, <1>4, <1>5, Unreserved
  <2> QED BY <2>1, <1>1, <1>2, <1>3, <1>4, SlotStep
<1>6. Mailing'
  BY DEF LifeInv, Mailing
<1> QED BY <1>3, <1>5, <1>6 DEF LifeInv

LEMMA ForceCloseFacts ==
    ASSUME SocketType, NEW i \in Indices, NEW kind, Closable(i, kind), NEW ctrl \in BOOLEAN,
           ForceClose(i, kind, ctrl)
    PROVE  /\ Others(i) /\ fc' \in Closings /\ fc'.i = i /\ fc'.kind = kind
           /\ crashed' = (slot[i].type = "RESERVE")
           /\ UNCHANGED <<lock, allocId, held, opened, closed, late, wire>>
           /\ slot'[i].id = slot[i].id /\ slot'[i].tcp = slot[i].tcp /\ slot'[i].tag = slot[i].tag
           /\ slot'[i].sending = slot[i].sending /\ slot'[i].wb = slot[i].wb
           /\ slot'[i].high = <<>> /\ slot'[i].low = <<>> /\ slot'[i].dw = slot[i].dw
           /\ slot'[i].type = slot[i].type /\ slot'[i].closing = slot[i].closing
           /\ slot'[i].writing = slot[i].writing
<1>0. kind \in {"none", "ERR", "CLOSE"}
  BY DEF Closable
<1>1. slot'[i] = [slot[i] EXCEPT !.high = <<>>, !.low = <<>>]
  BY <1>0, ForceCloseEffect, Zenon
<1>2. /\ slot'[i].id = slot[i].id /\ slot'[i].tcp = slot[i].tcp /\ slot'[i].tag = slot[i].tag
      /\ slot'[i].sending = slot[i].sending /\ slot'[i].wb = slot[i].wb
      /\ slot'[i].high = <<>> /\ slot'[i].low = <<>> /\ slot'[i].dw = slot[i].dw
      /\ slot'[i].type = slot[i].type /\ slot'[i].closing = slot[i].closing
      /\ slot'[i].writing = slot[i].writing
  BY <1>1, ForceCloseFields, Zenon
<1>3. /\ Others(i) /\ fc' \in Closings /\ fc'.i = i /\ fc'.kind = kind
      /\ crashed' = (slot[i].type = "RESERVE")
      /\ UNCHANGED <<lock, allocId, held, opened, closed, late, wire>>
  BY <1>0, ForceCloseEffect, Zenon
<1> QED BY <1>2, <1>3, Zenon

LEMMA LifeForced ==
    ASSUME SocketType, LifeInv, Running, NEW i \in Indices, NEW kind, Closable(i, kind),
           NEW ctrl \in BOOLEAN, ForceClose(i, kind, ctrl), cl' = cl, slot[i].id \in held,
           Running' => slot[i].type \notin Dormant, Shorter
    PROVE  LifeInv'
<1>1. /\ Others(i) /\ fc' \in Closings /\ fc'.i = i /\ fc'.kind = kind
      /\ UNCHANGED <<allocId, held, opened, closed, late>>
      /\ slot'[i].id = slot[i].id /\ slot'[i].tcp = slot[i].tcp /\ slot'[i].tag = slot[i].tag
      /\ slot'[i].high = <<>> /\ slot'[i].low = <<>> /\ slot'[i].dw = slot[i].dw
      /\ slot'[i].type = slot[i].type /\ slot'[i].closing = slot[i].closing
      /\ slot'[i].writing = slot[i].writing
  BY ForceCloseFacts, ZenonT(30)
<1>2. Tells(i)
  BY <1>1 DEF Tells, Silent, tellVars
<1>3. ASSUME Running' PROVE Life(i)' /\ Closes' /\ slot[i].type # "RESERVE"
  <2>1. Life(i) /\ slot[i].type \notin Dormant
    BY <1>3 DEF LifeInv, Lives
  <2>2. Life(i)'
    BY <1>1, <2>1 DEF Life
  <2>3. Closes'
    BY <1>1, <2>1 DEF Closes, Closable
  <2> QED BY <2>1, <2>2, <2>3 DEF Dormant
<1> QED BY <1>1, <1>2, <1>3, SocketStep

(* A command for a socket that is there finds the socket of its id, or     *)
(* ends what the model follows.                                            *)
LEMMA ValidCommand ==
    ASSUME SocketType, LifeInv, Running, Commanded, Stale, ~socket_invalid(HASH_ID(Cmd.id), Cmd.id)
    PROVE  LET i == HASH_ID(Cmd.id)
           IN  /\ i \in Indices /\ slot[i].id = Cmd.id /\ Cmd.id \in held
               /\ Running' => slot[i].type \notin Dormant
               /\ Life(i) /\ ~stale' => slot[i].type \notin Dormant
               /\ fc = None /\ Shorter
BY CommandedFacts
   DEF socket_invalid, Stale, Running, Dormant, LifeInv, Known, Addressed, Lives, Commanded,
       Shorter

LEMMA LifeCommands ==
    ASSUME SocketType, LifeInv, close_socket \/ resume_socket \/ pause_socket \/ trigger_write
    PROVE  LifeInv'
<1> SUFFICES ASSUME NEW i, i = HASH_ID(Cmd.id) PROVE LifeInv'
  OBVIOUS
<1> DEFINE t == slot[i].type
<1>1. Served /\ Commanded /\ UNCHANGED <<allocId, held>> /\ Running /\ cl' = cl
  BY ServerFrames DEF Served
<1>2. Stale /\ ~socket_invalid(i, Cmd.id)
  BY CloseSocketEffect, ResumeEffect, ToggleEffect
<1>3. /\ i \in Indices /\ slot[i].id = Cmd.id /\ Cmd.id \in held
      /\ Running' => t \notin Dormant
      /\ ~stale' => t \notin Dormant
      /\ fc = None /\ Shorter /\ Life(i)
  BY <1>1, <1>2, ValidCommand DEF LifeInv, Lives
<1>4. t \in Types /\ slot[i].closing \in BOOLEAN /\ slot[i].writing \in BOOLEAN
  BY <1>3, SocketFields
<1>5. ASSUME NEW n \in Types, NEW c \in BOOLEAN, NEW w \in BOOLEAN, ModeStep(i, n, c, w), Tells(i),
             fc' = fc,
             Running' => /\ n \notin Dormant
                         /\ c => n = "HALFCLOSE_READ"
                         /\ slot[i].id \in closed' => n = "HALFCLOSE_READ"
                         /\ slot[i].id \in opened' => n \notin Untold
                         /\ n = "CONNECTING" => w
      PROVE LifeInv'
  <2>1. Others(i) /\ (Running' => Closes')
    BY <1>3, <1>5 DEF ModeStep, Calm, Closes
  <2>2. ASSUME Running' PROVE Life(i)'
    <3>1. /\ n \in Dormant <=> t \in Dormant
          /\ c => n \in Dormant \cup {"HALFCLOSE_READ"}
          /\ slot[i].id \in closed' => n \in Dormant \cup {"HALFCLOSE_READ"}
      BY <1>3, <1>5, <2>2
    <3> QED BY <1>1, <1>3, <1>5, <2>2, <3>1, LifeMode
  <2>3. Running' => t # "RESERVE"
    BY <1>3 DEF Dormant
  <2> QED BY <1>1, <1>3, <1>5, <2>1, <2>2, <2>3, SocketStep
<1>6. CASE close_socket
  <2>1. CASE \E kind : Closable(i, kind) /\ ForceClose(i, kind, TRUE)
    BY <1>1, <1>3, <2>1, LifeForced
  <2>2. CASE /\ ModeStep(i, "HALFCLOSE_READ", TRUE, slot[i].writing) /\ UNCHANGED <<fc, crashed>>
             /\ IF t = "HALFCLOSE_READ" THEN Silent ELSE Report("CLOSE", Cmd.id)
    <3>1. Tells(i)
      BY <1>3, <2>2 DEF Tells, Life, Dormant
    <3>2. "HALFCLOSE_READ" \in Types /\ "HALFCLOSE_READ" \notin Dormant /\ "HALFCLOSE_READ" \notin Untold
      BY DEF Types, Dormant, Untold
    <3> QED BY <1>4, <1>5, <2>2, <3>1, <3>2
  <2> QED BY <1>6, <2>1, <2>2, CloseSocketEffect
<1>7. CASE resume_socket
  <2>0. UNCHANGED fc
    BY <1>7, ServerFrames
  <2>1. CASE UNCHANGED slot /\ Silent
    <3>1. Others(i) /\ Tells(i) /\ (Running' => Closes') /\ (Running' => t # "RESERVE")
      BY <1>3, <2>0, <2>1 DEF Others, Tells, Closes, Dormant
    <3>2. Life(i)'
      <4>1. UNCHANGED <<slot, opened, closed, allocId, held>>
        BY <1>1, <2>1 DEF Silent, tellVars
      <4> QED BY <1>3, <4>1 DEF Life
    <3>3. Running' => Life(i)' /\ Closes'
      BY <3>1, <3>2
    <3> QED BY <1>1, <1>3, <3>1, <3>3, SocketStep
  <2>2. CASE /\ t # "HALFCLOSE_READ"
             /\ ModeStep(i, CASE t = "PACCEPT" -> "CONNECTED" [] t = "PLISTEN" -> "LISTEN" [] OTHER -> t,
                         slot[i].closing, slot[i].writing)
             /\ IF t \in {"PACCEPT", "PLISTEN", "CONNECTED"} THEN Report("OPEN", Cmd.id) ELSE Silent
    <3> DEFINE n == CASE t = "PACCEPT" -> "CONNECTED" [] t = "PLISTEN" -> "LISTEN" [] OTHER -> t
    <3>1. Tells(i)
      BY <1>3, <2>2 DEF Tells, Life, Dormant
    <3>2. n \in Types /\ (n \in Dormant => t \in Dormant) /\ (n \in Untold => t = "CONNECTING" /\ n = t)
      BY <1>4 DEF Types, Dormant, Untold
    <3>3. closed' = closed /\ (t = "CONNECTING" => opened' = opened)
      BY <2>2 DEF Report, Silent, tellVars
    <3>4. ASSUME Running' PROVE /\ n \notin Dormant
                                /\ slot[i].closing => n = "HALFCLOSE_READ"
                                /\ slot[i].id \in closed' => n = "HALFCLOSE_READ"
                                /\ slot[i].id \in opened' => n \notin Untold
                                /\ n = "CONNECTING" => slot[i].writing
      BY <1>3, <2>2, <3>2, <3>3, <3>4 DEF Life, Untold
    <3>5. ModeStep(i, n, slot[i].closing, slot[i].writing)
      BY <2>2
    <3> HIDE DEF n
    <3> QED BY <1>4, <1>5, <2>0, <3>1, <3>2, <3>4, <3>5
  <2> QED BY <1>7, <2>1, <2>2, ResumeEffect
<1>8. CASE pause_socket \/ trigger_write
  <2>1. Tells(i) /\ UNCHANGED <<fc, opened, closed>>
    BY <1>8, ServerFrames DEF Tells, Silent, tellVars
  <2>2. PICK w \in BOOLEAN : ModeStep(i, t, slot[i].closing, w) /\ (slot[i].writing => w)
    BY <1>4, <1>8, ToggleEffect
  <2>3. ASSUME Running' PROVE /\ t \notin Dormant
                              /\ slot[i].closing => t = "HALFCLOSE_READ"
                              /\ slot[i].id \in closed' => t = "HALFCLOSE_READ"
                              /\ slot[i].id \in opened' => t \notin Untold
                              /\ t = "CONNECTING" => w
    BY <1>3, <2>1, <2>2, <2>3 DEF Life
  <2> QED BY <1>4, <1>5, <2>1, <2>2, <2>3
<1> QED BY <1>6, <1>7, <1>8

(* A step that changes nothing of the sockets but counts.                  *)
LEMMA QuietLife ==
    ASSUME SocketType, LifeInv, Running, \A j \in Indices : Alike(j), SameCalls,
           UNCHANGED <<held, opened, closed, late>>, allocId' >= allocId, allocId' \in Nat,
           NoNewOpening, \A j \in DOMAIN pipe' : Addressed(pipe'[j], held), fc' = fc, Mailing'
    PROVE  LifeInv'
<1>1. Lives /\ Booked /\ Closes /\ late = {} /\ Known
  BY DEF LifeInv, NothingAfterClose, Running
<1>2. Lives' /\ Booked'
  BY <1>1, QuietStep
<1>3. Closes'
  <2> SUFFICES ASSUME fc # None PROVE Closes'
    BY DEF Closes
  <2>1. fc.i \in Indices
    BY DEF SocketType, Closings
  <2>2. Alike(fc.i)
    BY <2>1
  <2> QED BY <1>1, <2>1, <2>2 DEF Closes, Alike
<1>4. Known'
  <2>1. held \subseteq Nat /\ allocId \in Nat
    BY IdFacts, SocketAssumption DEF SocketType
  <2>2. \A id \in held : id \in Nat /\ id <= allocId
    BY <1>1, <2>1 DEF Known
  <2>3. \A id \in held' : id <= allocId'
    BY <2>1, <2>2
  <2> QED BY <1>1, <2>3 DEF Known
<1> QED BY <1>1, <1>2, <1>3, <1>4 DEF LifeInv, NothingAfterClose

LEMMA SameAlike ==
    ASSUME UNCHANGED slot
    PROVE  \A j \in Indices : Alike(j)
BY DEF Alike

LEMMA TallyAlike ==
    ASSUME SocketType, NEW i \in Indices, NEW n \in Int, Tally(i, n)
    PROVE  \A j \in Indices : Alike(j)
BY TallyFields DEF Alike, Tally, Others

LEMMA AllocNat ==
    ASSUME SocketType, allocId' = allocId
    PROVE  allocId' \in Nat /\ allocId' >= allocId
BY SocketAssumption DEF SocketType

LEMMA LifePackage ==
    ASSUME SocketType, LifeInv, SendPackage
    PROVE  LifeInv'
<1> SUFFICES ASSUME NEW i, i = HASH_ID(Cmd.id) PROVE LifeInv'
  OBVIOUS
<1> SUFFICES ASSUME NEW n, n = IF Counted(i, Cmd.id) THEN slot[i].sending - 1 ELSE slot[i].sending
             PROVE  LifeInv'
  OBVIOUS
<1>1. /\ Served /\ Commanded /\ UNCHANGED <<allocId, fc, held, opened, closed, late>>
      /\ Running /\ cl' = cl /\ Shorter
  BY ServerFrames DEF Served, Shorter
<1>2. /\ Cmd.m \in Messages /\ Cmd.id \in Ids /\ i \in Indices /\ n \in Int
      /\ IF Refuses(i, Cmd.m.to) THEN Dropped(i, n) ELSE Appended(i, Cmd.m, n)
  BY SendPackageEffect
<1>3. NoNewOpening /\ (\A j \in DOMAIN pipe' : Addressed(pipe'[j], held)) /\ SameCalls
  BY <1>1, ShorterOpenings DEF LifeInv, Known, SameCalls, SameCall
<1>m. Mailing'
  BY <1>1 DEF LifeInv, Mailing
<1>4. allocId' \in Nat /\ allocId' >= allocId
  BY <1>1, AllocNat
<1>5. CASE Refuses(i, Cmd.m.to)
  <2>1. \A j \in Indices : Alike(j)
    BY <1>2, <1>5, TallyAlike DEF Dropped
  <2> QED BY <1>1, <1>3, <1>4, <1>m, <2>1, QuietLife
<1>6. CASE ~Refuses(i, Cmd.m.to)
  <2>1. Appended(i, Cmd.m, n) /\ Others(i)
    BY <1>2, <1>6 DEF Appended
  <2>2. Life(i) /\ slot[i].type # "INVALID" /\ fc = None
    BY <1>1, <1>2, <1>6 DEF LifeInv, Lives, Refuses, socket_invalid, Commanded
  <2>3. Stale
    BY DEF SendPackage
  <2>4. /\ slot'[i].id = slot[i].id /\ slot'[i].tcp = slot[i].tcp /\ slot'[i].tag = slot[i].tag
        /\ slot'[i].type = slot[i].type /\ slot'[i].closing = slot[i].closing
        /\ slot'[i].writing = (slot[i].writing \/ send_buffer_empty(i))
    BY <1>2, <2>1, AppendedFields
  <2>5. slot[i].id = Cmd.m.to
    BY <1>6 DEF Refuses, socket_invalid
  <2>6. Cmd.m.to = Cmd.id /\ Cmd.id \in held
    BY <1>1, CommandedFacts, SendPackageEffect DEF LifeInv, Known, Addressed
  <2>7. Running' => slot[i].type \notin Dormant
    BY <2>2, <2>3, <2>5, <2>6 DEF Stale, Running, Dormant
  <2>8. Tells(i) /\ Closes'
    BY <1>1, <2>2 DEF Tells, Silent, tellVars, Closes
  <2>9. ASSUME Running' PROVE Life(i)' /\ slot[i].type # "RESERVE"
    <3>1. slot[i].writing => slot'[i].writing
      BY <2>4
    <3>2. slot[i].type \notin Dormant /\ UNCHANGED <<allocId, held, opened, closed>>
      BY <1>1, <2>7, <2>9
    <3> QED BY <2>2, <2>4, <3>1, <3>2 DEF Life, Dormant
  <2> QED BY <1>1, <1>2, <2>1, <2>5, <2>6, <2>8, <2>9, SocketStep
<1> QED BY <1>5, <1>6

LEMMA LifeOpening ==
    ASSUME SocketType, LifeInv, open_socket
    PROVE  LifeInv'
<1> SUFFICES ASSUME NEW i, NEW id, id = Cmd.id, i = HASH_ID(id) PROVE LifeInv'
  OBVIOUS
<1>1. /\ Served /\ Commanded /\ UNCHANGED <<allocId, fc, held, stale>>
      /\ Running /\ cl' = cl /\ Shorter /\ fc = None
  BY ServerFrames DEF Served, Shorter, Commanded
<1>2. /\ id = pipe[1].id /\ 1 \in DOMAIN pipe /\ id \in Ids /\ i \in Indices
      /\ pipe[1].cmd \in Opening /\ Addressed(pipe[1], held)
  BY <1>1, CommandedFacts, OpenSocketEffect DEF Opening, LifeInv, Known
<1>3. /\ Lives /\ Booked /\ Life(i)
      /\ slot[i].type = "RESERVE" /\ slot[i].id = id /\ id \notin opened /\ id \notin closed
      /\ \A k \in DOMAIN pipe \ {1} : pipe[k].cmd \in Opening => pipe[k].id # id
  BY <1>1, <1>2 DEF LifeInv, Lives, Booked, Opens
<1>4. /\ NoNewOpening /\ SameCalls /\ id \in held
      /\ \A j \in DOMAIN pipe' : Addressed(pipe'[j], held)
  BY <1>1, <1>2, ShorterOpenings DEF LifeInv, Known, SameCalls, SameCall, Addressed
<1>5. allocId' \in Nat /\ allocId' >= allocId
  BY <1>1, AllocNat
<1>6. Unbooked(i)
  <2>1. ASSUME NEW d \in Clients, cl'[d].pc = "reserved" PROVE HASH_ID(cl'[d].id) # i
    BY <1>1, <1>2, <1>3, <2>1 DEF Booked, Reserves
  <2>2. ASSUME NEW j \in Openings' PROVE HASH_ID(pipe'[j].id) # i
    <3>1. j + 1 \in DOMAIN pipe /\ j + 1 # 1 /\ pipe'[j] = pipe[j + 1] /\ pipe[j + 1].cmd \in Opening
      BY <1>1, <2>2, CommandedFacts DEF Openings
    <3>2. pipe[j + 1].id # id /\ slot[HASH_ID(pipe[j + 1].id)].id = pipe[j + 1].id
      BY <1>3, <3>1 DEF Booked, Opens
    <3> QED BY <1>3, <3>1, <3>2
  <2> QED BY <2>1, <2>2 DEF Unbooked
<1>7. ASSUME Others(i), Tells(i), Life(i)' PROVE LifeInv'
  <2>1. Known' /\ NothingAfterClose' /\ Fresh(i)
    BY <1>1, <1>2, <1>3, <1>4, <1>7, TellsFacts
  <2>2. Lives' /\ Booked'
    BY <1>1, <1>2, <1>3, <1>4, <1>5, <1>6, <1>7, <2>1, SlotStep
  <2>3. Closes'
    BY <1>1 DEF Closes
  <2>4. Mailing'
    BY <1>1 DEF LifeInv, Mailing
  <2> QED BY <2>1, <2>2, <2>3, <2>4 DEF LifeInv
<1>8. ASSUME NEW type \in {"CONNECTED", "CONNECTING", "PLISTEN"},
             Opened(id, type, type # "PLISTEN", type = "CONNECTING"),
             IF type = "CONNECTING" THEN Silent ELSE Report("OPEN", id)
      PROVE LifeInv'
  <2>1. /\ type \in Types /\ (type # "PLISTEN") \in BOOLEAN /\ (type = "CONNECTING") \in BOOLEAN
        /\ type \notin Dormant
    BY <1>8 DEF Types, Dormant
  <2>2. /\ Others(i) /\ slot'[i].id = id /\ slot'[i].tcp = TRUE /\ slot'[i].tag = ID_TAG16(id)
        /\ slot'[i].type = type /\ slot'[i].closing = FALSE /\ slot'[i].writing = (type = "CONNECTING")
    BY <1>2, <1>8, <2>1, OpenedEffect, ZenonT(30)
  <2>3. Tells(i)
    BY <1>3, <1>8 DEF Tells
  <2>4. closed' = closed /\ (type = "CONNECTING" => opened' = opened)
    BY <1>8 DEF Report, Silent, tellVars
  <2>5. id # 0 /\ id <= allocId
    BY <1>2, <1>4, IdFacts DEF LifeInv, Known
  <2>6. Life(i)'
    <3>1. id \in opened' => type \notin Untold
      BY <1>3, <1>8, <2>4 DEF Untold
    <3> QED BY <1>1, <1>2, <1>3, <1>4, <2>1, <2>2, <2>4, <2>5, <3>1 DEF Life
  <2> QED BY <1>7, <2>2, <2>3, <2>6
<1>9. CASE ModeStep(i, "INVALID", slot[i].closing, slot[i].writing) /\ Silent
  <2>1. Others(i) /\ Tells(i) /\ UNCHANGED <<opened, closed>>
    BY <1>9 DEF ModeStep, Calm, Tells, Silent, tellVars
  <2>2. slot[i].closing \in BOOLEAN /\ slot[i].writing \in BOOLEAN /\ "INVALID" \in Types
    BY <1>2, SocketFields DEF Types
  <2>3. /\ "INVALID" \in Dormant /\ "RESERVE" \in Dormant /\ "INVALID" \notin Untold
    BY DEF Dormant, Untold
  <2>4. Life(i)'
    BY <1>1, <1>2, <1>3, <1>9, <2>1, <2>2, <2>3, LifeMode
  <2> QED BY <1>7, <2>1, <2>4
<1> QED BY <1>8, <1>9, OpenSocketEffect

LEMMA LifeRest ==
    ASSUME SocketType, LifeInv, Ignored \/ NoMoreCommands \/ Wait
    PROVE  LifeInv'
<1>1. /\ Served /\ UNCHANGED <<slot, allocId, fc, held, opened, closed, late>>
      /\ Shorter /\ Running /\ cl' = cl
  BY ServerFrames DEF Served, Shorter
<1>2. NoNewOpening /\ SameCalls /\ \A j \in DOMAIN pipe' : Addressed(pipe'[j], held)
  BY <1>1, ShorterOpenings DEF LifeInv, Known, SameCalls, SameCall
<1>3. Mailing'
  BY <1>1 DEF LifeInv, Mailing
<1> QED BY <1>1, <1>2, <1>3, AllocNat, SameAlike, QuietLife

LEMMA LifeFinish ==
    ASSUME SocketType, LifeInv, FinishClose
    PROVE  LifeInv'
<1> SUFFICES ASSUME NEW i, i = fc.i PROVE LifeInv'
  OBVIOUS
<1>1. /\ Served /\ UNCHANGED <<allocId, pipe, held, stale>> /\ Running /\ cl' = cl /\ Shorter
      /\ fc # None /\ ~stale'
  BY ServerFrames DEF Served, Shorter, FinishClose, Running
<1>2. /\ i \in Indices /\ fc' = None /\ Others(i)
      /\ slot'[i].id = slot[i].id /\ slot'[i].tcp = slot[i].tcp /\ slot'[i].tag = slot[i].tag
      /\ slot'[i].high = slot[i].high /\ slot'[i].low = slot[i].low
      /\ slot'[i].dw = None /\ slot'[i].type = "INVALID" /\ slot'[i].closing = slot[i].closing
  BY FinishCloseEffect
<1>3. /\ Life(i) /\ slot[i].type \notin Dormant /\ slot[i].high = <<>> /\ slot[i].low = <<>>
      /\ fc.kind = "CLOSE" => slot[i].type # "HALFCLOSE_READ"
  BY <1>1, <1>2 DEF LifeInv, Lives, Closes
<1>4. fc.kind \in {"none", "ERR", "CLOSE"}
  BY <1>1 DEF SocketType, Closings
<1>5. Tells(i)
  BY <1>3, <1>4 DEF FinishClose, Tells, Life
<1>6. Life(i)'
  BY <1>1, <1>2, <1>3 DEF Life, Dormant, Untold
<1>7. Closes' /\ slot[i].id \in held /\ slot[i].type # "RESERVE"
  BY <1>2, <1>3 DEF Closes, Life, Dormant
<1> QED BY <1>1, <1>2, <1>5, <1>6, <1>7, SocketStep

(* An event finds the slot of its socket in use.                           *)
LEMMA LifeEvents ==
    ASSUME SocketType, LifeInv, report_connect \/ ReadEnd \/ Eof \/ send_buffer
    PROVE  LifeInv'
<1> SUFFICES ASSUME NEW i, i = E.i PROVE LifeInv'
  OBVIOUS
<1> DEFINE t == slot[i].type
<1>1. Served /\ Signalled /\ UNCHANGED <<allocId, held>> /\ Running /\ cl' = cl /\ Shorter /\ fc = None
  BY EventFrames DEF Served, Shorter, Signalled
<1>2. i \in Indices /\ t \notin Dormant
  BY ConnectEffect, ReadEndEffect, EofEffect, SendBufferEffect DEF Streams, Connections, Dormant
<1>3. Life(i) /\ slot[i].id \in held /\ t # "RESERVE"
  BY <1>1, <1>2 DEF LifeInv, Lives, Life, Dormant
<1>4. t \in Types /\ slot[i].closing \in BOOLEAN /\ slot[i].writing \in BOOLEAN
  BY <1>2, SocketFields
<1>5. ASSUME NEW kind, Closable(i, kind), ForceClose(i, kind, FALSE) PROVE LifeInv'
  BY <1>1, <1>2, <1>3, <1>5, LifeForced
<1>6. ASSUME NEW n \in Types, NEW w \in BOOLEAN, ModeStep(i, n, slot[i].closing, w), Tells(i),
             fc' = fc, n \notin Dormant,
             slot[i].closing => n = "HALFCLOSE_READ",
             slot[i].id \in closed' => n = "HALFCLOSE_READ",
             slot[i].id \in opened' => n \notin Untold,
             n = "CONNECTING" => w
      PROVE LifeInv'
  <2>1. Others(i) /\ Closes'
    BY <1>1, <1>6 DEF ModeStep, Calm, Closes
  <2>2. /\ n \in Dormant <=> t \in Dormant
        /\ slot[i].closing => n \in Dormant \cup {"HALFCLOSE_READ"}
        /\ slot[i].id \in closed' => n \in Dormant \cup {"HALFCLOSE_READ"}
    BY <1>2, <1>6
  <2>3. Life(i)'
    BY <1>1, <1>2, <1>3, <1>4, <1>6, <2>2, LifeMode
  <2> QED BY <1>1, <1>2, <1>3, <1>6, <2>1, <2>3, SocketStep
<1>7. CASE report_connect
  <2>1. CASE ForceClose(i, "ERR", FALSE)
    BY <1>5, <2>1 DEF Closable
  <2>2. ASSUME NEW w \in BOOLEAN, ModeStep(i, "CONNECTED", slot[i].closing, w),
               Report("OPEN", slot[i].id), UNCHANGED <<fc, crashed>>, t = "CONNECTING"
        PROVE LifeInv'
    <3>1. slot[i].id \notin closed /\ ~slot[i].closing
      BY <1>3, <2>2 DEF Life, Dormant
    <3>2. Tells(i) /\ closed' = closed
      BY <2>2, <3>1 DEF Tells, Report
    <3>3. "CONNECTED" \in Types /\ "CONNECTED" \notin Dormant /\ "CONNECTED" \notin Untold
      BY DEF Types, Dormant, Untold
    <3> QED BY <1>6, <2>2, <3>1, <3>2, <3>3
  <2> QED BY <1>7, <2>1, <2>2, ConnectEffect
<1>8. CASE ReadEnd
  <2>1. CASE UNCHANGED <<slot, opened, closed, late, fc, crashed>>
    <3>1. Tells(i) /\ Others(i) /\ Closes'
      BY <1>1, <2>1 DEF Tells, Silent, tellVars, Others, Closes
    <3>2. Life(i)'
      BY <1>1, <1>3, <2>1 DEF Life
    <3> QED BY <1>1, <1>2, <1>3, <3>1, <3>2, SocketStep
  <2>2. CASE /\ t \in {"CONNECTED", "PACCEPT"} /\ ~slot[i].closing
             /\ ModeStep(i, "HALFCLOSE_READ", slot[i].closing, slot[i].writing)
             /\ Report("CLOSE", slot[i].id) /\ UNCHANGED <<fc, crashed>>
    <3>1. slot[i].id \notin closed
      BY <1>3, <2>2 DEF Life, Dormant
    <3>2. Tells(i)
      BY <2>2, <3>1 DEF Tells
    <3>3. "HALFCLOSE_READ" \in Types /\ "HALFCLOSE_READ" \notin Dormant /\ "HALFCLOSE_READ" \notin Untold
      BY DEF Types, Dormant, Untold
    <3> QED BY <1>4, <1>6, <2>2, <3>2, <3>3
  <2> QED BY <1>5, <1>8, <2>1, <2>2, ReadEndEffect
<1>9. CASE Eof
  BY <1>5, <1>9, EofEffect
<1>10. CASE send_buffer
  <2>1. PICK out, u, v : Flushes(i, out, u, v)
    BY <1>10, SendBufferEffect
  <2>2. UNCHANGED <<fc, opened, closed, late>>
    BY <1>10, EventFrames
  <2>3. Tells(i) /\ Others(i) /\ Closes'
    BY <1>1, <2>1, <2>2 DEF Tells, Silent, tellVars, Closes, Flushes
  <2>4. /\ u.type = t /\ u.closing = slot[i].closing /\ u.writing = slot[i].writing /\ u.dw = None
        /\ v = slot'[i] /\ v.id = slot[i].id /\ v.tcp = slot[i].tcp /\ v.tag = slot[i].tag
        /\ v.closing = slot[i].closing
    BY <2>1 DEF Flushes, Flushed, Same
  <2>5. Frees(u, v) \/ Shuts(u, v) \/ Empties(u, v) \/ Keeps(u, v)
    BY <2>1 DEF Flushes
  <2>6. t # "CONNECTING"
    BY <1>10, SendBufferEffect DEF Streams, Connections
  <2>7. v.type = "INVALID" => v.high = <<>> /\ v.low = <<>> /\ v.dw = None
    BY <1>2, <2>4, <2>5 DEF Frees, Shuts, Empties, Keeps, Dormant
  <2>8. v.type \in {"INVALID", t} \/ (v.type = "HALFCLOSE_WRITE" /\ ~slot[i].closing /\ t # "HALFCLOSE_READ")
    BY <2>4, <2>5 DEF Frees, Shuts, Empties, Keeps
  <2>9. Life(i)'
    BY <1>1, <1>2, <1>3, <2>2, <2>4, <2>6, <2>7, <2>8 DEF Life, Dormant, Untold
  <2> QED BY <1>1, <1>2, <1>3, <2>3, <2>9, SocketStep
<1> QED BY <1>7, <1>8, <1>9, <1>10

LEMMA LifeCalm ==
    ASSUME SocketType, LifeInv,
           ReadAgain \/ ReadError \/ ReadData \/ WriteBlocked \/ InvalidEvent \/ StaleEvent
    PROVE  LifeInv'
<1>1. Served /\ Signalled /\ UNCHANGED <<allocId, held>> /\ Running /\ cl' = cl /\ Shorter /\ pipe' = pipe
  BY EventFrames DEF Served, Shorter, Signalled
<1>2. UNCHANGED <<slot, fc, opened, closed, late>>
  <2>1. UNCHANGED <<slot, fc>> /\ (Silent \/ (/\ slot[E.i].type \in Connections \ {"HALFCLOSE_READ"}
                                              /\ Report("DATA", slot[E.i].id) /\ E.i \in Indices))
    BY CalmEvents
  <2>2. CASE Silent
    BY <2>1, <2>2 DEF Silent, tellVars
  <2>3. CASE /\ slot[E.i].type \in Connections \ {"HALFCLOSE_READ"}
             /\ Report("DATA", slot[E.i].id) /\ E.i \in Indices
    <3>1. slot[E.i].id \notin closed
      BY <1>1, <2>3 DEF LifeInv, Lives, Life, Connections, Dormant
    <3> QED BY <2>1, <2>3, <3>1 DEF Report
  <2> QED BY <2>1, <2>2, <2>3
<1>3. NoNewOpening /\ SameCalls /\ \A j \in DOMAIN pipe' : Addressed(pipe'[j], held)
  BY <1>1, ShorterOpenings DEF LifeInv, Known, SameCalls, SameCall
<1>4. Mailing'
  BY <1>1 DEF LifeInv, Mailing
<1> QED BY <1>1, <1>2, <1>3, <1>4, AllocNat, SameAlike, QuietLife

LEMMA LifeAccept ==
    ASSUME SocketType, LifeInv, report_accept
    PROVE  LifeInv'
<1> SUFFICES ASSUME NEW id, id = allocId' PROVE LifeInv'
  OBVIOUS
<1>1. /\ Served /\ Signalled /\ UNCHANGED <<fc, opened, closed, late>> /\ Running /\ cl' = cl
      /\ Shorter /\ fc = None
  BY EventFrames DEF Served, Shorter, Signalled
<1>2. NoNewOpening /\ SameCalls /\ \A j \in DOMAIN pipe' : Addressed(pipe'[j], held)
  BY <1>1, ShorterOpenings DEF LifeInv, Known, SameCalls, SameCall
<1>3. allocId' \in Nat /\ allocId \in Nat /\ held \subseteq Nat
  <2>1. allocId' \in 0 .. MaxId + Slots
    BY AcceptEffect
  <2>2. allocId \in 0 .. MaxId + Slots /\ held \subseteq Ids
    BY DEF SocketType
  <2> QED BY <2>1, <2>2, IdFacts, SocketAssumption
<1>4. Lives /\ Booked /\ Known /\ late = {}
  BY <1>1 DEF LifeInv, NothingAfterClose, Running
<1>5. CASE allocId' >= allocId /\ UNCHANGED <<slot, held, crashed>>
  <2>1. Mailing'
    BY <1>1, <1>5 DEF LifeInv, Mailing
  <2> QED BY <1>1, <1>2, <1>3, <1>5, <2>1, SameAlike, QuietLife
<1>6. ASSUME id \in Ids, id > allocId, NEW i, i = HASH_ID(id), slot[i].type = "INVALID",
             Others(i), held \subseteq held', held' \subseteq held \cup {id}, Life(i)'
      PROVE LifeInv'
  <2>1. i \in Indices /\ Unbooked(i)
    BY <1>2, <1>4, <1>6, IdFacts, Unreserved
  <2>2. Fresh(i)
    BY <1>1 DEF Fresh
  <2>3. \A x \in held' \ held : x \in Nat /\ x > allocId
    BY <1>3, <1>6
  <2>4. allocId' >= allocId
    BY <1>3, <1>6
  <2>5. Lives' /\ Booked'
    BY <1>2, <1>3, <1>4, <1>6, <2>1, <2>2, <2>3, <2>4, SlotStep
  <2>6. Known'
    <3>1. \A x \in held' : x <= allocId'
      <4>1. \A x \in held : x <= allocId
        BY <1>4 DEF Known
      <4>2. \A x \in held' : x = id \/ (x \in held /\ x \in Nat)
        BY <1>3, <1>6
      <4>3. \A x \in Nat : x <= allocId => x <= allocId'
        BY <1>3, <2>4
      <4> QED BY <1>3, <4>1, <4>2, <4>3
    <3>2. opened' \subseteq held' /\ closed' \subseteq held'
      BY <1>1, <1>4, <1>6 DEF Known
    <3>3. \A j \in DOMAIN pipe' : Addressed(pipe'[j], held')
      BY <1>2, <1>6 DEF Addressed
    <3> QED BY <3>1, <3>2, <3>3 DEF Known
  <2>7. Mailing'
    BY <1>1, <1>6 DEF LifeInv, Mailing
  <2> QED BY <1>1, <1>4, <2>5, <2>6, <2>7 DEF LifeInv, Closes, NothingAfterClose
<1>7. CASE id \in Ids /\ id > allocId /\ slot[HASH_ID(id)].type = "INVALID"
           /\ slot' = Claimed(slot, id) /\ UNCHANGED held
  <2> SUFFICES ASSUME NEW i, i = HASH_ID(id) PROVE LifeInv'
    OBVIOUS
  <2>1. /\ i \in Indices /\ Others(i)
        /\ slot'[i].id = id /\ slot'[i].tcp = FALSE /\ slot'[i].type = slot[i].type
        /\ slot'[i].high = slot[i].high /\ slot'[i].low = slot[i].low
        /\ slot'[i].dw = slot[i].dw /\ slot'[i].closing = slot[i].closing
    BY <1>7, ClaimedEffect
  <2>2. Life(i)'
    BY <1>3, <1>4, <1>7, <2>1 DEF Life, Lives, Dormant, Untold
  <2> QED BY <1>6, <1>7, <2>1, <2>2
<1>8. CASE id \in Ids /\ id > allocId /\ slot[HASH_ID(id)].type = "INVALID"
           /\ Opened(id, "PACCEPT", FALSE, FALSE) /\ held' = held \cup {id}
  <2> SUFFICES ASSUME NEW i, i = HASH_ID(id) PROVE LifeInv'
    OBVIOUS
  <2>0. "PACCEPT" \in Types /\ FALSE \in BOOLEAN
    BY DEF Types
  <2>1. /\ i \in Indices /\ Others(i)
        /\ slot'[i].id = id /\ slot'[i].tcp = TRUE /\ slot'[i].tag = ID_TAG16(id)
        /\ slot'[i].type = "PACCEPT" /\ slot'[i].closing = FALSE
    BY <1>8, <2>0, OpenedEffect, Zenon
  <2>2. id \notin opened /\ id \notin closed
    BY <1>3, <1>4, <1>8 DEF Known
  <2>3. id # 0
    BY <1>8, IdFacts
  <2>4. Life(i)'
    BY <1>1, <1>3, <1>8, <2>1, <2>2, <2>3 DEF Life, Dormant, Untold
  <2> QED BY <1>6, <1>8, <2>1, <2>4
<1> QED BY <1>5, <1>7, <1>8, AcceptEffect

LEMMA LifeBooking ==
    ASSUME SocketType, LifeInv, NEW c \in Clients, Open(c)
    PROVE  LifeInv'
<1> SUFFICES ASSUME NEW id, NEW i, id = allocId', i = HASH_ID(id) PROVE LifeInv'
  OBVIOUS
<1>1. Running /\ UNCHANGED <<pipe, fc, held, opened, closed, late>>
  BY ClientFrames
<1>2. Lives /\ Booked /\ Closes /\ Known /\ late = {}
  BY <1>1 DEF LifeInv, NothingAfterClose, Running
<1>3. /\ cl[c].pc = "idle" /\ id \in Ids /\ id > allocId /\ id \in Nat
      /\ i \in Indices /\ Calm(i) /\ slot[i].type = "INVALID" /\ slot'[i].type = "RESERVE"
      /\ slot'[i].closing = slot[i].closing
      /\ cl' = [cl EXCEPT ![c] = [pc |-> "reserved", id |-> id]]
  BY OpenEffect, IdFacts
<1>4. cl'[c].pc = "reserved" /\ cl'[c].id = id /\ \A d \in Clients \ {c} : cl'[d] = cl[d]
  <2>1. [pc |-> "reserved", id |-> id] \in Callers
    BY <1>3, CallerTypes
  <2> QED BY <1>3, <2>1, ClientPut
<1>5. allocId \in Nat /\ held \subseteq Nat
  BY IdFacts, SocketAssumption DEF SocketType
<1>6. Others(i) /\ Life(i) /\ slot[i].id <= allocId /\ slot[i].id \in Nat
  BY <1>2, <1>3, SocketFields DEF Calm, Lives, Life
<1>7. Lives'
  <2>1. Life(i)'
    BY <1>1, <1>3, <1>5, <1>6 DEF Life, Calm, Dormant, Untold
  <2>2. Fresh(i)
    BY <1>1 DEF Fresh
  <2>3. allocId' \in Nat /\ allocId' >= allocId /\ held \subseteq held'
    BY <1>1, <1>3, <1>5
  <2> QED BY <1>2, <1>6, <2>1, <2>2, <2>3, LifeElsewhere DEF Lives
<1>8. ASSUME NEW d \in Clients \ {c}, cl[d].pc = "reserved" PROVE HASH_ID(cl[d].id) # i
  BY <1>2, <1>3, <1>8 DEF Booked, Reserves
<1>9. ASSUME NEW j \in DOMAIN pipe, pipe[j].cmd \in Opening PROVE HASH_ID(pipe[j].id) # i
  BY <1>2, <1>3, <1>9 DEF Booked, Opens
<1>10. ASSUME NEW d \in Clients PROVE Reserves(d)'
  <2>1. CASE d = c
    <3>1. id \notin held
      BY <1>2, <1>3, <1>5 DEF Known
    <3>2. slot'[i].id < id
      BY <1>3, <1>5, <1>6 DEF Calm
    <3>3. id <= allocId'
      BY <1>3
    <3> QED BY <1>1, <1>3, <1>4, <1>8, <1>9, <2>1, <3>1, <3>2, <3>3 DEF Reserves
  <2>2. CASE d # c /\ cl[d].pc = "reserved"
    <3>1. cl'[d] = cl[d] /\ Reserves(d) /\ cl[d].id \in Nat /\ HASH_ID(cl[d].id) \in Indices \ {i}
      BY <1>2, <1>4, <1>8, <2>2, CallerFacts, IdFacts DEF Booked
    <3>2. slot'[HASH_ID(cl[d].id)] = slot[HASH_ID(cl[d].id)]
      BY <1>6, <3>1 DEF Others
    <3>3. \A e \in Clients \ {d} : cl'[e].pc = "reserved" => HASH_ID(cl'[e].id) # HASH_ID(cl[d].id)
      BY <1>3, <1>4, <2>2, <3>1 DEF Reserves
    <3>4. cl[d].id <= allocId'
      BY <1>3, <1>5, <2>2, <3>1 DEF Reserves
    <3> QED BY <1>1, <2>2, <3>1, <3>2, <3>3, <3>4 DEF Reserves
  <2>3. CASE d # c /\ cl[d].pc # "reserved"
    BY <1>4, <2>3 DEF Reserves
  <2> QED BY <2>1, <2>2, <2>3
<1>11. ASSUME NEW j \in DOMAIN pipe' PROVE Opens(j)'
  <2> SUFFICES ASSUME pipe[j].cmd \in Opening PROVE Opens(j)'
    BY <1>1 DEF Opens
  <2>1. Opens(j) /\ HASH_ID(pipe[j].id) \in Indices \ {i}
    BY <1>1, <1>2, <1>9, PipeFacts, IdFacts DEF Booked
  <2>2. slot'[HASH_ID(pipe[j].id)] = slot[HASH_ID(pipe[j].id)]
    BY <1>6, <2>1 DEF Others
  <2> QED BY <1>1, <2>1, <2>2 DEF Opens
<1>12. Closes'
  <2> SUFFICES ASSUME fc # None PROVE Closes'
    BY <1>1 DEF Closes
  <2>1. fc.i # i /\ fc.i \in Indices
    BY <1>2, <1>3 DEF Closes, Dormant, SocketType, Closings
  <2>2. slot'[fc.i] = slot[fc.i]
    BY <1>6, <2>1 DEF Others
  <2> QED BY <1>1, <1>2, <2>2 DEF Closes
<1>13. Known'
  BY <1>1, <1>2, <1>3, <1>5 DEF Known
<1>14. Mailing'
  BY <1>1, <1>4 DEF LifeInv, Mailing, Busy
<1> QED BY <1>1, <1>2, <1>7, <1>10, <1>11, <1>12, <1>13, <1>14
           DEF LifeInv, Booked, NothingAfterClose

LEMMA LifePublish ==
    ASSUME SocketType, LifeInv, NEW c \in Clients, Publish(c)
    PROVE  LifeInv'
<1> SUFFICES ASSUME NEW id, NEW i, id = cl[c].id, i = HASH_ID(id) PROVE LifeInv'
  OBVIOUS
<1>1. Running /\ UNCHANGED <<allocId, fc, opened, closed, late>>
  BY ClientFrames
<1>2. Lives /\ Booked /\ Closes /\ Known /\ late = {}
  BY <1>1 DEF LifeInv, NothingAfterClose, Running
<1>3. /\ cl[c].pc = "reserved" /\ id \in Ids /\ id \in Nat /\ slot' = Claimed(slot, id)
      /\ cl' = [cl EXCEPT ![c] = [pc |-> "idle"]] /\ held' = held \cup {id}
  BY PublishEffect, IdFacts
<1>4. PICK x : /\ x \in Commands /\ x.cmd \in Opening /\ x.id = id /\ x.cmd \notin Packages
               /\ pipe' = Append(pipe, x)
  <2>1. PICK cmd \in {"O", "L"} : /\ [cmd |-> cmd, id |-> id] \in Commands
                                  /\ pipe' = Append(pipe, [cmd |-> cmd, id |-> id])
    BY PublishEffect
  <2>2. [cmd |-> cmd, id |-> id].cmd = cmd /\ [cmd |-> cmd, id |-> id].id = id
        /\ cmd \in Opening /\ cmd \notin Packages
    BY DEF Opening, Packages
  <2> QED BY <2>1, <2>2
<1>5. cl'[c].pc = "idle" /\ \A d \in Clients \ {c} : cl'[d] = cl[d]
  BY <1>3, ClientPut, CallerTypes
<1>6. /\ i \in Indices /\ Others(i)
      /\ slot'[i].id = id /\ slot'[i].tcp = FALSE /\ slot'[i].type = slot[i].type
      /\ slot'[i].high = slot[i].high /\ slot'[i].low = slot[i].low
      /\ slot'[i].dw = slot[i].dw /\ slot'[i].closing = slot[i].closing
  BY <1>3, ClaimedEffect
<1>7. /\ slot[i].type = "RESERVE" /\ id \notin held /\ id <= allocId
      /\ \A d \in Clients \ {c} : cl[d].pc = "reserved" => HASH_ID(cl[d].id) # i
      /\ \A j \in DOMAIN pipe : pipe[j].cmd \in Opening => HASH_ID(pipe[j].id) # i
  BY <1>2, <1>3 DEF Booked, Reserves
<1>8. allocId \in Nat /\ id \notin opened /\ id \notin closed
  <2>1. allocId \in Nat
    BY SocketAssumption DEF SocketType
  <2> QED BY <1>2, <1>7, <2>1 DEF Known
<1>9. /\ DOMAIN pipe' = DOMAIN pipe \cup {Len(pipe) + 1} /\ pipe'[Len(pipe) + 1] = x
      /\ \A j \in DOMAIN pipe : j # Len(pipe) + 1 /\ pipe'[j] = pipe[j]
  BY <1>4, PipeAppend
<1>10. Lives'
  <2>1. Life(i)'
    BY <1>1, <1>2, <1>6, <1>7, <1>8 DEF Life, Lives, Dormant, Untold
  <2>2. Fresh(i)
    BY <1>1 DEF Fresh
  <2>3. allocId' \in Nat /\ allocId' >= allocId /\ held \subseteq held'
    BY <1>1, <1>3, <1>8
  <2> QED BY <1>2, <1>6, <2>1, <2>2, <2>3, LifeElsewhere DEF Lives
<1>11. ASSUME NEW d \in Clients PROVE Reserves(d)'
  <2> SUFFICES ASSUME cl'[d].pc = "reserved" PROVE Reserves(d)'
    BY DEF Reserves
  <2>1. d # c /\ cl'[d] = cl[d] /\ cl[d].pc = "reserved"
    BY <1>5
  <2>2. Reserves(d) /\ HASH_ID(cl[d].id) \in Indices \ {i}
    BY <1>2, <1>7, <2>1, CallerFacts, IdFacts DEF Booked
  <2>3. slot'[HASH_ID(cl[d].id)] = slot[HASH_ID(cl[d].id)]
    BY <1>6, <2>2 DEF Others
  <2>4. cl[d].id \notin held'
    BY <1>3, <2>1, <2>2 DEF Reserves
  <2>5. \A j \in DOMAIN pipe' : pipe'[j].cmd \in Opening => HASH_ID(pipe'[j].id) # HASH_ID(cl[d].id)
    BY <1>4, <1>9, <2>1, <2>2 DEF Reserves
  <2>6. \A e \in Clients \ {d} : cl'[e].pc = "reserved" => HASH_ID(cl'[e].id) # HASH_ID(cl[d].id)
    BY <1>5, <2>1, <2>2 DEF Reserves
  <2> QED BY <1>1, <2>1, <2>2, <2>3, <2>4, <2>5, <2>6 DEF Reserves
<1>12. ASSUME NEW j \in DOMAIN pipe' PROVE Opens(j)'
  <2> SUFFICES ASSUME pipe'[j].cmd \in Opening PROVE Opens(j)'
    BY DEF Opens
  <2>1. CASE j = Len(pipe) + 1
    <3>1. pipe'[j] = x
      BY <1>9, <2>1
    <3>2. \A k \in DOMAIN pipe' \ {j} : pipe'[k].cmd \in Opening => pipe'[k].id # id
      BY <1>7, <1>9, <2>1
    <3> QED BY <1>1, <1>4, <1>6, <1>7, <1>8, <3>1, <3>2 DEF Opens
  <2>2. CASE j \in DOMAIN pipe
    <3>1. pipe'[j] = pipe[j] /\ pipe[j].cmd \in Opening
      BY <1>9, <2>2
    <3>2. Opens(j) /\ HASH_ID(pipe[j].id) \in Indices \ {i}
      BY <1>2, <1>7, <2>2, <3>1, PipeFacts, IdFacts DEF Booked
    <3>3. slot'[HASH_ID(pipe[j].id)] = slot[HASH_ID(pipe[j].id)]
      BY <1>6, <3>2 DEF Others
    <3>4. \A k \in DOMAIN pipe' \ {j} : pipe'[k].cmd \in Opening => pipe'[k].id # pipe[j].id
      BY <1>4, <1>9, <3>1, <3>2 DEF Opens
    <3> QED BY <1>1, <3>1, <3>2, <3>3, <3>4 DEF Opens
  <2> QED BY <1>9, <2>1, <2>2
<1>13. Closes'
  <2> SUFFICES ASSUME fc # None PROVE Closes'
    BY <1>1 DEF Closes
  <2>1. fc.i # i /\ fc.i \in Indices
    BY <1>2, <1>7 DEF Closes, Dormant, SocketType, Closings
  <2>2. slot'[fc.i] = slot[fc.i]
    BY <1>6, <2>1 DEF Others
  <2> QED BY <1>1, <1>2, <2>2 DEF Closes
<1>14. Known'
  <2>1. \A j \in DOMAIN pipe' : Addressed(pipe'[j], held')
    BY <1>2, <1>3, <1>4, <1>9 DEF Known, Addressed
  <2> QED BY <1>1, <1>2, <1>3, <1>7, <2>1 DEF Known
<1>15. Mailing'
  BY <1>3, <1>5 DEF LifeInv, Mailing, Busy
<1> QED BY <1>1, <1>2, <1>10, <1>11, <1>12, <1>13, <1>14, <1>15
           DEF LifeInv, Booked, NothingAfterClose

(* The calls that open nothing change what they carry at most.             *)
LEMMA PutCall ==
    ASSUME SocketType, NEW c \in Clients, NEW x \in Callers, cl' = [cl EXCEPT ![c] = x],
           cl[c].pc # "reserved", x.pc # "reserved", Mailing, held' = held,
           x.pc \in Busy \cup {"wake"} => x.m.to \in held
    PROVE  SameCalls /\ Mailing'
<1>1. cl'[c] = x /\ \A d \in Clients \ {c} : cl'[d] = cl[d]
  BY ClientPut
<1>2. SameCalls
  BY <1>1 DEF SameCalls, SameCall
<1>3. ASSUME NEW d \in Clients, cl'[d].pc \in Busy \cup {"wake"} PROVE cl'[d].m.to \in held'
  <2>1. CASE d = c
    BY <1>1, <1>3, <2>1
  <2>2. CASE d # c
    BY <1>1, <1>3, <2>2 DEF Mailing
  <2> QED BY <2>1, <2>2
<1> QED BY <1>2, <1>3 DEF Mailing

LEMMA LifeCalls ==
    ASSUME SocketType, LifeInv, NEW c \in Clients,
           OpenFull(c) \/ Request(c) \/ Send(c) \/ DoubleCheck(c) \/ Wake(c) \/ inc_sending_ref(c)
             \/ SendCommand(c)
    PROVE  LifeInv'
<1>1. Running /\ UNCHANGED <<fc, held, opened, closed, late>>
  BY ClientFrames
<1>2. allocId' \in Nat /\ allocId' >= allocId
  <2>1. allocId \in Nat
    BY SocketAssumption DEF SocketType
  <2>2. allocId' = allocId \/ allocId' = allocId + Slots
    BY ClientFrames DEF OpenFull
  <2> QED BY <2>1, <2>2, SocketAssumption
<1>3. \A j \in Indices : Alike(j)
  <2>1. CASE inc_sending_ref(c)
    <3> SUFFICES ASSUME NEW i, i = HASH_ID(cl[c].m.to) PROVE \A j \in Indices : Alike(j)
      OBVIOUS
    <3>1. i \in Indices /\ slot[i].sending \in Int
          /\ Tally(i, IF Counting(cl[c].m.to) THEN slot[i].sending + 1 ELSE slot[i].sending)
      <4>1. i \in Indices /\ Tally(i, IF Counting(cl[c].m.to) THEN slot[i].sending + 1 ELSE slot[i].sending)
        BY <2>1, IncEffect
      <4> QED BY <4>1, SocketFields
    <3>2. (IF Counting(cl[c].m.to) THEN slot[i].sending + 1 ELSE slot[i].sending) \in Int
      BY <3>1
    <3> QED BY <3>1, <3>2, TallyAlike
  <2>2. CASE ~inc_sending_ref(c)
    <3>1. UNCHANGED slot
      BY <2>2, ClientFrames
    <3> QED BY <3>1, SameAlike
  <2> QED BY <2>1, <2>2
<1>4. SameCalls /\ Mailing'
  <2>0. Mailing /\ (cl[c].pc \in Busy \cup {"wake"} => cl[c].m.to \in held)
    BY DEF LifeInv, Mailing
  <2>1. CASE OpenFull(c) \/ Request(c)
    BY <2>1, ClientFrames DEF SameCalls, SameCall, LifeInv, Mailing
  <2>2. CASE Send(c)
    <3>1. PICK id \in opened, low \in BOOLEAN, direct \in BOOLEAN :
             /\ cl[c].pc = "idle"
             /\ Cardinality(sent) < MaxSends
             /\ cl' = [cl EXCEPT ![c] = [pc |-> IF direct THEN "locked" ELSE "inc",
                                         m |-> NewMessage(c, id, low)]]
      BY <2>2, SendEffect
    <3>2. id \in Ids
      BY DEF SocketType, LifeInv, Known
    <3>3. NewMessage(c, id, low) \in Messages
      BY <3>1, <3>2, SentAdd
    <3> DEFINE p == IF direct THEN "locked" ELSE "inc"
               x == [pc |-> p, m |-> NewMessage(c, id, low)]
    <3>4. p \in Busy \cup {"wake"} /\ p # "reserved"
      BY DEF Busy
    <3>5. x \in Callers /\ x.pc # "reserved"
      BY <3>3, <3>4, CallerTypes
    <3>6. x.m.to \in held
      <4>1. NewMessage(c, id, low).to = id /\ id \in held
        BY <3>1, <3>2, SentAdd DEF LifeInv, Known
      <4> QED BY <4>1
    <3>7. cl' = [cl EXCEPT ![c] = x] /\ cl[c].pc # "reserved"
      BY <3>1
    <3> HIDE DEF x
    <3> QED BY <1>1, <2>0, <3>5, <3>6, <3>7, PutCall
  <2>3. CASE DoubleCheck(c) \/ inc_sending_ref(c)
    <3>1. PICK p \in Busy : /\ cl[c].pc \in Busy /\ cl[c].m \in Messages
                            /\ cl' = [cl EXCEPT ![c] = [pc |-> p, m |-> cl[c].m]]
      BY <2>3, DoubleCheckEffect, IncEffect DEF Busy
    <3>2. p # "reserved" /\ cl[c].pc # "reserved" /\ p \in Busy \cup {"wake"}
      BY <3>1 DEF Busy
    <3>3. [pc |-> p, m |-> cl[c].m] \in Callers /\ [pc |-> p, m |-> cl[c].m].pc # "reserved"
      BY <3>1, <3>2, CallerTypes
    <3>4. [pc |-> p, m |-> cl[c].m].m.to \in held
      BY <2>0, <3>1
    <3> QED BY <1>1, <2>0, <3>1, <3>2, <3>3, <3>4, PutCall
  <2>4. CASE Wake(c) \/ SendCommand(c)
    <3>1. cl[c].pc # "reserved" /\ cl' = [cl EXCEPT ![c] = [pc |-> "idle"]]
      BY <2>4, WakeEffect, SendCommandEffect
    <3>2. [pc |-> "idle"] \in Callers /\ [pc |-> "idle"].pc # "reserved"
      BY CallerTypes
    <3>3. [pc |-> "idle"].pc \notin Busy \cup {"wake"}
      BY DEF Busy
    <3> QED BY <1>1, <2>0, <3>1, <3>2, <3>3, PutCall
  <2> QED BY <2>1, <2>2, <2>3, <2>4
<1>5. NoNewOpening /\ \A j \in DOMAIN pipe' : Addressed(pipe'[j], held)
  <2>0. \A j \in DOMAIN pipe : Addressed(pipe[j], held)
    BY DEF LifeInv, Known
  <2>1. ASSUME NEW x \in Commands, x.cmd \notin Opening, pipe' = Append(pipe, x), Addressed(x, held)
        PROVE  NoNewOpening /\ \A j \in DOMAIN pipe' : Addressed(pipe'[j], held)
    BY <2>0, <2>1, AppendOpenings, PipeAppend
  <2>2. CASE OpenFull(c) \/ Send(c) \/ DoubleCheck(c) \/ inc_sending_ref(c)
    <3>1. pipe' = pipe
      BY <2>2, ClientFrames
    <3> QED BY <2>0, <3>1, ShorterOpenings DEF Shorter
  <2>3. CASE Request(c)
    <3>1. PICK id \in held, cmd \in {"K", "shutdown", "R", "S"} :
               /\ id \in Ids /\ [cmd |-> cmd, id |-> id] \in Commands
               /\ pipe' = Append(pipe, [cmd |-> cmd, id |-> id])
      BY <2>3, RequestEffect
    <3>2. [cmd |-> cmd, id |-> id].cmd = cmd /\ [cmd |-> cmd, id |-> id].id = id
          /\ cmd \notin Opening /\ cmd \notin Packages
      BY DEF Opening, Packages
    <3>3. Addressed([cmd |-> cmd, id |-> id], held)
      BY <3>2 DEF Addressed
    <3> QED BY <2>1, <3>1, <3>2, <3>3
  <2>4. cl[c].pc \in Busy \cup {"wake"} => cl[c].m.to \in held
    BY DEF LifeInv, Mailing
  <2>5. CASE Wake(c)
    <3> DEFINE x == [cmd |-> "W", id |-> cl[c].m.to]
    <3>1. cl[c].pc = "wake" /\ x \in Commands /\ pipe' = Append(pipe, x)
      BY <2>5, WakeEffect
    <3>2. x.cmd \notin Opening /\ x.cmd \notin Packages /\ x.id = cl[c].m.to
      BY DEF Opening, Packages
    <3>3. Addressed(x, held)
      BY <2>4, <3>1, <3>2 DEF Addressed
    <3> HIDE DEF x
    <3> QED BY <2>1, <3>1, <3>2, <3>3
  <2>6. CASE SendCommand(c)
    <3>1. PICK cmd \in Packages : /\ cl[c].pc = "push" /\ [cmd |-> cmd, id |-> cl[c].m.to, m |-> cl[c].m] \in Commands
                                  /\ pipe' = Append(pipe, [cmd |-> cmd, id |-> cl[c].m.to, m |-> cl[c].m])
      BY <2>6, SendCommandEffect
    <3> DEFINE x == [cmd |-> cmd, id |-> cl[c].m.to, m |-> cl[c].m]
    <3>2. x.cmd \notin Opening /\ x.m = cl[c].m /\ x.id = cl[c].m.to
      BY DEF Opening, Packages
    <3>3. Addressed(x, held)
      BY <2>4, <3>1, <3>2 DEF Addressed, Busy
    <3> HIDE DEF x
    <3> QED BY <2>1, <3>1, <3>2, <3>3 DEF x
  <2> QED BY <2>2, <2>3, <2>5, <2>6
<1> QED BY <1>1, <1>2, <1>3, <1>4, <1>5, QuietLife

LEMMA LifeWrite ==
    ASSUME SocketType, LifeInv, NEW c \in Clients, DirectWrite(c)
    PROVE  LifeInv'
<1> SUFFICES ASSUME NEW m, NEW i, m = cl[c].m, i = HASH_ID(m.to) PROVE LifeInv'
  OBVIOUS
<1>1. Running /\ UNCHANGED <<allocId, pipe, fc, held, opened, closed, late>>
  BY ClientFrames
<1>2. /\ cl[c].pc = "checked" /\ m \in Messages /\ m.to \in Ids /\ i \in Indices
      /\ NotWritten(c, m) \/ AllWritten(c, m) \/ \E l \in {1, 2} : RestKept(c, m, l)
  BY DirectWriteEffect
<1>3. SameCalls /\ Mailing'
  <2>1. cl[c].pc # "reserved" /\ m.to \in held /\ Mailing
    BY <1>2 DEF LifeInv, Mailing, Busy
  <2>2. PICK x \in Callers : /\ cl' = [cl EXCEPT ![c] = x] /\ x.pc # "reserved"
                             /\ x.pc \in Busy \cup {"wake"} => x.m = m
    <3>1. /\ [pc |-> "idle"] \in Callers /\ [pc |-> "idle"].pc # "reserved"
          /\ [pc |-> "idle"].pc \notin Busy \cup {"wake"}
      BY CallerTypes DEF Busy
    <3>2. ASSUME NEW p \in {"inc", "wake"} PROVE /\ [pc |-> p, m |-> m] \in Callers
                                                 /\ [pc |-> p, m |-> m].pc # "reserved"
                                                 /\ [pc |-> p, m |-> m].m = m
      BY <1>2, CallerTypes DEF Busy
    <3>3. CASE AllWritten(c, m)
      <4>1. cl' = [cl EXCEPT ![c] = [pc |-> "idle"]]
        BY <3>3 DEF AllWritten
      <4> QED BY <3>1, <4>1
    <3>4. CASE NotWritten(c, m) \/ \E l \in {1, 2} : RestKept(c, m, l)
      <4>1. \/ cl' = [cl EXCEPT ![c] = [pc |-> "inc", m |-> m]]
            \/ cl' = [cl EXCEPT ![c] = [pc |-> "wake", m |-> m]]
        BY <3>4, Zenon DEF NotWritten, RestKept
      <4>2. PICK p \in {"inc", "wake"} : cl' = [cl EXCEPT ![c] = [pc |-> p, m |-> m]]
        BY <4>1, Zenon
      <4> DEFINE x == [pc |-> p, m |-> m]
      <4>3. x \in Callers /\ x.pc # "reserved" /\ x.m = m
        BY <3>2
      <4>4. cl' = [cl EXCEPT ![c] = x]
        BY <4>2
      <4> HIDE DEF x
      <4> QED BY <4>3, <4>4
    <3> QED BY <1>2, <3>3, <3>4
  <2> QED BY <1>1, <2>1, <2>2, PutCall
<1>4. NoNewOpening /\ (\A j \in DOMAIN pipe' : Addressed(pipe'[j], held)) /\ Shorter
  BY <1>1, ShorterOpenings DEF LifeInv, Known, Shorter
<1>5. allocId' \in Nat /\ allocId' >= allocId
  BY <1>1, AllocNat
<1>6. CASE NotWritten(c, m) \/ AllWritten(c, m)
  <2>1. UNCHANGED slot
    BY <1>6 DEF NotWritten, AllWritten
  <2> QED BY <1>1, <1>3, <1>4, <1>5, <2>1, SameAlike, QuietLife
<1>7. ASSUME NEW l \in {1, 2}, RestKept(c, m, l) PROVE LifeInv'
  <2> DEFINE b == [m |-> m, left |-> l]
  <2>1. b \in Buffers /\ slot[i] \in Sockets
    BY <1>2, SocketFields DEF Buffers
  <2>2. Others(i) /\ slot'[i] = [slot[i] EXCEPT !.dw = b] /\ slot[i].type = "CONNECTED"
    BY <1>7 DEF RestKept, ReadyToWrite
  <2> HIDE DEF b
  <2>3. /\ slot'[i].id = slot[i].id /\ slot'[i].tcp = slot[i].tcp /\ slot'[i].tag = slot[i].tag
        /\ slot'[i].high = slot[i].high /\ slot'[i].low = slot[i].low
        /\ slot'[i].type = slot[i].type /\ slot'[i].closing = slot[i].closing
    BY <2>1, <2>2, DwFields
  <2>4. Lives /\ Booked /\ Closes /\ Known /\ late = {} /\ Life(i)
    BY <1>1, <1>2 DEF LifeInv, NothingAfterClose, Running, Lives
  <2>5. Life(i)' /\ Fresh(i)
    BY <1>1, <2>2, <2>3, <2>4 DEF Life, Dormant, Untold, Fresh
  <2>6. Unbooked(i)
    BY <1>3, <1>4, <2>2, <2>4, Unreserved
  <2>7. Lives' /\ Booked'
    BY <1>1, <1>2, <1>3, <1>4, <1>5, <2>2, <2>4, <2>5, <2>6, SlotStep
  <2>8. Closes'
    <3> SUFFICES ASSUME fc # None PROVE Closes'
      BY <1>1 DEF Closes
    <3>1. fc.i \in Indices
      BY DEF SocketType, Closings
    <3>2. CASE fc.i = i
      BY <1>1, <2>3, <2>4, <3>2 DEF Closes
    <3>3. CASE fc.i # i
      BY <1>1, <2>2, <2>4, <3>1, <3>3 DEF Closes, Others
    <3> QED BY <3>2, <3>3
  <2>9. Known'
    BY <1>1, <2>4 DEF Known
  <2> QED BY <1>1, <1>3, <2>4, <2>7, <2>8, <2>9 DEF LifeInv, NothingAfterClose
<1> QED BY <1>2, <1>6, <1>7

LEMMA NextLife ==
    ASSUME SocketType, LifeInv, [Next]_vars
    PROVE  LifeInv'
<1>1. CASE UNCHANGED vars
  <2>1. UNCHANGED <<slot, allocId, pipe, fc, cl, held, opened, closed, late, stale, crashed>>
    BY <1>1 DEF vars, sockVars, pollVars, tellVars
  <2> QED BY <2>1 DEF LifeInv, Known, Mailing, Lives, Life, Booked, Reserves, Opens, Closes,
                      NothingAfterClose, Running
<1>2. CASE Next
  BY <1>2, LifeBooking, LifePublish, LifeCalls, LifeWrite, LifeOpening, LifeCommands, LifePackage,
     LifeRest, LifeFinish, LifeEvents, LifeCalm, LifeAccept DEF Next
<1> QED BY <1>1, <1>2

(* SOCKET_CLOSE is the last that a service hears of a socket, for any      *)
(* number of slots, services, ids and calls.                               *)
THEOREM ClosedIsFinal == Spec => []NothingAfterClose
<1>1. Init => SocketType /\ LifeInv
  BY InitType, InitLife
<1>2. SocketType /\ LifeInv /\ [Next]_vars => (SocketType /\ LifeInv)'
  BY NextType, NextLife DEF LifeInv, Known
<1>3. SocketType /\ LifeInv => NothingAfterClose
  BY DEF LifeInv
<1> QED BY <1>1, <1>2, <1>3, PTL DEF Spec
=============================================================================
