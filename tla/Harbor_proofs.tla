---------------------------- MODULE Harbor_proofs ---------------------------
(***************************************************************************)
(* Theorems about the harbor services, for every set of nodes and for all  *)
(* bounds: a message arrives where it was sent to and in the order of      *)
(* sending, and none is left where nobody will look for it.                *)
(***************************************************************************)
EXTENDS Harbor, FiniteSetTheorems, SequenceTheorems, TLAPS

Msgs       == [k : Nat, from : Nodes, to : Nodes, named : BOOLEAN, waited : BOOLEAN,
               big : BOOLEAN]
Frames     == [m : Msgs, handle : BOOLEAN]
Handshakes == [id : Nodes]
Remotes    == [fd : 0 .. MaxConn, status : Statuses, queue : Seq(Frames)]
Links      == [from : Nodes, for : Nodes, to : Nodes, up : BOOLEAN]

Elems(s) == {s[k] : k \in DOMAIN s}

(* The type of every variable.  A stream carries ids and frames.           *)
HarborType ==
    /\ remote \in [Nodes -> [Nodes -> Remotes]]
    /\ name \in [Nodes -> [known : BOOLEAN, queue : Seq(Frames)]]
    /\ conn \in Seq(Links) /\ Len(conn) <= MaxConn
    /\ stream \in [Conns -> [Nodes -> Seq(Frames \cup Handshakes)]]
    /\ got \in [Nodes -> Seq(Frames)]
    /\ sent \subseteq Msgs /\ IsFiniteSet(sent)
    /\ errors \subseteq sent /\ moved \subseteq sent /\ early \subseteq sent

LEMMA HarborFacts ==
    /\ Nodes \subseteq Nat /\ \A n \in Nodes : n \in Nat /\ n # 0
    /\ Owner \in Nodes /\ Senders \subseteq Nodes
    /\ MaxConn \in Nat /\ MaxSend \in Nat
BY HarborAssumption

(* A frame is not a handshake.                                             *)
LEMMA FrameOrHandshake == \A n : Handshake(n) \notin Frames
<1> SUFFICES ASSUME NEW n, Handshake(n) \in Frames PROVE FALSE
  OBVIOUS
<1>1. DOMAIN Handshake(n) = {"id"}
  BY DEF Handshake
<1>2. DOMAIN Handshake(n) = {"m", "handle"}
  BY DEF Frames
<1> QED BY <1>1, <1>2

LEMMA HandshakeIsOne == \A n \in Nodes : Handshake(n) \in Handshakes
BY DEF Handshake, Handshakes

LEMMA NeitherBoth == \A f : f \in Handshakes => f \notin Frames
<1> SUFFICES ASSUME NEW f, f \in Handshakes, f \in Frames PROVE FALSE
  OBVIOUS
<1>1. DOMAIN f = {"id"}
  BY DEF Handshakes
<1>2. DOMAIN f = {"m", "handle"}
  BY DEF Frames
<1> QED BY <1>1, <1>2

(* What sequences hold.                                                    *)
LEMMA ElemsEmpty == Elems(<<>>) = {}
BY DEF Elems

LEMMA ElemsAppend ==
    ASSUME NEW S, NEW s \in Seq(S), NEW e \in S
    PROVE  Elems(Append(s, e)) = Elems(s) \cup {e}
<1>1. /\ DOMAIN Append(s, e) = DOMAIN s \cup {Len(s) + 1}
      /\ \A k \in DOMAIN s : Append(s, e)[k] = s[k]
      /\ Append(s, e)[Len(s) + 1] = e
  OBVIOUS
<1> QED BY <1>1 DEF Elems

LEMMA ElemsConcat ==
    ASSUME NEW S, NEW s \in Seq(S), NEW t \in Seq(S)
    PROVE  Elems(s \o t) = Elems(s) \cup Elems(t)
<1>1. /\ Len(s) \in Nat /\ Len(t) \in Nat /\ Len(s \o t) = Len(s) + Len(t)
      /\ DOMAIN s = 1 .. Len(s) /\ DOMAIN t = 1 .. Len(t)
      /\ DOMAIN (s \o t) = 1 .. Len(s) + Len(t)
      /\ \A k \in 1 .. Len(s) + Len(t) :
            (s \o t)[k] = IF k <= Len(s) THEN s[k] ELSE t[k - Len(s)]
  OBVIOUS
<1>2. ASSUME NEW k \in DOMAIN (s \o t) PROVE (s \o t)[k] \in Elems(s) \cup Elems(t)
  BY <1>1 DEF Elems
<1>3. ASSUME NEW k \in DOMAIN s PROVE s[k] \in Elems(s \o t)
  BY <1>1 DEF Elems
<1>4. ASSUME NEW k \in DOMAIN t PROVE t[k] \in Elems(s \o t)
  <2>1. Len(s) + k \in DOMAIN (s \o t) /\ (s \o t)[Len(s) + k] = t[k]
    BY <1>1
  <2> QED BY <2>1 DEF Elems
<1> QED BY <1>2, <1>3, <1>4 DEF Elems

LEMMA ElemsTail ==
    ASSUME NEW S, NEW s \in Seq(S), s # <<>>
    PROVE  /\ Tail(s) \in Seq(S) /\ Head(s) \in Elems(s) /\ Head(s) = s[1]
           /\ \A k \in DOMAIN Tail(s) : k + 1 \in DOMAIN s /\ k + 1 # 1 /\ Tail(s)[k] = s[k + 1]
           /\ Elems(Tail(s)) \subseteq Elems(s)
<1>1. /\ Tail(s) \in Seq(S) /\ Head(s) = s[1] /\ 1 \in DOMAIN s
      /\ \A k \in DOMAIN Tail(s) : k + 1 \in DOMAIN s /\ k + 1 # 1 /\ Tail(s)[k] = s[k + 1]
  OBVIOUS
<1> QED BY <1>1 DEF Elems

-----------------------------------------------------------------------------
(* The protocol of a connection.  The end that opened it greets with its   *)
(* id, and the other end answers with its own before anything else; an end *)
(* that is past the handshake has read the other's id, and what is left to *)
(* read are frames.                                                        *)

Quiet(c, x) == \A k \in DOMAIN stream[c][x] : stream[c][x][k] \in Frames

Greeted(c, x) ==
    \A k \in DOMAIN stream[c][x] :
        stream[c][x][k] \in Handshakes => k = 1 /\ stream[c][x][k] = Handshake(x)

(* How n holds the connection that it has to p.                            *)
Holds(n, p) ==
    LET c == remote[n][p].fd
    IN  /\ c # 0 <=> remote[n][p].status \in {"HANDSHAKE", "HEADER"}
        /\ c # 0 =>
              /\ c \in DOMAIN conn
              /\ \/ conn[c].from = n /\ conn[c].for = p
                 \/ conn[c].to = n /\ conn[c].from = p /\ remote[n][p].status = "HEADER"
        /\ remote[n][p].status = "HEADER" =>
              Other(c, n) = p /\ Quiet(c, conn[c].from) /\ Quiet(c, p)

Stream(c) ==
    /\ conn[c].from # conn[c].to
    /\ \A x \in Nodes : x \notin {conn[c].from, conn[c].to} => stream[c][x] = <<>>
    /\ ~Quiet(c, conn[c].from) => stream[c][conn[c].to] = <<>>

LinkInv ==
    /\ \A n, p \in Nodes : Holds(n, p)
    /\ \A c \in DOMAIN conn : Stream(c)
    /\ \A c \in Conns : c \notin DOMAIN conn => \A x \in Nodes : stream[c][x] = <<>>
    /\ \A c \in Conns, x \in Nodes : Greeted(c, x)

(* What a step without a handshake does to what x wrote to c.              *)
StreamStep(c, x) ==
    \/ stream'[c][x] = stream[c][x]
    \/ stream'[c][x] = <<>>
    \/ /\ \E fs \in Seq(Frames) : stream'[c][x] = stream[c][x] \o fs
       /\ \E p \in Nodes : remote[x][p].fd = c
    \/ stream[c][x] # <<>> /\ stream'[c][x] = Tail(stream[c][x])

LEMMA StreamType ==
    ASSUME HarborType, NEW c \in Conns, NEW x \in Nodes
    PROVE  stream[c][x] \in Seq(Frames \cup Handshakes)
BY DEF HarborType

(* Appending frames.                                                       *)
LEMMA ConcatIndex ==
    ASSUME NEW S, NEW s \in Seq(S), NEW t \in Seq(S), NEW k \in DOMAIN (s \o t)
    PROVE  \/ k \in DOMAIN s /\ (s \o t)[k] = s[k]
           \/ \E j \in DOMAIN t : (s \o t)[k] = t[j] /\ k = Len(s) + j
<1>1. /\ Len(s) \in Nat /\ Len(t) \in Nat /\ k \in 1 .. Len(s) + Len(t)
      /\ DOMAIN s = 1 .. Len(s) /\ DOMAIN t = 1 .. Len(t)
      /\ (s \o t)[k] = IF k <= Len(s) THEN s[k] ELSE t[k - Len(s)]
  OBVIOUS
<1>2. CASE k <= Len(s)
  BY <1>1, <1>2
<1>3. CASE ~(k <= Len(s))
  <2>1. k - Len(s) \in DOMAIN t /\ k = Len(s) + (k - Len(s))
    BY <1>1, <1>3
  <2> QED BY <1>1, <1>3, <2>1
<1> QED BY <1>2, <1>3

LEMMA StreamStepKeeps ==
    ASSUME HarborType, NEW c \in Conns, NEW x \in Nodes, StreamStep(c, x), Greeted(c, x)
    PROVE  /\ Greeted(c, x)'
           /\ Quiet(c, x) => Quiet(c, x)'
           /\ stream[c][x] = <<>> /\ (\A p \in Nodes : remote[x][p].fd # c)
                 => stream'[c][x] = <<>>
           /\ stream[c][x] # <<>> /\ stream'[c][x] = Tail(stream[c][x]) => Quiet(c, x)'
<1> DEFINE s == stream[c][x]
           t == stream'[c][x]
<1>1. s \in Seq(Frames \cup Handshakes)
  BY StreamType
<1>2. ASSUME t = s PROVE Greeted(c, x)' /\ (Quiet(c, x) => Quiet(c, x)')
  BY <1>2 DEF Greeted, Quiet
<1>3. ASSUME t = <<>> PROVE Greeted(c, x)' /\ Quiet(c, x)'
  BY <1>3 DEF Greeted, Quiet
<1>4. ASSUME NEW fs \in Seq(Frames), t = s \o fs, \E p \in Nodes : remote[x][p].fd = c
      PROVE  /\ Greeted(c, x)'
             /\ Quiet(c, x) => Quiet(c, x)'
             /\ ~(\A p \in Nodes : remote[x][p].fd # c)
  <2>1. fs \in Seq(Frames \cup Handshakes)
    OBVIOUS
  <2>2. \A k \in DOMAIN t : (k \in DOMAIN s /\ t[k] = s[k]) \/ t[k] \in Frames
    BY <1>1, <1>4, <2>1, ConcatIndex
  <2> QED BY <1>4, <2>2, NeitherBoth DEF Greeted, Quiet
<1>5. ASSUME s # <<>>, t = Tail(s) PROVE Greeted(c, x)' /\ Quiet(c, x)'
  <2>1. \A k \in DOMAIN t : k + 1 \in DOMAIN s /\ k + 1 # 1 /\ t[k] = s[k + 1]
    BY <1>1, <1>5, ElemsTail
  <2>2. \A k \in DOMAIN s : s[k] \in Frames \cup Handshakes
    BY <1>1
  <2>3. \A k \in DOMAIN t : t[k] \in Frames
    BY <2>1, <2>2 DEF Greeted
  <2> QED BY <1>5, <2>3, NeitherBoth DEF Greeted, Quiet
<1>6. Greeted(c, x)' /\ (Quiet(c, x) => Quiet(c, x)')
  BY <1>2, <1>3, <1>4, <1>5 DEF StreamStep
<1>7. s = <<>> /\ (\A p \in Nodes : remote[x][p].fd # c) => t = <<>>
  BY DEF StreamStep
<1>8. s # <<>> /\ t = Tail(s) => Quiet(c, x)'
  BY <1>5
<1> QED BY <1>6, <1>7, <1>8

(* A step that opens nothing and writes no greeting.                       *)
LEMMA LinkKept ==
    ASSUME HarborType, LinkInv,
           \A c \in Conns, x \in Nodes : StreamStep(c, x),
           DOMAIN conn' = DOMAIN conn,
           \A c \in DOMAIN conn : /\ conn'[c].from = conn[c].from
                                  /\ conn'[c].for = conn[c].for /\ conn'[c].to = conn[c].to,
           \A n, p \in Nodes :
              \/ /\ remote'[n][p].fd = remote[n][p].fd
                 /\ remote'[n][p].status = remote[n][p].status
              \/ remote'[n][p].fd = 0 /\ remote'[n][p].status = "DOWN"
              \/ Holds(n, p)'
    PROVE  LinkInv'
<1>1. DOMAIN conn \subseteq Conns
  BY HarborFacts DEF HarborType, Conns
<1>2. \A c \in Conns, x \in Nodes :
         /\ Greeted(c, x)'
         /\ Quiet(c, x) => Quiet(c, x)'
         /\ stream[c][x] = <<>> /\ (\A p \in Nodes : remote[x][p].fd # c)
               => stream'[c][x] = <<>>
  BY StreamStepKeeps DEF LinkInv
<1>3. ASSUME NEW c \in DOMAIN conn
      PROVE  conn[c].from \in Nodes /\ conn[c].to \in Nodes /\ conn[c] \in Links
  <2>1. conn[c] \in Links
    BY DEF HarborType
  <2> QED BY <2>1 DEF Links
<1>4. ASSUME NEW n \in Nodes, NEW p \in Nodes PROVE Holds(n, p)'
  <2>1. CASE remote'[n][p].fd = 0 /\ remote'[n][p].status = "DOWN"
    BY <2>1 DEF Holds
  <2>2. CASE /\ remote'[n][p].fd = remote[n][p].fd
             /\ remote'[n][p].status = remote[n][p].status
    <3>0. PICK c \in 0 .. MaxConn : c = remote[n][p].fd
      BY DEF HarborType, Remotes
    <3>1. Holds(n, p)
      BY DEF LinkInv
    <3>2. CASE c = 0
      BY <2>2, <3>0, <3>1, <3>2 DEF Holds
    <3>3. CASE c # 0
      <4>1. c \in DOMAIN conn /\ c \in Conns /\ conn[c].from \in Nodes
        BY <1>1, <1>3, <3>0, <3>1, <3>3 DEF Holds
      <4>2. Other(c, n)' = Other(c, n)
        BY <4>1 DEF Other
      <4>3. Quiet(c, conn[c].from) => Quiet(c, conn[c].from)'
        <5>1. PICK x \in Nodes : x = conn[c].from /\ x = conn'[c].from
          BY <4>1
        <5>2. Quiet(c, x) => Quiet(c, x)'
          BY <1>2, <4>1
        <5> QED BY <5>1, <5>2 DEF Quiet
      <4>4. Quiet(c, p) => Quiet(c, p)'
        BY <1>2, <4>1
      <4>5. /\ c # 0 <=> remote'[n][p].status \in {"HANDSHAKE", "HEADER"}
            /\ c \in DOMAIN conn'
            /\ \/ conn'[c].from = n /\ conn'[c].for = p
               \/ conn'[c].to = n /\ conn'[c].from = p /\ remote'[n][p].status = "HEADER"
        BY <2>2, <3>0, <3>1, <3>3, <4>1 DEF Holds
      <4>6. ASSUME remote'[n][p].status = "HEADER"
            PROVE  Other(c, n)' = p /\ Quiet(c, conn[c].from)' /\ Quiet(c, p)'
        <5>1. Other(c, n) = p /\ Quiet(c, conn[c].from) /\ Quiet(c, p)
          BY <2>2, <3>0, <3>1, <4>6 DEF Holds
        <5> QED BY <5>1, <4>2, <4>3, <4>4
      <4> QED BY <2>2, <3>0, <4>5, <4>6 DEF Holds
    <3> QED BY <3>2, <3>3
  <2> QED BY <2>1, <2>2
<1>5. ASSUME NEW c \in DOMAIN conn PROVE Stream(c)'
  <2>1. Stream(c) /\ c \in Conns
    BY <1>1 DEF LinkInv
  <2>2. \A x \in Nodes : x \notin {conn[c].from, conn[c].to} => stream'[c][x] = <<>>
    <3> SUFFICES ASSUME NEW x \in Nodes, x \notin {conn[c].from, conn[c].to}
                 PROVE  stream'[c][x] = <<>>
      OBVIOUS
    <3>1. stream[c][x] = <<>>
      BY <2>1 DEF Stream
    <3>2. \A p \in Nodes : remote[x][p].fd # c
      BY <2>1, HarborFacts DEF LinkInv, Holds, Conns
    <3> QED BY <1>2, <2>1, <3>1, <3>2
  <2>3. ASSUME ~Quiet(c, conn[c].from)' PROVE stream'[c][conn[c].to] = <<>>
    <3>1. ~Quiet(c, conn[c].from)
      BY <1>2, <1>3, <2>1, <2>3 DEF Quiet
    <3>2. stream[c][conn[c].to] = <<>>
      BY <2>1, <3>1 DEF Stream
    <3>3. \A p \in Nodes : remote[conn[c].to][p].fd # c
      <4> SUFFICES ASSUME NEW p \in Nodes, remote[conn[c].to][p].fd = c PROVE FALSE
        OBVIOUS
      <4>1. conn[c].to \in Nodes /\ c # 0 /\ conn[c].from # conn[c].to
        BY <1>3, <2>1, HarborFacts DEF Stream, Conns
      <4>2. Holds(conn[c].to, p)
        BY <4>1 DEF LinkInv
      <4> QED BY <3>1, <4>1, <4>2 DEF Holds
    <3> QED BY <1>2, <1>3, <2>1, <3>2, <3>3
  <2> QED BY <2>1, <2>2, <2>3 DEF Stream, Quiet
<1>6. ASSUME NEW c \in Conns, c \notin DOMAIN conn, NEW x \in Nodes
      PROVE  stream'[c][x] = <<>>
  <2>1. stream[c][x] = <<>>
    BY <1>6 DEF LinkInv
  <2>2. \A p \in Nodes : remote[x][p].fd # c
    BY <1>6, HarborFacts DEF LinkInv, Holds, Conns
  <2> QED BY <1>2, <2>1, <2>2
<1> QED BY <1>2, <1>4, <1>5, <1>6 DEF LinkInv

-----------------------------------------------------------------------------
(* Frames.  A frame that has left the queue of its name has the handle     *)
(* unless it went through the queue of a harbor; a message in the queue of *)
(* its name is nowhere else, because every message is new.                 *)

Holding(s, m) == \E f \in Elems(s) : f \in Frames /\ f.m = m

Good(f) ==
    /\ f.m \in sent /\ (f.handle <=> f.m \notin moved)
    /\ \A i \in Nodes : \A e \in Elems(name[i].queue) : e.m # f.m

Numbered == \A m \in sent : m.k <= Cardinality(sent)

NameInv ==
    \A n \in Nodes : \A f \in Elems(name[n].queue) :
        ~f.handle /\ f.m \in sent /\ f.m.from = n /\ f.m.to = Owner /\ f.m \notin moved

QueueInv == \A n, p \in Nodes : \A f \in Elems(remote[n][p].queue) : Good(f) /\ f.m.to = p

StreamInv ==
    \A c \in Conns, x \in Nodes : \A f \in Elems(stream[c][x]) :
        f \in Frames => Good(f) /\ (f.m.to = Other(c, x) \/ f.m \in early)

GotInv == \A n \in Nodes : \A f \in Elems(got[n]) : Good(f) /\ (f.m.to = n \/ f.m \in early)

FrameInv == Numbered /\ NameInv /\ QueueInv /\ StreamInv /\ GotInv

(* Frames come from where they were, or are good ones.                     *)
LEMMA FrameStep ==
    ASSUME HarborType, FrameInv, Numbered', NameInv',
           \A f \in Frames : Good(f) => Good(f)',
           early \subseteq early',
           HarborType',
           \A n, p \in Nodes : \A f \in Elems(remote'[n][p].queue) :
              f \in Elems(remote[n][p].queue) \/ (Good(f)' /\ f.m.to = p),
           \A c \in Conns, x \in Nodes : \A f \in Elems(stream'[c][x]) :
              \/ f \notin Frames
              \/ f \in Elems(stream[c][x]) /\ Other(c, x)' = Other(c, x)
              \/ Good(f)' /\ (f.m.to = Other(c, x)' \/ f.m \in early'),
           \A n \in Nodes : \A f \in Elems(got'[n]) :
              f \in Elems(got[n]) \/ (Good(f)' /\ (f.m.to = n \/ f.m \in early'))
    PROVE  FrameInv'
<1>1. QueueInv'
  <2> SUFFICES ASSUME NEW n \in Nodes, NEW p \in Nodes, NEW f \in Elems(remote'[n][p].queue)
               PROVE  Good(f)' /\ f.m.to = p
    BY DEF QueueInv
  <2>1. remote'[n][p].queue \in Seq(Frames)
    BY DEF HarborType, Remotes
  <2>2. f \in Frames
    BY <2>1 DEF Elems
  <2> QED BY <2>2 DEF FrameInv, QueueInv
<1>2. StreamInv'
  BY DEF FrameInv, StreamInv
<1>3. GotInv'
  <2> SUFFICES ASSUME NEW n \in Nodes, NEW f \in Elems(got'[n])
               PROVE  Good(f)' /\ (f.m.to = n \/ f.m \in early')
    BY DEF GotInv
  <2>1. got'[n] \in Seq(Frames)
    BY DEF HarborType
  <2>2. f \in Frames
    BY <2>1 DEF Elems
  <2> QED BY <2>2 DEF FrameInv, GotInv
<1> QED BY <1>1, <1>2, <1>3 DEF FrameInv

-----------------------------------------------------------------------------
(* Nothing is stranded.                                                    *)

(* A harbor is given up only after a failure.                              *)
Down == \A n, p \in Nodes : remote[n][p].status = "DOWN" => Failed(n, p)

Arrived(m) == \E i \in Nodes : Holding(got[i], m)

(* A message is delivered, waits, is under way, or its link has failed.    *)
Safe(m) ==
    LET s == remote[m.from][m.to]
    IN  \/ Failed(m.from, m.to)
        \/ Arrived(m)
        \/ ~name[m.from].known /\ Holding(name[m.from].queue, m)
        \/ (s.fd = 0 \/ s.status = "HANDSHAKE") /\ Holding(s.queue, m)
        \/ s.fd # 0 /\ Holding(stream[s.fd][m.from], m)

SafeInv == Down /\ \A m \in sent : Safe(m)

(* The inductive invariant.                                                *)
HInv == HarborType /\ LinkInv /\ FrameInv /\ SafeInv

(* Failures are not forgotten.                                             *)
LEMMA FailedKept ==
    ASSUME NEW n, NEW p, Failed(n, p), DOMAIN conn \subseteq DOMAIN conn',
           \A c \in DOMAIN conn : /\ conn'[c].from = conn[c].from
                                  /\ conn'[c].for = conn[c].for /\ conn'[c].to = conn[c].to
                                  /\ conn'[c].up => conn[c].up
    PROVE  Failed(n, p)'
<1>1. PICK c \in DOMAIN conn :
        /\ ~conn[c].up
        /\ \/ conn[c].from = n /\ p \in {conn[c].for, conn[c].to}
           \/ conn[c].to = n /\ conn[c].from = p
  BY DEF Failed
<1>2. c \in DOMAIN conn' /\ ~conn'[c].up
  BY <1>1
<1> QED BY <1>1, <1>2 DEF Failed

(* A connection that is down has failed its ends.                          *)
LEMMA HeldFails ==
    ASSUME NEW n \in Nodes, NEW p \in Nodes, Holds(n, p), remote[n][p].fd # 0,
           ~conn[remote[n][p].fd].up
    PROVE  Failed(n, p)
BY DEF Holds, Failed

(* A safe message stays safe where nothing is taken from its places.       *)
LEMMA SafeKept ==
    ASSUME NEW m, Safe(m),
           Failed(m.from, m.to) => Failed(m.from, m.to)',
           Arrived(m) => Arrived(m)',
           name'[m.from].known => name[m.from].known,
           Holding(name[m.from].queue, m) => Holding(name'[m.from].queue, m),
           remote'[m.from][m.to].fd = remote[m.from][m.to].fd,
           remote'[m.from][m.to].status = remote[m.from][m.to].status,
           Holding(remote[m.from][m.to].queue, m) => Holding(remote'[m.from][m.to].queue, m),
           remote[m.from][m.to].fd # 0
              /\ Holding(stream[remote[m.from][m.to].fd][m.from], m)
              => Holding(stream'[remote[m.from][m.to].fd][m.from], m)
    PROVE  Safe(m)'
BY DEF Safe

-----------------------------------------------------------------------------
(* A message that is new.                                                  *)
LEMMA NewMessage ==
    ASSUME HarborType, Numbered, NEW n \in Nodes, NEW p \in Nodes,
           NEW named \in BOOLEAN, NEW m \in New(n, p, named), sent' = sent \cup {m}
    PROVE  /\ m \in Msgs /\ m \notin sent /\ m.from = n /\ m.to = p
           /\ sent' \subseteq Msgs /\ IsFiniteSet(sent') /\ Numbered'
<1>1. IsFiniteSet(sent) /\ Cardinality(sent) \in Nat
  BY FS_CardinalityType DEF HarborType
<1>2. /\ m.k = Cardinality(sent) + 1 /\ m.from = n /\ m.to = p
      /\ m.named = named /\ m.waited \in BOOLEAN /\ m.big \in BOOLEAN
      /\ m = [k |-> m.k, from |-> n, to |-> p, named |-> named, waited |-> m.waited,
              big |-> m.big]
  <2>1. PICK w \in BOOLEAN : w = (named /\ ~name[n].known)
    OBVIOUS
  <2>2. PICK big \in BOOLEAN :
           m = [k |-> Cardinality(sent) + 1, from |-> n, to |-> p, named |-> named,
                waited |-> w, big |-> big]
    BY <2>1 DEF New
  <2> QED BY ONLY <2>2
<1>3. m \in Msgs
  BY <1>1, <1>2 DEF Msgs
<1>4. \A o \in sent : o.k \in Nat /\ o.k <= Cardinality(sent)
  BY DEF HarborType, Numbered, Msgs
<1>5. m \notin sent
  BY <1>1, <1>2, <1>4
<1>6. IsFiniteSet(sent') /\ Cardinality(sent') = Cardinality(sent) + 1
  BY <1>1, <1>5, FS_AddElement
<1>7. \A o \in sent' : o.k <= Cardinality(sent')
  BY <1>1, <1>2, <1>4, <1>6
<1> QED BY <1>2, <1>3, <1>5, <1>6, <1>7 DEF HarborType, Numbered

LEMMA FrameType ==
    ASSUME NEW m \in Msgs, NEW b \in BOOLEAN
    PROVE  Frame(m, b) \in Frames /\ Frame(m, b).m = m /\ Frame(m, b).handle = b
BY DEF Frame, Frames

(* What is good stays good when a new message is sent, and a frame of the  *)
(* new one is good unless it waits for a name.                             *)
LEMMA GoodSent ==
    ASSUME FrameInv, HarborType, NEW m \in Msgs, m \notin sent, sent' = sent \cup {m},
           UNCHANGED <<name, moved>>
    PROVE  /\ \A f \in Frames : Good(f) => Good(f)'
           /\ Good(Frame(m, TRUE))'
           /\ NameInv'
<1>1. \A i \in Nodes : \A e \in Elems(name[i].queue) : e.m \in sent
  BY DEF FrameInv, NameInv
<1>2. m \notin moved
  BY DEF HarborType
<1>3. ASSUME NEW f \in Frames, Good(f) PROVE Good(f)'
  <2>1. f.m \in sent' /\ \A i \in Nodes : \A e \in Elems(name'[i].queue) : e.m # f.m
    BY <1>3 DEF Good
  <2>2. f.handle <=> f.m \notin moved'
    BY <1>3, Zenon DEF Good
  <2> QED BY <2>1, <2>2, Zenon DEF Good
<1>4. Good(Frame(m, TRUE))'
  <2>1. Frame(m, TRUE).m = m /\ Frame(m, TRUE).handle
    BY FrameType
  <2>2. \A i \in Nodes : \A e \in Elems(name'[i].queue) : e.m # m
    BY <1>1
  <2>3. m \in sent' /\ m \notin moved'
    BY <1>2
  <2> QED BY <2>1, <2>2, <2>3, Zenon DEF Good
<1>5. NameInv'
  BY DEF FrameInv, NameInv
<1> QED BY <1>3, <1>4, <1>5

(* The pieces of HarborType.                                               *)
LEMMA RemoteType ==
    ASSUME HarborType, NEW n \in Nodes, NEW p \in Nodes
    PROVE  /\ remote[n][p] \in Remotes /\ remote[n][p].queue \in Seq(Frames)
           /\ remote[n][p].fd \in 0 .. MaxConn /\ remote[n][p].status \in Statuses
BY DEF HarborType, Remotes

LEMMA FdType ==
    ASSUME HarborType, NEW n \in Nodes, NEW p \in Nodes, remote[n][p].fd # 0
    PROVE  remote[n][p].fd \in Conns
BY RemoteType, HarborFacts DEF Conns

(* Changing what n keeps of p.                                             *)
SetRemote(n, p, r) == [remote EXCEPT ![n][p] = r]

LEMMA RemoteUpdate ==
    ASSUME HarborType, NEW n \in Nodes, NEW p \in Nodes, NEW r \in Remotes,
           remote' = SetRemote(n, p, r)
    PROVE  /\ remote' \in [Nodes -> [Nodes -> Remotes]]
           /\ remote'[n][p] = r
           /\ \A a, b \in Nodes : ~(a = n /\ b = p) => remote'[a][b] = remote[a][b]
BY DEF HarborType, SetRemote

LEMMA QueueRecord ==
    ASSUME HarborType, NEW n \in Nodes, NEW p \in Nodes, NEW q \in Seq(Frames),
           NEW r, r = [remote[n][p] EXCEPT !.queue = q]
    PROVE  /\ r \in Remotes
           /\ r.fd = remote[n][p].fd /\ r.status = remote[n][p].status /\ r.queue = q
BY RemoteType DEF Remotes

(* Node x writes frames to c.                                              *)
LEMMA StreamUpdate ==
    ASSUME HarborType, NEW c \in Conns, NEW x \in Nodes, NEW fs \in Seq(Frames),
           stream' = send_remote(x, c, fs)
    PROVE  /\ stream' \in [Conns -> [Nodes -> Seq(Frames \cup Handshakes)]]
           /\ \A d \in Conns, y \in Nodes :
                 stream'[d][y] = IF d = c /\ y = x /\ conn[c].up THEN stream[d][y] \o fs
                                                                 ELSE stream[d][y]
<1>1. stream[c][x] \o fs \in Seq(Frames \cup Handshakes)
  BY StreamType
<1> QED BY <1>1 DEF send_remote, HarborType

LEMMA HoldingAppend ==
    ASSUME NEW s \in Seq(Frames), NEW m \in Msgs, NEW b \in BOOLEAN
    PROVE  /\ Append(s, Frame(m, b)) \in Seq(Frames)
           /\ Elems(Append(s, Frame(m, b))) = Elems(s) \cup {Frame(m, b)}
           /\ Holding(Append(s, Frame(m, b)), m)
           /\ \A o : Holding(s, o) => Holding(Append(s, Frame(m, b)), o)
BY FrameType, ElemsAppend DEF Holding

LEMMA HoldingConcat ==
    ASSUME NEW s \in Seq(Frames \cup Handshakes), NEW fs \in Seq(Frames)
    PROVE  /\ s \o fs \in Seq(Frames \cup Handshakes)
           /\ Elems(s \o fs) = Elems(s) \cup Elems(fs)
           /\ \A o : Holding(s, o) \/ Holding(fs, o) => Holding(s \o fs, o)
<1>1. fs \in Seq(Frames \cup Handshakes)
  OBVIOUS
<1> QED BY <1>1, ElemsConcat DEF Holding

LEMMA SingleFrame ==
    ASSUME NEW f \in Frames
    PROVE  <<f>> \in Seq(Frames) /\ Elems(<<f>>) = {f} /\ Holding(<<f>>, f.m)
<1>1. <<f>> \in Seq(Frames) /\ DOMAIN <<f>> = {1} /\ <<f>>[1] = f
  OBVIOUS
<1>2. Elems(<<f>>) = {f}
  BY <1>1 DEF Elems
<1> QED BY <1>1, <1>2 DEF Holding

(* remote_send_handle of a new message.                                    *)
LEMMA SendInv ==
    ASSUME HInv, NEW n \in Nodes, NEW p \in Nodes, NEW m \in Msgs, m \notin sent,
           m.from = n, m.to = p, sent' = sent \cup {m},
           sent' \subseteq Msgs, IsFiniteSet(sent'), Numbered',
           remote_send_handle(n, p, m), UNCHANGED <<name, conn, moved, early>>
    PROVE  HInv'
<1> DEFINE s == remote[n][p]
<1>0. HarborType /\ LinkInv /\ FrameInv /\ SafeInv
  BY DEF HInv
<1>1. /\ NameInv' /\ \A f \in Frames : Good(f) => Good(f)'
      /\ Good(Frame(m, TRUE))' /\ Frame(m, TRUE) \in Frames /\ Frame(m, TRUE).m = m
  BY <1>0, GoodSent, FrameType
<1>2. \A a, b : Failed(a, b) => Failed(a, b)'
  BY DEF Failed
<1>3. \A c, x : Other(c, x)' = Other(c, x)
  BY DEF Other
<1>4. \A o \in sent : o.from \in Nodes /\ o.to \in Nodes /\ Safe(o)
  BY <1>0 DEF HarborType, Msgs, SafeInv
<1>5. ASSUME p = n, got' = [got EXCEPT ![n] = Append(@, Frame(m, TRUE))],
             UNCHANGED <<remote, stream, errors>>
      PROVE  HInv'
  <2>1. /\ got[n] \in Seq(Frames)
        /\ \A i \in Nodes : got'[i] = IF i = n THEN Append(got[n], Frame(m, TRUE)) ELSE got[i]
    BY <1>0, <1>5 DEF HarborType
  <2>2. /\ got'[n] \in Seq(Frames) /\ Elems(got'[n]) = Elems(got[n]) \cup {Frame(m, TRUE)}
        /\ Holding(got'[n], m) /\ \A o : Holding(got[n], o) => Holding(got'[n], o)
    <3>1. PICK g : g = Append(got[n], Frame(m, TRUE))
      OBVIOUS
    <3>2. /\ g \in Seq(Frames) /\ Elems(g) = Elems(got[n]) \cup {Frame(m, TRUE)}
          /\ Holding(g, m) /\ \A o : Holding(got[n], o) => Holding(g, o)
      BY <2>1, <3>1, HoldingAppend
    <3>3. got'[n] = g
      BY <2>1, <3>1
    <3> QED BY <3>2, <3>3
  <2>3. HarborType'
    <3>1. got' \in [Nodes -> Seq(Frames)]
      BY <1>0, <1>5, <2>1, <2>2 DEF HarborType
    <3> QED BY <1>0, <1>5, <3>1 DEF HarborType
  <2>4. LinkInv'
    BY <1>0, <1>5, LinkKept DEF StreamStep
  <2>5. FrameInv'
    BY <1>0, <1>1, <1>3, <1>5, <2>1, <2>2, <2>3, FrameStep
  <2>6. SafeInv'
    <3>1. \A o : Arrived(o) => Arrived(o)'
      BY <2>1, <2>2 DEF Arrived
    <3>2. \A o \in sent : Safe(o)'
      BY <1>2, <1>4, <1>5, <3>1, SafeKept
    <3>3. Safe(m)'
      BY <2>2 DEF Safe, Arrived
    <3> QED BY <1>0, <1>2, <1>5, <3>2, <3>3 DEF SafeInv, Down
  <2> QED BY <2>3, <2>4, <2>5, <2>6 DEF HInv
<1>6. ASSUME s.status = "DOWN", errors' = errors \cup {m}, UNCHANGED <<remote, stream, got>>
      PROVE  HInv'
  <2>1. HarborType'
    BY <1>0, <1>6 DEF HarborType
  <2>2. LinkInv'
    BY <1>0, <1>6, LinkKept DEF StreamStep
  <2>3. FrameInv'
    BY <1>0, <1>1, <1>3, <1>6, <2>1, FrameStep
  <2>4. SafeInv'
    <3>1. \A o : Arrived(o) => Arrived(o)'
      BY <1>6 DEF Arrived
    <3>2. \A o \in sent : Safe(o)'
      BY <1>2, <1>4, <1>6, <3>1, SafeKept
    <3>3. Safe(m)'
      BY <1>0, <1>2, <1>6 DEF SafeInv, Down, Safe
    <3> QED BY <1>0, <1>2, <1>6, <3>2, <3>3 DEF SafeInv, Down
  <2> QED BY <2>1, <2>2, <2>3, <2>4 DEF HInv
<1>7. ASSUME Waiting(s), UNCHANGED <<stream, got, errors>>,
             remote' = [remote EXCEPT ![n][p].queue = push_queue(@, Frame(m, TRUE))]
      PROVE  HInv'
  <2>1. PICK q : q = Append(remote[n][p].queue, Frame(m, TRUE))
    OBVIOUS
  <2>2. /\ q \in Seq(Frames) /\ Elems(q) = Elems(remote[n][p].queue) \cup {Frame(m, TRUE)}
        /\ Holding(q, m) /\ \A o : Holding(remote[n][p].queue, o) => Holding(q, o)
    BY <1>0, <2>1, RemoteType, HoldingAppend
  <2>3. /\ remote' \in [Nodes -> [Nodes -> Remotes]]
        /\ \A a, b \in Nodes :
              /\ remote'[a][b].fd = remote[a][b].fd
              /\ remote'[a][b].status = remote[a][b].status
              /\ remote'[a][b].queue = IF a = n /\ b = p THEN q ELSE remote[a][b].queue
    <3>1. PICK r : r = [remote[n][p] EXCEPT !.queue = q]
      OBVIOUS
    <3>2. /\ r \in Remotes /\ r.fd = remote[n][p].fd
          /\ r.status = remote[n][p].status /\ r.queue = q
      BY <1>0, <2>2, <3>1, QueueRecord
    <3>3. remote' = SetRemote(n, p, r)
      BY <1>7, <2>1, <3>1 DEF SetRemote, push_queue
    <3> QED BY <1>0, <3>2, <3>3, RemoteUpdate
  <2>4. HarborType'
    BY <1>0, <1>7, <2>3 DEF HarborType
  <2>5. LinkInv'
    BY <1>0, <1>7, <2>3, LinkKept DEF StreamStep
  <2>6. FrameInv'
    <3>1. \A a, b \in Nodes : \A f \in Elems(remote'[a][b].queue) :
             f \in Elems(remote[a][b].queue) \/ (Good(f)' /\ f.m.to = b)
      <4> SUFFICES ASSUME NEW a \in Nodes, NEW b \in Nodes,
                          NEW f \in Elems(remote'[a][b].queue)
                   PROVE  f \in Elems(remote[a][b].queue) \/ (Good(f)' /\ f.m.to = b)
        OBVIOUS
      <4>1. CASE a = n /\ b = p
        <5>1. f \in Elems(remote[n][p].queue) \cup {Frame(m, TRUE)}
          BY <2>2, <2>3, <4>1
        <5>2. f = Frame(m, TRUE) => Good(f)' /\ f.m = m
          BY <1>1
        <5> QED BY <4>1, <5>1, <5>2
      <4>2. CASE ~(a = n /\ b = p)
        BY <2>3, <4>2
      <4> QED BY <4>1, <4>2
    <3> QED BY <1>0, <1>1, <1>3, <1>7, <2>4, <3>1, FrameStep
  <2>7. SafeInv'
    <3>1. \A o : Arrived(o) => Arrived(o)'
      BY <1>7 DEF Arrived
    <3>2. ASSUME NEW o \in sent PROVE Safe(o)'
      <4>1. Holding(remote[o.from][o.to].queue, o) => Holding(remote'[o.from][o.to].queue, o)
        <5>1. CASE o.from = n /\ o.to = p
          <6>1. remote'[o.from][o.to].queue = q
            BY <2>3, <5>1
          <6> QED BY <2>2, <5>1, <6>1
        <5>2. CASE ~(o.from = n /\ o.to = p)
          <6>1. remote'[o.from][o.to].queue = remote[o.from][o.to].queue
            BY <1>4, <2>3, <5>2
          <6> QED BY <6>1
        <5> QED BY <5>1, <5>2
      <4> QED BY <1>2, <1>4, <1>7, <2>3, <3>1, <4>1, SafeKept
    <3>3. Safe(m)'
      <4>1. remote'[n][p].fd = 0 \/ remote'[n][p].status = "HANDSHAKE"
        BY <1>7, <2>3 DEF Waiting
      <4>2. Holding(remote'[n][p].queue, m)
        BY <2>2, <2>3
      <4> QED BY <4>1, <4>2 DEF Safe
    <3>4. Down'
      <4> SUFFICES ASSUME NEW a \in Nodes, NEW b \in Nodes, remote'[a][b].status = "DOWN"
                   PROVE  Failed(a, b)'
        BY DEF Down
      <4>1. remote[a][b].status = "DOWN"
        BY <2>3
      <4> QED BY <1>0, <1>2, <4>1 DEF SafeInv, Down
    <3> QED BY <3>2, <3>3, <3>4 DEF SafeInv
  <2> QED BY <2>4, <2>5, <2>6, <2>7 DEF HInv
<1>8. ASSUME ~Waiting(s), stream' = send_remote(n, s.fd, <<Frame(m, TRUE)>>),
             UNCHANGED <<remote, got, errors>>
      PROVE  HInv'
  <2>1. PICK c \in Conns : c = s.fd
    BY <1>0, <1>8, RemoteType, HarborFacts DEF Waiting, Conns
  <2>2. Holds(n, p) /\ s.status = "HEADER" /\ c # 0
    BY <1>0, <1>8, <2>1 DEF LinkInv, Waiting, Holds
  <2>3. Other(c, n) = p
    BY <2>1, <2>2 DEF Holds
  <2> DEFINE fs == <<Frame(m, TRUE)>>
  <2>4. fs \in Seq(Frames) /\ Elems(fs) = {Frame(m, TRUE)} /\ Holding(fs, m)
    BY <1>1, SingleFrame
  <2> HIDE DEF fs
  <2>5. /\ stream' \in [Conns -> [Nodes -> Seq(Frames \cup Handshakes)]]
        /\ \A d \in Conns, y \in Nodes :
              stream'[d][y] = IF d = c /\ y = n /\ conn[c].up THEN stream[d][y] \o fs
                                                              ELSE stream[d][y]
    <3>1. stream' = send_remote(n, c, fs)
      BY <1>8, <2>1 DEF fs
    <3> QED BY <1>0, <2>4, <3>1, StreamUpdate
  <2>6. /\ Elems(stream[c][n] \o fs) = Elems(stream[c][n]) \cup {Frame(m, TRUE)}
        /\ \A o : Holding(stream[c][n], o) \/ Holding(fs, o) => Holding(stream[c][n] \o fs, o)
    BY <1>0, <2>4, StreamType, HoldingConcat
  <2>7. HarborType'
    BY <1>0, <1>8, <2>5 DEF HarborType
  <2>8. LinkInv'
    <3>1. \A d \in Conns, y \in Nodes : StreamStep(d, y)
      <4> SUFFICES ASSUME NEW d \in Conns, NEW y \in Nodes PROVE StreamStep(d, y)
        OBVIOUS
      <4>1. CASE d = c /\ y = n /\ conn[c].up
        <5>1. stream'[d][y] = stream[d][y] \o fs /\ remote[y][p].fd = d
          BY <2>1, <2>5, <4>1
        <5> QED BY <2>4, <5>1 DEF StreamStep
      <4>2. CASE ~(d = c /\ y = n /\ conn[c].up)
        BY <2>5, <4>2 DEF StreamStep
      <4> QED BY <4>1, <4>2
    <3> QED BY <1>0, <1>8, <3>1, LinkKept
  <2>9. FrameInv'
    <3>1. \A d \in Conns, y \in Nodes : \A f \in Elems(stream'[d][y]) :
             f \in Elems(stream[d][y]) \/ (Good(f)' /\ f.m.to = Other(d, y)')
      <4> SUFFICES ASSUME NEW d \in Conns, NEW y \in Nodes, NEW f \in Elems(stream'[d][y])
                   PROVE  f \in Elems(stream[d][y]) \/ (Good(f)' /\ f.m.to = Other(d, y)')
        OBVIOUS
      <4>1. CASE d = c /\ y = n /\ conn[c].up
        <5>1. f \in Elems(stream[c][n]) \cup {Frame(m, TRUE)}
          BY <2>5, <2>6, <4>1
        <5>2. f = Frame(m, TRUE) => Good(f)' /\ f.m.to = Other(d, y)'
          BY <1>1, <1>3, <2>3, <4>1
        <5> QED BY <4>1, <5>1, <5>2
      <4>2. CASE ~(d = c /\ y = n /\ conn[c].up)
        BY <2>5, <4>2
      <4> QED BY <4>1, <4>2
    <3> QED BY <1>0, <1>1, <1>3, <1>8, <2>7, <3>1, FrameStep
  <2>10. SafeInv'
    <3>1. \A o : Arrived(o) => Arrived(o)'
      BY <1>8 DEF Arrived
    <3>2. ASSUME NEW o \in sent PROVE Safe(o)'
      <4>1. remote[o.from][o.to].fd # 0 => remote[o.from][o.to].fd \in Conns
        BY <1>0, <1>4, FdType
      <4>2. remote[o.from][o.to].fd # 0
              /\ Holding(stream[remote[o.from][o.to].fd][o.from], o)
              => Holding(stream'[remote[o.from][o.to].fd][o.from], o)
        <5>1. \A d \in Conns, y \in Nodes : Holding(stream[d][y], o) => Holding(stream'[d][y], o)
          <6>1. \A d \in Conns, y \in Nodes :
                   stream'[d][y] = stream[d][y]
                   \/ (d = c /\ y = n /\ stream'[d][y] = stream[c][n] \o fs)
            BY <2>5
          <6> QED BY <2>6, <6>1
        <5> QED BY <1>4, <4>1, <5>1
      <4> QED BY <1>2, <1>4, <1>8, <3>1, <4>2, SafeKept
    <3>3. Safe(m)'
      <4>1. CASE conn[c].up
        <5>1. stream'[c][n] = stream[c][n] \o fs
          BY <2>5, <4>1
        <5>2. Holding(stream'[c][n], m)
          BY <2>4, <2>6, <5>1
        <5>3. remote'[n][p].fd = c
          BY <1>8, <2>1
        <5> QED BY <2>2, <5>2, <5>3 DEF Safe
      <4>2. CASE ~conn[c].up
        BY <1>2, <2>1, <2>2, <4>2, HeldFails DEF Safe
      <4> QED BY <4>1, <4>2
    <3> QED BY <1>0, <1>2, <1>8, <3>2, <3>3 DEF SafeInv, Down
  <2> QED BY <2>7, <2>8, <2>9, <2>10 DEF HInv
<1> QED BY <1>5, <1>6, <1>7, <1>8 DEF remote_send_handle

LEMMA SendHandleInv ==
    ASSUME HInv, NEW n \in Nodes, NEW p \in Nodes, SendHandle(n, p)
    PROVE  HInv'
<1>1. PICK m \in New(n, p, FALSE) : sent' = sent \cup {m} /\ remote_send_handle(n, p, m)
  BY DEF SendHandle
<1>2. UNCHANGED <<name, conn, moved, early>>
  BY DEF SendHandle, ghostVars
<1>3. /\ m \in Msgs /\ m \notin sent /\ m.from = n /\ m.to = p
      /\ sent' \subseteq Msgs /\ IsFiniteSet(sent') /\ Numbered'
  BY <1>1, NewMessage DEF HInv, FrameInv
<1> QED BY <1>1, <1>2, <1>3, SendInv

LEMMA SendNameInv ==
    ASSUME HInv, NEW n \in Nodes, SendName(n)
    PROVE  HInv'
<1>1. PICK m \in New(n, Owner, TRUE) :
        /\ sent' = sent \cup {m}
        /\ \/ /\ name[n].known
              /\ remote_send_handle(n, Owner, m)
              /\ UNCHANGED name
           \/ /\ ~name[n].known
              /\ name' = [name EXCEPT ![n].queue = push_queue(@, Frame(m, FALSE))]
              /\ UNCHANGED <<remote, stream, got, errors>>
  BY DEF SendName
<1>2. UNCHANGED <<conn, moved, early>> /\ Owner \in Nodes
  BY HarborFacts DEF SendName, ghostVars
<1>3. /\ m \in Msgs /\ m \notin sent /\ m.from = n /\ m.to = Owner
      /\ sent' \subseteq Msgs /\ IsFiniteSet(sent') /\ Numbered'
  BY <1>1, <1>2, NewMessage DEF HInv, FrameInv
<1>4. CASE name[n].known
  BY <1>1, <1>2, <1>3, <1>4, SendInv
<1>5. CASE ~name[n].known
  <2>0. HarborType /\ LinkInv /\ FrameInv /\ SafeInv
    BY DEF HInv
  <2>1. UNCHANGED <<remote, stream, got, errors>>
    BY <1>1, <1>5
  <2>2. PICK q : q = Append(name[n].queue, Frame(m, FALSE))
    OBVIOUS
  <2>3. name[n].queue \in Seq(Frames) /\ name[n].known \in BOOLEAN
    BY <2>0 DEF HarborType
  <2>4. /\ q \in Seq(Frames) /\ Elems(q) = Elems(name[n].queue) \cup {Frame(m, FALSE)}
        /\ Holding(q, m) /\ \A o : Holding(name[n].queue, o) => Holding(q, o)
    BY <1>3, <2>2, <2>3, HoldingAppend
  <2>5. name' = [name EXCEPT ![n].queue = q]
    BY <1>1, <1>5, <2>2 DEF push_queue
  <2>6. /\ name' \in [Nodes -> [known : BOOLEAN, queue : Seq(Frames)]]
        /\ name'[n].queue = q
        /\ \A i \in Nodes : name'[i].known = name[i].known
        /\ \A i \in Nodes : i # n => name'[i] = name[i]
    BY <2>0, <2>4, <2>5 DEF HarborType
  <2>7. HarborType'
    BY <1>2, <1>3, <2>0, <2>1, <2>6, <1>1 DEF HarborType
  <2>8. LinkInv'
    BY <1>2, <2>0, <2>1, LinkKept DEF StreamStep
  <2>9. /\ Frame(m, FALSE) \in Frames /\ Frame(m, FALSE).m = m /\ ~Frame(m, FALSE).handle
    BY <1>3, FrameType
  <2>10. \A i \in Nodes : \A e \in Elems(name'[i].queue) :
            e \in Elems(name[i].queue) \/ (i = n /\ e = Frame(m, FALSE))
    BY <2>4, <2>6
  <2>11. NameInv'
    <3>1. m \notin moved
      BY <1>3, <2>0 DEF HarborType
    <3> SUFFICES ASSUME NEW i \in Nodes, NEW f \in Elems(name'[i].queue)
                 PROVE  /\ ~f.handle /\ f.m \in sent' /\ f.m.from = i /\ f.m.to = Owner
                        /\ f.m \notin moved'
      BY DEF NameInv
    <3>2. CASE f \in Elems(name[i].queue)
      <4>1. ~f.handle /\ f.m \in sent /\ f.m.from = i /\ f.m.to = Owner /\ f.m \notin moved
        BY <2>0, <3>2 DEF FrameInv, NameInv
      <4> QED BY <1>1, <1>2, <4>1
    <3>3. CASE i = n /\ f = Frame(m, FALSE)
      <4>1. f.m = m /\ ~f.handle
        BY <2>9, <3>3
      <4> QED BY <1>1, <1>2, <1>3, <3>1, <3>3, <4>1
    <3> QED BY <2>10, <3>2, <3>3
  <2>12. ASSUME NEW f \in Frames, Good(f) PROVE Good(f)'
    <3>1. f.m \in sent /\ f.m \in sent' /\ f.m # m
      BY <1>1, <1>3, <2>12 DEF Good
    <3>2. \A i \in Nodes : \A e \in Elems(name'[i].queue) : e.m # f.m
      BY <2>9, <2>10, <2>12, <3>1 DEF Good
    <3>3. f.handle <=> f.m \notin moved'
      BY <1>2, <2>12, Zenon DEF Good
    <3> QED BY <3>1, <3>2, <3>3, Zenon DEF Good
  <2>13. \A c, x : Other(c, x)' = Other(c, x)
    BY <1>2 DEF Other
  <2>14. FrameInv'
    BY <1>2, <1>3, <2>0, <2>1, <2>7, <2>11, <2>12, <2>13, FrameStep
  <2>15. SafeInv'
    <3>1. \A a, b : Failed(a, b) => Failed(a, b)'
      BY <1>2 DEF Failed
    <3>2. \A o : Arrived(o) => Arrived(o)'
      BY <2>1 DEF Arrived
    <3>3. ASSUME NEW o \in sent PROVE Safe(o)'
      <4>1. o.from \in Nodes /\ Safe(o)
        BY <2>0 DEF HarborType, Msgs, SafeInv
      <4>2. /\ name'[o.from].known => name[o.from].known
            /\ Holding(name[o.from].queue, o) => Holding(name'[o.from].queue, o)
        BY <2>4, <2>6, <4>1
      <4> QED BY <2>1, <3>1, <3>2, <4>1, <4>2, SafeKept
    <3>4. Safe(m)'
      BY <1>3, <1>5, <2>4, <2>6 DEF Safe
    <3>5. Down'
      BY <2>0, <2>1, <3>1 DEF SafeInv, Down
    <3> QED BY <1>1, <3>3, <3>4, <3>5 DEF SafeInv
  <2> QED BY <2>7, <2>8, <2>14, <2>15 DEF HInv
<1> QED BY <1>4, <1>5

-----------------------------------------------------------------------------
(* The name becomes known, and its queue is dispatched.                    *)

LEMMA WithHandleFrames ==
    ASSUME NEW q \in Seq(Frames)
    PROVE  /\ WithHandle(q) \in Seq(Frames)
           /\ Elems(WithHandle(q)) = {Frame(f.m, TRUE) : f \in Elems(q)}
           /\ \A o : Holding(q, o) => Holding(WithHandle(q), o)
<1>1. \A k \in DOMAIN q : q[k] \in Frames /\ q[k].m \in Msgs
  <2>1. \A k \in DOMAIN q : q[k] \in Frames
    OBVIOUS
  <2>2. \A f \in Frames : f.m \in Msgs
    BY DEF Frames
  <2> QED BY <2>1, <2>2
<1>2. \A k \in DOMAIN q : Frame(q[k].m, TRUE) \in Frames /\ Frame(q[k].m, TRUE).m = q[k].m
  BY <1>1, FrameType
<1>3. /\ DOMAIN WithHandle(q) = DOMAIN q
      /\ \A k \in DOMAIN q : WithHandle(q)[k] = Frame(q[k].m, TRUE)
  BY DEF WithHandle
<1>4. WithHandle(q) \in Seq(Frames)
  <2>1. Len(q) \in Nat /\ DOMAIN q = 1 .. Len(q)
    OBVIOUS
  <2>2. WithHandle(q) = [k \in 1 .. Len(q) |-> Frame(q[k].m, TRUE)]
    BY <2>1 DEF WithHandle
  <2>3. \A k \in 1 .. Len(q) : Frame(q[k].m, TRUE) \in Frames
    BY <1>2, <2>1
  <2>4. WithHandle(q) \in [1 .. Len(q) -> Frames]
    BY <2>2, <2>3
  <2> QED BY <2>1, <2>4, SeqDef
<1>5. Elems(WithHandle(q)) = {Frame(f.m, TRUE) : f \in Elems(q)}
  BY <1>3 DEF Elems
<1>6. ASSUME NEW o, Holding(q, o) PROVE Holding(WithHandle(q), o)
  <2>1. PICK k \in DOMAIN q : q[k].m = o
    BY <1>6 DEF Holding, Elems
  <2> QED BY <1>2, <1>3, <2>1 DEF Holding, Elems
<1> QED BY <1>4, <1>5, <1>6

(* A safe message stays safe if what takes it from the queue of its name   *)
(* puts it in another safe place.                                          *)
LEMMA SafeMoved ==
    ASSUME NEW m, Safe(m),
           Failed(m.from, m.to) => Failed(m.from, m.to)',
           Arrived(m) => Arrived(m)',
           ~name[m.from].known /\ Holding(name[m.from].queue, m) => Safe(m)',
           remote'[m.from][m.to].fd = remote[m.from][m.to].fd,
           remote'[m.from][m.to].status = remote[m.from][m.to].status,
           Holding(remote[m.from][m.to].queue, m) => Holding(remote'[m.from][m.to].queue, m),
           remote[m.from][m.to].fd # 0
              /\ Holding(stream[remote[m.from][m.to].fd][m.from], m)
              => Holding(stream'[remote[m.from][m.to].fd][m.from], m)
    PROVE  Safe(m)'
BY DEF Safe

(* What update_name does to the frames of the name, and to all others.     *)
LEMMA NameDispatched ==
    ASSUME HarborType, FrameInv, NEW n \in Nodes,
           name' = [name EXCEPT ![n] = [known |-> TRUE, queue |-> <<>>]],
           UNCHANGED <<sent>>,
           moved' = moved \/ moved' = moved \cup Messages(name[n].queue)
    PROVE  /\ name' \in [Nodes -> [known : BOOLEAN, queue : Seq(Frames)]]
           /\ \A i \in Nodes : i # n => name'[i] = name[i]
           /\ moved \subseteq moved' /\ moved' \subseteq sent'
           /\ Numbered' /\ NameInv'
           /\ \A f \in Frames : Good(f) => Good(f)'
           /\ \A f \in Elems(name[n].queue) :
                 /\ f \in Frames /\ f.m \in Msgs /\ f.m.to = Owner /\ f.m.from = n
                 /\ f.m \in sent
                 /\ moved' = moved => Good(Frame(f.m, TRUE))'
                 /\ moved' = moved \cup Messages(name[n].queue) => Good(f)'
<1>1. /\ name' \in [Nodes -> [known : BOOLEAN, queue : Seq(Frames)]]
      /\ \A i \in Nodes : i # n => name'[i] = name[i]
      /\ name'[n].queue = <<>>
  BY DEF HarborType
<1>2. \A i \in Nodes : \A e \in Elems(name'[i].queue) : i # n /\ e \in Elems(name[i].queue)
  BY <1>1, ElemsEmpty
<1>3. Messages(name[n].queue) = {f.m : f \in Elems(name[n].queue)}
  BY DEF Messages, Elems
<1>4. ASSUME NEW f \in Elems(name[n].queue)
      PROVE  /\ f \in Frames /\ f.m \in Msgs /\ f.m.to = Owner /\ f.m.from = n
             /\ f.m \in sent /\ ~f.handle /\ f.m \notin moved
             /\ \A i \in Nodes : \A e \in Elems(name'[i].queue) : e.m # f.m
  <2>1. f \in Frames
    BY DEF HarborType, Elems
  <2>2. f.m.to = Owner /\ f.m.from = n /\ f.m \in sent /\ ~f.handle /\ f.m \notin moved
    BY DEF FrameInv, NameInv
  <2>3. \A i \in Nodes : \A e \in Elems(name'[i].queue) : e.m.from # n
    BY <1>2 DEF FrameInv, NameInv
  <2> QED BY <2>1, <2>2, <2>3 DEF Frames
<1>5. moved \subseteq moved' /\ moved' \subseteq sent'
  BY <1>3, <1>4 DEF HarborType
<1>6. Numbered'
  BY DEF FrameInv, Numbered
<1>7. NameInv'
  <2> SUFFICES ASSUME NEW i \in Nodes, NEW f \in Elems(name'[i].queue)
               PROVE  /\ ~f.handle /\ f.m \in sent' /\ f.m.from = i /\ f.m.to = Owner
                      /\ f.m \notin moved'
    BY DEF NameInv
  <2>1. i # n /\ f \in Elems(name[i].queue)
    BY <1>2
  <2>2. ~f.handle /\ f.m \in sent /\ f.m.from = i /\ f.m.to = Owner /\ f.m \notin moved
    BY <2>1 DEF FrameInv, NameInv
  <2>3. f.m \notin Messages(name[n].queue)
    BY <1>3, <1>4, <2>1, <2>2
  <2> QED BY <2>2, <2>3
<1>8. ASSUME NEW f \in Frames, Good(f) PROVE Good(f)'
  <2>1. f.m \in sent' /\ f.m \notin Messages(name[n].queue)
    BY <1>3, <1>8 DEF Good
  <2>2. \A i \in Nodes : \A e \in Elems(name'[i].queue) : e.m # f.m
    BY <1>2, <1>8 DEF Good
  <2>3. f.m \in moved' <=> f.m \in moved
    BY <2>1
  <2>4. f.handle <=> f.m \notin moved'
    BY <1>8, <2>3, Zenon DEF Good
  <2> QED BY <2>1, <2>2, <2>4, Zenon DEF Good
<1>9. ASSUME NEW f \in Elems(name[n].queue), moved' = moved
      PROVE  Good(Frame(f.m, TRUE))'
  <2>1. Frame(f.m, TRUE).m = f.m /\ Frame(f.m, TRUE).handle
    BY <1>4, FrameType
  <2>2. /\ f.m \in sent' /\ f.m \notin moved'
        /\ \A i \in Nodes : \A e \in Elems(name'[i].queue) : e.m # f.m
    BY <1>4, <1>9
  <2> QED BY <2>1, <2>2, Zenon DEF Good
<1>10. ASSUME NEW f \in Elems(name[n].queue), moved' = moved \cup Messages(name[n].queue)
       PROVE  Good(f)'
  <2>1. /\ f.m \in sent' /\ f.m \in moved' /\ ~f.handle
        /\ \A i \in Nodes : \A e \in Elems(name'[i].queue) : e.m # f.m
    BY <1>3, <1>4, <1>10
  <2> QED BY <2>1, Zenon DEF Good
<1> QED BY <1>1, <1>4, <1>5, <1>6, <1>7, <1>8, <1>9, <1>10


LEMMA UpdateNameInv ==
    ASSUME HInv, NEW n \in Nodes, update_name(n)
    PROVE  HInv'
<1>0. HarborType /\ LinkInv /\ FrameInv /\ SafeInv /\ Owner \in Nodes
  BY HarborFacts DEF HInv
<1>1. /\ name' = [name EXCEPT ![n] = [known |-> TRUE, queue |-> <<>>]]
      /\ UNCHANGED conn /\ UNCHANGED errors /\ UNCHANGED sent
  BY DEF update_name
<1>2. PICK q \in Seq(Frames) : q = name[n].queue
  BY <1>0 DEF HarborType
<1>3. PICK s \in Remotes : s = remote[n][Owner] /\ s.queue \in Seq(Frames)
  BY <1>0, RemoteType
<1>4. \A a, b : Failed(a, b) => Failed(a, b)'
  BY <1>1 DEF Failed
<1>5. \A c, x : Other(c, x)' = Other(c, x)
  BY <1>1 DEF Other
<1>6. \A o \in sent : o.from \in Nodes /\ o.to \in Nodes /\ Safe(o)
  BY <1>0 DEF HarborType, Msgs, SafeInv
<1>7. \A i \in Nodes : i # n => name'[i] = name[i]
  BY <1>0, <1>1 DEF HarborType
<1>8. ASSUME NEW o, Holding(q, o)
      PROVE  o.to = Owner /\ o.from = n /\ \E f \in Elems(q) : f.m = o
  <2>1. PICK f \in Elems(q) : f.m = o
    BY <1>8 DEF Holding
  <2> QED BY <1>0, <1>2, <2>1 DEF FrameInv, NameInv
(* Only what was in the queue needs a new place.                           *)
<1>9. ASSUME NEW o \in sent, Holding(q, o) => Safe(o)'
      PROVE  ~name[o.from].known /\ Holding(name[o.from].queue, o) => Safe(o)'
  <2>1. CASE o.from = n
    BY <1>2, <1>9, <2>1
  <2>2. CASE o.from # n
    <3>1. name'[o.from] = name[o.from]
      BY <1>6, <1>7, <2>2
    <3> QED BY <3>1 DEF Safe
  <2> QED BY <2>1, <2>2
<1>10. ASSUME UNCHANGED remote, UNCHANGED stream, UNCHANGED got, UNCHANGED moved,
              UNCHANGED early, q = <<>> \/ s.status = "DOWN"
       PROVE  HInv'
  <2>1. /\ name' \in [Nodes -> [known : BOOLEAN, queue : Seq(Frames)]]
        /\ Numbered' /\ NameInv' /\ \A f \in Frames : Good(f) => Good(f)'
    BY <1>0, <1>1, <1>10, NameDispatched
  <2>2. HarborType'
    BY <1>0, <1>1, <1>10, <2>1 DEF HarborType
  <2>3. LinkInv'
    BY <1>0, <1>1, <1>10, LinkKept DEF StreamStep
  <2>4. FrameInv'
    BY <1>0, <1>5, <1>10, <2>1, <2>2, FrameStep
  <2>5. \A o : Arrived(o) => Arrived(o)'
    BY <1>10 DEF Arrived
  <2>6. ASSUME NEW o \in sent, Holding(q, o) PROVE Safe(o)'
    <3>1. q # <<>>
      BY <2>6, ElemsEmpty DEF Holding
    <3>2. Failed(o.from, o.to)'
      BY <1>0, <1>3, <1>4, <1>8, <1>10, <2>6, <3>1 DEF SafeInv, Down
    <3> QED BY <3>2 DEF Safe
  <2>7. ASSUME NEW o \in sent PROVE Safe(o)'
    BY <1>4, <1>6, <1>9, <1>10, <2>5, <2>6, SafeMoved
  <2>8. Down'
    BY <1>0, <1>4, <1>10 DEF SafeInv, Down
  <2> QED BY <1>1, <2>2, <2>3, <2>4, <2>7, <2>8 DEF HInv, SafeInv
<1>11. ASSUME s.fd = 0, remote' = [remote EXCEPT ![n][Owner].queue = @ \o q],
              moved' = moved \cup Messages(q), UNCHANGED stream, UNCHANGED got, UNCHANGED early
       PROVE  HInv'
  <2>1. /\ name' \in [Nodes -> [known : BOOLEAN, queue : Seq(Frames)]]
        /\ moved' \subseteq sent'
        /\ Numbered' /\ NameInv' /\ \A f \in Frames : Good(f) => Good(f)'
        /\ \A f \in Elems(q) : f \in Frames /\ f.m.to = Owner /\ Good(f)'
    BY <1>0, <1>1, <1>2, <1>11, NameDispatched
  <2>2. PICK u : u = s.queue \o q
    OBVIOUS
  <2>3. /\ u \in Seq(Frames) /\ Elems(u) = Elems(s.queue) \cup Elems(q)
    BY <1>2, <1>3, <2>2, ElemsConcat
  <2>4. /\ remote' \in [Nodes -> [Nodes -> Remotes]]
        /\ \A a, b \in Nodes :
              /\ remote'[a][b].fd = remote[a][b].fd
              /\ remote'[a][b].status = remote[a][b].status
              /\ remote'[a][b].queue = IF a = n /\ b = Owner THEN u ELSE remote[a][b].queue
    <3>1. PICK r : r = [remote[n][Owner] EXCEPT !.queue = u]
      OBVIOUS
    <3>2. /\ r \in Remotes /\ r.fd = remote[n][Owner].fd
          /\ r.status = remote[n][Owner].status /\ r.queue = u
      BY <1>0, <2>3, <3>1, QueueRecord
    <3>3. remote' = SetRemote(n, Owner, r)
      BY <1>3, <1>11, <2>2, <3>1 DEF SetRemote
    <3> QED BY <1>0, <3>2, <3>3, RemoteUpdate
  <2>5. HarborType'
    BY <1>0, <1>1, <1>11, <2>1, <2>4 DEF HarborType
  <2>6. LinkInv'
    BY <1>0, <1>1, <1>11, <2>4, LinkKept DEF StreamStep
  <2>7. FrameInv'
    <3>1. \A a, b \in Nodes : \A f \in Elems(remote'[a][b].queue) :
             f \in Elems(remote[a][b].queue) \/ (Good(f)' /\ f.m.to = b)
      <4> SUFFICES ASSUME NEW a \in Nodes, NEW b \in Nodes,
                          NEW f \in Elems(remote'[a][b].queue)
                   PROVE  f \in Elems(remote[a][b].queue) \/ (Good(f)' /\ f.m.to = b)
        OBVIOUS
      <4>1. CASE a = n /\ b = Owner
        <5>1. f \in Elems(s.queue) \cup Elems(q)
          BY <1>0, <2>3, <2>4, <4>1
        <5> QED BY <1>3, <2>1, <4>1, <5>1
      <4>2. CASE ~(a = n /\ b = Owner)
        BY <2>4, <4>2
      <4> QED BY <4>1, <4>2
    <3> QED BY <1>0, <1>5, <1>11, <2>1, <2>5, <3>1, FrameStep
  <2>8. \A o : Arrived(o) => Arrived(o)'
    BY <1>11 DEF Arrived
  <2>9. ASSUME NEW o \in sent, Holding(q, o) PROVE Safe(o)'
    <3>1. Holding(u, o)
      BY <2>3, <2>9 DEF Holding
    <3>2. o.from = n /\ o.to = Owner
      BY <1>8, <2>9
    <3>3. remote'[n][Owner].fd = 0 /\ remote'[n][Owner].queue = u
      <4>1. s.fd = 0 /\ s = remote[n][Owner] /\ Owner \in Nodes
        BY <1>0, <1>3, <1>11
      <4>2. remote'[n][Owner].fd = remote[n][Owner].fd /\ remote'[n][Owner].queue = u
        BY <2>4, <4>1
      <4> QED BY <4>1, <4>2
    <3> QED BY <3>1, <3>2, <3>3 DEF Safe
  <2>10. ASSUME NEW o \in sent PROVE Safe(o)'
    <3>1. Holding(remote[o.from][o.to].queue, o) => Holding(remote'[o.from][o.to].queue, o)
      <4>1. CASE o.from = n /\ o.to = Owner
        <5>1. Holding(s.queue, o) => Holding(u, o)
          BY <2>3 DEF Holding
        <5> QED BY <1>0, <1>3, <2>4, <4>1, <5>1
      <4>2. CASE ~(o.from = n /\ o.to = Owner)
        BY <1>6, <2>4, <4>2
      <4> QED BY <4>1, <4>2
    <3> QED BY <1>4, <1>6, <1>9, <1>11, <2>4, <2>8, <2>9, <3>1, SafeMoved
  <2>11. Down'
    <3> SUFFICES ASSUME NEW a \in Nodes, NEW b \in Nodes, remote'[a][b].status = "DOWN"
                 PROVE  Failed(a, b)'
      BY DEF Down
    <3>1. remote[a][b].status = "DOWN"
      BY <2>4
    <3> QED BY <1>0, <1>4, <3>1 DEF SafeInv, Down
  <2> QED BY <1>1, <2>5, <2>6, <2>7, <2>10, <2>11 DEF HInv, SafeInv
<1>12. /\ WithHandle(q) \in Seq(Frames)
       /\ Elems(WithHandle(q)) = {Frame(f.m, TRUE) : f \in Elems(q)}
       /\ \A o : Holding(q, o) => Holding(WithHandle(q), o)
  BY WithHandleFrames
<1>13. ASSUME Owner = n, got' = [got EXCEPT ![n] = @ \o WithHandle(q)],
              UNCHANGED remote, UNCHANGED stream, UNCHANGED moved, UNCHANGED early
       PROVE  HInv'
  <2>1. /\ name' \in [Nodes -> [known : BOOLEAN, queue : Seq(Frames)]]
        /\ Numbered' /\ NameInv' /\ \A f \in Frames : Good(f) => Good(f)'
        /\ \A f \in Elems(q) : f.m \in Msgs /\ f.m.to = Owner /\ Good(Frame(f.m, TRUE))'
    BY <1>0, <1>1, <1>2, <1>13, NameDispatched
  <2>2. \A f \in Elems(WithHandle(q)) : Good(f)' /\ f.m.to = n
    <3> SUFFICES ASSUME NEW e \in Elems(q)
                 PROVE  Good(Frame(e.m, TRUE))' /\ Frame(e.m, TRUE).m.to = n
      BY <1>12
    <3>1. Frame(e.m, TRUE).m = e.m
      BY <2>1, FrameType
    <3> QED BY <1>13, <2>1, <3>1
  <2>3. PICK g : g = got[n] \o WithHandle(q)
    OBVIOUS
  <2>4. got[n] \in Seq(Frames)
    BY <1>0 DEF HarborType
  <2>5. g \in Seq(Frames) /\ Elems(g) = Elems(got[n]) \cup Elems(WithHandle(q))
    <3>1. PICK w \in Seq(Frames) : w = WithHandle(q)
      BY <1>12
    <3> QED BY <2>3, <2>4, <3>1, ElemsConcat
  <2>6. /\ got' \in [Nodes -> Seq(Frames)]
        /\ \A i \in Nodes : got'[i] = IF i = n THEN g ELSE got[i]
    BY <1>0, <1>13, <2>3, <2>5 DEF HarborType
  <2>7. HarborType'
    BY <1>0, <1>1, <1>13, <2>1, <2>6 DEF HarborType
  <2>8. LinkInv'
    BY <1>0, <1>1, <1>13, LinkKept DEF StreamStep
  <2>9. FrameInv'
    <3>1. \A i \in Nodes : \A f \in Elems(got'[i]) :
             f \in Elems(got[i]) \/ (Good(f)' /\ f.m.to = i)
      BY <2>2, <2>5, <2>6
    <3> QED BY <1>0, <1>5, <1>13, <2>1, <2>7, <3>1, FrameStep
  <2>10. \A o : Holding(got[n], o) \/ Holding(WithHandle(q), o) => Holding(g, o)
    BY <2>5 DEF Holding
  <2>11. \A o : Arrived(o) \/ Holding(q, o) => Arrived(o)'
    BY <1>12, <2>6, <2>10 DEF Arrived
  <2>12. ASSUME NEW o \in sent PROVE Safe(o)'
    <3>1. Holding(q, o) => Safe(o)'
      BY <2>11 DEF Safe
    <3> QED BY <1>4, <1>6, <1>9, <1>13, <2>11, <3>1, SafeMoved
  <2>13. Down'
    BY <1>0, <1>4, <1>13 DEF SafeInv, Down
  <2> QED BY <1>1, <2>7, <2>8, <2>9, <2>12, <2>13 DEF HInv, SafeInv
<1>14. ASSUME s.fd # 0, stream' = send_remote(n, s.fd, WithHandle(q)),
              early' = IF s.status = "HANDSHAKE" THEN early \cup Messages(q) ELSE early,
              UNCHANGED remote, UNCHANGED got, UNCHANGED moved
       PROVE  HInv'
  <2>1. /\ name' \in [Nodes -> [known : BOOLEAN, queue : Seq(Frames)]]
        /\ Numbered' /\ NameInv' /\ \A f \in Frames : Good(f) => Good(f)'
        /\ \A f \in Elems(q) :
              f.m \in Msgs /\ f.m \in sent /\ f.m.to = Owner /\ Good(Frame(f.m, TRUE))'
    BY <1>0, <1>1, <1>2, <1>14, NameDispatched
  <2>2. Messages(q) = {f.m : f \in Elems(q)}
    BY DEF Messages, Elems
  <2>3. early \subseteq early' /\ early' \subseteq sent'
    <3>1. Messages(q) \subseteq sent /\ early \subseteq sent
      BY <1>0, <2>1, <2>2 DEF HarborType
    <3> QED BY <1>1, <1>14, <3>1
  <2>4. PICK c \in Conns : c = s.fd
    BY <1>0, <1>3, <1>14, FdType
  <2>5. Holds(n, Owner)
    BY <1>0 DEF LinkInv
  <2>6. s.status = "HANDSHAKE" \/ Other(c, n) = Owner
    BY <1>3, <1>14, <2>4, <2>5 DEF Holds
  <2>7. \A f \in Elems(WithHandle(q)) : Good(f)' /\ (f.m.to = Other(c, n) \/ f.m \in early')
    <3> SUFFICES ASSUME NEW e \in Elems(q)
                 PROVE  /\ Good(Frame(e.m, TRUE))'
                        /\ Frame(e.m, TRUE).m.to = Other(c, n) \/ Frame(e.m, TRUE).m \in early'
      BY <1>12
    <3>1. Frame(e.m, TRUE).m = e.m
      BY <2>1, FrameType
    <3>2. s.status = "HANDSHAKE" => e.m \in early'
      BY <1>14, <2>2
    <3> QED BY <2>1, <2>6, <3>1, <3>2
  <2> DEFINE fs == WithHandle(q)
  <2> HIDE DEF fs
  <2>8. fs \in Seq(Frames) /\ \A o : Holding(q, o) => Holding(fs, o)
    BY <1>12 DEF fs
  <2>9. /\ stream' \in [Conns -> [Nodes -> Seq(Frames \cup Handshakes)]]
        /\ \A d \in Conns, y \in Nodes :
              stream'[d][y] = IF d = c /\ y = n /\ conn[c].up THEN stream[d][y] \o fs
                                                              ELSE stream[d][y]
    <3>1. stream' = send_remote(n, c, fs)
      BY <1>14, <2>4 DEF fs
    <3> QED BY <1>0, <2>8, <3>1, StreamUpdate
  <2>10. /\ Elems(stream[c][n] \o fs) = Elems(stream[c][n]) \cup Elems(fs)
         /\ \A o : Holding(stream[c][n], o) \/ Holding(fs, o) => Holding(stream[c][n] \o fs, o)
    BY <1>0, <2>8, StreamType, HoldingConcat
  <2>11. HarborType'
    BY <1>0, <1>1, <1>14, <2>1, <2>3, <2>9 DEF HarborType
  <2>12. LinkInv'
    <3>1. \A d \in Conns, y \in Nodes : StreamStep(d, y)
      <4> SUFFICES ASSUME NEW d \in Conns, NEW y \in Nodes PROVE StreamStep(d, y)
        OBVIOUS
      <4>1. CASE d = c /\ y = n /\ conn[c].up
        <5>1. stream'[d][y] = stream[d][y] \o fs /\ remote[y][Owner].fd = d
          BY <1>3, <2>4, <2>9, <4>1
        <5> QED BY <1>0, <2>8, <5>1 DEF StreamStep
      <4>2. CASE ~(d = c /\ y = n /\ conn[c].up)
        BY <2>9, <4>2 DEF StreamStep
      <4> QED BY <4>1, <4>2
    <3> QED BY <1>0, <1>1, <1>14, <3>1, LinkKept
  <2>13. FrameInv'
    <3>1. \A d \in Conns, y \in Nodes : \A f \in Elems(stream'[d][y]) :
             \/ f \in Elems(stream[d][y])
             \/ Good(f)' /\ (f.m.to = Other(d, y)' \/ f.m \in early')
      <4> SUFFICES ASSUME NEW d \in Conns, NEW y \in Nodes, NEW f \in Elems(stream'[d][y])
                   PROVE  \/ f \in Elems(stream[d][y])
                          \/ Good(f)' /\ (f.m.to = Other(d, y)' \/ f.m \in early')
        OBVIOUS
      <4>1. CASE d = c /\ y = n /\ conn[c].up
        <5>1. f \in Elems(stream[c][n]) \cup Elems(fs)
          BY <2>9, <2>10, <4>1
        <5> QED BY <1>5, <2>7, <4>1, <5>1 DEF fs
      <4>2. CASE ~(d = c /\ y = n /\ conn[c].up)
        BY <2>9, <4>2
      <4> QED BY <4>1, <4>2
    <3> QED BY <1>0, <1>5, <1>14, <2>1, <2>3, <2>11, <3>1, FrameStep
  <2>14. \A o : Arrived(o) => Arrived(o)'
    BY <1>14 DEF Arrived
  <2>15. ASSUME NEW o \in sent, Holding(q, o) PROVE Safe(o)'
    <3>1. o.from = n /\ o.to = Owner /\ Holding(fs, o)
      BY <1>8, <2>8, <2>15
    <3>2. CASE conn[c].up
      <4>1. Holding(stream'[c][n], o) /\ remote'[n][Owner].fd = c
        BY <1>3, <1>14, <2>4, <2>9, <2>10, <3>1, <3>2
      <4>2. c # 0
        BY <1>14, <2>4
      <4> QED BY <3>1, <4>1, <4>2 DEF Safe
    <3>3. CASE ~conn[c].up
      <4>1. Failed(n, Owner)
        BY <1>0, <1>3, <1>14, <2>4, <2>5, <3>3, HeldFails
      <4> QED BY <1>4, <3>1, <4>1 DEF Safe
    <3> QED BY <3>2, <3>3
  <2>16. ASSUME NEW o \in sent PROVE Safe(o)'
    <3>1. remote[o.from][o.to].fd # 0 => remote[o.from][o.to].fd \in Conns
      BY <1>0, <1>6, FdType
    <3>2. \A d \in Conns, y \in Nodes : Holding(stream[d][y], o) => Holding(stream'[d][y], o)
      <4>1. \A d \in Conns, y \in Nodes :
               stream'[d][y] = stream[d][y]
               \/ (d = c /\ y = n /\ stream'[d][y] = stream[c][n] \o fs)
        BY <2>9
      <4> QED BY <2>10, <4>1
    <3>3. remote[o.from][o.to].fd # 0
              /\ Holding(stream[remote[o.from][o.to].fd][o.from], o)
              => Holding(stream'[remote[o.from][o.to].fd][o.from], o)
      BY <1>6, <3>1, <3>2
    <3> QED BY <1>4, <1>6, <1>9, <1>14, <2>14, <2>15, <3>3, SafeMoved
  <2>17. Down'
    BY <1>0, <1>4, <1>14 DEF SafeInv, Down
  <2> QED BY <1>1, <2>11, <2>12, <2>13, <2>16, <2>17 DEF HInv, SafeInv
<1>15. CASE q = <<>>
  BY <1>2, <1>10, <1>15 DEF update_name, ghostVars
<1>16. CASE q # <<>>
  <2>1. dispatch_name_queue(n)
    BY <1>2, <1>16 DEF update_name
  <2> QED BY <1>2, <1>3, <1>10, <1>11, <1>13, <1>14, <2>1 DEF dispatch_name_queue, ghostVars
<1> QED BY <1>15, <1>16

-----------------------------------------------------------------------------
(* Connections.                                                            *)

LEMMA GoodSame ==
    ASSUME FrameInv, UNCHANGED name, UNCHANGED sent, UNCHANGED moved
    PROVE  Numbered' /\ NameInv' /\ \A f \in Frames : Good(f) => Good(f)'
<1>1. Numbered' /\ NameInv'
  BY DEF FrameInv, Numbered, NameInv
<1>2. ASSUME NEW f \in Frames, Good(f) PROVE Good(f)'
  BY <1>2, Zenon DEF Good
<1> QED BY <1>1, <1>2

LEMMA ConnType ==
    ASSUME HarborType, NEW c \in DOMAIN conn
    PROVE  /\ c \in Conns /\ c # 0 /\ conn[c] \in Links /\ conn[c].from \in Nodes
           /\ conn[c].to \in Nodes /\ conn[c].for \in Nodes
           /\ \A x : Other(c, x) \in Nodes
<1>1. c \in Conns /\ c # 0 /\ conn[c] \in Links
  BY HarborFacts DEF HarborType, Conns
<1>2. conn[c].from \in Nodes /\ conn[c].to \in Nodes /\ conn[c].for \in Nodes
  BY <1>1 DEF Links
<1> QED BY <1>1, <1>2 DEF Other

(* Setting what x wrote to c and is still under way.                       *)
SetStream(c, x, v) == [stream EXCEPT ![c][x] = v]

LEMMA StreamSet ==
    ASSUME HarborType, NEW c \in Conns, NEW x \in Nodes,
           NEW v \in Seq(Frames \cup Handshakes), stream' = SetStream(c, x, v)
    PROVE  /\ stream' \in [Conns -> [Nodes -> Seq(Frames \cup Handshakes)]]
           /\ \A d \in Conns, y \in Nodes :
                 stream'[d][y] = IF d = c /\ y = x THEN v ELSE stream[d][y]
BY DEF HarborType, SetStream

(* Dropping a connection.                                                  *)
SetDown(c) == [conn EXCEPT ![c].up = FALSE]

LEMMA ConnDown ==
    ASSUME HarborType, NEW c \in DOMAIN conn, conn' = SetDown(c)
    PROVE  /\ conn' \in Seq(Links) /\ DOMAIN conn' = DOMAIN conn /\ Len(conn') = Len(conn)
           /\ \A d \in DOMAIN conn :
                 /\ conn'[d].from = conn[d].from /\ conn'[d].for = conn[d].for
                 /\ conn'[d].to = conn[d].to /\ (conn'[d].up => conn[d].up)
           /\ ~conn'[c].up
           /\ \A d \in DOMAIN conn : \A x : Other(d, x)' = Other(d, x)
           /\ \A a, b : Failed(a, b) => Failed(a, b)'
<1>1. conn[c] \in Links
  BY ConnType
<1>2. PICK l : l = [conn[c] EXCEPT !.up = FALSE]
  OBVIOUS
<1>3. /\ l \in Links /\ l.from = conn[c].from /\ l.for = conn[c].for /\ l.to = conn[c].to
      /\ ~l.up
  BY <1>1, <1>2 DEF Links
<1>4. conn' = [conn EXCEPT ![c] = l]
  BY <1>2 DEF SetDown
<1>5. conn \in Seq(Links)
  BY DEF HarborType
<1>6. conn' \in Seq(Links) /\ DOMAIN conn' = DOMAIN conn /\ Len(conn') = Len(conn)
  BY <1>3, <1>4, <1>5
<1>7. /\ \A d \in DOMAIN conn : conn'[d] = IF d = c THEN l ELSE conn[d]
  BY <1>4
<1>8. \A d \in DOMAIN conn :
         /\ conn'[d].from = conn[d].from /\ conn'[d].for = conn[d].for
         /\ conn'[d].to = conn[d].to /\ (conn'[d].up => conn[d].up)
  BY <1>3, <1>7
<1>9. \A d \in DOMAIN conn : \A x : Other(d, x)' = Other(d, x)
  BY <1>8 DEF Other
<1>10. \A a, b : Failed(a, b) => Failed(a, b)'
  BY <1>6, <1>8, FailedKept
<1>11. ~conn'[c].up
  BY <1>3, <1>7
<1> QED BY <1>6, <1>8, <1>9, <1>10, <1>11

(* Who holds a connection that is down now has a failed link.              *)
LEMMA DownFails ==
    ASSUME NEW n \in Nodes, NEW p \in Nodes, Holds(n, p), NEW c, c = remote[n][p].fd,
           c # 0, DOMAIN conn' = DOMAIN conn,
           conn'[c].from = conn[c].from, conn'[c].for = conn[c].for, conn'[c].to = conn[c].to,
           ~conn'[c].up
    PROVE  Failed(n, p)'
<1>1. c \in DOMAIN conn'
  BY DEF Holds
<1>2. \/ conn[c].from = n /\ conn[c].for = p
      \/ conn[c].to = n /\ conn[c].from = p
  BY DEF Holds
<1> QED BY <1>1, <1>2 DEF Failed

LEMMA BreakInv ==
    ASSUME HInv, NEW c \in DOMAIN conn, Break(c)
    PROVE  HInv'
<1>0. HarborType /\ LinkInv /\ FrameInv /\ SafeInv
  BY DEF HInv
<1>1. /\ conn' = SetDown(c) /\ stream' = [stream EXCEPT ![c] = [n \in Nodes |-> <<>>]]
      /\ UNCHANGED remote /\ UNCHANGED name /\ UNCHANGED got /\ UNCHANGED errors
      /\ UNCHANGED sent /\ UNCHANGED moved /\ UNCHANGED early
  BY DEF Break, SetDown, ghostVars
<1>2. c \in Conns /\ c # 0
  BY <1>0, ConnType
<1>3. /\ conn' \in Seq(Links) /\ DOMAIN conn' = DOMAIN conn /\ Len(conn') = Len(conn)
      /\ \A d \in DOMAIN conn :
            /\ conn'[d].from = conn[d].from /\ conn'[d].for = conn[d].for
            /\ conn'[d].to = conn[d].to /\ (conn'[d].up => conn[d].up)
      /\ ~conn'[c].up
      /\ \A d \in DOMAIN conn : \A x : Other(d, x)' = Other(d, x)
      /\ \A a, b : Failed(a, b) => Failed(a, b)'
  BY <1>0, <1>1, ConnDown
<1>4. /\ stream' \in [Conns -> [Nodes -> Seq(Frames \cup Handshakes)]]
      /\ \A d \in Conns, y \in Nodes :
            stream'[d][y] = IF d = c THEN <<>> ELSE stream[d][y]
  BY <1>0, <1>1, <1>2 DEF HarborType
<1>5. HarborType'
  BY <1>0, <1>1, <1>3, <1>4 DEF HarborType
<1>6. LinkInv'
  <2>1. \A d \in Conns, y \in Nodes : StreamStep(d, y)
    BY <1>4 DEF StreamStep
  <2> QED BY <1>0, <1>1, <1>3, <2>1, LinkKept
<1>7. FrameInv'
  <2>1. \A d \in Conns, y \in Nodes : \A f \in Elems(stream'[d][y]) :
           f \in Elems(stream[d][y]) /\ Other(d, y)' = Other(d, y)
    <3> SUFFICES ASSUME NEW d \in Conns, NEW y \in Nodes, NEW f \in Elems(stream'[d][y])
                 PROVE  f \in Elems(stream[d][y]) /\ Other(d, y)' = Other(d, y)
      OBVIOUS
    <3>1. d # c /\ f \in Elems(stream[d][y])
      BY <1>4, ElemsEmpty
    <3>2. d \in DOMAIN conn
      BY <1>0, <3>1, ElemsEmpty DEF LinkInv
    <3> QED BY <1>3, <3>1, <3>2
  <2>2. Numbered' /\ NameInv' /\ \A f \in Frames : Good(f) => Good(f)'
    BY <1>0, <1>1, GoodSame
  <2> QED BY <1>0, <1>1, <1>5, <2>1, <2>2, FrameStep
<1>8. ASSUME NEW o \in sent PROVE Safe(o)'
  <2>1. o.from \in Nodes /\ o.to \in Nodes /\ Safe(o)
    BY <1>0 DEF HarborType, Msgs, SafeInv
  <2>2. CASE remote[o.from][o.to].fd = c
    <3>1. Holds(o.from, o.to)
      BY <1>0, <2>1 DEF LinkInv
    <3>2. Failed(o.from, o.to)'
      BY <1>2, <1>3, <2>1, <2>2, <3>1, DownFails
    <3> QED BY <3>2 DEF Safe
  <2>3. CASE remote[o.from][o.to].fd # c
    <3>1. Arrived(o) => Arrived(o)'
      BY <1>1 DEF Arrived
    <3>2. remote[o.from][o.to].fd # 0
             => stream'[remote[o.from][o.to].fd][o.from] = stream[remote[o.from][o.to].fd][o.from]
      BY <1>0, <1>4, <2>1, <2>3, FdType
    <3> QED BY <1>1, <1>3, <2>1, <3>1, <3>2, SafeKept
  <2> QED BY <2>2, <2>3
<1>9. Down'
  BY <1>0, <1>1, <1>3 DEF SafeInv, Down
<1> QED BY <1>1, <1>5, <1>6, <1>7, <1>8, <1>9 DEF HInv, SafeInv

LEMMA DownRecord ==
    [fd |-> 0, status |-> "DOWN", queue |-> <<>>] \in Remotes
BY HarborFacts DEF Remotes, Statuses

(* close_harbor: the handshake failed, or a message is too long.           *)
LEMMA CloseInv ==
    ASSUME HInv, NEW n \in Nodes, NEW p \in Nodes, remote[n][p].fd # 0, close_harbor(n, p),
           UNCHANGED name, UNCHANGED got, UNCHANGED errors, UNCHANGED sent,
           UNCHANGED moved, UNCHANGED early
    PROVE  HInv'
<1>0. HarborType /\ LinkInv /\ FrameInv /\ SafeInv
  BY DEF HInv
<1>1. PICK c : c = remote[n][p].fd
  OBVIOUS
<1>2. Holds(n, p) /\ c \in DOMAIN conn
  BY <1>0, <1>1 DEF LinkInv, Holds
<1>3. c \in Conns /\ c # 0 /\ Other(c, n) \in Nodes
  BY <1>0, <1>2, ConnType
<1>4. PICK x \in Nodes : x = Other(c, n)
  BY <1>3
<1>5. PICK r \in Remotes : r = [fd |-> 0, status |-> "DOWN", queue |-> <<>>]
  BY DownRecord
<1>6. /\ conn' = SetDown(c) /\ stream' = SetStream(c, x, <<>>)
      /\ remote' = SetRemote(n, p, r)
  BY <1>1, <1>4, <1>5 DEF close_harbor, SetDown, SetStream, SetRemote
<1>7. /\ conn' \in Seq(Links) /\ DOMAIN conn' = DOMAIN conn /\ Len(conn') = Len(conn)
      /\ \A d \in DOMAIN conn :
            /\ conn'[d].from = conn[d].from /\ conn'[d].for = conn[d].for
            /\ conn'[d].to = conn[d].to /\ (conn'[d].up => conn[d].up)
      /\ ~conn'[c].up
      /\ \A d \in DOMAIN conn : \A y : Other(d, y)' = Other(d, y)
      /\ \A a, b : Failed(a, b) => Failed(a, b)'
  BY <1>0, <1>2, <1>6, ConnDown
<1>8. /\ stream' \in [Conns -> [Nodes -> Seq(Frames \cup Handshakes)]]
      /\ \A d \in Conns, y \in Nodes :
            stream'[d][y] = IF d = c /\ y = x THEN <<>> ELSE stream[d][y]
  <2>1. <<>> \in Seq(Frames \cup Handshakes)
    OBVIOUS
  <2>2. PICK v \in Seq(Frames \cup Handshakes) : v = <<>>
    BY <2>1
  <2>3. stream' = SetStream(c, x, v)
    BY <1>6, <2>2
  <2>4. /\ stream' \in [Conns -> [Nodes -> Seq(Frames \cup Handshakes)]]
        /\ \A d \in Conns, y \in Nodes :
              stream'[d][y] = IF d = c /\ y = x THEN v ELSE stream[d][y]
    BY <1>0, <1>3, <2>3, StreamSet
  <2> QED BY <2>2, <2>4
<1>9. /\ remote' \in [Nodes -> [Nodes -> Remotes]]
      /\ remote'[n][p].fd = 0 /\ remote'[n][p].status = "DOWN" /\ remote'[n][p].queue = <<>>
      /\ \A a, b \in Nodes : ~(a = n /\ b = p) => remote'[a][b] = remote[a][b]
  BY <1>0, <1>5, <1>6, RemoteUpdate
<1>10. HarborType'
  BY <1>0, <1>7, <1>8, <1>9 DEF HarborType
<1>11. LinkInv'
  <2>1. \A d \in Conns, y \in Nodes : StreamStep(d, y)
    BY <1>8 DEF StreamStep
  <2>2. \A a, b \in Nodes :
           \/ /\ remote'[a][b].fd = remote[a][b].fd
              /\ remote'[a][b].status = remote[a][b].status
           \/ remote'[a][b].fd = 0 /\ remote'[a][b].status = "DOWN"
    BY <1>9
  <2> QED BY <1>0, <1>7, <2>1, <2>2, LinkKept
<1>12. FrameInv'
  <2>1. \A d \in Conns, y \in Nodes : \A f \in Elems(stream'[d][y]) :
           f \in Elems(stream[d][y]) /\ Other(d, y)' = Other(d, y)
    <3> SUFFICES ASSUME NEW d \in Conns, NEW y \in Nodes, NEW f \in Elems(stream'[d][y])
                 PROVE  f \in Elems(stream[d][y]) /\ Other(d, y)' = Other(d, y)
      OBVIOUS
    <3>1. f \in Elems(stream[d][y])
      BY <1>8, ElemsEmpty
    <3>2. d \in DOMAIN conn
      BY <1>0, <3>1, ElemsEmpty DEF LinkInv
    <3> QED BY <1>7, <3>1, <3>2
  <2>2. \A a, b \in Nodes : \A f \in Elems(remote'[a][b].queue) :
           f \in Elems(remote[a][b].queue)
    BY <1>9, ElemsEmpty
  <2>3. Numbered' /\ NameInv' /\ \A f \in Frames : Good(f) => Good(f)'
    BY <1>0, GoodSame
  <2> QED BY <1>0, <1>10, <2>1, <2>2, <2>3, FrameStep
<1>13. Failed(n, p)'
  BY <1>1, <1>2, <1>3, <1>7, DownFails
<1>14. ASSUME NEW o \in sent PROVE Safe(o)'
  <2>1. o.from \in Nodes /\ o.to \in Nodes /\ Safe(o)
    BY <1>0 DEF HarborType, Msgs, SafeInv
  <2>2. CASE remote[o.from][o.to].fd = c
    <3>1. Holds(o.from, o.to)
      BY <1>0, <2>1 DEF LinkInv
    <3>2. Failed(o.from, o.to)'
      BY <1>2, <1>3, <1>7, <2>1, <2>2, <3>1, DownFails
    <3> QED BY <3>2 DEF Safe
  <2>3. CASE remote[o.from][o.to].fd # c
    <3>1. Arrived(o) => Arrived(o)'
      BY DEF Arrived
    <3>2. remote[o.from][o.to].fd # 0
             => stream'[remote[o.from][o.to].fd][o.from] = stream[remote[o.from][o.to].fd][o.from]
      BY <1>0, <1>8, <2>1, <2>3, FdType
    <3>3. remote'[o.from][o.to] = remote[o.from][o.to]
      BY <1>1, <1>9, <2>1, <2>3
    <3> QED BY <1>7, <2>1, <3>1, <3>2, <3>3, SafeKept
  <2> QED BY <2>2, <2>3
<1>15. Down'
  <2> SUFFICES ASSUME NEW a \in Nodes, NEW b \in Nodes, remote'[a][b].status = "DOWN"
               PROVE  Failed(a, b)'
    BY DEF Down
  <2>1. CASE a = n /\ b = p
    BY <1>13, <2>1
  <2>2. CASE ~(a = n /\ b = p)
    BY <1>0, <1>7, <1>9, <2>2 DEF SafeInv, Down
  <2> QED BY <2>1, <2>2
<1> QED BY <1>10, <1>11, <1>12, <1>14, <1>15 DEF HInv, SafeInv

(* What is left of a stream after its head.                                *)
LEMMA HoldingTail ==
    ASSUME NEW s \in Seq(Frames \cup Handshakes), s # <<>>
    PROVE  /\ Tail(s) \in Seq(Frames \cup Handshakes) /\ Elems(Tail(s)) \subseteq Elems(s)
           /\ Head(s) \in Elems(s) /\ Head(s) = s[1] /\ 1 \in DOMAIN s
           /\ \A o : Holding(s, o) => Holding(Tail(s), o) \/ (Head(s) \in Frames /\ Head(s).m = o)
<1>1. /\ Tail(s) \in Seq(Frames \cup Handshakes) /\ Elems(Tail(s)) \subseteq Elems(s)
      /\ Head(s) \in Elems(s) /\ Head(s) = s[1]
  BY ElemsTail
<1>2. /\ 1 \in DOMAIN s
      /\ \A k \in DOMAIN s : k # 1 => k - 1 \in DOMAIN Tail(s) /\ Tail(s)[k - 1] = s[k]
  OBVIOUS
<1>3. ASSUME NEW o, Holding(s, o)
      PROVE  Holding(Tail(s), o) \/ (Head(s) \in Frames /\ Head(s).m = o)
  <2>1. PICK k \in DOMAIN s : s[k] \in Frames /\ s[k].m = o
    BY <1>3 DEF Holding, Elems
  <2>2. CASE k = 1
    BY <1>1, <2>1, <2>2
  <2>3. CASE k # 1
    <3>1. k - 1 \in DOMAIN Tail(s) /\ Tail(s)[k - 1] = s[k]
      BY <1>2, <2>3
    <3>2. s[k] \in Elems(Tail(s))
      BY <3>1 DEF Elems
    <3> QED BY <2>1, <3>2 DEF Holding
  <2> QED BY <2>2, <2>3
<1> QED BY <1>1, <1>2, <1>3

(* The other end of the other end is this one.                             *)
LEMMA OtherEnd ==
    ASSUME NEW n \in Nodes, NEW p \in Nodes, NEW c, Holds(n, p), c = remote[n][p].fd, c # 0,
           Stream(c), Other(c, n) = p
    PROVE  Other(c, p) = n
BY DEF Holds, Stream, Other

LEMMA ReceiveInv ==
    ASSUME HInv, NEW n \in Nodes, NEW p \in Nodes, Receive(n, p)
    PROVE  HInv'
<1>0. HarborType /\ LinkInv /\ FrameInv /\ SafeInv
  BY DEF HInv
<1>1. PICK c : c = remote[n][p].fd
  OBVIOUS
<1>2. c # 0 /\ remote[n][p].status = "HEADER" /\ Incoming(n, c)
  BY <1>1 DEF Receive
<1>3. Holds(n, p) /\ c \in DOMAIN conn /\ c \in Conns
  BY <1>0, <1>1, <1>2, FdType DEF LinkInv, Holds
<1>4. Stream(c) /\ Other(c, n) = p /\ Quiet(c, p)
  BY <1>0, <1>1, <1>2, <1>3 DEF LinkInv, Holds
<1>5. Other(c, p) = n
  BY <1>1, <1>2, <1>3, <1>4, OtherEnd
<1>6. PICK s \in Seq(Frames \cup Handshakes) : s = stream[c][p]
  BY <1>0, <1>3, StreamType
<1>7. s # <<>>
  BY <1>2, <1>4, <1>6 DEF Incoming
<1>8. PICK f : f = Head(s)
  OBVIOUS
<1>9. /\ Tail(s) \in Seq(Frames \cup Handshakes) /\ Elems(Tail(s)) \subseteq Elems(s)
      /\ f \in Elems(s) /\ f \in Frames
      /\ \A o : Holding(s, o) => Holding(Tail(s), o) \/ f.m = o
  BY <1>4, <1>6, <1>7, <1>8, HoldingTail DEF Quiet
<1>10. CASE f.m.big
  <2>1. close_harbor(n, p)
    BY <1>1, <1>4, <1>6, <1>8, <1>10 DEF Receive
  <2>2. /\ UNCHANGED name /\ UNCHANGED got /\ UNCHANGED errors /\ UNCHANGED sent
        /\ UNCHANGED moved /\ UNCHANGED early
    BY <1>1, <1>4, <1>6, <1>8, <1>10 DEF Receive, ghostVars
  <2> QED BY <1>1, <1>2, <2>1, <2>2, CloseInv
<1>11. CASE ~f.m.big
  <2>1. /\ got' = [got EXCEPT ![n] = Append(@, f)]
        /\ stream' = SetStream(c, p, Tail(s))
        /\ UNCHANGED remote /\ UNCHANGED conn /\ UNCHANGED name /\ UNCHANGED errors
        /\ UNCHANGED sent /\ UNCHANGED moved /\ UNCHANGED early
    BY <1>1, <1>4, <1>6, <1>8, <1>11 DEF Receive, ghostVars, Taken, SetStream
  <2>2. PICK t \in Seq(Frames \cup Handshakes) : t = Tail(s)
    BY <1>9
  <2>3. /\ stream' \in [Conns -> [Nodes -> Seq(Frames \cup Handshakes)]]
        /\ \A d \in Conns, y \in Nodes :
              stream'[d][y] = IF d = c /\ y = p THEN t ELSE stream[d][y]
    <3>1. stream' = SetStream(c, p, t)
      BY <2>1, <2>2
    <3> QED BY <1>0, <1>3, <3>1, StreamSet
  <2>4. PICK g : g = Append(got[n], f)
    OBVIOUS
  <2>5. got[n] \in Seq(Frames)
    BY <1>0 DEF HarborType
  <2>6. g \in Seq(Frames) /\ Elems(g) = Elems(got[n]) \cup {f}
    BY <1>9, <2>4, <2>5, ElemsAppend
  <2>7. /\ got' \in [Nodes -> Seq(Frames)]
        /\ \A i \in Nodes : got'[i] = IF i = n THEN g ELSE got[i]
    BY <1>0, <2>1, <2>4, <2>6 DEF HarborType
  <2>8. HarborType'
    BY <1>0, <2>1, <2>3, <2>7 DEF HarborType
  <2>9. LinkInv'
    <3>1. \A d \in Conns, y \in Nodes : StreamStep(d, y)
      BY <1>6, <1>7, <2>2, <2>3 DEF StreamStep
    <3> QED BY <1>0, <2>1, <3>1, LinkKept
  <2>10. \A d, x : Other(d, x)' = Other(d, x)
    BY <2>1 DEF Other
  <2>11. Numbered' /\ NameInv' /\ \A e \in Frames : Good(e) => Good(e)'
    BY <1>0, <2>1, GoodSame
  <2>12. FrameInv'
    <3>1. \A d \in Conns, y \in Nodes : Elems(stream'[d][y]) \subseteq Elems(stream[d][y])
      BY <1>6, <1>9, <2>2, <2>3
    <3>2. Good(f) /\ (f.m.to = n \/ f.m \in early)
      BY <1>0, <1>3, <1>5, <1>6, <1>9 DEF FrameInv, StreamInv
    <3>3. Good(f)' /\ (f.m.to = n \/ f.m \in early')
      BY <1>9, <2>1, <2>11, <3>2
    <3>4. \A i \in Nodes : \A e \in Elems(got'[i]) :
             e \in Elems(got[i]) \/ (Good(e)' /\ (e.m.to = i \/ e.m \in early'))
      BY <2>6, <2>7, <3>3
    <3> QED BY <1>0, <2>1, <2>8, <2>10, <2>11, <3>1, <3>4, FrameStep
  <2>13. \A o : Arrived(o) \/ f.m = o => Arrived(o)'
    <3>1. \A o : Holding(got[n], o) \/ f.m = o => Holding(g, o)
      BY <1>9, <2>6 DEF Holding
    <3> QED BY <2>7, <3>1 DEF Arrived
  <2>14. \A a, b : Failed(a, b) => Failed(a, b)'
    BY <2>1 DEF Failed
  <2>15. ASSUME NEW o \in sent PROVE Safe(o)'
    <3>1. o.from \in Nodes /\ o.to \in Nodes /\ Safe(o)
      BY <1>0 DEF HarborType, Msgs, SafeInv
    <3>2. CASE f.m = o
      BY <2>13, <3>2 DEF Safe
    <3>3. CASE f.m # o
      <4>1. remote[o.from][o.to].fd # 0 => remote[o.from][o.to].fd \in Conns
        BY <1>0, <3>1, FdType
      <4>2. \A d \in Conns, y \in Nodes : Holding(stream[d][y], o) => Holding(stream'[d][y], o)
        BY <1>6, <1>9, <2>2, <2>3, <3>3
      <4>3. remote[o.from][o.to].fd # 0
                /\ Holding(stream[remote[o.from][o.to].fd][o.from], o)
                => Holding(stream'[remote[o.from][o.to].fd][o.from], o)
        BY <3>1, <4>1, <4>2
      <4> QED BY <2>1, <2>13, <2>14, <3>1, <4>3, SafeKept
    <3> QED BY <3>2, <3>3
  <2>16. Down'
    BY <1>0, <2>1, <2>14 DEF SafeInv, Down
  <2> QED BY <2>1, <2>8, <2>9, <2>12, <2>15, <2>16 DEF HInv, SafeInv
<1> QED BY <1>10, <1>11

(* Two entries of the streams of c at once.                                *)
SetStreams(c, x, v, y, w) == [stream EXCEPT ![c][x] = v, ![c][y] = w]

LEMMA HeaderRecord ==
    ASSUME NEW c \in Conns
    PROVE  [fd |-> c, status |-> "HEADER", queue |-> <<>>] \in Remotes
BY HarborFacts DEF Remotes, Statuses, Conns

(* Only the end that opened a connection waits for an id, and it is past   *)
(* the handshake when it has read the id of the node that it meant.        *)
LEMMA CheckIdInv ==
    ASSUME HInv, NEW n \in Nodes, NEW p \in Nodes, CheckId(n, p)
    PROVE  HInv'
<1>0. HarborType /\ LinkInv /\ FrameInv /\ SafeInv
  BY DEF HInv
<1>1. PICK c : c = remote[n][p].fd
  OBVIOUS
<1>2. /\ c # 0 /\ remote[n][p].status = "HANDSHAKE" /\ Incoming(n, c)
      /\ UNCHANGED name /\ UNCHANGED got /\ UNCHANGED errors /\ UNCHANGED sent
      /\ UNCHANGED moved /\ UNCHANGED early
  BY <1>1 DEF CheckId, ghostVars
<1>3. Holds(n, p) /\ c \in DOMAIN conn /\ c \in Conns
  BY <1>0, <1>1, <1>2, FdType DEF LinkInv, Holds
<1>4. Stream(c) /\ conn[c].from = n /\ conn[c].for = p
  BY <1>0, <1>1, <1>2, <1>3 DEF LinkInv, Holds
<1>5. PICK x \in Nodes : x = Other(c, n)
  BY <1>0, <1>3, ConnType
<1>6. PICK s \in Seq(Frames \cup Handshakes) : s = stream[c][x]
  BY <1>0, <1>3, StreamType
<1>7. s # <<>>
  BY <1>2, <1>5, <1>6 DEF Incoming
<1>8. CASE Head(s) # Handshake(p)
  <2>1. close_harbor(n, p)
    BY <1>1, <1>5, <1>6, <1>8 DEF CheckId
  <2> QED BY <1>1, <1>2, <2>1, CloseInv
<1>9. CASE Head(s) = Handshake(p)
  <2>1. /\ Tail(s) \in Seq(Frames \cup Handshakes) /\ Elems(Tail(s)) \subseteq Elems(s)
        /\ Head(s) = s[1] /\ 1 \in DOMAIN s /\ Head(s) \notin Frames
        /\ \A o : Holding(s, o) => Holding(Tail(s), o)
    BY <1>7, <1>9, HoldingTail, FrameOrHandshake
  <2>2. x = p
    <3>1. Greeted(c, x) /\ s[1] \in Handshakes
      BY <1>0, <1>3, <1>9, <2>1, HandshakeIsOne DEF LinkInv
    <3>2. Handshake(p) = Handshake(x)
      BY <1>6, <1>9, <2>1, <3>1 DEF Greeted
    <3>3. Handshake(p).id = p /\ Handshake(x).id = x
      BY DEF Handshake
    <3> QED BY <3>2, <3>3
  <2>3. conn[c].to = p /\ n # p
    BY <1>4, <1>5, <2>2 DEF Stream, Other
  <2>4. Quiet(c, n)
    BY <1>4, <1>6, <1>7, <2>2, <2>3 DEF Stream
  <2>5. PICK q \in Seq(Frames) : q = remote[n][p].queue
    BY <1>0, RemoteType
  <2>6. PICK t \in Seq(Frames \cup Handshakes) : t = Tail(s)
    BY <2>1
  <2>7. stream[c][n] \in Seq(Frames \cup Handshakes)
    BY <1>0, <1>3, StreamType
  <2>8. PICK w : w = IF conn[c].up THEN stream[c][n] \o q ELSE stream[c][n]
    OBVIOUS
  <2>9. /\ w \in Seq(Frames \cup Handshakes)
        /\ Elems(w) \subseteq Elems(stream[c][n]) \cup Elems(q)
        /\ \A o : Holding(stream[c][n], o) => Holding(w, o)
        /\ conn[c].up => \A o : Holding(q, o) => Holding(w, o)
    <3>1. /\ stream[c][n] \o q \in Seq(Frames \cup Handshakes)
          /\ Elems(stream[c][n] \o q) = Elems(stream[c][n]) \cup Elems(q)
          /\ \A o : Holding(stream[c][n], o) \/ Holding(q, o) => Holding(stream[c][n] \o q, o)
      BY <2>7, HoldingConcat
    <3>2. CASE conn[c].up
      BY <2>8, <3>1, <3>2
    <3>3. CASE ~conn[c].up
      BY <2>7, <2>8, <3>3
    <3> QED BY <3>2, <3>3
  <2>10. PICK r \in Remotes : r = [fd |-> c, status |-> "HEADER", queue |-> <<>>]
    BY <1>3, HeaderRecord
  <2>11. /\ remote' = [remote EXCEPT ![n][p].status = "HEADER", ![n][p].queue = <<>>]
         /\ stream' = IF conn[c].up THEN [Taken(n, c) EXCEPT ![c][n] = @ \o q] ELSE Taken(n, c)
         /\ UNCHANGED conn
    BY <1>1, <1>5, <1>6, <1>9, <2>5 DEF CheckId
  <2>12. remote' = SetRemote(n, p, r)
    <3>1. remote[n][p] \in Remotes
      BY <1>0, RemoteType
    <3>2. [[remote[n][p] EXCEPT !.status = "HEADER"] EXCEPT !.queue = <<>>] = r
      <4>1. PICK r0 \in Remotes : r0 = remote[n][p]
        BY <3>1
      <4>2. PICK u, q0 : r0 = [fd |-> c, status |-> u, queue |-> q0]
        BY <1>1, <4>1 DEF Remotes
      <4>3. PICK r1 : r1 = [r0 EXCEPT !.status = "HEADER"]
        OBVIOUS
      <4>4. r1 = [fd |-> c, status |-> "HEADER", queue |-> q0]
        BY <4>2, <4>3
      <4>5. [r1 EXCEPT !.queue = <<>>] = [fd |-> c, status |-> "HEADER", queue |-> <<>>]
        BY <4>4
      <4> QED BY <2>10, <4>1, <4>3, <4>5
    <3> QED BY <1>0, <2>11, <3>2 DEF SetRemote, HarborType
  <2>13. /\ remote' \in [Nodes -> [Nodes -> Remotes]]
         /\ remote'[n][p].fd = c /\ remote'[n][p].status = "HEADER"
         /\ remote'[n][p].queue = <<>>
         /\ \A a, b \in Nodes : ~(a = n /\ b = p) => remote'[a][b] = remote[a][b]
    BY <1>0, <2>10, <2>12, RemoteUpdate
  <2>14. /\ stream' \in [Conns -> [Nodes -> Seq(Frames \cup Handshakes)]]
         /\ stream'[c][p] = t /\ stream'[c][n] = w
         /\ \A d \in Conns, z \in Nodes :
               d # c \/ z \notin {p, n} => stream'[d][z] = stream[d][z]
    <3>1. Taken(n, c) = [stream EXCEPT ![c][p] = t]
      BY <1>5, <1>6, <2>2, <2>6 DEF Taken
    <3>2. stream \in [Conns -> [Nodes -> Seq(Frames \cup Handshakes)]]
      BY <1>0 DEF HarborType
    <3>3. PICK v \in Seq(Frames \cup Handshakes) : v = w
      BY <2>9
    <3>4. CASE conn[c].up
      <4>1. stream' = SetStreams(c, p, t, n, v)
        BY <1>3, <2>3, <2>8, <2>11, <3>1, <3>2, <3>3, <3>4 DEF SetStreams
      <4>2. /\ stream' \in [Conns -> [Nodes -> Seq(Frames \cup Handshakes)]]
            /\ stream'[c][p] = t /\ stream'[c][n] = v
            /\ \A d \in Conns, z \in Nodes :
                  d # c \/ z \notin {p, n} => stream'[d][z] = stream[d][z]
        <5>1. HarborType /\ c \in Conns /\ p # n
          BY <1>0, <1>3, <2>3
        <5> QED BY <3>2, <4>1, <5>1 DEF SetStreams
      <4> QED BY <3>3, <4>2
    <3>5. CASE ~conn[c].up
      <4>1. stream' = SetStream(c, p, t)
        BY <2>11, <3>1, <3>5 DEF SetStream
      <4>2. /\ stream' \in [Conns -> [Nodes -> Seq(Frames \cup Handshakes)]]
            /\ \A d \in Conns, y \in Nodes :
                  stream'[d][y] = IF d = c /\ y = p THEN t ELSE stream[d][y]
        BY <1>0, <1>3, <4>1, StreamSet
      <4>3. w = stream[c][n]
        BY <2>8, <3>5
      <4> QED BY <1>3, <2>3, <4>2, <4>3
    <3> QED BY <3>4, <3>5
  <2>15. HarborType'
    BY <1>0, <1>2, <2>11, <2>13, <2>14 DEF HarborType
  <2>16. \A d \in Conns, y \in Nodes : StreamStep(d, y)
    <3> SUFFICES ASSUME NEW d \in Conns, NEW y \in Nodes PROVE StreamStep(d, y)
      OBVIOUS
    <3>1. CASE d = c /\ y = p
      BY <1>6, <1>7, <2>2, <2>6, <2>14, <3>1 DEF StreamStep
    <3>2. CASE d = c /\ y = n
      <4>1. CASE conn[c].up
        <5>1. stream'[d][y] = stream[d][y] \o q /\ remote[y][p].fd = d
          BY <1>1, <2>8, <2>14, <3>2, <4>1
        <5> QED BY <2>5, <5>1 DEF StreamStep
      <4>2. CASE ~conn[c].up
        BY <2>8, <2>14, <3>2, <4>2 DEF StreamStep
      <4> QED BY <4>1, <4>2
    <3>3. CASE d # c \/ y \notin {p, n}
      BY <2>14, <3>3 DEF StreamStep
    <3> QED BY <3>1, <3>2, <3>3
  <2>17. LinkInv'
    <3>1. Quiet(c, n)' /\ Quiet(c, p)'
      <4>1. Greeted(c, n) /\ Greeted(c, p)
        BY <1>0, <1>3 DEF LinkInv
      <4> QED BY <1>0, <1>3, <1>6, <1>7, <2>2, <2>4, <2>6, <2>14, <2>16, <4>1, StreamStepKeeps
    <3>2. Other(c, n)' = p
      BY <1>5, <2>2, <2>11 DEF Other
    <3>3. Holds(n, p)'
      BY <1>2, <1>3, <1>4, <2>11, <2>13, <3>1, <3>2 DEF Holds
    <3>4. \A a, b \in Nodes : Holds(a, b)' \/
             (/\ remote'[a][b].fd = remote[a][b].fd
              /\ remote'[a][b].status = remote[a][b].status)
      BY <2>13, <3>3
    <3> QED BY <1>0, <2>11, <2>16, <3>4, LinkKept
  <2>18. \A d, y : Other(d, y)' = Other(d, y)
    BY <2>11 DEF Other
  <2>19. Numbered' /\ NameInv' /\ \A f \in Frames : Good(f) => Good(f)'
    BY <1>0, <1>2, GoodSame
  <2>20. FrameInv'
    <3>1. \A a, b \in Nodes : \A f \in Elems(remote'[a][b].queue) :
             f \in Elems(remote[a][b].queue)
      BY <2>13, ElemsEmpty
    <3>2. \A f \in Elems(q) : Good(f)' /\ f.m.to = p
      <4> SUFFICES ASSUME NEW f \in Elems(q) PROVE Good(f)' /\ f.m.to = p
        OBVIOUS
      <4>1. f \in Frames
        BY DEF Elems
      <4>2. Good(f) /\ f.m.to = p
        BY <1>0, <2>5 DEF FrameInv, QueueInv
      <4> QED BY <2>19, <4>1, <4>2
    <3>3. ASSUME NEW d \in Conns, NEW y \in Nodes, NEW f \in Elems(stream'[d][y])
          PROVE  f \in Elems(stream[d][y]) \/ (Good(f)' /\ f.m.to = Other(d, y)')
      <4>1. CASE d = c /\ y = p
        BY <1>6, <2>1, <2>2, <2>6, <2>14, <4>1
      <4>2. CASE d = c /\ y = n
        BY <1>5, <2>2, <2>9, <2>14, <2>18, <3>2, <4>2
      <4>3. CASE d # c \/ y \notin {p, n}
        BY <2>14, <4>3
      <4> QED BY <4>1, <4>2, <4>3
    <3> QED BY <1>0, <1>2, <2>15, <2>18, <2>19, <3>1, <3>3, FrameStep
  <2>21. \A a, b : Failed(a, b) => Failed(a, b)'
    BY <2>11 DEF Failed
  <2>22. \A o : Arrived(o) => Arrived(o)'
    BY <1>2 DEF Arrived
  <2>23. ASSUME NEW d \in Conns, NEW y \in Nodes, NEW o, Holding(stream[d][y], o)
         PROVE  Holding(stream'[d][y], o)
    <3>1. CASE d = c /\ y = p
      BY <1>6, <2>1, <2>2, <2>6, <2>14, <2>23, <3>1
    <3>2. CASE d = c /\ y = n
      BY <2>9, <2>14, <2>23, <3>2
    <3>3. CASE d # c \/ y \notin {p, n}
      BY <2>14, <2>23, <3>3
    <3> QED BY <3>1, <3>2, <3>3
  <2>24. ASSUME NEW o \in sent PROVE Safe(o)'
    <3>1. o.from \in Nodes /\ o.to \in Nodes /\ Safe(o)
      BY <1>0 DEF HarborType, Msgs, SafeInv
    <3>2. CASE o.from = n /\ o.to = p
      <4>1. CASE Failed(n, p) \/ Arrived(o) \/ (~name[n].known /\ Holding(name[n].queue, o))
        BY <1>2, <2>21, <2>22, <3>2, <4>1 DEF Safe
      <4>2. CASE Holding(q, o)
        <5>1. CASE conn[c].up
          BY <1>2, <2>9, <2>13, <2>14, <3>2, <4>2, <5>1 DEF Safe
        <5>2. CASE ~conn[c].up
          <6>1. Failed(n, p)
            BY <1>1, <1>2, <1>3, <5>2, HeldFails
          <6> QED BY <2>21, <3>2, <6>1 DEF Safe
        <5> QED BY <5>1, <5>2
      <4>3. CASE Holding(stream[c][n], o)
        BY <1>2, <2>9, <2>13, <2>14, <3>2, <4>3 DEF Safe
      <4> QED BY <1>1, <2>5, <3>1, <3>2, <4>1, <4>2, <4>3 DEF Safe
    <3>3. CASE ~(o.from = n /\ o.to = p)
      <4>1. remote[o.from][o.to].fd # 0 => remote[o.from][o.to].fd \in Conns
        BY <1>0, <3>1, FdType
      <4>2. remote'[o.from][o.to] = remote[o.from][o.to]
        BY <2>13, <3>1, <3>3
      <4>3. remote[o.from][o.to].fd # 0
                /\ Holding(stream[remote[o.from][o.to].fd][o.from], o)
                => Holding(stream'[remote[o.from][o.to].fd][o.from], o)
        BY <2>23, <3>1, <4>1
      <4> QED BY <1>2, <2>21, <2>22, <3>1, <4>2, <4>3, SafeKept
    <3> QED BY <3>2, <3>3
  <2>25. Down'
    <3> SUFFICES ASSUME NEW a \in Nodes, NEW b \in Nodes, remote'[a][b].status = "DOWN"
                 PROVE  Failed(a, b)'
      BY DEF Down
    <3>1. ~(a = n /\ b = p)
      BY <2>13
    <3> QED BY <1>0, <2>13, <2>21, <3>1 DEF SafeInv, Down
  <2> QED BY <1>2, <2>15, <2>17, <2>20, <2>24, <2>25 DEF HInv, SafeInv
<1> QED BY <1>8, <1>9

(* The greeting of a node, and the frames that follow it.                  *)
LEMMA Greeting ==
    ASSUME NEW n \in Nodes, NEW fs \in Seq(Frames), NEW h, h = <<Handshake(n)>> \o fs
    PROVE  /\ h \in Seq(Frames \cup Handshakes)
           /\ \A f \in Elems(h) : f \in Frames => f \in Elems(fs)
           /\ \A k \in DOMAIN h : h[k] \in Handshakes => k = 1 /\ h[k] = Handshake(n)
           /\ \A o : Holding(fs, o) => Holding(h, o)
<1>1. Handshake(n) \in Handshakes
  BY HandshakeIsOne
<1>2. PICK g \in Seq(Frames \cup Handshakes) : g = <<Handshake(n)>>
  <2>1. <<Handshake(n)>> \in Seq(Frames \cup Handshakes)
    BY <1>1
  <2> QED BY <2>1
<1>3. DOMAIN g = {1} /\ g[1] = Handshake(n) /\ Len(g) = 1
  BY <1>2
<1>4. Elems(g) = {Handshake(n)}
  BY <1>3 DEF Elems
<1>5. fs \in Seq(Frames \cup Handshakes)
  OBVIOUS
<1>6. h \in Seq(Frames \cup Handshakes)
  BY <1>2, <1>5
<1>7. Elems(h) = Elems(g) \cup Elems(fs)
  <2>1. Elems(g \o fs) = Elems(g) \cup Elems(fs)
    BY <1>5, ElemsConcat
  <2> QED BY <1>2, <2>1
<1>8. \A f \in Elems(h) : f \in Frames => f \in Elems(fs)
  BY <1>1, <1>4, <1>7, NeitherBoth
<1>9. ASSUME NEW k \in DOMAIN h, h[k] \in Handshakes PROVE k = 1 /\ h[k] = Handshake(n)
  <2>1. \/ k \in DOMAIN g /\ h[k] = g[k]
        \/ \E j \in DOMAIN fs : h[k] = fs[j]
    <3>1. h = g \o fs
      BY <1>2
    <3>2. k \in DOMAIN (g \o fs)
      BY <3>1
    <3>3. \/ k \in DOMAIN g /\ (g \o fs)[k] = g[k]
          \/ \E j \in DOMAIN fs : (g \o fs)[k] = fs[j] /\ k = Len(g) + j
      BY <1>5, <3>2, ConcatIndex
    <3> QED BY <3>1, <3>3
  <2>2. \A j \in DOMAIN fs : fs[j] \in Frames
    OBVIOUS
  <2> QED BY <1>3, <1>9, <2>1, <2>2, NeitherBoth
<1>10. \A o : Holding(fs, o) => Holding(h, o)
  BY <1>7 DEF Holding
<1> QED BY <1>6, <1>8, <1>9, <1>10

(* The command A.  Nothing was written by the end that is asked, and what  *)
(* it writes starts with its id.                                           *)
LEMMA CommandAInv ==
    ASSUME HInv, NEW c \in DOMAIN conn, CommandA(c)
    PROVE  HInv'
<1>0. HarborType /\ LinkInv /\ FrameInv /\ SafeInv
  BY DEF HInv
<1>1. c \in Conns /\ c # 0 /\ conn[c].from \in Nodes /\ conn[c].to \in Nodes
  BY <1>0, ConnType
<1>2. PICK n \in Nodes, q \in Nodes : n = conn[c].from /\ q = conn[c].to
  BY <1>1
<1>3. PICK s \in Seq(Frames \cup Handshakes) : s = stream[c][n]
  BY <1>0, <1>1, StreamType
<1>4. /\ s # <<>> /\ Head(s) = Handshake(n)
      /\ UNCHANGED name /\ UNCHANGED conn /\ UNCHANGED got /\ UNCHANGED errors
      /\ UNCHANGED sent /\ UNCHANGED moved /\ UNCHANGED early
  BY <1>2, <1>3 DEF CommandA, ghostVars
<1>5. Stream(c) /\ n # q /\ Greeted(c, n)
  BY <1>0, <1>1, <1>2 DEF LinkInv, Stream
<1>6. /\ Tail(s) \in Seq(Frames \cup Handshakes) /\ Elems(Tail(s)) \subseteq Elems(s)
      /\ Head(s) = s[1] /\ 1 \in DOMAIN s /\ Head(s) \notin Frames
      /\ \A o : Holding(s, o) => Holding(Tail(s), o)
  BY <1>4, HoldingTail, FrameOrHandshake
<1>7. PICK t \in Seq(Frames \cup Handshakes) : t = Tail(s)
  BY <1>6
<1>8. \A a, b : Failed(a, b) => Failed(a, b)'
  BY <1>4 DEF Failed
<1>9. \A d, y : Other(d, y)' = Other(d, y)
  BY <1>4 DEF Other
<1>10. \A o : Arrived(o) => Arrived(o)'
  BY <1>4 DEF Arrived
<1>11. Numbered' /\ NameInv' /\ \A f \in Frames : Good(f) => Good(f)'
  BY <1>0, <1>4, GoodSame
<1>12. \A o \in sent : o.from \in Nodes /\ o.to \in Nodes /\ Safe(o)
  BY <1>0 DEF HarborType, Msgs, SafeInv
<1>13. CASE remote[q][n].fd # 0
  <2>1. stream' = SetStream(c, n, t) /\ UNCHANGED remote
    BY <1>2, <1>3, <1>7, <1>13 DEF CommandA, SetStream
  <2>2. /\ stream' \in [Conns -> [Nodes -> Seq(Frames \cup Handshakes)]]
        /\ \A d \in Conns, y \in Nodes :
              stream'[d][y] = IF d = c /\ y = n THEN t ELSE stream[d][y]
    BY <1>0, <1>1, <2>1, StreamSet
  <2>3. HarborType'
    BY <1>0, <1>4, <2>1, <2>2 DEF HarborType
  <2>4. LinkInv'
    <3>1. \A d \in Conns, y \in Nodes : StreamStep(d, y)
      BY <1>3, <1>4, <1>7, <2>2 DEF StreamStep
    <3> QED BY <1>0, <1>4, <2>1, <3>1, LinkKept
  <2>5. FrameInv'
    <3>1. \A d \in Conns, y \in Nodes : Elems(stream'[d][y]) \subseteq Elems(stream[d][y])
      BY <1>3, <1>6, <1>7, <2>2
    <3> QED BY <1>0, <1>4, <1>9, <1>11, <2>1, <2>3, <3>1, FrameStep
  <2>6. ASSUME NEW o \in sent PROVE Safe(o)'
    <3>1. remote[o.from][o.to].fd # 0 => remote[o.from][o.to].fd \in Conns
      BY <1>0, <1>12, FdType
    <3>2. \A d \in Conns, y \in Nodes : Holding(stream[d][y], o) => Holding(stream'[d][y], o)
      BY <1>3, <1>6, <1>7, <2>2
    <3>3. remote[o.from][o.to].fd # 0
              /\ Holding(stream[remote[o.from][o.to].fd][o.from], o)
              => Holding(stream'[remote[o.from][o.to].fd][o.from], o)
      BY <1>12, <3>1, <3>2
    <3> QED BY <1>4, <1>8, <1>10, <1>12, <2>1, <3>3, SafeKept
  <2>7. Down'
    BY <1>0, <1>8, <2>1 DEF SafeInv, Down
  <2> QED BY <1>4, <2>3, <2>4, <2>5, <2>6, <2>7 DEF HInv, SafeInv
<1>14. CASE remote[q][n].fd = 0
  <2>1. Answer(q, n, c)
    BY <1>2, <1>14 DEF CommandA
  <2>2. ~Quiet(c, n) /\ stream[c][q] = <<>>
    BY <1>2, <1>3, <1>5, <1>6 DEF Quiet, Stream
  <2>3. PICK fs \in Seq(Frames) : fs = remote[q][n].queue
    BY <1>0, RemoteType
  <2>4. PICK h : h = <<Handshake(q)>> \o fs
    OBVIOUS
  <2>5. /\ h \in Seq(Frames \cup Handshakes)
        /\ \A f \in Elems(h) : f \in Frames => f \in Elems(fs)
        /\ \A k \in DOMAIN h : h[k] \in Handshakes => k = 1 /\ h[k] = Handshake(q)
        /\ \A o : Holding(fs, o) => Holding(h, o)
    BY <2>4, Greeting
  <2>6. PICK w : w = IF conn[c].up THEN h ELSE <<>>
    OBVIOUS
  <2>7. /\ w \in Seq(Frames \cup Handshakes)
        /\ \A f \in Elems(w) : f \in Frames => f \in Elems(fs)
        /\ \A k \in DOMAIN w : w[k] \in Handshakes => k = 1 /\ w[k] = Handshake(q)
        /\ conn[c].up => \A o : Holding(fs, o) => Holding(w, o)
    <3>1. CASE conn[c].up
      BY <2>5, <2>6, <3>1
    <3>2. CASE ~conn[c].up
      <4>1. w = <<>>
        BY <2>6, <3>2
      <4>2. w \in Seq(Frames \cup Handshakes) /\ DOMAIN w = {}
        BY <4>1
      <4> QED BY <3>2, <4>1, <4>2, ElemsEmpty
    <3> QED BY <3>1, <3>2
  <2>8. PICK r \in Remotes : r = [fd |-> c, status |-> "HEADER", queue |-> <<>>]
    BY <1>1, HeaderRecord
  <2>9. remote' = SetRemote(q, n, r)
    BY <2>1, <2>8 DEF Answer, SetRemote
  <2>10. /\ remote' \in [Nodes -> [Nodes -> Remotes]]
         /\ remote'[q][n].fd = c /\ remote'[q][n].status = "HEADER"
         /\ remote'[q][n].queue = <<>>
         /\ \A a, b \in Nodes : ~(a = q /\ b = n) => remote'[a][b] = remote[a][b]
    BY <1>0, <2>8, <2>9, RemoteUpdate
  <2>11. /\ stream' \in [Conns -> [Nodes -> Seq(Frames \cup Handshakes)]]
         /\ stream'[c][n] = t /\ stream'[c][q] = w
         /\ \A d \in Conns, z \in Nodes :
               d # c \/ z \notin {n, q} => stream'[d][z] = stream[d][z]
    <3>1. stream \in [Conns -> [Nodes -> Seq(Frames \cup Handshakes)]]
      BY <1>0 DEF HarborType
    <3>2. stream' = [send_remote(q, c, h) EXCEPT ![c][n] = Tail(@)]
      BY <2>1, <2>3, <2>4 DEF Answer
    <3>3. CASE conn[c].up
      <4>1. stream[c][q] \o h = h
        BY <2>2, <2>5
      <4>2. send_remote(q, c, h) = SetStream(c, q, h)
        BY <3>3, <4>1 DEF send_remote, SetStream
      <4>3. stream' = SetStreams(c, q, h, n, t)
        BY <1>1, <1>3, <1>5, <1>7, <3>1, <3>2, <4>2 DEF SetStream, SetStreams
      <4>4. w = h
        BY <2>6, <3>3
      <4> QED BY <1>1, <1>5, <2>5, <3>1, <4>3, <4>4 DEF SetStreams
    <3>4. CASE ~conn[c].up
      <4>1. stream' = SetStream(c, n, t)
        BY <1>3, <1>7, <3>2, <3>4 DEF send_remote, SetStream
      <4>2. /\ stream' \in [Conns -> [Nodes -> Seq(Frames \cup Handshakes)]]
            /\ \A d \in Conns, y \in Nodes :
                  stream'[d][y] = IF d = c /\ y = n THEN t ELSE stream[d][y]
        BY <1>0, <1>1, <4>1, StreamSet
      <4>3. w = <<>>
        BY <2>6, <3>4
      <4> QED BY <1>1, <1>5, <2>2, <4>2, <4>3
    <3> QED BY <3>3, <3>4
  <2>12. HarborType'
    BY <1>0, <1>4, <2>10, <2>11 DEF HarborType
  <2>13. Quiet(c, n)'
    <3>1. StreamStep(c, n)
      BY <1>3, <1>4, <1>7, <2>11 DEF StreamStep
    <3> QED BY <1>0, <1>1, <1>3, <1>4, <1>5, <1>7, <2>11, <3>1, StreamStepKeeps
  <2>14. LinkInv'
    <3>1. ASSUME NEW a \in Nodes, NEW b \in Nodes PROVE Holds(a, b)'
      <4>1. CASE a = q /\ b = n
        <5>1. Other(c, q)' = n
          BY <1>2, <1>5, <1>9 DEF Other
        <5>2. conn'[c].from = n /\ conn'[c].to = q /\ c \in DOMAIN conn'
          BY <1>2, <1>4
        <5> QED BY <1>1, <2>10, <2>13, <4>1, <5>1, <5>2 DEF Holds
      <4>2. CASE ~(a = q /\ b = n)
        <5>0. PICK d \in 0 .. MaxConn : d = remote[a][b].fd
          BY <1>0, RemoteType
        <5>1. remote'[a][b] = remote[a][b] /\ Holds(a, b)
          BY <1>0, <2>10, <4>2 DEF LinkInv
        <5>2. CASE remote[a][b].status = "HEADER"
          <6>1. d # c /\ d # 0 /\ d \in DOMAIN conn /\ Quiet(d, conn[d].from) /\ Quiet(d, b)
            BY <1>2, <2>2, <5>0, <5>1, <5>2 DEF Holds
          <6>2. d \in Conns /\ conn[d].from \in Nodes
            BY <1>0, <6>1, ConnType
          <6>3. PICK y \in Nodes : y = conn[d].from /\ y = conn'[d].from
            BY <1>4, <6>2
          <6>4. Quiet(d, y)' /\ Quiet(d, b)'
            <7>1. stream'[d][y] = stream[d][y] /\ stream'[d][b] = stream[d][b]
              BY <2>11, <6>1, <6>2
            <7>2. Quiet(d, y) /\ Quiet(d, b)
              BY <6>1, <6>3
            <7> QED BY <7>1, <7>2 DEF Quiet
          <6>5. Quiet(d, conn[d].from)'
            BY <6>3, <6>4 DEF Quiet
          <6>6. Other(d, a)' = Other(d, a)
            BY <1>9
          <6> QED BY <1>4, <5>0, <5>1, <5>2, <6>1, <6>4, <6>5, <6>6 DEF Holds
        <5>3. CASE remote[a][b].status # "HEADER"
          BY <1>4, <5>0, <5>1, <5>3 DEF Holds
        <5> QED BY <5>2, <5>3
      <4> QED BY <4>1, <4>2
    <3>2. ASSUME NEW d \in DOMAIN conn PROVE Stream(d)'
      <4>1. Stream(d) /\ d \in Conns /\ conn[d].from \in Nodes /\ conn[d].to \in Nodes
        BY <1>0, ConnType DEF LinkInv
      <4>2. CASE d = c
        <5>1. \A y \in Nodes : y \notin {n, q} => stream'[c][y] = <<>>
          BY <1>2, <1>5, <2>11, <1>1 DEF Stream
        <5>2. conn'[c].from = n /\ conn'[c].to = q
          BY <1>2, <1>4
        <5> QED BY <1>5, <2>13, <4>2, <5>1, <5>2 DEF Stream
      <4>3. CASE d # c
        <5>1. \A y \in Nodes : stream'[d][y] = stream[d][y]
          BY <2>11, <4>1, <4>3
        <5> QED BY <1>4, <4>1, <5>1 DEF Stream, Quiet
      <4> QED BY <4>2, <4>3
    <3>3. ASSUME NEW d \in Conns, d \notin DOMAIN conn, NEW y \in Nodes
          PROVE  stream'[d][y] = <<>>
      BY <1>0, <2>11, <3>3 DEF LinkInv
    <3>4. ASSUME NEW d \in Conns, NEW y \in Nodes PROVE Greeted(d, y)'
      <4>1. CASE d = c /\ y = n
        BY <2>13, <4>1, NeitherBoth DEF Greeted, Quiet
      <4>2. CASE d = c /\ y = q
        BY <2>7, <2>11, <4>2 DEF Greeted
      <4>3. CASE d # c \/ y \notin {n, q}
        <5>1. stream'[d][y] = stream[d][y] /\ Greeted(d, y)
          BY <1>0, <2>11, <4>3 DEF LinkInv
        <5> QED BY <5>1 DEF Greeted
      <4> QED BY <4>1, <4>2, <4>3
    <3> QED BY <1>4, <3>1, <3>2, <3>3, <3>4 DEF LinkInv
  <2>15. FrameInv'
    <3>1. \A a, b \in Nodes : \A f \in Elems(remote'[a][b].queue) :
             f \in Elems(remote[a][b].queue)
      BY <2>10, ElemsEmpty
    <3>2. \A f \in Elems(fs) : Good(f)' /\ f.m.to = n
      <4> SUFFICES ASSUME NEW f \in Elems(fs) PROVE Good(f)' /\ f.m.to = n
        OBVIOUS
      <4>1. f \in Frames
        BY DEF Elems
      <4>2. Good(f) /\ f.m.to = n
        BY <1>0, <2>3 DEF FrameInv, QueueInv
      <4> QED BY <1>11, <4>1, <4>2
    <3>3. Other(c, q)' = n
      BY <1>2, <1>5, <1>9 DEF Other
    <3>4. ASSUME NEW d \in Conns, NEW y \in Nodes, NEW f \in Elems(stream'[d][y])
          PROVE  \/ f \notin Frames
                 \/ f \in Elems(stream[d][y])
                 \/ Good(f)' /\ f.m.to = Other(d, y)'
      <4>1. CASE d = c /\ y = n
        BY <1>3, <1>6, <1>7, <2>11, <4>1
      <4>2. CASE d = c /\ y = q
        BY <2>7, <2>11, <3>2, <3>3, <4>2
      <4>3. CASE d # c \/ y \notin {n, q}
        BY <2>11, <4>3
      <4> QED BY <4>1, <4>2, <4>3
    <3> QED BY <1>0, <1>4, <1>9, <1>11, <2>12, <3>1, <3>4, FrameStep
  <2>16. ASSUME NEW d \in Conns, NEW y \in Nodes, NEW o, Holding(stream[d][y], o)
         PROVE  Holding(stream'[d][y], o)
    <3>1. CASE d = c /\ y = n
      BY <1>3, <1>6, <1>7, <2>11, <2>16, <3>1
    <3>2. CASE d = c /\ y = q
      BY <2>2, <2>16, <3>2, ElemsEmpty DEF Holding
    <3>3. CASE d # c \/ y \notin {n, q}
      BY <2>11, <2>16, <3>3
    <3> QED BY <3>1, <3>2, <3>3
  <2>17. ASSUME NEW o \in sent PROVE Safe(o)'
    <3>2. CASE o.from = q /\ o.to = n
      <4>1. CASE Failed(q, n) \/ Arrived(o) \/ (~name[q].known /\ Holding(name[q].queue, o))
        BY <1>4, <1>8, <1>10, <3>2, <4>1 DEF Safe
      <4>2. CASE Holding(fs, o)
        <5>1. CASE conn[c].up
          BY <1>1, <2>7, <2>10, <2>11, <3>2, <4>2, <5>1 DEF Safe
        <5>2. CASE ~conn[c].up
          <6>1. Failed(q, n)
            BY <1>2, <5>2 DEF Failed
          <6> QED BY <1>8, <3>2, <6>1 DEF Safe
        <5> QED BY <5>1, <5>2
      <4> QED BY <1>12, <1>14, <2>3, <3>2, <4>1, <4>2 DEF Safe
    <3>3. CASE ~(o.from = q /\ o.to = n)
      <4>1. remote[o.from][o.to].fd # 0 => remote[o.from][o.to].fd \in Conns
        BY <1>0, <1>12, FdType
      <4>2. remote'[o.from][o.to] = remote[o.from][o.to]
        BY <1>12, <2>10, <3>3
      <4>3. remote[o.from][o.to].fd # 0
                /\ Holding(stream[remote[o.from][o.to].fd][o.from], o)
                => Holding(stream'[remote[o.from][o.to].fd][o.from], o)
        BY <1>12, <2>16, <4>1
      <4> QED BY <1>4, <1>8, <1>10, <1>12, <4>2, <4>3, SafeKept
    <3> QED BY <3>2, <3>3
  <2>18. Down'
    <3> SUFFICES ASSUME NEW a \in Nodes, NEW b \in Nodes, remote'[a][b].status = "DOWN"
                 PROVE  Failed(a, b)'
      BY DEF Down
    <3>1. ~(a = q /\ b = n)
      BY <2>10
    <3> QED BY <1>0, <1>8, <2>10, <3>1 DEF SafeInv, Down
  <2> QED BY <1>4, <2>12, <2>14, <2>15, <2>17, <2>18 DEF HInv, SafeInv
<1> QED BY <1>13, <1>14

(* The command S opens a connection, on which nothing was written yet.     *)
LEMMA CommandSInv ==
    ASSUME HInv, NEW n \in Nodes, NEW p \in Nodes, NEW q \in Nodes, CommandS(n, p, q)
    PROVE  HInv'
<1>0. HarborType /\ LinkInv /\ FrameInv /\ SafeInv
  BY DEF HInv
<1>1. PICK c : c = Len(conn) + 1
  OBVIOUS
<1>2. PICK l : l = [from |-> n, for |-> p, to |-> q, up |-> TRUE]
  OBVIOUS
<1>3. /\ Len(conn) < MaxConn /\ q # n /\ remote[n][p].fd = 0
      /\ conn' = Append(conn, l)
      /\ stream' = SetStream(c, n, <<Handshake(n)>>)
      /\ remote' = [remote EXCEPT ![n][p].fd = c, ![n][p].status = "HANDSHAKE"]
      /\ UNCHANGED name /\ UNCHANGED got /\ UNCHANGED errors /\ UNCHANGED sent
      /\ UNCHANGED moved /\ UNCHANGED early
  BY <1>1, <1>2 DEF CommandS, SetStream, ghostVars
<1>4. l \in Links /\ l.from = n /\ l.for = p /\ l.to = q
  BY <1>2 DEF Links
<1>5. conn \in Seq(Links) /\ Len(conn) \in Nat /\ DOMAIN conn = 1 .. Len(conn)
  BY <1>0 DEF HarborType
<1>6. c \in Conns /\ c # 0 /\ c \notin DOMAIN conn
  BY <1>1, <1>3, <1>5, HarborFacts DEF Conns
<1>7. /\ conn' \in Seq(Links) /\ Len(conn') <= MaxConn
      /\ DOMAIN conn' = DOMAIN conn \cup {c} /\ conn'[c] = l
      /\ \A d \in DOMAIN conn : conn'[d] = conn[d]
  BY <1>1, <1>3, <1>4, <1>5, HarborFacts
<1>8. PICK h \in Seq(Frames \cup Handshakes) : h = <<Handshake(n)>>
  <2>1. Handshake(n) \in Handshakes
    BY HandshakeIsOne
  <2>2. <<Handshake(n)>> \in Seq(Frames \cup Handshakes)
    BY <2>1
  <2> QED BY <2>2
<1>9. DOMAIN h = {1} /\ h[1] = Handshake(n) /\ \A f \in Elems(h) : f \notin Frames
  BY <1>8, FrameOrHandshake DEF Elems
<1>10. /\ stream' \in [Conns -> [Nodes -> Seq(Frames \cup Handshakes)]]
       /\ \A d \in Conns, y \in Nodes :
             stream'[d][y] = IF d = c /\ y = n THEN h ELSE stream[d][y]
  <2>1. stream' = SetStream(c, n, h)
    BY <1>3, <1>8
  <2> QED BY <1>0, <1>6, <2>1, StreamSet
<1>11. PICK u \in Seq(Frames) : u = remote[n][p].queue
  BY <1>0, RemoteType
<1>12. PICK r \in Remotes : r = [fd |-> c, status |-> "HANDSHAKE", queue |-> u]
  <2>1. [fd |-> c, status |-> "HANDSHAKE", queue |-> u] \in Remotes
    BY <1>6, <1>11, HarborFacts DEF Remotes, Statuses, Conns
  <2> QED BY <2>1
<1>13. remote' = SetRemote(n, p, r)
  <2>1. PICK r0 \in Remotes : r0 = remote[n][p]
    BY <1>0, RemoteType
  <2>2. PICK e, v : r0 = [fd |-> e, status |-> v, queue |-> u]
    BY <1>11, <2>1 DEF Remotes
  <2>3. PICK r1 : r1 = [r0 EXCEPT !.fd = c]
    OBVIOUS
  <2>4. r1 = [fd |-> c, status |-> v, queue |-> u]
    BY <2>2, <2>3
  <2>5. [r1 EXCEPT !.status = "HANDSHAKE"] = [fd |-> c, status |-> "HANDSHAKE", queue |-> u]
    BY <2>4
  <2>6. [[remote[n][p] EXCEPT !.fd = c] EXCEPT !.status = "HANDSHAKE"] = r
    BY <1>12, <2>1, <2>3, <2>5
  <2> QED BY <1>0, <1>3, <2>6 DEF SetRemote, HarborType
<1>14. /\ remote' \in [Nodes -> [Nodes -> Remotes]]
       /\ remote'[n][p].fd = c /\ remote'[n][p].status = "HANDSHAKE"
       /\ remote'[n][p].queue = u
       /\ \A a, b \in Nodes : ~(a = n /\ b = p) => remote'[a][b] = remote[a][b]
  BY <1>0, <1>12, <1>13, RemoteUpdate
<1>15. HarborType'
  BY <1>0, <1>3, <1>7, <1>10, <1>14 DEF HarborType
<1>16. \A d \in Conns : d # c => \A y \in Nodes : stream'[d][y] = stream[d][y]
  BY <1>10
<1>17. \A y \in Nodes : stream[c][y] = <<>>
  BY <1>0, <1>6 DEF LinkInv
<1>18. \A d \in DOMAIN conn : d \in Conns /\ d # c /\ conn[d].from \in Nodes /\ conn[d].to \in Nodes
  BY <1>0, <1>6, ConnType
<1>19. LinkInv'
  <2>1. ASSUME NEW a \in Nodes, NEW b \in Nodes PROVE Holds(a, b)'
    <3>1. CASE a = n /\ b = p
      BY <1>4, <1>6, <1>7, <1>14, <3>1 DEF Holds
    <3>2. CASE ~(a = n /\ b = p)
      <4>0. PICK d \in 0 .. MaxConn : d = remote[a][b].fd
        BY <1>0, RemoteType
      <4>1. remote'[a][b] = remote[a][b] /\ Holds(a, b)
        BY <1>0, <1>14, <3>2 DEF LinkInv
      <4>2. CASE d = 0
        BY <4>0, <4>1, <4>2 DEF Holds
      <4>3. CASE d # 0
        <5>1. /\ d \in DOMAIN conn /\ d \in DOMAIN conn' /\ conn'[d] = conn[d]
              /\ d \in Conns /\ d # c
          BY <1>7, <1>18, <4>0, <4>1, <4>3 DEF Holds
        <5>2. PICK y \in Nodes : y = conn[d].from /\ y = conn'[d].from
          BY <1>18, <5>1
        <5>3. (Quiet(d, y) => Quiet(d, y)') /\ (Quiet(d, b) => Quiet(d, b)')
          BY <1>16, <5>1 DEF Quiet
        <5>4. Quiet(d, conn[d].from) => Quiet(d, conn[d].from)'
          BY <5>2, <5>3 DEF Quiet
        <5>5. Other(d, a)' = Other(d, a)
          BY <5>1 DEF Other
        <5> QED BY <4>0, <4>1, <4>3, <5>1, <5>3, <5>4, <5>5 DEF Holds
      <4> QED BY <4>2, <4>3
    <3> QED BY <3>1, <3>2
  <2>2. ASSUME NEW d \in DOMAIN conn' PROVE Stream(d)'
    <3>1. CASE d = c
      <4>1. \A y \in Nodes : y # n => stream'[c][y] = <<>>
        BY <1>6, <1>10, <1>17
      <4>2. conn'[c].from = n /\ conn'[c].to = q
        BY <1>4, <1>7
      <4> QED BY <1>3, <3>1, <4>1, <4>2 DEF Stream
    <3>2. CASE d # c
      <4>1. d \in DOMAIN conn /\ conn'[d] = conn[d] /\ d \in Conns /\ Stream(d)
        BY <1>0, <1>7, <1>18, <3>2 DEF LinkInv
      <4>2. \A y \in Nodes : stream'[d][y] = stream[d][y]
        BY <1>16, <3>2, <4>1
      <4> QED BY <1>18, <4>1, <4>2 DEF Stream, Quiet
    <3> QED BY <3>1, <3>2
  <2>3. ASSUME NEW d \in Conns, d \notin DOMAIN conn', NEW y \in Nodes
        PROVE  stream'[d][y] = <<>>
    BY <1>0, <1>7, <1>16, <2>3 DEF LinkInv
  <2>4. ASSUME NEW d \in Conns, NEW y \in Nodes PROVE Greeted(d, y)'
    <3>1. CASE d = c /\ y = n
      BY <1>9, <1>10, <3>1 DEF Greeted
    <3>2. CASE ~(d = c /\ y = n)
      <4>1. stream'[d][y] = stream[d][y] /\ Greeted(d, y)
        BY <1>0, <1>10, <3>2 DEF LinkInv
      <4> QED BY <4>1 DEF Greeted
    <3> QED BY <3>1, <3>2
  <2> QED BY <2>1, <2>2, <2>3, <2>4 DEF LinkInv
<1>20. Numbered' /\ NameInv' /\ \A f \in Frames : Good(f) => Good(f)'
  BY <1>0, <1>3, GoodSame
<1>21. FrameInv'
  <2>1. \A a, b \in Nodes : remote'[a][b].queue = remote[a][b].queue
    BY <1>11, <1>14
  <2>2. ASSUME NEW d \in Conns, NEW y \in Nodes, NEW f \in Elems(stream'[d][y])
        PROVE  f \notin Frames \/ (f \in Elems(stream[d][y]) /\ Other(d, y)' = Other(d, y))
    <3>1. CASE d = c /\ y = n
      BY <1>9, <1>10, <3>1
    <3>2. CASE ~(d = c /\ y = n)
      <4>1. f \in Elems(stream[d][y])
        BY <1>10, <3>2
      <4>2. d \in DOMAIN conn
        BY <1>0, <4>1, ElemsEmpty DEF LinkInv
      <4> QED BY <1>7, <4>1, <4>2 DEF Other
    <3> QED BY <3>1, <3>2
  <2> QED BY <1>0, <1>3, <1>15, <1>20, <2>1, <2>2, FrameStep
<1>22. \A a, b : Failed(a, b) => Failed(a, b)'
  BY <1>7, FailedKept
<1>23. \A o : Arrived(o) => Arrived(o)'
  BY <1>3 DEF Arrived
<1>24. ASSUME NEW o \in sent PROVE Safe(o)'
  <2>1. o.from \in Nodes /\ o.to \in Nodes /\ Safe(o)
    BY <1>0 DEF HarborType, Msgs, SafeInv
  <2>2. CASE o.from = n /\ o.to = p
    <3>1. CASE Failed(n, p) \/ Arrived(o) \/ (~name[n].known /\ Holding(name[n].queue, o))
      BY <1>3, <1>22, <1>23, <2>2, <3>1 DEF Safe
    <3>2. CASE Holding(u, o)
      BY <1>14, <2>2, <3>2 DEF Safe
    <3> QED BY <1>3, <1>11, <2>1, <2>2, <3>1, <3>2 DEF Safe
  <2>3. CASE ~(o.from = n /\ o.to = p)
    <3>1. remote[o.from][o.to].fd # 0 => remote[o.from][o.to].fd \in Conns
      BY <1>0, <2>1, FdType
    <3>2. remote'[o.from][o.to] = remote[o.from][o.to]
      BY <1>14, <2>1, <2>3
    <3>3. \A d \in Conns, y \in Nodes : Holding(stream[d][y], o) => Holding(stream'[d][y], o)
      BY <1>10, <1>17, ElemsEmpty DEF Holding
    <3>4. remote[o.from][o.to].fd # 0
              /\ Holding(stream[remote[o.from][o.to].fd][o.from], o)
              => Holding(stream'[remote[o.from][o.to].fd][o.from], o)
      BY <2>1, <3>1, <3>3
    <3> QED BY <1>3, <1>22, <1>23, <2>1, <3>2, <3>4, SafeKept
  <2> QED BY <2>2, <2>3
<1>25. Down'
  <2> SUFFICES ASSUME NEW a \in Nodes, NEW b \in Nodes, remote'[a][b].status = "DOWN"
               PROVE  Failed(a, b)'
    BY DEF Down
  <2>1. ~(a = n /\ b = p)
    BY <1>14
  <2> QED BY <1>0, <1>14, <1>22, <2>1 DEF SafeInv, Down
<1> QED BY <1>3, <1>15, <1>19, <1>21, <1>24, <1>25 DEF HInv, SafeInv

-----------------------------------------------------------------------------
LEMMA InitHInv == Init => HInv
<1> SUFFICES ASSUME Init PROVE HInv
  OBVIOUS
<1>1. /\ conn = <<>> /\ sent = {} /\ errors = {} /\ moved = {} /\ early = {}
      /\ \A n, p \in Nodes : remote[n][p] = [fd |-> 0, status |-> "WAIT", queue |-> <<>>]
      /\ \A n \in Nodes : name[n] = [known |-> FALSE, queue |-> <<>>] /\ got[n] = <<>>
      /\ \A c \in Conns, x \in Nodes : stream[c][x] = <<>>
  BY DEF Init
<1>2. HarborType
  <2>1. [fd |-> 0, status |-> "WAIT", queue |-> <<>>] \in Remotes
    BY HarborFacts DEF Remotes, Statuses
  <2>2. <<>> \in Seq(Frames) /\ <<>> \in Seq(Frames \cup Handshakes) /\ <<>> \in Seq(Links)
    OBVIOUS
  <2>3. IsFiniteSet(sent)
    BY <1>1, FS_EmptySet
  <2>4. [known |-> FALSE, queue |-> <<>>] \in [known : BOOLEAN, queue : Seq(Frames)]
    BY <2>2
  <2>5. /\ remote \in [Nodes -> [Nodes -> Remotes]] /\ got \in [Nodes -> Seq(Frames)]
        /\ name \in [Nodes -> [known : BOOLEAN, queue : Seq(Frames)]]
        /\ stream \in [Conns -> [Nodes -> Seq(Frames \cup Handshakes)]]
    BY <2>1, <2>2, <2>4 DEF Init
  <2>6. conn \in Seq(Links) /\ Len(conn) <= MaxConn
    BY <1>1, <2>2, HarborFacts
  <2> QED BY <1>1, <2>3, <2>5, <2>6 DEF HarborType
<1>3. LinkInv
  <2>1. \A n, p \in Nodes : Holds(n, p)
    BY <1>1 DEF Holds
  <2>2. DOMAIN conn = {}
    BY <1>1
  <2>3. \A c \in Conns, x \in Nodes : Greeted(c, x)
    BY <1>1 DEF Greeted
  <2> QED BY <1>1, <2>1, <2>2, <2>3 DEF LinkInv
<1>4. FrameInv
  <2>1. Numbered /\ NameInv /\ QueueInv /\ StreamInv /\ GotInv
    BY <1>1, ElemsEmpty DEF Numbered, NameInv, QueueInv, StreamInv, GotInv
  <2> QED BY <2>1 DEF FrameInv
<1>5. SafeInv
  BY <1>1 DEF SafeInv, Down
<1> QED BY <1>2, <1>3, <1>4, <1>5 DEF HInv

LEMMA NextHInv == HInv /\ [Next]_vars => HInv'
<1> SUFFICES ASSUME HInv, [Next]_vars PROVE HInv'
  OBVIOUS
<1>1. ASSUME NEW n \in Senders, SendName(n) PROVE HInv'
  BY <1>1, SendNameInv, HarborFacts
<1>2. ASSUME NEW n \in Senders, update_name(n) PROVE HInv'
  BY <1>2, UpdateNameInv, HarborFacts
<1>3. ASSUME NEW n \in Senders, NEW p \in Nodes, SendHandle(n, p) PROVE HInv'
  BY <1>3, SendHandleInv, HarborFacts
<1>4. ASSUME NEW n \in Nodes, NEW p \in Nodes, CheckId(n, p) PROVE HInv'
  BY <1>4, CheckIdInv
<1>5. ASSUME NEW n \in Nodes, NEW p \in Nodes, Receive(n, p) PROVE HInv'
  BY <1>5, ReceiveInv
<1>6. ASSUME NEW n \in Nodes, NEW p \in Nodes, NEW q \in Nodes, CommandS(n, p, q) PROVE HInv'
  BY <1>6, CommandSInv
<1>7. ASSUME NEW c \in DOMAIN conn, CommandA(c) PROVE HInv'
  BY <1>7, CommandAInv
<1>8. ASSUME NEW c \in DOMAIN conn, Break(c) PROVE HInv'
  BY <1>8, BreakInv
<1>9. CASE UNCHANGED vars
  <2>1. /\ UNCHANGED remote /\ UNCHANGED name /\ UNCHANGED conn /\ UNCHANGED stream
        /\ UNCHANGED got /\ UNCHANGED errors /\ UNCHANGED sent /\ UNCHANGED moved
        /\ UNCHANGED early
    BY <1>9 DEF vars, linkVars, ghostVars
  <2>2. HarborType' /\ LinkInv'
    <3>1. HarborType /\ LinkInv
      BY DEF HInv
    <3>2. HarborType'
      BY <2>1, <3>1 DEF HarborType
    <3>3. LinkInv'
      BY <2>1, <3>1, LinkKept DEF StreamStep
    <3> QED BY <3>2, <3>3
  <2>3. FrameInv'
    BY <2>1 DEF HInv, FrameInv, Numbered, NameInv, QueueInv, StreamInv, GotInv, Good, Other
  <2>4. SafeInv'
    BY <2>1 DEF HInv, SafeInv, Down, Safe, Failed, Arrived
  <2> QED BY <2>2, <2>3, <2>4 DEF HInv
<1> QED BY <1>1, <1>2, <1>3, <1>4, <1>5, <1>6, <1>7, <1>8, <1>9 DEF Next

LEMMA HarborInvariant == Spec => []HInv
BY InitHInv, NextHInv, PTL DEF Spec

(* A message arrives at the node it was sent to, with the handle of its    *)
(* service in the header, except through the two queues that the code      *)
(* dispatches otherwise: whatever the nodes, and in whatever order names   *)
(* become known and connections are opened, checked, answered and lost.    *)
THEOREM RightDestinationHolds == Spec => []RightDestination
<1>1. HInv => RightDestination
  <2> SUFFICES ASSUME HInv, NEW n \in Nodes, NEW k \in DOMAIN got[n]
               PROVE  /\ got[n][k].m.to = n \/ got[n][k].m \in early
                      /\ got[n][k].handle <=> got[n][k].m \notin moved
    BY DEF RightDestination
  <2>1. got[n][k] \in Elems(got[n])
    BY DEF Elems
  <2>2. Good(got[n][k]) /\ (got[n][k].m.to = n \/ got[n][k].m \in early)
    BY <2>1 DEF HInv, FrameInv, GotInv
  <2>3. got[n][k].handle <=> got[n][k].m \notin moved
    BY <2>2, Zenon DEF Good
  <2> QED BY <2>2, <2>3, Zenon
<1> QED BY <1>1, HarborInvariant, PTL

(* A message that was handed to the harbor is delivered, or waits where    *)
(* something that is still to come will find it, unless the link between   *)
(* the two nodes has failed: no queue is left behind by the code that      *)
(* dispatches it and no frame is written before the greeting.              *)
THEOREM NothingStrandedHolds == Spec => []NothingStranded
<1>1. HInv => NothingStranded
  <2> SUFFICES ASSUME HInv, NEW m \in sent
               PROVE  \/ Failed(m.from, m.to)
                      \/ m \in UNION {Delivered(i) : i \in Nodes}
                      \/ ~name[m.from].known /\ m \in Messages(name[m.from].queue)
                      \/ /\ remote[m.from][m.to].fd = 0 \/ remote[m.from][m.to].status = "HANDSHAKE"
                         /\ m \in Messages(remote[m.from][m.to].queue)
                      \/ /\ remote[m.from][m.to].fd # 0
                         /\ \E k \in DOMAIN stream[remote[m.from][m.to].fd][m.from] :
                               /\ "m" \in DOMAIN stream[remote[m.from][m.to].fd][m.from][k]
                               /\ stream[remote[m.from][m.to].fd][m.from][k].m = m
    BY DEF NothingStranded
  <2>1. Safe(m)
    BY DEF HInv, SafeInv
  <2>2. \A s : Holding(s, m) => m \in Messages(s)
    BY DEF Holding, Elems, Messages
  <2>3. Arrived(m) => m \in UNION {Delivered(i) : i \in Nodes}
    BY DEF Arrived, Holding, Elems, Delivered
  <2>4. \A s : Holding(s, m) => \E k \in DOMAIN s : "m" \in DOMAIN s[k] /\ s[k].m = m
    <3> SUFFICES ASSUME NEW s, Holding(s, m)
                 PROVE  \E k \in DOMAIN s : "m" \in DOMAIN s[k] /\ s[k].m = m
      OBVIOUS
    <3>1. PICK k \in DOMAIN s : s[k] \in Frames /\ s[k].m = m
      BY DEF Holding, Elems
    <3>2. "m" \in DOMAIN s[k]
      BY <3>1 DEF Frames
    <3> QED BY <3>1, <3>2
  <2> QED BY <2>1, <2>2, <2>3, <2>4 DEF Safe
<1> QED BY <1>1, HarborInvariant, PTL

-----------------------------------------------------------------------------
(* The order.  Of two messages from one node to another the smaller number *)
(* is the earlier one, unless the later one may pass: E stands for the     *)
(* messages that went out during a handshake.  It is a parameter and not   *)
(* the variable early, so that the order does not change while messages    *)
(* move; the invariant is about every E that early lies in.                *)

Before(E, f, g) ==
    /\ f.m.from = g.m.from /\ f.m.to = g.m.to
    /\ ~(~f.m.named /\ g.m.named /\ g.m.waited)
    /\ ~(f.m.named /\ ~g.m.named /\ f.m \in E)
    => f.m.k < g.m.k

Precedes(E, s, t) == \A f \in Elems(s) \cap Frames, g \in Elems(t) \cap Frames : Before(E, f, g)

Sorted(E, s) ==
    \A a, b \in DOMAIN s : a < b /\ s[a] \in Frames /\ s[b] \in Frames => Before(E, s[a], s[b])

AllSorted(E) ==
    /\ \A n \in Nodes : Sorted(E, got[n]) /\ Sorted(E, name[n].queue)
    /\ \A n, p \in Nodes : Sorted(E, remote[n][p].queue)
    /\ \A c \in Conns, x \in Nodes : Sorted(E, stream[c][x])

(* What a node has written to a connection or has got.                     *)
Written(f) ==
    /\ f \in Frames
    /\ \/ \E i \in Nodes : f \in Elems(got[i])
       \/ \E c \in Conns, x \in Nodes : f \in Elems(stream[c][x])

Queued(f) == \E n, p \in Nodes : f \in Elems(remote[n][p].queue)

(* Who wrote a frame, and for whom.                                        *)
Route(c, x) == IF conn[c].from = x THEN conn[c].for ELSE conn[c].from

Routed ==
    /\ \A n, p \in Nodes : \A f \in Elems(remote[n][p].queue) : f.m.from = n /\ n # p
    /\ \A c \in Conns, x \in Nodes : \A f \in Elems(stream[c][x]) \cap Frames :
          f.m.from = x /\ f.m.to = Route(c, x) /\ f.m.to # x
    /\ \A n \in Nodes : remote[n][n].fd = 0

(* The queue of a name is left for good when the name is known; before, no *)
(* message that was sent by name is anywhere else.                         *)
NameFirst ==
    /\ \A n \in Nodes : name[n].known => name[n].queue = <<>>
    /\ \A n \in Nodes : \A f \in Elems(name[n].queue) : f.m.named /\ f.m.waited
    /\ \A f : Written(f) \/ Queued(f) => (f.m.named => name[f.m.from].known)

(* The queue of a harbor is later than all that was written, and left for  *)
(* good when the handshake is over.                                        *)
QueueLater(E) ==
    /\ \A n, p \in Nodes : remote[n][p].status = "HEADER" => remote[n][p].queue = <<>>
    /\ \A f, g : Written(f) /\ Queued(g) => Before(E, f, g)

(* The connection that i reads x from; one that waits for the command A.   *)
Reads(i, x, c)  == c \in DOMAIN conn /\ remote[i][x].fd = c /\ Other(c, i) = x
Awaits(i, x, c) == c \in DOMAIN conn /\ conn[c].from = x /\ conn[c].to = i /\ ~Quiet(c, x)

OneAwaited ==
    \A c \in DOMAIN conn : ~Quiet(c, conn[c].from) => remote[conn[c].from][conn[c].for].fd = c

(* What i has got from x is earlier than what it may still read, and what  *)
(* it reads is earlier than what it has not answered.                      *)
ReadLater(E) ==
    \A i, x \in Nodes, c \in Conns :
       /\ Reads(i, x, c) \/ Awaits(i, x, c) => Precedes(E, got[i], stream[c][x])
       /\ \A d \in Conns : c # d /\ Reads(i, x, c) /\ Awaits(i, x, d)
             => Precedes(E, stream[c][x], stream[d][x])

OrderInv(E) == AllSorted(E) /\ Routed /\ NameFirst /\ QueueLater(E) /\ OneAwaited /\ ReadLater(E)

LEMMA OtherWay ==
    ASSUME NEW E, NEW f, NEW g, f.m.from # g.m.from \/ f.m.to # g.m.to
    PROVE  Before(E, f, g)
BY DEF Before

LEMMA SortedEmpty == \A E : Sorted(E, <<>>)
BY DEF Sorted

LEMMA SortedConcat ==
    ASSUME NEW E, NEW S, NEW s \in Seq(S), NEW t \in Seq(S), Sorted(E, s), Sorted(E, t),
           Precedes(E, s, t)
    PROVE  Sorted(E, s \o t)
<1> SUFFICES ASSUME NEW a \in DOMAIN (s \o t), NEW b \in DOMAIN (s \o t), a < b,
                    (s \o t)[a] \in Frames, (s \o t)[b] \in Frames
             PROVE  Before(E, (s \o t)[a], (s \o t)[b])
  BY DEF Sorted
<1>0. /\ Len(s) \in Nat /\ a \in Nat /\ b \in Nat /\ DOMAIN s = 1 .. Len(s)
      /\ DOMAIN t = 1 .. Len(t) /\ Len(t) \in Nat
  OBVIOUS
<1>1. \/ a \in DOMAIN s /\ (s \o t)[a] = s[a]
      \/ \E j \in DOMAIN t : (s \o t)[a] = t[j] /\ a = Len(s) + j
  BY ConcatIndex
<1>2. \/ b \in DOMAIN s /\ (s \o t)[b] = s[b]
      \/ \E j \in DOMAIN t : (s \o t)[b] = t[j] /\ b = Len(s) + j
  BY ConcatIndex
<1>3. CASE a \in DOMAIN s /\ (s \o t)[a] = s[a]
  <2>1. CASE b \in DOMAIN s /\ (s \o t)[b] = s[b]
    BY <1>3, <2>1 DEF Sorted
  <2>2. ASSUME NEW j \in DOMAIN t, (s \o t)[b] = t[j] PROVE Before(E, (s \o t)[a], (s \o t)[b])
    <3>1. s[a] \in Elems(s) /\ t[j] \in Elems(t)
      BY <1>3 DEF Elems
    <3> QED BY <1>3, <2>2, <3>1 DEF Precedes
  <2> QED BY <1>2, <2>1, <2>2
<1>4. ASSUME NEW i \in DOMAIN t, (s \o t)[a] = t[i], a = Len(s) + i
      PROVE  Before(E, (s \o t)[a], (s \o t)[b])
  <2>1. ~(b \in DOMAIN s)
    BY <1>0, <1>4
  <2>2. PICK j \in DOMAIN t : (s \o t)[b] = t[j] /\ b = Len(s) + j
    BY <1>2, <2>1
  <2>3. i < j
    BY <1>0, <1>4, <2>2
  <2> QED BY <1>4, <2>2, <2>3 DEF Sorted
<1> QED BY <1>1, <1>3, <1>4

LEMMA SortedTail ==
    ASSUME NEW E, NEW S, NEW s \in Seq(S), s # <<>>, Sorted(E, s)
    PROVE  /\ Sorted(E, Tail(s))
           /\ Head(s) \in Frames => \A g \in Elems(Tail(s)) \cap Frames : Before(E, Head(s), g)
<1>1. /\ Tail(s) \in Seq(S) /\ Head(s) = s[1]
      /\ \A k \in DOMAIN Tail(s) : k + 1 \in DOMAIN s /\ k + 1 # 1 /\ Tail(s)[k] = s[k + 1]
  BY ElemsTail
<1>2. /\ 1 \in DOMAIN s /\ \A k \in DOMAIN Tail(s) : k \in Nat /\ 1 < k + 1
  <2>1. Len(s) \in Nat /\ Len(s) # 0 /\ DOMAIN s = 1 .. Len(s) /\ DOMAIN Tail(s) = 1 .. Len(s) - 1
    OBVIOUS
  <2> QED BY <2>1
<1>3. ASSUME NEW a \in DOMAIN Tail(s), NEW b \in DOMAIN Tail(s), a < b,
             Tail(s)[a] \in Frames, Tail(s)[b] \in Frames
      PROVE  Before(E, Tail(s)[a], Tail(s)[b])
  <2>1. a + 1 < b + 1
    BY <1>2, <1>3
  <2> QED BY <1>1, <1>3, <2>1 DEF Sorted
<1>4. ASSUME Head(s) \in Frames, NEW k \in DOMAIN Tail(s), Tail(s)[k] \in Frames
      PROVE  Before(E, Head(s), Tail(s)[k])
  BY <1>1, <1>2, <1>4 DEF Sorted
<1> QED BY <1>3, <1>4 DEF Sorted, Elems

LEMMA SortedOne ==
    ASSUME NEW E, NEW f
    PROVE  Sorted(E, <<f>>) /\ Elems(<<f>>) = {f}
<1>1. DOMAIN <<f>> = {1} /\ <<f>>[1] = f
  OBVIOUS
<1>2. \A a, b \in {1} : ~(a < b)
  OBVIOUS
<1> QED BY <1>1, <1>2 DEF Sorted, Elems

LEMMA SortedAppend ==
    ASSUME NEW E, NEW s \in Seq(Frames), NEW f \in Frames, Sorted(E, s),
           \A e \in Elems(s) : Before(E, e, f)
    PROVE  Sorted(E, Append(s, f))
<1>1. Append(s, f) = s \o <<f>> /\ <<f>> \in Seq(Frames)
  OBVIOUS
<1>2. Sorted(E, <<f>>) /\ Precedes(E, s, <<f>>)
  BY SortedOne DEF Precedes
<1> QED BY <1>1, <1>2, SortedConcat

-----------------------------------------------------------------------------
(* What a step does to what y wrote to d, when n writes fs to c.           *)
StreamMove(d, y, c, n, fs) ==
    \/ stream'[d][y] = stream[d][y]
    \/ stream'[d][y] = <<>>
    \/ stream[d][y] # <<>> /\ stream'[d][y] = Tail(stream[d][y])
    \/ d = c /\ y = n /\ stream'[d][y] = stream[d][y] \o fs
    \/ /\ d = c /\ y = n /\ stream[d][y] = <<>> /\ stream'[d][y] = <<Handshake(n)>> \o fs
       /\ c \notin DOMAIN conn \/ conn[c].from # n

LEMMA MoveSorted ==
    ASSUME NEW E, HarborType, NEW d \in Conns, NEW y \in Nodes, NEW c, NEW n, NEW fs \in Seq(Frames),
           StreamMove(d, y, c, n, fs), Sorted(E, stream[d][y]), Sorted(E, fs),
           d = c /\ y = n => Precedes(E, stream[d][y], fs)
    PROVE  /\ Sorted(E, stream'[d][y])
           /\ \A f \in Elems(stream'[d][y]) :
                 \/ f \in Elems(stream[d][y])
                 \/ d = c /\ y = n /\ f \in Elems(fs)
                 \/ stream[d][y] = <<>> /\ f \notin Frames
<1>1. PICK s \in Seq(Frames \cup Handshakes) : s = stream[d][y]
  BY StreamType
<1>2. PICK t : t = stream'[d][y]
  OBVIOUS
<1>3. fs \in Seq(Frames \cup Handshakes)
  OBVIOUS
<1> DEFINE P == /\ Sorted(E, t)
                /\ \A f \in Elems(t) : \/ f \in Elems(s)
                                       \/ d = c /\ y = n /\ f \in Elems(fs)
                                       \/ s = <<>> /\ f \notin Frames
<1>4. ASSUME t = s PROVE P
  BY <1>1, <1>4
<1>5. ASSUME t = <<>> PROVE P
  BY <1>5, SortedEmpty, ElemsEmpty
<1>6. ASSUME s # <<>> /\ t = Tail(s) PROVE P
  BY <1>1, <1>6, SortedTail, ElemsTail
<1>7. ASSUME d = c /\ y = n /\ t = s \o fs PROVE P
  BY <1>1, <1>3, <1>7, SortedConcat, ElemsConcat
<1>8. ASSUME d = c /\ y = n /\ s = <<>> /\ t = <<Handshake(n)>> \o fs PROVE P
  <2>1. n \in Nodes
    BY <1>8
  <2>2. Handshake(n) \in Handshakes /\ Handshake(n) \notin Frames
    BY <2>1, HandshakeIsOne, FrameOrHandshake
  <2>3. <<Handshake(n)>> \in Seq(Frames \cup Handshakes)
    BY <2>2
  <2>4. Sorted(E, <<Handshake(n)>>) /\ Elems(<<Handshake(n)>>) = {Handshake(n)}
    BY SortedOne
  <2>5. Precedes(E, <<Handshake(n)>>, fs)
    BY <2>2, <2>4 DEF Precedes
  <2>6. Sorted(E, t)
    BY <1>3, <1>8, <2>3, <2>4, <2>5, SortedConcat
  <2>7. \A f \in Elems(t) : f \in Frames => f \in Elems(fs)
    BY <1>8, <2>1, Greeting
  <2> QED BY <1>8, <2>6, <2>7
<1>9. P
  BY <1>1, <1>2, <1>4, <1>5, <1>6, <1>7, <1>8 DEF StreamMove
<1> QED BY <1>1, <1>2, <1>9

(* What a step may do to the connection that a has to b: it stays, it is   *)
(* closed when it is no longer awaited, or a takes one on that was awaited *)
(* or is empty.                                                            *)
LinkMove(a, b) ==
    LET c == remote[a][b].fd
        d == remote'[a][b].fd
    IN  /\ a = b => d = 0
        /\ \/ d = c
           \/ d = 0 /\ (conn[c].from = a => Quiet(c, a))
           \/ c = 0 /\ (Awaits(a, b, d) \/ stream[d][b] = <<>>)

QueueMove(a, b) ==
    /\ remote'[a][b].queue \in {remote[a][b].queue, <<>>}
    /\ remote'[a][b].status = "HEADER" => remote'[a][b].queue = <<>>

NameMove(a) ==
    /\ name[a].known => name'[a].known
    /\ name'[a].queue \in {name[a].queue, <<>>}
    /\ name'[a].known => name'[a].queue = <<>>

ConnMove ==
    /\ \A d \in DOMAIN conn :
          /\ d \in DOMAIN conn' /\ conn'[d].from = conn[d].from
          /\ conn'[d].for = conn[d].for /\ conn'[d].to = conn[d].to
    /\ \A d \in DOMAIN conn' :
          d \in DOMAIN conn \/ remote'[conn'[d].from][conn'[d].for].fd = d

(* What n may write to c, for p: it is later than all that was written and *)
(* earlier than all that is queued.                                        *)
Writes(E, c, n, p, fs) ==
    /\ fs \in Seq(Frames) /\ Sorted(E, fs)
    /\ \A f \in Elems(fs) :
          /\ f.m.from = n /\ f.m.to = p /\ n # p /\ (f.m.named => name'[n].known)
          /\ \A e : Written(e) => Before(E, e, f)
          /\ \A g : Queued(g)' => Before(E, f, g)
          /\ c \in DOMAIN conn /\ remote'[n][p].fd = c /\ Route(c, n) = p

LEMMA OrderStep ==
    ASSUME NEW E, HInv, HInv', OrderInv(E), NEW c, NEW n, NEW p, NEW fs, Writes(E, c, n, p, fs),
           \A d \in Conns, y \in Nodes : StreamMove(d, y, c, n, fs),
           got' = got, ConnMove,
           \A a, b \in Nodes : LinkMove(a, b) /\ QueueMove(a, b),
           \A a \in Nodes : NameMove(a)
    PROVE  OrderInv(E)'
<1>0. HarborType /\ LinkInv /\ HarborType' /\ LinkInv'
  BY DEF HInv
<1>a. AllSorted(E) /\ Routed /\ NameFirst /\ QueueLater(E) /\ OneAwaited /\ ReadLater(E)
  BY DEF OrderInv
<1>b. \A d \in DOMAIN conn : d \in Conns /\ d # 0 /\ d \in DOMAIN conn' /\ conn[d].from \in Nodes
         /\ conn[d].for \in Nodes
  BY <1>0, ConnType DEF ConnMove
<1>c. \A d \in Conns, x \in Nodes : stream[d][x] # <<>> => d \in DOMAIN conn
  BY <1>0 DEF LinkInv
<1>d. \A d \in DOMAIN conn : \A x : Other(d, x)' = Other(d, x) /\ Route(d, x)' = Route(d, x)
  BY DEF ConnMove, Other, Route
<1>e. fs \in Seq(Frames) /\ Sorted(E, fs) /\ Elems(fs) \subseteq Frames
  BY DEF Writes, Elems
<1>1. ASSUME NEW d \in Conns, NEW y \in Nodes
      PROVE  /\ Sorted(E, stream'[d][y])
             /\ \A f \in Elems(stream'[d][y]) :
                   \/ f \in Elems(stream[d][y])
                   \/ d = c /\ y = n /\ f \in Elems(fs)
                   \/ stream[d][y] = <<>> /\ f \notin Frames
  <2>1. d = c /\ y = n => Precedes(E, stream[d][y], fs)
    BY DEF Writes, Precedes, Written
  <2>2. Sorted(E, stream[d][y])
    BY <1>a DEF AllSorted
  <2> QED BY <1>0, <1>e, <2>1, <2>2, MoveSorted
<1>2. \A d \in Conns, y \in Nodes : \A f \in Elems(stream'[d][y]) \cap Frames :
         f \in Elems(stream[d][y]) \/ (d = c /\ y = n /\ f \in Elems(fs))
  BY <1>1
<1>3. \A f : Written(f)' => Written(f) \/ f \in Elems(fs)
  BY <1>2 DEF Written
<1>4. \A a, b \in Nodes : Elems(remote'[a][b].queue) \subseteq Elems(remote[a][b].queue)
  BY ElemsEmpty DEF QueueMove
<1>5. \A f : Queued(f)' => Queued(f)
  BY <1>4 DEF Queued
<1>6. ASSUME NEW d \in Conns, NEW y \in Nodes, stream[d][y] # <<>>, Quiet(d, y) PROVE Quiet(d, y)'
  <2>1. Elems(stream[d][y]) \subseteq Frames
    BY <1>6 DEF Quiet, Elems
  <2>2. Elems(stream'[d][y]) \subseteq Frames
    BY <1>1, <1>6, <1>e, <2>1
  <2> QED BY <2>2 DEF Quiet, Elems
<1>7. ASSUME NEW d \in DOMAIN conn, Quiet(d, conn[d].from) PROVE Quiet(d, conn[d].from)'
  <2>1. PICK y \in Nodes : y = conn[d].from /\ y = conn'[d].from
    BY <1>b DEF ConnMove
  <2>2. d \in Conns /\ StreamMove(d, y, c, n, fs)
    BY <1>b
  <2>3. CASE stream[d][y] # <<>>
    <3>1. Quiet(d, y)'
      BY <1>6, <1>7, <2>1, <2>2, <2>3
    <3> QED BY <2>1, <3>1 DEF Quiet
  <2>4. CASE stream[d][y] = <<>>
    <3>1. stream'[d][y] = <<>> \/ stream'[d][y] = fs
      <4>1. <<>> \o fs = fs
        BY <1>e
      <4> QED BY <2>1, <2>2, <2>4, <4>1 DEF StreamMove
    <3>2. Quiet(d, y)'
      BY <1>e, <3>1 DEF Quiet
    <3> QED BY <2>1, <3>2 DEF Quiet
  <2> QED BY <2>3, <2>4
<1>8. AllSorted(E)'
  <2>1. \A a \in Nodes : Sorted(E, got'[a]) /\ Sorted(E, name'[a].queue)
    BY <1>a, SortedEmpty DEF AllSorted, NameMove
  <2>2. \A a, b \in Nodes : Sorted(E, remote'[a][b].queue)
    BY <1>a, SortedEmpty DEF AllSorted, QueueMove
  <2> QED BY <1>1, <2>1, <2>2 DEF AllSorted
<1>9. Routed'
  <2>1. \A a, b \in Nodes : \A f \in Elems(remote'[a][b].queue) : f.m.from = a /\ a # b
    BY <1>4, <1>a DEF Routed
  <2>2. \A a \in Nodes : remote'[a][a].fd = 0
    BY DEF LinkMove
  <2>3. ASSUME NEW d \in Conns, NEW x \in Nodes, NEW f \in Elems(stream'[d][x]) \cap Frames
        PROVE  f.m.from = x /\ f.m.to = Route(d, x)' /\ f.m.to # x
    <3>1. CASE f \in Elems(stream[d][x])
      <4>1. stream[d][x] # <<>>
        BY <3>1, ElemsEmpty
      <4> QED BY <1>a, <1>c, <1>d, <2>3, <3>1, <4>1 DEF Routed
    <3>2. CASE d = c /\ x = n /\ f \in Elems(fs)
      BY <1>d, <3>2 DEF Writes
    <3> QED BY <1>2, <3>1, <3>2
  <2> QED BY <2>1, <2>2, <2>3 DEF Routed
<1>10. NameFirst'
  <2>1. \A a \in Nodes : name'[a].known => name'[a].queue = <<>>
    BY DEF NameMove
  <2>2. \A a \in Nodes : \A f \in Elems(name'[a].queue) : f.m.named /\ f.m.waited
    BY <1>a, ElemsEmpty DEF NameMove, NameFirst
  <2>3. \A f : Written(f) \/ Queued(f) => f \in Frames /\ f.m.from \in Nodes
    <3>1. \A a, b \in Nodes : \A f \in Elems(remote[a][b].queue) : f \in Frames
      BY <1>0, RemoteType DEF Elems
    <3>2. \A f : Written(f) \/ Queued(f) => f \in Frames
      BY <3>1 DEF Written, Queued
    <3> QED BY <3>2 DEF Frames, Msgs
  <2>4. ASSUME NEW f, Written(f)' \/ Queued(f)', f.m.named PROVE name'[f.m.from].known
    <3>1. CASE Written(f) \/ Queued(f)
      BY <1>a, <2>3, <2>4, <3>1 DEF NameFirst, NameMove
    <3>2. CASE f \in Elems(fs)
      BY <2>4, <3>2 DEF Writes
    <3> QED BY <1>3, <1>5, <2>4, <3>1, <3>2
  <2> QED BY <2>1, <2>2, <2>4 DEF NameFirst
<1>11. QueueLater(E)'
  <2>1. \A a, b \in Nodes : remote'[a][b].status = "HEADER" => remote'[a][b].queue = <<>>
    BY DEF QueueMove
  <2>2. ASSUME NEW f, NEW g, Written(f)', Queued(g)' PROVE Before(E, f, g)
    BY <1>3, <1>5, <1>a, <2>2 DEF QueueLater, Writes
  <2> QED BY <2>1, <2>2 DEF QueueLater
<1>12. OneAwaited'
  <2> SUFFICES ASSUME NEW d \in DOMAIN conn', ~Quiet(d, conn[d].from)'
               PROVE  remote'[conn'[d].from][conn'[d].for].fd = d
    BY DEF OneAwaited
  <2>1. CASE d \notin DOMAIN conn
    BY <2>1 DEF ConnMove
  <2>2. CASE d \in DOMAIN conn
    <3>1. PICK a \in Nodes, b \in Nodes : a = conn[d].from /\ b = conn[d].for
                                          /\ a = conn'[d].from /\ b = conn'[d].for
      BY <1>b, <2>2 DEF ConnMove
    <3>2. ~Quiet(d, a)
      BY <1>7, <2>2, <3>1
    <3>3. remote[a][b].fd = d
      BY <1>a, <2>2, <3>1, <3>2 DEF OneAwaited
    <3>4. remote'[a][b].fd = d
      BY <1>b, <2>2, <3>1, <3>2, <3>3 DEF LinkMove
    <3> QED BY <3>1, <3>4
  <2> QED BY <2>1, <2>2
<1>13. ASSUME NEW i \in Nodes, NEW x \in Nodes, NEW d \in Conns, stream[d][x] # <<>>
       PROVE  /\ Reads(i, x, d)' => Reads(i, x, d) \/ Awaits(i, x, d)
              /\ Awaits(i, x, d)' => Awaits(i, x, d)
  <2>1. d \in DOMAIN conn /\ d # 0
    BY <1>b, <1>c, <1>13
  <2>2. ASSUME Reads(i, x, d)' PROVE Reads(i, x, d) \/ Awaits(i, x, d)
    <3>1. remote'[i][x].fd = d /\ Other(d, i) = x
      BY <1>d, <2>1, <2>2 DEF Reads
    <3> QED BY <1>13, <2>1, <3>1 DEF Reads, LinkMove
  <2>3. ASSUME Awaits(i, x, d)' PROVE Awaits(i, x, d)
    BY <1>6, <1>13, <2>1, <2>3 DEF Awaits, ConnMove
  <2> QED BY <2>2, <2>3
<1>14. \A d \in Conns, x \in Nodes : \A f \in Elems(stream[d][x]) : stream[d][x] # <<>>
  BY ElemsEmpty
<1>15. ASSUME NEW i \in Nodes, NEW x \in Nodes, NEW d \in Conns,
              Reads(i, x, d)' \/ Awaits(i, x, d)'
       PROVE  Precedes(E, got'[i], stream'[d][x])
  <2> SUFFICES ASSUME NEW f \in Elems(got[i]) \cap Frames,
                      NEW g \in Elems(stream'[d][x]) \cap Frames
               PROVE  Before(E, f, g)
    BY DEF Precedes
  <2>1. CASE g \in Elems(stream[d][x])
    BY <1>13, <1>14, <1>15, <1>a, <2>1 DEF ReadLater, Precedes
  <2>2. CASE g \in Elems(fs)
    BY <2>2 DEF Writes, Written
  <2> QED BY <1>2, <2>1, <2>2
<1>16. ASSUME NEW i \in Nodes, NEW x \in Nodes, NEW d \in Conns, NEW e \in Conns, d # e,
              Reads(i, x, d)', Awaits(i, x, e)'
       PROVE  Precedes(E, stream'[d][x], stream'[e][x])
  <2> SUFFICES ASSUME NEW f \in Elems(stream'[d][x]) \cap Frames,
                      NEW g \in Elems(stream'[e][x]) \cap Frames
               PROVE  Before(E, f, g)
    BY DEF Precedes
  <2>1. CASE f \in Elems(stream[d][x]) /\ g \in Elems(stream[e][x])
    <3>1. Awaits(i, x, e) /\ (Reads(i, x, d) \/ Awaits(i, x, d))
      BY <1>13, <1>14, <1>16, <2>1
    <3>2. CASE Reads(i, x, d)
      BY <1>16, <1>a, <2>1, <3>1, <3>2 DEF ReadLater, Precedes
    <3>3. CASE Awaits(i, x, d)
      <4>1. remote[x][conn[d].for].fd = d /\ remote[x][conn[e].for].fd = e
        BY <1>a, <3>1, <3>3 DEF OneAwaited, Awaits
      <4>2. f.m.to = conn[d].for /\ g.m.to = conn[e].for
        BY <1>a, <2>1, <3>1, <3>3 DEF Routed, Route, Awaits
      <4> QED BY <1>16, <4>1, <4>2, OtherWay
    <3> QED BY <3>1, <3>2, <3>3
  <2>2. CASE f \in Elems(stream[d][x]) /\ g \in Elems(fs)
    BY <2>2 DEF Writes, Written
  <2>3. CASE d = c /\ x = n /\ f \in Elems(fs) /\ g \in Elems(stream[e][x])
    <3>1. Awaits(i, x, e) /\ e \in DOMAIN conn /\ conn'[e].from = x /\ conn'[e].for = conn[e].for
      BY <1>13, <1>14, <1>16, <2>3 DEF Awaits, ConnMove
    <3>2. remote'[x][conn[e].for].fd = e
      BY <1>12, <1>16, <3>1 DEF OneAwaited, Awaits
    <3>3. g.m.to = conn[e].for
      BY <1>a, <2>3, <3>1 DEF Routed, Route, Awaits
    <3>4. f.m.to = p /\ remote'[n][p].fd = c
      BY <2>3 DEF Writes
    <3> QED BY <1>16, <2>3, <3>2, <3>3, <3>4, OtherWay
  <2>4. ~(d = c /\ e = c)
    BY <1>16
  <2> QED BY <1>2, <2>1, <2>2, <2>3, <2>4
<1>17. ReadLater(E)'
  BY <1>15, <1>16 DEF ReadLater
<1> QED BY <1>8, <1>9, <1>10, <1>11, <1>12, <1>17 DEF OrderInv

(* Whoever is written or queued is a frame of a node.                      *)
LEMMA FramesOnly ==
    ASSUME HarborType
    PROVE  \A f : Written(f) \/ Queued(f) => f \in Frames /\ f.m.from \in Nodes
<1>1. \A a, b \in Nodes : \A f \in Elems(remote[a][b].queue) : f \in Frames
  BY RemoteType DEF Elems
<1>2. \A f : Written(f) \/ Queued(f) => f \in Frames
  BY <1>1 DEF Written, Queued
<1> QED BY <1>2 DEF Frames, Msgs

(* Node i gets fs.                                                         *)
LEMMA OrderGot ==
    ASSUME NEW E, HInv, HInv', OrderInv(E), NEW i \in Nodes, NEW fs \in Seq(Frames), Sorted(E, fs),
           got' = [got EXCEPT ![i] = @ \o fs], UNCHANGED remote, UNCHANGED conn,
           \A d \in Conns, y \in Nodes :
              \/ stream'[d][y] = stream[d][y]
              \/ stream[d][y] # <<>> /\ stream'[d][y] = Tail(stream[d][y]),
           \A a \in Nodes : NameMove(a),
           \A f \in Elems(fs) :
              /\ f.m.named => name'[f.m.from].known
              /\ \A e \in Elems(got[i]) : Before(E, e, f)
              /\ \A g : Queued(g) => Before(E, f, g)
              /\ \A x \in Nodes, d \in Conns : Reads(i, x, d) \/ Awaits(i, x, d)
                    => \A g \in Elems(stream'[d][x]) \cap Frames : Before(E, f, g)
    PROVE  OrderInv(E)'
<1>0. HarborType /\ LinkInv /\ HarborType' /\ LinkInv'
  BY DEF HInv
<1>a. AllSorted(E) /\ Routed /\ NameFirst /\ QueueLater(E) /\ OneAwaited /\ ReadLater(E)
  BY DEF OrderInv
<1>e. Elems(fs) \subseteq Frames
  BY DEF Elems
<1>1. \A d \in Conns, y \in Nodes :
        /\ Sorted(E, stream'[d][y])
        /\ Elems(stream'[d][y]) \subseteq Elems(stream[d][y])
  <2> SUFFICES ASSUME NEW d \in Conns, NEW y \in Nodes
               PROVE  Sorted(E, stream'[d][y]) /\ Elems(stream'[d][y]) \subseteq Elems(stream[d][y])
    OBVIOUS
  <2>1. stream[d][y] \in Seq(Frames \cup Handshakes) /\ Sorted(E, stream[d][y])
    BY <1>0, <1>a, StreamType DEF AllSorted
  <2>2. CASE stream'[d][y] = stream[d][y]
    BY <2>1, <2>2
  <2>3. CASE stream[d][y] # <<>> /\ stream'[d][y] = Tail(stream[d][y])
    BY <2>1, <2>3, SortedTail, ElemsTail
  <2> QED BY <2>2, <2>3
<1>2. /\ got'[i] = got[i] \o fs /\ Elems(got'[i]) = Elems(got[i]) \cup Elems(fs) /\ Sorted(E, got'[i])
      /\ \A j \in Nodes : j # i => got'[j] = got[j]
  <2>1. got[i] \in Seq(Frames) /\ got \in [Nodes -> Seq(Frames)] /\ Sorted(E, got[i])
    BY <1>0, <1>a DEF HarborType, AllSorted
  <2>2. got'[i] = got[i] \o fs /\ \A j \in Nodes : j # i => got'[j] = got[j]
    BY <2>1
  <2>3. Precedes(E, got[i], fs)
    BY DEF Precedes
  <2> QED BY <2>1, <2>2, <2>3, SortedConcat, ElemsConcat
<1>3. \A f : Written(f)' => Written(f) \/ f \in Elems(fs)
  BY <1>1, <1>2 DEF Written
<1>5. \A f : Queued(f)' <=> Queued(f)
  BY DEF Queued
<1>6. \A d \in Conns, y \in Nodes : Quiet(d, y) => Quiet(d, y)'
  <2> SUFFICES ASSUME NEW d \in Conns, NEW y \in Nodes, Quiet(d, y) PROVE Quiet(d, y)'
    OBVIOUS
  <2>1. Elems(stream[d][y]) \subseteq Frames
    BY DEF Quiet, Elems
  <2>2. Elems(stream'[d][y]) \subseteq Frames
    BY <1>1, <2>1
  <2> QED BY <2>2 DEF Quiet, Elems
<1>8. AllSorted(E)'
  <2>1. \A a \in Nodes : Sorted(E, got'[a]) /\ Sorted(E, name'[a].queue)
    BY <1>2, <1>a, SortedEmpty DEF AllSorted, NameMove
  <2>2. \A a, b \in Nodes : Sorted(E, remote'[a][b].queue)
    BY <1>a DEF AllSorted
  <2> QED BY <1>1, <2>1, <2>2 DEF AllSorted
<1>9. Routed'
  <2>1. \A d, x : Route(d, x)' = Route(d, x)
    BY DEF Route
  <2>2. \A d \in Conns, x \in Nodes : \A f \in Elems(stream'[d][x]) \cap Frames :
           f.m.from = x /\ f.m.to = Route(d, x) /\ f.m.to # x
    <3> SUFFICES ASSUME NEW d \in Conns, NEW x \in Nodes,
                        NEW f \in Elems(stream'[d][x]), f \in Frames
                 PROVE  f.m.from = x /\ f.m.to = Route(d, x) /\ f.m.to # x
      OBVIOUS
    <3>1. f \in Elems(stream[d][x]) \cap Frames
      BY <1>1
    <3> QED BY <1>a, <3>1 DEF Routed
  <2> QED BY <1>a, <2>1, <2>2 DEF Routed
<1>10. NameFirst'
  <2>1. \A a \in Nodes : name'[a].known => name'[a].queue = <<>>
    BY DEF NameMove
  <2>2. \A a \in Nodes : \A f \in Elems(name'[a].queue) : f.m.named /\ f.m.waited
    BY <1>a, ElemsEmpty DEF NameMove, NameFirst
  <2>4. ASSUME NEW f, Written(f)' \/ Queued(f)', f.m.named PROVE name'[f.m.from].known
    <3>1. CASE Written(f) \/ Queued(f)
      BY <1>0, <1>a, <2>4, <3>1, FramesOnly DEF NameFirst, NameMove
    <3>2. CASE f \in Elems(fs)
      BY <2>4, <3>2
    <3> QED BY <1>3, <1>5, <2>4, <3>1, <3>2
  <2> QED BY <2>1, <2>2, <2>4 DEF NameFirst
<1>11. QueueLater(E)'
  <2>1. \A a, b \in Nodes : remote'[a][b].status = "HEADER" => remote'[a][b].queue = <<>>
    BY <1>a DEF QueueLater
  <2>2. ASSUME NEW f, NEW g, Written(f)', Queued(g)' PROVE Before(E, f, g)
    BY <1>3, <1>5, <1>a, <2>2 DEF QueueLater
  <2> QED BY <2>1, <2>2 DEF QueueLater
<1>12. OneAwaited'
  <2> SUFFICES ASSUME NEW d \in DOMAIN conn, ~Quiet(d, conn[d].from)'
               PROVE  remote[conn[d].from][conn[d].for].fd = d
    BY DEF OneAwaited
  <2>1. PICK a \in Nodes : a = conn[d].from /\ a = conn'[d].from
    BY <1>0, ConnType
  <2>2. d \in Conns /\ ~Quiet(d, a)
    BY <1>0, <1>6, <2>1, ConnType
  <2> QED BY <1>a, <2>1, <2>2 DEF OneAwaited
<1>13. ASSUME NEW j \in Nodes, NEW x \in Nodes, NEW d \in Conns
       PROVE  (Reads(j, x, d)' => Reads(j, x, d)) /\ (Awaits(j, x, d)' => Awaits(j, x, d))
  BY <1>6 DEF Reads, Awaits, Other
<1>15. ASSUME NEW j \in Nodes, NEW x \in Nodes, NEW d \in Conns,
              Reads(j, x, d)' \/ Awaits(j, x, d)'
       PROVE  Precedes(E, got'[j], stream'[d][x])
  <2> SUFFICES ASSUME NEW f \in Elems(got'[j]) \cap Frames,
                      NEW g \in Elems(stream'[d][x]) \cap Frames
               PROVE  Before(E, f, g)
    BY DEF Precedes
  <2>0. Reads(j, x, d) \/ Awaits(j, x, d)
    BY <1>13, <1>15
  <2>1. CASE f \in Elems(got[j])
    BY <1>1, <1>a, <2>0, <2>1 DEF ReadLater, Precedes
  <2>2. CASE j = i /\ f \in Elems(fs)
    BY <2>0, <2>2
  <2> QED BY <1>2, <2>1, <2>2
<1>16. ASSUME NEW j \in Nodes, NEW x \in Nodes, NEW d \in Conns, NEW e \in Conns, d # e,
              Reads(j, x, d)', Awaits(j, x, e)'
       PROVE  Precedes(E, stream'[d][x], stream'[e][x])
  <2>1. Precedes(E, stream[d][x], stream[e][x])
    BY <1>13, <1>16, <1>a DEF ReadLater
  <2> QED BY <1>1, <2>1 DEF Precedes
<1>17. ReadLater(E)'
  BY <1>15, <1>16 DEF ReadLater
<1> QED BY <1>8, <1>9, <1>10, <1>11, <1>12, <1>17 DEF OrderInv

(* Node n queues fs for p, which it cannot reach yet.                      *)
LEMMA OrderQueue ==
    ASSUME NEW E, HInv, HInv', OrderInv(E), NEW n \in Nodes, NEW p \in Nodes, NEW fs \in Seq(Frames),
           n # p, Sorted(E, fs), remote[n][p].status # "HEADER",
           remote' = [remote EXCEPT ![n][p].queue = @ \o fs],
           UNCHANGED conn, UNCHANGED stream, UNCHANGED got,
           \A a \in Nodes : NameMove(a),
           \A f \in Elems(fs) :
              /\ f.m.from = n /\ f.m.to = p /\ (f.m.named => name'[n].known)
              /\ \A e : Written(e) => Before(E, e, f)
              /\ \A e \in Elems(remote[n][p].queue) : Before(E, e, f)
    PROVE  OrderInv(E)'
<1>0. HarborType /\ LinkInv /\ HarborType' /\ LinkInv' /\ QueueInv
  BY DEF HInv, FrameInv
<1>a. AllSorted(E) /\ Routed /\ NameFirst /\ QueueLater(E) /\ OneAwaited /\ ReadLater(E)
  BY DEF OrderInv
<1>e. Elems(fs) \subseteq Frames
  BY DEF Elems
<1>1. PICK q \in Seq(Frames) : q = remote[n][p].queue
  BY <1>0, RemoteType
<1>w. PICK w \in Seq(Frames) : w = q \o fs
  <2>1. q \o fs \in Seq(Frames)
    OBVIOUS
  <2> QED BY <2>1
<1>2. /\ remote'[n][p].queue = w
      /\ \A a, b \in Nodes : /\ remote'[a][b].fd = remote[a][b].fd
                             /\ remote'[a][b].status = remote[a][b].status
                             /\ ~(a = n /\ b = p) => remote'[a][b].queue = remote[a][b].queue
  <2>1. PICK r : r = [remote[n][p] EXCEPT !.queue = w]
    OBVIOUS
  <2>2. /\ r \in Remotes /\ r.fd = remote[n][p].fd /\ r.status = remote[n][p].status
        /\ r.queue = w
    BY <1>0, <2>1, QueueRecord
  <2>3. remote' = SetRemote(n, p, r)
    BY <1>0, <1>1, <1>w, <2>1 DEF SetRemote, HarborType
  <2>4. remote'[n][p] = r /\ \A a, b \in Nodes : ~(a = n /\ b = p) => remote'[a][b] = remote[a][b]
    <3>1. HarborType /\ r \in Remotes /\ n \in Nodes /\ p \in Nodes
      BY <1>0, <2>2
    <3> QED BY ONLY <2>3, <3>1, RemoteUpdate
  <2> QED BY <2>2, <2>4
<1>3. Elems(remote'[n][p].queue) = Elems(q) \cup Elems(fs) /\ Sorted(E, remote'[n][p].queue)
  <2>1. Sorted(E, q) /\ Precedes(E, q, fs)
    BY <1>1, <1>a DEF AllSorted, Precedes
  <2>2. Sorted(E, q \o fs) /\ Elems(q \o fs) = Elems(q) \cup Elems(fs)
    BY <2>1, SortedConcat, ElemsConcat
  <2> QED BY <1>2, <1>w, <2>2
<1>4. \A f : Written(f)' => Written(f)
  BY DEF Written
<1>5. \A f : Queued(f)' => Queued(f) \/ f \in Elems(fs)
  BY <1>1, <1>2, <1>3 DEF Queued
<1>6. \A d, y : /\ Quiet(d, y)' = Quiet(d, y) /\ Other(d, y)' = Other(d, y)
                /\ Route(d, y)' = Route(d, y)
  BY DEF Quiet, Other, Route
<1>8. AllSorted(E)'
  <2>1. \A a \in Nodes : Sorted(E, got'[a]) /\ Sorted(E, name'[a].queue)
    BY <1>a, SortedEmpty DEF AllSorted, NameMove
  <2>2. \A a, b \in Nodes : Sorted(E, remote'[a][b].queue)
    BY <1>2, <1>3, <1>a DEF AllSorted
  <2> QED BY <1>a, <2>1, <2>2 DEF AllSorted
<1>9. Routed'
  <2>1. \A a, b \in Nodes : \A f \in Elems(remote'[a][b].queue) : f.m.from = a /\ a # b
    BY <1>1, <1>2, <1>3, <1>a DEF Routed
  <2>2. \A d \in Conns, x \in Nodes : \A f \in Elems(stream'[d][x]) \cap Frames :
           f.m.from = x /\ f.m.to = Route(d, x)' /\ f.m.to # x
    BY <1>6, <1>a DEF Routed
  <2>3. \A a \in Nodes : remote'[a][a].fd = 0
    BY <1>2, <1>a DEF Routed
  <2> QED BY <2>1, <2>2, <2>3 DEF Routed
<1>10. NameFirst'
  <2>1. \A a \in Nodes : name'[a].known => name'[a].queue = <<>>
    BY DEF NameMove
  <2>2. \A a \in Nodes : \A f \in Elems(name'[a].queue) : f.m.named /\ f.m.waited
    BY <1>a, ElemsEmpty DEF NameMove, NameFirst
  <2>4. ASSUME NEW f, Written(f)' \/ Queued(f)', f.m.named PROVE name'[f.m.from].known
    <3>1. CASE Written(f) \/ Queued(f)
      BY <1>0, <1>a, <2>4, <3>1, FramesOnly DEF NameFirst, NameMove
    <3>2. CASE f \in Elems(fs)
      BY <2>4, <3>2
    <3> QED BY <1>4, <1>5, <2>4, <3>1, <3>2
  <2> QED BY <2>1, <2>2, <2>4 DEF NameFirst
<1>11. QueueLater(E)'
  <2>1. \A a, b \in Nodes : remote'[a][b].status = "HEADER" => remote'[a][b].queue = <<>>
    BY <1>2, <1>a DEF QueueLater
  <2>2. ASSUME NEW f, NEW g, Written(f)', Queued(g)' PROVE Before(E, f, g)
    BY <1>4, <1>5, <1>a, <2>2 DEF QueueLater
  <2> QED BY <2>1, <2>2 DEF QueueLater
<1>12. OneAwaited'
  <2> SUFFICES ASSUME NEW d \in DOMAIN conn, ~Quiet(d, conn[d].from)'
               PROVE  remote'[conn[d].from][conn[d].for].fd = d
    BY DEF OneAwaited
  <2>1. ~Quiet(d, conn[d].from) /\ conn[d].from \in Nodes /\ conn[d].for \in Nodes
    BY <1>0, <1>6, ConnType DEF Quiet
  <2> QED BY <1>2, <1>a, <2>1 DEF OneAwaited
<1>13. ASSUME NEW j \in Nodes, NEW x \in Nodes, NEW d \in Conns
       PROVE  (Reads(j, x, d)' => Reads(j, x, d)) /\ (Awaits(j, x, d)' => Awaits(j, x, d))
  BY <1>2, <1>6 DEF Reads, Awaits
<1>15. ASSUME NEW j \in Nodes, NEW x \in Nodes, NEW d \in Conns,
              Reads(j, x, d)' \/ Awaits(j, x, d)'
       PROVE  Precedes(E, got'[j], stream'[d][x])
  BY <1>13, <1>15, <1>a DEF ReadLater
<1>16. ASSUME NEW j \in Nodes, NEW x \in Nodes, NEW d \in Conns, NEW e \in Conns, d # e,
              Reads(j, x, d)', Awaits(j, x, e)'
       PROVE  Precedes(E, stream'[d][x], stream'[e][x])
  BY <1>13, <1>16, <1>a DEF ReadLater
<1>17. ReadLater(E)'
  BY <1>15, <1>16 DEF ReadLater
<1> QED BY <1>8, <1>9, <1>10, <1>11, <1>12, <1>17 DEF OrderInv

(* Node n keeps a message until it knows the name.                         *)
LEMMA OrderName ==
    ASSUME NEW E, HInv, HInv', OrderInv(E), NEW n \in Nodes, NEW f \in Frames,
           ~name[n].known, f.m.named, f.m.waited,
           \A e \in Elems(name[n].queue) : Before(E, e, f),
           name' = [name EXCEPT ![n].queue = Append(@, f)],
           UNCHANGED remote, UNCHANGED conn, UNCHANGED stream, UNCHANGED got
    PROVE  OrderInv(E)'
<1>0. HarborType /\ HarborType'
  BY DEF HInv
<1>a. AllSorted(E) /\ Routed /\ NameFirst /\ QueueLater(E) /\ OneAwaited /\ ReadLater(E)
  BY DEF OrderInv
<1>1. PICK q \in Seq(Frames) : q = name[n].queue
  BY <1>0 DEF HarborType
<1>2. /\ name'[n].queue = Append(q, f) /\ ~name'[n].known
      /\ \A a \in Nodes : name'[a].known = name[a].known /\ (a # n => name'[a] = name[a])
  BY <1>0, <1>1 DEF HarborType
<1>3. Sorted(E, Append(q, f)) /\ Elems(Append(q, f)) = Elems(q) \cup {f}
  BY <1>1, <1>a, SortedAppend, ElemsAppend DEF AllSorted
<1>4. AllSorted(E)'
  BY <1>2, <1>3, <1>a DEF AllSorted
<1>5. \A g : (Written(g)' => Written(g)) /\ (Queued(g)' => Queued(g))
  BY DEF Written, Queued
<1>6. NameFirst'
  <2>1. \A a \in Nodes : name'[a].known => name'[a].queue = <<>>
    BY <1>2, <1>a DEF NameFirst
  <2>2. \A a \in Nodes : \A g \in Elems(name'[a].queue) : g.m.named /\ g.m.waited
    BY <1>1, <1>2, <1>3, <1>a DEF NameFirst
  <2>3. \A g : Written(g)' \/ Queued(g)' => (g.m.named => name'[g.m.from].known)
    BY <1>0, <1>2, <1>5, <1>a, FramesOnly DEF NameFirst
  <2> QED BY <2>1, <2>2, <2>3 DEF NameFirst
<1>7. Routed'
  BY <1>a DEF Routed, Route
<1>8. QueueLater(E)'
  BY <1>5, <1>a DEF QueueLater
<1>9. OneAwaited'
  BY <1>a DEF OneAwaited, Quiet
<1>10. ReadLater(E)'
  BY <1>a DEF ReadLater, Reads, Awaits, Other, Quiet, Precedes
<1> QED BY <1>4, <1>6, <1>7, <1>8, <1>9, <1>10 DEF OrderInv

LEMMA OrderParts ==
    ASSUME NEW E, HInv, OrderInv(E)
    PROVE  /\ HarborType /\ LinkInv /\ FrameInv
           /\ AllSorted(E) /\ Routed /\ NameFirst /\ QueueLater(E) /\ OneAwaited /\ ReadLater(E)
BY DEF HInv, OrderInv

(* What a step leaves alone.                                               *)
LEMMA StillRemote ==
    ASSUME NEW E, OrderInv(E), UNCHANGED remote
    PROVE  \A a, b \in Nodes : LinkMove(a, b) /\ QueueMove(a, b)
<1>1. \A a \in Nodes : remote[a][a].fd = 0
  BY DEF OrderInv, Routed
<1>2. \A a, b \in Nodes : remote[a][b].status = "HEADER" => remote[a][b].queue = <<>>
  BY DEF OrderInv, QueueLater
<1> QED BY <1>1, <1>2 DEF LinkMove, QueueMove

LEMMA StillName ==
    ASSUME NEW E, OrderInv(E), UNCHANGED name
    PROVE  \A a \in Nodes : NameMove(a)
BY DEF OrderInv, NameFirst, NameMove

LEMMA StillConn == UNCHANGED conn => ConnMove
BY DEF ConnMove

LEMMA WritesNothing == \A E, c, n, p : Writes(E, c, n, p, <<>>)
<1>1. <<>> \in Seq(Frames)
  OBVIOUS
<1> QED BY <1>1, SortedEmpty, ElemsEmpty DEF Writes

(* Whatever is about was sent.                                             *)
LEMMA AboutIsSent ==
    ASSUME HInv
    PROVE  \A f : Written(f) \/ Queued(f) => f.m \in sent
<1>1. QueueInv /\ StreamInv /\ GotInv
  BY DEF HInv, FrameInv
<1>2. \A f : Good(f) => f.m \in sent
  BY DEF Good
<1>3. \A f : Written(f) => f.m \in sent
  BY <1>1, <1>2 DEF Written, StreamInv, GotInv
<1>4. \A f : Queued(f) => f.m \in sent
  BY <1>1, <1>2 DEF Queued, QueueInv
<1> QED BY <1>3, <1>4

(* A new message is the last one.                                          *)
LEMMA NewIsLast ==
    ASSUME NEW E, HInv, NEW n \in Nodes, NEW p \in Nodes, NEW named \in BOOLEAN,
           NEW m \in New(n, p, named), NEW b \in BOOLEAN
    PROVE  /\ m.named = named
           /\ \A f : f.m \in sent => Before(E, f, Frame(m, b))
<1>1. HarborType /\ Numbered
  BY DEF HInv, FrameInv
<1>2. Cardinality(sent) \in Nat
  BY <1>1, FS_CardinalityType DEF HarborType
<1>3. m.k = Cardinality(sent) + 1 /\ m.named = named
  BY DEF New
<1>4. \A o \in sent : o.k \in Nat /\ o.k <= Cardinality(sent)
  BY <1>1 DEF HarborType, Numbered, Msgs
<1>5. \A o \in sent : o.k < m.k
  BY <1>2, <1>3, <1>4
<1>6. Frame(m, b).m = m
  BY DEF Frame
<1> QED BY <1>3, <1>5, <1>6 DEF Before

(* Where the frames that n writes to its connection to p go.               *)
LEMMA HeldRoute ==
    ASSUME HInv, NEW n \in Nodes, NEW p \in Nodes, remote[n][p].fd # 0
    PROVE  /\ remote[n][p].fd \in DOMAIN conn /\ remote[n][p].fd \in Conns
           /\ Route(remote[n][p].fd, n) = p
<1>1. HarborType /\ LinkInv
  BY DEF HInv
<1>2. PICK c : c = remote[n][p].fd
  OBVIOUS
<1>3. Holds(n, p) /\ c \in DOMAIN conn /\ c \in Conns
  BY <1>1, <1>2, FdType DEF LinkInv, Holds
<1>4. conn[c].from # conn[c].to
  BY <1>1, <1>3 DEF LinkInv, Stream
<1>5. \/ conn[c].from = n /\ conn[c].for = p
      \/ conn[c].to = n /\ conn[c].from = p
  BY <1>2, <1>3 DEF Holds
<1> QED BY <1>2, <1>3, <1>4, <1>5 DEF Route

LEMMA QueueEnds ==
    ASSUME NEW E, HInv, OrderInv(E), NEW a \in Nodes, NEW b \in Nodes,
           NEW g \in Elems(remote[a][b].queue)
    PROVE  g.m.from = a /\ g.m.to = b /\ a # b
BY DEF HInv, FrameInv, QueueInv, OrderInv, Routed

(* remote_send_handle of a message that is later than all others.          *)
LEMMA SendOrder ==
    ASSUME NEW E, HInv, HInv', OrderInv(E), NEW n \in Nodes, NEW p \in Nodes, NEW m \in Msgs,
           m.from = n, m.to = p, m.named => name[n].known,
           \A f : Written(f) \/ Queued(f) => Before(E, f, Frame(m, TRUE)),
           remote_send_handle(n, p, m), UNCHANGED name, UNCHANGED conn
    PROVE  OrderInv(E)'
<1>0. HarborType /\ LinkInv /\ Routed /\ QueueLater(E)
  BY OrderParts
<1>1. PICK f \in Frames : /\ f = Frame(m, TRUE) /\ f.m = m
                          /\ f.m.from = n /\ f.m.to = p /\ f.m.named = m.named
  BY FrameType
<1>2. PICK fs \in Seq(Frames) : fs = <<f>> /\ Sorted(E, fs) /\ Elems(fs) = {f}
  <2>1. <<f>> \in Seq(Frames) /\ Sorted(E, <<f>>) /\ Elems(<<f>>) = {f}
    BY SingleFrame, SortedOne
  <2> QED BY <2>1
<1>3. \A s \in Seq(Frames) : Append(s, f) = s \o fs
  BY <1>2
<1>4. (\A a \in Nodes : NameMove(a)) /\ ConnMove
  BY StillName, StillConn
<1>5. HInv /\ OrderInv(E)
  OBVIOUS
<1>6. CASE p = n /\ got' = [got EXCEPT ![n] = Append(@, f)] /\ UNCHANGED <<remote, stream>>
  <2>1. got' = [got EXCEPT ![n] = @ \o fs]
    <3>1. got[n] \in Seq(Frames)
      BY <1>0 DEF HarborType
    <3>2. Append(got[n], f) = got[n] \o fs
      BY <1>3, <3>1
    <3> QED BY <1>6, <3>2
  <2>2. \A g : Queued(g) => Before(E, f, g)
    <3> SUFFICES ASSUME NEW g, Queued(g) PROVE Before(E, f, g)
      OBVIOUS
    <3>1. PICK a \in Nodes, b \in Nodes : g \in Elems(remote[a][b].queue)
      BY DEF Queued
    <3>2. g.m.from = a /\ g.m.to = b /\ a # b /\ f.m.from = n /\ f.m.to = n
      <4>1. f.m.from = n /\ f.m.to = n
        BY <1>1, <1>6
      <4>2. a \in Nodes /\ b \in Nodes
        BY <3>1
      <4>3. g.m.from = a /\ g.m.to = b /\ a # b
        BY ONLY <1>5, <3>1, <4>2, QueueEnds
      <4> QED BY ONLY <4>1, <4>3
    <3> QED BY <3>2, OtherWay
  <2>3. \A x \in Nodes, d \in Conns : \A g \in Elems(stream'[d][x]) \cap Frames : Before(E, f, g)
    <3> SUFFICES ASSUME NEW x \in Nodes, NEW d \in Conns, NEW g \in Elems(stream[d][x]) \cap Frames
                 PROVE  Before(E, f, g)
      BY <1>6
    <3>1. g.m.from = x /\ g.m.to # x
      BY <1>0 DEF Routed
    <3> QED BY <1>1, <1>6, <3>1, OtherWay
  <2>4. \A e \in Elems(got[n]) : Before(E, e, f)
    <3>1. \A e \in Elems(got[n]) : e \in Frames
      BY <1>0 DEF HarborType, Elems
    <3> QED BY <1>1, <3>1 DEF Written
  <2>5. f.m.named => name'[f.m.from].known
    BY <1>1
  <2>6. \A d \in Conns, y \in Nodes :
           \/ stream'[d][y] = stream[d][y]
           \/ stream[d][y] # <<>> /\ stream'[d][y] = Tail(stream[d][y])
    BY <1>6
  <2>7. \A e \in Elems(fs) : e = f
    BY <1>2
  <2>8. \A h \in Elems(fs) :
           /\ h.m.named => name'[h.m.from].known
           /\ \A e \in Elems(got[n]) : Before(E, e, h)
           /\ \A g : Queued(g) => Before(E, h, g)
           /\ \A x \in Nodes, d \in Conns : Reads(n, x, d) \/ Awaits(n, x, d)
                 => \A g \in Elems(stream'[d][x]) \cap Frames : Before(E, h, g)
    BY <2>2, <2>3, <2>4, <2>5, <2>7
  <2>9. /\ HInv' /\ UNCHANGED remote /\ UNCHANGED conn /\ n \in Nodes
        /\ fs \in Seq(Frames) /\ Sorted(E, fs)
    BY <1>2, <1>6
  <2> QED BY ONLY <1>4, <1>5, <2>1, <2>6, <2>8, <2>9, OrderGot
<1>7. CASE UNCHANGED <<remote, stream, got>>
  <2>1. \A d \in Conns, y \in Nodes : StreamMove(d, y, 0, n, <<>>)
    BY <1>7 DEF StreamMove
  <2>2. \A a, b \in Nodes : LinkMove(a, b) /\ QueueMove(a, b)
    BY <1>7, StillRemote
  <2>3. Writes(E, 0, n, p, <<>>)
    BY WritesNothing
  <2>4. got' = got
    BY <1>7
  <2> QED BY <1>4, <2>1, <2>2, <2>3, <2>4, OrderStep
<1>8. CASE /\ p # n /\ Waiting(remote[n][p])
           /\ remote' = [remote EXCEPT ![n][p].queue = Append(@, f)]
           /\ UNCHANGED <<stream, got>>
  <2>1. remote[n][p].queue \in Seq(Frames)
    BY <1>0, RemoteType
  <2>2. remote' = [remote EXCEPT ![n][p].queue = @ \o fs]
    <3>1. Append(remote[n][p].queue, f) = remote[n][p].queue \o fs
      BY <1>3, <2>1
    <3> QED BY <1>8, <3>1
  <2>3. remote[n][p].status # "HEADER"
    <3>1. Holds(n, p)
      BY <1>0 DEF LinkInv
    <3> QED BY <1>8, <3>1 DEF Holds, Waiting
  <2>4. /\ \A e : Written(e) => Before(E, e, f)
        /\ \A e \in Elems(remote[n][p].queue) : Before(E, e, f)
    BY <1>1 DEF Queued
  <2>5. UNCHANGED stream /\ UNCHANGED got /\ n # p
    BY <1>8
  <2>6. f.m.from = n /\ f.m.to = p /\ (f.m.named => name'[n].known)
    BY <1>1
  <2>7. \A e \in Elems(fs) : e = f
    BY <1>2
  <2>8. \A h \in Elems(fs) :
           /\ h.m.from = n /\ h.m.to = p /\ (h.m.named => name'[n].known)
           /\ \A e : Written(e) => Before(E, e, h)
           /\ \A e \in Elems(remote[n][p].queue) : Before(E, e, h)
    BY <2>4, <2>6, <2>7
  <2>9. HInv' /\ UNCHANGED conn /\ n \in Nodes /\ p \in Nodes /\ fs \in Seq(Frames) /\ Sorted(E, fs)
    BY <1>2
  <2> QED BY ONLY <1>4, <1>5, <2>2, <2>3, <2>5, <2>8, <2>9, OrderQueue
<1>9. CASE /\ p # n /\ ~Waiting(remote[n][p])
           /\ stream' = send_remote(n, remote[n][p].fd, fs)
           /\ UNCHANGED <<remote, got>>
  <2>1. PICK c : c = remote[n][p].fd
    OBVIOUS
  <2>2. c # 0 /\ c \in DOMAIN conn /\ c \in Conns /\ Route(c, n) = p
    BY <1>9, <2>1, HeldRoute DEF Waiting
  <2>3. remote[n][p].status = "HEADER"
    <3>1. Holds(n, p)
      BY <1>0 DEF LinkInv
    <3> QED BY <1>9, <2>1, <2>2, <3>1 DEF Holds, Waiting
  <2>4. remote[n][p].queue = <<>>
    BY <1>0, <2>3 DEF QueueLater
  <2>5. \A d \in Conns, y \in Nodes : StreamMove(d, y, c, n, fs)
    <3>1. \A d \in Conns, y \in Nodes :
             stream'[d][y] = IF d = c /\ y = n /\ conn[c].up THEN stream[d][y] \o fs
                                                             ELSE stream[d][y]
      <4>1. /\ stream' = send_remote(n, c, fs) /\ HarborType /\ n \in Nodes /\ c \in Conns
            /\ fs \in Seq(Frames)
        BY <1>0, <1>9, <2>1, <2>2
      <4> QED BY ONLY <4>1, StreamUpdate
    <3> QED BY <3>1 DEF StreamMove
  <2>6. \A g : Queued(g)' => Before(E, f, g)
    <3> SUFFICES ASSUME NEW g, Queued(g)' PROVE Before(E, f, g)
      OBVIOUS
    <3>1. PICK a \in Nodes, b \in Nodes : g \in Elems(remote[a][b].queue)
      BY <1>9 DEF Queued
    <3>2. a # n \/ b # p
      BY <2>4, <3>1, ElemsEmpty
    <3>3. g.m.from = a /\ g.m.to = b /\ f.m.from = n /\ f.m.to = p
      <4>1. f.m.from = n /\ f.m.to = p
        BY <1>1
      <4>2. a \in Nodes /\ b \in Nodes
        BY <3>1
      <4>3. g.m.from = a /\ g.m.to = b /\ a # b
        BY ONLY <1>5, <3>1, <4>2, QueueEnds
      <4> QED BY ONLY <4>1, <4>3
    <3> QED BY <3>2, <3>3, OtherWay
  <2>7. Writes(E, c, n, p, fs)
    BY <1>1, <1>2, <1>9, <2>1, <2>2, <2>6 DEF Writes
  <2>8. \A a, b \in Nodes : LinkMove(a, b) /\ QueueMove(a, b)
    BY <1>9, StillRemote
  <2>9. got' = got
    BY <1>9
  <2> QED BY <1>4, <2>5, <2>7, <2>8, <2>9, OrderStep
<1> QED BY <1>1, <1>2, <1>6, <1>7, <1>8, <1>9 DEF remote_send_handle, push_queue

LEMMA SendHandleOrder ==
    ASSUME NEW E, HInv, HInv', OrderInv(E), NEW n \in Nodes, NEW p \in Nodes, SendHandle(n, p)
    PROVE  OrderInv(E)'
<1>1. PICK m \in New(n, p, FALSE) : sent' = sent \cup {m} /\ remote_send_handle(n, p, m)
  BY DEF SendHandle
<1>2. HarborType /\ Numbered
  BY DEF HInv, FrameInv
<1>3. m \in Msgs /\ m.from = n /\ m.to = p
  BY <1>1, <1>2, NewMessage
<1>4. m.named = FALSE /\ \A f : Written(f) \/ Queued(f) => Before(E, f, Frame(m, TRUE))
  BY NewIsLast, AboutIsSent
<1>5. UNCHANGED name /\ UNCHANGED conn
  BY DEF SendHandle
<1> QED BY <1>1, <1>3, <1>4, <1>5, SendOrder

LEMMA SendNameOrder ==
    ASSUME NEW E, HInv, HInv', OrderInv(E), NEW n \in Nodes, SendName(n)
    PROVE  OrderInv(E)'
<1>1. PICK m \in New(n, Owner, TRUE) :
        /\ sent' = sent \cup {m}
        /\ \/ name[n].known /\ remote_send_handle(n, Owner, m) /\ UNCHANGED name
           \/ /\ ~name[n].known
              /\ name' = [name EXCEPT ![n].queue = push_queue(@, Frame(m, FALSE))]
              /\ UNCHANGED <<remote, stream, got, errors>>
  BY DEF SendName
<1>2. HarborType /\ Numbered /\ NameInv /\ Owner \in Nodes
  BY HarborFacts DEF HInv, FrameInv
<1>3. /\ m \in Msgs /\ m \notin sent /\ m.from = n /\ m.to = Owner
      /\ sent' \subseteq Msgs /\ IsFiniteSet(sent') /\ Numbered'
  <2>1. Owner \in Nodes
    BY HarborFacts
  <2> QED BY <1>1, <2>1, NewMessage DEF HInv, FrameInv
<1>4. /\ m.named = TRUE
      /\ \A f : f.m \in sent => Before(E, f, Frame(m, TRUE)) /\ Before(E, f, Frame(m, FALSE))
  BY <1>2, NewIsLast
<1>5. UNCHANGED conn
  BY DEF SendName
<1>6. CASE name[n].known /\ remote_send_handle(n, Owner, m) /\ UNCHANGED name
  <2>1. \A f : Written(f) \/ Queued(f) => Before(E, f, Frame(m, TRUE))
    BY <1>4, AboutIsSent
  <2> QED BY <1>2, <1>3, <1>5, <1>6, <2>1, SendOrder
<1>7. CASE /\ ~name[n].known
           /\ name' = [name EXCEPT ![n].queue = push_queue(@, Frame(m, FALSE))]
           /\ UNCHANGED <<remote, stream, got, errors>>
  <2>1. PICK f \in Frames : f = Frame(m, FALSE) /\ f.m = m
    BY <1>3, FrameType
  <2>2. \A e \in Elems(name[n].queue) : Before(E, e, f)
    BY <1>2, <1>4, <2>1 DEF NameInv
  <2>3. name' = [name EXCEPT ![n].queue = Append(@, f)]
    BY <1>7, <2>1 DEF push_queue
  <2>4. UNCHANGED remote /\ UNCHANGED stream /\ UNCHANGED got
    BY <1>7
  <2>5. f.m.named /\ f.m.waited
    <3>1. m.waited = (TRUE /\ ~name[n].known)
      BY DEF New
    <3>2. m.waited
      BY <1>7, <3>1
    <3> QED BY <1>4, <2>1, <3>2
  <2> QED BY <1>5, <1>7, <2>2, <2>3, <2>4, <2>5, OrderName
<1> QED BY <1>1, <1>6, <1>7

LEMMA WithHandleSorted ==
    ASSUME NEW E, NEW q \in Seq(Frames), Sorted(E, q)
    PROVE  Sorted(E, WithHandle(q))
<1>1. DOMAIN WithHandle(q) = DOMAIN q /\ \A k \in DOMAIN q : WithHandle(q)[k].m = q[k].m
  BY DEF WithHandle, Frame
<1>2. \A k \in DOMAIN q : q[k] \in Frames
  OBVIOUS
<1>3. \A k, l \in DOMAIN q : Before(E, q[k], q[l]) => Before(E, WithHandle(q)[k], WithHandle(q)[l])
  BY <1>1 DEF Before
<1> QED BY <1>1, <1>2, <1>3 DEF Sorted

(* The queue of a harbor goes out.                                         *)
LEMMA QueueWrites ==
    ASSUME NEW E, HInv, OrderInv(E), NEW n \in Nodes, NEW p \in Nodes, NEW c \in DOMAIN conn,
           remote'[n][p].queue = <<>>, remote'[n][p].fd = c, Route(c, n) = p,
           \A a, b \in Nodes : ~(a = n /\ b = p) => remote'[a][b] = remote[a][b],
           UNCHANGED name
    PROVE  Writes(E, c, n, p, remote[n][p].queue)
<1>0. HarborType /\ AllSorted(E) /\ QueueLater(E) /\ NameFirst
  BY OrderParts
<1>1. PICK fs \in Seq(Frames) : fs = remote[n][p].queue /\ Sorted(E, fs)
  BY <1>0, RemoteType DEF AllSorted
<1>2. \A f \in Elems(fs) : f.m.from = n /\ f.m.to = p /\ n # p /\ Queued(f)
  BY <1>1, QueueEnds DEF Queued
<1>3. ASSUME NEW f \in Elems(fs), NEW g, Queued(g)' PROVE Before(E, f, g)
  <2>1. PICK a \in Nodes, b \in Nodes : g \in Elems(remote'[a][b].queue)
    BY <1>3 DEF Queued
  <2>2. ~(a = n /\ b = p)
    BY <2>1, ElemsEmpty
  <2>3. g \in Elems(remote[a][b].queue)
    BY <2>1, <2>2
  <2>4. g.m.from = a /\ g.m.to = b
    BY <2>3, QueueEnds
  <2> QED BY <1>2, <2>2, <2>4, OtherWay
<1>4. ASSUME NEW f \in Elems(fs) PROVE f.m.named => name'[n].known
  BY <1>0, <1>2 DEF NameFirst
<1>5. ASSUME NEW f \in Elems(fs), NEW e, Written(e) PROVE Before(E, e, f)
  BY <1>0, <1>2, <1>5 DEF QueueLater
<1> QED BY <1>1, <1>2, <1>3, <1>4, <1>5 DEF Writes

LEMMA BreakOrder ==
    ASSUME NEW E, HInv, HInv', OrderInv(E), NEW c \in DOMAIN conn, Break(c)
    PROVE  OrderInv(E)'
<1>0. HarborType /\ c \in Conns
  BY OrderParts, ConnType
<1>1. /\ conn' = SetDown(c) /\ UNCHANGED remote /\ UNCHANGED name /\ UNCHANGED got
      /\ stream' = [stream EXCEPT ![c] = [n \in Nodes |-> <<>>]]
  BY DEF Break, SetDown
<1>2. ConnMove
  BY <1>0, <1>1, ConnDown DEF ConnMove
<1>3. \A d \in Conns, y \in Nodes : StreamMove(d, y, 0, 0, <<>>)
  BY <1>0, <1>1 DEF StreamMove, HarborType
<1>4. (\A a, b \in Nodes : LinkMove(a, b) /\ QueueMove(a, b)) /\ \A a \in Nodes : NameMove(a)
  BY <1>1, StillRemote, StillName
<1>5. Writes(E, 0, 0, 0, <<>>)
  BY WritesNothing
<1> QED BY <1>1, <1>2, <1>3, <1>4, <1>5, OrderStep

LEMMA CloseOrder ==
    ASSUME NEW E, HInv, HInv', OrderInv(E), NEW n \in Nodes, NEW p \in Nodes, remote[n][p].fd # 0,
           Incoming(n, remote[n][p].fd), close_harbor(n, p), UNCHANGED name, UNCHANGED got
    PROVE  OrderInv(E)'
<1>0. HarborType /\ LinkInv /\ Routed /\ QueueLater(E)
  BY OrderParts
<1>1. PICK c : c = remote[n][p].fd
  OBVIOUS
<1>2. c \in DOMAIN conn /\ c \in Conns /\ c # 0
  BY <1>1, HeldRoute
<1>3. PICK x \in Nodes : x = Other(c, n)
  BY <1>0, <1>2, ConnType
<1>4. PICK r : r = [fd |-> 0, status |-> "DOWN", queue |-> <<>>]
  OBVIOUS
<1>5. r \in Remotes /\ r.fd = 0 /\ r.status = "DOWN" /\ r.queue = <<>>
  BY <1>4, HarborFacts DEF Remotes, Statuses
<1>6. remote' = SetRemote(n, p, r) /\ conn' = SetDown(c) /\ stream' = SetStream(c, x, <<>>)
  BY <1>1, <1>3, <1>4 DEF close_harbor, SetRemote, SetDown, SetStream
<1>7. remote'[n][p] = r /\ \A a, b \in Nodes : ~(a = n /\ b = p) => remote'[a][b] = remote[a][b]
  BY <1>0, <1>5, <1>6, RemoteUpdate
<1>8. ConnMove
  BY <1>0, <1>2, <1>6, ConnDown DEF ConnMove
<1>9. \A d \in Conns, y \in Nodes : StreamMove(d, y, 0, 0, <<>>)
  <2>1. PICK v \in Seq(Frames \cup Handshakes) : v = <<>>
    <3>1. <<>> \in Seq(Frames \cup Handshakes)
      OBVIOUS
    <3> QED BY <3>1
  <2>2. \A d \in Conns, y \in Nodes : stream'[d][y] = IF d = c /\ y = x THEN v ELSE stream[d][y]
    <3>1. HarborType /\ c \in Conns /\ x \in Nodes /\ stream' = SetStream(c, x, v)
      BY <1>0, <1>2, <1>6, <2>1
    <3> QED BY <3>1, StreamSet
  <2> QED BY <2>1, <2>2 DEF StreamMove
<1>10. conn[c].from = n => Quiet(c, n)
  <2> SUFFICES ASSUME conn[c].from = n PROVE Quiet(c, n)
    OBVIOUS
  <2>1. Stream(c) /\ stream[c][x] # <<>> /\ x = conn[c].to
    BY <1>0, <1>1, <1>2, <1>3 DEF LinkInv, Incoming, Other
  <2> QED BY <2>1 DEF Stream
<1>11. ASSUME NEW a \in Nodes, NEW b \in Nodes PROVE LinkMove(a, b) /\ QueueMove(a, b)
  <2>1. CASE a = n /\ b = p
    BY <1>1, <1>5, <1>7, <1>10, <2>1 DEF LinkMove, QueueMove
  <2>2. CASE ~(a = n /\ b = p)
    <3>1. a = b => remote[a][b].fd = 0
      BY <1>0 DEF Routed
    <3>2. remote[a][b].status = "HEADER" => remote[a][b].queue = <<>>
      BY <1>0 DEF QueueLater
    <3> QED BY <1>7, <2>2, <3>1, <3>2 DEF LinkMove, QueueMove
  <2> QED BY <2>1, <2>2
<1>12. (\A a \in Nodes : NameMove(a)) /\ Writes(E, 0, 0, 0, <<>>)
  BY StillName, WritesNothing
<1> QED BY <1>8, <1>9, <1>11, <1>12, OrderStep

LEMMA ReceiveOrder ==
    ASSUME NEW E, HInv, HInv', OrderInv(E), NEW n \in Nodes, NEW p \in Nodes, Receive(n, p)
    PROVE  OrderInv(E)'
<1>0. /\ HarborType /\ LinkInv /\ AllSorted(E) /\ Routed /\ NameFirst /\ QueueLater(E) /\ ReadLater(E)
  BY OrderParts
<1>1. PICK c : c = remote[n][p].fd
  OBVIOUS
<1>2. c # 0 /\ remote[n][p].status = "HEADER" /\ Incoming(n, c) /\ UNCHANGED name
  BY <1>1 DEF Receive
<1>3. Holds(n, p) /\ c \in DOMAIN conn /\ c \in Conns
  BY <1>0, <1>1, <1>2, HeldRoute DEF LinkInv
<1>4. Other(c, n) = p /\ Quiet(c, p)
  BY <1>1, <1>2, <1>3 DEF Holds
<1>5. PICK s \in Seq(Frames \cup Handshakes) : s = stream[c][p] /\ Sorted(E, s)
  BY <1>0, <1>3, StreamType DEF AllSorted
<1>6. s # <<>>
  BY <1>2, <1>4, <1>5 DEF Incoming
<1>7. PICK f : f = Head(s)
  OBVIOUS
<1>8. f \in Elems(s) /\ f \in Frames /\ \A g \in Elems(Tail(s)) \cap Frames : Before(E, f, g)
  <2>1. f \in Elems(s) /\ f = s[1] /\ 1 \in DOMAIN s
    BY <1>5, <1>6, <1>7, ElemsTail
  <2>2. f \in Frames
    BY <1>4, <1>5, <2>1 DEF Quiet
  <2>3. \A g \in Elems(Tail(s)) \cap Frames : Before(E, f, g)
    BY <1>5, <1>6, <1>7, <2>2, SortedTail
  <2> QED BY <2>1, <2>2, <2>3
<1>9. CASE f.m.big
  <2>1. close_harbor(n, p) /\ UNCHANGED got
    BY <1>1, <1>4, <1>5, <1>7, <1>9 DEF Receive
  <2> QED BY <1>1, <1>2, <2>1, CloseOrder
<1>10. CASE ~f.m.big
  <2>1. /\ got' = [got EXCEPT ![n] = Append(@, f)] /\ UNCHANGED remote /\ UNCHANGED conn
        /\ stream' = SetStream(c, p, Tail(s))
    BY <1>1, <1>4, <1>5, <1>7, <1>10 DEF Receive, Taken, SetStream
  <2>2. PICK fs \in Seq(Frames) : fs = <<f>> /\ Sorted(E, fs) /\ Elems(fs) = {f}
    <3>1. <<f>> \in Seq(Frames) /\ Sorted(E, <<f>>) /\ Elems(<<f>>) = {f}
      BY <1>8, SortedOne
    <3> QED BY <3>1
  <2>3. got' = [got EXCEPT ![n] = @ \o fs]
    <3>1. got[n] \in Seq(Frames)
      BY <1>0 DEF HarborType
    <3>2. Append(got[n], f) = got[n] \o fs
      BY <1>8, <2>2, <3>1
    <3> QED BY <2>1, <3>2
  <2>4. \A d \in Conns, y \in Nodes :
           stream'[d][y] = IF d = c /\ y = p THEN Tail(s) ELSE stream[d][y]
    <3>1. PICK v \in Seq(Frames \cup Handshakes) : v = Tail(s)
      BY <1>5, <1>6, ElemsTail
    <3>2. HarborType /\ c \in Conns /\ p \in Nodes /\ stream' = SetStream(c, p, v)
      BY <1>0, <1>3, <2>1, <3>1
    <3>3. \A d \in Conns, y \in Nodes : stream'[d][y] = IF d = c /\ y = p THEN v ELSE stream[d][y]
      BY <3>2, StreamSet
    <3> QED BY <3>1, <3>3
  <2>5. \A d \in Conns, y \in Nodes :
           \/ stream'[d][y] = stream[d][y]
           \/ stream[d][y] # <<>> /\ stream'[d][y] = Tail(stream[d][y])
    BY <1>5, <1>6, <2>4
  <2>6. Elems(Tail(s)) \subseteq Elems(s)
    BY <1>5, <1>6, ElemsTail
  <2>7. Written(f) /\ f.m.from = p /\ Reads(n, p, c)
    BY <1>0, <1>1, <1>3, <1>4, <1>5, <1>8 DEF Written, Routed, Reads
  <2>8. f.m.named => name'[f.m.from].known
    BY <1>0, <1>2, <2>7 DEF NameFirst
  <2>9. \A e \in Elems(got[n]) : Before(E, e, f)
    <3>1. \A e \in Elems(got[n]) : e \in Frames
      BY <1>0 DEF HarborType, Elems
    <3>2. Precedes(E, got[n], s)
      BY <1>0, <1>3, <1>5, <2>7 DEF ReadLater
    <3> QED BY <1>8, <3>1, <3>2 DEF Precedes
  <2>10. \A g : Queued(g) => Before(E, f, g)
    BY <1>0, <2>7 DEF QueueLater
  <2>11. ASSUME NEW x \in Nodes, NEW d \in Conns, Reads(n, x, d) \/ Awaits(n, x, d),
                NEW g \in Elems(stream'[d][x]), g \in Frames
         PROVE  Before(E, f, g)
    <3>1. g \in Elems(stream[d][x])
      BY <1>5, <2>4, <2>6, <2>11
    <3>2. CASE x # p
      <4>1. g.m.from = x
        BY <1>0, <2>11, <3>1 DEF Routed
      <4> QED BY <2>7, <3>2, <4>1, OtherWay
    <3>3. CASE x = p /\ d = c
      BY <1>8, <2>4, <2>11, <3>3
    <3>4. CASE x = p /\ d # c
      <4>1. Awaits(n, p, d)
        BY <1>1, <2>11, <3>4 DEF Reads
      <4>2. Precedes(E, s, stream[d][p])
        BY <1>0, <1>3, <1>5, <2>7, <3>4, <4>1 DEF ReadLater
      <4> QED BY <1>8, <2>11, <3>1, <3>4, <4>2 DEF Precedes
    <3> QED BY <3>2, <3>3, <3>4
  <2>12. \A h \in Elems(fs) :
           /\ h.m.named => name'[h.m.from].known
           /\ \A e \in Elems(got[n]) : Before(E, e, h)
           /\ \A g : Queued(g) => Before(E, h, g)
           /\ \A x \in Nodes, d \in Conns : Reads(n, x, d) \/ Awaits(n, x, d)
                 => \A g \in Elems(stream'[d][x]) \cap Frames : Before(E, h, g)
    BY <2>2, <2>8, <2>9, <2>10, <2>11
  <2>13. /\ HInv /\ HInv' /\ OrderInv(E) /\ UNCHANGED remote /\ UNCHANGED conn /\ n \in Nodes
         /\ fs \in Seq(Frames) /\ Sorted(E, fs) /\ \A a \in Nodes : NameMove(a)
    BY <1>2, <2>1, <2>2, StillName
  <2> QED BY ONLY <2>3, <2>5, <2>12, <2>13, OrderGot
<1> QED BY <1>9, <1>10

LEMMA CheckIdOrder ==
    ASSUME NEW E, HInv, HInv', OrderInv(E), NEW n \in Nodes, NEW p \in Nodes, CheckId(n, p)
    PROVE  OrderInv(E)'
<1>0. HarborType /\ LinkInv /\ Routed /\ QueueLater(E)
  BY OrderParts
<1>1. PICK c : c = remote[n][p].fd
  OBVIOUS
<1>2. /\ c # 0 /\ remote[n][p].status = "HANDSHAKE" /\ Incoming(n, c)
      /\ UNCHANGED name /\ UNCHANGED got
  BY <1>1 DEF CheckId
<1>3. c \in DOMAIN conn /\ c \in Conns /\ Route(c, n) = p
  BY <1>1, <1>2, HeldRoute
<1>4. PICK x \in Nodes : x = Other(c, n)
  BY <1>0, <1>3, ConnType
<1>5. PICK s \in Seq(Frames \cup Handshakes) : s = stream[c][x] /\ s # <<>>
  BY <1>0, <1>2, <1>3, <1>4, StreamType DEF Incoming
<1>6. x # n
  <2>1. conn[c].from # conn[c].to
    BY <1>0, <1>3 DEF LinkInv, Stream
  <2> QED BY <1>4, <2>1 DEF Other
<1>7. CASE Head(s) # Handshake(p)
  <2>1. close_harbor(n, p)
    BY <1>1, <1>4, <1>5, <1>7 DEF CheckId
  <2> QED BY <1>1, <1>2, <2>1, CloseOrder
<1>8. CASE Head(s) = Handshake(p)
  <2>1. PICK q \in Seq(Frames) : q = remote[n][p].queue
    BY <1>0, RemoteType
  <2>2. /\ remote' = [remote EXCEPT ![n][p].status = "HEADER", ![n][p].queue = <<>>]
        /\ stream' = IF conn[c].up THEN [Taken(n, c) EXCEPT ![c][n] = @ \o q] ELSE Taken(n, c)
        /\ UNCHANGED conn
    BY <1>1, <1>4, <1>5, <1>8, <2>1 DEF CheckId
  <2>3. /\ remote'[n][p].fd = c /\ remote'[n][p].queue = <<>>
        /\ \A a, b \in Nodes : ~(a = n /\ b = p) => remote'[a][b] = remote[a][b]
    <3>1. PICK r0 \in Remotes : r0 = remote[n][p] /\ r0.fd = c
      BY <1>0, <1>1, RemoteType
    <3>2. PICK r1 : r1 = [r0 EXCEPT !.status = "HEADER"]
      OBVIOUS
    <3>3. PICK r2 : r2 = [r1 EXCEPT !.queue = <<>>]
      OBVIOUS
    <3>4. r2.fd = c /\ r2.queue = <<>>
      BY <3>1, <3>2, <3>3 DEF Remotes
    <3>5. /\ remote'[n][p] = r2
          /\ \A a, b \in Nodes : ~(a = n /\ b = p) => remote'[a][b] = remote[a][b]
      BY <1>0, <2>2, <3>1, <3>2, <3>3 DEF HarborType
    <3> QED BY <3>4, <3>5
  <2>4. \A d \in Conns, y \in Nodes : StreamMove(d, y, c, n, q)
    <3>1. stream \in [Conns -> [Nodes -> Seq(Frames \cup Handshakes)]]
      BY <1>0 DEF HarborType
    <3>2. \A d \in Conns, y \in Nodes :
             Taken(n, c)[d][y] = IF d = c /\ y = x THEN Tail(s) ELSE stream[d][y]
      BY <1>3, <1>4, <1>5, <3>1 DEF Taken
    <3>3. Taken(n, c) \in [Conns -> [Nodes -> Seq(Frames \cup Handshakes)]]
      <4>1. Tail(s) \in Seq(Frames \cup Handshakes)
        BY <1>5, ElemsTail
      <4> QED BY <1>3, <1>4, <1>5, <3>1, <4>1 DEF Taken
    <3>4. \A d \in Conns, y \in Nodes :
             stream'[d][y] = IF d = c /\ y = n /\ conn[c].up THEN Taken(n, c)[d][y] \o q
                                                             ELSE Taken(n, c)[d][y]
      BY <1>3, <2>2, <3>3
    <3>5. ASSUME NEW d \in Conns, NEW y \in Nodes PROVE StreamMove(d, y, c, n, q)
      <4>1. CASE d = c /\ y = x
        <5>1. stream'[d][y] = Tail(s)
          BY <1>6, <3>2, <3>4, <4>1
        <5> QED BY <1>5, <4>1, <5>1 DEF StreamMove
      <4>2. CASE ~(d = c /\ y = x)
        <5>1. Taken(n, c)[d][y] = stream[d][y]
          BY <3>2, <4>2
        <5> QED BY <3>4, <5>1 DEF StreamMove
      <4> QED BY <4>1, <4>2
    <3> QED BY <3>5
  <2>5. Writes(E, c, n, p, q)
    BY <1>2, <1>3, <2>1, <2>3, QueueWrites
  <2>6. ASSUME NEW a \in Nodes, NEW b \in Nodes PROVE LinkMove(a, b) /\ QueueMove(a, b)
    <3>1. /\ a = b => remote[a][b].fd = 0
          /\ (remote[a][b].status = "HEADER" => remote[a][b].queue = <<>>)
      BY <1>0 DEF Routed, QueueLater
    <3>2. CASE a = n /\ b = p
      BY <1>1, <2>3, <3>1, <3>2 DEF LinkMove, QueueMove
    <3>3. CASE ~(a = n /\ b = p)
      BY <2>3, <3>1, <3>3 DEF LinkMove, QueueMove
    <3> QED BY <3>2, <3>3
  <2>7. (\A a \in Nodes : NameMove(a)) /\ ConnMove
    BY <1>2, <2>2, StillName, StillConn
  <2> QED BY <1>2, <2>4, <2>5, <2>6, <2>7, OrderStep
<1> QED BY <1>7, <1>8

LEMMA CommandAOrder ==
    ASSUME NEW E, HInv, HInv', OrderInv(E), NEW c \in DOMAIN conn, CommandA(c)
    PROVE  OrderInv(E)'
<1>0. HarborType /\ LinkInv /\ Routed /\ QueueLater(E)
  BY OrderParts
<1>1. c \in Conns /\ c # 0 /\ conn[c].from \in Nodes /\ conn[c].to \in Nodes
  BY <1>0, ConnType
<1>2. PICK n \in Nodes, q \in Nodes : n = conn[c].from /\ q = conn[c].to
  BY <1>1
<1>3. PICK s \in Seq(Frames \cup Handshakes) : s = stream[c][n]
  BY <1>0, <1>1, StreamType
<1>4. s # <<>> /\ Head(s) = Handshake(n) /\ UNCHANGED name /\ UNCHANGED conn /\ UNCHANGED got
  BY <1>2, <1>3 DEF CommandA
<1>5. Stream(c) /\ n # q
  BY <1>0, <1>1, <1>2 DEF LinkInv, Stream
<1>6. /\ Tail(s) \in Seq(Frames \cup Handshakes) /\ Head(s) = s[1] /\ 1 \in DOMAIN s
      /\ Head(s) \notin Frames
  BY <1>4, HoldingTail, FrameOrHandshake
<1>7. (\A a \in Nodes : NameMove(a)) /\ ConnMove
  BY <1>4, StillName, StillConn
<1>8. CASE remote[q][n].fd # 0
  <2>1. UNCHANGED remote /\ stream' = [stream EXCEPT ![c][n] = Tail(@)]
    BY <1>2, <1>3, <1>8 DEF CommandA
  <2>2. \A d \in Conns, y \in Nodes : StreamMove(d, y, 0, 0, <<>>)
    <3>1. \A d \in Conns, y \in Nodes :
             stream'[d][y] = IF d = c /\ y = n THEN Tail(s) ELSE stream[d][y]
      BY <1>0, <1>1, <1>3, <2>1 DEF HarborType
    <3> QED BY <1>3, <1>4, <3>1 DEF StreamMove
  <2>3. (\A a, b \in Nodes : LinkMove(a, b) /\ QueueMove(a, b)) /\ Writes(E, 0, 0, 0, <<>>)
    BY <2>1, StillRemote, WritesNothing
  <2> QED BY <1>4, <1>7, <2>2, <2>3, OrderStep
<1>9. CASE remote[q][n].fd = 0
  <2>1. Answer(q, n, c)
    BY <1>2, <1>9 DEF CommandA
  <2>2. ~Quiet(c, n) /\ stream[c][q] = <<>>
    BY <1>2, <1>3, <1>5, <1>6 DEF Quiet, Stream
  <2>3. PICK fs \in Seq(Frames) : fs = remote[q][n].queue
    BY <1>0, RemoteType
  <2>4. PICK h \in Seq(Frames \cup Handshakes) : h = <<Handshake(q)>> \o fs
    <3>1. PICK h : h = <<Handshake(q)>> \o fs
      OBVIOUS
    <3>2. h \in Seq(Frames \cup Handshakes)
      BY <3>1, Greeting
    <3> QED BY <3>1, <3>2
  <2>5. PICK r \in Remotes : r = [fd |-> c, status |-> "HEADER", queue |-> <<>>]
    BY <1>1, HeaderRecord
  <2>6. remote' = SetRemote(q, n, r)
    BY <2>1, <2>5 DEF Answer, SetRemote
  <2>7. /\ remote'[q][n].fd = c /\ remote'[q][n].queue = <<>>
        /\ \A a, b \in Nodes : ~(a = q /\ b = n) => remote'[a][b] = remote[a][b]
    BY <1>0, <2>5, <2>6, RemoteUpdate
  <2>8. \A d \in Conns, y \in Nodes : StreamMove(d, y, c, q, fs)
    <3>1. stream \in [Conns -> [Nodes -> Seq(Frames \cup Handshakes)]]
      BY <1>0 DEF HarborType
    <3>2. stream' = [send_remote(q, c, h) EXCEPT ![c][n] = Tail(@)]
      BY <2>1, <2>3, <2>4 DEF Answer
    <3>3. /\ send_remote(q, c, h) \in [Conns -> [Nodes -> Seq(Frames \cup Handshakes)]]
          /\ \A d \in Conns, y \in Nodes :
                send_remote(q, c, h)[d][y] =
                   IF d = c /\ y = q /\ conn[c].up THEN h ELSE stream[d][y]
      <4>1. stream[c][q] \o h = h
        BY <2>2, <2>4
      <4> QED BY <1>1, <2>4, <3>1, <4>1 DEF send_remote
    <3>4. \A d \in Conns, y \in Nodes :
             stream'[d][y] = IF d = c /\ y = n THEN Tail(s)
                             ELSE IF d = c /\ y = q /\ conn[c].up THEN h ELSE stream[d][y]
      <4>1. send_remote(q, c, h)[c][n] = s
        BY <1>1, <1>3, <1>5, <3>3
      <4> QED BY <1>1, <3>2, <3>3, <4>1
    <3> QED BY <1>2, <1>3, <1>4, <1>5, <2>2, <2>4, <3>4 DEF StreamMove
  <2>9. Route(c, q) = n
    BY <1>2, <1>5 DEF Route
  <2>10. Writes(E, c, q, n, fs)
    BY <1>4, <2>3, <2>7, <2>9, QueueWrites
  <2>11. Awaits(q, n, c)
    BY <1>2, <2>2 DEF Awaits
  <2>12. ASSUME NEW a \in Nodes, NEW b \in Nodes PROVE LinkMove(a, b) /\ QueueMove(a, b)
    <3>1. /\ a = b => remote[a][b].fd = 0
          /\ (remote[a][b].status = "HEADER" => remote[a][b].queue = <<>>)
      BY <1>0 DEF Routed, QueueLater
    <3>2. CASE a = q /\ b = n
      BY <1>5, <1>9, <2>7, <2>11, <3>2 DEF LinkMove, QueueMove
    <3>3. CASE ~(a = q /\ b = n)
      BY <2>7, <3>1, <3>3 DEF LinkMove, QueueMove
    <3> QED BY <3>2, <3>3
  <2> QED BY <1>4, <1>7, <2>8, <2>10, <2>12, OrderStep
<1> QED BY <1>8, <1>9

LEMMA CommandSOrder ==
    ASSUME NEW E, HInv, HInv', OrderInv(E), NEW n \in Nodes, NEW p \in Nodes, NEW q \in Nodes,
           CommandS(n, p, q)
    PROVE  OrderInv(E)'
<1>0. HarborType /\ LinkInv /\ Routed /\ QueueLater(E)
  BY OrderParts
<1>1. PICK c : c = Len(conn) + 1
  OBVIOUS
<1>2. PICK l : l = [from |-> n, for |-> p, to |-> q, up |-> TRUE]
  OBVIOUS
<1>3. /\ Len(conn) < MaxConn /\ n # p /\ remote[n][p].fd = 0
      /\ conn' = Append(conn, l)
      /\ stream' = SetStream(c, n, <<Handshake(n)>>)
      /\ remote' = [remote EXCEPT ![n][p].fd = c, ![n][p].status = "HANDSHAKE"]
      /\ UNCHANGED name /\ UNCHANGED got
  BY <1>1, <1>2, HarborFacts DEF CommandS, SetStream
<1>4. l \in Links /\ l.from = n /\ l.for = p
  BY <1>2 DEF Links
<1>5. conn \in Seq(Links) /\ Len(conn) \in Nat /\ DOMAIN conn = 1 .. Len(conn)
  BY <1>0 DEF HarborType
<1>6. c \in Conns /\ c # 0 /\ c \notin DOMAIN conn
  BY <1>1, <1>3, <1>5, HarborFacts DEF Conns
<1>7. /\ DOMAIN conn' = DOMAIN conn \cup {c} /\ conn'[c] = l
      /\ \A d \in DOMAIN conn : conn'[d] = conn[d]
  BY <1>1, <1>3, <1>4, <1>5
<1>8. PICK h \in Seq(Frames \cup Handshakes) : h = <<Handshake(n)>>
  <2>1. Handshake(n) \in Handshakes
    BY HandshakeIsOne
  <2>2. <<Handshake(n)>> \in Seq(Frames \cup Handshakes)
    BY <2>1
  <2> QED BY <2>2
<1>9. \A d \in Conns, y \in Nodes : stream'[d][y] = IF d = c /\ y = n THEN h ELSE stream[d][y]
  <2>1. stream' = SetStream(c, n, h)
    BY <1>3, <1>8
  <2> QED BY <1>0, <1>6, <2>1, StreamSet
<1>10. \A y \in Nodes : stream[c][y] = <<>>
  BY <1>0, <1>6 DEF LinkInv
<1>11. \A d \in Conns, y \in Nodes : StreamMove(d, y, c, n, <<>>)
  <2>1. h = <<Handshake(n)>> \o <<>>
    BY <1>8
  <2> QED BY <1>6, <1>9, <1>10, <2>1 DEF StreamMove
<1>12. /\ remote'[n][p].fd = c /\ remote'[n][p].status = "HANDSHAKE"
       /\ remote'[n][p].queue = remote[n][p].queue
       /\ \A a, b \in Nodes : ~(a = n /\ b = p) => remote'[a][b] = remote[a][b]
  <2>1. PICK r0 \in Remotes : r0 = remote[n][p]
    BY <1>0, RemoteType
  <2>2. PICK r1 : r1 = [r0 EXCEPT !.fd = c]
    OBVIOUS
  <2>3. PICK r2 : r2 = [r1 EXCEPT !.status = "HANDSHAKE"]
    OBVIOUS
  <2>4. r2.fd = c /\ r2.status = "HANDSHAKE" /\ r2.queue = r0.queue
    BY <2>1, <2>2, <2>3 DEF Remotes
  <2>5. remote'[n][p] = r2 /\ \A a, b \in Nodes : ~(a = n /\ b = p) => remote'[a][b] = remote[a][b]
    BY <1>0, <1>3, <2>1, <2>2, <2>3 DEF HarborType
  <2> QED BY <2>1, <2>4, <2>5
<1>13. ConnMove
  BY <1>4, <1>7, <1>12 DEF ConnMove
<1>14. ASSUME NEW a \in Nodes, NEW b \in Nodes PROVE LinkMove(a, b) /\ QueueMove(a, b)
  <2>1. /\ a = b => remote[a][b].fd = 0
        /\ (remote[a][b].status = "HEADER" => remote[a][b].queue = <<>>)
    BY <1>0 DEF Routed, QueueLater
  <2>2. CASE a = n /\ b = p
    BY <1>3, <1>10, <1>12, <2>2 DEF LinkMove, QueueMove
  <2>3. CASE ~(a = n /\ b = p)
    BY <1>12, <2>1, <2>3 DEF LinkMove, QueueMove
  <2> QED BY <2>2, <2>3
<1>15. (\A a \in Nodes : NameMove(a)) /\ Writes(E, c, n, p, <<>>)
  BY <1>3, StillName, WritesNothing
<1> QED BY <1>3, <1>11, <1>13, <1>14, <1>15, OrderStep

(* The queue of a name goes out when the name is known.                    *)
LEMMA UpdateNameOrder ==
    ASSUME NEW E, HInv, HInv', OrderInv(E), NEW n \in Nodes, update_name(n), early' \subseteq E
    PROVE  OrderInv(E)'
<1>0. /\ HarborType /\ LinkInv /\ FrameInv /\ AllSorted(E) /\ Routed /\ NameFirst /\ QueueLater(E)
      /\ Owner \in Nodes /\ HInv /\ HInv' /\ OrderInv(E)
  BY OrderParts, HarborFacts
<1>1. name' = [name EXCEPT ![n] = [known |-> TRUE, queue |-> <<>>]] /\ UNCHANGED conn
  BY DEF update_name
<1>2. PICK q \in Seq(Frames) : q = name[n].queue /\ Sorted(E, q)
  BY <1>0 DEF HarborType, AllSorted
<1>3. /\ name'[n].known /\ name'[n].queue = <<>> /\ \A a \in Nodes : a # n => name'[a] = name[a]
  BY <1>0, <1>1 DEF HarborType
<1>4. ASSUME NEW a \in Nodes PROVE NameMove(a)
  BY <1>0, <1>3 DEF NameMove, NameFirst
<1>5. ConnMove
  BY <1>1, StillConn
<1>6. PICK w \in Seq(Frames) :
        /\ w = WithHandle(q) /\ Sorted(E, w)
        /\ \A f \in Elems(w) : \E g \in Elems(q) : f.m = g.m
  <2>1. Sorted(E, WithHandle(q)) /\ WithHandle(q) \in Seq(Frames)
        /\ Elems(WithHandle(q)) = {Frame(f.m, TRUE) : f \in Elems(q)}
    BY <1>2, WithHandleSorted, WithHandleFrames
  <2>2. \A f : Frame(f.m, TRUE).m = f.m
    BY DEF Frame
  <2> QED BY <2>1, <2>2
(* Nothing that n sent by name has gone anywhere yet, and what it sent by  *)
(* handle meanwhile may have passed.                                       *)
<1>7. ASSUME NEW f, f \in Elems(q) \cup Elems(w)
      PROVE  /\ f.m.from = n /\ f.m.to = Owner
             /\ \A e : Written(e) \/ Queued(e) =>
                   Before(E, e, f) /\ (f.m \in E => Before(E, f, e))
  <2>1. PICK g \in Elems(q) : f.m = g.m
    BY <1>6, <1>7
  <2>2. f.m.from = n /\ f.m.to = Owner /\ f.m.named /\ f.m.waited
    BY <1>0, <1>2, <2>1 DEF FrameInv, NameInv, NameFirst
  <2>3. ~name[n].known
    BY <1>0, <1>2, <2>1, ElemsEmpty DEF NameFirst
  <2>4. \A e : Written(e) \/ Queued(e) => e.m.from # n \/ ~e.m.named
    BY <1>0, <2>2, <2>3 DEF NameFirst
  <2>5. \A e : e.m.from # n \/ ~e.m.named => Before(E, e, f) /\ (f.m \in E => Before(E, f, e))
    BY ONLY <2>2 DEF Before
  <2> QED BY <2>2, <2>4, <2>5
(* What has gone elsewhere is in order with everything.                    *)
<1>14. ASSUME NEW f, f \in Elems(w), NEW e,
              e.m.from # n \/ e.m.to # Owner
       PROVE  Before(E, f, e)
  BY <1>7, <1>14, OtherWay
<1>15. \A a, b \in Nodes : \A g \in Elems(remote[a][b].queue) : g.m.from = a /\ g.m.to = b /\ a # b
  BY <1>0, QueueEnds
<1>8. CASE UNCHANGED <<remote, stream, got>>
  <2>1. \A d \in Conns, y \in Nodes : StreamMove(d, y, 0, 0, <<>>)
    BY <1>8 DEF StreamMove
  <2>2. (\A a, b \in Nodes : LinkMove(a, b) /\ QueueMove(a, b)) /\ Writes(E, 0, 0, 0, <<>>)
    BY <1>8, StillRemote, WritesNothing
  <2>3. got' = got
    BY <1>8
  <2> QED BY <1>4, <1>5, <2>1, <2>2, <2>3, OrderStep
<1>9. CASE /\ remote[n][Owner].fd = 0 /\ Owner # n
           /\ remote' = [remote EXCEPT ![n][Owner].queue = @ \o q]
           /\ UNCHANGED <<stream, got>>
  <2>1. remote[n][Owner].status # "HEADER"
    <3>1. Holds(n, Owner)
      BY <1>0 DEF LinkInv
    <3> QED BY <1>9, <3>1 DEF Holds
  <2>2. \A e \in Elems(remote[n][Owner].queue) : Queued(e)
    BY <1>0 DEF Queued
  <2>3. \A f \in Elems(q) :
           /\ f.m.from = n /\ f.m.to = Owner /\ (f.m.named => name'[n].known)
           /\ \A e : Written(e) => Before(E, e, f)
           /\ \A e \in Elems(remote[n][Owner].queue) : Before(E, e, f)
    BY <1>3, <1>7, <2>2
  <2>4. /\ n # Owner /\ n \in Nodes /\ UNCHANGED stream /\ UNCHANGED got /\ UNCHANGED conn
        /\ remote' = [remote EXCEPT ![n][Owner].queue = @ \o q]
    BY <1>1, <1>9
  <2> QED BY ONLY <1>0, <1>2, <1>4, <2>1, <2>3, <2>4, OrderQueue
<1>10. CASE /\ Owner = n
            /\ got' = [got EXCEPT ![n] = @ \o w]
            /\ UNCHANGED <<remote, stream>>
  <2>1. ASSUME NEW f \in Elems(w), NEW x \in Nodes, NEW d \in Conns,
               NEW g \in Elems(stream[d][x]), g \in Frames
        PROVE  Before(E, f, g)
    <3>1. g.m.from = x /\ g.m.to # x
      BY <1>0, <2>1 DEF Routed
    <3> QED BY <1>10, <1>14, <2>1, <3>1
  <2>2. \A e \in Elems(got[n]) : Written(e)
    BY <1>0 DEF HarborType, Elems, Written
  <2>6. \A f \in Elems(w) : \A g : Queued(g) => Before(E, f, g)
    BY <1>10, <1>14, <1>15 DEF Queued
  <2>3. \A f \in Elems(w) :
           /\ f.m.named => name'[f.m.from].known
           /\ \A e \in Elems(got[n]) : Before(E, e, f)
           /\ \A g : Queued(g) => Before(E, f, g)
           /\ \A x \in Nodes, d \in Conns : Reads(n, x, d) \/ Awaits(n, x, d)
                 => \A g \in Elems(stream'[d][x]) \cap Frames : Before(E, f, g)
    BY <1>3, <1>7, <1>10, <2>1, <2>2, <2>6
  <2>4. \A d \in Conns, y \in Nodes :
           \/ stream'[d][y] = stream[d][y]
           \/ stream[d][y] # <<>> /\ stream'[d][y] = Tail(stream[d][y])
    BY <1>10
  <2>5. /\ n \in Nodes /\ UNCHANGED remote /\ UNCHANGED conn
        /\ got' = [got EXCEPT ![n] = @ \o w]
    BY <1>1, <1>10
  <2> QED BY ONLY <1>0, <1>4, <1>6, <2>3, <2>4, <2>5, OrderGot
<1>11. CASE /\ remote[n][Owner].fd # 0
            /\ stream' = send_remote(n, remote[n][Owner].fd, w)
            /\ UNCHANGED <<remote, got>>
            /\ remote[n][Owner].status = "HANDSHAKE" => Messages(q) \subseteq E
  <2>1. PICK c : c = remote[n][Owner].fd
    OBVIOUS
  <2>2. c \in DOMAIN conn /\ c \in Conns /\ Route(c, n) = Owner /\ n # Owner
    BY <1>0, <1>11, <2>1, HeldRoute DEF Routed
  <2>3. \A d \in Conns, y \in Nodes : StreamMove(d, y, c, n, w)
    <3>1. /\ stream' = send_remote(n, c, w) /\ HarborType /\ n \in Nodes /\ c \in Conns
          /\ w \in Seq(Frames)
      BY <1>0, <1>11, <2>1, <2>2
    <3>2. \A d \in Conns, y \in Nodes :
             stream'[d][y] = IF d = c /\ y = n /\ conn[c].up THEN stream[d][y] \o w
                                                             ELSE stream[d][y]
      BY ONLY <3>1, StreamUpdate
    <3> QED BY <3>2 DEF StreamMove
  <2>4. \A g : Queued(g)' => Queued(g)
    BY <1>11 DEF Queued
  <2>8. ASSUME NEW f \in Elems(w), NEW g, Queued(g) PROVE Before(E, f, g)
    <3>1. CASE remote[n][Owner].status = "HANDSHAKE"
      <4>1. f.m \in Messages(q)
        BY <1>6, <2>8 DEF Messages, Elems
      <4> QED BY <1>7, <1>11, <2>8, <3>1, <4>1
    <3>2. CASE remote[n][Owner].status # "HANDSHAKE"
      <4>1. remote[n][Owner].queue = <<>>
        <5>1. Holds(n, Owner)
          BY <1>0 DEF LinkInv
        <5>2. remote[n][Owner].status = "HEADER"
          BY <1>11, <3>2, <5>1 DEF Holds
        <5> QED BY <1>0, <5>2 DEF QueueLater
      <4>2. PICK a \in Nodes, b \in Nodes : g \in Elems(remote[a][b].queue)
        BY <2>8 DEF Queued
      <4>3. ~(a = n /\ b = Owner)
        BY <4>1, <4>2, ElemsEmpty
      <4> QED BY <1>14, <1>15, <4>2, <4>3
    <3> QED BY <3>1, <3>2
  <2>5. Writes(E, c, n, Owner, w)
    BY <1>3, <1>6, <1>7, <1>11, <2>1, <2>2, <2>4, <2>8 DEF Writes
  <2>6. \A a, b \in Nodes : LinkMove(a, b) /\ QueueMove(a, b)
    BY <1>11, StillRemote
  <2>7. got' = got
    BY <1>11
  <2> QED BY <1>4, <1>5, <2>3, <2>5, <2>6, <2>7, OrderStep
<1>12. CASE name[n].queue = <<>>
  BY <1>8, <1>12 DEF update_name
<1>13. CASE dispatch_name_queue(n)
  <2>1. remote[n][Owner].status = "HANDSHAKE" /\ early' = early \cup Messages(q)
           => Messages(q) \subseteq E
    OBVIOUS
  <2> QED BY <1>2, <1>6, <1>8, <1>9, <1>10, <1>11, <1>13, <2>1 DEF dispatch_name_queue
<1> QED BY <1>12, <1>13 DEF update_name

LEMMA InitOrder == \A E : Init => OrderInv(E)
<1> SUFFICES ASSUME NEW E, Init PROVE OrderInv(E)
  OBVIOUS
<1>1. /\ \A n, p \in Nodes :
            remote[n][p].fd = 0 /\ remote[n][p].status = "WAIT" /\ remote[n][p].queue = <<>>
      /\ \A n \in Nodes : name[n].queue = <<>> /\ ~name[n].known /\ got[n] = <<>>
      /\ \A c \in Conns, x \in Nodes : stream[c][x] = <<>>
      /\ DOMAIN conn = {}
  BY DEF Init
<1>2. \A f : ~Written(f) /\ ~Queued(f)
  BY <1>1, ElemsEmpty DEF Written, Queued
<1>3. AllSorted(E)
  BY <1>1, SortedEmpty DEF AllSorted
<1>4. Routed
  BY <1>1, ElemsEmpty DEF Routed
<1>5. NameFirst
  BY <1>1, <1>2, ElemsEmpty DEF NameFirst
<1>6. QueueLater(E)
  BY <1>1, <1>2 DEF QueueLater
<1>7. OneAwaited /\ ReadLater(E)
  BY <1>1 DEF OneAwaited, ReadLater, Reads, Awaits
<1> QED BY <1>3, <1>4, <1>5, <1>6, <1>7 DEF OrderInv

(* What went out during a handshake stays so.                              *)
LEMMA EarlyGrows == [Next]_vars => early \subseteq early'
<1> SUFFICES ASSUME [Next]_vars PROVE early \subseteq early'
  OBVIOUS
<1>1. ASSUME NEW n \in Senders, update_name(n) PROVE early \subseteq early'
  BY <1>1 DEF update_name, dispatch_name_queue, ghostVars
<1>2. \A n, p \in Nodes : CheckId(n, p) \/ Receive(n, p) => UNCHANGED ghostVars
  BY DEF CheckId, Receive
<1>3. \A n, p, q \in Nodes : CommandS(n, p, q) => UNCHANGED ghostVars
  BY DEF CommandS
<1>4. \A c \in DOMAIN conn : CommandA(c) \/ Break(c) => UNCHANGED ghostVars
  BY DEF CommandA, Break
<1>5. \A n \in Senders : SendName(n) \/ (\E p \in Nodes : SendHandle(n, p)) => UNCHANGED ghostVars
  BY DEF SendName, SendHandle
<1>6. UNCHANGED vars => UNCHANGED ghostVars
  BY DEF vars
<1>7. UNCHANGED ghostVars => early \subseteq early'
  BY DEF ghostVars
<1> QED BY <1>1, <1>2, <1>3, <1>4, <1>5, <1>6, <1>7 DEF Next

LEMMA NextOrder ==
    ASSUME NEW E, HInv, HInv', OrderInv(E), [Next]_vars, early' \subseteq E
    PROVE  OrderInv(E)'
<1>1. ASSUME NEW n \in Senders, SendName(n) PROVE OrderInv(E)'
  BY <1>1, SendNameOrder, HarborFacts
<1>2. ASSUME NEW n \in Senders, update_name(n) PROVE OrderInv(E)'
  BY <1>2, UpdateNameOrder, HarborFacts
<1>3. ASSUME NEW n \in Senders, NEW p \in Nodes, SendHandle(n, p) PROVE OrderInv(E)'
  BY <1>3, SendHandleOrder, HarborFacts
<1>4. ASSUME NEW n \in Nodes, NEW p \in Nodes, CheckId(n, p) PROVE OrderInv(E)'
  BY <1>4, CheckIdOrder
<1>5. ASSUME NEW n \in Nodes, NEW p \in Nodes, Receive(n, p) PROVE OrderInv(E)'
  BY <1>5, ReceiveOrder
<1>6. ASSUME NEW n \in Nodes, NEW p \in Nodes, NEW q \in Nodes, CommandS(n, p, q) PROVE OrderInv(E)'
  BY <1>6, CommandSOrder
<1>7. ASSUME NEW c \in DOMAIN conn, CommandA(c) PROVE OrderInv(E)'
  BY <1>7, CommandAOrder
<1>8. ASSUME NEW c \in DOMAIN conn, Break(c) PROVE OrderInv(E)'
  BY <1>8, BreakOrder
<1>9. CASE UNCHANGED vars
  <2>1. UNCHANGED remote /\ UNCHANGED name /\ UNCHANGED conn /\ UNCHANGED stream /\ UNCHANGED got
    BY <1>9 DEF vars, linkVars
  <2>2. \A d \in Conns, y \in Nodes : StreamMove(d, y, 0, 0, <<>>)
    BY <2>1 DEF StreamMove
  <2>3. /\ (\A a, b \in Nodes : LinkMove(a, b) /\ QueueMove(a, b)) /\ Writes(E, 0, 0, 0, <<>>)
        /\ (\A a \in Nodes : NameMove(a)) /\ ConnMove
    BY <2>1, StillRemote, StillName, StillConn, WritesNothing
  <2> QED BY <2>1, <2>2, <2>3, OrderStep
<1> QED BY <1>1, <1>2, <1>3, <1>4, <1>5, <1>6, <1>7, <1>8, <1>9 DEF Next

Ordered == \A E : early \subseteq E => OrderInv(E)

(* A node gets the messages of another one in the order in which they were *)
(* sent, except that one sent by name before the name was known may be     *)
(* passed by messages to a handle, and passes them if it goes out during   *)
(* the handshake (dispatch_name_queue); and it gets none twice, through    *)
(* all the queues, handshakes and reconnections on the way: what a node    *)
(* has got is earlier than what it can still read, and that is earlier     *)
(* than what is still queued.                                              *)
THEOREM InOrderHolds == Spec => []InOrder
<1>1. HInv /\ Ordered => InOrder
  <2> SUFFICES ASSUME HInv, Ordered, NEW n \in Nodes,
                      NEW a \in DOMAIN got[n], NEW b \in DOMAIN got[n]
               PROVE  /\ a # b => got[n][a].m # got[n][b].m
                      /\ a < b /\ got[n][a].m.from = got[n][b].m.from
                           /\ got[n][a].m.to = got[n][b].m.to
                           /\ ~MayPass(got[n][a].m, got[n][b].m)
                           => got[n][a].m.k < got[n][b].m.k
    BY DEF InOrder
  <2>0. OrderInv(early)
    BY DEF Ordered
  <2>1. got[n] \in Seq(Frames) /\ Sorted(early, got[n])
    BY <2>0, OrderParts DEF HarborType, AllSorted
  <2>2. PICK f \in Frames, g \in Frames : f = got[n][a] /\ g = got[n][b]
    BY <2>1
  <2>3. (a < b => Before(early, f, g)) /\ (b < a => Before(early, g, f))
    BY <2>1, <2>2 DEF Sorted
  <2>4. f.m.k \in Nat /\ g.m.k \in Nat /\ a \in Nat /\ b \in Nat
    <3>1. f.m \in Msgs /\ g.m \in Msgs
      BY DEF Frames
    <3> QED BY <2>1, <3>1 DEF Msgs
  <2>5. a # b => a < b \/ b < a
    BY <2>4
  <2>6. ASSUME a # b, f.m = g.m PROVE FALSE
    <3>1. f.m.k < g.m.k \/ g.m.k < f.m.k
      BY <2>3, <2>5, <2>6 DEF Before
    <3> QED BY <2>4, <2>6, <3>1
  <2> QED BY <2>2, <2>3, <2>6 DEF Before, MayPass
<1>2. Init => HInv /\ Ordered
  BY InitHInv, InitOrder DEF Ordered
<1>3. HInv /\ Ordered /\ [Next]_vars => HInv' /\ Ordered'
  <2> SUFFICES ASSUME HInv, Ordered, [Next]_vars PROVE HInv' /\ Ordered'
    OBVIOUS
  <2>1. HInv'
    BY NextHInv
  <2>2. ASSUME NEW E, early' \subseteq E PROVE OrderInv(E)'
    <3>1. OrderInv(E)
      BY <2>2, EarlyGrows DEF Ordered
    <3> QED BY <2>1, <2>2, <3>1, NextOrder
  <2> QED BY <2>1, <2>2 DEF Ordered
<1> QED BY <1>1, <1>2, <1>3, PTL DEF Spec
=============================================================================
