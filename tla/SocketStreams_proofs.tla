----------------------- MODULE SocketStreams_proofs -------------------------
(***************************************************************************)
(* The bytes that the socket server writes, for any number of slots,       *)
(* services and messages: those of one connection are its own messages, in *)
(* order and in one piece, and a message that was sent is written, waits   *)
(* or is on its way as long as its socket is open.                         *)
(*                                                                         *)
(* The invariant is about the line of an id: what was written to it, and   *)
(* behind it what waits in its slot.  A write moves the border between the *)
(* two; a message enters in one place only, so that the order of a line,   *)
(* and what is missing from it, can be followed from step to step.         *)
(***************************************************************************)
EXTENDS SocketTransfers_proofs

-----------------------------------------------------------------------------
(* Sequences of parts of messages.                                         *)

(* The bytes of a connection.  The line of an id is what was written to    *)
(* it, and behind it what is queued.                                       *)

(* Two messages whose order matters.                                       *)
Ranked(m, o) == m.by = o.by /\ ~m.low /\ ~o.low

Pure(v) ==
    /\ \A a, b \in DOMAIN v : a # b => v[a] # v[b]
    /\ \A a, b \in DOMAIN v : a < b /\ Ranked(v[a][1], v[b][1]) => v[a][1].n <= v[b][1].n
    /\ \A a \in DOMAIN v : v[a][2] = 2 => a > 1 /\ v[a - 1] = <<v[a][1], 1>>

(* No message is cut.                                                      *)
Full(v) == \A a \in DOMAIN v : v[a][2] = 1 => a < Len(v) /\ v[a + 1] = <<v[a][1], 2>>

Two(m) == <<<<m, 1>>, <<m, 2>>>>

LEMMA PiecesOf ==
    ASSUME NEW v \in Seq(Pieces)
    PROVE  /\ Len(v) \in Nat /\ DOMAIN v = 1 .. Len(v)
           /\ \A a \in DOMAIN v : v[a] \in Pieces /\ v[a][1] \in Messages /\ v[a][2] \in {1, 2}
                                  /\ v[a] = <<v[a][1], v[a][2]>>
<1>1. Len(v) \in Nat /\ DOMAIN v = 1 .. Len(v) /\ \A a \in DOMAIN v : v[a] \in Pieces
  OBVIOUS
<1>2. \A x \in Pieces : x[1] \in Messages /\ x[2] \in {1, 2} /\ x = <<x[1], x[2]>>
  BY DEF Pieces
<1> QED BY <1>1, <1>2

(* The places of a concatenation.                                          *)
LEMMA ConcatFacts ==
    ASSUME NEW S, NEW v \in Seq(S), NEW w \in Seq(S)
    PROVE  /\ v \o w \in Seq(S) /\ Len(v) \in Nat /\ Len(w) \in Nat /\ Len(v \o w) = Len(v) + Len(w)
           /\ DOMAIN (v \o w) = 1 .. Len(v) + Len(w)
           /\ DOMAIN v = 1 .. Len(v) /\ DOMAIN w = 1 .. Len(w)
           /\ \A a \in 1 .. Len(v) : (v \o w)[a] = v[a]
           /\ \A a \in 1 .. Len(w) : (v \o w)[Len(v) + a] = w[a]
OBVIOUS

(* What is cut off at the end does not matter ...                          *)
LEMMA PurePrefix ==
    ASSUME NEW v \in Seq(Pieces), NEW w \in Seq(Pieces), Pure(v \o w)
    PROVE  /\ Pure(v)
           /\ \A a \in DOMAIN v : a \in DOMAIN (v \o w) /\ (v \o w)[a] = v[a]
<1> DEFINE u == v \o w
<1>1. DOMAIN v \subseteq DOMAIN u /\ \A a \in DOMAIN v : u[a] = v[a]
  BY ConcatFacts
<1>2. \A a \in DOMAIN v : a > 1 => a - 1 \in DOMAIN v
  BY ConcatFacts
<1>3. Pure(u)
  OBVIOUS
<1> HIDE DEF u
<1>4. Pure(v)
  BY ONLY <1>1, <1>2, <1>3 DEF Pure
<1> QED BY <1>1, <1>4 DEF u

(* ... and a message may be put in where no other is cut, and behind those *)
(* that were sent before.                                                  *)
Widened(u, x, p, m) ==
    /\ p \in Nat /\ Len(u) \in Nat /\ p <= Len(u) /\ Len(x) = Len(u) + 2
    /\ DOMAIN u = 1 .. Len(u) /\ DOMAIN x = 1 .. Len(u) + 2
    /\ \A a \in 1 .. p : x[a] = u[a]
    /\ x[p + 1] = <<m, 1>> /\ x[p + 2] = <<m, 2>>
    /\ \A a \in p + 1 .. Len(u) : x[a + 2] = u[a]
    /\ \A a \in 1 .. Len(u) : u[a][2] \in {1, 2} /\ u[a] = <<u[a][1], u[a][2]>>

LEMMA WidenedPlaces ==
    ASSUME NEW u, NEW x, NEW p, NEW m, Widened(u, x, p, m), NEW b \in DOMAIN x
    PROVE  \/ b \in 1 .. p /\ b \in DOMAIN u /\ x[b] = u[b]
           \/ b = p + 1 \/ b = p + 2
           \/ b - 2 \in p + 1 .. Len(u) /\ b - 2 \in DOMAIN u /\ x[b] = u[b - 2]
<1>1. b \in 1 .. Len(u) + 2 /\ p \in Nat /\ Len(u) \in Nat
  BY DEF Widened
<1>2. b \in 1 .. p \/ b = p + 1 \/ b = p + 2 \/ b - 2 \in p + 1 .. Len(u)
  BY <1>1
<1>3. CASE b \in 1 .. p
  BY <1>3 DEF Widened
<1>4. CASE b - 2 \in p + 1 .. Len(u)
  <2>1. x[(b - 2) + 2] = u[b - 2] /\ (b - 2) + 2 = b
    BY <1>1, <1>4 DEF Widened
  <2> QED BY <1>1, <1>4, <2>1 DEF Widened
<1> QED BY <1>2, <1>3, <1>4

(* Where an element of x comes from, if it is not new.                     *)
Origin(u, p, b, c) == c \in DOMAIN u /\ ((b <= p /\ c = b) \/ (b > p + 2 /\ b = c + 2 /\ c > p))

LEMMA WidenedFrom ==
    ASSUME NEW u, NEW x, NEW p, NEW m, Widened(u, x, p, m), NEW b \in DOMAIN x
    PROVE  b = p + 1 \/ b = p + 2 \/ \E c \in DOMAIN u : Origin(u, p, b, c) /\ x[b] = u[c]
<1>1. p \in Nat /\ Len(u) \in Nat /\ b \in Nat
  BY DEF Widened
<1>2. CASE b \in 1 .. p /\ b \in DOMAIN u /\ x[b] = u[b]
  <2>1. b <= p /\ b \in DOMAIN u
    BY ONLY <1>1, <1>2
  <2>2. Origin(u, p, b, b)
    BY ONLY <2>1 DEF Origin
  <2> QED BY <1>2, <2>2
<1>3. CASE b - 2 \in p + 1 .. Len(u) /\ b - 2 \in DOMAIN u /\ x[b] = u[b - 2]
  <2>1. Origin(u, p, b, b - 2)
    BY <1>1, <1>3 DEF Origin
  <2> QED BY <1>3, <2>1
<1> QED BY <1>2, <1>3, WidenedPlaces

(* A message that is put in, behind what its service sent before it and    *)
(* before nothing of its service, leaves a pure sequence pure.             *)
LEMMA PureWidened ==
    ASSUME NEW u, NEW x, NEW p, NEW m, Widened(u, x, p, m), Pure(u),
           m.n \in Int, \A a \in DOMAIN u : u[a][1] # m /\ u[a][1].n \in Int,
           \A a \in 1 .. p : Ranked(u[a][1], m) => u[a][1].n <= m.n,
           \A a \in p + 1 .. Len(u) : ~Ranked(m, u[a][1]),
           p < Len(u) => u[p + 1][2] = 1
    PROVE  Pure(x) /\ (Full(u) => Full(x))
<1>0. p \in Nat /\ Len(u) \in Nat /\ x[p + 1] = <<m, 1>> /\ x[p + 2] = <<m, 2>> /\ DOMAIN u = 1 .. Len(u)
      /\ DOMAIN x = 1 .. Len(u) + 2 /\ Len(x) = Len(u) + 2
  BY DEF Widened
<1>1. ASSUME NEW a \in DOMAIN x, NEW b \in DOMAIN x, a # b
      PROVE  x[a] # x[b]
  <2>1. \A c, d \in DOMAIN u : c # d => u[c] # u[d]
    BY DEF Pure
  <2>2. \A c \in DOMAIN u : u[c] # <<m, 1>> /\ u[c] # <<m, 2>>
    OBVIOUS
  <2>3. <<m, 1>> # <<m, 2>>
    OBVIOUS
  <2>4. CASE \E c \in DOMAIN u : Origin(u, p, a, c) /\ x[a] = u[c]
    <3>1. PICK c \in DOMAIN u : Origin(u, p, a, c) /\ x[a] = u[c]
      BY <2>4
    <3>2. CASE \E d \in DOMAIN u : Origin(u, p, b, d) /\ x[b] = u[d]
      <4>1. PICK d \in DOMAIN u : Origin(u, p, b, d) /\ x[b] = u[d]
        BY <3>2
      <4>2. c # d
        BY <1>0, <1>1, <3>1, <4>1 DEF Origin
      <4> QED BY <2>1, <3>1, <4>1, <4>2
    <3>3. CASE b = p + 1 \/ b = p + 2
      BY <1>0, <2>2, <3>1, <3>3
    <3> QED BY <3>2, <3>3, WidenedFrom
  <2>5. CASE a = p + 1 \/ a = p + 2
    <3>1. CASE \E d \in DOMAIN u : Origin(u, p, b, d) /\ x[b] = u[d]
      BY <1>0, <2>2, <2>5, <3>1
    <3>2. CASE b = p + 1 \/ b = p + 2
      BY <1>0, <1>1, <2>3, <2>5, <3>2
    <3> QED BY <3>1, <3>2, WidenedFrom
  <2> QED BY <2>4, <2>5, WidenedFrom
<1>2. ASSUME NEW a \in DOMAIN x, NEW b \in DOMAIN x, a < b, Ranked(x[a][1], x[b][1])
      PROVE  x[a][1].n <= x[b][1].n
  <2>1. \A c, d \in DOMAIN u : c < d /\ Ranked(u[c][1], u[d][1]) => u[c][1].n <= u[d][1].n
    BY DEF Pure
  <2>2. x[p + 1][1] = m /\ x[p + 2][1] = m
    BY <1>0
  <2>3. CASE b = p + 1 \/ b = p + 2
    BY <1>0, <1>2, <2>2, <2>3, WidenedPlaces
  <2>4. CASE a = p + 1 \/ a = p + 2
    BY <1>0, <1>2, <2>2, <2>4, WidenedPlaces
  <2>5. CASE a # p + 1 /\ a # p + 2 /\ b # p + 1 /\ b # p + 2
    <3>1. PICK c \in DOMAIN u : Origin(u, p, a, c) /\ x[a] = u[c]
      BY <2>5, WidenedFrom
    <3>2. PICK d \in DOMAIN u : Origin(u, p, b, d) /\ x[b] = u[d]
      BY <2>5, WidenedFrom
    <3>3. c < d
      BY <1>0, <1>2, <3>1, <3>2 DEF Origin
    <3> QED BY <1>2, <2>1, <3>1, <3>2, <3>3
  <2> QED BY <2>3, <2>4, <2>5
<1>3. ASSUME NEW a \in DOMAIN x, x[a][2] = 2
      PROVE  a > 1 /\ x[a - 1] = <<x[a][1], 1>>
  <2>1. \A c \in DOMAIN u : u[c][2] = 2 => c > 1 /\ u[c - 1] = <<u[c][1], 1>>
    BY DEF Pure
  <2>2. a # p + 1
    BY <1>0, <1>3
  <2>3. CASE a = p + 2
    BY <1>0, <2>3
  <2>4. CASE a \in 1 .. p /\ a \in DOMAIN u /\ x[a] = u[a]
    <3>1. a > 1 /\ u[a - 1] = <<u[a][1], 1>>
      BY <1>3, <2>1, <2>4
    <3>2. a - 1 \in 1 .. p
      BY <1>0, <2>4, <3>1
    <3>3. x[a - 1] = u[a - 1]
      BY <3>2 DEF Widened
    <3> QED BY <2>4, <3>1, <3>3
  <2>5. CASE a - 2 \in p + 1 .. Len(u) /\ a - 2 \in DOMAIN u /\ x[a] = u[a - 2]
    <3>1. a - 2 > 1 /\ u[(a - 2) - 1] = <<u[a - 2][1], 1>>
      BY <1>3, <2>1, <2>5
    <3>2. a - 2 # p + 1
      <4>1. a - 2 = p + 1 => u[a - 2][2] = 1
        <5> DEFINE c == a - 2
        <5>1. c \in p + 1 .. Len(u)
          BY <2>5
        <5> HIDE DEF c
        <5>2. c = p + 1 => p < Len(u)
          BY <1>0, <5>1
        <5>3. p < Len(u) => u[p + 1][2] = 1
          OBVIOUS
        <5>4. c = p + 1 => u[c][2] = 1
          BY ONLY <5>2, <5>3
        <5> QED BY ONLY <5>4 DEF c
      <4> QED BY <1>3, <2>5, <4>1
    <3>3. (a - 2) - 1 \in p + 1 .. Len(u) /\ ((a - 2) - 1) + 2 = a - 1
      <4> DEFINE c == a - 2
      <4>1. c \in p + 1 .. Len(u) /\ c # p + 1 /\ a = c + 2
        BY <1>0, <2>5, <3>2
      <4> HIDE DEF c
      <4>2. c - 1 \in p + 1 .. Len(u) /\ (c - 1) + 2 = a - 1
        BY ONLY <1>0, <4>1
      <4> QED BY ONLY <4>2 DEF c
    <3>4. x[a - 1] = u[(a - 2) - 1]
      BY <3>3 DEF Widened
    <3> QED BY <1>0, <2>5, <3>1, <3>4
  <2> QED BY <2>2, <2>3, <2>4, <2>5, WidenedPlaces
<1>4. ASSUME Full(u), NEW a \in DOMAIN x, x[a][2] = 1
      PROVE  a < Len(x) /\ x[a + 1] = <<x[a][1], 2>>
  <2>1. \A c \in DOMAIN u : u[c][2] = 1 => c < Len(u) /\ u[c + 1] = <<u[c][1], 2>>
    BY <1>4 DEF Full
  <2>2. a # p + 2
    BY <1>0, <1>4
  <2>3. CASE a = p + 1
    <3>1. (p + 1) + 1 = p + 2
      BY <1>0
    <3> QED BY <1>0, <2>3, <3>1, WidenedPlaces DEF Widened
  <2>4. CASE a \in 1 .. p /\ a \in DOMAIN u /\ x[a] = u[a]
    <3>1. a < Len(u) /\ u[a + 1] = <<u[a][1], 2>>
      BY <1>4, <2>1, <2>4
    <3>2. a # p
      <4>1. a = p => u[p + 1][2] = 1
        BY <1>0, <2>4, <3>1
      <4> QED BY <1>0, <3>1, <4>1
    <3>3. a + 1 \in 1 .. p
      BY <1>0, <2>4, <3>2
    <3>4. x[a + 1] = u[a + 1]
      BY <3>3 DEF Widened
    <3> QED BY <1>0, <2>4, <3>1, <3>4
  <2>5. CASE a - 2 \in p + 1 .. Len(u) /\ a - 2 \in DOMAIN u /\ x[a] = u[a - 2]
    <3>1. a - 2 < Len(u) /\ u[(a - 2) + 1] = <<u[a - 2][1], 2>>
      BY <1>4, <2>1, <2>5
    <3>3. (a - 2) + 1 \in p + 1 .. Len(u) /\ ((a - 2) + 1) + 2 = a + 1
      BY <1>0, <2>5, <3>1
    <3>4. x[a + 1] = u[(a - 2) + 1]
      BY <3>3 DEF Widened
    <3> QED BY <1>0, <2>5, <3>1, <3>4
  <2> QED BY <2>2, <2>3, <2>4, <2>5, WidenedPlaces
<1> QED BY <1>1, <1>2, <1>3, <1>4 DEF Pure, Full

(* What an insertion between two sequences does.                           *)
LEMMA WidenedConcat ==
    ASSUME NEW v \in Seq(Pieces), NEW w \in Seq(Pieces), NEW m \in Messages
    PROVE  Widened(v \o w, (v \o Two(m)) \o w, Len(v), m) /\ (v \o Two(m)) \o w \in Seq(Pieces)
<1>1. Two(m) \in Seq(Pieces) /\ Len(Two(m)) = 2 /\ Two(m)[1] = <<m, 1>> /\ Two(m)[2] = <<m, 2>>
  <2>1. <<m, 1>> \in Pieces /\ <<m, 2>> \in Pieces
    BY DEF Pieces
  <2> QED BY <2>1 DEF Two
<1>2. PICK t \in Seq(Pieces) : t = Two(m) /\ Len(t) = 2 /\ t[1] = <<m, 1>> /\ t[2] = <<m, 2>>
  BY ONLY <1>1
<1>3. PICK u \in Seq(Pieces) :
         /\ u = v \o w /\ Len(v) \in Nat /\ Len(w) \in Nat /\ Len(u) = Len(v) + Len(w)
         /\ \A a \in 1 .. Len(v) : u[a] = v[a]
         /\ \A a \in 1 .. Len(w) : u[Len(v) + a] = w[a]
  <2>1. /\ v \o w \in Seq(Pieces) /\ Len(v) \in Nat /\ Len(w) \in Nat /\ Len(v \o w) = Len(v) + Len(w)
        /\ \A a \in 1 .. Len(v) : (v \o w)[a] = v[a]
        /\ \A a \in 1 .. Len(w) : (v \o w)[Len(v) + a] = w[a]
    BY ConcatFacts
  <2> QED BY ONLY <2>1
<1>4. PICK y \in Seq(Pieces) :
         /\ y = v \o t /\ Len(y) = Len(v) + 2
         /\ \A a \in 1 .. Len(v) : y[a] = v[a]
         /\ y[Len(v) + 1] = <<m, 1>> /\ y[Len(v) + 2] = <<m, 2>>
  <2>1. /\ v \o t \in Seq(Pieces) /\ Len(v \o t) = Len(v) + Len(t)
        /\ \A a \in 1 .. Len(v) : (v \o t)[a] = v[a]
        /\ \A a \in 1 .. Len(t) : (v \o t)[Len(v) + a] = t[a]
    BY ConcatFacts
  <2>2. 1 \in 1 .. Len(t) /\ 2 \in 1 .. Len(t)
    BY <1>2
  <2> QED BY ONLY <1>2, <2>1, <2>2
<1>6. PICK x \in Seq(Pieces) :
         /\ x = y \o w /\ Len(x) = Len(y) + Len(w) /\ DOMAIN x = 1 .. Len(y) + Len(w)
         /\ \A a \in 1 .. Len(y) : x[a] = y[a]
         /\ \A a \in 1 .. Len(w) : x[Len(y) + a] = w[a]
  <2>1. /\ y \o w \in Seq(Pieces) /\ Len(y \o w) = Len(y) + Len(w)
        /\ DOMAIN (y \o w) = 1 .. Len(y) + Len(w)
        /\ \A a \in 1 .. Len(y) : (y \o w)[a] = y[a]
        /\ \A a \in 1 .. Len(w) : (y \o w)[Len(y) + a] = w[a]
    BY ConcatFacts
  <2> QED BY ONLY <2>1
<1>7. Len(u) \in Nat /\ DOMAIN u = 1 .. Len(u) /\ \A a \in 1 .. Len(u) : u[a][2] \in {1, 2} /\ u[a] = <<u[a][1], u[a][2]>>
  BY PiecesOf
<1>8. \A a \in 1 .. Len(v) : x[a] = u[a]
  BY ONLY <1>3, <1>4, <1>6
<1>9. x[Len(v) + 1] = <<m, 1>> /\ x[Len(v) + 2] = <<m, 2>>
  <2>1. Len(v) + 1 \in 1 .. Len(y) /\ Len(v) + 2 \in 1 .. Len(y)
    BY ONLY <1>3, <1>4
  <2> QED BY ONLY <2>1, <1>4, <1>6
<1>10. ASSUME NEW a \in Len(v) + 1 .. Len(u) PROVE x[a + 2] = u[a]
  <2> DEFINE d == a - Len(v)
  <2>1. d \in 1 .. Len(w) /\ Len(v) + d = a /\ Len(y) + d = a + 2
    BY ONLY <1>3, <1>4, a \in Len(v) + 1 .. Len(u)
  <2> HIDE DEF d
  <2>2. u[Len(v) + d] = w[d] /\ x[Len(y) + d] = w[d]
    BY ONLY <1>3, <1>6, <2>1
  <2> QED BY ONLY <2>1, <2>2
<1>11. Widened(u, x, Len(v), m)
  <2>1. Len(v) <= Len(u) /\ Len(x) = Len(u) + 2 /\ DOMAIN x = 1 .. Len(u) + 2
    BY ONLY <1>3, <1>4, <1>6
  <2> QED BY ONLY <1>3, <1>7, <1>8, <1>9, <1>10, <2>1 DEF Widened
<1>12. x = (v \o Two(m)) \o w
  BY ONLY <1>2, <1>4, <1>6
<1> QED BY ONLY <1>3, <1>11, <1>12

(* What comes from a list of buffers, and how it begins.                   *)
Comes(v, q) == \A a \in DOMAIN v : \E j \in DOMAIN q : v[a][1] = q[j].m

LEMMA ComesConcat ==
    ASSUME NEW p \in Seq(Buffers), NEW q \in Seq(Buffers), NEW v \in Seq(Pieces), NEW w \in Seq(Pieces),
           Comes(v, p), Comes(w, q)
    PROVE  Comes(v \o w, p \o q)
<1> SUFFICES ASSUME NEW a \in DOMAIN (v \o w)
             PROVE  \E j \in DOMAIN (p \o q) : (v \o w)[a][1] = (p \o q)[j].m
  BY DEF Comes
<1>1. \A j \in DOMAIN p : j \in DOMAIN (p \o q) /\ (p \o q)[j] = p[j]
  BY ConcatFacts
<1>2. \A j \in DOMAIN q : Len(p) + j \in DOMAIN (p \o q) /\ (p \o q)[Len(p) + j] = q[j]
  BY ConcatFacts
<1>3. \/ a \in DOMAIN v /\ (v \o w)[a] = v[a]
      \/ a - Len(v) \in DOMAIN w /\ (v \o w)[a] = w[a - Len(v)]
  <2>1. a \in 1 .. Len(v) + Len(w) /\ Len(v) \in Nat /\ Len(w) \in Nat
    BY ConcatFacts
  <2>2. CASE a \in 1 .. Len(v)
    BY <2>2, ConcatFacts
  <2>3. CASE a \notin 1 .. Len(v)
    <3> DEFINE b == a - Len(v)
    <3>1. b \in 1 .. Len(w) /\ Len(v) + b = a
      BY <2>1, <2>3
    <3> HIDE DEF b
    <3>2. (v \o w)[Len(v) + b] = w[b] /\ b \in DOMAIN w
      BY <3>1, ConcatFacts
    <3> QED BY <3>1, <3>2 DEF b
  <2> QED BY <2>2, <2>3
<1>4. CASE a \in DOMAIN v /\ (v \o w)[a] = v[a]
  <2>1. PICK j \in DOMAIN p : v[a][1] = p[j].m
    BY <1>4 DEF Comes
  <2> QED BY <1>1, <1>4, <2>1
<1>5. CASE a - Len(v) \in DOMAIN w /\ (v \o w)[a] = w[a - Len(v)]
  <2>1. PICK j \in DOMAIN q : w[a - Len(v)][1] = q[j].m
    BY <1>5 DEF Comes
  <2> QED BY <1>2, <1>5, <2>1
<1> QED BY <1>3, <1>4, <1>5

LEMMA ComesOne ==
    ASSUME NEW b \in Buffers
    PROVE  Comes(Parts(b), <<b>>)
<1>1. \A a \in DOMAIN Parts(b) : Parts(b)[a][1] = b.m
  BY BufferFacts DEF Parts
<1>2. 1 \in DOMAIN <<b>> /\ <<b>>[1] = b
  OBVIOUS
<1> QED BY <1>1, <1>2 DEF Comes

(* The parts of a queue are those of its buffers ...                       *)
LEMMA FlatComes == \A q \in Seq(Buffers) : Comes(Flat(q), q)
<1> DEFINE D == {n \in Nat : \A q \in Seq(Buffers) : Len(q) = n => Comes(Flat(q), q)}
<1>1. 0 \in D
  <2>1. ASSUME NEW q \in Seq(Buffers), Len(q) = 0 PROVE Comes(Flat(q), q)
    <3>1. q = <<>>
      BY <2>1
    <3>2. Flat(q) = <<>>
      BY <3>1, FlatEmpty
    <3> QED BY <3>2 DEF Comes
  <2> QED BY <2>1
<1>2. ASSUME NEW n \in Nat, n \in D PROVE n + 1 \in D
  <2>1. ASSUME NEW q \in Seq(Buffers), Len(q) = n + 1 PROVE Comes(Flat(q), q)
    <3> DEFINE x == SubSeq(q, 1, n)
               y == SubSeq(q, n + 1, Len(q))
    <3>0. n \in 0 .. Len(q)
      BY <2>1
    <3>1. /\ x \in Seq(Buffers) /\ y \in Seq(Buffers) /\ Len(x) = n /\ Len(y) = Len(q) - n /\ q = x \o y
      BY <3>0, SplitAt
    <3> HIDE DEF x, y
    <3>2. Comes(Flat(x), x) /\ Flat(x) \in Seq(Pieces)
      BY <1>2, <3>1, FlatType
    <3>3. PICK b \in Buffers : y = <<b>>
      <4>1. Len(y) = 1 /\ y[1] \in Buffers /\ y \in Seq(Buffers)
        BY <1>2, <2>1, <3>1
      <4>2. y = <<y[1]>>
        BY <4>1
      <4> QED BY <4>1, <4>2
    <3>4. Comes(Flat(y), y) /\ Flat(y) \in Seq(Pieces)
      <4>1. Flat(y) = Parts(b)
        BY <3>3, FlatOne
      <4> QED BY <3>3, <4>1, ComesOne, BufferFacts
    <3>5. Flat(q) = Flat(x) \o Flat(y)
      BY <3>1, FlatConcat
    <3>6. Comes(Flat(x) \o Flat(y), x \o y)
      BY <3>1, <3>2, <3>4, ComesConcat
    <3> QED BY ONLY <3>1, <3>5, <3>6
  <2> QED BY <2>1
<1> HIDE DEF D
<1>3. \A n \in Nat : n \in D
  BY <1>1, <1>2, SetInduction
<1> QED
  <2> SUFFICES ASSUME NEW q \in Seq(Buffers) PROVE Comes(Flat(q), q)
    OBVIOUS
  <2>1. Len(q) \in D
    BY <1>3
  <2> QED BY <2>1 DEF D

(* ... and a queue of whole buffers begins with the first part of one.     *)
LEMMA FlatBegins ==
    ASSUME NEW q \in Seq(Buffers), Whole(q)
    PROVE  Flat(q) = <<>> \/ Flat(q)[1][2] = 1
<1>1. CASE q = <<>>
  BY <1>1, FlatEmpty
<1>2. CASE q # <<>>
  <2> DEFINE x == SubSeq(q, 1, 1)
             y == SubSeq(q, 1 + 1, Len(q))
  <2>0. 1 \in 0 .. Len(q) /\ 1 \in 1 .. Len(q)
    BY <1>2
  <2>1. /\ x \in Seq(Buffers) /\ y \in Seq(Buffers) /\ Len(x) = 1 /\ x[1] = q[1] /\ q = x \o y
    BY <2>0, SplitAt
  <2> HIDE DEF x, y
  <2>2. PICK b \in Buffers : x = <<b>> /\ b = q[1]
    BY <2>1
  <2>3. b.left = 2
    BY <2>0, <2>2 DEF Whole
  <2>4. Flat(x) = <<<<b.m, 1>>, <<b.m, 2>>>>
    BY <2>2, <2>3, FlatOne, BufferFacts
  <2>5. Flat(q) = Flat(x) \o Flat(y) /\ Flat(x) \in Seq(Pieces) /\ Flat(y) \in Seq(Pieces)
    BY <2>1, FlatConcat, FlatType
  <2>6. PICK f \in Seq(Pieces), g \in Seq(Pieces) :
           Flat(q) = f \o g /\ f = <<<<b.m, 1>>, <<b.m, 2>>>>
    BY ONLY <2>4, <2>5
  <2>7. 1 \in 1 .. Len(f) /\ f[1] = <<b.m, 1>>
    BY ONLY <2>6
  <2>8. (f \o g)[1] = f[1]
    BY <2>7, ConcatFacts
  <2> QED BY ONLY <2>6, <2>7, <2>8
<1> QED BY <1>1, <1>2

-----------------------------------------------------------------------------
(* The invariant.                                                          *)

(* What waits in slot i, and the bytes of a connection: those written to   *)
(* it, and behind them those that wait.                                    *)
Queue(i) == IF slot[i].type \in Dormant THEN <<>> ELSE Flat(Backlog(slot[i]))
Rest(id) == IF slot[HASH_ID(id)].id = id THEN Queue(HASH_ID(id)) ELSE <<>>
Line(id) == wire[id] \o Rest(id)

(* The messages of a line were sent to its id and are no longer on their   *)
(* way, those on their way come later, and none is missing.                *)
Owned(id) == \A a \in DOMAIN Line(id) : Line(id)[a][1] \in Settled /\ Line(id)[a][1].to = id
Later(id) == \A a \in DOMAIN Line(id), j \in Parcels :
                pipe[j].m.to = id /\ Ranked(Line(id)[a][1], pipe[j].m) => Line(id)[a][1].n < pipe[j].m.n
Kept(id)  == \A m \in sent : m.to = id => OnWay(m) \/ \E a \in DOMAIN Line(id) : Line(id)[a] = <<m, 2>>

Ordered(id) == Pure(Line(id)) /\ Owned(id) /\ Later(id) /\ (Sending(id) => Full(Line(id)) /\ Kept(id))

LowOnly(q) == \A j \in DOMAIN q : q[j].m.low

(* A service that has the lock of a socket, to write directly, is the only *)
(* one that has sent anything that is not written yet.                     *)
Alone(c) ==
    LET m == cl[c].m
        i == HASH_ID(m.to)
    IN  cl[c].pc \in Holding =>
          /\ slot[i].id = m.to => /\ \A a \in DOMAIN Queue(i) : Queue(i)[a][1].by # c
                                  /\ \A j \in Parcels : pipe[j].m.to = m.to => pipe[j].m.by # c
          /\ cl[c].pc = "checked" => Whole(slot[i].high) /\ slot[i].dw = None

StreamInv ==
    /\ \A id \in Ids : Ordered(id)
    /\ \A i \in Indices : LowOnly(slot[i].low)
    /\ \A c \in Clients : Alone(c)

(* The types of the lines.                                                 *)
LEMMA QueueType ==
    ASSUME SocketType
    PROVE  /\ \A i \in Indices : Queue(i) \in Seq(Pieces)
           /\ \A id \in Ids : Rest(id) \in Seq(Pieces) /\ wire[id] \in Seq(Pieces) /\ Line(id) \in Seq(Pieces)
<1>0. <<>> \in Seq(Pieces)
  OBVIOUS
<1>1. ASSUME NEW i \in Indices PROVE Queue(i) \in Seq(Pieces)
  <2>1. slot[i] \in Sockets
    BY SocketFields
  <2>2. Flat(Backlog(slot[i])) \in Seq(Pieces)
    BY <2>1, BacklogType, FlatType
  <2> QED BY <1>0, <2>2 DEF Queue
<1>2. ASSUME NEW id \in Ids PROVE Rest(id) \in Seq(Pieces) /\ wire[id] \in Seq(Pieces)
  BY <1>0, <1>1, IdFacts, TypeUse DEF Rest
<1>3. ASSUME NEW id \in Ids PROVE Line(id) \in Seq(Pieces)
  BY <1>2, ConcatFacts DEF Line
<1> QED BY <1>1, <1>2, <1>3

(* Nothing is in the line of an id that was never opened.                  *)
LEMMA UnopenedLine ==
    ASSUME SocketType, Numbered, NEW id \in Ids, Owned(id), id \notin opened
    PROVE  Line(id) = <<>>
<1>1. Line(id) \in Seq(Pieces)
  BY QueueType
<1>2. ASSUME NEW a \in DOMAIN Line(id) PROVE FALSE
  <2>1. Line(id)[a][1] \in sent /\ Line(id)[a][1].to = id
    BY <1>2 DEF Owned, Settled
  <2> QED BY <2>1 DEF Numbered
<1>3. PICK v \in Seq(Pieces) : v = Line(id) /\ DOMAIN v = {}
  BY <1>1, <1>2
<1> QED BY ONLY <1>3

(* A step that takes from the end of a line at most, and only of a socket  *)
(* that does not send any more.                                            *)
Shrinks(id) ==
    /\ \E r \in Seq(Pieces) : Line(id) = Line(id)' \o r
    /\ Sending(id)' => id \notin opened \/ (Sending(id) /\ Line(id)' = Line(id))

(* What it does to the messages on their way: what comes later still does, *)
(* and none is lost.                                                       *)
Earlier(m) == \A o \in Settled : o.by = m.by => o.n < m.n

Delivers(id) ==
    /\ Settled \subseteq Settled'
    /\ \A j \in Parcels' : (\E k \in Parcels : pipe'[j].m = pipe[k].m) \/ Earlier(pipe'[j].m)
    /\ \A m \in sent' : m.to = id => OnWay(m)' \/ (m \in sent /\ ~OnWay(m)) \/ ~Sending(id)'

(* A line that only loses its end stays in order.                          *)
LEMMA OrderedShrinks ==
    ASSUME SocketType, SocketType', Numbered, NEW id \in Ids, Delivers(id), Ordered(id), Shrinks(id)
    PROVE  Ordered(id)'
<1>1. Line(id) \in Seq(Pieces) /\ Line(id)' \in Seq(Pieces)
  <2>1. Line(id) \in Seq(Pieces)
    BY QueueType
  <2>2. Line(id)' \in Seq(Pieces)
    <3>1. /\ slot' \in [Indices -> Sockets] /\ wire' \in [Ids -> Seq(Pieces)] /\ HASH_ID(id) \in Indices
      BY IdFacts DEF SocketType, Pieces
    <3>2. slot'[HASH_ID(id)] \in Sockets /\ wire'[id] \in Seq(Pieces) /\ <<>> \in Seq(Pieces)
      BY <3>1
    <3>3. Flat(Backlog(slot'[HASH_ID(id)])) \in Seq(Pieces)
      BY <3>2, BacklogType, FlatType
    <3>4. Rest(id)' \in Seq(Pieces)
      BY <3>2, <3>3 DEF Rest, Queue
    <3> QED BY <3>2, <3>4, ConcatFacts DEF Line
  <2> QED BY <2>1, <2>2
<1>2. PICK v \in Seq(Pieces), v1 \in Seq(Pieces), r \in Seq(Pieces) : v = Line(id) /\ v1 = Line(id)' /\ v = v1 \o r
  BY <1>1 DEF Shrinks
<1>3. Pure(v1) /\ \A a \in DOMAIN v1 : a \in DOMAIN v /\ v[a] = v1[a]
  <2>1. Pure(v1 \o r)
    BY <1>2 DEF Ordered
  <2> QED BY <1>2, <2>1, PurePrefix
<1>4. Owned(id)'
  <2>1. ASSUME NEW a \in DOMAIN v1 PROVE v1[a][1] \in Settled' /\ v1[a][1].to = id
    BY <1>2, <1>3 DEF Ordered, Owned, Delivers
  <2> QED BY <1>2, <2>1 DEF Owned
<1>5. Later(id)'
  <2>1. ASSUME NEW a \in DOMAIN v1, NEW j \in Parcels', pipe'[j].m.to = id, Ranked(v1[a][1], pipe'[j].m)
        PROVE  v1[a][1].n < pipe'[j].m.n
    <3>1. v[a] = v1[a] /\ a \in DOMAIN Line(id) /\ v[a] = Line(id)[a] /\ v[a][1] \in Settled
      BY <1>2, <1>3 DEF Ordered, Owned
    <3>2. CASE \E k \in Parcels : pipe'[j].m = pipe[k].m
      BY <2>1, <3>1, <3>2 DEF Ordered, Later
    <3>3. CASE Earlier(pipe'[j].m)
      BY <2>1, <3>1, <3>3 DEF Earlier, Ranked
    <3> QED BY <3>2, <3>3 DEF Delivers
  <2> QED BY <1>2, <2>1 DEF Later
<1>6. ASSUME Sending(id)' PROVE Full(v1) /\ Kept(id)'
  <2>1. CASE id \notin opened
    <3>1. v = <<>>
      BY <1>2, <2>1, UnopenedLine DEF Ordered
    <3>2. v1 = <<>>
      <4>1. DOMAIN v = {}
        BY <3>1
      <4>2. DOMAIN v1 = {}
        BY <1>3, <4>1
      <4> QED BY ONLY <1>2, <4>2
    <3>3. Full(v1)
      BY <3>2 DEF Full
    <3>4. \A m \in sent' : m.to = id => OnWay(m)'
      <4>1. \A m \in sent : m.to # id
        BY <2>1 DEF Numbered
      <4> QED BY <1>6, <4>1 DEF Delivers
    <3> QED BY <3>3, <3>4 DEF Kept
  <2>2. CASE Sending(id) /\ Line(id)' = Line(id)
    <3>1. Full(v1)
      BY <1>2, <2>2 DEF Ordered
    <3>2. ASSUME NEW m \in sent', m.to = id, ~OnWay(m)' PROVE \E a \in DOMAIN v1 : v1[a] = <<m, 2>>
      <4>1. m \in sent /\ ~OnWay(m)
        BY <1>6, <3>2 DEF Delivers
      <4> QED BY <1>2, <2>2, <3>2, <4>1 DEF Ordered, Kept
    <3> QED BY <1>2, <3>1, <3>2 DEF Kept
  <2> QED BY <1>6, <2>1, <2>2 DEF Shrinks
<1> QED BY <1>2, <1>3, <1>4, <1>5, <1>6 DEF Ordered

-----------------------------------------------------------------------------
(* Steps that take from the end of a line at most.                         *)

(* A step after which a socket has its backlog or less of it, or another   *)
(* id and nothing yet.                                                     *)
Turns(i) ==
    \/ /\ slot'[i].id = slot[i].id
       /\ \E r \in Seq(Pieces) : Queue(i) = Queue(i)' \o r
       /\ Live(i)' => slot[i].id \notin opened \/ (Live(i) /\ Queue(i)' = Queue(i))
    \/ Queue(i) = <<>> /\ Queue(i)' = <<>> /\ slot'[i].id \notin opened

LEMMA ShrinksTurns ==
    ASSUME SocketType, SocketType', NEW id \in Ids, wire'[id] = wire[id], Turns(HASH_ID(id))
    PROVE  Shrinks(id)
<1> DEFINE i == HASH_ID(id)
<1>1. i \in Indices /\ wire[id] \in Seq(Pieces)
  BY IdFacts, QueueType
<1>2. Queue(i) \in Seq(Pieces) /\ <<>> \in Seq(Pieces)
  BY <1>1, QueueType
<1>3. \A v \in Seq(Pieces) : v = v \o <<>>
  OBVIOUS
<1>4. Sending(id) <=> slot[i].id = id /\ Live(i)
  BY DEF Sending, Live, Closing
<1>5. Sending(id)' <=> slot'[i].id = id /\ Live(i)'
  BY DEF Sending, Live, Closing
<1>6. Line(id) \in Seq(Pieces)
  BY QueueType
<1>7. CASE Queue(i) = <<>> /\ Queue(i)' = <<>> /\ slot'[i].id \notin opened
  <2>1. Rest(id) = <<>> /\ Rest(id)' = <<>>
    BY <1>7 DEF Rest
  <2>2. Line(id)' = Line(id)
    BY <2>1 DEF Line
  <2> QED BY <1>2, <1>3, <1>5, <1>6, <1>7, <2>2 DEF Shrinks
<1>8. CASE /\ slot'[i].id = slot[i].id
           /\ \E r \in Seq(Pieces) : Queue(i) = Queue(i)' \o r
           /\ Live(i)' => slot[i].id \notin opened \/ (Live(i) /\ Queue(i)' = Queue(i))
  <2>1. CASE slot[i].id # id
    <3>1. Rest(id) = <<>> /\ Rest(id)' = <<>>
      BY <1>8, <2>1 DEF Rest
    <3>2. Line(id)' = Line(id)
      BY <3>1 DEF Line
    <3> QED BY <1>2, <1>3, <1>5, <1>6, <1>8, <2>1, <3>2 DEF Shrinks
  <2>2. CASE slot[i].id = id
    <3>1. Rest(id) = Queue(i) /\ Rest(id)' = Queue(i)'
      BY <1>8, <2>2 DEF Rest
    <3>2. Queue(i)' \in Seq(Pieces)
      <4>1. slot'[i] \in Sockets
        BY <1>1 DEF SocketType
      <4>2. Flat(Backlog(slot'[i])) \in Seq(Pieces)
        BY <4>1, BacklogType, FlatType
      <4> QED BY <1>2, <4>2 DEF Queue
    <3>3. PICK r \in Seq(Pieces) : Queue(i) = Queue(i)' \o r
      BY <1>8
    <3>4. PICK w \in Seq(Pieces), q \in Seq(Pieces) : w = wire[id] /\ q = Queue(i)'
      BY <1>1, <3>2
    <3>5. w \o (q \o r) = (w \o q) \o r
      OBVIOUS
    <3>6. Line(id) = w \o (q \o r) /\ Line(id)' = w \o q
      BY <3>1, <3>3, <3>4 DEF Line
    <3>7. Line(id) = Line(id)' \o r
      BY ONLY <3>5, <3>6
    <3>8. Queue(i)' = Queue(i) => Line(id)' = Line(id)
      BY <3>1 DEF Line
    <3> QED BY <1>4, <1>5, <1>8, <2>2, <3>7, <3>8 DEF Shrinks
  <2> QED BY <2>1, <2>2
<1> QED BY <1>7, <1>8 DEF Turns

(* The lines of all ids.                                                   *)
LEMMA OrderedStep ==
    ASSUME SocketType, SocketType', Numbered, \A id \in Ids : Ordered(id) /\ Delivers(id),
           wire' = wire, \A i \in Indices : Turns(i)
    PROVE  \A id \in Ids : Ordered(id)'
<1> SUFFICES ASSUME NEW id \in Ids PROVE Ordered(id)'
  OBVIOUS
<1>1. HASH_ID(id) \in Indices
  BY IdFacts
<1>2. Shrinks(id)
  BY <1>1, ShrinksTurns
<1> QED BY <1>2, OrderedShrinks

(* What a step of another actor leaves to the service that has the lock.   *)
Guards(i) ==
    /\ Whole(slot[i].high) => Whole(slot'[i].high)
    /\ slot[i].dw = None => slot'[i].dw = None
    /\ \/ slot'[i].id \notin opened
       \/ /\ slot'[i].id = slot[i].id
          /\ \A a \in DOMAIN Queue(i)' :
                \/ \E b \in DOMAIN Queue(i) : Queue(i)'[a] = Queue(i)[b]
                \/ \E k \in Parcels : pipe[k].m.to = slot[i].id /\ Queue(i)'[a][1] = pipe[k].m

(* A call that holds the lock has held it before, or has just taken it     *)
(* while nothing was queued nor on its way.                                *)
Stays(c, m, i) ==
    /\ cl[c].pc \in Holding /\ cl[c].m = m /\ cl'[c].m = m /\ i = HASH_ID(m.to)
    /\ cl'[c].pc = "checked" => cl[c].pc = "checked" \/ (slot'[i].high = <<>> /\ slot'[i].dw = None)
    /\ \A j \in Parcels' : (\E k \in Parcels : pipe'[j].m = pipe[k].m) \/ pipe'[j].m.by # c
    /\ Guards(i)

(* A service that holds a lock stays alone with its socket.                *)
LEMMA AloneStays ==
    ASSUME SocketType, MailInv, NEW c \in Clients, Alone(c), NEW m, NEW i, Stays(c, m, i)
    PROVE  Alone(c)'
<1>1. /\ slot[i].id = m.to => /\ \A a \in DOMAIN Queue(i) : Queue(i)[a][1].by # c
                              /\ \A j \in Parcels : pipe[j].m.to = m.to => pipe[j].m.by # c
      /\ cl[c].pc = "checked" => Whole(slot[i].high) /\ slot[i].dw = None
      /\ m.to \in opened
  <2>1. cl[c].pc \in Holding /\ cl[c].m = m /\ i = HASH_ID(m.to)
    BY DEF Stays
  <2>2. m.to \in opened
    BY <2>1 DEF MailInv, Carried, Numbered, Busy, Holding
  <2> QED BY <2>1, <2>2 DEF Alone
<1>3. ASSUME slot'[i].id = m.to PROVE slot[i].id = m.to
  BY <1>1, <1>3 DEF Stays, Guards
<1>4. ASSUME slot'[i].id = m.to, NEW a \in DOMAIN Queue(i)' PROVE Queue(i)'[a][1].by # c
  <2>1. \/ \E b \in DOMAIN Queue(i) : Queue(i)'[a] = Queue(i)[b]
        \/ \E k \in Parcels : pipe[k].m.to = slot[i].id /\ Queue(i)'[a][1] = pipe[k].m
    BY <1>1, <1>4 DEF Stays, Guards
  <2> QED BY <1>1, <1>3, <1>4, <2>1
<1>5. ASSUME slot'[i].id = m.to, NEW j \in Parcels', pipe'[j].m.to = m.to PROVE pipe'[j].m.by # c
  BY <1>1, <1>3, <1>5 DEF Stays
<1>6. cl'[c].pc = "checked" => Whole(slot'[i].high) /\ slot'[i].dw = None
  <2>1. slot'[i].high = <<>> => Whole(slot'[i].high)
    BY DEF Whole
  <2> QED BY <1>1, <2>1 DEF Stays, Guards
<1>7. cl'[c].m = m /\ i = HASH_ID(m.to)
  BY DEF Stays
<1>8. HASH_ID(m.to) = HASH_ID(cl'[c].m.to)
  BY <1>7
<1> QED BY <1>4, <1>5, <1>6, <1>7, <1>8 DEF Alone

(* A step of the socket thread, or of a service, on a socket.              *)
Moves(i) == Turns(i) /\ Guards(i) /\ (LowOnly(slot[i].low) => LowOnly(slot'[i].low))

LEMMA QueueIs ==
    ASSUME SocketType, NEW i \in Indices, Life(i)
    PROVE  Queue(i) = Flat(Backlog(slot[i]))
<1>1. CASE slot[i].type \in Dormant
  <2>1. slot[i].high = <<>> /\ slot[i].low = <<>> /\ slot[i].dw = None
    BY <1>1 DEF Life
  <2>2. Backlog(slot[i]) = <<>>
    BY <2>1 DEF Backlog, DwSeq
  <2> QED BY <1>1, <2>2, FlatEmpty DEF Queue
<1>2. CASE slot[i].type \notin Dormant
  BY <1>2 DEF Queue
<1> QED BY <1>1, <1>2

(* What is left of the backlog of a socket after a step.                   *)
LEMMA MovesPart ==
    ASSUME SocketType, NEW i \in Indices, slot'[i].id = slot[i].id,
           NEW r \in Seq(Pieces), NEW v \in Seq(Pieces), v = Queue(i)', Queue(i) = v \o r,
           Live(i)' => slot[i].id \notin opened \/ (Live(i) /\ v = Queue(i)),
           Whole(slot[i].high) => Whole(slot'[i].high), slot'[i].dw \in {None, slot[i].dw},
           LowOnly(slot[i].low) => LowOnly(slot'[i].low)
    PROVE  Moves(i)
<1>1. \A a \in DOMAIN v : a \in DOMAIN (v \o r) /\ (v \o r)[a] = v[a]
  BY ConcatFacts
<1>2. Guards(i)
  BY <1>1 DEF Guards
<1> QED BY <1>2 DEF Moves, Turns

(* Steps that leave the buffers of a slot alone.                           *)
LEMMA MovesSame ==
    ASSUME SocketType, NEW i \in Indices,
           slot'[i].id = slot[i].id, slot'[i].high = slot[i].high, slot'[i].low = slot[i].low,
           slot'[i].dw = slot[i].dw, slot'[i].type = slot[i].type, slot'[i].closing = slot[i].closing,
           Closing(i) => Closing(i)'
    PROVE  Moves(i)
<1>1. Backlog(slot'[i]) = Backlog(slot[i])
  BY DEF Backlog, DwSeq
<1>2. Queue(i)' = Queue(i)
  BY <1>1 DEF Queue
<1>3. Queue(i) \in Seq(Pieces) /\ <<>> \in Seq(Pieces)
  BY QueueType
<1>4. PICK v \in Seq(Pieces) : v = Queue(i)
  BY <1>3
<1>5. v = v \o <<>>
  OBVIOUS
<1>6. Live(i)' => Live(i)
  BY DEF Live
<1> QED BY <1>2, <1>3, <1>4, <1>5, <1>6, MovesPart

LEMMA MovesOther ==
    ASSUME SocketType, NEW i \in Indices, slot'[i] = slot[i], Closing(i) => Closing(i)'
    PROVE  Moves(i)
BY MovesSame

LEMMA MovesAll ==
    ASSUME SocketType, UNCHANGED slot, \A i \in Indices : Closing(i) => Closing(i)'
    PROVE  \A i \in Indices : Moves(i)
BY MovesOther

(* Steps that change the type of a socket or its closing.                  *)
LEMMA MovesMode ==
    ASSUME SocketType, NEW i \in Indices, Life(i), NEW t, NEW c, NEW w, ModeStep(i, t, c, w), fc' = fc,
           t \in {"CONNECTED", "HALFCLOSE_READ"} /\ ~c
              => ~slot[i].closing /\ slot[i].type \in {"CONNECTED", "HALFCLOSE_READ"} \cup Untold
    PROVE  Moves(i)
<1>1. /\ slot'[i].id = slot[i].id /\ slot'[i].high = slot[i].high /\ slot'[i].low = slot[i].low
      /\ slot'[i].dw = slot[i].dw /\ slot'[i].type = t /\ slot'[i].closing = c
  BY DEF ModeStep, Calm
<1>2. Backlog(slot'[i]) = Backlog(slot[i])
  BY <1>1 DEF Backlog, DwSeq
<1>3. Queue(i)' = IF t \in Dormant THEN <<>> ELSE Queue(i)
  BY <1>1, <1>2, QueueIs DEF Queue
<1>4. Queue(i) \in Seq(Pieces) /\ <<>> \in Seq(Pieces)
  BY QueueType
<1>5. PICK q \in Seq(Pieces) : q = Queue(i)
  BY <1>4
<1>6. q = q \o <<>> /\ q = <<>> \o q
  OBVIOUS
<1>7. Live(i)' => slot[i].id \notin opened \/ Live(i)
  <2>1. Live(i)' => t \in {"CONNECTED", "HALFCLOSE_READ"} /\ ~c /\ ~Closing(i)
    BY <1>1 DEF Live, Closing
  <2>2. slot[i].type \in Untold => slot[i].id \notin opened
    BY DEF Life
  <2> QED BY <2>1, <2>2 DEF Live
<1>8. Live(i)' => t \notin Dormant
  BY <1>1 DEF Live, Dormant
<1>9. CASE t \in Dormant
  <2>1. Queue(i)' = <<>>
    BY <1>3, <1>9
  <2> QED BY <1>1, <1>4, <1>5, <1>6, <1>8, <1>9, <2>1, MovesPart
<1>10. CASE t \notin Dormant
  <2>1. Queue(i)' = q
    BY <1>3, <1>5, <1>10
  <2> QED BY <1>1, <1>4, <1>5, <1>6, <1>7, <2>1, MovesPart
<1> QED BY <1>9, <1>10

(* force_close frees the lists first, and the rest when it has the lock.   *)
LEMMA MovesForced ==
    ASSUME SocketType, NEW i \in Indices, Life(i), NEW kind, Closable(i, kind), NEW ctrl \in BOOLEAN,
           ForceClose(i, kind, ctrl)
    PROVE  Moves(i)
<1>1. /\ fc' \in Closings /\ fc'.i = i
      /\ slot'[i].id = slot[i].id /\ slot'[i].high = <<>> /\ slot'[i].low = <<>>
      /\ slot'[i].dw = slot[i].dw /\ slot'[i].type = slot[i].type
  BY ForceCloseFacts, Zenon
<1>2. ~Live(i)'
  BY <1>1, NoneAssumption DEF Live, Closing
<1>3. slot[i] \in Sockets
  BY SocketFields
<1>4. PICK d \in Seq(Buffers), h \in Seq(Buffers), l \in Seq(Buffers) :
         d = DwSeq(slot[i]) /\ h = slot[i].high /\ l = slot[i].low
  BY <1>3, BacklogType
<1>5. Backlog(slot'[i]) = d
  <2>1. DwSeq(slot'[i]) = d
    BY <1>1, <1>4 DEF DwSeq
  <2>2. Backlog(slot'[i]) = d \o <<>> \o <<>>
    BY <1>1, <2>1 DEF Backlog
  <2> QED BY <2>2
<1>6. Queue(i) = Flat(d \o (h \o l))
  <2>1. Backlog(slot[i]) = d \o h \o l
    BY <1>4 DEF Backlog
  <2>2. d \o h \o l = d \o (h \o l)
    OBVIOUS
  <2> QED BY <2>1, <2>2, QueueIs
<1>7. h \o l \in Seq(Buffers)
  BY ConcatFacts
<1>8. Flat(d \o (h \o l)) = Flat(d) \o Flat(h \o l) /\ Flat(d) \in Seq(Pieces) /\ Flat(h \o l) \in Seq(Pieces)
  BY <1>7, FlatConcat, FlatType
<1>9. Whole(slot'[i].high) /\ LowOnly(slot'[i].low)
  BY <1>1 DEF Whole, LowOnly
<1>10. CASE slot[i].type \in Dormant
  <2>1. Queue(i)' = <<>> /\ <<>> \in Seq(Pieces)
    BY <1>1, <1>10 DEF Queue
  <2>2. Queue(i) = <<>>
    BY <1>10 DEF Queue
  <2>3. Queue(i) = <<>> \o <<>>
    BY <2>2
  <2> QED BY <1>1, <1>2, <1>9, <2>1, <2>3, MovesPart
<1>11. CASE slot[i].type \notin Dormant
  <2>1. Queue(i)' = Flat(d)
    BY <1>1, <1>5, <1>11 DEF Queue
  <2>2. Queue(i) = Flat(d) \o Flat(h \o l)
    BY <1>6, <1>8
  <2>3. PICK f \in Seq(Pieces), g \in Seq(Pieces) : f = Flat(d) /\ g = Flat(h \o l)
    BY <1>8
  <2> QED BY <1>1, <1>2, <1>9, <2>1, <2>2, <2>3, MovesPart
<1> QED BY <1>10, <1>11

(* The end of force_close, and slots that are taken anew.                  *)
LEMMA MovesFinish ==
    ASSUME SocketType, FinishClose, NEW i, i = fc.i
    PROVE  i \in Indices /\ Others(i) /\ fc' = None /\ Moves(i)
<1>1. /\ i \in Indices /\ Others(i) /\ fc' = None
      /\ slot'[i].id = slot[i].id /\ slot'[i].high = slot[i].high /\ slot'[i].low = slot[i].low
      /\ slot'[i].dw = None /\ slot'[i].type = "INVALID"
  BY FinishCloseEffect
<1>2. Queue(i)' = <<>> /\ ~Live(i)'
  BY <1>1 DEF Queue, Dormant, Live
<1>3. Queue(i) \in Seq(Pieces) /\ <<>> \in Seq(Pieces)
  BY <1>1, QueueType
<1>4. PICK q \in Seq(Pieces) : q = Queue(i)
  BY <1>3
<1>5. q = <<>> \o q
  OBVIOUS
<1>6. Moves(i)
  BY <1>1, <1>2, <1>3, <1>4, <1>5, MovesPart
<1> QED BY <1>1, <1>6

(* A slot gets a new id only when nothing waits in it.                     *)
LEMMA MovesNew ==
    ASSUME SocketType, NEW i \in Indices, slot[i].type \in Dormant, slot'[i].id \notin opened,
           \/ slot'[i].high = <<>> /\ slot'[i].low = <<>> /\ slot'[i].dw = None
           \/ /\ slot'[i].type \in Dormant
              /\ slot'[i].high = slot[i].high /\ slot'[i].low = slot[i].low /\ slot'[i].dw = slot[i].dw
    PROVE  Moves(i)
<1>1. Queue(i) = <<>>
  BY DEF Queue
<1>2. Queue(i)' = <<>>
  <2>1. CASE slot'[i].type \in Dormant
    BY <2>1 DEF Queue
  <2>2. CASE slot'[i].high = <<>> /\ slot'[i].low = <<>> /\ slot'[i].dw = None
    <3>1. Backlog(slot'[i]) = <<>>
      BY <2>2 DEF Backlog, DwSeq
    <3> QED BY <3>1, FlatEmpty DEF Queue
  <2> QED BY <2>1, <2>2
<1>3. (Whole(slot[i].high) => Whole(slot'[i].high)) /\ (LowOnly(slot[i].low) => LowOnly(slot'[i].low))
  BY DEF Whole, LowOnly
<1> QED BY <1>1, <1>2, <1>3 DEF Moves, Turns, Guards

LEMMA MovesClaimed ==
    ASSUME SocketType, NEW id \in Ids, slot' = Claimed(slot, id), id \notin opened,
           slot[HASH_ID(id)].type \in Dormant
    PROVE  HASH_ID(id) \in Indices /\ Others(HASH_ID(id)) /\ Moves(HASH_ID(id))
<1>1. PICK i : i = HASH_ID(id)
  OBVIOUS
<1>2. /\ i \in Indices /\ Others(i) /\ slot'[i].id = id /\ slot'[i].type = slot[i].type
      /\ slot'[i].high = slot[i].high /\ slot'[i].low = slot[i].low /\ slot'[i].dw = slot[i].dw
  BY <1>1, ClaimedEffect
<1>3. Moves(i)
  BY <1>1, <1>2, MovesNew
<1> QED BY <1>1, <1>2, <1>3

LEMMA MovesOpened ==
    ASSUME SocketType, NEW id \in Ids, NEW type \in Types,
           NEW reading \in BOOLEAN, NEW writing \in BOOLEAN, Opened(id, type, reading, writing),
           id \notin opened, slot[HASH_ID(id)].type \in Dormant
    PROVE  HASH_ID(id) \in Indices /\ Others(HASH_ID(id)) /\ Moves(HASH_ID(id))
<1>1. PICK i : i = HASH_ID(id)
  OBVIOUS
<1>2. Blank(i, id)
  BY <1>1, OpenedBlank
<1>3. /\ i \in Indices /\ Others(i) /\ slot'[i].id = id
      /\ slot'[i].high = <<>> /\ slot'[i].low = <<>> /\ slot'[i].dw = None
  BY <1>2 DEF Blank
<1>4. Moves(i)
  BY <1>1, <1>3, MovesNew
<1> QED BY <1>1, <1>3, <1>4

(* A step that changes one slot.                                           *)
LEMMA MovesEach ==
    ASSUME SocketType, NEW i \in Indices, Others(i), Moves(i),
           \A j \in Indices \ {i} : Closing(j) => Closing(j)'
    PROVE  \A j \in Indices : Moves(j)
<1> SUFFICES ASSUME NEW j \in Indices, j # i PROVE Moves(j)
  OBVIOUS
<1>1. slot'[j] = slot[j] /\ (Closing(j) => Closing(j)')
  BY DEF Others
<1> QED BY <1>1, MovesOther

(* The parcels that are in the pipe after a step were there before.        *)
OldParcels == \A j \in Parcels' : \E k \in Parcels : pipe'[j] = pipe[k]

LEMMA OldShorter ==
    ASSUME SocketType, Shorter
    PROVE  OldParcels
<1>1. PICK f \in [Parcels' -> Parcels] : \A j \in Parcels' : pipe'[j] = pipe[f[j]]
  BY ShorterParcels DEF NoNewParcel
<1> QED BY <1>1 DEF OldParcels

LEMMA DeliversSame ==
    ASSUME sent' = sent, \A m : OnWay(m)' <=> OnWay(m), OldParcels
    PROVE  \A id : Delivers(id)
<1>1. Settled' = Settled
  BY DEF Settled
<1>2. \A j \in Parcels' : \E k \in Parcels : pipe'[j].m = pipe[k].m
  <2> SUFFICES ASSUME NEW j \in Parcels' PROVE \E k \in Parcels : pipe'[j].m = pipe[k].m
    OBVIOUS
  <2>1. PICK k \in Parcels : pipe'[j] = pipe[k]
    BY DEF OldParcels
  <2> QED BY <2>1
<1> QED BY <1>1, <1>2 DEF Delivers

(* The parts of the invariant, put together.                               *)
LEMMA StreamParts ==
    ASSUME SocketType, MailInv, StreamInv, \A id \in Ids : Ordered(id)',
           \A i \in Indices : LowOnly(slot[i].low) => LowOnly(slot'[i].low),
           \A c \in Clients : cl'[c].pc \in Holding => Alone(c)' \/ \E m, i : Stays(c, m, i)
    PROVE  StreamInv'
<1>1. ASSUME NEW c \in Clients PROVE Alone(c)'
  <2>1. CASE cl'[c].pc \notin Holding
    BY <2>1 DEF Alone
  <2>2. CASE cl'[c].pc \in Holding
    <3>1. CASE \E m, i : Stays(c, m, i)
      <4>1. PICK m, i : Stays(c, m, i)
        BY <3>1
      <4>2. Alone(c)
        BY DEF StreamInv
      <4> QED BY <4>1, <4>2, AloneStays
    <3> QED BY <2>2, <3>1
  <2> QED BY <2>1, <2>2
<1> QED BY <1>1 DEF StreamInv

LEMMA StreamStep ==
    ASSUME SocketType, SocketType', MailInv, StreamInv, \A id \in Ids : Delivers(id), wire' = wire,
           \A i \in Indices : Moves(i),
           \A c \in Clients : cl'[c].pc \in Holding => Alone(c)' \/ \E m, i : Stays(c, m, i)
    PROVE  StreamInv'
<1>1. \A id \in Ids : Ordered(id)'
  BY OrderedStep DEF StreamInv, MailInv, Moves
<1>2. \A i \in Indices : LowOnly(slot[i].low) => LowOnly(slot'[i].low)
  BY DEF Moves
<1> QED BY <1>1, <1>2, StreamParts

(* A service whose call stands still keeps what it has.                    *)
LEMMA StaysOld ==
    ASSUME SocketType, NEW c \in Clients, cl'[c] = cl[c], cl[c].pc \in Holding,
           \A j \in Parcels' : (\E k \in Parcels : pipe'[j] = pipe[k]) \/ pipe'[j].m.by # c,
           \A i \in Indices : i = HASH_ID(cl[c].m.to) => Guards(i)
    PROVE  \E m, i : Stays(c, m, i)
<1>1. PICK m : m = cl[c].m
  OBVIOUS
<1>2. m \in Messages
  BY <1>1, CallerFacts DEF Holding, Busy
<1>3. PICK i \in Indices : i = HASH_ID(m.to)
  BY <1>2, MessageFacts, IdFacts
<1>4. \A j \in Parcels' : (\E k \in Parcels : pipe'[j].m = pipe[k].m) \/ pipe'[j].m.by # c
  <2> SUFFICES ASSUME NEW j \in Parcels', pipe'[j].m.by = c PROVE \E k \in Parcels : pipe'[j].m = pipe[k].m
    OBVIOUS
  <2>1. PICK k \in Parcels : pipe'[j] = pipe[k]
    OBVIOUS
  <2> QED BY <2>1
<1>5. Guards(i)
  BY <1>1, <1>3
<1>6. Stays(c, m, i)
  BY <1>1, <1>3, <1>4, <1>5 DEF Stays
<1> QED BY <1>6

(* A step of the socket thread that writes nothing and takes no message.   *)
LEMMA StreamThread ==
    ASSUME SocketType, SocketType', MailInv, StreamInv, wire' = wire, cl' = cl, sent' = sent,
           pipe' = pipe \/ (Commanded /\ Cmd.cmd \notin Packages), \A i \in Indices : Moves(i)
    PROVE  StreamInv'
<1>1. OldParcels
  BY OldShorter DEF Shorter
<1>2. \A id : Delivers(id)
  BY <1>1, SameMailThread, DeliversSame DEF SameMail
<1>3. ASSUME NEW c \in Clients, cl'[c].pc \in Holding PROVE \E m, i : Stays(c, m, i)
  BY <1>1, <1>3, StaysOld DEF Moves, OldParcels
<1> QED BY <1>2, <1>3, StreamStep

-----------------------------------------------------------------------------
(* The steps of the socket thread.                                         *)

(* The commands and the events, but those that carry messages.             *)
LEMMA StreamCommands ==
    ASSUME SocketType, SocketType', LifeInv, MailInv, StreamInv,
           close_socket \/ resume_socket \/ pause_socket \/ trigger_write
    PROVE  StreamInv'
<1> SUFFICES ASSUME NEW i, i = HASH_ID(Cmd.id) PROVE StreamInv'
  OBVIOUS
<1> DEFINE t == slot[i].type
<1>1. Served /\ Commanded /\ Running /\ cl' = cl /\ sent' = sent /\ wire' = wire
  BY ServerFrames DEF Served
<1>2. Stale /\ ~socket_invalid(i, Cmd.id) /\ Cmd.cmd \in {"K", "shutdown", "R", "S", "W"}
  BY CloseSocketEffect, ResumeEffect, ToggleEffect DEF pause_socket, trigger_write, Valid, Ctrl
<1>3. Cmd.cmd \notin Packages
  BY <1>2 DEF Packages
<1>4. i \in Indices /\ fc = None
  BY <1>1, <1>2, ValidCommand
<1>5. Life(i) /\ \A j \in Indices : Closing(j) => Closing(j)'
  BY <1>1, <1>4 DEF LifeInv, Lives, Closing
<1>6. ASSUME Others(i), Moves(i) PROVE StreamInv'
  <2>1. \A j \in Indices : Moves(j)
    BY <1>4, <1>5, <1>6, MovesEach
  <2> QED BY <1>1, <1>3, <2>1, StreamThread
<1>7. ASSUME NEW n, NEW c, NEW w, ModeStep(i, n, c, w), UNCHANGED fc,
             n \in {"CONNECTED", "HALFCLOSE_READ"} /\ ~c
              => ~slot[i].closing /\ slot[i].type \in {"CONNECTED", "HALFCLOSE_READ"} \cup Untold
      PROVE  StreamInv'
  <2>1. Moves(i) /\ Others(i)
    BY <1>4, <1>5, <1>7, MovesMode DEF ModeStep, Calm
  <2> QED BY <1>6, <2>1
<1>8. CASE close_socket
  <2>1. ASSUME NEW kind, Closable(i, kind), ForceClose(i, kind, TRUE) PROVE StreamInv'
    <3>1. Moves(i)
      BY <1>4, <1>5, <2>1, MovesForced
    <3>2. Others(i)
      BY <1>4, <2>1, ForceCloseFacts
    <3> QED BY <1>6, <3>1, <3>2
  <2>2. CASE ModeStep(i, "HALFCLOSE_READ", TRUE, slot[i].writing) /\ UNCHANGED fc
    BY <1>7, <2>2
  <2> QED BY <1>8, <2>1, <2>2, CloseSocketEffect
<1>9. CASE resume_socket
  <2>1. UNCHANGED fc
    BY <1>9, ServerFrames
  <2>2. CASE UNCHANGED slot
    <3>1. \A j \in Indices : Moves(j)
      BY <1>5, <2>2, MovesAll
    <3> QED BY <1>1, <1>3, <3>1, StreamThread
  <2>3. ASSUME t # "HALFCLOSE_READ",
               ModeStep(i, CASE t = "PACCEPT" -> "CONNECTED" [] t = "PLISTEN" -> "LISTEN" [] OTHER -> t,
                        slot[i].closing, slot[i].writing)
        PROVE  StreamInv'
    <3> DEFINE n == CASE t = "PACCEPT" -> "CONNECTED" [] t = "PLISTEN" -> "LISTEN" [] OTHER -> t
    <3>1. n \in {"CONNECTED", "HALFCLOSE_READ"} => t \in {"CONNECTED", "HALFCLOSE_READ"} \cup Untold
      BY DEF Untold
    <3> HIDE DEF n
    <3> QED BY <1>7, <2>1, <2>3, <3>1 DEF n
  <2> QED BY <1>9, <2>2, <2>3, ResumeEffect
<1>10. ASSUME NEW w, ModeStep(i, t, slot[i].closing, w), UNCHANGED fc PROVE StreamInv'
  BY <1>7, <1>10
<1>11. CASE pause_socket \/ trigger_write
  BY <1>10, <1>11, ServerFrames, ToggleEffect
<1> QED BY <1>8, <1>9, <1>11

(* open_socket and listen_socket.                                          *)
LEMMA StreamOpening ==
    ASSUME SocketType, SocketType', LifeInv, MailInv, StreamInv, open_socket
    PROVE  StreamInv'
<1> SUFFICES ASSUME NEW i, NEW id, id = Cmd.id, i = HASH_ID(id) PROVE StreamInv'
  OBVIOUS
<1>1. Served /\ Commanded /\ Running /\ cl' = cl /\ sent' = sent /\ fc' = fc /\ wire' = wire
  BY ServerFrames DEF Served
<1>2. id = pipe[1].id /\ 1 \in DOMAIN pipe /\ id \in Ids /\ i \in Indices /\ pipe[1].cmd \in Opening
      /\ Cmd.cmd \in {"O", "L"}
  BY <1>1, CommandedFacts, OpenSocketEffect DEF Opening
<1>3. Cmd.cmd \notin Packages /\ \A j \in Indices : Closing(j) => Closing(j)'
  BY <1>1, <1>2 DEF Packages, Closing
<1>4. Life(i) /\ slot[i].type = "RESERVE" /\ id \notin opened
  BY <1>1, <1>2 DEF LifeInv, Lives, Booked, Opens
<1>5. ASSUME Others(i), Moves(i) PROVE StreamInv'
  <2>1. \A j \in Indices : Moves(j)
    BY <1>2, <1>3, <1>5, MovesEach
  <2> QED BY <1>1, <1>3, <2>1, StreamThread
<1>6. ASSUME NEW type \in {"CONNECTED", "CONNECTING", "PLISTEN"},
             Opened(id, type, type # "PLISTEN", type = "CONNECTING")
      PROVE StreamInv'
  <2>1. type \in Types /\ (type # "PLISTEN") \in BOOLEAN /\ (type = "CONNECTING") \in BOOLEAN
    BY DEF Types
  <2>2. slot[HASH_ID(id)].type \in Dormant
    BY <1>4 DEF Dormant
  <2>3. Others(HASH_ID(id)) /\ Moves(HASH_ID(id))
    BY <1>2, <1>4, <1>6, <2>1, <2>2, MovesOpened
  <2> QED BY <1>5, <2>3
<1>7. CASE ModeStep(i, "INVALID", slot[i].closing, slot[i].writing)
  <2>1. Moves(i) /\ Others(i)
    BY <1>1, <1>2, <1>4, <1>7, MovesMode DEF ModeStep, Calm
  <2> QED BY <1>5, <2>1
<1> QED BY <1>6, <1>7, OpenSocketEffect

LEMMA StreamRest ==
    ASSUME SocketType, SocketType', MailInv, StreamInv,
           \/ Ignored \/ NoMoreCommands \/ Wait
           \/ ReadAgain \/ ReadError \/ ReadData \/ WriteBlocked \/ InvalidEvent \/ StaleEvent
    PROVE  StreamInv'
<1>1. cl' = cl /\ sent' = sent /\ UNCHANGED <<slot, fc, wire>>
  <2>1. CASE Ignored \/ NoMoreCommands \/ Wait
    BY <2>1, ServerFrames DEF Served, Running
  <2>2. CASE ReadAgain \/ ReadError \/ ReadData \/ WriteBlocked \/ InvalidEvent \/ StaleEvent
    <3>1. Served
      BY <2>2, EventFrames
    <3>2. UNCHANGED <<slot, fc, wire>>
      BY <2>2, CalmEvents
    <3> QED BY <3>1, <3>2 DEF Served
  <2> QED BY <2>1, <2>2
<1>2. pipe' = pipe \/ (Commanded /\ Cmd.cmd \notin Packages)
  <2>1. CASE Ignored
    BY <2>1, ServerFrames DEF Ignored, Ctrl, Packages
  <2>2. CASE ~Ignored
    BY <2>2, ServerFrames, EventFrames DEF Served, Signalled
  <2> QED BY <2>1, <2>2
<1>3. \A j \in Indices : Closing(j) => Closing(j)'
  BY <1>1 DEF Closing
<1>4. \A j \in Indices : Moves(j)
  BY <1>1, <1>3, MovesAll
<1> QED BY <1>1, <1>2, <1>4, StreamThread

(* The second half of force_close.                                         *)
LEMMA StreamFinish ==
    ASSUME SocketType, SocketType', MailInv, StreamInv, FinishClose
    PROVE  StreamInv'
<1> SUFFICES ASSUME NEW i, i = fc.i PROVE StreamInv'
  OBVIOUS
<1>1. cl' = cl /\ sent' = sent /\ pipe' = pipe /\ wire' = wire
  BY DEF FinishClose, callVars
<1>2. i \in Indices /\ fc' = None /\ Others(i) /\ Moves(i)
  BY MovesFinish
<1>3. \A j \in Indices \ {i} : Closing(j) => Closing(j)'
  BY DEF Closing
<1>4. \A j \in Indices : Moves(j)
  BY <1>2, <1>3, MovesEach
<1> QED BY <1>1, <1>4, StreamThread

(* report_accept makes a new socket in a slot that it reserves.            *)
LEMMA StreamAccept ==
    ASSUME SocketType, SocketType', LifeInv, MailInv, StreamInv, report_accept
    PROVE  StreamInv'
<1> SUFFICES ASSUME NEW id, NEW i, id = allocId', i = HASH_ID(id) PROVE StreamInv'
  OBVIOUS
<1>1. Running /\ cl' = cl /\ sent' = sent /\ pipe' = pipe /\ UNCHANGED <<fc, wire>>
  BY EventFrames DEF Served, Signalled
<1>2. \A j \in Indices : Closing(j) => Closing(j)'
  BY <1>1 DEF Closing
<1>3. CASE UNCHANGED slot
  <2>1. \A j \in Indices : Moves(j)
    BY <1>2, <1>3, MovesAll
  <2> QED BY <1>1, <2>1, StreamThread
<1>4. ASSUME id \in Ids, id > allocId, slot[i].type = "INVALID",
             slot' = Claimed(slot, id) \/ Opened(id, "PACCEPT", FALSE, FALSE)
      PROVE  StreamInv'
  <2>1. id \notin opened
    <3>1. id \in Nat /\ allocId \in Nat
      BY <1>4, IdFacts, SocketAssumption DEF SocketType
    <3> QED BY <1>1, <1>4, <3>1 DEF LifeInv, Known
  <2>2. slot[HASH_ID(id)].type \in Dormant /\ "PACCEPT" \in Types /\ FALSE \in BOOLEAN
    BY <1>4 DEF Types, Dormant
  <2>3. HASH_ID(id) \in Indices /\ Others(HASH_ID(id)) /\ Moves(HASH_ID(id))
    <3>1. CASE slot' = Claimed(slot, id)
      BY <1>4, <2>1, <2>2, <3>1, MovesClaimed
    <3>2. CASE Opened(id, "PACCEPT", FALSE, FALSE)
      BY <1>4, <2>1, <2>2, <3>2, MovesOpened
    <3> QED BY <1>4, <3>1, <3>2
  <2>4. \A j \in Indices : Moves(j)
    BY <1>2, <2>3, MovesEach
  <2> QED BY <1>1, <2>4, StreamThread
<1> QED BY <1>3, <1>4, AcceptEffect

(* report_connect, and what reading finds.                                 *)
LEMMA StreamEvents ==
    ASSUME SocketType, SocketType', LifeInv, MailInv, StreamInv, report_connect \/ ReadEnd \/ Eof
    PROVE  StreamInv'
<1> SUFFICES ASSUME NEW i, i = E.i PROVE StreamInv'
  OBVIOUS
<1>1. Running /\ cl' = cl /\ sent' = sent /\ pipe' = pipe /\ fc = None /\ wire' = wire
  BY EventFrames DEF Served, Signalled
<1>2. i \in Indices
  BY ConnectEffect, ReadEndEffect, EofEffect
<1>3. Life(i) /\ \A j \in Indices : Closing(j) => Closing(j)'
  BY <1>1, <1>2 DEF LifeInv, Lives, Closing
<1>4. ASSUME Others(i), Moves(i) PROVE StreamInv'
  <2>1. \A j \in Indices : Moves(j)
    BY <1>2, <1>3, <1>4, MovesEach
  <2> QED BY <1>1, <2>1, StreamThread
<1>5. ASSUME NEW kind, Closable(i, kind), ForceClose(i, kind, FALSE) PROVE StreamInv'
  <2>1. Moves(i)
    BY <1>2, <1>3, <1>5, MovesForced
  <2>2. Others(i)
    BY <1>2, <1>5, ForceCloseFacts
  <2> QED BY <1>4, <2>1, <2>2
<1>6. ASSUME NEW n, NEW w, ModeStep(i, n, slot[i].closing, w), UNCHANGED fc,
             slot[i].type \in {"CONNECTED", "PACCEPT", "CONNECTING"}
      PROVE  StreamInv'
  <2>1. slot[i].type \in {"CONNECTED", "HALFCLOSE_READ"} \cup Untold
    BY <1>6 DEF Untold
  <2>2. Moves(i) /\ Others(i)
    BY <1>2, <1>3, <1>6, <2>1, MovesMode DEF ModeStep, Calm
  <2> QED BY <1>4, <2>2
<1>7. CASE report_connect
  <2>1. CASE ForceClose(i, "ERR", FALSE)
    BY <1>5, <2>1 DEF Closable
  <2> QED BY <1>6, <1>7, <2>1, ConnectEffect
<1>8. CASE ReadEnd
  <2>1. CASE UNCHANGED <<slot, fc>>
    <3>1. \A j \in Indices : Moves(j)
      BY <1>3, <2>1, MovesAll
    <3> QED BY <1>1, <3>1, StreamThread
  <2> QED BY <1>5, <1>6, <1>8, <2>1, ReadEndEffect
<1>9. CASE Eof
  BY <1>5, <1>9, EofEffect
<1> QED BY <1>7, <1>8, <1>9

(* A message is put into the line of its id.                               *)
LEMMA OrderedInsert ==
    ASSUME SocketType, NEW id \in Ids, Ordered(id), NEW v \in Seq(Pieces), NEW w \in Seq(Pieces),
           NEW m \in sent, m.to = id, OnWay(m), ~OnWay(m)', sent' = sent,
           \A o : o # m => (OnWay(o)' <=> OnWay(o)),
           Line(id) = v \o w, Line(id)' = (v \o Two(m)) \o w,
           \A a \in DOMAIN v : Ranked(v[a][1], m) => v[a][1].n <= m.n,
           \A a \in DOMAIN w : ~Ranked(m, w[a][1]),
           w = <<>> \/ w[1][2] = 1,
           OldParcels, \A j \in Parcels : pipe[j].m.to = id /\ Ranked(m, pipe[j].m) /\ pipe[j].m # m => m.n < pipe[j].m.n,
           \A j \in Parcels' : pipe'[j].m # m,
           Sending(id)' => Sending(id)
    PROVE  Ordered(id)'
<1>0. m \in Messages
  BY DEF SocketType
<1>1. PICK u \in Seq(Pieces), x \in Seq(Pieces) :
         /\ u = Line(id) /\ x = Line(id)' /\ u = v \o w /\ Widened(u, x, Len(v), m)
  BY <1>0, WidenedConcat, ConcatFacts
<1>2. PICK p : p = Len(v)
  OBVIOUS
<1>3. /\ p \in Nat /\ Len(w) \in Nat /\ Len(u) = p + Len(w) /\ DOMAIN u = 1 .. p + Len(w)
      /\ DOMAIN v = 1 .. p /\ DOMAIN w = 1 .. Len(w)
      /\ \A a \in 1 .. p : u[a] = v[a]
      /\ \A a \in 1 .. Len(w) : u[p + a] = w[a]
  <2>1. /\ Len(v) \in Nat /\ Len(w) \in Nat /\ Len(v \o w) = Len(v) + Len(w)
        /\ DOMAIN (v \o w) = 1 .. Len(v) + Len(w)
        /\ DOMAIN v = 1 .. Len(v) /\ DOMAIN w = 1 .. Len(w)
        /\ \A a \in 1 .. Len(v) : (v \o w)[a] = v[a]
        /\ \A a \in 1 .. Len(w) : (v \o w)[Len(v) + a] = w[a]
    BY ConcatFacts
  <2> QED BY ONLY <1>1, <1>2, <2>1
<1>4. Widened(u, x, p, m)
  BY <1>1, <1>2
<1>5. Pure(u) /\ (Sending(id) => Full(u))
  BY <1>1 DEF Ordered
<1>6. \A a \in DOMAIN u : u[a][1] \in Settled /\ u[a][1].to = id /\ u[a][1] # m /\ u[a][1].n \in Int
  <2>1. \A a \in DOMAIN u : u[a][1] \in Settled /\ u[a][1].to = id
    BY <1>1 DEF Ordered, Owned
  <2>2. \A o \in Settled : o # m /\ o \in Messages
    BY DEF Settled, SocketType
  <2> QED BY <2>1, <2>2, MessageFacts
<1>7. Pure(x) /\ (Full(u) => Full(x))
  <2>1. m.n \in Int /\ \A a \in DOMAIN u : u[a][1] # m /\ u[a][1].n \in Int
    BY <1>0, <1>6, MessageFacts
  <2>2. \A a \in 1 .. p : Ranked(u[a][1], m) => u[a][1].n <= m.n
    BY <1>3
  <2>3. ASSUME NEW a \in p + 1 .. Len(u) PROVE ~Ranked(m, u[a][1])
    <3> DEFINE b == a - p
    <3>1. b \in 1 .. Len(w) /\ p + b = a
      BY ONLY <1>3, <2>3
    <3> HIDE DEF b
    <3> QED BY <1>3, <3>1
  <2>4. p < Len(u) => u[p + 1][2] = 1
    <3>1. p < Len(u) => 1 \in 1 .. Len(w)
      BY ONLY <1>3
    <3>2. 1 \in 1 .. Len(w) => w # <<>>
      OBVIOUS
    <3> QED BY <1>3, <3>1, <3>2
  <2> QED BY ONLY <1>4, <1>5, <2>1, <2>2, <2>3, <2>4, PureWidened
<1>8. Settled \subseteq Settled' /\ m \in Settled'
  BY DEF Settled
<1>9. x[p + 2] = <<m, 2>> /\ p + 2 \in DOMAIN x /\ x[p + 1] = <<m, 1>>
  BY <1>3, <1>4 DEF Widened
<1>10. ASSUME NEW b \in DOMAIN x PROVE x[b][1] = m \/ \E c \in DOMAIN u : x[b] = u[c]
  <2>1. b = p + 1 \/ b = p + 2 \/ \E c \in DOMAIN u : Origin(u, p, b, c) /\ x[b] = u[c]
    BY <1>4, WidenedFrom
  <2>2. b = p + 1 \/ b = p + 2 => x[b][1] = m
    BY <1>9
  <2> QED BY <2>1, <2>2
<1>11. Owned(id)'
  <2>1. ASSUME NEW b \in DOMAIN x PROVE x[b][1] \in Settled' /\ x[b][1].to = id
    BY <1>6, <1>8, <1>10
  <2> QED BY <1>1, <2>1 DEF Owned
<1>12. Later(id)'
  <2>1. ASSUME NEW b \in DOMAIN x, NEW j \in Parcels', pipe'[j].m.to = id, Ranked(x[b][1], pipe'[j].m)
        PROVE  x[b][1].n < pipe'[j].m.n
    <3>1. PICK k \in Parcels : pipe'[j] = pipe[k]
      BY DEF OldParcels
    <3>2. CASE x[b][1] = m
      BY <2>1, <3>1, <3>2
    <3>3. CASE \E c \in DOMAIN u : x[b] = u[c]
      BY <1>1, <2>1, <3>1, <3>3 DEF Ordered, Later
    <3> QED BY <1>10, <3>2, <3>3
  <2> QED BY <1>1, <2>1 DEF Later
<1>13. ASSUME Sending(id)' PROVE Full(x) /\ Kept(id)'
  <2>1. ASSUME NEW o \in sent', o.to = id, ~OnWay(o)' PROVE \E a \in DOMAIN x : x[a] = <<o, 2>>
    <3>1. CASE o = m
      BY <1>9, <3>1
    <3>2. CASE o # m
      <4>1. PICK a \in DOMAIN u : u[a] = <<o, 2>>
        BY <1>1, <1>13, <2>1, <3>2 DEF Ordered, Kept
      <4>2. CASE a \in 1 .. p
        <5>1. x[a] = u[a] /\ a \in DOMAIN x
          BY <1>3, <1>4, <4>2 DEF Widened
        <5> QED BY <4>1, <5>1
      <4>3. CASE a \in p + 1 .. Len(u)
        <5>1. x[a + 2] = u[a] /\ a + 2 \in DOMAIN x
          BY <1>3, <1>4, <4>3 DEF Widened
        <5> QED BY <4>1, <5>1
      <4> QED BY <1>3, <4>2, <4>3
    <3> QED BY <3>1, <3>2
  <2> QED BY <1>1, <1>5, <1>7, <1>13, <2>1 DEF Kept
<1> QED BY <1>1, <1>7, <1>11, <1>12, <1>13 DEF Ordered

(* The lines of the ids that a step on slot i is not about.                *)
LEMMA ShrinksOthers ==
    ASSUME SocketType, SocketType', NEW i \in Indices, Others(i), slot'[i].id = slot[i].id,
           NEW id \in Ids, id # slot[i].id, wire'[id] = wire[id],
           \A j \in Indices \ {i} : Closing(j) => Closing(j)'
    PROVE  Shrinks(id)
<1>1. CASE HASH_ID(id) = i
  <2>1. Rest(id) = <<>> /\ Rest(id)' = <<>> /\ ~Sending(id)'
    BY <1>1 DEF Rest, Sending
  <2>2. Line(id)' = Line(id)
    BY <2>1 DEF Line
  <2>3. Line(id) \in Seq(Pieces)
    BY QueueType
  <2>4. PICK v \in Seq(Pieces) : v = Line(id)
    BY <2>3
  <2>5. <<>> \in Seq(Pieces) /\ v = v \o <<>>
    OBVIOUS
  <2> QED BY <2>1, <2>2, <2>4, <2>5 DEF Shrinks
<1>2. ASSUME NEW j \in Indices \ {i}, j = HASH_ID(id) PROVE Shrinks(id)
  <2>1. slot'[j] = slot[j] /\ (Closing(j) => Closing(j)')
    BY DEF Others
  <2>2. Turns(j)
    BY <2>1, MovesOther DEF Moves
  <2> QED BY <1>2, <2>2, ShrinksTurns
<1> QED BY <1>1, <1>2, IdFacts

LEMMA GuardsOthers ==
    ASSUME SocketType, NEW i \in Indices, Others(i), NEW j \in Indices \ {i}, Closing(j) => Closing(j)'
    PROVE  Guards(j)
<1>1. slot'[j] = slot[j]
  BY DEF Others
<1> QED BY <1>1, MovesOther DEF Moves

(* send_buffer.                                                            *)
LEMMA StreamBuffer ==
    ASSUME SocketType, SocketType', LifeInv, MailInv, StreamInv, send_buffer
    PROVE  StreamInv'
<1> SUFFICES ASSUME NEW i, i = E.i PROVE StreamInv'
  OBVIOUS
<1>1. Running /\ cl' = cl /\ sent' = sent /\ pipe' = pipe /\ fc = None /\ fc' = fc
  BY EventFrames DEF Served, Signalled
<1>2. i \in Indices /\ lock[i] = None /\ slot[i].type \notin Dormant
  BY SendBufferEffect DEF Streams, Connections, Dormant
<1>3. Life(i) /\ slot[i].id \in Ids /\ slot[i] \in Sockets
  BY <1>1, <1>2, SocketFields DEF LifeInv, Lives, Life, SocketType
<1>4. PICK out, u, v : Flushes(i, out, u, v)
  BY SendBufferEffect
<1>5. /\ Flushed(slot[i], u, out) /\ Others(i) /\ slot'[i] = v /\ v.id = slot[i].id
      /\ v.closing = u.closing /\ (Frees(u, v) \/ Shuts(u, v) \/ Empties(u, v) \/ Keeps(u, v))
      /\ wire' = IF out = <<>> THEN wire ELSE [wire EXCEPT ![slot[i].id] = @ \o out]
  <2>1. v.closing = u.closing
    BY <1>4 DEF Flushes, Same
  <2>2. v.id = slot[i].id
    BY <1>4 DEF Flushes, Flushed, Same
  <2> QED BY <1>4, <2>1, <2>2, Zenon DEF Flushes
<1>6. /\ out \in Seq(Pieces) /\ u.high \in Seq(Buffers) /\ u.low \in Seq(Buffers) /\ u.dw = None
      /\ u.type = slot[i].type /\ u.closing = slot[i].closing
      /\ Flat(Backlog(slot[i])) = out \o Flat(u.high \o u.low) /\ Among(u.low, slot[i].low)
  BY <1>5 DEF Flushed, Sockets
<1>7. PICK f \in Seq(Pieces) : f = Flat(u.high \o u.low)
  <2>1. u.high \o u.low \in Seq(Buffers)
    BY <1>6, ConcatFacts
  <2> QED BY <2>1, FlatType
<1>8. Queue(i) = out \o f
  BY <1>2, <1>3, <1>6, <1>7, QueueIs
<1>9. \/ Queue(i)' = <<>> /\ ~Live(i)' /\ v.low = <<>>
      \/ Queue(i)' = f /\ (Live(i)' => Live(i)) /\ v.low = u.low
  <2>1. CASE Frees(u, v)
    <3>1. v.type \in Dormant /\ v.low = <<>>
      BY <2>1 DEF Frees, Dormant
    <3> QED BY <1>5, <3>1 DEF Queue, Live, Dormant
  <2>2. CASE Shuts(u, v) \/ Empties(u, v) \/ Keeps(u, v)
    <3>1. v.high = u.high /\ v.low = u.low /\ v.dw = u.dw /\ v.type \in {u.type, "HALFCLOSE_WRITE"}
      BY <2>2 DEF Shuts, Empties, Keeps
    <3>2. v.type \notin Dormant
      BY <1>2, <1>6, <3>1 DEF Dormant
    <3>3. DwSeq(v) = <<>>
      BY <1>6, <3>1 DEF DwSeq
    <3>4. Backlog(v) = <<>> \o u.high \o u.low
      BY <3>1, <3>3 DEF Backlog
    <3>5. <<>> \o u.high = u.high
      BY <1>6
    <3>6. Queue(i)' = f
      BY <1>5, <1>7, <3>2, <3>4, <3>5 DEF Queue
    <3>7. Live(i)' => Live(i)
      BY <1>1, <1>5, <1>6, <3>1 DEF Live, Closing
    <3> QED BY <3>1, <3>6, <3>7
  <2> QED BY <1>5, <2>1, <2>2
<1>10. \A j \in Indices : Closing(j) => Closing(j)'
  BY <1>1 DEF Closing
<1>11. PICK lid \in Ids : lid = slot[i].id
  BY <1>3
<1>12. HASH_ID(lid) = i
  BY <1>3, <1>11, IdFacts DEF Life
<1>13. /\ \A id \in Ids \ {lid} : wire'[id] = wire[id]
       /\ wire'[lid] = wire[lid] \o out
  <2>1. wire[lid] \in Seq(Pieces) /\ wire \in [Ids -> Seq(Pieces)]
    BY TypeUse
  <2>2. wire[lid] = wire[lid] \o <<>>
    BY <2>1
  <2> QED BY <1>5, <1>11, <2>1, <2>2
<1>14. Shrinks(lid)
  <2>1. PICK w \in Seq(Pieces) : w = wire[lid]
    BY TypeUse
  <2>2. Line(lid) = w \o (out \o f)
    BY <1>8, <1>11, <1>12, <2>1 DEF Line, Rest
  <2>3. Line(lid)' = (w \o out) \o Queue(i)'
    BY <1>5, <1>11, <1>12, <1>13, <2>1 DEF Line, Rest
  <2>4. Sending(lid) <=> Live(i)
    BY <1>11, <1>12 DEF Sending, Live, Closing
  <2>5. Sending(lid)' <=> Live(i)'
    BY <1>5, <1>11, <1>12 DEF Sending, Live, Closing
  <2>6. w \o (out \o f) = (w \o out) \o f /\ (w \o out) \o f = ((w \o out) \o <<>>) \o f
        /\ (w \o out) \o f = ((w \o out) \o f) \o <<>> /\ <<>> \in Seq(Pieces)
    BY <1>6
  <2>7. CASE Queue(i)' = <<>> /\ ~Live(i)'
    <3>1. Line(lid) = Line(lid)' \o f
      BY <2>2, <2>3, <2>6, <2>7
    <3> QED BY <2>5, <2>7, <3>1 DEF Shrinks
  <2>8. CASE Queue(i)' = f /\ (Live(i)' => Live(i))
    <3>1. Line(lid)' = Line(lid) /\ Line(lid) = Line(lid)' \o <<>>
      BY <2>2, <2>3, <2>6, <2>8
    <3> QED BY <2>4, <2>5, <2>6, <2>8, <3>1 DEF Shrinks
  <2> QED BY <1>9, <2>7, <2>8
<1>15. ASSUME NEW id \in Ids PROVE Shrinks(id)
  <2>1. CASE id = lid
    BY <1>14, <2>1
  <2>2. CASE id # lid
    <3>1. slot'[i].id = slot[i].id /\ id # slot[i].id /\ wire'[id] = wire[id]
      BY <1>5, <1>11, <1>13, <2>2
    <3> QED BY <1>2, <1>5, <1>10, <3>1, ShrinksOthers
  <2> QED BY <2>1, <2>2
<1>16. OldParcels
  BY <1>1 DEF OldParcels, Parcels
<1>17. \A id : Delivers(id)
  BY <1>1, <1>16, SameMailThread, DeliversSame DEF SameMail
<1>18. \A id \in Ids : Ordered(id)'
  BY <1>15, <1>17, OrderedShrinks DEF StreamInv, MailInv
<1>19. \A j \in Indices : LowOnly(slot[j].low) => LowOnly(slot'[j].low)
  <2>0. \A q : LowOnly(q) /\ Among(u.low, q) => LowOnly(u.low)
    BY DEF LowOnly, Among
  <2>1. LowOnly(slot[i].low) => LowOnly(v.low)
    <3>1. v.low = <<>> => LowOnly(v.low)
      BY DEF LowOnly
    <3> QED BY <1>6, <1>9, <2>0, <3>1
  <2> QED BY <1>2, <1>5, <2>1 DEF Others
<1>20. ASSUME NEW c \in Clients, cl'[c].pc \in Holding PROVE \E m, k : Stays(c, m, k)
  <2>1. ASSUME NEW j \in Indices, j = HASH_ID(cl[c].m.to) PROVE Guards(j)
    <3>1. lock[j] = c
      BY <1>1, <1>20, <2>1 DEF MailInv, Locked
    <3>2. j # i
      BY <1>2, <3>1, NoneAssumption
    <3> QED BY <1>2, <1>5, <1>10, <3>2, GuardsOthers
  <2> QED BY <1>1, <1>16, <1>20, <2>1, StaysOld DEF OldParcels
<1> QED BY <1>18, <1>19, <1>20, StreamParts

(* send_socket puts a message behind the high buffers, or behind all.      *)
LEMMA AppendedBacklog ==
    ASSUME SocketType, NEW i \in Indices, NEW m \in Messages, NEW n \in Int, Appended(i, m, n),
           Whole(slot[i].low), LowOnly(slot[i].low), NEW b, b = [m |-> m, left |-> 2]
    PROVE  /\ \E p, q \in Seq(Buffers) :
                 /\ Backlog(slot[i]) = p \o q /\ Backlog(slot'[i]) = (p \o <<b>>) \o q
                 /\ Whole(q) /\ LowOnly(q)
           /\ (Whole(slot[i].high) => Whole(slot'[i].high)) /\ LowOnly(slot'[i].low)
<1>1. slot[i] \in Sockets
  BY SocketFields
<1>2. PICK d \in Seq(Buffers), h \in Seq(Buffers), l \in Seq(Buffers) :
         d = DwSeq(slot[i]) /\ h = slot[i].high /\ l = slot[i].low
  BY <1>1, BacklogType
<1>3. b \in Buffers /\ b.left = 2 /\ b.m = m
  BY DEF Buffers
<1>4. DwSeq(slot'[i]) = d
  BY <1>2, AppendedFields DEF DwSeq
<1>5. Backlog(slot[i]) = d \o h \o l
  BY <1>2 DEF Backlog
<1>6. d \o h \in Seq(Buffers) /\ <<b>> \in Seq(Buffers) /\ <<>> \in Seq(Buffers) /\ (d \o h) \o l \in Seq(Buffers)
  BY <1>3
<1>7. /\ m.low /\ ~send_buffer_empty(i) => slot'[i].high = h /\ slot'[i].low = Append(l, b)
      /\ ~(m.low /\ ~send_buffer_empty(i)) => slot'[i].high = Append(h, b) /\ slot'[i].low = l
  BY <1>2, AppendedFields
<1>8. \A s \in Seq(Buffers) : /\ Append(s, b) = s \o <<b>>
                              /\ Whole(s) => Whole(Append(s, b))
                              /\ LowOnly(s) /\ m.low => LowOnly(Append(s, b))
  <2> SUFFICES ASSUME NEW s \in Seq(Buffers)
               PROVE  /\ Append(s, b) = s \o <<b>>
                      /\ Whole(s) => Whole(Append(s, b))
                      /\ LowOnly(s) /\ m.low => LowOnly(Append(s, b))
    OBVIOUS
  <2>1. Append(s, b) = s \o <<b>>
    BY <1>3
  <2>2. \A j \in DOMAIN Append(s, b) : (j \in DOMAIN s /\ Append(s, b)[j] = s[j]) \/ Append(s, b)[j] = b
    BY <1>3
  <2> QED BY <1>3, <2>1, <2>2 DEF Whole, LowOnly
<1>9. CASE m.low /\ ~send_buffer_empty(i)
  <2>1. Backlog(slot'[i]) = d \o h \o (l \o <<b>>)
    BY <1>4, <1>7, <1>8, <1>9 DEF Backlog
  <2>2. d \o h \o (l \o <<b>>) = ((d \o h \o l) \o <<b>>) \o <<>> /\ d \o h \o l = (d \o h \o l) \o <<>>
    BY <1>6
  <2>3. Whole(<<>>) /\ LowOnly(<<>>)
    BY DEF Whole, LowOnly
  <2>4. PICK p \in Seq(Buffers) : p = d \o h \o l
    BY <1>6
  <2>5. Backlog(slot[i]) = p \o <<>> /\ Backlog(slot'[i]) = (p \o <<b>>) \o <<>>
    BY <1>5, <2>1, <2>2, <2>4
  <2>6. (Whole(slot[i].high) => Whole(slot'[i].high)) /\ LowOnly(slot'[i].low)
    BY <1>2, <1>7, <1>8, <1>9
  <2> QED BY <1>6, <2>3, <2>5, <2>6
<1>10. CASE ~(m.low /\ ~send_buffer_empty(i))
  <2>1. Backlog(slot'[i]) = d \o (h \o <<b>>) \o l
    BY <1>4, <1>7, <1>8, <1>10 DEF Backlog
  <2>2. d \o (h \o <<b>>) \o l = ((d \o h) \o <<b>>) \o l
    BY <1>6
  <2>4. PICK p \in Seq(Buffers) : p = d \o h
    BY <1>6
  <2>5. Backlog(slot[i]) = p \o l /\ Backlog(slot'[i]) = (p \o <<b>>) \o l
    BY <1>5, <2>1, <2>2, <2>4
  <2>6. (Whole(slot[i].high) => Whole(slot'[i].high)) /\ LowOnly(slot'[i].low)
    BY <1>2, <1>7, <1>8, <1>10
  <2> QED BY <1>2, <2>5, <2>6
<1> QED BY <1>9, <1>10

(* What waits behind a message may be overtaken, and is not cut.           *)
Behind(g) == (g = <<>> \/ g[1][2] = 1) /\ \A a \in DOMAIN g : g[a][1].low

LEMMA Joined ==
    ASSUME NEW a \in Seq(Pieces), NEW b \in Seq(Pieces), NEW c \in Seq(Pieces)
    PROVE  a \o (b \o c) = (a \o b) \o c
OBVIOUS

(* The parts of a queue with one more buffer in it.                        *)
LEMMA FlatInsert ==
    ASSUME NEW p \in Seq(Buffers), NEW q \in Seq(Buffers), Whole(q), LowOnly(q),
           NEW m \in Messages, NEW b \in Buffers, b.left = 2, b.m = m
    PROVE  /\ Flat(p) \in Seq(Pieces) /\ Flat(q) \in Seq(Pieces)
           /\ Flat(p \o q) = Flat(p) \o Flat(q) /\ Flat((p \o <<b>>) \o q) = (Flat(p) \o Two(m)) \o Flat(q)
           /\ Behind(Flat(q))
<1>1. b \in Buffers /\ b.left = 2 /\ b.m = m
  OBVIOUS
<1>2. PICK f \in Seq(Pieces), g \in Seq(Pieces) : f = Flat(p) /\ g = Flat(q)
  BY FlatType
<1>3. Flat(p \o q) = f \o g
  BY <1>2, FlatConcat
<1>4. PICK t \in Seq(Buffers) : t = <<b>>
  <2>1. <<b>> \in Seq(Buffers)
    BY <1>1
  <2> QED BY ONLY <2>1
<1>5. Flat(t) = Two(m)
  BY <1>1, <1>4, FlatOne, BufferFacts DEF Two
<1>6. PICK y \in Seq(Buffers) : y = p \o t
  BY ConcatFacts
<1>7. Flat(y) = f \o Two(m)
  BY <1>2, <1>5, <1>6, FlatConcat
<1>8. Flat(y \o q) = (f \o Two(m)) \o g
  BY <1>2, <1>7, FlatConcat
<1>9. Behind(g)
  <2>1. g = <<>> \/ g[1][2] = 1
    BY <1>2, FlatBegins
  <2>2. ASSUME NEW a \in DOMAIN g PROVE g[a][1].low
    <3>1. PICK j \in DOMAIN q : g[a][1] = q[j].m
      BY <1>2, FlatComes DEF Comes
    <3> QED BY <3>1 DEF LowOnly
  <2> QED BY <2>1, <2>2 DEF Behind
<1> QED BY <1>2, <1>3, <1>4, <1>6, <1>8, <1>9

(* A message that is dropped was sent to a socket that does not send.      *)
LEMMA RefusesFacts ==
    ASSUME NEW id, Refuses(HASH_ID(id), id)
    PROVE  ~Sending(id)
BY DEF Refuses, socket_invalid, Sending

(* A message is taken from the pipe to the lists, or dropped with a socket *)
(* that does not send.                                                     *)
LEMMA StreamPackage ==
    ASSUME SocketType, SocketType', LifeInv, MailInv, CountInv, StreamInv, SendPackage
    PROVE  StreamInv'
<1> SUFFICES ASSUME NEW id, NEW i, NEW m, id = Cmd.id, i = HASH_ID(id), m = Cmd.m PROVE StreamInv'
  OBVIOUS
<1>1. Running /\ Commanded /\ cl' = cl /\ sent' = sent /\ fc' = fc /\ fc = None /\ wire' = wire
  BY ServerFrames DEF Served, Commanded
<1>2. /\ Cmd.cmd \in Packages /\ m \in Messages /\ id \in Ids /\ i \in Indices /\ i = HASH_ID(id)
      /\ \E n \in Int : IF Refuses(i, m.to) THEN Dropped(i, n) ELSE Appended(i, m, n)
  BY SendPackageEffect, Zenon
<1>3. 1 \in Parcels /\ pipe[1].m = m /\ m.to = id
  <2>1. 1 \in DOMAIN pipe /\ Cmd = pipe[1]
    BY <1>1, CommandedFacts
  <2> QED BY <1>2, <2>1 DEF Parcels, LifeInv, Known, Addressed
<1>4. /\ m \in sent /\ OnWay(m) /\ ~OnWay(m)'
      /\ \A o : o # m => (OnWay(o)' <=> OnWay(o))
  BY <1>1, <1>2, PackageMail
<1>5. OldParcels
  BY <1>1, OldShorter DEF Shorter
<1>6. \A j \in Indices : Closing(j) => Closing(j)'
  BY <1>1 DEF Closing
<1>7. Life(i) /\ Whole(slot[i].low) /\ LowOnly(slot[i].low)
  BY <1>1, <1>2 DEF LifeInv, Lives, CountInv, Counts, StreamInv
<1>8. ASSUME NEW x \in Ids, x # id \/ ~Sending(id)' PROVE Delivers(x)
  <2>1. Settled \subseteq Settled'
    BY <1>1, <1>4 DEF Settled
  <2>2. ASSUME NEW j \in Parcels' PROVE \E k \in Parcels : pipe'[j].m = pipe[k].m
    <3>1. PICK k \in Parcels : pipe'[j] = pipe[k]
      BY <1>5 DEF OldParcels
    <3> QED BY <3>1
  <2>3. ASSUME NEW o \in sent', o.to = x PROVE OnWay(o)' \/ (o \in sent /\ ~OnWay(o)) \/ ~Sending(x)'
    BY <1>1, <1>3, <1>4, <1>8, <2>3
  <2> QED BY <2>1, <2>2, <2>3 DEF Delivers
<1>9. ASSUME NEW c \in Clients, cl'[c].pc \in Holding, \A j \in Indices : Guards(j)
      PROVE  \E o, k : Stays(c, o, k)
  BY <1>1, <1>5, <1>9, StaysOld DEF OldParcels
<1>10. ASSUME ~Sending(id)', \A j \in Indices : Moves(j) PROVE StreamInv'
  <2>1. \A x \in Ids : Delivers(x)
    BY <1>8, <1>10
  <2>2. \A j \in Indices : Guards(j)
    BY <1>10 DEF Moves
  <2> QED BY <1>1, <1>9, <1>10, <2>1, <2>2, StreamStep
<1>11. CASE Refuses(i, m.to)
  <2>1. PICK n \in Int : Tally(i, n)
    BY <1>2, <1>11 DEF Dropped
  <2>2. \A j \in Indices : Alike(j)
    BY <1>2, <2>1, TallyAlike
  <2>3. \A j \in Indices : Moves(j)
    BY <1>6, <2>2, MovesSame DEF Alike
  <2>4. ~Sending(id)
    BY <1>2, <1>3, <1>11, RefusesFacts
  <2>5. ~Sending(id)'
    BY <1>1, <1>2, <2>2, <2>4 DEF Sending, Alike
  <2> QED BY <1>10, <2>3, <2>5
<1>12. ASSUME ~Refuses(i, m.to), NEW n \in Int, Appended(i, m, n) PROVE StreamInv'
  <2>1. /\ slot[i].id = id /\ slot'[i].id = id /\ slot'[i].type = slot[i].type
        /\ slot'[i].dw = slot[i].dw /\ slot'[i].closing = slot[i].closing
        /\ Others(i)
    <3>1. slot[i].id = id
      BY <1>3, <1>12 DEF Refuses, socket_invalid
    <3>2. Others(i)
      BY <1>12 DEF Appended
    <3> QED BY <1>2, <1>12, <3>1, <3>2, AppendedFields
  <2>2. PICK b : b = [m |-> m, left |-> 2]
    OBVIOUS
  <2>3. PICK p \in Seq(Buffers), q \in Seq(Buffers) :
           /\ Backlog(slot[i]) = p \o q /\ Backlog(slot'[i]) = (p \o <<b>>) \o q
           /\ Whole(q) /\ LowOnly(q)
    <3>1. Whole(slot[i].low) /\ LowOnly(slot[i].low) /\ Appended(i, m, n) /\ i \in Indices /\ m \in Messages
      BY <1>2, <1>7, <1>12
    <3> QED BY ONLY SocketType, n \in Int, <2>2, <3>1, AppendedBacklog, Zenon
  <2>4. (Whole(slot[i].high) => Whole(slot'[i].high)) /\ LowOnly(slot'[i].low)
    <3>1. Whole(slot[i].low) /\ LowOnly(slot[i].low) /\ Appended(i, m, n) /\ i \in Indices /\ m \in Messages
      BY <1>2, <1>7, <1>12
    <3> QED BY ONLY SocketType, n \in Int, <2>2, <3>1, AppendedBacklog, Zenon
  <2>5. CASE slot[i].type \in Dormant
    <3>1. Queue(i) = <<>> /\ Queue(i)' = <<>> /\ ~Live(i)'
      BY <2>1, <2>5 DEF Queue, Live, Dormant
    <3>2. <<>> \in Seq(Pieces) /\ <<>> = <<>> \o <<>>
      OBVIOUS
    <3>3. Moves(i)
      <4>1. PICK v \in Seq(Pieces) : v = <<>> /\ v = v \o v
        BY <3>2
      <4> QED BY <1>2, <2>1, <2>4, <3>1, <4>1, MovesPart
    <3>4. \A j \in Indices : Moves(j)
      BY <1>2, <1>6, <2>1, <3>3, MovesEach
    <3>5. ~Sending(id)'
      BY <1>2, <2>1, <2>5 DEF Sending, Dormant
    <3> QED BY <1>10, <3>4, <3>5
  <2>6. CASE slot[i].type \notin Dormant
    <3>1. PICK f \in Seq(Pieces), g \in Seq(Pieces) :
             /\ Queue(i) = f \o g /\ Queue(i)' = (f \o Two(m)) \o g /\ Behind(g)
      <4>1. Queue(i) = Flat(Backlog(slot[i])) /\ Queue(i)' = Flat(Backlog(slot'[i]))
        BY <2>1, <2>6 DEF Queue
      <4>2. m \in Messages /\ Whole(q) /\ LowOnly(q) /\ b \in Buffers /\ b.left = 2 /\ b.m = m
        BY <1>2, <2>2, <2>3 DEF Buffers
      <4>3. /\ Flat(p) \in Seq(Pieces) /\ Flat(q) \in Seq(Pieces)
            /\ Flat(p \o q) = Flat(p) \o Flat(q) /\ Flat((p \o <<b>>) \o q) = (Flat(p) \o Two(m)) \o Flat(q)
            /\ Behind(Flat(q))
        BY ONLY p \in Seq(Buffers), q \in Seq(Buffers), <4>2, FlatInsert, Zenon
      <4>4. PICK f \in Seq(Pieces), g \in Seq(Pieces) : f = Flat(p) /\ g = Flat(q)
        BY <4>3
      <4>5. /\ Queue(i) = f \o g /\ Queue(i)' = (f \o Two(m)) \o g /\ Behind(g)
        BY ONLY <2>3, <4>1, <4>3, <4>4
      <4> QED BY <4>5
    <3>2. PICK w \in Seq(Pieces) : w = wire[id]
      BY <1>2, TypeUse
    <3>3. Line(id) = w \o (f \o g) /\ Line(id)' = w \o ((f \o Two(m)) \o g)
      BY <1>1, <1>2, <2>1, <3>1, <3>2 DEF Line, Rest
    <3>4. PICK t \in Seq(Pieces) : t = Two(m)
      <4>1. <<m, 1>> \in Pieces /\ <<m, 2>> \in Pieces
        BY <1>2 DEF Pieces
      <4>2. Two(m) \in Seq(Pieces)
        BY ONLY <4>1 DEF Two
      <4> QED BY ONLY <4>2
    <3>5. PICK v \in Seq(Pieces) : v = w \o f
      BY ConcatFacts
    <3>6. w \o (f \o g) = v \o g /\ w \o ((f \o t) \o g) = (v \o t) \o g
      <4>1. w \o (f \o g) = (w \o f) \o g
        BY ONLY w \in Seq(Pieces), f \in Seq(Pieces), g \in Seq(Pieces), Joined, ZenonT(90)
      <4>2. w \o (f \o t) = (w \o f) \o t
        BY ONLY w \in Seq(Pieces), f \in Seq(Pieces), t \in Seq(Pieces), Joined, ZenonT(90)
      <4>3. PICK y \in Seq(Pieces) : y = f \o t
        BY ConcatFacts
      <4>4. w \o (y \o g) = (w \o y) \o g
        BY ONLY w \in Seq(Pieces), y \in Seq(Pieces), g \in Seq(Pieces), Joined, ZenonT(90)
      <4> QED BY ONLY <3>5, <4>1, <4>2, <4>3, <4>4
    <3>7. Line(id) = v \o g /\ Line(id)' = (v \o Two(m)) \o g
      BY ONLY <3>3, <3>4, <3>6
    <3>8. Ordered(id)
      BY <1>2 DEF StreamInv
    <3>9. ASSUME NEW a \in DOMAIN v, Ranked(v[a][1], m) PROVE v[a][1].n <= m.n
      <4>1. a \in DOMAIN (v \o g) /\ (v \o g)[a] = v[a]
        BY ConcatFacts
      <4>2. v[a][1].n < m.n
        BY <1>3, <3>7, <3>8, <3>9, <4>1 DEF Ordered, Later
      <4>3. v[a][1].n \in Int /\ m.n \in Int
        BY <1>2, MessageFacts, PiecesOf
      <4> QED BY ONLY <4>2, <4>3
    <3>10. \A a \in DOMAIN g : ~Ranked(m, g[a][1])
      BY <3>1 DEF Behind, Ranked
    <3>11. g = <<>> \/ g[1][2] = 1
      BY <3>1 DEF Behind
    <3>12. ASSUME NEW j \in Parcels, Ranked(m, pipe[j].m), pipe[j].m # m PROVE m.n < pipe[j].m.n
      <4>1. j \in Nat /\ j >= 1 /\ j # 1
        <5>1. pipe \in Seq(Commands) /\ j \in DOMAIN pipe
          BY <3>12 DEF Parcels, SocketType
        <5>2. j \in Nat /\ j >= 1
          BY ONLY <5>1
        <5> QED BY <1>3, <3>12, <5>2
      <4>2. 1 < j
        BY <4>1
      <4> QED BY <1>3, <3>12, <4>2 DEF MailInv, Queued, Ranked
    <3>13. \A j \in Parcels' : pipe'[j].m # m
      BY <1>4 DEF OnWay
    <3>14. Sending(id)' => Sending(id)
      BY <1>1, <1>2, <2>1 DEF Sending
    <3>15. Ordered(id)'
      BY <1>1, <1>2, <1>3, <1>4, <1>5, <3>7, <3>8, <3>9, <3>10, <3>11, <3>12, <3>13, <3>14, OrderedInsert
    <3>16. ASSUME NEW x \in Ids, x # id PROVE Ordered(x)'
      <4>1. wire'[x] = wire[x] /\ x # slot[i].id /\ slot'[i].id = slot[i].id
        BY <1>1, <2>1, <3>16
      <4>2. Shrinks(x)
        BY <1>2, <1>6, <2>1, <4>1, ShrinksOthers
      <4>3. Ordered(x) /\ Delivers(x)
        BY <1>8, <3>16 DEF StreamInv
      <4> QED BY <4>2, <4>3, OrderedShrinks DEF MailInv
    <3>17. Guards(i)
      <4>1. PICK u \in Seq(Pieces), y \in Seq(Pieces) :
               u = Queue(i) /\ y = Queue(i)' /\ Widened(u, y, Len(f), m)
        BY <1>2, <3>1, WidenedConcat, ConcatFacts
      <4>2. ASSUME NEW a \in DOMAIN y PROVE (\E c \in DOMAIN u : y[a] = u[c]) \/ y[a][1] = m
        <5>1. y[Len(f) + 1][1] = m /\ y[Len(f) + 2][1] = m
          BY <4>1 DEF Widened
        <5>2. \/ a = Len(f) + 1 \/ a = Len(f) + 2
              \/ \E c \in DOMAIN u : Origin(u, Len(f), a, c) /\ y[a] = u[c]
          <6>1. Widened(u, y, Len(f), m) /\ a \in DOMAIN y
            BY <4>1
          <6>2. PICK k : k = Len(f)
            OBVIOUS
          <6>3. Widened(u, y, k, m) /\ a \in DOMAIN y
            BY <6>1, <6>2
          <6>4. a = k + 1 \/ a = k + 2 \/ \E c \in DOMAIN u : Origin(u, k, a, c) /\ y[a] = u[c]
            BY ONLY <6>3, WidenedFrom
          <6> QED BY <6>2, <6>4
        <5> QED BY <5>1, <5>2
      <4> QED BY <1>3, <2>1, <2>4, <4>1, <4>2 DEF Guards
    <3>18. \A j \in Indices : Guards(j)
      BY <1>2, <1>6, <2>1, <3>17, GuardsOthers
    <3>19. \A j \in Indices : LowOnly(slot[j].low) => LowOnly(slot'[j].low)
      BY <2>1, <2>4 DEF Others
    <3> QED BY <1>9, <3>15, <3>16, <3>18, <3>19, StreamParts
  <2> QED BY <2>5, <2>6
<1> QED BY <1>2, <1>11, <1>12

-----------------------------------------------------------------------------
(* The calls of services.                                                  *)

(* A call of service c that writes nothing.                                *)
LEMMA StreamCall ==
    ASSUME SocketType, SocketType', MailInv, StreamInv, NEW c \in Clients,
           \A d \in Clients \ {c} : cl'[d] = cl[d],
           \A j \in Parcels' : (\E k \in Parcels : pipe'[j] = pipe[k]) \/ pipe'[j].m.by = c,
           \A id \in Ids : Delivers(id), wire' = wire, \A i \in Indices : Moves(i),
           cl'[c].pc \in Holding => Alone(c)' \/ \E m, i : Stays(c, m, i)
    PROVE  StreamInv'
<1>1. ASSUME NEW d \in Clients, cl'[d].pc \in Holding PROVE Alone(d)' \/ \E m, i : Stays(d, m, i)
  <2>1. CASE d # c
    <3>1. cl'[d] = cl[d] /\ cl[d].pc \in Holding
      BY <1>1, <2>1
    <3>2. \A j \in Parcels' : (\E k \in Parcels : pipe'[j] = pipe[k]) \/ pipe'[j].m.by # d
      BY <2>1
    <3>3. \A i \in Indices : Guards(i)
      BY DEF Moves
    <3> QED BY <3>1, <3>2, <3>3, StaysOld
  <2> QED BY <1>1, <2>1
<1> QED BY <1>1, StreamStep

(* A call that changes nothing of what is on its way.                      *)
LEMMA StreamQuiet ==
    ASSUME SocketType, SocketType', MailInv, StreamInv, NEW c \in Clients,
           \A d \in Clients \ {c} : cl'[d] = cl[d], sent' = sent, \A m : OnWay(m)' <=> OnWay(m),
           pipe' = pipe \/ \E y \in Commands : y.cmd \notin Packages /\ pipe' = Append(pipe, y),
           wire' = wire, \A i \in Indices : Moves(i),
           cl'[c].pc \in Holding => \E m, i : Stays(c, m, i)
    PROVE  StreamInv'
<1>1. Parcels' = Parcels /\ \A j \in Parcels : pipe'[j] = pipe[j]
  <2>1. CASE pipe' = pipe
    BY <2>1 DEF Parcels
  <2>2. ASSUME NEW y \in Commands, y.cmd \notin Packages, pipe' = Append(pipe, y)
        PROVE  Parcels' = Parcels /\ \A j \in Parcels : pipe'[j] = pipe[j]
    BY <2>2, AppendParcels
  <2> QED BY <2>1, <2>2
<1>2. OldParcels
  BY <1>1 DEF OldParcels
<1>3. \A id \in Ids : Delivers(id)
  BY <1>2, DeliversSame
<1> QED BY <1>2, <1>3, StreamCall DEF OldParcels

(* socket_server_connect, socket_server_listen and the requests, the second *)
(* check of a direct write and its wake-up.                                *)
LEMMA StreamCalls ==
    ASSUME SocketType, SocketType', LifeInv, MailInv, StreamInv, NEW c \in Clients,
           \/ Open(c) \/ OpenFull(c) \/ Publish(c) \/ Request(c) \/ DoubleCheck(c) \/ Wake(c)
    PROVE  StreamInv'
<1>1. Running /\ wire' = wire /\ fc' = fc /\ opened' = opened
  BY ClientFrames
<1>2. /\ pipe' = pipe \/ \E y \in Commands : y.cmd \notin Packages /\ pipe' = Append(pipe, y)
      /\ sent' = sent /\ \A m : OnWay(m)' <=> OnWay(m)
  BY CallsMail DEF SameMail
<1>3. \A j \in Indices : Closing(j) => Closing(j)'
  BY <1>1 DEF Closing
<1>4. ASSUME NEW x \in Callers, cl' = [cl EXCEPT ![c] = x], \A i \in Indices : Moves(i),
             x.pc \in Holding => \E m, i : Stays(c, m, i)
      PROVE  StreamInv'
  <2>1. cl'[c] = x /\ \A d \in Clients \ {c} : cl'[d] = cl[d]
    BY <1>4, ClientPut
  <2> QED BY <1>1, <1>2, <1>4, <2>1, StreamQuiet
<1>5. CASE OpenFull(c) \/ Request(c)
  <2>1. cl' = cl /\ UNCHANGED slot
    BY <1>5, ClientFrames
  <2>2. \A i \in Indices : Moves(i)
    BY <1>3, <2>1, MovesAll
  <2>3. cl[c].pc \notin Holding
    BY <1>5 DEF OpenFull, Request, At, Holding
  <2> QED BY <1>1, <1>2, <2>1, <2>2, <2>3, StreamQuiet
<1>6. CASE Open(c)
  <2> SUFFICES ASSUME NEW i, NEW x, i = HASH_ID(allocId'), x = [pc |-> "reserved", id |-> allocId'] PROVE StreamInv'
    OBVIOUS
  <2>1. /\ i \in Indices /\ Calm(i) /\ slot'[i].type = "RESERVE" /\ slot'[i].closing = slot[i].closing
        /\ x \in Callers /\ x.pc = "reserved" /\ cl' = [cl EXCEPT ![c] = x]
    BY <1>6, OpenEffect, CallerTypes
  <2>2. PICK t, b, w : t = "RESERVE" /\ b = slot[i].closing /\ w = slot'[i].writing /\ ModeStep(i, t, b, w)
    BY <2>1 DEF ModeStep
  <2>3. Life(i)
    BY <1>1, <2>1 DEF LifeInv, Lives
  <2>4. Moves(i)
    BY <1>1, <2>1, <2>2, <2>3, MovesMode
  <2>5. \A j \in Indices : Moves(j)
    BY <1>3, <2>1, <2>4, MovesEach DEF Calm
  <2> QED BY <1>4, <2>1, <2>5 DEF Holding
<1>7. CASE Publish(c)
  <2> SUFFICES ASSUME NEW id, NEW x, id = cl[c].id, x = [pc |-> "idle"] PROVE StreamInv'
    OBVIOUS
  <2>1. /\ cl[c].pc = "reserved" /\ id \in Ids /\ slot' = Claimed(slot, id)
        /\ x \in Callers /\ x.pc = "idle" /\ cl' = [cl EXCEPT ![c] = x]
    BY <1>7, PublishEffect, CallerTypes
  <2>2. slot[HASH_ID(id)].type = "RESERVE" /\ id \notin held
    BY <1>1, <2>1 DEF LifeInv, Booked, Reserves
  <2>3. id \notin opened /\ slot[HASH_ID(id)].type \in Dormant
    BY <2>2 DEF LifeInv, Known, Dormant
  <2>4. HASH_ID(id) \in Indices /\ Others(HASH_ID(id)) /\ Moves(HASH_ID(id))
    BY <2>1, <2>3, MovesClaimed
  <2>5. \A j \in Indices : Moves(j)
    BY <1>3, <2>4, MovesEach
  <2> QED BY <1>4, <2>1, <2>5 DEF Holding
<1>8. CASE Wake(c)
  <2> SUFFICES ASSUME NEW x, x = [pc |-> "idle"] PROVE StreamInv'
    OBVIOUS
  <2>1. x \in Callers /\ x.pc = "idle" /\ cl' = [cl EXCEPT ![c] = x] /\ UNCHANGED slot
    BY <1>8, WakeEffect, CallerTypes, ClientFrames
  <2>2. \A i \in Indices : Moves(i)
    BY <1>3, <2>1, MovesAll
  <2> QED BY <1>4, <2>1, <2>2 DEF Holding
<1>9. CASE DoubleCheck(c)
  <2> SUFFICES ASSUME NEW m, NEW i, m = cl[c].m, i = HASH_ID(m.to) PROVE StreamInv'
    OBVIOUS
  <2>1. /\ cl[c].pc = "locked" /\ m \in Messages /\ i \in Indices /\ UNCHANGED slot
        /\ \/ NothingQueued(i) /\ cl' = [cl EXCEPT ![c] = [pc |-> "checked", m |-> m]]
           \/ cl' = [cl EXCEPT ![c] = [pc |-> "inc", m |-> m]]
    BY <1>9, DoubleCheckEffect, ClientFrames
  <2>2. \A j \in Indices : Moves(j)
    BY <1>3, <2>1, MovesAll
  <2>3. PICK p \in {"checked", "inc"} : /\ cl' = [cl EXCEPT ![c] = [pc |-> p, m |-> m]]
                                        /\ p = "checked" => NothingQueued(i)
    BY <2>1
  <2> SUFFICES ASSUME NEW x, x = [pc |-> p, m |-> m] PROVE StreamInv'
    OBVIOUS
  <2>4. x \in Callers /\ x.pc = p /\ x.m = m /\ cl' = [cl EXCEPT ![c] = x] /\ p \in Busy
    BY <2>1, <2>3, CallerTypes DEF Busy
  <2>5. cl'[c] = x
    BY <2>4, ClientPut
  <2>6. ASSUME x.pc \in Holding PROVE \E o, k : Stays(c, o, k)
    <3>1. NothingQueued(i) /\ cl[c].pc \in Holding
      BY <2>1, <2>3, <2>4, <2>6 DEF Holding
    <3>2. slot'[i].high = <<>> /\ slot'[i].dw = None
      BY <2>1, <3>1 DEF NothingQueued, send_buffer_empty
    <3>3. ASSUME NEW j \in Parcels' PROVE \E k \in Parcels : pipe'[j].m = pipe[k].m
      <4>1. pipe' = pipe
        BY <1>9, ClientFrames
      <4>2. j \in Parcels /\ pipe'[j] = pipe[j]
        BY <3>3, <4>1 DEF Parcels
      <4> QED BY <4>2
    <3>4. cl'[c].m = m /\ Guards(i)
      BY <2>1, <2>2, <2>4, <2>5 DEF Moves
    <3> QED BY <3>1, <3>2, <3>3, <3>4 DEF Stays
  <2> QED BY <1>4, <2>2, <2>4, <2>6
<1> QED BY <1>5, <1>6, <1>7, <1>8, <1>9

(* inc_sending_ref.                                                        *)
LEMMA StreamInc ==
    ASSUME SocketType, SocketType', LifeInv, MailInv, StreamInv, NEW c \in Clients, inc_sending_ref(c)
    PROVE  StreamInv'
<1> SUFFICES ASSUME NEW m, NEW i, m = cl[c].m, i = HASH_ID(m.to) PROVE StreamInv'
  OBVIOUS
<1> SUFFICES ASSUME NEW n, n = IF Counting(m.to) THEN slot[i].sending + 1 ELSE slot[i].sending PROVE StreamInv'
  OBVIOUS
<1>1. UNCHANGED <<pipe, fc, sent, wire>>
  BY ClientFrames
<1>2. /\ cl[c].pc = "inc" /\ m \in Messages /\ i \in Indices /\ Tally(i, n)
      /\ cl' = [cl EXCEPT ![c] = [pc |-> "push", m |-> m]]
  BY IncEffect
<1>3. cl'[c].pc = "push" /\ cl'[c].m = m /\ \A d \in Clients \ {c} : cl'[d] = cl[d]
  <2> SUFFICES ASSUME NEW x, x = [pc |-> "push", m |-> m]
               PROVE  cl'[c].pc = "push" /\ cl'[c].m = m /\ \A d \in Clients \ {c} : cl'[d] = cl[d]
    OBVIOUS
  <2>1. x \in Callers /\ x.pc = "push" /\ x.m = m /\ cl' = [cl EXCEPT ![c] = x]
    BY <1>2, CallerTypes DEF Busy
  <2> QED BY <2>1, ClientPut
<1>4. "push" \in Busy /\ "inc" \in Busy /\ "push" \notin Holding
  BY DEF Busy, Holding
<1>5. \A o : Elsewhere(c, o)' <=> Elsewhere(c, o)
  BY <1>1, <1>3, ElsewhereSame
<1>6. \A o : OnWay(o)' <=> OnWay(o)
  BY <1>2, <1>3, <1>4, <1>5, WayParts, WayPartsNext
<1>7. n \in Int
  BY <1>2, SocketFields
<1>8. ASSUME NEW j \in Indices PROVE Moves(j)
  <2>1. Alike(j)
    BY <1>2, <1>7, TallyAlike
  <2>2. Closing(j) => Closing(j)'
    BY <1>1 DEF Closing
  <2> QED BY <2>1, <2>2, MovesSame DEF Alike
<1> QED BY <1>1, <1>3, <1>4, <1>6, <1>8, StreamQuiet

(* A command is behind all that its service has sent before.               *)
LEMMA StreamPush ==
    ASSUME SocketType, SocketType', MailInv, StreamInv, NEW c \in Clients, SendCommand(c)
    PROVE  StreamInv'
<1>1. UNCHANGED <<slot, fc, sent, wire>>
  BY ClientFrames
<1>2. PICK cmd \in Packages :
              LET m == cl[c].m
                  x == [cmd |-> cmd, id |-> m.to, m |-> m]
              IN  /\ cl[c].pc = "push" /\ m \in Messages /\ m.to \in Ids /\ x \in Commands
                  /\ pipe' = Append(pipe, x) /\ cl' = [cl EXCEPT ![c] = [pc |-> "idle"]]
  BY SendCommandEffect
<1> SUFFICES ASSUME NEW m, NEW x, m = cl[c].m, x = [cmd |-> cmd, id |-> m.to, m |-> m] PROVE StreamInv'
  OBVIOUS
<1>3. x \in Commands /\ x.cmd \in Packages /\ x.m = m /\ cl[c].pc = "push" /\ pipe' = Append(pipe, x)
  BY <1>2
<1>4. cl'[c].pc = "idle" /\ \A d \in Clients \ {c} : cl'[d] = cl[d]
  BY <1>2, ClientPut, CallerTypes
<1>5. /\ Parcels' = Parcels \cup {Len(pipe) + 1} /\ pipe'[Len(pipe) + 1].m = m
      /\ \A j \in Parcels : pipe'[j] = pipe[j]
  BY <1>3, PipeAppend DEF Parcels
<1>6. "push" \in Busy /\ "idle" \notin Busy /\ "idle" \notin Holding
  BY DEF Busy, Holding
<1>7. ASSUME NEW o PROVE OnWay(o)' <=> OnWay(o)
  <2>1. Elsewhere(c, o)' <=> Elsewhere(c, o) \/ o = m
    BY <1>4, <1>5 DEF Elsewhere
  <2> QED BY <1>3, <1>4, <1>6, <2>1, WayParts, WayPartsNext
<1>8. m \in sent /\ m.by = c /\ OnWay(m) /\ \A o \in sent : o.by = c => o.n <= m.n
  <2>1. m \in sent /\ m.by = c /\ \A o \in sent : o.by = c => o.n <= m.n
    BY <1>3, <1>6 DEF MailInv, Carried
  <2>2. OnWay(m)
    BY <1>3, <1>6 DEF OnWay
  <2> QED BY <2>1, <2>2
<1>9. Earlier(m)
  <2>1. ASSUME NEW o \in Settled, o.by = m.by PROVE o.n < m.n
    <3>1. o \in sent /\ o # m /\ o.n <= m.n
      BY <1>8, <2>1 DEF Settled
    <3>2. o.n # m.n
      BY <1>8, <3>1 DEF MailInv, Numbered
    <3>3. o.n \in Int /\ m.n \in Int
      BY <1>8, <3>1, MessageFacts DEF SocketType
    <3> QED BY ONLY <3>1, <3>2, <3>3
  <2> QED BY <2>1 DEF Earlier
<1>10. ASSUME NEW id \in Ids PROVE Delivers(id)
  <2>1. Settled \subseteq Settled'
    BY <1>1, <1>7 DEF Settled
  <2>2. ASSUME NEW j \in Parcels' PROVE (\E k \in Parcels : pipe'[j].m = pipe[k].m) \/ Earlier(pipe'[j].m)
    <3>1. CASE j \in Parcels
      <4>1. pipe'[j].m = pipe[j].m
        BY <1>5, <3>1
      <4> QED BY <3>1, <4>1
    <3>2. CASE j = Len(pipe) + 1
      <4>1. pipe'[j].m = m
        BY <1>5, <3>2
      <4> QED BY <1>9, <4>1
    <3> QED BY <1>5, <2>2, <3>1, <3>2
  <2>3. \A o \in sent' : OnWay(o)' \/ (o \in sent /\ ~OnWay(o))
    BY <1>1, <1>7
  <2> QED BY <2>1, <2>2, <2>3 DEF Delivers
<1>11. \A j \in Parcels' : (\E k \in Parcels : pipe'[j] = pipe[k]) \/ pipe'[j].m.by = c
  BY <1>5, <1>8
<1>12. \A j \in Indices : Moves(j)
  BY <1>1, MovesAll DEF Closing
<1> QED BY <1>1, <1>4, <1>6, <1>10, <1>11, <1>12, StreamCall

(* A service that goes to write directly finds nothing of anybody queued,  *)
(* and no command with a message to the socket under way.                  *)
LEMMA StreamSend ==
    ASSUME SocketType, SocketType', LifeInv, MailInv, CountInv, StreamInv, NEW c \in Clients, Send(c)
    PROVE  StreamInv'
<1>0. opened \subseteq held /\ Numbered /\ Queued /\ \A d \in Clients : Carried(d)
  BY DEF LifeInv, Known, MailInv
<1>1. Running /\ UNCHANGED <<slot, pipe, fc, wire>>
  BY ClientFrames
<1>2. PICK m, x : /\ m \in Messages /\ m \notin sent /\ sent' = sent \cup {m}
                  /\ m.by = c /\ m.to \in opened /\ m.n = Cardinality(sent) + 1
                  /\ Cardinality(sent) \in Nat /\ Cardinality(sent') = Cardinality(sent) + 1
                  /\ cl[c].pc = "idle" /\ x \in Callers /\ x.pc \in {"locked", "inc"} /\ x.m = m
                  /\ cl' = [cl EXCEPT ![c] = x] /\ ~socket_invalid(HASH_ID(m.to), m.to)
                  /\ x.pc = "inc" => lock' = lock
                  /\ x.pc = "locked" => /\ lock[HASH_ID(m.to)] = None /\ lock' = [lock EXCEPT ![HASH_ID(m.to)] = c]
                                        /\ can_direct_write(HASH_ID(m.to), m.to)
  BY <1>0, SendFacts
<1>3. cl'[c] = x /\ (\A d \in Clients \ {c} : cl'[d] = cl[d]) /\ cl[c].pc \notin Busy /\ x.pc \in Busy
  BY <1>2, ClientPut DEF Busy
<1>4. \A o : Elsewhere(c, o)' <=> Elsewhere(c, o)
  BY <1>1, <1>3, ElsewhereSame
<1>5. OnWay(m)' /\ \A o : o # m => (OnWay(o)' <=> OnWay(o))
  BY <1>2, <1>3, <1>4, WayParts, WayPartsNext
<1>6. OldParcels
  BY <1>1 DEF OldParcels, Parcels
<1>7. ASSUME NEW id \in Ids PROVE Delivers(id)
  <2>1. Settled \subseteq Settled'
    BY <1>2, <1>5 DEF Settled
  <2>2. \A j \in Parcels' : \E k \in Parcels : pipe'[j].m = pipe[k].m
    BY <1>1 DEF Parcels
  <2>3. \A o \in sent' : OnWay(o)' \/ (o \in sent /\ ~OnWay(o))
    BY <1>2, <1>5
  <2> QED BY <2>1, <2>2, <2>3 DEF Delivers
<1>8. \A j \in Indices : Moves(j)
  BY <1>1, MovesAll DEF Closing
<1>9. ASSUME cl'[c].pc \in Holding PROVE Alone(c)'
  <2> SUFFICES ASSUME NEW i, i = HASH_ID(m.to) PROVE Alone(c)'
    OBVIOUS
  <2>1. cl'[c].pc = "locked" /\ cl'[c].m = m /\ can_direct_write(i, m.to)
    BY <1>2, <1>3, <1>9 DEF Holding
  <2>2. i \in Indices /\ m.to \in Ids
    BY <1>2, MessageFacts, IdFacts
  <2>3. /\ slot[i].high = <<>> /\ slot[i].low = <<>> /\ slot[i].dw = None /\ slot[i].sending = 0
        /\ slot[i].id = m.to /\ slot[i].type = "CONNECTED"
    BY <2>1 DEF can_direct_write, NothingQueued, ReadyToWrite, send_buffer_empty
  <2>4. slot[i].tcp /\ slot[i].sending = Cardinality(InFlight(m.to))
    <3>1. Life(i) /\ Counts(i)
      BY <1>1, <2>2 DEF LifeInv, Lives, CountInv
    <3>2. slot[i].tcp
      BY <2>3, <3>1 DEF Life, Dormant
    <3> QED BY <1>1, <2>3, <3>1, <3>2 DEF Counts
  <2>5. InFlight(m.to) = {}
    <3>1. IsFiniteSet(InFlight(m.to)) /\ Cardinality(InFlight(m.to)) = 0
      BY <2>3, <2>4, MailSets
    <3> QED BY <3>1, FS_EmptySet
  <2>6. ASSUME NEW j \in Parcels PROVE pipe[j].m.to # m.to
    BY <1>0, <2>5, <2>6 DEF InFlight, Pushed, Queued
  <2>7. Queue(i) = <<>>
    <3>1. slot[i] \in Sockets
      BY <2>2, SocketFields
    <3>2. DwSeq(slot[i]) = <<>>
      BY <2>3 DEF DwSeq
    <3>3. Backlog(slot[i]) = <<>>
      BY <2>3, <3>2 DEF Backlog
    <3>4. Flat(<<>>) = <<>>
      BY FlatEmpty
    <3> QED BY <3>3, <3>4 DEF Queue
  <2>8. Queue(i)' = <<>> /\ Parcels' = Parcels
    BY <1>1, <2>7 DEF Queue, Parcels
  <2>9. DOMAIN Queue(i)' = {}
    BY <2>8
  <2> QED BY <1>1, <2>1, <2>6, <2>8, <2>9 DEF Alone
<1> QED BY <1>1, <1>3, <1>6, <1>7, <1>8, <1>9, StreamCall DEF OldParcels

LEMMA WholeConcat ==
    ASSUME NEW h \in Seq(Buffers), NEW l \in Seq(Buffers), Whole(h), Whole(l)
    PROVE  h \o l \in Seq(Buffers) /\ Whole(h \o l) /\ <<>> \o h = h
<1>1. /\ h \o l \in Seq(Buffers) /\ Len(h) \in Nat /\ Len(l) \in Nat
      /\ DOMAIN (h \o l) = 1 .. Len(h) + Len(l)
      /\ DOMAIN h = 1 .. Len(h) /\ DOMAIN l = 1 .. Len(l)
      /\ \A a \in 1 .. Len(h) : (h \o l)[a] = h[a]
      /\ \A a \in 1 .. Len(l) : (h \o l)[Len(h) + a] = l[a]
  BY ConcatFacts
<1>2. ASSUME NEW a \in DOMAIN (h \o l) PROVE (h \o l)[a].left = 2
  <2>1. CASE a \in 1 .. Len(h)
    BY <1>1, <2>1 DEF Whole
  <2>2. CASE a \in Len(h) + 1 .. Len(h) + Len(l)
    <3> DEFINE b == a - Len(h)
    <3>1. b \in 1 .. Len(l) /\ Len(h) + b = a
      BY ONLY <1>1, <2>2
    <3> HIDE DEF b
    <3> QED BY <1>1, <3>1 DEF Whole
  <2> QED BY <1>1, <1>2, <2>1, <2>2
<1>3. <<>> \o h = h
  OBVIOUS
<1> QED BY <1>1, <1>2, <1>3 DEF Whole

(* A direct write puts the message behind what the connection has, and     *)
(* before what waits: nothing of that is its service's, and none has begun.*)
LEMMA StreamWritten ==
    ASSUME SocketType, SocketType', MailInv, CountInv, StreamInv, NEW c \in Clients, cl[c].pc = "checked",
           NEW m, m = cl[c].m, NEW i, i = HASH_ID(m.to), ReadyToWrite(i, m.to),
           NEW x \in Callers, x.pc \in {"idle", "wake"}, cl' = [cl EXCEPT ![c] = x],
           pipe' = pipe, sent' = sent, fc' = fc, Others(i),
           slot'[i].id = slot[i].id, slot'[i].type = slot[i].type, slot'[i].closing = slot[i].closing,
           slot'[i].low = slot[i].low,
           \A d \in Ids \ {m.to} : wire'[d] = wire[d],
           wire'[m.to] \o Queue(i)' = (wire[m.to] \o Two(m)) \o Queue(i)
    PROVE  StreamInv'
<1>1. cl'[c] = x /\ (\A d \in Clients \ {c} : cl'[d] = cl[d]) /\ x.pc \notin Busy /\ x.pc \notin Holding
  BY ClientPut DEF Busy, Holding
<1>2. "checked" \in Busy /\ "checked" \in Holding
  BY DEF Busy, Holding
<1>3. m \in sent /\ m \in Messages /\ m.by = c /\ ~Elsewhere(c, m)
  BY <1>2, NotElsewhere DEF SocketType
<1>4. OnWay(m) /\ ~OnWay(m)' /\ \A o : o # m => (OnWay(o)' <=> OnWay(o))
  <2>1. \A o : Elsewhere(c, o)' <=> Elsewhere(c, o)
    BY <1>1, ElsewhereSame
  <2> QED BY <1>1, <1>2, <1>3, <2>1, WayParts, WayPartsNext
<1>5. PICK id \in Ids : id = m.to /\ i = HASH_ID(id) /\ i \in Indices
  BY <1>3, MessageFacts, IdFacts
<1>6. slot[i].id = id /\ slot[i].type = "CONNECTED" /\ slot[i] \in Sockets /\ lock[i] = c
  BY <1>2, <1>5, SocketFields DEF ReadyToWrite, MailInv, Locked
<1>7. /\ \A a \in DOMAIN Queue(i) : Queue(i)[a][1].by # c
      /\ \A j \in Parcels : pipe[j].m.to = id => pipe[j].m.by # c
      /\ Whole(slot[i].high) /\ slot[i].dw = None
  <2>1. Alone(c)
    BY DEF StreamInv
  <2>2. cl[c].pc \in Holding /\ cl[c].pc = "checked" /\ cl[c].m = m /\ id = m.to /\ i = HASH_ID(m.to)
        /\ slot[i].id = m.to
    BY <1>2, <1>5, <1>6
  <2> QED BY ONLY <2>1, <2>2, Zenon DEF Alone
<1>8. OldParcels
  BY DEF OldParcels, Parcels
<1>9. \A j \in Indices : Closing(j) => Closing(j)'
  BY DEF Closing
<1>10. PICK v \in Seq(Pieces), w \in Seq(Pieces) : v = wire[id] /\ w = Queue(i)
  BY <1>5, TypeUse, QueueType
<1>11. Line(id) = v \o w /\ Line(id)' = (v \o Two(m)) \o w
  BY <1>5, <1>6, <1>10 DEF Line, Rest
<1>12. Ordered(id) /\ (Sending(id)' => Sending(id))
  BY <1>5 DEF StreamInv, Sending
<1>13. ASSUME NEW a \in DOMAIN v, Ranked(v[a][1], m) PROVE v[a][1].n <= m.n
  <2>1. a \in DOMAIN (v \o w) /\ (v \o w)[a] = v[a]
    BY ONLY <1>10, <1>13, ConcatFacts
  <2>2. v[a][1] \in sent /\ v[a][1].by = c
    BY <1>3, <1>11, <1>12, <1>13, <2>1 DEF Ordered, Owned, Settled, Ranked
  <2> QED BY <1>2, <2>2 DEF MailInv, Carried
<1>14. \A a \in DOMAIN w : ~Ranked(m, w[a][1])
  BY <1>3, <1>7, <1>10 DEF Ranked
<1>15. w = <<>> \/ w[1][2] = 1
  <2>1. PICK h \in Seq(Buffers), l \in Seq(Buffers) : h = slot[i].high /\ l = slot[i].low
    BY <1>6, BacklogType
  <2>2. Whole(h) /\ Whole(l)
    BY <1>5, <1>7, <2>1 DEF CountInv, Counts
  <2>3. h \o l \in Seq(Buffers) /\ Whole(h \o l) /\ <<>> \o h = h
    BY <2>2, WholeConcat
  <2>4. DwSeq(slot[i]) = <<>>
    BY <1>7 DEF DwSeq
  <2>5. w = Flat(h \o l)
    <3>1. Backlog(slot[i]) = h \o l
      BY <2>1, <2>3, <2>4 DEF Backlog
    <3> QED BY <1>6, <1>10, <3>1 DEF Queue, Dormant
  <2> QED BY <2>3, <2>5, FlatBegins
<1>16. ASSUME NEW j \in Parcels, pipe[j].m.to = id, Ranked(m, pipe[j].m) PROVE FALSE
  BY <1>3, <1>7, <1>16 DEF Ranked
<1>17. \A j \in Parcels' : pipe'[j].m # m
  BY <1>4 DEF OnWay
<1>18. Ordered(id)'
  BY <1>3, <1>4, <1>5, <1>8, <1>11, <1>12, <1>13, <1>14, <1>15, <1>16, <1>17, OrderedInsert
<1>19. ASSUME NEW d \in Ids, d # id PROVE Ordered(d)'
  <2>1. Settled \subseteq Settled'
    BY <1>4 DEF Settled
  <2>2. \A j \in Parcels' : \E k \in Parcels : pipe'[j].m = pipe[k].m
    BY DEF Parcels
  <2>3. ASSUME NEW o \in sent', o.to = d PROVE OnWay(o)' \/ (o \in sent /\ ~OnWay(o))
    BY <1>4, <1>5, <1>19, <2>3
  <2>4. Delivers(d)
    BY <2>1, <2>2, <2>3 DEF Delivers
  <2>5. wire'[d] = wire[d] /\ d # slot[i].id
    BY <1>5, <1>6, <1>19
  <2>6. Shrinks(d)
    BY <1>5, <1>9, <2>5, ShrinksOthers
  <2> QED BY <2>4, <2>6, OrderedShrinks DEF MailInv, StreamInv
<1>20. \A j \in Indices : LowOnly(slot[j].low) => LowOnly(slot'[j].low)
  BY DEF Others
<1>21. ASSUME NEW d \in Clients, cl'[d].pc \in Holding PROVE \E o, k : Stays(d, o, k)
  <2>1. d # c /\ cl'[d] = cl[d] /\ cl[d].pc \in Holding
    BY <1>1, <1>21
  <2>2. ASSUME NEW k \in Indices, k = HASH_ID(cl[d].m.to) PROVE Guards(k)
    <3>1. lock[k] = d
      BY <2>1, <2>2 DEF MailInv, Locked
    <3>2. k # i
      BY <1>6, <2>1, <3>1
    <3> QED BY <1>5, <1>9, <3>2, GuardsOthers
  <2> QED BY <1>8, <2>1, <2>2, StaysOld DEF OldParcels
<1> QED BY <1>5, <1>18, <1>19, <1>20, <1>21, StreamParts

(* What is left of a message in dw_buffer comes before the lists.          *)
LEMMA KeptQueue ==
    ASSUME NEW s \in Sockets, s.dw = None, NEW b \in Buffers, NEW t, t = [s EXCEPT !.dw = b]
    PROVE  /\ Flat(Backlog(s)) \in Seq(Pieces) /\ Parts(b) \in Seq(Pieces)
           /\ Flat(Backlog(t)) = Parts(b) \o Flat(Backlog(s))
<1>1. b \in Buffers \cup {None} /\ b # None
  BY NoneAssumption
<1>2. t.dw = b /\ t.high = s.high /\ t.low = s.low
  BY <1>1, DwFields
<1>3. PICK h \in Seq(Buffers), l \in Seq(Buffers) : h = s.high /\ l = s.low
  BY BacklogType
<1>4. DwSeq(t) = <<b>> /\ DwSeq(s) = <<>>
  BY <1>1, <1>2 DEF DwSeq
<1>5. <<b>> \in Seq(Buffers) /\ h \o l \in Seq(Buffers)
  BY <1>1
<1>6. (<<b>> \o h) \o l = <<b>> \o (h \o l) /\ (<<>> \o h) \o l = h \o l
  BY <1>1
<1>7. Backlog(s) = h \o l /\ Backlog(t) = <<b>> \o (h \o l)
  BY <1>2, <1>3, <1>4, <1>6 DEF Backlog
<1>8. PICK p \in Seq(Buffers), q \in Seq(Buffers) : p = <<b>> /\ q = h \o l
  BY <1>5
<1>9. Flat(p) = Parts(b) /\ Flat(p) \in Seq(Pieces) /\ Flat(q) \in Seq(Pieces)
  BY <1>8, FlatOne, FlatType
<1>10. Flat(p \o q) = Flat(p) \o Flat(q)
  BY FlatConcat
<1> QED BY <1>7, <1>8, <1>9, <1>10

LEMMA PairConcat ==
    ASSUME NEW S, NEW a \in S, NEW b \in S
    PROVE  <<a, b>> = <<a>> \o <<b>>
<1>1. <<a, b>> = Append(<<a>>, b) /\ <<a>> \in Seq(S)
  OBVIOUS
<1>2. \A s \in Seq(S) : Append(s, b) = s \o <<b>>
  OBVIOUS
<1> QED BY ONLY <1>1, <1>2

(* The parts of a message, on either side of the border or on both.        *)
LEMMA Pasted ==
    ASSUME NEW v \in Seq(Pieces), NEW w \in Seq(Pieces), NEW m \in Messages
    PROVE  /\ (v \o <<<<m, 1>>>>) \o (<<<<m, 2>>>> \o w) = (v \o Two(m)) \o w
           /\ (v \o <<>>) \o (Two(m) \o w) = (v \o Two(m)) \o w
<1>1. <<m, 1>> \in Pieces /\ <<m, 2>> \in Pieces
  BY DEF Pieces
<1>2. PICK p \in Seq(Pieces), q \in Seq(Pieces) : p = <<<<m, 1>>>> /\ q = <<<<m, 2>>>> /\ Two(m) = p \o q
  <2>1. <<<<m, 1>>>> \in Seq(Pieces) /\ <<<<m, 2>>>> \in Seq(Pieces)
    BY ONLY <1>1
  <2>2. Two(m) = <<<<m, 1>>>> \o <<<<m, 2>>>>
    <3>1. PICK a \in Pieces, b \in Pieces : a = <<m, 1>> /\ b = <<m, 2>>
      BY <1>1
    <3>2. <<a, b>> = <<a>> \o <<b>>
      BY ONLY <3>1, PairConcat
    <3> QED BY ONLY <3>1, <3>2 DEF Two
  <2> QED BY ONLY <2>1, <2>2
<1>3. PICK t \in Seq(Pieces) : t = p \o q
  BY ConcatFacts
<1>4. v \o <<>> = v
  OBVIOUS
<1>5. v \o (t \o w) = (v \o t) \o w
  BY ONLY v \in Seq(Pieces), t \in Seq(Pieces), w \in Seq(Pieces), Joined, ZenonT(90)
<1>6. v \o (p \o q) = (v \o p) \o q
  BY ONLY v \in Seq(Pieces), p \in Seq(Pieces), q \in Seq(Pieces), Joined, ZenonT(90)
<1>7. PICK y \in Seq(Pieces) : y = v \o p
  BY ConcatFacts
<1>8. y \o (q \o w) = (y \o q) \o w
  BY ONLY y \in Seq(Pieces), q \in Seq(Pieces), w \in Seq(Pieces), Joined, ZenonT(90)
<1> QED BY ONLY <1>2, <1>3, <1>4, <1>5, <1>6, <1>7, <1>8

(* A direct write of a whole message, of a part of it, or of nothing.      *)
LEMMA StreamWrite ==
    ASSUME SocketType, SocketType', LifeInv, MailInv, CountInv, StreamInv, NEW c \in Clients, DirectWrite(c)
    PROVE  StreamInv'
<1> SUFFICES ASSUME NEW m, NEW i, m = cl[c].m, i = HASH_ID(m.to) PROVE StreamInv'
  OBVIOUS
<1>1. UNCHANGED <<pipe, fc, sent>>
  BY ClientFrames
<1>2. /\ cl[c].pc = "checked" /\ m \in Messages /\ m.to \in Ids /\ i \in Indices
      /\ NotWritten(c, m) \/ AllWritten(c, m) \/ \E l \in {1, 2} : RestKept(c, m, l)
  BY DirectWriteEffect
<1>3. "checked" \in Busy /\ "inc" \in Busy /\ "inc" \notin Holding
  BY DEF Busy, Holding
<1>4. PICK v \in Seq(Pieces), w \in Seq(Pieces) : v = wire[m.to] /\ w = Queue(i)
  BY <1>2, TypeUse, QueueType
<1>5. wire \in [Ids -> Seq(Pieces)] /\ slot[i] \in Sockets
  BY <1>2, TypeUse, SocketFields
<1>6. CASE NotWritten(c, m)
  <2> SUFFICES ASSUME NEW x, x = [pc |-> "inc", m |-> m] PROVE StreamInv'
    OBVIOUS
  <2>1. x \in Callers /\ x.pc = "inc" /\ x.m = m /\ cl' = [cl EXCEPT ![c] = x] /\ slot' = slot /\ wire' = wire
    BY <1>2, <1>3, <1>6, CallerTypes DEF NotWritten
  <2>2. cl'[c] = x /\ \A d \in Clients \ {c} : cl'[d] = cl[d]
    BY <2>1, ClientPut
  <2>3. SameMail
    BY <1>1, <1>2, <1>3, <2>1, <2>2, SameMailCall
  <2>4. \A j \in Indices : Moves(j)
    BY <1>1, <2>1, MovesAll DEF Closing
  <2> QED BY <1>1, <1>3, <2>1, <2>2, <2>3, <2>4, StreamQuiet DEF SameMail
<1>7. CASE AllWritten(c, m)
  <2> SUFFICES ASSUME NEW x, x = [pc |-> "idle"] PROVE StreamInv'
    OBVIOUS
  <2>1. /\ x \in Callers /\ x.pc \in {"idle", "wake"} /\ cl' = [cl EXCEPT ![c] = x] /\ slot' = slot
        /\ ReadyToWrite(i, m.to) /\ wire' = [wire EXCEPT ![m.to] = @ \o Two(m)]
    BY <1>7, CallerTypes DEF AllWritten, Two
  <2>2. wire'[m.to] = v \o Two(m) /\ \A d \in Ids \ {m.to} : wire'[d] = wire[d]
    BY <1>2, <1>4, <1>5, <2>1
  <2>3. Queue(i)' = w
    BY <1>4, <2>1 DEF Queue
  <2>4. wire'[m.to] \o Queue(i)' = (wire[m.to] \o Two(m)) \o Queue(i)
    BY <1>4, <2>2, <2>3
  <2>5. /\ SocketType /\ SocketType' /\ MailInv /\ CountInv /\ StreamInv /\ c \in Clients
        /\ cl[c].pc = "checked" /\ m = cl[c].m /\ i = HASH_ID(m.to) /\ ReadyToWrite(i, m.to)
        /\ x \in Callers /\ x.pc \in {"idle", "wake"} /\ cl' = [cl EXCEPT ![c] = x]
        /\ pipe' = pipe /\ sent' = sent /\ fc' = fc /\ Others(i)
        /\ slot'[i].id = slot[i].id /\ slot'[i].type = slot[i].type /\ slot'[i].closing = slot[i].closing
        /\ slot'[i].low = slot[i].low
    BY <1>1, <1>2, <2>1 DEF Others
  <2> QED BY ONLY <2>2, <2>4, <2>5, StreamWritten, Zenon
<1>8. ASSUME NEW l \in {1, 2}, RestKept(c, m, l) PROVE StreamInv'
  <2> SUFFICES ASSUME NEW x, NEW b, x = [pc |-> "wake", m |-> m], b = [m |-> m, left |-> l] PROVE StreamInv'
    OBVIOUS
  <2>1. /\ ReadyToWrite(i, m.to) /\ Others(i) /\ slot'[i] = [slot[i] EXCEPT !.dw = b]
        /\ cl' = [cl EXCEPT ![c] = x]
        /\ wire' = [wire EXCEPT ![m.to] = @ \o (IF l = 1 THEN <<<<m, 1>>>> ELSE <<>>)]
    BY <1>8 DEF RestKept
  <2>2. x \in Callers /\ x.pc \in {"idle", "wake"}
    BY <1>2, CallerTypes
  <2>3. b \in Buffers /\ b.left = l /\ b.m = m
    BY <1>2 DEF Buffers
  <2>4. /\ slot'[i].id = slot[i].id /\ slot'[i].type = slot[i].type /\ slot'[i].closing = slot[i].closing
        /\ slot'[i].low = slot[i].low
    BY <1>5, <2>1, <2>3, DwFields
  <2>5. slot[i].dw = None /\ slot[i].type \notin Dormant
    <3>1. Alone(c) /\ slot[i].id = m.to /\ slot[i].type = "CONNECTED"
      BY <2>1 DEF StreamInv, ReadyToWrite
    <3> QED BY <1>2, <3>1 DEF Alone, Holding, Dormant
  <2>6. Queue(i)' = Parts(b) \o w
    <3>1. Flat(Backlog(slot'[i])) = Parts(b) \o Flat(Backlog(slot[i]))
      BY <1>5, <2>1, <2>3, <2>5, KeptQueue
    <3> QED BY <1>4, <2>4, <2>5, <3>1 DEF Queue
  <2>7. wire'[m.to] = v \o (IF l = 1 THEN <<<<m, 1>>>> ELSE <<>>) /\ \A d \in Ids \ {m.to} : wire'[d] = wire[d]
    BY <1>2, <1>4, <1>5, <2>1
  <2>8. wire'[m.to] \o Queue(i)' = (v \o Two(m)) \o w
    <3>1. CASE l = 1
      <4>1. Parts(b) = <<<<m, 2>>>> /\ wire'[m.to] = v \o <<<<m, 1>>>>
        BY <2>3, <2>7, <3>1 DEF Parts
      <4>2. (v \o <<<<m, 1>>>>) \o (<<<<m, 2>>>> \o w) = (v \o Two(m)) \o w
        BY <1>2, Pasted
      <4> QED BY ONLY <2>6, <4>1, <4>2
    <3>2. CASE l = 2
      <4>1. Parts(b) = Two(m) /\ wire'[m.to] = v \o <<>>
        BY <2>3, <2>7, <3>2 DEF Parts, Two
      <4>2. (v \o <<>>) \o (Two(m) \o w) = (v \o Two(m)) \o w
        BY <1>2, Pasted
      <4> QED BY ONLY <2>6, <4>1, <4>2
    <3> QED BY <3>1, <3>2
  <2>9. wire'[m.to] \o Queue(i)' = (wire[m.to] \o Two(m)) \o Queue(i)
    BY ONLY <1>4, <2>8
  <2>10. /\ SocketType /\ SocketType' /\ MailInv /\ CountInv /\ StreamInv /\ c \in Clients
        /\ cl[c].pc = "checked" /\ m = cl[c].m /\ i = HASH_ID(m.to) /\ ReadyToWrite(i, m.to)
        /\ x \in Callers /\ x.pc \in {"idle", "wake"} /\ cl' = [cl EXCEPT ![c] = x]
        /\ pipe' = pipe /\ sent' = sent /\ fc' = fc /\ Others(i)
        /\ slot'[i].id = slot[i].id /\ slot'[i].type = slot[i].type /\ slot'[i].closing = slot[i].closing
        /\ slot'[i].low = slot[i].low
    BY <1>1, <1>2, <2>1, <2>2, <2>4
  <2> QED BY ONLY <2>7, <2>9, <2>10, StreamWritten, Zenon
<1> QED BY <1>2, <1>6, <1>7, <1>8

-----------------------------------------------------------------------------
(* The theorems.                                                           *)

(* The invariant holds from the start and in every step.                   *)
LEMMA InitStream == Init => StreamInv
<1> SUFFICES ASSUME Init PROVE StreamInv
  OBVIOUS
<1>1. ASSUME NEW i \in Indices PROVE slot[i].type = "INVALID" /\ slot[i].low = <<>>
  BY DEF Init
<1>2. ASSUME NEW id \in Ids PROVE Ordered(id)
  <2>1. HASH_ID(id) \in Indices
    BY IdFacts
  <2>2. wire[id] = <<>> /\ Rest(id) = <<>> /\ sent = {} /\ ~Sending(id)
    <3>1. Queue(HASH_ID(id)) = <<>> /\ ~Sending(id)
      BY <1>1, <2>1 DEF Queue, Dormant, Sending
    <3> QED BY <3>1 DEF Init, Rest
  <2>3. Line(id) = <<>> /\ DOMAIN Line(id) = {}
    <3>1. <<>> \o <<>> = <<>>
      OBVIOUS
    <3>2. Line(id) = <<>>
      BY <2>2, <3>1 DEF Line
    <3> QED BY <3>2
  <2>4. Pure(Line(id)) /\ Owned(id) /\ Later(id)
    BY <2>3 DEF Pure, Owned, Later
  <2> QED BY <2>2, <2>4 DEF Ordered
<1>3. \A i \in Indices : LowOnly(slot[i].low)
  BY <1>1 DEF LowOnly
<1>4. \A c \in Clients : Alone(c)
  BY DEF Init, Alone, Holding
<1> QED BY <1>2, <1>3, <1>4 DEF StreamInv

LEMMA StreamStutters ==
    ASSUME StreamInv, UNCHANGED vars
    PROVE  StreamInv'
<1>1. UNCHANGED <<slot, pipe, fc, cl, sent, wire>>
  BY DEF vars, sockVars, pollVars, callVars
<1>2. Parcels' = Parcels /\ Settled' = Settled /\ \A i \in Indices : Queue(i)' = Queue(i)
  BY <1>1 DEF Parcels, Settled, OnWay, Queue
<1>3. ASSUME NEW id \in Ids PROVE Ordered(id)'
  <2>1. Line(id)' = Line(id) /\ (Sending(id)' <=> Sending(id)) /\ \A m : OnWay(m)' <=> OnWay(m)
    BY <1>1, <1>2 DEF Line, Rest, Queue, Sending, OnWay, Parcels
  <2>2. Ordered(id)
    BY DEF StreamInv
  <2> QED BY <1>1, <1>2, <2>1, <2>2 DEF Ordered, Owned, Later, Kept
<1>4. \A i \in Indices : LowOnly(slot'[i].low)
  BY <1>1 DEF StreamInv
<1>5. ASSUME NEW c \in Clients PROVE Alone(c)'
  <2>1. Alone(c)
    BY DEF StreamInv
  <2> QED BY <1>1, <2>1 DEF Alone, Queue, Parcels
<1> QED BY <1>3, <1>4, <1>5 DEF StreamInv

LEMMA NextStream ==
    ASSUME SocketType, LifeInv, MailInv, CountInv, StreamInv, [Next]_vars
    PROVE  StreamInv'
<1>1. SocketType'
  BY NextType DEF LifeInv, Known
<1>2. CASE UNCHANGED vars
  BY <1>2, StreamStutters
<1>3. CASE Next
  <2>1. CASE \E c \in Clients :
               \/ Open(c) \/ OpenFull(c) \/ Publish(c) \/ Request(c)
               \/ Send(c) \/ DoubleCheck(c) \/ DirectWrite(c) \/ Wake(c)
               \/ inc_sending_ref(c) \/ SendCommand(c)
    BY <1>1, <2>1, StreamCalls, StreamSend, StreamWrite, StreamInc, StreamPush
  <2>2. CASE \/ open_socket \/ Ignored \/ close_socket \/ resume_socket \/ pause_socket
             \/ trigger_write \/ SendPackage \/ FinishClose \/ NoMoreCommands \/ Wait
    BY <1>1, <2>2, StreamOpening, StreamCommands, StreamPackage, StreamRest, StreamFinish
  <2>3. CASE \/ report_connect \/ report_accept \/ InvalidEvent
             \/ StaleEvent \/ ReadAgain \/ ReadError \/ ReadData \/ ReadEnd
             \/ WriteBlocked \/ send_buffer \/ Eof
    BY <1>1, <2>3, StreamRest, StreamAccept, StreamEvents, StreamBuffer
  <2> QED BY <1>3, <2>1, <2>2, <2>3 DEF Next
<1> QED BY <1>2, <1>3

LEMMA StreamInductive == Spec => [](SocketInv /\ StreamInv)
<1>1. Init => StreamInv
  BY InitStream
<1>2. SocketInv /\ StreamInv /\ [Next]_vars => StreamInv'
  BY NextStream DEF SocketInv
<1> QED BY <1>1, <1>2, SocketInductive, PTL DEF Spec

(* A connection carries the messages sent to its own id only, each part of *)
(* one at most once, those of one service at high priority in the order it *)
(* sent them, and none cut by another while the socket sends: a direct     *)
(* write by a service, under the lock, goes before what send_buffer finds  *)
(* in the lists and nowhere else.                                          *)
THEOREM StreamIsIntact == Spec => []StreamIntact
<1>1. ASSUME SocketInv, StreamInv PROVE StreamIntact
  <2>0. SocketType
    BY <1>1 DEF SocketInv
  <2> SUFFICES ASSUME NEW id \in Ids
               PROVE  LET w == wire[id]
                      IN  /\ \A a, b \in DOMAIN w :
                                /\ w[a][1].to = id
                                /\ a # b => w[a] # w[b]
                                /\ a < b /\ w[a][1].by = w[b][1].by /\ ~w[a][1].low /\ ~w[b][1].low
                                      => w[a][1].n <= w[b][1].n
                          /\ \A a \in DOMAIN w :
                                /\ w[a][2] = 2 => a > 1 /\ w[a - 1] = <<w[a][1], 1>>
                                /\ w[a][2] = 1 /\ a < Len(w) /\ Sending(id) => w[a + 1] = <<w[a][1], 2>>
    BY DEF StreamIntact
  <2> SUFFICES ASSUME NEW w, w = wire[id]
               PROVE  /\ \A a, b \in DOMAIN w :
                            /\ w[a][1].to = id
                            /\ a # b => w[a] # w[b]
                            /\ a < b /\ w[a][1].by = w[b][1].by /\ ~w[a][1].low /\ ~w[b][1].low
                                  => w[a][1].n <= w[b][1].n
                      /\ \A a \in DOMAIN w :
                            /\ w[a][2] = 2 => a > 1 /\ w[a - 1] = <<w[a][1], 1>>
                            /\ w[a][2] = 1 /\ a < Len(w) /\ Sending(id) => w[a + 1] = <<w[a][1], 2>>
    OBVIOUS
  <2>1. PICK r \in Seq(Pieces) : r = Rest(id) /\ w \in Seq(Pieces) /\ Line(id) = w \o r
    BY <2>0, QueueType DEF Line
  <2>2. Ordered(id)
    BY <1>1 DEF StreamInv
  <2>3. Pure(w) /\ \A a \in DOMAIN w : a \in DOMAIN (w \o r) /\ (w \o r)[a] = w[a]
    BY <2>1, <2>2, PurePrefix DEF Ordered
  <2>4. \A a \in DOMAIN w : w[a][1].to = id
    BY <2>1, <2>2, <2>3 DEF Ordered, Owned
  <2>5. ASSUME NEW a \in DOMAIN w, w[a][2] = 1, a < Len(w), Sending(id) PROVE w[a + 1] = <<w[a][1], 2>>
    <3>1. a + 1 \in DOMAIN w
      BY <2>1, <2>5
    <3>2. Full(w \o r)
      BY <2>1, <2>2, <2>5 DEF Ordered
    <3>3. (w \o r)[a] = w[a] /\ (w \o r)[a + 1] = w[a + 1] /\ a \in DOMAIN (w \o r)
      BY <2>3, <3>1
    <3> QED BY <2>5, <3>2, <3>3 DEF Full
  <2> QED BY <2>3, <2>4, <2>5 DEF Pure, Ranked
<1> QED BY <1>1, StreamInductive, PTL

(* A message that socket_server_send took is not lost while its socket is  *)
(* open: it was written, or its service, the command pipe, the lists of    *)
(* the socket or its dw_buffer have it.                                    *)
THEOREM NothingIsLost == Spec => []NoSilentLoss
<1>1. ASSUME SocketInv, StreamInv PROVE NoSilentLoss
  <2>0. SocketType
    BY <1>1 DEF SocketInv
  <2> SUFFICES ASSUME NEW m \in sent, Sending(m.to), NEW i, i = HASH_ID(m.to)
               PROVE  \/ \E a \in DOMAIN wire[m.to] : wire[m.to][a] = <<m, 2>>
                      \/ \E c \in Clients : "m" \in DOMAIN cl[c] /\ cl[c].m = m
                      \/ \E j \in DOMAIN pipe : "m" \in DOMAIN pipe[j] /\ pipe[j].m = m
                      \/ \E b \in Range(slot[i].high \o slot[i].low) : b.m = m
                      \/ slot[i].dw # None /\ slot[i].dw.m = m
    BY DEF NoSilentLoss
  <2>1. m \in Messages /\ m.to \in Ids /\ i \in Indices /\ slot[i].id = m.to /\ slot[i] \in Sockets
        /\ slot[i].type \notin Dormant
    BY <2>0, MessageFacts, IdFacts, SocketFields DEF SocketType, Sending, Dormant
  <2>2. OnWay(m) \/ \E a \in DOMAIN Line(m.to) : Line(m.to)[a] = <<m, 2>>
    BY <1>1, <2>1 DEF StreamInv, Ordered, Kept
  <2>3. CASE OnWay(m)
    <3>1. ASSUME NEW c \in Clients, cl[c].pc \in Busy PROVE "m" \in DOMAIN cl[c]
      <4>1. cl[c] \in Carrying
        BY <2>0, <3>1, CallerFacts
      <4> QED BY <4>1 DEF Carrying
    <3>2. ASSUME NEW j \in Parcels PROVE "m" \in DOMAIN pipe[j]
      <4>1. pipe[j] \in Commands /\ pipe[j].cmd \in Packages
        BY <2>0, PipeFacts DEF Parcels
      <4> QED BY <4>1 DEF Commands, Packages, Plain
    <3> QED BY <2>3, <3>1, <3>2 DEF OnWay, Parcels
  <2>4. ASSUME NEW a \in DOMAIN Line(m.to), Line(m.to)[a] = <<m, 2>>
        PROVE  \/ \E b \in DOMAIN wire[m.to] : wire[m.to][b] = <<m, 2>>
               \/ \E b \in Range(slot[i].high \o slot[i].low) : b.m = m
               \/ slot[i].dw # None /\ slot[i].dw.m = m
    <3>1. PICK w \in Seq(Pieces), q \in Seq(Pieces) : w = wire[m.to] /\ q = Queue(i) /\ Line(m.to) = w \o q
      BY <2>0, <2>1, QueueType DEF Line, Rest
    <3>2. /\ Len(w) \in Nat /\ Len(q) \in Nat /\ DOMAIN (w \o q) = 1 .. Len(w) + Len(q)
          /\ DOMAIN w = 1 .. Len(w) /\ DOMAIN q = 1 .. Len(q)
          /\ \A k \in 1 .. Len(w) : (w \o q)[k] = w[k]
          /\ \A k \in 1 .. Len(q) : (w \o q)[Len(w) + k] = q[k]
      BY ConcatFacts
    <3>3. CASE a \in 1 .. Len(w)
      BY <2>4, <3>1, <3>2, <3>3
    <3>4. CASE a \in Len(w) + 1 .. Len(w) + Len(q)
      <4> DEFINE k == a - Len(w)
      <4>1. k \in 1 .. Len(q) /\ Len(w) + k = a
        BY ONLY <3>2, <3>4
      <4> HIDE DEF k
      <4>2. q[k] = <<m, 2>> /\ k \in DOMAIN q
        BY <2>4, <3>1, <3>2, <4>1
      <4>3. PICK d \in Seq(Buffers), h \in Seq(Buffers), l \in Seq(Buffers) :
               d = DwSeq(slot[i]) /\ h = slot[i].high /\ l = slot[i].low
        BY <2>1, BacklogType
      <4>4. d \o (h \o l) \in Seq(Buffers) /\ h \o l \in Seq(Buffers) /\ (d \o h) \o l = d \o (h \o l)
        OBVIOUS
      <4>5. PICK y \in Seq(Buffers) : y = h \o l
        BY <4>4
      <4>6. PICK p \in Seq(Buffers) : p = d \o y /\ q = Flat(p)
        BY <2>1, <3>1, <4>3, <4>4, <4>5 DEF Queue, Backlog
      <4>a. Comes(q, p)
        BY <4>6, FlatComes
      <4>b. q[k][1] = m /\ k \in DOMAIN q
        BY <4>2
      <4>c. \E j \in DOMAIN p : q[k][1] = p[j].m
        BY <4>a, <4>b DEF Comes
      <4>7. PICK j \in DOMAIN p : p[j].m = m
        BY <4>b, <4>c
      <4>8. (\E e \in DOMAIN d : d[e].m = m) \/ (\E e \in DOMAIN y : y[e].m = m)
        BY <4>6, <4>7
      <4>9. ASSUME NEW e \in DOMAIN d, d[e].m = m PROVE slot[i].dw # None /\ slot[i].dw.m = m
        <5>1. slot[i].dw # None
          BY <4>3, <4>9 DEF DwSeq
        <5>2. d = <<slot[i].dw>>
          BY <4>3, <5>1 DEF DwSeq
        <5> QED BY <4>9, <5>1, <5>2
      <4>10. ASSUME NEW e \in DOMAIN y, y[e].m = m PROVE \E b \in Range(slot[i].high \o slot[i].low) : b.m = m
        BY <4>3, <4>5, <4>10 DEF Range
      <4> QED BY <4>8, <4>9, <4>10
    <3>5. a \in 1 .. Len(w) \/ a \in Len(w) + 1 .. Len(w) + Len(q)
      <4>1. a \in 1 .. Len(w) + Len(q)
        BY <2>4, <3>1, <3>2
      <4> QED BY ONLY <3>2, <4>1
    <3> QED BY <3>3, <3>4, <3>5
  <2> QED BY <2>2, <2>3, <2>4
<1> QED BY <1>1, StreamInductive, PTL
=============================================================================
