------------------------ MODULE SkynetKernel_proofs -------------------------
(***************************************************************************)
(* Theorems about the skynet kernel: for any number of services, workers   *)
(* and messages, no queue is in two places or stranded, references are     *)
(* counted exactly, and nothing is used after it is freed.                 *)
(***************************************************************************)
EXTENDS SkynetKernel, Inductions, FiniteSetTheorems, SequenceTheorems, TLAPS

(***************************************************************************)
(* The inductive invariant.                                                *)
(***************************************************************************)

(* What a thread holds at each place of its program.                       *)
Batch == {"pop", "measure", "handler", "init", "retire", "requeue", "pushback"}

Control(t) ==
    /\ pc[t] = "outside" <=> t = Outside
    /\ t = Outside => held[t] = None /\ nextq[t] = None /\ new[t] = None
    /\ op[t] = "none" <=> to[t] = None
    /\ nextq[t] # None <=> pc[t] = "pushback"
    /\ nextq[t] # None => nextq[t] # held[t]
    /\ pc[t] \in Batch \cup {"grab", "mqrelease", "drop"} => held[t] # None
    /\ pc[t] \in {"first", "next", "sleep", "asleep"} => held[t] = None
    /\ pc[t] \in {"init", "retire"} => new[t] # None
    /\ new[t] # None => pc[t] \in {"init", "retire", "mqrelease", "drop"}
    /\ new[t] # None => new[t] # held[t]
    /\ pc[t] = "pushback" => op[t] = "none"
    /\ pc[t] = "pop" => left[t] # 0
    /\ pc[t] = "measure" => Weight[t] >= 0
    /\ pc[t] = "handler" \/ new[t] # None => left[t] >= 0

ControlInv == \A t \in Threads : Control(t)

(* A queue that is placed has its flag set or is released; only a released *)
(* queue is being dropped.                                                 *)
FlagInv ==
    /\ \A s \in Services : Placed(s) => inGlobal[s] \/ released[s]
    /\ \A t \in Threads : pc[t] = "drop" => released[Orphan(t)]

(* The one who deletes a context has taken its last reference.             *)
LastReference == \A t \in Threads : op[t] = "delete" => ref[to[t]] = 0

(* The life of a context and that of its queue go together; a context in   *)
(* the table that is not initialised is still being launched.              *)
LifeInv ==
    /\ \A s \in Services :
          /\ life[s] = "none" => mqLife[s] = "none"
          /\ released[s] => life[s] = "freed"
          /\ s \in slots /\ life[s] = "init" =>
                \E t \in Threads : new[t] = s /\ pc[t] \in {"init", "retire"}
          /\ \A t \in Threads : Dispatching(t, s) => life[s] = "up"
    /\ \A t \in Threads : pc[t] = "init" => life[new[t]] = "init"

IInv ==
    /\ TypeOK /\ ControlInv
    /\ OnePlace /\ NoStrandedMail /\ FlagInv
    /\ RefCountExact /\ LastReference
    /\ NoUseAfterFree /\ LifeInv

USE DEF ctxVars, queueVars, callVars, workerVars, countVars

-----------------------------------------------------------------------------
(***************************************************************************)
(* Type correctness and control.                                           *)
(***************************************************************************)
LEMMA Distinct == Root \in Services /\ None \notin Services /\ Outside \notin Workers
BY KernelAssumption

LEMMA InitControl == Init => TypeOK /\ ControlInv
<1> SUFFICES ASSUME Init PROVE TypeOK /\ ControlInv
  OBVIOUS
<1>1. TypeOK
  <2>1. /\ mail \in [Services -> Seq(Handle)] /\ globalq \in Seq(Services)
        /\ left \in [Threads -> Nat \cup {-1}]
    BY Distinct DEF Init
  <2> QED BY <2>1, Distinct DEF Init, TypeOK, Handle, Places
<1>2. ControlInv
  BY Distinct DEF Init, ControlInv, Control, Threads, Batch
<1> QED BY <1>1, <1>2

(* The service of a call, of a dispatch and of an orphaned queue.          *)
LEMMA HandleTypes ==
    ASSUME TypeOK, ControlInv, NEW t \in Threads
    PROVE  /\ op[t] # "none" => to[t] \in Services
           /\ pc[t] \in Batch \cup {"grab", "mqrelease", "drop"} => held[t] \in Services
           /\ pc[t] = "pushback" => nextq[t] \in Services
           /\ new[t] # None => new[t] \in Services
           /\ pc[t] \in {"mqrelease", "drop"} => Orphan(t) \in Services
BY Distinct DEF TypeOK, ControlInv, Control, Handle, Orphan

-----------------------------------------------------------------------------
(***************************************************************************)
(* Counting references.                                                    *)
(***************************************************************************)
LEMMA ThreadsFinite ==
    ASSUME NEW S \in SUBSET Threads
    PROVE  IsFiniteSet(S) /\ Cardinality(S) \in Nat
<1>1. IsFiniteSet(Threads)
  BY KernelAssumption, FS_AddElement DEF Threads
<1> QED BY <1>1, FS_Subset, FS_CardinalityType

One(b) == IF b THEN 1 ELSE 0

(* When only what concerns t changes, a count of threads changes by t.     *)
LEMMA CountOne ==
    ASSUME NEW t \in Threads, NEW S \in SUBSET Threads, NEW T \in SUBSET Threads,
           \A u \in Threads \ {t} : u \in S <=> u \in T
    PROVE  Cardinality(T) - One(t \in T) = Cardinality(S) - One(t \in S)
<1>1. S \ {t} = T \ {t}
  OBVIOUS
<1>2. IsFiniteSet(S) /\ IsFiniteSet(T) /\ Cardinality(S) \in Nat /\ Cardinality(T) \in Nat
  BY ThreadsFinite
<1>3. ASSUME NEW R \in SUBSET Threads, IsFiniteSet(R), Cardinality(R) \in Nat
      PROVE  Cardinality(R \ {t}) = Cardinality(R) - One(t \in R)
  <2>1. Cardinality(R \ {t}) = IF t \in R THEN Cardinality(R) - 1 ELSE Cardinality(R)
    BY <1>3, FS_RemoveElement
  <2> QED BY <1>3, <2>1 DEF One
<1> QED BY <1>1, <1>2, <1>3

(* What a thread has counted in the references of a context.               *)
Own(t, s) == One(Dispatching(t, s)) + One(Calling(t, s)) + One(Launching(t, s))

(* A reference that is counted makes the count positive.                   *)
LEMMA OwnCounts ==
    ASSUME RefCountExact, NEW t \in Threads, NEW s \in Services
    PROVE  ref[s] \in Nat /\ ref[s] >= Own(t, s) + One(s \in slots)
<1> DEFINE D == {u \in Threads : Dispatching(u, s)}
           C == {u \in Threads : Calling(u, s)}
           L == {u \in Threads : Launching(u, s)}
<1>1. /\ Cardinality(D) \in Nat /\ Cardinality(D) >= One(t \in D)
      /\ Cardinality(C) \in Nat /\ Cardinality(C) >= One(t \in C)
      /\ Cardinality(L) \in Nat /\ Cardinality(L) >= One(t \in L)
  <2>1. ASSUME NEW S \in SUBSET Threads
        PROVE  Cardinality(S) \in Nat /\ Cardinality(S) >= One(t \in S)
    <3>1. IsFiniteSet(S) /\ Cardinality(S) \in Nat
      BY ThreadsFinite
    <3>2. Cardinality(S) = 0 => t \notin S
      BY <3>1, FS_EmptySet
    <3> QED BY <3>1, <3>2 DEF One
  <2>2. D \in SUBSET Threads /\ C \in SUBSET Threads /\ L \in SUBSET Threads
    OBVIOUS
  <2> HIDE DEF D, C, L
  <2> QED BY <2>1, <2>2
<1>2. t \in D <=> Dispatching(t, s)
  OBVIOUS
<1>3. t \in C <=> Calling(t, s)
  OBVIOUS
<1>4. t \in L <=> Launching(t, s)
  OBVIOUS
<1>5. ref[s] = Cardinality(D) + Cardinality(C) + Cardinality(L) + One(s \in slots)
  BY DEF RefCountExact, One
<1> HIDE DEF D, C, L
<1> QED BY <1>1, <1>2, <1>3, <1>4, <1>5 DEF Own, One

LEMMA CallingCounts ==
    ASSUME RefCountExact, NEW t \in Threads, NEW s \in Services, Calling(t, s)
    PROVE  ref[s] \in Nat \ {0}
BY OwnCounts DEF Own, One

LEMMA PushType ==
    ASSUME TypeOK, NEW s \in Services, GlobalmqPush(s) \/ UNCHANGED globalq
    PROVE  globalq' \in Seq(Services)
<1>1. globalq \in Seq(Services)
  BY DEF TypeOK
<1> QED BY <1>1, AppendProperties DEF GlobalmqPush

LEMMA PopType ==
    ASSUME TypeOK, globalq # <<>>
    PROVE  Head(globalq) \in Services /\ Tail(globalq) \in Seq(Services)
<1>1. globalq \in Seq(Services)
  BY DEF TypeOK
<1> QED BY <1>1, HeadTailProperties

LEMMA QuotientType ==
    ASSUME NEW n \in Nat, NEW d \in Nat \ {0}
    PROVE  n \div d \in Nat
OBVIOUS

LEMMA NextType ==
    ASSUME IInv, Next PROVE TypeOK'
<1> USE Distinct DEF Threads, Put
<1>0. TypeOK /\ ControlInv
  BY DEF IInv
<1>t. ASSUME NEW t \in Threads, CallStep(t) PROVE TypeOK'
  <2>1. CASE MqPush(t)
    <3>1. to[t] \in Services /\ from[t] \in Handle
      BY <1>0, <1>t, <2>1, HandleTypes DEF MqPush, TypeOK
    <3>2. Append(mail[to[t]], from[t]) \in Seq(Handle) /\ Append(globalq, to[t]) \in Seq(Services)
      BY <1>0, <3>1, AppendProperties DEF TypeOK
    <3>3. mail' \in [Services -> Seq(Handle)] /\ globalq' \in Seq(Services)
      BY <1>0, <2>1, <3>1, <3>2 DEF TypeOK, MqPush, GlobalmqPush
    <3> QED BY <1>0, <1>t, <2>1, <3>1, <3>3 DEF TypeOK, MqPush, Handle
  <2>2. CASE ContextRelease(t)
    <3>1. to[t] \in Services /\ ref[to[t]] \in Nat \ {0}
      BY <1>0, <1>t, <2>2, HandleTypes, CallingCounts DEF ContextRelease, IInv, Calling
    <3>2. ref' \in [Services -> Nat]
      BY <1>0, <2>2, <3>1 DEF TypeOK, ContextRelease
    <3> QED BY <1>0, <1>t, <2>2, <3>1, <3>2 DEF TypeOK, ContextRelease, Handle
  <2>3. CASE DeleteContext(t)
    <3>1. to[t] \in Services
      BY <1>0, <1>t, <2>3, HandleTypes DEF DeleteContext
    <3>2. globalq' \in Seq(Services)
      BY <2>3, <3>1, PushType DEF DeleteContext, MarkRelease, IInv
    <3> QED BY <1>0, <1>t, <2>3, <3>1, <3>2 DEF TypeOK, DeleteContext, MarkRelease, Handle
  <2> QED BY <1>t, <2>1, <2>2, <2>3 DEF CallStep
<1>w. ASSUME NEW t \in Workers, WorkerStep(t) PROVE TypeOK'
  <2>0. t \in Threads
    OBVIOUS
  <2>1. CASE InitSucceeds(t)
    BY <1>0, <1>w, <2>0, <2>1, HandleTypes
       DEF TypeOK, InitSucceeds, GlobalmqPush, BeginRelease, Handle, Places, ControlInv,
           Control
  <2>2. CASE InitFails(t)
    BY <1>0, <1>w, <2>0, <2>2, HandleTypes DEF TypeOK, InitFails, BeginRelease, Handle, Places
  <2>3. CASE RetireFailed(t)
    BY <1>0, <1>w, <2>0, <2>3, HandleTypes DEF TypeOK, RetireFailed, BeginRelease, Handle, Places
  <2>4. CASE MqRelease(t)
    <3>1. Orphan(t) \in Services
      BY <1>0, <2>0, <2>4, HandleTypes DEF MqRelease
    <3>2. globalq' \in Seq(Services)
      BY <2>4, <3>1, PushType DEF MqRelease, IInv
    <3> QED BY <1>0, <2>0, <2>4, <3>2 DEF TypeOK, MqRelease, AfterOrphan, Handle, Places
  <2>5. CASE DropMessage(t)
    <3> DEFINE q == Orphan(t)
    <3>1. q \in Services
      BY <1>0, <2>0, <2>5, HandleTypes DEF DropMessage
    <3>2. Tail(mail[q]) \in Seq(Handle)
      BY <1>0, <2>5, <3>1, HeadTailProperties DEF TypeOK, DropMessage
    <3>3. mail' = [mail EXCEPT ![q] = Tail(@)]
      BY <2>5 DEF DropMessage
    <3>4. mail' \in [Services -> Seq(Handle)]
      BY <1>0, <3>1, <3>2, <3>3 DEF TypeOK
    <3> HIDE DEF q
    <3>5. CASE Head(mail[q]) \in slots
      <4>1. GrabToPush(t, Head(mail[q]), q) /\ Head(mail[q]) \in Services
        BY <1>0, <2>5, <3>5 DEF DropMessage, q, TypeOK
      <4>2. /\ UNCHANGED <<inGlobal, released, mqLife, globalq, workerVars, sent, pushed, quit>>
            /\ done' = done + 1
        BY <2>5 DEF DropMessage
      <4>3. ref' \in [Services -> Nat]
        BY <1>0, <4>1 DEF TypeOK, GrabToPush
      <4>4. /\ op' \in [Threads -> {"none", "push", "release", "delete"}]
            /\ to' \in [Threads -> Handle] /\ from' \in [Threads -> Handle]
        BY <1>0, <2>0, <3>1, <4>1 DEF TypeOK, GrabToPush, Handle
      <4>5. UNCHANGED <<slots, life>>
        BY <4>1 DEF GrabToPush
      <4> QED BY <1>0, <3>4, <4>2, <4>3, <4>4, <4>5 DEF TypeOK
    <3>6. CASE Head(mail[q]) \notin slots
      <4>1. /\ UNCHANGED <<ctxVars, callVars, inGlobal, released, mqLife, globalq, workerVars, sent, pushed, quit>>
            /\ done' = done + 1
        BY <2>5, <3>6 DEF DropMessage, q
      <4> QED BY <1>0, <3>4, <4>1 DEF TypeOK
    <3> QED BY <3>5, <3>6
  <2>6. CASE FreeQueue(t)
    BY <1>0, <1>w, <2>0, <2>6, HandleTypes DEF TypeOK, FreeQueue, AfterOrphan, Handle, Places
  <2>7. CASE Stop(t)
    BY <1>0, <1>w, <2>0, <2>7 DEF TypeOK, Stop, Places
  <2>8. CASE Continue(t)
    BY <1>0, <1>w, <2>0, <2>8 DEF TypeOK, Continue, Places
  <2>9. CASE GlobalmqPop(t)
    <3>1. CASE globalq = <<>>
      BY <1>0, <2>0, <2>9, <3>1 DEF TypeOK, GlobalmqPop, Places
    <3>2. CASE globalq # <<>>
      <4>1. globalq' \in Seq(Services) /\ held' \in [Threads -> Handle]
        <5>1. Head(globalq) \in Services /\ Tail(globalq) \in Seq(Services)
          BY <1>0, <3>2, PopType
        <5>2. /\ globalq' = Tail(globalq) /\ held' = [held EXCEPT ![t] = Head(globalq)]
              /\ held \in [Threads -> Handle]
          BY <1>0, <2>9, <3>2 DEF GlobalmqPop, TypeOK
        <5> QED BY <2>0, <5>1, <5>2 DEF Handle
      <4> QED BY <1>0, <2>0, <2>9, <3>2, <4>1 DEF TypeOK, GlobalmqPop, Places
    <3> QED BY <3>1, <3>2
  <2>10. CASE GrabContext(t)
    <3>1. ref' \in [Services -> Nat]
      BY <1>0, <2>10 DEF TypeOK, GrabContext
    <3>2. left' \in [Threads -> Nat \cup {-1}]
      BY <1>0, <2>0, <2>10 DEF TypeOK, GrabContext
    <3>3. pc' \in [Threads -> Places]
      <4>1. \E x \in {"pop", "mqrelease"} : pc' = [pc EXCEPT ![t] = x]
        BY <2>10 DEF GrabContext
      <4>2. pc \in [Threads -> Places]
        BY <1>0 DEF TypeOK
      <4> QED BY <2>0, <4>1, <4>2 DEF Places
    <3>4. UNCHANGED <<slots, life, queueVars, globalq, callVars, held, nextq, new, countVars, quit>>
      BY <2>10 DEF GrabContext
    <3> QED BY <1>0, <3>1, <3>2, <3>3, <3>4 DEF TypeOK, queueVars, callVars, countVars
  <2>11. CASE MqPop(t)
    <3>1. held[t] \in Services /\ left[t] # 0
      BY <1>0, <2>0, <2>11, HandleTypes DEF MqPop, ControlInv, Control, Batch
    <3>2. Tail(mail[held[t]]) \in Seq(Handle)
      BY <1>0, <2>11, <3>1, HeadTailProperties DEF TypeOK, MqPop
    <3>3. mail' \in [Services -> Seq(Handle)]
      BY <1>0, <2>11, <3>1, <3>2 DEF TypeOK, MqPop
    <3>4. left' \in [Threads -> Nat \cup {-1}]
      <4>1. left \in [Threads -> Nat \cup {-1}]
        BY <1>0 DEF TypeOK
      <4>2. \/ left' = left
            \/ left' = [left EXCEPT ![t] = IF left[t] = -1 THEN 0 ELSE left[t] - 1]
        BY <2>11 DEF MqPop
      <4> QED BY <2>0, <3>1, <4>1, <4>2
    <3> QED BY <1>0, <2>0, <2>11, <3>3, <3>4 DEF TypeOK, MqPop, Places
  <2>12. CASE MqPopEmpty(t)
    BY <1>0, <1>w, <2>0, <2>12, HandleTypes
       DEF TypeOK, MqPopEmpty, BeginRelease, Handle, Places, Batch
  <2>13. CASE Measure(t)
    <3> DEFINE d == 2 ^ Weight[t]
               n == Len(mail[held[t]]) \div d
    <3>1. d \in Nat \ {0} /\ Len(mail[held[t]]) \in Nat
      BY <1>0, <2>0, <2>13, HandleTypes, KernelAssumption
         DEF Measure, ControlInv, Control, Batch, TypeOK
    <3> HIDE DEF d
    <3>2. n \in Nat
      BY <3>1, QuotientType
    <3> HIDE DEF n
    <3>3. left' = [left EXCEPT ![t] = IF n = 0 THEN 0 ELSE n - 1]
      BY <2>13 DEF Measure, n, d
    <3>4. left' \in [Threads -> Nat \cup {-1}]
      BY <1>0, <2>0, <3>2, <3>3 DEF TypeOK
    <3>5. pc' = [pc EXCEPT ![t] = "handler"] /\ UNCHANGED <<ctxVars, queueVars, globalq, callVars, held, nextq, new, countVars, quit>>
      BY <2>13 DEF Measure
    <3> QED BY <1>0, <2>0, <3>4, <3>5 DEF TypeOK, Places
  <2>14. CASE HandlerReturns(t)
    BY <1>0, <1>w, <2>0, <2>14 DEF TypeOK, HandlerReturns, Places
  <2>15. CASE PopNext(t)
    <3>1. held[t] \in Services
      BY <1>0, <2>0, <2>15, HandleTypes DEF PopNext, Batch
    <3>2. CASE globalq = <<>>
      BY <1>0, <2>0, <2>15, <3>1, <3>2 DEF TypeOK, PopNext, BeginRelease, Handle, Places
    <3>3. CASE globalq # <<>>
      <4>1. globalq' \in Seq(Services) /\ nextq' \in [Threads -> Handle]
        <5>1. Head(globalq) \in Services /\ Tail(globalq) \in Seq(Services)
          BY <1>0, <3>3, PopType
        <5>2. /\ globalq' = Tail(globalq) /\ nextq' = [nextq EXCEPT ![t] = Head(globalq)]
              /\ nextq \in [Threads -> Handle]
          BY <1>0, <2>15, <3>3 DEF PopNext, TypeOK
        <5> QED BY <2>0, <5>1, <5>2 DEF Handle
      <4> QED BY <1>0, <2>0, <2>15, <3>3, <4>1 DEF TypeOK, PopNext, Places
    <3> QED BY <3>2, <3>3
  <2>16. CASE PushBack(t)
    BY <1>0, <1>w, <2>0, <2>16, HandleTypes, SMTT(30)
       DEF TypeOK, PushBack, GlobalmqPush, BeginRelease, Handle, Places, Batch
  <2>17. CASE Sleep(t)
    BY <1>0, <1>w, <2>0, <2>17 DEF TypeOK, Sleep, Places
  <2> QED BY <1>w, <2>1, <2>2, <2>3, <2>4, <2>5, <2>6, <2>7, <2>8, <2>9, <2>10,
             <2>11, <2>12, <2>13, <2>14, <2>15, <2>16, <2>17 DEF WorkerStep
<1>1. ASSUME NEW t \in Workers, Wakeup(t) PROVE TypeOK'
  BY <1>0, <1>1 DEF TypeOK, Wakeup, Places
<1>2. ASSUME NEW t \in Workers, NEW s \in Services, SendMessage(t, s) PROVE TypeOK'
  <2>1. ref' \in [Services -> Nat]
    BY <1>0, <1>2 DEF TypeOK, SendMessage, GrabToPush
  <2>2. (IF new[t] = None THEN held[t] ELSE new[t]) \in Handle
    BY <1>0, <1>2 DEF TypeOK
  <2> QED BY <1>0, <1>2, <2>1, <2>2, SMTT(30) DEF TypeOK, SendMessage, GrabToPush, Handle
<1>3. ASSUME NEW t \in Workers, NEW s \in Services, Retire(t, s) PROVE TypeOK'
  BY <1>0, <1>3 DEF TypeOK, Retire, BeginRelease, Handle
<1>4. ASSUME NEW t \in Workers, NEW s \in Services, ContextNew(t, s) PROVE TypeOK'
  BY <1>0, <1>4 DEF TypeOK, ContextNew, MqCreate, Handle, Places
<1>5. ASSUME NEW s \in Services, SendOutside(s) PROVE TypeOK'
  BY <1>0, <1>5, SMTT(30) DEF TypeOK, SendOutside, GrabToPush, Handle
<1>6. CASE Abort
  BY <1>0, <1>6 DEF TypeOK, Abort, Places
<1>7. CASE Terminated
  BY <1>0, <1>7 DEF TypeOK, Terminated, vars
<1> QED BY <1>t, <1>w, <1>1, <1>2, <1>3, <1>4, <1>5, <1>6, <1>7 DEF Next

LEMMA FirstInQueue ==
    ASSUME TypeOK, globalq # <<>>
    PROVE  Head(globalq) \in Services /\ InQueue(Head(globalq))
<1>1. globalq \in Seq(Services) /\ Head(globalq) = globalq[1] /\ Len(globalq) \in Nat \ {0}
  BY EmptySeq DEF TypeOK
<1> QED BY <1>1, PopType DEF InQueue

LEMMA NextControl ==
    ASSUME IInv, Next PROVE ControlInv'
<1> USE Distinct DEF Threads, Put, Idle, Orphan, InService
<1>0. TypeOK /\ ControlInv /\ LifeInv /\ OnePlace
  BY DEF IInv
<1>t. ASSUME NEW t \in Threads, CallStep(t) PROVE ControlInv'
  <2>1. CASE MqPush(t)
    BY <1>0, <2>1 DEF TypeOK, ControlInv, Control, Batch, MqPush, GlobalmqPush
  <2>2. CASE ContextRelease(t)
    BY <1>0, <2>2 DEF TypeOK, ControlInv, Control, Batch, ContextRelease
  <2>3. CASE DeleteContext(t)
    BY <1>0, <2>3 DEF TypeOK, ControlInv, Control, Batch, DeleteContext, MarkRelease, GlobalmqPush
  <2> QED BY <1>t, <2>1, <2>2, <2>3 DEF CallStep
<1>w. ASSUME NEW t \in Workers, WorkerStep(t) PROVE ControlInv'
  <2>0. t \in Threads
    BY DEF Threads
  <2>1. CASE InitSucceeds(t)
    BY <1>0, <2>0, <2>1
       DEF TypeOK, ControlInv, Control, Batch, InitSucceeds, GlobalmqPush, BeginRelease
  <2>2. CASE InitFails(t)
    BY <1>0, <2>0, <2>2 DEF TypeOK, ControlInv, Control, Batch, InitFails, BeginRelease
  <2>3. CASE RetireFailed(t)
    BY <1>0, <2>0, <2>3 DEF TypeOK, ControlInv, Control, Batch, RetireFailed, BeginRelease
  <2>4. CASE MqRelease(t)
    <3>1. ASSUME NEW u \in Threads, u # t PROVE Control(u)'
      BY <1>0, <2>0, <2>4, <3>1 DEF TypeOK, ControlInv, Control, MqRelease, AfterOrphan
    <3>2. Control(t)'
      <4>1. CASE released[Orphan(t)]
        BY <1>0, <2>0, <2>4, <4>1 DEF TypeOK, ControlInv, Control, Batch, MqRelease
      <4>2. CASE ~released[Orphan(t)]
        BY <1>0, <2>0, <2>4, <4>2 DEF TypeOK, ControlInv, Control, Batch, MqRelease, AfterOrphan
      <4> QED BY <4>1, <4>2
    <3> QED BY <3>1, <3>2 DEF ControlInv
  <2>5. CASE DropMessage(t)
    BY <1>0, <2>0, <2>5 DEF TypeOK, ControlInv, Control, Batch, DropMessage, GrabToPush
  <2>6. CASE FreeQueue(t)
    BY <1>0, <2>0, <2>6 DEF TypeOK, ControlInv, Control, Batch, FreeQueue, AfterOrphan
  <2>7. CASE Stop(t)
    BY <1>0, <2>0, <2>7 DEF TypeOK, ControlInv, Control, Batch, Stop, AtTop
  <2>8. CASE Continue(t)
    BY <1>0, <2>0, <2>8 DEF TypeOK, ControlInv, Control, Batch, Continue, AtTop
  <2>9. CASE GlobalmqPop(t)
    <3>1. ASSUME NEW u \in Threads, u # t PROVE Control(u)'
      BY <1>0, <2>0, <2>9, <3>1 DEF TypeOK, ControlInv, Control, GlobalmqPop
    <3>2. Control(t)'
      <4>1. globalq # <<>> => Head(globalq) \in Services
        BY <1>0, PopType
      <4> QED BY <1>0, <2>0, <2>9, <4>1 DEF TypeOK, ControlInv, Control, Batch, GlobalmqPop
    <3> QED BY <3>1, <3>2 DEF ControlInv
  <2>10. CASE GrabContext(t)
    BY <1>0, <2>0, <2>10 DEF TypeOK, ControlInv, Control, Batch, GrabContext
  <2>11. CASE MqPop(t)
    <3>1. ASSUME NEW u \in Threads, u # t PROVE Control(u)'
      BY <1>0, <2>0, <2>11, <3>1 DEF TypeOK, ControlInv, Control, MqPop
    <3>2. Control(t)'
      <4>1. Control(t) /\ left[t] \in Nat \cup {-1} /\ Weight[t] \in Nat \cup {-1} /\ left[t] # 0
        BY <1>0, <2>0, <2>11, KernelAssumption DEF TypeOK, ControlInv, Control, MqPop
      <4>2. CASE left[t] = -1 /\ Weight[t] >= 0
        BY <1>0, <2>0, <2>11, <4>1, <4>2 DEF TypeOK, Control, Batch, MqPop
      <4>3. CASE ~(left[t] = -1 /\ Weight[t] >= 0)
        <5>1. /\ pc'[t] = "handler"
              /\ left'[t] = IF left[t] = -1 THEN 0 ELSE left[t] - 1
              /\ UNCHANGED <<held, nextq, new, op, to>>
          BY <1>0, <2>0, <2>11, <4>3 DEF TypeOK, MqPop
        <5>2. left'[t] >= 0
          BY <4>1, <5>1
        <5>3. pc[t] = "pop"
          BY <2>11 DEF MqPop
        <5> QED BY <2>0, <4>1, <5>1, <5>2, <5>3 DEF Control, Batch
      <4> QED BY <4>2, <4>3
    <3> QED BY <3>1, <3>2 DEF ControlInv
  <2>12. CASE MqPopEmpty(t)
    BY <1>0, <2>0, <2>12 DEF TypeOK, ControlInv, Control, Batch, MqPopEmpty, BeginRelease
  <2>13. CASE Measure(t)
    <3>1. ASSUME NEW u \in Threads, u # t PROVE Control(u)'
      BY <1>0, <2>0, <2>13, <3>1 DEF TypeOK, ControlInv, Control, Measure
    <3>2. Control(t)'
      <4> DEFINE d == 2 ^ Weight[t]
                 n == Len(mail[held[t]]) \div d
      <4>1. d \in Nat \ {0} /\ Len(mail[held[t]]) \in Nat
        BY <1>0, <2>0, <2>13, HandleTypes, KernelAssumption
           DEF Measure, ControlInv, Control, Batch, TypeOK
      <4> HIDE DEF d
      <4>2. n \in Nat
        BY <4>1, QuotientType
      <4> HIDE DEF n
      <4>3. /\ left'[t] = IF n = 0 THEN 0 ELSE n - 1
            /\ pc'[t] = "handler" /\ pc[t] = "measure"
            /\ UNCHANGED <<held, nextq, new, op, to>>
        BY <1>0, <2>0, <2>13 DEF Measure, n, d, TypeOK
      <4>4. left'[t] >= 0
        BY <4>2, <4>3
      <4> QED BY <1>0, <2>0, <4>3, <4>4 DEF ControlInv, Control, Batch
    <3> QED BY <3>1, <3>2 DEF ControlInv
  <2>14. CASE HandlerReturns(t)
    BY <1>0, <2>0, <2>14 DEF TypeOK, ControlInv, Control, Batch, HandlerReturns
  <2>15. CASE PopNext(t)
    <3>1. ASSUME NEW u \in Threads, u # t PROVE Control(u)'
      BY <1>0, <2>0, <2>15, <3>1 DEF TypeOK, ControlInv, Control, PopNext, BeginRelease
    <3>2. CASE globalq = <<>>
      BY <1>0, <2>0, <2>15, <3>1, <3>2 DEF TypeOK, ControlInv, Control, Batch, PopNext, BeginRelease
    <3>3. CASE globalq # <<>>
      <4>1. Head(globalq) \in Services /\ Head(globalq) # held[t]
        BY <1>0, <2>0, <3>3, FirstInQueue DEF OnePlace
      <4> QED BY <1>0, <2>0, <2>15, <3>1, <3>3, <4>1 DEF TypeOK, ControlInv, Control, Batch, PopNext
    <3> QED BY <3>2, <3>3
  <2>16. CASE PushBack(t)
    BY <1>0, <2>0, <2>16
       DEF TypeOK, ControlInv, Control, Batch, PushBack, GlobalmqPush, BeginRelease
  <2>17. CASE Sleep(t)
    BY <1>0, <2>0, <2>17 DEF TypeOK, ControlInv, Control, Batch, Sleep
  <2> QED BY <1>w, <2>1, <2>2, <2>3, <2>4, <2>5, <2>6, <2>7, <2>8, <2>9, <2>10,
             <2>11, <2>12, <2>13, <2>14, <2>15, <2>16, <2>17 DEF WorkerStep
<1>1. ASSUME NEW t \in Workers, Wakeup(t) PROVE ControlInv'
  BY <1>0, <1>1 DEF TypeOK, ControlInv, Control, Batch, Wakeup
<1>2. ASSUME NEW t \in Workers, NEW s \in Services, SendMessage(t, s) PROVE ControlInv'
  BY <1>0, <1>2 DEF TypeOK, ControlInv, Control, Batch, SendMessage, GrabToPush, InService
<1>3. ASSUME NEW t \in Workers, NEW s \in Services, Retire(t, s) PROVE ControlInv'
  BY <1>0, <1>3 DEF TypeOK, ControlInv, Control, Batch, Retire, BeginRelease, InService
<1>4. ASSUME NEW t \in Workers, NEW s \in Services, ContextNew(t, s) PROVE ControlInv'
  <2>0. t \in Threads
    OBVIOUS
  <2>1. held[t] # s
    <3>1. held[t] \in Services /\ Dispatching(t, held[t])
      BY <1>0, <2>0, <1>4, HandleTypes DEF ContextNew, Dispatching, Batch
    <3> QED BY <1>0, <2>0, <1>4, <3>1 DEF ContextNew, LifeInv
  <2>2. ASSUME NEW u \in Threads, u # t PROVE Control(u)'
    BY <1>0, <1>4, <2>0, <2>2 DEF TypeOK, ControlInv, Control, ContextNew
  <2>3. Control(t)'
    BY <1>0, <1>4, <2>0, <2>1 DEF TypeOK, ControlInv, Control, Batch, ContextNew
  <2> QED BY <2>2, <2>3 DEF ControlInv
<1>5. ASSUME NEW s \in Services, SendOutside(s) PROVE ControlInv'
  BY <1>0, <1>5 DEF TypeOK, ControlInv, Control, Batch, SendOutside, GrabToPush
<1>6. CASE Abort
  BY <1>0, <1>6 DEF TypeOK, ControlInv, Control, Batch, Abort
<1>7. CASE Terminated
  BY <1>0, <1>7 DEF TypeOK, ControlInv, Control, Batch, Terminated, vars
<1> QED BY <1>t, <1>w, <1>1, <1>2, <1>3, <1>4, <1>5, <1>6, <1>7 DEF Next

-----------------------------------------------------------------------------
(***************************************************************************)
(* Where queues are.  What a step does to the places of queues is told by  *)
(* the thread that takes the step: its own queues and the global queue.    *)
(***************************************************************************)
InOnce == \A i, j \in 1 .. Len(globalq) : globalq[i] = globalq[j] => i = j

With(t, s) == s \in {held[t], nextq[t], new[t]}

Near(t, s) == InQueue(s) \/ With(t, s)

(* A push adds a queue at the end, a pop takes the first one.              *)
LEMMA PushEffect ==
    ASSUME TypeOK, NEW s \in Services, GlobalmqPush(s)
    PROVE  /\ \A x : InQueue(x)' <=> InQueue(x) \/ x = s
           /\ InOnce /\ ~InQueue(s) => InOnce'
<1>1. globalq \in Seq(Services) /\ globalq' = Append(globalq, s)
  BY DEF TypeOK, GlobalmqPush
<1>2. /\ Len(globalq') = Len(globalq) + 1 /\ Len(globalq) \in Nat
      /\ \A i \in 1 .. Len(globalq) : globalq'[i] = globalq[i]
      /\ globalq'[Len(globalq) + 1] = s
  BY <1>1, AppendProperties
<1> QED BY <1>2 DEF InQueue, InOnce

LEMMA PopEffect ==
    ASSUME TypeOK, InOnce, globalq # <<>>, globalq' = Tail(globalq)
    PROVE  /\ InQueue(Head(globalq)) /\ Head(globalq) \in Services
           /\ \A x : InQueue(x)' <=> InQueue(x) /\ x # Head(globalq)
           /\ InOnce'
<1>1. globalq \in Seq(Services) /\ Head(globalq) = globalq[1] /\ Len(globalq) \in Nat \ {0}
  BY EmptySeq DEF TypeOK
<1>2. /\ Len(globalq') = Len(globalq) - 1
      /\ \A i \in 1 .. Len(globalq') : globalq'[i] = globalq[i + 1]
      /\ Head(globalq) \in Services
  BY <1>1, HeadTailProperties
<1> HIDE DEF InOnce
<1>3. InQueue(Head(globalq))
  BY <1>1 DEF InQueue
<1>4. ASSUME NEW x PROVE InQueue(x)' <=> InQueue(x) /\ x # Head(globalq)
  <2>1. ASSUME InQueue(x)' PROVE InQueue(x) /\ x # Head(globalq)
    <3>1. PICK i \in 1 .. Len(globalq') : globalq'[i] = x
      BY <2>1 DEF InQueue
    <3>2. i + 1 \in 1 .. Len(globalq) /\ globalq[i + 1] = x /\ i + 1 # 1
      BY <1>1, <1>2, <3>1
    <3> QED BY <1>1, <3>2 DEF InQueue, InOnce
  <2>2. ASSUME InQueue(x), x # Head(globalq) PROVE InQueue(x)'
    <3>1. PICK i \in 1 .. Len(globalq) : globalq[i] = x
      BY <2>2 DEF InQueue
    <3>2. i - 1 \in 1 .. Len(globalq') /\ globalq'[i - 1] = x
      BY <1>1, <1>2, <2>2, <3>1
    <3> QED BY <3>2 DEF InQueue
  <2> QED BY <2>1, <2>2
<1>5. InOnce'
  BY <1>1, <1>2 DEF InOnce
<1> QED BY <1>2, <1>3, <1>4, <1>5

(* A step of t brings in the queue gain, which was nowhere, and takes      *)
(* away the queue loss, which was near t; None stands for no queue.        *)
LEMMA PlaceStep ==
    ASSUME OnePlace, NEW t \in Threads,
           NEW gain \in Handle, NEW loss \in Handle,
           \A u \in Threads \ {t} :
              held'[u] = held[u] /\ nextq'[u] = nextq[u] /\ new'[u] = new[u],
           InOnce',
           \A s \in Services : Near(t, s)' <=> (Near(t, s) /\ s # loss) \/ s = gain,
           \A s \in Services : ~(InQueue(s)' /\ With(t, s)'),
           gain \in Services => ~Placed(gain), loss \in Services => Near(t, loss)
    PROVE  /\ OnePlace'
           /\ \A s \in Services : Placed(s)' <=> (Placed(s) /\ s # loss) \/ s = gain
<1>1. \A s \in Services : Placed(s) <=> Near(t, s) \/ \E u \in Threads \ {t} : With(u, s)
  BY DEF Placed, Near, With
<1>2. \A s \in Services : Placed(s)' <=> Near(t, s)' \/ \E u \in Threads \ {t} : With(u, s)'
  BY DEF Placed, Near, With
<1>3. \A u \in Threads \ {t}, s \in Services : With(u, s)' <=> With(u, s)
  BY DEF With
<1>4. \A s \in Services, u, v \in Threads :
         /\ InQueue(s) => ~With(u, s)
         /\ u # v /\ With(u, s) => ~With(v, s)
  BY DEF OnePlace, With
<1>5. \A s \in Services, u \in Threads \ {t} : Near(t, s) => ~With(u, s)
  BY <1>4 DEF Near
<1>6. \A s \in Services, u \in Threads \ {t} : Near(t, s)' => ~With(u, s)'
  BY <1>1, <1>3, <1>5
<1>7. \A s \in Services, u, v \in Threads :
         /\ InQueue(s)' => ~With(u, s)'
         /\ u # v /\ With(u, s)' => ~With(v, s)'
  <2> SUFFICES ASSUME NEW s \in Services, NEW u \in Threads, NEW v \in Threads
               PROVE  /\ InQueue(s)' => ~With(u, s)'
                      /\ u # v /\ With(u, s)' => ~With(v, s)'
    OBVIOUS
  <2>1. u # t /\ v # t => (u # v /\ With(u, s)' => ~With(v, s)')
    BY <1>3, <1>4
  <2> QED BY <1>6, <2>1 DEF Near
<1>8. OnePlace'
  BY <1>7 DEF OnePlace, With, InOnce
<1>9. ASSUME NEW s \in Services
      PROVE  Placed(s)' <=> (Placed(s) /\ s # loss) \/ s = gain
  <2>1. s = loss => ~\E u \in Threads \ {t} : With(u, s)
    BY <1>5
  <2> QED BY <1>1, <1>2, <1>3, <2>1
<1> QED BY <1>8, <1>9

(***************************************************************************)
(* Queues are in one place, not stranded, flagged and live.                *)
(***************************************************************************)
PlacedLive == \A s \in Services : Placed(s) => mqLife[s] = "live"

QueueInv == OnePlace /\ NoStrandedMail /\ FlagInv /\ PlacedLive

LEMMA QueueFromIInv == IInv => QueueInv
BY DEF IInv, QueueInv, NoUseAfterFree, PlacedLive

(* Most steps do not touch queues.                                         *)
LEMMA QuietQueue ==
    ASSUME QueueInv, UNCHANGED <<globalq, held, nextq, new, queueVars>>,
           \A t \in Threads : pc'[t] = "drop" => pc[t] = "drop"
    PROVE  QueueInv'
<1>1. \A s : InQueue(s)' <=> InQueue(s)
  BY DEF InQueue
<1>2. \A s \in Services : Placed(s)' <=> Placed(s)
  BY <1>1 DEF Placed
<1>3. OnePlace'
  BY <1>1 DEF QueueInv, OnePlace
<1>4. NoStrandedMail' /\ PlacedLive'
  BY <1>2 DEF QueueInv, NoStrandedMail, PlacedLive
<1>5. FlagInv'
  BY <1>2 DEF QueueInv, FlagInv, Orphan
<1> QED BY <1>3, <1>4, <1>5 DEF QueueInv

(* Nor does taking a message out of a queue.                               *)
LEMMA LessMail ==
    ASSUME QueueInv, UNCHANGED <<globalq, held, nextq, new, inGlobal, released, mqLife>>,
           \A s \in Services : mail'[s] # <<>> => mail[s] # <<>>,
           \A t \in Threads : pc'[t] = "drop" => pc[t] = "drop"
    PROVE  QueueInv'
<1>1. \A s : InQueue(s)' <=> InQueue(s)
  BY DEF InQueue
<1>2. \A s \in Services : Placed(s)' <=> Placed(s)
  BY <1>1 DEF Placed
<1>3. OnePlace'
  BY <1>1 DEF QueueInv, OnePlace
<1>4. NoStrandedMail' /\ PlacedLive'
  BY <1>2 DEF QueueInv, NoStrandedMail, PlacedLive
<1>5. FlagInv'
  BY <1>2 DEF QueueInv, FlagInv, Orphan
<1> QED BY <1>3, <1>4, <1>5 DEF QueueInv

(* A queue that only changes place stays what it is.                       *)
LEMMA QueueMoves ==
    ASSUME QueueInv, OnePlace', UNCHANGED queueVars,
           \A s \in Services : Placed(s)' <=> Placed(s),
           \A t \in Threads : pc'[t] = "drop" => released'[Orphan(t)']
    PROVE  QueueInv'
BY DEF QueueInv, NoStrandedMail, PlacedLive, FlagInv

(* A thread gives a queue to the global queue, takes one from it, or lets  *)
(* one go.                                                                 *)
LEMMA GiveBack ==
    ASSUME TypeOK, OnePlace, NEW t \in Threads, NEW s \in Services, GlobalmqPush(s),
           With(t, s), \A x \in Services : With(t, x)' <=> With(t, x) /\ x # s,
           \A u \in Threads \ {t} :
              held'[u] = held[u] /\ nextq'[u] = nextq[u] /\ new'[u] = new[u]
    PROVE  OnePlace' /\ \A x \in Services : Placed(x)' <=> Placed(x)
<1>1. \A x \in Services : ~(InQueue(x) /\ With(t, x))
  BY DEF OnePlace, With
<1>2. InOnce' /\ \A x : InQueue(x)' <=> InQueue(x) \/ x = s
  BY <1>1, PushEffect DEF OnePlace, InOnce
<1>3. /\ \A x \in Services : Near(t, x)' <=> (Near(t, x) /\ x # None) \/ x = None
      /\ \A x \in Services : ~(InQueue(x)' /\ With(t, x)')
  BY <1>1, <1>2, Distinct DEF Near
<1>4. /\ OnePlace'
      /\ \A x \in Services : Placed(x)' <=> (Placed(x) /\ x # None) \/ x = None
  BY <1>2, <1>3, PlaceStep, Distinct DEF Handle
<1> QED BY <1>4, Distinct

LEMMA TakeFirst ==
    ASSUME TypeOK, OnePlace, NEW t \in Threads, globalq # <<>>, globalq' = Tail(globalq),
           \A x \in Services : With(t, x)' <=> With(t, x) \/ x = Head(globalq),
           \A u \in Threads \ {t} :
              held'[u] = held[u] /\ nextq'[u] = nextq[u] /\ new'[u] = new[u]
    PROVE  OnePlace' /\ \A x \in Services : Placed(x)' <=> Placed(x)
<1>1. \A x \in Services : ~(InQueue(x) /\ With(t, x))
  BY DEF OnePlace, With
<1>2. /\ InOnce' /\ InQueue(Head(globalq)) /\ Head(globalq) \in Services
      /\ \A x : InQueue(x)' <=> InQueue(x) /\ x # Head(globalq)
  BY PopEffect DEF OnePlace, InOnce
<1>3. /\ \A x \in Services : Near(t, x)' <=> (Near(t, x) /\ x # None) \/ x = None
      /\ \A x \in Services : ~(InQueue(x)' /\ With(t, x)')
  BY <1>1, <1>2, Distinct DEF Near
<1>4. /\ OnePlace'
      /\ \A x \in Services : Placed(x)' <=> (Placed(x) /\ x # None) \/ x = None
  BY <1>2, <1>3, PlaceStep, Distinct DEF Handle
<1> QED BY <1>4, Distinct

LEMMA LetGo ==
    ASSUME OnePlace, NEW t \in Threads, NEW s \in Services, globalq' = globalq,
           With(t, s), \A x \in Services : With(t, x)' <=> With(t, x) /\ x # s,
           \A u \in Threads \ {t} :
              held'[u] = held[u] /\ nextq'[u] = nextq[u] /\ new'[u] = new[u]
    PROVE  OnePlace' /\ \A x \in Services : Placed(x)' <=> Placed(x) /\ x # s
<1>1. \A x \in Services : ~(InQueue(x) /\ With(t, x))
  BY DEF OnePlace, With
<1>2. InOnce' /\ \A x : InQueue(x)' <=> InQueue(x)
  BY DEF OnePlace, InOnce, InQueue
<1>3. /\ \A x \in Services : Near(t, x)' <=> (Near(t, x) /\ x # s) \/ x = None
      /\ \A x \in Services : ~(InQueue(x)' /\ With(t, x)')
      /\ Near(t, s)
  BY <1>1, <1>2, Distinct DEF Near
<1>4. /\ OnePlace'
      /\ \A x \in Services : Placed(x)' <=> (Placed(x) /\ x # s) \/ x = None
  BY <1>2, <1>3, PlaceStep, Distinct DEF Handle
<1> QED BY <1>4, Distinct

LEMMA NextQueues ==
    ASSUME IInv, Next PROVE QueueInv'
<1> USE Distinct DEF Put
<1>0. TypeOK /\ ControlInv /\ QueueInv /\ NoUseAfterFree /\ LifeInv
  BY QueueFromIInv DEF IInv
<1>t. ASSUME NEW t \in Threads, CallStep(t) PROVE QueueInv'
  <2>1. CASE MqPush(t)
    <3> DEFINE s == to[t]
    <3>1. s \in Services /\ ~released[s] /\ mqLife[s] = "live"
      BY <1>0, <1>t, <2>1, HandleTypes DEF MqPush, NoUseAfterFree, Calling
    <3>2. /\ held' = held /\ nextq' = nextq /\ new' = new /\ pc' = pc
          /\ released' = released /\ mqLife' = mqLife
          /\ inGlobal' = [inGlobal EXCEPT ![s] = TRUE]
          /\ mail' = [mail EXCEPT ![s] = Append(@, from[t])]
      BY <2>1 DEF MqPush
    <3> HIDE DEF s
    <3>3. OnePlace' /\ \A x \in Services : Placed(x)' <=> Placed(x) \/ x = s
      <4>1. CASE inGlobal[s]
        <5>1. globalq' = globalq /\ Placed(s)
          BY <1>0, <2>1, <3>1, <4>1 DEF MqPush, s, QueueInv, NoStrandedMail
        <5> QED BY <1>0, <3>2, <5>1 DEF Placed, InQueue, QueueInv, OnePlace
      <4>2. CASE ~inGlobal[s]
        <5>1. GlobalmqPush(s) /\ ~Placed(s)
          BY <1>0, <2>1, <3>1, <4>2 DEF MqPush, s, QueueInv, FlagInv
        <5>2. ~InQueue(s) /\ ~With(t, s)
          BY <1>t, <5>1 DEF Placed, With
        <5>3. /\ \A x : InQueue(x)' <=> InQueue(x) \/ x = s
              /\ InOnce'
          BY <1>0, <3>1, <5>1, <5>2, PushEffect DEF QueueInv, OnePlace, InOnce
        <5>4. \A x : With(t, x)' <=> With(t, x)
          BY <3>2 DEF With
        <5>5. \A x \in Services : ~(InQueue(x) /\ With(t, x))
          BY <1>0, <1>t DEF QueueInv, OnePlace, With
        <5>6. /\ \A x \in Services : Near(t, x)' <=> (Near(t, x) /\ x # None) \/ x = s
              /\ \A x \in Services : ~(InQueue(x)' /\ With(t, x)')
          BY <5>2, <5>3, <5>4, <5>5 DEF Near
        <5>7. /\ OnePlace'
              /\ \A x \in Services : Placed(x)' <=> (Placed(x) /\ x # None) \/ x = s
          BY <1>0, <1>t, <3>1, <3>2, <5>1, <5>3, <5>6, PlaceStep DEF QueueInv, Handle
        <5> QED BY <5>7
      <4> QED BY <4>1, <4>2
    <3>4. NoStrandedMail'
      <4> SUFFICES ASSUME NEW x \in Services
                   PROVE  /\ inGlobal'[x] => Placed(x)'
                          /\ mail'[x] # <<>> => Placed(x)'
                          /\ released'[x] => Placed(x)' \/ mqLife'[x] = "freed"
        BY DEF NoStrandedMail
      <4>1. x # s => inGlobal'[x] = inGlobal[x] /\ mail'[x] = mail[x]
        BY <1>0, <3>2 DEF TypeOK
      <4> QED BY <1>0, <3>1, <3>2, <3>3, <4>1 DEF QueueInv, NoStrandedMail
    <3>5. FlagInv' /\ PlacedLive'
      <4>1. \A x \in Services : inGlobal'[x] <=> inGlobal[x] \/ x = s
        BY <1>0, <3>1, <3>2 DEF TypeOK
      <4> QED BY <1>0, <3>1, <3>2, <3>3, <4>1 DEF QueueInv, FlagInv, PlacedLive, Orphan
    <3> QED BY <3>3, <3>4, <3>5 DEF QueueInv
  <2>2. CASE ContextRelease(t)
    BY <1>0, <2>2, QuietQueue DEF TypeOK, ContextRelease
  <2>3. CASE DeleteContext(t)
    <3> DEFINE s == to[t]
    <3>1. s \in Services /\ ~released[s] /\ mqLife[s] = "live"
      BY <1>0, <1>t, <2>3, HandleTypes DEF DeleteContext, NoUseAfterFree
    <3>2. /\ held' = held /\ nextq' = nextq /\ new' = new /\ pc' = pc
          /\ mail' = mail /\ inGlobal' = inGlobal /\ mqLife' = mqLife
          /\ released' = [released EXCEPT ![s] = TRUE]
      BY <2>3 DEF DeleteContext, MarkRelease
    <3> HIDE DEF s
    <3>3. OnePlace' /\ \A x \in Services : Placed(x)' <=> Placed(x) \/ x = s
      <4>1. CASE inGlobal[s]
        <5>1. globalq' = globalq /\ Placed(s)
          BY <1>0, <2>3, <3>1, <4>1 DEF DeleteContext, MarkRelease, s, QueueInv, NoStrandedMail
        <5> QED BY <1>0, <3>2, <5>1 DEF Placed, InQueue, QueueInv, OnePlace
      <4>2. CASE ~inGlobal[s]
        <5>1. GlobalmqPush(s) /\ ~Placed(s)
          BY <1>0, <2>3, <3>1, <4>2 DEF DeleteContext, MarkRelease, s, QueueInv, FlagInv
        <5>2. ~InQueue(s) /\ ~With(t, s)
          BY <1>t, <5>1 DEF Placed, With
        <5>3. /\ \A x : InQueue(x)' <=> InQueue(x) \/ x = s
              /\ InOnce'
          BY <1>0, <3>1, <5>1, <5>2, PushEffect DEF QueueInv, OnePlace, InOnce
        <5>4. \A x : With(t, x)' <=> With(t, x)
          BY <3>2 DEF With
        <5>5. \A x \in Services : ~(InQueue(x) /\ With(t, x))
          BY <1>0, <1>t DEF QueueInv, OnePlace, With
        <5>6. /\ \A x \in Services : Near(t, x)' <=> (Near(t, x) /\ x # None) \/ x = s
              /\ \A x \in Services : ~(InQueue(x)' /\ With(t, x)')
          BY <5>2, <5>3, <5>4, <5>5 DEF Near
        <5>7. /\ OnePlace'
              /\ \A x \in Services : Placed(x)' <=> (Placed(x) /\ x # None) \/ x = s
          BY <1>0, <1>t, <3>1, <3>2, <5>1, <5>3, <5>6, PlaceStep DEF QueueInv, Handle
        <5> QED BY <5>7
      <4> QED BY <4>1, <4>2
    <3>4. \A x \in Services : released'[x] <=> released[x] \/ x = s
      BY <1>0, <3>1, <3>2 DEF TypeOK
    <3>5. NoStrandedMail' /\ PlacedLive'
      BY <1>0, <3>1, <3>2, <3>3, <3>4 DEF QueueInv, NoStrandedMail, PlacedLive
    <3>6. FlagInv'
      <4>1. \A u \in Threads : pc[u] = "drop" => Orphan(u) \in Services /\ Orphan(u)' = Orphan(u)
        BY <1>0, <3>2, HandleTypes DEF Orphan
      <4> QED BY <1>0, <3>1, <3>2, <3>3, <3>4, <4>1 DEF QueueInv, FlagInv
    <3> QED BY <3>3, <3>5, <3>6 DEF QueueInv
  <2> QED BY <1>t, <2>1, <2>2, <2>3 DEF CallStep
<1>w. ASSUME NEW t \in Workers, WorkerStep(t) PROVE QueueInv'
  <2>0. t \in Threads
    BY DEF Threads
  <2>1. CASE InitSucceeds(t)
    <3> DEFINE s == new[t]
    <3>1. s \in Services /\ held[t] # s /\ nextq[t] = None
      BY <1>0, <2>0, <2>1, HandleTypes DEF InitSucceeds, ControlInv, Control
    <3>2. /\ GlobalmqPush(s) /\ new' = [new EXCEPT ![t] = None]
          /\ UNCHANGED <<held, nextq, queueVars>> /\ pc' = [pc EXCEPT ![t] = "handler"]
      BY <2>1 DEF InitSucceeds
    <3>3. /\ With(t, s)
          /\ \A x \in Services : With(t, x)' <=> With(t, x) /\ x # s
      BY <1>0, <2>0, <3>1, <3>2 DEF With, TypeOK
    <3> HIDE DEF s
    <3>4. OnePlace' /\ \A x \in Services : Placed(x)' <=> Placed(x)
      BY <1>0, <2>0, <3>1, <3>2, <3>3, GiveBack DEF QueueInv, TypeOK
    <3>5. \A u \in Threads : pc'[u] = "drop" => pc[u] = "drop" /\ Orphan(u)' = Orphan(u)
      BY <1>0, <2>0, <3>2 DEF TypeOK, Orphan
    <3> QED BY <1>0, <3>2, <3>4, <3>5, QueueMoves DEF QueueInv, FlagInv
  <2>2. CASE InitFails(t)
    BY <1>0, <2>2, QuietQueue DEF TypeOK, InitFails
  <2>3. CASE RetireFailed(t)
    BY <1>0, <2>3, QuietQueue DEF TypeOK, RetireFailed
  <2>4. CASE MqRelease(t)
    <3>1. CASE released[Orphan(t)]
      <4>1. /\ UNCHANGED <<globalq, held, nextq, new, queueVars>>
            /\ pc' = [pc EXCEPT ![t] = "drop"]
        BY <2>4, <3>1 DEF MqRelease
      <4>2. \A x \in Services : Placed(x)' <=> Placed(x)
        BY <4>1 DEF Placed, InQueue
      <4>3. OnePlace'
        BY <1>0, <4>1 DEF QueueInv, OnePlace, InQueue
      <4>4. \A u \in Threads : pc'[u] = "drop" => released'[Orphan(u)']
        BY <1>0, <2>0, <3>1, <4>1 DEF TypeOK, Orphan, QueueInv, FlagInv
      <4> QED BY <1>0, <4>1, <4>2, <4>3, <4>4, QueueMoves
    <3>2. CASE ~released[Orphan(t)]
      <4> DEFINE s == Orphan(t)
      <4>1. s \in Services /\ nextq[t] = None /\ (new[t] # None => new[t] # held[t])
        BY <1>0, <2>0, <2>4, HandleTypes DEF MqRelease, ControlInv, Control
      <4>2. /\ GlobalmqPush(s) /\ AfterOrphan(t) /\ UNCHANGED <<nextq, queueVars>>
        BY <2>4, <3>2 DEF MqRelease
      <4>3. /\ With(t, s)
            /\ \A x \in Services : With(t, x)' <=> With(t, x) /\ x # s
            /\ \A u \in Threads \ {t} : held'[u] = held[u] /\ new'[u] = new[u]
        BY <1>0, <2>0, <4>1, <4>2 DEF With, TypeOK, AfterOrphan, Orphan
      <4> HIDE DEF s
      <4>4. OnePlace' /\ \A x \in Services : Placed(x)' <=> Placed(x)
        BY <1>0, <2>0, <4>1, <4>2, <4>3, GiveBack DEF QueueInv
      <4>5. \A u \in Threads : pc'[u] = "drop" => pc[u] = "drop" /\ Orphan(u)' = Orphan(u)
        BY <1>0, <2>0, <4>2, <4>3 DEF TypeOK, Orphan, AfterOrphan
      <4> QED BY <1>0, <4>2, <4>4, <4>5, QueueMoves DEF QueueInv, FlagInv
    <3> QED BY <3>1, <3>2
  <2>5. CASE DropMessage(t)
    <3>1. Orphan(t) \in Services /\ mail[Orphan(t)] # <<>> /\ mail' = [mail EXCEPT ![Orphan(t)] = Tail(@)]
      BY <1>0, <2>0, <2>5, HandleTypes DEF DropMessage, Batch
    <3>2. \A x \in Services : mail'[x] # <<>> => mail[x] # <<>>
      BY <1>0, <3>1 DEF TypeOK
    <3>3. /\ UNCHANGED <<globalq, held, nextq, new, inGlobal, released, mqLife>>
          /\ \A u \in Threads : pc'[u] = "drop" => pc[u] = "drop"
      BY <1>0, <2>0, <2>5 DEF TypeOK, DropMessage
    <3> QED BY <1>0, <3>2, <3>3, LessMail
  <2>6. CASE FreeQueue(t)
    <3> DEFINE s == Orphan(t)
    <3>1. s \in Services /\ nextq[t] = None /\ (new[t] # None => new[t] # held[t]) /\ mail[s] = <<>>
      BY <1>0, <2>0, <2>6, HandleTypes DEF FreeQueue, ControlInv, Control
    <3>2. /\ AfterOrphan(t) /\ UNCHANGED <<globalq, nextq, mail, released>>
          /\ inGlobal' = [inGlobal EXCEPT ![s] = FALSE]
          /\ mqLife' = [mqLife EXCEPT ![s] = "freed"]
      BY <2>6 DEF FreeQueue
    <3>3. /\ With(t, s)
          /\ \A x \in Services : With(t, x)' <=> With(t, x) /\ x # s
          /\ \A u \in Threads \ {t} : held'[u] = held[u] /\ new'[u] = new[u]
          /\ \A u \in Threads : pc'[u] = "drop" => pc[u] = "drop" /\ Orphan(u)' = Orphan(u)
      BY <1>0, <2>0, <3>1, <3>2, SMTT(30) DEF With, TypeOK, AfterOrphan, Orphan
    <3> HIDE DEF s
    <3>4. OnePlace' /\ \A x \in Services : Placed(x)' <=> Placed(x) /\ x # s
      BY <1>0, <2>0, <3>1, <3>2, <3>3, LetGo DEF QueueInv
    <3>5. /\ \A x \in Services : inGlobal'[x] <=> inGlobal[x] /\ x # s
          /\ \A x \in Services : mqLife'[x] = IF x = s THEN "freed" ELSE mqLife[x]
      BY <1>0, <3>1, <3>2 DEF TypeOK
    <3>6. NoStrandedMail' /\ PlacedLive'
      BY <1>0, <3>1, <3>2, <3>4, <3>5 DEF QueueInv, NoStrandedMail, PlacedLive
    <3>7. FlagInv'
      BY <1>0, <3>2, <3>3, <3>4, <3>5 DEF QueueInv, FlagInv
    <3> QED BY <3>4, <3>6, <3>7 DEF QueueInv
  <2>7. CASE Stop(t)
    BY <1>0, <2>7, QuietQueue DEF TypeOK, Stop
  <2>8. CASE Continue(t)
    BY <1>0, <2>8, QuietQueue DEF TypeOK, Continue
  <2>9. CASE GlobalmqPop(t)
    <3>1. CASE globalq = <<>>
      BY <1>0, <2>0, <2>9, <3>1, QuietQueue DEF TypeOK, GlobalmqPop
    <3>2. CASE globalq # <<>>
      <4> DEFINE s == Head(globalq)
      <4>1. held[t] = None /\ nextq[t] = None /\ new[t] = None
        BY <1>0, <2>0, <2>9 DEF GlobalmqPop, ControlInv, Control
      <4>2. /\ globalq' = Tail(globalq) /\ held' = [held EXCEPT ![t] = s]
            /\ UNCHANGED <<nextq, new, queueVars>>
            /\ \A u \in Threads : pc'[u] = "drop" => pc[u] = "drop" /\ u # t
        BY <1>0, <2>0, <2>9, <3>2 DEF GlobalmqPop, TypeOK
      <4>3. \A x \in Services : With(t, x)' <=> With(t, x) \/ x = s
        BY <1>0, <2>0, <4>1, <4>2 DEF With, TypeOK
      <4> HIDE DEF s
      <4>4. OnePlace' /\ \A x \in Services : Placed(x)' <=> Placed(x)
        BY <1>0, <2>0, <3>2, <4>2, <4>3, TakeFirst DEF QueueInv, TypeOK, s
      <4>5. \A u \in Threads : pc'[u] = "drop" => pc[u] = "drop" /\ Orphan(u)' = Orphan(u)
        BY <1>0, <2>0, <4>2 DEF TypeOK, Orphan
      <4> QED BY <1>0, <4>2, <4>4, <4>5, QueueMoves DEF QueueInv, FlagInv
    <3> QED BY <3>1, <3>2
  <2>10. CASE GrabContext(t)
    BY <1>0, <2>10, QuietQueue DEF TypeOK, GrabContext
  <2>11. CASE MqPop(t)
    <3>1. held[t] \in Services /\ mail[held[t]] # <<>> /\ mail' = [mail EXCEPT ![held[t]] = Tail(@)]
      BY <1>0, <2>0, <2>11, HandleTypes DEF MqPop, Batch
    <3>2. \A x \in Services : mail'[x] # <<>> => mail[x] # <<>>
      BY <1>0, <3>1 DEF TypeOK
    <3>3. /\ UNCHANGED <<globalq, held, nextq, new, inGlobal, released, mqLife>>
          /\ \A u \in Threads : pc'[u] = "drop" => pc[u] = "drop"
      BY <1>0, <2>0, <2>11 DEF TypeOK, MqPop
    <3> QED BY <1>0, <3>2, <3>3, LessMail
  <2>12. CASE MqPopEmpty(t)
    <3> DEFINE s == held[t]
    <3>1. s \in Services /\ nextq[t] = None /\ new[t] = None /\ mail[s] = <<>>
      BY <1>0, <2>0, <2>12, HandleTypes DEF MqPopEmpty, Batch, ControlInv, Control
    <3>2. ~released[s]
      BY <1>0, <2>0, <2>12, <3>1 DEF MqPopEmpty, NoUseAfterFree, Dispatching
    <3>3. /\ held' = [held EXCEPT ![t] = None]
          /\ UNCHANGED <<globalq, nextq, new, mail, released, mqLife>>
          /\ inGlobal' = [inGlobal EXCEPT ![s] = FALSE]
          /\ pc' = [pc EXCEPT ![t] = "next"]
      BY <2>12 DEF MqPopEmpty
    <3>4. /\ With(t, s)
          /\ \A x \in Services : With(t, x)' <=> With(t, x) /\ x # s
          /\ \A u \in Threads : pc'[u] = "drop" => pc[u] = "drop" /\ Orphan(u)' = Orphan(u)
      BY <1>0, <2>0, <3>1, <3>3 DEF With, TypeOK, Orphan
    <3> HIDE DEF s
    <3>5. OnePlace' /\ \A x \in Services : Placed(x)' <=> Placed(x) /\ x # s
      BY <1>0, <2>0, <3>1, <3>3, <3>4, LetGo DEF QueueInv, TypeOK
    <3>6. \A x \in Services : inGlobal'[x] <=> inGlobal[x] /\ x # s
      BY <1>0, <3>1, <3>3 DEF TypeOK
    <3>7. NoStrandedMail' /\ PlacedLive'
      BY <1>0, <3>1, <3>2, <3>3, <3>5, <3>6 DEF QueueInv, NoStrandedMail, PlacedLive
    <3>8. FlagInv'
      BY <1>0, <3>3, <3>4, <3>5, <3>6 DEF QueueInv, FlagInv
    <3> QED BY <3>5, <3>7, <3>8 DEF QueueInv
  <2>13. CASE Measure(t)
    BY <1>0, <2>13, QuietQueue DEF TypeOK, Measure
  <2>14. CASE HandlerReturns(t)
    BY <1>0, <2>14, QuietQueue DEF TypeOK, HandlerReturns
  <2>15. CASE PopNext(t)
    <3>1. CASE globalq = <<>>
      BY <1>0, <2>0, <2>15, <3>1, QuietQueue DEF TypeOK, PopNext
    <3>2. CASE globalq # <<>>
      <4> DEFINE s == Head(globalq)
      <4>1. nextq[t] = None
        BY <1>0, <2>0, <2>15 DEF PopNext, ControlInv, Control
      <4>2. /\ globalq' = Tail(globalq) /\ nextq' = [nextq EXCEPT ![t] = s]
            /\ UNCHANGED <<held, new, queueVars>>
            /\ \A u \in Threads : pc'[u] = "drop" => pc[u] = "drop" /\ u # t
        BY <1>0, <2>0, <2>15, <3>2 DEF PopNext, TypeOK
      <4>3. \A x \in Services : With(t, x)' <=> With(t, x) \/ x = s
        BY <1>0, <2>0, <4>1, <4>2 DEF With, TypeOK
      <4> HIDE DEF s
      <4>4. OnePlace' /\ \A x \in Services : Placed(x)' <=> Placed(x)
        BY <1>0, <2>0, <3>2, <4>2, <4>3, TakeFirst DEF QueueInv, TypeOK, s
      <4>5. \A u \in Threads : pc'[u] = "drop" => pc[u] = "drop" /\ Orphan(u)' = Orphan(u)
        BY <1>0, <2>0, <4>2 DEF TypeOK, Orphan
      <4> QED BY <1>0, <4>2, <4>4, <4>5, QueueMoves DEF QueueInv, FlagInv
    <3> QED BY <3>1, <3>2
  <2>16. CASE PushBack(t)
    <3> DEFINE s == held[t]
    <3>1. s \in Services /\ nextq[t] # None /\ new[t] = None
      BY <1>0, <2>0, <2>16, HandleTypes DEF PushBack, Batch, ControlInv, Control
    <3>2. nextq[t] # s
      BY <1>0, <2>0, <2>16, <3>1, HandleTypes DEF PushBack, ControlInv, Control
    <3>3. /\ GlobalmqPush(s) /\ held' = [held EXCEPT ![t] = nextq[t]]
          /\ nextq' = [nextq EXCEPT ![t] = None]
          /\ UNCHANGED <<new, queueVars>> /\ pc' = [pc EXCEPT ![t] = "top"]
      BY <2>16 DEF PushBack
    <3>4. /\ With(t, s)
          /\ \A x \in Services : With(t, x)' <=> With(t, x) /\ x # s
      BY <1>0, <2>0, <3>1, <3>2, <3>3 DEF With, TypeOK
    <3> HIDE DEF s
    <3>5. OnePlace' /\ \A x \in Services : Placed(x)' <=> Placed(x)
      BY <1>0, <2>0, <3>1, <3>3, <3>4, GiveBack DEF QueueInv, TypeOK
    <3>6. \A u \in Threads : pc'[u] = "drop" => pc[u] = "drop" /\ Orphan(u)' = Orphan(u)
      BY <1>0, <2>0, <3>3 DEF TypeOK, Orphan
    <3> QED BY <1>0, <3>3, <3>5, <3>6, QueueMoves DEF QueueInv, FlagInv
  <2>17. CASE Sleep(t)
    BY <1>0, <2>17, QuietQueue DEF TypeOK, Sleep
  <2> QED BY <1>w, <2>1, <2>2, <2>3, <2>4, <2>5, <2>6, <2>7, <2>8, <2>9, <2>10,
             <2>11, <2>12, <2>13, <2>14, <2>15, <2>16, <2>17 DEF WorkerStep
<1>1. ASSUME NEW t \in Workers, Wakeup(t) PROVE QueueInv'
  BY <1>0, <1>1, QuietQueue DEF TypeOK, Wakeup
<1>2. ASSUME NEW t \in Workers, NEW s \in Services, SendMessage(t, s) PROVE QueueInv'
  BY <1>0, <1>2, QuietQueue DEF TypeOK, SendMessage, GrabToPush
<1>3. ASSUME NEW t \in Workers, NEW s \in Services, Retire(t, s) PROVE QueueInv'
  BY <1>0, <1>3, QuietQueue DEF TypeOK, Retire
<1>4. ASSUME NEW t \in Workers, NEW s \in Services, ContextNew(t, s) PROVE QueueInv'
  <2>0. t \in Threads
    BY DEF Threads
  <2>1. mqLife[s] = "none" /\ ~Placed(s) /\ new[t] = None
    BY <1>0, <1>4, <2>0 DEF ContextNew, LifeInv, QueueInv, PlacedLive, ControlInv, Control
  <2>2. /\ new' = [new EXCEPT ![t] = s] /\ pc' = [pc EXCEPT ![t] = "init"]
        /\ UNCHANGED <<globalq, held, nextq, mail, released>>
        /\ inGlobal' = [inGlobal EXCEPT ![s] = TRUE]
        /\ mqLife' = [mqLife EXCEPT ![s] = "live"]
    BY <1>4 DEF ContextNew, MqCreate
  <2>3. /\ \A x \in Services : With(t, x)' <=> With(t, x) \/ x = s
        /\ \A x : InQueue(x)' <=> InQueue(x)
        /\ \A u \in Threads : pc'[u] = "drop" => pc[u] = "drop" /\ Orphan(u)' = Orphan(u)
        /\ \A u \in Threads \ {t} : held'[u] = held[u] /\ nextq'[u] = nextq[u] /\ new'[u] = new[u]
    BY <1>0, <2>0, <2>1, <2>2 DEF With, TypeOK, InQueue, Orphan
  <2>4. OnePlace' /\ \A x \in Services : Placed(x)' <=> Placed(x) \/ x = s
    <3>1. ~InQueue(s) /\ ~With(t, s)
      BY <2>0, <2>1 DEF Placed, With
    <3>2. \A x \in Services : ~(InQueue(x) /\ With(t, x))
      BY <1>0, <2>0 DEF QueueInv, OnePlace, With
    <3>3. InOnce'
      BY <1>0, <2>2 DEF QueueInv, OnePlace, InOnce
    <3>4. /\ \A x \in Services : Near(t, x)' <=> (Near(t, x) /\ x # None) \/ x = s
          /\ \A x \in Services : ~(InQueue(x)' /\ With(t, x)')
      BY <2>3, <3>1, <3>2 DEF Near
    <3>5. /\ OnePlace'
          /\ \A x \in Services : Placed(x)' <=> (Placed(x) /\ x # None) \/ x = s
      BY <1>0, <2>0, <2>1, <2>3, <3>3, <3>4, PlaceStep DEF QueueInv, Handle
    <3> QED BY <3>5
  <2>5. /\ \A x \in Services : inGlobal'[x] <=> inGlobal[x] \/ x = s
        /\ \A x \in Services : mqLife'[x] = IF x = s THEN "live" ELSE mqLife[x]
    BY <1>0, <2>2 DEF TypeOK
  <2>6. NoStrandedMail' /\ PlacedLive'
    BY <1>0, <2>1, <2>2, <2>4, <2>5 DEF QueueInv, NoStrandedMail, PlacedLive
  <2>7. FlagInv'
    BY <1>0, <2>2, <2>3, <2>4, <2>5 DEF QueueInv, FlagInv
  <2> QED BY <2>4, <2>6, <2>7 DEF QueueInv
<1>5. ASSUME NEW s \in Services, SendOutside(s) PROVE QueueInv'
  BY <1>0, <1>5, QuietQueue DEF TypeOK, SendOutside, GrabToPush
<1>6. CASE Abort
  BY <1>0, <1>6, QuietQueue DEF TypeOK, Abort
<1>7. CASE Terminated
  BY <1>0, <1>7, QuietQueue DEF TypeOK, Terminated, vars
<1> QED BY <1>t, <1>w, <1>1, <1>2, <1>3, <1>4, <1>5, <1>6, <1>7 DEF Next

-----------------------------------------------------------------------------
(***************************************************************************)
(* Reference counts.  A step of t is accounted for if the count changes by *)
(* what t owns and by the entry of the handle table.                       *)
(***************************************************************************)
RefInv == RefCountExact /\ LastReference

SameElsewhere(t) ==
    \A u \in Threads \ {t} :
       /\ pc'[u] = pc[u] /\ held'[u] = held[u] /\ new'[u] = new[u]
       /\ op'[u] = op[u] /\ to'[u] = to[u]

Accounted(t) ==
    \A s \in Services :
       ref'[s] = ref[s] + Own(t, s)' - Own(t, s) + One(s \in slots') - One(s \in slots)

LEMMA RefStep ==
    ASSUME RefInv, NoUseAfterFree, NEW t \in Threads,
           \A u \in Threads : op[u] = "delete" => to[u] \in Services,
           SameElsewhere(t), Accounted(t),
           \A s \in Services : ref[s] = 0 /\ life[s] # "none" => ref'[s] = 0,
           op'[t] = "delete" => ref'[to'[t]] = 0
    PROVE  RefInv'
<1>1. ASSUME NEW s \in Services
      PROVE  ref'[s] = Cardinality({u \in Threads : Dispatching(u, s)'})
                       + Cardinality({u \in Threads : Calling(u, s)'})
                       + Cardinality({u \in Threads : Launching(u, s)'})
                       + One(s \in slots')
  <2> DEFINE D == {u \in Threads : Dispatching(u, s)}
             C == {u \in Threads : Calling(u, s)}
             L == {u \in Threads : Launching(u, s)}
             E == {u \in Threads : Dispatching(u, s)'}
             B == {u \in Threads : Calling(u, s)'}
             K == {u \in Threads : Launching(u, s)'}
  <2>1. /\ \A u \in Threads \ {t} : u \in D <=> u \in E
        /\ \A u \in Threads \ {t} : u \in C <=> u \in B
        /\ \A u \in Threads \ {t} : u \in L <=> u \in K
    BY DEF SameElsewhere, Dispatching, Calling, Launching
  <2>2. /\ t \in D <=> Dispatching(t, s)
        /\ t \in C <=> Calling(t, s)
        /\ t \in L <=> Launching(t, s)
        /\ t \in E <=> Dispatching(t, s)'
        /\ t \in B <=> Calling(t, s)'
        /\ t \in K <=> Launching(t, s)'
    OBVIOUS
  <2>3. ref[s] = Cardinality(D) + Cardinality(C) + Cardinality(L) + One(s \in slots)
    BY DEF RefInv, RefCountExact, One
  <2>4. /\ D \in SUBSET Threads /\ C \in SUBSET Threads /\ L \in SUBSET Threads
        /\ E \in SUBSET Threads /\ B \in SUBSET Threads /\ K \in SUBSET Threads
    OBVIOUS
  <2> HIDE DEF D, C, L, E, B, K
  <2>5. /\ Cardinality(E) - One(t \in E) = Cardinality(D) - One(t \in D)
        /\ Cardinality(B) - One(t \in B) = Cardinality(C) - One(t \in C)
        /\ Cardinality(K) - One(t \in K) = Cardinality(L) - One(t \in L)
    BY <2>1, <2>4, CountOne
  <2>6. /\ Cardinality(D) \in Nat /\ Cardinality(C) \in Nat /\ Cardinality(L) \in Nat
        /\ Cardinality(E) \in Nat /\ Cardinality(B) \in Nat /\ Cardinality(K) \in Nat
    BY <2>4, ThreadsFinite
  <2>7. /\ Own(t, s) = One(t \in D) + One(t \in C) + One(t \in L)
        /\ Own(t, s)' = One(t \in E) + One(t \in B) + One(t \in K)
    BY <2>2 DEF Own, One
  <2>8. ref'[s] = ref[s] + Own(t, s)' - Own(t, s) + One(s \in slots') - One(s \in slots)
    BY DEF Accounted
  <2>9. ref'[s] = Cardinality(E) + Cardinality(B) + Cardinality(K) + One(s \in slots')
    <3>1. /\ One(t \in D) \in Nat /\ One(t \in C) \in Nat /\ One(t \in L) \in Nat
          /\ One(t \in E) \in Nat /\ One(t \in B) \in Nat /\ One(t \in K) \in Nat
          /\ One(s \in slots) \in Nat /\ One(s \in slots') \in Nat
      BY DEF One
    <3>2. ref'[s] = ref[s] + (One(t \in E) + One(t \in B) + One(t \in K))
                    - (One(t \in D) + One(t \in C) + One(t \in L))
                    + One(s \in slots') - One(s \in slots)
      BY <2>7, <2>8
    <3> DEFINE d == One(t \in D)  c == One(t \in C)  l == One(t \in L)
               e == One(t \in E)  b == One(t \in B)  k == One(t \in K)
               i == One(s \in slots)  j == One(s \in slots')
               cd == Cardinality(D)  cc == Cardinality(C)  cl == Cardinality(L)
               ce == Cardinality(E)  cb == Cardinality(B)  ck == Cardinality(K)
    <3>3. /\ {d, c, l, e, b, k, i, j, cd, cc, cl, ce, cb, ck} \subseteq Nat
      BY <2>6, <3>1
    <3>4. /\ ce - e = cd - d /\ cb - b = cc - c /\ ck - k = cl - l
          /\ ref[s] = cd + cc + cl + i
          /\ ref'[s] = ref[s] + (e + b + k) - (d + c + l) + j - i
      BY <2>3, <2>5, <3>2
    <3>5. ref'[s] = ce + cb + ck + j
      <4> HIDE DEF d, c, l, e, b, k, i, j, cd, cc, cl, ce, cb, ck
      <4> QED BY <3>3, <3>4
    <3> QED BY <3>5
  <2> QED BY <2>9 DEF E, B, K
<1>2. RefCountExact'
  BY <1>1 DEF RefCountExact, One
<1>3. LastReference'
  <2> SUFFICES ASSUME NEW u \in Threads, op'[u] = "delete"
               PROVE  ref'[to'[u]] = 0
    BY DEF LastReference
  <2>1. CASE u = t
    BY <2>1
  <2>2. CASE u # t
    <3>1. op[u] = "delete" /\ to'[u] = to[u] /\ to[u] \in Services
      BY <2>2 DEF SameElsewhere
    <3>2. ref[to[u]] = 0 /\ life[to[u]] # "none"
      BY <3>1 DEF RefInv, LastReference, NoUseAfterFree
    <3> QED BY <3>1, <3>2
  <2> QED BY <2>1, <2>2
<1> QED BY <1>2, <1>3 DEF RefInv

(* A context that nobody refers to has a count of 0.                       *)
LEMMA NoReference ==
    ASSUME RefCountExact, NEW s \in Services, s \notin slots,
           \A t \in Threads : ~Dispatching(t, s) /\ ~Calling(t, s) /\ ~Launching(t, s)
    PROVE  ref[s] = 0
<1>1. /\ {t \in Threads : Dispatching(t, s)} = {}
      /\ {t \in Threads : Calling(t, s)} = {}
      /\ {t \in Threads : Launching(t, s)} = {}
  OBVIOUS
<1> QED BY <1>1, FS_EmptySet DEF RefCountExact

LEMMA InTableCounts ==
    ASSUME RefCountExact, NEW s \in slots, NEW t \in Threads, slots \subseteq Services
    PROVE  ref[s] \in Nat \ {0}
<1>1. ref[s] \in Nat /\ ref[s] >= Own(t, s) + One(s \in slots)
  BY OwnCounts
<1> QED BY <1>1 DEF Own, One

(* The count is untouched, and t gives one reference for another or none.  *)
LEMMA RefKept ==
    ASSUME RefInv, NoUseAfterFree, NEW t \in Threads,
           \A u \in Threads : op[u] = "delete" => to[u] \in Services,
           SameElsewhere(t), ref' = ref,
           \A s \in Services : Own(t, s)' + One(s \in slots') = Own(t, s) + One(s \in slots),
           op'[t] = "delete" => op[t] = "delete" /\ to'[t] = to[t]
    PROVE  RefInv'
<1>1. Accounted(t)
  <2> SUFFICES ASSUME NEW s \in Services
               PROVE  ref'[s] = ref[s] + Own(t, s)' - Own(t, s) + One(s \in slots') - One(s \in slots)
    BY DEF Accounted
  <2>1. /\ Own(t, s) \in Nat /\ Own(t, s)' \in Nat
        /\ One(s \in slots) \in Nat /\ One(s \in slots') \in Nat
    BY DEF Own, One
  <2>2. ref[s] \in Nat
    BY OwnCounts DEF RefInv
  <2> QED BY <2>1, <2>2
<1>2. op'[t] = "delete" => ref'[to'[t]] = 0
  BY DEF RefInv, LastReference
<1> QED BY <1>1, <1>2, RefStep

(* t takes a reference to a context in the table.                          *)
LEMMA RefTaken ==
    ASSUME TypeOK, RefInv, NoUseAfterFree, NEW t \in Threads, NEW x \in slots,
           \A u \in Threads : op[u] = "delete" => to[u] \in Services,
           SameElsewhere(t), ref' = [ref EXCEPT ![x] = @ + 1], slots' = slots,
           \A s \in Services : Own(t, s)' = Own(t, s) + One(s = x),
           op'[t] # "delete"
    PROVE  RefInv'
<1>1. slots \subseteq Services /\ ref \in [Services -> Nat]
  BY DEF TypeOK
<1>2. Accounted(t)
  <2> SUFFICES ASSUME NEW s \in Services
               PROVE  ref'[s] = ref[s] + Own(t, s)' - Own(t, s) + One(s \in slots') - One(s \in slots)
    BY DEF Accounted
  <2>1. Own(t, s) \in Nat /\ One(s \in slots) \in Nat
    BY DEF Own, One
  <2>2. ref'[s] = ref[s] + One(s = x) /\ ref[s] \in Nat
    BY <1>1 DEF One
  <2> QED BY <2>1, <2>2 DEF One
<1>3. \A s \in Services : ref[s] = 0 /\ life[s] # "none" => ref'[s] = 0
  BY <1>1, InTableCounts DEF RefInv
<1> QED BY <1>2, <1>3, RefStep

(* skynet_handle_grab by a thread that has no call in progress.            *)
LEMMA RefGrabbed ==
    ASSUME TypeOK, RefInv, NoUseAfterFree, NEW t \in Threads, NEW x, NEW source,
           \A u \in Threads : op[u] = "delete" => to[u] \in Services,
           GrabToPush(t, x, source), UNCHANGED workerVars, op[t] = "none"
    PROVE  RefInv'
<1>1. x \in slots /\ ref' = [ref EXCEPT ![x] = @ + 1] /\ slots' = slots
  BY DEF GrabToPush
<1>2. SameElsewhere(t) /\ op'[t] # "delete"
  BY DEF TypeOK, GrabToPush, SameElsewhere, Put
<1>3. \A s \in Services : Own(t, s)' = Own(t, s) + One(s = x)
  BY DEF TypeOK, GrabToPush, Put, Own, One, Dispatching, Calling, Launching
<1> QED BY <1>1, <1>2, <1>3, RefTaken

LEMMA SameReferences ==
    ASSUME RefInv, UNCHANGED <<ctxVars, callVars>>,
           \A t \in Threads, s \in Services :
              /\ Dispatching(t, s)' <=> Dispatching(t, s)
              /\ Calling(t, s)' <=> Calling(t, s)
              /\ Launching(t, s)' <=> Launching(t, s)
    PROVE  RefInv'
<1>1. ASSUME NEW s \in Services
      PROVE  /\ {t \in Threads : Dispatching(t, s)'} = {t \in Threads : Dispatching(t, s)}
             /\ {t \in Threads : Calling(t, s)'} = {t \in Threads : Calling(t, s)}
             /\ {t \in Threads : Launching(t, s)'} = {t \in Threads : Launching(t, s)}
  OBVIOUS
<1>2. RefCountExact'
  BY <1>1 DEF RefInv, RefCountExact
<1>3. LastReference'
  BY DEF RefInv, LastReference
<1> QED BY <1>2, <1>3 DEF RefInv

LEMMA NextRefs ==
    ASSUME IInv, Next PROVE RefInv'
<1> USE Distinct DEF Put, Idle
<1>0. TypeOK /\ ControlInv /\ RefInv /\ NoUseAfterFree
  BY DEF IInv, RefInv
<1>d. \A u \in Threads : op[u] = "delete" => to[u] \in Services
  BY <1>0, HandleTypes
<1>t. ASSUME NEW t \in Threads, CallStep(t) PROVE RefInv'
  <2>1. CASE MqPush(t)
    <3>1. SameElsewhere(t) /\ ref' = ref
      BY <1>0, <1>t, <2>1 DEF TypeOK, SameElsewhere, MqPush, GlobalmqPush
    <3>2. \A s \in Services : Own(t, s)' + One(s \in slots') = Own(t, s) + One(s \in slots)
      BY <1>0, <1>t, <2>1
         DEF TypeOK, ControlInv, Control, Batch, Own, One, Dispatching, Calling, Launching,
             MqPush, GlobalmqPush
    <3>3. op'[t] = "delete" => op[t] = "delete" /\ to'[t] = to[t]
      BY <1>0, <1>t, <2>1 DEF TypeOK, MqPush, GlobalmqPush
    <3> QED BY <1>0, <1>d, <1>t, <3>1, <3>2, <3>3, RefKept
  <2>2. CASE ContextRelease(t)
    <3>1. SameElsewhere(t) /\ slots' = slots
      BY <1>0, <1>t, <2>2 DEF TypeOK, SameElsewhere, ContextRelease
    <3>2. /\ to[t] \in Services /\ Calling(t, to[t])
          /\ ref' = [ref EXCEPT ![to[t]] = @ - 1]
          /\ op'[t] \in {"none", "delete"}
          /\ UNCHANGED <<pc, held, new>>
      BY <1>0, <1>t, <2>2, HandleTypes DEF TypeOK, ContextRelease, Calling
    <3>3. \A s \in Services : Own(t, s)' = Own(t, s) - One(s = to[t])
      BY <1>t, <2>2, <3>2 DEF ContextRelease, Own, One, Dispatching, Calling, Launching
    <3>4. Accounted(t)
      <4> SUFFICES ASSUME NEW s \in Services
                   PROVE  ref'[s] = ref[s] + Own(t, s)' - Own(t, s) + One(s \in slots') - One(s \in slots)
        BY DEF Accounted
      <4>1. Own(t, s) \in Nat /\ One(s \in slots) \in Nat /\ ref[s] \in Nat
        BY <1>0 DEF Own, One, TypeOK
      <4>2. ref'[s] = ref[s] - One(s = to[t])
        BY <1>0, <3>2 DEF One, TypeOK
      <4> QED BY <3>1, <3>3, <4>1, <4>2 DEF One
    <3>5. ref[to[t]] \in Nat \ {0}
      BY <1>0, <1>t, <3>2, CallingCounts DEF RefInv
    <3>6. \A s \in Services : ref[s] = 0 /\ life[s] # "none" => ref'[s] = 0
      BY <1>0, <3>2, <3>5 DEF TypeOK
    <3>7. op'[t] = "delete" => ref'[to'[t]] = 0
      <4>1. op'[t] = "delete" => ref[to[t]] = 1 /\ to' = to
        BY <1>0, <1>t, <2>2 DEF TypeOK, ContextRelease
      <4> QED BY <1>0, <3>2, <3>5, <4>1 DEF TypeOK
    <3> QED BY <1>0, <1>d, <1>t, <3>1, <3>4, <3>6, <3>7, RefStep
  <2>3. CASE DeleteContext(t)
    <3>1. SameElsewhere(t) /\ ref' = ref
      BY <1>0, <1>t, <2>3 DEF TypeOK, SameElsewhere, DeleteContext, MarkRelease, GlobalmqPush
    <3>2. \A s \in Services : Own(t, s)' + One(s \in slots') = Own(t, s) + One(s \in slots)
      BY <1>0, <1>t, <2>3
         DEF TypeOK, ControlInv, Control, Batch, Own, One, Dispatching, Calling, Launching,
             DeleteContext, MarkRelease, GlobalmqPush
    <3>3. op'[t] = "delete" => op[t] = "delete" /\ to'[t] = to[t]
      BY <1>0, <1>t, <2>3 DEF TypeOK, DeleteContext, MarkRelease, GlobalmqPush
    <3> QED BY <1>0, <1>d, <1>t, <3>1, <3>2, <3>3, RefKept
  <2> QED BY <1>t, <2>1, <2>2, <2>3 DEF CallStep
<1>w. ASSUME NEW t \in Workers, WorkerStep(t) PROVE RefInv'
  <2>0. t \in Threads
    BY DEF Threads
  <2>1. CASE InitSucceeds(t)
    <3>1. SameElsewhere(t) /\ ref' = ref
      BY <1>0, <2>0, <2>1 DEF TypeOK, SameElsewhere, InitSucceeds, GlobalmqPush, BeginRelease
    <3>2. \A s \in Services : Own(t, s)' + One(s \in slots') = Own(t, s) + One(s \in slots)
      BY <1>0, <2>0, <2>1
         DEF TypeOK, ControlInv, Control, Batch, Own, One, Dispatching, Calling, Launching,
             InitSucceeds, GlobalmqPush, BeginRelease
    <3>3. op'[t] = "delete" => op[t] = "delete" /\ to'[t] = to[t]
      BY <1>0, <2>0, <2>1 DEF TypeOK, InitSucceeds, GlobalmqPush, BeginRelease
    <3> QED BY <1>0, <1>d, <2>0, <3>1, <3>2, <3>3, RefKept
  <2>2. CASE InitFails(t)
    <3>1. SameElsewhere(t) /\ ref' = ref
      BY <1>0, <2>0, <2>2 DEF TypeOK, SameElsewhere, InitFails, BeginRelease
    <3>2. \A s \in Services : Own(t, s)' + One(s \in slots') = Own(t, s) + One(s \in slots)
      BY <1>0, <2>0, <2>2
         DEF TypeOK, ControlInv, Control, Batch, Own, One, Dispatching, Calling, Launching,
             InitFails, BeginRelease
    <3>3. op'[t] = "delete" => op[t] = "delete" /\ to'[t] = to[t]
      BY <1>0, <2>0, <2>2 DEF TypeOK, InitFails, BeginRelease
    <3> QED BY <1>0, <1>d, <2>0, <3>1, <3>2, <3>3, RefKept
  <2>3. CASE RetireFailed(t)
    <3>1. SameElsewhere(t) /\ ref' = ref
      BY <1>0, <2>0, <2>3 DEF TypeOK, SameElsewhere, RetireFailed, BeginRelease
    <3>2. \A s \in Services : Own(t, s)' + One(s \in slots') = Own(t, s) + One(s \in slots)
      BY <1>0, <2>0, <2>3
         DEF TypeOK, ControlInv, Control, Batch, Own, One, Dispatching, Calling, Launching,
             RetireFailed, BeginRelease
    <3>3. op'[t] = "delete" => op[t] = "delete" /\ to'[t] = to[t]
      BY <1>0, <2>0, <2>3 DEF TypeOK, RetireFailed, BeginRelease
    <3> QED BY <1>0, <1>d, <2>0, <3>1, <3>2, <3>3, RefKept
  <2>4. CASE MqRelease(t)
    <3>1. SameElsewhere(t) /\ ref' = ref
      BY <1>0, <2>0, <2>4 DEF TypeOK, SameElsewhere, MqRelease, GlobalmqPush, AfterOrphan
    <3>2. \A s \in Services : Own(t, s)' + One(s \in slots') = Own(t, s) + One(s \in slots)
      BY <1>0, <2>0, <2>4
         DEF TypeOK, ControlInv, Control, Batch, Own, One, Dispatching, Calling, Launching,
             MqRelease, GlobalmqPush, AfterOrphan
    <3>3. op'[t] = "delete" => op[t] = "delete" /\ to'[t] = to[t]
      BY <1>0, <2>0, <2>4 DEF TypeOK, MqRelease, GlobalmqPush, AfterOrphan
    <3> QED BY <1>0, <1>d, <2>0, <3>1, <3>2, <3>3, RefKept
  <2>5. CASE DropMessage(t)
    <3> DEFINE x == Head(mail[Orphan(t)])
    <3>1. CASE x \in slots
      <4>1. GrabToPush(t, x, Orphan(t)) /\ UNCHANGED workerVars /\ op[t] = "none"
        BY <2>5, <3>1 DEF DropMessage, Idle
      <4> HIDE DEF x
      <4> QED BY <1>0, <1>d, <2>0, <3>1, <4>1, RefGrabbed
    <3>2. CASE x \notin slots
      <4>1. UNCHANGED <<ctxVars, callVars, workerVars>>
        BY <2>5, <3>2 DEF DropMessage
      <4>2. SameElsewhere(t) /\ ref' = ref /\ op' = op /\ to' = to
        BY <4>1 DEF SameElsewhere
      <4>3. \A s \in Services : Own(t, s)' + One(s \in slots') = Own(t, s) + One(s \in slots)
        BY <4>1 DEF Own, One, Dispatching, Calling, Launching
      <4> QED BY <1>0, <1>d, <2>0, <4>2, <4>3, RefKept
    <3> QED BY <3>1, <3>2
  <2>6. CASE FreeQueue(t)
    <3>1. SameElsewhere(t) /\ ref' = ref
      BY <1>0, <2>0, <2>6 DEF TypeOK, SameElsewhere, FreeQueue, AfterOrphan
    <3>2. \A s \in Services : Own(t, s)' + One(s \in slots') = Own(t, s) + One(s \in slots)
      BY <1>0, <2>0, <2>6
         DEF TypeOK, ControlInv, Control, Batch, Own, One, Dispatching, Calling, Launching,
             FreeQueue, AfterOrphan
    <3>3. op'[t] = "delete" => op[t] = "delete" /\ to'[t] = to[t]
      BY <1>0, <2>0, <2>6 DEF TypeOK, FreeQueue, AfterOrphan
    <3> QED BY <1>0, <1>d, <2>0, <3>1, <3>2, <3>3, RefKept
  <2>7. CASE Stop(t)
    <3>1. SameElsewhere(t) /\ ref' = ref
      BY <1>0, <2>0, <2>7 DEF TypeOK, SameElsewhere, Stop, AtTop
    <3>2. \A s \in Services : Own(t, s)' + One(s \in slots') = Own(t, s) + One(s \in slots)
      BY <1>0, <2>0, <2>7
         DEF TypeOK, ControlInv, Control, Batch, Own, One, Dispatching, Calling, Launching,
             Stop, AtTop
    <3>3. op'[t] = "delete" => op[t] = "delete" /\ to'[t] = to[t]
      BY <1>0, <2>0, <2>7 DEF TypeOK, Stop, AtTop
    <3> QED BY <1>0, <1>d, <2>0, <3>1, <3>2, <3>3, RefKept
  <2>8. CASE Continue(t)
    <3>1. SameElsewhere(t) /\ ref' = ref
      BY <1>0, <2>0, <2>8 DEF TypeOK, SameElsewhere, Continue, AtTop
    <3>2. \A s \in Services : Own(t, s)' + One(s \in slots') = Own(t, s) + One(s \in slots)
      BY <1>0, <2>0, <2>8
         DEF TypeOK, ControlInv, Control, Batch, Own, One, Dispatching, Calling, Launching,
             Continue, AtTop
    <3>3. op'[t] = "delete" => op[t] = "delete" /\ to'[t] = to[t]
      BY <1>0, <2>0, <2>8 DEF TypeOK, Continue, AtTop
    <3> QED BY <1>0, <1>d, <2>0, <3>1, <3>2, <3>3, RefKept
  <2>9. CASE GlobalmqPop(t)
    <3>1. SameElsewhere(t) /\ ref' = ref
      BY <1>0, <2>0, <2>9 DEF TypeOK, SameElsewhere, GlobalmqPop
    <3>2. \A s \in Services : Own(t, s)' + One(s \in slots') = Own(t, s) + One(s \in slots)
      BY <1>0, <2>0, <2>9
         DEF TypeOK, ControlInv, Control, Batch, Own, One, Dispatching, Calling, Launching,
             GlobalmqPop
    <3>3. op'[t] = "delete" => op[t] = "delete" /\ to'[t] = to[t]
      BY <1>0, <2>0, <2>9 DEF TypeOK, GlobalmqPop
    <3> QED BY <1>0, <1>d, <2>0, <3>1, <3>2, <3>3, RefKept
  <2>10. CASE GrabContext(t)
    <3>1. CASE held[t] \in slots
      <4>1. SameElsewhere(t) /\ slots' = slots /\ op'[t] # "delete"
        BY <1>0, <2>0, <2>10, <3>1 DEF TypeOK, SameElsewhere, GrabContext, Idle
      <4>2. ref' = [ref EXCEPT ![held[t]] = @ + 1]
        BY <2>10, <3>1 DEF GrabContext
      <4>3. \A s \in Services : Own(t, s)' = Own(t, s) + One(s = held[t])
        BY <1>0, <2>0, <2>10, <3>1
           DEF TypeOK, ControlInv, Control, GrabContext, Idle, Own, One, Dispatching,
               Calling, Launching
      <4> QED BY <1>0, <1>d, <2>0, <3>1, <4>1, <4>2, <4>3, RefTaken
    <3>2. CASE held[t] \notin slots
      <4>1. SameElsewhere(t) /\ ref' = ref /\ slots' = slots /\ op' = op
        BY <1>0, <2>0, <2>10, <3>2 DEF TypeOK, SameElsewhere, GrabContext
      <4>2. \A s \in Services : Own(t, s)' + One(s \in slots') = Own(t, s) + One(s \in slots)
        <5>1. /\ pc[t] = "grab" /\ pc'[t] = "mqrelease" /\ new[t] = None
              /\ UNCHANGED <<slots, held, op, to, new>>
          BY <1>0, <2>0, <2>10, <3>2 DEF TypeOK, ControlInv, Control, GrabContext, callVars
        <5>2. ASSUME NEW s \in Services
              PROVE  /\ Dispatching(t, s)' <=> Dispatching(t, s)
                     /\ Calling(t, s)' <=> Calling(t, s)
                     /\ Launching(t, s)' <=> Launching(t, s)
          BY <5>1 DEF Dispatching, Calling, Launching
        <5> QED BY <5>1, <5>2 DEF Own, One
      <4>3. op'[t] # "delete"
        BY <2>0, <2>10, <4>1 DEF GrabContext, Idle
      <4> QED BY <1>0, <1>d, <2>0, <4>1, <4>2, <4>3, RefKept
    <3> QED BY <3>1, <3>2
  <2>11. CASE MqPop(t)
    <3>1. SameElsewhere(t) /\ ref' = ref
      BY <1>0, <2>0, <2>11 DEF TypeOK, SameElsewhere, MqPop
    <3>2. \A s \in Services : Own(t, s)' + One(s \in slots') = Own(t, s) + One(s \in slots)
      BY <1>0, <2>0, <2>11
         DEF TypeOK, ControlInv, Control, Batch, Own, One, Dispatching, Calling, Launching,
             MqPop
    <3>3. op'[t] = "delete" => op[t] = "delete" /\ to'[t] = to[t]
      BY <1>0, <2>0, <2>11 DEF TypeOK, MqPop
    <3> QED BY <1>0, <1>d, <2>0, <3>1, <3>2, <3>3, RefKept
  <2>12. CASE MqPopEmpty(t)
    <3>1. SameElsewhere(t) /\ ref' = ref
      BY <1>0, <2>0, <2>12 DEF TypeOK, SameElsewhere, MqPopEmpty, BeginRelease
    <3>2. \A s \in Services : Own(t, s)' + One(s \in slots') = Own(t, s) + One(s \in slots)
      BY <1>0, <2>0, <2>12
         DEF TypeOK, ControlInv, Control, Batch, Own, One, Dispatching, Calling, Launching,
             MqPopEmpty, BeginRelease
    <3>3. op'[t] = "delete" => op[t] = "delete" /\ to'[t] = to[t]
      BY <1>0, <2>0, <2>12 DEF TypeOK, MqPopEmpty, BeginRelease
    <3> QED BY <1>0, <1>d, <2>0, <3>1, <3>2, <3>3, RefKept
  <2>13. CASE Measure(t)
    <3>1. SameElsewhere(t) /\ ref' = ref
      BY <1>0, <2>0, <2>13 DEF TypeOK, SameElsewhere, Measure
    <3>2. \A s \in Services : Own(t, s)' + One(s \in slots') = Own(t, s) + One(s \in slots)
      BY <1>0, <2>0, <2>13
         DEF TypeOK, ControlInv, Control, Batch, Own, One, Dispatching, Calling, Launching,
             Measure
    <3>3. op'[t] = "delete" => op[t] = "delete" /\ to'[t] = to[t]
      BY <1>0, <2>0, <2>13 DEF TypeOK, Measure
    <3> QED BY <1>0, <1>d, <2>0, <3>1, <3>2, <3>3, RefKept
  <2>14. CASE HandlerReturns(t)
    <3>1. SameElsewhere(t) /\ ref' = ref
      BY <1>0, <2>0, <2>14 DEF TypeOK, SameElsewhere, HandlerReturns
    <3>2. \A s \in Services : Own(t, s)' + One(s \in slots') = Own(t, s) + One(s \in slots)
      BY <1>0, <2>0, <2>14
         DEF TypeOK, ControlInv, Control, Batch, Own, One, Dispatching, Calling, Launching,
             HandlerReturns
    <3>3. op'[t] = "delete" => op[t] = "delete" /\ to'[t] = to[t]
      BY <1>0, <2>0, <2>14 DEF TypeOK, HandlerReturns
    <3> QED BY <1>0, <1>d, <2>0, <3>1, <3>2, <3>3, RefKept
  <2>15. CASE PopNext(t)
    <3>1. SameElsewhere(t) /\ ref' = ref
      BY <1>0, <2>0, <2>15 DEF TypeOK, SameElsewhere, PopNext, BeginRelease
    <3>2. \A s \in Services : Own(t, s)' + One(s \in slots') = Own(t, s) + One(s \in slots)
      BY <1>0, <2>0, <2>15
         DEF TypeOK, ControlInv, Control, Batch, Own, One, Dispatching, Calling, Launching,
             PopNext, BeginRelease
    <3>3. op'[t] = "delete" => op[t] = "delete" /\ to'[t] = to[t]
      BY <1>0, <2>0, <2>15 DEF TypeOK, PopNext, BeginRelease
    <3> QED BY <1>0, <1>d, <2>0, <3>1, <3>2, <3>3, RefKept
  <2>16. CASE PushBack(t)
    <3>1. SameElsewhere(t) /\ ref' = ref
      BY <1>0, <2>0, <2>16 DEF TypeOK, SameElsewhere, PushBack, GlobalmqPush, BeginRelease
    <3>2. \A s \in Services : Own(t, s)' + One(s \in slots') = Own(t, s) + One(s \in slots)
      BY <1>0, <2>0, <2>16
         DEF TypeOK, ControlInv, Control, Batch, Own, One, Dispatching, Calling, Launching,
             PushBack, GlobalmqPush, BeginRelease
    <3>3. op'[t] = "delete" => op[t] = "delete" /\ to'[t] = to[t]
      BY <1>0, <2>0, <2>16 DEF TypeOK, PushBack, GlobalmqPush, BeginRelease
    <3> QED BY <1>0, <1>d, <2>0, <3>1, <3>2, <3>3, RefKept
  <2>17. CASE Sleep(t)
    <3>1. SameElsewhere(t) /\ ref' = ref
      BY <1>0, <2>0, <2>17 DEF TypeOK, SameElsewhere, Sleep
    <3>2. \A s \in Services : Own(t, s)' + One(s \in slots') = Own(t, s) + One(s \in slots)
      BY <1>0, <2>0, <2>17
         DEF TypeOK, ControlInv, Control, Batch, Own, One, Dispatching, Calling, Launching,
             Sleep
    <3>3. op'[t] = "delete" => op[t] = "delete" /\ to'[t] = to[t]
      BY <1>0, <2>0, <2>17 DEF TypeOK, Sleep
    <3> QED BY <1>0, <1>d, <2>0, <3>1, <3>2, <3>3, RefKept
  <2> QED BY <1>w, <2>1, <2>2, <2>3, <2>4, <2>5, <2>6, <2>7, <2>8, <2>9, <2>10,
             <2>11, <2>12, <2>13, <2>14, <2>15, <2>16, <2>17 DEF WorkerStep
<1>1. ASSUME NEW t \in Workers, Wakeup(t) PROVE RefInv'
  <2>0. t \in Threads
    BY DEF Threads
  <2>1. SameElsewhere(t) /\ ref' = ref
    BY <1>0, <2>0, <1>1 DEF TypeOK, SameElsewhere, Wakeup
  <2>2. \A s \in Services : Own(t, s)' + One(s \in slots') = Own(t, s) + One(s \in slots)
    BY <1>0, <2>0, <1>1
       DEF TypeOK, ControlInv, Control, Batch, Own, One, Dispatching, Calling, Launching,
           Wakeup
  <2>3. op'[t] = "delete" => op[t] = "delete" /\ to'[t] = to[t]
    BY <1>0, <2>0, <1>1 DEF TypeOK, Wakeup
  <2> QED BY <1>0, <1>d, <2>0, <2>1, <2>2, <2>3, RefKept
<1>2. ASSUME NEW t \in Workers, NEW s \in Services, SendMessage(t, s) PROVE RefInv'
  <2>0. t \in Threads
    BY DEF Threads
  <2>1. PICK source : GrabToPush(t, s, source)
    BY <1>2 DEF SendMessage
  <2>2. UNCHANGED workerVars /\ op[t] = "none"
    BY <1>2 DEF SendMessage, InService, Idle
  <2> QED BY <1>0, <1>d, <2>0, <2>1, <2>2, RefGrabbed
<1>3. ASSUME NEW t \in Workers, NEW s \in Services, Retire(t, s) PROVE RefInv'
  <2>0. t \in Threads
    BY DEF Threads
  <2>1. SameElsewhere(t) /\ ref' = ref
    BY <1>0, <2>0, <1>3 DEF TypeOK, SameElsewhere, Retire, BeginRelease, InService
  <2>2. \A z \in Services : Own(t, z)' + One(z \in slots') = Own(t, z) + One(z \in slots)
    BY <1>0, <2>0, <1>3
       DEF TypeOK, ControlInv, Control, Batch, Own, One, Dispatching, Calling, Launching,
           Retire, BeginRelease, InService
  <2>3. op'[t] = "delete" => op[t] = "delete" /\ to'[t] = to[t]
    BY <1>0, <2>0, <1>3 DEF TypeOK, Retire, BeginRelease, InService
  <2> QED BY <1>0, <1>d, <2>0, <2>1, <2>2, <2>3, RefKept
<1>4. ASSUME NEW t \in Workers, NEW s \in Services, ContextNew(t, s) PROVE RefInv'
  <2>0. t \in Threads
    BY DEF Threads
  <2>1. SameElsewhere(t) /\ op' = op /\ op[t] = "none" /\ to' = to
    BY <1>0, <1>4, <2>0 DEF TypeOK, SameElsewhere, ContextNew, Idle
  <2>2. /\ s \notin slots
        /\ \A u \in Threads : ~Dispatching(u, s) /\ ~Calling(u, s) /\ ~Launching(u, s)
    BY <1>0, <1>4 DEF ContextNew, NoUseAfterFree
  <2>3. ref[s] = 0 /\ ref' = [ref EXCEPT ![s] = 2] /\ slots' = slots \cup {s} /\ life[s] = "none"
    BY <1>0, <1>4, <2>2, NoReference DEF ContextNew, RefInv
  <2>4. /\ pc[t] = "handler" /\ pc'[t] = "init" /\ new[t] = None /\ new'[t] = s /\ held' = held
    BY <1>0, <1>4, <2>0 DEF ContextNew, TypeOK, ControlInv, Control
  <2>5. Own(t, s) = 0 /\ Own(t, s)' = 1
    BY <2>1, <2>2, <2>0, <2>4 DEF Own, One, Dispatching, Calling, Launching
  <2>6. \A x \in Services \ {s} : Own(t, x)' = Own(t, x)
    BY <2>1, <2>4 DEF Own, One, Dispatching, Calling, Launching
  <2>7. Accounted(t)
    <3> SUFFICES ASSUME NEW x \in Services
                 PROVE  ref'[x] = ref[x] + Own(t, x)' - Own(t, x) + One(x \in slots') - One(x \in slots)
      BY DEF Accounted
    <3>1. CASE x = s
      BY <1>0, <2>2, <2>3, <2>5, <3>1 DEF One, TypeOK
    <3>2. CASE x # s
      <4>1. Own(t, x) \in Nat /\ One(x \in slots) \in Nat /\ ref[x] \in Nat
        BY <1>0 DEF Own, One, TypeOK
      <4>2. ref'[x] = ref[x] /\ One(x \in slots') = One(x \in slots)
        BY <1>0, <2>3, <3>2 DEF One, TypeOK
      <4> QED BY <2>6, <3>2, <4>1, <4>2
    <3> QED BY <3>1, <3>2
  <2>8. \A x \in Services : ref[x] = 0 /\ life[x] # "none" => ref'[x] = 0
    BY <1>0, <2>3 DEF TypeOK
  <2> QED BY <1>0, <1>d, <2>0, <2>1, <2>7, <2>8, RefStep
<1>5. ASSUME NEW s \in Services, SendOutside(s) PROVE RefInv'
  <2>0. Outside \in Threads
    BY DEF Threads
  <2>1. GrabToPush(Outside, s, None) /\ UNCHANGED workerVars /\ op[Outside] = "none"
    BY <1>5 DEF SendOutside, Idle
  <2> QED BY <1>0, <1>d, <2>0, <2>1, RefGrabbed
<1>6. CASE Abort
  <2>1. UNCHANGED <<ctxVars, callVars, held, new>>
    BY <1>6 DEF Abort
  <2>2. \A t \in Threads : pc'[t] = IF pc[t] = "asleep" THEN "top" ELSE pc[t]
    BY <1>6 DEF Abort
  <2>3. \A t \in Threads, s \in Services :
           /\ Dispatching(t, s)' <=> Dispatching(t, s)
           /\ Calling(t, s)' <=> Calling(t, s)
           /\ Launching(t, s)' <=> Launching(t, s)
    BY <2>1, <2>2 DEF Dispatching, Calling, Launching
  <2> QED BY <1>0, <2>1, <2>3, SameReferences
<1>7. CASE Terminated
  <2>1. UNCHANGED <<ctxVars, callVars, held, new, pc>>
    BY <1>7 DEF Terminated, vars
  <2>2. \A t \in Threads, s \in Services :
           /\ Dispatching(t, s)' <=> Dispatching(t, s)
           /\ Calling(t, s)' <=> Calling(t, s)
           /\ Launching(t, s)' <=> Launching(t, s)
    BY <2>1 DEF Dispatching, Calling, Launching
  <2> QED BY <1>0, <2>1, <2>2, SameReferences
<1> QED BY <1>t, <1>w, <1>1, <1>2, <1>3, <1>4, <1>5, <1>6, <1>7 DEF Next

-----------------------------------------------------------------------------
(***************************************************************************)
(* The lives of contexts.                                                  *)
(***************************************************************************)
Uses(t, s) ==
    \/ Dispatching(t, s) \/ Calling(t, s) \/ Launching(t, s)
    \/ to[t] = s /\ op[t] = "delete"

(* NoUseAfterFree, without what it says of queues.                         *)
UsedLives ==
    /\ \A s \in Services :
          s \in slots \/ (\E t \in Threads : Uses(t, s))
             => life[s] \in {"init", "up"} /\ mqLife[s] = "live" /\ ~released[s]
    /\ \A t, u \in Threads :
          op[t] = "delete" /\ op[u] = "delete" /\ to[t] = to[u] => t = u

LifeAll == UsedLives /\ LifeInv

LEMMA LifeFromIInv == IInv => LifeAll
BY DEF IInv, LifeAll, UsedLives, NoUseAfterFree, Uses

Launched(t, s) == new[t] = s /\ pc[t] \in {"init", "retire"}

(* A step of t that only moves references about.                           *)
LEMMA LifeKept ==
    ASSUME LifeAll, NEW t \in Threads, SameElsewhere(t),
           UNCHANGED <<life, released, mqLife>>, slots' \subseteq slots,
           \A s \in Services :
              /\ Uses(t, s)' => Uses(t, s) \/ s \in slots
              /\ Dispatching(t, s)' => Dispatching(t, s)
              /\ Launched(t, s) /\ s \in slots' => Launched(t, s)',
           pc'[t] = "init" => pc[t] = "init" /\ new'[t] = new[t],
           op'[t] = "delete" => op[t] = "delete" /\ to'[t] = to[t]
    PROVE  LifeAll'
<1>1. \A u \in Threads \ {t}, s \in Services :
         /\ Uses(u, s)' <=> Uses(u, s)
         /\ Dispatching(u, s)' <=> Dispatching(u, s)
         /\ Launched(u, s)' <=> Launched(u, s)
  BY DEF SameElsewhere, Uses, Dispatching, Calling, Launching, Launched
<1>2. \A s \in Services :
         s \in slots' \/ (\E u \in Threads : Uses(u, s)')
            => life'[s] \in {"init", "up"} /\ mqLife'[s] = "live" /\ ~released'[s]
  BY <1>1 DEF LifeAll, UsedLives
<1>3. \A u, v \in Threads :
         op'[u] = "delete" /\ op'[v] = "delete" /\ to'[u] = to'[v] => u = v
  BY DEF LifeAll, UsedLives, SameElsewhere
<1>4. UsedLives'
  BY <1>2, <1>3 DEF UsedLives
<1>5. ASSUME NEW s \in Services
      PROVE  /\ life'[s] = "none" => mqLife'[s] = "none"
             /\ released'[s] => life'[s] = "freed"
             /\ \A u \in Threads : Dispatching(u, s)' => life'[s] = "up"
  BY <1>1 DEF LifeAll, LifeInv
<1>6. ASSUME NEW s \in Services, s \in slots', life'[s] = "init"
      PROVE  \E u \in Threads : Launched(u, s)'
  <2>1. PICK u \in Threads : Launched(u, s)
    BY <1>6 DEF LifeAll, LifeInv, Launched
  <2> QED BY <1>1, <1>6, <2>1
<1>7. \A u \in Threads : pc'[u] = "init" => life'[new'[u]] = "init"
  BY DEF LifeAll, LifeInv, SameElsewhere
<1>8. LifeInv'
  BY <1>5, <1>6, <1>7 DEF LifeInv, Launched
<1> QED BY <1>4, <1>8 DEF LifeAll

LEMMA NextLife ==
    ASSUME IInv, Next PROVE LifeAll'
<1> USE Distinct DEF Put, Idle
<1>0. /\ TypeOK /\ ControlInv /\ LifeAll /\ OnePlace /\ FlagInv
      /\ RefInv /\ LastReference
  BY LifeFromIInv DEF IInv, RefInv
<1>t. ASSUME NEW t \in Threads, CallStep(t) PROVE LifeAll'
  <2>1. CASE MqPush(t)
    <3>1. SameElsewhere(t) /\ UNCHANGED <<life, released, mqLife>> /\ slots' \subseteq slots
      BY <1>0, <1>t, <2>1 DEF TypeOK, SameElsewhere, MqPush, GlobalmqPush
    <3>2. \A s \in Services :
             /\ Uses(t, s)' => Uses(t, s) \/ s \in slots
             /\ Dispatching(t, s)' => Dispatching(t, s)
             /\ Launched(t, s) /\ s \in slots' => Launched(t, s)'
      BY <1>0, <1>t, <2>1
         DEF TypeOK, ControlInv, Control, Batch, Uses, Dispatching, Calling, Launching,
             Launched, MqPush, GlobalmqPush
    <3>3. /\ pc'[t] = "init" => pc[t] = "init" /\ new'[t] = new[t]
          /\ op'[t] = "delete" => op[t] = "delete" /\ to'[t] = to[t]
      BY <1>0, <1>t, <2>1 DEF TypeOK, MqPush, GlobalmqPush
    <3> QED BY <1>0, <1>t, <3>1, <3>2, <3>3, LifeKept
  <2>2. CASE ContextRelease(t)
    <3>1. /\ SameElsewhere(t) /\ UNCHANGED <<slots, life, released, mqLife, pc, held, new>>
          /\ to[t] \in Services /\ Calling(t, to[t])
      BY <1>0, <1>t, <2>2, HandleTypes DEF TypeOK, SameElsewhere, ContextRelease, Calling
    <3>2. CASE ref[to[t]] # 1
      <4>1. op'[t] = "none"
        BY <1>0, <1>t, <2>2, <3>2 DEF TypeOK, ContextRelease
      <4>2. \A s \in Services :
               /\ Uses(t, s)' => Uses(t, s) \/ s \in slots
               /\ Dispatching(t, s)' => Dispatching(t, s)
               /\ Launched(t, s) /\ s \in slots' => Launched(t, s)'
        BY <3>1, <4>1 DEF Uses, Dispatching, Calling, Launching, Launched
      <4> QED BY <1>0, <1>t, <3>1, <4>1, <4>2, LifeKept
    <3>3. CASE ref[to[t]] = 1
      <4>1. op' = [op EXCEPT ![t] = "delete"] /\ to' = to
        BY <2>2, <3>3 DEF ContextRelease
      <4>2. \A u \in Threads, s \in Services :
               /\ Uses(u, s)' => Uses(u, s)
               /\ Dispatching(u, s)' <=> Dispatching(u, s)
        BY <1>0, <1>t, <3>1, <4>1 DEF TypeOK, Uses, Dispatching, Calling, Launching
      <4>3. \A u \in Threads \ {t} : op[u] = "delete" => to[u] # to[t]
        BY <1>0, <3>3 DEF LastReference
      <4>4. \A u \in Threads : op'[u] = "delete" => u = t \/ op[u] = "delete"
        BY <1>0, <1>t, <4>1 DEF TypeOK
      <4>5. UsedLives'
        BY <1>0, <3>1, <4>1, <4>2, <4>3, <4>4 DEF LifeAll, UsedLives
      <4>6. LifeInv'
        BY <1>0, <3>1, <4>2 DEF LifeAll, LifeInv
      <4> QED BY <4>5, <4>6 DEF LifeAll
    <3> QED BY <3>2, <3>3
  <2>3. CASE DeleteContext(t)
    <3> DEFINE x == to[t]
    <3>1. /\ x \in Services /\ op[t] = "delete" /\ ref[x] = 0
          /\ life' = [life EXCEPT ![x] = "freed"] /\ released' = [released EXCEPT ![x] = TRUE]
          /\ op' = [op EXCEPT ![t] = "none"] /\ to' = [to EXCEPT ![t] = None]
          /\ UNCHANGED <<slots, mqLife, pc, held, new>>
      BY <1>0, <1>t, <2>3, HandleTypes DEF DeleteContext, MarkRelease, LastReference
    <3>2. ASSUME NEW u \in Threads
          PROVE  ~Dispatching(u, x) /\ ~Calling(u, x) /\ ~Launching(u, x) /\ x \notin slots
      <4>1. ref[x] >= Own(u, x) + One(x \in slots)
        BY <1>0, <3>1, OwnCounts DEF RefInv
      <4> QED BY <3>1, <4>1 DEF Own, One
    <3> HIDE DEF x
    <3>3. \A u \in Threads : Uses(u, x) => u = t
      BY <1>0, <1>t, <3>1, <3>2 DEF Uses, LifeAll, UsedLives, x
    <3>4. \A u \in Threads, s \in Services :
             /\ Uses(u, s)' => Uses(u, s) /\ s # x
             /\ Dispatching(u, s)' <=> Dispatching(u, s)
             /\ Launching(u, s)' <=> Launching(u, s)
      <4>1. \A u \in Threads \ {t} : op'[u] = op[u] /\ to'[u] = to[u]
        BY <1>0, <3>1 DEF TypeOK
      <4>2. op'[t] = "none"
        BY <1>0, <1>t, <3>1 DEF TypeOK
      <4> QED BY <3>1, <3>2, <3>3, <4>1, <4>2 DEF Uses, Dispatching, Calling, Launching
    <3>5. \A s \in Services : /\ life'[s] = IF s = x THEN "freed" ELSE life[s]
                              /\ released'[s] <=> released[s] \/ s = x
      BY <1>0, <3>1 DEF TypeOK
    <3>6. \A u \in Threads : op'[u] = "delete" => op[u] = "delete" /\ to'[u] = to[u]
      BY <1>0, <1>t, <3>1 DEF TypeOK
    <3>7. UsedLives'
      <4>1. x \notin slots
        BY <1>t, <3>2
      <4> QED BY <1>0, <3>1, <3>4, <3>5, <3>6, <4>1 DEF LifeAll, UsedLives
    <3>8. LifeInv'
      <4>1. x \notin slots /\ \A u \in Threads : ~Dispatching(u, x) /\ ~Launching(u, x)
        BY <1>t, <3>2
      <4>2. \A u \in Threads : pc[u] = "init" => new[u] \in Services /\ new[u] # x
        BY <1>0, <4>1, HandleTypes DEF Launching, ControlInv, Control
      <4> QED BY <1>0, <3>1, <3>4, <3>5, <4>1, <4>2 DEF LifeAll, LifeInv
    <3> QED BY <3>7, <3>8 DEF LifeAll
  <2> QED BY <1>t, <2>1, <2>2, <2>3 DEF CallStep
<1>w. ASSUME NEW t \in Workers, WorkerStep(t) PROVE LifeAll'
  <2>0. t \in Threads
    BY DEF Threads
  <2>1. CASE InitSucceeds(t)
    <3> DEFINE x == new[t]
    <3>1. /\ SameElsewhere(t) /\ UNCHANGED <<slots, released, mqLife, held>>
          /\ life' = [life EXCEPT ![x] = "up"]
          /\ x \in Services /\ pc[t] = "init" /\ pc'[t] = "handler" /\ new'[t] = None
          /\ op'[t] = "release" /\ to'[t] = x /\ op[t] = "none"
      BY <1>0, <2>0, <2>1, HandleTypes DEF TypeOK, SameElsewhere, InitSucceeds, BeginRelease,
                                         Idle, ControlInv, Control
    <3>2. life[x] = "init" /\ Launching(t, x)
      BY <1>0, <2>0, <3>1 DEF LifeAll, LifeInv, Launching
    <3>3. \A s \in Services :
             /\ Uses(t, s)' => Uses(t, s)
             /\ Dispatching(t, s)' => Dispatching(t, s)
             /\ Launched(t, s) => s = x
      BY <3>1 DEF Uses, Dispatching, Calling, Launching, Launched
    <3>4. \A u \in Threads \ {t} : new[u] # x
      BY <1>0, <2>0, <3>1 DEF OnePlace
    <3> HIDE DEF x
    <3>5. \A u \in Threads \ {t}, s \in Services :
             /\ Uses(u, s)' <=> Uses(u, s)
             /\ Dispatching(u, s)' <=> Dispatching(u, s)
             /\ Launched(u, s)' <=> Launched(u, s)
      BY <3>1 DEF SameElsewhere, Uses, Dispatching, Calling, Launching, Launched
    <3>6. \A s \in Services : life'[s] = IF s = x THEN "up" ELSE life[s]
      BY <1>0, <3>1 DEF TypeOK
    <3>7. \A u, v \in Threads :
             op'[u] = "delete" /\ op'[v] = "delete" /\ to'[u] = to'[v] => u = v
      BY <1>0, <3>1 DEF LifeAll, UsedLives, SameElsewhere
    <3>8. UsedLives'
      BY <1>0, <3>1, <3>3, <3>5, <3>6, <3>7 DEF LifeAll, UsedLives
    <3>9. ASSUME NEW s \in Services
          PROVE  /\ life'[s] = "none" => mqLife'[s] = "none"
                 /\ released'[s] => life'[s] = "freed"
                 /\ \A u \in Threads : Dispatching(u, s)' => life'[s] = "up"
      BY <1>0, <3>1, <3>2, <3>3, <3>5, <3>6 DEF LifeAll, LifeInv
    <3>10. ASSUME NEW s \in Services, s \in slots', life'[s] = "init"
           PROVE  \E u \in Threads : Launched(u, s)'
      <4>1. life[s] = "init" /\ s # x /\ s \in slots
        BY <3>1, <3>6, <3>10
      <4>2. PICK u \in Threads : Launched(u, s)
        BY <1>0, <4>1 DEF LifeAll, LifeInv, Launched
      <4> QED BY <3>3, <3>5, <4>1, <4>2
    <3>11. \A u \in Threads : pc'[u] = "init" => life'[new'[u]] = "init"
      <4>1. \A u \in Threads : pc[u] = "init" => new[u] \in Services
        BY <1>0, HandleTypes DEF ControlInv, Control
      <4> QED BY <1>0, <3>1, <3>4, <3>6, <4>1 DEF LifeAll, LifeInv, SameElsewhere
    <3>12. LifeInv'
      BY <3>9, <3>10, <3>11 DEF LifeInv, Launched
    <3> QED BY <3>8, <3>12 DEF LifeAll
  <2>2. CASE InitFails(t)
    <3>1. SameElsewhere(t) /\ UNCHANGED <<life, released, mqLife>> /\ slots' \subseteq slots
      BY <1>0, <2>0, <2>2 DEF TypeOK, SameElsewhere, InitFails, BeginRelease
    <3>2. \A s \in Services :
             /\ Uses(t, s)' => Uses(t, s) \/ s \in slots
             /\ Dispatching(t, s)' => Dispatching(t, s)
             /\ Launched(t, s) /\ s \in slots' => Launched(t, s)'
      BY <1>0, <2>0, <2>2
         DEF TypeOK, ControlInv, Control, Batch, Uses, Dispatching, Calling, Launching,
             Launched, InitFails, BeginRelease
    <3>3. /\ pc'[t] = "init" => pc[t] = "init" /\ new'[t] = new[t]
          /\ op'[t] = "delete" => op[t] = "delete" /\ to'[t] = to[t]
      BY <1>0, <2>0, <2>2 DEF TypeOK, InitFails, BeginRelease
    <3> QED BY <1>0, <2>0, <3>1, <3>2, <3>3, LifeKept
  <2>3. CASE RetireFailed(t)
    <3>1. SameElsewhere(t) /\ UNCHANGED <<life, released, mqLife>> /\ slots' \subseteq slots
      BY <1>0, <2>0, <2>3 DEF TypeOK, SameElsewhere, RetireFailed, BeginRelease
    <3>2. \A s \in Services :
             /\ Uses(t, s)' => Uses(t, s) \/ s \in slots
             /\ Dispatching(t, s)' => Dispatching(t, s)
             /\ Launched(t, s) /\ s \in slots' => Launched(t, s)'
      BY <1>0, <2>0, <2>3
         DEF TypeOK, ControlInv, Control, Batch, Uses, Dispatching, Calling, Launching,
             Launched, RetireFailed, BeginRelease
    <3>3. /\ pc'[t] = "init" => pc[t] = "init" /\ new'[t] = new[t]
          /\ op'[t] = "delete" => op[t] = "delete" /\ to'[t] = to[t]
      BY <1>0, <2>0, <2>3 DEF TypeOK, RetireFailed, BeginRelease
    <3> QED BY <1>0, <2>0, <3>1, <3>2, <3>3, LifeKept
  <2>4. CASE MqRelease(t)
    <3>1. SameElsewhere(t) /\ UNCHANGED <<life, released, mqLife>> /\ slots' \subseteq slots
      BY <1>0, <2>0, <2>4 DEF TypeOK, SameElsewhere, MqRelease, GlobalmqPush, AfterOrphan
    <3>2. \A s \in Services :
             /\ Uses(t, s)' => Uses(t, s) \/ s \in slots
             /\ Dispatching(t, s)' => Dispatching(t, s)
             /\ Launched(t, s) /\ s \in slots' => Launched(t, s)'
      BY <1>0, <2>0, <2>4
         DEF TypeOK, ControlInv, Control, Batch, Uses, Dispatching, Calling, Launching,
             Launched, MqRelease, GlobalmqPush, AfterOrphan
    <3>3. /\ pc'[t] = "init" => pc[t] = "init" /\ new'[t] = new[t]
          /\ op'[t] = "delete" => op[t] = "delete" /\ to'[t] = to[t]
      BY <1>0, <2>0, <2>4 DEF TypeOK, MqRelease, GlobalmqPush, AfterOrphan
    <3> QED BY <1>0, <2>0, <3>1, <3>2, <3>3, LifeKept
  <2>5. CASE DropMessage(t)
    <3>1. SameElsewhere(t) /\ UNCHANGED <<life, released, mqLife>> /\ slots' \subseteq slots
      BY <1>0, <2>0, <2>5 DEF TypeOK, SameElsewhere, DropMessage, GrabToPush
    <3>2. \A s \in Services :
             /\ Uses(t, s)' => Uses(t, s) \/ s \in slots
             /\ Dispatching(t, s)' => Dispatching(t, s)
             /\ Launched(t, s) /\ s \in slots' => Launched(t, s)'
      BY <1>0, <2>0, <2>5
         DEF TypeOK, ControlInv, Control, Batch, Uses, Dispatching, Calling, Launching,
             Launched, DropMessage, GrabToPush
    <3>3. /\ pc'[t] = "init" => pc[t] = "init" /\ new'[t] = new[t]
          /\ op'[t] = "delete" => op[t] = "delete" /\ to'[t] = to[t]
      BY <1>0, <2>0, <2>5 DEF TypeOK, DropMessage, GrabToPush
    <3> QED BY <1>0, <2>0, <3>1, <3>2, <3>3, LifeKept
  <2>6. CASE FreeQueue(t)
    <3> DEFINE x == Orphan(t)
    <3>1. /\ SameElsewhere(t) /\ UNCHANGED <<slots, life, released, op, to>>
          /\ mqLife' = [mqLife EXCEPT ![x] = "freed"]
          /\ x \in Services /\ released[x] /\ pc'[t] \in {"next", "handler"}
      BY <1>0, <2>0, <2>6, HandleTypes DEF TypeOK, SameElsewhere, FreeQueue, AfterOrphan, FlagInv
    <3>2. \A s \in Services :
             /\ Uses(t, s)' => Uses(t, s)
             /\ Dispatching(t, s)' => Dispatching(t, s)
             /\ ~Launched(t, s)
      BY <1>0, <2>0, <2>6
         DEF TypeOK, ControlInv, Control, FreeQueue, AfterOrphan, Uses, Dispatching,
             Calling, Launching, Launched
    <3> HIDE DEF x
    <3>3. \A u \in Threads \ {t}, s \in Services :
             /\ Uses(u, s)' <=> Uses(u, s)
             /\ Dispatching(u, s)' <=> Dispatching(u, s)
             /\ Launched(u, s)' <=> Launched(u, s)
      BY <3>1 DEF SameElsewhere, Uses, Dispatching, Calling, Launching, Launched
    <3>4. \A s \in Services : mqLife'[s] = IF s = x THEN "freed" ELSE mqLife[s]
      BY <1>0, <3>1 DEF TypeOK
    <3>5. UsedLives'
      BY <1>0, <3>1, <3>2, <3>3, <3>4 DEF LifeAll, UsedLives
    <3>6. ASSUME NEW s \in Services
          PROVE  /\ life'[s] = "none" => mqLife'[s] = "none"
                 /\ released'[s] => life'[s] = "freed"
                 /\ \A u \in Threads : Dispatching(u, s)' => life'[s] = "up"
      BY <1>0, <3>1, <3>2, <3>3, <3>4 DEF LifeAll, LifeInv
    <3>7. ASSUME NEW s \in Services, s \in slots', life'[s] = "init"
          PROVE  \E u \in Threads : Launched(u, s)'
      <4>1. PICK u \in Threads : Launched(u, s)
        BY <1>0, <3>1, <3>7 DEF LifeAll, LifeInv, Launched
      <4> QED BY <3>2, <3>3, <4>1
    <3>8. \A u \in Threads : pc'[u] = "init" => life'[new'[u]] = "init"
      BY <1>0, <3>1 DEF LifeAll, LifeInv, SameElsewhere
    <3>9. LifeInv'
      BY <3>6, <3>7, <3>8 DEF LifeInv, Launched
    <3> QED BY <3>5, <3>9 DEF LifeAll
  <2>7. CASE Stop(t)
    <3>1. SameElsewhere(t) /\ UNCHANGED <<life, released, mqLife>> /\ slots' \subseteq slots
      BY <1>0, <2>0, <2>7 DEF TypeOK, SameElsewhere, Stop, AtTop
    <3>2. \A s \in Services :
             /\ Uses(t, s)' => Uses(t, s) \/ s \in slots
             /\ Dispatching(t, s)' => Dispatching(t, s)
             /\ Launched(t, s) /\ s \in slots' => Launched(t, s)'
      BY <1>0, <2>0, <2>7
         DEF TypeOK, ControlInv, Control, Batch, Uses, Dispatching, Calling, Launching,
             Launched, Stop, AtTop
    <3>3. /\ pc'[t] = "init" => pc[t] = "init" /\ new'[t] = new[t]
          /\ op'[t] = "delete" => op[t] = "delete" /\ to'[t] = to[t]
      BY <1>0, <2>0, <2>7 DEF TypeOK, Stop, AtTop
    <3> QED BY <1>0, <2>0, <3>1, <3>2, <3>3, LifeKept
  <2>8. CASE Continue(t)
    <3>1. SameElsewhere(t) /\ UNCHANGED <<life, released, mqLife>> /\ slots' \subseteq slots
      BY <1>0, <2>0, <2>8 DEF TypeOK, SameElsewhere, Continue, AtTop
    <3>2. \A s \in Services :
             /\ Uses(t, s)' => Uses(t, s) \/ s \in slots
             /\ Dispatching(t, s)' => Dispatching(t, s)
             /\ Launched(t, s) /\ s \in slots' => Launched(t, s)'
      BY <1>0, <2>0, <2>8
         DEF TypeOK, ControlInv, Control, Batch, Uses, Dispatching, Calling, Launching,
             Launched, Continue, AtTop
    <3>3. /\ pc'[t] = "init" => pc[t] = "init" /\ new'[t] = new[t]
          /\ op'[t] = "delete" => op[t] = "delete" /\ to'[t] = to[t]
      BY <1>0, <2>0, <2>8 DEF TypeOK, Continue, AtTop
    <3> QED BY <1>0, <2>0, <3>1, <3>2, <3>3, LifeKept
  <2>9. CASE GlobalmqPop(t)
    <3>1. SameElsewhere(t) /\ UNCHANGED <<life, released, mqLife>> /\ slots' \subseteq slots
      BY <1>0, <2>0, <2>9 DEF TypeOK, SameElsewhere, GlobalmqPop
    <3>2. \A s \in Services :
             /\ Uses(t, s)' => Uses(t, s) \/ s \in slots
             /\ Dispatching(t, s)' => Dispatching(t, s)
             /\ Launched(t, s) /\ s \in slots' => Launched(t, s)'
      BY <1>0, <2>0, <2>9
         DEF TypeOK, ControlInv, Control, Batch, Uses, Dispatching, Calling, Launching,
             Launched, GlobalmqPop
    <3>3. /\ pc'[t] = "init" => pc[t] = "init" /\ new'[t] = new[t]
          /\ op'[t] = "delete" => op[t] = "delete" /\ to'[t] = to[t]
      BY <1>0, <2>0, <2>9 DEF TypeOK, GlobalmqPop
    <3> QED BY <1>0, <2>0, <3>1, <3>2, <3>3, LifeKept
  <2>10. CASE GrabContext(t)
    <3>1. /\ SameElsewhere(t) /\ UNCHANGED <<slots, life, released, mqLife, held, new, op, to>>
          /\ op[t] = "none" /\ pc[t] = "grab" /\ held[t] \in Services
      BY <1>0, <2>0, <2>10, HandleTypes DEF TypeOK, SameElsewhere, GrabContext, Idle
    <3>2. CASE held[t] \notin slots
      <4>1. pc'[t] = "mqrelease" /\ new[t] = None
        BY <1>0, <2>0, <2>10, <3>2 DEF TypeOK, GrabContext, ControlInv, Control
      <4>2. \A s \in Services :
               /\ Uses(t, s)' => Uses(t, s) \/ s \in slots
               /\ Dispatching(t, s)' => Dispatching(t, s)
               /\ Launched(t, s) /\ s \in slots' => Launched(t, s)'
        BY <3>1, <4>1 DEF Uses, Dispatching, Calling, Launching, Launched
      <4> QED BY <1>0, <2>0, <3>1, <4>1, <4>2, LifeKept
    <3>3. CASE held[t] \in slots
      <4>1. pc'[t] = "pop" /\ new[t] = None
        BY <1>0, <2>0, <2>10, <3>3 DEF TypeOK, GrabContext, ControlInv, Control
      <4>2. life[held[t]] = "up"
        <5>1. life[held[t]] \in {"init", "up"}
          BY <1>0, <3>1, <3>3 DEF LifeAll, UsedLives
        <5>2. ASSUME life[held[t]] = "init" PROVE FALSE
          <6>1. PICK u \in Threads : new[u] = held[t]
            BY <1>0, <3>1, <3>3, <5>2 DEF LifeAll, LifeInv
          <6> QED BY <1>0, <2>0, <3>1, <4>1, <6>1 DEF OnePlace
        <5> QED BY <5>1, <5>2
      <4>3. \A u \in Threads \ {t}, s \in Services :
               /\ Uses(u, s)' <=> Uses(u, s)
               /\ Dispatching(u, s)' <=> Dispatching(u, s)
               /\ Launched(u, s)' <=> Launched(u, s)
        BY <3>1 DEF SameElsewhere, Uses, Dispatching, Calling, Launching, Launched
      <4>4. \A s \in Services :
               /\ Uses(t, s)' => s = held[t]
               /\ Dispatching(t, s)' => s = held[t]
               /\ ~Launched(t, s)
        BY <3>1, <4>1 DEF Uses, Dispatching, Calling, Launching, Launched
      <4>5. \A s \in Services :
               s \in slots' \/ (\E u \in Threads : Uses(u, s)')
                  => life'[s] \in {"init", "up"} /\ mqLife'[s] = "live" /\ ~released'[s]
        BY <1>0, <3>1, <3>3, <4>3, <4>4 DEF LifeAll, UsedLives
      <4>6. UsedLives'
        BY <1>0, <3>1, <4>5 DEF LifeAll, UsedLives
      <4>7. ASSUME NEW s \in Services
            PROVE  /\ life'[s] = "none" => mqLife'[s] = "none"
                   /\ released'[s] => life'[s] = "freed"
                   /\ \A u \in Threads : Dispatching(u, s)' => life'[s] = "up"
        BY <1>0, <3>1, <4>2, <4>3, <4>4 DEF LifeAll, LifeInv
      <4>8. ASSUME NEW s \in Services, s \in slots', life'[s] = "init"
            PROVE  \E u \in Threads : Launched(u, s)'
        <5>1. PICK u \in Threads : Launched(u, s)
          BY <1>0, <3>1, <4>8 DEF LifeAll, LifeInv, Launched
        <5> QED BY <4>3, <4>4, <5>1
      <4>9. \A u \in Threads : pc'[u] = "init" => life'[new'[u]] = "init"
        BY <1>0, <3>1, <4>1 DEF LifeAll, LifeInv, SameElsewhere
      <4>10. LifeInv'
        BY <4>7, <4>8, <4>9 DEF LifeInv, Launched
      <4> QED BY <4>6, <4>10 DEF LifeAll
    <3> QED BY <3>2, <3>3
  <2>11. CASE MqPop(t)
    <3>1. SameElsewhere(t) /\ UNCHANGED <<life, released, mqLife>> /\ slots' \subseteq slots
      BY <1>0, <2>0, <2>11 DEF TypeOK, SameElsewhere, MqPop
    <3>2. \A s \in Services :
             /\ Uses(t, s)' => Uses(t, s) \/ s \in slots
             /\ Dispatching(t, s)' => Dispatching(t, s)
             /\ Launched(t, s) /\ s \in slots' => Launched(t, s)'
      BY <1>0, <2>0, <2>11
         DEF TypeOK, ControlInv, Control, Batch, Uses, Dispatching, Calling, Launching,
             Launched, MqPop
    <3>3. /\ pc'[t] = "init" => pc[t] = "init" /\ new'[t] = new[t]
          /\ op'[t] = "delete" => op[t] = "delete" /\ to'[t] = to[t]
      BY <1>0, <2>0, <2>11 DEF TypeOK, MqPop
    <3> QED BY <1>0, <2>0, <3>1, <3>2, <3>3, LifeKept
  <2>12. CASE MqPopEmpty(t)
    <3>1. SameElsewhere(t) /\ UNCHANGED <<life, released, mqLife>> /\ slots' \subseteq slots
      BY <1>0, <2>0, <2>12 DEF TypeOK, SameElsewhere, MqPopEmpty, BeginRelease
    <3>2. \A s \in Services :
             /\ Uses(t, s)' => Uses(t, s) \/ s \in slots
             /\ Dispatching(t, s)' => Dispatching(t, s)
             /\ Launched(t, s) /\ s \in slots' => Launched(t, s)'
      BY <1>0, <2>0, <2>12
         DEF TypeOK, ControlInv, Control, Batch, Uses, Dispatching, Calling, Launching,
             Launched, MqPopEmpty, BeginRelease
    <3>3. /\ pc'[t] = "init" => pc[t] = "init" /\ new'[t] = new[t]
          /\ op'[t] = "delete" => op[t] = "delete" /\ to'[t] = to[t]
      BY <1>0, <2>0, <2>12 DEF TypeOK, MqPopEmpty, BeginRelease
    <3> QED BY <1>0, <2>0, <3>1, <3>2, <3>3, LifeKept
  <2>13. CASE Measure(t)
    <3>1. SameElsewhere(t) /\ UNCHANGED <<life, released, mqLife>> /\ slots' \subseteq slots
      BY <1>0, <2>0, <2>13 DEF TypeOK, SameElsewhere, Measure
    <3>2. \A s \in Services :
             /\ Uses(t, s)' => Uses(t, s) \/ s \in slots
             /\ Dispatching(t, s)' => Dispatching(t, s)
             /\ Launched(t, s) /\ s \in slots' => Launched(t, s)'
      BY <1>0, <2>0, <2>13
         DEF TypeOK, ControlInv, Control, Batch, Uses, Dispatching, Calling, Launching,
             Launched, Measure
    <3>3. /\ pc'[t] = "init" => pc[t] = "init" /\ new'[t] = new[t]
          /\ op'[t] = "delete" => op[t] = "delete" /\ to'[t] = to[t]
      BY <1>0, <2>0, <2>13 DEF TypeOK, Measure
    <3> QED BY <1>0, <2>0, <3>1, <3>2, <3>3, LifeKept
  <2>14. CASE HandlerReturns(t)
    <3>1. SameElsewhere(t) /\ UNCHANGED <<life, released, mqLife>> /\ slots' \subseteq slots
      BY <1>0, <2>0, <2>14 DEF TypeOK, SameElsewhere, HandlerReturns
    <3>2. \A s \in Services :
             /\ Uses(t, s)' => Uses(t, s) \/ s \in slots
             /\ Dispatching(t, s)' => Dispatching(t, s)
             /\ Launched(t, s) /\ s \in slots' => Launched(t, s)'
      BY <1>0, <2>0, <2>14
         DEF TypeOK, ControlInv, Control, Batch, Uses, Dispatching, Calling, Launching,
             Launched, HandlerReturns
    <3>3. /\ pc'[t] = "init" => pc[t] = "init" /\ new'[t] = new[t]
          /\ op'[t] = "delete" => op[t] = "delete" /\ to'[t] = to[t]
      BY <1>0, <2>0, <2>14 DEF TypeOK, HandlerReturns
    <3> QED BY <1>0, <2>0, <3>1, <3>2, <3>3, LifeKept
  <2>15. CASE PopNext(t)
    <3>1. SameElsewhere(t) /\ UNCHANGED <<life, released, mqLife>> /\ slots' \subseteq slots
      BY <1>0, <2>0, <2>15 DEF TypeOK, SameElsewhere, PopNext, BeginRelease
    <3>2. \A s \in Services :
             /\ Uses(t, s)' => Uses(t, s) \/ s \in slots
             /\ Dispatching(t, s)' => Dispatching(t, s)
             /\ Launched(t, s) /\ s \in slots' => Launched(t, s)'
      BY <1>0, <2>0, <2>15
         DEF TypeOK, ControlInv, Control, Batch, Uses, Dispatching, Calling, Launching,
             Launched, PopNext, BeginRelease
    <3>3. /\ pc'[t] = "init" => pc[t] = "init" /\ new'[t] = new[t]
          /\ op'[t] = "delete" => op[t] = "delete" /\ to'[t] = to[t]
      BY <1>0, <2>0, <2>15 DEF TypeOK, PopNext, BeginRelease
    <3> QED BY <1>0, <2>0, <3>1, <3>2, <3>3, LifeKept
  <2>16. CASE PushBack(t)
    <3>1. SameElsewhere(t) /\ UNCHANGED <<life, released, mqLife>> /\ slots' \subseteq slots
      BY <1>0, <2>0, <2>16 DEF TypeOK, SameElsewhere, PushBack, GlobalmqPush, BeginRelease
    <3>2. \A s \in Services :
             /\ Uses(t, s)' => Uses(t, s) \/ s \in slots
             /\ Dispatching(t, s)' => Dispatching(t, s)
             /\ Launched(t, s) /\ s \in slots' => Launched(t, s)'
      BY <1>0, <2>0, <2>16
         DEF TypeOK, ControlInv, Control, Batch, Uses, Dispatching, Calling, Launching,
             Launched, PushBack, GlobalmqPush, BeginRelease
    <3>3. /\ pc'[t] = "init" => pc[t] = "init" /\ new'[t] = new[t]
          /\ op'[t] = "delete" => op[t] = "delete" /\ to'[t] = to[t]
      BY <1>0, <2>0, <2>16 DEF TypeOK, PushBack, GlobalmqPush, BeginRelease
    <3> QED BY <1>0, <2>0, <3>1, <3>2, <3>3, LifeKept
  <2>17. CASE Sleep(t)
    <3>1. SameElsewhere(t) /\ UNCHANGED <<life, released, mqLife>> /\ slots' \subseteq slots
      BY <1>0, <2>0, <2>17 DEF TypeOK, SameElsewhere, Sleep
    <3>2. \A s \in Services :
             /\ Uses(t, s)' => Uses(t, s) \/ s \in slots
             /\ Dispatching(t, s)' => Dispatching(t, s)
             /\ Launched(t, s) /\ s \in slots' => Launched(t, s)'
      BY <1>0, <2>0, <2>17
         DEF TypeOK, ControlInv, Control, Batch, Uses, Dispatching, Calling, Launching,
             Launched, Sleep
    <3>3. /\ pc'[t] = "init" => pc[t] = "init" /\ new'[t] = new[t]
          /\ op'[t] = "delete" => op[t] = "delete" /\ to'[t] = to[t]
      BY <1>0, <2>0, <2>17 DEF TypeOK, Sleep
    <3> QED BY <1>0, <2>0, <3>1, <3>2, <3>3, LifeKept
  <2> QED BY <1>w, <2>1, <2>2, <2>3, <2>4, <2>5, <2>6, <2>7, <2>8, <2>9, <2>10,
             <2>11, <2>12, <2>13, <2>14, <2>15, <2>16, <2>17 DEF WorkerStep
<1>1. ASSUME NEW t \in Workers, Wakeup(t) PROVE LifeAll'
  <2>0. t \in Threads
    BY DEF Threads
  <2>1. SameElsewhere(t) /\ UNCHANGED <<life, released, mqLife>> /\ slots' \subseteq slots
    BY <1>0, <2>0, <1>1 DEF TypeOK, SameElsewhere, Wakeup
  <2>2. \A s \in Services :
           /\ Uses(t, s)' => Uses(t, s) \/ s \in slots
           /\ Dispatching(t, s)' => Dispatching(t, s)
           /\ Launched(t, s) /\ s \in slots' => Launched(t, s)'
    BY <1>0, <2>0, <1>1
       DEF TypeOK, ControlInv, Control, Batch, Uses, Dispatching, Calling, Launching,
           Launched, Wakeup
  <2>3. /\ pc'[t] = "init" => pc[t] = "init" /\ new'[t] = new[t]
        /\ op'[t] = "delete" => op[t] = "delete" /\ to'[t] = to[t]
    BY <1>0, <2>0, <1>1 DEF TypeOK, Wakeup
  <2> QED BY <1>0, <2>0, <2>1, <2>2, <2>3, LifeKept
<1>2. ASSUME NEW t \in Workers, NEW s \in Services, SendMessage(t, s) PROVE LifeAll'
  <2>0. t \in Threads
    BY DEF Threads
  <2>1. SameElsewhere(t) /\ UNCHANGED <<life, released, mqLife>> /\ slots' \subseteq slots
    BY <1>0, <2>0, <1>2 DEF TypeOK, SameElsewhere, SendMessage, GrabToPush, InService
  <2>2. \A z \in Services :
           /\ Uses(t, z)' => Uses(t, z) \/ z \in slots
           /\ Dispatching(t, z)' => Dispatching(t, z)
           /\ Launched(t, z) /\ z \in slots' => Launched(t, z)'
    BY <1>0, <2>0, <1>2
       DEF TypeOK, ControlInv, Control, Batch, Uses, Dispatching, Calling, Launching,
           Launched, SendMessage, GrabToPush, InService
  <2>3. /\ pc'[t] = "init" => pc[t] = "init" /\ new'[t] = new[t]
        /\ op'[t] = "delete" => op[t] = "delete" /\ to'[t] = to[t]
    BY <1>0, <2>0, <1>2 DEF TypeOK, SendMessage, GrabToPush, InService
  <2> QED BY <1>0, <2>0, <2>1, <2>2, <2>3, LifeKept
<1>3. ASSUME NEW t \in Workers, NEW s \in Services, Retire(t, s) PROVE LifeAll'
  <2>0. t \in Threads
    BY DEF Threads
  <2>1. SameElsewhere(t) /\ UNCHANGED <<life, released, mqLife>> /\ slots' \subseteq slots
    BY <1>0, <2>0, <1>3 DEF TypeOK, SameElsewhere, Retire, BeginRelease, InService
  <2>2. \A z \in Services :
           /\ Uses(t, z)' => Uses(t, z) \/ z \in slots
           /\ Dispatching(t, z)' => Dispatching(t, z)
           /\ Launched(t, z) /\ z \in slots' => Launched(t, z)'
    BY <1>0, <2>0, <1>3
       DEF TypeOK, ControlInv, Control, Batch, Uses, Dispatching, Calling, Launching,
           Launched, Retire, BeginRelease, InService
  <2>3. /\ pc'[t] = "init" => pc[t] = "init" /\ new'[t] = new[t]
        /\ op'[t] = "delete" => op[t] = "delete" /\ to'[t] = to[t]
    BY <1>0, <2>0, <1>3 DEF TypeOK, Retire, BeginRelease, InService
  <2> QED BY <1>0, <2>0, <2>1, <2>2, <2>3, LifeKept
<1>4. ASSUME NEW t \in Workers, NEW s \in Services, ContextNew(t, s) PROVE LifeAll'
  <2>0. t \in Threads
    BY DEF Threads
  <2>1. /\ SameElsewhere(t) /\ UNCHANGED <<released, held, op, to>>
        /\ life' = [life EXCEPT ![s] = "init"] /\ mqLife' = [mqLife EXCEPT ![s] = "live"]
        /\ slots' = slots \cup {s} /\ life[s] = "none"
        /\ pc[t] = "handler" /\ pc'[t] = "init" /\ new'[t] = s /\ new[t] = None
    <3>1. SameElsewhere(t) /\ UNCHANGED <<released, held, op, to>>
      BY <1>0, <1>4, <2>0 DEF TypeOK, SameElsewhere, ContextNew, callVars
    <3>2. /\ life' = [life EXCEPT ![s] = "init"] /\ mqLife' = [mqLife EXCEPT ![s] = "live"]
          /\ slots' = slots \cup {s} /\ life[s] = "none"
      BY <1>4 DEF ContextNew, MqCreate
    <3>3. pc[t] = "handler" /\ pc'[t] = "init" /\ new'[t] = s
      BY <1>0, <1>4, <2>0 DEF TypeOK, ContextNew
    <3>4. new[t] = None
      BY <1>0, <2>0, <3>3 DEF ControlInv, Control
    <3> QED BY <3>1, <3>2, <3>3, <3>4
  <2>2. \A x \in Services :
           /\ Uses(t, x)' => Uses(t, x) \/ x = s
           /\ Dispatching(t, x)' => Dispatching(t, x)
           /\ ~Launched(t, x)
    BY <2>1 DEF Uses, Dispatching, Calling, Launching, Launched
  <2>3. \A u \in Threads \ {t}, x \in Services :
           /\ Uses(u, x)' <=> Uses(u, x)
           /\ Dispatching(u, x)' <=> Dispatching(u, x)
           /\ Launched(u, x)' <=> Launched(u, x)
    BY <2>1 DEF SameElsewhere, Uses, Dispatching, Calling, Launching, Launched
  <2>4. /\ \A x \in Services : life'[x] = IF x = s THEN "init" ELSE life[x]
        /\ \A x \in Services : mqLife'[x] = IF x = s THEN "live" ELSE mqLife[x]
    BY <1>0, <2>1 DEF TypeOK
  <2>5. ~released[s] /\ s \notin slots /\ \A u \in Threads : ~Uses(u, s)
    BY <1>0, <2>1 DEF LifeAll, LifeInv, UsedLives
  <2>6. UsedLives'
    <3>1. \A x \in Services :
             x \in slots' \/ (\E u \in Threads : Uses(u, x)')
                => life'[x] \in {"init", "up"} /\ mqLife'[x] = "live" /\ ~released'[x]
      BY <1>0, <2>1, <2>2, <2>3, <2>4, <2>5 DEF LifeAll, UsedLives
    <3> QED BY <1>0, <2>1, <3>1 DEF LifeAll, UsedLives
  <2>7. ASSUME NEW x \in Services
        PROVE  /\ life'[x] = "none" => mqLife'[x] = "none"
               /\ released'[x] => life'[x] = "freed"
               /\ \A u \in Threads : Dispatching(u, x)' => life'[x] = "up"
    BY <1>0, <2>1, <2>2, <2>3, <2>4, <2>5 DEF LifeAll, LifeInv
  <2>8. ASSUME NEW x \in Services, x \in slots', life'[x] = "init"
        PROVE  \E u \in Threads : Launched(u, x)'
    <3>1. CASE x = s
      BY <2>0, <2>1, <3>1 DEF Launched
    <3>2. CASE x # s
      <4>1. PICK u \in Threads : Launched(u, x)
        BY <1>0, <2>1, <2>4, <2>8, <3>2 DEF LifeAll, LifeInv, Launched
      <4> QED BY <2>2, <2>3, <4>1
    <3> QED BY <3>1, <3>2
  <2>9. \A u \in Threads : pc'[u] = "init" => life'[new'[u]] = "init"
    <3>1. \A u \in Threads : pc[u] = "init" => new[u] \in Services
      BY <1>0, HandleTypes DEF ControlInv, Control
    <3> QED BY <1>0, <2>1, <2>4, <3>1 DEF LifeAll, LifeInv, SameElsewhere
  <2>10. LifeInv'
    BY <2>7, <2>8, <2>9 DEF LifeInv, Launched
  <2> QED BY <2>6, <2>10 DEF LifeAll
<1>5. ASSUME NEW s \in Services, SendOutside(s) PROVE LifeAll'
  <2>0. Outside \in Threads
    BY DEF Threads
  <2>1. SameElsewhere(Outside) /\ UNCHANGED <<life, released, mqLife>> /\ slots' \subseteq slots
    BY <1>0, <2>0, <1>5 DEF TypeOK, SameElsewhere, SendOutside, GrabToPush
  <2>2. \A z \in Services :
           /\ Uses(Outside, z)' => Uses(Outside, z) \/ z \in slots
           /\ Dispatching(Outside, z)' => Dispatching(Outside, z)
           /\ Launched(Outside, z) /\ z \in slots' => Launched(Outside, z)'
    BY <1>0, <2>0, <1>5
       DEF TypeOK, ControlInv, Control, Batch, Uses, Dispatching, Calling, Launching,
           Launched, SendOutside, GrabToPush
  <2>3. /\ pc'[Outside] = "init" => pc[Outside] = "init" /\ new'[Outside] = new[Outside]
        /\ op'[Outside] = "delete" => op[Outside] = "delete" /\ to'[Outside] = to[Outside]
    BY <1>0, <2>0, <1>5 DEF TypeOK, SendOutside, GrabToPush
  <2> QED BY <1>0, <2>0, <2>1, <2>2, <2>3, LifeKept
<1>6. CASE Abort
  <2>1. UNCHANGED <<ctxVars, callVars, held, new, released, mqLife>>
    BY <1>6 DEF Abort
  <2>2. \A t \in Threads :
           \/ pc'[t] = pc[t]
           \/ pc[t] = "asleep" /\ pc'[t] = "top"
    BY <1>6 DEF Abort
  <2>3. \A t \in Threads, s \in Services :
           /\ Uses(t, s)' <=> Uses(t, s)
           /\ Dispatching(t, s)' <=> Dispatching(t, s)
           /\ Launched(t, s)' <=> Launched(t, s)
    BY <2>1, <2>2 DEF Uses, Dispatching, Calling, Launching, Launched
  <2>4. UsedLives'
    BY <1>0, <2>1, <2>3 DEF LifeAll, UsedLives
  <2>5. \A u \in Threads : pc'[u] = "init" => pc[u] = "init"
    BY <2>2
  <2>6. LifeInv'
    BY <1>0, <2>1, <2>3, <2>5 DEF LifeAll, LifeInv, Launched
  <2> QED BY <2>4, <2>6 DEF LifeAll
<1>7. CASE Terminated
  <2>1. UNCHANGED <<ctxVars, callVars, held, new, released, mqLife>>
    BY <1>7 DEF Terminated, vars
  <2>2. \A t \in Threads :
           \/ pc'[t] = pc[t]
           \/ pc[t] = "asleep" /\ pc'[t] = "top"
    BY <1>7 DEF Terminated, vars
  <2>3. \A t \in Threads, s \in Services :
           /\ Uses(t, s)' <=> Uses(t, s)
           /\ Dispatching(t, s)' <=> Dispatching(t, s)
           /\ Launched(t, s)' <=> Launched(t, s)
    BY <2>1, <2>2 DEF Uses, Dispatching, Calling, Launching, Launched
  <2>4. UsedLives'
    BY <1>0, <2>1, <2>3 DEF LifeAll, UsedLives
  <2>5. \A u \in Threads : pc'[u] = "init" => pc[u] = "init"
    BY <2>2
  <2>6. LifeInv'
    BY <1>0, <2>1, <2>3, <2>5 DEF LifeAll, LifeInv, Launched
  <2> QED BY <2>4, <2>6 DEF LifeAll
<1> QED BY <1>t, <1>w, <1>1, <1>2, <1>3, <1>4, <1>5, <1>6, <1>7 DEF Next

-----------------------------------------------------------------------------
(***************************************************************************)
(* The theorems.                                                           *)
(***************************************************************************)
LEMMA InitIInv == Init => IInv
<1> SUFFICES ASSUME Init PROVE IInv
  OBVIOUS
<1>1. TypeOK /\ ControlInv
  BY InitControl
<1>2. /\ globalq = <<Root>> /\ Len(globalq) = 1 /\ globalq[1] = Root
      /\ \A s : InQueue(s) <=> s = Root
  BY DEF Init, InQueue
<1>3. \A t \in Threads : held[t] = None /\ nextq[t] = None /\ new[t] = None
                         /\ op[t] = "none" /\ to[t] = None /\ pc[t] \in {"outside", "top"}
  BY DEF Init
<1>4. \A s \in Services : Placed(s) <=> s = Root
  BY <1>2, <1>3, Distinct DEF Placed
<1>5. OnePlace
  BY <1>2, <1>3, Distinct DEF OnePlace
<1>6. NoStrandedMail /\ FlagInv
  BY <1>3, <1>4 DEF Init, NoStrandedMail, FlagInv
<1>7. \A t \in Threads, s \in Services :
         ~Dispatching(t, s) /\ ~Calling(t, s) /\ ~Launching(t, s)
  BY <1>3 DEF Dispatching, Calling, Launching
<1>8. RefCountExact
  <2> SUFFICES ASSUME NEW s \in Services
               PROVE  ref[s] = Cardinality({t \in Threads : Dispatching(t, s)})
                               + Cardinality({t \in Threads : Calling(t, s)})
                               + Cardinality({t \in Threads : Launching(t, s)})
                               + (IF s \in slots THEN 1 ELSE 0)
    BY DEF RefCountExact
  <2>1. /\ {t \in Threads : Dispatching(t, s)} = {}
        /\ {t \in Threads : Calling(t, s)} = {}
        /\ {t \in Threads : Launching(t, s)} = {}
    BY <1>7
  <2>2. Cardinality({}) = 0
    BY FS_EmptySet
  <2>3. /\ Cardinality({t \in Threads : Dispatching(t, s)}) = 0
        /\ Cardinality({t \in Threads : Calling(t, s)}) = 0
        /\ Cardinality({t \in Threads : Launching(t, s)}) = 0
    BY <2>1, <2>2, Zenon
  <2>4. ref[s] = IF s \in slots THEN 1 ELSE 0
    BY DEF Init
  <2> DEFINE d == Cardinality({t \in Threads : Dispatching(t, s)})
             c == Cardinality({t \in Threads : Calling(t, s)})
             l == Cardinality({t \in Threads : Launching(t, s)})
  <2>5. d = 0 /\ c = 0 /\ l = 0
    BY <2>3
  <2> HIDE DEF d, c, l
  <2>6. ref[s] = d + c + l + (IF s \in slots THEN 1 ELSE 0)
    BY <2>4, <2>5
  <2> QED BY <2>6 DEF d, c, l
<1>9. LastReference
  BY <1>3 DEF LastReference
<1>10. NoUseAfterFree
  BY <1>3, <1>4, <1>7, Distinct DEF Init, NoUseAfterFree
<1>11. LifeInv
  BY <1>3, <1>7, Distinct DEF Init, LifeInv
<1> QED BY <1>1, <1>5, <1>6, <1>8, <1>9, <1>10, <1>11 DEF IInv

LEMMA NextIInv == IInv /\ [Next]_vars => IInv'
<1>1. ASSUME IInv, Next PROVE IInv'
  <2>1. TypeOK' /\ ControlInv' /\ QueueInv' /\ RefInv' /\ LifeAll'
    BY <1>1, NextType, NextControl, NextQueues, NextRefs, NextLife
  <2>2. NoUseAfterFree'
    BY <2>1 DEF QueueInv, PlacedLive, LifeAll, UsedLives, Uses, NoUseAfterFree
  <2> QED BY <2>1, <2>2 DEF IInv, QueueInv, RefInv, LifeAll
<1>2. ASSUME IInv, UNCHANGED vars PROVE IInv'
  <2>1. UNCHANGED <<slots, life, ref, mail, inGlobal, released, mqLife, globalq, pc, held,
                    nextq, left, op, to, from, new, sent, pushed, done, quit>>
    BY <1>2 DEF vars
  <2>2. TypeOK' /\ ControlInv'
    BY <1>2, <2>1 DEF IInv, TypeOK, ControlInv, Control
  <2>3. QueueInv'
    BY <1>2, <2>1, QueueFromIInv, QuietQueue
  <2>4. \A t \in Threads, s \in Services :
           /\ Dispatching(t, s)' <=> Dispatching(t, s)
           /\ Calling(t, s)' <=> Calling(t, s)
           /\ Launching(t, s)' <=> Launching(t, s)
    BY <2>1 DEF Dispatching, Calling, Launching
  <2>5. RefInv'
    BY <1>2, <2>1, <2>4, SameReferences DEF IInv, RefInv
  <2>6. NoUseAfterFree'
    BY <1>2, <2>1, <2>3, <2>4 DEF IInv, NoUseAfterFree, QueueInv, PlacedLive
  <2>7. LifeInv'
    BY <1>2, <2>1, <2>4 DEF IInv, LifeInv
  <2> QED BY <2>2, <2>3, <2>5, <2>6, <2>7 DEF IInv, QueueInv, RefInv
<1> QED BY <1>1, <1>2

LEMMA KernelInvariant == Spec => []IInv
BY InitIInv, NextIInv, PTL DEF Spec

(* Every variable keeps its type; a reference count never becomes          *)
(* negative.                                                               *)
THEOREM KernelTypeCorrect == Spec => []TypeOK
<1>1. IInv => TypeOK
  BY DEF IInv
<1> QED BY <1>1, KernelInvariant, PTL

(* No queue is linked twice or dispatched by two workers: mark, pop, push  *)
(* and release never disagree about where a queue is (skynet_mq.c).        *)
THEOREM OnePlaceHolds == Spec => []OnePlace
<1>1. IInv => OnePlace
  BY DEF IInv
<1> QED BY <1>1, KernelInvariant, PTL

(* No message is left in a queue that nobody will look at, and no released *)
(* queue is forgotten, whatever the order of pushes, pops and deletions.   *)
THEOREM NoStrandedMailHolds == Spec => []NoStrandedMail
<1>1. IInv => NoStrandedMail
  BY DEF IInv
<1> QED BY <1>1, KernelInvariant, PTL

(* The count that skynet_context_release decrements is the number of       *)
(* references in use, for any number of threads.                           *)
THEOREM RefCountExactHolds == Spec => []RefCountExact
<1>1. IInv => RefCountExact
  BY DEF IInv
<1> QED BY <1>1, KernelInvariant, PTL

(* No thread uses a context or a queue after it is freed, and no context   *)
(* is deleted by two threads.                                              *)
THEOREM NoUseAfterFreeHolds == Spec => []NoUseAfterFree
<1>1. IInv => NoUseAfterFree
  BY DEF IInv
<1> QED BY <1>1, KernelInvariant, PTL

(* dispatch_message's assertion that the service is initialised never      *)
(* fails, also when an init function fails while others send to it.        *)
THEOREM NoDispatchBeforeInitHolds == Spec => []NoDispatchBeforeInit
<1>1. IInv => NoDispatchBeforeInit
  <2> SUFFICES ASSUME IInv, NEW t \in Workers, pc[t] \in Batch
               PROVE  life[held[t]] = "up"
    BY DEF NoDispatchBeforeInit, Batch
  <2>1. t \in Threads /\ held[t] \in Services
    BY HandleTypes DEF IInv, Threads
  <2>2. Dispatching(t, held[t])
    BY DEF Dispatching, Batch
  <2> QED BY <2>1, <2>2 DEF IInv, LifeInv
<1> QED BY <1>1, KernelInvariant, PTL

-----------------------------------------------------------------------------
(***************************************************************************)
(* Conservation of messages.  What waits is the total of the lengths of    *)
(* the queues, and each step accounts for the message that it moves.       *)
(***************************************************************************)
Lengths == [s \in Services |-> Len(mail[s])]

LEMMA WaitingTotal == Waiting = TotalOf(Lengths)
<1> DEFINE g == [x \in Services |-> Len(mail[x])]
           Q(f) == [s \in SUBSET Services |-> IF s = {} THEN 0 ELSE g[AnyOf(s)] + f[s \ {AnyOf(s)}]]
           R(f) == [s \in SUBSET Services |-> IF s = {} THEN 0 ELSE Len(mail[AnyOf(s)]) + f[s \ {AnyOf(s)}]]
<1>1. \A s \in SUBSET Services : s # {} => g[AnyOf(s)] = Len(mail[AnyOf(s)])
  BY DEF AnyOf
<1>2. \A f : Q(f) = R(f)
  BY <1>1
<1>3. (CHOOSE f : f = Q(f)) = CHOOSE f : f = R(f)
  BY <1>2
<1>4. TotalOf(g) = (CHOOSE f : f = Q(f))[Services]
  BY DEF TotalOf, IsSum
<1>5. Waiting = (CHOOSE f : f = R(f))[Services]
  BY DEF Waiting, MapThenSumSet, MapThenFoldSet, AnyOf
<1> QED BY <1>3, <1>4, <1>5 DEF Lengths

LEMMA WaitingNext == (Waiting = TotalOf(Lengths))'
BY WaitingTotal, PTL

InHandOf(t) == One(t \in Workers /\ Handling(t))

(* A step of one thread on one queue conserves the messages if it accounts *)
(* for the message that it takes, finishes with or queues.                 *)
LEMMA ConservedStep ==
    ASSUME TypeOK, TypeOK', MessagesConserved, NEW t \in Threads, NEW s \in Services,
           \A u \in Threads \ {t} : Handling(u)' <=> Handling(u),
           \A r \in Services \ {s} : mail'[r] = mail[r],
           pushed' + done + InHandOf(t) + Len(mail[s]) = pushed + done' + InHandOf(t)' + Len(mail'[s])
    PROVE  MessagesConserved'
<1> DEFINE H == {u \in Workers : Handling(u)}
           T == {u \in Workers : Handling(u)'}
<1>0. pushed' + done + InHandOf(t) + Len(mail[s]) = pushed + done' + InHandOf(t)' + Len(mail'[s])
  OBVIOUS
<1>1. H \in SUBSET Threads /\ T \in SUBSET Threads /\ \A u \in Threads \ {t} : u \in H <=> u \in T
  BY DEF Threads
<1>2. Cardinality(T) - One(t \in T) = Cardinality(H) - One(t \in H)
  BY <1>1, CountOne
<1>3. Cardinality(T) \in Nat /\ Cardinality(H) \in Nat
  BY <1>1, ThreadsFinite
<1>4. InHand = Cardinality(H) /\ InHand' = Cardinality(T) /\ (t \in H <=> t \in Workers /\ Handling(t))
      /\ (t \in T <=> t \in Workers /\ Handling(t)')
  BY DEF InHand
<1>5. One(t \in H) = InHandOf(t) /\ One(t \in T) = InHandOf(t)' /\ InHandOf(t) \in Int /\ InHandOf(t)' \in Int
  BY <1>4 DEF InHandOf, One
<1>6. /\ Lengths \in [Services -> Int] /\ Lengths' \in [Services -> Int]
      /\ Lengths[s] = Len(mail[s]) /\ Lengths'[s] = Len(mail'[s])
      /\ \A r \in Services \ {s} : Lengths'[r] = Lengths[r]
  BY DEF Lengths, TypeOK
<1>7. Waiting' = Waiting + Len(mail'[s]) - Len(mail[s]) /\ Waiting \in Int
  <2>1. TotalOf(Lengths') = TotalOf(Lengths) + Lengths'[s] - Lengths[s]
    <3>1. IsFiniteSet(Services)
      BY KernelAssumption
    <3> QED BY ONLY <1>6, <3>1, s \in Services, TotalChange, Zenon
  <2>2. TotalOf(Lengths) \in Int
    BY <1>6, TotalType, KernelAssumption
  <2> QED BY <1>6, <2>1, <2>2, WaitingTotal, WaitingNext
<1>8. Len(mail[s]) \in Nat /\ Len(mail'[s]) \in Nat
  BY DEF TypeOK
<1>9. pushed \in Nat /\ done \in Nat /\ pushed' \in Nat /\ done' \in Nat
  BY DEF TypeOK
<1>10. InHand' - InHandOf(t)' = InHand - InHandOf(t) /\ InHand \in Int /\ InHand' \in Int
  BY <1>2, <1>3, <1>4, <1>5
<1>11. pushed = done + InHand + Waiting
  BY DEF MessagesConserved
<1>12. pushed' = done' + InHand' + Waiting'
  <2> DEFINE h == InHandOf(t)
             k == InHandOf(t)'
             i == InHand
             j == InHand'
             a == Len(mail[s])
             b == Len(mail'[s])
             w == Waiting
             v == Waiting'
             p == pushed
             q == pushed'
             d == done
             e == done'
  <2>1. /\ h \in Int /\ k \in Int /\ i \in Int /\ j \in Int /\ a \in Int /\ b \in Int /\ w \in Int
        /\ v = w + b - a /\ p \in Int /\ q \in Int /\ d \in Int /\ e \in Int
    BY <1>5, <1>7, <1>8, <1>9, <1>10
  <2>2. q + d + h + a = p + e + k + b /\ j - k = i - h /\ p = d + i + w
    BY <1>0, <1>10, <1>11
  <2> HIDE DEF h, k, i, j, a, b, w, v, p, q, d, e
  <2>3. q = e + j + v
    BY ONLY <2>1, <2>2
  <2> QED BY <2>3 DEF j, v, q, e
<1> QED BY <1>12 DEF MessagesConserved

LEMMA ConservedInit == Init => MessagesConserved
<1> SUFFICES ASSUME Init PROVE MessagesConserved
  OBVIOUS
<1>1. Waiting = 0
  <2>1. Lengths \in [Services -> Int] /\ \A s \in Services : Lengths[s] = 0
    BY DEF Lengths, Init
  <2> QED BY <2>1, TotalZero, KernelAssumption, WaitingTotal
<1>2. {t \in Workers : Handling(t)} = {}
  BY KernelAssumption DEF Init, Handling, Threads
<1>3. InHand = 0
  BY <1>2, FS_EmptySet DEF InHand
<1> QED BY <1>1, <1>3 DEF Init, MessagesConserved

LEMMA ConservedQuiet ==
    ASSUME TypeOK, TypeOK', MessagesConserved, UNCHANGED <<mail, pushed, done>>,
           \A u \in Workers : Handling(u)' <=> Handling(u)
    PROVE  MessagesConserved'
<1>1. Outside \in Threads /\ Root \in Services /\ Outside \notin Workers
  BY KernelAssumption DEF Threads
<1>2. Cardinality({u \in Workers : Handling(u)}) = Cardinality({u \in Workers : Handling(u)'})
  <2>1. {u \in Workers : Handling(u)} = {u \in Workers : Handling(u)'}
    OBVIOUS
  <2> QED BY <2>1
<1>3. InHand' = InHand
  BY <1>2 DEF InHand
<1>4. Lengths' = Lengths
  BY DEF Lengths
<1>5. Waiting' = Waiting
  BY <1>4, WaitingTotal, WaitingNext
<1> QED BY <1>3, <1>5 DEF MessagesConserved

(* The thread goes on without taking or finishing a message.               *)
LEMMA ConservedMove ==
    ASSUME TypeOK, TypeOK', MessagesConserved, UNCHANGED <<mail, pushed, done>>,
           NEW t \in Workers, NEW p, pc' = Put(pc, t, p), NEW n, new' = Put(new, t, n),
           Handling(t) <=> \/ p \in {"measure", "handler", "init", "retire"}
                           \/ p \in {"mqrelease", "drop"} /\ n # None
    PROVE  MessagesConserved'
<1>1. \A u \in Workers : /\ pc'[u] = IF u = t THEN p ELSE pc[u]
                         /\ new'[u] = IF u = t THEN n ELSE new[u]
  BY DEF TypeOK, Put, Threads
<1>2. \A u \in Workers : Handling(u)' <=> Handling(u)
  BY <1>1 DEF Handling
<1> QED BY <1>2, ConservedQuiet

LEMMA ConservedSame ==
    ASSUME TypeOK, TypeOK', MessagesConserved, UNCHANGED <<mail, pushed, done>>,
           NEW t \in Workers, NEW p, pc' = Put(pc, t, p), UNCHANGED new,
           Handling(t) <=> \/ p \in {"measure", "handler", "init", "retire"}
                           \/ p \in {"mqrelease", "drop"} /\ new[t] # None
    PROVE  MessagesConserved'
<1>1. new' = Put(new, t, new[t])
  BY DEF TypeOK, Put, Threads
<1> QED BY <1>1, ConservedMove

LEMMA ConservedCalls ==
    ASSUME IInv, TypeOK', MessagesConserved, NEW t \in Threads, CallStep(t)
    PROVE  MessagesConserved'
<1>0. TypeOK /\ Control(t)
  BY DEF IInv, ControlInv
<1>1. CASE MqPush(t)
  <2>1. to[t] \in Services /\ mail[to[t]] \in Seq(Handle) /\ from[t] \in Handle
    BY <1>0, <1>1 DEF MqPush, TypeOK, Control, Handle
  <2>2. Len(mail'[to[t]]) = Len(mail[to[t]]) + 1 /\ \A r \in Services \ {to[t]} : mail'[r] = mail[r]
    BY <1>0, <1>1, <2>1 DEF MqPush, TypeOK
  <2>3. pushed' = pushed + 1 /\ done' = done /\ UNCHANGED <<pc, new>> /\ pushed \in Nat /\ done \in Nat
    BY <1>0, <1>1 DEF MqPush, TypeOK
  <2>4. (\A u \in Threads : Handling(u)' <=> Handling(u)) /\ InHandOf(t)' = InHandOf(t) /\ InHandOf(t) \in Int
    BY <2>3 DEF Handling, InHandOf, One
  <2>5. Len(mail[to[t]]) \in Nat
    BY <2>1
  <2>6. pushed' + done + InHandOf(t) + Len(mail[to[t]]) = pushed + done' + InHandOf(t)' + Len(mail'[to[t]])
    BY <2>2, <2>3, <2>4, <2>5
  <2> QED BY <1>0, <2>1, <2>2, <2>4, <2>6, ConservedStep
<1>2. CASE ContextRelease(t) \/ DeleteContext(t)
  <2>1. UNCHANGED <<mail, pushed, done, pc, new>>
    BY <1>2 DEF ContextRelease, DeleteContext
  <2> QED BY <1>0, <2>1, ConservedQuiet DEF Handling
<1> QED BY <1>1, <1>2 DEF CallStep

LEMMA ConservedWorker ==
    ASSUME IInv, TypeOK', MessagesConserved, NEW t \in Workers, WorkerStep(t) \/ Wakeup(t)
    PROVE  MessagesConserved'
<1>0. TypeOK /\ Control(t) /\ t \in Threads
  BY DEF IInv, ControlInv, Threads
<1>1. CASE InitSucceeds(t)
  <2>1. pc' = Put(pc, t, "handler") /\ new' = Put(new, t, None) /\ UNCHANGED <<mail, pushed, done>> /\ Handling(t)
    BY <1>1 DEF InitSucceeds, Handling
  <2> QED BY <1>0, <2>1, ConservedMove
<1>2. CASE InitFails(t) \/ RetireFailed(t)
  <2>1. UNCHANGED <<mail, pushed, done, new>> /\ Handling(t) /\ new[t] # None
    BY <1>0, <1>2 DEF InitFails, RetireFailed, Handling, Control
  <2>2. pc' = Put(pc, t, "retire") \/ pc' = Put(pc, t, "mqrelease")
    BY <1>2 DEF InitFails, RetireFailed
  <2> QED BY <1>0, <2>1, <2>2, ConservedSame
<1>3. CASE AfterOrphan(t) /\ UNCHANGED <<mail, pushed, done>> /\ pc[t] \in {"mqrelease", "drop"}
  <2>1. CASE new[t] = None
    <3>1. pc' = Put(pc, t, "next") /\ new' = new /\ ~Handling(t)
      BY <1>3, <2>1 DEF AfterOrphan, Handling
    <3> QED BY <1>0, <1>3, <3>1, ConservedSame
  <2>2. CASE new[t] # None
    <3>1. pc' = Put(pc, t, "handler") /\ new' = Put(new, t, None) /\ Handling(t)
      BY <1>3, <2>2 DEF AfterOrphan, Handling
    <3> QED BY <1>0, <1>3, <3>1, ConservedMove
  <2> QED BY <2>1, <2>2
<1>4. CASE MqRelease(t)
  <2>1. CASE released[Orphan(t)]
    <3>1. pc' = Put(pc, t, "drop") /\ UNCHANGED <<mail, pushed, done, new>> /\ (Handling(t) <=> new[t] # None)
      BY <1>4, <2>1 DEF MqRelease, Handling
    <3> QED BY <1>0, <3>1, ConservedSame
  <2>2. CASE ~released[Orphan(t)]
    BY <1>3, <1>4, <2>2 DEF MqRelease
  <2> QED BY <2>1, <2>2
<1>5. CASE FreeQueue(t)
  BY <1>3, <1>5 DEF FreeQueue
<1>6. CASE DropMessage(t)
  <2> DEFINE q == Orphan(t)
  <2>1. q \in Services /\ mail[q] \in Seq(Handle) /\ mail[q] # <<>> /\ mail' = [mail EXCEPT ![q] = Tail(@)]
    BY <1>0, <1>6 DEF DropMessage, TypeOK, Control, Handle, Orphan
  <2> HIDE DEF q
  <2>2. Len(mail'[q]) = Len(mail[q]) - 1 /\ Len(mail[q]) \in Nat /\ \A r \in Services \ {q} : mail'[r] = mail[r]
    BY <1>0, <2>1 DEF TypeOK
  <2>3. done' = done + 1 /\ UNCHANGED <<pushed, pc, new>> /\ pushed \in Nat /\ done \in Nat
    BY <1>0, <1>6 DEF DropMessage, TypeOK
  <2>4. (\A u \in Threads : Handling(u)' <=> Handling(u)) /\ InHandOf(t)' = InHandOf(t) /\ InHandOf(t) \in Int
    BY <2>3 DEF Handling, InHandOf, One
  <2>5. pushed' + done + InHandOf(t) + Len(mail[q]) = pushed + done' + InHandOf(t)' + Len(mail'[q])
    BY <2>2, <2>3, <2>4
  <2> QED BY <1>0, <2>1, <2>2, <2>4, <2>5, ConservedStep
<1>7. CASE MqPop(t)
  <2>1. held[t] \in Services /\ mail[held[t]] \in Seq(Handle) /\ mail[held[t]] # <<>>
        /\ mail' = [mail EXCEPT ![held[t]] = Tail(@)]
    BY <1>0, <1>7 DEF MqPop, TypeOK, Control, Handle, Batch
  <2>2. /\ Len(mail'[held[t]]) = Len(mail[held[t]]) - 1 /\ Len(mail[held[t]]) \in Nat
        /\ \A r \in Services \ {held[t]} : mail'[r] = mail[r]
    BY <1>0, <2>1 DEF TypeOK
  <2>3. UNCHANGED <<pushed, done, new>> /\ pushed \in Nat /\ done \in Nat
    BY <1>0, <1>7 DEF MqPop, TypeOK
  <2>4. pc[t] = "pop" /\ pc'[t] \in {"measure", "handler"} /\ \A u \in Threads \ {t} : pc'[u] = pc[u]
    BY <1>0, <1>7 DEF MqPop, TypeOK, Put
  <2>5. (\A u \in Threads \ {t} : Handling(u)' <=> Handling(u)) /\ InHandOf(t)' = 1 /\ InHandOf(t) = 0
    BY <2>3, <2>4 DEF Handling, InHandOf, One
  <2>6. pushed' + done + InHandOf(t) + Len(mail[held[t]]) = pushed + done' + InHandOf(t)' + Len(mail'[held[t]])
    <3>1. \A p, d, a \in Nat : p + d + 0 + a = p + d + 1 + (a - 1)
      OBVIOUS
    <3>2. pushed + done + 0 + Len(mail[held[t]]) = pushed + done + 1 + (Len(mail[held[t]]) - 1)
      BY <2>2, <2>3, <3>1
    <3>3. pushed' = pushed /\ done' = done /\ InHandOf(t)' = 1 /\ InHandOf(t) = 0
          /\ Len(mail'[held[t]]) = Len(mail[held[t]]) - 1
      BY <2>2, <2>3, <2>5
    <3> QED BY ONLY <3>2, <3>3, Zenon
  <2> QED BY <1>0, <2>1, <2>2, <2>5, <2>6, ConservedStep
<1>8. CASE HandlerReturns(t)
  <2>1. done' = done + 1 /\ UNCHANGED <<mail, pushed, new>> /\ pushed \in Nat /\ done \in Nat
    BY <1>0, <1>8 DEF HandlerReturns, TypeOK
  <2>2. pc[t] = "handler" /\ pc'[t] \in {"requeue", "pop"} /\ \A u \in Threads \ {t} : pc'[u] = pc[u]
    BY <1>0, <1>8 DEF HandlerReturns, TypeOK, Put
  <2>3. (\A u \in Threads \ {t} : Handling(u)' <=> Handling(u)) /\ InHandOf(t)' = 0 /\ InHandOf(t) = 1
    BY <2>1, <2>2 DEF Handling, InHandOf, One
  <2>4. Root \in Services /\ mail'[Root] = mail[Root] /\ Len(mail[Root]) \in Nat
    BY <1>0, <2>1, KernelAssumption DEF TypeOK
  <2>5. pushed' + done + InHandOf(t) + Len(mail[Root]) = pushed + done' + InHandOf(t)' + Len(mail'[Root])
    <3>1. \A p, d, a \in Nat : p + d + 1 + a = p + (d + 1) + 0 + a
      OBVIOUS
    <3>2. pushed + done + 1 + Len(mail[Root]) = pushed + (done + 1) + 0 + Len(mail[Root])
      BY <2>1, <2>4, <3>1
    <3>3. pushed' = pushed /\ done' = done + 1 /\ InHandOf(t)' = 0 /\ InHandOf(t) = 1 /\ mail'[Root] = mail[Root]
      BY <2>1, <2>3, <2>4
    <3> QED BY ONLY <3>2, <3>3, Zenon
  <2> QED BY <1>0, <2>1, <2>3, <2>4, <2>5, ConservedStep
<1>9. CASE Measure(t)
  <2>1. pc' = Put(pc, t, "handler") /\ UNCHANGED <<mail, pushed, done, new>> /\ Handling(t)
    BY <1>9 DEF Measure, Handling
  <2> QED BY <1>0, <2>1, ConservedSame
<1>10. CASE \/ Stop(t) \/ Continue(t) \/ GlobalmqPop(t) \/ MqPopEmpty(t) \/ GrabContext(t)
            \/ PopNext(t) \/ PushBack(t) \/ Sleep(t) \/ Wakeup(t)
  <2>1. ~Handling(t) /\ UNCHANGED <<mail, pushed, done, new>>
    BY <1>0, <1>10
       DEF Handling, Stop, Continue, GlobalmqPop, MqPopEmpty, GrabContext, PopNext,
           PushBack,
       Sleep, Wakeup, AtTop
  <2>2. new[t] = None
    BY <1>0, <1>10
       DEF Control, Stop, Continue, GlobalmqPop, MqPopEmpty, GrabContext, PopNext, PushBack,
       Sleep, Wakeup, AtTop
  <2>3. \E p \in Places \ {"measure", "handler", "init", "retire"} : pc' = Put(pc, t, p)
    BY <1>10
       DEF Stop, Continue, GlobalmqPop, MqPopEmpty, GrabContext, PopNext, PushBack, Sleep,
           Wakeup,
       AtTop, Places
  <2> QED BY <1>0, <2>1, <2>2, <2>3, ConservedSame
<1> QED BY <1>1, <1>2, <1>4, <1>5, <1>6, <1>7, <1>8, <1>9, <1>10 DEF WorkerStep

LEMMA ConservedNext ==
    ASSUME IInv, TypeOK', MessagesConserved, [Next]_vars
    PROVE  MessagesConserved'
<1>0. TypeOK
  BY DEF IInv
<1>1. ASSUME NEW t \in Workers, NEW s \in Services, SendMessage(t, s) \/ Retire(t, s)
      PROVE  MessagesConserved'
  <2>1. UNCHANGED <<mail, pushed, done, pc, new>>
    BY <1>1 DEF SendMessage, Retire
  <2> QED BY <1>0, <2>1, ConservedQuiet DEF Handling
<1>2. ASSUME NEW t \in Workers, NEW s \in Services, ContextNew(t, s) PROVE MessagesConserved'
  <2>1. UNCHANGED <<mail, pushed, done>> /\ pc' = Put(pc, t, "init") /\ new' = Put(new, t, s) /\ Handling(t)
    BY <1>2 DEF ContextNew, Handling
  <2> QED BY <1>0, <2>1, ConservedMove
<1>3. ASSUME NEW s \in Services, SendOutside(s) PROVE MessagesConserved'
  <2>1. UNCHANGED <<mail, pushed, done, pc, new>>
    BY <1>3 DEF SendOutside
  <2> QED BY <1>0, <2>1, ConservedQuiet DEF Handling
<1>4. CASE Abort
  <2>1. UNCHANGED <<mail, pushed, done, new>> /\ \A u \in Workers : pc'[u] = IF pc[u] = "asleep" THEN "top" ELSE pc[u]
    BY <1>4 DEF Abort, Threads
  <2>2. \A u \in Workers : Handling(u)' <=> Handling(u)
    BY <2>1 DEF Handling
  <2> QED BY <1>0, <2>1, <2>2, ConservedQuiet
<1>5. CASE UNCHANGED vars
  <2>1. UNCHANGED <<mail, pushed, done, pc, new>>
    BY <1>5 DEF vars
  <2> QED BY <1>0, <2>1, ConservedQuiet DEF Handling
<1>6. CASE Next
  BY <1>1, <1>2, <1>3, <1>4, <1>5, <1>6, ConservedCalls, ConservedWorker DEF Next, Terminated
<1> QED BY <1>5, <1>6

(* No message is lost and none is handled twice: what came into the queues *)
(* is waiting, in the hands of a worker, dispatched or dropped, for any    *)
(* number of services, workers and messages.                               *)
THEOREM MessagesConservedHolds == Spec => []MessagesConserved
<1>1. Init => MessagesConserved
  BY ConservedInit
<1>2. IInv /\ IInv' /\ MessagesConserved /\ [Next]_vars => MessagesConserved'
  BY ConservedNext DEF IInv
<1> QED BY <1>1, <1>2, KernelInvariant, PTL DEF Spec
=============================================================================
