------------------------ MODULE WorkerRuntime_proofs ------------------------
(***************************************************************************)
(* Theorems about the worker loop, the runners and the monitor, for every  *)
(* set of services and every finite set of workers, and for all bounds.    *)
(***************************************************************************)
EXTENDS WorkerRuntime, SequenceTheorems, FiniteSetTheorems, TLAPS

InBatch == pc \in {"batch", "handler"}

(* A turn in progress has a runner, a batch in progress a service, and the *)
(* messages it dispatched and those it may still take add up to the batch. *)
TurnInv ==
    /\ pc = "owner" <=> runner = None
    /\ InBatch => current # None
    /\ InBatch => dispatched + left = batch
    /\ pc = "handler" => left > 0

(* Messages come from sends and timeouts, which are numbered by sent.      *)
MailInv == \A s \in Services : mail[s] + Len(due) <= sent

(* Until a turn has dispatched a message no worker has a route: the route  *)
(* of the previous turn was cleared when that turn ended.                  *)
RouteInv ==
    pc \in {"owner", "turn"} \/ (pc \in {"batch", "end"} /\ dispatched = 0)
        => \A w \in Workers : route[w] = None

(* The versions stand for progress.                                        *)
VersionInv ==
    \A w \in Workers :
       /\ checked[w] <= version[w]
       /\ w \notin progress => version[w] = checked[w]
       /\ w \in progress /\ route[w] # None => checked[w] < version[w]

IInv ==
    /\ TypeOK /\ SleepersCounted /\ TurnInv /\ MailInv
    /\ RouteFollowsDispatch /\ RouteInv /\ VersionInv

LEMMA RuntimeFacts ==
    /\ None \notin Services /\ None \notin Workers
    /\ IsFiniteSet(Workers)
    /\ Cardinality(Workers) \in Nat
    /\ MaxSend \in Nat /\ MaxCycles \in Nat /\ MaxBatch \in Nat /\ MaxStall \in Nat
BY RuntimeAssumption, FS_CardinalityType

(* The type invariant, by what the actions change together.                *)
SystemType ==
    /\ alive \subseteq Services /\ mail \in [Services -> 0 .. MaxSend]
    /\ due \in Seq(Services \cup {None}) /\ sent \in 0 .. MaxSend

TurnType ==
    /\ runner \in Workers \cup {None}
    /\ pc \in {"owner", "turn", "batch", "handler", "end"}
    /\ cycles \in 0 .. MaxCycles /\ batch \in 0 .. MaxBatch
    /\ current \in Services \cup {None} /\ left \in 0 .. MaxBatch
    /\ injected \in Nat /\ dispatched \in 0 .. MaxBatch

MonitorType ==
    /\ sleeping \subseteq Workers /\ sleepers \in 0 .. Cardinality(Workers)
    /\ wakeEvents \in Nat /\ stallEvents \in 0 .. MaxStall

SlotType ==
    /\ route \in [Workers -> Services \cup {None}]
    /\ version \in [Workers -> Nat] /\ checked \in [Workers -> Nat]
    /\ progress \subseteq Workers

FlagType == idle \in BOOLEAN /\ quit \in BOOLEAN

LEMMA TypeParts ==
    TypeOK <=> SystemType /\ TurnType /\ MonitorType /\ SlotType /\ FlagType
BY DEF TypeOK, SystemType, TurnType, MonitorType, SlotType, FlagType

(* What a set of workers counts.                                           *)
LEMMA WorkersCount ==
    ASSUME NEW S \in SUBSET Workers
    PROVE  /\ IsFiniteSet(S)
           /\ Cardinality(S) \in 0 .. Cardinality(Workers)
           /\ \A w \in Workers :
                 /\ Cardinality(S \cup {w}) = IF w \in S THEN Cardinality(S)
                                                         ELSE Cardinality(S) + 1
                 /\ Cardinality(S \ {w}) = IF w \in S THEN Cardinality(S) - 1
                                                      ELSE Cardinality(S)
<1>1. IsFiniteSet(S) /\ Cardinality(S) <= Cardinality(Workers)
  BY RuntimeFacts, FS_Subset
<1>2. Cardinality(S) \in Nat /\ Cardinality(Workers) \in Nat
  BY <1>1, RuntimeFacts, FS_CardinalityType
<1>3. ASSUME NEW w \in Workers
      PROVE  /\ Cardinality(S \cup {w}) = IF w \in S THEN Cardinality(S)
                                                     ELSE Cardinality(S) + 1
             /\ Cardinality(S \ {w}) = IF w \in S THEN Cardinality(S) - 1
                                                  ELSE Cardinality(S)
  BY <1>1, FS_AddElement, FS_RemoveElement
<1> QED BY <1>1, <1>2, <1>3

(* The indices of a sequence that satisfy a condition are no more than its *)
(* length.                                                                 *)
LEMMA PositionsCount ==
    ASSUME NEW S, NEW q \in Seq(S), NEW P \in SUBSET DOMAIN q
    PROVE  Cardinality(P) \in 0 .. Len(q)
<1>1. Len(q) \in Nat /\ DOMAIN q = 1 .. Len(q)
  OBVIOUS
<1>2. IsFiniteSet(1 .. Len(q)) /\ Cardinality(1 .. Len(q)) = Len(q)
  <2>1. 1 \in Int /\ Len(q) \in Int
    BY <1>1
  <2>2. /\ IsFiniteSet(1 .. Len(q))
        /\ Cardinality(1 .. Len(q)) = IF 1 > Len(q) THEN 0 ELSE Len(q) - 1 + 1
    BY <2>1, FS_Interval
  <2> QED BY <1>1, <2>2
<1>3. IsFiniteSet(P) /\ Cardinality(P) <= Len(q)
  BY <1>1, <1>2, FS_Subset
<1> QED BY <1>1, <1>3, FS_CardinalityType

LEMMA InitIInv == Init => IInv
<1> SUFFICES ASSUME Init PROVE IInv
  OBVIOUS
<1>1. Cardinality({}) = 0
  BY FS_EmptySet
<1>2. TypeOK
  <2>1. SystemType
    BY RuntimeFacts DEF Init, SystemType
  <2>2. TurnType
    BY RuntimeFacts DEF Init, TurnType
  <2>3. MonitorType
    BY RuntimeFacts DEF Init, MonitorType
  <2>4. SlotType
    BY RuntimeFacts DEF Init, SlotType
  <2>5. FlagType
    BY Zenon DEF Init, FlagType
  <2> QED BY <2>1, <2>2, <2>3, <2>4, <2>5, TypeParts
<1>3. SleepersCounted
  BY <1>1 DEF Init, SleepersCounted
<1>4. TurnInv /\ RouteFollowsDispatch /\ RouteInv
  BY DEF Init, TurnInv, InBatch, RouteFollowsDispatch, RouteInv
<1>5. MailInv /\ VersionInv
  BY DEF Init, MailInv, VersionInv
<1> QED BY <1>2, <1>3, <1>4, <1>5 DEF IInv

LEMMA SendMessageIInv ==
    ASSUME IInv, NEW s \in Services, SendMessage(s)
    PROVE  IInv'
<1> USE DEF SendMessage, Deliver, vars, systemVars, turnVars, slotVars, monitorVars
<1>0. /\ SleepersCounted /\ TurnInv /\ MailInv
      /\ RouteFollowsDispatch /\ RouteInv /\ VersionInv
  BY DEF IInv
<1>t. TypeOK /\ SystemType /\ TurnType /\ MonitorType /\ SlotType /\ FlagType
  BY TypeParts DEF IInv
<1>1. TypeOK'
  <2>1. SystemType'
    <3>1. s \in Services /\ mail[s] \in Nat /\ mail[s] + Len(due) <= sent /\ sent < MaxSend
      BY <1>0, <1>t DEF MailInv, SystemType
    <3>2. Len(due) \in Nat
      BY <1>t DEF SystemType
    <3>3. mail[s] + 1 \in 0 .. MaxSend
      BY <3>1, <3>2, <1>t, RuntimeFacts DEF SystemType
    <3> QED BY <3>1, <3>3, <1>t, RuntimeFacts DEF SystemType
  <2>2. TurnType'
    BY <1>t, RuntimeFacts DEF TurnType
  <2>3. MonitorType'
    BY <1>t, RuntimeFacts DEF MonitorType
  <2>4. SlotType'
    BY <1>t, RuntimeFacts DEF SlotType
  <2>5. FlagType'
    BY <1>t, Zenon DEF FlagType
  <2> QED BY <2>1, <2>2, <2>3, <2>4, <2>5
     DEF TypeOK, SystemType, TurnType, MonitorType, SlotType, FlagType
<1>2. SleepersCounted'
  BY <1>0 DEF SleepersCounted
<1>3. TurnInv'
  BY <1>0, <1>t, RuntimeFacts DEF TurnInv, TypeOK, InBatch
<1>4. MailInv'
  BY <1>0, <1>t, RuntimeFacts, SMTT(30) DEF MailInv, TypeOK
<1>5. RouteFollowsDispatch' /\ RouteInv'
  BY <1>0, <1>t, RuntimeFacts
     DEF RouteFollowsDispatch, RouteInv, TypeOK, TurnInv, InBatch, Caller
<1>6. VersionInv'
  BY <1>0, <1>t, RuntimeFacts DEF VersionInv, TypeOK
<1> QED BY <1>1, <1>2, <1>3, <1>4, <1>5, <1>6 DEF IInv

LEMMA ScheduleTimeoutIInv ==
    ASSUME IInv, NEW s \in Services, ScheduleTimeout(s)
    PROVE  IInv'
<1> USE DEF ScheduleTimeout, vars, systemVars, turnVars, slotVars, monitorVars
<1>0. /\ SleepersCounted /\ TurnInv /\ MailInv
      /\ RouteFollowsDispatch /\ RouteInv /\ VersionInv
  BY DEF IInv
<1>t. TypeOK /\ SystemType /\ TurnType /\ MonitorType /\ SlotType /\ FlagType
  BY TypeParts DEF IInv
<1>1. TypeOK'
  <2>1. SystemType'
    BY <1>t, RuntimeFacts DEF SystemType
  <2>2. TurnType'
    BY <1>t, RuntimeFacts DEF TurnType
  <2>3. MonitorType'
    BY <1>t, RuntimeFacts DEF MonitorType
  <2>4. SlotType'
    BY <1>t, RuntimeFacts DEF SlotType
  <2>5. FlagType'
    BY <1>t, Zenon DEF FlagType
  <2> QED BY <2>1, <2>2, <2>3, <2>4, <2>5
     DEF TypeOK, SystemType, TurnType, MonitorType, SlotType, FlagType
<1>2. SleepersCounted'
  BY <1>0 DEF SleepersCounted
<1>3. TurnInv'
  BY <1>0, <1>t, RuntimeFacts DEF TurnInv, TypeOK, InBatch
<1>4. MailInv'
  BY <1>0, <1>t, RuntimeFacts DEF MailInv, TypeOK
<1>5. RouteFollowsDispatch' /\ RouteInv'
  BY <1>0, <1>t, RuntimeFacts
     DEF RouteFollowsDispatch, RouteInv, TypeOK, TurnInv, InBatch, Caller
<1>6. VersionInv'
  BY <1>0, <1>t, RuntimeFacts DEF VersionInv, TypeOK
<1> QED BY <1>1, <1>2, <1>3, <1>4, <1>5, <1>6 DEF IInv

LEMMA ReleaseServiceIInv ==
    ASSUME IInv, NEW s \in Services, ReleaseService(s)
    PROVE  IInv'
<1> USE DEF ReleaseService, vars, systemVars, turnVars, slotVars, monitorVars
<1>0. /\ SleepersCounted /\ TurnInv /\ MailInv
      /\ RouteFollowsDispatch /\ RouteInv /\ VersionInv
  BY DEF IInv
<1>t. TypeOK /\ SystemType /\ TurnType /\ MonitorType /\ SlotType /\ FlagType
  BY TypeParts DEF IInv
<1>1. TypeOK'
  <2>1. SystemType'
    BY <1>t, RuntimeFacts, SMTT(30) DEF SystemType
  <2>2. TurnType'
    BY <1>t, RuntimeFacts DEF TurnType
  <2>3. MonitorType'
    BY <1>t, RuntimeFacts DEF MonitorType
  <2>4. SlotType'
    BY <1>t, RuntimeFacts DEF SlotType
  <2>5. FlagType'
    BY <1>t, Zenon DEF FlagType
  <2> QED BY <2>1, <2>2, <2>3, <2>4, <2>5
     DEF TypeOK, SystemType, TurnType, MonitorType, SlotType, FlagType
<1>2. SleepersCounted'
  BY <1>0 DEF SleepersCounted
<1>3. TurnInv'
  BY <1>0, <1>t, RuntimeFacts DEF TurnInv, TypeOK, InBatch
<1>4. MailInv'
  BY <1>0, <1>t, RuntimeFacts DEF MailInv, TypeOK
<1>5. RouteFollowsDispatch' /\ RouteInv'
  BY <1>0, <1>t, RuntimeFacts
     DEF RouteFollowsDispatch, RouteInv, TypeOK, TurnInv, InBatch, Caller
<1>6. VersionInv'
  BY <1>0, <1>t, RuntimeFacts DEF VersionInv, TypeOK
<1> QED BY <1>1, <1>2, <1>3, <1>4, <1>5, <1>6 DEF IInv

LEMMA RequestQuitIInv ==
    ASSUME IInv, RequestQuit
    PROVE  IInv'
<1> USE DEF RequestQuit, vars, systemVars, turnVars, slotVars, monitorVars
<1>0. /\ SleepersCounted /\ TurnInv /\ MailInv
      /\ RouteFollowsDispatch /\ RouteInv /\ VersionInv
  BY DEF IInv
<1>t. TypeOK /\ SystemType /\ TurnType /\ MonitorType /\ SlotType /\ FlagType
  BY TypeParts DEF IInv
<1>1. TypeOK'
  <2>1. SystemType'
    BY <1>t, RuntimeFacts DEF SystemType
  <2>2. TurnType'
    BY <1>t, RuntimeFacts DEF TurnType
  <2>3. MonitorType'
    BY <1>t, RuntimeFacts DEF MonitorType
  <2>4. SlotType'
    BY <1>t, RuntimeFacts DEF SlotType
  <2>5. FlagType'
    BY <1>t, Zenon DEF FlagType
  <2> QED BY <2>1, <2>2, <2>3, <2>4, <2>5
     DEF TypeOK, SystemType, TurnType, MonitorType, SlotType, FlagType
<1>2. SleepersCounted'
  BY <1>0 DEF SleepersCounted
<1>3. TurnInv'
  BY <1>0, <1>t, RuntimeFacts DEF TurnInv, TypeOK, InBatch
<1>4. MailInv'
  BY <1>0, <1>t, RuntimeFacts DEF MailInv, TypeOK
<1>5. RouteFollowsDispatch' /\ RouteInv'
  BY <1>0, <1>t, RuntimeFacts
     DEF RouteFollowsDispatch, RouteInv, TypeOK, TurnInv, InBatch, Caller
<1>6. VersionInv'
  BY <1>0, <1>t, RuntimeFacts DEF VersionInv, TypeOK
<1> QED BY <1>1, <1>2, <1>3, <1>4, <1>5, <1>6 DEF IInv

LEMMA CheckOnceIInv ==
    ASSUME IInv, CheckOnce
    PROVE  IInv'
<1> USE DEF CheckOnce, vars, systemVars, turnVars, slotVars, monitorVars
<1>0. /\ SleepersCounted /\ TurnInv /\ MailInv
      /\ RouteFollowsDispatch /\ RouteInv /\ VersionInv
  BY DEF IInv
<1>t. TypeOK /\ SystemType /\ TurnType /\ MonitorType /\ SlotType /\ FlagType
  BY TypeParts DEF IInv
<1>1. TypeOK'
  <2>1. SystemType'
    BY <1>t, RuntimeFacts DEF SystemType
  <2>2. TurnType'
    BY <1>t, RuntimeFacts DEF TurnType
  <2>3. MonitorType'
    <3>1. Cardinality({w \in Workers : Stalled(w)}) \in Nat
      BY RuntimeFacts, WorkersCount
    <3> QED BY <3>1, <1>t, RuntimeFacts DEF MonitorType
  <2>4. SlotType'
    BY <1>t, RuntimeFacts DEF SlotType
  <2>5. FlagType'
    BY <1>t, Zenon DEF FlagType
  <2> QED BY <2>1, <2>2, <2>3, <2>4, <2>5
     DEF TypeOK, SystemType, TurnType, MonitorType, SlotType, FlagType
<1>2. SleepersCounted'
  BY <1>0 DEF SleepersCounted
<1>3. TurnInv'
  BY <1>0, <1>t, RuntimeFacts DEF TurnInv, TypeOK, InBatch
<1>4. MailInv'
  BY <1>0, <1>t, RuntimeFacts DEF MailInv, TypeOK
<1>5. RouteFollowsDispatch' /\ RouteInv'
  BY <1>0, <1>t, RuntimeFacts
     DEF RouteFollowsDispatch, RouteInv, TypeOK, TurnInv, InBatch, Caller
<1>6. VersionInv'
  BY <1>0, <1>t, RuntimeFacts DEF VersionInv, TypeOK
<1> QED BY <1>1, <1>2, <1>3, <1>4, <1>5, <1>6 DEF IInv

LEMMA RunUntilIdleIInv ==
    ASSUME IInv, NEW w \in Workers, NEW c \in 1 .. MaxCycles, NEW m \in 1 .. MaxBatch, RunUntilIdle(w, c, m)
    PROVE  IInv'
<1> USE DEF RunUntilIdle, vars, systemVars, turnVars, slotVars, monitorVars
<1>0. /\ SleepersCounted /\ TurnInv /\ MailInv
      /\ RouteFollowsDispatch /\ RouteInv /\ VersionInv
  BY DEF IInv
<1>t. TypeOK /\ SystemType /\ TurnType /\ MonitorType /\ SlotType /\ FlagType
  BY TypeParts DEF IInv
<1>1. TypeOK'
  <2>1. SystemType'
    BY <1>t, RuntimeFacts DEF SystemType
  <2>2. TurnType'
    BY <1>t, RuntimeFacts DEF TurnType
  <2>3. MonitorType'
    BY <1>t, RuntimeFacts DEF MonitorType
  <2>4. SlotType'
    BY <1>t, RuntimeFacts DEF SlotType
  <2>5. FlagType'
    BY <1>t, Zenon DEF FlagType
  <2> QED BY <2>1, <2>2, <2>3, <2>4, <2>5
     DEF TypeOK, SystemType, TurnType, MonitorType, SlotType, FlagType
<1>2. SleepersCounted'
  BY <1>0 DEF SleepersCounted
<1>3. TurnInv'
  BY <1>0, <1>t, RuntimeFacts DEF TurnInv, TypeOK, InBatch
<1>4. MailInv'
  BY <1>0, <1>t, RuntimeFacts DEF MailInv, TypeOK
<1>5. RouteFollowsDispatch' /\ RouteInv'
  BY <1>0, <1>t, RuntimeFacts
     DEF RouteFollowsDispatch, RouteInv, TypeOK, TurnInv, InBatch, Caller
<1>6. VersionInv'
  BY <1>0, <1>t, RuntimeFacts DEF VersionInv, TypeOK
<1> QED BY <1>1, <1>2, <1>3, <1>4, <1>5, <1>6 DEF IInv

LEMMA StopRequestedIInv ==
    ASSUME IInv, StopRequested
    PROVE  IInv'
<1> USE DEF StopRequested, Return, vars, systemVars, turnVars, slotVars, monitorVars
<1>0. /\ SleepersCounted /\ TurnInv /\ MailInv
      /\ RouteFollowsDispatch /\ RouteInv /\ VersionInv
  BY DEF IInv
<1>t. TypeOK /\ SystemType /\ TurnType /\ MonitorType /\ SlotType /\ FlagType
  BY TypeParts DEF IInv
<1>1. TypeOK'
  <2>1. SystemType'
    BY <1>t, RuntimeFacts DEF SystemType
  <2>2. TurnType'
    BY <1>t, RuntimeFacts DEF TurnType
  <2>3. MonitorType'
    BY <1>t, RuntimeFacts DEF MonitorType
  <2>4. SlotType'
    BY <1>t, RuntimeFacts DEF SlotType
  <2>5. FlagType'
    BY <1>t, Zenon DEF FlagType
  <2> QED BY <2>1, <2>2, <2>3, <2>4, <2>5
     DEF TypeOK, SystemType, TurnType, MonitorType, SlotType, FlagType
<1>2. SleepersCounted'
  BY <1>0 DEF SleepersCounted
<1>3. TurnInv'
  BY <1>0, <1>t, RuntimeFacts DEF TurnInv, TypeOK, InBatch
<1>4. MailInv'
  BY <1>0, <1>t, RuntimeFacts DEF MailInv, TypeOK
<1>5. RouteFollowsDispatch' /\ RouteInv'
  BY <1>0, <1>t, RuntimeFacts
     DEF RouteFollowsDispatch, RouteInv, TypeOK, TurnInv, InBatch, Caller
<1>6. VersionInv'
  BY <1>0, <1>t, RuntimeFacts DEF VersionInv, TypeOK
<1> QED BY <1>1, <1>2, <1>3, <1>4, <1>5, <1>6 DEF IInv

LEMMA BeginTurnIInv ==
    ASSUME IInv, BeginTurn
    PROVE  IInv'
<1> USE DEF BeginTurn, vars, systemVars, turnVars, slotVars, monitorVars
<1>0. /\ SleepersCounted /\ TurnInv /\ MailInv
      /\ RouteFollowsDispatch /\ RouteInv /\ VersionInv
  BY DEF IInv
<1>t. TypeOK /\ SystemType /\ TurnType /\ MonitorType /\ SlotType /\ FlagType
  BY TypeParts DEF IInv
<1>p. ASSUME NEW s \in Services
      PROVE  mail'[s] \in Nat /\ mail[s] \in Nat /\ mail'[s] <= sent /\ sent <= MaxSend
  <2>1. {i \in DOMAIN due : due[i] = s} \in SUBSET DOMAIN due
    OBVIOUS
  <2>2. Cardinality({i \in DOMAIN due : due[i] = s}) \in 0 .. Len(due)
    BY <2>1, <1>t, PositionsCount DEF SystemType
  <2>3. mail'[s] = mail[s] + Cardinality({i \in DOMAIN due : due[i] = s})
    OBVIOUS
  <2> DEFINE k == Cardinality({i \in DOMAIN due : due[i] = s})
  <2>4. k \in 0 .. Len(due) /\ mail'[s] = mail[s] + k
    BY <2>2, <2>3
  <2> HIDE DEF k
  <2>5. mail[s] + Len(due) <= sent /\ mail[s] \in Nat /\ sent \in 0 .. MaxSend /\ Len(due) \in Nat
    BY <1>0, <1>t DEF MailInv, SystemType
  <2> QED BY <2>4, <2>5, RuntimeFacts
<1>q. Cardinality({i \in DOMAIN due : due[i] # None}) \in Nat
  <2>1. {i \in DOMAIN due : due[i] # None} \in SUBSET DOMAIN due
    OBVIOUS
  <2> QED BY <2>1, <1>t, PositionsCount DEF SystemType
<1>1. TypeOK'
  <2>1. SystemType'
    <3>1. mail' \in [Services -> 0 .. MaxSend]
      <4>1. DOMAIN mail' = Services /\ mail' = [s \in Services |-> mail'[s]]
        OBVIOUS
      <4>2. \A s \in Services : mail'[s] \in 0 .. MaxSend
        BY <1>p, <1>t, RuntimeFacts DEF SystemType
      <4> QED BY <4>1, <4>2
    <3>2. due' = <<>> /\ alive' = alive /\ sent' = sent
      OBVIOUS
    <3> QED BY <3>1, <3>2, <1>t DEF SystemType
  <2>2. TurnType'
    <3>1. current' \in Services \cup {None} /\ left' \in 0 .. MaxBatch
          /\ pc' \in {"end", "batch"}
      BY <1>t DEF TurnType, SystemType
    <3>2. injected' \in Nat /\ dispatched' = 0
      BY <1>q
    <3>3. runner' = runner /\ cycles' = cycles /\ batch' = batch
      OBVIOUS
    <3> QED BY <3>1, <3>2, <3>3, <1>t, RuntimeFacts DEF TurnType
  <2>3. MonitorType'
    BY <1>t, RuntimeFacts DEF MonitorType
  <2>4. SlotType'
    BY <1>t, RuntimeFacts DEF SlotType
  <2>5. FlagType'
    BY <1>t, Zenon DEF FlagType
  <2> QED BY <2>1, <2>2, <2>3, <2>4, <2>5
     DEF TypeOK, SystemType, TurnType, MonitorType, SlotType, FlagType
<1>2. SleepersCounted'
  BY <1>0 DEF SleepersCounted
<1>3. TurnInv'
  BY <1>0, <1>t, RuntimeFacts DEF TurnInv, TypeOK, InBatch
<1>4. MailInv'
  <2>1. due' = <<>> /\ sent' = sent
    OBVIOUS
  <2>2. \A s \in Services : mail'[s] \in Nat /\ mail'[s] <= sent
    BY <1>p
  <2> QED BY <2>1, <2>2 DEF MailInv
<1>5. RouteFollowsDispatch' /\ RouteInv'
  BY <1>0, <1>t, RuntimeFacts
     DEF RouteFollowsDispatch, RouteInv, TypeOK, TurnInv, InBatch, Caller
<1>6. VersionInv'
  BY <1>0, <1>t, RuntimeFacts DEF VersionInv, TypeOK
<1> QED BY <1>1, <1>2, <1>3, <1>4, <1>5, <1>6 DEF IInv

LEMMA DispatchMessageIInv ==
    ASSUME IInv, DispatchMessage
    PROVE  IInv'
<1> USE DEF DispatchMessage, Trigger, vars, systemVars, turnVars, slotVars, monitorVars
<1>0. /\ SleepersCounted /\ TurnInv /\ MailInv
      /\ RouteFollowsDispatch /\ RouteInv /\ VersionInv
  BY DEF IInv
<1>t. TypeOK /\ SystemType /\ TurnType /\ MonitorType /\ SlotType /\ FlagType
  BY TypeParts DEF IInv
<1>c. current \in Services /\ runner \in Workers
  BY <1>0, <1>t DEF TurnInv, InBatch, TurnType
<1>1. TypeOK'
  <2>1. SystemType'
    <3>1. current \in Services
      BY <1>0, <1>t DEF TurnInv, InBatch, TurnType
    <3>2. mail[current] - 1 \in 0 .. MaxSend
      BY <3>1, <1>t, RuntimeFacts DEF SystemType
    <3> QED BY <3>1, <3>2, <1>t, RuntimeFacts DEF SystemType
  <2>2. TurnType'
    BY <1>t, RuntimeFacts DEF TurnType
  <2>3. MonitorType'
    BY <1>t, RuntimeFacts DEF MonitorType
  <2>4. SlotType'
    BY <1>t, <1>c DEF SlotType
  <2>5. FlagType'
    BY <1>t, Zenon DEF FlagType
  <2> QED BY <2>1, <2>2, <2>3, <2>4, <2>5
     DEF TypeOK, SystemType, TurnType, MonitorType, SlotType, FlagType
<1>2. SleepersCounted'
  BY <1>0 DEF SleepersCounted
<1>3. TurnInv'
  BY <1>0, <1>t, RuntimeFacts DEF TurnInv, TypeOK, InBatch
<1>4. MailInv'
  BY <1>0, <1>t, RuntimeFacts DEF MailInv, TypeOK
<1>5. RouteFollowsDispatch' /\ RouteInv'
  BY <1>0, <1>t, RuntimeFacts
     DEF RouteFollowsDispatch, RouteInv, TypeOK, TurnInv, InBatch, Caller
<1>6. VersionInv'
  BY <1>0, <1>t, RuntimeFacts DEF VersionInv, TypeOK
<1> QED BY <1>1, <1>2, <1>3, <1>4, <1>5, <1>6 DEF IInv

LEMMA HandlerReturnsIInv ==
    ASSUME IInv, HandlerReturns
    PROVE  IInv'
<1> USE DEF HandlerReturns, vars, systemVars, turnVars, slotVars, monitorVars
<1>0. /\ SleepersCounted /\ TurnInv /\ MailInv
      /\ RouteFollowsDispatch /\ RouteInv /\ VersionInv
  BY DEF IInv
<1>t. TypeOK /\ SystemType /\ TurnType /\ MonitorType /\ SlotType /\ FlagType
  BY TypeParts DEF IInv
<1>1. TypeOK'
  <2>1. SystemType'
    BY <1>t, RuntimeFacts DEF SystemType
  <2>2. TurnType'
    <3>1. dispatched + left = batch /\ left > 0
      BY <1>0 DEF TurnInv, InBatch
    <3>2. /\ dispatched \in Nat /\ left \in 0 .. MaxBatch /\ batch \in 0 .. MaxBatch
      BY <1>t DEF TurnType
    <3>3. left - 1 \in 0 .. MaxBatch /\ dispatched + 1 \in 0 .. MaxBatch
      BY <3>1, <3>2, RuntimeFacts
    <3> QED BY <3>3, <1>t DEF TurnType
  <2>3. MonitorType'
    BY <1>t, RuntimeFacts DEF MonitorType
  <2>4. SlotType'
    BY <1>t, RuntimeFacts DEF SlotType
  <2>5. FlagType'
    BY <1>t, Zenon DEF FlagType
  <2> QED BY <2>1, <2>2, <2>3, <2>4, <2>5
     DEF TypeOK, SystemType, TurnType, MonitorType, SlotType, FlagType
<1>2. SleepersCounted'
  BY <1>0 DEF SleepersCounted
<1>3. TurnInv'
  BY <1>0, <1>t, RuntimeFacts DEF TurnInv, TypeOK, InBatch
<1>4. MailInv'
  BY <1>0, <1>t, RuntimeFacts DEF MailInv, TypeOK
<1>5. RouteFollowsDispatch' /\ RouteInv'
  BY <1>0, <1>t, RuntimeFacts
     DEF RouteFollowsDispatch, RouteInv, TypeOK, TurnInv, InBatch, Caller
<1>6. VersionInv'
  BY <1>0, <1>t, RuntimeFacts DEF VersionInv, TypeOK
<1> QED BY <1>1, <1>2, <1>3, <1>4, <1>5, <1>6 DEF IInv

LEMMA EndBatchIInv ==
    ASSUME IInv, EndBatch
    PROVE  IInv'
<1> USE DEF EndBatch, vars, systemVars, turnVars, slotVars, monitorVars
<1>0. /\ SleepersCounted /\ TurnInv /\ MailInv
      /\ RouteFollowsDispatch /\ RouteInv /\ VersionInv
  BY DEF IInv
<1>t. TypeOK /\ SystemType /\ TurnType /\ MonitorType /\ SlotType /\ FlagType
  BY TypeParts DEF IInv
<1>1. TypeOK'
  <2>1. SystemType'
    BY <1>t, RuntimeFacts DEF SystemType
  <2>2. TurnType'
    BY <1>t, RuntimeFacts DEF TurnType
  <2>3. MonitorType'
    BY <1>t, RuntimeFacts DEF MonitorType
  <2>4. SlotType'
    BY <1>t, RuntimeFacts DEF SlotType
  <2>5. FlagType'
    BY <1>t, Zenon DEF FlagType
  <2> QED BY <2>1, <2>2, <2>3, <2>4, <2>5
     DEF TypeOK, SystemType, TurnType, MonitorType, SlotType, FlagType
<1>2. SleepersCounted'
  BY <1>0 DEF SleepersCounted
<1>3. TurnInv'
  BY <1>0, <1>t, RuntimeFacts DEF TurnInv, TypeOK, InBatch
<1>4. MailInv'
  BY <1>0, <1>t, RuntimeFacts DEF MailInv, TypeOK
<1>5. RouteFollowsDispatch' /\ RouteInv'
  BY <1>0, <1>t, RuntimeFacts
     DEF RouteFollowsDispatch, RouteInv, TypeOK, TurnInv, InBatch, Caller
<1>6. VersionInv'
  BY <1>0, <1>t, RuntimeFacts DEF VersionInv, TypeOK
<1> QED BY <1>1, <1>2, <1>3, <1>4, <1>5, <1>6 DEF IInv

LEMMA EndIdleTurnIInv ==
    ASSUME IInv, EndIdleTurn
    PROVE  IInv'
<1> USE DEF EndIdleTurn, Return, MarkSleeping, TurnIdle, vars, systemVars, turnVars, slotVars, monitorVars
<1>0. /\ SleepersCounted /\ TurnInv /\ MailInv
      /\ RouteFollowsDispatch /\ RouteInv /\ VersionInv
  BY DEF IInv
<1>t. TypeOK /\ SystemType /\ TurnType /\ MonitorType /\ SlotType /\ FlagType
  BY TypeParts DEF IInv
<1>r. runner \in Workers
  BY <1>0, <1>t DEF TurnInv, TurnType
<1>k. /\ Cardinality(sleeping') = sleepers' /\ sleeping' \subseteq Workers
      /\ sleepers' \in 0 .. Cardinality(Workers)
  <2>1. sleeping \in SUBSET Workers /\ sleeping' \in SUBSET Workers
    BY <1>r, <1>t DEF MonitorType
  <2>2. Cardinality(sleeping') = sleepers'
    BY <2>1, <1>r, <1>0, WorkersCount DEF SleepersCounted
  <2> QED BY <2>1, <2>2, WorkersCount
<1>1. TypeOK'
  <2>1. SystemType'
    BY <1>t, RuntimeFacts DEF SystemType
  <2>2. TurnType'
    BY <1>t, RuntimeFacts DEF TurnType
  <2>3. MonitorType'
    BY <1>k, <1>t DEF MonitorType
  <2>4. SlotType'
    BY <1>t, RuntimeFacts DEF SlotType
  <2>5. FlagType'
    BY <1>t, Zenon DEF FlagType
  <2> QED BY <2>1, <2>2, <2>3, <2>4, <2>5
     DEF TypeOK, SystemType, TurnType, MonitorType, SlotType, FlagType
<1>2. SleepersCounted'
  BY <1>k DEF SleepersCounted
<1>3. TurnInv'
  BY <1>0, <1>t, RuntimeFacts DEF TurnInv, TypeOK, InBatch
<1>4. MailInv'
  BY <1>0, <1>t, RuntimeFacts DEF MailInv, TypeOK
<1>5. RouteFollowsDispatch' /\ RouteInv'
  BY <1>0, <1>t, RuntimeFacts
     DEF RouteFollowsDispatch, RouteInv, TypeOK, TurnInv, InBatch, Caller
<1>6. VersionInv'
  BY <1>0, <1>t, RuntimeFacts DEF VersionInv, TypeOK
<1> QED BY <1>1, <1>2, <1>3, <1>4, <1>5, <1>6 DEF IInv

LEMMA EndBusyTurnIInv ==
    ASSUME IInv, EndBusyTurn
    PROVE  IInv'
<1> USE DEF EndBusyTurn, Return, MarkAwake, Clear, TurnIdle, vars, systemVars, turnVars, slotVars, monitorVars
<1>0. /\ SleepersCounted /\ TurnInv /\ MailInv
      /\ RouteFollowsDispatch /\ RouteInv /\ VersionInv
  BY DEF IInv
<1>t. TypeOK /\ SystemType /\ TurnType /\ MonitorType /\ SlotType /\ FlagType
  BY TypeParts DEF IInv
<1>r. runner \in Workers
  BY <1>0, <1>t DEF TurnInv, TurnType
<1>k. /\ Cardinality(sleeping') = sleepers' /\ sleeping' \subseteq Workers
      /\ sleepers' \in 0 .. Cardinality(Workers)
  <2>1. sleeping \in SUBSET Workers /\ sleeping' \in SUBSET Workers
    BY <1>r, <1>t DEF MonitorType
  <2>2. Cardinality(sleeping') = sleepers'
    BY <2>1, <1>r, <1>0, WorkersCount DEF SleepersCounted
  <2> QED BY <2>1, <2>2, WorkersCount
<1>1. TypeOK'
  <2>1. SystemType'
    BY <1>t, RuntimeFacts DEF SystemType
  <2>2. TurnType'
    <3>1. cycles' \in 0 .. MaxCycles /\ pc' \in {"turn", "owner"}
      BY <1>t, RuntimeFacts DEF TurnType
    <3>2. runner' \in Workers \cup {None} /\ batch' \in 0 .. MaxBatch
      BY <1>t, RuntimeFacts DEF TurnType
    <3> QED BY <3>1, <3>2, <1>t, RuntimeFacts DEF TurnType
  <2>3. MonitorType'
    BY <1>k, <1>t DEF MonitorType
  <2>4. SlotType'
    BY <1>r, <1>t DEF SlotType
  <2>5. FlagType'
    BY <1>t, Zenon DEF FlagType
  <2> QED BY <2>1, <2>2, <2>3, <2>4, <2>5
     DEF TypeOK, SystemType, TurnType, MonitorType, SlotType, FlagType
<1>2. SleepersCounted'
  BY <1>k DEF SleepersCounted
<1>3. TurnInv'
  BY <1>0, <1>t, RuntimeFacts DEF TurnInv, TypeOK, InBatch
<1>4. MailInv'
  BY <1>0, <1>t, RuntimeFacts DEF MailInv, TypeOK
<1>5. RouteFollowsDispatch' /\ RouteInv'
  BY <1>0, <1>t, RuntimeFacts
     DEF RouteFollowsDispatch, RouteInv, TypeOK, TurnInv, InBatch, Caller
<1>6. VersionInv'
  BY <1>0, <1>t, RuntimeFacts DEF VersionInv, TypeOK
<1> QED BY <1>1, <1>2, <1>3, <1>4, <1>5, <1>6 DEF IInv

LEMMA StutterIInv ==
    ASSUME IInv, vars' = vars
    PROVE  IInv'
<1> USE DEF vars, systemVars, turnVars, slotVars, monitorVars
<1>0. /\ SleepersCounted /\ TurnInv /\ MailInv
      /\ RouteFollowsDispatch /\ RouteInv /\ VersionInv
  BY DEF IInv
<1>t. TypeOK /\ SystemType /\ TurnType /\ MonitorType /\ SlotType /\ FlagType
  BY TypeParts DEF IInv
<1>1. TypeOK'
  <2>1. SystemType'
    BY <1>t, RuntimeFacts DEF SystemType
  <2>2. TurnType'
    BY <1>t, RuntimeFacts DEF TurnType
  <2>3. MonitorType'
    BY <1>t, RuntimeFacts DEF MonitorType
  <2>4. SlotType'
    BY <1>t, RuntimeFacts DEF SlotType
  <2>5. FlagType'
    BY <1>t, Zenon DEF FlagType
  <2> QED BY <2>1, <2>2, <2>3, <2>4, <2>5
     DEF TypeOK, SystemType, TurnType, MonitorType, SlotType, FlagType
<1>2. SleepersCounted'
  BY <1>0 DEF SleepersCounted
<1>3. TurnInv'
  BY <1>0, <1>t, RuntimeFacts DEF TurnInv, TypeOK, InBatch
<1>4. MailInv'
  BY <1>0, <1>t, RuntimeFacts DEF MailInv, TypeOK
<1>5. RouteFollowsDispatch' /\ RouteInv'
  BY <1>0, <1>t, RuntimeFacts
     DEF RouteFollowsDispatch, RouteInv, TypeOK, TurnInv, InBatch, Caller
<1>6. VersionInv'
  BY <1>0, <1>t, RuntimeFacts DEF VersionInv, TypeOK
<1> QED BY <1>1, <1>2, <1>3, <1>4, <1>5, <1>6 DEF IInv

LEMMA NextIInv == IInv /\ [Next]_vars => IInv'
BY SendMessageIInv, ScheduleTimeoutIInv, ReleaseServiceIInv, RequestQuitIInv,
   CheckOnceIInv, RunUntilIdleIInv, StopRequestedIInv, BeginTurnIInv,
   DispatchMessageIInv, HandlerReturnsIInv, EndBatchIInv, EndIdleTurnIInv,
   EndBusyTurnIInv, StutterIInv
   DEF Next

LEMMA RuntimeInvariant == Spec => []IInv
<1>1. Init => IInv
  BY InitIInv
<1>2. IInv /\ [Next]_vars => IInv'
  BY NextIInv
<1> QED BY <1>1, <1>2, PTL DEF Spec
-----------------------------------------------------------------------------
(* Type correctness: in particular no batch dispatches more messages than  *)
(* run_until_idle was asked for, and no count of the monitor goes below    *)
(* zero.                                                                   *)
THEOREM RuntimeTypeCorrect == Spec => []TypeOK
<1>1. IInv => TypeOK
  BY DEF IInv
<1> QED BY <1>1, RuntimeInvariant, PTL

(* m_sleeping_workers is the number of slots marked as sleeping, whatever  *)
(* the order in which runners report idle and busy turns to mark_sleeping  *)
(* and mark_awake.                                                         *)
THEOREM SleepersCountedHolds == Spec => []SleepersCounted
<1>1. IInv => SleepersCounted
  BY DEF IInv
<1> QED BY <1>1, RuntimeInvariant, PTL

(* A worker's route names the service whose handler it runs, and a worker  *)
(* outside a turn has none: clear at the end of a busy turn is enough,     *)
(* because an idle turn never set one.                                     *)
THEOREM RouteFollowsDispatchHolds == Spec => []RouteFollowsDispatch
<1>1. IInv => RouteFollowsDispatch
  BY DEF IInv
<1> QED BY <1>1, RuntimeInvariant, PTL

(* check_once counts exactly the workers that are in a message and made no *)
(* progress since the last check.                                          *)
THEOREM StallIsRealHolds == Spec => StallIsReal
<1>1. ASSUME IInv, CheckOnce
      PROVE  stallEvents' - stallEvents =
                 Cardinality({w \in Workers : route[w] # None /\ w \notin progress})
  <2>1. \A w \in Workers : Stalled(w) <=> route[w] # None /\ w \notin progress
    BY <1>1 DEF IInv, VersionInv, Stalled, TypeOK
  <2>2. {w \in Workers : Stalled(w)} = {w \in Workers : route[w] # None /\ w \notin progress}
    BY <2>1
  <2>3. stallEvents \in Nat /\ Cardinality({w \in Workers : Stalled(w)}) \in Nat
    BY <1>1, WorkersCount, RuntimeFacts DEF IInv, TypeOK
  <2>4. stallEvents' = stallEvents + Cardinality({w \in Workers : Stalled(w)})
    BY <1>1 DEF CheckOnce
  <2>5. stallEvents' - stallEvents = Cardinality({w \in Workers : Stalled(w)})
    BY <2>3, <2>4
  <2> QED BY <2>2, <2>5
<1>2. IInv /\ [Next]_vars =>
        [CheckOnce => stallEvents' - stallEvents =
           Cardinality({w \in Workers : route[w] # None /\ w \notin progress})]_vars
  BY <1>1
<1> QED BY <1>2, RuntimeInvariant, PTL DEF Spec, StallIsReal
=============================================================================
