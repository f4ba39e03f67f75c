------------------------ MODULE SandboxManagerProofs ------------------------
(***************************************************************************)
(* Proofs about the SandboxManager for every number of cases, sandboxes    *)
(* per case and permits.  IInv says, per thread, which of its sandboxes    *)
(* hold a permit, are registered and have a container; everything else     *)
(* follows by counting.                                                    *)
(***************************************************************************)
EXTENDS EmergencyShutdown, TemplatePool, FiniteSetTheorems, TLAPS

(* The program counter of a session and its two counters. *)
CountersOK ==
  \A c \in Cases :
    /\ pc[c] = "idle" => made[c] = 0 /\ gone[c] = 0
    /\ pc[c] \in {"acquire"} \cup InCreate => made[c] < Need /\ gone[c] = 0
    /\ pc[c] = "body" => made[c] > 0 /\ gone[c] = 0
    /\ pc[c] \in InDestroy => gone[c] < made[c]
    /\ pc[c] = "done" => gone[c] = made[c]

(* Registered: returned by create() and not yet popped by destroy(). *)
Registered ==
  {s \in Sandboxes :
     /\ gone[s[1]] + (IF pc[s[1]] = "release" THEN 1 ELSE 0) < s[2]
     /\ s[2] <= made[s[1]]}

ActiveOK == active = Registered

(* Started and not yet closed by the session it belongs to. *)
Open ==
  {s \in Sandboxes :
     /\ gone[s[1]] + (IF pc[s[1]] \in {"unregister", "release"} THEN 1 ELSE 0) < s[2]
     /\ s[2] <= made[s[1]] + IF pc[s[1]] = "register" THEN 1 ELSE 0}

ContainersOK == containers \subseteq orphans \cup Open

StoppedOK == mainPc = "stopped" => Quiescent

IInv ==
  /\ TypeOK
  /\ CountersOK
  /\ ActiveOK
  /\ ContainersOK
  /\ StoppedOK
  /\ PermitsConserved
  /\ StatsAgree

-----------------------------------------------------------------------------
(* There are finitely many sandboxes, hence finitely many are held. *)
LEMMA SandboxesFinite == IsFiniteSet(Sandboxes)
<1>1. IsFiniteSet(Cases) /\ IsFiniteSet(1..Need)
  BY ManagerAssumption, FS_Interval
<1>2. QED
  BY <1>1, FS_Product, Zenon DEF Sandboxes

LEMMA HoldingFinite == IsFiniteSet(Holding) /\ Cardinality(Holding) \in Nat
<1>1. Holding \in SUBSET Sandboxes
  BY DEF Holding
<1>2. IsFiniteSet(Holding)
  BY <1>1, SandboxesFinite, FS_Subset
<1>3. QED
  BY <1>2, FS_CardinalityType

(* A registry and a set of permits are counted up and down one by one. *)
LEMMA CountAdd ==
  ASSUME NEW S, IsFiniteSet(S), NEW x, x \notin S
  PROVE  IsFiniteSet(S \cup {x}) /\ Cardinality(S \cup {x}) = Cardinality(S) + 1
BY FS_AddElement

LEMMA CountRemove ==
  ASSUME NEW S, IsFiniteSet(S), NEW x, x \in S
  PROVE  IsFiniteSet(S \ {x}) /\ Cardinality(S \ {x}) = Cardinality(S) - 1
BY FS_RemoveElement

(* The initial state satisfies the invariant: nothing is held, every permit *)
(* is free.                                                                 *)
LEMMA InitIInv == Init => IInv
<1> SUFFICES ASSUME Init PROVE IInv
  OBVIOUS
<1> USE ManagerAssumption
<1>1. TypeOK
  BY DEF Init, TypeOK, CasePc, Outcomes
<1>2. CountersOK
  BY DEF Init, CountersOK, InCreate, InDestroy
<1>3. Holding = {}
  BY DEF Init, Holding, Sandboxes, InCreate
<1>4. Registered = {}
  BY DEF Init, Registered, Sandboxes
<1>5. ActiveOK /\ ContainersOK /\ StoppedOK
  BY <1>4 DEF Init, ActiveOK, ContainersOK, StoppedOK
<1>6. PermitsConserved /\ StatsAgree
  BY <1>3, FS_EmptySet DEF Init, PermitsConserved, StatsAgree
<1>7. QED
  BY <1>1, <1>2, <1>5, <1>6 DEF IInv

-----------------------------------------------------------------------------
(* Lemmas about one step of one session *)

(* The sandbox being created or destroyed is one of the session's own. *)
LEMMA OwnSandbox ==
  ASSUME TypeOK, CountersOK, NEW c \in Cases
  PROVE  /\ pc[c] \in {"acquire"} \cup InCreate => Fresh(c) \in Sandboxes
         /\ pc[c] \in InDestroy => Leaving(c) \in Sandboxes
BY ManagerAssumption
DEF TypeOK, CountersOK, Fresh, Leaving, Sandboxes, InCreate, InDestroy

LEMMA CountersStep ==
  ASSUME TypeOK, CountersOK, NEW c \in Cases, Session(c)
  PROVE  CountersOK'
<1> USE ManagerAssumption DEF TypeOK, CountersOK, InCreate, InDestroy, Goto
<1>1. CASE StartCase(c) \/ BodyEnds(c) \/ BodyFails(c)
  BY <1>1 DEF StartCase, BodyEnds, BodyFails, managerVars
<1>2. CASE Acquire(c) \/ AcquireTimeout(c)
  BY <1>2 DEF Acquire, AcquireTimeout, CleanupEntry, managerVars
<1>3. CASE RunContainer(c) \/ RunContainerFails(c) \/ WrapContainerFails(c)
  BY <1>3 DEF RunContainer, RunContainerFails, WrapContainerFails, managerVars
<1>4. CASE Register(c) \/ GiveBack(c)
  BY <1>4 DEF Register, GiveBack, CleanupEntry
<1>5. CASE CloseContainer(c) \/ CloseContainerFails(c) \/ Unregister(c)
  BY <1>5 DEF CloseContainer, CloseContainerFails, Unregister
<1>6. CASE Release(c)
  BY <1>6 DEF Release
<1>7. QED
  BY <1>1, <1>2, <1>3, <1>4, <1>5, <1>6 DEF Session, Create, Destroy

(* A permit is taken for a sandbox that has none ... *)
LEMMA HoldingGrows ==
  ASSUME TypeOK, CountersOK, NEW c \in Cases, Acquire(c)
  PROVE  Holding' = Holding \cup {Fresh(c)} /\ Fresh(c) \notin Holding
BY ManagerAssumption, OwnSandbox
DEF TypeOK, CountersOK, Acquire, Goto, Fresh, Holding, Sandboxes, InCreate

(* ... returned by the two steps that release the semaphore ... *)
LEMMA HoldingShrinks ==
  ASSUME TypeOK, CountersOK, NEW c \in Cases
  PROVE  /\ GiveBack(c) => Holding' = Holding \ {Fresh(c)} /\ Fresh(c) \in Holding
         /\ Release(c) => Holding' = Holding \ {Leaving(c)} /\ Leaving(c) \in Holding
<1> USE ManagerAssumption, OwnSandbox
        DEF TypeOK, CountersOK, Goto, Holding, Sandboxes, InCreate, InDestroy
<1>1. ASSUME GiveBack(c)
      PROVE  Holding' = Holding \ {Fresh(c)} /\ Fresh(c) \in Holding
  BY <1>1 DEF GiveBack, CleanupEntry, Fresh
<1>2. ASSUME Release(c)
      PROVE  Holding' = Holding \ {Leaving(c)} /\ Leaving(c) \in Holding
  BY <1>2 DEF Release, Leaving
<1>3. QED
  BY <1>1, <1>2

(* ... and kept by all the others. *)
LEMMA HoldingStays ==
  ASSUME TypeOK, CountersOK, NEW c \in Cases, Session(c),
         ~Acquire(c), ~GiveBack(c), ~Release(c)
  PROVE  Holding' = Holding /\ permits' = permits
<1> USE ManagerAssumption DEF TypeOK, CountersOK, Goto, Holding, Sandboxes, InCreate, InDestroy
<1>1. CASE StartCase(c) \/ BodyEnds(c) \/ BodyFails(c)
  BY <1>1 DEF StartCase, BodyEnds, BodyFails, managerVars
<1>2. CASE AcquireTimeout(c)
  BY <1>2 DEF AcquireTimeout, CleanupEntry, managerVars
<1>3. CASE RunContainer(c) \/ RunContainerFails(c) \/ WrapContainerFails(c)
  BY <1>3 DEF RunContainer, RunContainerFails, WrapContainerFails, managerVars
<1>4. CASE Register(c)
  BY <1>4 DEF Register
<1>5. CASE CloseContainer(c) \/ CloseContainerFails(c) \/ Unregister(c)
  BY <1>5 DEF CloseContainer, CloseContainerFails, Unregister
<1>6. QED
  BY <1>1, <1>2, <1>3, <1>4, <1>5 DEF Session, Create, Destroy

LEMMA PermitsStep ==
  ASSUME IInv, NEW c \in Cases, Session(c)
  PROVE  PermitsConserved'
<1>0. /\ TypeOK /\ CountersOK
      /\ IsFiniteSet(Holding)
      /\ Cardinality(Holding) \in Nat
      /\ permits \in Nat
      /\ permits + Cardinality(Holding) = MaxConcurrent
  BY HoldingFinite DEF IInv, TypeOK, PermitsConserved
<1>1. CASE Acquire(c)
  <2>1. Cardinality(Holding') = Cardinality(Holding) + 1
    BY <1>0, <1>1, HoldingGrows, CountAdd
  <2>2. permits' = permits - 1
    BY <1>1 DEF Acquire
  <2>3. QED
    BY <1>0, <2>1, <2>2 DEF PermitsConserved
<1>2. CASE GiveBack(c)
  <2>1. Cardinality(Holding') = Cardinality(Holding) - 1
    BY <1>0, <1>2, HoldingShrinks, CountRemove
  <2>2. permits' = permits + 1
    BY <1>2 DEF GiveBack
  <2>3. QED
    BY <1>0, <2>1, <2>2 DEF PermitsConserved
<1>3. CASE Release(c)
  <2>1. Cardinality(Holding') = Cardinality(Holding) - 1
    BY <1>0, <1>3, HoldingShrinks, CountRemove
  <2>2. permits' = permits + 1
    BY <1>3 DEF Release
  <2>3. QED
    BY <1>0, <2>1, <2>2 DEF PermitsConserved
<1>4. CASE ~Acquire(c) /\ ~GiveBack(c) /\ ~Release(c)
  BY <1>0, <1>4, HoldingStays DEF PermitsConserved
<1>5. QED
  BY <1>1, <1>2, <1>3, <1>4

LEMMA ActiveFinite ==
  ASSUME ActiveOK
  PROVE  IsFiniteSet(active) /\ Cardinality(active) \in Nat
<1>1. active \in SUBSET Sandboxes
  BY DEF ActiveOK, Registered
<1>2. IsFiniteSet(active)
  BY <1>1, SandboxesFinite, FS_Subset
<1>3. QED
  BY <1>2, FS_CardinalityType

(* The statistics follow the size of the registry. *)
StatsType == [created : Nat, destroyed : Nat, current : Nat]

LEMMA CreatedCounts ==
  ASSUME stats \in StatsType, StatsAgree, Cardinality(active) \in Nat,
         Cardinality(active') = Cardinality(active) + 1,
         stats' = Counted(stats.created + 1, stats.destroyed, active')
  PROVE  StatsAgree' /\ stats' \in StatsType
BY DEF StatsAgree, StatsType, Counted

LEMMA DestroyedCounts ==
  ASSUME stats \in StatsType, StatsAgree, Cardinality(active) \in Nat, Cardinality(active) # 0,
         Cardinality(active') = Cardinality(active) - 1,
         stats' = Counted(stats.created, stats.destroyed + 1, active')
  PROVE  StatsAgree' /\ stats' \in StatsType
BY DEF StatsAgree, StatsType, Counted

(* What a session has registered changes in two steps only. *)
LEMMA RegisteredStays ==
  ASSUME TypeOK, CountersOK, NEW c \in Cases, Session(c), ~Register(c), ~Unregister(c)
  PROVE  Registered' = Registered
<1> USE ManagerAssumption DEF TypeOK, CountersOK, Goto, Registered, Sandboxes, InCreate, InDestroy
<1>1. CASE StartCase(c) \/ BodyEnds(c) \/ BodyFails(c)
  BY <1>1 DEF StartCase, BodyEnds, BodyFails, managerVars
<1>2. CASE Acquire(c) \/ AcquireTimeout(c) \/ GiveBack(c)
  BY <1>2 DEF Acquire, AcquireTimeout, GiveBack, CleanupEntry, managerVars
<1>3. CASE RunContainer(c) \/ RunContainerFails(c) \/ WrapContainerFails(c)
  BY <1>3 DEF RunContainer, RunContainerFails, WrapContainerFails, managerVars
<1>4. CASE CloseContainer(c) \/ CloseContainerFails(c)
  BY <1>4 DEF CloseContainer, CloseContainerFails
<1>5. CASE Release(c)
  BY <1>5 DEF Release
<1>6. QED
  BY <1>1, <1>2, <1>3, <1>4, <1>5 DEF Session, Create, Destroy

(* The registry follows the threads' counters, and the statistics follow   *)
(* the registry (sandbox_pool.py 443-446, 472-475).                        *)
LEMMA RegistryStep ==
  ASSUME IInv, NEW c \in Cases, Session(c)
  PROVE  ActiveOK' /\ StatsAgree' /\ stats' \in StatsType
<1>0. /\ IsFiniteSet(active)
      /\ Cardinality(active) \in Nat
      /\ stats \in StatsType
      /\ StatsAgree
  BY ActiveFinite DEF IInv, TypeOK, StatsType
<1> USE ManagerAssumption, OwnSandbox
        DEF IInv, TypeOK, CountersOK, ActiveOK, Goto, Registered, Sandboxes, InCreate, InDestroy
<1>1. CASE Register(c)
  <2>1. active' = active \cup {Fresh(c)} /\ Fresh(c) \notin active
    BY <1>1 DEF Register, Fresh
  <2>2. Cardinality(active') = Cardinality(active) + 1
    BY <1>0, <2>1, CountAdd
  <2>3. ActiveOK'
    BY <1>1 DEF Register, Fresh
  <2>4. stats' = Counted(stats.created + 1, stats.destroyed, active')
    BY <1>1 DEF Register
  <2>5. StatsAgree' /\ stats' \in StatsType
    BY <2>2, <2>4, <1>0, CreatedCounts
  <2>6. QED
    BY <2>3, <2>5
<1>2. CASE Unregister(c)
  <2>1. active' = active \ {Leaving(c)} /\ Leaving(c) \in active
    BY <1>2 DEF Unregister, Leaving
  <2>2. Cardinality(active') = Cardinality(active) - 1
    BY <1>0, <2>1, CountRemove
  <2>3. ActiveOK'
    BY <1>2 DEF Unregister, Leaving
  <2>4. stats' = Counted(stats.created, stats.destroyed + 1, active')
    BY <1>2 DEF Unregister
  <2>5. Cardinality(active) # 0
    <3> HIDE DEF IInv, ActiveOK
    <3>1. active # {}
      BY <2>1
    <3>2. QED
      BY <3>1, <1>0, FS_EmptySet
  <2>6. StatsAgree' /\ stats' \in StatsType
    BY <2>2, <2>4, <2>5, <1>0, DestroyedCounts
  <2>7. QED
    BY <2>3, <2>6
<1>3. CASE ~Register(c) /\ ~Unregister(c)
  <2>1. active' = active /\ stats' = stats
    BY <1>3 DEF Session, Create, Destroy, StartCase, BodyEnds, BodyFails, Acquire, AcquireTimeout,
       RunContainer, RunContainerFails, WrapContainerFails, GiveBack, CloseContainer,
       CloseContainerFails, Release, managerVars
  <2>2. Registered' = Registered
    BY <1>3, RegisteredStays
  <2>3. StatsAgree' /\ stats' \in StatsType
    BY <1>0, <2>1 DEF StatsAgree
  <2>4. ActiveOK'
    BY <2>1, <2>2
  <2>5. QED
    BY <2>3, <2>4
<1>4. QED
  BY <1>1, <1>2, <1>3

(* A container is opened under a permit and closed before it is returned. *)
LEMMA ContainersStep ==
  ASSUME TypeOK, CountersOK, ContainersOK, NEW c \in Cases, Session(c)
  PROVE  /\ ContainersOK'
         /\ containers' \in SUBSET Sandboxes
         /\ orphans' \in SUBSET Sandboxes
<1> USE ManagerAssumption, OwnSandbox
        DEF TypeOK, CountersOK, ContainersOK, Goto, Open, Sandboxes, InCreate, InDestroy
<1>1. CASE StartCase(c) \/ BodyEnds(c) \/ BodyFails(c)
  BY <1>1 DEF StartCase, BodyEnds, BodyFails, managerVars
<1>2. CASE Acquire(c) \/ AcquireTimeout(c) \/ GiveBack(c)
  BY <1>2 DEF Acquire, AcquireTimeout, GiveBack, CleanupEntry, managerVars
<1>3. CASE RunContainer(c)
  BY <1>3 DEF RunContainer, Fresh
<1>4. CASE RunContainerFails(c) \/ WrapContainerFails(c)
  BY <1>4 DEF RunContainerFails, WrapContainerFails, managerVars
<1>5. CASE Register(c)
  BY <1>5 DEF Register
<1>6. CASE CloseContainer(c) \/ CloseContainerFails(c)
  BY <1>6 DEF CloseContainer, CloseContainerFails, Leaving
<1>7. CASE Unregister(c)
  BY <1>7 DEF Unregister
<1>8. CASE Release(c)
  BY <1>8 DEF Release
<1>9. QED
  BY <1>1, <1>2, <1>3, <1>4, <1>5, <1>6, <1>7, <1>8 DEF Session, Create, Destroy

(* The threads' own variables keep their types, whatever the registry is.  *)
LEMMA ThreadsTyped ==
  ASSUME TypeOK, CountersOK, NEW c \in Cases, Session(c)
  PROVE  /\ permits' \in Nat
         /\ pc' \in [Cases -> CasePc]
         /\ made' \in [Cases -> 0..Need]
         /\ gone' \in [Cases -> 0..Need]
         /\ outcome' \in [Cases -> Outcomes]
         /\ mainPc' = mainPc
<1> USE ManagerAssumption DEF TypeOK, CountersOK, CasePc, InCreate, InDestroy, Outcomes, Goto
<1>1. CASE StartCase(c) \/ BodyEnds(c) \/ BodyFails(c)
  BY <1>1 DEF StartCase, BodyEnds, BodyFails, managerVars
<1>2. CASE Acquire(c) \/ AcquireTimeout(c)
  BY <1>2 DEF Acquire, AcquireTimeout, CleanupEntry, managerVars
<1>3. CASE RunContainer(c) \/ RunContainerFails(c) \/ WrapContainerFails(c)
  BY <1>3 DEF RunContainer, RunContainerFails, WrapContainerFails, managerVars
<1>4. CASE Register(c) \/ GiveBack(c)
  BY <1>4 DEF Register, GiveBack, CleanupEntry
<1>5. CASE CloseContainer(c) \/ CloseContainerFails(c) \/ Unregister(c)
  BY <1>5 DEF CloseContainer, CloseContainerFails, Unregister
<1>6. CASE Release(c)
  BY <1>6 DEF Release
<1>7. QED
  BY <1>1, <1>2, <1>3, <1>4, <1>5, <1>6 DEF Session, Create, Destroy

LEMMA TypeStep ==
  ASSUME IInv, NEW c \in Cases, Session(c)
  PROVE  TypeOK'
<1>1. active' \in SUBSET Sandboxes
  BY RegistryStep DEF ActiveOK, Registered
<1>2. /\ stats' \in [created : Nat, destroyed : Nat, current : Nat]
      /\ containers' \in SUBSET Sandboxes
      /\ orphans' \in SUBSET Sandboxes
  BY RegistryStep, ContainersStep DEF StatsType, IInv
<1>3. QED
  BY <1>1, <1>2, ThreadsTyped DEF IInv, TypeOK
-----------------------------------------------------------------------------
LEMMA SessionStep ==
  ASSUME IInv, NEW c \in Cases, Session(c)
  PROVE  IInv'
<1>1. StoppedOK'
  <2>1. mainPc' = mainPc
    BY DEF Session, Create, Destroy, StartCase, BodyEnds, BodyFails, Acquire, AcquireTimeout,
       RunContainer, RunContainerFails, WrapContainerFails, Register, GiveBack, CloseContainer,
       CloseContainerFails, Unregister, Release, managerVars
  <2>2. mainPc # "stopped"
    BY DEF IInv, StoppedOK, Quiescent, Session, Create, Destroy, StartCase, BodyEnds, BodyFails,
       Acquire, AcquireTimeout, RunContainer, RunContainerFails, WrapContainerFails, Register,
       GiveBack, CloseContainer, CloseContainerFails, Unregister, Release, Goto
  <2>3. QED
    BY <2>1, <2>2 DEF StoppedOK
<1>2. QED
  BY <1>1, TypeStep, CountersStep, RegistryStep, ContainersStep, PermitsStep DEF IInv

(* The invariant is inductive. *)
LEMMA NextIInv == IInv /\ [Next]_vars => IInv'
<1> SUFFICES ASSUME IInv, [Next]_vars PROVE IInv'
  OBVIOUS
<1> USE DEF IInv, TypeOK, CountersOK, ActiveOK, Registered, ContainersOK, Open, StoppedOK,
            Quiescent, PermitsConserved, Holding, StatsAgree
<1>1. CASE UNCHANGED vars
  BY <1>1 DEF vars
<1>2. CASE ServiceShutdown
  BY <1>2 DEF ServiceShutdown, managerVars, caseVars
<1>3. ASSUME NEW c \in Cases, Session(c)
      PROVE  IInv'
  BY <1>3, SessionStep
<1>4. QED
  BY <1>1, <1>2, <1>3 DEF Next

LEMMA Invariance == Spec => []IInv
BY InitIInv, NextIInv, PTL DEF Spec

(* Every variable keeps its type: in particular no number of failures      *)
(* drives the semaphore or a counter below zero.                           *)
THEOREM Typing == Spec => []TypeOK
<1>1. IInv => TypeOK
  BY DEF IInv
<1>2. QED
  BY <1>1, Invariance, PTL

(* create() and destroy() neither lose nor duplicate a permit, for any     *)
(* number of sessions and any mix of their failures (sandbox_pool.py       *)
(* 421-477).                                                               *)
THEOREM PermitConservation == Spec => []PermitsConserved
<1>1. IInv => PermitsConserved
  BY DEF IInv
<1>2. QED
  BY <1>1, Invariance, PTL

(* The containers somebody still has to remove never exceed max_concurrent. *)
THEOREM GlobalSandboxLimit == Spec => []ContainerLimit
<1>1. IInv => ContainerLimit
  <2> SUFFICES ASSUME IInv PROVE ContainerLimit
    OBVIOUS
  <2>1. containers \ orphans \in SUBSET Holding
    BY ManagerAssumption
    DEF IInv, ContainersOK, TypeOK, CountersOK, Open, Holding, InCreate, InDestroy, Sandboxes
  <2>2. Cardinality(containers \ orphans) <= Cardinality(Holding)
    BY <2>1, HoldingFinite, FS_Subset
  <2>3. Cardinality(containers \ orphans) \in Nat
    BY <2>1, HoldingFinite, FS_Subset, FS_CardinalityType
  <2>4. QED
    BY <2>2, <2>3, HoldingFinite, ManagerAssumption
    DEF IInv, TypeOK, PermitsConserved, ContainerLimit
<1>2. QED
  BY <1>1, Invariance, PTL

(* The statistics of the manager agree with its registry in every state.   *)
THEOREM StatsAgreement == Spec => []StatsAgree
<1>1. IInv => StatsAgree
  BY DEF IInv
<1>2. QED
  BY <1>1, Invariance, PTL

(* When the service shuts the manager down there is nothing left to do.    *)
THEOREM CleanShutdown == Spec => []NothingLeftAtShutdown
<1>1. IInv => NothingLeftAtShutdown
  <2> SUFFICES ASSUME IInv, mainPc = "stopped"
               PROVE  containers \subseteq orphans /\ active = {} /\ permits = MaxConcurrent
    BY DEF NothingLeftAtShutdown
  <2>1. \A c \in Cases : pc[c] \in {"idle", "done"} /\ gone[c] = made[c]
    BY DEF IInv, StoppedOK, Quiescent, CountersOK
  <2>2. Open = {} /\ active = {} /\ Holding = {}
    BY <2>1 DEF IInv, TypeOK, ActiveOK, Open, Registered, Holding, InCreate, Sandboxes
  <2>3. permits = MaxConcurrent
    BY <2>2, FS_EmptySet DEF IInv, TypeOK, PermitsConserved
  <2>4. QED
    BY <2>2, <2>3 DEF IInv, ContainersOK
<1>2. QED
  BY <1>1, Invariance, PTL
-----------------------------------------------------------------------------
(* Refinement: the sessions that ended, and what they can still hold *)

Ended == {c \in Cases : pc[c] = "done"}

(* A step of a session ends it or leaves the set of ended sessions alone.  *)
LEMMA EndedMove ==
  ASSUME pc \in [Cases -> CasePc], NEW c \in Cases, pc[c] # "done",
         NEW to, pc' = [pc EXCEPT ![c] = to]
  PROVE  /\ to = "done" => Ended' = Ended \cup {c} /\ pc'[c] = "done"
         /\ to # "done" => Ended' = Ended
BY DEF Ended

LEMMA EndedStep ==
  ASSUME IInv, NEW c \in Cases, Session(c)
  PROVE  /\ pc[c] # "done"
         /\ \/ Ended' = Ended
            \/ Ended' = Ended \cup {c} /\ pc'[c] = "done"
         /\ ~AcquireTimeout(c) /\ ~GiveBack(c) /\ ~Release(c) => Ended' = Ended
<1>1. PICK to : /\ pc' = [pc EXCEPT ![c] = to]
                /\ to = "done" => AcquireTimeout(c) \/ GiveBack(c) \/ Release(c)
  <2> USE DEF Goto
  <2>1. CASE StartCase(c) \/ BodyEnds(c) \/ BodyFails(c)
    BY <2>1 DEF StartCase, BodyEnds, BodyFails
  <2>2. CASE Acquire(c) \/ RunContainer(c) \/ RunContainerFails(c) \/ WrapContainerFails(c)
    BY <2>2 DEF Acquire, RunContainer, RunContainerFails, WrapContainerFails
  <2>3. CASE Register(c)
    <3>1. \/ pc' = [pc EXCEPT ![c] = "body"]
          \/ pc' = [pc EXCEPT ![c] = "acquire"]
      BY <2>3 DEF Register
    <3>2. QED
      BY <3>1
  <2>4. CASE CloseContainer(c) \/ CloseContainerFails(c) \/ Unregister(c)
    BY <2>4 DEF CloseContainer, CloseContainerFails, Unregister
  <2>5. CASE AcquireTimeout(c)
    BY <2>5 DEF AcquireTimeout
  <2>6. CASE GiveBack(c)
    BY <2>6 DEF GiveBack
  <2>7. CASE Release(c)
    BY <2>7 DEF Release
  <2>8. QED
    BY <2>1, <2>2, <2>3, <2>4, <2>5, <2>6, <2>7 DEF Session, Create, Destroy
<1>2. pc[c] # "done"
  BY DEF Session, Create, Destroy, StartCase, BodyEnds, BodyFails, Acquire, AcquireTimeout,
     RunContainer, RunContainerFails, WrapContainerFails, Register, GiveBack, CloseContainer,
     CloseContainerFails, Unregister, Release, Goto
<1>3. /\ to = "done" => Ended' = Ended \cup {c} /\ pc'[c] = "done"
      /\ to # "done" => Ended' = Ended
  BY <1>1, <1>2, EndedMove DEF IInv, TypeOK
<1>4. QED
  BY <1>1, <1>2, <1>3

LEMMA PoolInitial == Init => Pool!PoolInit
<1> SUFFICES ASSUME Init PROVE Pool!PoolInit
  OBVIOUS
<1>1. Holding = {}
  BY DEF Init, Holding, Sandboxes, InCreate
<1>2. {c \in Cases : pc[c] = "done"} = {}
  BY DEF Init
<1>3. QED
  BY <1>1, <1>2 DEF Pool!PoolInit

LEMMA PoolSessionStep ==
  ASSUME IInv, NEW c \in Cases, Session(c)
  PROVE  [Pool!PoolNext]_(Pool!poolVars)
<1>1. /\ pc[c] # "done"
      /\ \/ Ended' = Ended
         \/ Ended' = Ended \cup {c} /\ pc'[c] = "done"
      /\ ~AcquireTimeout(c) /\ ~GiveBack(c) /\ ~Release(c) => Ended' = Ended
  BY EndedStep
<1>2. pc'[c] = "done" => Pool!HoldsNone(c, Holding')
  <2>1. SUFFICES ASSUME pc'[c] = "done" PROVE Pool!HoldsNone(c, Holding')
    OBVIOUS
  <2>2. TypeOK' /\ CountersOK'
    BY SessionStep DEF IInv
  <2>3. QED
    BY <2>1, <2>2 DEF TypeOK, CountersOK, Pool!HoldsNone, Holding, InCreate, Sandboxes
<1>3. CASE Acquire(c)
  <2>1. Fresh(c) \in Sandboxes /\ Fresh(c)[1] = c
    BY <1>3, OwnSandbox DEF IInv, Acquire, Goto, Fresh
  <2>2. Cardinality(Holding) < MaxConcurrent
    BY <1>3, HoldingFinite, ManagerAssumption DEF Acquire, IInv, TypeOK, PermitsConserved
  <2>3. Ended' = Ended
    BY <1>1, <1>3 DEF Acquire, Goto, AcquireTimeout, GiveBack, Release
  <2>4. Pool!Cardinality(Holding) = Cardinality(Holding)
    BY DEF Pool!Cardinality, Cardinality
  <2>5. Pool!Grant(Fresh(c))
    BY <1>1, <1>3, <2>1, <2>2, <2>3, <2>4, HoldingGrows DEF IInv, Pool!Grant, Ended
  <2>6. QED
    BY <2>1, <2>5 DEF Pool!PoolNext, Pool!Places, Sandboxes
<1>4. CASE GiveBack(c)
  <2>1. PICK s \in Pool!Places : s = Fresh(c) /\ s[1] = c
    BY <1>4, OwnSandbox DEF IInv, GiveBack, Goto, Fresh, InCreate, Pool!Places, Sandboxes
  <2>2. Holding' = Holding \ {s} /\ s \in Holding
    BY <1>4, <2>1, HoldingShrinks DEF IInv
  <2>3. \/ Ended' = Ended
        \/ Pool!HoldsNone(c, Holding') /\ Ended' = Ended \cup {c}
    BY <1>1, <1>2
  <2>4. Pool!Return(s)
    BY <2>1, <2>2, <2>3 DEF Pool!Return, Ended
  <2>5. QED
    BY <2>4 DEF Pool!PoolNext
<1>5. CASE Release(c)
  <2>1. PICK s \in Pool!Places : s = Leaving(c) /\ s[1] = c
    BY <1>5, OwnSandbox DEF IInv, Release, Goto, Leaving, InDestroy, Pool!Places, Sandboxes
  <2>2. Holding' = Holding \ {s} /\ s \in Holding
    BY <1>5, <2>1, HoldingShrinks DEF IInv
  <2>3. \/ Ended' = Ended
        \/ Pool!HoldsNone(c, Holding') /\ Ended' = Ended \cup {c}
    BY <1>1, <1>2
  <2>4. Pool!Return(s)
    BY <2>1, <2>2, <2>3 DEF Pool!Return, Ended
  <2>5. QED
    BY <2>4 DEF Pool!PoolNext
<1>6. CASE ~Acquire(c) /\ ~GiveBack(c) /\ ~Release(c)
  <2>1. Holding' = Holding
    BY <1>6, HoldingStays DEF IInv
  <2>2. CASE Ended' = Ended
    BY <2>1, <2>2 DEF Pool!poolVars, Ended
  <2>3. CASE Ended' = Ended \cup {c} /\ pc'[c] = "done"
    <3>1. Pool!End(c)
      BY <1>2, <2>1, <2>3 DEF Pool!End, Ended
    <3>2. QED
      BY <3>1 DEF Pool!PoolNext
  <2>4. QED
    BY <1>1, <2>2, <2>3
<1>7. QED
  BY <1>3, <1>4, <1>5, <1>6

(* The manager used by any number of sessions implements the abstract pool *)
(* of places (its safety part; that places do come back is model-checked). *)
THEOREM Refinement == Spec => Pool!PoolSafety
<1>1. IInv /\ [Next]_vars => [Pool!PoolNext]_(Pool!poolVars)
  <2> SUFFICES ASSUME IInv, [Next]_vars PROVE [Pool!PoolNext]_(Pool!poolVars)
    OBVIOUS
  <2>1. CASE UNCHANGED vars
    BY <2>1 DEF vars, Pool!poolVars, Holding
  <2>2. CASE ServiceShutdown
    BY <2>2 DEF ServiceShutdown, managerVars, caseVars, Pool!poolVars, Holding
  <2>3. ASSUME NEW c \in Cases, Session(c)
        PROVE  [Pool!PoolNext]_(Pool!poolVars)
    BY <2>3, PoolSessionStep
  <2>4. QED
    BY <2>1, <2>2, <2>3 DEF Next
<1>2. QED
  BY <1>1, PoolInitial, Invariance, PTL DEF Spec, Pool!PoolSafety

-----------------------------------------------------------------------------
(***************************************************************************)
(* What an emergency shutdown keeps right, for every number of sessions,   *)
(* sandboxes and permits and every number of Ctrl+C.  The sessions' steps  *)
(* are those of SandboxManager, and most lemmas about them carry over; the *)
(* registry is no longer exactly what the sessions' counters say, because  *)
(* the main thread empties it behind their back, but it never holds more.  *)
(***************************************************************************)

(* Only what a session made and has not unregistered is registered. *)
ActiveKnown == active \subseteq Registered

GaugeCounts == stats.current = Cardinality(active)

(* What the main thread is about to destroy was registered by somebody. *)
ShutTyped ==
  /\ shutPc \in {"waiting", "returned", "aborted"} \cup Cleaning
  /\ todo \in SUBSET Sandboxes
  /\ victim \in SUBSET Sandboxes

EInv ==
  /\ TypeOK
  /\ CountersOK
  /\ ActiveKnown
  /\ GaugeCounts
  /\ ContainersOK
  /\ PermitsNeverLost
  /\ ShutTyped

LEMMA EInitInv == EInit => EInv
<1> SUFFICES ASSUME EInit PROVE EInv
  OBVIOUS
<1>1. IInv
  BY InitIInv DEF EInit
<1>2. ActiveKnown /\ GaugeCounts
  BY <1>1 DEF IInv, ActiveOK, ActiveKnown, StatsAgree, GaugeCounts
<1>3. PermitsNeverLost
  BY <1>1, ManagerAssumption DEF IInv, TypeOK, PermitsConserved, PermitsNeverLost
<1>4. ShutTyped
  BY DEF EInit, ShutTyped
<1>5. QED
  BY <1>1, <1>2, <1>3, <1>4 DEF IInv, EInv

-----------------------------------------------------------------------------
(* A registry is finite, and so is what is left of it. *)
LEMMA RegistryFinite ==
  ASSUME NEW A, A \in SUBSET Sandboxes
  PROVE  IsFiniteSet(A) /\ Cardinality(A) \in Nat
BY SandboxesFinite, FS_Subset, FS_CardinalityType

(* Every change of the registry recomputes the gauge from it. *)
LEMMA GaugeRecomputed ==
  ASSUME stats \in StatsType, active' \in SUBSET Sandboxes,
         NEW created \in Nat, NEW destroyed \in Nat,
         stats' = Counted(created, destroyed, active')
  PROVE  GaugeCounts' /\ stats' \in StatsType
<1>1. Cardinality(active') \in Nat
  BY RegistryFinite
<1>2. QED
  BY <1>1 DEF GaugeCounts, StatsType, Counted

(* A session adds the sandbox it made and removes its own: what it does not *)
(* find any more it does not need to remove.                                *)
LEMMA SessionRegistry ==
  ASSUME TypeOK, CountersOK, ActiveKnown, GaugeCounts, NEW c \in Cases, Session(c)
  PROVE  ActiveKnown' /\ GaugeCounts' /\ stats' \in StatsType
<1>0. stats \in StatsType /\ stats.created \in Nat /\ stats.destroyed \in Nat
  BY DEF TypeOK, StatsType
<1> USE ManagerAssumption, OwnSandbox
        DEF TypeOK, CountersOK, ActiveKnown, Goto, Registered, Sandboxes, InCreate, InDestroy
<1>1. CASE Register(c)
  <2>1. ActiveKnown'
    BY <1>1 DEF Register, Fresh
  <2>2. active' \in SUBSET Sandboxes
    BY <2>1
  <2>3. stats' = Counted(stats.created + 1, stats.destroyed, active')
    BY <1>1 DEF Register
  <2>4. QED
    BY <1>0, <2>1, <2>2, <2>3, GaugeRecomputed
<1>2. CASE Unregister(c)
  <2>1. ActiveKnown'
    BY <1>2 DEF Unregister, Leaving
  <2>2. active' \in SUBSET Sandboxes
    BY <2>1
  <2>3. stats' = Counted(stats.created, stats.destroyed + 1, active')
    BY <1>2 DEF Unregister
  <2>4. QED
    BY <1>0, <2>1, <2>2, <2>3, GaugeRecomputed
<1>3. CASE ~Register(c) /\ ~Unregister(c)
  <2>1. active' = active /\ stats' = stats
    BY <1>3 DEF Session, Create, Destroy, StartCase, BodyEnds, BodyFails, Acquire, AcquireTimeout,
       RunContainer, RunContainerFails, WrapContainerFails, GiveBack, CloseContainer,
       CloseContainerFails, Release, managerVars
  <2>2. Registered' = Registered
    BY <1>3, RegisteredStays
  <2>3. QED
    BY <1>0, <2>1, <2>2 DEF GaugeCounts
<1>4. QED
  BY <1>1, <1>2, <1>3

(* A session takes a permit only for a sandbox it then holds, and returns  *)
(* one for every sandbox it lets go of.                                    *)
LEMMA SessionPermits ==
  ASSUME TypeOK, CountersOK, PermitsNeverLost, NEW c \in Cases, Session(c)
  PROVE  PermitsNeverLost'
<1>0. /\ IsFiniteSet(Holding)
      /\ Cardinality(Holding) \in Nat
      /\ permits \in Nat
      /\ MaxConcurrent \in Nat
      /\ permits + Cardinality(Holding) >= MaxConcurrent
  BY HoldingFinite, ManagerAssumption DEF TypeOK, PermitsNeverLost
<1>1. CASE Acquire(c)
  <2>1. Cardinality(Holding') = Cardinality(Holding) + 1
    BY <1>0, <1>1, HoldingGrows, CountAdd
  <2>2. permits' = permits - 1
    BY <1>1 DEF Acquire
  <2>3. QED
    BY <1>0, <2>1, <2>2 DEF PermitsNeverLost
<1>2. CASE GiveBack(c)
  <2>1. Cardinality(Holding') = Cardinality(Holding) - 1
    BY <1>0, <1>2, HoldingShrinks, CountRemove
  <2>2. permits' = permits + 1
    BY <1>2 DEF GiveBack
  <2>3. QED
    BY <1>0, <2>1, <2>2 DEF PermitsNeverLost
<1>3. CASE Release(c)
  <2>1. Cardinality(Holding') = Cardinality(Holding) - 1
    BY <1>0, <1>3, HoldingShrinks, CountRemove
  <2>2. permits' = permits + 1
    BY <1>3 DEF Release
  <2>3. QED
    BY <1>0, <2>1, <2>2 DEF PermitsNeverLost
<1>4. CASE ~Acquire(c) /\ ~GiveBack(c) /\ ~Release(c)
  BY <1>0, <1>4, HoldingStays DEF PermitsNeverLost
<1>5. QED
  BY <1>1, <1>2, <1>3, <1>4

LEMMA LocalSessionStep ==
  ASSUME EInv, NEW c \in Cases, LocalSession(c)
  PROVE  EInv'
<1>1. Session(c) /\ UNCHANGED shutVars
  BY DEF LocalSession
<1>2. CountersOK'
  BY <1>1, CountersStep DEF EInv
<1>3. ActiveKnown' /\ GaugeCounts' /\ stats' \in StatsType
  BY <1>1, SessionRegistry DEF EInv
<1>4. PermitsNeverLost'
  BY <1>1, SessionPermits DEF EInv
<1>5. ContainersOK' /\ containers' \in SUBSET Sandboxes /\ orphans' \in SUBSET Sandboxes
  BY <1>1, ContainersStep DEF EInv
<1>6. TypeOK'
  <2>1. active' \in SUBSET Sandboxes
    BY <1>3 DEF ActiveKnown, Registered
  <2>2. QED
    BY <1>1, <1>3, <1>5, <2>1, ThreadsTyped DEF EInv, TypeOK, StatsType
<1>7. ShutTyped'
  BY <1>1 DEF EInv, ShutTyped, shutVars
<1>8. QED
  BY <1>2, <1>3, <1>4, <1>5, <1>6, <1>7 DEF EInv

-----------------------------------------------------------------------------
(* The main thread *)

(* What it leaves alone keeps its meaning. *)
LEMMA ThreadsAlone ==
  ASSUME UNCHANGED caseVars
  PROVE  Holding' = Holding /\ Registered' = Registered /\ Open' = Open
BY DEF caseVars, Holding, Registered, Open, Sandboxes

LEMMA ManagerAlone ==
  ASSUME EInv, UNCHANGED vars, ShutTyped'
  PROVE  EInv'
<1>1. UNCHANGED caseVars
  BY DEF vars, caseVars
<1>2. TypeOK'
  BY DEF EInv, TypeOK, vars
<1>3. CountersOK'
  BY DEF EInv, CountersOK, vars
<1>4. ActiveKnown' /\ GaugeCounts' /\ ContainersOK' /\ PermitsNeverLost'
  BY <1>1, ThreadsAlone
  DEF EInv, ActiveKnown, GaugeCounts, ContainersOK, PermitsNeverLost, vars
<1>5. QED
  BY <1>2, <1>3, <1>4 DEF EInv

LEMMA ShutdownStep ==
  ASSUME EInv, Shutdown
  PROVE  EInv'
<1>1. CASE ShutNext
  <2>1. UNCHANGED vars /\ ShutTyped'
    BY <1>1 DEF ShutNext, EInv, ShutTyped, Cleaning
  <2>2. QED
    BY <2>1, ManagerAlone
<1>2. CASE ShutClose
  <2>1. /\ UNCHANGED <<permits, active, stats, orphans, caseVars, mainPc, todo, victim>>
        /\ containers' \subseteq containers
        /\ shutPc' = "unregister"
    BY <1>2 DEF ShutClose, ShutGoto
  <2>2. Holding' = Holding /\ Registered' = Registered /\ Open' = Open
    BY <2>1, ThreadsAlone
  <2>3. TypeOK' /\ CountersOK'
    BY <2>1 DEF EInv, TypeOK, CountersOK, caseVars
  <2>4. ActiveKnown' /\ GaugeCounts' /\ ContainersOK' /\ PermitsNeverLost' /\ ShutTyped'
    BY <2>1, <2>2 DEF EInv, ActiveKnown, GaugeCounts, ContainersOK, PermitsNeverLost,
       ShutTyped, Cleaning
  <2>5. QED
    BY <2>3, <2>4 DEF EInv
<1>3. CASE ShutUnregister
  <2>1. /\ UNCHANGED <<permits, containers, orphans, caseVars, mainPc, todo, victim>>
        /\ active' = active \ victim
        /\ stats' = Counted(stats.created, stats.destroyed + 1, active')
        /\ shutPc' = "release"
    BY <1>3 DEF ShutUnregister, ShutGoto
  <2>2. Holding' = Holding /\ Registered' = Registered /\ Open' = Open
    BY <2>1, ThreadsAlone
  <2>3. active' \in SUBSET Sandboxes
    BY <2>1 DEF EInv, TypeOK
  <2>4. GaugeCounts' /\ stats' \in StatsType
    <3>1. stats \in StatsType /\ stats.created \in Nat /\ stats.destroyed + 1 \in Nat
      BY DEF EInv, TypeOK, StatsType
    <3>2. QED
      BY <2>1, <2>3, <3>1, GaugeRecomputed
  <2>5. TypeOK' /\ CountersOK'
    BY <2>1, <2>3, <2>4 DEF EInv, TypeOK, CountersOK, caseVars, StatsType
  <2>6. ActiveKnown' /\ ContainersOK' /\ PermitsNeverLost' /\ ShutTyped'
    BY <2>1, <2>2 DEF EInv, ActiveKnown, ContainersOK, PermitsNeverLost, ShutTyped, Cleaning
  <2>7. QED
    BY <2>4, <2>5, <2>6 DEF EInv
<1>4. CASE ShutRelease
  <2>1. /\ UNCHANGED <<active, stats, containers, orphans, caseVars, mainPc, todo>>
        /\ permits' = permits + 1
        /\ victim' = {}
        /\ shutPc' = "next"
    BY <1>4 DEF ShutRelease, ShutGoto
  <2>2. Holding' = Holding /\ Registered' = Registered /\ Open' = Open
    BY <2>1, ThreadsAlone
  <2>3. TypeOK' /\ CountersOK'
    BY <2>1 DEF EInv, TypeOK, CountersOK, caseVars
  <2>4. PermitsNeverLost'
    BY <2>1, <2>2, HoldingFinite, ManagerAssumption DEF EInv, TypeOK, PermitsNeverLost
  <2>5. ActiveKnown' /\ GaugeCounts' /\ ContainersOK' /\ ShutTyped'
    BY <2>1, <2>2 DEF EInv, ActiveKnown, GaugeCounts, ContainersOK, ShutTyped, Cleaning
  <2>6. QED
    BY <2>3, <2>4, <2>5 DEF EInv
<1>5. QED
  BY <1>1, <1>2, <1>3, <1>4 DEF Shutdown

(* The invariant is inductive. *)
LEMMA ENextInv == EInv /\ [ENext]_evars => EInv'
<1> SUFFICES ASSUME EInv, [ENext]_evars PROVE EInv'
  OBVIOUS
<1>1. CASE UNCHANGED evars
  <2>1. UNCHANGED vars /\ ShutTyped'
    BY <1>1 DEF evars, shutVars, EInv, ShutTyped
  <2>2. QED
    BY <2>1, ManagerAlone
<1>2. CASE CasesDone
  <2>1. UNCHANGED vars /\ ShutTyped'
    BY <1>2 DEF CasesDone, EnterCleanup, ShutGoto, EInv, TypeOK, ShutTyped, Cleaning
  <2>2. QED
    BY <2>1, ManagerAlone
<1>3. CASE CtrlC
  <2>1. UNCHANGED vars /\ ShutTyped'
    BY <1>3 DEF CtrlC, EnterCleanup, ShutGoto, EInv, TypeOK, ShutTyped, Cleaning
  <2>2. QED
    BY <2>1, ManagerAlone
<1>4. CASE Shutdown
  BY <1>4, ShutdownStep
<1>5. ASSUME NEW c \in Cases, LocalSession(c)
      PROVE  EInv'
  BY <1>5, LocalSessionStep
<1>6. QED
  BY <1>1, <1>2, <1>3, <1>4, <1>5 DEF ENext

LEMMA EInvariance == ESpec => []EInv
BY EInitInv, ENextInv, PTL DEF ESpec

(* No sequence of Ctrl+C, double destroy() and failures loses a permit,    *)
(* makes the gauge disagree with the registry, or leaves a sandbox         *)
(* registered once every session's thread is out (evaluator.py 371-386,    *)
(* sandbox_pool.py 462-477, 535-550).                                      *)
THEOREM EmergencyAccounts == ESpec => []AccountsKept
<1>1. EInv => AccountsKept
  <2> SUFFICES ASSUME EInv PROVE AccountsKept
    OBVIOUS
  <2>1. Quiescent => active = {}
    <3> SUFFICES ASSUME Quiescent PROVE active = {}
      OBVIOUS
    <3>1. \A c \in Cases : gone[c] = made[c] /\ made[c] \in 0..Need
      BY DEF EInv, TypeOK, CountersOK, Quiescent
    <3>2. Registered = {}
      BY <3>1, ManagerAssumption DEF Registered, Sandboxes, Quiescent
    <3>3. QED
      BY <3>2 DEF EInv, ActiveKnown
  <2>2. QED
    BY <2>1 DEF EInv, AccountsKept, GaugeRight, GaugeCounts
<1>2. QED
  BY <1>1, EInvariance, PTL

(* The safety half of EveryContainerGoes: once every thread is out, only   *)
(* containers Docker refused to remove are left, whether or not the main   *)
(* thread's own cleanup saw them, succeeded or was cut short.              *)
THEOREM OwnersCleanUp == ESpec => [](Quiescent => containers \subseteq orphans)
<1>1. EInv => (Quiescent => containers \subseteq orphans)
  <2> SUFFICES ASSUME EInv, Quiescent PROVE containers \subseteq orphans
    OBVIOUS
  <2>1. \A c \in Cases : gone[c] = made[c] /\ made[c] \in 0..Need
    BY DEF EInv, TypeOK, CountersOK, Quiescent
  <2>2. Open = {}
    BY <2>1, ManagerAssumption DEF Open, Sandboxes, Quiescent
  <2>3. QED
    BY <2>2 DEF EInv, ContainersOK
<1>2. QED
  BY <1>1, EInvariance, PTL
-----------------------------------------------------------------------------
(***************************************************************************)
(* The image pool that shares nothing with the manager but its users, for  *)
(* any number of threads, keys, evictions and failures.                    *)
(*                                                                         *)
(* The invariant: who waits for a key or builds it has the key's present   *)
(* lock, because the key is neither stale nor chosen for eviction as long  *)
(* as somebody wants it and it is not cached; and who uses an image he     *)
(* looked up in time keeps it out of the collector's reach.                *)
(***************************************************************************)

Wanting(c) == stage[c] \in {"wait", "recheck", "build", "publish"}

(* What the collector works on is cached, and what is cached exists. *)
CollectorOK ==
  /\ chosen \subseteq templates
  /\ gcPc = "sleep" => chosen = {}
  /\ gcPc # "forget" => removed = {}
  /\ templates \cap Keys \subseteq images \cup chosen

(* An entry is chosen only once for each epoch of its key. *)
EvictionsOK == \A k \in stale \cup chosen : epoch[k] < MaxEvictions

(* A key somebody wants is out of the collector's reach... *)
WantingOK ==
  \A c \in Callers :
    Wanting(c) /\ key[c] \in Keys =>
      /\ lock[c] = epoch[key[c]]
      /\ key[c] \notin stale
      /\ key[c] \notin chosen
BaseLockOK == \A c \in Callers : Wanting(c) /\ key[c] = Base => lock[c] = 0

(* ... so its lock is one lock, which one thread at most is in... *)
LocksOK == \A c, d \in Callers : c # d /\ Locked(c) /\ Locked(d) => key[c] # key[d]

(* ... and what is built is not cached. *)
BuildsOK ==
  \A c \in Callers :
    /\ stage[c] \in {"build", "publish"} => key[c] \notin templates
    /\ stage[c] = "build" => key[c] \in Keys
PublishOK == \A c \in Callers : stage[c] = "publish" /\ key[c] \in Keys => key[c] \in images

(* Every image is accounted for, the one just removed too. *)
DiskOK ==
  /\ images \subseteq templates \cup leaked \cup {key[c] : c \in {d \in Callers : stage[d] = "publish"}}
  /\ removed \cap images \subseteq leaked

(* A template looked up in time is cached, fresh and there. *)
UsingOK ==
  \A c \in Callers :
    image[c] = "template" =>
      /\ stage[c] = "use"
      /\ c \notin doomed => /\ key[c] \in templates \cap Keys \cap images
                            /\ key[c] \notin stale
                            /\ key[c] \notin chosen

ImageInv ==
  /\ PoolTypeOK /\ CollectorOK /\ EvictionsOK
  /\ WantingOK /\ BaseLockOK /\ LocksOK /\ BuildsOK /\ PublishOK
  /\ DiskOK /\ UsingOK
-----------------------------------------------------------------------------

LEMMA ImageTypesInit == ASSUME ImageInit PROVE PoolTypeOK
BY TemplateAssumption DEF ImageInit, PoolTypeOK, AllKeys, Stages

LEMMA ImageTypesStep ==
  ASSUME PoolTypeOK, CollectorOK, EvictionsOK, BuildsOK, [ImageNext]_imageVars
  PROVE  PoolTypeOK'
<1> USE TemplateAssumption
    DEF pool, caller, gc, AllKeys, Stages, CollectorOK, EvictionsOK, BuildsOK
<1>1. ASSUME NEW c \in Callers, Call(c) PROVE PoolTypeOK'
  BY <1>1 DEF Call, CallerGoes, PoolTypeOK
<1>2. ASSUME NEW c \in Callers, Lookup(c) PROVE PoolTypeOK'
  BY <1>2 DEF Lookup, Found, PoolTypeOK
<1>3. ASSUME NEW c \in Callers, EnterBuildLock(c) PROVE PoolTypeOK'
  BY <1>3 DEF EnterBuildLock, CallerGoes, PoolTypeOK
<1>4. ASSUME NEW c \in Callers, Recheck(c) PROVE PoolTypeOK'
  BY <1>4 DEF Recheck, Found, PoolTypeOK
<1>5. ASSUME NEW c \in Callers, Build(c) PROVE PoolTypeOK'
  BY <1>5 DEF Build, CallerGoes, PoolTypeOK
<1>6. ASSUME NEW c \in Callers, BuildFails(c) PROVE PoolTypeOK'
  BY <1>6 DEF BuildFails, CallerGoes, Fault, PoolTypeOK
<1>7. ASSUME NEW c \in Callers, Publish(c) PROVE PoolTypeOK'
  BY <1>7 DEF Publish, CallerGoes, PoolTypeOK
<1>8. ASSUME NEW c \in Callers, Leave(c) PROVE PoolTypeOK'
  BY <1>8 DEF Leave, CallerGoes, PoolTypeOK
<1>9. ASSUME NEW k \in Keys, Age(k) PROVE PoolTypeOK'
  BY <1>9 DEF Age, PoolTypeOK
<1>10. ASSUME ChooseStale PROVE PoolTypeOK'
  BY <1>10 DEF ChooseStale, PoolTypeOK
<1>11. ASSUME RemoveImage PROVE PoolTypeOK'
  BY <1>11 DEF RemoveImage, Fault, PoolTypeOK
<1>12. ASSUME Forget PROVE PoolTypeOK'
  BY <1>12 DEF Forget, PoolTypeOK
<1>13. ASSUME UNCHANGED imageVars PROVE PoolTypeOK'
  BY <1>13 DEF imageVars, PoolTypeOK
<1>14. ASSUME NEW k \in Keys, CommitActs(k) PROVE PoolTypeOK'
  BY <1>14 DEF CommitActs, PoolTypeOK
<1>15. QED
  BY <1>1, <1>2, <1>3, <1>4, <1>5, <1>6, <1>7, <1>8, <1>9, <1>10, <1>11, <1>12, <1>13, <1>14
     DEF ImageNext, GetOrCreate, EvictStale

LEMMA ImageInvInit == ASSUME ImageInit PROVE ImageInv
BY ImageTypesInit DEF ImageInit, ImageInv, CollectorOK, EvictionsOK, Wanting, WantingOK, BaseLockOK,
   Locked, LocksOK, BuildsOK, PublishOK, DiskOK, UsingOK

LEMMA ImageInvStep == ASSUME ImageInv, [ImageNext]_imageVars PROVE ImageInv'
<1> USE TemplateAssumption DEF pool, caller, gc, AllKeys
<1>1. PoolTypeOK'
  BY ImageTypesStep DEF ImageInv
<1>2. ASSUME NEW c \in Callers, Call(c) PROVE ImageInv'
  <2>1. CollectorOK'
    BY <1>2 DEF ImageInv, Call, CollectorOK
  <2>2. EvictionsOK'
    BY <1>2 DEF ImageInv, Call, EvictionsOK
  <2>3. WantingOK'
    BY <1>2 DEF ImageInv, Call, CallerGoes, WantingOK, Wanting
  <2>4. BaseLockOK'
    BY <1>2 DEF ImageInv, Call, CallerGoes, BaseLockOK, Wanting
  <2>5. LocksOK'
    BY <1>2 DEF ImageInv, Call, CallerGoes, LocksOK, Locked
  <2>6. BuildsOK'
    BY <1>2 DEF ImageInv, Call, CallerGoes, BuildsOK
  <2>7. PublishOK'
    BY <1>2 DEF ImageInv, Call, CallerGoes, PublishOK
  <2>8. DiskOK'
    BY <1>2 DEF ImageInv, Call, CallerGoes, DiskOK
  <2>9. UsingOK'
    BY <1>2 DEF ImageInv, Call, CallerGoes, UsingOK
  <2>10. QED
    BY <1>1, <2>1, <2>2, <2>3, <2>4, <2>5, <2>6, <2>7, <2>8, <2>9 DEF ImageInv
<1>3. ASSUME NEW c \in Callers, Lookup(c) PROVE ImageInv'
  <2>1. CollectorOK'
    BY <1>3 DEF ImageInv, Lookup, Found, CollectorOK
  <2>2. EvictionsOK'
    BY <1>3 DEF ImageInv, Lookup, Found, EvictionsOK
  <2>3. WantingOK'
    BY <1>3 DEF ImageInv, PoolTypeOK, Lookup, Found, WantingOK, Wanting, CollectorOK
  <2>4. BaseLockOK'
    BY <1>3 DEF ImageInv, PoolTypeOK, Lookup, Found, BaseLockOK, Wanting
  <2>5. LocksOK'
    BY <1>3 DEF ImageInv, PoolTypeOK, Lookup, Found, LocksOK, Locked
  <2>6. BuildsOK'
    BY <1>3 DEF ImageInv, PoolTypeOK, Lookup, Found, BuildsOK
  <2>7. PublishOK'
    BY <1>3 DEF ImageInv, PoolTypeOK, Lookup, Found, PublishOK
  <2>8. DiskOK'
    BY <1>3 DEF ImageInv, PoolTypeOK, Lookup, Found, DiskOK
  <2>9. UsingOK'
    BY <1>3 DEF ImageInv, PoolTypeOK, Lookup, Found, UsingOK, CollectorOK
  <2>10. QED
    BY <1>1, <2>1, <2>2, <2>3, <2>4, <2>5, <2>6, <2>7, <2>8, <2>9 DEF ImageInv
<1>4. ASSUME NEW c \in Callers, EnterBuildLock(c) PROVE ImageInv'
  <2>1. CollectorOK'
    BY <1>4 DEF ImageInv, EnterBuildLock, CollectorOK
  <2>2. EvictionsOK'
    BY <1>4 DEF ImageInv, EnterBuildLock, EvictionsOK
  <2>3. WantingOK'
    BY <1>4 DEF ImageInv, EnterBuildLock, CallerGoes, WantingOK, Wanting
  <2>4. BaseLockOK'
    BY <1>4 DEF ImageInv, EnterBuildLock, CallerGoes, BaseLockOK, Wanting
  <2>5. LocksOK'
    BY <1>4 DEF ImageInv, PoolTypeOK, EnterBuildLock, CallerGoes, LocksOK, Wanting, Locked, SameLock, WantingOK, BaseLockOK
  <2>6. BuildsOK'
    BY <1>4 DEF ImageInv, EnterBuildLock, CallerGoes, BuildsOK
  <2>7. PublishOK'
    BY <1>4 DEF ImageInv, EnterBuildLock, CallerGoes, PublishOK
  <2>8. DiskOK'
    BY <1>4 DEF ImageInv, EnterBuildLock, CallerGoes, DiskOK
  <2>9. UsingOK'
    BY <1>4 DEF ImageInv, EnterBuildLock, CallerGoes, UsingOK
  <2>10. QED
    BY <1>1, <2>1, <2>2, <2>3, <2>4, <2>5, <2>6, <2>7, <2>8, <2>9 DEF ImageInv
<1>5. ASSUME NEW c \in Callers, Recheck(c) PROVE ImageInv'
  <2>1. CollectorOK'
    BY <1>5 DEF ImageInv, Recheck, Found, CollectorOK
  <2>2. EvictionsOK'
    BY <1>5 DEF ImageInv, Recheck, Found, EvictionsOK
  <2>3. WantingOK'
    BY <1>5 DEF ImageInv, PoolTypeOK, Recheck, Found, WantingOK, Wanting
  <2>4. BaseLockOK'
    BY <1>5 DEF ImageInv, PoolTypeOK, Recheck, Found, BaseLockOK, Wanting
  <2>5. LocksOK'
    BY <1>5 DEF ImageInv, PoolTypeOK, Recheck, Found, LocksOK, Locked
  <2>6. BuildsOK'
    BY <1>5 DEF ImageInv, PoolTypeOK, Recheck, Found, BuildsOK
  <2>7. PublishOK'
    BY <1>5 DEF ImageInv, PoolTypeOK, Recheck, Found, PublishOK
  <2>8. DiskOK'
    BY <1>5 DEF ImageInv, PoolTypeOK, Recheck, Found, DiskOK
  <2>9. UsingOK'
    BY <1>5 DEF ImageInv, PoolTypeOK, Recheck, Found, UsingOK, CollectorOK
  <2>10. QED
    BY <1>1, <2>1, <2>2, <2>3, <2>4, <2>5, <2>6, <2>7, <2>8, <2>9 DEF ImageInv
<1>6. ASSUME NEW c \in Callers, Build(c) PROVE ImageInv'
  <2>1. CollectorOK'
    BY <1>6 DEF ImageInv, Build, CollectorOK
  <2>2. EvictionsOK'
    BY <1>6 DEF ImageInv, Build, EvictionsOK
  <2>3. WantingOK'
    BY <1>6 DEF ImageInv, Build, CallerGoes, WantingOK, Wanting
  <2>4. BaseLockOK'
    BY <1>6 DEF ImageInv, Build, CallerGoes, BaseLockOK, Wanting
  <2>5. LocksOK'
    BY <1>6 DEF ImageInv, Build, CallerGoes, LocksOK, Locked
  <2>6. BuildsOK'
    BY <1>6 DEF ImageInv, Build, CallerGoes, BuildsOK
  <2>7. PublishOK'
    BY <1>6 DEF ImageInv, Build, CallerGoes, PublishOK
  <2>8. DiskOK'
    BY <1>6 DEF ImageInv, PoolTypeOK, Build, CallerGoes, DiskOK, WantingOK, Wanting
  <2>9. UsingOK'
    BY <1>6 DEF ImageInv, Build, CallerGoes, UsingOK
  <2>10. QED
    BY <1>1, <2>1, <2>2, <2>3, <2>4, <2>5, <2>6, <2>7, <2>8, <2>9 DEF ImageInv
<1>7. ASSUME NEW c \in Callers, BuildFails(c) PROVE ImageInv'
  <2>1. CollectorOK'
    BY <1>7 DEF ImageInv, BuildFails, CollectorOK
  <2>2. EvictionsOK'
    BY <1>7 DEF ImageInv, BuildFails, EvictionsOK
  <2>3. WantingOK'
    BY <1>7 DEF ImageInv, BuildFails, CallerGoes, WantingOK, Wanting
  <2>4. BaseLockOK'
    BY <1>7 DEF ImageInv, BuildFails, CallerGoes, BaseLockOK, Wanting
  <2>5. LocksOK'
    BY <1>7 DEF ImageInv, BuildFails, CallerGoes, LocksOK, Locked
  <2>6. BuildsOK'
    BY <1>7 DEF ImageInv, BuildFails, CallerGoes, BuildsOK
  <2>7. PublishOK'
    BY <1>7 DEF ImageInv, BuildFails, CallerGoes, PublishOK
  <2>8. DiskOK'
    BY <1>7 DEF ImageInv, BuildFails, CallerGoes, DiskOK
  <2>9. UsingOK'
    BY <1>7 DEF ImageInv, BuildFails, CallerGoes, UsingOK
  <2>10. QED
    BY <1>1, <2>1, <2>2, <2>3, <2>4, <2>5, <2>6, <2>7, <2>8, <2>9 DEF ImageInv
<1>8. ASSUME NEW c \in Callers, Publish(c) PROVE ImageInv'
  <2>1. CollectorOK'
    BY <1>8 DEF ImageInv, Publish, CallerGoes, CollectorOK, PublishOK
  <2>2. EvictionsOK'
    BY <1>8 DEF ImageInv, Publish, EvictionsOK
  <2>3. WantingOK'
    BY <1>8 DEF ImageInv, Publish, CallerGoes, WantingOK, Wanting
  <2>4. BaseLockOK'
    BY <1>8 DEF ImageInv, Publish, CallerGoes, BaseLockOK, Wanting
  <2>5. LocksOK'
    BY <1>8 DEF ImageInv, Publish, CallerGoes, LocksOK, Locked
  <2>6. BuildsOK'
    BY <1>8 DEF ImageInv, PoolTypeOK, Publish, CallerGoes, BuildsOK, Locked, LocksOK
  <2>7. PublishOK'
    BY <1>8 DEF ImageInv, Publish, CallerGoes, PublishOK
  <2>8. DiskOK'
    BY <1>8 DEF ImageInv, Publish, CallerGoes, DiskOK
  <2>9. UsingOK'
    BY <1>8 DEF ImageInv, PoolTypeOK, Publish, CallerGoes, UsingOK, PublishOK, WantingOK, Wanting
  <2>10. QED
    BY <1>1, <2>1, <2>2, <2>3, <2>4, <2>5, <2>6, <2>7, <2>8, <2>9 DEF ImageInv
<1>9. ASSUME NEW c \in Callers, Leave(c) PROVE ImageInv'
  <2>1. CollectorOK'
    BY <1>9 DEF ImageInv, Leave, CollectorOK
  <2>2. EvictionsOK'
    BY <1>9 DEF ImageInv, Leave, EvictionsOK
  <2>3. WantingOK'
    BY <1>9 DEF ImageInv, Leave, CallerGoes, WantingOK, Wanting
  <2>4. BaseLockOK'
    BY <1>9 DEF ImageInv, Leave, CallerGoes, BaseLockOK, Wanting
  <2>5. LocksOK'
    BY <1>9 DEF ImageInv, Leave, CallerGoes, LocksOK, Locked
  <2>6. BuildsOK'
    BY <1>9 DEF ImageInv, Leave, CallerGoes, BuildsOK
  <2>7. PublishOK'
    BY <1>9 DEF ImageInv, Leave, CallerGoes, PublishOK
  <2>8. DiskOK'
    BY <1>9 DEF ImageInv, Leave, CallerGoes, DiskOK
  <2>9. UsingOK'
    BY <1>9 DEF ImageInv, PoolTypeOK, Leave, CallerGoes, UsingOK
  <2>10. QED
    BY <1>1, <2>1, <2>2, <2>3, <2>4, <2>5, <2>6, <2>7, <2>8, <2>9 DEF ImageInv
<1>10. ASSUME NEW k \in Keys, Age(k) PROVE ImageInv'
  <2>1. CollectorOK'
    BY <1>10 DEF ImageInv, Age, CollectorOK
  <2>2. EvictionsOK'
    BY <1>10 DEF ImageInv, Age, EvictionsOK
  <2>3. WantingOK'
    BY <1>10 DEF ImageInv, Age, WantingOK, Wanting
  <2>4. BaseLockOK'
    BY <1>10 DEF ImageInv, Age, BaseLockOK, Wanting
  <2>5. LocksOK'
    BY <1>10 DEF ImageInv, Age, LocksOK, Locked
  <2>6. BuildsOK'
    BY <1>10 DEF ImageInv, Age, BuildsOK
  <2>7. PublishOK'
    BY <1>10 DEF ImageInv, Age, PublishOK
  <2>8. DiskOK'
    BY <1>10 DEF ImageInv, Age, DiskOK
  <2>9. UsingOK'
    BY <1>10 DEF ImageInv, Age, UsingOK
  <2>10. QED
    BY <1>1, <2>1, <2>2, <2>3, <2>4, <2>5, <2>6, <2>7, <2>8, <2>9 DEF ImageInv
<1>11. ASSUME ChooseStale PROVE ImageInv'
  <2>1. CollectorOK'
    BY <1>11 DEF ImageInv, PoolTypeOK, ChooseStale, CollectorOK
  <2>2. EvictionsOK'
    BY <1>11 DEF ImageInv, ChooseStale, EvictionsOK
  <2>3. WantingOK'
    BY <1>11 DEF ImageInv, ChooseStale, WantingOK, Wanting
  <2>4. BaseLockOK'
    BY <1>11 DEF ImageInv, ChooseStale, BaseLockOK, Wanting
  <2>5. LocksOK'
    BY <1>11 DEF ImageInv, ChooseStale, LocksOK, Locked
  <2>6. BuildsOK'
    BY <1>11 DEF ImageInv, ChooseStale, BuildsOK
  <2>7. PublishOK'
    BY <1>11 DEF ImageInv, ChooseStale, PublishOK
  <2>8. DiskOK'
    BY <1>11 DEF ImageInv, ChooseStale, DiskOK
  <2>9. UsingOK'
    BY <1>11 DEF ImageInv, ChooseStale, UsingOK
  <2>10. QED
    BY <1>1, <2>1, <2>2, <2>3, <2>4, <2>5, <2>6, <2>7, <2>8, <2>9 DEF ImageInv
<1>12. ASSUME RemoveImage PROVE ImageInv'
  <2>1. CollectorOK'
    BY <1>12 DEF ImageInv, RemoveImage, CollectorOK
  <2>2. EvictionsOK'
    BY <1>12 DEF ImageInv, RemoveImage, EvictionsOK
  <2>3. WantingOK'
    BY <1>12 DEF ImageInv, RemoveImage, WantingOK, Wanting
  <2>4. BaseLockOK'
    BY <1>12 DEF ImageInv, RemoveImage, BaseLockOK, Wanting
  <2>5. LocksOK'
    BY <1>12 DEF ImageInv, RemoveImage, LocksOK, Locked
  <2>6. BuildsOK'
    BY <1>12 DEF ImageInv, RemoveImage, BuildsOK
  <2>7. PublishOK'
    BY <1>12 DEF ImageInv, RemoveImage, PublishOK, WantingOK, Wanting
  <2>8. DiskOK'
    BY <1>12 DEF ImageInv, RemoveImage, DiskOK
  <2>9. UsingOK'
    BY <1>12 DEF ImageInv, RemoveImage, UsingOK
  <2>10. QED
    BY <1>1, <2>1, <2>2, <2>3, <2>4, <2>5, <2>6, <2>7, <2>8, <2>9 DEF ImageInv
<1>13. ASSUME Forget PROVE ImageInv'
  <2>1. CollectorOK'
    BY <1>13 DEF ImageInv, Forget, CollectorOK
  <2>2. EvictionsOK'
    BY <1>13 DEF ImageInv, PoolTypeOK, Forget, EvictionsOK
  <2>3. WantingOK'
    BY <1>13 DEF ImageInv, PoolTypeOK, Forget, WantingOK, Wanting
  <2>4. BaseLockOK'
    BY <1>13 DEF ImageInv, Forget, BaseLockOK, Wanting
  <2>5. LocksOK'
    BY <1>13 DEF ImageInv, Forget, LocksOK, Locked
  <2>6. BuildsOK'
    BY <1>13 DEF ImageInv, Forget, BuildsOK
  <2>7. PublishOK'
    BY <1>13 DEF ImageInv, Forget, PublishOK
  <2>8. DiskOK'
    BY <1>13 DEF ImageInv, Forget, DiskOK
  <2>9. UsingOK'
    BY <1>13 DEF ImageInv, PoolTypeOK, Forget, UsingOK
  <2>10. QED
    BY <1>1, <2>1, <2>2, <2>3, <2>4, <2>5, <2>6, <2>7, <2>8, <2>9 DEF ImageInv
<1>14. ASSUME UNCHANGED imageVars PROVE ImageInv'
  <2>1. CollectorOK'
    BY <1>14 DEF ImageInv, imageVars, CollectorOK
  <2>2. EvictionsOK'
    BY <1>14 DEF ImageInv, imageVars, EvictionsOK
  <2>3. WantingOK'
    BY <1>14 DEF ImageInv, imageVars, WantingOK, Wanting
  <2>4. BaseLockOK'
    BY <1>14 DEF ImageInv, imageVars, BaseLockOK, Wanting
  <2>5. LocksOK'
    BY <1>14 DEF ImageInv, imageVars, LocksOK, Locked
  <2>6. BuildsOK'
    BY <1>14 DEF ImageInv, imageVars, BuildsOK
  <2>7. PublishOK'
    BY <1>14 DEF ImageInv, imageVars, PublishOK
  <2>8. DiskOK'
    BY <1>14 DEF ImageInv, imageVars, DiskOK
  <2>9. UsingOK'
    BY <1>14 DEF ImageInv, imageVars, UsingOK
  <2>10. QED
    BY <1>1, <2>1, <2>2, <2>3, <2>4, <2>5, <2>6, <2>7, <2>8, <2>9 DEF ImageInv
<1>15. ASSUME NEW k \in Keys, CommitActs(k) PROVE ImageInv'
  <2>1. CollectorOK'
    BY <1>15 DEF ImageInv, CommitActs, CollectorOK
  <2>2. EvictionsOK'
    BY <1>15 DEF ImageInv, CommitActs, EvictionsOK
  <2>3. WantingOK'
    BY <1>15 DEF ImageInv, CommitActs, WantingOK, Wanting
  <2>4. BaseLockOK'
    BY <1>15 DEF ImageInv, CommitActs, BaseLockOK, Wanting
  <2>5. LocksOK'
    BY <1>15 DEF ImageInv, CommitActs, LocksOK, Locked
  <2>6. BuildsOK'
    BY <1>15 DEF ImageInv, CommitActs, BuildsOK
  <2>7. PublishOK'
    BY <1>15 DEF ImageInv, CommitActs, PublishOK
  <2>8. DiskOK'
    BY <1>15 DEF ImageInv, CommitActs, DiskOK
  <2>9. UsingOK'
    BY <1>15 DEF ImageInv, CommitActs, UsingOK
  <2>10. QED
    BY <1>1, <2>1, <2>2, <2>3, <2>4, <2>5, <2>6, <2>7, <2>8, <2>9 DEF ImageInv
<1>16. QED
  BY <1>2, <1>3, <1>4, <1>5, <1>6, <1>7, <1>8, <1>9, <1>10, <1>11, <1>12, <1>13, <1>14, <1>15
     DEF ImageNext, GetOrCreate, EvictStale

(* ImageInv holds always. *)
THEOREM ImagesInvariant == ImageSpec => []ImageInv
<1>1. ImageInit => ImageInv
  BY ImageInvInit
<1>2. ImageInv /\ [ImageNext]_imageVars => ImageInv'
  BY ImageInvStep
<1>3. QED
  BY <1>1, <1>2, PTL DEF ImageSpec

(* The pool's and the threads' variables keep their types. *)
THEOREM PoolTyping == ImageSpec => []PoolTypeOK
<1>1. ImageInv => PoolTypeOK
  BY DEF ImageInv
<1>2. QED
  BY <1>1, ImagesInvariant, PTL

(* However many cases of a phase start at once, and although eviction      *)
(* replaces build locks that threads have already found, its image is      *)
(* built by one of them and never while it is cached (sandbox_pool.py      *)
(* 184-241).                                                               *)
THEOREM NoDoubleBuild == ImageSpec => []OneBuilder
<1>1. ImageInv => OneBuilder
  BY DEF ImageInv, BuildsOK, LocksOK, Locked, OneBuilder
<1>2. QED
  BY <1>1, ImagesInvariant, PTL

(* Who was given a template, and looked it up before or after an eviction  *)
(* but not during it, creates his sandboxes from an image that exists.     *)
THEOREM ImagesInUse == ImageSpec => []InUseExists
<1>1. ImageInv => InUseExists
  BY DEF ImageInv, UsingOK, InUseExists
<1>2. QED
  BY <1>1, ImagesInvariant, PTL

(* Whatever builds and removals fail, a cached image exists or is being    *)
(* evicted, and an image the pool did not lose is cached or about to be.   *)
THEOREM DiskAgreement == ImageSpec => []CacheMatchesDisk
<1>1. ImageInv => CacheMatchesDisk
  BY DEF ImageInv, CollectorOK, DiskOK, CacheMatchesDisk
<1>2. QED
  BY <1>1, ImagesInvariant, PTL
=============================================================================
