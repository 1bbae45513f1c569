---------------------------- MODULE Cascade_proofs ----------------------------
(***************************************************************************)
(* Theorems about Cascade, for every fabric, number of workers and bound.  *)
(***************************************************************************)
EXTENDS Cascade, FiniteSetTheorems, TLAPS

(* Typing needs one fact more than TypeOK: the set a run counts to number   *)
(* its next device is finite.                                               *)
TypeInv == TypeOK /\ \A w \in Workers : IsFiniteSet(run[w].made)

LEMMA IdleIsRunState == Idle \in RunState /\ IsFiniteSet(Idle.made)
  BY FS_EmptySet DEF Idle, RunState, Targets

LEMMA InitTyped == Init => TypeInv
  <1> SUFFICES ASSUME Init PROVE TypeInv
    OBVIOUS
  <1>1. amount \in [Targets -> Nat]
    BY BoundsAreNumbers DEF Init
  <1>2. TypeOK
    BY <1>1, IdleIsRunState DEF Init, TypeOK
  <1>3. \A w \in Workers : IsFiniteSet(run[w].made)
    BY IdleIsRunState DEF Init
  <1> QED
    BY <1>2, <1>3 DEF TypeInv

LEMMA RunTyped ==
    ASSUME TypeInv, NEW w \in Workers, NEW r \in RunState, IsFiniteSet(r.made),
           run' = [run EXCEPT ![w] = r]
    PROVE  run' \in [Workers -> RunState] /\ \A v \in Workers : IsFiniteSet(run'[v].made)
  BY DEF TypeInv, TypeOK

LEMMA OnlyRunTyped ==
    ASSUME TypeInv, UNCHANGED <<design, nodes, checksum, asn, pending, faults>>,
           run' \in [Workers -> RunState], \A v \in Workers : IsFiniteSet(run'[v].made)
    PROVE  TypeInv'
  BY DEF TypeInv, TypeOK, design, nodes, asn, faults

LEMMA StartTyped ==
    ASSUME TypeInv, NEW w \in Workers, NEW t \in Targets, NEW pc \in {"gate", "pools"},
           NEW n \in Nat, Dequeue(w, t), Begin(w, t, pc, n),
           UNCHANGED <<design, nodes, checksum, asn, faults>>
    PROVE  TypeInv'
  <1>1. pending' \in [Targets -> Nat]
    BY DEF TypeInv, TypeOK, Dequeue
  <1>2. run' \in [Workers -> RunState] /\ \A v \in Workers : IsFiniteSet(run'[v].made)
    BY IdleIsRunState DEF TypeInv, TypeOK, Begin, RunState, Idle
  <1> QED
    BY <1>1, <1>2 DEF TypeInv, TypeOK, design, nodes, asn, faults

LEMMA AbortTyped == ASSUME TypeInv, NEW w \in Workers, Abort(w) PROVE TypeInv'
  BY IdleIsRunState DEF TypeInv, TypeOK, Abort, design, nodes, asn, faults

LEMMA CreateTyped == ASSUME TypeInv, NEW w \in Workers, CreateDevice(w) PROVE TypeInv'
  <1> DEFINE t == run[w].target
             i == Cardinality(run[w].made) + 1
             new == <<t, i, born[t] + 1>>
  <1>1. t \in Targets /\ i \in Nat /\ new \in Device
    BY FS_CardinalityType DEF TypeInv, TypeOK, RunState, Device
  <1>2. PICK d \in Device : run' = [run EXCEPT ![w].made = @ \cup {d}]
    BY <1>1 DEF CreateDevice, DevicesOf, TypeInv, TypeOK
  <1>3. IsFiniteSet(run[w].made \cup {d})
    BY FS_AddElement DEF TypeInv
  <1>4. run' \in [Workers -> RunState] /\ \A v \in Workers : IsFiniteSet(run'[v].made)
    BY <1>2, <1>3, SMTT(30) DEF TypeInv, TypeOK, RunState
  <1>5. devices' \subseteq Device /\ born' \in [Targets -> Nat]
    BY <1>1 DEF CreateDevice, TypeInv, TypeOK
  <1> QED
    BY <1>4, <1>5 DEF CreateDevice, TypeInv, TypeOK, design, asn, faults

LEMMA StampTyped ==
    ASSUME TypeInv, NEW w \in Workers, NEW c \in Children, StampChild(w, c)
    PROVE  TypeInv'
  <1>1. c \in Targets
    BY DEF Children, Targets
  <1>2. run[w] \in RunState
    BY DEF TypeInv, TypeOK
  <1>3. checksum' \in [Children -> {NoDigest} \cup SUBSET Device]
    BY <1>2 DEF TypeInv, TypeOK, StampChild, RunState
  <1>4. pending' \in [Targets -> Nat]
    BY <1>1 DEF TypeInv, TypeOK, StampChild
  <1>5. run' \in [Workers -> RunState] /\ \A v \in Workers : IsFiniteSet(run'[v].made)
    BY <1>2 DEF TypeInv, TypeOK, StampChild, RunState
  <1> QED
    BY <1>3, <1>4, <1>5 DEF StampChild, TypeInv, TypeOK, design, nodes, asn, faults

LEMMA ReadAsnTyped == ASSUME TypeInv, NEW w \in Workers, ReadAsn(w) PROVE TypeInv'
  <1>1. run' \in [Workers -> RunState] /\ \A v \in Workers : IsFiniteSet(run'[v].made)
    <2> DEFINE left == IF overlayAsn = 0 THEN {} ELSE run[w].made
               r == [run[w] EXCEPT !.pc = "overlay", !.asn = overlayAsn, !.left = left]
    <2>0. run[w] \in RunState /\ overlayAsn \in Nat
      BY DEF TypeInv, TypeOK
    <2>1. r \in RunState /\ r.made = run[w].made
      <3>1. left \subseteq Device
        BY <2>0 DEF RunState
      <3> QED
        BY <2>0, <3>1 DEF RunState
    <2>2. run' = [run EXCEPT ![w] = r]
      BY DEF ReadAsn, TypeInv, TypeOK
    <2> QED
      BY <2>1, <2>2, RunTyped DEF TypeInv
  <1> QED
    BY <1>1, OnlyRunTyped DEF ReadAsn

LEMMA ConfigureTyped ==
    ASSUME TypeInv, NEW w \in Workers, NEW d \in run[w].left, ConfigureDevice(w, d)
    PROVE  TypeInv'
  <1>1. CASE Abort(w)
    BY <1>1, AbortTyped
  <1>2. CASE ~Abort(w)
    <2>1. run[w] \in RunState
      BY DEF TypeInv, TypeOK
    <2>2. run' \in [Workers -> RunState] /\ \A v \in Workers : IsFiniteSet(run'[v].made)
      <3> DEFINE r == [run[w] EXCEPT !.left = @ \ {d}]
      <3>1. r \in RunState /\ r.made = run[w].made
        BY <2>1 DEF RunState
      <3>2. run' = [run EXCEPT ![w] = r]
        BY <1>2 DEF ConfigureDevice
      <3> QED
        BY <3>1, <3>2, RunTyped DEF TypeInv
    <2>3. stamped' \subseteq Device \X Nat
      BY <1>2, <2>1 DEF ConfigureDevice, StampAsn, TypeInv, TypeOK, RunState
    <2>4. sessions' \subseteq Adjacency \X Nat
      BY <1>2, <2>1 DEF ConfigureDevice, UpsertSessions, AdjacenciesOf, TypeInv, TypeOK, RunState
    <2> QED
      BY <1>2, <2>2, <2>3, <2>4 DEF ConfigureDevice, TypeInv, TypeOK, design, asn, faults
  <1> QED
    BY <1>1, <1>2

LEMMA FinishTyped == ASSUME TypeInv, NEW w \in Workers, Finish(w) PROVE TypeInv'
  <1>1. run[w] \in RunState
    BY DEF TypeInv, TypeOK
  <1>2. run' \in [Workers -> RunState] /\ \A v \in Workers : IsFiniteSet(run'[v].made)
    BY IdleIsRunState DEF Finish, TypeInv, TypeOK
  <1>3. tracked' \in [Targets -> SUBSET Device] /\ trackedLinks' \in [Targets -> SUBSET Adjacency]
    BY <1>1 DEF Finish, TypeInv, TypeOK, RunState
  <1>4. /\ devices' \subseteq Device /\ links' \subseteq Adjacency
        /\ stamped' \subseteq Device \X Nat /\ sessions' \subseteq Adjacency \X Nat
        /\ broken' \subseteq Targets
    BY DEF Finish, TypeInv, TypeOK
  <1> QED
    BY <1>2, <1>3, <1>4 DEF Finish, TypeInv, TypeOK, design, asn

LEMMA FabricTyped == ASSUME TypeInv, NEW w \in Workers, FabricStep(w) PROVE TypeInv'
  <1>0. run[w] \in RunState /\ Fabric \in Targets /\ amount[Fabric] \in Nat
    BY DEF TypeInv, TypeOK, Targets
  <1>1. CASE FabricStart(w)
    BY <1>0, <1>1, StartTyped DEF FabricStart
  <1>2. CASE FabricPools(w)
    BY <1>0, <1>2 DEF FabricPools, Goto, TypeInv, TypeOK, RunState, design, asn, faults
  <1>3. CASE FabricCreate(w)
    BY <1>3, CreateTyped DEF FabricCreate
  <1>4. CASE FabricListPods(w)
    <2>1. ToStamp(Pods, run[w].made) \subseteq Children
      BY DEF ToStamp, Children
    <2>2. run' \in [Workers -> RunState] /\ \A v \in Workers : IsFiniteSet(run'[v].made)
      BY <1>0, <1>4, <2>1 DEF FabricListPods, TypeInv, TypeOK, RunState
    <2> QED
      BY <1>4, <2>2, OnlyRunTyped DEF FabricListPods
  <1>5. CASE \E p \in Pods : FabricStamp(w, p)
    BY <1>5, StampTyped DEF FabricStamp, Children
  <1>6. CASE FabricReadAsn(w)
    <2>1. run' \in [Workers -> RunState] /\ \A v \in Workers : IsFiniteSet(run'[v].made)
      <3>1. CASE MustAllocate(overlayAsn)
        BY <1>0, <1>6, <3>1, SMTT(30) DEF FabricReadAsn, Goto, TypeInv, TypeOK, RunState
      <3>2. CASE ~MustAllocate(overlayAsn)
        <4> DEFINE r == [run[w] EXCEPT !.pc = "overlay", !.asn = overlayAsn,
                                       !.left = run[w].made]
        <4>1. r \in RunState /\ r.made = run[w].made
          BY <1>0 DEF TypeInv, TypeOK, RunState
        <4>2. run' = [run EXCEPT ![w] = r]
          BY <1>6, <3>2 DEF FabricReadAsn
        <4> QED
          BY <4>1, <4>2, RunTyped DEF TypeInv
      <3> QED
        BY <3>1, <3>2
    <2> QED
      BY <1>6, <2>1, OnlyRunTyped DEF FabricReadAsn
  <1>7. CASE FabricAllocateAsn(w)
    BY <1>0, <1>7, SMTT(30) DEF FabricAllocateAsn, Goto, TypeInv, TypeOK, RunState, design, nodes, faults
  <1>8. CASE FabricRereadAsn(w)
    <2>1. run' \in [Workers -> RunState] /\ \A v \in Workers : IsFiniteSet(run'[v].made)
      BY <1>0, <1>8 DEF FabricRereadAsn, TypeInv, TypeOK, RunState
    <2> QED
      BY <1>8, <2>1, OnlyRunTyped DEF FabricRereadAsn
  <1>9. CASE \E d \in run[w].left : FabricStampAsn(w, d)
    <2> PICK d \in run[w].left : FabricStampAsn(w, d)
      BY <1>9
    <2>1. CASE d \notin devices
      BY <2>1, AbortTyped DEF FabricStampAsn
    <2>2. CASE d \in devices
      <3>1. run' \in [Workers -> RunState] /\ \A v \in Workers : IsFiniteSet(run'[v].made)
        BY <1>0, <2>2 DEF FabricStampAsn, TypeInv, TypeOK, RunState
      <3>2. stamped' \subseteq Device \X Nat
        BY <1>0, <2>2 DEF FabricStampAsn, StampAsn, TypeInv, TypeOK, RunState
      <3> QED
        BY <2>2, <3>1, <3>2 DEF FabricStampAsn, TypeInv, TypeOK, design, asn, faults
    <2> QED
      BY <2>1, <2>2
  <1> QED
    BY <1>1, <1>2, <1>3, <1>4, <1>5, <1>6, <1>7, <1>8, <1>9 DEF FabricStep

(* However far the uplinks go: a run cables what it made to what it listed.  *)
LEMMA PlanIsPart ==
    ASSUME NEW w
    PROVE  CablingPlan(w) \subseteq (run[w].made \cap devices) \X (run[w].upper \cap devices)
BY DEF CablingPlan, First

LEMMA PodTyped == ASSUME TypeInv, NEW w \in Workers, PodStep(w) PROVE TypeInv'
  <1>0. run[w] \in RunState /\ Pods \subseteq Targets /\ Fabric \in Targets
    BY DEF TypeInv, TypeOK, Targets
  <1>1. ASSUME NEW p \in Pods, PodSkip(w, p) PROVE TypeInv'
    BY <1>0, <1>1 DEF PodSkip, Dequeue, TypeInv, TypeOK, design, nodes, asn
  <1>2. ASSUME NEW p \in Pods, PodStart(w, p) PROVE TypeInv'
    <2>1. amount[Fabric] \in Nat
      BY <1>0 DEF TypeInv, TypeOK
    <2> QED
      BY <1>0, <1>2, <2>1, StartTyped DEF PodStart
  <1>3. CASE PodGate(w)
    <2>1. CASE ~TierIsComplete(w, DevicesOf(Fabric))
      BY <1>3, <2>1, AbortTyped DEF PodGate
    <2>2. CASE TierIsComplete(w, DevicesOf(Fabric))
      <3>1. DevicesOf(Fabric) \subseteq Device
        BY DEF DevicesOf, TypeInv, TypeOK
      <3>2. run' \in [Workers -> RunState] /\ \A v \in Workers : IsFiniteSet(run'[v].made)
        <4> DEFINE r == [run[w] EXCEPT !.pc = "pools", !.upper = DevicesOf(Fabric)]
        <4>1. r \in RunState /\ r.made = run[w].made
          BY <1>0, <3>1 DEF RunState
        <4>2. run' = [run EXCEPT ![w] = r]
          BY <1>3, <2>2 DEF PodGate
        <4> QED
          BY <4>1, <4>2, RunTyped DEF TypeInv
      <3> QED
        BY <1>3, <2>2, <3>2, OnlyRunTyped DEF PodGate
    <2> QED
      BY <2>1, <2>2
  <1>4. CASE PodPools(w)
    <2>1. CASE ~pools[Fabric]
      BY <1>4, <2>1, AbortTyped DEF PodPools
    <2>2. CASE pools[Fabric]
      <3>1. run' \in [Workers -> RunState] /\ \A v \in Workers : IsFiniteSet(run'[v].made)
        <4> DEFINE r == [run[w] EXCEPT !.pc = "create"]
        <4>1. r \in RunState /\ r.made = run[w].made
          BY <1>0 DEF RunState
        <4>2. run' = [run EXCEPT ![w] = r]
          BY <1>4, <2>2 DEF PodPools, Goto
        <4> QED
          BY <4>1, <4>2, RunTyped DEF TypeInv
      <3>2. pools' \in [Targets -> BOOLEAN]
        BY <1>0, <1>4, <2>2 DEF PodPools, TypeInv, TypeOK, RunState
      <3> QED
        BY <1>4, <2>2, <3>1, <3>2 DEF PodPools, TypeInv, TypeOK, design, asn, faults
    <2> QED
      BY <2>1, <2>2
  <1>5. CASE PodCreate(w)
    BY <1>5, CreateTyped DEF PodCreate
  <1>6. CASE PodCable(w)
    <2>1. CablingPlan(w) \subseteq Adjacency /\ PodDigest(w) \subseteq Device
      BY <1>0, PlanIsPart DEF PodDigest, Adjacency, RunState
    <2>2. ToStamp(RacksOf(run[w].target), PodDigest(w)) \subseteq Children
      BY DEF ToStamp, RacksOf, Children
    <2>3. run' \in [Workers -> RunState] /\ \A v \in Workers : IsFiniteSet(run'[v].made)
      BY <1>0, <1>6, <2>1, <2>2 DEF PodCable, TypeInv, TypeOK, RunState
    <2> QED
      BY <1>6, <2>1, <2>3 DEF PodCable, TypeInv, TypeOK, design, asn, faults
  <1>7. ASSUME NEW r \in Racks, PodStamp(w, r) PROVE TypeInv'
    BY <1>7, StampTyped DEF PodStamp, Children
  <1>8. CASE PodReadAsn(w)
    BY <1>8, ReadAsnTyped DEF PodReadAsn
  <1>9. ASSUME NEW d \in run[w].left, PodOverlay(w, d) PROVE TypeInv'
    BY <1>9, ConfigureTyped DEF PodOverlay
  <1> QED
    BY <1>1, <1>2, <1>3, <1>4, <1>5, <1>6, <1>7, <1>8, <1>9 DEF PodStep

LEMMA RackTyped == ASSUME TypeInv, NEW w \in Workers, RackStep(w) PROVE TypeInv'
  <1>0. run[w] \in RunState /\ Pods \subseteq Targets /\ Racks \subseteq Targets
    BY DEF TypeInv, TypeOK, Targets
  <1>1. ASSUME NEW r \in Racks, RackReject(w, r) PROVE TypeInv'
    BY <1>0, <1>1 DEF RackReject, Dequeue, TypeInv, TypeOK, design, nodes, asn, faults
  <1>2. ASSUME NEW r \in Racks, RackStart(w, r) PROVE TypeInv'
    <2>1. amount[PodOf[r]] \in Nat
      BY <1>0, TargetsAreDistinct DEF TypeInv, TypeOK
    <2> QED
      BY <1>0, <1>2, <2>1, StartTyped DEF RackStart
  <1>3. CASE RackGate(w)
    <2> DEFINE spines == DevicesOf(PodOf[run[w].target])
    <2>1. CASE ~TierIsComplete(w, spines)
      BY <1>3, <2>1, AbortTyped DEF RackGate
    <2>2. CASE TierIsComplete(w, spines)
      <3>1. spines \subseteq Device
        BY DEF DevicesOf, TypeInv, TypeOK
      <3>2. run' \in [Workers -> RunState] /\ \A v \in Workers : IsFiniteSet(run'[v].made)
        <4> DEFINE r == [run[w] EXCEPT !.pc = "create", !.upper = spines]
        <4>1. r \in RunState /\ r.made = run[w].made
          BY <1>0, <3>1 DEF RunState
        <4>2. run' = [run EXCEPT ![w] = r]
          BY <1>3, <2>2 DEF RackGate
        <4> QED
          BY <4>1, <4>2, RunTyped DEF TypeInv
      <3> QED
        BY <1>3, <2>2, <3>2, OnlyRunTyped DEF RackGate
    <2> QED
      BY <2>1, <2>2
  <1>4. CASE RackCreate(w)
    BY <1>4, CreateTyped DEF RackCreate
  <1>5. CASE RackCable(w)
    <2>1. CablingPlan(w) \subseteq Adjacency
      BY <1>0, PlanIsPart DEF Adjacency, RunState
    <2>2. run' \in [Workers -> RunState] /\ \A v \in Workers : IsFiniteSet(run'[v].made)
      BY <1>0, <1>5, <2>1 DEF RackCable, TypeInv, TypeOK, RunState
    <2> QED
      BY <1>5, <2>1, <2>2 DEF RackCable, TypeInv, TypeOK, design, asn, faults
  <1>6. CASE RackReadAsn(w)
    BY <1>6, ReadAsnTyped DEF RackReadAsn
  <1>7. ASSUME NEW d \in run[w].left, RackOverlay(w, d) PROVE TypeInv'
    BY <1>7, ConfigureTyped DEF RackOverlay
  <1> QED
    BY <1>1, <1>2, <1>3, <1>4, <1>5, <1>6, <1>7 DEF RackStep

LEMMA StepTyped == TypeInv /\ [Next]_vars => TypeInv'
  <1> SUFFICES ASSUME TypeInv, [Next]_vars PROVE TypeInv'
    OBVIOUS
  <1>1. ASSUME NEW w \in Workers, WorkerStep(w) PROVE TypeInv'
    BY <1>1, FabricTyped, PodTyped, RackTyped, AbortTyped, FinishTyped
       DEF WorkerStep, CablingFails
  <1>2. ASSUME NEW w \in Workers, Die(w) PROVE TypeInv'
    BY <1>2, IdleIsRunState DEF Die, TypeInv, TypeOK, RunState, design, nodes, asn
  <1>3. ASSUME NEW t \in Targets, NEW n \in 0..MaxAmount, Resize(t, n) PROVE TypeInv'
    BY <1>3, BoundsAreNumbers DEF Resize, TypeInv, TypeOK, nodes, asn, faults
  <1>4. ASSUME NEW t \in Targets, RunByHand(t) PROVE TypeInv'
    BY <1>4 DEF RunByHand, TypeInv, TypeOK, nodes, asn, faults
  <1>5. CASE UNCHANGED vars
    BY <1>5 DEF vars, TypeInv, TypeOK
  <1> QED
    BY <1>1, <1>2, <1>3, <1>4, <1>5 DEF Next, Operator

(* Every reachable state is well typed, for any fabric, any number of        *)
(* workers, any bounds, with and without one run per target.                 *)
THEOREM TypeCorrect == Spec => []TypeOK
  <1>1. Spec => []TypeInv
    BY InitTyped, StepTyped, PTL DEF Spec
  <1>2. TypeInv => TypeOK
    BY DEF TypeInv
  <1> QED
    BY <1>1, <1>2, PTL

-----------------------------------------------------------------------------
(* TierOrder.  What makes it inductive is what the runs know: a pod's run    *)
(* creates switches only after it found the fabric's pools, a rack's run     *)
(* started because its pod had pools; and pools are never taken back.        *)

Guarded(r) ==
    /\ r.pc = "create" /\ r.target \in Pods => pools[Fabric]
    /\ r.pc # "idle" /\ r.target \in Racks => pools[PodOf[r.target]]

Founded(d) ==
    /\ d[1] \in Pods => pools[Fabric]
    /\ d[1] \in Racks => pools[PodOf[d[1]]]

TierInv ==
    /\ \A p \in Pods : pools[p] => pools[Fabric]
    /\ \A d \in devices : Founded(d)
    /\ \A w \in Workers : Guarded(run[w])

(* Most steps leave the pools alone, create no device and move one worker.   *)
LEMMA OneWorkerTiered ==
    ASSUME TypeInv, TierInv, NEW w \in Workers, NEW r, Guarded(r),
           run' = [run EXCEPT ![w] = r], pools' = pools, devices' \subseteq devices
    PROVE  TierInv'
  BY DEF TypeInv, TypeOK, TierInv, Founded, Guarded

LEMMA IdleIsGuarded == Guarded(Idle)
  BY DEF Guarded, Idle

LEMMA InitTiered == Init => TierInv
  <1> SUFFICES ASSUME Init PROVE TierInv
    OBVIOUS
  <1>1. \A p \in Pods : pools[p] = FALSE
    BY DEF Init, Targets
  <1>2. \A w \in Workers : Guarded(run[w])
    BY IdleIsGuarded DEF Init
  <1>3. devices = {}
    BY DEF Init
  <1> QED
    BY <1>1, <1>2, <1>3 DEF TierInv

LEMMA AbortTiered == ASSUME TypeInv, TierInv, NEW w \in Workers, Abort(w) PROVE TierInv'
  BY IdleIsGuarded, OneWorkerTiered DEF Abort, nodes

LEMMA CreateTiered ==
    ASSUME TypeInv, TierInv, NEW w \in Workers, run[w].pc = "create", CreateDevice(w)
    PROVE  TierInv'
  <1> DEFINE t == run[w].target
             new == <<t, Cardinality(run[w].made) + 1, born[t] + 1>>
  <1>1. PICK m : run' = [run EXCEPT ![w].made = m]
    BY DEF CreateDevice
  <1>2. run[w] \in RunState
    BY DEF TypeInv, TypeOK
  <1>3. pools' = pools /\ \A v \in Workers : Guarded(run[v])'
    <2>1. pools' = pools
      BY DEF CreateDevice
    <2>2. \A v \in Workers : run'[v].pc = run[v].pc /\ run'[v].target = run[v].target
      BY <1>1, <1>2 DEF TypeInv, TypeOK, RunState
    <2> QED
      BY <2>1, <2>2 DEF TierInv, Guarded
  <1>4. devices' \subseteq devices \cup {new}
    BY DEF CreateDevice
  <1>5. Founded(new)
    BY TargetsAreDistinct DEF TierInv, Guarded, Founded
  <1> QED
    BY <1>3, <1>4, <1>5 DEF TierInv, Founded, Guarded

(* A step that starts with a well-formed run and keeps pc and target.        *)
LEMMA SamePlaceTiered ==
    ASSUME TypeInv, TierInv, NEW w \in Workers, pools' = pools, devices' \subseteq devices,
           \A v \in Workers :
             /\ run'[v].target = run[v].target
             /\ run'[v].pc \in {run[v].pc, "signal", "overlay", "alloc", "reread"}
             /\ run[v].pc = "idle" => run'[v].pc = "idle"
    PROVE  TierInv'
  <1>1. \A v \in Workers : Guarded(run[v])'
    <2> SUFFICES ASSUME NEW v \in Workers PROVE Guarded(run[v])'
      OBVIOUS
    <2>1. run'[v].pc = "create" => run[v].pc = "create"
      OBVIOUS
    <2> QED
      BY <2>1 DEF TierInv, Guarded
  <1> QED
    BY <1>1 DEF TierInv, Founded

LEMMA ConfigureTiered ==
    ASSUME TypeInv, TierInv, NEW w \in Workers, run[w].pc = "overlay",
           NEW d \in run[w].left, ConfigureDevice(w, d)
    PROVE  TierInv'
  <1>1. CASE Abort(w)
    BY <1>1, AbortTiered
  <1>2. CASE ~Abort(w)
    <2>1. run' = [run EXCEPT ![w].left = @ \ {d}] /\ pools' = pools /\ devices' = devices
      BY <1>2 DEF ConfigureDevice
    <2> QED
      BY <2>1, SamePlaceTiered DEF TypeInv, TypeOK, RunState
  <1> QED
    BY <1>1, <1>2

LEMMA StampTiered ==
    ASSUME TypeInv, TierInv, NEW w \in Workers, NEW c, StampChild(w, c)
    PROVE  TierInv'
  <1>1. run' = [run EXCEPT ![w].todo = @ \ {c}] /\ pools' = pools /\ devices' = devices
    BY DEF StampChild, nodes
  <1> QED
    BY <1>1, SamePlaceTiered DEF TypeInv, TypeOK, RunState

LEMMA ReadAsnTiered ==
    ASSUME TypeInv, TierInv, NEW w \in Workers, run[w].pc # "idle", ReadAsn(w)
    PROVE  TierInv'
  BY SamePlaceTiered, SMTT(30) DEF ReadAsn, nodes, TypeInv, TypeOK, RunState

LEMMA FabricTiered ==
    ASSUME TypeInv, TierInv, NEW w \in Workers, FabricStep(w)
    PROVE  TierInv'
  <1>0. Fabric \notin Pods /\ Fabric \notin Racks
    BY TargetsAreDistinct
  <1>1. CASE FabricStart(w)
    <2> DEFINE r == [Idle EXCEPT !.pc = "pools", !.target = Fabric,
                                 !.want = amount[Fabric], !.wantUp = 0]
    <2>1. Guarded(r)
      BY <1>0 DEF Guarded, Idle
    <2>2. run' = [run EXCEPT ![w] = r] /\ pools' = pools /\ devices' = devices
      BY <1>1 DEF FabricStart, Begin, nodes
    <2> QED
      BY <2>1, <2>2, OneWorkerTiered
  <1>2. CASE FabricPools(w)
    <2>1. run[w].target = Fabric /\ pools' = [pools EXCEPT ![Fabric] = TRUE]
          /\ devices' = devices /\ run' = [run EXCEPT ![w].pc = "create"]
      BY <1>2 DEF FabricPools, At, Goto
    <2>2. \A t \in Targets : pools[t] => pools'[t]
      BY <2>1 DEF TypeInv, TypeOK
    <2>3. pools'[Fabric] /\ \A p \in Pods : pools'[p] = pools[p]
      BY <1>0, <2>1 DEF TypeInv, TypeOK, Targets
    <2>4. \A v \in Workers : run'[v].target = run[v].target /\ (v # w => run'[v] = run[v])
      BY <2>1 DEF TypeInv, TypeOK, RunState
    <2>5. \A v \in Workers : Guarded(run[v])'
      BY <1>0, <2>1, <2>3, <2>4, TargetsAreDistinct DEF Guarded, TierInv
    <2>6. \A d \in devices : Founded(d)'
      BY <2>3, TargetsAreDistinct DEF Founded, TierInv
    <2> QED
      BY <2>1, <2>3, <2>5, <2>6 DEF TierInv
  <1>3. CASE FabricCreate(w)
    BY <1>3, CreateTiered DEF FabricCreate, At
  <1>4. CASE FabricListPods(w)
    BY <1>4, SamePlaceTiered DEF FabricListPods, At, nodes, TypeInv, TypeOK, RunState
  <1>5. CASE \E p \in Pods : FabricStamp(w, p)
    BY <1>5, StampTiered DEF FabricStamp
  <1>6. CASE FabricReadAsn(w)
    BY <1>6, SamePlaceTiered DEF FabricReadAsn, At, Goto, nodes, TypeInv, TypeOK, RunState
  <1>7. CASE FabricAllocateAsn(w)
    BY <1>7, SamePlaceTiered DEF FabricAllocateAsn, At, Goto, nodes, TypeInv, TypeOK, RunState
  <1>8. CASE FabricRereadAsn(w)
    BY <1>8, SamePlaceTiered DEF FabricRereadAsn, At, nodes, TypeInv, TypeOK, RunState
  <1>9. CASE \E d \in run[w].left : FabricStampAsn(w, d)
    <2> PICK d \in run[w].left : FabricStampAsn(w, d)
      BY <1>9
    <2>1. CASE d \notin devices
      BY <2>1, AbortTiered DEF FabricStampAsn
    <2>2. CASE d \in devices
      <3>1. run' = [run EXCEPT ![w].left = @ \ {d}] /\ pools' = pools /\ devices' = devices
        BY <2>2 DEF FabricStampAsn
      <3> QED
        BY <3>1, SamePlaceTiered DEF TypeInv, TypeOK, RunState
    <2> QED
      BY <2>1, <2>2
  <1> QED
    BY <1>1, <1>2, <1>3, <1>4, <1>5, <1>6, <1>7, <1>8, <1>9 DEF FabricStep

LEMMA PodTiered ==
    ASSUME TypeInv, TierInv, NEW w \in Workers, PodStep(w)
    PROVE  TierInv'
  <1>0. Pods \cap Racks = {} /\ Fabric \notin Pods /\ Fabric \in Targets
    BY TargetsAreDistinct DEF Targets
  <1>1. ASSUME NEW p \in Pods, PodSkip(w, p) PROVE TierInv'
    BY <1>1 DEF PodSkip, nodes, TierInv, Founded, Guarded
  <1>2. ASSUME NEW p \in Pods, PodStart(w, p) PROVE TierInv'
    <2> DEFINE r == [Idle EXCEPT !.pc = "gate", !.target = p,
                                 !.want = amount[p], !.wantUp = amount[Fabric]]
    <2>1. Guarded(r)
      BY <1>0 DEF Guarded, Idle
    <2>2. run' = [run EXCEPT ![w] = r] /\ pools' = pools /\ devices' = devices
      BY <1>2 DEF PodStart, Begin, nodes
    <2> QED
      BY <2>1, <2>2, OneWorkerTiered
  <1>3. CASE PodGate(w)
    <2>1. CASE ~TierIsComplete(w, DevicesOf(Fabric))
      BY <1>3, <2>1, AbortTiered DEF PodGate
    <2>2. CASE TierIsComplete(w, DevicesOf(Fabric))
      <3> DEFINE r == [run[w] EXCEPT !.pc = "pools", !.upper = DevicesOf(Fabric)]
      <3>1. run' = [run EXCEPT ![w] = r] /\ pools' = pools /\ devices' = devices
        BY <1>3, <2>2 DEF PodGate, nodes
      <3>2. r.pc = "pools" /\ r.target \in Pods
        BY <1>3 DEF PodGate, At, TypeInv, TypeOK, RunState
      <3>3. Guarded(r)
        BY <1>0, <3>2 DEF Guarded
      <3> HIDE DEF r
      <3> QED
        BY <3>1, <3>3, OneWorkerTiered
    <2> QED
      BY <2>1, <2>2
  <1>4. CASE PodPools(w)
    <2>1. CASE ~pools[Fabric]
      BY <1>4, <2>1, AbortTiered DEF PodPools
    <2>2. CASE pools[Fabric]
      <3>1. /\ run[w].target \in Pods
            /\ pools' = [pools EXCEPT ![run[w].target] = TRUE]
            /\ devices' = devices
            /\ run' = [run EXCEPT ![w].pc = "create"]
        BY <1>4, <2>2 DEF PodPools, At, Goto
      <3>2. pools'[Fabric] /\ \A t \in Targets : pools[t] => pools'[t]
        BY <2>2, <3>1, <1>0 DEF TypeInv, TypeOK
      <3>3. \A v \in Workers : run'[v].target = run[v].target /\ (v # w => run'[v] = run[v])
        BY <3>1 DEF TypeInv, TypeOK, RunState
      <3>4. \A q \in Racks : PodOf[q] \in Targets
        BY TargetsAreDistinct DEF Targets
      <3>5. \A v \in Workers : Guarded(run[v])'
        BY <1>0, <3>1, <3>2, <3>3, <3>4 DEF Guarded, TierInv
      <3>6. \A d \in devices : Founded(d)'
        BY <3>2, <3>4 DEF Founded, TierInv
      <3> QED
        BY <3>1, <3>2, <3>5, <3>6 DEF TierInv
    <2> QED
      BY <2>1, <2>2
  <1>5. CASE PodCreate(w)
    BY <1>5, CreateTiered DEF PodCreate, At
  <1>6. CASE PodCable(w)
    BY <1>6, SamePlaceTiered DEF PodCable, At, nodes, TypeInv, TypeOK, RunState
  <1>7. ASSUME NEW r \in Racks, PodStamp(w, r) PROVE TierInv'
    BY <1>7, StampTiered DEF PodStamp
  <1>8. CASE PodReadAsn(w)
    BY <1>8, ReadAsnTiered DEF PodReadAsn, At
  <1>9. ASSUME NEW d \in run[w].left, PodOverlay(w, d) PROVE TierInv'
    BY <1>9, ConfigureTiered DEF PodOverlay, At
  <1> QED
    BY <1>1, <1>2, <1>3, <1>4, <1>5, <1>6, <1>7, <1>8, <1>9 DEF PodStep

LEMMA RackTiered ==
    ASSUME TypeInv, TierInv, NEW w \in Workers, RackStep(w)
    PROVE  TierInv'
  <1>0. Pods \cap Racks = {}
    BY TargetsAreDistinct
  <1>1. ASSUME NEW r \in Racks, RackReject(w, r) PROVE TierInv'
    BY <1>1 DEF RackReject, nodes, TierInv, Founded, Guarded
  <1>2. ASSUME NEW k \in Racks, RackStart(w, k) PROVE TierInv'
    <2> DEFINE r == [Idle EXCEPT !.pc = "gate", !.target = k,
                                 !.want = amount[k], !.wantUp = amount[PodOf[k]]]
    <2>1. Guarded(r)
      BY <1>0, <1>2 DEF Guarded, Idle, RackStart
    <2>2. run' = [run EXCEPT ![w] = r] /\ pools' = pools /\ devices' = devices
      BY <1>2 DEF RackStart, Begin, nodes
    <2> QED
      BY <2>1, <2>2, OneWorkerTiered
  <1>3. CASE RackGate(w)
    <2> DEFINE spines == DevicesOf(PodOf[run[w].target])
    <2>1. CASE ~TierIsComplete(w, spines)
      BY <1>3, <2>1, AbortTiered DEF RackGate
    <2>2. CASE TierIsComplete(w, spines)
      <3> DEFINE r == [run[w] EXCEPT !.pc = "create", !.upper = spines]
      <3>1. run' = [run EXCEPT ![w] = r] /\ pools' = pools /\ devices' = devices
        BY <1>3, <2>2 DEF RackGate, nodes
      <3>2. r.target = run[w].target /\ run[w].target \in Racks /\ run[w].pc # "idle"
        BY <1>3 DEF RackGate, At, TypeInv, TypeOK, RunState
      <3>3. Guarded(r)
        BY <1>0, <3>2 DEF Guarded, TierInv
      <3> HIDE DEF r
      <3> QED
        BY <3>1, <3>3, OneWorkerTiered
    <2> QED
      BY <2>1, <2>2
  <1>4. CASE RackCreate(w)
    BY <1>4, CreateTiered DEF RackCreate, At
  <1>5. CASE RackCable(w)
    BY <1>5, SamePlaceTiered DEF RackCable, At, nodes, TypeInv, TypeOK, RunState
  <1>6. CASE RackReadAsn(w)
    BY <1>6, ReadAsnTiered DEF RackReadAsn, At
  <1>7. ASSUME NEW d \in run[w].left, RackOverlay(w, d) PROVE TierInv'
    BY <1>7, ConfigureTiered DEF RackOverlay, At
  <1> QED
    BY <1>1, <1>2, <1>3, <1>4, <1>5, <1>6, <1>7 DEF RackStep

LEMMA StepTiered == TypeInv /\ TierInv /\ [Next]_vars => TierInv'
  <1> SUFFICES ASSUME TypeInv, TierInv, [Next]_vars PROVE TierInv'
    OBVIOUS
  <1>1. ASSUME NEW w \in Workers, Finish(w) PROVE TierInv'
    <2>1. run' = [run EXCEPT ![w] = Idle] /\ pools' = pools /\ devices' \subseteq devices
      BY <1>1 DEF Finish
    <2> QED
      BY <2>1, IdleIsGuarded, OneWorkerTiered
  <1>2. ASSUME NEW w \in Workers, WorkerStep(w) PROVE TierInv'
    BY <1>1, <1>2, FabricTiered, PodTiered, RackTiered, AbortTiered
       DEF WorkerStep, CablingFails
  <1>3. ASSUME NEW w \in Workers, Die(w) PROVE TierInv'
    BY <1>3, IdleIsGuarded, OneWorkerTiered DEF Die, nodes
  <1>4. ASSUME Operator \/ UNCHANGED vars PROVE TierInv'
    BY <1>4 DEF Operator, Resize, RunByHand, vars, nodes, TierInv, Founded, Guarded
  <1> QED
    BY <1>2, <1>3, <1>4 DEF Next

(* No tier is ever generated before the tier above it, whatever amounts are  *)
(* designed, 0 included, and however runs overlap, race and die.             *)
THEOREM TiersInOrder == Spec => []TierOrder
  <1>1. Spec => [](TypeInv /\ TierInv)
    <2>1. Init => TypeInv /\ TierInv
      BY InitTyped, InitTiered
    <2>2. TypeInv /\ TierInv /\ [Next]_vars => (TypeInv /\ TierInv)'
      BY StepTyped, StepTiered
    <2> QED
      BY <2>1, <2>2, PTL DEF Spec
  <1>2. TierInv => TierOrder
    BY DEF TierInv, TierOrder, Founded, DevicesOf
  <1> QED
    BY <1>1, <1>2, PTL

-----------------------------------------------------------------------------
(* AsnAgreement, where the platform runs one run per design object at a time. *)
(* An ASN on a device was overlay_asn when it was stamped; it still is,        *)
(* because the only run that may replace it is the one that found none, and    *)
(* without an overlay_asn no run stamps anything.                              *)

Exclusive ==
    \A v, w \in Workers :
        run[v].pc # "idle" /\ run[w].pc # "idle" /\ run[v].target = run[w].target => v = w

KnowsAsn(r) ==
    /\ r.pc \in {"alloc", "reread"} => r.target = Fabric
    /\ r.pc = "alloc" => overlayAsn = 0
    /\ r.pc = "reread" => overlayAsn # 0
    /\ r.pc = "overlay" /\ r.left # {} => r.asn = overlayAsn /\ overlayAsn # 0

AsnInv ==
    /\ Exclusive
    /\ \A w \in Workers : KnowsAsn(run[w])
    /\ \A q \in stamped : q[2] = overlayAsn /\ overlayAsn # 0
    /\ \A s \in sessions : s[2] = overlayAsn /\ overlayAsn # 0

LEMMA IdleKnowsAsn == KnowsAsn(Idle)
  BY DEF KnowsAsn, Idle

LEMMA InitAgreed == Init => AsnInv
  <1> SUFFICES ASSUME Init PROVE AsnInv
    OBVIOUS
  <1>1. \A w \in Workers : run[w] = Idle
    BY DEF Init
  <1>2. Exclusive
    BY <1>1 DEF Exclusive, Idle
  <1>3. stamped = {} /\ sessions = {}
    BY DEF Init
  <1> QED
    BY <1>1, <1>2, <1>3, IdleKnowsAsn DEF AsnInv

(* A worker goes on with its run, or gives it up, and overlay_asn is kept.     *)
LEMMA OneWorkerAgreed ==
    ASSUME TypeInv, AsnInv, NEW w \in Workers, NEW r, run' = [run EXCEPT ![w] = r],
           KnowsAsn(r), r.pc # "idle" => run[w].pc # "idle" /\ r.target = run[w].target,
           overlayAsn' = overlayAsn, stamped' \subseteq stamped, sessions' \subseteq sessions
    PROVE  AsnInv'
  <1>1. \A v \in Workers : run'[v] = IF v = w THEN r ELSE run[v]
    BY DEF TypeInv, TypeOK
  <1>2. Exclusive'
    BY <1>1 DEF AsnInv, Exclusive
  <1>3. \A v \in Workers : KnowsAsn(run[v])'
    BY <1>1 DEF AsnInv, KnowsAsn
  <1> QED
    BY <1>2, <1>3 DEF AsnInv

(* A run that starts is the only one of its design object.                     *)
LEMMA StartAgreed ==
    ASSUME TypeInv, AsnInv, OneRunPerTarget, NEW w \in Workers, NEW t \in Targets,
           NEW pc \in {"gate", "pools"}, NEW n, Dequeue(w, t), Begin(w, t, pc, n),
           UNCHANGED <<design, nodes, checksum, asn, faults>>
    PROVE  AsnInv'
  <1> DEFINE r == [Idle EXCEPT !.pc = pc, !.target = t, !.want = amount[t], !.wantUp = n]
  <1>1. \A v \in Workers : run'[v] = IF v = w THEN r ELSE run[v]
    BY DEF TypeInv, TypeOK, Begin
  <1>2. r.pc = pc /\ r.target = t
    BY DEF Idle
  <1>3. \A v \in Workers : run[v].pc # "idle" => run[v].target # t
    BY DEF Dequeue, Busy
  <1>4. Exclusive'
    <2>1. run'[w].target = t /\ \A v \in Workers : v # w => run'[v] = run[v]
      BY <1>1, <1>2
    <2> QED
      BY <1>3, <2>1 DEF AsnInv, Exclusive
  <1>5. KnowsAsn(r)
    BY <1>2 DEF KnowsAsn
  <1>6. \A v \in Workers : KnowsAsn(run[v])'
    BY <1>1, <1>5 DEF AsnInv, KnowsAsn, asn
  <1> QED
    BY <1>4, <1>6 DEF AsnInv, asn, nodes

LEMMA AbortAgreed == ASSUME TypeInv, AsnInv, NEW w \in Workers, Abort(w) PROVE AsnInv'
  <1>1. Idle.pc = "idle"
    BY DEF Idle
  <1> QED
    BY <1>1, IdleKnowsAsn, OneWorkerAgreed DEF Abort, nodes, asn

LEMMA CreateAgreed ==
    ASSUME TypeInv, AsnInv, NEW w \in Workers, run[w].pc = "create", CreateDevice(w)
    PROVE  AsnInv'
  <1>1. PICK m : run' = [run EXCEPT ![w].made = m]
    BY DEF CreateDevice
  <1> DEFINE r == [run[w] EXCEPT !.made = m]
  <1>2. run' = [run EXCEPT ![w] = r] /\ r.pc = run[w].pc /\ r.target = run[w].target
    BY <1>1 DEF TypeInv, TypeOK, RunState
  <1>3. KnowsAsn(r)
    BY <1>2 DEF KnowsAsn
  <1>4. overlayAsn' = overlayAsn /\ stamped' = stamped /\ sessions' = sessions
    BY DEF CreateDevice, asn
  <1> QED
    BY <1>2, <1>3, <1>4, OneWorkerAgreed

LEMMA StampAgreed ==
    ASSUME TypeInv, AsnInv, NEW w \in Workers, NEW c, StampChild(w, c)
    PROVE  AsnInv'
  <1> DEFINE r == [run[w] EXCEPT !.todo = @ \ {c}]
  <1>1. run' = [run EXCEPT ![w] = r] /\ r.pc = "signal" /\ r.target = run[w].target
    BY DEF StampChild, TypeInv, TypeOK, RunState
  <1>2. KnowsAsn(r)
    BY <1>1 DEF KnowsAsn
  <1>3. overlayAsn' = overlayAsn /\ stamped' = stamped /\ sessions' = sessions
    BY DEF StampChild, asn, nodes
  <1> QED
    BY <1>1, <1>2, <1>3, OneWorkerAgreed DEF StampChild

LEMMA ReadAsnAgreed ==
    ASSUME TypeInv, AsnInv, NEW w \in Workers, run[w].pc = "signal", ReadAsn(w)
    PROVE  AsnInv'
  <1> DEFINE r == [run[w] EXCEPT !.pc = "overlay", !.asn = overlayAsn,
                                 !.left = IF overlayAsn = 0 THEN {} ELSE run[w].made]
  <1>1. /\ run' = [run EXCEPT ![w] = r]
        /\ r.pc = "overlay" /\ r.target = run[w].target /\ r.asn = overlayAsn
        /\ overlayAsn = 0 => r.left = {}
    BY DEF ReadAsn, TypeInv, TypeOK, RunState
  <1>2. KnowsAsn(r)
    BY <1>1 DEF KnowsAsn
  <1>3. overlayAsn' = overlayAsn /\ stamped' = stamped /\ sessions' = sessions
    BY DEF ReadAsn, asn, nodes
  <1> QED
    BY <1>1, <1>2, <1>3, OneWorkerAgreed

(* One device gets the ASN the run read, which is overlay_asn still.           *)
LEMMA StampAsnAgreed ==
    ASSUME TypeInv, AsnInv, NEW w \in Workers, run[w].pc = "overlay",
           NEW d \in run[w].left, run' = [run EXCEPT ![w].left = @ \ {d}],
           stamped' = StampAsn(w, d), sessions' \in {sessions, UpsertSessions(w, d)},
           overlayAsn' = overlayAsn
    PROVE  AsnInv'
  <1>1. run[w].asn = overlayAsn /\ overlayAsn # 0
    BY DEF AsnInv, KnowsAsn
  <1> DEFINE r == [run[w] EXCEPT !.left = @ \ {d}]
  <1>2. /\ run' = [run EXCEPT ![w] = r]
        /\ r.pc = run[w].pc /\ r.target = run[w].target /\ r.asn = run[w].asn
    BY DEF TypeInv, TypeOK, RunState
  <1>3. \A v \in Workers : run'[v] = IF v = w THEN r ELSE run[v]
    BY <1>2 DEF TypeInv, TypeOK
  <1>4. Exclusive'
    BY <1>2, <1>3 DEF AsnInv, Exclusive
  <1>5. KnowsAsn(r)
    BY <1>1, <1>2 DEF KnowsAsn
  <1>6. \A v \in Workers : KnowsAsn(run[v])'
    BY <1>3, <1>5 DEF AsnInv, KnowsAsn
  <1>7. \A q \in stamped' : q[2] = overlayAsn
    BY <1>1 DEF StampAsn, AsnInv
  <1>8. \A s \in sessions' : s[2] = overlayAsn
    BY <1>1 DEF UpsertSessions, AsnInv
  <1> QED
    BY <1>1, <1>4, <1>6, <1>7, <1>8 DEF AsnInv

LEMMA ConfigureAgreed ==
    ASSUME TypeInv, AsnInv, NEW w \in Workers, run[w].pc = "overlay",
           NEW d \in run[w].left, ConfigureDevice(w, d)
    PROVE  AsnInv'
  <1>1. CASE Abort(w)
    BY <1>1, AbortAgreed
  <1>2. CASE ~Abort(w)
    BY <1>2, StampAsnAgreed DEF ConfigureDevice, asn
  <1> QED
    BY <1>1, <1>2

LEMMA FabricAgreed ==
    ASSUME TypeInv, AsnInv, OneRunPerTarget, NEW w \in Workers, FabricStep(w)
    PROVE  AsnInv'
  <1>0. Fabric \in Targets /\ run[w] \in RunState
    BY DEF Targets, TypeInv, TypeOK
  <1>1. CASE FabricStart(w)
    BY <1>0, <1>1, StartAgreed DEF FabricStart
  <1>2. CASE FabricPools(w)
    <2> DEFINE r == [run[w] EXCEPT !.pc = "create"]
    <2>1. /\ run' = [run EXCEPT ![w] = r] /\ run[w].pc = "pools"
          /\ r.pc = "create" /\ r.target = run[w].target
      BY <1>0, <1>2 DEF FabricPools, At, Goto, RunState
    <2>2. overlayAsn' = overlayAsn /\ stamped' = stamped /\ sessions' = sessions
      BY <1>2 DEF FabricPools, asn
    <2> QED
      BY <2>1, <2>2, OneWorkerAgreed DEF KnowsAsn
  <1>3. CASE FabricCreate(w)
    BY <1>3, CreateAgreed DEF FabricCreate, At
  <1>4. CASE FabricListPods(w)
    <2> DEFINE r == [run[w] EXCEPT !.pc = "signal", !.digest = run[w].made,
                                   !.todo = ToStamp(Pods, run[w].made)]
    <2>1. /\ run' = [run EXCEPT ![w] = r] /\ run[w].pc = "create"
          /\ r.pc = "signal" /\ r.target = run[w].target
      BY <1>0, <1>4 DEF FabricListPods, At, RunState
    <2>2. overlayAsn' = overlayAsn /\ stamped' = stamped /\ sessions' = sessions
      BY <1>4 DEF FabricListPods, asn, nodes
    <2> QED
      BY <2>1, <2>2, OneWorkerAgreed DEF KnowsAsn
  <1>5. CASE \E p \in Pods : FabricStamp(w, p)
    BY <1>5, StampAgreed DEF FabricStamp
  <1>6. CASE FabricReadAsn(w)
    <2>1. CASE MustAllocate(overlayAsn)
      <3> DEFINE r == [run[w] EXCEPT !.pc = "alloc"]
      <3>1. /\ run' = [run EXCEPT ![w] = r] /\ run[w].pc = "signal"
            /\ r.pc = "alloc" /\ r.target = run[w].target /\ r.target = Fabric
        BY <1>0, <1>6, <2>1 DEF FabricReadAsn, At, Goto, RunState
      <3>2. overlayAsn' = overlayAsn /\ stamped' = stamped /\ sessions' = sessions
        BY <1>6 DEF FabricReadAsn, asn, nodes
      <3>3. KnowsAsn(r)
        BY <2>1, <3>1 DEF KnowsAsn, MustAllocate
      <3> QED
        BY <3>1, <3>2, <3>3, OneWorkerAgreed
    <2>2. CASE ~MustAllocate(overlayAsn)
      <3> DEFINE r == [run[w] EXCEPT !.pc = "overlay", !.asn = overlayAsn,
                                     !.left = run[w].made]
      <3>1. /\ run' = [run EXCEPT ![w] = r] /\ run[w].pc = "signal"
            /\ r.pc = "overlay" /\ r.target = run[w].target /\ r.asn = overlayAsn
        BY <1>0, <1>6, <2>2 DEF FabricReadAsn, At, RunState
      <3>2. overlayAsn' = overlayAsn /\ stamped' = stamped /\ sessions' = sessions
        BY <1>6 DEF FabricReadAsn, asn, nodes
      <3>3. KnowsAsn(r)
        BY <2>2, <3>1 DEF KnowsAsn, MustAllocate
      <3> QED
        BY <3>1, <3>2, <3>3, OneWorkerAgreed
    <2> QED
      BY <2>1, <2>2
  <1>7. CASE FabricAllocateAsn(w)
    <2> DEFINE r == [run[w] EXCEPT !.pc = "reread"]
    <2>1. /\ \A v \in Workers : run'[v] = IF v = w THEN r ELSE run[v]
          /\ run[w].pc = "alloc" /\ run[w].target = Fabric
          /\ r.pc = "reread" /\ r.target = Fabric
      BY <1>0, <1>7 DEF FabricAllocateAsn, At, Goto, TypeInv, TypeOK, RunState
    <2>2. overlayAsn = 0 /\ overlayAsn' # 0
      BY <1>7, <2>1 DEF FabricAllocateAsn, AsnInv, KnowsAsn, TypeInv, TypeOK
    <2>3. stamped = {} /\ sessions = {} /\ stamped' = stamped /\ sessions' = sessions
      BY <1>7, <2>2 DEF FabricAllocateAsn, AsnInv, nodes
    <2>4. Exclusive'
      <3>1. run'[w].target = run[w].target /\ \A v \in Workers : v # w => run'[v] = run[v]
        BY <2>1
      <3> QED
        BY <2>1, <3>1 DEF AsnInv, Exclusive
    <2>5. ASSUME NEW v \in Workers, v # w PROVE KnowsAsn(run[v])'
      <3>1. run'[v] = run[v] /\ KnowsAsn(run[v])
        BY <2>1, <2>5 DEF AsnInv
      <3>2. run[v].pc \notin {"alloc", "reread"}
        BY <2>1, <2>5, <3>1 DEF AsnInv, Exclusive, KnowsAsn
      <3>3. ~(run[v].pc = "overlay" /\ run[v].left # {})
        BY <2>2, <3>1 DEF KnowsAsn
      <3> QED
        BY <3>1, <3>2, <3>3 DEF KnowsAsn
    <2>6. KnowsAsn(run[w])'
      BY <2>1, <2>2 DEF KnowsAsn
    <2> QED
      BY <2>3, <2>4, <2>5, <2>6 DEF AsnInv
  <1>8. CASE FabricRereadAsn(w)
    <2> DEFINE r == [run[w] EXCEPT !.pc = "overlay", !.asn = overlayAsn,
                                   !.left = run[w].made]
    <2>1. /\ run' = [run EXCEPT ![w] = r] /\ run[w].pc = "reread"
          /\ r.pc = "overlay" /\ r.target = run[w].target /\ r.asn = overlayAsn
      BY <1>0, <1>8 DEF FabricRereadAsn, At, RunState
    <2>2. overlayAsn' = overlayAsn /\ stamped' = stamped /\ sessions' = sessions
      BY <1>8 DEF FabricRereadAsn, asn, nodes
    <2>3. KnowsAsn(r)
      BY <2>1 DEF KnowsAsn, AsnInv
    <2> QED
      BY <2>1, <2>2, <2>3, OneWorkerAgreed
  <1>9. CASE \E d \in run[w].left : FabricStampAsn(w, d)
    <2> PICK d \in run[w].left : FabricStampAsn(w, d)
      BY <1>9
    <2>1. CASE d \notin devices
      BY <2>1, AbortAgreed DEF FabricStampAsn
    <2>2. CASE d \in devices
      BY <2>2, StampAsnAgreed DEF FabricStampAsn, At, asn
    <2> QED
      BY <2>1, <2>2
  <1> QED
    BY <1>1, <1>2, <1>3, <1>4, <1>5, <1>6, <1>7, <1>8, <1>9 DEF FabricStep

LEMMA PodAgreed ==
    ASSUME TypeInv, AsnInv, OneRunPerTarget, NEW w \in Workers, PodStep(w)
    PROVE  AsnInv'
  <1>0. Pods \subseteq Targets /\ run[w] \in RunState
    BY DEF Targets, TypeInv, TypeOK
  <1>1. ASSUME NEW p \in Pods, PodSkip(w, p) PROVE AsnInv'
    BY <1>1 DEF PodSkip, nodes, asn, AsnInv, Exclusive, KnowsAsn
  <1>2. ASSUME NEW p \in Pods, PodStart(w, p) PROVE AsnInv'
    BY <1>0, <1>2, StartAgreed DEF PodStart
  <1>3. CASE PodGate(w)
    <2>1. CASE ~TierIsComplete(w, DevicesOf(Fabric))
      BY <1>3, <2>1, AbortAgreed DEF PodGate
    <2>2. CASE TierIsComplete(w, DevicesOf(Fabric))
      <3> DEFINE r == [run[w] EXCEPT !.pc = "pools", !.upper = DevicesOf(Fabric)]
      <3>1. /\ run' = [run EXCEPT ![w] = r] /\ run[w].pc = "gate"
            /\ r.pc = "pools" /\ r.target = run[w].target
        BY <1>0, <1>3, <2>2 DEF PodGate, At, RunState
      <3>2. overlayAsn' = overlayAsn /\ stamped' = stamped /\ sessions' = sessions
        BY <1>3, <2>2 DEF PodGate, asn, nodes
      <3> QED
        BY <3>1, <3>2, OneWorkerAgreed DEF KnowsAsn
    <2> QED
      BY <2>1, <2>2
  <1>4. CASE PodPools(w)
    <2>1. CASE ~pools[Fabric]
      BY <1>4, <2>1, AbortAgreed DEF PodPools
    <2>2. CASE pools[Fabric]
      <3> DEFINE r == [run[w] EXCEPT !.pc = "create"]
      <3>1. /\ run' = [run EXCEPT ![w] = r] /\ run[w].pc = "pools"
            /\ r.pc = "create" /\ r.target = run[w].target
        BY <1>0, <1>4, <2>2 DEF PodPools, At, Goto, RunState
      <3>2. overlayAsn' = overlayAsn /\ stamped' = stamped /\ sessions' = sessions
        BY <1>4, <2>2 DEF PodPools, asn
      <3> QED
        BY <3>1, <3>2, OneWorkerAgreed DEF KnowsAsn
    <2> QED
      BY <2>1, <2>2
  <1>5. CASE PodCreate(w)
    BY <1>5, CreateAgreed DEF PodCreate, At
  <1>6. CASE PodCable(w)
    <2> DEFINE r == [run[w] EXCEPT !.pc = "signal", !.wired = CablingPlan(w),
                       !.digest = PodDigest(w),
                       !.todo = ToStamp(RacksOf(run[w].target), PodDigest(w))]
    <2>1. /\ run' = [run EXCEPT ![w] = r] /\ run[w].pc = "create"
          /\ r.pc = "signal" /\ r.target = run[w].target
      BY <1>0, <1>6 DEF PodCable, At, RunState
    <2>2. overlayAsn' = overlayAsn /\ stamped' = stamped /\ sessions' = sessions
      BY <1>6 DEF PodCable, asn
    <2> QED
      BY <2>1, <2>2, OneWorkerAgreed DEF KnowsAsn
  <1>7. ASSUME NEW r \in Racks, PodStamp(w, r) PROVE AsnInv'
    BY <1>7, StampAgreed DEF PodStamp
  <1>8. CASE PodReadAsn(w)
    BY <1>8, ReadAsnAgreed DEF PodReadAsn, At
  <1>9. ASSUME NEW d \in run[w].left, PodOverlay(w, d) PROVE AsnInv'
    BY <1>9, ConfigureAgreed DEF PodOverlay, At
  <1> QED
    BY <1>1, <1>2, <1>3, <1>4, <1>5, <1>6, <1>7, <1>8, <1>9 DEF PodStep

LEMMA RackAgreed ==
    ASSUME TypeInv, AsnInv, OneRunPerTarget, NEW w \in Workers, RackStep(w)
    PROVE  AsnInv'
  <1>0. Racks \subseteq Targets /\ run[w] \in RunState
    BY DEF Targets, TypeInv, TypeOK
  <1>1. ASSUME NEW r \in Racks, RackReject(w, r) PROVE AsnInv'
    BY <1>1 DEF RackReject, nodes, asn, AsnInv, Exclusive, KnowsAsn
  <1>2. ASSUME NEW r \in Racks, RackStart(w, r) PROVE AsnInv'
    BY <1>0, <1>2, StartAgreed DEF RackStart
  <1>3. CASE RackGate(w)
    <2> DEFINE spines == DevicesOf(PodOf[run[w].target])
    <2>1. CASE ~TierIsComplete(w, spines)
      BY <1>3, <2>1, AbortAgreed DEF RackGate
    <2>2. CASE TierIsComplete(w, spines)
      <3> DEFINE r == [run[w] EXCEPT !.pc = "create", !.upper = spines]
      <3>1. /\ run' = [run EXCEPT ![w] = r] /\ run[w].pc = "gate"
            /\ r.pc = "create" /\ r.target = run[w].target
        BY <1>0, <1>3, <2>2 DEF RackGate, At, RunState
      <3>2. overlayAsn' = overlayAsn /\ stamped' = stamped /\ sessions' = sessions
        BY <1>3, <2>2 DEF RackGate, asn, nodes
      <3> QED
        BY <3>1, <3>2, OneWorkerAgreed DEF KnowsAsn
    <2> QED
      BY <2>1, <2>2
  <1>4. CASE RackCreate(w)
    BY <1>4, CreateAgreed DEF RackCreate, At
  <1>5. CASE RackCable(w)
    <2> DEFINE r == [run[w] EXCEPT !.pc = "signal", !.wired = CablingPlan(w)]
    <2>1. /\ run' = [run EXCEPT ![w] = r] /\ run[w].pc = "create"
          /\ r.pc = "signal" /\ r.target = run[w].target
      BY <1>0, <1>5 DEF RackCable, At, RunState
    <2>2. overlayAsn' = overlayAsn /\ stamped' = stamped /\ sessions' = sessions
      BY <1>5 DEF RackCable, asn
    <2> QED
      BY <2>1, <2>2, OneWorkerAgreed DEF KnowsAsn
  <1>6. CASE RackReadAsn(w)
    BY <1>6, ReadAsnAgreed DEF RackReadAsn, At
  <1>7. ASSUME NEW d \in run[w].left, RackOverlay(w, d) PROVE AsnInv'
    BY <1>7, ConfigureAgreed DEF RackOverlay, At
  <1> QED
    BY <1>1, <1>2, <1>3, <1>4, <1>5, <1>6, <1>7 DEF RackStep

LEMMA StepAgreed ==
    ASSUME OneRunPerTarget
    PROVE  TypeInv /\ AsnInv /\ [Next]_vars => AsnInv'
  <1> SUFFICES ASSUME TypeInv, AsnInv, [Next]_vars PROVE AsnInv'
    OBVIOUS
  <1>0. Idle.pc = "idle"
    BY DEF Idle
  <1>1. ASSUME NEW w \in Workers, Finish(w) PROVE AsnInv'
    BY <1>0, <1>1, IdleKnowsAsn, OneWorkerAgreed DEF Finish, asn
  <1>2. ASSUME NEW w \in Workers, WorkerStep(w) PROVE AsnInv'
    BY <1>1, <1>2, FabricAgreed, PodAgreed, RackAgreed, AbortAgreed
       DEF WorkerStep, CablingFails
  <1>3. ASSUME NEW w \in Workers, Die(w) PROVE AsnInv'
    BY <1>0, <1>3, IdleKnowsAsn, OneWorkerAgreed DEF Die, nodes, asn
  <1>4. ASSUME Operator \/ UNCHANGED vars PROVE AsnInv'
    BY <1>4 DEF Operator, Resize, RunByHand, vars, nodes, asn, AsnInv, Exclusive, KnowsAsn
  <1> QED
    BY <1>2, <1>3, <1>4 DEF Next

(* The fabric has one overlay ASN: whatever is stamped on a switch or a        *)
(* session is overlay_asn, although it is read, allocated and read again in    *)
(* separate calls by runs that overlap and die.  It needs one run per design   *)
(* object at a time: nothing else keeps two fabric runs from allocating.       *)
THEOREM AsnAgreed == ASSUME OneRunPerTarget PROVE Spec => []AsnAgreement
  <1>1. Init => TypeInv /\ AsnInv
    BY InitTyped, InitAgreed
  <1>2. TypeInv /\ AsnInv /\ [Next]_vars => (TypeInv /\ AsnInv)'
    BY StepTyped, StepAgreed
  <1>3. TypeInv /\ AsnInv => AsnAgreement
    BY DEF AsnInv, AsnAgreement
  <1> QED
    BY <1>1, <1>2, <1>3, PTL DEF Spec

-----------------------------------------------------------------------------
(* Sessions follow the cabling: what a run remembers of its cables outlives  *)
(* none of them.                                                             *)

\* A node id that was handed out already.
Known(d) == d[3] <= born[d[1]]

\* A run made and wired devices of its own target.
OwnWiring(r) ==
    /\ r.pc = "idle" => r.wired = {}
    /\ \A d \in r.made : d[1] = r.target
    /\ \A a \in r.wired : a[1][1] = r.target

\* A cable that a run remembers is there as long as its two devices are; a
\* device made anew is none of them.
Remembered(a) ==
    /\ Known(a[1]) /\ Known(a[2])
    /\ a[1] \in devices /\ a[2] \in devices => a \in links

SessionInv ==
    /\ \A d \in devices : Known(d)
    /\ \A w \in Workers : OwnWiring(run[w])
    /\ \A w \in Workers : \A a \in run[w].wired : Remembered(a)
    /\ \A t \in Targets : \A a \in trackedLinks[t] : a[1][1] = t
    /\ SessionsFollowCabling

LEMMA IdleWiring == OwnWiring(Idle) /\ Idle.wired = {}
  BY DEF OwnWiring, Idle

LEMMA InitFollows == Init => SessionInv
  <1> SUFFICES ASSUME Init PROVE SessionInv
    OBVIOUS
  <1>1. devices = {} /\ sessions = {} /\ \A t \in Targets : trackedLinks[t] = {}
    BY DEF Init
  <1>2. \A w \in Workers : run[w] = Idle
    BY DEF Init
  <1> QED
    BY <1>1, <1>2, IdleWiring DEF SessionInv, SessionsFollowCabling

(* A worker goes on, forgets what it wired or keeps it; the cables stay.       *)
LEMMA OneWorkerFollows ==
    ASSUME TypeInv, SessionInv, NEW w \in Workers, NEW r, run' = [run EXCEPT ![w] = r],
           OwnWiring(r), r.wired \subseteq run[w].wired,
           UNCHANGED <<devices, born, links, trackedLinks, sessions>>
    PROVE  SessionInv'
  <1>1. \A v \in Workers : run'[v] = IF v = w THEN r ELSE run[v]
    BY DEF TypeInv, TypeOK
  <1>2. \A v \in Workers : OwnWiring(run[v])'
    BY <1>1 DEF SessionInv, OwnWiring
  <1>3. \A v \in Workers : \A a \in run'[v].wired : Remembered(a)'
    <2>1. ASSUME NEW a, Remembered(a) PROVE Remembered(a)'
      BY <2>1 DEF Remembered, Known
    <2> QED
      BY <1>1, <2>1 DEF SessionInv
  <1> QED
    BY <1>2, <1>3 DEF SessionInv, SessionsFollowCabling, Known

(* A run that goes on without making or wiring anything.                       *)
LEMMA GoesOnFollows ==
    ASSUME TypeInv, SessionInv, NEW w \in Workers, NEW r, run' = [run EXCEPT ![w] = r],
           run[w].pc # "idle", r.made = run[w].made, r.wired = run[w].wired,
           r.target = run[w].target, r.pc # "idle",
           UNCHANGED <<devices, born, links, trackedLinks, sessions>>
    PROVE  SessionInv'
  <1>1. OwnWiring(r)
    BY DEF SessionInv, OwnWiring
  <1> QED
    BY <1>1, OneWorkerFollows

LEMMA StartFollows ==
    ASSUME TypeInv, SessionInv, NEW w \in Workers, NEW t \in Targets,
           NEW pc \in {"gate", "pools"}, NEW n, Dequeue(w, t), Begin(w, t, pc, n),
           UNCHANGED <<design, nodes, checksum, asn, faults>>
    PROVE  SessionInv'
  <1> DEFINE r == [Idle EXCEPT !.pc = pc, !.target = t, !.want = amount[t], !.wantUp = n]
  <1>1. run' = [run EXCEPT ![w] = r]
    BY DEF Begin
  <1>2. r.wired = {} /\ r.made = {}
    BY DEF Idle
  <1> QED
    BY <1>1, <1>2, OneWorkerFollows DEF OwnWiring, nodes

LEMMA AbortFollows == ASSUME TypeInv, SessionInv, NEW w \in Workers, Abort(w) PROVE SessionInv'
  BY IdleWiring, OneWorkerFollows DEF Abort, nodes

(* Creating: the new device has an id that no remembered cable ends at.        *)
LEMMA CreateFollows ==
    ASSUME TypeInv, SessionInv, NEW w \in Workers, run[w].pc = "create", CreateDevice(w)
    PROVE  SessionInv'
  <1> DEFINE t == run[w].target
             i == Cardinality(run[w].made) + 1
             existing == {d \in DevicesOf(t) : d[2] = i}
             new == <<t, i, born[t] + 1>>
  <1>0. run[w] \in RunState /\ t \in Targets /\ born[t] \in Nat
    BY DEF TypeInv, TypeOK, RunState
  <1>1. ASSUME NEW d, run' = [run EXCEPT ![w].made = @ \cup {d}], d[1] = t
        PROVE  /\ \A v \in Workers : OwnWiring(run[v])'
               /\ \A v \in Workers : run'[v].wired = run[v].wired
    <2>1. \A v \in Workers : run'[v] = IF v = w THEN [run[w] EXCEPT !.made = @ \cup {d}] ELSE run[v]
      BY <1>1 DEF TypeInv, TypeOK
    <2> DEFINE r == [run[w] EXCEPT !.made = @ \cup {d}]
    <2>2. /\ r.made = run[w].made \cup {d} /\ r.wired = run[w].wired
          /\ r.target = t /\ r.pc = run[w].pc
      BY <1>0 DEF RunState
    <2> HIDE DEF r
    <2>3. OwnWiring(r)
      BY <1>1, <2>2 DEF SessionInv, OwnWiring
    <2>4. \A v \in Workers : run'[v] = IF v = w THEN r ELSE run[v]
      BY <2>1 DEF r
    <2> QED
      BY <2>2, <2>3, <2>4 DEF SessionInv, OwnWiring
  <1>2. CASE existing # {}
    <2>1. PICK d \in existing : /\ run' = [run EXCEPT ![w].made = @ \cup {d}]
                                /\ UNCHANGED <<devices, born>>
      BY <1>2 DEF CreateDevice
    <2>2. d[1] = t
      BY DEF DevicesOf
    <2>3. UNCHANGED <<links, sessions, trackedLinks>>
      BY DEF CreateDevice
    <2>4. \A v \in Workers : \A a \in run'[v].wired : Remembered(a)'
      BY <1>1, <2>1, <2>2, <2>3 DEF SessionInv, Remembered, Known
    <2> QED
      BY <1>1, <2>1, <2>2, <2>3, <2>4 DEF SessionInv, SessionsFollowCabling, Known
  <1>3. CASE existing = {}
    <2>1. /\ run' = [run EXCEPT ![w].made = @ \cup {new}]
          /\ devices' = devices \cup {new} /\ born' = [born EXCEPT ![t] = @ + 1]
          /\ UNCHANGED <<links, sessions, trackedLinks>>
      BY <1>3 DEF CreateDevice
    <2>2. new[1] = t /\ new[3] = born[t] + 1
      OBVIOUS
    <2>3. ASSUME NEW d \in Device, Known(d) PROVE Known(d)' /\ d # new
      BY <1>0, <2>1, <2>2, <2>3 DEF Known, Device, TypeInv, TypeOK
    <2>4. new[3] <= born'[new[1]]
      <3>1. born'[t] = born[t] + 1
        BY <1>0, <2>1 DEF TypeInv, TypeOK
      <3> HIDE DEF new
      <3> QED
        BY <1>0, <2>2, <3>1
    <2>5. ASSUME NEW d \in devices' PROVE Known(d)'
      <3>1. CASE d = new
        BY <2>4, <3>1 DEF Known
      <3>2. CASE d # new
        <4>1. d \in devices /\ d \in Device
          BY <2>1, <3>2 DEF TypeInv, TypeOK
        <4> QED
          BY <2>3, <4>1 DEF SessionInv
      <3> QED
        BY <3>1, <3>2
    <2>6. ASSUME NEW v \in Workers, NEW a \in run'[v].wired PROVE Remembered(a)'
      <3>1. a \in run[v].wired /\ a \in Adjacency
        BY <1>1, <2>1, <2>2 DEF TypeInv, TypeOK, RunState
      <3>2. Remembered(a) /\ a[1] \in Device /\ a[2] \in Device
        BY <3>1 DEF SessionInv, Adjacency
      <3> QED
        BY <2>1, <2>3, <3>2 DEF Remembered
    <2> QED
      BY <1>1, <2>1, <2>2, <2>5, <2>6 DEF SessionInv, SessionsFollowCabling
  <1> QED
    BY <1>2, <1>3

LEMMA CableFollows ==
    ASSUME TypeInv, SessionInv, NEW w \in Workers, NEW r, run' = [run EXCEPT ![w] = r],
           run[w].pc = "create", r.pc # "idle", r.made = run[w].made,
           r.target = run[w].target, r.wired = CablingPlan(w),
           links' = links \cup CablingPlan(w),
           UNCHANGED <<devices, born, sessions, trackedLinks>>
    PROVE  SessionInv'
  <1>1. \A v \in Workers : run'[v] = IF v = w THEN r ELSE run[v]
    BY DEF TypeInv, TypeOK
  <1>2. OwnWiring(r)
    BY PlanIsPart DEF SessionInv, OwnWiring
  <1>3. \A v \in Workers : OwnWiring(run[v])'
    BY <1>1, <1>2 DEF SessionInv, OwnWiring
  <1>4. \A a \in r.wired : Remembered(a)'
    BY PlanIsPart DEF Remembered, Known, SessionInv
  <1>5. \A v \in Workers : \A a \in run[v].wired : Remembered(a)'
    BY DEF Remembered, Known, SessionInv
  <1>6. \A v \in Workers : \A a \in run'[v].wired : Remembered(a)'
    BY <1>1, <1>4, <1>5
  <1> QED
    BY <1>3, <1>6 DEF SessionInv, SessionsFollowCabling, Known

LEMMA StampFollows ==
    ASSUME TypeInv, SessionInv, NEW w \in Workers, NEW c, StampChild(w, c)
    PROVE  SessionInv'
  <1> DEFINE r == [run[w] EXCEPT !.todo = @ \ {c}]
  <1>1. /\ run' = [run EXCEPT ![w] = r] /\ run[w].pc = "signal" /\ r.pc = "signal"
        /\ r.target = run[w].target /\ r.made = run[w].made /\ r.wired = run[w].wired
    BY DEF StampChild, TypeInv, TypeOK, RunState
  <1> QED
    BY <1>1, GoesOnFollows DEF StampChild, nodes

LEMMA ReadAsnFollows ==
    ASSUME TypeInv, SessionInv, NEW w \in Workers, run[w].pc = "signal", ReadAsn(w)
    PROVE  SessionInv'
  <1> DEFINE r == [run[w] EXCEPT !.pc = "overlay", !.asn = overlayAsn,
                                 !.left = IF overlayAsn = 0 THEN {} ELSE run[w].made]
  <1>1. /\ run' = [run EXCEPT ![w] = r] /\ r.pc = "overlay"
        /\ r.target = run[w].target /\ r.made = run[w].made /\ r.wired = run[w].wired
    BY DEF ReadAsn, TypeInv, TypeOK, RunState
  <1> QED
    BY <1>1, GoesOnFollows DEF ReadAsn, nodes

(* The sessions of a device are made along the cables the run remembers, once  *)
(* both ends were found: those cables are there.                               *)
LEMMA ConfigureFollows ==
    ASSUME TypeInv, SessionInv, NEW w \in Workers, run[w].pc = "overlay",
           NEW d \in run[w].left, ConfigureDevice(w, d)
    PROVE  SessionInv'
  <1>1. CASE Abort(w)
    BY <1>1, AbortFollows
  <1>2. CASE ~Abort(w)
    <2>1. /\ d \in devices /\ \A a \in AdjacenciesOf(w, d) : a[2] \in devices
          /\ sessions' = UpsertSessions(w, d)
          /\ run' = [run EXCEPT ![w].left = @ \ {d}]
          /\ UNCHANGED <<devices, born, links, trackedLinks>>
      BY <1>2 DEF ConfigureDevice
    <2>2. \A a \in AdjacenciesOf(w, d) : a \in links
      BY <2>1 DEF AdjacenciesOf, SessionInv, Remembered
    <2>3. SessionsFollowCabling'
      BY <2>1, <2>2 DEF UpsertSessions, SessionInv, SessionsFollowCabling
    <2>4. \A v \in Workers : /\ run'[v].wired = run[v].wired /\ run'[v].made = run[v].made
                             /\ run'[v].pc = run[v].pc /\ run'[v].target = run[v].target
      <3>1. \A v \in Workers : run[v] \in RunState
        BY DEF TypeInv, TypeOK
      <3> QED
        BY <2>1, <3>1 DEF TypeInv, TypeOK, RunState
    <2>5. \A v \in Workers : OwnWiring(run[v])'
      BY <2>4 DEF SessionInv, OwnWiring
    <2>6. \A v \in Workers : \A a \in run'[v].wired : Remembered(a)'
      BY <2>1, <2>4 DEF SessionInv, Remembered, Known
    <2> QED
      BY <2>1, <2>3, <2>5, <2>6 DEF SessionInv, Known
  <1> QED
    BY <1>1, <1>2

(* Deleting what a run no longer made takes no cable another run remembers     *)
(* whose devices stay: the cables of a target are wired by its runs only, and  *)
(* there is one at a time.                                                     *)
LEMMA FinishFollows ==
    ASSUME TypeInv, AsnInv, SessionInv, NEW w \in Workers, Finish(w)
    PROVE  SessionInv'
  <1> DEFINE t == run[w].target
             unused == tracked[t] \ run[w].made
             lost(a) == \/ a[1] \in unused
                        \/ a[2] \in unused
                        \/ a \in trackedLinks[t] \ run[w].wired
  <1>0. t \in Targets /\ run[w].pc = "overlay"
    BY DEF TypeInv, TypeOK, RunState, Finish
  <1>1. /\ devices' = devices \ unused
        /\ links' = {a \in links : ~lost(a)}
        /\ sessions' = {s \in sessions : ~lost(s[1])}
        /\ trackedLinks' = [trackedLinks EXCEPT ![t] = run[w].wired]
        /\ run' = [run EXCEPT ![w] = Idle]
        /\ born' = born
    BY DEF Finish
  <1>2. \A v \in Workers : run'[v] = IF v = w THEN Idle ELSE run[v]
    BY <1>1 DEF TypeInv, TypeOK
  <1>3. \A v \in Workers : OwnWiring(run[v])'
    BY <1>2, IdleWiring DEF SessionInv, OwnWiring
  <1>4. ASSUME NEW v \in Workers, NEW a \in run'[v].wired PROVE Remembered(a)'
    <2>1. v # w /\ a \in run[v].wired
      BY <1>2, <1>4, IdleWiring
    <2>2. Remembered(a) /\ a[1][1] = run[v].target /\ run[v].pc # "idle"
      BY <2>1 DEF SessionInv, OwnWiring
    <2>3. a[1][1] # t
      BY <1>0, <2>1, <2>2 DEF AsnInv, Exclusive
    <2>4. a \notin trackedLinks[t]
      BY <1>0, <2>3 DEF SessionInv
    <2>5. a[1] \in devices' /\ a[2] \in devices' => a \in links'
      BY <1>1, <2>2, <2>4 DEF Remembered
    <2> QED
      BY <1>1, <2>2, <2>5 DEF Remembered, Known
  <1>5. \A u \in Targets : \A a \in trackedLinks'[u] : a[1][1] = u
    BY <1>0, <1>1 DEF SessionInv, OwnWiring, TypeInv, TypeOK
  <1>6. SessionsFollowCabling'
    BY <1>1 DEF SessionInv, SessionsFollowCabling
  <1>7. \A d \in devices' : Known(d)'
    BY <1>1 DEF SessionInv, Known
  <1> QED
    BY <1>3, <1>4, <1>5, <1>6, <1>7 DEF SessionInv

LEMMA FabricFollows ==
    ASSUME TypeInv, SessionInv, NEW w \in Workers, FabricStep(w) PROVE SessionInv'
  <1>0. Fabric \in Targets /\ run[w] \in RunState
    BY DEF Targets, TypeInv, TypeOK
  <1>1. CASE FabricStart(w)
    BY <1>0, <1>1, StartFollows DEF FabricStart
  <1>2. CASE FabricPools(w)
    <2> DEFINE r == [run[w] EXCEPT !.pc = "create"]
    <2>1. /\ run' = [run EXCEPT ![w] = r] /\ run[w].pc = "pools" /\ r.pc = "create"
          /\ r.target = run[w].target /\ r.made = run[w].made /\ r.wired = run[w].wired
      BY <1>0, <1>2 DEF FabricPools, At, Goto, RunState
    <2> QED
      BY <1>2, <2>1, GoesOnFollows DEF FabricPools
  <1>3. CASE FabricCreate(w)
    BY <1>3, CreateFollows DEF FabricCreate, At
  <1>4. CASE FabricListPods(w)
    <2> DEFINE r == [run[w] EXCEPT !.pc = "signal", !.digest = run[w].made,
                                   !.todo = ToStamp(Pods, run[w].made)]
    <2>1. /\ run' = [run EXCEPT ![w] = r] /\ run[w].pc = "create" /\ r.pc = "signal"
          /\ r.target = run[w].target /\ r.made = run[w].made /\ r.wired = run[w].wired
      BY <1>0, <1>4 DEF FabricListPods, At, RunState
    <2> QED
      BY <1>4, <2>1, GoesOnFollows DEF FabricListPods, nodes
  <1>5. CASE \E p \in Pods : FabricStamp(w, p)
    BY <1>5, StampFollows DEF FabricStamp
  <1>6. CASE FabricReadAsn(w)
    <2>1. CASE MustAllocate(overlayAsn)
      <3> DEFINE r == [run[w] EXCEPT !.pc = "alloc"]
      <3>1. /\ run' = [run EXCEPT ![w] = r] /\ run[w].pc = "signal" /\ r.pc = "alloc"
            /\ r.target = run[w].target /\ r.made = run[w].made /\ r.wired = run[w].wired
        BY <1>0, <1>6, <2>1 DEF FabricReadAsn, At, Goto, RunState
      <3> QED
        BY <1>6, <3>1, GoesOnFollows DEF FabricReadAsn, nodes
    <2>2. CASE ~MustAllocate(overlayAsn)
      <3> DEFINE r == [run[w] EXCEPT !.pc = "overlay", !.asn = overlayAsn,
                                     !.left = run[w].made]
      <3>1. /\ run' = [run EXCEPT ![w] = r] /\ run[w].pc = "signal" /\ r.pc = "overlay"
            /\ r.target = run[w].target /\ r.made = run[w].made /\ r.wired = run[w].wired
        BY <1>0, <1>6, <2>2 DEF FabricReadAsn, At, RunState
      <3> QED
        BY <1>6, <3>1, GoesOnFollows DEF FabricReadAsn, nodes
    <2> QED
      BY <2>1, <2>2
  <1>7. CASE FabricAllocateAsn(w)
    <2> DEFINE r == [run[w] EXCEPT !.pc = "reread"]
    <2>1. /\ run' = [run EXCEPT ![w] = r] /\ run[w].pc = "alloc" /\ r.pc = "reread"
          /\ r.target = run[w].target /\ r.made = run[w].made /\ r.wired = run[w].wired
      BY <1>0, <1>7 DEF FabricAllocateAsn, At, Goto, RunState
    <2> QED
      BY <1>7, <2>1, GoesOnFollows DEF FabricAllocateAsn, nodes
  <1>8. CASE FabricRereadAsn(w)
    <2> DEFINE r == [run[w] EXCEPT !.pc = "overlay", !.asn = overlayAsn,
                                   !.left = run[w].made]
    <2>1. /\ run' = [run EXCEPT ![w] = r] /\ run[w].pc = "reread" /\ r.pc = "overlay"
          /\ r.target = run[w].target /\ r.made = run[w].made /\ r.wired = run[w].wired
      BY <1>0, <1>8 DEF FabricRereadAsn, At, RunState
    <2> QED
      BY <1>8, <2>1, GoesOnFollows DEF FabricRereadAsn, nodes
  <1>9. ASSUME NEW d \in run[w].left, FabricStampAsn(w, d) PROVE SessionInv'
    <2>1. CASE d \in devices
      <3> DEFINE r == [run[w] EXCEPT !.left = @ \ {d}]
      <3>1. /\ run' = [run EXCEPT ![w] = r] /\ run[w].pc = "overlay" /\ r.pc = "overlay"
            /\ r.target = run[w].target /\ r.made = run[w].made /\ r.wired = run[w].wired
        BY <1>0, <1>9, <2>1 DEF FabricStampAsn, At, RunState
      <3> QED
        BY <1>9, <2>1, <3>1, GoesOnFollows DEF FabricStampAsn
    <2> QED
      BY <1>9, <2>1, AbortFollows DEF FabricStampAsn
  <1> QED
    BY <1>1, <1>2, <1>3, <1>4, <1>5, <1>6, <1>7, <1>8, <1>9 DEF FabricStep

LEMMA PodFollows ==
    ASSUME TypeInv, SessionInv, NEW w \in Workers, PodStep(w) PROVE SessionInv'
  <1>0. Pods \subseteq Targets /\ run[w] \in RunState
    BY DEF Targets, TypeInv, TypeOK
  <1>1. ASSUME NEW p \in Pods, PodSkip(w, p) PROVE SessionInv'
    BY <1>1 DEF PodSkip, nodes, SessionInv, OwnWiring, Remembered, Known,
                SessionsFollowCabling
  <1>2. ASSUME NEW p \in Pods, PodStart(w, p) PROVE SessionInv'
    BY <1>0, <1>2, StartFollows DEF PodStart
  <1>3. CASE PodGate(w)
    <2>1. CASE TierIsComplete(w, DevicesOf(Fabric))
      <3> DEFINE r == [run[w] EXCEPT !.pc = "pools", !.upper = DevicesOf(Fabric)]
      <3>1. /\ run' = [run EXCEPT ![w] = r] /\ run[w].pc = "gate" /\ r.pc = "pools"
            /\ r.target = run[w].target /\ r.made = run[w].made /\ r.wired = run[w].wired
        BY <1>0, <1>3, <2>1 DEF PodGate, At, RunState
      <3> QED
        BY <1>3, <2>1, <3>1, GoesOnFollows DEF PodGate, nodes
    <2> QED
      BY <1>3, <2>1, AbortFollows DEF PodGate
  <1>4. CASE PodPools(w)
    <2>1. CASE pools[Fabric]
      <3> DEFINE r == [run[w] EXCEPT !.pc = "create"]
      <3>1. /\ run' = [run EXCEPT ![w] = r] /\ run[w].pc = "pools" /\ r.pc = "create"
            /\ r.target = run[w].target /\ r.made = run[w].made /\ r.wired = run[w].wired
        BY <1>0, <1>4, <2>1 DEF PodPools, At, Goto, RunState
      <3> QED
        BY <1>4, <2>1, <3>1, GoesOnFollows DEF PodPools
    <2> QED
      BY <1>4, <2>1, AbortFollows DEF PodPools
  <1>5. CASE PodCreate(w)
    BY <1>5, CreateFollows DEF PodCreate, At
  <1>6. CASE PodCable(w)
    <2> DEFINE r == [run[w] EXCEPT !.pc = "signal", !.wired = CablingPlan(w),
                                   !.digest = PodDigest(w),
                                   !.todo = ToStamp(RacksOf(run[w].target), PodDigest(w))]
    <2>1. /\ run' = [run EXCEPT ![w] = r] /\ run[w].pc = "create" /\ r.pc = "signal"
          /\ r.target = run[w].target /\ r.made = run[w].made /\ r.wired = CablingPlan(w)
      BY <1>0, <1>6 DEF PodCable, At, RunState
    <2> QED
      BY <1>6, <2>1, CableFollows DEF PodCable
  <1>7. ASSUME NEW r \in Racks, PodStamp(w, r) PROVE SessionInv'
    BY <1>7, StampFollows DEF PodStamp
  <1>8. CASE PodReadAsn(w)
    BY <1>8, ReadAsnFollows DEF PodReadAsn, At
  <1>9. ASSUME NEW d \in run[w].left, PodOverlay(w, d) PROVE SessionInv'
    BY <1>9, ConfigureFollows DEF PodOverlay, At
  <1> QED
    BY <1>1, <1>2, <1>3, <1>4, <1>5, <1>6, <1>7, <1>8, <1>9 DEF PodStep

LEMMA RackFollows ==
    ASSUME TypeInv, SessionInv, NEW w \in Workers, RackStep(w) PROVE SessionInv'
  <1>0. Racks \subseteq Targets /\ run[w] \in RunState
    BY DEF Targets, TypeInv, TypeOK
  <1>1. ASSUME NEW r \in Racks, RackReject(w, r) PROVE SessionInv'
    BY <1>1 DEF RackReject, nodes, SessionInv, OwnWiring, Remembered, Known,
                SessionsFollowCabling
  <1>2. ASSUME NEW r \in Racks, RackStart(w, r) PROVE SessionInv'
    BY <1>0, <1>2, StartFollows DEF RackStart
  <1>3. CASE RackGate(w)
    <2> DEFINE spines == DevicesOf(PodOf[run[w].target])
    <2>1. CASE TierIsComplete(w, spines)
      <3> DEFINE r == [run[w] EXCEPT !.pc = "create", !.upper = spines]
      <3>1. /\ run' = [run EXCEPT ![w] = r] /\ run[w].pc = "gate" /\ r.pc = "create"
            /\ r.target = run[w].target /\ r.made = run[w].made /\ r.wired = run[w].wired
        BY <1>0, <1>3, <2>1 DEF RackGate, At, RunState
      <3> QED
        BY <1>3, <2>1, <3>1, GoesOnFollows DEF RackGate, nodes
    <2> QED
      BY <1>3, <2>1, AbortFollows DEF RackGate
  <1>4. CASE RackCreate(w)
    BY <1>4, CreateFollows DEF RackCreate, At
  <1>5. CASE RackCable(w)
    <2> DEFINE r == [run[w] EXCEPT !.pc = "signal", !.wired = CablingPlan(w)]
    <2>1. /\ run' = [run EXCEPT ![w] = r] /\ run[w].pc = "create" /\ r.pc = "signal"
          /\ r.target = run[w].target /\ r.made = run[w].made /\ r.wired = CablingPlan(w)
      BY <1>0, <1>5 DEF RackCable, At, RunState
    <2> QED
      BY <1>5, <2>1, CableFollows DEF RackCable
  <1>6. CASE RackReadAsn(w)
    BY <1>6, ReadAsnFollows DEF RackReadAsn, At
  <1>7. ASSUME NEW d \in run[w].left, RackOverlay(w, d) PROVE SessionInv'
    BY <1>7, ConfigureFollows DEF RackOverlay, At
  <1> QED
    BY <1>1, <1>2, <1>3, <1>4, <1>5, <1>6, <1>7 DEF RackStep

LEMMA StepFollows == TypeInv /\ AsnInv /\ SessionInv /\ [Next]_vars => SessionInv'
  <1> SUFFICES ASSUME TypeInv, AsnInv, SessionInv, [Next]_vars PROVE SessionInv'
    OBVIOUS
  <1>1. ASSUME NEW w \in Workers, WorkerStep(w) PROVE SessionInv'
    BY <1>1, FabricFollows, PodFollows, RackFollows, AbortFollows, FinishFollows
       DEF WorkerStep, CablingFails
  <1>2. ASSUME NEW w \in Workers, Die(w) PROVE SessionInv'
    BY <1>2, IdleWiring, OneWorkerFollows DEF Die, nodes
  <1>3. ASSUME Operator \/ UNCHANGED vars PROVE SessionInv'
    BY <1>3 DEF Operator, Resize, RunByHand, vars, nodes, SessionInv, OwnWiring,
                Remembered, Known, SessionsFollowCabling
  <1> QED
    BY <1>1, <1>2, <1>3 DEF Next

(* EVPN sessions follow the cabling: no session outlives the link it was made  *)
(* for, although a run makes its sessions calls after its cables, from memory, *)
(* while others shrink the tiers and make devices anew. With two runs of one   *)
(* design object at a time one of them would delete links the other remembers. *)
THEOREM SessionsFollow == ASSUME OneRunPerTarget PROVE Spec => []SessionsFollowCabling
  <1>1. Init => TypeInv /\ AsnInv /\ SessionInv
    BY InitTyped, InitAgreed, InitFollows
  <1>2. TypeInv /\ AsnInv /\ SessionInv /\ [Next]_vars => (TypeInv /\ AsnInv /\ SessionInv)'
    BY StepTyped, StepAgreed, StepFollows
  <1>3. SessionInv => SessionsFollowCabling
    BY DEF SessionInv
  <1> QED
    BY <1>1, <1>2, <1>3, PTL DEF Spec
===============================================================================
