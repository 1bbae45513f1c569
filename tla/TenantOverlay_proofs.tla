------------------------- MODULE TenantOverlay_proofs -------------------------
(***************************************************************************)
(* Tenants do not get in one another's way, and identifiers stay, for any  *)
(* number of tenants, nodes and leafs and any number of edits and deaths.  *)
(***************************************************************************)
EXTENDS TenantOverlay, TLAPS

\* A run works on the nodes of its own tenant only.
RunsOwn ==
    \A t \in Tenants :
      \A n \in run[t].segments \cup run[t].todo \cup run[t].node : Owner(n) = t

\* A route target never names another VNI than the one that is allocated.
TargetIsVni == \A n \in Nodes : target[n] # 0 => target[n] = vni[n]

\* One node is configured at a time, and only a segment gets a subnet.
OneNode ==
    \A t \in Tenants :
      /\ \A m, n \in run[t].node : m = n
      /\ run[t].pc \in {"subnet", "bind"} => run[t].node \subseteq Segments

Inv == TypeOK /\ RunsOwn /\ OneNode /\ TargetIsVni

-----------------------------------------------------------------------------
(* Facts about the operators                                                *)

LEMMA IdleIsRun == Idle \in RunState
BY DEF Idle, RunState

LEMMA IdleOwns == /\ Idle.segments \cup Idle.todo \cup Idle.node = {}
                  /\ Idle.pc = "idle"
BY DEF Idle

LEMMA OwnerIsTenant == \A n \in Nodes : Owner(n) \in Tenants
BY TenancyIsTree DEF Owner, Nodes

LEMMA SegmentsAreNodes == Segments \subseteq Nodes /\ Vrfs \subseteq Nodes
BY DEF Nodes

LEMMA PoolIsKnown == \A n : PoolOf(n) \in VniPools
BY DEF PoolOf, VniPools

-----------------------------------------------------------------------------
(* Each step preserves the invariant                                        *)

LEMMA StopPreserves ==
    ASSUME Inv, NEW t \in Tenants, Stop(t),
           stale' \subseteq Tenants, changes' \in Nat, failures' \in Nat
    PROVE  Inv'
<1>1. TypeOK'
  BY IdleIsRun DEF Inv, TypeOK, Stop, design, fabric, overlay
<1>2. RunsOwn' /\ OneNode'
  BY IdleOwns DEF Inv, TypeOK, RunsOwn, OneNode, Stop
<1>3. TargetIsVni'
  BY DEF Inv, TargetIsVni, Stop, overlay
<1>. QED
  BY <1>1, <1>2, <1>3 DEF Inv

LEMMA GiveUpPreserves == ASSUME Inv, NEW t \in Tenants, GiveUp(t) PROVE Inv'
BY StopPreserves DEF GiveUp, history, Inv, TypeOK

LEMMA StartPreserves == ASSUME Inv, NEW t \in Tenants, Start(t) PROVE Inv'
<1>. DEFINE started == [Idle EXCEPT !.pc = "asn", !.intent = racks,
                                    !.segments = SegmentsOf(t),
                                    !.todo = VrfsOf(t) \cup SegmentsOf(t)]
<1>1. SegmentsOf(t) \subseteq Segments /\ VrfsOf(t) \subseteq Vrfs
  BY DEF SegmentsOf, VrfsOf, Inv, TypeOK
<1>2. started \in RunState
  BY <1>1 DEF RunState, Idle, Nodes, Inv, TypeOK
<1>3. run' = [run EXCEPT ![t] = started]
  BY DEF Start
<1>4. /\ \A n \in started.segments \cup started.todo \cup started.node : Owner(n) = t
      /\ started.node = {} /\ started.pc = "asn"
  BY TenancyIsTree DEF Idle, SegmentsOf, VrfsOf, Owner
<1>. HIDE DEF started
<1>5. TypeOK'
  BY <1>2, <1>3 DEF Inv, TypeOK, Start, design, fabric, overlay
<1>6. RunsOwn' /\ OneNode'
  BY <1>3, <1>4 DEF Inv, TypeOK, RunsOwn, OneNode
<1>7. TargetIsVni'
  BY DEF Inv, TargetIsVni, Start, overlay
<1>. QED
  BY <1>5, <1>6, <1>7 DEF Inv

\* The steps of a run that change neither the nodes it works on nor a number.
LEMMA MovePreserves ==
    ASSUME Inv, NEW t \in Tenants, NEW r \in RunState,
           run' = [run EXCEPT ![t] = r],
           r.segments \subseteq run[t].segments, r.todo \subseteq run[t].todo,
           r.node = run[t].node,
           r.pc \in {"subnet", "bind"} => r.node \subseteq Segments,
           UNCHANGED <<design, fabric, vni, target, checksum, vnisUsed, pending, broken, history>>,
           subnets' \subseteq Segments, bound' \subseteq Segments,
           carries' \subseteq Leafs \X Segments
    PROVE  Inv'
<1>1. TypeOK'
  BY DEF Inv, TypeOK, design, fabric, history
<1>2. RunsOwn' /\ OneNode'
  BY DEF Inv, TypeOK, RunsOwn, OneNode
<1>3. TargetIsVni'
  BY DEF Inv, TargetIsVni
<1>. QED
  BY <1>1, <1>2, <1>3 DEF Inv

LEMMA ResolvePreserves == ASSUME Inv, NEW t \in Tenants, ResolveOverlayAsn(t) PROVE Inv'
<1>1. CASE overlayReady
  <2>1. [run[t] EXCEPT !.pc = "leafs"] \in RunState
    BY ZenonT(40) DEF Inv, TypeOK, RunState
  <2>2. /\ run' = [run EXCEPT ![t] = [run[t] EXCEPT !.pc = "leafs"]]
        /\ UNCHANGED <<design, fabric, overlay, pending, broken, history>>
    BY <1>1 DEF ResolveOverlayAsn, Goto
  <2>3. run[t] \in RunState
    BY DEF Inv, TypeOK
  <2>. QED
    BY <2>1, <2>2, <2>3, MovePreserves DEF overlay, Inv, TypeOK, RunState
<1>2. CASE ~overlayReady
  BY <1>2, GiveUpPreserves DEF ResolveOverlayAsn
<1>. QED
  BY <1>1, <1>2

LEMMA ListPreserves == ASSUME Inv, NEW t \in Tenants, ListLeafs(t) PROVE Inv'
<1>. DEFINE r == [run[t] EXCEPT !.pc = "number", !.left = leafs]
<1>1. r \in RunState /\ run[t] \in RunState
  BY ZenonT(40) DEF Inv, TypeOK, RunState
<1>2. /\ r.node = run[t].node /\ r.segments = run[t].segments /\ r.todo = run[t].todo
      /\ r.pc = "number"
  BY <1>1 DEF RunState
<1>3. run' = [run EXCEPT ![t] = r]
  BY DEF ListLeafs
<1>. HIDE DEF r
<1>. QED
  BY <1>1, <1>2, <1>3, MovePreserves DEF ListLeafs, overlay, Inv, TypeOK

LEMMA NumberPreserves ==
    ASSUME Inv, NEW t \in Tenants, NEW n \in run[t].todo, Number(t, n) PROVE Inv'
<1>1. CASE Gone(n)
  BY <1>1, GiveUpPreserves DEF Number
<1>2. CASE ~Gone(n)
  <2>. DEFINE r == [run[t] EXCEPT !.pc = "target", !.node = {n}, !.todo = @ \ {n}]
  <2>1. n \in Nodes /\ run[t] \in RunState
    BY DEF Inv, TypeOK, RunState
  <2>2. r \in RunState
    BY <2>1 DEF RunState
  <2>3. run' = [run EXCEPT ![t] = r]
    BY <1>2 DEF Number
  <2>4. /\ \A m \in r.segments \cup r.todo \cup r.node : Owner(m) = t
        /\ r.node = {n} /\ r.pc = "target"
    BY <2>1 DEF Inv, RunsOwn, RunState
  <2>. HIDE DEF r
  <2>5. vni' \in [Nodes -> Nat] /\ vnisUsed' \in [VniPools -> Nat]
    <3>1. CASE MustAllocate(n)
      <4>1. vnisUsed[PoolOf(n)] + 1 \in Nat
        BY PoolIsKnown DEF Inv, TypeOK
      <4>2. vnisUsed' \in [VniPools -> Nat]
        BY <1>2, <3>1, <4>1 DEF Number, Inv, TypeOK
      <4>3. vnisUsed'[PoolOf(n)] \in Nat
        BY <4>2, PoolIsKnown
      <4>. QED
        BY <1>2, <3>1, <4>2, <4>3 DEF Number, Inv, TypeOK
    <3>2. CASE ~MustAllocate(n)
      BY <1>2, <3>2 DEF Number, Inv, TypeOK
    <3>. QED
      BY <3>1, <3>2
  <2>6. TypeOK'
    BY <1>2, <2>2, <2>3, <2>5 DEF Number, Inv, TypeOK, design, fabric, history
  <2>7. RunsOwn' /\ OneNode'
    BY <2>3, <2>4 DEF Inv, TypeOK, RunsOwn, OneNode
  <2>8. TargetIsVni'
    <3>1. \A m \in Nodes : vni[m] # 0 => vni'[m] = vni[m]
      BY <1>2, <2>1 DEF Number, MustAllocate, Inv, TypeOK
    <3>. QED
      BY <1>2, <3>1 DEF Number, Inv, TargetIsVni
  <2>. QED
    BY <2>6, <2>7, <2>8 DEF Inv
<1>. QED
  BY <1>1, <1>2

LEMMA SetTargetPreserves == ASSUME Inv, NEW t \in Tenants, SetTarget(t) PROVE Inv'
<1>1. PICK n \in run[t].node :
         IF Gone(n)
           THEN GiveUp(t)
           ELSE /\ target' = [target EXCEPT ![n] = vni[n]]
                /\ Goto(t, AfterTarget(t, n))
                /\ UNCHANGED <<vni, subnets, bound, carries, checksum, vnisUsed>>
                /\ UNCHANGED <<design, fabric, pending, broken, history>>
  BY DEF SetTarget
<1>2. CASE Gone(n)
  BY <1>1, <1>2, GiveUpPreserves
<1>3. CASE ~Gone(n)
  <2>1. n \in Nodes /\ run[t] \in RunState /\ vni[n] \in Nat
    BY DEF Inv, TypeOK, RunState
  <2>2. [run[t] EXCEPT !.pc = AfterTarget(t, n)] \in RunState
    BY <2>1 DEF RunState, AfterTarget, NextNode
  <2>3. run' = [run EXCEPT ![t] = [run[t] EXCEPT !.pc = AfterTarget(t, n)]]
    BY <1>1, <1>3 DEF Goto
  <2>4. TypeOK'
    BY <1>1, <1>3, <2>1, <2>2, <2>3 DEF Inv, TypeOK, design, fabric, history
  <2>5. RunsOwn'
    BY <2>1, <2>3 DEF Inv, TypeOK, RunsOwn, RunState
  <2>7. AfterTarget(t, n) \in {"subnet", "bind"} => n \in Segments
    BY TenancyIsTree DEF AfterTarget, NextNode
  <2>8. OneNode'
    BY <2>1, <2>3, <2>7 DEF Inv, TypeOK, OneNode, RunState
  <2>6. TargetIsVni'
    BY <1>1, <1>3, <2>1 DEF Inv, TypeOK, TargetIsVni
  <2>. QED
    BY <2>4, <2>5, <2>6, <2>8 DEF Inv
<1>. QED
  BY <1>2, <1>3

LEMMA AllocateSubnetPreserves ==
    ASSUME Inv, NEW t \in Tenants, AllocateSubnet(t) PROVE Inv'
<1>1. [run[t] EXCEPT !.pc = "bind"] \in RunState /\ run[t] \in RunState
  BY ZenonT(40) DEF Inv, TypeOK, RunState
<1>2. run[t].node \subseteq Segments
  BY DEF AllocateSubnet, Inv, OneNode
<1>3. run' = [run EXCEPT ![t] = [run[t] EXCEPT !.pc = "bind"]]
  BY DEF AllocateSubnet, Goto
<1>4. subnets' \subseteq Segments
  BY <1>2 DEF AllocateSubnet, Inv, TypeOK
<1>. QED
  BY <1>1, <1>2, <1>3, <1>4, MovePreserves DEF AllocateSubnet, Inv, TypeOK, RunState

LEMMA BindPreserves == ASSUME Inv, NEW t \in Tenants, BindSubnet(t) PROVE Inv'
<1>1. CASE \E n \in run[t].node : Gone(n)
  BY <1>1, GiveUpPreserves DEF BindSubnet
<1>2. CASE ~ \E n \in run[t].node : Gone(n)
  <2>. DEFINE r == [run[t] EXCEPT !.pc = NextNode(t)]
  <2>1. r \in RunState /\ run[t] \in RunState
    BY ZenonT(40) DEF Inv, TypeOK, RunState, NextNode
  <2>2. r.node = run[t].node /\ r.segments = run[t].segments /\ r.todo = run[t].todo
    BY <2>1 DEF RunState
  <2>3. run[t].node \subseteq Segments
    BY DEF BindSubnet, Inv, OneNode
  <2>4. run' = [run EXCEPT ![t] = r]
    BY <1>2 DEF BindSubnet, Goto
  <2>5. bound' \subseteq Segments
    BY <1>2, <2>3 DEF BindSubnet, Inv, TypeOK
  <2>. HIDE DEF r
  <2>. QED
    BY <1>2, <2>1, <2>2, <2>3, <2>4, <2>5, MovePreserves DEF BindSubnet, Inv, TypeOK
<1>. QED
  BY <1>1, <1>2

LEMMA ReconcilePreserves ==
    ASSUME Inv, NEW t \in Tenants, NEW l \in run[t].left, Reconcile(t, l) PROVE Inv'
<1>1. CASE \E s \in Wanted(t, l) : Gone(s)
  BY <1>1, GiveUpPreserves DEF Reconcile
<1>2. CASE ~ \E s \in Wanted(t, l) : Gone(s)
  <2>. DEFINE r == [run[t] EXCEPT !.left = @ \ {l}]
  <2>1. r \in RunState /\ run[t] \in RunState
    BY ZenonT(40) DEF Inv, TypeOK, RunState
  <2>2. /\ r.node = run[t].node /\ r.segments = run[t].segments /\ r.todo = run[t].todo
        /\ r.pc = run[t].pc
    BY <2>1 DEF RunState
  <2>3. run' = [run EXCEPT ![t] = r]
    BY <1>2 DEF Reconcile
  <2>4. l \in Leafs /\ Wanted(t, l) \subseteq Segments
    BY <2>1 DEF RunState, Wanted
  <2>5. carries' \subseteq Leafs \X Segments
    BY <1>2, <2>4 DEF Reconcile, Inv, TypeOK
  <2>6. run[t].pc = "place"
    BY DEF Reconcile
  <2>. HIDE DEF r
  <2>. QED
    BY <1>2, <2>1, <2>2, <2>3, <2>5, <2>6, MovePreserves DEF Reconcile, Inv, TypeOK
<1>. QED
  BY <1>1, <1>2

LEMMA StampPreserves == ASSUME Inv, NEW t \in Tenants, Stamp(t) PROVE Inv'
<1>1. run[t].segments \subseteq Segments
  BY DEF Inv, TypeOK, RunState
<1>2. pending' \in [Tenants -> Nat]
  BY DEF Stamp, Inv, TypeOK
<1>3. TypeOK'
  BY <1>1, <1>2, IdleIsRun DEF Stamp, Inv, TypeOK, design, fabric, history
<1>4. RunsOwn' /\ OneNode'
  BY IdleOwns DEF Stamp, Inv, TypeOK, RunsOwn, OneNode
<1>5. TargetIsVni'
  BY DEF Stamp, Inv, TargetIsVni
<1>. QED
  BY <1>3, <1>4, <1>5 DEF Inv

\* What happens around the runs leaves the runs and the numbers alone.
LEMMA AroundPreserves ==
    ASSUME Inv, UNCHANGED <<vni, target, subnets, bound, checksum, vnisUsed, run, broken>>,
           present' \subseteq Segments, racks' \in [Segments -> SUBSET Racks],
           leafs' \subseteq Leafs, carries' \subseteq Leafs \X Segments,
           overlayReady' \in BOOLEAN, pending' \in [Tenants -> Nat],
           stale' \subseteq Tenants, changes' \in Nat, failures' \in Nat
    PROVE  Inv'
BY DEF Inv, TypeOK, RunsOwn, OneNode, TargetIsVni

LEMMA OutsidePreserves == ASSUME Inv, Outside PROVE Inv'
<1>1. ASSUME NEW s \in Segments, Change(s)
      PROVE  /\ UNCHANGED <<vni, target, subnets, bound, checksum, vnisUsed, run, broken,
                            leafs, overlayReady, pending, failures>>
             /\ stale' \subseteq Tenants /\ changes' \in Nat
  BY <1>1, OwnerIsTenant, SegmentsAreNodes DEF Change, fabric, Inv, TypeOK
<1>2. ASSUME NEW s \in Segments, AddSegment(s) PROVE Inv'
  BY <1>1, <1>2, AroundPreserves DEF AddSegment, Inv, TypeOK
<1>3. ASSUME NEW s \in Segments, RemoveSegment(s) PROVE Inv'
  BY <1>1, <1>3, AroundPreserves DEF RemoveSegment, Inv, TypeOK
<1>4. ASSUME NEW s \in Segments, NEW R \in SUBSET Racks, PlaceSegment(s, R) PROVE Inv'
  BY <1>1, <1>4, AroundPreserves DEF PlaceSegment, Inv, TypeOK
<1>5. ASSUME NEW s \in Segments, NEW r \in Racks, AttachServer(s, r) PROVE Inv'
  BY <1>1, <1>5, AroundPreserves DEF AttachServer, Inv, TypeOK
<1>6. ASSUME NEW l \in Leafs, BuildLeaf(l) PROVE Inv'
  BY <1>6, AroundPreserves DEF BuildLeaf, design, overlay, Inv, TypeOK
<1>. QED
  BY <1>2, <1>3, <1>4, <1>5, <1>6 DEF Outside

LEMMA InvAtFirst == Init => Inv
<1>. SUFFICES ASSUME Init PROVE Inv
  OBVIOUS
<1>1. TypeOK
  BY IdleIsRun, TenancyIsTree DEF Init, TypeOK, VniPools
<1>2. RunsOwn /\ OneNode
  BY IdleOwns DEF Init, RunsOwn, OneNode
<1>3. TargetIsVni
  BY DEF Init, TargetIsVni
<1>. QED
  BY <1>1, <1>2, <1>3 DEF Inv

LEMMA InvPreserved == Inv /\ [Next]_vars => Inv'
<1>. SUFFICES ASSUME Inv, [Next]_vars PROVE Inv'
  OBVIOUS
<1>1. ASSUME NEW t \in Tenants, RunStep(t) PROVE Inv'
  BY <1>1, StartPreserves, ResolvePreserves, ListPreserves, NumberPreserves,
     SetTargetPreserves, AllocateSubnetPreserves, BindPreserves, ReconcilePreserves,
     StampPreserves DEF RunStep
<1>2. ASSUME NEW t \in Tenants, Die(t) PROVE Inv'
  BY <1>2, StopPreserves DEF Die, Inv, TypeOK
<1>3. ASSUME NEW t \in Tenants, RunAgain(t) PROVE Inv'
  BY <1>3, AroundPreserves DEF RunAgain, design, fabric, overlay, history, Inv, TypeOK
<1>4. CASE FabricReady
  BY <1>4, AroundPreserves DEF FabricReady, design, overlay, history, Inv, TypeOK
<1>5. CASE Outside
  BY <1>5, OutsidePreserves
<1>6. CASE UNCHANGED vars
  BY <1>6, AroundPreserves DEF vars, Inv, TypeOK
<1>. QED
  BY <1>1, <1>2, <1>3, <1>4, <1>5, <1>6 DEF Next

LEMMA InvAlways == Spec => []Inv
BY InvAtFirst, InvPreserved, PTL DEF Spec

-----------------------------------------------------------------------------
(* Theorems                                                                 *)

(* The state of the overlay is well typed, whatever happens (OverlayGenerator). *)
THEOREM OverlayTypeCorrect == Spec => []TypeOK
<1>1. Inv => TypeOK
  BY DEF Inv
<1>. QED
  BY <1>1, InvAlways, PTL

LEMMA StepKeepsIdentifiers ==
    ASSUME Inv, [Next]_vars
    PROVE  \A n \in Nodes : /\ vni[n] # 0 => vni'[n] = vni[n]
                            /\ target[n] # 0 => target'[n] = target[n]
<1>1. CASE UNCHANGED <<vni, target>>
  BY <1>1
<1>2. ASSUME NEW t \in Tenants, NEW n \in run[t].todo, Number(t, n)
      PROVE  \A m \in Nodes : (vni[m] # 0 => vni'[m] = vni[m]) /\ target' = target
  <2>1. n \in Nodes
    BY DEF Inv, TypeOK, RunState
  <2>. QED
    BY <1>2, <2>1 DEF Number, MustAllocate, GiveUp, Stop, overlay, Inv, TypeOK
<1>3. ASSUME NEW t \in Tenants, SetTarget(t)
      PROVE  vni' = vni /\ \A m \in Nodes : target[m] # 0 => target'[m] = target[m]
  <2>1. run[t].node \subseteq Nodes
    BY DEF Inv, TypeOK, RunState
  <2>. QED
    BY <1>3, <2>1 DEF SetTarget, GiveUp, Stop, overlay, Inv, TypeOK, TargetIsVni
<1>4. ASSUME NEW t \in Tenants,
             \/ Start(t) \/ ResolveOverlayAsn(t) \/ ListLeafs(t) \/ AllocateSubnet(t)
             \/ BindSubnet(t) \/ Stamp(t) \/ Die(t) \/ RunAgain(t)
             \/ \E l \in run[t].left : Reconcile(t, l)
      PROVE  UNCHANGED <<vni, target>>
  BY <1>4 DEF Start, ResolveOverlayAsn, ListLeafs, AllocateSubnet, BindSubnet, Stamp, Die,
              RunAgain, Reconcile, GiveUp, Stop, overlay
<1>5. ASSUME FabricReady \/ Outside PROVE UNCHANGED <<vni, target>>
  BY <1>5 DEF FabricReady, Outside, AddSegment, RemoveSegment, PlaceSegment, AttachServer,
              BuildLeaf, Change, overlay
<1>6. CASE UNCHANGED vars
  BY <1>6 DEF vars
<1>. QED
  BY <1>1, <1>2, <1>3, <1>4, <1>5, <1>6 DEF Next, RunStep

(* A VNI and the route target made of it never change once allocated, however *)
(* often runs of however many tenants die and repeat (configure_vrf,          *)
(* configure_segment).                                                        *)
THEOREM IdentifiersNeverChange == Spec => IdentifiersStable
<1>1. Inv /\ [Next]_vars =>
        [\A n \in Nodes : /\ vni[n] # 0 => vni'[n] = vni[n]
                          /\ target[n] # 0 => target'[n] = target[n]]_vars
  BY StepKeepsIdentifiers
<1>. QED
  BY <1>1, InvAlways, PTL DEF Spec, IdentifiersStable

\* What the step of tenant t does to an edge of another tenant.
LEMMA ReconcileIsOwn ==
    ASSUME Inv, NEW t \in Tenants, NEW l \in run[t].left, Reconcile(t, l),
           NEW e \in Leafs \X Segments, (e \in carries) # (e \in carries')
    PROVE  run'[Owner(e[2])] # run[Owner(e[2])]
<1>1. ~ \E s \in Wanted(t, l) : Gone(s)
  BY DEF Reconcile, GiveUp, Stop, overlay
<1>2. e \in {l} \X (Wanted(t, l) \cup Unwanted(t, l))
  BY <1>1 DEF Reconcile
<1>3. e[2] \in run[t].segments
  BY <1>2 DEF Wanted, Unwanted
<1>4. Owner(e[2]) = t
  BY <1>3 DEF Inv, RunsOwn
<1>5. run'[t].left # run[t].left
  BY <1>1 DEF Reconcile, Inv, TypeOK, RunState
<1>. QED
  BY <1>4, <1>5

LEMMA StepIsOwn ==
    ASSUME Inv, [Next]_vars, NEW e \in Leafs \X Segments, (e \in carries) # (e \in carries')
    PROVE  run'[Owner(e[2])] # run[Owner(e[2])] \/ Gone(e[2])'
<1>1. CASE carries' = carries
  BY <1>1
<1>2. ASSUME NEW t \in Tenants, NEW l \in run[t].left, Reconcile(t, l)
      PROVE  run'[Owner(e[2])] # run[Owner(e[2])]
  BY <1>2, ReconcileIsOwn
<1>3. ASSUME NEW s \in Segments, RemoveSegment(s) PROVE Gone(e[2])'
  <2>1. e[2] = s
    BY <1>3 DEF RemoveSegment
  <2>. QED
    BY <1>3, <2>1 DEF RemoveSegment, Gone
<1>4. ASSUME NEW t \in Tenants,
             \/ Start(t) \/ ResolveOverlayAsn(t) \/ ListLeafs(t) \/ AllocateSubnet(t)
             \/ BindSubnet(t) \/ Stamp(t) \/ Die(t) \/ RunAgain(t) \/ SetTarget(t)
             \/ \E n \in run[t].todo : Number(t, n)
      PROVE  carries' = carries
  BY <1>4 DEF Start, ResolveOverlayAsn, ListLeafs, AllocateSubnet, BindSubnet, Stamp, Die,
              RunAgain, SetTarget, Number, GiveUp, Stop, overlay
<1>5. ASSUME \/ FabricReady
             \/ \E s \in Segments : AddSegment(s)
             \/ \E s \in Segments, R \in SUBSET Racks : PlaceSegment(s, R)
             \/ \E s \in Segments, r \in Racks : AttachServer(s, r)
             \/ \E l \in Leafs : BuildLeaf(l)
      PROVE  carries' = carries
  BY <1>5 DEF FabricReady, AddSegment, PlaceSegment, AttachServer, BuildLeaf, overlay
<1>6. CASE UNCHANGED vars
  BY <1>6 DEF vars
<1>. QED
  BY <1>1, <1>2, <1>3, <1>4, <1>5, <1>6 DEF Next, RunStep, Outside

(* Tenants share leafs without touching one another's segments, however many  *)
(* runs interleave and whatever they had read before (materialize_segments).  *)
THEOREM TenantsAreIsolated == Spec => OthersUntouched
<1>1. Inv /\ [Next]_vars =>
        [\A e \in Leafs \X Segments :
           (e \in carries) # (e \in carries') =>
              run'[Owner(e[2])] # run[Owner(e[2])] \/ Gone(e[2])']_vars
  BY StepIsOwn
<1>. QED
  BY <1>1, InvAlways, PTL DEF Spec, OthersUntouched
=============================================================================
