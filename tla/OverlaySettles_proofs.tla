------------------------ MODULE OverlaySettles_proofs ------------------------
(***************************************************************************)
(* A tenant that has settled is completely materialized, for any number of *)
(* tenants, nodes and leafs and any number of edits and deaths: a run that *)
(* nothing overtook has done the part of its work that it has behind it.   *)
(***************************************************************************)
EXTENDS TenantOverlay_proofs

NodesOf(t) == VrfsOf(t) \cup SegmentsOf(t)

Numbered(n)   == vni[n] # 0 /\ target[n] = vni[n]
Configured(n) == Numbered(n) /\ (n \in Routed => n \in bound)
Placed(t, l)  == \A s \in SegmentsOf(t) : <<l, s>> \in carries <=> PlacedOn(racks[s], l)

Configuring(r) == IF r.pc \in {"target", "subnet", "bind"} THEN r.node ELSE {}

\* What run r of tenant t has done, if its tenant did not change since it started.
OnTrack(t, r) ==
    /\ r.segments = SegmentsOf(t)
    /\ \A s \in SegmentsOf(t) : r.intent[s] = racks[s]
    /\ r.todo \cup r.node \subseteq NodesOf(t)
    /\ \A n \in NodesOf(t) \ (r.todo \cup Configuring(r)) : Configured(n)
    /\ r.pc = "target" => \A n \in r.node : vni[n] # 0
    /\ r.pc \in {"subnet", "bind"} => \A n \in r.node : Numbered(n)
    /\ r.pc = "place" => r.todo = {}
    /\ r.pc \notin {"asn", "leafs"} => \A l \in leafs \ r.left : Placed(t, l)

Built(t) == (\A n \in NodesOf(t) : Configured(n)) /\ (\A l \in leafs : Placed(t, l))

\* A tenant whose tree did not change since it was read.
Good(t) ==
    t \notin stale =>
      IF run[t].pc = "idle" THEN t \notin broken /\ pending[t] = 0 => Built(t)
                            ELSE OnTrack(t, run[t])

Progress == \A t \in Tenants : Good(t)

-----------------------------------------------------------------------------
(* What others do to a tenant                                               *)

\* A step that leaves alone what tenant u consists of.
SameTree(u) ==
    /\ leafs' = leafs /\ SegmentsOf(u)' = SegmentsOf(u)
    /\ \A s \in SegmentsOf(u) : racks'[s] = racks[s]

SameNode(n) == /\ vni'[n] = vni[n] /\ target'[n] = target[n]
               /\ n \in bound' <=> n \in bound

SameEdges(u) ==
    \A l \in Leafs, s \in SegmentsOf(u) : <<l, s>> \in carries' <=> <<l, s>> \in carries

Alone(u) == SameTree(u) /\ (\A n \in NodesOf(u) : SameNode(n)) /\ SameEdges(u)

LEMMA SameNodeStays ==
    ASSUME NEW n, SameNode(n)
    PROVE  /\ Numbered(n) => Numbered(n)'
           /\ Configured(n) => Configured(n)'
BY DEF SameNode, Numbered, Configured

LEMMA SamePlaceStays ==
    ASSUME TypeOK, NEW u, SameTree(u), SameEdges(u), NEW l \in leafs, Placed(u, l)
    PROVE  Placed(u, l)'
BY DEF SameTree, SameEdges, Placed, PlacedOn, TypeOK

LEMMA AloneStaysOnTrack ==
    ASSUME TypeOK, NEW u, NEW r, Alone(u), OnTrack(u, r)
    PROVE  OnTrack(u, r)'
<1>1. NodesOf(u)' = NodesOf(u)
  BY DEF NodesOf, VrfsOf, Alone, SameTree
<1>2. \A n \in NodesOf(u) : SameNode(n)
  BY DEF Alone
<1>3. \A l \in leafs \ r.left : r.pc \notin {"asn", "leafs"} => Placed(u, l)'
  BY SamePlaceStays DEF Alone, OnTrack
<1>4. \A n \in NodesOf(u) \ (r.todo \cup Configuring(r)) : Configured(n)'
  BY <1>2, SameNodeStays DEF OnTrack
<1>5. /\ r.pc = "target" => \A n \in r.node : vni'[n] # 0
      /\ r.pc \in {"subnet", "bind"} => \A n \in r.node : Numbered(n)'
  BY <1>2, SameNodeStays DEF OnTrack, SameNode
<1>. QED
  BY <1>1, <1>3, <1>4, <1>5 DEF OnTrack, Alone, SameTree, Configuring

LEMMA AloneStaysGood ==
    ASSUME TypeOK, NEW u \in Tenants, Good(u), Alone(u), run'[u] = run[u],
           u \in stale => u \in stale', u \in broken => u \in broken',
           pending'[u] = 0 => pending[u] = 0
    PROVE  Good(u)'
<1>1. SUFFICES ASSUME u \notin stale'
               PROVE  IF run[u].pc = "idle" THEN u \notin broken' /\ pending'[u] = 0 => Built(u)'
                                            ELSE OnTrack(u, run[u])'
  BY DEF Good, OnTrack, Configuring
<1>2. CASE run[u].pc # "idle"
  BY <1>1, <1>2, AloneStaysOnTrack DEF Good
<1>3. CASE run[u].pc = "idle"
  <2>1. SUFFICES ASSUME Built(u) PROVE Built(u)'
    BY <1>1, <1>3 DEF Good
  <2>2. NodesOf(u)' = NodesOf(u)
    BY DEF NodesOf, VrfsOf, Alone, SameTree
  <2>3. \A n \in NodesOf(u) : Configured(n)'
    BY <2>1, SameNodeStays DEF Built, Alone
  <2>4. \A l \in leafs : Placed(u, l)'
    BY <2>1, SamePlaceStays DEF Built, Alone
  <2>. QED
    BY <2>2, <2>3, <2>4 DEF Built, Alone, SameTree
<1>. QED
  BY <1>2, <1>3

LEMMA NodesAreOwn ==
    ASSUME TypeOK
    PROVE  \A u \in Tenants : \A n \in NodesOf(u) : n \in Nodes /\ Owner(n) = u
BY TenancyIsTree DEF TypeOK, NodesOf, VrfsOf, SegmentsOf, Owner, Nodes

LEMMA UntouchedIsAlone ==
    ASSUME UNCHANGED <<design, leafs, vni, target, bound, carries>>
    PROVE  \A u : Alone(u)
BY DEF design, Alone, SameTree, SameNode, SameEdges, SegmentsOf

\* The steps of a run of t leave every other tenant alone.
LEMMA RunStepIsAlone ==
    ASSUME Inv, NEW t \in Tenants, RunStep(t), NEW u \in Tenants, u # t
    PROVE  Alone(u)
<1>. USE DEF Inv
<1>1. ASSUME NEW n \in run[t].todo, Number(t, n) PROVE Alone(u)
  <2>1. n \notin NodesOf(u) /\ UNCHANGED <<design, leafs, target, bound, carries>>
    BY <1>1, NodesAreOwn DEF RunsOwn, Number, GiveUp, Stop, fabric, overlay
  <2>2. \A m \in NodesOf(u) : vni'[m] = vni[m]
    BY <1>1, <2>1, NodesAreOwn DEF Number, GiveUp, Stop, overlay, TypeOK
  <2>. QED
    BY <2>1, <2>2 DEF design, Alone, SameTree, SameNode, SameEdges, SegmentsOf
<1>2. ASSUME SetTarget(t) PROVE Alone(u)
  <2>1. UNCHANGED <<design, leafs, vni, bound, carries>>
    BY <1>2 DEF SetTarget, GiveUp, Stop, fabric, overlay
  <2>2. run[t].node \cap NodesOf(u) = {}
    BY NodesAreOwn DEF RunsOwn
  <2>3. \A m \in NodesOf(u) : target'[m] = target[m]
    BY <1>2, <2>2, NodesAreOwn DEF SetTarget, GiveUp, Stop, overlay, TypeOK
  <2>. QED
    BY <2>1, <2>3 DEF design, Alone, SameTree, SameNode, SameEdges, SegmentsOf
<1>3. ASSUME BindSubnet(t) PROVE Alone(u)
  <2>1. UNCHANGED <<design, leafs, vni, target, carries>>
    BY <1>3 DEF BindSubnet, GiveUp, Stop, fabric, overlay
  <2>2. run[t].node \cap NodesOf(u) = {}
    BY NodesAreOwn DEF RunsOwn
  <2>3. \A m \in NodesOf(u) : m \in bound' <=> m \in bound
    BY <1>3, <2>2 DEF BindSubnet, GiveUp, Stop, overlay
  <2>. QED
    BY <2>1, <2>3 DEF design, Alone, SameTree, SameNode, SameEdges, SegmentsOf
<1>4. ASSUME NEW l \in run[t].left, Reconcile(t, l) PROVE Alone(u)
  <2>1. UNCHANGED <<design, leafs, vni, target, bound>>
    BY <1>4 DEF Reconcile, GiveUp, Stop, fabric, overlay
  <2>2. run[t].segments \cap SegmentsOf(u) = {}
    BY NodesAreOwn DEF RunsOwn, NodesOf
  <2>3. (Wanted(t, l) \cup Unwanted(t, l)) \cap SegmentsOf(u) = {}
    BY <2>2 DEF Wanted, Unwanted
  <2>4. SameEdges(u)
    BY <1>4, <2>3 DEF Reconcile, GiveUp, Stop, overlay, SameEdges
  <2>. QED
    BY <2>1, <2>4 DEF design, Alone, SameTree, SameNode, SegmentsOf
<1>5. ASSUME \/ Start(t) \/ ResolveOverlayAsn(t) \/ ListLeafs(t)
             \/ AllocateSubnet(t) \/ Stamp(t)
      PROVE  UNCHANGED <<design, leafs, vni, target, bound, carries>>
  BY <1>5 DEF Start, ResolveOverlayAsn, ListLeafs, AllocateSubnet, Stamp, GiveUp, Stop,
              fabric, overlay
<1>. QED
  BY <1>1, <1>2, <1>3, <1>4, <1>5, UntouchedIsAlone DEF RunStep

\* Nor do they end a run of another tenant or dispatch or forget one.
LEMMA RunStepIsApart ==
    ASSUME Inv, NEW t \in Tenants, RunStep(t), NEW u \in Tenants, u # t
    PROVE  /\ run'[u] = run[u] /\ pending'[u] = pending[u]
           /\ u \in stale <=> u \in stale'
           /\ u \in broken <=> u \in broken'
<1>. USE DEF Inv, TypeOK
<1>1. ASSUME Start(t) \/ Stamp(t) PROVE /\ run'[u] = run[u] /\ pending'[u] = pending[u]
                                        /\ u \in stale <=> u \in stale'
                                        /\ u \in broken <=> u \in broken'
  BY <1>1 DEF Start, Stamp, history
<1>2. ASSUME \/ ResolveOverlayAsn(t) \/ ListLeafs(t) \/ SetTarget(t)
             \/ AllocateSubnet(t) \/ BindSubnet(t)
      PROVE  /\ run'[u] = run[u] /\ UNCHANGED <<pending, stale>>
             /\ u \in broken <=> u \in broken'
  BY <1>2 DEF ResolveOverlayAsn, ListLeafs, SetTarget, AllocateSubnet, BindSubnet,
              GiveUp, Stop, Goto, history
<1>3. ASSUME \/ \E n \in run[t].todo : Number(t, n)
             \/ \E l \in run[t].left : Reconcile(t, l)
      PROVE  /\ run'[u] = run[u] /\ UNCHANGED <<pending, stale>>
             /\ u \in broken <=> u \in broken'
  BY <1>3 DEF Number, Reconcile, GiveUp, Stop, history
<1>. QED
  BY <1>1, <1>2, <1>3 DEF RunStep

LEMMA RunStepSparesOthers ==
    ASSUME Inv, NEW t \in Tenants, RunStep(t), NEW u \in Tenants, u # t, Good(u)
    PROVE  Good(u)'
BY RunStepIsAlone, RunStepIsApart, AloneStaysGood DEF Inv

-----------------------------------------------------------------------------
(* What a run does for its own tenant                                       *)

LEMMA StopIsGood == ASSUME Inv, NEW t \in Tenants, Stop(t) PROVE Good(t)'
BY IdleOwns DEF Inv, TypeOK, Stop, Good

LEMMA GiveUpIsGood == ASSUME Inv, NEW t \in Tenants, GiveUp(t) PROVE Good(t)'
BY StopIsGood DEF GiveUp

LEMMA StartIsGood == ASSUME Inv, NEW t \in Tenants, Start(t) PROVE Good(t)'
<1>. DEFINE started == [Idle EXCEPT !.pc = "asn", !.intent = racks,
                                    !.segments = SegmentsOf(t),
                                    !.todo = VrfsOf(t) \cup SegmentsOf(t)]
<1>1. /\ started.pc = "asn" /\ started.intent = racks /\ started.segments = SegmentsOf(t)
      /\ started.todo = NodesOf(t) /\ started.node = {}
  BY DEF Idle, NodesOf
<1>2. run' = [run EXCEPT ![t] = started]
  BY DEF Start
<1>3. Alone(t)
  BY UntouchedIsAlone DEF Start, fabric, overlay
<1>. HIDE DEF started
<1>4. PICK r : r = started
  OBVIOUS
<1>5. OnTrack(t, r)
  BY <1>1, <1>4 DEF OnTrack, Configuring
<1>6. OnTrack(t, r)'
  BY <1>3, <1>5, AloneStaysOnTrack DEF Inv
<1>7. run'[t] = r /\ r.pc # "idle"
  BY <1>1, <1>2, <1>4 DEF Inv, TypeOK
<1>. QED
  BY <1>6, <1>7 DEF Good

\* A run that is on track and goes to state r.
LEMMA MoveIsGood ==
    ASSUME Inv, NEW t \in Tenants, NEW r, run' = [run EXCEPT ![t] = r], r.pc # "idle",
           UNCHANGED stale, Good(t), run[t].pc # "idle", OnTrack(t, run[t]) => OnTrack(t, r)'
    PROVE  Good(t)'
<1>1. run'[t] = r
  BY DEF Inv, TypeOK
<1>. QED
  BY <1>1 DEF Good

\* The same when the step changes nothing but the run.
LEMMA PureMoveIsGood ==
    ASSUME Inv, NEW t \in Tenants, NEW r, run' = [run EXCEPT ![t] = r], r.pc # "idle",
           UNCHANGED <<design, leafs, vni, target, bound, carries, stale>>,
           Good(t), run[t].pc # "idle", OnTrack(t, run[t]) => OnTrack(t, r)
    PROVE  Good(t)'
<1>1. Alone(t)
  BY UntouchedIsAlone
<1>2. OnTrack(t, run[t]) => OnTrack(t, r)'
  BY <1>1, AloneStaysOnTrack DEF Inv
<1>. QED
  BY <1>2, MoveIsGood

LEMMA ResolveIsGood ==
    ASSUME Inv, NEW t \in Tenants, ResolveOverlayAsn(t), Good(t) PROVE Good(t)'
<1>1. CASE ~overlayReady
  BY <1>1, GiveUpIsGood DEF ResolveOverlayAsn
<1>2. CASE overlayReady
  <2>1. PICK r : r = [run[t] EXCEPT !.pc = "leafs"]
    OBVIOUS
  <2>2. /\ run' = [run EXCEPT ![t] = r]
        /\ UNCHANGED <<design, fabric, overlay, history>> /\ run[t].pc = "asn"
    BY <1>2, <2>1 DEF ResolveOverlayAsn, Goto
  <2>3. /\ r.pc = "leafs" /\ r.todo = run[t].todo /\ r.node = run[t].node
        /\ r.segments = run[t].segments /\ r.intent = run[t].intent
    BY <2>1 DEF Inv, TypeOK, RunState
  <2>4. OnTrack(t, run[t]) => OnTrack(t, r)
    BY <2>2, <2>3 DEF OnTrack, Configuring
  <2>. QED
    BY <2>2, <2>3, <2>4, PureMoveIsGood DEF fabric, overlay, history
<1>. QED
  BY <1>1, <1>2

LEMMA ListIsGood == ASSUME Inv, NEW t \in Tenants, ListLeafs(t), Good(t) PROVE Good(t)'
<1>1. PICK r : r = [run[t] EXCEPT !.pc = "number", !.left = leafs]
  OBVIOUS
<1>2. /\ run' = [run EXCEPT ![t] = r]
      /\ UNCHANGED <<design, fabric, overlay, history>> /\ run[t].pc = "leafs"
  BY <1>1 DEF ListLeafs
<1>3. /\ r.pc = "number" /\ r.todo = run[t].todo /\ r.node = run[t].node
      /\ r.segments = run[t].segments /\ r.intent = run[t].intent /\ r.left = leafs
  BY <1>1 DEF Inv, TypeOK, RunState
<1>4. OnTrack(t, run[t]) => OnTrack(t, r)
  BY <1>2, <1>3 DEF OnTrack, Configuring
<1>. QED
  BY <1>2, <1>3, <1>4, PureMoveIsGood DEF fabric, overlay, history

\* The part of OnTrack that configuring a node does not touch.
LEMMA ConfiguringKeepsRest ==
    ASSUME TypeOK, NEW t, NEW q, NEW r, OnTrack(t, q), q.pc \notin {"asn", "leafs"},
           UNCHANGED <<design, leafs, carries>>,
           r.segments = q.segments, r.intent = q.intent, r.left = q.left
    PROVE  /\ r.segments = SegmentsOf(t)' /\ \A s \in SegmentsOf(t)' : r.intent[s] = racks'[s]
           /\ \A l \in leafs' \ r.left : Placed(t, l)'
           /\ NodesOf(t)' = NodesOf(t)
<1>1. SameTree(t) /\ SameEdges(t)
  BY DEF design, SameTree, SameEdges, SegmentsOf
<1>2. \A l \in leafs \ r.left : Placed(t, l)'
  BY <1>1, SamePlaceStays DEF OnTrack
<1>. QED
  BY <1>1, <1>2 DEF OnTrack, SameTree, NodesOf, VrfsOf

LEMMA NumberIsGood ==
    ASSUME Inv, NEW t \in Tenants, NEW n \in run[t].todo, Number(t, n), Good(t)
    PROVE  Good(t)'
<1>1. CASE Gone(n)
  BY <1>1, GiveUpIsGood DEF Number
<1>2. CASE ~Gone(n)
  <2>1. PICK r : r = [run[t] EXCEPT !.pc = "target", !.node = {n}, !.todo = @ \ {n}]
    OBVIOUS
  <2>2. /\ run' = [run EXCEPT ![t] = r]
        /\ UNCHANGED <<design, leafs, target, bound, carries, stale>> /\ run[t].pc = "number"
    BY <1>2, <2>1 DEF Number, fabric, history
  <2>3. /\ r.pc = "target" /\ r.todo = run[t].todo \ {n} /\ r.node = {n}
        /\ r.segments = run[t].segments /\ r.intent = run[t].intent /\ r.left = run[t].left
    BY <2>1 DEF Inv, TypeOK, RunState
  <2>4. n \in Nodes /\ vni'[n] # 0 /\ \A m : m # n => vni'[m] = vni[m]
    BY <1>2, PoolIsKnown, SMTT(30) DEF Number, MustAllocate, Inv, TypeOK, RunState
  <2>5. ASSUME OnTrack(t, run[t]) PROVE OnTrack(t, r)'
    <3>1. /\ r.segments = SegmentsOf(t)' /\ \A s \in SegmentsOf(t)' : r.intent[s] = racks'[s]
          /\ \A l \in leafs' \ r.left : Placed(t, l)'
          /\ NodesOf(t)' = NodesOf(t)
      BY <2>2, <2>3, <2>5, ConfiguringKeepsRest, ZenonT(40) DEF Inv
    <3>2. r.todo \cup r.node \subseteq NodesOf(t)
      BY <2>3, <2>5 DEF OnTrack
    <3>3. ASSUME NEW m \in NodesOf(t) \ (r.todo \cup {n}) PROVE Configured(m)'
      <4>1. Configured(m) /\ m # n
        BY <2>2, <2>3, <2>5 DEF OnTrack, Configuring
      <4>. QED
        BY <2>2, <2>4, <4>1, SameNodeStays DEF SameNode
    <3>. QED
      BY <2>3, <2>4, <3>1, <3>2, <3>3 DEF OnTrack, Configuring
  <2>. QED
    BY <2>2, <2>3, <2>5, MoveIsGood
<1>. QED
  BY <1>1, <1>2

LEMMA SetTargetIsGood ==
    ASSUME Inv, NEW t \in Tenants, SetTarget(t), Good(t) PROVE Good(t)'
<1>1. PICK n \in run[t].node :
        IF Gone(n)
          THEN GiveUp(t)
          ELSE /\ target' = [target EXCEPT ![n] = vni[n]]
               /\ Goto(t, AfterTarget(t, n))
               /\ UNCHANGED <<vni, subnets, bound, carries, checksum, vnisUsed>>
               /\ UNCHANGED <<design, fabric, pending, broken, history>>
  BY DEF SetTarget
<1>2. CASE Gone(n)
  BY <1>1, <1>2, GiveUpIsGood
<1>3. CASE ~Gone(n)
  <2>1. PICK r : r = [run[t] EXCEPT !.pc = AfterTarget(t, n)]
    OBVIOUS
  <2>2. /\ run' = [run EXCEPT ![t] = r] /\ target' = [target EXCEPT ![n] = vni[n]]
        /\ UNCHANGED <<design, leafs, vni, bound, carries, stale>> /\ run[t].pc = "target"
    BY <1>1, <1>3, <2>1 DEF SetTarget, Goto, fabric, history
  <2>3. /\ r.pc = AfterTarget(t, n) /\ r.todo = run[t].todo /\ r.node = run[t].node
        /\ r.segments = run[t].segments /\ r.intent = run[t].intent /\ r.left = run[t].left
    BY <2>1 DEF Inv, TypeOK, RunState
  <2>4. /\ n \in Nodes /\ target'[n] = vni[n] /\ \A m : m # n => target'[m] = target[m]
        /\ run[t].node = {n}
    BY <2>2 DEF Inv, TypeOK, OneNode, RunState
  <2>5. /\ n \in Routed \ bound => r.pc = "subnet"
        /\ n \notin Routed \ bound => r.pc = IF run[t].todo = {} THEN "place" ELSE "number"
    BY <2>3 DEF AfterTarget, NextNode
  <2>6. ASSUME OnTrack(t, run[t]) PROVE OnTrack(t, r)'
    <3>1. /\ r.segments = SegmentsOf(t)' /\ \A s \in SegmentsOf(t)' : r.intent[s] = racks'[s]
          /\ \A l \in leafs' \ r.left : Placed(t, l)'
          /\ NodesOf(t)' = NodesOf(t)
      <4>1. UNCHANGED <<design, leafs, carries>> /\ run[t].pc \notin {"asn", "leafs"} /\ TypeOK
        BY <2>2 DEF Inv
      <4>. QED
        BY <2>3, <2>6, <4>1, ConfiguringKeepsRest
    <3>2. r.todo \cup r.node \subseteq NodesOf(t)
      BY <2>3, <2>6 DEF OnTrack
    <3>3. Numbered(n)'
      BY <2>2, <2>4, <2>6 DEF OnTrack, Numbered
    <3>4. ASSUME NEW m \in NodesOf(t) \ (r.todo \cup {n}) PROVE Configured(m)'
      <4>1. Configured(m) /\ m # n
        BY <2>2, <2>3, <2>4, <2>6 DEF OnTrack, Configuring
      <4>. QED
        BY <2>2, <2>4, <4>1, SameNodeStays DEF SameNode
    <3>5. n \notin Routed \ bound => Configured(n)'
      BY <2>2, <3>3 DEF Configured
    <3>6. CASE n \in Routed \ bound
      BY <2>3, <2>4, <2>5, <3>1, <3>2, <3>3, <3>4, <3>6 DEF OnTrack, Configuring
    <3>7. CASE n \notin Routed \ bound
      <4>1. \A m \in NodesOf(t) \ r.todo : Configured(m)'
        BY <3>4, <3>5, <3>7
      <4>. QED
        BY <2>3, <2>5, <3>1, <3>2, <3>7, <4>1 DEF OnTrack, Configuring
    <3>. QED
      BY <3>6, <3>7
  <2>7. r.pc # "idle"
    BY <2>5
  <2>. QED
    BY <2>2, <2>6, <2>7, MoveIsGood
<1>. QED
  BY <1>2, <1>3

LEMMA AllocateSubnetIsGood ==
    ASSUME Inv, NEW t \in Tenants, AllocateSubnet(t), Good(t) PROVE Good(t)'
<1>1. PICK r : r = [run[t] EXCEPT !.pc = "bind"]
  OBVIOUS
<1>2. /\ run' = [run EXCEPT ![t] = r] /\ run[t].pc = "subnet"
      /\ UNCHANGED <<design, leafs, vni, target, bound, carries, stale>>
  BY <1>1 DEF AllocateSubnet, Goto, fabric, history
<1>3. /\ r.pc = "bind" /\ r.todo = run[t].todo /\ r.node = run[t].node
      /\ r.segments = run[t].segments /\ r.intent = run[t].intent /\ r.left = run[t].left
  BY <1>1 DEF Inv, TypeOK, RunState
<1>4. OnTrack(t, run[t]) => OnTrack(t, r)
  BY <1>2, <1>3 DEF OnTrack, Configuring
<1>. QED
  BY <1>2, <1>3, <1>4, PureMoveIsGood

LEMMA BindIsGood == ASSUME Inv, NEW t \in Tenants, BindSubnet(t), Good(t) PROVE Good(t)'
<1>1. CASE \E n \in run[t].node : Gone(n)
  BY <1>1, GiveUpIsGood DEF BindSubnet
<1>2. CASE ~ \E n \in run[t].node : Gone(n)
  <2>1. PICK r : r = [run[t] EXCEPT !.pc = NextNode(t)]
    OBVIOUS
  <2>2. /\ run' = [run EXCEPT ![t] = r] /\ bound' = bound \cup run[t].node
        /\ UNCHANGED <<design, leafs, vni, target, carries, stale>> /\ run[t].pc = "bind"
    BY <1>2, <2>1 DEF BindSubnet, Goto, fabric, history
  <2>3. /\ r.pc = NextNode(t) /\ r.todo = run[t].todo /\ r.node = run[t].node
        /\ r.segments = run[t].segments /\ r.intent = run[t].intent /\ r.left = run[t].left
    BY <2>1 DEF Inv, TypeOK, RunState
  <2>4. r.pc = IF run[t].todo = {} THEN "place" ELSE "number"
    BY <2>3 DEF NextNode
  <2>5. ASSUME OnTrack(t, run[t]) PROVE OnTrack(t, r)'
    <3>1. /\ r.segments = SegmentsOf(t)' /\ \A s \in SegmentsOf(t)' : r.intent[s] = racks'[s]
          /\ \A l \in leafs' \ r.left : Placed(t, l)'
          /\ NodesOf(t)' = NodesOf(t)
      <4>1. UNCHANGED <<design, leafs, carries>> /\ run[t].pc \notin {"asn", "leafs"} /\ TypeOK
        BY <2>2 DEF Inv
      <4>. QED
        BY <2>3, <2>5, <4>1, ConfiguringKeepsRest
    <3>2. r.todo \cup r.node \subseteq NodesOf(t)
      BY <2>3, <2>5 DEF OnTrack
    <3>3. \A m \in run[t].node : Configured(m)'
      BY <2>2, <2>5 DEF OnTrack, Configured, Numbered
    <3>4. \A m \in NodesOf(t) \ (r.todo \cup run[t].node) : Configured(m)'
      BY <2>2, <2>3, <2>5 DEF OnTrack, Configuring, Configured, Numbered
    <3>5. \A m \in NodesOf(t) \ r.todo : Configured(m)'
      BY <3>3, <3>4
    <3>. QED
      BY <2>4, <2>3, <3>1, <3>2, <3>5 DEF OnTrack, Configuring
  <2>6. r.pc # "idle"
    BY <2>4
  <2>. QED
    BY <2>2, <2>5, <2>6, MoveIsGood
<1>. QED
  BY <1>1, <1>2

LEMMA ReconcileIsGood ==
    ASSUME Inv, NEW t \in Tenants, NEW l \in run[t].left, Reconcile(t, l), Good(t)
    PROVE  Good(t)'
<1>1. CASE \E s \in Wanted(t, l) : Gone(s)
  BY <1>1, GiveUpIsGood DEF Reconcile
<1>2. CASE ~ \E s \in Wanted(t, l) : Gone(s)
  <2>1. PICK r : r = [run[t] EXCEPT !.left = @ \ {l}]
    OBVIOUS
  <2>2. /\ run' = [run EXCEPT ![t] = r] /\ run[t].pc = "place"
        /\ UNCHANGED <<design, leafs, vni, target, bound, stale>>
        /\ carries' = (carries \cup ({l} \X Wanted(t, l))) \ ({l} \X Unwanted(t, l))
    BY <1>2, <2>1 DEF Reconcile, fabric, history
  <2>3. /\ r.pc = "place" /\ r.todo = run[t].todo /\ r.node = run[t].node
        /\ r.segments = run[t].segments /\ r.intent = run[t].intent /\ r.left = run[t].left \ {l}
    BY <2>1, <2>2 DEF Inv, TypeOK, RunState
  <2>4. SegmentsOf(t)' = SegmentsOf(t) /\ NodesOf(t)' = NodesOf(t) /\ racks' = racks
    BY <2>2 DEF design, SegmentsOf, NodesOf, VrfsOf
  <2>5. ASSUME OnTrack(t, run[t]) PROVE OnTrack(t, r)'
    <3>1. \A n \in NodesOf(t) \ (r.todo \cup Configuring(r)) : Configured(n)'
      BY <2>2, <2>3, <2>5 DEF OnTrack, Configuring, Configured, Numbered
    <3>2. ASSUME NEW s \in SegmentsOf(t)
          PROVE  <<l, s>> \in carries' <=> PlacedOn(racks[s], l)
      <4>1. /\ s \in run[t].segments /\ s \in Segments
            /\ s \in Wanted(t, l) <=> PlacedOn(racks[s], l)
        BY <2>5 DEF OnTrack, Wanted, SegmentsOf, Inv, TypeOK
      <4>2. <<l, s>> \in carries /\ s \notin Wanted(t, l) => s \in Unwanted(t, l)
        BY <4>1 DEF Unwanted, On
      <4>3. s \in Wanted(t, l) => s \notin Unwanted(t, l)
        BY DEF Unwanted
      <4>. QED
        BY <2>2, <4>1, <4>2, <4>3
    <3>3. Placed(t, l)'
      BY <2>4, <3>2 DEF Placed, PlacedOn
    <3>4. ASSUME NEW m \in leafs \ run[t].left PROVE Placed(t, m)'
      <4>1. Placed(t, m) /\ m # l
        BY <2>2, <2>5 DEF OnTrack
      <4>2. \A s \in SegmentsOf(t) : <<m, s>> \in carries' <=> <<m, s>> \in carries
        BY <2>2, <4>1
      <4>. QED
        BY <2>4, <4>1, <4>2 DEF Placed, PlacedOn
    <3>5. \A m \in leafs' \ r.left : Placed(t, m)'
      BY <2>2, <2>3, <3>3, <3>4
    <3>. QED
      BY <2>2, <2>3, <2>4, <2>5, <3>1, <3>5 DEF OnTrack, Configuring
  <2>. QED
    BY <2>2, <2>3, <2>5, MoveIsGood
<1>. QED
  BY <1>1, <1>2

LEMMA StampIsGood == ASSUME Inv, NEW t \in Tenants, Stamp(t), Good(t) PROVE Good(t)'
<1>1. /\ run[t].pc = "place" /\ run[t].left = {} /\ run'[t].pc = "idle"
      /\ UNCHANGED <<design, leafs, vni, target, bound, carries, stale>>
  BY IdleOwns DEF Stamp, fabric, history, Inv, TypeOK
<1>2. SUFFICES ASSUME t \notin stale PROVE Built(t)'
  BY <1>1 DEF Good
<1>3. OnTrack(t, run[t])
  BY <1>1, <1>2 DEF Good
<1>4. Built(t)
  BY <1>1, <1>3 DEF OnTrack, Configuring, Built
<1>5. Alone(t)
  BY <1>1, UntouchedIsAlone
<1>6. NodesOf(t)' = NodesOf(t) /\ leafs' = leafs
  BY <1>5 DEF NodesOf, VrfsOf, Alone, SameTree
<1>7. \A n \in NodesOf(t) : Configured(n)'
  BY <1>4, <1>5, SameNodeStays DEF Built, Alone
<1>8. \A l \in leafs : Placed(t, l)'
  BY <1>4, <1>5, SamePlaceStays DEF Built, Alone, Inv
<1>. QED
  BY <1>6, <1>7, <1>8 DEF Built

-----------------------------------------------------------------------------
(* The invariant                                                            *)

LEMMA RunStepIsGood ==
    ASSUME Inv, NEW t \in Tenants, RunStep(t), Good(t) PROVE Good(t)'
BY StartIsGood, ResolveIsGood, ListIsGood, NumberIsGood, SetTargetIsGood,
   AllocateSubnetIsGood, BindIsGood, ReconcileIsGood, StampIsGood DEF RunStep

\* An edit of segment s makes its tenant stale and spares the others.
LEMMA ChangeSpares ==
    ASSUME Inv, NEW s \in Segments, Change(s), NEW u \in Tenants, Good(u),
           present' \ {s} = present \ {s},
           \A m \in Segments : m # s => racks'[m] = racks[m],
           \A e \in Leafs \X Segments : e[2] # s => (e \in carries' <=> e \in carries)
    PROVE  Good(u)'
<1>1. CASE u = Owner(s)
  BY <1>1 DEF Change, Good
<1>2. CASE u # Owner(s)
  <2>1. SegmentsOf(u) \subseteq Segments \ {s} /\ SegmentsOf(u)' = SegmentsOf(u)
    BY <1>2 DEF SegmentsOf, Inv, TypeOK
  <2>2. UNCHANGED <<leafs, vni, target, bound, pending, run, broken>>
    BY DEF Change, fabric
  <2>3. Alone(u)
    BY <2>1, <2>2 DEF Alone, SameTree, SameNode, SameEdges
  <2>4. u \in stale => u \in stale'
    BY DEF Change
  <2>. QED
    BY <2>2, <2>3, <2>4, AloneStaysGood DEF Inv
<1>. QED
  BY <1>1, <1>2

LEMMA OutsideSpares ==
    ASSUME Inv, Outside, NEW u \in Tenants, Good(u) PROVE Good(u)'
<1>. USE DEF Inv, TypeOK
<1>1. ASSUME NEW s \in Segments, AddSegment(s) PROVE Good(u)'
  BY <1>1, ChangeSpares DEF AddSegment
<1>2. ASSUME NEW s \in Segments, RemoveSegment(s) PROVE Good(u)'
  BY <1>2, ChangeSpares DEF RemoveSegment
<1>3. ASSUME NEW s \in Segments, NEW R \in SUBSET Racks, PlaceSegment(s, R) PROVE Good(u)'
  BY <1>3, ChangeSpares DEF PlaceSegment
<1>4. ASSUME NEW s \in Segments, NEW r \in Racks, AttachServer(s, r) PROVE Good(u)'
  BY <1>4, ChangeSpares DEF AttachServer
<1>5. ASSUME NEW l \in Leafs, BuildLeaf(l) PROVE Good(u)'
  BY <1>5 DEF BuildLeaf, Good
<1>. QED
  BY <1>1, <1>2, <1>3, <1>4, <1>5 DEF Outside

\* The other steps change nothing of what the tenants consist of.
LEMMA QuietStepSpares ==
    ASSUME Inv, UNCHANGED <<design, leafs, vni, target, bound, carries, run, stale, broken>>,
           NEW u \in Tenants, Good(u), pending'[u] = 0 => pending[u] = 0
    PROVE  Good(u)'
BY UntouchedIsAlone, AloneStaysGood DEF Inv

LEMMA DieSpares ==
    ASSUME Inv, NEW t \in Tenants, Die(t), NEW u \in Tenants, Good(u) PROVE Good(u)'
<1>1. CASE u = t
  BY <1>1, StopIsGood DEF Die
<1>2. CASE u # t
  <2>1. Alone(u)
    BY UntouchedIsAlone DEF Die, Stop, fabric, overlay
  <2>2. /\ run'[u] = run[u] /\ UNCHANGED <<pending, stale>>
        /\ u \in broken => u \in broken'
    BY <1>2 DEF Die, Stop, Inv, TypeOK
  <2>. QED
    BY <2>1, <2>2, AloneStaysGood DEF Inv
<1>. QED
  BY <1>1, <1>2

LEMMA ProgressAtFirst == Init => Progress
BY DEF Init, Progress, Good, Idle

LEMMA ProgressPreserved == Inv /\ Progress /\ [Next]_vars => Progress'
<1>. SUFFICES ASSUME Inv, Progress, [Next]_vars, NEW u \in Tenants PROVE Good(u)'
  BY DEF Progress
<1>1. Good(u)
  BY DEF Progress
<1>2. ASSUME NEW t \in Tenants, RunStep(t) PROVE Good(u)'
  BY <1>1, <1>2, RunStepIsGood, RunStepSparesOthers
<1>3. ASSUME NEW t \in Tenants, Die(t) PROVE Good(u)'
  BY <1>1, <1>3, DieSpares
<1>4. ASSUME NEW t \in Tenants, RunAgain(t) PROVE Good(u)'
  <2>1. /\ UNCHANGED <<design, leafs, vni, target, bound, carries, run, stale, broken>>
        /\ pending'[u] = 0 => pending[u] = 0
    BY <1>4 DEF RunAgain, fabric, overlay, history, Inv, TypeOK
  <2>. QED
    BY <1>1, <2>1, QuietStepSpares
<1>5. CASE FabricReady \/ UNCHANGED vars
  <2>1. UNCHANGED <<design, leafs, vni, target, bound, carries, run, stale, broken, pending>>
    BY <1>5 DEF FabricReady, vars, design, overlay, history
  <2>. QED
    BY <1>1, <2>1, QuietStepSpares
<1>6. CASE Outside
  BY <1>1, <1>6, OutsideSpares
<1>. QED
  BY <1>2, <1>3, <1>4, <1>5, <1>6 DEF Next

LEMMA GoodIsMaterialized == TypeOK /\ Progress => SettledMeansMaterialized
<1>. SUFFICES ASSUME TypeOK, Progress, NEW t \in Tenants, Settled(t) PROVE Materialized(t)
  BY DEF SettledMeansMaterialized
<1>1. Built(t)
  BY DEF Progress, Good, Settled
<1>2. \A n \in VrfsOf(t) \cup SegmentsOf(t) : vni[n] # 0 /\ target[n] = vni[n]
  BY <1>1 DEF Built, Configured, Numbered, NodesOf
<1>3. SegmentsOf(t) \cap Routed \subseteq bound
  BY <1>1 DEF Built, Configured, NodesOf
<1>. QED
  BY <1>1, <1>2, <1>3 DEF Materialized, Built, Placed

(* When a tenant has settled, every node of it is numbered, every routed      *)
(* segment bound to its subnet and every leaf carries exactly the segments    *)
(* placed on it, however runs of any number of tenants interleave with edits, *)
(* servers, new leafs and deaths (OverlayGenerator.generate).                 *)
THEOREM SettledIsMaterialized == Spec => []SettledMeansMaterialized
<1>1. Spec => []Progress
  BY ProgressAtFirst, ProgressPreserved, InvAlways, PTL DEF Spec
<1>2. Inv => TypeOK
  BY DEF Inv
<1>. QED
  BY <1>1, <1>2, InvAlways, GoodIsMaterialized, PTL
=============================================================================
