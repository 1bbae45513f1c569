---------------------------- MODULE TenantOverlay ----------------------------
(***************************************************************************)
(* OverlayGenerator: the tenants of one fabric, their VRFs and segments,   *)
(* and the leafs that carry the segments.  A run reads the tenant's tree   *)
(* once, allocates identifiers node by node and then reconciles leaf by    *)
(* leaf.  Runs of different tenants, operator edits of the tree, the       *)
(* ServerGenerator (which widens a segment's racks) and the RackGenerator  *)
(* (which adds leafs) interleave with it.                                  *)
(***************************************************************************)
EXTENDS Naturals, FiniteSets

CONSTANTS
    Tenants, Vrfs, Segments,
    TenantOf,        \* VRF -> its tenant
    VrfOf,           \* segment -> its VRF
    Routed,          \* the segments with an anycast gateway
    Racks, Leafs,
    RackOf,          \* leaf -> its rack
    Unstamped,       \* a checksum that was never stamped
    InitialSegments, \* the segments the loaded design has
    InitialLeafs,    \* the leafs built when the tenants are loaded
    MaxChanges,      \* bound: operator edits and server attachments
    MaxFailures      \* bound: runs that die half-way

ASSUME TenancyIsTree ==
    /\ TenantOf \in [Vrfs -> Tenants]
    /\ VrfOf \in [Segments -> Vrfs]
    /\ Vrfs \cap Segments = {}
    /\ RackOf \in [Leafs -> Racks]
    /\ InitialSegments \subseteq Segments /\ Routed \subseteq Segments
    /\ InitialLeafs \subseteq Leafs

ASSUME OverlayBounds == MaxChanges \in Nat /\ MaxFailures \in Nat

Nodes == Vrfs \cup Segments          \* what carries a VNI and a route target

VniPools  == {"L2VNI", "L3VNI"}
PoolOf(n) == IF n \in Vrfs THEN "L3VNI" ELSE "L2VNI"

Owner(n) == IF n \in Vrfs THEN TenantOf[n] ELSE TenantOf[VrfOf[n]]

VARIABLES
    present,      \* the segments there are
    racks,        \* segment -> its placement intent, all leafs when empty
    leafs,        \* the leafs there are
    vni,          \* VRF or segment -> its l3vni or l2vni (and VLAN), 0 when unset
    target,       \* VRF or segment -> the VNI in its route_target, 0 when unset
    subnets,      \* the segments a /24 and its gateway address are carved for
    bound,        \* the segments that reference their subnet and gateway
    carries,      \* <<leaf, segment>>: NetworkDevice.segments
    checksum,     \* tenant -> the segments its checksum covers
    vnisUsed,     \* pool -> the VNIs it has handed out
    overlayReady, \* the fabric has its overlay_asn
    pending,      \* tenant -> runs dispatched and not started
    run,          \* tenant -> the run in progress
    broken,       \* tenants whose last run died, raised or deferred
    stale,        \* tenants whose tree or fabric changed since a run read it
    changes,      \* edits and attachments so far
    failures      \* died runs so far

design  == <<present, racks>>
overlay == <<vni, target, subnets, bound, carries, checksum, vnisUsed>>
fabric  == <<leafs, overlayReady>>
history == <<stale, changes, failures>>
vars    == <<present, racks, leafs, vni, target, subnets, bound, carries, checksum,
             vnisUsed, overlayReady, pending, run, broken, stale, changes, failures>>

Idle == [pc |-> "idle", segments |-> {}, intent |-> [s \in Segments |-> {}],
         todo |-> {}, node |-> {}, left |-> {}]

RunState ==
    [pc: {"idle", "asn", "leafs", "number", "target", "subnet", "bind", "place"},
     segments: SUBSET Segments,             \* tenant_segment_ids, as queried
     intent: [Segments -> SUBSET Racks],    \* their racks, as queried
     todo: SUBSET Nodes,                    \* the nodes still to be configured
     node: SUBSET Nodes,                    \* the node being configured
     left: SUBSET Leafs]                    \* the listed leafs still to be reconciled

TypeOK ==
    /\ present \subseteq Segments
    /\ racks \in [Segments -> SUBSET Racks]
    /\ leafs \subseteq Leafs
    /\ vni \in [Nodes -> Nat]
    /\ target \in [Nodes -> Nat]
    /\ subnets \subseteq Segments
    /\ bound \subseteq Segments
    /\ carries \subseteq Leafs \X Segments
    /\ checksum \in [Tenants -> (SUBSET Segments) \cup {Unstamped}]
    /\ vnisUsed \in [VniPools -> Nat]
    /\ overlayReady \in BOOLEAN
    /\ pending \in [Tenants -> Nat]
    /\ run \in [Tenants -> RunState]
    /\ broken \subseteq Tenants
    /\ stale \subseteq Tenants
    /\ changes \in Nat /\ failures \in Nat

\* The design is loaded and generate-tenant was invoked once for each tenant,
\* possibly before the FabricGenerator came to the overlay_asn.
Init ==
    /\ present = InitialSegments
    /\ racks = [s \in Segments |-> {}]
    /\ leafs = InitialLeafs
    /\ vni = [n \in Nodes |-> 0]
    /\ target = [n \in Nodes |-> 0]
    /\ subnets = {} /\ bound = {} /\ carries = {}
    /\ checksum = [t \in Tenants |-> Unstamped]
    /\ vnisUsed = [p \in VniPools |-> 0]
    /\ overlayReady = FALSE
    /\ pending = [t \in Tenants |-> 1]
    /\ run = [t \in Tenants |-> Idle]
    /\ broken = {} /\ stale = {}
    /\ changes = 0 /\ failures = 0

-----------------------------------------------------------------------------
(* The run of tenant t                                                      *)

SegmentsOf(t) == {s \in present : Owner(s) = t}
VrfsOf(t)     == {v \in Vrfs : TenantOf[v] = t}

Goto(t, pc) == run' = [run EXCEPT ![t].pc = pc]

\* generate() raised or returned early: what was written stays.
Stop(t) ==
    /\ run' = [run EXCEPT ![t] = Idle]
    /\ broken' = broken \cup {t}
    /\ UNCHANGED <<design, fabric, overlay, pending>>

GiveUp(t) == Stop(t) /\ UNCHANGED history

\* Mutant of Start: a run nobody dispatched.
StartUnasked(t) ==
    /\ run[t].pc = "idle"
    /\ pending' = [pending EXCEPT ![t] = @ - 1]
    /\ run' = [run EXCEPT ![t] = [Idle EXCEPT !.pc = "asn"]]
    /\ stale' = stale \ {t}
    /\ UNCHANGED <<design, fabric, overlay, broken, changes, failures>>

\* The query is answered: segments and racks are read once.
Start(t) ==
    /\ run[t].pc = "idle"
    /\ pending[t] > 0
    /\ pending' = [pending EXCEPT ![t] = @ - 1]
    /\ run' = [run EXCEPT ![t] = [Idle EXCEPT !.pc = "asn", !.intent = racks,
                                              !.segments = SegmentsOf(t),
                                              !.todo = VrfsOf(t) \cup SegmentsOf(t)]]
    /\ stale' = stale \ {t}
    /\ UNCHANGED <<design, fabric, overlay, broken, changes, failures>>

\* resolve_overlay_asn reads the fabric again; without an ASN the run defers.
ResolveOverlayAsn(t) ==
    /\ run[t].pc = "asn"
    /\ IF overlayReady
         THEN /\ Goto(t, "leafs")
              /\ UNCHANGED <<design, fabric, overlay, pending, broken, history>>
         ELSE GiveUp(t)

ListLeafs(t) ==
    /\ run[t].pc = "leafs"
    /\ run' = [run EXCEPT ![t].pc = "number", ![t].left = leafs]
    /\ UNCHANGED <<design, fabric, overlay, pending, broken, history>>

Gone(n) == n \in Segments \ present

\* Mutant of MustAllocate: every run allocates anew.
AlwaysAllocate(n) == TRUE

MustAllocate(n) == vni[n] = 0

\* configure_vrf, configure_segment: fetch the node, allocate what is unset.
\* A VRF comes before its segments.
Number(t, n) ==
    /\ run[t].pc = "number"
    /\ n \in run[t].todo
    /\ n \in Segments => VrfOf[n] \notin run[t].todo
    /\ IF Gone(n)
         THEN GiveUp(t)
         ELSE /\ IF MustAllocate(n)
                   THEN /\ vnisUsed' = [vnisUsed EXCEPT ![PoolOf(n)] = @ + 1]
                        /\ vni' = [vni EXCEPT ![n] = vnisUsed'[PoolOf(n)]]
                   ELSE UNCHANGED <<vni, vnisUsed>>
              /\ run' = [run EXCEPT ![t].pc = "target", ![t].node = {n},
                                    ![t].todo = @ \ {n}]
              /\ UNCHANGED <<target, subnets, bound, carries, checksum>>
              /\ UNCHANGED <<design, fabric, pending, broken, history>>

\* Where the run goes once node n is configured.
NextNode(t) == IF run[t].todo = {} THEN "place" ELSE "number"

\* Mutant of AfterTarget: a prefix allocated earlier counts as bound.
AfterTargetIfUncarved(t, n) == IF n \in Routed \ subnets THEN "subnet" ELSE NextNode(t)

\* A routed segment that references no subnet gets one.
AfterTarget(t, n) == IF n \in Routed \ bound THEN "subnet" ELSE NextNode(t)

SetTarget(t) ==
    /\ run[t].pc = "target"
    /\ \E n \in run[t].node :
         IF Gone(n)
           THEN GiveUp(t)
           ELSE /\ target' = [target EXCEPT ![n] = vni[n]]
                /\ Goto(t, AfterTarget(t, n))
                /\ UNCHANGED <<vni, subnets, bound, carries, checksum, vnisUsed>>
                /\ UNCHANGED <<design, fabric, pending, broken, history>>

\* The segment's id identifies the allocation: a repeated one returns the same
\* prefix, and the gateway is upserted by its address.
AllocateSubnet(t) ==
    /\ run[t].pc = "subnet"
    /\ subnets' = subnets \cup run[t].node
    /\ Goto(t, "bind")
    /\ UNCHANGED <<vni, target, bound, carries, checksum, vnisUsed>>
    /\ UNCHANGED <<design, fabric, pending, broken, history>>

BindSubnet(t) ==
    /\ run[t].pc = "bind"
    /\ IF \E n \in run[t].node : Gone(n)
         THEN GiveUp(t)
         ELSE /\ bound' = bound \cup run[t].node
              /\ Goto(t, NextNode(t))
              /\ UNCHANGED <<vni, target, subnets, carries, checksum, vnisUsed>>
              /\ UNCHANGED <<design, fabric, pending, broken, history>>

\* resolve_segment_devices: no racks, every leaf.
PlacedOn(intent, l) == intent = {} \/ RackOf[l] \in intent

Wanted(t, l) == {s \in run[t].segments : PlacedOn(run[t].intent[s], l)}
On(l) == {s \in Segments : <<l, s>> \in carries}

\* Mutant of Unwanted: everything the leaf carries is compared.
UnwantedOfAll(t, l) == On(l) \ Wanted(t, l)

\* Only this tenant's edges are reasoned about.
Unwanted(t, l) == (On(l) \cap run[t].segments) \ Wanted(t, l)

\* materialize_segments on one leaf: the edges that miss are added and those
\* that are too many removed; an edge to a deleted segment cannot be added.
Reconcile(t, l) ==
    /\ run[t].pc = "place"
    /\ l \in run[t].left
    /\ IF \E s \in Wanted(t, l) : Gone(s)
         THEN GiveUp(t)
         ELSE /\ carries' = (carries \cup ({l} \X Wanted(t, l))) \ ({l} \X Unwanted(t, l))
              /\ run' = [run EXCEPT ![t].left = @ \ {l}]
              /\ UNCHANGED <<vni, target, subnets, bound, checksum, vnisUsed>>
              /\ UNCHANGED <<design, fabric, pending, broken, history>>

\* Mutant of Fires: the rule fires on every save of the tenant.
FiresAlways(t) == TRUE

\* The checksum changes only when the set of segments does.
Fires(t) == checksum[t] # run[t].segments

\* update_checksum stamps the tenant itself, whose rule dispatches it again.
Stamp(t) ==
    /\ run[t].pc = "place"
    /\ run[t].left = {}
    /\ checksum' = [checksum EXCEPT ![t] = run[t].segments]
    /\ pending' = IF Fires(t) THEN [pending EXCEPT ![t] = @ + 1] ELSE pending
    /\ run' = [run EXCEPT ![t] = Idle]
    /\ broken' = broken \ {t}
    /\ UNCHANGED <<vni, target, subnets, bound, carries, vnisUsed>>
    /\ UNCHANGED <<design, fabric, history>>

RunStep(t) ==
    \/ Start(t) \/ ResolveOverlayAsn(t) \/ ListLeafs(t)
    \/ \E n \in run[t].todo : Number(t, n)
    \/ SetTarget(t) \/ AllocateSubnet(t) \/ BindSubnet(t)
    \/ \E l \in run[t].left : Reconcile(t, l)
    \/ Stamp(t)

-----------------------------------------------------------------------------
(* Around the runs                                                          *)

Die(t) ==
    /\ run[t].pc # "idle"
    /\ failures < MaxFailures
    /\ failures' = failures + 1
    /\ Stop(t)
    /\ UNCHANGED <<stale, changes>>

\* What happens to segment s from outside; no rule watches it.
Change(s) ==
    /\ changes < MaxChanges
    /\ changes' = changes + 1
    /\ stale' = stale \cup {Owner(s)}
    /\ UNCHANGED <<fabric, vni, target, subnets, bound, checksum, vnisUsed>>
    /\ UNCHANGED <<pending, run, broken, failures>>

\* A segment is added under its VRF, placed everywhere; a removed one does not
\* come back.
AddSegment(s) ==
    /\ s \notin present \cup InitialSegments
    /\ vni[s] = 0
    /\ present' = present \cup {s}
    /\ UNCHANGED <<racks, carries>>
    /\ Change(s)

\* Its edges go with it.
RemoveSegment(s) ==
    /\ s \in present
    /\ present' = present \ {s}
    /\ carries' = {e \in carries : e[2] # s}
    /\ UNCHANGED racks
    /\ Change(s)

PlaceSegment(s, R) ==
    /\ s \in present
    /\ R # racks[s]
    /\ racks' = [racks EXCEPT ![s] = R]
    /\ UNCHANGED <<present, carries>>
    /\ Change(s)

\* ServerGenerator.attach_segment_rack.
AttachServer(s, r) ==
    /\ s \in present
    /\ r \notin racks[s]
    /\ racks' = [racks EXCEPT ![s] = @ \cup {r}]
    /\ UNCHANGED <<present, carries>>
    /\ Change(s)

\* The RackGenerator builds one more leaf.
BuildLeaf(l) ==
    /\ l \notin leafs
    /\ leafs' = leafs \cup {l}
    /\ stale' = Tenants
    /\ UNCHANGED <<design, overlay, overlayReady, pending, run, broken, changes, failures>>

\* The FabricGenerator allocates the overlay_asn.
FabricReady ==
    /\ ~overlayReady
    /\ overlayReady' = TRUE
    /\ UNCHANGED <<design, leafs, overlay, pending, run, broken, history>>

\* Somebody runs generate-tenant for a tenant that needs it.
RunAgain(t) ==
    /\ t \in broken \cup stale
    /\ pending[t] = 0
    /\ run[t].pc = "idle"
    /\ pending' = [pending EXCEPT ![t] = 1]
    /\ UNCHANGED <<design, fabric, overlay, run, broken, history>>

Outside ==
    \/ \E s \in Segments : AddSegment(s)
    \/ \E s \in Segments : RemoveSegment(s)
    \/ \E s \in Segments, R \in SUBSET Racks : PlaceSegment(s, R)
    \/ \E s \in Segments, r \in Racks : AttachServer(s, r)
    \/ \E l \in Leafs : BuildLeaf(l)

Next ==
    \/ \E t \in Tenants : RunStep(t)
    \/ \E t \in Tenants : Die(t)
    \/ \E t \in Tenants : RunAgain(t)
    \/ FabricReady
    \/ Outside

Spec == Init /\ [][Next]_vars

\* Dispatched runs execute, failed and outdated tenants are run again, and the
\* fabric gets built; edits and failures need not happen.
Fairness ==
    /\ \A t \in Tenants : WF_vars(RunStep(t)) /\ WF_vars(RunAgain(t))
    /\ WF_vars(FabricReady)

FairSpec == Spec /\ Fairness

-----------------------------------------------------------------------------
(* Properties                                                               *)

Settled(t) == pending[t] = 0 /\ run[t].pc = "idle" /\ t \notin broken \cup stale

\* Every node of the tenant has its identifiers, a routed segment its subnet,
\* and each leaf carries exactly the segments placed on it.
Materialized(t) ==
    /\ \A n \in VrfsOf(t) \cup SegmentsOf(t) : vni[n] # 0 /\ target[n] = vni[n]
    /\ SegmentsOf(t) \cap Routed \subseteq bound
    /\ \A l \in leafs, s \in SegmentsOf(t) :
         <<l, s>> \in carries <=> PlacedOn(racks[s], l)

(* A settled tenant is completely materialized: no edit made while a run was *)
(* working on what it had queried, no leaf built meanwhile and no death      *)
(* between an allocation and its use leaves a wrong placement, a route       *)
(* target of another VNI or a segment without subnet (OverlayGenerator).     *)
SettledMeansMaterialized == \A t \in Tenants : Settled(t) => Materialized(t)

(* Concurrent tenant generators cannot clobber one another: an edge of a     *)
(* segment changes only in a step of its own tenant's run, or with the       *)
(* segment (materialize_segments).                                           *)
OthersUntouched ==
    [][\A e \in Leafs \X Segments :
         (e \in carries) # (e \in carries') =>
            run'[Owner(e[2])] # run[Owner(e[2])] \/ Gone(e[2])']_vars

(* Identifiers are allocated once: a VNI never changes however often a node  *)
(* is configured and wherever runs die, so route targets stay valid on every *)
(* device (configure_vrf, configure_segment).                                *)
IdentifiersStable ==
    [][\A n \in Nodes : /\ vni[n] # 0 => vni'[n] = vni[n]
                        /\ target[n] # 0 => target'[n] = target[n]]_vars

(* The loop closed by the tenant's own checksum ends, and it ends with       *)
(* everything in place.                                                      *)
EventuallyMaterialized == <>[](\A t \in Tenants : Settled(t) /\ Materialized(t))
=============================================================================
