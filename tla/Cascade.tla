------------------------------- MODULE Cascade -------------------------------
(***************************************************************************)
(* The physical generator cascade: FabricGenerator -> PodGenerator ->      *)
(* RackGenerator, driven by checksums stamped on the tier below and by the *)
(* rules of triggers.yml, on one non-default branch of one fabric.         *)
(*                                                                         *)
(* Every generator run is a process on a task worker.  It reads its        *)
(* GraphQL query once when it starts and then performs its database calls  *)
(* one by one, so runs interleave and work on what they read earlier.      *)
(* Nodes are what the graph holds; `run' is what each worker remembers.    *)
(***************************************************************************)
EXTENDS Naturals, FiniteSets

CONSTANTS
    Fabric,          \* the fabric design object
    Pods, Racks,     \* its pods and their racks
    FabricPods,      \* the pods of role "fabric", which hold the super-spines
    PodOf,           \* rack -> its pod
    Workers,         \* the platform's task workers
    Uplinks,         \* pod or rack -> interfaces of its devices to the tier above
    ScarcePorts,     \* may a plan ask an upper device for a port it has not got?
    InitialAmounts,  \* the amounts a loaded design may ask for at first
    MaxAmount,       \* bound: largest amount an operator asks for
    MaxEdits,        \* bound: operator edits and manual runs
    MaxFailures,     \* bound: runs that die half-way
    AllowShrink,     \* may an operator lower an amount?
    OneRunPerTarget, \* does the platform run one run per design object at a time?
    NoDigest         \* a checksum that was never stamped

Targets  == {Fabric} \cup Pods \cup Racks
Children == Pods \cup Racks           \* the design objects that carry a checksum

ASSUME TargetsAreDistinct ==
    /\ Fabric \notin Pods \cup Racks
    /\ Pods \cap Racks = {}
    /\ FabricPods \subseteq Pods
    /\ PodOf \in [Racks -> Pods \ FabricPods]

ASSUME BoundsAreNumbers ==
    /\ MaxAmount \in Nat
    /\ MaxEdits \in Nat
    /\ MaxFailures \in Nat
    /\ InitialAmounts \subseteq [Targets -> 0..MaxAmount]
    /\ \A initial \in InitialAmounts, r \in Racks : initial[r] > 0
    /\ Uplinks \in [Children -> Nat]
    /\ ScarcePorts \in BOOLEAN
    /\ AllowShrink \in BOOLEAN
    /\ OneRunPerTarget \in BOOLEAN

(* A device is known by the design object that produces it, its number in  *)
(* the hostname (the upsert key) and the node id, which a device deleted   *)
(* and created again does not get back.                                    *)
Device  == Targets \X Nat \X Nat

\* An unset checksum is no digest: a digest is taken over a set of devices.
ASSUME NoDigestIsNone ==
    \A ids \in SUBSET (Targets \X (1..MaxAmount) \X (1..MaxAmount)) : ids # NoDigest

Adjacency == Device \X Device          \* <<lower device, upper device>>

VARIABLES
    amount,       \* amount_of_super_spines / amount_of_spines / amount_of_leafs
    devices,      \* the NetworkDevice nodes in the graph
    born,         \* design object -> node ids used for its devices so far
    links,        \* the NetworkLink nodes, as adjacencies
    stamped,      \* <<device, asn>>: the devices that carry an ASN
    sessions,     \* <<adjacency, asn>>: its pair of EVPN NetworkBGPSessions
    pools,        \* fabric or pod -> its IP pools are allocated
    checksum,     \* pod or rack -> GeneratorTarget.checksum
    overlayAsn,   \* NetworkFabric.overlay_asn, 0 when unset
    asnsUsed,     \* ASNs handed out by "Overlay ASN Pool"
    tracked,      \* design object -> devices in its CoreGeneratorGroup
    trackedLinks, \* design object -> links in its CoreGeneratorGroup
    pending,      \* design object -> runs dispatched and not started
    run,          \* worker -> the run it executes
    broken,       \* design objects whose last run died and was not repeated
    edits,        \* operator edits so far
    failures      \* died runs so far

design  == <<amount, edits>>
nodes   == <<devices, born, links, stamped, sessions, pools, tracked, trackedLinks>>
asn     == <<overlayAsn, asnsUsed>>
faults  == <<broken, failures>>
vars    == <<amount, devices, born, links, stamped, sessions, pools, checksum,
             overlayAsn, asnsUsed, tracked, trackedLinks, pending, run, broken,
             edits, failures>>

Idle == [pc |-> "idle", target |-> Fabric, want |-> 0, wantUp |-> 0, upper |-> {},
         made |-> {}, wired |-> {}, todo |-> {}, digest |-> {}, left |-> {}, asn |-> 0]

RunState ==
    [pc: {"idle", "gate", "pools", "create", "signal", "alloc", "reread", "overlay"},
     target: Targets,
     want: Nat,                  \* the amount the query returned
     wantUp: Nat,                \* the amount of the tier above it returned
     upper: SUBSET Device,       \* the devices of the tier above, as listed
     made: SUBSET Device,        \* the devices upserted by this run
     wired: SUBSET Adjacency,    \* the links upserted by this run
     todo: SUBSET Children,      \* the children still to be stamped
     digest: SUBSET Device,      \* the ids the stamped digest is taken over
     left: SUBSET Device,        \* the devices the overlay step has still to do
     asn: Nat]                   \* the overlay_asn this run read

TypeOK ==
    /\ amount \in [Targets -> Nat]
    /\ devices \subseteq Device
    /\ born \in [Targets -> Nat]
    /\ links \subseteq Adjacency
    /\ stamped \subseteq Device \X Nat
    /\ sessions \subseteq Adjacency \X Nat
    /\ pools \in [Targets -> BOOLEAN]
    /\ checksum \in [Children -> {NoDigest} \cup SUBSET Device]
    /\ overlayAsn \in Nat
    /\ asnsUsed \in Nat
    /\ tracked \in [Targets -> SUBSET Device]
    /\ trackedLinks \in [Targets -> SUBSET Adjacency]
    /\ pending \in [Targets -> Nat]
    /\ run \in [Workers -> RunState]
    /\ broken \subseteq Targets
    /\ edits \in Nat
    /\ failures \in Nat

(* Provisioning: the design is loaded, nothing is built and generate-fabric *)
(* was invoked by hand, the only way the chain starts.                      *)
Init ==
    /\ amount \in InitialAmounts
    /\ devices = {}
    /\ born = [t \in Targets |-> 0]
    /\ links = {}
    /\ stamped = {}
    /\ sessions = {}
    /\ pools = [t \in Targets |-> FALSE]
    /\ checksum = [t \in Children |-> NoDigest]
    /\ overlayAsn = 0
    /\ asnsUsed = 0
    /\ tracked = [t \in Targets |-> {}]
    /\ trackedLinks = [t \in Targets |-> {}]
    /\ pending = [t \in Targets |-> IF t = Fabric THEN 1 ELSE 0]
    /\ run = [w \in Workers |-> Idle]
    /\ broken = {}
    /\ edits = 0
    /\ failures = 0

-----------------------------------------------------------------------------
(* What the runs share.                                                     *)

DevicesOf(t) == {d \in devices : d[1] = t}
RacksOf(p)   == {r \in Racks : PodOf[r] = p}
Busy(t)      == \E w \in Workers : run[w].pc # "idle" /\ run[w].target = t
Quiet        == /\ \A t \in Targets : pending[t] = 0
                /\ \A w \in Workers : run[w].pc = "idle"

At(w, pc, kind) == run[w].pc = pc /\ run[w].target \in kind

Goto(w, pc) == run' = [run EXCEPT ![w].pc = pc]

\* A worker takes a dispatched run of t off the queue.
Dequeue(w, t) ==
    /\ run[w].pc = "idle"
    /\ pending[t] > 0
    /\ OneRunPerTarget => ~Busy(t)
    /\ pending' = [pending EXCEPT ![t] = @ - 1]

\* The worker starts t's run at pc with what the query returned.
Begin(w, t, pc, wantUp) ==
    run' = [run EXCEPT ![w] = [Idle EXCEPT !.pc = pc, !.target = t,
                                           !.want = amount[t], !.wantUp = wantUp]]

\* generate() raised: the worker is free, nothing is rolled back, and the
\* group is not updated.
Abort(w) ==
    /\ run' = [run EXCEPT ![w] = Idle]
    /\ UNCHANGED <<design, nodes, checksum, asn, pending, faults>>

\* Mutant of CreateDevice: a save without allow_upsert, every run creates anew.
CreateAlways(w) ==
    LET t == run[w].target
        new == <<t, Cardinality(run[w].made) + 1, born[t] + 1>>
    IN  /\ new[2] <= run[w].want
        /\ run' = [run EXCEPT ![w].made = @ \cup {new}]
        /\ devices' = devices \cup {new}
        /\ born' = [born EXCEPT ![t] = @ + 1]
        /\ UNCHANGED <<links, stamped, sessions, pools, tracked, trackedLinks>>
        /\ UNCHANGED <<design, checksum, asn, pending, faults>>

\* Upsert by hostname of the next device of the run: an existing node keeps
\* its id, a missing one is created under a new id.
CreateDevice(w) ==
    LET t == run[w].target
        i == Cardinality(run[w].made) + 1
        existing == {d \in DevicesOf(t) : d[2] = i}
        new == <<t, i, born[t] + 1>>
    IN  /\ i <= run[w].want
        /\ IF existing # {}
             THEN \E d \in existing :
                    /\ run' = [run EXCEPT ![w].made = @ \cup {d}]
                    /\ UNCHANGED <<devices, born>>
             ELSE /\ run' = [run EXCEPT ![w].made = @ \cup {new}]
                  /\ devices' = devices \cup {new}
                  /\ born' = [born EXCEPT ![t] = @ + 1]
        /\ UNCHANGED <<links, stamped, sessions, pools, tracked, trackedLinks>>
        /\ UNCHANGED <<design, checksum, asn, pending, faults>>

AllCreated(w) == Cardinality(run[w].made) = run[w].want

\* The first k devices of S in the order they were created, the order in which
\* they are listed.
First(k, S) == {d \in S : Cardinality({e \in S : e[3] < d[3]}) < k}

\* Every device of the run that is still there is linked to the devices of the
\* tier above that were listed and are still there, as far as its own
\* interfaces go: src_interfaces[:dst_device_count]. Which interfaces are
\* plugged together is the concern of module Cabling.
CablingPlan(w) ==
    (run[w].made \cap devices)
        \X First(Uplinks[run[w].target], run[w].upper \cap devices)

\* The plan indexes past the last interface of a device of the tier above: the
\* run raises before the first cable is laid. How many ports are in use up
\* there is left open.
CablingFails(w) ==
    /\ ScarcePorts
    /\ At(w, "create", Children)
    /\ AllCreated(w)
    /\ CablingPlan(w) # {}
    /\ Abort(w)

\* Mutant of ToStamp: "already stamped" instead of "stamped with this digest".
ToStampOnce(children, digest) == {c \in children : checksum[c] = NoDigest}

\* Mutant of ToStamp: the fabric is stamped along with its children.
ToStampUpwards(children, digest) ==
    {c \in children : checksum[c] # digest} \cup {Fabric}

\* Checksum.stamp_on: the digest is compared with the checksums the children
\* had when they were fetched; only the ones that differ will be saved.
ToStamp(children, digest) == {c \in children : checksum[c] # digest}

\* Mutant of StampChild: the save emits no event.
StampUnseen(w, c) ==
    /\ run[w].pc = "signal"
    /\ c \in run[w].todo
    /\ checksum' = [checksum EXCEPT ![c] = run[w].digest]
    /\ run' = [run EXCEPT ![w].todo = @ \ {c}]
    /\ UNCHANGED <<design, nodes, asn, pending, faults>>

StampChild(w, c) ==
    /\ run[w].pc = "signal"
    /\ c \in run[w].todo
    /\ checksum' = [checksum EXCEPT ![c] = run[w].digest]
    /\ pending' = IF checksum[c] # run[w].digest      \* the attribute changed:
                    THEN [pending EXCEPT ![c] = @ + 1] \* its trigger rule fires
                    ELSE pending
    /\ run' = [run EXCEPT ![w].todo = @ \ {c}]
    /\ UNCHANGED <<design, nodes, asn, faults>>

\* device.asn = overlay_asn for one device of the run.
StampAsn(w, d) == {q \in stamped : q[1] # d} \cup {<<d, run[w].asn>>}

\* The adjacencies of d this run cabled, and the sessions upserted for them.
AdjacenciesOf(w, d) == {a \in run[w].wired : a[1] = d}
UpsertSessions(w, d) ==
    {s \in sessions : s[1] \notin AdjacenciesOf(w, d)}
        \cup (AdjacenciesOf(w, d) \X {run[w].asn})

-----------------------------------------------------------------------------
(* FabricGenerator                                                          *)

FabricStart(w) ==
    /\ Dequeue(w, Fabric)
    /\ Begin(w, Fabric, "pools", 0)
    /\ UNCHANGED <<design, nodes, checksum, asn, faults>>

FabricPools(w) ==
    /\ At(w, "pools", {Fabric})
    /\ pools' = [pools EXCEPT ![Fabric] = TRUE]
    /\ Goto(w, "create")
    /\ UNCHANGED <<devices, born, links, stamped, sessions, tracked, trackedLinks>>
    /\ UNCHANGED <<design, checksum, asn, pending, faults>>

FabricCreate(w) == At(w, "create", {Fabric}) /\ CreateDevice(w)

\* update_checksum fetches the pods, whatever their role, and takes the
\* digest; the saves follow one by one.
FabricListPods(w) ==
    /\ At(w, "create", {Fabric})
    /\ AllCreated(w)
    /\ run' = [run EXCEPT ![w].pc = "signal", ![w].digest = run[w].made,
                          ![w].todo = ToStamp(Pods, run[w].made)]
    /\ UNCHANGED <<design, nodes, checksum, asn, pending, faults>>

FabricStamp(w, p) == run[w].target = Fabric /\ StampChild(w, p)

\* Mutant of MustAllocate: every run allocates.
AllocateAgain(readAsn) == TRUE

\* configure_overlay allocates the ASN only when it reads that none is set.
MustAllocate(readAsn) == readAsn = 0

FabricReadAsn(w) ==
    /\ At(w, "signal", {Fabric})
    /\ run[w].todo = {}
    /\ IF MustAllocate(overlayAsn)
         THEN Goto(w, "alloc")
         ELSE run' = [run EXCEPT ![w].pc = "overlay", ![w].asn = overlayAsn,
                                 ![w].left = run[w].made]
    /\ UNCHANGED <<design, nodes, checksum, asn, pending, faults>>

\* The save hands the pool to the server, which stores the next ASN.
FabricAllocateAsn(w) ==
    /\ At(w, "alloc", {Fabric})
    /\ asnsUsed' = asnsUsed + 1
    /\ overlayAsn' = asnsUsed + 1
    /\ Goto(w, "reread")
    /\ UNCHANGED <<design, nodes, checksum, pending, faults>>

FabricRereadAsn(w) ==
    /\ At(w, "reread", {Fabric})
    /\ run' = [run EXCEPT ![w].pc = "overlay", ![w].asn = overlayAsn,
                          ![w].left = run[w].made]
    /\ UNCHANGED <<design, nodes, checksum, asn, pending, faults>>

FabricStampAsn(w, d) ==
    /\ At(w, "overlay", {Fabric})
    /\ d \in run[w].left
    /\ IF d \in devices
         THEN /\ stamped' = StampAsn(w, d)
              /\ run' = [run EXCEPT ![w].left = @ \ {d}]
              /\ UNCHANGED <<devices, born, links, sessions, pools, tracked, trackedLinks>>
              /\ UNCHANGED <<design, checksum, asn, pending, faults>>
         ELSE Abort(w)

-----------------------------------------------------------------------------
(* PodGenerator                                                             *)

\* A pod of role "fabric" is skipped: the run ends at once.
PodSkip(w, p) ==
    /\ p \in FabricPods
    /\ Dequeue(w, p)
    /\ broken' = broken \ {p}
    /\ UNCHANGED <<design, nodes, checksum, asn, run, failures>>

PodStart(w, p) ==
    /\ p \in Pods \ FabricPods
    /\ Dequeue(w, p)
    /\ Begin(w, p, "gate", amount[Fabric])
    /\ UNCHANGED <<design, nodes, checksum, asn, faults>>

\* The gate compares the amount the query returned with the devices there
\* are now.
TierIsComplete(w, upper) == Cardinality(upper) = run[w].wantUp

PodGate(w) ==
    LET superSpines == DevicesOf(Fabric) IN
    /\ At(w, "gate", Pods)
    /\ IF TierIsComplete(w, superSpines)
         THEN /\ run' = [run EXCEPT ![w].pc = "pools", ![w].upper = superSpines]
              /\ UNCHANGED <<design, nodes, checksum, asn, pending, faults>>
         ELSE Abort(w)

\* The fabric's prefix pool is fetched by name, which fails when the
\* FabricGenerator never created it.
PodPools(w) ==
    /\ At(w, "pools", Pods)
    /\ IF pools[Fabric]
         THEN /\ pools' = [pools EXCEPT ![run[w].target] = TRUE]
              /\ Goto(w, "create")
              /\ UNCHANGED <<devices, born, links, stamped, sessions, tracked, trackedLinks>>
              /\ UNCHANGED <<design, checksum, asn, pending, faults>>
         ELSE Abort(w)

PodCreate(w) == At(w, "create", Pods) /\ CreateDevice(w)

\* The session digest is over what the run touched: its spines and the
\* super-spines it cabled them to.
PodDigest(w) == run[w].made \cup {a[2] : a \in CablingPlan(w)}

\* connect_spine_to_super_spine, then update_checksum fetches the racks.
PodCable(w) ==
    LET plan == CablingPlan(w) IN
    /\ At(w, "create", Pods)
    /\ AllCreated(w)
    /\ links' = links \cup plan
    /\ run' = [run EXCEPT ![w].pc = "signal", ![w].wired = plan,
                          ![w].digest = PodDigest(w),
                          ![w].todo = ToStamp(RacksOf(run[w].target), PodDigest(w))]
    /\ UNCHANGED <<devices, born, stamped, sessions, pools, tracked, trackedLinks>>
    /\ UNCHANGED <<design, checksum, asn, pending, faults>>

PodStamp(w, r) == run[w].target \in Pods /\ StampChild(w, r)

\* Without an overlay_asn the overlay step is skipped, sessions included.
ReadAsn(w) ==
    /\ run' = [run EXCEPT ![w].pc = "overlay", ![w].asn = overlayAsn,
                          ![w].left = IF overlayAsn = 0 THEN {} ELSE run[w].made]
    /\ UNCHANGED <<design, nodes, checksum, asn, pending, faults>>

PodReadAsn(w) == At(w, "signal", Pods) /\ run[w].todo = {} /\ ReadAsn(w)

\* Mutant of ConfigureDevice: the session is stored whatever became of its ends.
ConfigureUnchecked(w, d) ==
    /\ d \in run[w].left
    /\ stamped' = StampAsn(w, d)
    /\ sessions' = UpsertSessions(w, d)
    /\ run' = [run EXCEPT ![w].left = @ \ {d}]
    /\ UNCHANGED <<devices, born, links, pools, tracked, trackedLinks>>
    /\ UNCHANGED <<design, checksum, asn, pending, faults>>

\* One device of the run: its ASN, then the sessions along its cabling. A
\* device or a peer that is gone fails the get or the save.
ConfigureDevice(w, d) ==
    /\ d \in run[w].left
    /\ IF d \in devices /\ \A a \in AdjacenciesOf(w, d) : a[2] \in devices
         THEN /\ stamped' = StampAsn(w, d)
              /\ sessions' = UpsertSessions(w, d)
              /\ run' = [run EXCEPT ![w].left = @ \ {d}]
              /\ UNCHANGED <<devices, born, links, pools, tracked, trackedLinks>>
              /\ UNCHANGED <<design, checksum, asn, pending, faults>>
         ELSE Abort(w)

PodOverlay(w, d) == At(w, "overlay", Pods) /\ ConfigureDevice(w, d)

-----------------------------------------------------------------------------
(* RackGenerator                                                            *)

\* require_pod_pool: the query returned no pool for the pod, the run raises.
RackReject(w, r) ==
    /\ ~pools[PodOf[r]]
    /\ Dequeue(w, r)
    /\ UNCHANGED <<design, nodes, checksum, asn, run, faults>>

\* Mutant of RackStart: the pool guards are gone.
RackStartUnguarded(w, r) ==
    /\ Dequeue(w, r)
    /\ Begin(w, r, "gate", amount[PodOf[r]])
    /\ UNCHANGED <<design, nodes, checksum, asn, faults>>

RackStart(w, r) ==
    /\ pools[PodOf[r]]
    /\ Dequeue(w, r)
    /\ Begin(w, r, "gate", amount[PodOf[r]])
    /\ UNCHANGED <<design, nodes, checksum, asn, faults>>

RackGate(w) ==
    LET spines == DevicesOf(PodOf[run[w].target]) IN
    /\ At(w, "gate", Racks)
    /\ IF TierIsComplete(w, spines)
         THEN /\ run' = [run EXCEPT ![w].pc = "create", ![w].upper = spines]
              /\ UNCHANGED <<design, nodes, checksum, asn, pending, faults>>
         ELSE Abort(w)

RackCreate(w) == At(w, "create", Racks) /\ CreateDevice(w)

RackCable(w) ==
    LET plan == CablingPlan(w) IN
    /\ At(w, "create", Racks)
    /\ AllCreated(w)
    /\ links' = links \cup plan
    /\ run' = [run EXCEPT ![w].pc = "signal", ![w].wired = plan]
    /\ UNCHANGED <<devices, born, stamped, sessions, pools, tracked, trackedLinks>>
    /\ UNCHANGED <<design, checksum, asn, pending, faults>>

RackReadAsn(w) == At(w, "signal", Racks) /\ ReadAsn(w)

RackOverlay(w, d) == At(w, "overlay", Racks) /\ ConfigureDevice(w, d)

-----------------------------------------------------------------------------
(* The platform                                                             *)

\* A run that returned: the SDK replaces the members of the generator's group
\* by what the run touched and deletes the former members it did not touch.
\* Deleting a device takes its interfaces, links and sessions with it.
Finish(w) ==
    LET t == run[w].target
        unused == tracked[t] \ run[w].made
        lost(a) == \/ a[1] \in unused
                   \/ a[2] \in unused
                   \/ a \in trackedLinks[t] \ run[w].wired
    IN  /\ run[w].pc = "overlay"
        /\ run[w].left = {}
        /\ devices' = devices \ unused
        /\ links' = {a \in links : ~lost(a)}
        /\ stamped' = {q \in stamped : q[1] \notin unused}
        /\ sessions' = {s \in sessions : ~lost(s[1])}
        /\ tracked' = [tracked EXCEPT ![t] = run[w].made]
        /\ trackedLinks' = [trackedLinks EXCEPT ![t] = run[w].wired]
        /\ broken' = broken \ {t}
        /\ run' = [run EXCEPT ![w] = Idle]
        /\ UNCHANGED <<born, pools, design, checksum, asn, pending, failures>>

\* A run dies between two of its calls: worker lost, server error.
Die(w) ==
    /\ run[w].pc # "idle"
    /\ failures < MaxFailures
    /\ failures' = failures + 1
    /\ broken' = broken \cup {run[w].target}
    /\ run' = [run EXCEPT ![w] = Idle]
    /\ UNCHANGED <<design, nodes, checksum, asn, pending>>

\* An operator changes an amount; the rule on that attribute dispatches the
\* generator of the edited object.
Resize(t, n) ==
    /\ edits < MaxEdits
    /\ n # amount[t]
    /\ t \in Racks => n > 0           \* the schema's min_value
    /\ AllowShrink \/ n > amount[t]
    /\ edits' = edits + 1
    /\ amount' = [amount EXCEPT ![t] = n]
    /\ pending' = [pending EXCEPT ![t] = @ + 1]
    /\ UNCHANGED <<nodes, checksum, asn, run, faults>>

\* An operator runs the generator of one design object.
RunByHand(t) ==
    /\ edits < MaxEdits
    /\ edits' = edits + 1
    /\ pending' = [pending EXCEPT ![t] = @ + 1]
    /\ UNCHANGED <<amount, nodes, checksum, asn, run, faults>>

-----------------------------------------------------------------------------

FabricStep(w) ==
    \/ FabricStart(w)
    \/ FabricPools(w)
    \/ FabricCreate(w)
    \/ FabricListPods(w)
    \/ \E p \in Pods : FabricStamp(w, p)
    \/ FabricReadAsn(w)
    \/ FabricAllocateAsn(w)
    \/ FabricRereadAsn(w)
    \/ \E d \in run[w].left : FabricStampAsn(w, d)

PodStep(w) ==
    \/ \E p \in Pods : PodSkip(w, p)
    \/ \E p \in Pods : PodStart(w, p)
    \/ PodGate(w)
    \/ PodPools(w)
    \/ PodCreate(w)
    \/ PodCable(w)
    \/ \E r \in Racks : PodStamp(w, r)
    \/ PodReadAsn(w)
    \/ \E d \in run[w].left : PodOverlay(w, d)

RackStep(w) ==
    \/ \E r \in Racks : RackReject(w, r)
    \/ \E r \in Racks : RackStart(w, r)
    \/ RackGate(w)
    \/ RackCreate(w)
    \/ RackCable(w)
    \/ RackReadAsn(w)
    \/ \E d \in run[w].left : RackOverlay(w, d)

WorkerStep(w) ==
    FabricStep(w) \/ PodStep(w) \/ RackStep(w) \/ CablingFails(w) \/ Finish(w)

Operator ==
    \/ \E t \in Targets, n \in 0..MaxAmount : Resize(t, n)
    \/ \E t \in Targets : RunByHand(t)

Next ==
    \/ \E w \in Workers : WorkerStep(w)
    \/ \E w \in Workers : Die(w)
    \/ Operator

Spec == Init /\ [][Next]_vars

\* A dispatched run is picked up and a run goes on until it returns or raises;
\* nobody has to edit anything and nothing has to fail.
Fairness == \A w \in Workers : WF_vars(WorkerStep(w))

FairSpec == Spec /\ Fairness

-----------------------------------------------------------------------------
(* Properties                                                               *)

ParentOf(t) == IF t \in Racks THEN PodOf[t] ELSE Fabric

\* The design object has exactly the switches it asks for, and each of them is
\* linked to every switch of the tier above, or to as many as it has uplinks
\* for, the first ones.
BuiltAsDesigned(t) ==
    /\ Cardinality(DevicesOf(t)) = amount[t]
    /\ t # Fabric =>
          DevicesOf(t) \X First(Uplinks[t], DevicesOf(ParentOf(t))) \subseteq links

Built == \A t \in Targets \ FabricPods : BuiltAsDesigned(t)

(* No tier is generated before the tier above it: a pod has pools or spines  *)
(* only once the FabricGenerator allocated the fabric's pools, a rack has    *)
(* leafs only once the PodGenerator allocated its pod's.  With an amount of  *)
(* 0 the counting gates of PodGenerator.generate and RackGenerator.generate  *)
(* pass on a tier that never ran; the pool lookups have to hold then.        *)
TierOrder ==
    /\ \A p \in Pods : pools[p] \/ DevicesOf(p) # {} => pools[Fabric]
    /\ \A r \in Racks : DevicesOf(r) # {} => pools[PodOf[r]]

(* EVPN sessions follow the cabling (ADR-0005): no session outlives the link *)
(* it was made for, although sessions are made several calls after the       *)
(* cabling and from the run's memory of it (configure_overlay).              *)
SessionsFollowCabling == \A s \in sessions : s[1] \in links

(* iBGP: every ASN on a device or a session is the fabric's overlay_asn, so  *)
(* it is allocated once, although it is read, allocated, re-read and stamped *)
(* in separate calls and runs die in between (FabricGenerator.configure_overlay). *)
AsnAgreement ==
    /\ \A q \in stamped : q[2] = overlayAsn
    /\ \A s \in sessions : s[2] = overlayAsn

(* The cascade repairs itself and never stops short: when nothing is pending *)
(* or running and every run that died was repeated, the physical fabric is   *)
(* the one designed, whichever runs aborted at a gate on the way (the claim  *)
(* of modular-generator-architecture.mdx, "Validation gates"). A switch that *)
(* has fewer uplinks than the tier above has switches is linked to the first *)
(* of them: build_rack_cabling_plan truncates and raises nothing. With       *)
(* ScarcePorts a run may raise after the gate and nothing repeats it.        *)
QuietMeansBuilt == Quiet /\ broken = {} => Built

(* The same for the control plane: every link has its sessions, every switch *)
(* its ASN.                                                                  *)
QuietMeansOverlayBuilt ==
    Quiet /\ broken = {} =>
        /\ \A a \in links : \E s \in sessions : s[1] = a
        /\ \A d \in devices : \E q \in stamped : q[1] = d

(* A run that started from an outdated query never stamps an older digest    *)
(* over a newer one: while amounts only grow, so do the stamped id sets.     *)
StampsNeverRegress ==
    [][\A c \in Children : checksum[c] = NoDigest \/ checksum[c] \subseteq checksum'[c]]_checksum

(* Every edit is built in the end: the cascade terminates, and it does not   *)
(* end at a gate that nothing reopens.                                       *)
EventuallyBuilt == <>[](broken = {}) => <>[]Built

=============================================================================
