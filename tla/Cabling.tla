------------------------------- MODULE Cabling -------------------------------
(***************************************************************************)
(* Which interfaces the PodGenerator and the RackGenerator plug together:  *)
(* the slot arithmetic of cabling.py, carried out link by link by runs     *)
(* that interleave.  A pod's run joins its spines to the super-spines of   *)
(* the fabric, a rack's run its leafs to the spines of its pod; both are   *)
(* one tier of devices (the lower) cabled to the tier above (the upper).   *)
(* When a run is dispatched is the concern of module Cascade: here a run   *)
(* may start at any time, and due tells whose cabling is behind.  What a   *)
(* run that finishes does not make again is pruned as the SDK prunes it:   *)
(* out of the members of the generator's group and nothing else.           *)
(***************************************************************************)
EXTENDS Integers, Sequences, SequencesExt, FiniteSets

CONSTANTS
    Fabric,          \* the fabric, whose devices are the super-spines
    Pods, Racks,     \* the generated pods and their racks
    PodOf,           \* rack -> its pod
    Sizes,           \* target -> the amounts of devices an operator may ask for
    Indexes,         \* pod or rack -> the indexes it may have
    InitialIndex,    \* pod or rack -> its index in the loaded design
    InitialSize,     \* target -> its amount in the loaded design
    UpPorts,         \* how many interfaces a device has towards the tier above
    DownPorts,       \* and towards the tier below
    Descending,      \* the sides ("up", "down") sorted in reverse name order
    RefuseSecondCable, \* does the platform refuse a second link on an endpoint?
    MayActDuringRun, \* may an operator move what a run in progress plans from?
    MayMove,         \* may what has been cabled be re-indexed, or a tier shrink?
    Workers,         \* how many runs may be in progress at once
    MaxEdits,        \* bound: operator edits
    MaxFailures      \* bound: runs that die half-way

Owners  == Pods \cup Racks           \* whose runs lay cables
Targets == {Fabric} \cup Owners

ASSUME TiersAreTree ==
    /\ Fabric \notin Owners /\ Pods \cap Racks = {}
    /\ PodOf \in [Racks -> Pods]

Above(o) == IF o \in Pods THEN Fabric ELSE PodOf[o]
Below(t) == {o \in Owners : Above(o) = t}
Siblings(o) == Below(Above(o)) \ {o}

ASSUME DesignInputs ==
    /\ Sizes \in [Targets -> SUBSET (Nat \ {0})]
    /\ InitialSize \in [Targets -> Nat]
    /\ \A t \in Targets : InitialSize[t] \in Sizes[t]
    /\ \A p \in Pods : InitialSize[p] <= InitialSize[Fabric]
    /\ Indexes \in [Owners -> SUBSET Nat]
    /\ InitialIndex \in [Owners -> Nat]
    /\ \A o \in Owners : InitialIndex[o] \in Indexes[o]
    /\ \A o, q \in Owners : Above(o) = Above(q) /\ o # q => InitialIndex[o] # InitialIndex[q]
    /\ \A p \in Pods : \A i \in Indexes[p] : i >= 2
    /\ \A r \in Racks : 0 \notin Indexes[r] /\ Sizes[r] \subseteq 1..2
    /\ Descending \subseteq {"up", "down"}

ASSUME CablingBounds ==
    /\ {UpPorts, DownPorts} \subseteq Nat \ {0}
    /\ {RefuseSecondCable, MayActDuringRun, MayMove} \subseteq BOOLEAN
    /\ Workers \in Nat \ {0} /\ MaxEdits \in Nat /\ MaxFailures \in Nat

VARIABLES
    index,    \* pod or rack -> its index
    amount,   \* target -> the devices the design asks for
    devices,  \* target -> the numbers of its devices, oldest first
    links,    \* the NetworkLinks: <<lower interface, upper interface>>
    plugged,  \* <<interface, link>>: the link relationship of an endpoint
    pruned,   \* the interfaces that were deleted while their device stays
    group,    \* owner -> the members of its CoreGeneratorGroup
    due,      \* the targets no run has seen as they are and finished, or may yet
    run,      \* owner -> the run in progress
    edits,    \* operator edits so far
    failures  \* died runs so far

design == <<index, amount>>
cables == <<links, plugged, pruned, group>>
vars   == <<index, amount, devices, links, plugged, pruned, group, due, run, edits, failures>>

Interface == [of: Targets, device: Nat, side: {"up", "down"}, port: Nat \ {0}]
Link      == Interface \X Interface

Idle == [pc |-> "idle", index |-> 0, amount |-> 0, upper |-> << >>,
         plan |-> {}, made |-> {}]
NoMembers == [links |-> {}, ends |-> {}, devices |-> {}]

TypeOK ==
    /\ index \in [Owners -> Nat]
    /\ amount \in [Targets -> Nat]
    /\ devices \in [Targets -> Seq(Nat)]
    /\ links \subseteq Link
    /\ plugged \subseteq Interface \X Link
    /\ pruned \subseteq Interface
    /\ group \in [Owners -> [links: SUBSET Link, ends: SUBSET Interface, devices: SUBSET Nat]]
    /\ due \subseteq Targets
    /\ run \in [Owners -> [pc: {"idle", "plan", "connect"}, index: Nat,
                           amount: Nat, upper: Seq(Nat), plan: SUBSET Link,
                           made: SUBSET Link]]
    /\ edits \in Nat /\ failures \in Nat

\* No pod has more spines than the fabric has super-spines: no rule of the
\* program, but the slots of a wider pod are those of the next one.
NotWide(size) == \A p \in Pods : size[p] <= size[Fabric]

\* The design is loaded, siblings have indexes of their own, nothing is built.
Init ==
    /\ index = InitialIndex
    /\ amount = InitialSize
    /\ devices = [t \in Targets |-> << >>]
    /\ links = {} /\ plugged = {} /\ pruned = {}
    /\ group = [o \in Owners |-> NoMembers]
    /\ due = Targets
    /\ run = [o \in Owners |-> Idle]
    /\ edits = 0 /\ failures = 0

-----------------------------------------------------------------------------
(* The plan                                                                 *)

\* The elements of seq that are in S, in their order (a SelectSeq written out:
\* the proofs need its definition).
Only(seq, S) ==
    LET kept[n \in 0..Len(seq)] ==
          IF n = 0 THEN << >>
          ELSE IF seq[n] \in S THEN Append(kept[n - 1], seq[n]) ELSE kept[n - 1]
    IN  kept[Len(seq)]

Numbers(t) == ToSet(devices[t])
Exists(end) == end.device \in Numbers(end.of) /\ end \notin pruned

\* Mutant of NameAt: the reverse order counts down to 0.
NameAtFromZero(i, side, n) == IF side \in Descending THEN n - i - 1 ELSE i + 1

\* The name at position i, counted from 0, of n names in the order of the side.
NameAt(i, side, n) == IF side \in Descending THEN n - i ELSE i + 1

NameOrder(side) ==
    LET n == IF side = "up" THEN UpPorts ELSE DownPorts
    IN  [i \in 1..n |-> NameAt(i - 1, side, n)]

Port(t, k, side, p) == [of |-> t, device |-> k, side |-> side, port |-> p]

\* create_(reverse_)sorted_device_interface_map: the interfaces that device k
\* has, in name order. One that was pruned leaves no gap.
PortsOf(t, k, side) ==
    Only(NameOrder(side), {p \in ToSet(NameOrder(side)) : Port(t, k, side, p) \notin pruned})

\* The devices of the map: those of the list that have interfaces at all.
WithPorts(t, seq, side) == Only(seq, {k \in ToSet(seq) : PortsOf(t, k, side) # << >>})

\* The two maps of a run of o with a devices that saw the list above over it.
Lowers(o, a)     == WithPorts(o, Only(devices[o], 1..a), "up")
Uppers(o, above) == WithPorts(Above(o), Only(above, Numbers(Above(o))), "down")

\* Mutant of PodSlot: pods are spaced one slot too closely.
PodSlotTight(i, n, x) == (i - 2) * (n - 1) + x - 1

\* build_pod_cabling_plan: the x-th spine of pod i below n super-spines.
PodSlot(i, n, x) == (i - 2) * n + x - 1

\* Mutant of RackSlot: one slot for a rack, whose second leaf takes the next.
RackSlotTight(i, k) == (i - 1) + k - 1

\* build_rack_cabling_plan: leaf k takes its place in the rack's two slots.
RackSlot(i, k) == (i * 2 - 2) + k - 1

\* Mutant of Slot: the pods are spaced by their spines, not the super-spines.
SlotByOwnSize(o, i, n, x, k) ==
    IF o \in Pods THEN PodSlot(i, amount[o], x) ELSE RackSlot(i, k)

\* The slot on every upper device for device k, the x-th in query order.
Slot(o, i, n, x, k) == IF o \in Pods THEN PodSlot(i, n, x) ELSE RackSlot(i, k)

Lower(o, k, j) == Port(o, k, "up", PortsOf(o, k, "up")[j])

\* Lists index from either end in Python; beyond that they raise.
InRange(slot, n) == -n <= slot /\ slot < n
Upper(o, i, slot) ==
    LET ports == PortsOf(Above(o), i, "down")
    IN  Port(Above(o), i, "down", ports[(slot % Len(ports)) + 1])

Fewer(a, b) == IF a <= b THEN a ELSE b

\* An interface of device k for every upper device, as far as there are both.
Width(o, k, upper) == Fewer(Len(PortsOf(o, k, "up")), Len(upper))

\* build_pod_cabling_plan, build_rack_cabling_plan: the cables of o with index
\* i, its devices lower and the devices upper above it: interface j of every
\* device goes to upper device j.
CablingPlan(o, i, lower, upper) ==
    UNION {{<<Lower(o, lower[x], j),
              Upper(o, upper[j], Slot(o, i, Len(upper), x, lower[x]))>> :
                j \in 1..Width(o, lower[x], upper)} : x \in 1..Len(lower)}

SlotsInRange(o, i, lower, upper) ==
    \A x \in 1..Len(lower) : \A j \in 1..Width(o, lower[x], upper) :
        InRange(Slot(o, i, Len(upper), x, lower[x]), Len(PortsOf(Above(o), upper[j], "down")))

EndsOf(S) == {l[1] : l \in S} \cup {l[2] : l \in S}

-----------------------------------------------------------------------------
(* The run of owner o                                                       *)

\* The devices that miss are created in the order of their numbers.
Upserted(present, n) ==
    present \o Only([k \in 1..n |-> k], 1..n \ ToSet(present))

\* A run starts, for whatever reason: the query is answered, the tier above
\* counted, and the devices that miss are created; a new device concerns the
\* tier below. A run that finds the tier above incomplete raises before it
\* changes anything, and is no step here.
Build(o) ==
    /\ run[o].pc = "idle"
    /\ Cardinality({u \in Owners : run[u].pc # "idle"}) < Workers
    /\ Len(devices[Above(o)]) = amount[Above(o)]
    /\ run' = [run EXCEPT ![o] = [pc |-> "plan", index |-> index[o], amount |-> amount[o],
                                  upper |-> devices[Above(o)], plan |-> {}, made |-> {}]]
    /\ devices' = [devices EXCEPT ![o] = Upserted(@, amount[o])]
    /\ due' = (due \ {o}) \cup (IF devices' = devices THEN {} ELSE Below(o))
    /\ UNCHANGED <<design, cables, edits, failures>>

\* generate() raised, or the worker is gone: what was written stays, and the
\* members of the group are those of the last run that finished.
GiveUp(o) ==
    /\ run' = [run EXCEPT ![o] = Idle]
    /\ due' = due \cup {o}
    /\ UNCHANGED <<design, devices, cables, edits>>

Raise(o) == GiveUp(o) /\ UNCHANGED failures

\* connect_spine_to_super_spine, connect_leafs_to_spine: fetch and sort the
\* interfaces on both sides and plan every cable before the first is laid.
PlanCables(o) ==
    LET lower == Lowers(o, run[o].amount)
        upper == Uppers(o, run[o].upper)
    IN  /\ run[o].pc = "plan"
        /\ IF SlotsInRange(o, run[o].index, lower, upper)
             THEN /\ run' = [run EXCEPT ![o].pc = "connect",
                                        ![o].plan = CablingPlan(o, run[o].index, lower, upper)]
                  /\ UNCHANGED <<design, devices, cables, due, edits, failures>>
             ELSE Raise(o)

\* Plans list the devices oldest first and their interfaces in name order.
Rank(o, e) == (UpPorts + 1) * SelectInSeq(devices[o], LAMBDA k : k = e.device)
              + SelectInSeq(NameOrder("up"), LAMBDA p : p = e.port)
Foremost(o, l) == l \in run[o].plan /\ \A m \in run[o].plan : Rank(o, l[1]) <= Rank(o, m[1])

\* Mutant of Connect: an interface that is on a link already stays on it.
ConnectOnce(o) ==
    \E l \in run[o].plan :
        LET ends == {l[1], l[2]}
        IN  /\ run[o].pc = "connect"
            /\ Foremost(o, l) /\ \A e \in ends : Exists(e)
            /\ run' = [run EXCEPT ![o].plan = @ \ {l}, ![o].made = @ \cup {l}]
            /\ links' = links \cup {l}
            /\ plugged' = plugged \cup ({e \in ends : \A q \in plugged : q[1] # e} \X {l})
            /\ UNCHANGED <<design, devices, pruned, group, due, edits, failures>>

\* connect_interface_maps, one cable: the link is upserted by its name and both
\* interfaces now point at it. An interface that is on another link already
\* makes a strict platform refuse; a lax one re-points the interface.
Connect(o) ==
    \E l \in run[o].plan :
        LET ends == {l[1], l[2]}
        IN  /\ run[o].pc = "connect"
            /\ Foremost(o, l)
            /\ IF \/ \E e \in ends : ~Exists(e)
                  \/ RefuseSecondCable /\ \E q \in plugged : q[1] \in ends /\ q[2] # l
                 THEN Raise(o)
                 ELSE /\ run' = [run EXCEPT ![o].plan = @ \ {l}, ![o].made = @ \cup {l}]
                      /\ links' = links \cup {l}
                      /\ plugged' = {q \in plugged : q[1] \notin ends} \cup (ends \X {l})
                      /\ UNCHANGED <<design, devices, pruned, group, due, edits, failures>>

\* What remains of a set of interfaces, or of the groups, without devices S of t.
Without(ends, t, S) == {e \in ends : ~(e.of = t /\ e.device \in S)}
GroupsWithout(t, S) ==
    [o \in Owners |-> [group[o] EXCEPT !.ends = Without(@, t, S),
                                       !.devices = IF o = t THEN @ \ S ELSE @]]

\* Tracking mode: the members of the group that this run did not save again
\* are deleted: links, interfaces of either tier, devices with all of theirs.
\* What the run saved are the members from now on.
Finish(o) ==
    LET surplus  == group[o].devices \ 1..run[o].amount
        obsolete == group[o].links \ run[o].made
        unsaved  == group[o].ends \ EndsOf(run[o].made)
        others   == GroupsWithout(o, surplus)
    IN  /\ run[o].pc = "connect"
        /\ run[o].plan = {}
        /\ run' = [run EXCEPT ![o] = Idle]
        /\ devices' = [devices EXCEPT ![o] = Only(@, Numbers(o) \ surplus)]
        /\ due' = IF surplus = {} THEN due ELSE due \cup Below(o)
        /\ links' = links \ obsolete
        /\ pruned' = Without(pruned \cup unsaved, o, surplus)
        /\ plugged' = {q \in plugged : /\ q[2] \notin obsolete
                                       /\ q[1] \in Without({q[1]}, o, surplus) \ unsaved}
        /\ group' = [u \in Owners |->
                       IF u = o THEN [links |-> run[o].made, devices |-> 1..run[o].amount,
                                      ends |-> {e \in EndsOf(run[o].made) : Exists(e)}]
                       ELSE [others[u] EXCEPT !.ends = @ \ unsaved]]
        /\ UNCHANGED <<design, edits, failures>>

RunStep(o) == PlanCables(o) \/ Connect(o) \/ Finish(o)

-----------------------------------------------------------------------------
(* Around the runs                                                          *)

Die(o) ==
    /\ run[o].pc # "idle"
    /\ failures < MaxFailures
    /\ failures' = failures + 1
    /\ GiveUp(o)

\* Devices S of t are deleted: their interfaces go with them, the links they
\* were on stay.
DevicesGo(t, S) ==
    /\ plugged' = {q \in plugged : ~(q[1].of = t /\ q[1].device \in S)}
    /\ pruned' = Without(pruned, t, S)
    /\ group' = GroupsWithout(t, S)

\* FabricGenerator: the super-spines become as many as the design asks for.
BuildFabric ==
    /\ devices' = [devices EXCEPT ![Fabric] =
                     Upserted(Only(@, 1..amount[Fabric]), amount[Fabric])]
    /\ DevicesGo(Fabric, Numbers(Fabric) \ 1..amount[Fabric])
    /\ due' = (due \ {Fabric}) \cup (IF devices' = devices THEN {} ELSE Below(Fabric))
    /\ UNCHANGED <<design, links, run, edits, failures>>

Resting(S) == MayActDuringRun \/ \A o \in S : run[o].pc = "idle"

\* Nothing that a run of o made is there.
Unbuilt(o) == devices[o] = << >> /\ \A l \in links : l[1].of # o

Edited ==
    /\ edits < MaxEdits
    /\ edits' = edits + 1
    /\ UNCHANGED <<run, failures>>

\* A pod or a rack gets another index, one that none of its siblings has.
Reindex(o, i) ==
    /\ i \in Indexes[o] \ {index[o]}
    /\ \A q \in Siblings(o) : index[q] # i
    /\ Resting({o})
    /\ MayMove \/ Unbuilt(o)
    /\ index' = [index EXCEPT ![o] = i]
    /\ due' = due \cup {o}
    /\ Edited
    /\ UNCHANGED <<amount, devices, cables>>

\* More or fewer devices. The number of super-spines spaces the pods.
Resize(t, n) ==
    /\ n \in Sizes[t] \ {amount[t]}
    /\ t = Fabric => Resting(Pods)
    /\ MayMove \/ (n > amount[t] /\ (t = Fabric => \A p \in Pods : Unbuilt(p)))
    /\ NotWide([amount EXCEPT ![t] = n])
    /\ amount' = [amount EXCEPT ![t] = n]
    /\ due' = due \cup {t} \cup Below(t)
    /\ Edited
    /\ UNCHANGED <<index, devices, cables>>

\* The operator deletes a device. The next run makes it anew, now the youngest.
Replace(t, k) ==
    /\ k \in Numbers(t)
    /\ Resting((Owners \cap {t}) \cup Below(t))
    /\ devices' = [devices EXCEPT ![t] = Only(@, Numbers(t) \ {k})]
    /\ DevicesGo(t, {k})
    /\ due' = due \cup {t} \cup Below(t)
    /\ Edited
    /\ UNCHANGED <<design, links>>

Next ==
    \/ \E o \in Owners : Build(o) \/ RunStep(o) \/ Die(o)
    \/ BuildFabric
    \/ \E o \in Owners : \E i \in Indexes[o] : Reindex(o, i)
    \/ \E t \in Targets : \E n \in Sizes[t] : Resize(t, n)
    \/ \E t \in Targets : \E k \in Numbers(t) : Replace(t, k)

Spec == Init /\ [][Next]_vars

-----------------------------------------------------------------------------
(* Properties                                                               *)

\* What the design asks for, among the devices there are.
Planned(o) ==
    LET lower == Lowers(o, amount[o])
        upper == Uppers(o, devices[Above(o)])
    IN  IF SlotsInRange(o, index[o], lower, upper)
        THEN CablingPlan(o, index[o], lower, upper) ELSE {}
Ends(l)    == {l[1], l[2]} \X {l}
Whole(l)   == l \in links /\ Ends(l) \subseteq plugged

Quiet == due = {} /\ \A o \in Owners : run[o].pc = "idle"

(* Once every target has had a run that saw the design and the tier above as *)
(* they are, and finished, every interface is plugged as planned and no      *)
(* other is plugged: whatever was edited, whichever device was replaced and  *)
(* wherever a run died before. A link of a run that died may be left over,   *)
(* with no interface on it (connect_interface_maps, the group's pruning).    *)
QuietMeansCabled ==
    Quiet => LET planned == UNION {Planned(o) : o \in Owners}
             IN  /\ planned \subseteq links
                 /\ plugged = UNION {Ends(l) : l \in planned}
                 /\ \A o \in Owners : Numbers(o) = 1..amount[o]

\* o's run works to another plan than today's: a resize or a run of the tier
\* above has overtaken it.
Overtaken(o) == /\ run[o].pc # "idle"
                /\ \/ run[o].amount # amount[o]
                   \/ run[o].upper # devices[Above(o)]

(* A cable that is laid as planned is never unplugged while both of its      *)
(* devices exist: "the same rack must always land on the same spine          *)
(* interfaces, regardless of what happens to other racks"                    *)
(* (build_rack_cabling_plan), and "the offset formula ensures that pods do   *)
(* not compete for the same interfaces" (modular-generator-architecture.mdx, *)
(* build_pod_cabling_plan). Only a run of its own that was overtaken may do  *)
(* so, and the next one lays it again.                                       *)
CablesStay ==
    [][\A q \in plugged \ plugged' :
         LET l == q[2]
         IN  /\ Whole(l) /\ Exists(l[1])' /\ Exists(l[2])'
             /\ l \in Planned(l[1].of) /\ l \in Planned(l[1].of)'
             => Overtaken(l[1].of)]_vars

(* No run deletes an interface of a device that stays, of its own tier or of *)
(* the tier above: "the fabric generators own the interfaces they address    *)
(* and produce the same set every run", which is why they may keep them in   *)
(* their group (assign_ip_addresses_to_p2p_connections). True as long as     *)
(* nothing that was cabled is moved, whichever devices are replaced or added.*)
PortsStay == pruned = {}

\* The positions that are reserved for o on every device above it, once its
\* tier is built.
Reserved(o) ==
    LET slots == {Slot(o, index[o], amount[Above(o)], x, x) : x \in 1..amount[o]}
    IN  IF \A s \in slots : InRange(s, DownPorts) THEN {s % DownPorts : s \in slots} ELSE {}

(* "The offset formula ensures that pods do not compete for the same         *)
(* interfaces - each pod owns a contiguous range of slots on every super     *)
(* spine device" (modular-generator-architecture.mdx), and racks likewise.   *)
RangesDisjoint ==
    \A o \in Owners : \A q \in Siblings(o) : Reserved(o) \cap Reserved(q) = {}
=============================================================================
