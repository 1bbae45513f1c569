------------------------- MODULE CascadeSettles_proofs -------------------------
(***************************************************************************)
(* The cascade never stops short, for every fabric, number of workers and  *)
(* bound: as long as amounts only grow and no plan asks for a port that is *)
(* not there, whatever is not built yet is owed a run, and what was stamped *)
(* is never taken back.                                                    *)
(***************************************************************************)
EXTENDS Cascade_proofs, FunctionTheorems

(* The first n devices of a design object: without a device deleted, the   *)
(* number in the hostname is the number of the node id.                    *)
Switches(t, n) == {<<t, i, i>> : i \in 1..n}

\* The switches the devices of t are cabled to when there are m above them: as
\* many as they have uplinks for.
Fewest(k, m) == IF k <= m THEN k ELSE m
Cabled(t, m) == Switches(ParentOf(t), Fewest(Uplinks[t], m))

\* The links between n switches of t and m switches of the tier above it.
Wires(t, n, m) == IF t = Fabric THEN {} ELSE Switches(t, n) \X Cabled(t, m)

\* What a run that asked for n switches, and m above, takes its digest over.
Reach(t, n, m) == Switches(t, n) \cup (IF t \in Pods /\ n > 0 THEN Cabled(t, m) ELSE {})

ChildrenOf(t) == {c \in Children : ParentOf(c) = t}
Recorded(c)   == checksum[c] # NoDigest

LEMMA Family ==
    /\ Children \subseteq Targets /\ Fabric \in Targets /\ Fabric \notin Children
    /\ \A t \in Targets : ParentOf(t) \in Targets
    /\ \A c \in Children : ParentOf(c) # c /\ ParentOf(c) \notin FabricPods
                           /\ c \in ChildrenOf(ParentOf(c))
    /\ ChildrenOf(Fabric) = Pods
    /\ \A p \in Pods : ChildrenOf(p) = RacksOf(p) /\ ParentOf(p) = Fabric
    /\ \A r \in Racks : ChildrenOf(r) = {} /\ ParentOf(r) = PodOf[r]
BY TargetsAreDistinct DEF Children, Targets, ParentOf, ChildrenOf, RacksOf

LEMMA NoSwitches == ASSUME NEW t PROVE Switches(t, 0) = {}
BY DEF Switches

LEMMA NextSwitch ==
    ASSUME NEW t, NEW n \in Nat
    PROVE  Switches(t, n + 1) = Switches(t, n) \cup {<<t, n + 1, n + 1>>}
BY DEF Switches

LEMMA SwitchesGrow ==
    ASSUME NEW t, NEW m \in Nat, NEW n \in Nat, m <= n
    PROVE  Switches(t, m) \subseteq Switches(t, n)
BY DEF Switches

LEMMA CabledGrow ==
    ASSUME NEW c \in Children, NEW k \in Nat, NEW l \in Nat, k <= l
    PROVE  Cabled(c, k) \subseteq Cabled(c, l) /\ Cabled(c, l) \subseteq Switches(ParentOf(c), l)
<1>1. Uplinks[c] \in Nat
  BY BoundsAreNumbers
<1> QED
  BY <1>1, SwitchesGrow DEF Cabled, Fewest

LEMMA WiresGrow ==
    ASSUME NEW t \in Targets, NEW m \in Nat, NEW n \in Nat, m <= n,
           NEW k \in Nat, NEW l \in Nat, t # Fabric => k <= l
    PROVE  Wires(t, m, k) \subseteq Wires(t, n, l)
BY SwitchesGrow, CabledGrow DEF Wires, Targets, Children

LEMMA ReachGrows ==
    ASSUME NEW t \in Targets, NEW m \in Nat, NEW n \in Nat, m <= n,
           NEW k \in Nat, NEW l \in Nat, t \in Pods => k <= l
    PROVE  Reach(t, m, k) \subseteq Reach(t, n, l)
BY SwitchesGrow, CabledGrow DEF Reach, Targets, Children

(* There are n of them, which is what the gates of the tier below count.     *)
LEMMA SwitchesCount ==
    ASSUME NEW t, NEW n \in Nat
    PROVE  IsFiniteSet(Switches(t, n)) /\ Cardinality(Switches(t, n)) = n
<1> DEFINE f == [i \in 1..n |-> <<t, i, i>>]
<1>1. f \in Bijection(1..n, Switches(t, n))
  <2>1. f \in [1..n -> Switches(t, n)]
    BY DEF Switches
  <2>2. f \in Injection(1..n, Switches(t, n))
    <3>1. ASSUME NEW i \in 1..n, NEW j \in 1..n, f[i] = f[j] PROVE i = j
      BY <3>1
    <3> QED
      BY <2>1, <3>1, Fun_IsInj
  <2>3. \A d \in Switches(t, n) : \E i \in 1..n : f[i] = d
    BY DEF Switches
  <2>4. f \in Surjection(1..n, Switches(t, n))
    BY <2>1, <2>3, Fun_IsSurj
  <2> QED
    BY <2>2, <2>4 DEF Bijection
<1>2. IsFiniteSet(1..n) /\ Cardinality(1..n) = n
  BY FS_Interval
<1> QED
  BY <1>1, <1>2, FS_Bijection DEF ExistsBijection

(* The first k of m switches are the ones a device with k uplinks reaches.   *)
LEMMA FirstSwitches ==
    ASSUME NEW u, NEW k \in Nat, NEW m \in Nat
    PROVE  First(k, Switches(u, m)) = Switches(u, Fewest(k, m))
<1>1. ASSUME NEW i \in 1..m
      PROVE  Cardinality({e \in Switches(u, m) : e[3] < i}) = i - 1
  <2>1. {e \in Switches(u, m) : e[3] < i} = Switches(u, i - 1)
    BY DEF Switches
  <2>. QED
    BY <2>1, SwitchesCount
<1>2. \A d \in Switches(u, m) : \E i \in 1..m : d = <<u, i, i>>
  BY DEF Switches
<1>3. First(k, Switches(u, m)) = {<<u, i, i>> : i \in {j \in 1..m : j - 1 < k}}
  BY <1>1, <1>2 DEF First, Switches
<1>4. {j \in 1..m : j - 1 < k} = 1..Fewest(k, m)
  BY DEF Fewest
<1> QED
  BY <1>3, <1>4 DEF Switches

(* One switch more than the tier has is in nothing that was taken over it.   *)
LEMMA OneMore ==
    ASSUME NEW t, NEW n \in Nat, NEW b \in Nat, NEW m \in Nat, b < n, t \in Pods => t # Fabric
    PROVE  ~(Switches(t, n) \subseteq Reach(t, b, m))
<1>1. <<t, n, n>> \in Switches(t, n) /\ <<t, n, n>> \notin Switches(t, b)
  BY DEF Switches
<1>2. t \in Pods => <<t, n, n>> \notin Cabled(t, m)
  BY Family DEF Switches, Cabled
<1> QED
  BY <1>1, <1>2 DEF Reach

-----------------------------------------------------------------------------
(* The invariant. What the graph holds about a design object: its devices    *)
(* are as many as were ever born, no more than it asks for, and its group    *)
(* and the checksums below it were taken over some of them.                  *)

Counted(t) ==
    /\ DevicesOf(t) = Switches(t, born[t])
    /\ born[t] <= amount[t] /\ amount[t] <= MaxAmount
    /\ tracked[t] \subseteq Switches(t, born[t])
    /\ trackedLinks[t] \subseteq Wires(t, born[t], born[ParentOf(t)])
    /\ \A c \in ChildrenOf(t) :
           Recorded(c) => checksum[c] \subseteq Reach(t, born[t], born[Fabric]) /\ pools[t]

\* What a run read is outdated at worst, and covers what runs before it left.
Grows(r) ==
    /\ r.target \notin FabricPods
    /\ r.want <= amount[r.target]
    /\ r.target # Fabric => r.wantUp <= amount[ParentOf(r.target)]
    /\ \E m \in Nat : m <= r.want /\ m <= born[r.target] /\ r.made = Switches(r.target, m)
    /\ r.left \subseteq r.made
    /\ tracked[r.target] \subseteq Switches(r.target, r.want)
    /\ trackedLinks[r.target] \subseteq Wires(r.target, r.want, r.wantUp)
    /\ \A c \in ChildrenOf(r.target) :
           Recorded(c) => checksum[c] \subseteq Reach(r.target, r.want, r.wantUp)

\* What a run established so far, by its place: past the gate the tier above is
\* complete, past the cabling its own tier is, past the signal its children know.
Stands(r) ==
    /\ r.target # Fabric /\ r.pc # "gate" =>
           r.upper = Switches(ParentOf(r.target), r.wantUp) /\ r.wantUp <= born[ParentOf(r.target)]
    /\ r.target = Fabric => r.upper = {} /\ r.pc # "gate"
    /\ r.target \notin Racks /\ r.pc \notin {"gate", "pools"} => pools[r.target]
    /\ r.pc \in {"gate", "pools", "create"} => r.wired = {}
    /\ r.pc \in {"signal", "alloc", "reread", "overlay"} =>
           /\ r.made = Switches(r.target, r.want) /\ r.want <= born[r.target]
           /\ r.wired = Wires(r.target, r.want, r.wantUp) /\ r.wired \subseteq links
           /\ \A c \in ChildrenOf(r.target) :
                  \/ r.pc = "signal" /\ c \in r.todo
                  \/ checksum[c] = Reach(r.target, r.want, r.wantUp)
    /\ r.pc = "signal" /\ r.target \notin Racks =>
           r.digest = Reach(r.target, r.want, r.wantUp) /\ r.todo \subseteq ChildrenOf(r.target)

(* The debt. A design object that is not built has a run dispatched or under *)
(* way, or died, or owes itself one: the tier above it did not stamp it yet  *)
(* with what it asks for now, so that its stamp is still to change.          *)

Owes(c) == ~Recorded(c) \/ ~(Switches(ParentOf(c), amount[ParentOf(c)]) \subseteq checksum[c])

Awaits(t) == pending[t] > 0 \/ (t # Fabric /\ Owes(t))

Finished(t) ==
    /\ born[t] = amount[t]
    /\ Wires(t, amount[t], amount[ParentOf(t)]) \subseteq links
    /\ \A c \in ChildrenOf(t) : ~Owes(c)

\* A run that works with an outdated amount is going to be repeated.
UpToDate(r) ==
    \/ r.want = amount[r.target] /\ (r.target # Fabric => r.wantUp = amount[ParentOf(r.target)])
    \/ Awaits(r.target)

Debt(t) == Awaits(t) \/ t \in broken \/ Busy(t) \/ Finished(t)

Lawful(r) == r.pc # "idle" => Grows(r) /\ Stands(r) /\ UpToDate(r)

LedgerInv ==
    /\ \A t \in Targets : Counted(t)
    /\ \A w \in Workers : Lawful(run[w])
    /\ \A t \in Targets \ FabricPods : Debt(t)

LEMMA IdleIsLawful == Lawful(Idle)
BY DEF Lawful, Idle

LEMMA InitLedger == Init => LedgerInv
<1> SUFFICES ASSUME Init PROVE LedgerInv
  OBVIOUS
<1>1. ASSUME NEW t \in Targets PROVE Counted(t)
  <2>1. amount[t] \in 0..MaxAmount
    BY BoundsAreNumbers DEF Init
  <2>2. DevicesOf(t) = {} /\ born[t] = 0 /\ tracked[t] = {} /\ trackedLinks[t] = {}
        /\ \A c \in Children : ~Recorded(c)
    BY DEF Init, DevicesOf, Recorded
  <2> QED
    BY <2>1, <2>2, NoSwitches, BoundsAreNumbers DEF Counted, ChildrenOf
<1>2. \A w \in Workers : Lawful(run[w])
  BY IdleIsLawful DEF Init
<1>3. ASSUME NEW t \in Targets \ FabricPods PROVE Debt(t)
  <2>1. t = Fabric \/ t \in Children
    BY DEF Targets, Children
  <2>2. CASE t = Fabric
    BY <2>2 DEF Init, Debt, Awaits
  <2>3. CASE t \in Children
    BY <2>3, Family DEF Init, Debt, Awaits, Owes, Recorded
  <2> QED
    BY <2>1, <2>2, <2>3
<1> QED
  BY <1>1, <1>2, <1>3 DEF LedgerInv

(* The types the steps below need.                                           *)
LEMMA Numbers ==
    ASSUME TypeInv
    PROVE  /\ \A t \in Targets : amount[t] \in Nat /\ born[t] \in Nat /\ pending[t] \in Nat
           /\ \A t \in Targets : amount[ParentOf(t)] \in Nat /\ born[ParentOf(t)] \in Nat
           /\ amount[Fabric] \in Nat /\ born[Fabric] \in Nat
           /\ \A w \in Workers : /\ run[w] \in RunState /\ run[w].target \in Targets
                                 /\ run[w].want \in Nat /\ run[w].wantUp \in Nat
                                 /\ IsFiniteSet(run[w].made)
BY Family DEF TypeInv, TypeOK, RunState

(* A tier that is short of what its children ought to know about owes them.  *)
LEMMA ShortOwes ==
    ASSUME TypeInv, NEW c \in Children, Counted(ParentOf(c)),
           NEW n \in Nat, born[ParentOf(c)] < n, Recorded(c)
    PROVE  ~(Switches(ParentOf(c), n) \subseteq checksum[c])
<1> DEFINE u == ParentOf(c)
<1>1. u \in Targets /\ c \in ChildrenOf(u) /\ born[u] \in Nat /\ born[Fabric] \in Nat
  BY Family, Numbers
<1>2. checksum[c] \subseteq Reach(u, born[u], born[Fabric])
  BY <1>1 DEF Counted
<1>3. u \in Pods => u # Fabric
  BY TargetsAreDistinct
<1>4. ~(Switches(u, n) \subseteq Reach(u, born[u], born[Fabric]))
  BY <1>1, <1>3, OneMore
<1> QED
  BY <1>2, <1>4

(* What a run holds survives whatever the runs of other design objects do.   *)
LEMMA OthersGrow ==
    ASSUME TypeInv, TypeInv', NEW r \in RunState, Grows(r), Stands(r),
           \A t \in Targets : /\ amount[t] <= amount'[t] /\ born[t] <= born'[t]
                              /\ pools[t] => pools'[t],
           links \subseteq links', tracked'[r.target] = tracked[r.target],
           trackedLinks'[r.target] = trackedLinks[r.target],
           \A c \in ChildrenOf(r.target) : checksum'[c] = checksum[c]
    PROVE  Grows(r)' /\ Stands(r)'
<1> DEFINE t == r.target
           u == ParentOf(t)
<1>1. /\ t \in Targets /\ u \in Targets /\ r.want \in Nat /\ r.wantUp \in Nat
      /\ amount[t] \in Nat /\ born[t] \in Nat /\ amount[u] \in Nat /\ born[u] \in Nat
  BY Family, Numbers DEF RunState
<1>2. /\ amount'[t] \in Nat /\ born'[t] \in Nat /\ amount'[u] \in Nat /\ born'[u] \in Nat
  BY <1>1, Family DEF TypeInv, TypeOK
<1>3. Grows(r)'
  BY <1>1, <1>2 DEF Grows, Recorded
<1>4. Stands(r)'
  BY <1>1, <1>2 DEF Stands
<1> QED
  BY <1>3, <1>4

LEMMA OthersLawful ==
    ASSUME TypeInv, TypeInv', NEW r \in RunState, Lawful(r),
           \A t \in Targets : /\ amount[t] <= amount'[t] /\ born[t] <= born'[t]
                              /\ pools[t] => pools'[t],
           links \subseteq links', tracked'[r.target] = tracked[r.target],
           trackedLinks'[r.target] = trackedLinks[r.target],
           \A c \in ChildrenOf(r.target) : checksum'[c] = checksum[c],
           Awaits(r.target) => Awaits(r.target)',
           \/ Awaits(r.target)'
           \/ /\ amount'[r.target] = amount[r.target]
              /\ amount'[ParentOf(r.target)] = amount[ParentOf(r.target)]
    PROVE  Lawful(r)'
<1> SUFFICES ASSUME r.pc # "idle" PROVE Grows(r)' /\ Stands(r)' /\ UpToDate(r)'
  BY DEF Lawful
<1>1. Grows(r)' /\ Stands(r)'
  BY OthersGrow DEF Lawful
<1>2. UpToDate(r)
  BY DEF Lawful
<1>3. UpToDate(r)'
  <2>1. CASE Awaits(r.target)'
    BY <2>1 DEF UpToDate
  <2>2. CASE ~Awaits(r.target)'
    BY <1>2, <2>2 DEF UpToDate
  <2>. QED
    BY <2>1, <2>2
<1> QED
  BY <1>1, <1>3

(* A step that leaves the design, the checksums, the queue and the groups    *)
(* alone: only the run that takes it and its own tier are at stake.          *)
LEMMA WorkerMoves ==
    ASSUME TypeInv, TypeInv', LedgerInv, NEW w \in Workers, NEW r \in RunState,
           run' = [run EXCEPT ![w] = r], run[w].pc # "idle", r.pc # "idle",
           r.target = run[w].target, r.want = run[w].want, r.wantUp = run[w].wantUp,
           UNCHANGED <<amount, checksum, pending, broken, tracked, trackedLinks>>,
           \A t \in Targets : born[t] <= born'[t] /\ (pools[t] => pools'[t]),
           \A t \in Targets : t # r.target => born'[t] = born[t],
           links \subseteq links', \A t \in Targets : Counted(t)',
           Grows(r)', Stands(r)'
    PROVE  LedgerInv'
<1>1. \A v \in Workers : run'[v] = IF v = w THEN r ELSE run[v]
  BY DEF TypeInv, TypeOK
<1>2. \A t \in Targets : amount[t] <= amount'[t]
  BY Numbers
<1>3. \A t \in Targets : Awaits(t)' <=> Awaits(t)
  BY DEF Awaits, Owes, Recorded
<1>4. UpToDate(r)'
  <2>1. UpToDate(run[w]) /\ run[w].target \in Targets
    BY Numbers DEF LedgerInv, Lawful
  <2>. QED
    BY <1>3, <2>1 DEF UpToDate
<1>5. ASSUME NEW v \in Workers PROVE Lawful(run[v])'
  <2>1. CASE v = w
    BY <1>1, <1>4, <2>1 DEF Lawful
  <2>2. CASE v # w
    <3>1. PICK b : b = run[v]
      OBVIOUS
    <3>2. run'[v] = b /\ b \in RunState /\ b.target \in Targets /\ Lawful(b)
      BY <1>1, <2>2, <3>1, Numbers DEF LedgerInv
    <3>3. /\ amount'[b.target] = amount[b.target]
          /\ amount'[ParentOf(b.target)] = amount[ParentOf(b.target)]
          /\ tracked'[b.target] = tracked[b.target]
          /\ trackedLinks'[b.target] = trackedLinks[b.target]
          /\ \A c \in ChildrenOf(b.target) : checksum'[c] = checksum[c]
      OBVIOUS
    <3>4. Lawful(b)'
      BY <1>2, <1>3, <3>2, <3>3, OthersLawful
    <3>. QED
      BY <3>2, <3>4
  <2>. QED
    BY <2>1, <2>2
<1>6. ASSUME NEW t \in Targets \ FabricPods PROVE Debt(t)'
  <2>1. Busy(t)' <=> Busy(t)
    BY <1>1 DEF Busy
  <2>2. CASE t = r.target
    BY <1>1, <2>2 DEF Busy, Debt
  <2>3. CASE t # r.target
    <3>1. Finished(t) => Finished(t)'
      BY <2>3 DEF Finished, Owes, Recorded
    <3>. QED
      BY <1>3, <2>1, <3>1 DEF LedgerInv, Debt
  <2>. QED
    BY <2>2, <2>3
<1> QED
  BY <1>5, <1>6 DEF LedgerInv

(* The same when no device is made either.                                   *)
LEMMA GoesOnLedger ==
    ASSUME TypeInv, TypeInv', LedgerInv, NEW w \in Workers, NEW r \in RunState,
           run' = [run EXCEPT ![w] = r], run[w].pc # "idle", r.pc # "idle",
           r.target = run[w].target, r.want = run[w].want, r.wantUp = run[w].wantUp,
           r.made = run[w].made, r.left \subseteq r.made,
           UNCHANGED <<amount, devices, born, checksum, pending, broken, tracked, trackedLinks>>,
           \A t \in Targets : pools[t] => pools'[t], links \subseteq links', Stands(r)'
    PROVE  LedgerInv'
<1>1. \A t \in Targets : Counted(t)'
  BY Family DEF LedgerInv, Counted, DevicesOf, Recorded, ChildrenOf
<1>2. Grows(run[w])
  BY DEF LedgerInv, Lawful
<1>3. Grows(r)'
  BY <1>2 DEF Grows, Recorded
<1>4. \A t \in Targets : born[t] <= born'[t]
  BY Numbers
<1> QED
  BY <1>1, <1>3, <1>4, WorkerMoves

(* A run that ends without having written anything its debt does not cover.  *)
LEMMA EndsLedger ==
    ASSUME TypeInv, TypeInv', LedgerInv, NEW w \in Workers, run' = [run EXCEPT ![w] = Idle],
           run[w].pc # "idle", UNCHANGED <<design, nodes, checksum, asn, pending>>,
           broken \subseteq broken', Awaits(run[w].target) \/ run[w].target \in broken'
    PROVE  LedgerInv'
<1>1. \A v \in Workers : run'[v] = IF v = w THEN Idle ELSE run[v]
  BY DEF TypeInv, TypeOK
<1>2. UNCHANGED <<amount, devices, born, links, pools, checksum, tracked, trackedLinks, pending>>
  BY DEF design, nodes
<1>3. \A t \in Targets : Counted(t)'
  BY <1>2, Family DEF LedgerInv, Counted, DevicesOf, Recorded, ChildrenOf
<1>4. \A t \in Targets : (Awaits(t)' <=> Awaits(t)) /\ (Finished(t)' <=> Finished(t))
  BY <1>2 DEF Awaits, Finished, Owes, Recorded
<1>5. ASSUME NEW v \in Workers PROVE Lawful(run[v])'
  <2>1. CASE v = w
    BY <1>1, <2>1 DEF Lawful, Idle
  <2>2. CASE v # w
    <3>1. PICK b : b = run[v]
      OBVIOUS
    <3>2. run'[v] = b /\ b \in RunState /\ b.target \in Targets /\ Lawful(b)
      BY <1>1, <2>2, <3>1, Numbers DEF LedgerInv
    <3>3. \A t \in Targets : amount[t] <= amount'[t] /\ born[t] <= born'[t]
      BY <1>2, Numbers
    <3>4. Lawful(b)'
      BY <1>2, <1>4, <3>2, <3>3, OthersLawful
    <3>. QED
      BY <3>2, <3>4
  <2>. QED
    BY <2>1, <2>2
<1>6. ASSUME NEW t \in Targets \ FabricPods PROVE Debt(t)'
  <2>1. CASE t = run[w].target
    BY <1>4, <2>1 DEF Debt
  <2>2. CASE t # run[w].target
    <3>1. Busy(t) => Busy(t)'
      BY <1>1, <2>2 DEF Busy
    <3>. QED
      BY <1>4, <3>1 DEF LedgerInv, Debt
  <2>. QED
    BY <2>1, <2>2
<1> QED
  BY <1>3, <1>5, <1>6 DEF LedgerInv

LEMMA AbortLedger ==
    ASSUME TypeInv, TypeInv', LedgerInv, NEW w \in Workers, run[w].pc # "idle",
           Abort(w), Awaits(run[w].target)
    PROVE  LedgerInv'
BY EndsLedger DEF Abort, faults

LEMMA DieLedger ==
    ASSUME TypeInv, TypeInv', LedgerInv, NEW w \in Workers, Die(w) PROVE LedgerInv'
BY EndsLedger DEF Die

(* A dispatched run taken off the queue: what is left of the debt is the run  *)
(* itself, or it was not the queue's to begin with.                          *)
LEMMA TakenLedger ==
    ASSUME TypeInv, TypeInv', LedgerInv, OneRunPerTarget, NEW w \in Workers,
           NEW t \in Targets, Dequeue(w, t), UNCHANGED <<amount, nodes, checksum>>,
           broken \ {t} \subseteq broken', \A v \in Workers : v # w => run'[v] = run[v],
           Lawful(run[w])', Busy(t)' \/ Awaits(t)' \/ t \in FabricPods
    PROVE  LedgerInv'
<1>1. UNCHANGED <<amount, devices, born, links, pools, checksum, tracked, trackedLinks>>
  BY DEF nodes
<1>2. \A u \in Targets : u # t => pending'[u] = pending[u]
  BY DEF Dequeue, TypeInv, TypeOK
<1>3. \A u \in Targets : Counted(u)'
  BY <1>1, Family DEF LedgerInv, Counted, DevicesOf, Recorded, ChildrenOf
<1>4. \A u \in Targets : /\ u # t => (Awaits(u)' <=> Awaits(u))
                         /\ Finished(u)' <=> Finished(u)
  BY <1>1, <1>2 DEF Awaits, Finished, Owes, Recorded
<1>5. ASSUME NEW v \in Workers PROVE Lawful(run[v])'
  <2>1. CASE v = w
    BY <2>1 DEF Lawful
  <2>2. CASE v # w
    <3>1. PICK b : b = run[v]
      OBVIOUS
    <3>2. run'[v] = b /\ b \in RunState /\ b.target \in Targets /\ Lawful(b)
      BY <2>2, <3>1, Numbers DEF LedgerInv
    <3>3. CASE b.pc = "idle"
      BY <3>2, <3>3 DEF Lawful
    <3>4. CASE b.pc # "idle"
      <4>1. b.target # t
        BY <3>1, <3>4 DEF Dequeue, Busy
      <4>2. \A u \in Targets : amount[u] <= amount'[u] /\ born[u] <= born'[u]
        BY <1>1, Numbers
      <4>3. Lawful(b)'
        BY <1>1, <1>4, <3>2, <4>1, <4>2, OthersLawful
      <4>. QED
        BY <3>2, <4>3
    <3>. QED
      BY <3>3, <3>4
  <2>. QED
    BY <2>1, <2>2
<1>6. ASSUME NEW u \in Targets \ FabricPods PROVE Debt(u)'
  <2>1. CASE u = t
    BY <2>1 DEF Debt
  <2>2. CASE u # t
    <3>1. Busy(u) => Busy(u)'
      BY DEF Busy, Dequeue
    <3>. QED
      BY <1>4, <2>2, <3>1 DEF LedgerInv, Debt
  <2>. QED
    BY <2>1, <2>2
<1> QED
  BY <1>3, <1>5, <1>6 DEF LedgerInv

(* A run starts with the amounts as they are, which are no less than what    *)
(* the runs before it found.                                                 *)
LEMMA StartLedger ==
    ASSUME TypeInv, TypeInv', LedgerInv, OneRunPerTarget, NEW w \in Workers,
           NEW t \in Targets \ FabricPods, NEW pc \in {"gate", "pools"}, NEW n \in Nat,
           (t = Fabric /\ pc = "pools") \/ (t # Fabric /\ pc = "gate" /\ n = amount[ParentOf(t)]),
           Dequeue(w, t), Begin(w, t, pc, n), UNCHANGED <<design, nodes, checksum, asn, faults>>
    PROVE  LedgerInv'
<1> PICK r : r = [Idle EXCEPT !.pc = pc, !.target = t, !.want = amount[t], !.wantUp = n]
  OBVIOUS
<1> DEFINE u == ParentOf(t)
<1>1. \A v \in Workers : run'[v] = IF v = w THEN r ELSE run[v]
  BY DEF Begin, TypeInv, TypeOK
<1>2. /\ r.pc = pc /\ r.target = t /\ r.want = amount[t] /\ r.wantUp = n
      /\ r.upper = {} /\ r.made = {} /\ r.wired = {} /\ r.left = {}
  BY DEF Idle
<1>3. UNCHANGED <<amount, devices, born, links, pools, checksum, tracked, trackedLinks>>
  BY DEF nodes, design
<1>4. u \in Targets /\ Counted(t) /\ Counted(u) /\ Counted(Fabric)
  BY Family DEF LedgerInv
<1>5. /\ amount[t] \in Nat /\ born[t] \in Nat /\ amount[u] \in Nat /\ born[u] \in Nat
      /\ born[Fabric] \in Nat /\ born[t] <= amount[t] /\ born[u] <= amount[u]
  BY <1>4, Numbers DEF Counted
<1>6. t # Fabric => born[u] <= n
  BY <1>5
<1>7. t \in Pods => born[Fabric] <= n
  BY <1>6, Family, TargetsAreDistinct
<1>8. tracked[t] \subseteq Switches(t, amount[t])
  BY <1>4, <1>5, SwitchesGrow DEF Counted
<1>9. trackedLinks[t] \subseteq Wires(t, amount[t], n)
  BY <1>4, <1>5, <1>6, WiresGrow DEF Counted
<1>10. \A c \in ChildrenOf(t) : Recorded(c) => checksum[c] \subseteq Reach(t, amount[t], n)
  <2>1. Reach(t, born[t], born[Fabric]) \subseteq Reach(t, amount[t], n)
    BY <1>5, <1>7, ReachGrows
  <2>. QED
    BY <1>4, <2>1 DEF Counted
<1>11. Grows(r)'
  <2>1. r.made = Switches(t, 0)
    BY <1>2, NoSwitches
  <2>. QED
    BY <1>2, <1>3, <1>5, <1>6, <1>8, <1>9, <1>10, <2>1 DEF Grows, Recorded
<1>12. Stands(r)'
  BY <1>2 DEF Stands
<1>13. UpToDate(r)'
  BY <1>2, <1>3 DEF UpToDate
<1>14. Lawful(run[w])' /\ Busy(t)'
  BY <1>1, <1>2, <1>11, <1>12, <1>13 DEF Lawful, Busy
<1> QED
  BY <1>1, <1>3, <1>14, TakenLedger DEF design, faults

(* A run that is taken and ends at once.                                     *)
LEMMA SkippedLedger ==
    ASSUME TypeInv, TypeInv', LedgerInv, OneRunPerTarget, NEW w \in Workers, NEW t \in Targets,
           Dequeue(w, t), UNCHANGED <<design, nodes, checksum, asn, run, failures>>,
           broken \ {t} \subseteq broken', Awaits(t)' \/ t \in FabricPods
    PROVE  LedgerInv'
BY TakenLedger DEF design, Dequeue, Lawful

(* A rack whose pod has no pools was never stamped: the pod owes it a run.   *)
LEMMA RejectLedger ==
    ASSUME TypeInv, TypeInv', LedgerInv, OneRunPerTarget, NEW w \in Workers, NEW r \in Racks,
           RackReject(w, r)
    PROVE  LedgerInv'
<1>1. r \in Targets /\ r # Fabric /\ r \in ChildrenOf(PodOf[r]) /\ PodOf[r] \in Targets
  BY Family, TargetsAreDistinct DEF Targets, Children
<1>2. ~Recorded(r)
  BY <1>1 DEF RackReject, LedgerInv, Counted
<1>3. Awaits(r)'
  BY <1>1, <1>2 DEF Awaits, Owes, Recorded, RackReject
<1> QED
  BY <1>1, <1>3, SkippedLedger DEF RackReject, faults

(* A device is upserted: the next one of the run is the one the graph has    *)
(* under that number or, when it has none, the next one to be born.          *)
LEMMA UpsertEffect ==
    ASSUME TypeInv, LedgerInv, NEW w \in Workers, run[w].pc = "create", CreateDevice(w)
    PROVE  \E m \in Nat :
              /\ run[w].made = Switches(run[w].target, m) /\ m + 1 <= run[w].want
              /\ run' = [run EXCEPT ![w].made = Switches(run[w].target, m + 1)]
              /\ \/ /\ m + 1 <= born[run[w].target] /\ UNCHANGED <<devices, born>>
                 \/ /\ born' = [born EXCEPT ![run[w].target] = m + 1]
                    /\ m = born[run[w].target]
                    /\ devices' = devices \cup {<<run[w].target, m + 1, m + 1>>}
<1> DEFINE t == run[w].target
<1>1. Grows(run[w]) /\ Counted(t) /\ t \in Targets
  BY Numbers DEF LedgerInv, Lawful
<1>2. PICK m \in Nat : m <= run[w].want /\ m <= born[t] /\ run[w].made = Switches(t, m)
  BY <1>1 DEF Grows
<1>3. Cardinality(run[w].made) + 1 = m + 1
  BY <1>2, SwitchesCount
<1>4. born[t] \in Nat /\ m + 1 <= run[w].want
  BY <1>1, <1>3, Numbers DEF CreateDevice
<1>5. Switches(t, m + 1) = run[w].made \cup {<<t, m + 1, m + 1>>}
  BY <1>2, NextSwitch
<1> DEFINE existing == {d \in DevicesOf(t) : d[2] = m + 1}
<1>6. \A d \in existing : d = <<t, m + 1, m + 1>> /\ m + 1 <= born[t]
  BY <1>1 DEF Counted, Switches
<1>7. CASE existing # {}
  <2>1. PICK d \in existing : /\ run' = [run EXCEPT ![w].made = @ \cup {d}]
                              /\ UNCHANGED <<devices, born>>
    BY <1>3, <1>7 DEF CreateDevice
  <2>. QED
    BY <1>2, <1>4, <1>5, <1>6, <2>1
<1>8. CASE existing = {}
  <2>1. /\ run' = [run EXCEPT ![w].made = @ \cup {<<t, m + 1, born[t] + 1>>}]
        /\ devices' = devices \cup {<<t, m + 1, born[t] + 1>>}
        /\ born' = [born EXCEPT ![t] = @ + 1]
    BY <1>3, <1>8 DEF CreateDevice
  <2>2. m = born[t]
    <3>1. ASSUME m + 1 <= born[t] PROVE FALSE
      <4>1. <<t, m + 1, m + 1>> \in DevicesOf(t)
        BY <1>1, <1>4, <3>1 DEF Counted, Switches
      <4>. QED
        BY <1>8, <4>1
    <3>. QED
      BY <1>2, <1>4, <3>1
  <2>. QED
    BY <1>2, <1>4, <1>5, <2>1, <2>2
<1> QED
  BY <1>7, <1>8

LEMMA CreateLedger ==
    ASSUME TypeInv, TypeInv', LedgerInv, NEW w \in Workers, run[w].pc = "create", CreateDevice(w)
    PROVE  LedgerInv'
<1> PICK t : t = run[w].target
  OBVIOUS
<1>0. t \in Targets /\ run[w] \in RunState /\ Grows(run[w]) /\ Stands(run[w])
  BY Numbers DEF LedgerInv, Lawful
<1>1. PICK m \in Nat :
              /\ run[w].made = Switches(t, m) /\ m + 1 <= run[w].want
              /\ run' = [run EXCEPT ![w].made = Switches(t, m + 1)]
              /\ \/ m + 1 <= born[t] /\ UNCHANGED <<devices, born>>
                 \/ /\ born' = [born EXCEPT ![t] = m + 1] /\ m = born[t]
                    /\ devices' = devices \cup {<<t, m + 1, m + 1>>}
  BY UpsertEffect
<1>2. PICK r : r = [run[w] EXCEPT !.made = Switches(t, m + 1)]
  OBVIOUS
<1>3. /\ run' = [run EXCEPT ![w] = r] /\ r.pc = "create" /\ r.target = t
      /\ r.want = run[w].want /\ r.wantUp = run[w].wantUp /\ r.upper = run[w].upper
      /\ r.made = Switches(t, m + 1) /\ r.wired = run[w].wired /\ r.left = run[w].left
  BY <1>0, <1>1, <1>2 DEF RunState
<1>4. r \in RunState
  BY <1>3 DEF TypeInv, TypeOK
<1>5. UNCHANGED <<amount, links, pools, checksum, pending, broken, tracked, trackedLinks>>
  BY DEF CreateDevice, design, faults
<1>6. /\ born[t] \in Nat /\ born'[t] \in Nat /\ born[t] <= born'[t] /\ m + 1 <= born'[t]
      /\ born'[t] <= amount[t] /\ DevicesOf(t)' = Switches(t, born'[t])
  <2>1. /\ born[t] \in Nat /\ born[t] <= amount[t] /\ DevicesOf(t) = Switches(t, born[t])
        /\ run[w].want \in Nat /\ run[w].want <= amount[t] /\ amount[t] \in Nat
    BY <1>0, Numbers DEF LedgerInv, Counted, Grows
  <2>2. CASE m + 1 <= born[t] /\ UNCHANGED <<devices, born>>
    BY <2>1, <2>2 DEF DevicesOf
  <2>3. CASE /\ born' = [born EXCEPT ![t] = m + 1] /\ m = born[t]
             /\ devices' = devices \cup {<<t, m + 1, m + 1>>}
    <3>1. /\ born'[t] = m + 1 /\ m = born[t] /\ devices' = devices \cup {<<t, m + 1, m + 1>>}
      BY <1>0, <2>3 DEF TypeInv, TypeOK
    <3>2. DevicesOf(t)' = DevicesOf(t) \cup {<<t, m + 1, m + 1>>}
      BY <3>1 DEF DevicesOf
    <3>3. DevicesOf(t)' = Switches(t, m + 1)
      BY <2>1, <3>1, <3>2, NextSwitch
    <3>. QED
      BY <1>1, <2>1, <3>1, <3>3
  <2>. QED
    BY <1>1, <2>2, <2>3
<1>7. ASSUME NEW u \in Targets, u # t
      PROVE  born'[u] = born[u] /\ DevicesOf(u)' = DevicesOf(u)
  BY <1>0, <1>1, <1>7 DEF DevicesOf, TypeInv, TypeOK
<1>8. \A u \in Targets : born[u] \in Nat /\ born'[u] \in Nat /\ born[u] <= born'[u]
  BY <1>6, <1>7, Numbers
<1>9. ASSUME NEW u \in Targets PROVE Counted(u)'
  <2>1. Counted(u) /\ ParentOf(u) \in Targets /\ Fabric \in Targets
    BY Family DEF LedgerInv
  <2>2. Switches(u, born[u]) \subseteq Switches(u, born'[u])
    BY <1>8, SwitchesGrow
  <2>3. Wires(u, born[u], born[ParentOf(u)]) \subseteq Wires(u, born'[u], born'[ParentOf(u)])
    BY <1>8, <2>1, WiresGrow
  <2>4. Reach(u, born[u], born[Fabric]) \subseteq Reach(u, born'[u], born'[Fabric])
    BY <1>8, <2>1, ReachGrows
  <2>5. DevicesOf(u)' = Switches(u, born'[u]) /\ born'[u] <= amount[u]
    BY <1>6, <1>7, <2>1 DEF Counted
  <2>6. tracked'[u] \subseteq Switches(u, born'[u])
    BY <1>5, <2>1, <2>2 DEF Counted
  <2>7. trackedLinks'[u] \subseteq Wires(u, born'[u], born'[ParentOf(u)])
    BY <1>5, <2>1, <2>3 DEF Counted
  <2>8. \A c \in ChildrenOf(u) : Recorded(c)' =>
            checksum'[c] \subseteq Reach(u, born'[u], born'[Fabric]) /\ pools'[u]
    BY <1>5, <2>1, <2>4 DEF Counted, Recorded
  <2>. QED
    BY <1>5, <2>1, <2>5, <2>6, <2>7, <2>8 DEF Counted
<1>10. Grows(r)'
  <2>1. run[w].left \subseteq Switches(t, m + 1)
    BY <1>0, <1>1, SwitchesGrow DEF Grows
  <2>2. \E k \in Nat : k <= r.want /\ k <= born'[t] /\ r.made = Switches(t, k)
    BY <1>1, <1>3, <1>6
  <2>. QED
    BY <1>0, <1>3, <1>5, <2>1, <2>2 DEF Grows, Recorded
<1>11. Stands(r)'
  <2>1. \A u \in Targets : run[w].wantUp <= born[u] => run[w].wantUp <= born'[u]
    BY <1>0, <1>8 DEF RunState
  <2>. QED
    BY <1>0, <1>3, <1>5, <2>1, Family DEF Stands
<1> QED
  BY <1>3, <1>4, <1>5, <1>7, <1>8, <1>9, <1>10, <1>11, WorkerMoves

(* The cabling: what the run made and what it listed are all there, so the   *)
(* plan is complete.                                                         *)
LEMMA PlanIsComplete ==
    ASSUME TypeInv, LedgerInv, NEW w \in Workers, run[w].pc = "create",
           run[w].target # Fabric, AllCreated(w)
    PROVE  /\ run[w].made = Switches(run[w].target, run[w].want)
           /\ run[w].want <= born[run[w].target]
           /\ CablingPlan(w) = Wires(run[w].target, run[w].want, run[w].wantUp)
<1> DEFINE t == run[w].target
           u == ParentOf(t)
<1>1. /\ t \in Targets /\ u \in Targets /\ Grows(run[w]) /\ Stands(run[w])
      /\ run[w].want \in Nat /\ run[w].wantUp \in Nat /\ born[t] \in Nat /\ born[u] \in Nat
      /\ DevicesOf(t) = Switches(t, born[t]) /\ DevicesOf(u) = Switches(u, born[u])
  BY Family, Numbers DEF LedgerInv, Lawful, Counted
<1>2. run[w].made = Switches(t, run[w].want) /\ run[w].want <= born[t]
  BY <1>1, SwitchesCount DEF Grows, AllCreated
<1>3. run[w].upper = Switches(u, run[w].wantUp) /\ run[w].wantUp <= born[u]
  BY <1>1 DEF Stands
<1>4. run[w].made \subseteq devices /\ run[w].upper \subseteq devices
  BY <1>1, <1>2, <1>3, SwitchesGrow DEF DevicesOf
<1>5. t \in Children /\ Uplinks[t] \in Nat
  BY <1>1, BoundsAreNumbers DEF Targets, Children
<1>6. First(Uplinks[t], run[w].upper) = Cabled(t, run[w].wantUp)
  BY <1>1, <1>3, <1>5, FirstSwitches DEF Cabled
<1>7. run[w].made \cap devices = run[w].made /\ run[w].upper \cap devices = run[w].upper
  BY <1>4
<1> QED
  BY <1>2, <1>6, <1>7 DEF CablingPlan, Wires

(* With every device upserted a run that has no tier above it is complete.   *)
LEMMA AllCreatedMade ==
    ASSUME TypeInv, LedgerInv, NEW w \in Workers, run[w].pc = "create", AllCreated(w)
    PROVE  run[w].made = Switches(run[w].target, run[w].want)
           /\ run[w].want <= born[run[w].target]
BY Numbers, SwitchesCount DEF LedgerInv, Lawful, Grows, AllCreated

(* A child is stamped: it gets the digest of the run, and a run of its own   *)
(* unless it had that digest.                                                *)
LEMMA StampLedger ==
    ASSUME TypeInv, TypeInv', AsnInv, LedgerInv, NEW w \in Workers, NEW c \in Children,
           run[w].target \notin Racks, StampChild(w, c)
    PROVE  LedgerInv'
<1> PICK t : t = run[w].target
  OBVIOUS
<1>0. t \in Targets /\ run[w] \in RunState /\ Lawful(run[w]) /\ run[w].pc = "signal"
  BY Numbers DEF LedgerInv, StampChild
<1> PICK b : b = run[w]
  OBVIOUS
<1> PICK r : r = [b EXCEPT !.todo = @ \ {c}]
  OBVIOUS
<1>1. /\ \A v \in Workers : run'[v] = IF v = w THEN r ELSE run[v]
      /\ r.pc = "signal" /\ r.target = t /\ r.want = b.want /\ r.wantUp = b.wantUp
      /\ r.upper = b.upper /\ r.made = b.made /\ r.wired = b.wired /\ r.left = b.left
      /\ r.digest = b.digest /\ r.todo = b.todo \ {c}
  BY <1>0 DEF StampChild, TypeInv, TypeOK, RunState
<1>2. UNCHANGED <<amount, devices, born, links, pools, tracked, trackedLinks, broken>>
  BY DEF StampChild, design, nodes, faults
<1>3. /\ c \in ChildrenOf(t) /\ ParentOf(c) = t /\ c # t
      /\ b.digest = Reach(t, b.want, b.wantUp)
  BY <1>0, Family DEF Lawful, Stands, StampChild, ChildrenOf
<1>4. checksum'[c] = Reach(t, b.want, b.wantUp)
      /\ \A d \in Children : d # c => checksum'[d] = checksum[d]
  BY <1>3 DEF StampChild, TypeInv, TypeOK
<1>5. /\ pending'[c] >= pending[c] /\ (checksum'[c] # checksum[c] => pending'[c] > 0)
      /\ \A u \in Targets : u # c => pending'[u] = pending[u]
  <2>1. c \in Targets
    BY Family
  <2>2. checksum'[c] = run[w].digest /\ pending[c] \in Nat
    BY <1>3, <1>4, <2>1, Numbers
  <2>. QED
    BY <2>1, <2>2 DEF StampChild, TypeInv, TypeOK
<1>6. \A u \in Targets : /\ Awaits(u) => Awaits(u)'
                         /\ u # t => (Finished(u) => Finished(u)')
  <2>1. ASSUME NEW u \in Targets, Awaits(u) PROVE Awaits(u)'
    <3>1. CASE u = c
      <4>1. CASE checksum'[c] # checksum[c]
        BY <1>5, <3>1, <4>1 DEF Awaits
      <4>2. CASE checksum'[c] = checksum[c]
        <5>1. pending[c] > 0 => pending'[c] > 0
          BY <1>5, <3>1 DEF TypeInv, TypeOK
        <5>2. Owes(c) => Owes(c)'
          BY <1>2, <4>2 DEF Owes, Recorded
        <5>. QED
          BY <2>1, <3>1, <5>1, <5>2 DEF Awaits
      <4>. QED
        BY <4>1, <4>2
    <3>2. CASE u # c
      <4>1. u # Fabric => u \in Children
        BY DEF Targets, Children
      <4>. QED
        BY <1>2, <1>4, <1>5, <2>1, <3>2, <4>1 DEF Awaits, Owes, Recorded
    <3>. QED
      BY <3>1, <3>2
  <2>2. ASSUME NEW u \in Targets, u # t, Finished(u) PROVE Finished(u)'
    <3>1. \A d \in ChildrenOf(u) : checksum'[d] = checksum[d]
      BY <1>3, <1>4, <2>2 DEF ChildrenOf
    <3>. QED
      BY <1>2, <2>2, <3>1 DEF Finished, Owes, Recorded
  <2>. QED
    BY <2>1, <2>2
<1>7. ASSUME NEW u \in Targets PROVE Counted(u)'
  <2>1. CASE u # t
    <3>1. \A d \in ChildrenOf(u) : checksum'[d] = checksum[d]
      BY <1>3, <1>4, <2>1 DEF ChildrenOf
    <3>. QED
      BY <1>2, <3>1 DEF LedgerInv, Counted, DevicesOf, Recorded
  <2>2. CASE u = t
    <3>1. pools[t] /\ b.want <= born[t] /\ (t # Fabric => b.wantUp <= born[ParentOf(t)])
      BY <1>0 DEF Lawful, Stands
    <3>2. t \in Pods => b.wantUp <= born[Fabric]
      BY <3>1, Family, TargetsAreDistinct
    <3>3. b.want \in Nat /\ b.wantUp \in Nat /\ born[t] \in Nat /\ born[Fabric] \in Nat
      BY <1>0, Numbers
    <3>4. checksum'[c] \subseteq Reach(t, born[t], born[Fabric])
      BY <1>0, <1>4, <3>1, <3>2, <3>3, ReachGrows
    <3>5. \A d \in ChildrenOf(t) : Recorded(d)' =>
              checksum'[d] \subseteq Reach(t, born[t], born[Fabric]) /\ pools[t]
      BY <1>0, <1>4, <3>1, <3>4 DEF LedgerInv, Counted, Recorded, ChildrenOf
    <3>. QED
      BY <1>0, <1>2, <2>2, <3>5 DEF LedgerInv, Counted, DevicesOf, Recorded
  <2>. QED
    BY <2>1, <2>2
<1>8. Lawful(r)'
  <2>1. Grows(b) /\ Stands(b) /\ UpToDate(b)
    BY <1>0 DEF Lawful
  <2>2. Grows(r)'
    <3>1. \A d \in ChildrenOf(t) : Recorded(d)' =>
              checksum'[d] \subseteq Reach(t, b.want, b.wantUp)
      BY <1>4, <2>1 DEF Grows, Recorded, ChildrenOf
    <3>. QED
      BY <1>1, <1>2, <2>1, <3>1 DEF Grows, Recorded
  <2>3. Stands(r)'
    <3>1. \A d \in ChildrenOf(t) : d \in r.todo \/ checksum'[d] = Reach(t, b.want, b.wantUp)
      BY <1>0, <1>1, <1>4, <2>1 DEF Stands, ChildrenOf
    <3>. QED
      BY <1>0, <1>1, <1>2, <2>1, <3>1 DEF Stands
  <2>4. UpToDate(r)'
    BY <1>0, <1>1, <1>2, <1>6, <2>1 DEF UpToDate
  <2>. QED
    BY <2>2, <2>3, <2>4 DEF Lawful
<1>9. ASSUME NEW v \in Workers PROVE Lawful(run[v])'
  <2>1. CASE v = w
    BY <1>1, <1>8, <2>1 DEF Lawful
  <2>2. CASE v # w
    <3>1. PICK o : o = run[v]
      OBVIOUS
    <3>2. run'[v] = o /\ o \in RunState /\ o.target \in Targets /\ Lawful(o)
      BY <1>1, <2>2, <3>1, Numbers DEF LedgerInv
    <3>3. CASE o.pc = "idle"
      BY <3>2, <3>3 DEF Lawful
    <3>4. CASE o.pc # "idle"
      <4>1. o.target # t
        BY <1>0, <2>2, <3>1, <3>4 DEF AsnInv, Exclusive
      <4>2. \A d \in ChildrenOf(o.target) : checksum'[d] = checksum[d]
        BY <1>3, <1>4, <4>1 DEF ChildrenOf
      <4>3. \A u \in Targets : amount[u] <= amount'[u] /\ born[u] <= born'[u]
        BY <1>2, Numbers
      <4>4. Lawful(o)'
        BY <1>2, <1>6, <3>2, <4>2, <4>3, OthersLawful
      <4>. QED
        BY <3>2, <4>4
    <3>. QED
      BY <3>3, <3>4
  <2>. QED
    BY <2>1, <2>2
<1>10. ASSUME NEW u \in Targets \ FabricPods PROVE Debt(u)'
  <2>1. CASE u = t
    BY <1>1, <2>1 DEF Debt, Busy
  <2>2. CASE u # t
    <3>1. Busy(u) => Busy(u)'
      BY <1>1, <2>2 DEF Busy
    <3>. QED
      BY <1>2, <1>6, <2>2, <3>1 DEF LedgerInv, Debt
  <2>. QED
    BY <2>1, <2>2
<1> QED
  BY <1>7, <1>9, <1>10 DEF LedgerInv

(* A run that returns deletes nothing: its group was filled by runs that     *)
(* found smaller amounts. What it leaves is finished, unless the amounts     *)
(* changed meanwhile, and then the next run is owed.                         *)
LEMMA NothingIsUnused ==
    ASSUME TypeInv, LedgerInv, NEW w \in Workers, Finish(w)
    PROVE  /\ tracked[run[w].target] \subseteq run[w].made
           /\ trackedLinks[run[w].target] \subseteq run[w].wired
           /\ devices' = devices /\ links' = links
<1>1. Grows(run[w]) /\ Stands(run[w]) /\ run[w].pc = "overlay"
  BY DEF LedgerInv, Lawful, Finish
<1>2. /\ tracked[run[w].target] \subseteq run[w].made
      /\ trackedLinks[run[w].target] \subseteq run[w].wired
  BY <1>1 DEF Grows, Stands
<1> QED
  BY <1>2 DEF Finish

LEMMA FinishedLedger ==
    ASSUME TypeInv, LedgerInv, NEW w \in Workers, run[w].pc = "overlay"
    PROVE  Finished(run[w].target) \/ Awaits(run[w].target)
<1> DEFINE t == run[w].target
           u == ParentOf(t)
<1> SUFFICES ASSUME ~Awaits(t) PROVE Finished(t)
  OBVIOUS
<1>1. /\ t \in Targets /\ Grows(run[w]) /\ Stands(run[w]) /\ UpToDate(run[w])
      /\ amount[t] \in Nat /\ born[t] \in Nat /\ Counted(t) /\ Counted(u)
      /\ u \in Targets /\ amount[u] \in Nat
  BY Family, Numbers DEF LedgerInv, Lawful
<1>2. run[w].want = amount[t] /\ (t # Fabric => run[w].wantUp = amount[u])
  BY <1>1 DEF UpToDate
<1>3. born[t] = amount[t]
  BY <1>1, <1>2 DEF Stands, Counted
<1>4. Wires(t, amount[t], amount[u]) \subseteq links
  BY <1>1, <1>2 DEF Stands, Wires
<1>5. ASSUME NEW c \in ChildrenOf(t) PROVE ~Owes(c)
  <2>1. checksum[c] = Reach(t, amount[t], run[w].wantUp) /\ ParentOf(c) = t
    BY <1>1, <1>2 DEF Stands, ChildrenOf
  <2>2. Switches(t, amount[t]) \subseteq checksum[c]
    BY <2>1 DEF Reach
  <2>3. Recorded(c)
    <3>1. Switches(t, amount[t]) \subseteq Targets \X (1..MaxAmount) \X (1..MaxAmount)
      BY <1>1, BoundsAreNumbers DEF Switches, Counted
    <3>2. t \in Pods => Cabled(t, run[w].wantUp)
                            \subseteq Targets \X (1..MaxAmount) \X (1..MaxAmount)
      <4>1. t \in Pods => run[w].wantUp = amount[Fabric] /\ Counted(Fabric)
        BY <1>1, <1>2, Family, TargetsAreDistinct
      <4>2. amount[Fabric] \in Nat /\ Fabric \in Targets
        BY Family, Numbers
      <4>3. t \in Pods => Cabled(t, run[w].wantUp) \subseteq Switches(Fabric, amount[Fabric])
        BY <4>1, <4>2, Family, CabledGrow DEF Children
      <4>4. t \in Pods => Switches(Fabric, amount[Fabric])
                              \subseteq Targets \X (1..MaxAmount) \X (1..MaxAmount)
        BY <4>1, <4>2, BoundsAreNumbers DEF Switches, Counted
      <4>. QED
        BY <4>3, <4>4
    <3>. QED
      BY <2>1, <3>1, <3>2, NoDigestIsNone DEF Recorded, Reach
  <2>. QED
    BY <2>1, <2>2, <2>3 DEF Owes
<1> QED
  BY <1>3, <1>4, <1>5 DEF Finished

LEMMA FinishLedger ==
    ASSUME TypeInv, TypeInv', AsnInv, LedgerInv, NEW w \in Workers, Finish(w)
    PROVE  LedgerInv'
<1> PICK t : t = run[w].target
  OBVIOUS
<1> DEFINE u == ParentOf(t)
<1>0. /\ t \in Targets /\ u \in Targets /\ run[w] \in RunState /\ run[w].pc = "overlay"
      /\ Grows(run[w]) /\ Stands(run[w]) /\ Counted(t)
  BY Family, Numbers DEF LedgerInv, Lawful, Finish
<1>1. \A v \in Workers : run'[v] = IF v = w THEN Idle ELSE run[v]
  BY DEF Finish, TypeInv, TypeOK
<1>2. UNCHANGED <<amount, devices, born, links, pools, checksum, pending>>
      /\ broken' = broken \ {t}
  BY NothingIsUnused DEF Finish, design
<1>3. /\ tracked'[t] = run[w].made /\ trackedLinks'[t] = run[w].wired
      /\ \A x \in Targets : x # t => tracked'[x] = tracked[x] /\ trackedLinks'[x] = trackedLinks[x]
  BY <1>0 DEF Finish, TypeInv, TypeOK
<1>4. \A x \in Targets : (Awaits(x)' <=> Awaits(x)) /\ (Finished(x)' <=> Finished(x))
  BY <1>2 DEF Awaits, Finished, Owes, Recorded
<1>5. ASSUME NEW x \in Targets PROVE Counted(x)'
  <2>1. CASE x # t
    BY <1>2, <1>3, <2>1 DEF LedgerInv, Counted, DevicesOf, Recorded
  <2>2. CASE x = t
    <3>1. /\ run[w].want \in Nat /\ run[w].wantUp \in Nat /\ born[t] \in Nat /\ born[u] \in Nat
          /\ run[w].want <= born[t] /\ (t # Fabric => run[w].wantUp <= born[u])
          /\ run[w].made = Switches(t, run[w].want)
          /\ run[w].wired = Wires(t, run[w].want, run[w].wantUp)
      BY <1>0, Numbers DEF Stands
    <3>2. run[w].made \subseteq Switches(t, born[t])
      BY <3>1, SwitchesGrow
    <3>3. run[w].wired \subseteq Wires(t, born[t], born[u])
      BY <1>0, <3>1, WiresGrow
    <3>. QED
      BY <1>0, <1>2, <1>3, <2>2, <3>2, <3>3 DEF Counted, DevicesOf, Recorded
  <2>. QED
    BY <2>1, <2>2
<1>6. ASSUME NEW v \in Workers PROVE Lawful(run[v])'
  <2>1. CASE v = w
    BY <1>1, <2>1 DEF Lawful, Idle
  <2>2. CASE v # w
    <3>1. PICK o : o = run[v]
      OBVIOUS
    <3>2. run'[v] = o /\ o \in RunState /\ o.target \in Targets /\ Lawful(o)
      BY <1>1, <2>2, <3>1, Numbers DEF LedgerInv
    <3>3. CASE o.pc = "idle"
      BY <3>2, <3>3 DEF Lawful
    <3>4. CASE o.pc # "idle"
      <4>1. o.target # t
        BY <1>0, <2>2, <3>1, <3>4 DEF AsnInv, Exclusive
      <4>2. \A x \in Targets : amount[x] <= amount'[x] /\ born[x] <= born'[x]
        BY <1>2, Numbers
      <4>3. Lawful(o)'
        BY <1>2, <1>3, <1>4, <3>2, <4>1, <4>2, OthersLawful
      <4>. QED
        BY <3>2, <4>3
    <3>. QED
      BY <3>3, <3>4
  <2>. QED
    BY <2>1, <2>2
<1>7. ASSUME NEW x \in Targets \ FabricPods PROVE Debt(x)'
  <2>1. CASE x = t
    BY <1>0, <1>4, <2>1, FinishedLedger DEF Debt
  <2>2. CASE x # t
    <3>1. Busy(x) => Busy(x)'
      BY <1>1, <2>2 DEF Busy
    <3>. QED
      BY <1>2, <1>4, <2>2, <3>1 DEF LedgerInv, Debt
  <2>. QED
    BY <2>1, <2>2
<1> QED
  BY <1>5, <1>6, <1>7 DEF LedgerInv

(* An amount that grows puts the tier itself and everything below it in      *)
(* debt: no checksum was taken over the switch that is asked for now.        *)
LEMMA ResizeLedger ==
    ASSUME ~AllowShrink, TypeInv, TypeInv', LedgerInv, NEW t \in Targets,
           NEW n \in 0..MaxAmount, Resize(t, n)
    PROVE  LedgerInv'
<1>1. /\ amount'[t] = n /\ n > amount[t] /\ pending'[t] > 0
      /\ \A u \in Targets : u # t => amount'[u] = amount[u] /\ pending'[u] = pending[u]
      /\ UNCHANGED <<devices, born, links, pools, checksum, tracked, trackedLinks, run, broken>>
  BY Numbers DEF Resize, TypeInv, TypeOK, nodes, faults
<1>2. \A u \in Targets : /\ amount[u] <= amount'[u] /\ amount'[u] <= MaxAmount
                         /\ amount[u] \in Nat /\ amount'[u] \in Nat /\ born[u] \in Nat
                         /\ born[u] <= amount[u] /\ born[u] <= born'[u]
                         /\ pending[u] > 0 => pending'[u] > 0
  BY <1>1, Numbers, BoundsAreNumbers DEF LedgerInv, Counted
<1>3. \A u \in Targets : Counted(u)'
  BY <1>1, <1>2, Family DEF LedgerInv, Counted, DevicesOf, Recorded, ChildrenOf
<1>4. ASSUME NEW c \in Children, ParentOf(c) = t PROVE Owes(c)'
  <2>1. Counted(ParentOf(c)) /\ n \in Nat /\ born[ParentOf(c)] < n
    BY <1>1, <1>2, <1>4 DEF LedgerInv
  <2>2. Recorded(c) => ~(Switches(ParentOf(c), n) \subseteq checksum[c])
    BY <2>1, ShortOwes
  <2>. QED
    BY <1>1, <1>4, <2>2 DEF Owes, Recorded
<1>5. ASSUME NEW c \in Children, ParentOf(c) # t PROVE Owes(c)' <=> Owes(c)
  BY <1>1, <1>5, Family DEF Owes, Recorded
<1>6. ASSUME NEW u \in Targets
      PROVE  /\ Awaits(u) => Awaits(u)'
             /\ \/ Awaits(u)'
                \/ amount'[u] = amount[u] /\ amount'[ParentOf(u)] = amount[ParentOf(u)]
             /\ Finished(u) => Finished(u)' \/ Awaits(u)'
  <2>1. u = Fabric \/ u \in Children
    BY DEF Targets, Children
  <2>2. Awaits(u) => Awaits(u)'
    BY <1>2, <1>4, <1>5, <2>1 DEF Awaits
  <2>3. CASE u = t
    BY <1>1, <2>2, <2>3 DEF Awaits
  <2>4. CASE u # t /\ u # Fabric /\ ParentOf(u) = t
    BY <1>4, <2>1, <2>2, <2>4 DEF Awaits
  <2>5. CASE u # t /\ ParentOf(u) # t
    <3>1. amount'[u] = amount[u] /\ amount'[ParentOf(u)] = amount[ParentOf(u)]
      BY <1>1, <2>5, Family
    <3>2. \A c \in ChildrenOf(u) : Owes(c)' <=> Owes(c)
      BY <1>5, <2>5 DEF ChildrenOf
    <3>3. Finished(u) => Finished(u)'
      BY <1>1, <3>1, <3>2 DEF Finished
    <3>. QED
      BY <2>2, <3>1, <3>3
  <2>6. u = Fabric => ParentOf(u) = u
    BY TargetsAreDistinct DEF ParentOf
  <2>. QED
    BY <2>3, <2>4, <2>5, <2>6
<1>7. ASSUME NEW v \in Workers PROVE Lawful(run[v])'
  <2>1. PICK o : o = run[v]
    OBVIOUS
  <2>2. run'[v] = o /\ o \in RunState /\ o.target \in Targets /\ Lawful(o)
    BY <1>1, <2>1, Numbers DEF LedgerInv
  <2>3. Lawful(o)'
    BY <1>1, <1>2, <1>6, <2>2, OthersLawful
  <2>. QED
    BY <2>2, <2>3
<1>8. ASSUME NEW u \in Targets \ FabricPods PROVE Debt(u)'
  <2>1. Busy(u) => Busy(u)'
    BY <1>1 DEF Busy
  <2>. QED
    BY <1>1, <1>6, <2>1 DEF LedgerInv, Debt
<1> QED
  BY <1>3, <1>7, <1>8 DEF LedgerInv

LEMMA ByHandLedger ==
    ASSUME TypeInv, TypeInv', LedgerInv, NEW t \in Targets, RunByHand(t)
    PROVE  LedgerInv'
<1>1. /\ \A u \in Targets : pending[u] > 0 => pending'[u] > 0
      /\ UNCHANGED <<amount, devices, born, links, pools, checksum, tracked, trackedLinks, run,
                     broken>>
  BY Numbers DEF RunByHand, TypeInv, TypeOK, nodes, faults
<1>2. \A u \in Targets : Counted(u)'
  BY <1>1, Family DEF LedgerInv, Counted, DevicesOf, Recorded, ChildrenOf
<1>3. \A u \in Targets : (Awaits(u) => Awaits(u)') /\ (Finished(u) => Finished(u)')
  BY <1>1 DEF Awaits, Finished, Owes, Recorded
<1>4. \A u \in Targets : amount[u] <= amount'[u] /\ born[u] <= born'[u]
  BY <1>1, Numbers
<1>5. ASSUME NEW v \in Workers PROVE Lawful(run[v])'
  <2>1. PICK o : o = run[v]
    OBVIOUS
  <2>2. run'[v] = o /\ o \in RunState /\ o.target \in Targets /\ Lawful(o)
    BY <1>1, <2>1, Numbers DEF LedgerInv
  <2>3. Lawful(o)'
    BY <1>1, <1>3, <1>4, <2>2, OthersLawful
  <2>. QED
    BY <2>2, <2>3
<1>6. \A u \in Targets \ FabricPods : Debt(u)'
  BY <1>1, <1>3 DEF LedgerInv, Debt, Busy
<1> QED
  BY <1>2, <1>5, <1>6 DEF LedgerInv

-----------------------------------------------------------------------------
(* The steps of the three generators.                                        *)

(* Past the signal a run has no device to miss: it deletes none, and nobody  *)
(* deletes its own or those above.                                           *)
LEMMA NothingIsMissing ==
    ASSUME TypeInv, LedgerInv, NEW w \in Workers, run[w].pc = "overlay"
    PROVE  /\ run[w].left \subseteq devices
           /\ \A a \in run[w].wired : a[2] \in devices
<1> DEFINE t == run[w].target
           u == ParentOf(t)
<1>1. /\ t \in Targets /\ u \in Targets /\ Grows(run[w]) /\ Stands(run[w])
      /\ run[w].want \in Nat /\ run[w].wantUp \in Nat /\ born[t] \in Nat /\ born[u] \in Nat
      /\ DevicesOf(t) = Switches(t, born[t]) /\ DevicesOf(u) = Switches(u, born[u])
  BY Family, Numbers DEF LedgerInv, Lawful, Counted
<1>2. run[w].left \subseteq Switches(t, run[w].want) /\ run[w].want <= born[t]
  BY <1>1 DEF Grows, Stands
<1>3. run[w].left \subseteq devices
  BY <1>1, <1>2, SwitchesGrow DEF DevicesOf
<1>4. t # Fabric => run[w].wantUp <= born[u]
  BY <1>1 DEF Stands
<1>5. \A a \in run[w].wired : a[2] \in devices
  <2>1. run[w].wired = Wires(t, run[w].want, run[w].wantUp)
    BY <1>1 DEF Stands
  <2>2. CASE t = Fabric
    BY <2>1, <2>2 DEF Wires
  <2>3. CASE t # Fabric
    <3>1. Switches(u, run[w].wantUp) \subseteq devices
      BY <1>1, <1>4, <2>3, SwitchesGrow DEF DevicesOf
    <3>2. Cabled(t, run[w].wantUp) \subseteq Switches(u, run[w].wantUp)
      BY <1>1, <2>3, CabledGrow DEF Targets, Children
    <3>. QED
      BY <2>1, <2>3, <3>1, <3>2 DEF Wires
  <2>. QED
    BY <2>2, <2>3
<1> QED
  BY <1>3, <1>5

LEMMA ReadAsnLedger ==
    ASSUME TypeInv, TypeInv', LedgerInv, NEW w \in Workers, run[w].pc = "signal",
           run[w].todo = {} \/ run[w].target \in Racks, ReadAsn(w)
    PROVE  LedgerInv'
<1> PICK r : r = [run[w] EXCEPT !.pc = "overlay", !.asn = overlayAsn,
                                !.left = IF overlayAsn = 0 THEN {} ELSE run[w].made]
  OBVIOUS
<1>1. /\ run' = [run EXCEPT ![w] = r] /\ r.pc = "overlay"
      /\ r.target = run[w].target /\ r.want = run[w].want /\ r.wantUp = run[w].wantUp
      /\ r.upper = run[w].upper /\ r.made = run[w].made /\ r.wired = run[w].wired
      /\ r.left \subseteq r.made
  BY Numbers DEF ReadAsn, RunState
<1>2. r \in RunState
  BY <1>1 DEF TypeInv, TypeOK
<1>3. Stands(run[w])
  BY DEF LedgerInv, Lawful
<1>4. UNCHANGED <<amount, devices, born, links, pools, checksum, pending, broken,
                  tracked, trackedLinks>>
  BY DEF ReadAsn, design, nodes, faults
<1>5. Stands(r)'
  BY <1>1, <1>3, <1>4, Family DEF Stands
<1> QED
  BY <1>1, <1>2, <1>4, <1>5, GoesOnLedger

\* One device of the overlay step is done.
LEMMA ConfiguredLedger ==
    ASSUME TypeInv, TypeInv', LedgerInv, NEW w \in Workers, run[w].pc = "overlay",
           NEW d, run' = [run EXCEPT ![w].left = @ \ {d}],
           UNCHANGED <<amount, devices, born, links, pools, checksum, pending, broken,
                       tracked, trackedLinks>>
    PROVE  LedgerInv'
<1> PICK r : r = [run[w] EXCEPT !.left = @ \ {d}]
  OBVIOUS
<1>1. /\ run' = [run EXCEPT ![w] = r] /\ r.pc = "overlay"
      /\ r.target = run[w].target /\ r.want = run[w].want /\ r.wantUp = run[w].wantUp
      /\ r.upper = run[w].upper /\ r.made = run[w].made /\ r.wired = run[w].wired
      /\ r.left \subseteq run[w].left
  BY Numbers DEF RunState
<1>2. r \in RunState
  BY <1>1 DEF TypeInv, TypeOK
<1>3. Stands(run[w]) /\ Grows(run[w])
  BY DEF LedgerInv, Lawful
<1>4. Stands(r)'
  BY <1>1, <1>3 DEF Stands
<1>5. r.left \subseteq r.made
  BY <1>1, <1>3 DEF Grows
<1> QED
  BY <1>1, <1>2, <1>4, <1>5, GoesOnLedger

LEMMA ConfigureLedger ==
    ASSUME TypeInv, TypeInv', LedgerInv, NEW w \in Workers, run[w].pc = "overlay",
           NEW d \in run[w].left, ConfigureDevice(w, d)
    PROVE  LedgerInv'
<1>1. d \in devices /\ \A a \in AdjacenciesOf(w, d) : a[2] \in devices
  BY NothingIsMissing DEF AdjacenciesOf
<1> QED
  BY <1>1, ConfiguredLedger DEF ConfigureDevice, design, faults

(* The gate: it opens on a tier that has what was asked for when the run     *)
(* began. A tier that has less will stamp again.                             *)
LEMMA GateLedger ==
    ASSUME TypeInv, TypeInv', LedgerInv, NEW w \in Workers, NEW pc \in {"pools", "create"},
           run[w].pc = "gate", pc = "create" => run[w].target \in Racks,
           LET upper == DevicesOf(ParentOf(run[w].target)) IN
           IF TierIsComplete(w, upper)
             THEN /\ run' = [run EXCEPT ![w].pc = pc, ![w].upper = upper]
                  /\ UNCHANGED <<design, nodes, checksum, asn, pending, faults>>
             ELSE Abort(w)
    PROVE  LedgerInv'
<1> PICK t : t = run[w].target
  OBVIOUS
<1> PICK u : u = ParentOf(t)
  OBVIOUS
<1>1. /\ t \in Targets /\ u \in Targets /\ t # Fabric /\ run[w] \in RunState
      /\ Grows(run[w]) /\ Stands(run[w]) /\ UpToDate(run[w]) /\ Counted(u)
      /\ run[w].wantUp \in Nat /\ born[u] \in Nat /\ amount[u] \in Nat
  BY Family, Numbers DEF LedgerInv, Lawful, Stands
<1>2. TierIsComplete(w, DevicesOf(u)) <=> born[u] = run[w].wantUp
  BY <1>1, SwitchesCount DEF Counted, TierIsComplete
<1>3. CASE born[u] = run[w].wantUp
  <2>1. PICK r : r = [run[w] EXCEPT !.pc = pc, !.upper = DevicesOf(u)]
    OBVIOUS
  <2>2. /\ run' = [run EXCEPT ![w] = r] /\ r.pc = pc
        /\ r.target = run[w].target /\ r.want = run[w].want /\ r.wantUp = run[w].wantUp
        /\ r.upper = DevicesOf(u) /\ r.made = run[w].made /\ r.wired = run[w].wired
        /\ r.left = run[w].left
        /\ UNCHANGED <<amount, devices, born, links, pools, checksum, pending, broken,
                       tracked, trackedLinks>>
    BY <1>1, <1>2, <1>3, <2>1 DEF RunState, design, nodes, faults
  <2>3. r \in RunState
    BY <2>2 DEF TypeInv, TypeOK
  <2>4. r.upper = Switches(u, r.wantUp) /\ r.wantUp <= born[u]
    BY <1>1, <1>3, <2>2 DEF Counted
  <2>5. Stands(r)'
    BY <1>1, <2>2, <2>4 DEF Stands
  <2>6. r.left \subseteq r.made
    BY <1>1, <2>2 DEF Grows
  <2>. QED
    BY <2>2, <2>3, <2>5, <2>6, GoesOnLedger
<1>4. CASE born[u] # run[w].wantUp
  <2>1. t \in Children
    BY <1>1 DEF Targets, Children
  <2>2. ASSUME ~Awaits(t) PROVE FALSE
    <3>1. run[w].wantUp = amount[u]
      BY <1>1, <2>2 DEF UpToDate
    <3>2. born[u] < amount[u]
      BY <1>1, <1>4, <3>1 DEF Counted
    <3>3. Owes(t)
      BY <1>1, <2>1, <3>2, ShortOwes DEF Owes
    <3>. QED
      BY <1>1, <2>2, <3>3 DEF Awaits
  <2>3. Abort(w) /\ Awaits(run[w].target)
    BY <1>2, <1>4, <2>2
  <2>. QED
    BY <2>3, AbortLedger
<1> QED
  BY <1>3, <1>4

(* A step between the pools and the signal: what it establishes is named.    *)
LEMMA PoolsLedger ==
    ASSUME TypeInv, TypeInv', LedgerInv, NEW w \in Workers, run[w].pc = "pools",
           run[w].target \notin Racks, Goto(w, "create"),
           pools' = [pools EXCEPT ![run[w].target] = TRUE],
           UNCHANGED <<devices, born, links, stamped, sessions, tracked, trackedLinks>>,
           UNCHANGED <<design, checksum, asn, pending, faults>>
    PROVE  LedgerInv'
<1> PICK r : r = [run[w] EXCEPT !.pc = "create"]
  OBVIOUS
<1>1. /\ run' = [run EXCEPT ![w] = r] /\ r.pc = "create"
      /\ r.target = run[w].target /\ r.want = run[w].want /\ r.wantUp = run[w].wantUp
      /\ r.upper = run[w].upper /\ r.made = run[w].made /\ r.wired = run[w].wired
      /\ r.left = run[w].left
  BY Numbers DEF Goto, RunState
<1>2. r \in RunState
  BY <1>1 DEF TypeInv, TypeOK
<1>3. Stands(run[w]) /\ Grows(run[w])
  BY DEF LedgerInv, Lawful
<1>4. pools'[r.target] /\ \A t \in Targets : pools[t] => pools'[t]
  BY <1>1, Numbers DEF TypeInv, TypeOK
<1>5. Stands(r)'
  BY <1>1, <1>3, <1>4 DEF Stands
<1>6. r.left \subseteq r.made
  BY <1>1, <1>3 DEF Grows
<1>7. UNCHANGED <<amount, broken>>
  BY DEF design, faults
<1> QED
  BY <1>1, <1>2, <1>4, <1>5, <1>6, <1>7, GoesOnLedger

LEMMA FabricLedger ==
    ASSUME OneRunPerTarget, TypeInv, TypeInv', AsnInv, LedgerInv, NEW w \in Workers,
           FabricStep(w)
    PROVE  LedgerInv'
<1>0. /\ Fabric \in Targets /\ Fabric \notin FabricPods /\ Fabric \notin Racks
      /\ ChildrenOf(Fabric) = Pods /\ run[w] \in RunState /\ Lawful(run[w])
      /\ Pods \subseteq Children
  BY Family, Numbers, TargetsAreDistinct DEF LedgerInv, Children
<1>1. CASE FabricStart(w)
  BY <1>0, <1>1, StartLedger DEF FabricStart
<1>2. CASE FabricPools(w)
  BY <1>0, <1>2, PoolsLedger DEF FabricPools, At
<1>3. CASE FabricCreate(w)
  BY <1>3, CreateLedger DEF FabricCreate, At
<1>4. CASE FabricListPods(w)
  <2>1. PICK r : r = [run[w] EXCEPT !.pc = "signal", !.digest = run[w].made,
                                    !.todo = ToStamp(Pods, run[w].made)]
    OBVIOUS
  <2>2. /\ run' = [run EXCEPT ![w] = r] /\ run[w].pc = "create" /\ r.pc = "signal"
        /\ r.target = Fabric /\ run[w].target = Fabric
        /\ r.want = run[w].want /\ r.wantUp = run[w].wantUp
        /\ r.upper = run[w].upper /\ r.made = run[w].made /\ r.wired = run[w].wired
        /\ r.left = run[w].left /\ r.digest = run[w].made
        /\ r.todo = ToStamp(Pods, run[w].made)
    BY <1>0, <1>4, <2>1 DEF FabricListPods, At, RunState
  <2>3. r \in RunState
    BY <2>2 DEF TypeInv, TypeOK
  <2>4. Stands(run[w]) /\ Grows(run[w])
    BY <1>0, <2>2 DEF Lawful
  <2>5. r.made = Switches(Fabric, r.want) /\ r.want <= born[Fabric]
    BY <1>4, <2>2, AllCreatedMade DEF FabricListPods
  <2>6. r.digest = Reach(Fabric, r.want, r.wantUp)
    BY <2>2, <2>5, TargetsAreDistinct DEF Reach
  <2>7. \A c \in Pods : c \in r.todo \/ checksum[c] = r.digest
    BY <2>2 DEF ToStamp
  <2>8. r.todo \subseteq Pods
    BY <2>2 DEF ToStamp
  <2>9. r.wired = Wires(Fabric, r.want, r.wantUp) /\ r.wired \subseteq links
    BY <2>2, <2>4 DEF Stands, Wires
  <2>10. UNCHANGED <<amount, devices, born, links, pools, checksum, pending, broken,
                     tracked, trackedLinks>>
    BY <1>4 DEF FabricListPods, design, nodes, faults
  <2>11. Stands(r)'
    BY <1>0, <2>2, <2>4, <2>5, <2>6, <2>7, <2>8, <2>9, <2>10 DEF Stands
  <2>12. r.left \subseteq r.made
    BY <2>2, <2>4 DEF Grows
  <2>. QED
    BY <2>2, <2>3, <2>10, <2>11, <2>12, GoesOnLedger
<1>5. CASE \E p \in Pods : FabricStamp(w, p)
  BY <1>0, <1>5, StampLedger DEF FabricStamp
<1>6. CASE FabricReadAsn(w)
  <2>1. PICK r : r = IF MustAllocate(overlayAsn)
                       THEN [run[w] EXCEPT !.pc = "alloc"]
                       ELSE [run[w] EXCEPT !.pc = "overlay", !.asn = overlayAsn,
                                           !.left = run[w].made]
    OBVIOUS
  <2>2. run' = [run EXCEPT ![w] = r]
    BY <1>6, <2>1 DEF FabricReadAsn, Goto
  <2>3. /\ run[w].pc = "signal" /\ run[w].todo = {}
        /\ r.pc \in {"alloc", "overlay"} /\ r.target = Fabric /\ run[w].target = Fabric
        /\ r.want = run[w].want /\ r.wantUp = run[w].wantUp
        /\ r.upper = run[w].upper /\ r.made = run[w].made /\ r.wired = run[w].wired
        /\ r.left \subseteq r.made
    <3>1. run[w].left \subseteq run[w].made
      BY <1>0, <1>6 DEF FabricReadAsn, At, Lawful, Grows
    <3>2. CASE MustAllocate(overlayAsn)
      BY <1>0, <1>6, <2>1, <3>1, <3>2 DEF FabricReadAsn, At, RunState
    <3>3. CASE ~MustAllocate(overlayAsn)
      BY <1>0, <1>6, <2>1, <3>3 DEF FabricReadAsn, At, RunState
    <3>. QED
      BY <3>2, <3>3
  <2>4. r \in RunState
    BY <2>2 DEF TypeInv, TypeOK
  <2>5. UNCHANGED <<amount, devices, born, links, pools, checksum, pending, broken,
                    tracked, trackedLinks>>
    BY <1>6 DEF FabricReadAsn, design, nodes, faults
  <2>6. Stands(r)'
    BY <1>0, <2>3, <2>5 DEF Lawful, Stands
  <2>. QED
    BY <2>2, <2>3, <2>4, <2>5, <2>6, GoesOnLedger
<1>7. CASE FabricAllocateAsn(w)
  <2>1. PICK r : r = [run[w] EXCEPT !.pc = "reread"]
    OBVIOUS
  <2>2. /\ run' = [run EXCEPT ![w] = r] /\ run[w].pc = "alloc" /\ r.pc = "reread"
        /\ r.target = run[w].target /\ run[w].target = Fabric
        /\ r.want = run[w].want /\ r.wantUp = run[w].wantUp
        /\ r.upper = run[w].upper /\ r.made = run[w].made /\ r.wired = run[w].wired
        /\ r.left = run[w].left
    BY <1>0, <1>7, <2>1 DEF FabricAllocateAsn, At, Goto, RunState
  <2>3. r \in RunState
    BY <2>2 DEF TypeInv, TypeOK
  <2>4. UNCHANGED <<amount, devices, born, links, pools, checksum, pending, broken,
                    tracked, trackedLinks>>
    BY <1>7 DEF FabricAllocateAsn, design, nodes, faults
  <2>5. Stands(r)' /\ r.left \subseteq r.made
    BY <1>0, <2>2, <2>4 DEF Lawful, Grows, Stands
  <2>. QED
    BY <2>2, <2>3, <2>4, <2>5, GoesOnLedger
<1>8. CASE FabricRereadAsn(w)
  <2>1. PICK r : r = [run[w] EXCEPT !.pc = "overlay", !.asn = overlayAsn, !.left = run[w].made]
    OBVIOUS
  <2>2. /\ run' = [run EXCEPT ![w] = r] /\ run[w].pc = "reread" /\ r.pc = "overlay"
        /\ r.target = run[w].target /\ run[w].target = Fabric
        /\ r.want = run[w].want /\ r.wantUp = run[w].wantUp
        /\ r.upper = run[w].upper /\ r.made = run[w].made /\ r.wired = run[w].wired
        /\ r.left = run[w].made
    BY <1>0, <1>8, <2>1 DEF FabricRereadAsn, At, RunState
  <2>3. r \in RunState
    BY <2>2 DEF TypeInv, TypeOK
  <2>4. UNCHANGED <<amount, devices, born, links, pools, checksum, pending, broken,
                    tracked, trackedLinks>>
    BY <1>8 DEF FabricRereadAsn, design, nodes, faults
  <2>5. Stands(r)' /\ r.left \subseteq r.made
    BY <1>0, <2>2, <2>4 DEF Lawful, Stands
  <2>. QED
    BY <2>2, <2>3, <2>4, <2>5, GoesOnLedger
<1>9. ASSUME NEW d \in run[w].left, FabricStampAsn(w, d) PROVE LedgerInv'
  <2>1. d \in devices
    BY <1>9, NothingIsMissing DEF FabricStampAsn, At
  <2>. QED
    BY <1>9, <2>1, ConfiguredLedger DEF FabricStampAsn, At, design, faults
<1> QED
  BY <1>1, <1>2, <1>3, <1>4, <1>5, <1>6, <1>7, <1>8, <1>9 DEF FabricStep

LEMMA PodLedger ==
    ASSUME OneRunPerTarget, TypeInv, TypeInv', AsnInv, LedgerInv, NEW w \in Workers,
           PodStep(w)
    PROVE  LedgerInv'
<1>0. /\ Pods \subseteq Targets /\ Pods \subseteq Children /\ Racks \subseteq Children
      /\ Fabric \notin Pods /\ Pods \cap Racks = {} /\ Fabric \in Targets
      /\ \A p \in Pods : ParentOf(p) = Fabric /\ ChildrenOf(p) = RacksOf(p)
      /\ run[w] \in RunState /\ Lawful(run[w]) /\ run[w].target \in Targets
  BY Family, Numbers, TargetsAreDistinct DEF LedgerInv, Children, Targets
<1>1. ASSUME NEW p \in Pods, PodSkip(w, p) PROVE LedgerInv'
  BY <1>0, <1>1, SkippedLedger DEF PodSkip
<1>2. ASSUME NEW p \in Pods, PodStart(w, p) PROVE LedgerInv'
  <2>1. amount[Fabric] \in Nat /\ p \in Targets \ FabricPods
    BY <1>0, <1>2, Numbers DEF PodStart
  <2>2. amount[Fabric] = amount[ParentOf(p)] /\ p # Fabric
    BY <1>0
  <2>. QED
    BY <1>2, <2>1, <2>2, StartLedger DEF PodStart
<1>3. CASE PodGate(w)
  <2>1. ParentOf(run[w].target) = Fabric
    BY <1>0, <1>3 DEF PodGate, At
  <2>. QED
    BY <1>3, <2>1, GateLedger DEF PodGate, At
<1>4. CASE PodPools(w)
  <2>1. run[w].target \in Pods /\ run[w].pc = "pools"
    BY <1>4 DEF PodPools, At
  <2>2. CASE pools[Fabric]
    BY <1>0, <1>4, <2>1, <2>2, PoolsLedger DEF PodPools
  <2>3. CASE ~pools[Fabric]
    <3>1. ~Recorded(run[w].target)
      BY <1>0, <2>1, <2>3, Family DEF LedgerInv, Counted
    <3>2. Awaits(run[w].target)
      BY <1>0, <2>1, <3>1 DEF Awaits, Owes
    <3>. QED
      BY <1>4, <2>1, <2>3, <3>2, AbortLedger DEF PodPools
  <2>. QED
    BY <2>2, <2>3
<1>5. CASE PodCreate(w)
  BY <1>5, CreateLedger DEF PodCreate, At
<1>6. CASE PodCable(w)
  <2> PICK t : t = run[w].target
    OBVIOUS
  <2>1. PICK r : r = [run[w] EXCEPT !.pc = "signal", !.wired = CablingPlan(w),
                                    !.digest = PodDigest(w),
                                    !.todo = ToStamp(RacksOf(t), PodDigest(w))]
    OBVIOUS
  <2>2. /\ run' = [run EXCEPT ![w] = r] /\ run[w].pc = "create" /\ r.pc = "signal"
        /\ r.target = t /\ t \in Pods
        /\ r.want = run[w].want /\ r.wantUp = run[w].wantUp
        /\ r.upper = run[w].upper /\ r.made = run[w].made /\ r.wired = CablingPlan(w)
        /\ r.left = run[w].left /\ r.digest = r.made \cup {a[2] : a \in CablingPlan(w)}
        /\ r.todo = ToStamp(RacksOf(t), r.digest) /\ AllCreated(w)
    BY <1>0, <1>6, <2>1 DEF PodCable, PodDigest, At, RunState
  <2>3. r \in RunState
    BY <2>2 DEF TypeInv, TypeOK
  <2>4. Stands(run[w]) /\ Grows(run[w])
    BY <1>0, <2>2 DEF Lawful
  <2>5. r.made = Switches(t, r.want) /\ r.want <= born[t] /\ r.wired = Wires(t, r.want, r.wantUp)
    BY <1>0, <2>2, PlanIsComplete
  <2>6. r.upper = Switches(Fabric, r.wantUp) /\ r.wantUp <= born[Fabric] /\ pools[t]
    BY <1>0, <2>2, <2>4 DEF Stands
  <2>7. r.digest = Reach(t, r.want, r.wantUp)
    <3>1. CablingPlan(w) = Switches(t, r.want) \X Cabled(t, r.wantUp) /\ r.want \in Nat
      BY <1>0, <2>2, <2>5, Numbers DEF Wires
    <3>2. r.want > 0 => {a[2] : a \in CablingPlan(w)} = Cabled(t, r.wantUp)
      <4>1. r.want > 0 => <<t, 1, 1>> \in Switches(t, r.want)
        BY <3>1 DEF Switches
      <4>2. ASSUME r.want > 0, NEW d \in Cabled(t, r.wantUp)
            PROVE  d \in {a[2] : a \in CablingPlan(w)}
        <5>1. <<<<t, 1, 1>>, d>> \in CablingPlan(w)
          BY <3>1, <4>1, <4>2
        <5>. QED
          BY <5>1
      <4>3. \A a \in CablingPlan(w) : a[2] \in Cabled(t, r.wantUp)
        BY <3>1
      <4>. QED
        BY <4>2, <4>3
    <3>3. ~(r.want > 0) => {a[2] : a \in CablingPlan(w)} = {}
      BY <3>1, NoSwitches
    <3>. QED
      BY <2>2, <2>5, <3>2, <3>3 DEF Reach
  <2>8. /\ UNCHANGED <<amount, devices, born, pools, checksum, pending, broken,
                       tracked, trackedLinks>>
        /\ links' = links \cup CablingPlan(w)
    BY <1>6 DEF PodCable, design, faults
  <2>9. /\ \A c \in ChildrenOf(t) : c \in r.todo \/ checksum[c] = r.digest
        /\ r.todo \subseteq ChildrenOf(t)
    BY <1>0, <2>2 DEF ToStamp
  <2>10. r.wired \subseteq links'
    BY <2>2, <2>8
  <2>11. Stands(r)'
    BY <1>0, <2>2, <2>5, <2>6, <2>7, <2>8, <2>9, <2>10 DEF Stands
  <2>12. r.left \subseteq r.made
    BY <2>2, <2>4 DEF Grows
  <2>. QED
    BY <2>2, <2>3, <2>8, <2>11, <2>12, GoesOnLedger
<1>7. ASSUME NEW r \in Racks, PodStamp(w, r) PROVE LedgerInv'
  BY <1>0, <1>7, StampLedger DEF PodStamp
<1>8. CASE PodReadAsn(w)
  BY <1>8, ReadAsnLedger DEF PodReadAsn, At
<1>9. ASSUME NEW d \in run[w].left, PodOverlay(w, d) PROVE LedgerInv'
  BY <1>9, ConfigureLedger DEF PodOverlay, At
<1> QED
  BY <1>1, <1>2, <1>3, <1>4, <1>5, <1>6, <1>7, <1>8, <1>9 DEF PodStep

LEMMA RackLedger ==
    ASSUME OneRunPerTarget, TypeInv, TypeInv', AsnInv, LedgerInv, NEW w \in Workers,
           RackStep(w)
    PROVE  LedgerInv'
<1>0. /\ Racks \subseteq Targets /\ Fabric \notin Racks /\ Racks \cap FabricPods = {}
      /\ \A r \in Racks : ParentOf(r) = PodOf[r] /\ ChildrenOf(r) = {} /\ PodOf[r] \in Targets
      /\ run[w] \in RunState /\ Lawful(run[w])
  BY Family, Numbers, TargetsAreDistinct DEF LedgerInv, Targets
<1>1. ASSUME NEW r \in Racks, RackReject(w, r) PROVE LedgerInv'
  BY <1>1, RejectLedger
<1>2. ASSUME NEW r \in Racks, RackStart(w, r) PROVE LedgerInv'
  <2>1. amount[PodOf[r]] \in Nat /\ r \in Targets \ FabricPods
    BY <1>0, Numbers
  <2>2. amount[PodOf[r]] = amount[ParentOf(r)] /\ r # Fabric
    BY <1>0
  <2>. QED
    BY <1>2, <2>1, <2>2, StartLedger DEF RackStart
<1>3. CASE RackGate(w)
  <2>1. ParentOf(run[w].target) = PodOf[run[w].target]
    BY <1>0, <1>3 DEF RackGate, At
  <2>. QED
    BY <1>3, <2>1, GateLedger DEF RackGate, At
<1>4. CASE RackCreate(w)
  BY <1>4, CreateLedger DEF RackCreate, At
<1>5. CASE RackCable(w)
  <2> PICK t : t = run[w].target
    OBVIOUS
  <2>1. PICK r : r = [run[w] EXCEPT !.pc = "signal", !.wired = CablingPlan(w)]
    OBVIOUS
  <2>2. /\ run' = [run EXCEPT ![w] = r] /\ run[w].pc = "create" /\ r.pc = "signal"
        /\ r.target = t /\ t \in Racks
        /\ r.want = run[w].want /\ r.wantUp = run[w].wantUp
        /\ r.upper = run[w].upper /\ r.made = run[w].made /\ r.wired = CablingPlan(w)
        /\ r.left = run[w].left /\ AllCreated(w)
    BY <1>0, <1>5, <2>1 DEF RackCable, At, RunState
  <2>3. r \in RunState
    BY <2>2 DEF TypeInv, TypeOK
  <2>4. Stands(run[w]) /\ Grows(run[w])
    BY <1>0, <2>2 DEF Lawful
  <2>5. r.made = Switches(t, r.want) /\ r.want <= born[t] /\ r.wired = Wires(t, r.want, r.wantUp)
    BY <1>0, <2>2, PlanIsComplete
  <2>6. /\ UNCHANGED <<amount, devices, born, pools, checksum, pending, broken,
                       tracked, trackedLinks>>
        /\ links' = links \cup CablingPlan(w)
    BY <1>5 DEF RackCable, design, faults
  <2>7. r.wired \subseteq links'
    BY <2>2, <2>6
  <2>8. Stands(r)'
    BY <1>0, <2>2, <2>4, <2>5, <2>6, <2>7 DEF Stands
  <2>9. r.left \subseteq r.made
    BY <2>2, <2>4 DEF Grows
  <2>. QED
    BY <2>2, <2>3, <2>6, <2>8, <2>9, GoesOnLedger
<1>6. CASE RackReadAsn(w)
  BY <1>6, ReadAsnLedger DEF RackReadAsn, At
<1>7. ASSUME NEW d \in run[w].left, RackOverlay(w, d) PROVE LedgerInv'
  BY <1>7, ConfigureLedger DEF RackOverlay, At
<1> QED
  BY <1>1, <1>2, <1>3, <1>4, <1>5, <1>6, <1>7 DEF RackStep

LEMMA StepLedger ==
    ASSUME ~AllowShrink, ~ScarcePorts, OneRunPerTarget
    PROVE  TypeInv /\ TypeInv' /\ AsnInv /\ LedgerInv /\ [Next]_vars => LedgerInv'
<1> SUFFICES ASSUME TypeInv, TypeInv', AsnInv, LedgerInv, [Next]_vars PROVE LedgerInv'
  OBVIOUS
<1>1. ASSUME NEW w \in Workers, WorkerStep(w) PROVE LedgerInv'
  BY <1>1, FabricLedger, PodLedger, RackLedger, FinishLedger DEF WorkerStep, CablingFails
<1>2. ASSUME NEW w \in Workers, Die(w) PROVE LedgerInv'
  BY <1>2, DieLedger
<1>3. CASE Operator
  BY <1>3, ResizeLedger, ByHandLedger DEF Operator
<1>4. CASE UNCHANGED vars
  BY <1>4 DEF vars, LedgerInv, Counted, DevicesOf, Recorded, ChildrenOf, Lawful, Grows, Stands,
              UpToDate, Debt, Awaits, Owes, Busy, Finished
<1> QED
  BY <1>1, <1>2, <1>3, <1>4 DEF Next

LEMMA LedgerAlways ==
    ASSUME ~AllowShrink, ~ScarcePorts, OneRunPerTarget
    PROVE  Spec => [](TypeInv /\ AsnInv /\ LedgerInv)
<1>1. Init => TypeInv /\ AsnInv /\ LedgerInv
  BY InitTyped, InitAgreed, InitLedger
<1>2. TypeInv /\ AsnInv /\ LedgerInv /\ [Next]_vars => (TypeInv /\ AsnInv /\ LedgerInv)'
  BY StepTyped, StepAgreed, StepLedger
<1> QED
  BY <1>1, <1>2, PTL DEF Spec

-----------------------------------------------------------------------------
(* With nothing under way the debt can only be settled, from the fabric down. *)
LEMMA QuietIsSettled ==
    ASSUME TypeInv, LedgerInv, Quiet, broken = {}
    PROVE  \A t \in Targets \ FabricPods : Finished(t)
<1>1. ASSUME NEW t \in Targets \ FabricPods, t = Fabric \/ ~Owes(t) PROVE Finished(t)
  BY <1>1 DEF Quiet, LedgerInv, Debt, Awaits, Busy
<1>2. Finished(Fabric)
  BY <1>1, Family, TargetsAreDistinct
<1>3. ASSUME NEW p \in Pods \ FabricPods PROVE Finished(p)
  BY <1>1, <1>2, Family DEF Finished, Targets
<1>4. ASSUME NEW r \in Racks PROVE Finished(r)
  <2>1. /\ PodOf[r] \in Pods \ FabricPods /\ r \in ChildrenOf(PodOf[r])
        /\ r \in Targets \ FabricPods
    BY Family, TargetsAreDistinct DEF Targets, Children
  <2>. QED
    BY <1>1, <1>3, <2>1 DEF Finished
<1> QED
  BY <1>2, <1>3, <1>4 DEF Targets

LEMMA SettledIsBuilt ==
    ASSUME TypeInv, LedgerInv, Quiet, broken = {} PROVE Built
<1> SUFFICES ASSUME NEW t \in Targets \ FabricPods PROVE BuiltAsDesigned(t)
  BY DEF Built
<1> DEFINE u == ParentOf(t)
<1>1. /\ Finished(t) /\ Counted(t) /\ Counted(u) /\ born[t] \in Nat
      /\ born[u] \in Nat /\ amount[u] \in Nat /\ u \in Targets
  BY QuietIsSettled, Family, Numbers DEF LedgerInv
<1>2. Cardinality(DevicesOf(t)) = amount[t]
  BY <1>1, SwitchesCount DEF Finished, Counted
<1>3. ASSUME t # Fabric
      PROVE  DevicesOf(t) \X First(Uplinks[t], DevicesOf(u)) \subseteq links
  <2>1. t \in Children /\ Uplinks[t] \in Nat
    BY <1>3, BoundsAreNumbers DEF Targets, Children
  <2>2. First(Uplinks[t], DevicesOf(u)) = Cabled(t, born[u])
    BY <1>1, <2>1, FirstSwitches DEF Counted, Cabled
  <2>3. Cabled(t, born[u]) \subseteq Cabled(t, amount[u])
    BY <1>1, <2>1, CabledGrow DEF Counted
  <2>. QED
    BY <1>1, <1>3, <2>2, <2>3 DEF Finished, Counted, Wires
<1> QED
  BY <1>2, <1>3 DEF BuiltAsDesigned

(* The cascade repairs itself and never stops short: with nothing pending or *)
(* running and every died run repeated, every switch of the design is there, *)
(* linked to as many switches above as it has uplinks for (cabling.py        *)
(* truncates), whichever runs aborted at a gate (PodGenerator.generate,      *)
(* RackGenerator.generate) on an outdated count on the way. It needs a port  *)
(* for every planned cable on the devices above: a plan that runs out of     *)
(* them raises, and nothing repeats the run.                                 *)
THEOREM QuietIsBuilt ==
    ASSUME ~AllowShrink, ~ScarcePorts, OneRunPerTarget
    PROVE  Spec => []QuietMeansBuilt
<1>1. TypeInv /\ AsnInv /\ LedgerInv => QuietMeansBuilt
  BY SettledIsBuilt DEF QuietMeansBuilt
<1> QED
  BY <1>1, LedgerAlways, PTL

(* A stamp never takes back an older one: a run that started from an         *)
(* outdated query overlaps none of its kind, so that what it stamps was      *)
(* taken over no less than what is there (Checksum.stamp_on).                *)
LEMMA StampsGrow ==
    ASSUME TypeInv, LedgerInv, [Next]_vars
    PROVE  \A c \in Children : checksum[c] = NoDigest \/ checksum[c] \subseteq checksum'[c]
<1>1. ASSUME NEW w \in Workers, NEW c \in Children, NEW d \in Children,
             run[w].target \notin Racks, StampChild(w, c), checksum[d] # NoDigest
      PROVE  checksum[d] \subseteq checksum'[d]
  <2>1. Grows(run[w]) /\ Stands(run[w]) /\ run[w].pc = "signal"
    BY <1>1 DEF LedgerInv, Lawful, StampChild
  <2>2. c \in ChildrenOf(run[w].target)
        /\ run[w].digest = Reach(run[w].target, run[w].want, run[w].wantUp)
    BY <1>1, <2>1 DEF Stands, StampChild
  <2>3. checksum' = [checksum EXCEPT ![c] = run[w].digest]
    BY <1>1 DEF StampChild
  <2>4. CASE d = c
    BY <1>1, <2>1, <2>2, <2>3, <2>4 DEF Grows, Recorded, TypeInv, TypeOK
  <2>5. CASE d # c
    BY <2>3, <2>5 DEF TypeInv, TypeOK
  <2>. QED
    BY <2>4, <2>5
<1>2. \/ \E w \in Workers, c \in Children : run[w].target \notin Racks /\ StampChild(w, c)
      \/ checksum' = checksum
  <2>1. /\ Pods \subseteq Children /\ Racks \subseteq Children /\ Fabric \notin Racks
        /\ Pods \cap Racks = {}
    BY TargetsAreDistinct DEF Children
  <2>2. ASSUME NEW w \in Workers, FabricStep(w)
        PROVE  \/ \E c \in Children : run[w].target \notin Racks /\ StampChild(w, c)
               \/ checksum' = checksum
    BY <2>1, <2>2 DEF FabricStep, FabricStart, FabricPools, FabricCreate, CreateDevice,
          FabricListPods, FabricStamp, FabricReadAsn, FabricAllocateAsn, FabricRereadAsn,
          FabricStampAsn, Abort
  <2>3. ASSUME NEW w \in Workers, PodStep(w)
        PROVE  \/ \E c \in Children : run[w].target \notin Racks /\ StampChild(w, c)
               \/ checksum' = checksum
    BY <2>1, <2>3 DEF PodStep, PodSkip, PodStart, PodGate, PodPools, PodCreate, CreateDevice,
          PodCable, PodStamp, PodReadAsn, ReadAsn, PodOverlay, ConfigureDevice, Abort
  <2>4. ASSUME NEW w \in Workers, RackStep(w) PROVE checksum' = checksum
    BY <2>4 DEF RackStep, RackReject, RackStart, RackGate, RackCreate, CreateDevice, RackCable,
          RackReadAsn, ReadAsn, RackOverlay, ConfigureDevice, Abort
  <2>5. ASSUME NEW w \in Workers, Finish(w) \/ Die(w) PROVE checksum' = checksum
    BY <2>5 DEF Finish, Die
  <2>6. ASSUME Operator \/ UNCHANGED vars PROVE checksum' = checksum
    BY <2>6 DEF Operator, Resize, RunByHand, vars
  <2>7. ASSUME NEW w \in Workers, CablingFails(w) PROVE checksum' = checksum
    BY <2>7 DEF CablingFails, Abort
  <2>. QED
    BY <2>2, <2>3, <2>4, <2>5, <2>6, <2>7 DEF Next, WorkerStep
<1> QED
  BY <1>1, <1>2

THEOREM StampsOnlyGrow ==
    ASSUME ~AllowShrink, ~ScarcePorts, OneRunPerTarget
    PROVE  Spec => StampsNeverRegress
<1>1. TypeInv /\ AsnInv /\ LedgerInv /\ [Next]_vars =>
          [\A c \in Children : checksum[c] = NoDigest \/ checksum[c] \subseteq checksum'[c]]_checksum
  BY StampsGrow
<1> QED
  BY <1>1, LedgerAlways, PTL DEF Spec, StampsNeverRegress

===============================================================================
