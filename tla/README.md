# Verification of the AI/DC generators

The repository builds an AI data-centre fabric in Infrahub: five *generators*
(`generators/*.py`) turn design objects into devices, cables, addresses, BGP
sessions and overlay placement. Each runs as a task on a worker, talks to the
graph in separate calls without transactions, and starts others only through
the trigger rules of `triggers.yml`, which watch attributes of the design
objects. Almost everything that can go wrong lies in the order of those calls,
so that is what the modules here model.

## Inventory

| Component | State it keeps | Operations | Interacts with |
|---|---|---|---|
| FabricGenerator (`generate_fabric.py`) | fabric pools, super-spines, `overlay_asn` | allocate pools, upsert devices, stamp pods, allocate and stamp the ASN | stamps `checksum` on pods |
| PodGenerator (`generate_pod.py`) | pod pools, spines, links, EVPN sessions | gates, pools, spines, cabling, stamp racks, overlay | dispatched by the pod's checksum; stamps racks |
| RackGenerator (`generate_rack.py`) | leafs, links, EVPN sessions | gates, leafs, cabling, overlay | dispatched by the rack's checksum |
| ServerGenerator (`generate_server.py`, `servers.py`, `addressing.py`) | server, link, /31, ASN, eBGP pair, `rack`/`leaf_interface` of the service | place, move, release, cable, address, peer, record | competes with other services for leaf ports; widens a segment's racks; dispatches itself |
| OverlayGenerator (`generate_tenant.py`, `overlay.py`) | VNI, route target, subnet, gateway, `Device.segments` | allocate, place | shares the leafs with other tenants; dispatches itself |
| Checksum (`checksum.py`) | `GeneratorTarget.checksum` | digest, stamp what differs | the only signal between generators |
| cabling, sorting (`cabling.py`, `sorting.py`) | links and the interfaces they plug | plan the interfaces, lay the cables one by one | called by the pod's and the rack's run |
| clusters, Cilium manifest (`clusters.py`, `cilium_manifest.py`) | none: a view of the graph | choose the members that peer, render their documents | reads what the ServerGenerator writes, in the middle of its runs too |
| triggers (`triggers.yml`) | none | dispatch a run on an attribute change | the platform |
| vendors, other transforms | none | pure functions of what they are given | called by the above, or render the graph |

Hard behaviours: runs read their GraphQL query once and act on it many calls
later; a run that raises rolls nothing back; a stamp is skipped when the digest
is unchanged, so a wake-up can be lost; devices a run no longer made are deleted
only after it returned; a service's placement fields are both question and
answer. What makes each component correct:

* cascade: it converges to the design, tier after tier, with one overlay ASN and
  no session without its cable;
* cabling: pods and racks are planned onto disjoint interfaces, a laid cable is not
  unplugged by others, the cleanup of a finished run deletes no interface that is in
  use, and at rest exactly what is planned is plugged;
* servers: a settled service is attached to exactly one port with nothing left
  over, nobody else's cable is touched, and the self-triggering loop ends;
* clusters: a member in the manifest is answered by the leaf it dials, and nobody
  else's runs change its document;
* tenants: identifiers never change once allocated, tenants do not disturb one
  another, and a settled tenant is placed exactly as asked.

`PROJECT.json` lists every component, every hazard at its line, and the source
lines each definition stands for.

## Modules

**`Cascade.tla`** - the three physical generators on one branch. `run[w]` is what
worker `w` remembers of the run it executes (the amounts the query returned, the
devices it listed, made and wired, whom it still has to stamp); the other
variables are the graph. One action per call other runs can observe:
`FabricPools`, `FabricCreate` (one device), `FabricListPods` (the digest is taken
and compared), `FabricStamp` (one child is saved and its rule fires),
`FabricReadAsn`/`FabricAllocateAsn`/`FabricRereadAsn`/`FabricStampAsn`, and the
same for pods and racks. `Finish` is the SDK's tracking mode: it deletes the
group's former members that the run did not touch. `Die` stops a run anywhere;
`Resize` and `RunByHand` are the operator. A device is the pair of its hostname
number and a node id that is never reused, because the digest is over ids.
Tiers are not a full mesh: a switch has as many links as it has uplinks (`Uplinks`,
the `src_interfaces[:dst_device_count]` of `cabling.py:29` and `:52`), to the switches
above that were created first (`First`). `BuiltAsDesigned` asks for exactly these, so a
fifth spine above leafs with four uplinks counts as built without a single leaf link,
which is what the code makes of it. With `ScarcePorts` a plan may also run past the
last port of a switch above and raise after the gate (`CablingFails`).

**`ServerService.tla`** - the server services of a fabric. Placement
(`Placement`, `Explicit`, `Existing`, `Moved`, `Released`) is written as operators
over the current state, since `resolve_placement` reads and decides before the
run's first write; everything after it is a chain of actions in the order of
`generate`, from `MaterializeServer` through `Detach`, `Unlink`, `Unaddress`,
`Unpeer`, `Cable` and the l3 or l2 branch to `RecordPlacement` and `Stamp`. A port
that no longer exists or is taken makes the run raise where the code's call fails.

**`PortAssignment.tla`** - what the ServerGenerator promises about leaf ports, without
its steps: a port serves one server, a server gives its port back before it takes
another, and only a run of its own service or the loss of the server unplugs it.
`ServerService` implements it under the mapping `Assignment`: a service *holds* the
port its server's link names if that port points back (`Holds`).

**`ClusterPeering.tla`** - extends `ServerService` by the view `clusters.py` and
`cilium_manifest.py` take of it. `Peers` is the chain of checks of
`peering_for_member`, `Peering` the record it returns, `Documents` the manifest. It
has no actions of its own: the manifest is rendered on demand, so every state of the
ServerGenerator is a state it may be rendered from.

**`Cabling.tla`** - which interfaces the pods' and racks' runs plug together. An
interface is its device, side and rank in name order; `NameAt` is the sorting,
`PodSlot` and `RackSlot` are the slot arithmetic, `CablingPlan` the list that is laid.
A run builds its devices (`Build`, which merges the query, the gate and the upserts,
whose interleavings are the concern of `Cascade`), plans every cable at once
(`PlanCables`), lays them one at a time (`Connect`) and is then cleaned up after
(`Finish`). That cleanup is the SDK's: the members of the owner's generator group that
the run did not save again are deleted, then the group becomes what the run saved.
`group` holds them: the links, the devices, and the interfaces at *both* ends of every
cable, since `cabling.py:76-77` and `addressing.py:34` save them with the default
`update_group_context`. Two things follow, and both are in the model. A run that dies
updates no group, so the links it laid are nobody's to delete and stay for ever once no
plan has them. And an interface of a super-spine or a spine may be deleted by the run of
a pod or rack below it that no longer uses it (`pruned`); the list it was in is then one
shorter for everybody.

Operators re-index, resize and replace devices. `due` is not a dispatcher but history:
the targets that no run has seen as they are and finished, or may yet. A run may start
at any time; one whose gate fails raises before it changes anything and is no step here,
and nothing repeats it (what becomes of that is the concern of `Cascade`). A run is
`Overtaken` when the design or the tier above is no longer what it started from. With
`MayMove` what has been cabled may be re-indexed and tiers may shrink.

Three simplifications: the devices of a query come in the order they were created; both
gates read the tier in the same step as the query; an interface that is deleted with its
device and made anew while a run still holds the old one counts as the same interface,
which can happen only with `MayActDuringRun` or `MayMove`.

**`TenantOverlay.tla`** - the tenants of a fabric. A run numbers a VRF, then its
segments, each in the calls of `configure_vrf`/`configure_segment` (allocate, re-read
and set the route target, carve the subnet, bind it), and then reconciles leaf by
leaf. Operator edits, `AttachServer`, new leafs and other tenants interleave.

`Cascade` does not extend the others: servers and tenants see of it only that the
`overlay_asn` becomes set (`FabricReady`) and that leafs appear (`BuildLeaf`), and
`Cabling` replaces checksums and stamps by the set `due` of targets whose plan is out
of date. `MCCascade`, `MCCabling`, `MCServerService` (which extends `ClusterPeering`)
and `MCTenantOverlay` give the constants values for TLC; the modules `*_proofs` hold
the theorems.

## Runs

| Run | Instance | Shows |
|---|---|---|
| `cascade_converge` | 1 fabric, the super-spine pod, 1 pod, 1 rack, 2 workers, up to 2 switches a tier, leafs with 1 uplink, 1 edit, 1 dying run, growing only | `QuietMeansBuilt`: nothing pending, nothing running and no unrepeated failure means the design is built; `StampsNeverRegress`; types; `EventuallyBuilt` under weak fairness |
| `cascade_safety` | the same, also 0 switches above the rack, growing and shrinking, plans that raise (`ScarcePorts`) | `TierOrder`, `SessionsFollowCabling`, `AsnAgreement` |
| `cascade_overlay_race` | no edit, no failure | *violation* of `QuietMeansOverlayBuilt`: a pod that runs before the ASN exists gets no sessions and is not run again |
| `cascade_shrink` | full fabric, 1 edit | *violation* of `QuietMeansBuilt` when a tier shrinks |
| `server_safety` | an l3 and an l2 service, 2 racks, 3 ports, 2 edits, also during runs, 1 dying run | `SettledMeansAttached`, `NoTheft`, `RerunIsNoop`; `AssignsPorts`, the refinement of `PortAssignment`; `DocumentsChangeAlone`: another member's run never changes a document |
| `server_live` | two pinned services in one rack, one of them with a second port on its leaf, 1 edit or deletion between runs, 2 dying runs | `SettledMeansAttached`, also for the move within a leaf; `SelfTriggerSettles`, `EventuallyAttached`; `PeersAreAnswered` in every state a manifest may be rendered from; `SettledMeansPeered` |
| `server_interrupted_move` | 1 service, a move to another rack, 1 dying run | *violation* of `EventuallyAttached`: the move is reverted |
| `server_lost_edit` | 1 service, 1 edit during a run | *violation* of `EditsHonored`: the write-back overwrites it |
| `server_stranded_pair` | 1 l3 service, a move within its leaf that dies, then a move to another leaf | *violation* of `SettledMeansAttached`: the session pair of the first leaf stays |
| `server_reclaim` | 2 l3 services, a deletion and a move | *violation* of `NoTheft`: a link judged stranded is deleted after its owner came back |
| `cabling` | 2 pods of up to 2 spines below up to 3 super-spines, 2 racks of up to 2 leafs, 2 uplinks each, 2 runs at once, 1 edit (an index, a size or a replaced device), 1 dying run | `RangesDisjoint`, `CablesStay`, `QuietMeansCabled`, `PortsStay`; types |
| `overlay` | 2 tenants with a segment each (one routed, one added later), 2 leafs (one built later), 1 change, 1 dying run | `SettledMeansMaterialized`, `OthersUntouched`, `IdentifiersStable`, `EventuallyMaterialized` |

The violations are disagreements between the code and what its docs, docstrings or
schema say; `PROJECT.json` quotes the lines and tells the traces.

More disagreements have no listed run.

* "Removing a segment releases its allocated identifiers." (evpn-vxlan-overlay.mdx:111),
  but no code gives a removed segment's /24 and gateway back.
* "Each spine connects to every super spine." and "Each leaf connects to every spine in
  the pod." (modular-generator-architecture.mdx:103 and :112), but both plans stop at the
  interfaces there are. `generate_pod.py:298` ("tiers are not a full mesh") and
  `tests/integration/test_generator_chain.py:516-523` know it: a fifth spine has no leaf
  links at all, "with no error raised anywhere".
* "The offset formula ensures that pods do not compete for the same interfaces"
  (modular-generator-architecture.mdx:108). The theorem `WidePodsCollide` says that the
  first spine too many of a pod takes the first slot of the next pod, and no rule of the
  program keeps a pod from having more spines than there are super-spines. Narrow pods
  compete too once tiers shrink: the pods' gate (`generate_pod.py:80`) counts the
  super-spines without asking which they are, and the slots are spaced by the
  super-spines whose interfaces are fetched later (`cabling.py:21`). The operator drops
  one of three super-spines from the design and deletes another; both gates pass, the
  fabric's run deletes the surplus one and makes the missing one anew, the pods' runs
  find interfaces on the one that is left and space their slots by 1 instead of 2, and
  the pod with index 3 takes the interface the pod with index 2 has its second spine on.
  `tlc -config cabling_counted_gate.cfg MCCabling` finds this as a violation of
  `CablesStay`.
* "The fabric generators own the interfaces they address and produce the same set every
  run, so they keep the default" (`addressing.py:52-53`). A pod with another index
  produces another set: its next run deletes the interfaces of the super-spines it used
  before, and every pod behind it shifts by as many.
  `tlc -config cabling_moved_pod.cfg MCCabling` finds this as a violation of `PortsStay`.
  The same happens when a tier shrinks, and to pods with an index of 3 or more when
  super-spines are added below which they were already cabled.

The comments at `triggers.yml:134` and `:146` say that VRF, segment and placement edits
re-run the generators, but the rules watch only `checksum`; the models take the rules, so
after such an edit somebody runs the generator again (`RunAgain`). The docs of servers say that the
loser of a race for a port fails to save, a comment in `generate_server.py:343-345`
that it is silently re-pointed; `RefuseSecondCable` selects between the two and the
runs of `ServerService` assume the refusal. Without it `NoTheft` and `AssignsPorts`
fail within one race. The run `cabling` takes the lax platform, the harder case there: a
plan laid over an old one re-points the interfaces; its theorems hold on both. On a
strict one a run whose plan shifted (a spine that was replaced is now the youngest, so
its siblings move up) raises at its first cable: the interfaces are still plugged into
the links that only the end of the run would delete, and so does every re-run until
somebody deletes them. That a target ends cabled at all is therefore no property of
`Cabling`. Whichever way the platform behaves, one of the two parts has a problem with it.

What the cleanup never reaches is not a disagreement, since nothing is said of it. The
`NetworkLink`s of a run that died, and a device that such a run made and the design no
longer asks for, are in no group and stay for ever once the next run does not make them
again. After a replaced spine the repeated run plugs all of their interfaces anew
(`QuietMeansCabled`). After a changed index it does not:
`tlc -config cabling_died_run.cfg MCCabling` has a super-spine's interface that remains
plugged into a link of the index before, which is why an index may change in `cabling`
only before the first cable of its owner (`Unbuilt`).

### Bounds

Two workers are the least for a race. One pod and one rack suffice for the cascade
because runs of siblings share nothing but the tier above; amounts up to 2 give
partial tiers, growth and shrinkage. `MaxEdits` and `MaxChanges` bound the operator,
`MaxFailures` the deaths: one death at every point of a run covers crash and retry,
two edits overlap two waves of stamps. Three ports for two services leave a free
port to move to. `FailAt` names the places where a server run may die. In
`server_safety` and `server_live` it excludes the calls of `release_leaf_port` and
those between taking a /31 and having it on an end of the cable: there a death loses what
was still to be deleted and leaks a /31, a known gap of the code listed as a hazard.
`server_safety` dies where a half-done attachment is largest and smallest, before the
cable and before the write-back; the theorems cover the rest. It also leaves out deletions, which
`server_live` and `server_reclaim` have. In `server_live` a service moves between two
ports of one leaf and between leafs, once. A move inside a leaf that dies, followed by a
move to another leaf, needs two edits and has the violation run `server_stranded_pair`;
when the operator repeats a failed run before the next edit (`RepeatsFirst`), the same
ports with two edits and two deaths pass: `tlc -config server_repeats_first.cfg
MCServerService`. In `Cascade` switches are counted, not named by interface, and an id set
is its own digest; one uplink a leaf makes the second spine the one that is left without
links. Deleted interfaces are the concern of `Cabling` only. In `cabling` one edit is enough for a
new plan to be laid over an old one (a replaced spine moves its siblings up), the run
that dies leaves it half laid, and nine
downlinks are what two pods below three super-spines need, one index free between
them; the pods start at index 2, as the slot formula asks (index 1 counts from the end
of the list), and no pod is wider than its fabric. Two runs at once are the pairs that
can take an interface from each other. Nothing that was cabled is re-indexed and no tier
shrinks (`MayMove`): an index changes only before the first cable of its owner, the
super-spines grow only before any pod is cabled. `cabling_counted_gate.cfg`,
`cabling_moved_pod.cfg` and `cabling_died_run.cfg` show what happens otherwise.

### Fairness

`WF` on the steps of workers or runs: a dispatched run is taken off the queue and
goes on until it returns or raises, which is what the platform's workers do. `WF` on
`RunAgain`: someone repeats a generator that failed or whose inputs were edited,
which the docs ask of the operator and no rule does. `WF` on `FabricReady`: the
fabric gets its ASN in the end. `Cabling` has no fairness and no liveness: who starts a
run again is not its concern. Edits, deletions and failures have no fairness.
`EventuallyBuilt` does not assume repeats but makes them its premise.

### Assumptions

* One run per design object, service or tenant at a time. For the cascade this is
  the constant `OneRunPerTarget`; the ASN theorem states it as an assumption.
* A save is atomic and a read sees the current graph. Calls in one method that only
  touch what no other run reads are merged with the call after them: the read and
  the save of a port, the get and the edge changes of a leaf, the several pools of
  one tier.
* Deleting a node takes its component children and the sessions that name it with
  it; links keep the other end.

## Proofs

All theorems hold for every value of the constants their modules' named assumptions
admit: any fabric, amounts, numbers of workers, services, ports, tenants, and any
bounds on edits and failures.

`Cascade_proofs.tla`:

* `TypeCorrect`: `Spec => []TypeOK`. The inductive invariant adds that the devices a
  run made are a finite set, since the hostname counter is their cardinality.
* `TiersInOrder`: `Spec => []TierOrder`. `TierOrder` alone is not inductive: whether
  a create step is safe depends on what the run found earlier. The strengthening
  says that a pod's run at "create" has seen the fabric's pools, that any rack's run
  has seen its pod's, and that pools are never taken back.
* `AsnAgreed`: with `OneRunPerTarget`, `Spec => []AsnAgreement`. The strengthening
  ties the ASN each run remembers to the fabric's: only a run at "alloc" can change
  it, there is at most one such run, and it is there only while the ASN is unset.

* `SessionsFollow`: with `OneRunPerTarget`, `Spec => []SessionsFollowCabling`. A run
  makes sessions from memory, so the invariant `SessionInv` is about that memory: a
  cable a run remembers is there as long as both of its devices are. Two facts keep
  it so. A device made anew gets an id no remembered cable ends at (`Known`), and the
  links a finishing run deletes are of its own target, which no other run wires
  (`OwnWiring` and the `Exclusive` of the theorem before).

`CascadeSettles_proofs.tla`:

* `QuietIsBuilt`: with `OneRunPerTarget`, without `AllowShrink` and without
  `ScarcePorts`, `Spec => []QuietMeansBuilt`, for any number of uplinks. All three are
  needed: a tier that shrinks refutes the property (`cascade_shrink`), two runs of one
  target may finish in the wrong order, and a run that raises at a plan past the last
  port of a switch above is repeated by nobody.
  The property speaks of a graph at rest, so the invariant `LedgerInv` says what is
  owed while it is not. `Counted`: a target's devices of one birth are numbered
  without gaps, so that a tier is built exactly when it has grown to its amount.
  `Lawful`: a run at work adds to what there is (`Grows`), leaves what it made
  (`Stands`) and has a plan that is as new as the design or has been overtaken
  (`UpToDate`). `Debt`: what of a target is not built is still to come, because the
  target is dispatched, being run, failed, or waiting for a stamp of the tier above
  that will differ from the one it has (`Owes`, `Awaits`). `QuietIsSettled` takes the
  three together: with nothing at work or pending the fabric owes nothing, therefore
  its pods do not, therefore their racks do not.
* `StampsOnlyGrow`: under the same assumptions `Spec => StampsNeverRegress`, since
  what a run digests contains what every earlier run digested.

`Cabling_proofs.tla`:

* `CablingTypeCorrect`: `Spec => []TypeOK`, from the invariant `Shape`: indexes and
  amounts are the operator's (`DesignOK`), every list of devices, also the one a run
  remembers, has each of them once (`Listed`). That every planned port is one of its
  device is the arithmetic of `NameAt` and of the slots in range.
* `RangesStayDisjoint`: `Spec => []RangesDisjoint`. `SiblingsApart` is the lemma on the
  slots: whatever a pod or a rack is given of a device above it, no sibling is, for
  both sortings and for indexes that wrap around the list's end. `Shape` provides what
  it needs, that siblings keep distinct indexes and no pod is wider than its fabric.
* `WidePodsCollide`: the slot of spine n + 1 of pod i is the slot of spine 1 of pod
  i + 1 when there are n super-spines.
* `QuietIsCabled`: without `MayActDuringRun` and `MayMove`, `Spec =>
  []QuietMeansCabled`. The property speaks of the state at rest, so the invariant
  `CablingInv` says what holds before it: a run works to the present index, on devices
  there are, a pod's run to all the super-spines (`CurrentRun`); what it has laid and
  what it still holds together are its plan, and what it has laid is in place unless it
  is to run again (`Laying`); an owner with nothing left to do is cabled as planned
  (`Laid`). A sibling's cable disturbs none of this because the two plans share no
  interface; a change above makes the owner due.
* `PortsAreLeft`: under the same assumptions `Spec => []PortsStay`. That nothing is
  pruned has to be part of the invariant, because every plan rests on the lists it would
  shorten. It is kept by the *window* of an owner, the set of interfaces that its index,
  its amount and the tier above give it, in whatever order its devices come: the members
  of its group and everything plugged on its links are in there (`Kept`, `InPlace`), the
  window only grows (`WindowGrows`), loses only interfaces of devices that go
  (`WindowThins`), and a run that finishes has saved all of it (`WindowIsPlan`).
* `CablesAreLeft`: under the same assumptions `Spec => CablesStay`, step by step from
  `CablingInv`: a run lays only what is planned for its owner, and finishing deletes
  only members of its own group that are not. Both assumptions are needed:
  `cabling_counted_gate.cfg`, `cabling_moved_pod.cfg` and `cabling_died_run.cfg` refute
  `CablesStay`, `PortsStay` and `QuietMeansCabled` with `MayMove`, and a re-index in the middle of a run lets it go on with the index it had, which a sibling
  may own by then.

`ServerService_proofs.tla`:

* `ServerTypeCorrect`: `Spec => []TypeOK`, together with the shape of a run: what it
  remembers at each of its steps.
* `NoRunSteals`: `Spec => NoTheft`, if the platform refuses a second cable
  (`RefuseSecondCable`) and no operator deletes a server (`~MayDelete`). The inductive
  invariant `Wiring` says that a port's server points back (`Wired`), that only a
  plugged port has an address (`Addressed`), and that a run which releases a port
  judged it its own and nobody took it since (`Held`). Each assumption is needed:
  without the first a race unplugs the loser, without the second `server_reclaim`
  shows the theft.
* `RunsAssignPorts`: under the same assumptions `Spec => AssignsPorts`, that is, the
  ServerGenerator implements `PortAssignment`. Every step of a run maps to one step of
  the abstract specification or to a stutter: the save in `Detach` gives the port
  back, the one in `Cable` takes one, `MaterializeServer` provides the server.

`ServerSettles_proofs.tla`, all under `RefuseSecondCable` and `~MayDelete` (the
platform refuses a second cable, no server is deleted):

* `RerunsWriteNothing`: `Spec => RerunIsNoop`. The run of a settled service finds the
  port it has (`Existing`) and every call after that finds its result there.
* `SettledAreAttached`: `Spec => []SettledMeansAttached`; `SettledAreEquipped`, the
  part of it about what a settled service has (a link on its port, a /31 on both of
  its ends, one ASN, one pair of sessions), which holds for any edits and wherever runs
  die but in the four places of `Fragile`.
* `PeersAnswered`, `SettledArePeered`: `Spec => []PeersAreAnswered` and
  `Spec => []SettledMeansPeered`.

  The argument has four layers. `PhaseInv` says which of its fields a run has set at
  each step and where they come from. The ledger says who owns what: a link has the
  two ends it was made for (`Cabled`), a /31 is on the two ends of one link
  (`Carved`), a service keeps its ASN (`Numbered`), a session pair names a leaf and
  the member's ASN (`Paired`). `ProgressInv` says what a run has behind it: at step
  `Stage` everything up to there is `Complete`, unless the service was edited since.
  `TidyInv` says what a run leaves behind: nothing but what hangs on the port its
  service records. `SettledAreAttached` and `PeersAnswered` need the last layer, and
  it is false where a run may die inside `release_leaf_port` or between taking a /31
  and using it, because the code forgets what it had still to delete: they assume
  that `FailAt` has none of `Releases`. It is false, too, where the operator edits a
  service whose run failed before he repeats it, or while it is run:
  `server_stranded_pair` moves within a leaf, dies, and goes on to another leaf, where the
  next run no longer knows the first one. They therefore assume `RepeatsFirst` and
  `~MayActDuringRun`. A leaf may have any number of ports: when a move between two ports
  of one leaf fails on the way, the server is on no port while its sessions stay, and
  `Tidy` and `Bound` say that the run to be repeated goes for that leaf again.

`TenantOverlay_proofs.tla`:

* `OverlayTypeCorrect`: `Spec => []TypeOK`.
* `IdentifiersNeverChange`: `Spec => IdentifiersStable`, from the invariant that a
  route target names the VNI its node has.
* `TenantsAreIsolated`: `Spec => OthersUntouched`, from the invariant that a run works
  on nodes of its own tenant only.

`OverlaySettles_proofs.tla`:

* `SettledIsMaterialized`: `Spec => []SettledMeansMaterialized`. The property speaks of
  the end of a run only; the invariant `Progress` says what holds on the way: a run
  that nothing overtook has done the part of its work that lies behind it. Steps of
  other tenants leave that part alone, and an edit that could undo it makes the
  tenant stale.

`ClusterPeering_proofs.tla`:

* `DocumentsAreOwn`: `Spec => DocumentsChangeAlone`, under `RefuseSecondCable` and
  `~MayDelete`. `Netted` strengthens `Wiring`: a port's address belongs to the service
  plugged into it, and the /31s a run remembers are its own, so that a run writes and
  deletes nothing another member's document is made of.

Three definitions are written so that they can be proved about. `Among` in
`ClusterPeering` and `Only` in `Cabling` are uses of the standard library's `SelectSeq`
written out, since the prover has no definition of that one. What `Only` returns is
proved from the shortest prefix on which it would fail: the library's induction
theorems cannot be used here, but that every set of numbers has a least one can. `NoneIsUnset` and `NoDigestIsNone` say of the values
that stand for Python's `None` that they are no prefix and no set of ids.

Only model-checked: every liveness property (`EventuallyBuilt`, `EventuallyAttached`,
`SelfTriggerSettles`, `EventuallyMaterialized`: fairness is out of the prover's reach). Every invariant and action property of a passing run is also a
theorem, most under assumptions named above, which the instances meet, with one exception:
`server_live` checks `SettledMeansAttached`, `PeersAreAnswered` and `SettledMeansPeered`
with deletions of servers and with deaths between the two ends of a /31 too, which the
theorems exclude, and `server_safety` and `server_live` let the operator edit a service
whose run failed; `server_safety` also during a run.

## Not modelled

* Loopbacks, VTEP addresses and vendor groups (`vendors.py`): plain writes or lookups
  no property depends on. The /31s of fabric links follow the calls modelled for the
  /31 of a server.
* The text the transforms render, and the transforms other than the Cilium manifest:
  pure functions of a query result.
* The query models and `protocols.py` are generated type declarations.
* Pools that run dry: an allocation that fails ends its run like any other failing
  call (`Die`); how much a pool holds is not modelled. Racks without a free port are
  left out in the same way: the runs have more ports than services.
* Changing the layer of a service or the parent of a pod: both are constants.
* Several branches and their merges are the platform's. Tooling, deployment and tests
  are outside the running system.
