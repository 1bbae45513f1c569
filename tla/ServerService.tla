---------------------------- MODULE ServerService ----------------------------
(***************************************************************************)
(* ServerGenerator: the server services of one fabric compete for the      *)
(* role:server ports of its leafs.  A service has at most one run at a     *)
(* time; the runs of different services interleave at their database       *)
(* calls.  `rack' and `leaf_interface' of a service are round-trip fields: *)
(* the operator asks with them and the run answers in them, so editing one *)
(* moves the server, which is the only destructive thing a run does.       *)
(***************************************************************************)
EXTENDS Naturals, Sequences, FiniteSets

CONSTANTS
    Services,        \* the NetworkServerService objects
    Layer,           \* service -> "l2" or "l3"
    Racks, Leafs, Ports,
    RackOf,          \* leaf -> its rack
    LeafOf,          \* port -> its leaf
    Rank,            \* rack or port -> its place in the order selection uses
    None,            \* an unset relationship
    InitialAsks,     \* service -> the placement first asked for
    Edits,           \* what an operator may set: rack or leaf_interface
    RefuseSecondCable, \* does the platform refuse a second link on an endpoint?
    FailAt,          \* the places where a run may die
    MayDelete,       \* may an operator delete a server?
    MayActDuringRun, \* may an operator edit or delete while the service is being run?
    RepeatsFirst,    \* does the operator repeat a failed run before editing that service?
    MaxChanges,      \* bound: edits and deletions
    MaxFailures      \* bound: runs that die half-way

ASSUME TopologyIsTree ==
    /\ Layer \in [Services -> {"l2", "l3"}]
    /\ RackOf \in [Leafs -> Racks]
    /\ LeafOf \in [Ports -> Leafs]
    /\ Rank \in [Racks \cup Ports -> Nat]
    /\ None \notin Services \cup Racks \cup Leafs \cup Ports

ASSUME ServerBounds ==
    /\ {RefuseSecondCable, MayDelete, MayActDuringRun, RepeatsFirst} \subseteq BOOLEAN
    /\ MaxChanges \in Nat /\ MaxFailures \in Nat

Places == {"resolve", "server", "detach", "unlink", "unaddress", "unpeer", "cable",
           "asn", "overlay", "prefix", "leafend", "serverend", "up", "down", "attach",
           "record", "stamp"}

RackOfPort(p) == RackOf[LeafOf[p]]
Ask == [rack: Racks \cup {None}, port: Ports \cup {None}]

ASSUME OperatorInputs ==
    /\ InitialAsks \in [Services -> Ask]
    /\ Edits \subseteq Racks \cup Ports
    /\ FailAt \subseteq Places

VARIABLES
    asked,        \* service -> its rack and leaf_interface
    recorded,     \* the services whose `server' relationship is set
    checksum,     \* service -> the server and the leaf port its checksum covers
    server,       \* service -> its NetworkServer and eth1
    port,         \* leaf port -> what is on it
    links,        \* <<port, service>>: the NetworkLinks, by name
    prefixes,     \* the /31s carved, by allocation identifier
    sessions,     \* <<end, leaf, service>>: the eBGP session seen from one end
    segmentRacks, \* the racks of the segment the l2 services join
    asnsUsed,     \* ASNs handed out by "Server ASN Pool"
    overlayReady, \* the fabric has its overlay_asn
    pending,      \* service -> runs dispatched and not started
    run,          \* service -> the run in progress
    broken,       \* services whose last run raised or died
    stale,        \* services edited since a run last read them
    wish,         \* service -> what the operator last asked for (history)
    changes,      \* operator edits and deletions so far
    failures      \* died runs so far

service == <<asked, recorded, checksum>>
graph   == <<server, port, links, prefixes, sessions, segmentRacks>>
pools   == <<asnsUsed, overlayReady>>
around  == <<stale, wish, changes, failures>>
vars    == <<asked, recorded, checksum, server, port, links, prefixes, sessions,
             segmentRacks, asnsUsed, overlayReady, pending, run, broken, stale, wish,
             changes, failures>>

(* A link is named after its port and its server, so an end is determined by *)
(* the other one: `link' of a server is the port its link is named after.    *)
(* A /31 is identified by the two port ids; eth1 comes and goes with its     *)
(* server, whose `id' tells one eth1 from the next.  An end that is          *)
(* addressed says from which /31.                                            *)
Prefix == [port: Ports, service: Services, id: Nat]
ASSUME NoneIsUnset == None \notin Prefix

NoServer == [id |-> 0, rack |-> None, link |-> None, ip |-> None, asn |-> 0]
Clean    == [link |-> None, ip |-> None]
Nothing  == [rack |-> None, port |-> None]
Unstamped == [id |-> 0, port |-> None]
Idle     == [pc |-> "idle", ask |-> Nothing, id |-> 0, port |-> None,
             drop |-> << >>, link |-> None, nets |-> {}, left |-> {}]

TypeOK ==
    /\ asked \in [Services -> Ask]
    /\ recorded \subseteq Services
    /\ checksum \in [Services -> [id: Nat, port: Ports \cup {None}]]
    /\ server \in [Services -> [id: Nat, rack: Racks \cup {None}, link: Ports \cup {None},
                                ip: Prefix \cup {None}, asn: Nat]]
    /\ port \in [Ports -> [link: Services \cup {None}, ip: Prefix \cup {None}]]
    /\ links \subseteq Ports \X Services
    /\ prefixes \subseteq Prefix
    /\ sessions \subseteq {"leaf", "server"} \X Leafs \X Services
    /\ segmentRacks \subseteq Racks
    /\ asnsUsed \in Nat
    /\ overlayReady \in BOOLEAN
    /\ pending \in [Services -> Nat]
    /\ run \in [Services -> [pc: Places \cup {"idle"}, ask: Ask, id: Nat,
                             port: Ports \cup {None}, drop: Seq(Ports),
                             link: Services \cup {None}, nets: SUBSET Prefix,
                             left: SUBSET Leafs]]
    /\ broken \subseteq Services
    /\ stale \subseteq Services
    /\ wish \in [Services -> Ask]
    /\ changes \in Nat /\ failures \in Nat

(* The services are loaded and each is run once; the fabric may or may not   *)
(* have its overlay_asn by then.                                             *)
Init ==
    /\ asked = InitialAsks
    /\ recorded = {}
    /\ checksum = [s \in Services |-> Unstamped]
    /\ server = [s \in Services |-> NoServer]
    /\ port = [p \in Ports |-> Clean]
    /\ links = {}
    /\ prefixes = {}
    /\ sessions = {}
    /\ segmentRacks = {}
    /\ asnsUsed = 0
    /\ overlayReady \in BOOLEAN
    /\ pending = [s \in Services |-> 1]
    /\ run = [s \in Services |-> Idle]
    /\ broken = {}
    /\ stale = {}
    /\ wish = InitialAsks
    /\ changes = 0 /\ failures = 0

-----------------------------------------------------------------------------
(* Placement                                                                *)

Exists(s) == server[s].rack # None
Attached(s, p) == server[s].link = p /\ port[p].link = s

Free(p) == port[p] = Clean

\* port_is_reclaimable: no link at all, a link without a far end, or a link to
\* the service's own server.
Reclaimable(s, p) ==
    \/ port[p].link \in {None, s}
    \/ server[port[p].link].link # p

\* Mutant of CanTake: occupied is no reason to refuse.
TakeAnything(s, p) == TRUE

\* validate_explicit_port: free, or occupied by nothing but leftovers.
CanTake(s, p) == Free(p) \/ Reclaimable(s, p)

Lowest(S) == CHOOSE x \in S : \A y \in S : Rank[x] <= Rank[y]

FreePorts(r) == {p \in Ports : RackOfPort(p) = r /\ Free(p)}
SelectPort(r) == IF FreePorts(r) = {} THEN None ELSE Lowest(FreePorts(r))

Load(r) == Cardinality({s \in Services : server[s].rack = r})
SelectRack == Lowest({r \in Racks : \A q \in Racks : Load(r) <= Load(q)})

\* resolve_explicit_placement; None when it raises.
Explicit(s, r, p) ==
    IF p = None THEN SelectPort(r)
    ELSE IF r \in {None, RackOfPort(p)} /\ CanTake(s, p) THEN p ELSE None

\* Mutant of PlacedServer: only the recorded server counts.
PlacedIfRecorded(s) == s \in recorded /\ Exists(s)

\* placed_server_id: the recorded server, and failing that the one of the
\* service's hostname; the two are the same server, if it is still there.
PlacedServer(s) == Exists(s)

\* existing_placement: the port at the far end of the server's link.
Existing(s) ==
    IF PlacedServer(s) /\ server[s].link # None /\ Attached(s, server[s].link)
    THEN server[s].link ELSE None

Matches(ask, p) == ask.port \in {None, p} /\ ask.rack \in {None, RackOfPort(p)}

\* Only the side the operator moved is honored.
Moved(ask, p) ==
    [rack |-> IF ask.rack = RackOfPort(p) THEN None ELSE ask.rack,
     port |-> IF ask.port = p THEN None ELSE ask.port]

Placement(s) ==
    LET ask == run[s].ask
        here == Existing(s)
    IN  IF here # None
          THEN IF Matches(ask, here) THEN here
               ELSE Explicit(s, Moved(ask, here).rack, Moved(ask, here).port)
          ELSE IF ask = Nothing THEN SelectPort(SelectRack)
               ELSE Explicit(s, ask.rack, ask.port)

\* released_ports: the port left behind, and the target if it is dirty.
Released(s, p) ==
    LET dirty == IF Free(p) THEN << >> ELSE <<p>>
    IN  CASE Existing(s) = p    -> << >>
          [] Existing(s) = None -> dirty
          [] OTHER              -> <<Existing(s)>> \o dirty

-----------------------------------------------------------------------------
(* The run of service s                                                     *)

Goto(s, pc) == run' = [run EXCEPT ![s].pc = pc]

\* generate() raised, or the worker is gone: what was written stays.
GiveUp(s) ==
    /\ run' = [run EXCEPT ![s] = Idle]
    /\ broken' = broken \cup {s}
    /\ UNCHANGED <<service, graph, pools, pending>>

Raise(s) == GiveUp(s) /\ UNCHANGED around

\* Mutant of Start: a run nobody dispatched.
StartUnasked(s) ==
    /\ run[s].pc = "idle"
    /\ pending' = [pending EXCEPT ![s] = @ - 1]
    /\ run' = [run EXCEPT ![s] = [Idle EXCEPT !.pc = "resolve", !.ask = asked[s]]]
    /\ stale' = stale \ {s}
    /\ UNCHANGED <<service, graph, pools, broken, wish, changes, failures>>

\* The query is answered: the fields are read once.
Start(s) ==
    /\ run[s].pc = "idle"
    /\ pending[s] > 0
    /\ pending' = [pending EXCEPT ![s] = @ - 1]
    /\ run' = [run EXCEPT ![s] = [Idle EXCEPT !.pc = "resolve", !.ask = asked[s]]]
    /\ stale' = stale \ {s}
    /\ UNCHANGED <<service, graph, pools, broken, wish, changes, failures>>

Resolve(s) ==
    /\ run[s].pc = "resolve"
    /\ IF Placement(s) = None
         THEN Raise(s)
         ELSE /\ run' = [run EXCEPT ![s].pc = "server", ![s].port = Placement(s),
                                    ![s].drop = Released(s, Placement(s))]
              /\ UNCHANGED <<service, graph, pools, pending, broken, around>>

\* The server and its eth1 are upserted by name; a deleted server comes back
\* as a new object.
MaterializeServer(s) ==
    /\ run[s].pc = "server"
    /\ server' = [server EXCEPT ![s].rack = RackOfPort(run[s].port)]
    /\ run' = [run EXCEPT ![s].id = server[s].id,
                          ![s].pc = IF run[s].drop = << >> THEN "cable" ELSE "detach"]
    /\ UNCHANGED <<port, links, prefixes, sessions, segmentRacks>>
    /\ UNCHANGED <<service, pools, pending, broken, around>>

\* release_leaf_port reads the port again, remembers what it points at and
\* saves it empty.
Detach(s) ==
    LET p == Head(run[s].drop) IN
    /\ run[s].pc = "detach"
    /\ IF ~Exists(s)
         THEN Raise(s)
         ELSE /\ run' = [run EXCEPT
                           ![s].pc = "unlink",
                           ![s].link = port[p].link,
                           ![s].nets = {port[p].ip, server[s].ip} \ {None},
                           ![s].left = @ \cup ({LeafOf[p]} \ {LeafOf[run[s].port]})]
              /\ port' = [port EXCEPT ![p] = Clean]
              /\ UNCHANGED <<server, links, prefixes, sessions, segmentRacks>>
              /\ UNCHANGED <<service, pools, pending, broken, around>>

\* The link read above goes, and with it what either end still says of it; the
\* run raises when somebody else has deleted that link.
Unlink(s) ==
    LET p == Head(run[s].drop)
        x == run[s].link
    IN  /\ run[s].pc = "unlink"
        /\ IF x # None /\ <<p, x>> \notin links
             THEN Raise(s)
             ELSE /\ links' = links \ {<<p, x>>}
                  /\ server' = [y \in Services |->
                                 IF y = x /\ server[y].link = p
                                 THEN [server[y] EXCEPT !.link = None] ELSE server[y]]
                  /\ port' = [port EXCEPT ![p].link = IF @ = x THEN None ELSE @]
                  /\ Goto(s, "unaddress")
                  /\ UNCHANGED <<prefixes, sessions, segmentRacks>>
                  /\ UNCHANGED <<service, pools, pending, broken, around>>

\* Mutant of Unaddress: the addresses go, the prefix stays allocated.
UnaddressOnly(s) ==
    /\ run[s].pc = "unaddress"
    /\ server' = [server EXCEPT ![s].ip = None]
    /\ run' = [run EXCEPT ![s].drop = Tail(@),
                          ![s].pc = IF Len(run[s].drop) > 1 THEN "detach" ELSE "unpeer"]
    /\ UNCHANGED <<port, links, prefixes, sessions, segmentRacks>>
    /\ UNCHANGED <<service, pools, pending, broken, around>>

\* release_p2p_prefix: the addresses, then the prefixes that held them.
Unaddress(s) ==
    /\ run[s].pc = "unaddress"
    /\ server' = [server EXCEPT ![s].ip = IF @ \in run[s].nets THEN None ELSE @]
    /\ port' = [port EXCEPT ![Head(run[s].drop)].ip = IF @ \in run[s].nets THEN None ELSE @]
    /\ prefixes' = prefixes \ run[s].nets
    /\ run' = [run EXCEPT ![s].drop = Tail(@),
                          ![s].pc = IF Len(run[s].drop) > 1 THEN "detach" ELSE "unpeer"]
    /\ UNCHANGED <<links, sessions, segmentRacks>>
    /\ UNCHANGED <<service, pools, pending, broken, around>>

\* delete_ebgp_pair for every leaf the server has left.
Unpeer(s) ==
    /\ run[s].pc = "unpeer"
    /\ sessions' = {q \in sessions : ~(q[2] \in run[s].left /\ q[3] = s)}
    /\ Goto(s, "cable")
    /\ UNCHANGED <<server, port, links, prefixes, segmentRacks>>
    /\ UNCHANGED <<service, pools, pending, broken, around>>

\* Saving the link points both ends at it. An end that is on another link
\* already makes a strict platform refuse; a lax one re-points the end.
Cable(s) ==
    LET p == run[s].port IN
    /\ run[s].pc = "cable"
    /\ IF ~Exists(s) \/ (/\ RefuseSecondCable
                         /\ ~(port[p].link \in {None, s} /\ server[s].link \in {None, p}))
         THEN Raise(s)
         ELSE /\ port' = [port EXCEPT ![p].link = s]
              /\ server' = [server EXCEPT ![s].link = p]
              /\ links' = links \cup {<<p, s>>}
              /\ Goto(s, IF Layer[s] = "l3" THEN "asn" ELSE "attach")
              /\ UNCHANGED <<prefixes, sessions, segmentRacks>>
              /\ UNCHANGED <<service, pools, pending, broken, around>>

\* Mutant of NeedsAsn: every run allocates.
AlwaysNeedsAsn(s) == TRUE

NeedsAsn(s) == server[s].asn = 0

AllocateAsn(s) ==
    /\ run[s].pc = "asn"
    /\ IF ~Exists(s)
         THEN Raise(s)
         ELSE /\ IF NeedsAsn(s)
                   THEN /\ server' = [server EXCEPT ![s].asn = asnsUsed + 1]
                        /\ asnsUsed' = asnsUsed + 1
                   ELSE UNCHANGED <<server, asnsUsed>>
              /\ Goto(s, "overlay")
              /\ UNCHANGED <<port, links, prefixes, sessions, segmentRacks, overlayReady>>
              /\ UNCHANGED <<service, pending, broken, around>>

\* resolve_overlay_asn raises until the FabricGenerator has allocated it.
ResolveOverlayAsn(s) ==
    /\ run[s].pc = "overlay"
    /\ IF overlayReady
         THEN /\ Goto(s, "prefix")
              /\ UNCHANGED <<service, graph, pools, pending, broken, around>>
         ELSE Raise(s)

\* The allocation identifier is the pair of ports: the same pair gets the
\* same /31.
Own(s) == [port |-> run[s].port, service |-> s, id |-> run[s].id]

AllocatePrefix(s) ==
    /\ run[s].pc = "prefix"
    /\ prefixes' = prefixes \cup {Own(s)}
    /\ Goto(s, "leafend")
    /\ UNCHANGED <<server, port, links, sessions, segmentRacks>>
    /\ UNCHANGED <<service, pools, pending, broken, around>>

\* The two ends are addressed one after the other, the leaf's first.
AddressLeafEnd(s) ==
    /\ run[s].pc = "leafend"
    /\ port' = [port EXCEPT ![run[s].port].ip = Own(s)]
    /\ Goto(s, "serverend")
    /\ UNCHANGED <<server, links, prefixes, sessions, segmentRacks>>
    /\ UNCHANGED <<service, pools, pending, broken, around>>

AddressServerEnd(s) ==
    /\ run[s].pc = "serverend"
    /\ IF ~Exists(s)
         THEN Raise(s)
         ELSE /\ server' = [server EXCEPT ![s].ip = Own(s)]
              /\ Goto(s, "up")
              /\ UNCHANGED <<port, links, prefixes, sessions, segmentRacks>>
              /\ UNCHANGED <<service, pools, pending, broken, around>>

\* One direction of the eBGP pair, upserted by name.
UpsertSession(s, pc, end, next) ==
    /\ run[s].pc = pc
    /\ IF ~Exists(s)
         THEN Raise(s)
         ELSE /\ sessions' = sessions \cup {<<end, LeafOf[run[s].port], s>>}
              /\ Goto(s, next)
              /\ UNCHANGED <<server, port, links, prefixes, segmentRacks>>
              /\ UNCHANGED <<service, pools, pending, broken, around>>

PeerLeaf(s)   == UpsertSession(s, "up", "leaf", "down")
PeerServer(s) == UpsertSession(s, "down", "server", "record")

AttachSegmentRack(s) ==
    /\ run[s].pc = "attach"
    /\ segmentRacks' = segmentRacks \cup {RackOfPort(run[s].port)}
    /\ Goto(s, "record")
    /\ UNCHANGED <<server, port, links, prefixes, sessions>>
    /\ UNCHANGED <<service, pools, pending, broken, around>>

\* Mutant of RecordPlacement: rack and port are written back, the server is not.
RecordPortOnly(s) ==
    /\ run[s].pc = "record"
    /\ asked' = [asked EXCEPT ![s] = [rack |-> RackOfPort(run[s].port), port |-> run[s].port]]
    /\ Goto(s, "stamp")
    /\ UNCHANGED <<recorded, checksum, graph, pools, pending, broken, around>>

\* The resolved placement is written back, over whatever is there now.
RecordPlacement(s) ==
    /\ run[s].pc = "record"
    /\ IF ~Exists(s)
         THEN Raise(s)
         ELSE /\ asked' = [asked EXCEPT ![s] = [rack |-> RackOfPort(run[s].port),
                                                port |-> run[s].port]]
              /\ recorded' = recorded \cup {s}
              /\ Goto(s, "stamp")
              /\ UNCHANGED <<checksum, graph, pools, pending, broken, around>>

\* Mutant of Fires: the rule fires on every save of the service.
FiresAlways(s) == TRUE

\* Checksum.over_contents of the server, its eth1 and the leaf port.
Digest(s) == [id |-> run[s].id, port |-> run[s].port]

\* The checksum attribute changes only when the digest does.
Fires(s) == checksum[s] # Digest(s)

\* update_checksum: the stamp is on the service itself and dispatches the
\* generator once more; then the run is over.
Stamp(s) ==
    /\ run[s].pc = "stamp"
    /\ checksum' = [checksum EXCEPT ![s] = Digest(s)]
    /\ pending' = IF Fires(s) THEN [pending EXCEPT ![s] = @ + 1] ELSE pending
    /\ run' = [run EXCEPT ![s] = Idle]
    /\ broken' = broken \ {s}
    /\ UNCHANGED <<asked, recorded, graph, pools, around>>

RunStep(s) ==
    \/ Start(s) \/ Resolve(s) \/ MaterializeServer(s)
    \/ Detach(s) \/ Unlink(s) \/ Unaddress(s) \/ Unpeer(s)
    \/ Cable(s) \/ AllocateAsn(s) \/ ResolveOverlayAsn(s)
    \/ AllocatePrefix(s) \/ AddressLeafEnd(s) \/ AddressServerEnd(s)
    \/ PeerLeaf(s) \/ PeerServer(s)
    \/ AttachSegmentRack(s) \/ RecordPlacement(s) \/ Stamp(s)

-----------------------------------------------------------------------------
(* Around the runs                                                          *)

Die(s) ==
    /\ run[s].pc \in FailAt
    /\ failures < MaxFailures
    /\ failures' = failures + 1
    /\ GiveUp(s)
    /\ UNCHANGED <<stale, wish, changes>>

\* The operator points the service at a rack or a port. No rule watches these
\* fields: nothing is dispatched.
Edit(s, x) ==
    /\ changes < MaxChanges
    /\ changes' = changes + 1
    /\ MayActDuringRun \/ run[s].pc = "idle"
    /\ RepeatsFirst => s \notin broken
    /\ IF x \in Racks
         THEN /\ x # asked[s].rack
              /\ asked' = [asked EXCEPT ![s].rack = x]
              /\ wish' = [wish EXCEPT ![s] = [Nothing EXCEPT !.rack = x]]
         ELSE /\ x # asked[s].port
              /\ asked' = [asked EXCEPT ![s].port = x]
              /\ wish' = [wish EXCEPT ![s] = [Nothing EXCEPT !.port = x]]
    /\ stale' = stale \cup {s}
    /\ UNCHANGED <<recorded, checksum, graph, pools, pending, run, broken, failures>>

\* The operator deletes a server with the sessions that name it: its port goes
\* with it, its link keeps the leaf's end only.
DeleteServer(s) ==
    /\ MayDelete
    /\ MayActDuringRun \/ run[s].pc = "idle"
    /\ Exists(s)
    /\ changes < MaxChanges
    /\ changes' = changes + 1
    /\ server' = [server EXCEPT ![s] = [NoServer EXCEPT !.id = server[s].id + 1]]
    /\ sessions' = {q \in sessions : q[3] # s}
    /\ recorded' = recorded \ {s}
    /\ stale' = stale \cup {s}
    /\ UNCHANGED <<asked, checksum, port, links, prefixes, segmentRacks, pools, pending,
                   run, broken, wish, failures>>

\* Somebody runs the generator again for a service that needs it.
RunAgain(s) ==
    /\ s \in broken \cup stale
    /\ pending[s] = 0
    /\ run[s].pc = "idle"
    /\ pending' = [pending EXCEPT ![s] = 1]
    /\ UNCHANGED <<service, graph, pools, run, broken, around>>

\* The FabricGenerator allocates the overlay_asn.
FabricReady ==
    /\ ~overlayReady
    /\ overlayReady' = TRUE
    /\ UNCHANGED <<service, graph, asnsUsed, pending, run, broken, around>>

Next ==
    \/ \E s \in Services : RunStep(s)
    \/ \E s \in Services : Die(s)
    \/ \E s \in Services, x \in Edits : Edit(s, x)
    \/ \E s \in Services : DeleteServer(s)
    \/ \E s \in Services : RunAgain(s)
    \/ FabricReady

Spec == Init /\ [][Next]_vars

\* Dispatched runs execute, failed and edited services are run again, and the
\* fabric gets built; edits, deletions and failures need not happen.
Fairness ==
    /\ \A s \in Services : WF_vars(RunStep(s)) /\ WF_vars(RunAgain(s))
    /\ WF_vars(FabricReady)

FairSpec == Spec /\ Fairness

-----------------------------------------------------------------------------
(* What the runs implement                                                  *)

Holds(s) == IF server[s].link # None /\ Attached(s, server[s].link)
            THEN server[s].link ELSE None

Assignment == INSTANCE PortAssignment WITH
    holds   <- [s \in Services |-> Holds(s)],
    present <- {s \in Services : Exists(s)},
    active  <- {s \in Services : run[s].pc # "idle"}

(* A port serves one server at a time, a server gives its port back before   *)
(* it takes another, and nobody but a run of its own service unplugs it:     *)
(* the saves of release_leaf_port and materialize_cabling, interleaved and   *)
(* cut short anywhere, amount to that.                                       *)
AssignsPorts == Assignment!Spec

-----------------------------------------------------------------------------
(* Properties                                                               *)

Ends(s, p) == {"leaf", "server"} \X {LeafOf[p]} \X {s}

\* Everything a completed run for port p leaves behind, and nothing more: the
\* cable from both ends, for l3 one /31, one ASN and the eBGP pair of that
\* leaf, for l2 the rack on the segment.
Materialized(s, p) ==
    /\ Attached(s, p) /\ {n \in links : n[2] = s} = {<<p, s>>}
    /\ server[s].rack = RackOfPort(p)
    /\ asked[s] = [rack |-> RackOfPort(p), port |-> p]
    /\ s \in recorded
    /\ IF Layer[s] = "l3"
         THEN /\ server[s].ip \in prefixes /\ server[s].ip.port = p
              /\ port[p].ip = server[s].ip /\ server[s].asn # 0
              /\ {n \in prefixes : n.service = s} = {server[s].ip}
              /\ {q \in sessions : q[3] = s} = Ends(s, p)
         ELSE /\ RackOfPort(p) \in segmentRacks
              /\ port[p].ip = None
              /\ {n \in prefixes : n.service = s} = {} /\ {q \in sessions : q[3] = s} = {}

Settled(s) == pending[s] = 0 /\ run[s].pc = "idle" /\ s \notin broken \cup stale

Honors(s, p) == wish[s].port \in {None, p} /\ wish[s].rack \in {None, RackOfPort(p)}

(* When a service is settled its server is completely attached to exactly    *)
(* one port: no /31, session or cable is left over from an earlier placement *)
(* and none is missing, however often it moved, whichever runs raised for    *)
(* want of an overlay_asn, and whoever else was placed meanwhile             *)
(* (release_placement, existing_placement).                                  *)
SettledMeansAttached == \A s \in Services : Settled(s) => \E p \in Ports : Materialized(s, p)

(* Releasing is confined to a run's own leftovers: no run ever unplugs or    *)
(* re-plugs another service's server (port_is_reclaimable decides with what  *)
(* it reads, release_leaf_port deletes what it reads several calls later).   *)
NoTheft ==
    [][\A s \in Services, p \in Ports :
         Attached(s, p) /\ ~Attached(s, p)' => run'[s] # run[s] \/ ~Exists(s)']_vars

(* A re-run of a completely attached service that keeps its port writes      *)
(* nothing but the checksum (connect-servers.md, "Idempotency").             *)
RerunIsNoop ==
    [][\A s \in Services :
         /\ run[s].pc \notin {"idle", "resolve"}
         /\ run'[s] # run[s]
         /\ Materialized(s, run[s].port)
         => UNCHANGED <<graph, asked, recorded>>]_vars

(* The checksum a run stamps on its own service dispatches the generator     *)
(* again; that loop ends (update_checksum, trigger-server-generator-update-checksum). *)
SelfTriggerSettles ==
    <>[](\A s \in Services : pending[s] = 0 /\ run[s].pc = "idle")

(* What an operator asks for last is what is built in the end, provided      *)
(* failing runs are repeated.                                                *)
EventuallyAttached ==
    <>[](\A s \in Services : \E p \in Ports : Materialized(s, p) /\ Honors(s, p))

(* The fields are round-trip, "editing it moves the server" (schemas/server.yml): *)
(* a service that was run again after its last edit is where that edit puts it.   *)
EditsHonored ==
    \A s \in Services : Settled(s) => \E p \in Ports : Materialized(s, p) /\ Honors(s, p)
=============================================================================
