------------------------- MODULE ServerSettles_proofs -------------------------
(***************************************************************************)
(* What a run leaves behind, for any services, ports, edits and deaths: a  *)
(* service that has settled is completely attached, whoever dials in the   *)
(* manifest is answered, and a run that finds its work done writes         *)
(* nothing.                                                                *)
(***************************************************************************)
EXTENDS ClusterPeering_proofs

OwnLinks(u)    == {n \in links : n[2] = u}
OwnPrefixes(u) == {n \in prefixes : n.service = u}
OwnSessions(u) == {q \in sessions : q[3] = u}

-----------------------------------------------------------------------------
(* Services leave one another alone                                         *)

\* All that concerns service u, in the graph and around its runs.
SameEstate(u) ==
    /\ SameMember(u) /\ run'[u] = run[u]
    /\ OwnLinks(u)' = OwnLinks(u) /\ OwnPrefixes(u)' = OwnPrefixes(u)
    /\ OwnSessions(u)' = OwnSessions(u) /\ segmentRacks \subseteq segmentRacks'
    /\ asked'[u] = asked[u] /\ pending'[u] = pending[u]
    /\ (u \in broken' <=> u \in broken) /\ (u \in stale' <=> u \in stale)

\* The books of the service itself.
LEMMA RunStepSparesBooks ==
    ASSUME DocumentInv, NEW s \in Services, RunStep(s), NEW u \in Services \ {s}
    PROVE  /\ asked'[u] = asked[u] /\ pending'[u] = pending[u]
           /\ (u \in broken' <=> u \in broken) /\ (u \in stale' <=> u \in stale)
           /\ segmentRacks \subseteq segmentRacks'
<1>1. asked \in [Services -> Ask] /\ pending \in [Services -> Nat]
  BY DEF DocumentInv, WiringInv, Shape, TypeOK
<1>2. CASE Start(s)
  BY <1>1, <1>2 DEF Start, service, graph
<1>3. CASE RecordPlacement(s)
  BY <1>1, <1>3 DEF RecordPlacement, Raise, GiveUp, service, graph, around
<1>4. CASE Stamp(s)
  BY <1>1, <1>4 DEF Stamp, graph, around
<1>5. CASE \/ Resolve(s) \/ MaterializeServer(s) \/ Detach(s) \/ Unlink(s) \/ Unaddress(s)
           \/ Unpeer(s) \/ Cable(s) \/ AllocateAsn(s) \/ ResolveOverlayAsn(s)
           \/ AllocatePrefix(s) \/ AddressLeafEnd(s) \/ AddressServerEnd(s) \/ PeerLeaf(s) \/ PeerServer(s)
           \/ AttachSegmentRack(s)
  BY <1>5 DEF Resolve, MaterializeServer, Detach, Unlink, Unaddress, Unpeer, Cable,
       AllocateAsn, ResolveOverlayAsn, AllocatePrefix, AddressLeafEnd, AddressServerEnd, PeerLeaf, PeerServer,
       UpsertSession, AttachSegmentRack, Raise, GiveUp, service, graph, around
<1>. QED
  BY <1>2, <1>3, <1>4, <1>5 DEF RunStep

\* Links, /31s and sessions carry the name of their service.
LEMMA RunStepSparesRecords ==
    ASSUME DocumentInv, NEW s \in Services, RunStep(s), NEW u \in Services \ {s}
    PROVE  /\ OwnLinks(u)' = OwnLinks(u) /\ OwnPrefixes(u)' = OwnPrefixes(u)
           /\ OwnSessions(u)' = OwnSessions(u)
<1>1. CASE Unlink(s)
  <2>1. run[s].link = s
    BY <1>1 DEF DocumentInv, WiringInv, Wiring, Held, Unlink
  <2>2. \/ links' = links
        \/ links' = links \ {<<Head(run[s].drop), s>>}
    BY <1>1, <2>1 DEF Unlink, Raise, GiveUp, graph
  <2>3. UNCHANGED <<prefixes, sessions>>
    BY <1>1 DEF Unlink, Raise, GiveUp, graph
  <2>. QED
    BY <2>2, <2>3 DEF OwnLinks, OwnPrefixes, OwnSessions
<1>2. CASE Unaddress(s)
  BY <1>2 DEF Unaddress, DocumentInv, Netted, OwnLinks, OwnPrefixes, OwnSessions
<1>3. CASE Unpeer(s)
  BY <1>3 DEF Unpeer, OwnLinks, OwnPrefixes, OwnSessions
<1>4. CASE Cable(s)
  <2>1. \/ links' = links
        \/ links' = links \cup {<<run[s].port, s>>}
    BY <1>4 DEF Cable, Raise, GiveUp, graph
  <2>2. UNCHANGED <<prefixes, sessions>>
    BY <1>4 DEF Cable, Raise, GiveUp, graph
  <2>. QED
    BY <2>1, <2>2 DEF OwnLinks, OwnPrefixes, OwnSessions
<1>5. CASE AllocatePrefix(s)
  BY <1>5 DEF AllocatePrefix, Own, OwnLinks, OwnPrefixes, OwnSessions
<1>6. ASSUME NEW pc, NEW end, NEW next, UpsertSession(s, pc, end, next)
      PROVE  /\ OwnLinks(u)' = OwnLinks(u) /\ OwnPrefixes(u)' = OwnPrefixes(u)
             /\ OwnSessions(u)' = OwnSessions(u)
  <2>1. /\ UNCHANGED <<links, prefixes>>
        /\ \/ sessions' = sessions
           \/ sessions' = sessions \cup {<<end, LeafOf[run[s].port], s>>}
    BY <1>6 DEF UpsertSession, Raise, GiveUp, graph
  <2>. QED
    BY <2>1 DEF OwnLinks, OwnPrefixes, OwnSessions
<1>7. CASE \/ Start(s) \/ Resolve(s) \/ MaterializeServer(s) \/ Detach(s) \/ AllocateAsn(s)
           \/ ResolveOverlayAsn(s) \/ AddressLeafEnd(s) \/ AddressServerEnd(s) \/ AttachSegmentRack(s)
           \/ RecordPlacement(s) \/ Stamp(s)
  <2>1. UNCHANGED <<links, prefixes, sessions>>
    BY <1>7 DEF Start, Resolve, MaterializeServer, Detach, AllocateAsn, ResolveOverlayAsn,
         AddressLeafEnd, AddressServerEnd, AttachSegmentRack, RecordPlacement, Stamp, Raise, GiveUp, graph
  <2>. QED
    BY <2>1 DEF OwnLinks, OwnPrefixes, OwnSessions
<1>. QED
  BY <1>1, <1>2, <1>3, <1>4, <1>5, <1>6, <1>7 DEF RunStep, PeerLeaf, PeerServer

LEMMA RunStepSparesEstates ==
    ASSUME RefuseSecondCable, DocumentInv, NEW s \in Services, RunStep(s),
           NEW u \in Services \ {s}
    PROVE  SameEstate(u)
<1>1. OnlyOwn(s)
  BY RunStepWired DEF DocumentInv
<1>. QED
  BY <1>1, RunStepSparesMembers, RunStepSparesBooks, RunStepSparesRecords
     DEF SameEstate, OnlyOwn

\* What happens around the runs of s concerns s alone.
LEMMA AroundSparesEstates ==
    ASSUME ~MayDelete, DocumentInv, NEW s \in Services,
           \/ Die(s) \/ DeleteServer(s) \/ \E x \in Edits : Edit(s, x)
           \/ RunAgain(s) \/ FabricReady,
           NEW u \in Services \ {s}
    PROVE  SameEstate(u)
<1>1. SameMember(u)
  BY AroundSparesMembers
<1>2. UNCHANGED graph
  BY DEF Die, GiveUp, DeleteServer, RunAgain, FabricReady, Edit, graph
<1>3. run'[u] = run[u]
  BY Typed DEF Die, GiveUp, DeleteServer, RunAgain, FabricReady, Edit, DocumentInv,
       WiringInv, Shape
<1>4. asked'[u] = asked[u] /\ pending'[u] = pending[u]
  BY DEF Die, GiveUp, DeleteServer, RunAgain, FabricReady, Edit, DocumentInv,
       WiringInv, Shape, TypeOK, service
<1>5. (u \in broken' <=> u \in broken) /\ (u \in stale' <=> u \in stale)
  BY DEF Die, GiveUp, DeleteServer, RunAgain, FabricReady, Edit, around
<1>. QED
  BY <1>1, <1>2, <1>3, <1>4, <1>5 DEF SameEstate, graph, OwnLinks, OwnPrefixes, OwnSessions

-----------------------------------------------------------------------------
(* Where a run is                                                           *)

Routing == {"asn", "overlay", "prefix", "leafend", "serverend", "up", "down"}

\* No server was ever made anew. A run does not release the port it is going to
\* take; once released, its server is on no port; l3 and l2 runs part ways.
Phase(u) ==
    LET r == run[u] IN
    /\ server[u].id = 0 /\ r.id = 0 /\ (server[u].ip # None => server[u].ip.id = 0)
    /\ r.pc \in {"server", "detach"} => r.drop # <<r.port>>
    /\ r.pc = "unlink" => r.drop = <<server[u].link>>
    /\ r.pc \in {"unaddress", "unpeer"} => server[u].link = None
    /\ r.pc \in Routing => Layer[u] = "l3"
    /\ r.pc = "attach" => Layer[u] # "l3"

PhaseInv == DocumentInv /\ \A u \in Services : Phase(u)

LEMMA SameEstateSamePhase == ASSUME NEW u \in Services, SameEstate(u), Phase(u) PROVE Phase(u)'
BY DEF SameEstate, SameMember, Phase

\* Every run is a record, and a step writes the record of its own service.
LEMMA RunTyped ==
    ASSUME PhaseInv
    PROVE  /\ run \in [Services -> RunRecord]
           /\ server \in [Services -> ServerRecord]
           /\ port \in [Ports -> PortRecord]
BY Typed DEF PhaseInv, DocumentInv, WiringInv, Shape

\* What a run remembers when it only moves on.
MovesOn(s, pc) ==
    /\ run'[s].pc = pc /\ run'[s].port = run[s].port /\ run'[s].id = run[s].id
    /\ run'[s].drop = run[s].drop /\ run'[s].nets = run[s].nets /\ run'[s].left = run[s].left

LEMMA GotoRun ==
    ASSUME PhaseInv, NEW s \in Services, NEW pc, Goto(s, pc) PROVE MovesOn(s, pc)
BY RunTyped DEF Goto, RunRecord, MovesOn

LEMMA IdlePhase ==
    ASSUME PhaseInv, NEW s \in Services, run' = [run EXCEPT ![s] = Idle], server' = server
    PROVE  Phase(s)'
BY RunTyped DEF PhaseInv, Phase, Idle, Routing

LEMMA RaisePhase == ASSUME PhaseInv, NEW s \in Services, Raise(s) PROVE Phase(s)'
BY IdlePhase DEF Raise, GiveUp, graph

LEMMA StartEffect ==
    ASSUME PhaseInv, NEW s \in Services, Start(s)
    PROVE  /\ run[s].pc = "idle" /\ run'[s].pc = "resolve" /\ run'[s].id = 0
           /\ UNCHANGED graph
<1>. DEFINE r == [Idle EXCEPT !.pc = "resolve", !.ask = asked[s]]
<1>1. r.pc = "resolve" /\ r.id = 0
  BY DEF Idle
<1>2. run' = [run EXCEPT ![s] = r]
  BY DEF Start
<1>. HIDE DEF r
<1>. QED
  BY <1>1, <1>2, RunTyped DEF Start

LEMMA StartPhase == ASSUME PhaseInv, NEW s \in Services, Start(s) PROVE Phase(s)'
BY StartEffect DEF PhaseInv, Phase, Routing, graph

\* The port a run leaves is not the one it chose.
LEMMA ResolveEffect ==
    ASSUME PhaseInv, NEW s \in Services, Resolve(s), Placement(s) # None
    PROVE  /\ run[s].pc = "resolve" /\ run'[s].pc = "server" /\ run'[s].id = run[s].id
           /\ run'[s].drop # <<run'[s].port>> /\ UNCHANGED graph
<1>. DEFINE p == Placement(s)
            d == Released(s, p)
            r == [run[s] EXCEPT !.pc = "server", !.port = p, !.drop = d]
<1>1. d # <<p>>
  <2>1. ASSUME NEW q \in Ports, d = <<q>>, port[q].link = s PROVE q # p
    <3>1. Existing(s) = q
      BY <2>1, OwnIsExisting DEF PhaseInv, DocumentInv
    <3>2. ASSUME q = p PROVE d = << >>
      BY <3>1, <3>2, TopologyIsTree DEF Released
    <3>3. <<q>> # << >>
      OBVIOUS
    <3>. HIDE DEF d, p
    <3>. QED
      BY <2>1, <3>2, <3>3
  <2>2. \/ d = << >>
        \/ \E q \in Ports : d = <<q>> /\ port[q].link = s
    BY ReleasedIsOwn DEF PhaseInv, DocumentInv
  <2>. QED
    BY <2>1, <2>2
<1>2. run' = [run EXCEPT ![s] = r] /\ UNCHANGED graph
  BY DEF Resolve
<1>. HIDE DEF d, p
<1>3. r.pc = "server" /\ r.port = p /\ r.drop = d /\ r.id = run[s].id
  BY RunTyped DEF RunRecord
<1>. HIDE DEF r
<1>. QED
  BY <1>1, <1>2, <1>3, RunTyped DEF Resolve

LEMMA ResolvePhase == ASSUME PhaseInv, NEW s \in Services, Resolve(s) PROVE Phase(s)'
<1>1. CASE Placement(s) = None
  BY <1>1, RaisePhase DEF Resolve
<1>2. CASE Placement(s) # None
  BY <1>2, ResolveEffect DEF PhaseInv, Phase, Routing, graph
<1>. QED
  BY <1>1, <1>2

\* What MaterializeServer does to its service.
LEMMA MaterializeEffect ==
    ASSUME PhaseInv, NEW s \in Services, MaterializeServer(s)
    PROVE  /\ run[s].pc = "server"
           /\ run'[s].pc = IF run[s].drop = << >> THEN "cable" ELSE "detach"
           /\ run'[s].id = 0 /\ run'[s].port = run[s].port /\ run'[s].drop = run[s].drop
           /\ server'[s].rack = RackOfPort(run[s].port) /\ server'[s].id = server[s].id
           /\ server'[s].link = server[s].link /\ server'[s].ip = server[s].ip
           /\ server'[s].asn = server[s].asn
           /\ UNCHANGED <<port, links, prefixes, sessions, segmentRacks>>
<1>1. run'[s] = [run[s] EXCEPT !.id = server[s].id,
                               !.pc = IF run[s].drop = << >> THEN "cable" ELSE "detach"]
  BY RunTyped DEF MaterializeServer
<1>2. server'[s] = [server[s] EXCEPT !.rack = RackOfPort(run[s].port)]
  BY RunTyped DEF MaterializeServer
<1>3. server[s].id = 0
  BY DEF PhaseInv, Phase
<1>. QED
  BY <1>1, <1>2, <1>3, RunTyped DEF MaterializeServer, RunRecord, ServerRecord

LEMMA MaterializePhase == ASSUME PhaseInv, NEW s \in Services, MaterializeServer(s) PROVE Phase(s)'
BY MaterializeEffect DEF PhaseInv, Phase, Routing

\* What release_leaf_port does to its service, step by step.
LEMMA DetachEffect ==
    ASSUME PhaseInv, NEW s \in Services, Detach(s), ~Raise(s), NEW q, run[s].drop = <<q>>
    PROVE  /\ run[s].pc = "detach" /\ q \in Ports /\ q # run[s].port /\ server[s].link = q /\ port[q].link = s
           /\ run'[s].pc = "unlink" /\ run'[s].id = run[s].id /\ run'[s].port = run[s].port
           /\ run'[s].drop = <<q>> /\ run'[s].nets = {port[q].ip, server[s].ip} \ {None}
           /\ LeafOf[q] # LeafOf[run[s].port] => LeafOf[q] \in run'[s].left
           /\ port' = [port EXCEPT ![q] = Clean]
           /\ UNCHANGED <<server, links, prefixes, sessions, segmentRacks>>
<1>1. PICK p \in Ports : run[s].drop = <<p>> /\ port[p].link = s
  BY DEF PhaseInv, DocumentInv, WiringInv, Wiring, Held, Detach
<1>2. p = q /\ Head(run[s].drop) = q
  BY <1>1
<1>3. server[s].link = q /\ q # run[s].port
  BY <1>1, <1>2 DEF PhaseInv, Phase, DocumentInv, WiringInv, Wiring, Wired, Detach
<1>. DEFINE nets == {port[q].ip, server[s].ip} \ {None}
            left == run[s].left \cup ({LeafOf[q]} \ {LeafOf[run[s].port]})
            r    == [run[s] EXCEPT !.pc = "unlink", !.link = port[q].link, !.nets = nets,
                                   !.left = left]
<1>4. /\ run' = [run EXCEPT ![s] = r]
      /\ port' = [port EXCEPT ![q] = Clean]
      /\ UNCHANGED <<server, links, prefixes, sessions, segmentRacks>>
  BY <1>2 DEF Detach
<1>5. /\ r.pc = "unlink" /\ r.id = run[s].id /\ r.port = run[s].port /\ r.drop = run[s].drop
      /\ r.nets = nets /\ r.left = left
  BY RunTyped DEF RunRecord
<1>6. run'[s] = r
  BY <1>4, RunTyped
<1>. HIDE DEF r
<1>. QED
  BY <1>1, <1>2, <1>3, <1>4, <1>5, <1>6 DEF Detach

LEMMA UnlinkEffect ==
    ASSUME PhaseInv, NEW s \in Services, Unlink(s), ~Raise(s)
    PROVE  /\ run[s].pc = "unlink" /\ MovesOn(s, "unaddress")
           /\ server'[s].link = None /\ server'[s].rack = server[s].rack
           /\ server'[s].id = server[s].id /\ server'[s].ip = server[s].ip
           /\ server'[s].asn = server[s].asn
           /\ port' = port /\ links' = links \ {<<server[s].link, s>>}
           /\ UNCHANGED <<prefixes, sessions, segmentRacks>>
<1>1. PICK q \in Ports : run[s].drop = <<q>> /\ port[q].link # s /\ run[s].link = s
  BY DEF PhaseInv, DocumentInv, WiringInv, Wiring, Held, Unlink
<1>2. server[s].link = q /\ Head(run[s].drop) = q
  BY <1>1 DEF PhaseInv, Phase, Unlink
<1>3. /\ server' = [y \in Services |-> IF y = s /\ server[y].link = q
                                       THEN [server[y] EXCEPT !.link = None] ELSE server[y]]
      /\ port' = [port EXCEPT ![q].link = IF @ = s THEN None ELSE @]
      /\ links' = links \ {<<q, s>>}
      /\ Goto(s, "unaddress") /\ UNCHANGED <<prefixes, sessions, segmentRacks>>
  BY <1>1, <1>2 DEF Unlink
<1>4. server'[s] = [server[s] EXCEPT !.link = None]
  BY <1>2, <1>3
<1>5. port' = port
  BY <1>1, <1>3, RunTyped DEF PortRecord
<1>. QED
  BY <1>2, <1>3, <1>4, <1>5, GotoRun, RunTyped DEF Unlink, ServerRecord

LEMMA UnaddressEffect ==
    ASSUME PhaseInv, NEW s \in Services, Unaddress(s)
    PROVE  /\ run[s].pc = "unaddress" /\ run'[s].pc = "unpeer" /\ run'[s].id = run[s].id /\ run'[s].port = run[s].port
           /\ run'[s].left = run[s].left
           /\ server'[s].ip = IF server[s].ip \in run[s].nets THEN None ELSE server[s].ip
           /\ server'[s].link = server[s].link /\ server'[s].rack = server[s].rack
           /\ server'[s].id = server[s].id /\ server'[s].asn = server[s].asn
           /\ \A p \in Ports : port'[p].link = port[p].link
           /\ prefixes' = prefixes \ run[s].nets
           /\ UNCHANGED <<links, sessions, segmentRacks>>
<1>1. PICK q \in Ports : run[s].drop = <<q>>
  BY DEF PhaseInv, DocumentInv, WiringInv, Wiring, Held, Unaddress
<1>2. ~(Len(run[s].drop) > 1)
  BY <1>1
<1>3. run' = [run EXCEPT ![s].drop = Tail(@), ![s].pc = "unpeer"]
  BY <1>2 DEF Unaddress
<1>4. server'[s] = [server[s] EXCEPT !.ip = IF @ \in run[s].nets THEN None ELSE @]
  BY RunTyped DEF Unaddress
<1>5. \A p \in Ports : port'[p].link = port[p].link
  BY RunTyped DEF Unaddress, PortRecord
<1>. QED
  BY <1>3, <1>4, <1>5, RunTyped DEF Unaddress, RunRecord, ServerRecord

LEMMA ReleasePhase ==
    ASSUME PhaseInv, NEW s \in Services, Detach(s) \/ Unlink(s) \/ Unaddress(s)
    PROVE  Phase(s)'
<1>1. CASE Raise(s)
  BY <1>1, RaisePhase
<1>2. CASE Detach(s) /\ ~Raise(s)
  <2>1. PICK q \in Ports : run[s].drop = <<q>>
    BY <1>2 DEF PhaseInv, DocumentInv, WiringInv, Wiring, Held, Detach
  <2>. QED
    BY <1>2, <2>1, DetachEffect DEF PhaseInv, Phase, Routing
<1>3. CASE Unlink(s) /\ ~Raise(s)
  BY <1>3, UnlinkEffect DEF PhaseInv, Phase, Routing, MovesOn
<1>4. CASE Unaddress(s)
  BY <1>4, UnaddressEffect DEF PhaseInv, Phase, Routing
<1>. QED
  BY <1>1, <1>2, <1>3, <1>4

\* delete_ebgp_pair concerns the sessions alone.
LEMMA UnpeerEffect ==
    ASSUME PhaseInv, NEW s \in Services, Unpeer(s)
    PROVE  /\ run[s].pc = "unpeer" /\ MovesOn(s, "cable")
           /\ sessions' = {q \in sessions : ~(q[2] \in run[s].left /\ q[3] = s)}
           /\ UNCHANGED <<server, port, links, prefixes, segmentRacks>>
BY GotoRun DEF Unpeer

\* What materialize_cabling does, which takes a port nobody is on.
LEMMA CableEffect ==
    ASSUME RefuseSecondCable, PhaseInv, NEW s \in Services, Cable(s), ~Raise(s),
           NEW p, p = run[s].port
    PROVE  /\ run[s].pc = "cable" /\ MovesOn(s, IF Layer[s] = "l3" THEN "asn" ELSE "attach")
           /\ p \in Ports /\ port[p].link \in {None, s} /\ server[s].link \in {None, p}
           /\ server'[s].link = p /\ server'[s].rack = server[s].rack
           /\ server'[s].id = server[s].id /\ server'[s].ip = server[s].ip
           /\ server'[s].asn = server[s].asn
           /\ \A q \in Ports : /\ port'[q].ip = port[q].ip
                               /\ port'[q].link = IF q = p THEN s ELSE port[q].link
           /\ links' = links \cup {<<p, s>>}
           /\ UNCHANGED <<prefixes, sessions, segmentRacks>>
<1>1. p \in Ports
  BY DEF PhaseInv, DocumentInv, WiringInv, Shape, RunsOK, HasPort, Cable
<1>2. /\ port' = [port EXCEPT ![p].link = s]
      /\ server' = [server EXCEPT ![s].link = p]
      /\ links' = links \cup {<<p, s>>}
      /\ Goto(s, IF Layer[s] = "l3" THEN "asn" ELSE "attach")
      /\ port[p].link \in {None, s} /\ server[s].link \in {None, p}
      /\ UNCHANGED <<prefixes, sessions, segmentRacks>>
  BY DEF Cable
<1>3. server'[s] = [server[s] EXCEPT !.link = p]
  BY <1>2, RunTyped
<1>4. \A q \in Ports : port'[q].ip = port[q].ip /\ port'[q].link = IF q = p THEN s ELSE port[q].link
  BY <1>1, <1>2, RunTyped DEF PortRecord
<1>. QED
  BY <1>1, <1>2, <1>3, <1>4, GotoRun, RunTyped DEF Cable, ServerRecord

LEMMA AsnEffect ==
    ASSUME PhaseInv, NEW s \in Services, AllocateAsn(s), ~Raise(s)
    PROVE  /\ run[s].pc = "asn" /\ MovesOn(s, "overlay")
           /\ server'[s].asn # 0 /\ (server[s].asn # 0 => server' = server)
           /\ server'[s].link = server[s].link /\ server'[s].rack = server[s].rack
           /\ server'[s].id = server[s].id /\ server'[s].ip = server[s].ip
           /\ UNCHANGED <<port, links, prefixes, sessions, segmentRacks>>
<1>1. asnsUsed \in Nat
  BY Typed DEF PhaseInv, DocumentInv, WiringInv, Shape
<1>2. CASE server[s].asn = 0
  <2>1. server'[s] = [server[s] EXCEPT !.asn = asnsUsed + 1]
    BY <1>2, RunTyped DEF AllocateAsn, NeedsAsn
  <2>2. asnsUsed + 1 # 0
    BY <1>1
  <2>. QED
    BY <1>2, <2>1, <2>2, GotoRun, RunTyped DEF AllocateAsn, ServerRecord
<1>3. CASE server[s].asn # 0
  BY <1>3, GotoRun DEF AllocateAsn, NeedsAsn
<1>. QED
  BY <1>2, <1>3

LEMMA OverlayEffect ==
    ASSUME PhaseInv, NEW s \in Services, ResolveOverlayAsn(s), ~Raise(s)
    PROVE  run[s].pc = "overlay" /\ MovesOn(s, "prefix") /\ UNCHANGED graph
BY GotoRun DEF ResolveOverlayAsn

LEMMA PrefixEffect ==
    ASSUME PhaseInv, NEW s \in Services, AllocatePrefix(s)
    PROVE  /\ run[s].pc = "prefix" /\ MovesOn(s, "leafend")
           /\ prefixes' = prefixes \cup {Own(s)}
           /\ UNCHANGED <<server, port, links, sessions, segmentRacks>>
BY GotoRun DEF AllocatePrefix

\* Both ends are addressed from the /31 of this server and this port, the leaf's first.
LEMMA OwnCable ==
    ASSUME PhaseInv, NEW s \in Services, run[s].pc \in {"leafend", "serverend"}
    PROVE  run[s].port \in Ports /\ Exists(s) /\ Own(s) # None
<1>1. run[s].port \in Ports /\ Attached(s, run[s].port)
  BY DEF PhaseInv, DocumentInv, WiringInv, Shape, RunsOK, HasPort, Wiring, Held, Attaching
<1>2. Exists(s)
  BY <1>1, TopologyIsTree DEF PhaseInv, DocumentInv, WiringInv, Wiring, Wired, Attached
<1>3. Own(s) # None
  BY <1>1, OwnIsPrefix, NoneIsUnset DEF HasPort, PhaseInv, DocumentInv, WiringInv, Shape
<1>. QED
  BY <1>1, <1>2, <1>3

LEMMA LeafEndEffect ==
    ASSUME PhaseInv, NEW s \in Services, AddressLeafEnd(s)
    PROVE  /\ run[s].pc = "leafend" /\ MovesOn(s, "serverend")
           /\ run[s].port \in Ports /\ Own(s) # None
           /\ \A q \in Ports : /\ port'[q].link = port[q].link
                               /\ port'[q].ip = IF q = run[s].port THEN Own(s) ELSE port[q].ip
           /\ UNCHANGED <<server, links, prefixes, sessions, segmentRacks>>
<1>1. run[s].port \in Ports /\ Own(s) # None
  BY OwnCable DEF AddressLeafEnd
<1>2. /\ port' = [port EXCEPT ![run[s].port].ip = Own(s)]
      /\ Goto(s, "serverend") /\ UNCHANGED <<server, links, prefixes, sessions, segmentRacks>>
  BY DEF AddressLeafEnd
<1>3. \A q \in Ports : /\ port'[q].link = port[q].link
                      /\ port'[q].ip = IF q = run[s].port THEN Own(s) ELSE port[q].ip
  BY <1>1, <1>2, RunTyped DEF PortRecord
<1>. QED
  BY <1>1, <1>2, <1>3, GotoRun DEF AddressLeafEnd

LEMMA ServerEndEffect ==
    ASSUME PhaseInv, NEW s \in Services, AddressServerEnd(s)
    PROVE  /\ run[s].pc = "serverend" /\ MovesOn(s, "up")
           /\ run[s].port \in Ports /\ Own(s) # None
           /\ server'[s].ip = Own(s) /\ server'[s].link = server[s].link
           /\ server'[s].rack = server[s].rack /\ server'[s].id = server[s].id
           /\ server'[s].asn = server[s].asn
           /\ UNCHANGED <<port, links, prefixes, sessions, segmentRacks>>
<1>1. run[s].port \in Ports /\ Exists(s) /\ Own(s) # None
  BY OwnCable DEF AddressServerEnd
<1>2. /\ server' = [server EXCEPT ![s].ip = Own(s)]
      /\ Goto(s, "up") /\ UNCHANGED <<port, links, prefixes, sessions, segmentRacks>>
  BY <1>1 DEF AddressServerEnd
<1>3. server'[s] = [server[s] EXCEPT !.ip = Own(s)]
  BY <1>2, RunTyped
<1>. QED
  BY <1>1, <1>2, <1>3, GotoRun, RunTyped DEF AddressServerEnd, ServerRecord

LEMMA UpsertEffect ==
    ASSUME PhaseInv, NEW s \in Services, NEW pc, NEW end, NEW next,
           UpsertSession(s, pc, end, next), ~Raise(s)
    PROVE  /\ run[s].pc = pc /\ MovesOn(s, next)
           /\ sessions' = sessions \cup {<<end, LeafOf[run[s].port], s>>}
           /\ UNCHANGED <<server, port, links, prefixes, segmentRacks>>
BY GotoRun DEF UpsertSession

LEMMA PeerEffect ==
    ASSUME PhaseInv, NEW s \in Services, ~Raise(s)
    PROVE  /\ PeerLeaf(s) =>
                /\ run[s].pc = "up" /\ MovesOn(s, "down")
                /\ sessions' = sessions \cup {<<"leaf", LeafOf[run[s].port], s>>}
                /\ UNCHANGED <<server, port, links, prefixes, segmentRacks>>
           /\ PeerServer(s) =>
                /\ run[s].pc = "down" /\ MovesOn(s, "record")
                /\ sessions' = sessions \cup {<<"server", LeafOf[run[s].port], s>>}
                /\ UNCHANGED <<server, port, links, prefixes, segmentRacks>>
BY UpsertEffect DEF PeerLeaf, PeerServer

LEMMA AttachEffect ==
    ASSUME PhaseInv, NEW s \in Services, AttachSegmentRack(s)
    PROVE  /\ run[s].pc = "attach" /\ MovesOn(s, "record")
           /\ segmentRacks' = segmentRacks \cup {RackOfPort(run[s].port)}
           /\ UNCHANGED <<server, port, links, prefixes, sessions>>
BY GotoRun DEF AttachSegmentRack

LEMMA RecordEffect ==
    ASSUME PhaseInv, NEW s \in Services, RecordPlacement(s), ~Raise(s)
    PROVE  /\ run[s].pc = "record" /\ MovesOn(s, "stamp")
           /\ asked'[s] = [rack |-> RackOfPort(run[s].port), port |-> run[s].port]
           /\ s \in recorded' /\ UNCHANGED graph
<1>1. asked \in [Services -> Ask]
  BY DEF PhaseInv, DocumentInv, WiringInv, Shape, TypeOK
<1>. QED
  BY <1>1, GotoRun DEF RecordPlacement

LEMMA AttachingPhase ==
    ASSUME RefuseSecondCable, PhaseInv, NEW s \in Services,
           \/ Unpeer(s) \/ Cable(s) \/ AllocateAsn(s) \/ ResolveOverlayAsn(s)
           \/ AllocatePrefix(s) \/ AddressLeafEnd(s) \/ AddressServerEnd(s) \/ PeerLeaf(s) \/ PeerServer(s)
           \/ AttachSegmentRack(s) \/ RecordPlacement(s) \/ Stamp(s)
    PROVE  Phase(s)'
<1>1. CASE Raise(s)
  BY <1>1, RaisePhase
<1>2. CASE Stamp(s)
  BY <1>2, IdlePhase DEF Stamp, graph
<1>3. CASE Unpeer(s)
  BY <1>3, UnpeerEffect DEF PhaseInv, Phase, Routing, MovesOn
<1>4. CASE Cable(s) /\ ~Raise(s)
  BY <1>4, CableEffect DEF PhaseInv, Phase, Routing, MovesOn
<1>5. CASE AllocateAsn(s) /\ ~Raise(s)
  BY <1>5, AsnEffect DEF PhaseInv, Phase, Routing, MovesOn
<1>6. CASE ResolveOverlayAsn(s) /\ ~Raise(s)
  BY <1>6, OverlayEffect DEF PhaseInv, Phase, Routing, MovesOn, graph
<1>7. CASE AllocatePrefix(s)
  BY <1>7, PrefixEffect DEF PhaseInv, Phase, Routing, MovesOn
<1>8. CASE AddressLeafEnd(s) \/ AddressServerEnd(s)
  <2>1. Own(s).id = run[s].id
    BY DEF Own
  <2>. QED
    BY <1>8, <2>1, LeafEndEffect, ServerEndEffect DEF PhaseInv, Phase, Routing, MovesOn
<1>9. CASE (PeerLeaf(s) \/ PeerServer(s)) /\ ~Raise(s)
  BY <1>9, PeerEffect DEF PhaseInv, Phase, Routing, MovesOn
<1>10. CASE AttachSegmentRack(s)
  BY <1>10, AttachEffect DEF PhaseInv, Phase, Routing, MovesOn
<1>11. CASE RecordPlacement(s) /\ ~Raise(s)
  <2>1. MovesOn(s, "stamp") /\ run[s].pc = "record" /\ server' = server
    BY <1>11, RecordEffect DEF graph
  <2>. QED
    BY <2>1 DEF PhaseInv, Phase, Routing, MovesOn
<1>. QED
  BY <1>1, <1>2, <1>3, <1>4, <1>5, <1>6, <1>7, <1>8, <1>9, <1>10, <1>11

LEMMA RunStepPhase ==
    ASSUME RefuseSecondCable, PhaseInv, NEW s \in Services, RunStep(s) PROVE Phase(s)'
BY StartPhase, ResolvePhase, MaterializePhase, ReleasePhase, AttachingPhase DEF RunStep

LEMMA AroundPhase ==
    ASSUME ~MayDelete, PhaseInv, NEW s \in Services,
           \/ Die(s) \/ DeleteServer(s) \/ RunAgain(s) \/ FabricReady
           \/ \E x \in Edits : Edit(s, x)
    PROVE  Phase(s)'
<1>1. CASE Die(s)
  BY <1>1, IdlePhase DEF Die, GiveUp, graph
<1>2. CASE RunAgain(s) \/ FabricReady \/ \E x \in Edits : Edit(s, x)
  BY <1>2 DEF RunAgain, FabricReady, Edit, graph, PhaseInv, Phase
<1>. QED
  BY <1>1, <1>2 DEF DeleteServer

LEMMA PhaseAtFirst == Init => PhaseInv
<1>. SUFFICES ASSUME Init, NEW u \in Services PROVE Phase(u)
  BY NettedAtFirst DEF PhaseInv
<1>1. run[u] = Idle /\ server[u] = NoServer
  BY DEF Init
<1>. QED
  BY <1>1 DEF Phase, Idle, NoServer, Routing

\* Whatever happens is a step of one service, or touches no service at all.
LEMMA StepIsSomebodys ==
    ASSUME RefuseSecondCable, ~MayDelete, DocumentInv, [Next]_vars
    PROVE  \/ UNCHANGED vars
           \/ \E s \in Services :
                /\ \/ RunStep(s)
                   \/ Die(s) \/ DeleteServer(s) \/ RunAgain(s) \/ FabricReady
                   \/ \E x \in Edits : Edit(s, x)
                /\ \A u \in Services \ {s} : SameEstate(u)
           \/ FabricReady /\ \A u \in Services : SameEstate(u)
<1>1. ASSUME NEW s \in Services, RunStep(s) PROVE \A u \in Services \ {s} : SameEstate(u)
  BY <1>1, RunStepSparesEstates
<1>2. ASSUME NEW s \in Services,
             \/ Die(s) \/ DeleteServer(s) \/ RunAgain(s) \/ FabricReady
             \/ \E x \in Edits : Edit(s, x)
      PROVE  \A u \in Services \ {s} : SameEstate(u)
  BY <1>2, AroundSparesEstates
<1>3. ASSUME FabricReady PROVE \A u \in Services : SameEstate(u)
  <2>1. UNCHANGED <<server, recorded, sessions, port, run, links, prefixes, segmentRacks,
                    asked, pending, broken, stale>>
    BY <1>3 DEF FabricReady, service, graph, around
  <2>. QED
    BY <2>1 DEF SameEstate, SameMember, OwnLinks, OwnPrefixes, OwnSessions
<1>. QED
  BY <1>1, <1>2, <1>3 DEF Next

LEMMA PhasePreserved ==
    ASSUME RefuseSecondCable, ~MayDelete PROVE PhaseInv /\ [Next]_vars => PhaseInv'
<1>. SUFFICES ASSUME PhaseInv, [Next]_vars PROVE PhaseInv'
  OBVIOUS
<1>1. DocumentInv'
  BY NettedPreserved DEF PhaseInv
<1>2. ASSUME NEW u \in Services, SameEstate(u) PROVE Phase(u)'
  BY <1>2, SameEstateSamePhase DEF PhaseInv
<1>3. ASSUME UNCHANGED vars, NEW u \in Services PROVE Phase(u)'
  BY <1>3 DEF PhaseInv, Phase, vars
<1>4. ASSUME NEW s \in Services,
             \/ RunStep(s)
             \/ Die(s) \/ DeleteServer(s) \/ RunAgain(s) \/ FabricReady
             \/ \E x \in Edits : Edit(s, x)
      PROVE  Phase(s)'
  BY <1>4, RunStepPhase, AroundPhase
<1>5. \A u \in Services : Phase(u)'
  BY <1>2, <1>3, <1>4, StepIsSomebodys DEF PhaseInv
<1>. QED
  BY <1>1, <1>5 DEF PhaseInv

LEMMA PhaseAlways ==
    ASSUME RefuseSecondCable, ~MayDelete PROVE Spec => []PhaseInv
BY PhaseAtFirst, PhasePreserved, PTL DEF Spec

-----------------------------------------------------------------------------
(* A run that finds its work done                                           *)

\* A run that has something to release has work to do.
LEMMA ReleaseHasWork ==
    ASSUME PhaseInv, NEW s \in Services, Materialized(s, run[s].port), ~Raise(s)
    PROVE  ~Detach(s) /\ ~Unlink(s) /\ ~Unaddress(s) /\ ~Unpeer(s)
<1>1. run[s].pc \notin {"idle", "resolve"} => run[s].port \in Ports /\ run[s].port # None
  BY TopologyIsTree DEF PhaseInv, DocumentInv, WiringInv, Shape, RunsOK, HasPort
<1>2. server[s].link = run[s].port /\ port[run[s].port].link = s
  BY DEF Materialized, Attached
<1>3. ~Detach(s)
  <2>. SUFFICES ASSUME Detach(s) PROVE FALSE
    OBVIOUS
  <2>1. PICK q \in Ports : run[s].drop = <<q>>
    BY DEF PhaseInv, DocumentInv, WiringInv, Wiring, Held, Detach
  <2>. QED
    BY <1>2, <2>1, DetachEffect
<1>4. ~Unlink(s)
  <2>. SUFFICES ASSUME Unlink(s) PROVE FALSE
    OBVIOUS
  <2>1. PICK q \in Ports : run[s].drop = <<q>> /\ port[q].link # s
    BY DEF PhaseInv, DocumentInv, WiringInv, Wiring, Held, Unlink
  <2>2. run[s].drop = <<server[s].link>>
    BY DEF PhaseInv, Phase, Unlink
  <2>. QED
    BY <1>2, <2>1, <2>2
<1>5. ~Unaddress(s) /\ ~Unpeer(s)
  BY <1>1, <1>2 DEF PhaseInv, Phase, Unaddress, Unpeer
<1>. QED
  BY <1>3, <1>4, <1>5

LEMMA PlacingIsNoop ==
    ASSUME RefuseSecondCable, PhaseInv, NEW s \in Services, Materialized(s, run[s].port),
           ~Raise(s), MaterializeServer(s) \/ Cable(s) \/ AllocateAsn(s) \/ ResolveOverlayAsn(s)
    PROVE  UNCHANGED <<graph, asked, recorded>>
<1>. DEFINE p == run[s].port
<1>1. /\ server[s].rack = RackOfPort(p) /\ server[s].link = p /\ port[p].link = s
      /\ {n \in links : n[2] = s} = {<<p, s>>}
  BY DEF Materialized, Attached
<1>2. CASE MaterializeServer(s)
  <2>1. server' = server
    BY <1>1, <1>2, RunTyped DEF MaterializeServer, ServerRecord
  <2>. QED
    BY <1>2, <2>1 DEF MaterializeServer, graph, service
<1>3. CASE Cable(s)
  <2>1. /\ port' = [port EXCEPT ![p].link = s]
        /\ server' = [server EXCEPT ![s].link = p]
        /\ links' = links \cup {<<p, s>>}
        /\ UNCHANGED <<prefixes, sessions, segmentRacks, service>>
    BY <1>3 DEF Cable
  <2>2. port' = port
    BY <1>1, <2>1, RunTyped DEF PortRecord
  <2>3. server' = server
    BY <1>1, <2>1, RunTyped DEF ServerRecord
  <2>4. links' = links
    BY <1>1, <2>1
  <2>. QED
    BY <2>1, <2>2, <2>3, <2>4 DEF graph, service
<1>4. CASE AllocateAsn(s)
  <2>1. Layer[s] = "l3"
    BY <1>4 DEF PhaseInv, Phase, Routing, AllocateAsn
  <2>2. server[s].asn # 0
    BY <2>1 DEF Materialized
  <2>. QED
    BY <1>4, <2>2, AsnEffect DEF AllocateAsn, graph, service
<1>5. CASE ResolveOverlayAsn(s)
  BY <1>5 DEF ResolveOverlayAsn, graph, service
<1>. QED
  BY <1>2, <1>3, <1>4, <1>5

LEMMA AddressingIsNoop ==
    ASSUME PhaseInv, NEW s \in Services, Materialized(s, run[s].port), ~Raise(s),
           AllocatePrefix(s) \/ AddressLeafEnd(s) \/ AddressServerEnd(s) \/ PeerLeaf(s) \/ PeerServer(s)
    PROVE  UNCHANGED <<graph, asked, recorded>>
<1>. DEFINE p == run[s].port
<1>1. run[s].pc \in {"prefix", "leafend", "serverend", "up", "down"}
  BY PeerEffect DEF AllocatePrefix, AddressLeafEnd, AddressServerEnd
<1>2. Layer[s] = "l3" /\ run[s].id = 0 /\ (server[s].ip # None => server[s].ip.id = 0)
  BY <1>1 DEF PhaseInv, Phase, Routing
<1>3. /\ server[s].ip \in prefixes /\ server[s].ip.port = p
      /\ port[p].ip = server[s].ip /\ Ends(s, p) \subseteq sessions
  BY <1>2 DEF Materialized
<1>4. server[s].ip \in Prefix /\ server[s].ip # None
  BY <1>3, Typed, NoneIsUnset DEF PhaseInv, DocumentInv, WiringInv, Shape
<1>5. server[s].ip.service = s /\ server[s].ip.id = 0
  BY <1>2, <1>4 DEF PhaseInv, DocumentInv, Netted
<1>6. server[s].ip = Own(s)
  BY <1>2, <1>3, <1>4, <1>5 DEF Prefix, Own
<1>7. CASE AllocatePrefix(s)
  BY <1>3, <1>6, <1>7 DEF AllocatePrefix, graph, service
<1>8. CASE AddressLeafEnd(s)
  <2>1. /\ port' = [port EXCEPT ![p].ip = Own(s)]
        /\ UNCHANGED <<server, links, prefixes, sessions, segmentRacks, service>>
    BY <1>8 DEF AddressLeafEnd
  <2>2. port' = port
    BY <1>3, <1>6, <2>1, RunTyped DEF PortRecord
  <2>. QED
    BY <2>1, <2>2 DEF graph, service
<1>10. CASE AddressServerEnd(s)
  <2>1. /\ server' = [server EXCEPT ![s].ip = Own(s)]
        /\ UNCHANGED <<port, links, prefixes, sessions, segmentRacks, service>>
    BY <1>10 DEF AddressServerEnd
  <2>2. server' = server
    BY <1>3, <1>6, <2>1, RunTyped DEF ServerRecord
  <2>. QED
    BY <2>1, <2>2 DEF graph, service
<1>9. CASE PeerLeaf(s) \/ PeerServer(s)
  <2>1. {<<"leaf", LeafOf[p], s>>, <<"server", LeafOf[p], s>>} \subseteq sessions
    BY <1>3 DEF Ends
  <2>. QED
    BY <1>9, <2>1 DEF PeerLeaf, PeerServer, UpsertSession, graph, service
<1>. QED
  BY <1>7, <1>8, <1>9, <1>10

LEMMA FinishingIsNoop ==
    ASSUME PhaseInv, NEW s \in Services, Materialized(s, run[s].port), ~Raise(s),
           AttachSegmentRack(s) \/ RecordPlacement(s) \/ Stamp(s)
    PROVE  UNCHANGED <<graph, asked, recorded>>
<1>. DEFINE p == run[s].port
<1>1. CASE AttachSegmentRack(s)
  <2>1. Layer[s] # "l3"
    BY <1>1 DEF PhaseInv, Phase, AttachSegmentRack
  <2>2. RackOfPort(p) \in segmentRacks
    BY <2>1 DEF Materialized
  <2>. QED
    BY <1>1, <2>2 DEF AttachSegmentRack, graph, service
<1>2. CASE RecordPlacement(s)
  <2>1. asked[s] = [rack |-> RackOfPort(p), port |-> p] /\ s \in recorded
    BY DEF Materialized
  <2>2. asked \in [Services -> Ask]
    BY DEF PhaseInv, DocumentInv, WiringInv, Shape, TypeOK
  <2>. QED
    BY <1>2, <2>1, <2>2 DEF RecordPlacement, graph
<1>3. CASE Stamp(s)
  BY <1>3 DEF Stamp, graph
<1>. QED
  BY <1>1, <1>2, <1>3

LEMMA RunIsNoop ==
    ASSUME RefuseSecondCable, PhaseInv, NEW s \in Services, run[s].pc \notin {"idle", "resolve"},
           Materialized(s, run[s].port), RunStep(s) \/ Die(s)
    PROVE  UNCHANGED <<graph, asked, recorded>>
<1>1. CASE Raise(s) \/ Die(s)
  BY <1>1 DEF Raise, Die, GiveUp, service
<1>2. CASE RunStep(s) /\ ~Raise(s)
  <2>1. ~Start(s) /\ ~Resolve(s)
    BY DEF Start, Resolve
  <2>. QED
    BY <1>2, <2>1, ReleaseHasWork, PlacingIsNoop, AddressingIsNoop, FinishingIsNoop DEF RunStep
<1>. QED
  BY <1>1, <1>2

\* A re-run of a completely attached service that keeps its port writes nothing
\* but the checksum, whatever the other services do between its calls
\* (connect-servers.md, "Idempotency"; materialize_server, materialize_cabling,
\* materialize_l3, attach_segment_rack, record_placement).
THEOREM RerunsWriteNothing ==
    ASSUME RefuseSecondCable, ~MayDelete PROVE Spec => RerunIsNoop
<1>1. ASSUME PhaseInv, [Next]_vars, NEW s \in Services, run[s].pc \notin {"idle", "resolve"},
             run'[s] # run[s], Materialized(s, run[s].port)
      PROVE  UNCHANGED <<graph, asked, recorded>>
  <2>1. run' # run
    BY <1>1
  <2>2. ~UNCHANGED vars
    BY <2>1 DEF vars
  <2>3. \A y \in Services : SameEstate(y) => y # s
    BY <1>1 DEF SameEstate
  <2>4. ~FabricReady /\ \A y \in Services : ~RunAgain(y) /\ \A x \in Edits : ~Edit(y, x)
    BY <2>1 DEF FabricReady, RunAgain, Edit
  <2>5. RunStep(s) \/ Die(s)
    BY <1>1, <2>2, <2>3, <2>4, StepIsSomebodys DEF PhaseInv, DeleteServer
  <2>. QED
    BY <1>1, <2>5, RunIsNoop
<1>2. PhaseInv /\ [Next]_vars
      => [\A s \in Services :
           /\ run[s].pc \notin {"idle", "resolve"}
           /\ run'[s] # run[s]
           /\ Materialized(s, run[s].port)
           => UNCHANGED <<graph, asked, recorded>>]_vars
  BY <1>1
<1>. QED
  BY <1>2, PhaseAlways, PTL DEF Spec, RerunIsNoop

-----------------------------------------------------------------------------
(* The books of a server                                                    *)

\* Where a death would leave a link or a /31 that nobody remembers, or one end of
\* a cable without its address.
Fragile == {"unlink", "unaddress", "leafend", "serverend"}

\* One cable, seen from both ends and from its link, but while it is unplugged.
Cabled(u) ==
    /\ run[u].pc # "unlink" => \A p \in Ports : server[u].link = p => port[p].link = u
    /\ OwnLinks(u) = {<<p, u>> : p \in {server[u].link} \ {None}}

\* What is carved is what the server has, what the run is about to give it, or
\* what the run remembers to take back.
Carved(u) ==
    \/ /\ run[u].pc \in {"unlink", "unaddress"}
       /\ OwnPrefixes(u) = run[u].nets /\ server[u].ip \in run[u].nets \cup {None}
    \/ /\ run[u].pc \in {"leafend", "serverend"}
       /\ OwnPrefixes(u) = {Own(u)} /\ server[u].ip \in {None, Own(u)}
    \/ run[u].pc \notin Fragile /\ OwnPrefixes(u) = {server[u].ip} \ {None}

\* A /31 is that of the cable, and the leaf's end is addressed from it as well, a
\* step earlier.
Numbered(u) ==
    /\ run[u].pc \notin {"unlink", "unaddress"} /\ server[u].ip # None
         => /\ server[u].link # None
            /\ server[u].ip = [port |-> server[u].link, service |-> u, id |-> 0]
    /\ \A p \in Ports : port[p].link = u =>
         port[p].ip = IF run[u].pc = "serverend" THEN Own(u) ELSE server[u].ip

\* No session from the server's side without the one from the leaf's.
Paired(u) ==
    /\ \A l \in Leafs : <<"server", l, u>> \in sessions => <<"leaf", l, u>> \in sessions
    /\ run[u].pc = "down" => <<"leaf", LeafOf[run[u].port], u>> \in sessions

Booked(u) ==
    /\ Cabled(u) /\ Carved(u) /\ Numbered(u) /\ Paired(u)
    /\ Layer[u] # "l3" => server[u].ip = None /\ OwnSessions(u) = {}

LedgerInv == PhaseInv /\ \A u \in Services : Booked(u)

LEMMA OwnSessionsOwn ==
    ASSUME NEW u, OwnSessions(u)' = OwnSessions(u), NEW end, NEW l
    PROVE  <<end, l, u>> \in sessions' <=> <<end, l, u>> \in sessions
<1>1. \A q : q[3] = u => (q \in sessions' <=> q \in sessions)
  BY DEF OwnSessions
<1>2. <<end, l, u>>[3] = u
  OBVIOUS
<1>. QED
  BY <1>1, <1>2

LEMMA SameEstateSameBooks ==
    ASSUME NEW u \in Services, SameEstate(u), Booked(u) PROVE Booked(u)'
<1>1. /\ server'[u] = server[u] /\ run'[u] = run[u]
      /\ OwnLinks(u)' = OwnLinks(u) /\ OwnPrefixes(u)' = OwnPrefixes(u)
      /\ OwnSessions(u)' = OwnSessions(u)
      /\ \A p \in Ports : /\ port'[p].link = u <=> port[p].link = u
                          /\ port[p].link = u => port'[p].ip = port[p].ip
  BY DEF SameEstate, SameMember
<1>2. Cabled(u)'
  BY <1>1 DEF Booked, Cabled
<1>3. Carved(u)'
  BY <1>1 DEF Booked, Carved, Own
<1>4. Numbered(u)'
  BY <1>1 DEF Booked, Numbered, Own
<1>5. Paired(u)'
  BY <1>1, OwnSessionsOwn DEF Booked, Paired
<1>. QED
  BY <1>1, <1>2, <1>3, <1>4, <1>5 DEF Booked

\* A step of a run that leaves the books of its server as they are.
LEMMA QuietBooks ==
    ASSUME LedgerInv, NEW s \in Services,
           run[s].pc \notin Fragile, run'[s].pc \notin Fragile \cup {"down"},
           server'[s].link = server[s].link, server'[s].ip = server[s].ip,
           \A p \in Ports : port'[p].link = port[p].link /\ port'[p].ip = port[p].ip,
           UNCHANGED <<links, prefixes, sessions>>
    PROVE  Booked(s)'
<1>1. Booked(s)
  BY DEF LedgerInv
<1>2. Cabled(s)'
  BY <1>1 DEF Booked, Cabled, Fragile, OwnLinks
<1>3. Carved(s)'
  BY <1>1 DEF Booked, Carved, Fragile, OwnPrefixes
<1>4. Numbered(s)'
  BY <1>1 DEF Booked, Numbered, Fragile
<1>5. Paired(s)'
  BY <1>1 DEF Booked, Paired
<1>. QED
  BY <1>1, <1>2, <1>3, <1>4, <1>5 DEF Booked, OwnSessions

LEMMA IdleBooks ==
    ASSUME LedgerInv, NEW s \in Services, run[s].pc \notin Fragile,
           run' = [run EXCEPT ![s] = Idle], UNCHANGED graph
    PROVE  Booked(s)'
<1>1. run'[s].pc = "idle"
  BY RunTyped DEF Idle, LedgerInv
<1>. QED
  BY <1>1, QuietBooks DEF Fragile, graph

LEMMA RaiseBooks ==
    ASSUME LedgerInv, NEW s \in Services, run[s].pc \notin Fragile, Raise(s) PROVE Booked(s)'
BY IdleBooks DEF Raise, GiveUp

\* The link release_placement deletes is there: the run has just read it.
LEMMA UnlinkDoesNotRaise ==
    ASSUME LedgerInv, NEW s \in Services, Unlink(s) PROVE ~Raise(s)
<1>1. PICK q \in Ports : run[s].drop = <<q>> /\ run[s].link = s
  BY DEF LedgerInv, PhaseInv, DocumentInv, WiringInv, Wiring, Held, Unlink
<1>2. server[s].link = q
  BY <1>1 DEF LedgerInv, PhaseInv, Phase, Unlink
<1>3. <<q, s>> \in OwnLinks(s)
  BY <1>2, TopologyIsTree DEF LedgerInv, Booked, Cabled
<1>4. <<q, s>> \in links
  BY <1>3 DEF OwnLinks
<1>5. Goto(s, "unaddress")
  BY <1>1, <1>4 DEF Unlink
<1>6. run'[s].pc = "unaddress"
  BY <1>5, GotoRun DEF LedgerInv, MovesOn
<1>. QED
  BY <1>6, RunTyped DEF Raise, GiveUp, Idle, LedgerInv

LEMMA DetachBooks ==
    ASSUME LedgerInv, NEW s \in Services, Detach(s), ~Raise(s) PROVE Booked(s)'
<1>1. PICK q \in Ports : run[s].drop = <<q>>
  BY DEF LedgerInv, PhaseInv, DocumentInv, WiringInv, Wiring, Held, Detach
<1>2. /\ run[s].pc = "detach" /\ server[s].link = q /\ port[q].link = s
      /\ run'[s].pc = "unlink" /\ run'[s].nets = {port[q].ip, server[s].ip} \ {None}
      /\ port' = [port EXCEPT ![q] = Clean]
      /\ UNCHANGED <<server, links, prefixes, sessions>>
  BY <1>1, DetachEffect DEF LedgerInv
<1>3. Booked(s)
  BY DEF LedgerInv
<1>4. Cabled(s)'
  BY <1>2, <1>3 DEF Booked, Cabled, OwnLinks
<1>5. Carved(s)'
  <2>1. port[q].ip = server[s].ip
    BY <1>2, <1>3 DEF Booked, Numbered
  <2>2. OwnPrefixes(s) = {server[s].ip} \ {None}
    BY <1>2, <1>3 DEF Booked, Carved, Fragile
  <2>. QED
    BY <1>2, <2>1, <2>2 DEF Carved, OwnPrefixes
<1>6. Numbered(s)'
  <2>1. Clean.link # s
    BY TopologyIsTree DEF Clean
  <2>2. \A p \in Ports : port'[p] = IF p = q THEN Clean ELSE port[p]
    BY <1>2, RunTyped DEF LedgerInv
  <2>. QED
    BY <1>2, <1>3, <2>1, <2>2 DEF Booked, Numbered
<1>7. Paired(s)'
  BY <1>2, <1>3 DEF Booked, Paired
<1>. QED
  BY <1>2, <1>3, <1>4, <1>5, <1>6, <1>7 DEF Booked, OwnSessions

LEMMA UnlinkBooks ==
    ASSUME LedgerInv, NEW s \in Services, Unlink(s) PROVE Booked(s)'
<1>1. /\ run[s].pc = "unlink" /\ MovesOn(s, "unaddress")
      /\ server'[s].link = None /\ server'[s].ip = server[s].ip
      /\ port' = port /\ links' = links \ {<<server[s].link, s>>}
      /\ UNCHANGED <<prefixes, sessions>>
  BY UnlinkEffect, UnlinkDoesNotRaise DEF LedgerInv
<1>2. Booked(s)
  BY DEF LedgerInv
<1>3. Cabled(s)'
  <2>1. OwnLinks(s)' = {}
    BY <1>1, <1>2 DEF Booked, Cabled, OwnLinks
  <2>. QED
    BY <1>1, <2>1, TopologyIsTree DEF Cabled
<1>4. Carved(s)'
  BY <1>1, <1>2 DEF Booked, Carved, Fragile, OwnPrefixes, MovesOn
<1>5. Numbered(s)'
  BY <1>1, <1>2 DEF Booked, Numbered, MovesOn
<1>6. Paired(s)'
  BY <1>1, <1>2 DEF Booked, Paired, MovesOn
<1>. QED
  BY <1>1, <1>2, <1>3, <1>4, <1>5, <1>6 DEF Booked, OwnSessions

LEMMA UnaddressBooks ==
    ASSUME LedgerInv, NEW s \in Services, Unaddress(s) PROVE Booked(s)'
<1>1. /\ run[s].pc = "unaddress" /\ run'[s].pc = "unpeer"
      /\ server'[s].ip = IF server[s].ip \in run[s].nets THEN None ELSE server[s].ip
      /\ server'[s].link = server[s].link
      /\ \A p \in Ports : port'[p].link = port[p].link
      /\ prefixes' = prefixes \ run[s].nets
      /\ UNCHANGED <<links, sessions>>
  BY UnaddressEffect DEF LedgerInv
<1>2. Booked(s)
  BY DEF LedgerInv
<1>3. server'[s].ip = None /\ OwnPrefixes(s)' = {}
  BY <1>1, <1>2 DEF Booked, Carved, Fragile, OwnPrefixes
<1>4. \A p \in Ports : port'[p].link # s
  BY <1>1, TopologyIsTree DEF LedgerInv, PhaseInv, Phase, DocumentInv, WiringInv, Wiring, Wired
<1>5. Cabled(s)'
  BY <1>1, <1>2 DEF Booked, Cabled, OwnLinks
<1>6. Carved(s)'
  BY <1>1, <1>3 DEF Carved, Fragile
<1>7. Numbered(s)'
  BY <1>3, <1>4 DEF Numbered
<1>8. Paired(s)'
  BY <1>1, <1>2 DEF Booked, Paired
<1>. QED
  BY <1>1, <1>2, <1>3, <1>5, <1>6, <1>7, <1>8 DEF Booked, OwnSessions

LEMMA UnpeerBooks ==
    ASSUME LedgerInv, NEW s \in Services, Unpeer(s) PROVE Booked(s)'
<1>1. /\ run[s].pc = "unpeer" /\ run'[s].pc = "cable"
      /\ sessions' = {q \in sessions : ~(q[2] \in run[s].left /\ q[3] = s)}
      /\ UNCHANGED <<server, port, links, prefixes>>
  BY UnpeerEffect DEF LedgerInv, MovesOn
<1>2. Booked(s)
  BY DEF LedgerInv
<1>3. Cabled(s)' /\ Numbered(s)'
  BY <1>1, <1>2 DEF Booked, Cabled, Numbered, OwnLinks
<1>4. Carved(s)'
  BY <1>1, <1>2 DEF Booked, Carved, OwnPrefixes, Fragile
<1>5. Paired(s)'
  <2>1. \A end, l : <<end, l, s>> \in sessions' <=> <<end, l, s>> \in sessions /\ l \notin run[s].left
    BY <1>1
  <2>. QED
    BY <1>1, <1>2, <2>1 DEF Booked, Paired
<1>. QED
  BY <1>1, <1>2, <1>3, <1>4, <1>5 DEF Booked, OwnSessions

LEMMA CableBooks ==
    ASSUME RefuseSecondCable, LedgerInv, NEW s \in Services, Cable(s), ~Raise(s)
    PROVE  Booked(s)'
<1>. DEFINE p == run[s].port
<1>1. /\ run[s].pc = "cable" /\ run'[s].pc \in {"asn", "attach"}
      /\ p \in Ports /\ port[p].link \in {None, s} /\ server[s].link \in {None, p}
      /\ server'[s].link = p /\ server'[s].ip = server[s].ip
      /\ \A q \in Ports : /\ port'[q].ip = port[q].ip
                          /\ port'[q].link = IF q = p THEN s ELSE port[q].link
      /\ links' = links \cup {<<p, s>>}
      /\ UNCHANGED <<prefixes, sessions>>
  BY CableEffect DEF LedgerInv, MovesOn
<1>. HIDE DEF p
<1>2. Booked(s) /\ p # None
  BY <1>1, TopologyIsTree DEF LedgerInv
<1>3. Cabled(s)'
  <2>1. OwnLinks(s) \subseteq {<<p, s>>}
    BY <1>1, <1>2 DEF Booked, Cabled
  <2>2. OwnLinks(s)' = {<<p, s>>}
    BY <1>1, <2>1 DEF OwnLinks
  <2>. QED
    BY <1>1, <1>2, <2>2 DEF Cabled
<1>4. Carved(s)'
  BY <1>1, <1>2 DEF Booked, Carved, Fragile, OwnPrefixes
<1>5. port[p].ip = server[s].ip /\ (server[s].ip # None => server[s].link = p)
  <2>1. server[s].link = p => port[p].link = s
    BY <1>1, <1>2 DEF Booked, Cabled
  <2>2. port[p].link = None => port[p].ip = None
    BY <1>1 DEF LedgerInv, PhaseInv, DocumentInv, WiringInv, Wiring, Addressed
  <2>3. port[p].link = s => port[p].ip = server[s].ip
    BY <1>1, <1>2 DEF Booked, Numbered
  <2>4. server[s].ip # None => server[s].link = p
    BY <1>1, <1>2 DEF Booked, Numbered
  <2>. QED
    BY <1>1, <1>2, <2>1, <2>2, <2>3, <2>4
<1>6. Numbered(s)'
  BY <1>1, <1>2, <1>5 DEF Booked, Numbered
<1>7. Paired(s)'
  BY <1>1, <1>2 DEF Booked, Paired
<1>. QED
  BY <1>1, <1>2, <1>3, <1>4, <1>6, <1>7 DEF Booked, OwnSessions

\* While a run attaches, its own /31 is the one its cable would have.
LEMMA OwnIsOfCable ==
    ASSUME LedgerInv, NEW s \in Services, run[s].pc \in Attaching
    PROVE  /\ server[s].link = run[s].port /\ port[run[s].port].link = s
           /\ Own(s) = [port |-> server[s].link, service |-> s, id |-> 0]
BY DEF LedgerInv, PhaseInv, Phase, DocumentInv, WiringInv, Wiring, Held, Attached, Own

LEMMA PrefixBooks ==
    ASSUME LedgerInv, NEW s \in Services, AllocatePrefix(s) PROVE Booked(s)'
<1>1. /\ run[s].pc = "prefix" /\ MovesOn(s, "leafend")
      /\ prefixes' = prefixes \cup {Own(s)}
      /\ UNCHANGED <<server, port, links, sessions>>
  BY PrefixEffect DEF LedgerInv
<1>2. Booked(s) /\ Layer[s] = "l3"
  BY <1>1 DEF LedgerInv, PhaseInv, Phase, Routing
<1>3. server[s].ip \in {None, Own(s)}
  BY <1>1, <1>2, OwnIsOfCable DEF Booked, Numbered, Attaching
<1>4. Own(s)' = Own(s) /\ Own(s).service = s
  BY <1>1 DEF Own, MovesOn
<1>5. Carved(s)'
  <2>1. OwnPrefixes(s) = {server[s].ip} \ {None}
    BY <1>1, <1>2 DEF Booked, Carved, Fragile
  <2>2. OwnPrefixes(s)' = {Own(s)}
    BY <1>1, <1>3, <1>4, <2>1 DEF OwnPrefixes
  <2>. QED
    BY <1>1, <1>3, <1>4, <2>2 DEF Carved, MovesOn
<1>6. Cabled(s)' /\ Numbered(s)' /\ Paired(s)'
  BY <1>1, <1>2 DEF Booked, Cabled, Numbered, Paired, OwnLinks, MovesOn
<1>. QED
  BY <1>2, <1>5, <1>6 DEF Booked

LEMMA LeafEndBooks ==
    ASSUME LedgerInv, NEW s \in Services, AddressLeafEnd(s) PROVE Booked(s)'
<1>. DEFINE p == run[s].port
<1>1. /\ run[s].pc = "leafend" /\ MovesOn(s, "serverend") /\ p \in Ports
      /\ \A q \in Ports : /\ port'[q].link = port[q].link
                          /\ port'[q].ip = IF q = p THEN Own(s) ELSE port[q].ip
      /\ UNCHANGED <<server, links, prefixes, sessions>>
  BY LeafEndEffect DEF LedgerInv
<1>2. Own(s)' = Own(s)
  BY <1>1 DEF Own, MovesOn
<1>. HIDE DEF p
<1>3. Booked(s) /\ Layer[s] = "l3"
  BY <1>1 DEF LedgerInv, PhaseInv, Phase, Routing
<1>4. server[s].link = p
  BY <1>1, OwnIsOfCable DEF Attaching, p
<1>5. Cabled(s)' /\ Paired(s)'
  BY <1>1, <1>3 DEF Booked, Cabled, Paired, OwnLinks, MovesOn
<1>6. Carved(s)'
  BY <1>1, <1>2, <1>3 DEF Booked, Carved, Fragile, OwnPrefixes, MovesOn
<1>7. \A q \in Ports : port[q].link = s => q = p
  BY <1>4 DEF LedgerInv, PhaseInv, DocumentInv, WiringInv, Wiring, Wired
<1>8. Numbered(s)'
  BY <1>1, <1>2, <1>3, <1>7 DEF Booked, Numbered, MovesOn
<1>. QED
  BY <1>3, <1>5, <1>6, <1>8 DEF Booked

LEMMA ServerEndBooks ==
    ASSUME LedgerInv, NEW s \in Services, AddressServerEnd(s) PROVE Booked(s)'
<1>. DEFINE p == run[s].port
<1>1. /\ run[s].pc = "serverend" /\ run'[s].pc = "up" /\ p \in Ports /\ Own(s) # None
      /\ server'[s].ip = Own(s) /\ server'[s].link = server[s].link
      /\ UNCHANGED <<port, links, prefixes, sessions>>
  BY ServerEndEffect DEF LedgerInv, MovesOn
<1>. HIDE DEF p
<1>2. Booked(s) /\ Layer[s] = "l3"
  BY <1>1 DEF LedgerInv, PhaseInv, Phase, Routing
<1>3. /\ server[s].link = p /\ p # None
      /\ Own(s) = [port |-> server[s].link, service |-> s, id |-> 0]
  BY <1>1, OwnIsOfCable, TopologyIsTree DEF Attaching, p
<1>4. Cabled(s)' /\ Paired(s)'
  BY <1>1, <1>2 DEF Booked, Cabled, Paired, OwnLinks
<1>5. Carved(s)'
  <2>1. OwnPrefixes(s) = {Own(s)}
    BY <1>1, <1>2 DEF Booked, Carved, Fragile
  <2>2. OwnPrefixes(s)' = {server'[s].ip} \ {None}
    BY <1>1, <2>1 DEF OwnPrefixes
  <2>. QED
    BY <1>1, <2>2 DEF Carved, Fragile
<1>6. Numbered(s)'
  BY <1>1, <1>2, <1>3 DEF Booked, Numbered
<1>. QED
  BY <1>2, <1>4, <1>5, <1>6 DEF Booked

LEMMA PeerBooks ==
    ASSUME LedgerInv, NEW s \in Services, PeerLeaf(s) \/ PeerServer(s), ~Raise(s)
    PROVE  Booked(s)'
<1>. DEFINE l == LeafOf[run[s].port]
<1>1. \/ /\ run[s].pc = "up" /\ MovesOn(s, "down")
         /\ sessions' = sessions \cup {<<"leaf", l, s>>}
      \/ /\ run[s].pc = "down" /\ MovesOn(s, "record")
         /\ sessions' = sessions \cup {<<"server", l, s>>}
  BY PeerEffect DEF LedgerInv
<1>2. UNCHANGED <<server, port, links, prefixes>>
  BY PeerEffect DEF LedgerInv
<1>3. Booked(s) /\ Layer[s] = "l3"
  BY <1>1 DEF LedgerInv, PhaseInv, Phase, Routing
<1>4. Cabled(s)' /\ Numbered(s)'
  BY <1>1, <1>2, <1>3 DEF Booked, Cabled, Numbered, OwnLinks, MovesOn
<1>5. Carved(s)'
  BY <1>1, <1>2, <1>3 DEF Booked, Carved, Fragile, OwnPrefixes, MovesOn
<1>6. Paired(s)'
  <2>1. run'[s].port = run[s].port /\ "leaf" # "server"
    BY <1>1 DEF MovesOn
  <2>. QED
    BY <1>1, <1>3, <2>1 DEF Booked, Paired, MovesOn
<1>. QED
  BY <1>3, <1>4, <1>5, <1>6 DEF Booked

LEMMA RunStepBooks ==
    ASSUME RefuseSecondCable, LedgerInv, NEW s \in Services, RunStep(s) PROVE Booked(s)'
<1>1. CASE \/ Unlink(s) \/ Unaddress(s) \/ Unpeer(s) \/ AllocatePrefix(s)
           \/ AddressLeafEnd(s) \/ AddressServerEnd(s)
  BY <1>1, UnlinkBooks, UnaddressBooks, UnpeerBooks, PrefixBooks, LeafEndBooks, ServerEndBooks
<1>2. CASE /\ Raise(s) /\ ~Unlink(s) /\ ~Unaddress(s)
           /\ ~AddressLeafEnd(s) /\ ~AddressServerEnd(s)
  <2>1. run[s].pc \notin Fragile
    BY <1>2 DEF RunStep, Start, Resolve, MaterializeServer, Detach, Unpeer, Cable, AllocateAsn,
       ResolveOverlayAsn, AllocatePrefix, PeerLeaf, PeerServer, UpsertSession,
       AttachSegmentRack, RecordPlacement, Stamp, Fragile
  <2>. QED
    BY <1>2, <2>1, RaiseBooks
<1>3. CASE (Detach(s) \/ Cable(s) \/ PeerLeaf(s) \/ PeerServer(s)) /\ ~Raise(s)
  BY <1>3, DetachBooks, CableBooks, PeerBooks
<1>4. CASE Stamp(s)
  BY <1>4, IdleBooks DEF Stamp, Fragile
<1>5. CASE MaterializeServer(s)
  <2>1. run[s].pc = "server" /\ run'[s].pc \in {"cable", "detach"}
    BY <1>5, MaterializeEffect DEF LedgerInv
  <2>. QED
    BY <1>5, <2>1, MaterializeEffect, QuietBooks DEF LedgerInv, Fragile
<1>6. CASE /\ AllocateAsn(s) \/ ResolveOverlayAsn(s) \/ AttachSegmentRack(s) \/ RecordPlacement(s)
           /\ ~Raise(s)
  <2>1. /\ run[s].pc \in {"asn", "overlay", "attach", "record"}
        /\ run'[s].pc \in {"overlay", "prefix", "record", "stamp"}
        /\ server'[s].link = server[s].link /\ server'[s].ip = server[s].ip
        /\ UNCHANGED <<port, links, prefixes, sessions>>
    BY <1>6, AsnEffect, OverlayEffect, AttachEffect, RecordEffect DEF LedgerInv, MovesOn, graph
  <2>. QED
    BY <2>1, QuietBooks DEF Fragile
<1>7. CASE (Start(s) \/ Resolve(s)) /\ ~Raise(s)
  <2>1. Resolve(s) => Placement(s) # None
    BY <1>7 DEF Resolve
  <2>2. /\ run[s].pc \in {"idle", "resolve"} /\ run'[s].pc \in {"resolve", "server"}
        /\ UNCHANGED graph
    BY <1>7, <2>1, StartEffect, ResolveEffect DEF LedgerInv
  <2>. QED
    BY <2>2, QuietBooks DEF Fragile, graph
<1>. QED
  BY <1>1, <1>2, <1>3, <1>4, <1>5, <1>6, <1>7 DEF RunStep

LEMMA AroundBooks ==
    ASSUME ~MayDelete, FailAt \cap Fragile = {}, LedgerInv, NEW s \in Services,
           \/ Die(s) \/ DeleteServer(s) \/ RunAgain(s) \/ FabricReady
           \/ \E x \in Edits : Edit(s, x)
    PROVE  Booked(s)'
<1>1. CASE Die(s)
  BY <1>1, IdleBooks DEF Die, GiveUp
<1>2. CASE RunAgain(s) \/ FabricReady \/ \E x \in Edits : Edit(s, x)
  <2>1. UNCHANGED <<run, server, port, links, prefixes, sessions>>
    BY <1>2 DEF RunAgain, FabricReady, Edit, graph
  <2>. QED
    BY <2>1 DEF LedgerInv, Booked, Cabled, Carved, Numbered, Paired, OwnLinks, OwnPrefixes,
       OwnSessions, Own
<1>. QED
  BY <1>1, <1>2 DEF DeleteServer

LEMMA LedgerAtFirst == Init => LedgerInv
<1>. SUFFICES ASSUME Init, NEW u \in Services PROVE Booked(u)
  BY PhaseAtFirst DEF LedgerInv
<1>1. /\ run[u].pc = "idle" /\ server[u].link = None /\ server[u].ip = None
      /\ OwnLinks(u) = {} /\ OwnPrefixes(u) = {} /\ OwnSessions(u) = {}
      /\ sessions = {}
      /\ \A p \in Ports : port[p].link = None
  BY DEF Init, Idle, NoServer, Clean, OwnLinks, OwnPrefixes, OwnSessions
<1>2. None \notin Services \cup Ports
  BY TopologyIsTree
<1>. QED
  BY <1>1, <1>2 DEF Booked, Cabled, Carved, Numbered, Paired, Fragile

LEMMA LedgerPreserved ==
    ASSUME RefuseSecondCable, ~MayDelete, FailAt \cap Fragile = {}
    PROVE  LedgerInv /\ [Next]_vars => LedgerInv'
<1>. SUFFICES ASSUME LedgerInv, [Next]_vars PROVE LedgerInv'
  OBVIOUS
<1>1. PhaseInv'
  BY PhasePreserved DEF LedgerInv
<1>2. ASSUME NEW u \in Services, SameEstate(u) PROVE Booked(u)'
  BY <1>2, SameEstateSameBooks DEF LedgerInv
<1>3. ASSUME UNCHANGED vars, NEW u \in Services PROVE Booked(u)'
  BY <1>3 DEF LedgerInv, Booked, Cabled, Carved, Numbered, Paired, OwnLinks, OwnPrefixes,
     OwnSessions, Own, vars
<1>4. ASSUME NEW s \in Services,
             \/ RunStep(s)
             \/ Die(s) \/ DeleteServer(s) \/ RunAgain(s) \/ FabricReady
             \/ \E x \in Edits : Edit(s, x)
      PROVE  Booked(s)'
  BY <1>4, RunStepBooks, AroundBooks
<1>5. \A u \in Services : Booked(u)'
  BY <1>2, <1>3, <1>4, StepIsSomebodys DEF LedgerInv, PhaseInv
<1>. QED
  BY <1>1, <1>5 DEF LedgerInv

LEMMA LedgerAlways ==
    ASSUME RefuseSecondCable, ~MayDelete, FailAt \cap Fragile = {}
    PROVE  Spec => []LedgerInv
BY LedgerAtFirst, LedgerPreserved, PTL DEF Spec

-----------------------------------------------------------------------------
(* How far a run has come                                                   *)

\* What a run has seen to by the time it is at its present place.
Stage(u) ==
    LET r == run[u] IN
    /\ r.pc \notin {"idle", "resolve", "server"} => server[u].rack = RackOfPort(r.port)
    /\ Layer[u] = "l3" => 
         /\ r.pc \in {"overlay", "prefix", "leafend", "serverend", "up", "down", "record", "stamp"}
              => server[u].asn # 0
         /\ r.pc \in {"up", "down", "record", "stamp"} => server[u].ip # None
         /\ r.pc \in {"record", "stamp"} => <<"server", LeafOf[r.port], u>> \in sessions
    /\ Layer[u] # "l3" => (r.pc \in {"record", "stamp"} => RackOfPort(r.port) \in segmentRacks)

\* What the books do not say of a service that is done.
Complete(u, p) ==
    /\ p \in Ports /\ server[u].link = p /\ server[u].rack = RackOfPort(p)
    /\ u \in recorded /\ asked[u] = [rack |-> RackOfPort(p), port |-> p]
    /\ Layer[u] = "l3" => /\ server[u].asn # 0 /\ server[u].ip # None
                          /\ <<"server", LeafOf[p], u>> \in sessions
    /\ Layer[u] # "l3" => RackOfPort(p) \in segmentRacks

Progress(u) ==
    /\ Stage(u)
    /\ run[u].pc = "stamp" /\ u \notin stale => Complete(u, run[u].port)
    /\ Settled(u) => Complete(u, server[u].link)

ProgressInv == LedgerInv /\ \A u \in Services : Progress(u)

LEMMA SameEstateSameProgress ==
    ASSUME NEW u \in Services, SameEstate(u), Progress(u) PROVE Progress(u)'
<1>1. /\ server'[u] = server[u] /\ run'[u] = run[u] /\ (u \in recorded' <=> u \in recorded)
      /\ OwnSessions(u)' = OwnSessions(u) /\ segmentRacks \subseteq segmentRacks'
      /\ asked'[u] = asked[u] /\ pending'[u] = pending[u]
      /\ (u \in broken' <=> u \in broken) /\ (u \in stale' <=> u \in stale)
  BY DEF SameEstate, SameMember
<1>2. \A l : <<"server", l, u>> \in sessions' <=> <<"server", l, u>> \in sessions
  BY <1>1, OwnSessionsOwn
<1>3. \A p : Complete(u, p) => Complete(u, p)'
  BY <1>1, <1>2 DEF Complete
<1>4. Settled(u)' => Settled(u)
  BY <1>1 DEF Settled
<1>5. Stage(u)'
  BY <1>1, <1>2 DEF Progress, Stage
<1>. QED
  BY <1>1, <1>3, <1>4, <1>5 DEF Progress

LEMMA RaiseProgress ==
    ASSUME ProgressInv, NEW s \in Services, run' = [run EXCEPT ![s] = Idle], s \in broken'
    PROVE  Progress(s)'
<1>1. run'[s].pc = "idle"
  BY RunTyped DEF Idle, ProgressInv, LedgerInv
<1>. QED
  BY <1>1 DEF Progress, Stage, Settled

LEMMA PlacingProgress ==
    ASSUME ProgressInv, NEW s \in Services, ~Raise(s),
           \/ Start(s) \/ Resolve(s) \/ MaterializeServer(s)
           \/ Detach(s) \/ Unlink(s) \/ Unaddress(s) \/ Unpeer(s)
    PROVE  Progress(s)'
<1>. USE DEF ProgressInv, LedgerInv
<1>1. CASE Start(s) \/ Resolve(s)
  <2>1. Resolve(s) => Placement(s) # None
    BY <1>1 DEF Resolve
  <2>2. run'[s].pc \in {"resolve", "server"}
    BY <1>1, <2>1, StartEffect, ResolveEffect
  <2>. QED
    BY <2>2 DEF Progress, Stage, Settled
<1>2. CASE MaterializeServer(s)
  <2>1. run'[s].pc \in {"cable", "detach"} /\ server'[s].rack = RackOfPort(run'[s].port)
    BY <1>2, MaterializeEffect
  <2>. QED
    BY <2>1 DEF Progress, Stage, Settled
<1>3. CASE Detach(s)
  <2>1. PICK q \in Ports : run[s].drop = <<q>>
    BY <1>3 DEF PhaseInv, DocumentInv, WiringInv, Wiring, Held, Detach
  <2>2. /\ run[s].pc = "detach" /\ run'[s].pc = "unlink" /\ run'[s].port = run[s].port
        /\ server' = server
    BY <1>3, <2>1, DetachEffect
  <2>. QED
    BY <2>2 DEF Progress, Stage, Settled
<1>4. CASE Unlink(s) \/ Unaddress(s) \/ Unpeer(s)
  <2>1. /\ run[s].pc \in {"unlink", "unaddress", "unpeer"}
        /\ run'[s].pc \in {"unaddress", "unpeer", "cable"} /\ run'[s].port = run[s].port
        /\ server'[s].rack = server[s].rack
    BY <1>4, UnlinkEffect, UnaddressEffect, UnpeerEffect DEF MovesOn
  <2>. QED
    BY <2>1 DEF Progress, Stage, Settled
<1>. QED
  BY <1>1, <1>2, <1>3, <1>4

LEMMA RoutingProgress ==
    ASSUME RefuseSecondCable, ProgressInv, NEW s \in Services, ~Raise(s),
           \/ Cable(s) \/ AllocateAsn(s) \/ ResolveOverlayAsn(s) \/ AllocatePrefix(s)
           \/ AddressLeafEnd(s) \/ AddressServerEnd(s) \/ PeerLeaf(s) \/ PeerServer(s) \/ AttachSegmentRack(s)
    PROVE  Progress(s)'
<1>. USE DEF ProgressInv, LedgerInv
<1>1. CASE Cable(s)
  <2>1. /\ run[s].pc = "cable" /\ run'[s].pc \in {"asn", "attach"} /\ run'[s].port = run[s].port
        /\ server'[s].rack = server[s].rack
    BY <1>1, CableEffect DEF MovesOn
  <2>. QED
    BY <2>1 DEF Progress, Stage, Settled
<1>2. CASE AllocateAsn(s)
  BY <1>2, AsnEffect DEF Progress, Stage, Settled, MovesOn
<1>3. CASE ResolveOverlayAsn(s)
  BY <1>3, OverlayEffect DEF Progress, Stage, Settled, MovesOn, graph
<1>4. CASE AllocatePrefix(s)
  BY <1>4, PrefixEffect DEF Progress, Stage, Settled, MovesOn
<1>5. CASE AddressLeafEnd(s) \/ AddressServerEnd(s)
  BY <1>5, LeafEndEffect, ServerEndEffect DEF Progress, Stage, Settled, MovesOn
<1>6. CASE PeerLeaf(s)
  BY <1>6, PeerEffect DEF Progress, Stage, Settled, MovesOn
<1>7. CASE PeerServer(s)
  <2>1. Layer[s] = "l3"
    BY <1>7, PeerEffect DEF PhaseInv, Phase, Routing
  <2>. QED
    BY <1>7, <2>1, PeerEffect DEF Progress, Stage, Settled, MovesOn
<1>8. CASE AttachSegmentRack(s)
  <2>1. Layer[s] # "l3"
    BY <1>8, AttachEffect DEF PhaseInv, Phase
  <2>. QED
    BY <1>8, <2>1, AttachEffect DEF Progress, Stage, Settled, MovesOn
<1>. QED
  BY <1>1, <1>2, <1>3, <1>4, <1>5, <1>6, <1>7, <1>8

LEMMA FinishingProgress ==
    ASSUME ProgressInv, NEW s \in Services, ~Raise(s), RecordPlacement(s) \/ Stamp(s)
    PROVE  Progress(s)'
<1>. USE DEF ProgressInv, LedgerInv
<1>. PICK p : p = run[s].port
  OBVIOUS
<1>1. CASE RecordPlacement(s)
  <2>1. /\ run[s].pc = "record" /\ run'[s].pc = "stamp" /\ run'[s].port = p
        /\ asked'[s] = [rack |-> RackOfPort(p), port |-> p]
        /\ s \in recorded' /\ UNCHANGED <<server, sessions, segmentRacks>>
    BY <1>1, RecordEffect DEF MovesOn, graph
  <2>2. p \in Ports
    BY <2>1 DEF PhaseInv, DocumentInv, WiringInv, Shape, RunsOK, HasPort
  <2>3. server[s].link = p
    BY <2>1, OwnIsOfCable DEF Attaching
  <2>4. Stage(s)' /\ Complete(s, p)'
    BY <2>1, <2>2, <2>3 DEF Progress, Stage, Complete
  <2>. QED
    BY <2>1, <2>4 DEF Progress, Settled
<1>2. CASE Stamp(s)
  <2>1. /\ run[s].pc = "stamp" /\ run' = [run EXCEPT ![s] = Idle]
        /\ UNCHANGED <<server, sessions, segmentRacks, asked, recorded, stale>>
    BY <1>2 DEF Stamp, graph, around
  <2>2. run'[s].pc = "idle"
    BY <2>1, RunTyped DEF Idle
  <2>3. server[s].link = p
    BY <2>1, OwnIsOfCable DEF Attaching
  <2>4. s \notin stale => Complete(s, p)'
    BY <2>1 DEF Progress, Complete
  <2>. QED
    BY <2>1, <2>2, <2>3, <2>4 DEF Progress, Stage, Settled
<1>. QED
  BY <1>1, <1>2

LEMMA RunStepProgress ==
    ASSUME RefuseSecondCable, ProgressInv, NEW s \in Services, RunStep(s) PROVE Progress(s)'
<1>1. CASE Raise(s)
  BY <1>1, RaiseProgress DEF Raise, GiveUp
<1>. QED
  BY <1>1, PlacingProgress, RoutingProgress, FinishingProgress DEF RunStep

LEMMA AroundProgress ==
    ASSUME ~MayDelete, ProgressInv, NEW s \in Services,
           \/ Die(s) \/ DeleteServer(s) \/ RunAgain(s) \/ FabricReady
           \/ \E x \in Edits : Edit(s, x)
    PROVE  Progress(s)'
<1>1. CASE Die(s)
  BY <1>1, RaiseProgress DEF Die, GiveUp
<1>2. CASE RunAgain(s)
  <2>1. /\ UNCHANGED <<run, server, sessions, segmentRacks, asked, recorded, broken, stale>>
        /\ s \in broken \cup stale
    BY <1>2 DEF RunAgain, graph, service, around
  <2>. QED
    BY <2>1 DEF ProgressInv, Progress, Stage, Settled, Complete
<1>3. CASE FabricReady
  <2>1. UNCHANGED <<run, server, sessions, segmentRacks, asked, recorded, broken, stale, pending>>
    BY <1>3 DEF FabricReady, graph, service, around
  <2>. QED
    BY <2>1 DEF ProgressInv, Progress, Stage, Settled, Complete
<1>4. CASE \E x \in Edits : Edit(s, x)
  <2>1. UNCHANGED <<run, server, sessions, segmentRacks>> /\ s \in stale'
    BY <1>4 DEF Edit, graph
  <2>. QED
    BY <2>1 DEF ProgressInv, Progress, Stage, Settled
<1>. QED
  BY <1>1, <1>2, <1>3, <1>4 DEF DeleteServer

LEMMA ProgressAtFirst == Init => ProgressInv
<1>. SUFFICES ASSUME Init, NEW u \in Services PROVE Progress(u)
  BY LedgerAtFirst DEF ProgressInv
<1>1. run[u].pc = "idle" /\ pending[u] = 1
  BY DEF Init, Idle
<1>. QED
  BY <1>1 DEF Progress, Stage, Settled

LEMMA ProgressPreserved ==
    ASSUME RefuseSecondCable, ~MayDelete, FailAt \cap Fragile = {}
    PROVE  ProgressInv /\ [Next]_vars => ProgressInv'
<1>. SUFFICES ASSUME ProgressInv, [Next]_vars PROVE ProgressInv'
  OBVIOUS
<1>1. LedgerInv'
  BY LedgerPreserved DEF ProgressInv
<1>2. ASSUME NEW u \in Services, SameEstate(u) PROVE Progress(u)'
  BY <1>2, SameEstateSameProgress DEF ProgressInv
<1>3. ASSUME UNCHANGED vars, NEW u \in Services PROVE Progress(u)'
  BY <1>3 DEF ProgressInv, Progress, Stage, Settled, Complete, vars
<1>4. ASSUME NEW s \in Services,
             \/ RunStep(s)
             \/ Die(s) \/ DeleteServer(s) \/ RunAgain(s) \/ FabricReady
             \/ \E x \in Edits : Edit(s, x)
      PROVE  Progress(s)'
  BY <1>4, RunStepProgress, AroundProgress
<1>5. \A u \in Services : Progress(u)'
  BY <1>2, <1>3, <1>4, StepIsSomebodys DEF ProgressInv, LedgerInv, PhaseInv
<1>. QED
  BY <1>1, <1>5 DEF ProgressInv

LEMMA ProgressAlways ==
    ASSUME RefuseSecondCable, ~MayDelete, FailAt \cap Fragile = {}
    PROVE  Spec => []ProgressInv
BY ProgressAtFirst, ProgressPreserved, PTL DEF Spec

\* All of Materialized but that no session is left over from another leaf.
Equipped(u, p) ==
    /\ Attached(u, p) /\ OwnLinks(u) = {<<p, u>>}
    /\ server[u].rack = RackOfPort(p)
    /\ asked[u] = [rack |-> RackOfPort(p), port |-> p]
    /\ u \in recorded
    /\ IF Layer[u] = "l3"
         THEN /\ server[u].ip \in prefixes /\ server[u].ip.port = p
              /\ port[p].ip = server[u].ip /\ server[u].asn # 0
              /\ OwnPrefixes(u) = {server[u].ip}
              /\ Ends(u, p) \subseteq sessions
         ELSE /\ RackOfPort(p) \in segmentRacks
              /\ port[p].ip = None
              /\ OwnPrefixes(u) = {} /\ OwnSessions(u) = {}

LEMMA CompleteIsEquipped ==
    ASSUME ProgressInv, NEW u \in Services, Settled(u), NEW p, p = server[u].link
    PROVE  p \in Ports /\ Equipped(u, p)
<1>1. Booked(u) /\ Complete(u, p) /\ run[u].pc = "idle"
  BY DEF ProgressInv, Progress, LedgerInv, Settled
<1>2. p \in Ports /\ p # None
  BY <1>1, TopologyIsTree DEF Complete
<1>3. Attached(u, p) /\ OwnLinks(u) = {<<p, u>>} /\ port[p].ip = server[u].ip
  BY <1>1, <1>2 DEF Booked, Cabled, Numbered, Attached
<1>4. OwnPrefixes(u) = {server[u].ip} \ {None}
  BY <1>1 DEF Booked, Carved, Fragile
<1>5. CASE Layer[u] = "l3"
  <2>1. server[u].ip # None /\ server[u].asn # 0 /\ <<"server", LeafOf[p], u>> \in sessions
    BY <1>1, <1>5 DEF Complete
  <2>2. server[u].ip.port = p
    BY <1>1, <2>1 DEF Booked, Numbered
  <2>3. <<"leaf", LeafOf[p], u>> \in sessions
    BY <1>1, <1>2, <2>1, RackOfPortIsRack DEF Booked, Paired
  <2>4. OwnPrefixes(u) = {server[u].ip} /\ server[u].ip \in prefixes
    BY <1>4, <2>1 DEF OwnPrefixes
  <2>5. Ends(u, p) \subseteq sessions
    BY <2>1, <2>3 DEF Ends
  <2>. QED
    BY <1>1, <1>2, <1>3, <1>5, <2>1, <2>2, <2>4, <2>5 DEF Equipped, Complete
<1>6. CASE Layer[u] # "l3"
  BY <1>1, <1>2, <1>3, <1>4, <1>6 DEF Equipped, Complete, Booked
<1>. QED
  BY <1>5, <1>6

-----------------------------------------------------------------------------
(* No session is left over                                                  *)

\* A move within a leaf keeps its sessions: delete_ebgp_pair goes by the leaf, not
\* by the port.  If such a run fails on the way the server is on no port while its
\* sessions stay, and it is the repeat that makes good: it goes for the same port.

\* Where a death would leave a session that nobody takes back, too.
Releases == Fragile \cup {"unpeer"}

Between == {"unlink", "unaddress", "unpeer", "cable"}

\* The run that is to plug u in again, under way or to be repeated, goes for the
\* port u asks for, and that port is of leaf l.
Bound(u, l) ==
    /\ asked[u].port \in Ports /\ LeafOf[asked[u].port] = l
    /\ u \in broken \/ run[u].pc \in Between
    /\ run[u].pc \in {"server"} \cup Between => run[u].port = asked[u].port

\* The sessions of a service are with the leaf it is cabled to, with one the run is
\* about to take them from, or with the one it is going to be cabled to again.
Tidy(u) ==
    \A q \in OwnSessions(u) :
      \/ run[u].pc # "unlink" /\ server[u].link # None /\ q[2] = LeafOf[server[u].link]
      \/ run[u].pc \in {"unlink", "unaddress", "unpeer"} /\ q[2] \in run[u].left
      \/ (run[u].pc = "unlink" \/ server[u].link = None) /\ Bound(u, q[2])

\* A run answers what its service asks; only a port asked for by name keeps a
\* server on its leaf.
Meant(u) ==
    LET r == run[u] IN
    /\ r.pc = "resolve" => r.ask = asked[u]
    /\ /\ r.pc \in {"server", "detach"} /\ asked[u].port # r.port
       => IF server[u].link = None THEN asked[u].port = None
          ELSE server[u].link # r.port => LeafOf[server[u].link] # LeafOf[r.port]

TidyInv == ProgressInv /\ \A u \in Services : Tidy(u) /\ Meant(u)

LEMMA SameEstateSameTidy ==
    ASSUME NEW u \in Services, SameEstate(u), Tidy(u), Meant(u) PROVE Tidy(u)' /\ Meant(u)'
<1>1. /\ server'[u] = server[u] /\ run'[u] = run[u] /\ asked'[u] = asked[u]
      /\ OwnSessions(u)' = OwnSessions(u) /\ (u \in broken' <=> u \in broken)
  BY DEF SameEstate, SameMember
<1>2. Tidy(u)'
  BY <1>1 DEF Tidy, Bound
<1>3. Meant(u)'
  BY <1>1 DEF Meant
<1>. QED
  BY <1>2, <1>3

LEMMA NoneAsPort == None \notin Ports \cup Racks
BY TopologyIsTree

\* The port a repeat, or a move within a leaf, goes for is the one asked for.
LEMMA ResolveMeant ==
    ASSUME TidyInv, NEW s \in Services, run[s].pc = "resolve", Placement(s) # None,
           asked[s].port # Placement(s)
    PROVE  IF server[s].link = None THEN asked[s].port = None
           ELSE server[s].link # Placement(s) => LeafOf[server[s].link] # LeafOf[Placement(s)]
<1>. DEFINE ask == asked[s]
            h   == server[s].link
            p   == Placement(s)
<1>1. run[s].ask = ask
  BY DEF TidyInv, Meant
<1>2. Existing(s) = h
  <2>1. h # None => h \in Ports /\ Attached(s, h) /\ Exists(s)
    BY Typed DEF TidyInv, ProgressInv, LedgerInv, Booked, Cabled, Attached, PhaseInv, DocumentInv,
       WiringInv, Wiring, Wired, Shape, ServerRecord
  <2>. QED
    BY <2>1 DEF Existing, PlacedServer
<1>3. CASE h = None
  <2>1. p = IF ask = Nothing THEN SelectPort(SelectRack) ELSE Explicit(s, ask.rack, ask.port)
    BY <1>1, <1>2, <1>3 DEF Placement
  <2>2. ask = Nothing => ask.port = None
    BY DEF Nothing
  <2>3. ask.port # None => Explicit(s, ask.rack, ask.port) \in {ask.port, None}
    BY DEF Explicit
  <2>. QED
    BY <1>3, <2>1, <2>2, <2>3
<1>4. CASE h # None
  <2>. SUFFICES ASSUME h # p PROVE LeafOf[h] # LeafOf[p]
    BY <1>4
  <2>. DEFINE m == Moved(ask, h)
  <2>1. ~Matches(ask, h) /\ p = Explicit(s, m.rack, m.port)
    BY <1>1, <1>2, <1>4 DEF Placement
  <2>2. /\ m.rack = IF ask.rack = RackOfPort(h) THEN None ELSE ask.rack
        /\ m.port = IF ask.port = h THEN None ELSE ask.port
    BY DEF Moved
  <2>. HIDE DEF m
  <2>3. m.port = None
    BY <2>1, <2>2 DEF Explicit
  <2>4. m.rack = ask.rack /\ ask.rack \notin {None, RackOfPort(h)}
    BY <1>4, <2>1, <2>2, <2>3 DEF Matches
  <2>5. p = SelectPort(ask.rack)
    BY <2>1, <2>3, <2>4 DEF Explicit
  <2>6. p \in Ports /\ RackOfPort(p) = ask.rack
    <3>1. FreePorts(ask.rack) # {} /\ p = Lowest(FreePorts(ask.rack))
      BY <2>5 DEF SelectPort
    <3>2. p \in FreePorts(ask.rack)
      BY <3>1, LowestIsMember DEF FreePorts
    <3>. QED
      BY <3>2 DEF FreePorts
  <2>. QED
    BY <2>4, <2>6 DEF RackOfPort
<1>. QED
  BY <1>3, <1>4

\* A step that changes neither cable nor sessions nor what is asked for.
LEMMA QuietTidy ==
    ASSUME TidyInv, NEW s \in Services,
           run[s].pc \notin Between, run'[s].pc \notin Between,
           run'[s].pc = "server" /\ server[s].link = None /\ asked[s].port # None
             => run'[s].port = asked[s].port,
           server'[s].link = server[s].link, UNCHANGED sessions, asked'[s] = asked[s],
           server[s].link = None /\ s \in broken => s \in broken'
    PROVE  Tidy(s)'
<1>1. OwnSessions(s)' = OwnSessions(s)
  BY DEF OwnSessions
<1>2. ASSUME NEW l, server[s].link = None, Bound(s, l) PROVE Bound(s, l)'
  BY <1>2, NoneAsPort DEF Bound
<1>3. Tidy(s)
  BY DEF TidyInv
<1>. QED
  BY <1>1, <1>2, <1>3 DEF Tidy, Between

\* A run that has its port cabled.
LEMMA CabledTidy ==
    ASSUME TidyInv, NEW s \in Services, server[s].link # None,
           run[s].pc \notin Between, run'[s].pc \notin Between,
           server'[s].link = server[s].link, UNCHANGED sessions
    PROVE  Tidy(s)'
BY DEF TidyInv, Tidy, Between, OwnSessions

LEMMA ReleaseTidy ==
    ASSUME TidyInv, NEW s \in Services, ~Raise(s),
           Detach(s) \/ Unlink(s) \/ Unaddress(s) \/ Unpeer(s)
    PROVE  Tidy(s)'
<1>. USE DEF TidyInv, ProgressInv, LedgerInv
<1>0. UNCHANGED <<asked, broken>>
  BY DEF Detach, Unlink, Unaddress, Unpeer, service
<1>1. CASE Detach(s)
  <2>1. PICK q \in Ports : run[s].drop = <<q>>
    BY <1>1 DEF PhaseInv, DocumentInv, WiringInv, Wiring, Held, Detach
  <2>2. /\ run[s].pc = "detach" /\ q # run[s].port /\ server[s].link = q
        /\ run'[s].pc = "unlink" /\ sessions' = sessions /\ run'[s].port = run[s].port
        /\ LeafOf[q] # LeafOf[run[s].port] => LeafOf[q] \in run'[s].left
    BY <1>1, <2>1, DetachEffect
  <2>3. run[s].port \in Ports
    BY <2>2 DEF PhaseInv, DocumentInv, WiringInv, Shape, RunsOK, HasPort
  <2>4. q # None
    BY NoneAsPort
  <2>5. LeafOf[q] = LeafOf[run[s].port] => asked[s].port = run[s].port
    BY <2>2, <2>4 DEF Meant
  <2>6. \A e \in OwnSessions(s) : e[2] = LeafOf[q]
    BY <2>2, <2>4 DEF Tidy
  <2>7. LeafOf[q] = LeafOf[run[s].port] => Bound(s, LeafOf[q])'
    BY <1>0, <2>2, <2>3, <2>5 DEF Bound, Between
  <2>. QED
    BY <2>2, <2>6, <2>7 DEF Tidy, OwnSessions
<1>2. CASE Unlink(s) \/ Unaddress(s)
  <2>1. /\ run[s].pc \in {"unlink", "unaddress"} /\ run'[s].pc \in {"unaddress", "unpeer"}
        /\ run'[s].left = run[s].left /\ sessions' = sessions /\ run'[s].port = run[s].port
        /\ server'[s].link = None
    BY <1>2, UnlinkEffect, UnaddressEffect DEF MovesOn, PhaseInv, Phase
  <2>2. run[s].pc = "unaddress" => server[s].link = None
    BY DEF PhaseInv, Phase
  <2>3. \A l : Bound(s, l) => Bound(s, l)'
    BY <1>0, <2>1 DEF Bound, Between
  <2>. QED
    BY <2>1, <2>2, <2>3 DEF Tidy, OwnSessions
<1>3. CASE Unpeer(s)
  <2>1. /\ run[s].pc = "unpeer" /\ run'[s].pc = "cable" /\ run'[s].port = run[s].port
        /\ sessions' = {q \in sessions : ~(q[2] \in run[s].left /\ q[3] = s)}
        /\ server' = server /\ server[s].link = None
    BY <1>3, UnpeerEffect DEF MovesOn, PhaseInv, Phase
  <2>2. \A l : Bound(s, l) => Bound(s, l)'
    BY <1>0, <2>1 DEF Bound, Between
  <2>3. \A q \in OwnSessions(s)' : q \in OwnSessions(s) /\ q[2] \notin run[s].left
    BY <2>1 DEF OwnSessions
  <2>. QED
    BY <2>1, <2>2, <2>3 DEF Tidy
<1>. QED
  BY <1>1, <1>2, <1>3

LEMMA CableTidy ==
    ASSUME RefuseSecondCable, TidyInv, NEW s \in Services, Cable(s) PROVE Tidy(s)'
<1>. USE DEF TidyInv, ProgressInv, LedgerInv
<1>1. CASE Raise(s)
  <2>1. /\ run[s].pc = "cable" /\ run'[s].pc = "idle" /\ s \in broken'
        /\ UNCHANGED <<server, sessions, asked>>
    BY <1>1, RunTyped DEF Cable, Raise, GiveUp, Idle, graph, service
  <2>. QED
    BY <2>1 DEF Tidy, Bound, Between, OwnSessions
<1>2. CASE ~Raise(s)
  <2>1. PICK p : p = run[s].port
    OBVIOUS
  <2>2. /\ run[s].pc = "cable" /\ run'[s].pc \in {"asn", "attach"}
        /\ p \in Ports /\ server[s].link \in {None, p} /\ server'[s].link = p
        /\ sessions' = sessions
    BY <1>2, <2>1, CableEffect DEF MovesOn
  <2>3. p # None
    BY <2>2, NoneAsPort
  <2>4. \A q \in OwnSessions(s) : q[2] = LeafOf[p]
    BY <2>1, <2>2, <2>3 DEF Tidy, Bound, Between
  <2>. QED
    BY <2>2, <2>3, <2>4 DEF Tidy, OwnSessions
<1>. QED
  BY <1>1, <1>2

LEMMA PeerTidy ==
    ASSUME TidyInv, NEW s \in Services, ~Raise(s), PeerLeaf(s) \/ PeerServer(s) PROVE Tidy(s)'
<1>. USE DEF TidyInv, ProgressInv, LedgerInv
<1>1. PICK p, end : p = run[s].port /\ sessions' = sessions \cup {<<end, LeafOf[p], s>>}
  BY PeerEffect
<1>2. /\ run[s].pc \in {"up", "down"} /\ run'[s].pc \in {"down", "record"}
      /\ server' = server
  BY PeerEffect DEF MovesOn
<1>3. server[s].link = p
  BY <1>1, <1>2, OwnIsOfCable DEF Attaching
<1>4. p \in Ports /\ p # None
  BY <1>1, <1>2, TopologyIsTree DEF PhaseInv, DocumentInv, WiringInv, Shape, RunsOK, HasPort
<1>5. \A q \in OwnSessions(s)' : q[2] = LeafOf[p]
  <2>1. \A q \in OwnSessions(s) : q[2] = LeafOf[p]
    BY <1>2, <1>3, <1>4 DEF Tidy
  <2>2. <<end, LeafOf[p], s>>[2] = LeafOf[p]
    OBVIOUS
  <2>. QED
    BY <1>1, <2>1, <2>2 DEF OwnSessions
<1>. QED
  BY <1>2, <1>3, <1>4, <1>5 DEF Tidy

\* A run that has cabled its port is not cut off by the way it goes on, or fails.
LEMMA AttachingTidy ==
    ASSUME TidyInv, NEW s \in Services, run[s].pc \in Attaching,
           RunStep(s) \/ Die(s), ~PeerLeaf(s) \/ Raise(s), ~PeerServer(s) \/ Raise(s)
    PROVE  Tidy(s)'
<1>. USE DEF TidyInv, ProgressInv, LedgerInv
<1>1. server[s].link # None
  BY OwnIsOfCable, NoneAsPort DEF PhaseInv, DocumentInv, WiringInv, Shape, RunsOK, HasPort, Attaching
<1>2. run[s].pc \notin Between
  BY DEF Between, Attaching
<1>3. CASE Raise(s) \/ Die(s) \/ Stamp(s)
  <2>1. run'[s].pc = "idle" /\ UNCHANGED <<server, sessions>>
    BY <1>3, RunTyped DEF Raise, Die, GiveUp, Stamp, Idle, graph
  <2>. QED
    BY <1>1, <1>2, <2>1, CabledTidy DEF Between
<1>4. CASE /\ ~Raise(s)
           /\ \/ AllocateAsn(s) \/ ResolveOverlayAsn(s) \/ AllocatePrefix(s) \/ AddressLeafEnd(s) \/ AddressServerEnd(s)
              \/ AttachSegmentRack(s) \/ RecordPlacement(s)
  <2>1. /\ run'[s].pc \in {"overlay", "prefix", "leafend", "serverend", "up", "record", "stamp"}
        /\ server'[s].link = server[s].link /\ sessions' = sessions
    BY <1>4, AsnEffect, OverlayEffect, PrefixEffect, LeafEndEffect, ServerEndEffect, AttachEffect,
       RecordEffect DEF MovesOn, graph
  <2>. QED
    BY <1>1, <1>2, <2>1, CabledTidy DEF Between
<1>5. CASE RunStep(s) /\ ~Raise(s) /\ ~Stamp(s)
  <2>1. /\ ~Start(s) /\ ~Resolve(s) /\ ~MaterializeServer(s) /\ ~Detach(s) /\ ~Unlink(s)
        /\ ~Unaddress(s) /\ ~Unpeer(s) /\ ~Cable(s)
    BY DEF Start, Resolve, MaterializeServer, Detach, Unlink, Unaddress, Unpeer, Cable, Attaching
  <2>. QED
    BY <1>4, <1>5, <2>1 DEF RunStep
<1>. QED
  BY <1>3, <1>5

\* A run on its way to the release, which it may not need.
LEMMA PlacingTidy ==
    ASSUME TidyInv, NEW s \in Services,
           \/ Start(s) \/ Resolve(s) \/ MaterializeServer(s)
           \/ Detach(s) /\ Raise(s)
    PROVE  Tidy(s)'
<1>. USE DEF TidyInv, ProgressInv, LedgerInv
<1>1. CASE Start(s)
  <2>1. /\ run[s].pc = "idle" /\ run'[s].pc = "resolve"
        /\ UNCHANGED <<server, sessions, asked, broken>>
    BY <1>1, StartEffect DEF Start, graph, service
  <2>. QED
    BY <2>1, QuietTidy DEF Between
<1>2. CASE (Resolve(s) \/ Detach(s)) /\ Raise(s)
  <2>1. /\ run[s].pc \in {"resolve", "detach"} /\ run'[s].pc = "idle" /\ s \in broken'
        /\ UNCHANGED <<server, sessions, asked>>
    BY <1>2, RunTyped DEF Resolve, Detach, Raise, GiveUp, Idle, graph, service
  <2>. QED
    BY <2>1, QuietTidy DEF Between
<1>3. CASE Resolve(s) /\ ~Raise(s)
  <2>1. /\ run[s].pc = "resolve" /\ Placement(s) # None
        /\ UNCHANGED <<server, sessions, asked, broken>>
    BY <1>3 DEF Resolve, graph, service
  <2>2. run'[s].pc = "server" /\ run'[s].port = Placement(s)
    <3>. DEFINE d == Released(s, Placement(s))
    <3>1. run' = [run EXCEPT ![s].pc = "server", ![s].port = Placement(s), ![s].drop = d]
      BY <1>3, <2>1 DEF Resolve
    <3>. HIDE DEF d
    <3>. QED
      BY <3>1, RunTyped DEF RunRecord
  <2>3. server[s].link = None /\ asked[s].port # None => run'[s].port = asked[s].port
    BY <2>1, <2>2, ResolveMeant
  <2>. QED
    BY <2>1, <2>2, <2>3, QuietTidy DEF Between
<1>4. CASE MaterializeServer(s)
  <2>1. /\ run[s].pc = "server" /\ run'[s].pc \in {"cable", "detach"}
        /\ run'[s].port = run[s].port /\ server'[s].link = server[s].link
        /\ UNCHANGED <<sessions, asked, broken>>
    BY <1>4, MaterializeEffect DEF MaterializeServer, service
  <2>. QED
    BY <2>1 DEF Tidy, Bound, Between, OwnSessions
<1>. QED
  BY <1>1, <1>2, <1>3, <1>4

LEMMA RunStepTidy ==
    ASSUME RefuseSecondCable, TidyInv, NEW s \in Services, RunStep(s)
    PROVE  Tidy(s)'
<1>. USE DEF TidyInv, ProgressInv, LedgerInv
<1>1. CASE Start(s) \/ Resolve(s) \/ MaterializeServer(s) \/ (Detach(s) /\ Raise(s)) \/ Cable(s)
  BY <1>1, PlacingTidy, CableTidy
<1>2. CASE (Detach(s) /\ ~Raise(s)) \/ Unlink(s) \/ Unaddress(s) \/ Unpeer(s)
  <2>1. Unlink(s) => ~Raise(s)
    BY UnlinkDoesNotRaise
  <2>2. Unaddress(s) \/ Unpeer(s) => run'[s].pc # "idle"
    BY UnaddressEffect, UnpeerEffect DEF MovesOn
  <2>3. Raise(s) => run'[s].pc = "idle"
    BY RunTyped DEF Raise, GiveUp, Idle
  <2>. QED
    BY <1>2, <2>1, <2>2, <2>3, ReleaseTidy
<1>3. CASE run[s].pc \in Attaching
  BY <1>3, PeerTidy, AttachingTidy
<1>4. \/ Start(s) \/ Resolve(s) \/ MaterializeServer(s) \/ Detach(s) \/ Unlink(s)
      \/ Unaddress(s) \/ Unpeer(s) \/ Cable(s) \/ run[s].pc \in Attaching
  BY DEF RunStep, AllocateAsn, ResolveOverlayAsn, AllocatePrefix, AddressLeafEnd, AddressServerEnd, PeerLeaf,
     PeerServer, UpsertSession, AttachSegmentRack, RecordPlacement, Stamp, Attaching
<1>. QED
  BY <1>1, <1>2, <1>3, <1>4

LEMMA RunStepMeant ==
    ASSUME TidyInv, NEW s \in Services, RunStep(s) PROVE Meant(s)'
<1>. USE DEF TidyInv, ProgressInv, LedgerInv
<1>1. CASE Start(s)
  <2>. DEFINE r == [Idle EXCEPT !.pc = "resolve", !.ask = asked[s]]
  <2>1. r.pc = "resolve" /\ r.ask = asked[s]
    BY DEF Idle
  <2>2. run' = [run EXCEPT ![s] = r] /\ asked' = asked
    BY <1>1 DEF Start, service
  <2>. HIDE DEF r
  <2>3. run'[s] = r
    BY <2>2, RunTyped
  <2>. QED
    BY <2>1, <2>2, <2>3 DEF Meant
<1>2. CASE Resolve(s) /\ ~Raise(s)
  <2>. DEFINE d == Released(s, Placement(s))
  <2>1. /\ run[s].pc = "resolve" /\ Placement(s) # None /\ UNCHANGED <<server, asked>>
        /\ run' = [run EXCEPT ![s].pc = "server", ![s].port = Placement(s), ![s].drop = d]
    BY <1>2 DEF Resolve, graph, service
  <2>. HIDE DEF d
  <2>2. run'[s].pc = "server" /\ run'[s].port = Placement(s)
    BY <2>1, RunTyped DEF RunRecord
  <2>. QED
    BY <2>1, <2>2, ResolveMeant DEF Meant
<1>3. CASE MaterializeServer(s)
  <2>1. /\ run[s].pc = "server" /\ run'[s].pc \in {"cable", "detach"}
        /\ run'[s].port = run[s].port /\ server'[s].link = server[s].link /\ asked' = asked
    BY <1>3, MaterializeEffect DEF MaterializeServer, service
  <2>. QED
    BY <2>1 DEF Meant
<1>4. CASE Raise(s) \/ Stamp(s)
  <2>1. run'[s].pc = "idle"
    BY <1>4, RunTyped DEF Raise, GiveUp, Stamp, Idle
  <2>. QED
    BY <2>1 DEF Meant
<1>5. CASE ~Start(s) /\ ~Resolve(s) /\ ~MaterializeServer(s) /\ ~Raise(s) /\ ~Stamp(s)
  <2>1. run'[s].pc \notin {"resolve", "server", "detach"}
    <3>1. CASE Detach(s)
      <4>1. PICK q \in Ports : run[s].drop = <<q>>
        BY <3>1 DEF PhaseInv, DocumentInv, WiringInv, Wiring, Held, Detach
      <4>. QED
        BY <1>5, <3>1, <4>1, DetachEffect
    <3>2. CASE Unaddress(s)
      BY <3>2, UnaddressEffect
    <3>3. CASE ~Detach(s) /\ ~Unaddress(s)
      <4>. DEFINE Later == {"unaddress", "cable", "asn", "attach", "overlay", "prefix", "leafend",
                            "serverend", "up", "down", "record", "stamp"}
      <4>1. CASE Unlink(s) \/ Unpeer(s) \/ Cable(s) \/ AllocateAsn(s) \/ ResolveOverlayAsn(s)
        <5>1. \E pc \in Later : Goto(s, pc)
          BY <1>5, <4>1 DEF Unlink, Unpeer, Cable, AllocateAsn, ResolveOverlayAsn
        <5>. QED
          BY <5>1, GotoRun DEF MovesOn
      <4>2. CASE \/ AllocatePrefix(s) \/ AddressLeafEnd(s) \/ AddressServerEnd(s)
                 \/ PeerLeaf(s) \/ PeerServer(s) \/ AttachSegmentRack(s) \/ RecordPlacement(s)
        <5>1. \E pc \in Later : Goto(s, pc)
          BY <1>5, <4>2 DEF AllocatePrefix, AddressLeafEnd, AddressServerEnd, PeerLeaf, PeerServer,
             UpsertSession, AttachSegmentRack, RecordPlacement
        <5>. QED
          BY <5>1, GotoRun DEF MovesOn
      <4>. QED
        BY <1>5, <3>3, <4>1, <4>2 DEF RunStep
    <3>. QED
      BY <3>1, <3>2, <3>3
  <2>. QED
    BY <2>1 DEF Meant
<1>. QED
  BY <1>1, <1>2, <1>3, <1>4, <1>5

LEMMA AroundTidy ==
    ASSUME ~MayDelete, ~MayActDuringRun, RepeatsFirst, FailAt \cap Releases = {}, TidyInv,
           NEW s \in Services,
           \/ Die(s) \/ DeleteServer(s) \/ RunAgain(s) \/ FabricReady
           \/ \E x \in Edits : Edit(s, x)
    PROVE  Tidy(s)' /\ Meant(s)'
<1>1. CASE Die(s)
  <2>1. /\ run'[s].pc = "idle" /\ s \in broken' /\ UNCHANGED <<server, sessions, asked>>
        /\ run[s].pc \notin {"unlink", "unaddress", "unpeer"}
    BY <1>1, RunTyped DEF Die, GiveUp, Idle, graph, service, TidyInv, ProgressInv, LedgerInv,
       Releases, Fragile
  <2>. QED
    BY <2>1 DEF TidyInv, Tidy, Meant, Bound, Between, OwnSessions
<1>2. CASE RunAgain(s) \/ FabricReady
  <2>1. UNCHANGED <<run, server, sessions, asked, broken>>
    BY <1>2 DEF RunAgain, FabricReady, graph, service
  <2>. QED
    BY <2>1 DEF TidyInv, Tidy, Meant, Bound, OwnSessions
<1>3. CASE \E x \in Edits : Edit(s, x)
  <2>1. run[s].pc = "idle" /\ s \notin broken /\ UNCHANGED <<run, server, sessions>>
    BY <1>3 DEF Edit, graph
  <2>. QED
    BY <2>1 DEF TidyInv, Tidy, Meant, Bound, Between, OwnSessions
<1>. QED
  BY <1>1, <1>2, <1>3 DEF DeleteServer

LEMMA TidyAtFirst == Init => TidyInv
<1>. SUFFICES ASSUME Init, NEW u \in Services PROVE Tidy(u) /\ Meant(u)
  BY ProgressAtFirst DEF TidyInv
<1>1. sessions = {} /\ run[u].pc = "idle"
  BY DEF Init, Idle
<1>. QED
  BY <1>1 DEF Tidy, Meant, OwnSessions

LEMMA TidyPreserved ==
    ASSUME RefuseSecondCable, ~MayDelete, ~MayActDuringRun, RepeatsFirst,
           FailAt \cap Releases = {}
    PROVE  TidyInv /\ [Next]_vars => TidyInv'
<1>. SUFFICES ASSUME TidyInv, [Next]_vars PROVE TidyInv'
  OBVIOUS
<1>1. FailAt \cap Fragile = {}
  BY DEF Releases
<1>2. ProgressInv'
  BY <1>1, ProgressPreserved DEF TidyInv
<1>3. ASSUME NEW u \in Services, SameEstate(u) PROVE Tidy(u)' /\ Meant(u)'
  BY <1>3, SameEstateSameTidy DEF TidyInv
<1>4. ASSUME UNCHANGED vars, NEW u \in Services PROVE Tidy(u)' /\ Meant(u)'
  BY <1>4 DEF TidyInv, Tidy, Meant, Bound, OwnSessions, vars
<1>5. ASSUME NEW s \in Services,
             \/ RunStep(s)
             \/ Die(s) \/ DeleteServer(s) \/ RunAgain(s) \/ FabricReady
             \/ \E x \in Edits : Edit(s, x)
      PROVE  Tidy(s)' /\ Meant(s)'
  BY <1>5, RunStepTidy, RunStepMeant, AroundTidy
<1>6. \A u \in Services : Tidy(u)' /\ Meant(u)'
  BY <1>3, <1>4, <1>5, StepIsSomebodys DEF TidyInv, ProgressInv, LedgerInv, PhaseInv
<1>. QED
  BY <1>2, <1>6 DEF TidyInv

LEMMA TidyAlways ==
    ASSUME RefuseSecondCable, ~MayDelete, ~MayActDuringRun, RepeatsFirst,
           FailAt \cap Releases = {}
    PROVE  Spec => []TidyInv
BY TidyAtFirst, TidyPreserved, PTL DEF Spec

LEMMA EquippedIsMaterialized ==
    ASSUME TidyInv, NEW u \in Services, Settled(u) PROVE \E p \in Ports : Materialized(u, p)
<1>. USE DEF TidyInv
<1>1. PICK p : p = server[u].link
  OBVIOUS
<1>2. p \in Ports /\ Equipped(u, p)
  BY <1>1, CompleteIsEquipped
<1>3. OwnSessions(u) \subseteq Ends(u, p)
  <2>. SUFFICES ASSUME NEW q \in OwnSessions(u) PROVE q \in Ends(u, p)
    OBVIOUS
  <2>1. q[2] = LeafOf[p] /\ q[3] = u
    BY <1>1 DEF Tidy, Bound, Between, Settled, OwnSessions
  <2>2. q \in {"leaf", "server"} \X Leafs \X Services
    BY Typed DEF OwnSessions, ProgressInv, LedgerInv, PhaseInv, DocumentInv, WiringInv, Shape
  <2>. QED
    BY <2>1, <2>2 DEF Ends
<1>4. Layer[u] = "l3" => OwnSessions(u) = Ends(u, p)
  <2>1. \A q \in Ends(u, p) : q[3] = u
    BY DEF Ends
  <2>. QED
    BY <1>2, <1>3, <2>1 DEF Equipped, OwnSessions
<1>5. Materialized(u, p)
  BY <1>2, <1>4 DEF Equipped, Materialized, OwnLinks, OwnPrefixes, OwnSessions
<1>. QED
  BY <1>2, <1>5

\* A service that has settled is completely attached to exactly one port, with no
\* /31, session or cable left over from an earlier one, for any services, leafs with
\* any number of ports, moves within a leaf and between leafs, and deaths outside
\* the release, as long as the operator leaves a service alone while it is being run
\* and until a failed run has been repeated (release_placement, materialize_cabling,
\* materialize_l3, record_placement, update_checksum).
THEOREM SettledAreAttached ==
    ASSUME RefuseSecondCable, ~MayDelete, ~MayActDuringRun, RepeatsFirst,
           FailAt \cap Releases = {}
    PROVE  Spec => []SettledMeansAttached
<1>1. TidyInv => SettledMeansAttached
  BY EquippedIsMaterialized DEF SettledMeansAttached
<1>. QED
  BY <1>1, TidyAlways, PTL

\* Whatever the operator edits and when, and with a death between unplugging and
\* delete_ebgp_pair: a settled service is still attached with all it needs, but a
\* session of an earlier leaf may be left over.
THEOREM SettledAreEquipped ==
    ASSUME RefuseSecondCable, ~MayDelete, FailAt \cap Fragile = {}
    PROVE  Spec => [](\A u \in Services : Settled(u) => \E p \in Ports : Equipped(u, p))
<1>1. ProgressInv => \A u \in Services : Settled(u) => \E p \in Ports : Equipped(u, p)
  BY CompleteIsEquipped
<1>. QED
  BY <1>1, ProgressAlways, PTL

-----------------------------------------------------------------------------
(* What the manifest says of a member                                       *)

\* There is a sequence for every number of members looked at.
LEMMA AmongExists ==
    ASSUME NEW S
    PROVE  \E f : f = [n \in 0..Len(Members) |->
                        IF n = 0 THEN << >>
                        ELSE IF Members[n] \in S THEN Append(f[n - 1], Members[n]) ELSE f[n - 1]]
<1>. DEFINE Step(f, n) == IF n = 0 THEN << >>
                          ELSE IF Members[n] \in S THEN Append(f[n - 1], Members[n]) ELSE f[n - 1]
            Upto(k) == \E f : f = [n \in 0..k |-> Step(f, n)]
            Bad == {k \in Nat : ~Upto(k)}
<1>1. Bad = {}
  <2>. SUFFICES ASSUME Bad # {} PROVE FALSE
    OBVIOUS
  <2>1. PICK k \in Bad : \A m \in Bad : ~(<<m, k>> \in OpToRel(<, Nat))
    <3>1. Bad \subseteq Nat
      OBVIOUS
    <3>. HIDE DEF Bad
    <3>. QED
      BY <3>1, NatLessThanWellFounded, WFMin, Zenon
  <2>2. CASE k = 0
    <3>. DEFINE g == [n \in 0..0 |-> << >>]
    <3>1. g = [n \in 0..0 |-> Step(g, n)]
      OBVIOUS
    <3>2. Upto(k)
      BY <2>2, <3>1
    <3>. QED
      BY <2>1, <3>2
  <2>3. CASE k # 0
    <3>1. k \in Nat /\ k - 1 \in Nat
      BY <2>3
    <3>2. k - 1 \notin Bad
      <4>. HIDE DEF Bad
      <4>1. k - 1 < k
        BY <3>1
      <4>2. <<k - 1, k>> \in OpToRel(<, Nat)
        BY <3>1, <4>1, Zenon DEF OpToRel
      <4>. QED
        BY <2>1, <4>2, Zenon
    <3>3. PICK f : f = [n \in 0..(k - 1) |-> Step(f, n)]
      BY <3>1, <3>2
    <3>. DEFINE g == [n \in 0..k |-> IF n = k THEN Step(f, k) ELSE f[n]]
    <3>4. ASSUME NEW n \in 0..k PROVE g[n] = Step(g, n)
      <4>1. n # 0 => n - 1 \in 0..(k - 1) /\ g[n - 1] = f[n - 1]
        BY <3>1
      <4>2. n # k => n \in 0..(k - 1) /\ f[n] = Step(f, n)
        <5>1. n # k => n \in 0..(k - 1)
          BY <3>1
        <5>. HIDE DEF Step
        <5>. QED
          BY <3>3, <5>1
      <4>3. Step(g, n) = Step(f, n)
        BY <4>1
      <4>. HIDE DEF Step
      <4>. QED
        BY <4>2, <4>3
    <3>5. g = [n \in 0..k |-> Step(g, n)]
      <4>. HIDE DEF Step
      <4>. QED
        BY <3>4
    <3>6. Upto(k)
      <4>. HIDE DEF g, Step
      <4>. QED
        BY <3>5
    <3>. QED
      BY <2>1, <3>6
  <2>. QED
    BY <2>2, <2>3
<1>2. Len(Members) \in Nat
  BY MembersAreServices
<1>3. Upto(Len(Members))
  <2>. HIDE DEF Upto
  <2>. QED
    BY <1>1, <1>2
<1>. QED
  BY <1>3

\* The members of a set are members, and in it.
LEMMA AmongAreIn == ASSUME NEW S, S \subseteq Services PROVE Among(S) \in Seq(S)
<1>. DEFINE Step(f, n) == IF n = 0 THEN << >>
                          ELSE IF Members[n] \in S THEN Append(f[n - 1], Members[n]) ELSE f[n - 1]
            seen == CHOOSE f : f = [n \in 0..Len(Members) |-> Step(f, n)]
            Bad == {k \in Nat : k \leq Len(Members) /\ seen[k] \notin Seq(S)}
<1>1. seen = [n \in 0..Len(Members) |-> Step(seen, n)]
  <2>1. \E f : f = [n \in 0..Len(Members) |-> Step(f, n)]
    BY AmongExists
  <2>. HIDE DEF Step
  <2>. QED
    BY <2>1
<1>2. Among(S) = seen[Len(Members)]
  BY DEF Among
<1>3. Len(Members) \in Nat
  BY MembersAreServices
<1>. HIDE DEF seen
<1>4. Bad = {}
  <2>. SUFFICES ASSUME Bad # {} PROVE FALSE
    OBVIOUS
  <2>1. PICK k \in Bad : \A m \in Bad : ~(<<m, k>> \in OpToRel(<, Nat))
    <3>1. Bad \subseteq Nat
      OBVIOUS
    <3>. HIDE DEF Bad
    <3>. QED
      BY <3>1, NatLessThanWellFounded, WFMin, Zenon
  <2>2. k \in 0..Len(Members) /\ seen[k] \notin Seq(S)
    BY <1>3
  <2>3. seen[k] = Step(seen, k)
    <3>. HIDE DEF Step
    <3>. QED
      BY <1>1, <2>2
  <2>4. k # 0
    <3>1. << >> \in Seq(S)
      OBVIOUS
    <3>. QED
      BY <2>2, <2>3, <3>1
  <2>5. k - 1 \in Nat /\ k - 1 \leq Len(Members)
    BY <1>3, <2>2, <2>4
  <2>6. k - 1 \notin Bad
    <3>. HIDE DEF Bad
    <3>1. k \in Nat /\ k - 1 < k
      BY <1>3, <2>2
    <3>2. <<k - 1, k>> \in OpToRel(<, Nat)
      BY <2>5, <3>1, Zenon DEF OpToRel
    <3>. QED
      BY <2>1, <3>2, Zenon
  <2>7. seen[k - 1] \in Seq(S)
    BY <2>5, <2>6
  <2>8. Members[k] \in S => Append(seen[k - 1], Members[k]) \in Seq(S)
    BY <2>7
  <2>. QED
    BY <2>2, <2>3, <2>4, <2>7, <2>8
<1>. QED
  BY <1>2, <1>3, <1>4

LEMMA LeafEndIsOwn ==
    ASSUME DocumentInv, NEW s \in Services, NEW p \in LeafEnds(s)
    PROVE  /\ p \in Ports /\ server[s].link = p /\ port[p].link = s /\ port[p].ip # None
           /\ p # None
BY TopologyIsTree DEF LeafEnds, Attached

LEMMA PeeringOfEnd ==
    ASSUME DocumentInv, NEW s \in Services, LeafEnds(s) # {}, NEW p, p = server[s].link
    PROVE  /\ p \in LeafEnds(s)
           /\ Peering(s).selector = s /\ Peering(s).peer = port[p].ip
           /\ Peering(s).leaf = LeafOf[p]
<1>1. (CHOOSE q \in LeafEnds(s) : TRUE) \in LeafEnds(s)
  OBVIOUS
<1>2. (CHOOSE q \in LeafEnds(s) : TRUE) = p
  BY <1>1, LeafEndIsOwn
<1>. QED
  BY <1>1, <1>2 DEF Peering

\* Whoever peers is answered, also in the middle of a run.
LEMMA PeerIsAnswered ==
    ASSUME TidyInv, NEW s \in Services, Peers(s), NEW m, m = Peering(s)
    PROVE  /\ m.selector = s /\ m.peer \in prefixes /\ m.peer.service = s
           /\ {"leaf", "server"} \X {m.leaf} \X {s} \subseteq sessions
<1>. USE DEF TidyInv, ProgressInv, LedgerInv
<1>. DEFINE p == server[s].link
<1>1. DocumentInv /\ LeafEnds(s) # {}
  BY DEF PhaseInv, Peers
<1>2. p \in LeafEnds(s) /\ m.selector = s /\ m.peer = port[p].ip /\ m.leaf = LeafOf[p]
  BY <1>1, PeeringOfEnd
<1>3. p \in Ports /\ port[p].link = s /\ port[p].ip # None /\ p # None
  BY <1>1, <1>2, LeafEndIsOwn
<1>4. run[s].pc \notin {"unlink", "unaddress", "unpeer"}
  <2>1. run[s].pc = "unlink" => \E q \in Ports : run[s].drop = <<q>> /\ port[q].link # s
    BY <1>1 DEF WiringInv, DocumentInv, Wiring, Held
  <2>. QED
    BY <1>3, <2>1 DEF PhaseInv, Phase
<1>5. port[p].ip = IF run[s].pc = "serverend" THEN Own(s) ELSE server[s].ip
  BY <1>3 DEF Booked, Numbered
<1>6. m.peer \in prefixes /\ m.peer.service = s
  <2>1. port[p].ip \in OwnPrefixes(s)
    BY <1>3, <1>4, <1>5 DEF Booked, Carved, Fragile
  <2>. QED
    BY <1>2, <2>1 DEF OwnPrefixes
<1>7. PICK l \in Leafs : <<"server", l, s>> \in sessions
  BY DEF Peers, HasSession
<1>8. l = LeafOf[p]
  <2>1. <<"server", l, s>> \in OwnSessions(s)
    BY <1>7 DEF OwnSessions
  <2>2. <<"server", l, s>>[2] = LeafOf[p]
    BY <1>3, <1>4, <2>1 DEF Tidy
  <2>. QED
    BY <2>2
<1>9. <<"leaf", l, s>> \in sessions
  BY <1>7 DEF Booked, Paired
<1>. QED
  BY <1>2, <1>6, <1>7, <1>8, <1>9

LEMMA Eligible ==
    ASSUME NEW e, e = Among({s \in Services : Peers(s)})
    PROVE  /\ Len(e) \in Nat /\ Len(Peerings) = Len(e)
           /\ \A i \in 1..Len(e) : e[i] \in Services /\ Peers(e[i]) /\ Peerings[i] = Peering(e[i])
<1>1. e \in Seq({s \in Services : Peers(s)})
  BY AmongAreIn
<1>2. Len(e) \in Nat /\ \A i \in 1..Len(e) : e[i] \in {s \in Services : Peers(s)}
  BY <1>1, LenProperties, ElementOfSeq
<1>3. Peerings = [i \in 1..Len(e) |-> Peering(e[i])]
  BY DEF Peerings
<1>4. Len(Peerings) = Len(e)
  BY <1>2, <1>3
<1>. QED
  BY <1>2, <1>3, <1>4

\* Whoever is in the manifest, in the middle of a move too, is answered by its
\* leaf: the address it dials is of its own /31, still allocated, and the leaf has
\* the session towards this member (peering_for_member, release_placement,
\* materialize_l3).
THEOREM PeersAnswered ==
    ASSUME RefuseSecondCable, ~MayDelete, ~MayActDuringRun, RepeatsFirst,
           FailAt \cap Releases = {}
    PROVE  Spec => []PeersAreAnswered
<1>1. TidyInv => PeersAreAnswered
  <2>. SUFFICES ASSUME TidyInv, NEW i \in 1..Len(Peerings), NEW m, m = Peerings[i]
                PROVE  /\ m.peer \in prefixes /\ m.peer.service = m.selector
                       /\ {"leaf", "server"} \X {m.leaf} \X {m.selector} \subseteq sessions
    BY DEF PeersAreAnswered
  <2>1. PICK e : e = Among({s \in Services : Peers(s)})
    OBVIOUS
  <2>2. e[i] \in Services /\ Peers(e[i]) /\ m = Peering(e[i])
    BY <2>1, Eligible
  <2>. QED
    BY <2>2, PeerIsAnswered
<1>. QED
  BY <1>1, TidyAlways, PTL

LEMMA SettledPeers ==
    ASSUME ProgressInv, NEW s \in Services, Settled(s), Layer[s] = "l3"
    PROVE  Peers(s) /\ Peering(s).leaf = LeafOf[asked[s].port]
<1>. USE DEF ProgressInv, LedgerInv
<1>1. PICK p : p = server[s].link
  OBVIOUS
<1>2. p \in Ports /\ Equipped(s, p)
  BY <1>1, CompleteIsEquipped
<1>3. /\ Attached(s, p) /\ server[s].rack = RackOfPort(p) /\ asked[s].port = p
      /\ s \in recorded /\ server[s].asn # 0 /\ port[p].ip = server[s].ip
      /\ server[s].ip \in prefixes /\ Ends(s, p) \subseteq sessions
  BY <1>2 DEF Equipped
<1>4. port[p].ip # None
  BY <1>3, Typed, NoneIsUnset DEF PhaseInv, DocumentInv, WiringInv, Shape
<1>5. p \in LeafEnds(s)
  BY <1>2, <1>3, <1>4 DEF LeafEnds
<1>6. Exists(s)
  BY <1>2, <1>3, RackOfPortIsRack, TopologyIsTree DEF Exists
<1>7. HasSession(s)
  <2>1. LeafOf[p] \in Leafs /\ <<"server", LeafOf[p], s>> \in sessions
    BY <1>2, <1>3, RackOfPortIsRack DEF Ends
  <2>. QED
    BY <2>1 DEF HasSession
<1>8. Peers(s)
  BY <1>3, <1>5, <1>6, <1>7 DEF Peers
<1>9. Peering(s).leaf = LeafOf[p]
  BY <1>1, <1>5, PeeringOfEnd DEF PhaseInv
<1>. QED
  BY <1>3, <1>8, <1>9

LEMMA DocumentsOfPeerings ==
    ASSUME NEW n \in Nat, n = Len(Peerings), NEW T, Peerings \in [1..n -> T]
    PROVE  /\ Len(Documents) = IF n = 0 THEN 0 ELSE n + 2
           /\ \A i \in 1..n : Documents[i] = Peerings[i]
<1>. DEFINE shared == <<"CiliumBGPPeerConfig", "CiliumBGPAdvertisement">>
            A == T \cup {"CiliumBGPPeerConfig", "CiliumBGPAdvertisement"}
<1>1. Peerings \in Seq(A) /\ shared \in Seq(A) /\ Len(shared) = 2
  <2>1. Peerings \in [1..n -> A]
    OBVIOUS
  <2>2. Peerings \in Seq(A)
    <3>. HIDE DEF A
    <3>. QED
      BY <2>1, SeqDef
  <2>. QED
    BY <2>2
<1>2. CASE n = 0
  <2>1. Peerings = << >>
    BY <1>1, <1>2
  <2>. QED
    BY <1>2, <2>1 DEF Documents
<1>3. CASE n # 0
  <2>1. Peerings # << >>
    BY <1>3
  <2>2. Documents = Peerings \o shared
    BY <2>1 DEF Documents
  <2>. HIDE DEF shared, A
  <2>3. /\ Len(Peerings \o shared) = Len(Peerings) + Len(shared)
        /\ \A i \in 1..(Len(Peerings) + Len(shared)) :
             (Peerings \o shared)[i] = IF i <= Len(Peerings) THEN Peerings[i]
                                       ELSE shared[i - Len(Peerings)]
    BY <1>1, ConcatProperties
  <2>. QED
    BY <1>1, <1>3, <2>2, <2>3
<1>. QED
  BY <1>2, <1>3

\* Once all services have settled the manifest has one document for every l3
\* member, with the leaf of the port the service says it is on, and the two shared
\* ones; none at all without l3 members (build_cilium_peerings, render_manifest).
THEOREM SettledArePeered ==
    ASSUME RefuseSecondCable, ~MayDelete, FailAt \cap Fragile = {}
    PROVE  Spec => []SettledMeansPeered
<1>1. ProgressInv => SettledMeansPeered
  <2>. SUFFICES ASSUME ProgressInv, \A s \in Services : Settled(s),
                       NEW e, e = Among({s \in Services : Layer[s] = "l3"})
                PROVE  /\ Len(Documents) = IF e = << >> THEN 0 ELSE Len(e) + 2
                       /\ \A i \in 1..Len(e) :
                            /\ Documents[i].selector = e[i]
                            /\ Documents[i].leaf = LeafOf[asked[e[i]].port]
    BY DEF SettledMeansPeered
  <2>1. {s \in Services : Layer[s] = "l3"} = {s \in Services : Peers(s)}
    <3>1. \A s \in Services : Peers(s) => Layer[s] = "l3"
      BY DEF Peers
    <3>. QED
      BY <3>1, SettledPeers
  <2>2. e = Among({s \in Services : Peers(s)})
    BY <2>1
  <2>3. /\ Len(e) \in Nat /\ Len(Peerings) = Len(e)
        /\ \A i \in 1..Len(e) : e[i] \in Services /\ Peers(e[i]) /\ Peerings[i] = Peering(e[i])
    BY <2>2, Eligible
  <2>4. e = << >> <=> Len(e) = 0
    <3>1. e \in Seq({s \in Services : Peers(s)})
      BY <2>2, AmongAreIn
    <3>. QED
      BY <3>1
  <2>5. Peerings = [i \in 1..Len(e) |-> Peerings[i]]
    BY <2>2 DEF Peerings
  <2>6. /\ Len(Documents) = IF Len(e) = 0 THEN 0 ELSE Len(e) + 2
        /\ \A i \in 1..Len(e) : Documents[i] = Peerings[i]
    <3>. DEFINE T == {Peering(s) : s \in Services}
    <3>1. \A i \in 1..Len(e) : Peerings[i] \in T
      BY <2>3
    <3>2. Peerings \in [1..Len(e) -> T]
      <4>. HIDE DEF T
      <4>. QED
        BY <2>5, <3>1
    <3>. QED
      BY <2>3, <3>2, DocumentsOfPeerings
  <2>7. ASSUME NEW i \in 1..Len(e)
        PROVE  Documents[i].selector = e[i] /\ Documents[i].leaf = LeafOf[asked[e[i]].port]
    <3>1. PICK s \in Services : s = e[i] /\ Peers(s) /\ Documents[i] = Peering(s)
      BY <2>3, <2>6
    <3>2. Peering(s).leaf = LeafOf[asked[s].port]
      BY <3>1, SettledPeers DEF Peers
    <3>3. Peering(s).selector = s
      BY DEF Peering
    <3>. QED
      BY <3>1, <3>2, <3>3
  <2>. QED
    BY <2>4, <2>6, <2>7
<1>. QED
  BY <1>1, ProgressAlways, PTL
=============================================================================
