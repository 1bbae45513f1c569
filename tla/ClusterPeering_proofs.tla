------------------------ MODULE ClusterPeering_proofs ------------------------
(***************************************************************************)
(* The document of a cluster member changes by its own member's runs only, *)
(* for any services, ports, edits and deaths.                              *)
(***************************************************************************)
EXTENDS ClusterPeering, ServerService_proofs

\* An address belongs to the service that is plugged in, and so does every /31
\* that a run is about to release.
Netted ==
    /\ \A p \in Ports : port[p].ip # None => port[p].ip.service = port[p].link
    /\ \A s \in Services : /\ server[s].ip # None => server[s].ip.service = s
                           /\ \A x \in run[s].nets : x.service = s

DocumentInv == WiringInv /\ Netted

\* A step of s that changes no address of a port others are on.
SparesAddresses(s) ==
    \A p \in Ports : port[p].link \notin {s, None} => port'[p].ip = port[p].ip

LEMMA NetStep ==
    ASSUME DocumentInv, NEW s \in Services,
           \A p \in Ports : \/ port'[p].ip = None
                            \/ port'[p].ip = port[p].ip /\ port'[p].link = port[p].link,
           \A y \in Services : server'[y].ip \in {server[y].ip, None},
           \A y \in Services : run'[y].nets \subseteq run[y].nets
    PROVE  Netted'
BY DEF DocumentInv, Netted

\* A step that changes no port, no server's address and no list of /31s.
LEMMA NothingNetted ==
    ASSUME DocumentInv, NEW s \in Services, UNCHANGED port,
           \A y \in Services : server'[y].ip = server[y].ip,
           \A y \in Services : run'[y].nets \subseteq run[y].nets
    PROVE  Netted' /\ SparesAddresses(s)
BY NetStep DEF SparesAddresses, DocumentInv, Netted

LEMMA RunKeepsNets ==
    ASSUME Shape, NEW s \in Services,
           \/ \E pc : Goto(s, pc)
           \/ run' = [run EXCEPT ![s] = Idle]
           \/ Start(s) \/ Resolve(s) \/ MaterializeServer(s) \/ Unaddress(s)
    PROVE  \A y \in Services : run'[y].nets \subseteq run[y].nets
<1>1. Idle.nets = {}
  BY DEF Idle
<1>2. CASE run' = [run EXCEPT ![s] = Idle]
  BY <1>1, <1>2, Typed DEF Shape
<1>3. ASSUME NEW pc, Goto(s, pc) PROVE \A y \in Services : run'[y].nets = run[y].nets
  BY <1>3, Typed DEF Shape, Goto, RunRecord
<1>4. CASE Start(s)
  <2>1. PICK r : r = [Idle EXCEPT !.pc = "resolve", !.ask = asked[s]]
    OBVIOUS
  <2>2. r.nets = {}
    BY <2>1 DEF Idle
  <2>3. run' = [run EXCEPT ![s] = r]
    BY <1>4, <2>1 DEF Start
  <2>. QED
    BY <2>2, <2>3, Typed DEF Shape
<1>5. CASE Resolve(s)
  <2>1. CASE Raise(s)
    BY <1>2, <2>1 DEF Raise, GiveUp
  <2>2. CASE run' = [run EXCEPT ![s].pc = "server", ![s].port = Placement(s),
                                ![s].drop = Released(s, Placement(s))]
    BY <2>2, Typed DEF Shape, RunRecord
  <2>. QED
    BY <1>5, <2>1, <2>2 DEF Resolve
<1>6. CASE MaterializeServer(s)
  BY <1>6, Typed DEF MaterializeServer, Shape, RunRecord
<1>7. CASE Unaddress(s)
  BY <1>7, Typed DEF Unaddress, Shape, RunRecord
<1>. QED
  BY <1>2, <1>3, <1>4, <1>5, <1>6, <1>7

-----------------------------------------------------------------------------
(* Addresses                                                                *)

LEMMA RaiseNetted ==
    ASSUME DocumentInv, NEW s \in Services, Raise(s) PROVE Netted' /\ SparesAddresses(s)
BY NothingNetted, RunKeepsNets DEF Raise, GiveUp, graph, DocumentInv, WiringInv

\* The steps that concern neither a port nor an address.
LEMMA OtherStepsNetted ==
    ASSUME DocumentInv, NEW s \in Services,
           \/ Start(s) \/ Resolve(s) \/ MaterializeServer(s) \/ Unpeer(s) \/ AllocateAsn(s)
           \/ ResolveOverlayAsn(s) \/ AllocatePrefix(s) \/ PeerLeaf(s) \/ PeerServer(s)
           \/ AttachSegmentRack(s) \/ RecordPlacement(s) \/ Stamp(s)
    PROVE  Netted' /\ SparesAddresses(s)
<1>. USE DEF DocumentInv, WiringInv, Shape
<1>1. CASE \E pc : Goto(s, pc) /\ UNCHANGED <<server, port>>
  BY <1>1, NothingNetted, RunKeepsNets
<1>2. CASE Start(s) \/ (Resolve(s) /\ ~Raise(s))
  BY <1>2, NothingNetted, RunKeepsNets DEF Start, Resolve, graph
<1>3. CASE Raise(s)
  BY <1>3, RaiseNetted
<1>4. CASE MaterializeServer(s)
  <2>1. UNCHANGED port /\ \A y \in Services : server'[y].ip = server[y].ip
    BY <1>4, Typed DEF MaterializeServer, ServerRecord
  <2>. QED
    BY <1>4, <2>1, NothingNetted, RunKeepsNets
<1>5. CASE AllocateAsn(s) /\ ~Raise(s)
  <2>1. UNCHANGED port /\ \A y \in Services : server'[y].ip = server[y].ip
    BY <1>5, Typed DEF AllocateAsn, ServerRecord
  <2>2. \E pc : Goto(s, pc)
    BY <1>5 DEF AllocateAsn
  <2>. QED
    BY <2>1, <2>2, NothingNetted, RunKeepsNets
<1>6. CASE Stamp(s)
  BY <1>6, NothingNetted, RunKeepsNets DEF Stamp, graph
<1>7. CASE Unpeer(s) \/ AllocatePrefix(s) \/ AttachSegmentRack(s)
  BY <1>1, <1>7 DEF Unpeer, AllocatePrefix, AttachSegmentRack
<1>8. CASE /\ ~Raise(s)
           /\ ResolveOverlayAsn(s) \/ PeerLeaf(s) \/ PeerServer(s) \/ RecordPlacement(s)
  BY <1>1, <1>8 DEF ResolveOverlayAsn, PeerLeaf, PeerServer, UpsertSession, RecordPlacement, graph
<1>. QED
  BY <1>2, <1>3, <1>4, <1>5, <1>6, <1>7, <1>8

\* The port that is left is the run's own, and so are the /31s it remembers.
LEMMA DetachNetted ==
    ASSUME DocumentInv, NEW s \in Services, Detach(s) PROVE Netted' /\ SparesAddresses(s)
<1>1. CASE Raise(s)
  BY <1>1, RaiseNetted
<1>2. CASE ~Raise(s)
  <2>1. PICK q \in Ports : run[s].drop = <<q>> /\ port[q].link = s
    BY DEF DocumentInv, WiringInv, Wiring, Held, Detach
  <2>. DEFINE nets == {port[q].ip, server[s].ip} \ {None}
              left == run[s].left \cup ({LeafOf[q]} \ {LeafOf[run[s].port]})
              r == [run[s] EXCEPT !.pc = "unlink", !.link = port[q].link, !.nets = nets,
                                  !.left = left]
  <2>2. Head(run[s].drop) = q
    BY <2>1
  <2>3. port' = [port EXCEPT ![q] = Clean] /\ server' = server
    BY <1>2, <2>2 DEF Detach
  <2>4. run' = [run EXCEPT ![s] = r]
    BY <1>2, <2>2 DEF Detach
  <2>5. r.nets = nets
    BY Typed DEF DocumentInv, WiringInv, Shape, RunRecord
  <2>6. \A x \in nets : x.service = s
    BY <2>1 DEF DocumentInv, Netted
  <2>. HIDE DEF r, nets
  <2>7. \A y \in Services : run'[y].nets = IF y = s THEN nets ELSE run[y].nets
    BY <2>4, <2>5, Typed DEF DocumentInv, WiringInv, Shape
  <2>8. port'[q].ip = None /\ \A p \in Ports \ {q} : port'[p] = port[p]
    BY <2>3, Typed DEF DocumentInv, WiringInv, Shape, Clean
  <2>9. Netted'
    BY <2>3, <2>6, <2>7, <2>8 DEF DocumentInv, Netted
  <2>10. SparesAddresses(s)
    BY <2>1, <2>8 DEF SparesAddresses
  <2>. QED
    BY <2>9, <2>10
<1>. QED
  BY <1>1, <1>2

LEMMA UnlinkNetted ==
    ASSUME DocumentInv, NEW s \in Services, Unlink(s) PROVE Netted' /\ SparesAddresses(s)
<1>1. CASE Raise(s)
  BY <1>1, RaiseNetted
<1>2. CASE ~Raise(s)
  <2>1. PICK q \in Ports : run[s].drop = <<q>> /\ port[q].link # s /\ run[s].link = s
    BY DEF DocumentInv, WiringInv, Wiring, Held, Unlink
  <2>2. /\ server' = [y \in Services |-> IF y = s /\ server[y].link = q
                                         THEN [server[y] EXCEPT !.link = None] ELSE server[y]]
        /\ port' = [port EXCEPT ![q].link = IF @ = s THEN None ELSE @]
        /\ Goto(s, "unaddress")
    BY <1>2, <2>1 DEF Unlink
  <2>3. /\ \A p \in Ports : port'[p].ip = port[p].ip /\ port'[p].link = port[p].link
        /\ \A y \in Services : server'[y].ip = server[y].ip
    BY <2>1, <2>2, Typed DEF DocumentInv, WiringInv, Shape, PortRecord, ServerRecord
  <2>. QED
    BY <2>2, <2>3, NetStep, RunKeepsNets DEF DocumentInv, WiringInv, SparesAddresses
<1>. QED
  BY <1>1, <1>2

\* Whoever took the port meanwhile has another /31.
LEMMA UnaddressNetted ==
    ASSUME DocumentInv, NEW s \in Services, Unaddress(s) PROVE Netted' /\ SparesAddresses(s)
<1>1. PICK q \in Ports : run[s].drop = <<q>>
  BY DEF DocumentInv, WiringInv, Wiring, Held, Unaddress
<1>2. \A p \in Ports :
        /\ port'[p].link = port[p].link
        /\ port'[p].ip = IF p = q /\ port[p].ip \in run[s].nets THEN None ELSE port[p].ip
  BY <1>1, Typed DEF DocumentInv, WiringInv, Shape, Unaddress, PortRecord
<1>3. \A y \in Services : server'[y].ip \in {server[y].ip, None}
  BY Typed DEF DocumentInv, WiringInv, Shape, Unaddress, ServerRecord
<1>4. Netted'
  BY <1>2, <1>3, NetStep, RunKeepsNets DEF DocumentInv, WiringInv
<1>5. \A p \in Ports : port[p].ip \in run[s].nets \ {None} => port[p].link = s
  BY DEF DocumentInv, Netted
<1>. QED
  BY <1>2, <1>4, <1>5 DEF SparesAddresses

\* A port that is taken was free before, and so had no address.
LEMMA CableNetted ==
    ASSUME RefuseSecondCable, DocumentInv, NEW s \in Services, Cable(s)
    PROVE  Netted' /\ SparesAddresses(s)
<1>1. CASE Raise(s)
  BY <1>1, RaiseNetted
<1>2. CASE ~Raise(s)
  <2>. DEFINE p == run[s].port
  <2>1. /\ port[p].link \in {None, s} /\ port' = [port EXCEPT ![p].link = s]
        /\ server' = [server EXCEPT ![s].link = p] /\ \E pc : Goto(s, pc)
    BY <1>2 DEF Cable
  <2>2. /\ \A q \in Ports : port'[q].ip = port[q].ip /\ (q # p => port'[q] = port[q])
        /\ p \in Ports => port'[p].link = s
        /\ \A y \in Services : server'[y].ip = server[y].ip
    BY <2>1, Typed DEF DocumentInv, WiringInv, Shape, PortRecord, ServerRecord
  <2>3. p \in Ports => port[p].ip = None \/ port[p].link = s
    BY <2>1 DEF DocumentInv, WiringInv, Wiring, Addressed
  <2>. HIDE DEF p
  <2>4. \A q \in Ports : \/ port'[q].ip = None
                         \/ port'[q].ip = port[q].ip /\ port'[q].link = port[q].link
    BY <2>2, <2>3
  <2>. QED
    BY <2>1, <2>2, <2>4, NetStep, RunKeepsNets DEF DocumentInv, WiringInv, SparesAddresses
<1>. QED
  BY <1>1, <1>2

\* Both ends of a run's own cable get addresses of the service.
LEMMA AddressLeafEndNetted ==
    ASSUME DocumentInv, NEW s \in Services, AddressLeafEnd(s) PROVE Netted' /\ SparesAddresses(s)
<1>. DEFINE p == run[s].port
<1>1. p \in Ports /\ port[p].link = s
  BY DEF DocumentInv, WiringInv, Wiring, Held, Attached, Attaching, AddressLeafEnd,
         Shape, RunsOK, HasPort
<1>2. /\ port' = [port EXCEPT ![p].ip = Own(s)] /\ server' = server
      /\ \E pc : Goto(s, pc)
  BY DEF AddressLeafEnd
<1>3. Own(s).service = s
  BY DEF Own
<1>4. \A q \in Ports : /\ port'[q].link = port[q].link
                       /\ port'[q].ip = IF q = p THEN Own(s) ELSE port[q].ip
  BY <1>2, Typed DEF DocumentInv, WiringInv, Shape, PortRecord
<1>5. \A y \in Services : run'[y].nets \subseteq run[y].nets
  BY <1>2, RunKeepsNets DEF DocumentInv, WiringInv
<1>. HIDE DEF p
<1>6. Netted'
  BY <1>1, <1>2, <1>3, <1>4, <1>5 DEF DocumentInv, Netted
<1>. QED
  BY <1>1, <1>4, <1>6 DEF SparesAddresses

LEMMA AddressServerEndNetted ==
    ASSUME DocumentInv, NEW s \in Services, AddressServerEnd(s)
    PROVE  Netted' /\ SparesAddresses(s)
<1>1. CASE Raise(s)
  BY <1>1, RaiseNetted
<1>2. CASE ~Raise(s)
  <2>1. /\ port' = port /\ server' = [server EXCEPT ![s].ip = Own(s)]
        /\ \E pc : Goto(s, pc)
    BY <1>2 DEF AddressServerEnd
  <2>2. Own(s).service = s
    BY DEF Own
  <2>3. \A y \in Services : server'[y].ip = IF y = s THEN Own(s) ELSE server[y].ip
    BY <2>1, Typed DEF DocumentInv, WiringInv, Shape, ServerRecord
  <2>4. \A y \in Services : run'[y].nets \subseteq run[y].nets
    BY <2>1, RunKeepsNets DEF DocumentInv, WiringInv
  <2>5. Netted'
    BY <2>1, <2>2, <2>3, <2>4 DEF DocumentInv, Netted
  <2>. QED
    BY <2>1, <2>5 DEF SparesAddresses
<1>. QED
  BY <1>1, <1>2

LEMMA RunStepNetted ==
    ASSUME RefuseSecondCable, DocumentInv, NEW s \in Services, RunStep(s)
    PROVE  Netted' /\ SparesAddresses(s)
BY OtherStepsNetted, DetachNetted, UnlinkNetted, UnaddressNetted, CableNetted,
   AddressLeafEndNetted, AddressServerEndNetted DEF RunStep

-----------------------------------------------------------------------------
(* Documents                                                                *)

\* What the document of member u is made of stays.
SameMember(u) ==
    /\ server'[u] = server[u] /\ (u \in recorded' <=> u \in recorded)
    /\ \A l \in Leafs : <<"server", l, u>> \in sessions' <=> <<"server", l, u>> \in sessions
    /\ \A p \in Ports : /\ port'[p].link = u <=> port[p].link = u
                        /\ port[p].link = u => port'[p].ip = port[p].ip

LEMMA SameMemberSameDocument ==
    ASSUME NEW u \in Services, SameMember(u) PROVE Document(u)' = Document(u)
<1>1. LeafEnds(u)' = LeafEnds(u)
  BY DEF SameMember, LeafEnds, Attached
<1>2. Peers(u)' = Peers(u)
  BY <1>1 DEF SameMember, Peers, Exists, HasSession
<1>3. ASSUME Peers(u) PROVE Peering(u)' = Peering(u)
  <2>1. PICK p : p = CHOOSE q \in LeafEnds(u) : TRUE
    OBVIOUS
  <2>2. p \in LeafEnds(u)
    BY <1>3, <2>1 DEF Peers
  <2>3. port'[p].ip = port[p].ip /\ server'[u].asn = server[u].asn
    BY <2>2 DEF SameMember, LeafEnds, Attached
  <2>. QED
    BY <1>1, <2>1, <2>3 DEF Peering
<1>. QED
  BY <1>2, <1>3 DEF Document

LEMMA RunStepSparesMembers ==
    ASSUME RefuseSecondCable, DocumentInv, NEW s \in Services, RunStep(s),
           NEW u \in Services \ {s}
    PROVE  SameMember(u)
<1>1. OnlyOwn(s) /\ SparesAddresses(s)
  BY RunStepWired, RunStepNetted DEF DocumentInv
<1>2. u \in recorded' <=> u \in recorded
  BY DEF RunStep, Start, Resolve, MaterializeServer, Detach, Unlink, Unaddress, Unpeer, Cable,
         AllocateAsn, ResolveOverlayAsn, AllocatePrefix, AddressLeafEnd, AddressServerEnd, PeerLeaf, PeerServer,
         UpsertSession, AttachSegmentRack, RecordPlacement, Stamp, Raise, GiveUp, service
<1>3. \A l \in Leafs : <<"server", l, u>> \in sessions' <=> <<"server", l, u>> \in sessions
  <2>1. CASE Unpeer(s)
    BY <2>1 DEF Unpeer
  <2>2. ASSUME NEW pc, NEW end, NEW next, UpsertSession(s, pc, end, next)
        PROVE  \A l \in Leafs : <<"server", l, u>> \in sessions' <=> <<"server", l, u>> \in sessions
    <3>1. \/ sessions' = sessions
          \/ sessions' = sessions \cup {<<end, LeafOf[run[s].port], s>>}
      BY <2>2 DEF UpsertSession, Raise, GiveUp, graph
    <3>. QED
      BY <3>1
  <2>3. CASE \/ Start(s) \/ Resolve(s) \/ MaterializeServer(s) \/ Detach(s) \/ Unlink(s)
             \/ Unaddress(s) \/ Cable(s) \/ AllocateAsn(s) \/ ResolveOverlayAsn(s)
             \/ AllocatePrefix(s) \/ AddressLeafEnd(s) \/ AddressServerEnd(s) \/ AttachSegmentRack(s)
             \/ RecordPlacement(s) \/ Stamp(s)
    <3>1. sessions' = sessions
      BY <2>3 DEF Start, Resolve, MaterializeServer, Detach, Unlink, Unaddress, Cable,
                  AllocateAsn, ResolveOverlayAsn, AllocatePrefix, AddressLeafEnd, AddressServerEnd,
                  AttachSegmentRack, RecordPlacement, Stamp, Raise, GiveUp, graph
    <3>. QED
      BY <3>1
  <2>. QED
    BY <2>1, <2>2, <2>3 DEF RunStep, PeerLeaf, PeerServer
<1>4. u # None /\ \A p \in Ports : port'[p].link = u <=> port[p].link = u
  BY <1>1, TopologyIsTree DEF OnlyOwn
<1>. QED
  BY <1>1, <1>2, <1>3, <1>4 DEF OnlyOwn, SparesAddresses, SameMember

\* What happens around the runs changes no document at all.
LEMMA AroundSparesMembers ==
    ASSUME ~MayDelete, DocumentInv, NEW s \in Services,
           \/ Die(s) \/ DeleteServer(s) \/ RunAgain(s) \/ FabricReady
           \/ \E x \in Edits : Edit(s, x)
    PROVE  Netted' /\ \A u \in Services : SameMember(u)
<1>1. UNCHANGED <<server, port, sessions, recorded>>
  BY DEF Die, GiveUp, DeleteServer, RunAgain, FabricReady, Edit, service, graph
<1>2. \/ run' = run
      \/ run' = [run EXCEPT ![s] = Idle]
  BY DEF Die, GiveUp, DeleteServer, RunAgain, FabricReady, Edit
<1>3. \A y \in Services : run'[y].nets \subseteq run[y].nets
  BY <1>2, RunKeepsNets DEF DocumentInv, WiringInv
<1>4. Netted'
  BY <1>1, <1>3, NothingNetted
<1>. QED
  BY <1>1, <1>4 DEF SameMember

LEMMA NettedPreserved ==
    ASSUME RefuseSecondCable, ~MayDelete PROVE DocumentInv /\ [Next]_vars => DocumentInv'
<1>1. ASSUME DocumentInv, FabricReady \/ UNCHANGED vars PROVE Netted'
  BY <1>1 DEF FabricReady, vars, graph, DocumentInv, Netted
<1>2. ASSUME DocumentInv, [Next]_vars PROVE Netted'
  BY <1>1, <1>2, RunStepNetted, AroundSparesMembers DEF Next
<1>. QED
  BY <1>2, WiringPreserved DEF DocumentInv

LEMMA NettedAtFirst == Init => DocumentInv
<1>. SUFFICES ASSUME Init PROVE DocumentInv
  OBVIOUS
<1>1. \A p \in Ports : port[p].ip = None
  BY DEF Init, Clean
<1>2. \A s \in Services : server[s].ip = None
  BY DEF Init, NoServer
<1>3. \A s \in Services : run[s].nets = {}
  BY DEF Init, Idle
<1>. QED
  BY <1>1, <1>2, <1>3, WiringAtFirst DEF DocumentInv, Netted

\* A step that is not of u's own run leaves its document as it is.
LEMMA StepSparesDocument ==
    ASSUME RefuseSecondCable, ~MayDelete, DocumentInv, [Next]_vars,
           NEW u \in Services, run'[u] = run[u]
    PROVE  Document(u)' = Document(u)
<1>1. ASSUME NEW s \in Services, RunStep(s) PROVE SameMember(u)
  <2>1. s # u
    BY <1>1, RunMoves DEF DocumentInv, WiringInv
  <2>. QED
    BY <1>1, <2>1, RunStepSparesMembers
<1>2. CASE FabricReady \/ UNCHANGED vars
  <2>1. UNCHANGED <<server, port, sessions, recorded>>
    BY <1>2 DEF FabricReady, vars, service, graph
  <2>2. SameMember(u)
    BY <2>1 DEF SameMember
  <2>. QED
    BY <2>2, SameMemberSameDocument
<1>. QED
  BY <1>1, <1>2, AroundSparesMembers, SameMemberSameDocument DEF Next

(* No other member's configuration changes: on a platform that refuses a      *)
(* second cable on an endpoint, and while nobody deletes servers, the         *)
(* document of a member is changed by its own runs only, whoever else joins   *)
(* the cluster, moves, or dies half-way (peering_for_member).                 *)
THEOREM DocumentsAreOwn == ASSUME RefuseSecondCable, ~MayDelete PROVE Spec => DocumentsChangeAlone
<1>1. Spec => []DocumentInv
  BY NettedAtFirst, NettedPreserved, PTL DEF Spec
<1>. DEFINE Step == \A s \in Services :
              run'[s] = run[s] /\ Exists(s)' => Document(s)' = Document(s)
<1>2. DocumentInv /\ [Next]_vars => Step
  BY StepSparesDocument
<1>. QED
  BY <1>1, <1>2, PTL DEF Spec, DocumentsChangeAlone
=============================================================================
