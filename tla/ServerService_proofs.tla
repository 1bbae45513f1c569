------------------------ MODULE ServerService_proofs ------------------------
(***************************************************************************)
(* The leaf ports under any number of services, ports, edits and deaths:   *)
(* on a platform that refuses a second cable, and as long as no operator   *)
(* deletes a server, no run ever unplugs the server of another service.    *)
(***************************************************************************)
EXTENDS ServerService, SequenceTheorems, WellFoundedInduction, TLAPS

RunRecord ==
    [pc: Places \cup {"idle"}, ask: Ask, id: Nat, port: Ports \cup {None},
     drop: Seq(Ports), link: Services \cup {None}, nets: SUBSET Prefix,
     left: SUBSET Leafs]
ServerRecord == [id: Nat, rack: Racks \cup {None}, link: Ports \cup {None},
                 ip: Prefix \cup {None}, asn: Nat]
PortRecord == [link: Services \cup {None}, ip: Prefix \cup {None}]

-----------------------------------------------------------------------------
(* Types of the helpers                                                     *)

LEMMA IdleIsRun == Idle \in RunRecord /\ Idle.pc = "idle"
BY DEF Idle, RunRecord, Nothing, Ask, Places

LEMMA RackOfPortIsRack == \A p \in Ports : RackOfPort(p) \in Racks /\ LeafOf[p] \in Leafs
BY TopologyIsTree DEF RackOfPort

\* Among ranked things there is a lowest one.
LEMMA LowestIsMember ==
    ASSUME NEW S, S \subseteq Ports, S # {} PROVE Lowest(S) \in S
<1>. DEFINE Ranks == {Rank[x] : x \in S}
<1>1. Ranks \subseteq Nat /\ Ranks # {}
  BY TopologyIsTree
<1>2. PICK n \in Ranks : \A m \in Ranks : ~(<<m, n>> \in OpToRel(<, Nat))
  <2>. HIDE DEF Ranks
  <2>. QED
    BY <1>1, NatLessThanWellFounded, WFMin, Zenon
<1>3. PICK x \in S : n = Rank[x]
  OBVIOUS
<1>4. \A y \in S : Rank[x] <= Rank[y]
  <2>. SUFFICES ASSUME NEW y \in S PROVE Rank[x] <= Rank[y]
    OBVIOUS
  <2>1. Rank[y] \in Ranks /\ Rank[x] \in Nat /\ Rank[y] \in Nat
    BY <1>1, <1>3
  <2>2. ~(Rank[y] < Rank[x])
    BY <1>2, <1>3, <2>1, Zenon DEF OpToRel
  <2>. QED
    BY <2>1, <2>2
<1>. QED
  BY <1>4 DEF Lowest

LEMMA SelectPortIsPort == \A r : SelectPort(r) \in Ports \cup {None}
<1>. SUFFICES ASSUME NEW r PROVE SelectPort(r) \in Ports \cup {None}
  OBVIOUS
<1>1. FreePorts(r) \subseteq Ports
  BY DEF FreePorts
<1>2. CASE FreePorts(r) = {}
  BY <1>2 DEF SelectPort
<1>3. CASE FreePorts(r) # {}
  BY <1>1, <1>3, LowestIsMember DEF SelectPort
<1>. QED
  BY <1>2, <1>3

LEMMA ExplicitIsPort ==
    ASSUME NEW s, NEW r, NEW p \in Ports \cup {None} PROVE Explicit(s, r, p) \in Ports \cup {None}
BY SelectPortIsPort DEF Explicit

LEMMA ExistingIsPort ==
    ASSUME TypeOK, NEW s \in Services PROVE Existing(s) \in Ports \cup {None}
BY DEF Existing, TypeOK

LEMMA PlacementIsPort ==
    ASSUME TypeOK, NEW s \in Services PROVE Placement(s) \in Ports \cup {None}
<1>1. run[s].ask \in Ask
  BY DEF TypeOK
<1>2. \A p \in Ports : Moved(run[s].ask, p).port \in Ports \cup {None}
  BY <1>1 DEF Moved, Ask
<1>3. run[s].ask.port \in Ports \cup {None}
  BY <1>1 DEF Ask
<1>4. Existing(s) # None => Existing(s) \in Ports
  BY ExistingIsPort
<1>. QED
  BY <1>2, <1>3, <1>4, ExplicitIsPort, SelectPortIsPort DEF Placement

LEMMA ReleasedArePorts ==
    ASSUME TypeOK, NEW s \in Services, NEW p \in Ports PROVE Released(s, p) \in Seq(Ports)
BY ExistingIsPort DEF Released

-----------------------------------------------------------------------------
(* Type correctness                                                         *)

LEMMA GiveUpTyped ==
    ASSUME TypeOK, NEW s \in Services, GiveUp(s), UNCHANGED <<stale, wish, changes>>,
           failures' \in Nat
    PROVE  TypeOK'
BY IdleIsRun DEF RunRecord, GiveUp, TypeOK, service, graph, pools

LEMMA RaiseTyped == ASSUME TypeOK, NEW s \in Services, Raise(s) PROVE TypeOK'
BY GiveUpTyped DEF Raise, around, TypeOK

\* A step of a run, but for the objects of the graph it writes.
LEMMA StepTyped ==
    ASSUME TypeOK, NEW s \in Services, NEW r \in RunRecord, run' = [run EXCEPT ![s] = r],
           UNCHANGED <<service, pending, broken, around>>,
           server' \in [Services -> ServerRecord], port' \in [Ports -> PortRecord],
           links' \subseteq Ports \X Services, prefixes' \subseteq Prefix,
           sessions' \subseteq {"leaf", "server"} \X Leafs \X Services,
           segmentRacks' \subseteq Racks, asnsUsed' \in Nat, overlayReady' \in BOOLEAN
    PROVE  TypeOK'
BY DEF TypeOK, RunRecord, ServerRecord, PortRecord, service, around

\* What is typed to begin with.
LEMMA Typed ==
    ASSUME TypeOK
    PROVE  /\ server \in [Services -> ServerRecord] /\ port \in [Ports -> PortRecord]
           /\ run \in [Services -> RunRecord]
           /\ links \subseteq Ports \X Services /\ prefixes \subseteq Prefix
           /\ sessions \subseteq {"leaf", "server"} \X Leafs \X Services
           /\ segmentRacks \subseteq Racks /\ asnsUsed \in Nat /\ overlayReady \in BOOLEAN
BY DEF TypeOK, RunRecord, ServerRecord, PortRecord

LEMMA GotoTyped ==
    ASSUME TypeOK, NEW s \in Services, NEW pc \in Places
    PROVE  [run[s] EXCEPT !.pc = pc] \in RunRecord
BY Typed DEF RunRecord

LEMMA StartTyped == ASSUME TypeOK, NEW s \in Services, Start(s) PROVE TypeOK'
<1>. DEFINE r == [Idle EXCEPT !.pc = "resolve", !.ask = asked[s]]
<1>1. r \in RunRecord
  BY IdleIsRun DEF TypeOK, RunRecord, Places
<1>2. run' = [run EXCEPT ![s] = r]
  BY DEF Start
<1>. HIDE DEF r
<1>3. pending' \in [Services -> Nat] /\ stale' \subseteq Services
  BY DEF Start, TypeOK
<1>4. run' \in [Services -> RunRecord]
  BY <1>1, <1>2, Typed
<1>. QED
  BY <1>3, <1>4 DEF Start, TypeOK, RunRecord, service, graph, pools

LEMMA ResolveTyped == ASSUME TypeOK, NEW s \in Services, Resolve(s) PROVE TypeOK'
<1>1. CASE Placement(s) = None
  BY <1>1, RaiseTyped DEF Resolve
<1>2. CASE Placement(s) # None
  <2>. DEFINE r == [run[s] EXCEPT !.pc = "server", !.port = Placement(s),
                                  !.drop = Released(s, Placement(s))]
  <2>1. Placement(s) \in Ports
    BY <1>2, PlacementIsPort
  <2>2. Released(s, Placement(s)) \in Seq(Ports)
    BY <2>1, ReleasedArePorts
  <2>3. r \in RunRecord
    BY <2>1, <2>2, Typed, ZenonT(40) DEF RunRecord, Places
  <2>4. run' = [run EXCEPT ![s] = r]
    BY <1>2 DEF Resolve
  <2>. HIDE DEF r
  <2>. QED
    BY <1>2, <2>3, <2>4, StepTyped, Typed, ZenonT(40) DEF Resolve, graph, pools
<1>. QED
  BY <1>1, <1>2

\* From its placement on a run has a port.
HasPort(s) == run[s].port \in Ports

LEMMA MaterializeTyped ==
    ASSUME TypeOK, NEW s \in Services, HasPort(s), MaterializeServer(s) PROVE TypeOK'
<1>. DEFINE pc == IF run[s].drop = << >> THEN "cable" ELSE "detach"
            r  == [run[s] EXCEPT !.id = server[s].id, !.pc = pc]
<1>1. r \in RunRecord
  <2>1. server[s].id \in Nat /\ pc \in Places /\ run[s] \in RunRecord
    BY Typed DEF ServerRecord, Places
  <2>. HIDE DEF pc
  <2>. QED
    BY <2>1 DEF RunRecord
<1>2. run' = [run EXCEPT ![s] = r]
  BY DEF MaterializeServer
<1>3. [server[s] EXCEPT !.rack = RackOfPort(run[s].port)] \in ServerRecord
  BY Typed, RackOfPortIsRack DEF HasPort, ServerRecord
<1>4. server' = [server EXCEPT ![s] = [server[s] EXCEPT !.rack = RackOfPort(run[s].port)]]
  BY DEF MaterializeServer
<1>5. server' \in [Services -> ServerRecord]
  BY <1>3, <1>4, Typed
<1>. HIDE DEF r
<1>. QED
  BY <1>1, <1>2, <1>5, StepTyped, Typed DEF MaterializeServer, pools

LEMMA DetachTyped ==
    ASSUME TypeOK, NEW s \in Services, HasPort(s), run[s].drop # << >>, Detach(s) PROVE TypeOK'
<1>. DEFINE p == Head(run[s].drop)
            nets == {port[p].ip, server[s].ip} \ {None}
            left == run[s].left \cup ({LeafOf[p]} \ {LeafOf[run[s].port]})
            r == [run[s] EXCEPT !.pc = "unlink", !.link = port[p].link,
                                !.nets = nets, !.left = left]
<1>1. CASE ~Exists(s)
  BY <1>1, RaiseTyped DEF Detach
<1>2. CASE Exists(s)
  <2>1. p \in Ports
    <3>1. run[s].drop \in Seq(Ports)
      BY Typed DEF RunRecord
    <3>. QED
      BY <3>1
  <2>2. port[p].link \in Services \cup {None}
    BY <2>1, Typed DEF PortRecord
  <2>3. nets \subseteq Prefix
    BY <2>1, Typed DEF PortRecord, ServerRecord
  <2>4. left \subseteq Leafs
    BY <2>1, Typed, RackOfPortIsRack DEF RunRecord
  <2>5. r \in RunRecord
    <3>1. run[s] \in RunRecord /\ "unlink" \in Places
      BY Typed DEF Places
    <3>. HIDE DEF nets, left, p
    <3>. QED
      BY <2>2, <2>3, <2>4, <3>1 DEF RunRecord
  <2>6. run' = [run EXCEPT ![s] = r]
    BY <1>2 DEF Detach
  <2>7. Clean \in PortRecord
    BY DEF Clean, PortRecord
  <2>8. /\ port' \in [Ports -> PortRecord]
        /\ UNCHANGED <<server, links, prefixes, sessions, segmentRacks>>
        /\ UNCHANGED <<service, pools, pending, broken, around>>
    BY <1>2, <2>1, <2>7, Typed DEF Detach
  <2>. HIDE DEF r
  <2>. QED
    BY <2>5, <2>6, <2>8, StepTyped, Typed DEF pools
<1>. QED
  BY <1>1, <1>2

LEMMA UnlinkTyped == ASSUME TypeOK, NEW s \in Services, Unlink(s) PROVE TypeOK'
<1>. DEFINE p == Head(run[s].drop)
            x == run[s].link
            r == [run[s] EXCEPT !.pc = "unaddress"]
<1>1. CASE x # None /\ <<p, x>> \notin links
  BY <1>1, RaiseTyped DEF Unlink
<1>2. CASE ~(x # None /\ <<p, x>> \notin links)
  <2>1. r \in RunRecord
    BY GotoTyped DEF Places
  <2>2. run' = [run EXCEPT ![s] = r]
    BY <1>2 DEF Unlink, Goto
  <2>3. server' \in [Services -> ServerRecord]
    BY <1>2, Typed, SMTT(30) DEF Unlink, ServerRecord
  <2>4. port' \in [Ports -> PortRecord]
    BY <1>2, Typed DEF Unlink, PortRecord
  <2>5. links' \subseteq links
    BY <1>2 DEF Unlink
  <2>. HIDE DEF r
  <2>. QED
    BY <1>2, <2>1, <2>2, <2>3, <2>4, <2>5, StepTyped, Typed DEF Unlink, pools
<1>. QED
  BY <1>1, <1>2

LEMMA UnaddressTyped ==
    ASSUME TypeOK, NEW s \in Services, run[s].drop # << >>, Unaddress(s) PROVE TypeOK'
<1>. DEFINE pc == IF Len(run[s].drop) > 1 THEN "detach" ELSE "unpeer"
            r == [run[s] EXCEPT !.drop = Tail(@), !.pc = pc]
<1>1. Tail(run[s].drop) \in Seq(Ports) /\ pc \in Places
  <2>1. run[s].drop \in Seq(Ports)
    BY Typed DEF RunRecord
  <2>. QED
    BY <2>1 DEF Places
<1>2. r \in RunRecord
  <2>. HIDE DEF pc
  <2>. QED
    BY <1>1, Typed DEF RunRecord
<1>3. run' = [run EXCEPT ![s] = r]
  BY DEF Unaddress
<1>4. server' \in [Services -> ServerRecord]
  BY Typed, ZenonT(40) DEF Unaddress, ServerRecord
<1>5. port' \in [Ports -> PortRecord]
  BY Typed DEF Unaddress, PortRecord
<1>. HIDE DEF r
<1>. QED
  BY <1>2, <1>3, <1>4, <1>5, StepTyped, Typed DEF Unaddress, pools

LEMMA UnpeerTyped == ASSUME TypeOK, NEW s \in Services, Unpeer(s) PROVE TypeOK'
<1>1. sessions' \subseteq sessions
  BY DEF Unpeer
<1>2. "cable" \in Places
  BY DEF Places
<1>. QED
  BY <1>1, <1>2, GotoTyped, StepTyped, Typed DEF Unpeer, Goto, pools

LEMMA CableTyped == ASSUME TypeOK, NEW s \in Services, HasPort(s), Cable(s) PROVE TypeOK'
<1>. DEFINE p == run[s].port
            pc == IF Layer[s] = "l3" THEN "asn" ELSE "attach"
            r == [run[s] EXCEPT !.pc = pc]
<1>1. CASE run' = [run EXCEPT ![s] = Idle]
  <2>1. Raise(s)
    BY <1>1, IdleIsRun, Typed DEF Cable, Goto, RunRecord
  <2>. QED
    BY <2>1, RaiseTyped
<1>2. CASE run' # [run EXCEPT ![s] = Idle]
  <2>1. /\ port' = [port EXCEPT ![p].link = s]
        /\ server' = [server EXCEPT ![s].link = p]
        /\ links' = links \cup {<<p, s>>}
        /\ run' = [run EXCEPT ![s] = r]
        /\ UNCHANGED <<prefixes, sessions, segmentRacks>>
        /\ UNCHANGED <<service, pools, pending, broken, around>>
    BY <1>2 DEF Cable, Raise, GiveUp, Goto
  <2>2. r \in RunRecord
    BY GotoTyped DEF Places
  <2>3. port' \in [Ports -> PortRecord]
    BY <2>1, Typed DEF PortRecord
  <2>4. server' \in [Services -> ServerRecord]
    BY <2>1, Typed DEF ServerRecord, HasPort
  <2>5. links' \subseteq Ports \X Services
    BY <2>1, Typed DEF HasPort
  <2>. HIDE DEF r
  <2>. QED
    BY <2>1, <2>2, <2>3, <2>4, <2>5, StepTyped, Typed DEF pools
<1>. QED
  BY <1>1, <1>2

LEMMA AsnTyped == ASSUME TypeOK, NEW s \in Services, AllocateAsn(s) PROVE TypeOK'
<1>1. CASE ~Exists(s)
  BY <1>1, RaiseTyped DEF AllocateAsn
<1>2. CASE Exists(s)
  <2>1. server' \in [Services -> ServerRecord] /\ asnsUsed' \in Nat
    BY <1>2, Typed DEF AllocateAsn, ServerRecord
  <2>2. "overlay" \in Places
    BY DEF Places
  <2>. QED
    BY <1>2, <2>1, <2>2, GotoTyped, StepTyped, Typed DEF AllocateAsn, Goto
<1>. QED
  BY <1>1, <1>2

LEMMA OverlayTyped == ASSUME TypeOK, NEW s \in Services, ResolveOverlayAsn(s) PROVE TypeOK'
<1>1. "prefix" \in Places
  BY DEF Places
<1>. QED
  BY <1>1, RaiseTyped, GotoTyped, StepTyped, Typed DEF ResolveOverlayAsn, Goto, graph, pools

LEMMA OwnIsPrefix == ASSUME TypeOK, NEW s \in Services, HasPort(s) PROVE Own(s) \in Prefix
BY Typed DEF Own, Prefix, HasPort, RunRecord

LEMMA PrefixTyped ==
    ASSUME TypeOK, NEW s \in Services, HasPort(s), AllocatePrefix(s) PROVE TypeOK'
<1>1. "leafend" \in Places
  BY DEF Places
<1>2. prefixes' \subseteq Prefix
  BY OwnIsPrefix, Typed DEF AllocatePrefix
<1>. QED
  BY <1>1, <1>2, GotoTyped, StepTyped, Typed DEF AllocatePrefix, Goto, pools

LEMMA LeafEndTyped ==
    ASSUME TypeOK, NEW s \in Services, HasPort(s), AddressLeafEnd(s) PROVE TypeOK'
<1>1. "serverend" \in Places
  BY DEF Places
<1>2. port' \in [Ports -> PortRecord]
  BY OwnIsPrefix, Typed DEF AddressLeafEnd, PortRecord
<1>. QED
  BY <1>1, <1>2, GotoTyped, StepTyped, Typed DEF AddressLeafEnd, Goto, pools

LEMMA ServerEndTyped ==
    ASSUME TypeOK, NEW s \in Services, HasPort(s), AddressServerEnd(s) PROVE TypeOK'
<1>1. CASE ~Exists(s)
  BY <1>1, RaiseTyped DEF AddressServerEnd
<1>2. CASE Exists(s)
  <2>1. "up" \in Places
    BY DEF Places
  <2>2. server' \in [Services -> ServerRecord]
    BY <1>2, OwnIsPrefix, Typed DEF AddressServerEnd, ServerRecord
  <2>. QED
    BY <1>2, <2>1, <2>2, GotoTyped, StepTyped, Typed DEF AddressServerEnd, Goto, pools
<1>. QED
  BY <1>1, <1>2

LEMMA SessionTyped ==
    ASSUME TypeOK, NEW s \in Services, HasPort(s), PeerLeaf(s) \/ PeerServer(s) PROVE TypeOK'
<1>1. PICK end \in {"leaf", "server"}, next \in {"down", "record"}, pc \in {"up", "down"} :
         UpsertSession(s, pc, end, next)
  BY DEF PeerLeaf, PeerServer
<1>2. CASE ~Exists(s)
  BY <1>1, <1>2, RaiseTyped DEF UpsertSession
<1>3. CASE Exists(s)
  <2>1. next \in Places
    BY DEF Places
  <2>2. sessions' \subseteq {"leaf", "server"} \X Leafs \X Services
    BY <1>1, <1>3, Typed, RackOfPortIsRack DEF UpsertSession, HasPort
  <2>. QED
    BY <1>1, <1>3, <2>1, <2>2, GotoTyped, StepTyped, Typed DEF UpsertSession, Goto, pools
<1>. QED
  BY <1>2, <1>3

LEMMA AttachTyped ==
    ASSUME TypeOK, NEW s \in Services, HasPort(s), AttachSegmentRack(s) PROVE TypeOK'
<1>1. "record" \in Places
  BY DEF Places
<1>2. segmentRacks' \subseteq Racks
  BY Typed, RackOfPortIsRack DEF AttachSegmentRack, HasPort
<1>. QED
  BY <1>1, <1>2, GotoTyped, StepTyped, Typed DEF AttachSegmentRack, Goto, pools

LEMMA RecordTyped ==
    ASSUME TypeOK, NEW s \in Services, HasPort(s), RecordPlacement(s) PROVE TypeOK'
<1>1. CASE ~Exists(s)
  BY <1>1, RaiseTyped DEF RecordPlacement
<1>2. CASE Exists(s)
  <2>1. [run[s] EXCEPT !.pc = "stamp"] \in RunRecord
    BY GotoTyped DEF Places
  <2>2. asked' \in [Services -> Ask]
    <3>1. [rack |-> RackOfPort(run[s].port), port |-> run[s].port] \in Ask
      BY RackOfPortIsRack DEF Ask, HasPort
    <3>. QED
      BY <1>2, <3>1 DEF RecordPlacement, TypeOK
  <2>3. run' = [run EXCEPT ![s] = [run[s] EXCEPT !.pc = "stamp"]]
    BY <1>2 DEF RecordPlacement, Goto
  <2>. QED
    BY <1>2, <2>1, <2>2, <2>3, ZenonT(40) DEF RecordPlacement, TypeOK, RunRecord, graph, pools, around
<1>. QED
  BY <1>1, <1>2

LEMMA StampTyped == ASSUME TypeOK, NEW s \in Services, HasPort(s), Stamp(s) PROVE TypeOK'
<1>1. Digest(s) \in [id: Nat, port: Ports \cup {None}]
  BY Typed DEF Digest, HasPort, RunRecord
<1>2. pending' \in [Services -> Nat]
  BY DEF Stamp, TypeOK
<1>. QED
  BY <1>1, <1>2, IdleIsRun DEF Stamp, TypeOK, RunRecord, graph, pools, around

-----------------------------------------------------------------------------
(* The shape of a run                                                       *)

Releasing == {"detach", "unlink", "unaddress"}

\* A run has a port once it was placed, and a port to release when it releases.
RunsOK ==
    \A s \in Services :
      /\ run[s].pc \notin {"idle", "resolve"} => HasPort(s)
      /\ run[s].pc \in Releasing => run[s].drop # << >>

\* Any step that only moves the run of s on.
LEMMA RunsOKStep ==
    ASSUME TypeOK, RunsOK, NEW s \in Services, NEW r \in RunRecord,
           run' = [run EXCEPT ![s] = r],
           r.pc \notin {"idle", "resolve"} => r.port \in Ports,
           r.pc \in Releasing => r.drop # << >>
    PROVE  RunsOK'
BY Typed DEF RunsOK, HasPort

LEMMA RunsOKIdle ==
    ASSUME TypeOK, RunsOK, NEW s \in Services, run' = [run EXCEPT ![s] = Idle] PROVE RunsOK'
BY IdleIsRun, RunsOKStep DEF Releasing

LEMMA RunsOKRaise == ASSUME TypeOK, RunsOK, NEW s \in Services, Raise(s) PROVE RunsOK'
BY RunsOKIdle DEF Raise, GiveUp

LEMMA RunsOKGoto ==
    ASSUME TypeOK, RunsOK, NEW s \in Services, run[s].pc \notin {"idle", "resolve"},
           NEW pc \in Places \ Releasing, Goto(s, pc)
    PROVE  RunsOK'
<1>. DEFINE r == [run[s] EXCEPT !.pc = pc]
<1>1. r \in RunRecord
  BY GotoTyped
<1>2. r.pc = pc /\ r.port = run[s].port
  BY Typed DEF RunRecord
<1>3. run[s].port \in Ports
  BY DEF RunsOK, HasPort
<1>4. run' = [run EXCEPT ![s] = r]
  BY DEF Goto
<1>. HIDE DEF r
<1>. QED
  BY <1>1, <1>2, <1>3, <1>4, RunsOKStep

LEMMA RunsOKReleasing ==
    ASSUME TypeOK, RunsOK, NEW s \in Services,
           Start(s) \/ Resolve(s) \/ MaterializeServer(s) \/ Detach(s) \/ Unlink(s) \/ Unaddress(s)
    PROVE  RunsOK'
<1>1. CASE Start(s)
  BY <1>1, IdleIsRun, Typed DEF Start, RunsOK, HasPort, Releasing, Idle
<1>2. CASE Resolve(s)
  <2>1. CASE Placement(s) = None
    BY <1>2, <2>1, RunsOKRaise DEF Resolve
  <2>2. CASE Placement(s) # None
    <3>1. Placement(s) \in Ports
      BY <2>2, PlacementIsPort
    <3>2. run'[s].pc = "server" /\ run'[s].port = Placement(s)
      BY <1>2, <2>2, Typed DEF Resolve, RunRecord
    <3>3. \A x \in Services \ {s} : run'[x] = run[x]
      BY <1>2, <2>2, Typed DEF Resolve
    <3>. QED
      BY <3>1, <3>2, <3>3 DEF RunsOK, HasPort, Releasing
  <2>. QED
    BY <2>1, <2>2
<1>3. CASE MaterializeServer(s)
  <2>1. /\ run'[s].port = run[s].port /\ run'[s].drop = run[s].drop
        /\ run'[s].pc = IF run[s].drop = << >> THEN "cable" ELSE "detach"
    BY <1>3, Typed DEF MaterializeServer, RunRecord
  <2>2. \A x \in Services \ {s} : run'[x] = run[x]
    BY <1>3, Typed DEF MaterializeServer
  <2>3. run[s].pc = "server"
    BY <1>3 DEF MaterializeServer
  <2>. QED
    BY <2>1, <2>2, <2>3 DEF RunsOK, HasPort, Releasing
<1>4. CASE Detach(s)
  <2>1. CASE ~Exists(s)
    BY <1>4, <2>1, RunsOKRaise DEF Detach
  <2>2. CASE Exists(s)
    <3>1. run'[s].port = run[s].port /\ run'[s].drop = run[s].drop
      <4>. DEFINE q == Head(run[s].drop)
                  nets == {port[q].ip, server[s].ip} \ {None}
                  left == run[s].left \cup ({LeafOf[q]} \ {LeafOf[run[s].port]})
                  r == [run[s] EXCEPT !.pc = "unlink", !.link = port[q].link,
                                      !.nets = nets, !.left = left]
      <4>1. run' = [run EXCEPT ![s] = r]
        BY <1>4, <2>2 DEF Detach
      <4>2. r.port = run[s].port /\ r.drop = run[s].drop
        <5>1. run[s] \in RunRecord
          BY Typed
        <5>. HIDE DEF nets, left, q
        <5>. QED
          BY <5>1 DEF RunRecord
      <4>. HIDE DEF r
      <4>. QED
        BY <4>1, <4>2, Typed
    <3>2. \A x \in Services \ {s} : run'[x] = run[x]
      BY <1>4, <2>2, Typed DEF Detach
    <3>3. run[s].pc = "detach"
      BY <1>4 DEF Detach
    <3>. QED
      BY <3>1, <3>2, <3>3 DEF RunsOK, HasPort, Releasing
  <2>. QED
    BY <2>1, <2>2
<1>5. CASE Unlink(s)
  <2>1. CASE Raise(s)
    BY <2>1, RunsOKRaise
  <2>2. CASE Goto(s, "unaddress")
    <3>1. run'[s].port = run[s].port /\ run'[s].drop = run[s].drop
      BY <2>2, Typed DEF Goto, RunRecord
    <3>2. \A x \in Services \ {s} : run'[x] = run[x]
      BY <2>2, Typed DEF Goto
    <3>3. run[s].pc = "unlink"
      BY <1>5 DEF Unlink
    <3>. QED
      BY <3>1, <3>2, <3>3 DEF RunsOK, HasPort, Releasing
  <2>. QED
    BY <1>5, <2>1, <2>2 DEF Unlink
<1>6. CASE Unaddress(s)
  <2>1. run[s].drop \in Seq(Ports) /\ run[s].drop # << >>
    BY <1>6, Typed DEF Unaddress, RunRecord, RunsOK, Releasing
  <2>2. Len(run[s].drop) > 1 => Tail(run[s].drop) # << >>
    <3>. DEFINE n == Len(run[s].drop)
                m == Len(Tail(run[s].drop))
    <3>1. n \in Nat /\ m = n - 1
      BY <2>1, HeadTailProperties, LenProperties
    <3>2. n > 1 => m # 0
      <4>. HIDE DEF n, m
      <4>. QED
        BY <3>1
    <3>3. Len(<< >>) = 0
      BY EmptySeq
    <3>. QED
      BY <3>2, <3>3, Zenon
  <2>3. /\ run'[s].port = run[s].port /\ run'[s].drop = Tail(run[s].drop)
        /\ run'[s].pc = IF Len(run[s].drop) > 1 THEN "detach" ELSE "unpeer"
    BY <1>6, Typed DEF Unaddress, RunRecord
  <2>4. \A x \in Services \ {s} : run'[x] = run[x]
    BY <1>6, Typed DEF Unaddress
  <2>5. run[s].pc = "unaddress"
    BY <1>6 DEF Unaddress
  <2>. QED
    BY <2>2, <2>3, <2>4, <2>5 DEF RunsOK, HasPort, Releasing
<1>. QED
  BY <1>1, <1>2, <1>3, <1>4, <1>5, <1>6

LEMMA RunsOKAttaching ==
    ASSUME TypeOK, RunsOK, NEW s \in Services,
           \/ Unpeer(s) \/ Cable(s) \/ AllocateAsn(s) \/ ResolveOverlayAsn(s)
           \/ AllocatePrefix(s) \/ AddressLeafEnd(s) \/ AddressServerEnd(s) \/ PeerLeaf(s) \/ PeerServer(s)
           \/ AttachSegmentRack(s) \/ RecordPlacement(s) \/ Stamp(s)
    PROVE  RunsOK'
<1>1. CASE Raise(s)
  BY <1>1, RunsOKRaise
<1>2. CASE \E pc \in Places \ Releasing : Goto(s, pc) /\ run[s].pc \notin {"idle", "resolve"}
  BY <1>2, RunsOKGoto
<1>3. CASE Stamp(s)
  BY <1>3, RunsOKIdle DEF Stamp
<1>4. Unpeer(s) => run[s].pc = "unpeer" /\ Goto(s, "cable")
  BY DEF Unpeer
<1>5. Cable(s) => Raise(s) \/ (run[s].pc = "cable" /\ (Goto(s, "asn") \/ Goto(s, "attach")))
  BY Zenon DEF Cable
<1>6. AllocateAsn(s) => Raise(s) \/ (run[s].pc = "asn" /\ Goto(s, "overlay"))
  BY Zenon DEF AllocateAsn
<1>7. ResolveOverlayAsn(s) => Raise(s) \/ (run[s].pc = "overlay" /\ Goto(s, "prefix"))
  BY Zenon DEF ResolveOverlayAsn
<1>8. /\ AllocatePrefix(s) => run[s].pc = "prefix" /\ Goto(s, "leafend")
      /\ AddressLeafEnd(s) => run[s].pc = "leafend" /\ Goto(s, "serverend")
  BY DEF AllocatePrefix, AddressLeafEnd
<1>9. AddressServerEnd(s) => Raise(s) \/ (run[s].pc = "serverend" /\ Goto(s, "up"))
  BY Zenon DEF AddressServerEnd
<1>10. PeerLeaf(s) => Raise(s) \/ (run[s].pc = "up" /\ Goto(s, "down"))
  BY Zenon DEF PeerLeaf, UpsertSession
<1>11. PeerServer(s) => Raise(s) \/ (run[s].pc = "down" /\ Goto(s, "record"))
  BY Zenon DEF PeerServer, UpsertSession
<1>12. AttachSegmentRack(s) => run[s].pc = "attach" /\ Goto(s, "record")
  BY DEF AttachSegmentRack
<1>13. RecordPlacement(s) => Raise(s) \/ (run[s].pc = "record" /\ Goto(s, "stamp"))
  BY Zenon DEF RecordPlacement
<1>14. {"cable", "asn", "attach", "overlay", "prefix", "leafend", "serverend", "up", "down",
        "record", "stamp"}
         \subseteq Places \ Releasing
  BY DEF Places, Releasing
<1>15. Raise(s) \/ Stamp(s)
         \/ \E pc \in Places \ Releasing : Goto(s, pc) /\ run[s].pc \notin {"idle", "resolve"}
  BY <1>4, <1>5, <1>6, <1>7, <1>8, <1>9, <1>10, <1>11, <1>12, <1>13, <1>14
<1>. QED
  BY <1>1, <1>2, <1>3, <1>15

-----------------------------------------------------------------------------
(* Types and shapes, together                                               *)

Shape == TypeOK /\ RunsOK

LEMMA RunStepTyped == ASSUME Shape, NEW s \in Services, RunStep(s) PROVE TypeOK'
<1>1. run[s].pc \notin {"idle", "resolve"} => HasPort(s)
  BY DEF Shape, RunsOK
<1>2. run[s].pc \in Releasing => run[s].drop # << >>
  BY DEF Shape, RunsOK
<1>3. CASE Start(s) \/ Resolve(s) \/ Unlink(s) \/ Unpeer(s) \/ AllocateAsn(s)
             \/ ResolveOverlayAsn(s)
  BY <1>3, StartTyped, ResolveTyped, UnlinkTyped, UnpeerTyped, AsnTyped, OverlayTyped DEF Shape
<1>4. CASE MaterializeServer(s)
  BY <1>1, <1>4, MaterializeTyped DEF Shape, MaterializeServer
<1>5. CASE Detach(s)
  BY <1>1, <1>2, <1>5, DetachTyped DEF Shape, Detach, Releasing
<1>6. CASE Unaddress(s)
  BY <1>2, <1>6, UnaddressTyped DEF Shape, Unaddress, Releasing
<1>7. CASE Cable(s)
  BY <1>1, <1>7, CableTyped DEF Shape, Cable
<1>8. CASE AllocatePrefix(s)
  BY <1>1, <1>8, PrefixTyped DEF Shape, AllocatePrefix
<1>9. CASE AddressLeafEnd(s) \/ AddressServerEnd(s)
  BY <1>1, <1>9, LeafEndTyped, ServerEndTyped DEF Shape, AddressLeafEnd, AddressServerEnd
<1>10. CASE PeerLeaf(s) \/ PeerServer(s)
  <2>1. HasPort(s)
    BY <1>1, <1>10 DEF PeerLeaf, PeerServer, UpsertSession
  <2>. QED
    BY <1>10, <2>1, SessionTyped DEF Shape
<1>11. CASE AttachSegmentRack(s)
  BY <1>1, <1>11, AttachTyped DEF Shape, AttachSegmentRack
<1>12. CASE RecordPlacement(s)
  BY <1>1, <1>12, RecordTyped DEF Shape, RecordPlacement
<1>13. CASE Stamp(s)
  BY <1>1, <1>13, StampTyped DEF Shape, Stamp
<1>. QED
  BY <1>3, <1>4, <1>5, <1>6, <1>7, <1>8, <1>9, <1>10, <1>11, <1>12, <1>13 DEF RunStep

LEMMA RunStepShaped == ASSUME Shape, NEW s \in Services, RunStep(s) PROVE Shape'
<1>1. RunsOK'
  BY RunsOKReleasing, RunsOKAttaching DEF Shape, RunStep
<1>. QED
  BY <1>1, RunStepTyped DEF Shape

LEMMA ShapeAtFirst == Init => Shape
<1>. SUFFICES ASSUME Init PROVE Shape
  OBVIOUS
<1>1. NoServer \in ServerRecord /\ Clean \in PortRecord
  BY DEF NoServer, Clean, ServerRecord, PortRecord
<1>2. Unstamped \in [id: Nat, port: Ports \cup {None}]
  BY DEF Unstamped
<1>3. TypeOK
  BY <1>1, <1>2, IdleIsRun, OperatorInputs
     DEF Init, TypeOK, ServerRecord, PortRecord, RunRecord
<1>4. RunsOK
  BY IdleIsRun DEF Init, RunsOK, Releasing
<1>. QED
  BY <1>3, <1>4 DEF Shape

\* Edits, deletions and everything else around the runs.
LEMMA AroundShaped ==
    ASSUME Shape, NEW s \in Services,
           \/ Die(s) \/ DeleteServer(s) \/ RunAgain(s) \/ FabricReady
           \/ \E x \in Edits : Edit(s, x)
    PROVE  Shape'
<1>1. CASE Die(s)
  <2>1. failures' \in Nat
    BY <1>1 DEF Die, Shape, TypeOK
  <2>2. TypeOK'
    BY <1>1, <2>1, GiveUpTyped DEF Die, Shape
  <2>3. RunsOK'
    BY <1>1, RunsOKIdle DEF Die, GiveUp, Shape
  <2>. QED
    BY <2>2, <2>3 DEF Shape
<1>2. CASE DeleteServer(s)
  <2>1. [NoServer EXCEPT !.id = server[s].id + 1] \in ServerRecord
    BY Typed DEF Shape, NoServer, ServerRecord
  <2>2. server' \in [Services -> ServerRecord]
    BY <1>2, <2>1, Typed DEF DeleteServer, Shape
  <2>. QED
    BY <1>2, <2>2, SMTT(30) DEF DeleteServer, Shape, TypeOK, RunsOK, HasPort, ServerRecord, pools
<1>3. CASE RunAgain(s)
  BY <1>3 DEF RunAgain, Shape, TypeOK, RunsOK, HasPort, service, graph, pools, around
<1>4. CASE FabricReady
  BY <1>4 DEF FabricReady, Shape, TypeOK, RunsOK, HasPort, service, graph, around
<1>5. ASSUME NEW x \in Edits, Edit(s, x) PROVE Shape'
  <2>1. asked' \in [Services -> Ask] /\ wish' \in [Services -> Ask]
    <3>1. \A a \in Ask : /\ x \in Racks => [a EXCEPT !.rack = x] \in Ask
                         /\ x \in Ports => [a EXCEPT !.port = x] \in Ask
      BY DEF Ask
    <3>2. Nothing \in Ask
      BY DEF Nothing, Ask
    <3>3. x \in Racks \/ x \in Ports
      BY OperatorInputs
    <3>4. asked \in [Services -> Ask] /\ wish \in [Services -> Ask]
      BY DEF Shape, TypeOK
    <3>5. asked[s] \in Ask
      BY <3>4
    <3>6. CASE x \in Racks
      <4>. DEFINE a == [asked[s] EXCEPT !.rack = x]
                  w == [Nothing EXCEPT !.rack = x]
      <4>1. asked' = [asked EXCEPT ![s] = a] /\ wish' = [wish EXCEPT ![s] = w]
        BY <1>5, <3>6 DEF Edit
      <4>2. a \in Ask /\ w \in Ask
        BY <3>1, <3>2, <3>5, <3>6
      <4>. HIDE DEF a, w
      <4>. QED
        BY <3>4, <4>1, <4>2
    <3>7. CASE x \notin Racks
      <4>. DEFINE a == [asked[s] EXCEPT !.port = x]
                  w == [Nothing EXCEPT !.port = x]
      <4>1. asked' = [asked EXCEPT ![s] = a] /\ wish' = [wish EXCEPT ![s] = w]
        BY <1>5, <3>7 DEF Edit
      <4>2. a \in Ask /\ w \in Ask
        BY <3>1, <3>2, <3>3, <3>5, <3>7
      <4>. HIDE DEF a, w
      <4>. QED
        BY <3>4, <4>1, <4>2
    <3>. QED
      BY <3>6, <3>7
  <2>2. changes' \in Nat /\ stale' \subseteq Services
    BY <1>5 DEF Edit, Shape, TypeOK
  <2>. QED
    BY <1>5, <2>1, <2>2 DEF Edit, Shape, TypeOK, RunsOK, HasPort, graph, pools
<1>. QED
  BY <1>1, <1>2, <1>3, <1>4, <1>5

LEMMA ShapePreserved == Shape /\ [Next]_vars => Shape'
<1>1. ASSUME Shape, FabricReady PROVE Shape'
  BY <1>1 DEF FabricReady, Shape, TypeOK, RunsOK, HasPort, service, graph, around
<1>2. ASSUME Shape, UNCHANGED vars PROVE Shape'
  BY <1>2 DEF Shape, TypeOK, RunsOK, HasPort, vars
<1>. QED
  BY <1>1, <1>2, RunStepShaped, AroundShaped DEF Next

LEMMA ShapeAlways == Spec => []Shape
BY ShapeAtFirst, ShapePreserved, PTL DEF Spec

(* The graph, the runs and the books of the operator are well typed for any   *)
(* services, topology and bounds (ServerGenerator).                           *)
THEOREM ServerTypeCorrect == Spec => []TypeOK
<1>1. Shape => TypeOK
  BY DEF Shape
<1>. QED
  BY <1>1, ShapeAlways, PTL

-----------------------------------------------------------------------------
(* Who is on which port                                                     *)

Attaching == {"asn", "overlay", "prefix", "leafend", "serverend", "up", "down", "attach",
              "record", "stamp"}

\* A port points at the server that is plugged into it, and no server that was
\* never placed is plugged into anything.
Wired(s) ==
    /\ \A p \in Ports : port[p].link = s => server[s].link = p
    /\ server[s].link # None => Exists(s)

\* Only a plugged port has an address.
Addressed == \A p \in Ports : port[p].ip # None => port[p].link # None

\* A run releases the port its server is on and no other, and holds the port it
\* has cabled until it ends.
Held(s) ==
    LET r == run[s] IN
    /\ r.pc = "server" => \/ r.drop = << >>
                          \/ \E q \in Ports : r.drop = <<q>> /\ port[q].link = s
    /\ r.pc = "detach" => \E q \in Ports : r.drop = <<q>> /\ port[q].link = s
    /\ r.pc = "unlink" => /\ r.link = s
                          /\ \E q \in Ports : r.drop = <<q>> /\ port[q].link # s
    /\ r.pc = "unaddress" => \E q \in Ports : r.drop = <<q>>
    /\ r.pc \in Attaching => Attached(s, r.port)

Wiring == Addressed /\ \A s \in Services : Wired(s) /\ Held(s)
WiringInv == Shape /\ Wiring

\* A step that touches no service but s, and no cable but its own.
OnlyOwn(s) ==
    /\ \A p \in Ports : \/ port'[p].link = port[p].link
                        \/ {port'[p].link, port[p].link} \subseteq {s, None}
    /\ \A y \in Services \ {s} : server'[y] = server[y] /\ run'[y] = run[y]

\* What a step of s does to the port its server holds.
Keeps(s) == Holds(s)' = Holds(s)
Underway(s) == /\ run[s].pc # "idle" /\ run'[s].pc # "idle"
               /\ server'[s].rack = server[s].rack
GivesBack(s) == Underway(s) /\ Holds(s) # None /\ Holds(s)' = None
Takes(s) == /\ Underway(s) /\ Exists(s) /\ Holds(s) = None /\ Holds(s)' \in Ports
            /\ \A y \in Services : Holds(y) # Holds(s)'

\* A step of s that moves no cable.
LEMMA QuietStep ==
    ASSUME WiringInv, NEW s \in Services,
           \A p \in Ports : port'[p].link = port[p].link,
           \A y \in Services : server'[y].link = server[y].link /\ (Exists(y) => Exists(y)'),
           \A y \in Services \ {s} : server'[y] = server[y] /\ run'[y] = run[y],
           Held(s)', Addressed'
    PROVE  Wiring' /\ OnlyOwn(s) /\ Keeps(s)
<1>1. \A y \in Services : Wired(y)'
  BY DEF WiringInv, Wiring, Wired
<1>2. ASSUME NEW y \in Services \ {s} PROVE Held(y)'
  <2>1. Held(y) /\ run'[y] = run[y] /\ server'[y].link = server[y].link
    BY <1>2 DEF WiringInv, Wiring
  <2>2. run[y].pc \in Attaching => run[y].port \in Ports
    BY <1>2 DEF WiringInv, Shape, RunsOK, HasPort, Attaching
  <2>. QED
    BY <2>1, <2>2 DEF Held, Attached
<1>3. Keeps(s)
  <2>1. server[s].link \in Ports \cup {None}
    BY Typed DEF WiringInv, Shape, ServerRecord
  <2>. QED
    BY <2>1 DEF Keeps, Holds, Attached
<1>. QED
  BY <1>1, <1>2, <1>3 DEF Wiring, OnlyOwn

\* A step that leaves the graph's cables and addresses as they are.
LEMMA NoCableTouched ==
    ASSUME WiringInv, NEW s \in Services,
           UNCHANGED port, \A y \in Services \ {s} : server'[y] = server[y],
           server'[s].link = server[s].link /\ (Exists(s) => Exists(s)'),
           NEW r \in RunRecord, run' = [run EXCEPT ![s] = r], Held(s)'
    PROVE  Wiring' /\ OnlyOwn(s) /\ Keeps(s)
<1>1. Addressed'
  BY DEF WiringInv, Wiring, Addressed
<1>2. \A y \in Services \ {s} : server'[y] = server[y] /\ run'[y] = run[y]
  BY Typed DEF WiringInv, Shape
<1>3. \A y \in Services : server'[y].link = server[y].link /\ (Exists(y) => Exists(y)')
  BY <1>2 DEF Exists
<1>. QED
  BY <1>1, <1>2, <1>3, QuietStep

LEMMA GiveUpWired ==
    ASSUME WiringInv, NEW s \in Services, UNCHANGED <<server, port>>,
           run' = [run EXCEPT ![s] = Idle]
    PROVE  Wiring' /\ OnlyOwn(s) /\ Keeps(s)
<1>1. run'[s] = Idle
  BY Typed DEF WiringInv, Shape
<1>2. Held(s)'
  BY <1>1, IdleIsRun DEF Held, Attaching
<1>. QED
  BY <1>2, IdleIsRun, NoCableTouched DEF Exists

LEMMA RaiseWired == ASSUME WiringInv, NEW s \in Services, Raise(s) PROVE Wiring' /\ OnlyOwn(s) /\ Keeps(s)
BY GiveUpWired DEF Raise, GiveUp, graph

\* A run that moves on, and had its port cabled if it is said to.
LEMMA GotoWired ==
    ASSUME WiringInv, NEW s \in Services, NEW pc \in Places \ Releasing, pc # "server",
           Goto(s, pc), pc \in Attaching => run[s].pc \in Attaching,
           \A p \in Ports : port'[p].link = port[p].link, Addressed',
           \A y \in Services \ {s} : server'[y] = server[y],
           server'[s].link = server[s].link /\ (Exists(s) => Exists(s)')
    PROVE  Wiring' /\ OnlyOwn(s) /\ Keeps(s)
<1>1. run'[s].pc = pc /\ run'[s].port = run[s].port
  BY Typed DEF WiringInv, Shape, Goto, RunRecord
<1>2. \A y \in Services \ {s} : server'[y] = server[y] /\ run'[y] = run[y]
  BY Typed DEF WiringInv, Shape, Goto
<1>3. pc \in Attaching => Attached(s, run[s].port) /\ run[s].port \in Ports
  BY DEF WiringInv, Wiring, Held, Shape, RunsOK, HasPort, Attaching
<1>4. Held(s)'
  BY <1>1, <1>3 DEF Held, Attached, Releasing
<1>5. \A y \in Services : server'[y].link = server[y].link /\ (Exists(y) => Exists(y)')
  BY <1>2 DEF Exists
<1>. QED
  BY <1>2, <1>4, <1>5, QuietStep

LEMMA StartWired == ASSUME WiringInv, NEW s \in Services, Start(s) PROVE Wiring' /\ OnlyOwn(s) /\ Keeps(s)
<1>. DEFINE r == [Idle EXCEPT !.pc = "resolve", !.ask = asked[s]]
<1>1. r \in RunRecord /\ r.pc = "resolve"
  BY IdleIsRun DEF WiringInv, Shape, TypeOK, RunRecord, Places
<1>2. run' = [run EXCEPT ![s] = r]
  BY DEF Start
<1>. HIDE DEF r
<1>3. run'[s] = r
  BY <1>2, Typed DEF WiringInv, Shape
<1>4. Held(s)'
  BY <1>1, <1>3 DEF Held, Attaching
<1>. QED
  BY <1>1, <1>2, <1>4, NoCableTouched DEF Start, graph, Exists

-----------------------------------------------------------------------------
(* Selection chooses a port nobody is on                                    *)

LEMMA SelectedIsFree == \A r : SelectPort(r) # None => Free(SelectPort(r))
<1>. SUFFICES ASSUME NEW r, FreePorts(r) # {} PROVE Free(Lowest(FreePorts(r)))
  BY DEF SelectPort
<1>1. FreePorts(r) \subseteq Ports
  BY DEF FreePorts
<1>2. Lowest(FreePorts(r)) \in FreePorts(r)
  BY <1>1, LowestIsMember
<1>. QED
  BY <1>2 DEF FreePorts

\* What a run may take is free, or has its own server on it.
LEMMA TakableIsOwn ==
    ASSUME WiringInv, NEW s \in Services, NEW p \in Ports, CanTake(s, p)
    PROVE  Free(p) \/ port[p].link = s
<1>1. port[p] \in PortRecord
  BY Typed DEF WiringInv, Shape
<1>2. port[p].link = None => port[p].ip = None
  BY DEF WiringInv, Wiring, Addressed
<1>3. port[p].link = None => Free(p)
  BY <1>1, <1>2 DEF Free, Clean, PortRecord
<1>4. port[p].link # None => server[port[p].link].link = p
  BY <1>1 DEF WiringInv, Wiring, Wired, PortRecord
<1>. QED
  BY <1>3, <1>4 DEF CanTake, Reclaimable

LEMMA OwnIsExisting ==
    ASSUME WiringInv, NEW s \in Services, NEW p \in Ports, port[p].link = s
    PROVE  Existing(s) = p
<1>1. server[s].link = p
  BY DEF WiringInv, Wiring, Wired
<1>2. p # None
  BY TopologyIsTree
<1>3. Exists(s)
  BY <1>1, <1>2 DEF WiringInv, Wiring, Wired
<1>. QED
  BY <1>1, <1>2, <1>3 DEF Existing, PlacedServer, Attached

LEMMA ExplicitIsOwn ==
    ASSUME WiringInv, NEW s \in Services, NEW r, NEW p \in Ports \cup {None},
           Explicit(s, r, p) # None
    PROVE  Free(Explicit(s, r, p)) \/ Explicit(s, r, p) = Existing(s)
<1>1. CASE p = None
  BY <1>1, SelectedIsFree DEF Explicit
<1>2. CASE p # None
  <2>1. CanTake(s, p) /\ Explicit(s, r, p) = p /\ p \in Ports
    BY <1>2 DEF Explicit
  <2>. QED
    BY <2>1, TakableIsOwn, OwnIsExisting
<1>. QED
  BY <1>1, <1>2

LEMMA PlacementIsOwn ==
    ASSUME WiringInv, NEW s \in Services, Placement(s) # None
    PROVE  Free(Placement(s)) \/ Placement(s) = Existing(s)
<1>1. run[s].ask \in Ask
  BY DEF WiringInv, Shape, TypeOK
<1>2. \A p \in Ports : Moved(run[s].ask, p).port \in Ports \cup {None}
  BY <1>1 DEF Moved, Ask
<1>3. run[s].ask.port \in Ports \cup {None}
  BY <1>1 DEF Ask
<1>4. Existing(s) # None => Existing(s) \in Ports
  BY ExistingIsPort DEF WiringInv, Shape
<1>. QED
  BY <1>2, <1>3, <1>4, ExplicitIsOwn, SelectedIsFree DEF Placement

\* So a run has one port to release at most, the one its server is on.
LEMMA ReleasedIsOwn ==
    ASSUME WiringInv, NEW s \in Services, Placement(s) # None
    PROVE  \/ Released(s, Placement(s)) = << >>
           \/ \E q \in Ports : Released(s, Placement(s)) = <<q>> /\ port[q].link = s
<1>1. CASE Placement(s) = Existing(s)
  BY <1>1 DEF Released
<1>2. CASE Placement(s) # Existing(s)
  <2>1. Free(Placement(s))
    BY <1>2, PlacementIsOwn
  <2>2. CASE Existing(s) = None
    BY <1>2, <2>1, <2>2 DEF Released
  <2>3. CASE Existing(s) # None
    <3>1. Existing(s) \in Ports /\ port[Existing(s)].link = s
      BY <2>3, ExistingIsPort DEF Existing, Attached, WiringInv, Shape
    <3>2. Released(s, Placement(s)) = <<Existing(s)>> \o << >>
      BY <1>2, <2>1, <2>3 DEF Released
    <3>3. <<Existing(s)>> \o << >> = <<Existing(s)>>
      BY <3>1
    <3>. QED
      BY <3>1, <3>2, <3>3
  <2>. QED
    BY <2>2, <2>3
<1>. QED
  BY <1>1, <1>2

-----------------------------------------------------------------------------
(* Every step keeps the wiring                                              *)

LEMMA ResolveWired == ASSUME WiringInv, NEW s \in Services, Resolve(s) PROVE Wiring' /\ OnlyOwn(s) /\ Keeps(s)
<1>1. CASE Placement(s) = None
  BY <1>1, RaiseWired DEF Resolve
<1>2. CASE Placement(s) # None
  <2>. DEFINE d == Released(s, Placement(s))
              r == [run[s] EXCEPT !.pc = "server", !.port = Placement(s), !.drop = d]
  <2>1. Placement(s) \in Ports /\ d \in Seq(Ports)
    BY <1>2, PlacementIsPort, ReleasedArePorts DEF WiringInv, Shape
  <2>2. run' = [run EXCEPT ![s] = r]
    BY <1>2 DEF Resolve
  <2>3. \/ d = << >>
        \/ \E q \in Ports : d = <<q>> /\ port[q].link = s
    BY <1>2, ReleasedIsOwn
  <2>. HIDE DEF d
  <2>4. r \in RunRecord /\ r.pc = "server" /\ r.drop = d
    BY <2>1, Typed, ZenonT(40) DEF WiringInv, Shape, RunRecord, Places
  <2>. HIDE DEF r
  <2>5. run'[s] = r
    BY <2>2, Typed DEF WiringInv, Shape
  <2>6. UNCHANGED <<server, port>>
    BY <1>2 DEF Resolve, graph
  <2>7. Held(s)'
    BY <2>3, <2>4, <2>5, <2>6 DEF Held, Attaching
  <2>. QED
    BY <2>2, <2>4, <2>6, <2>7, NoCableTouched DEF Exists
<1>. QED
  BY <1>1, <1>2

LEMMA MaterializeWired == ASSUME WiringInv, NEW s \in Services, MaterializeServer(s) PROVE Wiring' /\ OnlyOwn(s) /\ Keeps(s)
<1>. DEFINE pc == IF run[s].drop = << >> THEN "cable" ELSE "detach"
            r  == [run[s] EXCEPT !.id = server[s].id, !.pc = pc]
<1>1. server[s].id \in Nat /\ pc \in Places /\ run[s] \in RunRecord
  BY Typed DEF WiringInv, Shape, ServerRecord, Places
<1>2. run' = [run EXCEPT ![s] = r]
  BY DEF MaterializeServer
<1>3. r \in RunRecord /\ r.pc = pc /\ r.drop = run[s].drop /\ r.port = run[s].port
  <2>. HIDE DEF pc
  <2>. QED
    BY <1>1 DEF RunRecord
<1>4. \/ run[s].drop = << >>
      \/ \E q \in Ports : run[s].drop = <<q>> /\ port[q].link = s
  BY DEF WiringInv, Wiring, Held, MaterializeServer
<1>. HIDE DEF r
<1>5. run'[s] = r /\ UNCHANGED port
  BY <1>2, Typed DEF WiringInv, Shape, MaterializeServer
<1>6. Held(s)'
  BY <1>3, <1>4, <1>5 DEF Held, Attaching
<1>7. /\ \A y \in Services \ {s} : server'[y] = server[y]
      /\ server'[s].link = server[s].link /\ (Exists(s) => Exists(s)')
  <2>1. RackOfPort(run[s].port) # None
    BY RackOfPortIsRack, TopologyIsTree, ZenonT(40)
       DEF WiringInv, Shape, RunsOK, HasPort, MaterializeServer
  <2>. QED
    BY <2>1, Typed DEF WiringInv, Shape, MaterializeServer, Exists, ServerRecord
<1>. QED
  BY <1>2, <1>3, <1>5, <1>6, <1>7, NoCableTouched

\* A step of s that touches no cable of another service.
LEMMA CableStep ==
    ASSUME WiringInv, NEW s \in Services,
           OnlyOwn(s), Wired(s)', Held(s)', Addressed'
    PROVE  Wiring'
<1>1. ASSUME NEW y \in Services \ {s} PROVE Wired(y)' /\ Held(y)'
  <2>1. Held(y) /\ Wired(y) /\ run'[y] = run[y] /\ server'[y] = server[y]
    BY <1>1 DEF WiringInv, Wiring, OnlyOwn
  <2>2. \A p \in Ports : port'[p].link = y <=> port[p].link = y
    BY <1>1, TopologyIsTree DEF OnlyOwn
  <2>3. run[y].pc \in Attaching => run[y].port \in Ports
    BY <1>1 DEF WiringInv, Shape, RunsOK, HasPort, Attaching
  <2>4. Wired(y)'
    BY <2>1, <2>2 DEF Wired, Exists
  <2>5. Held(y)'
    BY <2>1, <2>2, <2>3 DEF Held, Attached
  <2>. QED
    BY <2>4, <2>5
<1>. QED
  BY <1>1 DEF Wiring

LEMMA DetachWired == ASSUME WiringInv, NEW s \in Services, Detach(s) PROVE Wiring' /\ OnlyOwn(s) /\ (Keeps(s) \/ GivesBack(s))
<1>1. CASE ~Exists(s)
  BY <1>1, RaiseWired DEF Detach
<1>2. CASE Exists(s)
  <2>1. PICK q \in Ports : run[s].drop = <<q>> /\ port[q].link = s
    BY DEF WiringInv, Wiring, Held, Detach
  <2>2. Head(run[s].drop) = q
    BY <2>1
  <2>3. port' = [port EXCEPT ![q] = Clean] /\ UNCHANGED server
    BY <1>2, <2>2 DEF Detach
  <2>4. \A p \in Ports : port'[p] = IF p = q THEN Clean ELSE port[p]
    BY <2>3, Typed DEF WiringInv, Shape
  <2>5. \A y \in Services \ {s} : run'[y] = run[y]
    BY <1>2, Typed DEF Detach, WiringInv, Shape
  <2>6. run'[s].pc = "unlink" /\ run'[s].link = s /\ run'[s].drop = <<q>>
    <3>. DEFINE h == Head(run[s].drop)
                x == port[h].link
                nets == {port[h].ip, server[s].ip} \ {None}
                left == run[s].left \cup ({LeafOf[h]} \ {LeafOf[run[s].port]})
                r == [run[s] EXCEPT !.pc = "unlink", !.link = x, !.nets = nets, !.left = left]
    <3>1. run' = [run EXCEPT ![s] = r]
      BY <1>2 DEF Detach
    <3>2. r.pc = "unlink" /\ r.link = s /\ r.drop = <<q>>
      <4>1. run[s] \in RunRecord
        BY Typed DEF WiringInv, Shape
      <4>2. x = s
        BY <2>1, <2>2
      <4>. HIDE DEF x, nets, left
      <4>. QED
        BY <2>1, <4>1, <4>2 DEF RunRecord
    <3>. HIDE DEF r
    <3>. QED
      BY <3>1, <3>2, Typed DEF WiringInv, Shape
  <2>7. Clean.link = None /\ Clean.ip = None
    BY DEF Clean
  <2>8. Held(s)'
    BY <2>4, <2>6, <2>7, TopologyIsTree DEF Held, Attaching
  <2>9. Wired(s)'
    BY <2>3, <2>4, <2>7, TopologyIsTree DEF Wired, WiringInv, Wiring, Exists
  <2>10. Addressed'
    BY <2>4, <2>7 DEF Addressed, WiringInv, Wiring
  <2>. QED
    <3>1. OnlyOwn(s)
      BY <2>1, <2>3, <2>4, <2>5, <2>7 DEF OnlyOwn
    <3>2. server[s].link = q /\ q # None /\ port'[q].link # s
      BY <2>1, <2>4, <2>7, TopologyIsTree DEF WiringInv, Wiring, Wired
    <3>3. Holds(s) = q /\ Holds(s)' = None
      BY <2>1, <2>3, <3>2 DEF Holds, Attached
    <3>4. GivesBack(s)
      BY <2>3, <2>6, <3>2, <3>3 DEF GivesBack, Underway, Detach
    <3>. QED
      BY <2>8, <2>9, <2>10, <3>1, <3>4, CableStep
<1>. QED
  BY <1>1, <1>2

LEMMA UnlinkWired == ASSUME WiringInv, NEW s \in Services, Unlink(s) PROVE Wiring' /\ OnlyOwn(s) /\ Keeps(s)
<1>1. CASE Raise(s)
  BY <1>1, RaiseWired
<1>2. CASE ~Raise(s)
  <2>1. PICK q \in Ports : run[s].drop = <<q>> /\ port[q].link # s
    BY DEF WiringInv, Wiring, Held, Unlink
  <2>2. run[s].link = s
    BY DEF WiringInv, Wiring, Held, Unlink
  <2>3. Head(run[s].drop) = q
    BY <2>1
  <2>4. /\ server' = [y \in Services |-> IF y = s /\ server[y].link = q
                                         THEN [server[y] EXCEPT !.link = None] ELSE server[y]]
        /\ port' = [port EXCEPT ![q].link = IF @ = s THEN None ELSE @]
        /\ Goto(s, "unaddress")
    BY <1>2, <2>2, <2>3 DEF Unlink
  <2>5. \A p \in Ports : port'[p] = port[p]
    BY <2>1, <2>4, Typed DEF WiringInv, Shape, PortRecord
  <2>6. \A y \in Services \ {s} : server'[y] = server[y] /\ run'[y] = run[y]
    BY <2>4, Typed DEF WiringInv, Shape, Goto
  <2>7. /\ server'[s].link = IF server[s].link = q THEN None ELSE server[s].link
        /\ server'[s].rack = server[s].rack
    BY <2>4, Typed DEF WiringInv, Shape, ServerRecord
  <2>8. Wired(s)'
    BY <2>1, <2>5, <2>7 DEF Wired, WiringInv, Wiring, Exists
  <2>9. Held(s)'
    <3>1. run'[s].pc = "unaddress" /\ run'[s].drop = <<q>>
      BY <2>1, <2>4, Typed DEF WiringInv, Shape, Goto, RunRecord
    <3>. QED
      BY <3>1 DEF Held, Attaching
  <2>10. Addressed'
    BY <2>5 DEF Addressed, WiringInv, Wiring
  <2>. QED
    <3>1. OnlyOwn(s)
      BY <2>5, <2>6 DEF OnlyOwn
    <3>2. server[s].link \in Ports \cup {None}
      BY Typed DEF WiringInv, Shape, ServerRecord
    <3>3. Keeps(s)
      BY <2>1, <2>5, <2>7, <3>2 DEF Keeps, Holds, Attached
    <3>. QED
      BY <2>8, <2>9, <2>10, <3>1, <3>3, CableStep
<1>. QED
  BY <1>1, <1>2

LEMMA UnaddressWired == ASSUME WiringInv, NEW s \in Services, Unaddress(s) PROVE Wiring' /\ OnlyOwn(s) /\ Keeps(s)
<1>1. PICK q \in Ports : run[s].drop = <<q>>
  BY DEF WiringInv, Wiring, Held, Unaddress
<1>2. run'[s].pc = "unpeer"
  <2>1. ~(Len(run[s].drop) > 1)
    BY <1>1
  <2>. QED
    BY <2>1, Typed DEF WiringInv, Shape, Unaddress, RunRecord
<1>3. \A y \in Services \ {s} : server'[y] = server[y] /\ run'[y] = run[y]
  BY Typed DEF WiringInv, Shape, Unaddress
<1>4. \A p \in Ports : /\ port'[p].link = port[p].link
                       /\ port'[p].ip \in {port[p].ip, None}
  BY Typed DEF WiringInv, Shape, Unaddress, PortRecord
<1>5. \A y \in Services : server'[y].link = server[y].link /\ (Exists(y) => Exists(y)')
  BY Typed DEF WiringInv, Shape, Unaddress, ServerRecord, Exists
<1>6. Held(s)'
  BY <1>2 DEF Held, Attaching
<1>7. Addressed'
  BY <1>4 DEF Addressed, WiringInv, Wiring
<1>. QED
  BY <1>3, <1>4, <1>5, <1>6, <1>7, QuietStep

\* The platform refuses the cable unless both its ends are free or on it.
LEMMA CableWired ==
    ASSUME RefuseSecondCable, WiringInv, NEW s \in Services, Cable(s) PROVE Wiring' /\ OnlyOwn(s) /\ (Keeps(s) \/ Takes(s))
<1>. DEFINE p == run[s].port
<1>1. CASE Raise(s)
  BY <1>1, RaiseWired
<1>2. CASE ~Raise(s)
  <2>1. p \in Ports
    BY DEF WiringInv, Shape, RunsOK, HasPort, Cable
  <2>2. port[p].link \in {None, s} /\ server[s].link \in {None, p} /\ Exists(s)
    BY <1>2, Zenon DEF Cable
  <2>3. /\ port' = [port EXCEPT ![p].link = s]
        /\ server' = [server EXCEPT ![s].link = p]
        /\ Goto(s, IF Layer[s] = "l3" THEN "asn" ELSE "attach")
    BY <1>2, Zenon DEF Cable
  <2>4. \A q \in Ports : /\ port'[q].link = IF q = p THEN s ELSE port[q].link
                         /\ port'[q].ip = port[q].ip
    BY <2>3, Typed DEF WiringInv, Shape, PortRecord
  <2>5. server'[s].link = p /\ server'[s].rack = server[s].rack
    BY <2>3, Typed DEF WiringInv, Shape, ServerRecord
  <2>6. \A y \in Services \ {s} : server'[y] = server[y] /\ run'[y] = run[y]
    BY <2>3, Typed DEF WiringInv, Shape, Goto
  <2>7. Wired(s)'
    <3>1. \A q \in Ports : port[q].link = s => q = p
      BY <2>2, TopologyIsTree DEF WiringInv, Wiring, Wired
    <3>. QED
      BY <2>2, <2>4, <2>5, <3>1 DEF Wired, Exists
  <2>8. Held(s)'
    <3>1. run'[s].pc \in {"asn", "attach"} /\ run'[s].port = p
      BY <2>3, Typed DEF WiringInv, Shape, Goto, RunRecord
    <3>2. server'[s].link = p /\ port'[p].link = s
      BY <2>1, <2>4, <2>5
    <3>. QED
      BY <3>1, <3>2 DEF Held, Attached
  <2>9. Addressed'
    BY <2>4, TopologyIsTree DEF Addressed, WiringInv, Wiring
  <2>. QED
    <3>1. OnlyOwn(s)
      BY <2>2, <2>4, <2>6 DEF OnlyOwn
    <3>2. p # None
      BY <2>1, TopologyIsTree
    <3>3. Holds(s)' = p
      BY <2>1, <2>4, <2>5, <3>2 DEF Holds, Attached
    <3>4. CASE Holds(s) = p
      BY <2>7, <2>8, <2>9, <3>1, <3>3, <3>4, CableStep DEF Keeps
    <3>5. CASE Holds(s) # p
      <4>1. Holds(s) = None
        BY <2>2, <3>5 DEF Holds
      <4>2. \A y \in Services : Holds(y) = p => port[p].link = y /\ y # None
        BY <3>2, TopologyIsTree DEF Holds, Attached
      <4>3. \A y \in Services : Holds(y) # p
        BY <2>2, <3>5, <4>2
      <4>4. run[s].pc = "cable" /\ run'[s].pc # "idle"
        BY <2>3, Typed DEF Cable, WiringInv, Shape, Goto, RunRecord
      <4>5. Takes(s)
        BY <2>1, <2>2, <2>5, <3>3, <4>1, <4>3, <4>4 DEF Takes, Underway
      <4>. QED
        BY <2>7, <2>8, <2>9, <3>1, <4>5, CableStep
    <3>. QED
      BY <3>4, <3>5
<1>. QED
  BY <1>1, <1>2

LEMMA AddressLeafEndWired ==
    ASSUME WiringInv, NEW s \in Services, AddressLeafEnd(s) PROVE Wiring' /\ OnlyOwn(s) /\ Keeps(s)
<1>. DEFINE p == run[s].port
<1>1. p \in Ports /\ port[p].link = s
  BY DEF AddressLeafEnd, WiringInv, Shape, RunsOK, HasPort, Wiring, Held, Attaching, Attached
<1>2. /\ port' = [port EXCEPT ![p].ip = Own(s)] /\ server' = server
      /\ Goto(s, "serverend") /\ run[s].pc = "leafend"
  BY DEF AddressLeafEnd
<1>3. \A q \in Ports : /\ port'[q].link = port[q].link
                       /\ q # p => port'[q].ip = port[q].ip
  BY <1>2, Typed DEF WiringInv, Shape, PortRecord
<1>4. Addressed'
  BY <1>1, <1>3, TopologyIsTree DEF Addressed, WiringInv, Wiring
<1>5. "serverend" \in Places \ Releasing /\ {"leafend", "serverend"} \subseteq Attaching
  BY DEF Places, Releasing, Attaching
<1>. QED
  BY <1>2, <1>3, <1>4, <1>5, GotoWired DEF Exists

LEMMA AddressServerEndWired ==
    ASSUME WiringInv, NEW s \in Services, AddressServerEnd(s)
    PROVE  Wiring' /\ OnlyOwn(s) /\ Keeps(s)
<1>1. CASE ~Exists(s)
  BY <1>1, RaiseWired DEF AddressServerEnd
<1>2. CASE Exists(s)
  <2>1. /\ port' = port /\ server' = [server EXCEPT ![s].ip = Own(s)]
        /\ Goto(s, "up") /\ run[s].pc = "serverend"
    BY <1>2 DEF AddressServerEnd
  <2>2. /\ \A y \in Services \ {s} : server'[y] = server[y]
        /\ server'[s].link = server[s].link /\ server'[s].rack = server[s].rack
    BY <2>1, Typed DEF WiringInv, Shape, ServerRecord
  <2>3. Addressed'
    BY <2>1 DEF Addressed, WiringInv, Wiring
  <2>4. "up" \in Places \ Releasing /\ {"up", "serverend"} \subseteq Attaching
    BY DEF Places, Releasing, Attaching
  <2>. QED
    BY <2>1, <2>2, <2>3, <2>4, GotoWired DEF Exists
<1>. QED
  BY <1>1, <1>2

\* The steps that write neither a cable nor an address.
LEMMA OtherStepsWired ==
    ASSUME WiringInv, NEW s \in Services,
           \/ Unpeer(s) \/ AllocateAsn(s) \/ ResolveOverlayAsn(s) \/ AllocatePrefix(s)
           \/ PeerLeaf(s) \/ PeerServer(s) \/ AttachSegmentRack(s) \/ RecordPlacement(s)
    PROVE  Wiring' /\ OnlyOwn(s) /\ Keeps(s)
<1>1. CASE Raise(s)
  BY <1>1, RaiseWired
<1>2. CASE ~Raise(s)
  <2>1. Addressed
    BY DEF WiringInv, Wiring
  <2>2. PICK pc \in Places \ Releasing :
           Goto(s, pc) /\ pc # "server" /\ (pc \in Attaching => run[s].pc \in Attaching)
    <3>1. {"cable", "overlay", "prefix", "leafend", "down", "record", "stamp"}
            \subseteq Places \ (Releasing \cup {"server"})
      BY DEF Places, Releasing
    <3>2. "cable" \notin Attaching /\ {"asn", "overlay", "prefix", "up", "down", "attach", "record"}
                                        \subseteq Attaching
      BY DEF Attaching
    <3>3. CASE Unpeer(s)
      BY <3>1, <3>2, <3>3 DEF Unpeer
    <3>4. CASE AllocateAsn(s)
      <4>1. run[s].pc = "asn" /\ Goto(s, "overlay")
        BY <1>2, <3>4, Zenon DEF AllocateAsn
      <4>. QED
        BY <3>1, <3>2, <4>1
    <3>5. CASE ResolveOverlayAsn(s)
      <4>1. run[s].pc = "overlay" /\ Goto(s, "prefix")
        BY <1>2, <3>5, Zenon DEF ResolveOverlayAsn
      <4>. QED
        BY <3>1, <3>2, <4>1
    <3>6. CASE AllocatePrefix(s)
      BY <3>1, <3>2, <3>6 DEF AllocatePrefix
    <3>7. CASE PeerLeaf(s)
      <4>1. run[s].pc = "up" /\ Goto(s, "down")
        BY <1>2, <3>7, Zenon DEF PeerLeaf, UpsertSession
      <4>. QED
        BY <3>1, <3>2, <4>1
    <3>8. CASE PeerServer(s)
      <4>1. run[s].pc = "down" /\ Goto(s, "record")
        BY <1>2, <3>8, Zenon DEF PeerServer, UpsertSession
      <4>. QED
        BY <3>1, <3>2, <4>1
    <3>9. CASE AttachSegmentRack(s)
      BY <3>1, <3>2, <3>9 DEF AttachSegmentRack
    <3>10. CASE RecordPlacement(s)
      <4>1. run[s].pc = "record" /\ Goto(s, "stamp")
        BY <1>2, <3>10, Zenon DEF RecordPlacement
      <4>. QED
        BY <3>1, <3>2, <4>1
    <3>. QED
      BY <3>3, <3>4, <3>5, <3>6, <3>7, <3>8, <3>9, <3>10
  <2>3. UNCHANGED port
    <3>1. CASE Unpeer(s) \/ AllocatePrefix(s) \/ AttachSegmentRack(s)
      BY <3>1 DEF Unpeer, AllocatePrefix, AttachSegmentRack
    <3>2. CASE AllocateAsn(s)
      BY <1>2, <3>2, Zenon DEF AllocateAsn
    <3>3. CASE ResolveOverlayAsn(s)
      BY <1>2, <3>3, Zenon DEF ResolveOverlayAsn, graph
    <3>4. CASE PeerLeaf(s) \/ PeerServer(s)
      BY <1>2, <3>4, Zenon DEF PeerLeaf, PeerServer, UpsertSession
    <3>5. CASE RecordPlacement(s)
      BY <1>2, <3>5, Zenon DEF RecordPlacement, graph
    <3>. QED
      BY <3>1, <3>2, <3>3, <3>4, <3>5
  <2>4. UNCHANGED server \/ server' = [server EXCEPT ![s].asn = asnsUsed + 1]
    <3>1. CASE Unpeer(s) \/ AllocatePrefix(s) \/ AttachSegmentRack(s)
      BY <3>1 DEF Unpeer, AllocatePrefix, AttachSegmentRack
    <3>2. CASE AllocateAsn(s)
      BY <1>2, <3>2, Zenon DEF AllocateAsn
    <3>3. CASE ResolveOverlayAsn(s)
      BY <1>2, <3>3, Zenon DEF ResolveOverlayAsn, graph
    <3>4. CASE PeerLeaf(s) \/ PeerServer(s)
      BY <1>2, <3>4, Zenon DEF PeerLeaf, PeerServer, UpsertSession
    <3>5. CASE RecordPlacement(s)
      BY <1>2, <3>5, Zenon DEF RecordPlacement, graph
    <3>. QED
      BY <3>1, <3>2, <3>3, <3>4, <3>5
  <2>5. /\ \A y \in Services \ {s} : server'[y] = server[y]
        /\ server'[s].link = server[s].link /\ server'[s].rack = server[s].rack
    BY <2>4, Typed DEF WiringInv, Shape, ServerRecord
  <2>6. Addressed'
    BY <2>1, <2>3 DEF Addressed
  <2>. QED
    BY <2>2, <2>3, <2>5, <2>6, GotoWired DEF Exists
<1>. QED
  BY <1>1, <1>2

LEMMA RunStepWired ==
    ASSUME RefuseSecondCable, WiringInv, NEW s \in Services, RunStep(s)
    PROVE  Wiring' /\ OnlyOwn(s) /\ (Keeps(s) \/ GivesBack(s) \/ Takes(s))
<1>1. CASE Stamp(s)
  BY <1>1, GiveUpWired DEF Stamp, graph
<1>. QED
  BY <1>1, StartWired, ResolveWired, MaterializeWired, DetachWired, UnlinkWired, UnaddressWired,
     CableWired, AddressLeafEndWired, AddressServerEndWired, OtherStepsWired DEF RunStep

\* A run is somewhere else after each of its steps, and only one step makes a server.
LEMMA RunMoves ==
    ASSUME Shape, NEW s \in Services, RunStep(s)
    PROVE  /\ run'[s].pc # run[s].pc
           /\ server'[s].rack = server[s].rack \/ MaterializeServer(s)
<1>. DEFINE Went(from, to) == run[s].pc = from /\ run'[s].pc = to
            SameRack == server'[s].rack = server[s].rack
<1>1. ASSUME NEW pc, Goto(s, pc) PROVE run'[s].pc = pc
  BY <1>1, Typed DEF Shape, Goto, RunRecord
<1>2. ASSUME NEW x \in Prefix \cup Ports \cup {None} \cup Nat,
             \/ server' = [server EXCEPT ![s].ip = x] \/ server' = [server EXCEPT ![s].asn = x]
             \/ server' = [server EXCEPT ![s].link = x] \/ server' = server
      PROVE  SameRack
  BY <1>2, Typed DEF Shape, ServerRecord
<1>3. CASE Raise(s) /\ run[s].pc # "idle"
  BY <1>3, IdleIsRun, Typed DEF Raise, GiveUp, graph, Shape
<1>4. CASE Start(s)
  BY <1>4, IdleIsRun, Typed DEF Start, graph, Shape, RunRecord
<1>5. CASE Resolve(s) /\ ~Raise(s)
  <2>1. /\ run[s].pc = "resolve" /\ server' = server
        /\ run' = [run EXCEPT ![s].pc = "server", ![s].port = Placement(s),
                              ![s].drop = Released(s, Placement(s))]
    BY <1>5, Zenon DEF Resolve, graph
  <2>2. run'[s].pc = "server"
    BY <2>1, Typed DEF Shape, RunRecord
  <2>. QED
    BY <2>1, <2>2
<1>6. CASE MaterializeServer(s)
  <2>1. run'[s].pc = IF run[s].drop = << >> THEN "cable" ELSE "detach"
    BY <1>6, Typed DEF MaterializeServer, Shape, RunRecord
  <2>. QED
    BY <1>6, <2>1 DEF MaterializeServer
<1>7. CASE Detach(s) /\ ~Raise(s)
  <2>. DEFINE h == Head(run[s].drop)
              nets == {port[h].ip, server[s].ip} \ {None}
              left == run[s].left \cup ({LeafOf[h]} \ {LeafOf[run[s].port]})
              r == [run[s] EXCEPT !.pc = "unlink", !.link = port[h].link, !.nets = nets,
                                  !.left = left]
  <2>1. Exists(s)
    BY <1>7, Zenon DEF Detach
  <2>2. run' = [run EXCEPT ![s] = r] /\ server' = server /\ run[s].pc = "detach"
    BY <1>7, <2>1 DEF Detach
  <2>3. r.pc = "unlink"
    <3>1. run[s] \in RunRecord
      BY Typed DEF Shape
    <3>. HIDE DEF h, nets, left
    <3>. QED
      BY <3>1 DEF RunRecord
  <2>. HIDE DEF r
  <2>. QED
    BY <2>2, <2>3, Typed DEF Shape
<1>8. CASE Unlink(s) /\ ~Raise(s)
  <2>1. Goto(s, "unaddress") /\ run[s].pc = "unlink"
    BY <1>8, Zenon DEF Unlink
  <2>2. server' = [y \in Services |->
                     IF y = run[s].link /\ server[y].link = Head(run[s].drop)
                     THEN [server[y] EXCEPT !.link = None] ELSE server[y]]
    BY <1>8 DEF Unlink
  <2>3. SameRack
    BY <2>2, Typed DEF Shape, ServerRecord
  <2>. QED
    BY <1>1, <2>1, <2>3
<1>9. CASE Unaddress(s)
  <2>1. run'[s].pc = IF Len(run[s].drop) > 1 THEN "detach" ELSE "unpeer"
    BY <1>9, Typed DEF Unaddress, Shape, RunRecord
  <2>2. SameRack
    BY <1>9, Typed DEF Unaddress, Shape, ServerRecord
  <2>. QED
    BY <1>9, <2>1, <2>2 DEF Unaddress
<1>10. CASE Unpeer(s) \/ AllocatePrefix(s) \/ AttachSegmentRack(s)
  BY <1>1, <1>10 DEF Unpeer, AllocatePrefix, AttachSegmentRack
<1>11. CASE Cable(s) /\ ~Raise(s)
  <2>1. /\ Goto(s, IF Layer[s] = "l3" THEN "asn" ELSE "attach") /\ run[s].pc = "cable"
        /\ server' = [server EXCEPT ![s].link = run[s].port]
    BY <1>11, Zenon DEF Cable
  <2>2. run[s].port \in Ports
    BY <2>1 DEF Shape, RunsOK, HasPort
  <2>. QED
    BY <1>1, <1>2, <2>1, <2>2
<1>12. CASE AllocateAsn(s) /\ ~Raise(s)
  <2>1. /\ Goto(s, "overlay") /\ run[s].pc = "asn"
        /\ server' = [server EXCEPT ![s].asn = asnsUsed + 1] \/ server' = server
    BY <1>12, Zenon DEF AllocateAsn
  <2>2. asnsUsed + 1 \in Nat
    BY DEF Shape, TypeOK
  <2>. QED
    BY <1>1, <1>2, <2>1, <2>2
<1>13. CASE ResolveOverlayAsn(s) /\ ~Raise(s)
  <2>1. Goto(s, "prefix") /\ run[s].pc = "overlay" /\ server' = server
    BY <1>13, Zenon DEF ResolveOverlayAsn, graph
  <2>. QED
    BY <1>1, <2>1
<1>14. CASE AddressServerEnd(s) /\ ~Raise(s)
  <2>1. /\ Goto(s, "up") /\ run[s].pc = "serverend" /\ server' = [server EXCEPT ![s].ip = Own(s)]
    BY <1>14, Zenon DEF AddressServerEnd
  <2>2. Own(s) \in Prefix
    BY <2>1, OwnIsPrefix DEF Shape, RunsOK
  <2>. QED
    BY <1>1, <1>2, <2>1, <2>2
<1>15. CASE (PeerLeaf(s) \/ PeerServer(s)) /\ ~Raise(s)
  <2>1. /\ server' = server
        /\ \/ Goto(s, "down") /\ run[s].pc = "up"
           \/ Goto(s, "record") /\ run[s].pc = "down"
    BY <1>15, Zenon DEF PeerLeaf, PeerServer, UpsertSession
  <2>. QED
    BY <1>1, <2>1
<1>16. CASE RecordPlacement(s) /\ ~Raise(s)
  <2>1. Goto(s, "stamp") /\ run[s].pc = "record" /\ server' = server
    BY <1>16, Zenon DEF RecordPlacement, graph
  <2>. QED
    BY <1>1, <2>1
<1>17. CASE Stamp(s)
  BY <1>17, IdleIsRun, Typed DEF Stamp, graph, Shape
<1>18. CASE AddressLeafEnd(s)
  <2>1. Goto(s, "serverend") /\ run[s].pc = "leafend" /\ server' = server
    BY <1>18, Zenon DEF AddressLeafEnd
  <2>. QED
    BY <1>1, <2>1
<1>19. Start(s) \/ run[s].pc # "idle"
  BY DEF RunStep, Resolve, MaterializeServer, Detach, Unlink, Unaddress, Unpeer, Cable,
         AllocateAsn, ResolveOverlayAsn, AllocatePrefix, AddressLeafEnd, AddressServerEnd, PeerLeaf, PeerServer,
         UpsertSession, AttachSegmentRack, RecordPlacement, Stamp
<1>. HIDE DEF SameRack
<1>. QED
  BY <1>3, <1>4, <1>5, <1>6, <1>7, <1>8, <1>9, <1>10, <1>11, <1>12, <1>13, <1>14, <1>15,
     <1>16, <1>17, <1>18, <1>19, Zenon DEF RunStep

LEMMA AroundWired ==
    ASSUME ~MayDelete, WiringInv, NEW s \in Services,
           \/ Die(s) \/ DeleteServer(s) \/ RunAgain(s) \/ FabricReady
           \/ \E x \in Edits : Edit(s, x)
    PROVE  Wiring' /\ OnlyOwn(s) /\ UNCHANGED <<server, port>>
<1>1. CASE Die(s)
  BY <1>1, GiveUpWired DEF Die, GiveUp, graph
<1>2. CASE UNCHANGED <<server, port, run>>
  BY <1>2 DEF WiringInv, Wiring, Wired, Addressed, Held, Attached, Exists, OnlyOwn
<1>3. ASSUME NEW x \in Edits, Edit(s, x) PROVE UNCHANGED <<server, port, run>>
  BY <1>3 DEF Edit, graph
<1>4. RunAgain(s) \/ FabricReady => UNCHANGED <<server, port, run>>
  BY DEF RunAgain, FabricReady, graph
<1>5. ~DeleteServer(s)
  BY DEF DeleteServer
<1>. QED
  BY <1>1, <1>2, <1>3, <1>4, <1>5

LEMMA WiringPreserved ==
    ASSUME RefuseSecondCable, ~MayDelete PROVE WiringInv /\ [Next]_vars => WiringInv'
<1>1. ASSUME WiringInv, FabricReady \/ UNCHANGED vars PROVE Wiring'
  BY <1>1 DEF FabricReady, WiringInv, Wiring, Wired, Addressed, Held, Attached, Exists, graph, vars
<1>. QED
  BY <1>1, RunStepWired, AroundWired, ShapePreserved DEF Next, WiringInv

LEMMA WiringAtFirst == Init => WiringInv
<1>. SUFFICES ASSUME Init PROVE WiringInv
  OBVIOUS
<1>1. \A p \in Ports : port[p].link = None /\ port[p].ip = None
  BY DEF Init, Clean
<1>2. \A s \in Services : server[s].link = None /\ run[s].pc = "idle"
  BY IdleIsRun DEF Init, NoServer
<1>3. Addressed /\ \A s \in Services : Wired(s) /\ Held(s)
  BY <1>1, <1>2, TopologyIsTree DEF Addressed, Wired, Held, Attaching
<1>. QED
  BY <1>3, ShapeAtFirst DEF WiringInv, Wiring

LEMMA WiringAlways ==
    ASSUME RefuseSecondCable, ~MayDelete PROVE Spec => []WiringInv
BY WiringAtFirst, WiringPreserved, PTL DEF Spec

(* On a platform that refuses a second cable on an endpoint, and while nobody *)
(* deletes servers, no run unplugs the server of another service: what        *)
(* port_is_reclaimable read is still so when release_leaf_port acts on it.    *)
THEOREM NoRunSteals == ASSUME RefuseSecondCable, ~MayDelete PROVE Spec => NoTheft
<1>. DEFINE Step == \A s \in Services, p \in Ports :
              Attached(s, p) /\ ~Attached(s, p)' => run'[s] # run[s] \/ ~Exists(s)'
<1>1. ASSUME WiringInv, [Next]_vars, NEW y \in Services, NEW p \in Ports,
             Attached(y, p), ~Attached(y, p)'
      PROVE  run'[y] # run[y]
  <2>1. ASSUME NEW s \in Services, OnlyOwn(s) PROVE s = y
    BY <1>1, <2>1, TopologyIsTree DEF OnlyOwn, Attached
  <2>2. ~UNCHANGED <<server, port>>
    BY <1>1 DEF Attached
  <2>3. PICK s \in Services : RunStep(s)
    BY <1>1, <2>2, AroundWired DEF Next, vars, FabricReady, graph
  <2>4. RunStep(y)
    BY <1>1, <2>1, <2>3, RunStepWired
  <2>5. run'[y].pc # run[y].pc
    BY <2>4, RunMoves, <1>1 DEF WiringInv
  <2>. QED
    BY <2>5
<1>2. WiringInv /\ [Next]_vars => Step
  BY <1>1
<1>. QED
  BY <1>2, WiringAlways, PTL DEF Spec, NoTheft

-----------------------------------------------------------------------------
(* The refinement                                                           *)

\* The assignment the database holds.
Bar == <<[y \in Services |-> Holds(y)], {y \in Services : Exists(y)},
         {y \in Services : run[y].pc # "idle"}>>

LEMMA RunStepAssigns ==
    ASSUME RefuseSecondCable, WiringInv, NEW s \in Services, RunStep(s)
    PROVE  Assignment!Next \/ UNCHANGED Bar
<1>. DEFINE held    == [y \in Services |-> Holds(y)]
            present == {y \in Services : Exists(y)}
            active  == {y \in Services : run[y].pc # "idle"}
<1>1. OnlyOwn(s) /\ (Keeps(s) \/ GivesBack(s) \/ Takes(s))
  BY RunStepWired
<1>2. ASSUME NEW y \in Services \ {s}
      PROVE  Holds(y)' = Holds(y) /\ (Exists(y)' <=> Exists(y)) /\ run'[y] = run[y]
  <2>1. server[y].link \in Ports \cup {None}
    BY Typed DEF WiringInv, Shape, ServerRecord
  <2>2. server'[y] = server[y] /\ run'[y] = run[y]
    BY <1>1 DEF OnlyOwn
  <2>3. \A p \in Ports : port'[p].link = y <=> port[p].link = y
    BY <1>1, <1>2, TopologyIsTree DEF OnlyOwn
  <2>. QED
    BY <2>1, <2>2, <2>3 DEF Holds, Attached, Exists
<1>3. held' = [held EXCEPT ![s] = Holds(s)']
  BY <1>2
<1>4. Exists(s)' <=> Exists(s) => present' = present
  BY <1>2
<1>5. (run'[s].pc # "idle" <=> run[s].pc # "idle") => active' = active
  BY <1>2
<1>6. Keeps(s) => held' = held
  BY <1>3 DEF Keeps
<1>7. CASE GivesBack(s)
  <2>1. s \in active /\ held[s] # None
    BY <1>7 DEF GivesBack, Underway
  <2>2. held' = [held EXCEPT ![s] = None] /\ present' = present /\ active' = active
    BY <1>3, <1>4, <1>5, <1>7 DEF GivesBack, Underway, Exists
  <2>3. Assignment!GiveBack(s)
    BY <2>1, <2>2 DEF Assignment!GiveBack
  <2>. QED
    BY <2>3 DEF Assignment!Next
<1>8. CASE Takes(s)
  <2>1. PICK p \in Ports : p = Holds(s)'
    BY <1>8 DEF Takes
  <2>2. /\ s \in active \cap present /\ held[s] = None
        /\ \A q \in Services : held[q] # p
    BY <1>8, <2>1 DEF Takes, Underway
  <2>3. held' = [held EXCEPT ![s] = p] /\ present' = present /\ active' = active
    BY <1>3, <1>4, <1>5, <1>8, <2>1 DEF Takes, Underway, Exists
  <2>4. Assignment!Take(s, p)
    BY <2>2, <2>3 DEF Assignment!Take
  <2>. QED
    BY <2>4 DEF Assignment!Next
<1>9. CASE Keeps(s) /\ MaterializeServer(s)
  <2>1. run[s].pc = "server" /\ run'[s].pc # "idle"
    BY <1>9, Typed DEF MaterializeServer, WiringInv, Shape, RunRecord
  <2>2. Exists(s)'
    <3>1. RackOfPort(run[s].port) # None
      BY <2>1, RackOfPortIsRack, TopologyIsTree, ZenonT(40) DEF WiringInv, Shape, RunsOK, HasPort
    <3>2. server'[s].rack = RackOfPort(run[s].port)
      BY <1>9, Typed DEF MaterializeServer, WiringInv, Shape, ServerRecord
    <3>. QED
      BY <3>1, <3>2 DEF Exists
  <2>3. s \in active /\ present' = present \cup {s} /\ held' = held /\ active' = active
    BY <1>2, <1>5, <1>6, <1>9, <2>1, <2>2
  <2>4. Assignment!Provide(s)
    BY <2>3 DEF Assignment!Provide
  <2>. QED
    BY <2>4 DEF Assignment!Next
<1>10. CASE Keeps(s) /\ ~MaterializeServer(s)
  <2>1. held' = held /\ present' = present /\ run'[s].pc # run[s].pc
    BY <1>4, <1>6, <1>10, RunMoves DEF WiringInv, Exists
  <2>2. CASE run[s].pc = "idle"
    <3>1. s \notin active /\ active' = active \cup {s}
      BY <1>2, <2>1, <2>2
    <3>2. Assignment!Begin(s)
      BY <2>1, <3>1 DEF Assignment!Begin
    <3>. QED
      BY <3>2 DEF Assignment!Next
  <2>3. CASE run[s].pc # "idle" /\ run'[s].pc = "idle"
    <3>1. s \in active /\ active' = active \ {s}
      BY <1>2, <2>3
    <3>2. Assignment!End(s)
      BY <2>1, <3>1 DEF Assignment!End
    <3>. QED
      BY <3>2 DEF Assignment!Next
  <2>4. CASE run[s].pc # "idle" /\ run'[s].pc # "idle"
    BY <1>5, <2>1, <2>4 DEF Bar
  <2>. QED
    BY <2>2, <2>3, <2>4
<1>. QED
  BY <1>1, <1>7, <1>8, <1>9, <1>10

LEMMA StepAssigns ==
    ASSUME RefuseSecondCable, ~MayDelete, WiringInv, [Next]_vars
    PROVE  Assignment!Next \/ UNCHANGED Bar
<1>1. CASE UNCHANGED <<server, port, run>>
  BY <1>1 DEF Bar, Holds, Attached, Exists
<1>2. ASSUME NEW s \in Services, Die(s) PROVE Assignment!Next \/ UNCHANGED Bar
  <2>. DEFINE active == {y \in Services : run[y].pc # "idle"}
  <2>1. UNCHANGED <<server, port>> /\ OnlyOwn(s)
    BY <1>2, AroundWired
  <2>2. run'[s].pc = "idle"
    BY <1>2, IdleIsRun, Typed DEF Die, GiveUp, WiringInv, Shape
  <2>3. run[s].pc # "idle"
    BY <1>2, OperatorInputs DEF Die, Places
  <2>4. s \in active /\ active' = active \ {s}
    BY <2>1, <2>2, <2>3 DEF OnlyOwn
  <2>5. Assignment!End(s)
    BY <2>1, <2>4 DEF Assignment!End, Holds, Attached, Exists
  <2>. QED
    BY <2>5 DEF Assignment!Next
<1>3. ASSUME NEW s \in Services, NEW x \in Edits, Edit(s, x)
      PROVE  UNCHANGED <<server, port, run>>
  BY <1>3 DEF Edit, graph
<1>4. ASSUME NEW s \in Services, RunAgain(s) PROVE UNCHANGED <<server, port, run>>
  BY <1>4 DEF RunAgain, graph
<1>5. FabricReady \/ UNCHANGED vars => UNCHANGED <<server, port, run>>
  BY DEF FabricReady, graph, vars
<1>6. ASSUME NEW s \in Services PROVE ~DeleteServer(s)
  BY DEF DeleteServer
<1>. QED
  BY <1>1, <1>2, <1>3, <1>4, <1>5, <1>6, RunStepAssigns DEF Next

LEMMA FirstAssigns == Init => Assignment!Init
<1>. SUFFICES ASSUME Init PROVE Assignment!Init
  OBVIOUS
<1>1. \A s \in Services : server[s].link = None /\ ~Exists(s) /\ run[s].pc = "idle"
  BY IdleIsRun DEF Init, NoServer, Exists
<1>. QED
  BY <1>1 DEF Assignment!Init, Holds

(* On a platform that refuses a second cable, and while nobody deletes       *)
(* servers, the runs implement PortAssignment: each port serves one server,  *)
(* and a server gives its port back before it takes another                  *)
(* (resolve_placement, release_placement, materialize_cabling).              *)
THEOREM RunsAssignPorts == ASSUME RefuseSecondCable, ~MayDelete PROVE Spec => AssignsPorts
<1>1. WiringInv /\ [Next]_vars => [Assignment!Next]_(Assignment!assignment)
  BY StepAssigns DEF Bar, Assignment!assignment
<1>. QED
  BY <1>1, FirstAssigns, WiringAlways, PTL DEF Spec, AssignsPorts, Assignment!Spec
=============================================================================
