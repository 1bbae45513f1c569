---------------------------- MODULE ClusterPeering ----------------------------
(***************************************************************************)
(* The Cilium manifest of one Kubernetes cluster, a view of the graph the  *)
(* ServerGenerator works on: clusters.py decides which members peer and    *)
(* with whom, cilium_manifest.py turns the peerings into documents.  The   *)
(* artifact is rendered from whatever the graph holds at that moment, in   *)
(* the middle of runs too, and is applied to the cluster as it stands.     *)
(***************************************************************************)
EXTENDS ServerService

CONSTANTS
    Members   \* the services of the cluster, in the order of their node_selector

ASSUME MembersAreServices ==
    /\ Members \in Seq(Services)
    /\ \A i, j \in 1..Len(Members) : i # j => Members[i] # Members[j]

\* server_side_session: a session whose device is the server. Which of several
\* is picked makes no difference, the remote AS is the fabric's in all of them.
HasSession(s) == \E l \in Leafs : <<"server", l, s>> \in sessions

\* leaf_port_address: across the link of eth1 to a leaf's end with an address.
LeafEnds(s) == {p \in Ports : Attached(s, p) /\ port[p].ip # None}

\* Mutant of Peers: every member that has a cable peers.
PeersOnceCabled(s) == Layer[s] = "l3" /\ Exists(s) /\ LeafEnds(s) # {}

\* peering_for_member: a member that fails one of the checks is left out.
Peers(s) ==
    /\ Layer[s] = "l3"
    /\ s \in recorded /\ Exists(s)
    /\ HasSession(s) /\ server[s].asn # 0
    /\ LeafEnds(s) # {}

\* The record of a member: its selector, its own ASN, the leaf port's address.
Peering(s) ==
    LET p == CHOOSE q \in LeafEnds(s) : TRUE
    IN  [selector |-> s, asn |-> server[s].asn, peer |-> port[p].ip, leaf |-> LeafOf[p]]

\* The members of a set, one after the other (a SelectSeq written out: the proofs
\* need its definition).
Among(S) ==
    LET seen[n \in 0..Len(Members)] ==
          IF n = 0 THEN << >>
          ELSE IF Members[n] \in S THEN Append(seen[n - 1], Members[n]) ELSE seen[n - 1]
    IN  seen[Len(Members)]

\* build_cilium_peerings
Peerings == LET eligible == Among({s \in Services : Peers(s)})
            IN  [i \in 1..Len(eligible) |-> Peering(eligible[i])]

\* render_manifest: one document per peering and two shared ones; none at all
\* when nobody peers.
Documents ==
    IF Peerings = << >> THEN << >>
    ELSE Peerings \o <<"CiliumBGPPeerConfig", "CiliumBGPAdvertisement">>

\* The document of one member, if it has one.
Document(s) == IF Peers(s) THEN {Peering(s)} ELSE {}

-----------------------------------------------------------------------------
(* Properties                                                               *)

(* "For every L3 member, the manifest's local ASN, peer ASN and peer address *)
(* match that member's stored session and leaf address" (SC-002): whoever is *)
(* in the manifest, in the middle of a move too, is answered by its leaf:    *)
(* the address it dials is of its own /31, still allocated, and that leaf    *)
(* has the session towards this member (peering_for_member).                 *)
PeersAreAnswered ==
    \A i \in 1..Len(Peerings) :
        LET m == Peerings[i]
        IN  /\ m.peer \in prefixes /\ m.peer.service = m.selector
            /\ {"leaf", "server"} \X {m.leaf} \X {m.selector} \subseteq sessions

(* "No other member's configuration changes" (SC-003): a document of the     *)
(* manifest changes only by a run of its own member or the deletion of that  *)
(* member's server, whoever else joins, moves or leaves meanwhile.           *)
DocumentsChangeAlone ==
    [][\A s \in Services :
         run'[s] = run[s] /\ Exists(s)' => Document(s)' = Document(s)]_vars

(* A settled l3 member is in the manifest with the port it is attached to,   *)
(* and the number of documents follows: N + 2, or none (SC-004, FR-005).     *)
SettledMeansPeered ==
    (\A s \in Services : Settled(s)) =>
        LET routed == Among({s \in Services : Layer[s] = "l3"})
        IN  /\ Len(Documents) = IF routed = << >> THEN 0 ELSE Len(routed) + 2
            /\ \A i \in 1..Len(routed) :
                 /\ Documents[i].selector = routed[i]
                 /\ Documents[i].leaf = LeafOf[asked[routed[i]].port]
=============================================================================
