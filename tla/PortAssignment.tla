--------------------------- MODULE PortAssignment ---------------------------
(***************************************************************************)
(* What the ServerGenerator promises about the leaf ports, whatever the    *)
(* steps of its runs: a port serves one server at a time, a server gives   *)
(* its port back before it takes another, and only a run of its own        *)
(* service, or the loss of the server, takes a server off its port.        *)
(***************************************************************************)
CONSTANTS Services, Ports, None

VARIABLES holds,   \* service -> the port its server is plugged into
          present, \* the services that have a server
          active   \* the services that are being run

assignment == <<holds, present, active>>

Init == /\ holds = [s \in Services |-> None]
        /\ present = {} /\ active = {}

Begin(s) ==
    /\ s \notin active
    /\ active' = active \cup {s}
    /\ UNCHANGED <<holds, present>>

\* The service gets a server.
Provide(s) ==
    /\ s \in active
    /\ present' = present \cup {s}
    /\ UNCHANGED <<holds, active>>

\* A run takes a port nobody has, for a server that has none.
Take(s, p) ==
    /\ s \in active \cap present
    /\ holds[s] = None
    /\ \A q \in Services : holds[q] # p
    /\ holds' = [holds EXCEPT ![s] = p]
    /\ UNCHANGED <<present, active>>

GiveBack(s) ==
    /\ s \in active
    /\ holds[s] # None
    /\ holds' = [holds EXCEPT ![s] = None]
    /\ UNCHANGED <<present, active>>

End(s) ==
    /\ s \in active
    /\ active' = active \ {s}
    /\ UNCHANGED <<holds, present>>

\* The operator deletes the server.
Lose(s) ==
    /\ s \in present
    /\ present' = present \ {s}
    /\ holds' = [holds EXCEPT ![s] = None]
    /\ UNCHANGED active

Next == \E s \in Services :
            \/ Begin(s) \/ Provide(s) \/ GiveBack(s) \/ End(s) \/ Lose(s)
            \/ \E p \in Ports : Take(s, p)

Spec == Init /\ [][Next]_assignment
=============================================================================
