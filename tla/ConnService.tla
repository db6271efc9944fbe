---------------------------- MODULE ConnService ----------------------------
(***************************************************************************)
(* What the local server promises to its callers, without threads, queues  *)
(* or sockets: a connection is accepted only while the service is up, it   *)
(* is closed once, and the service goes down only after it has closed      *)
(* everything it accepted, unless the process dies.                        *)
(***************************************************************************)
CONSTANT Conns          \* connections callers may open

VARIABLES up, conn

serviceVars == <<up, conn>>

Init == ~up /\ conn = [c \in Conns |-> "new"]

Accept(c) ==
    /\ up /\ conn[c] = "new"
    /\ conn' = [conn EXCEPT ![c] = "accepted"] /\ UNCHANGED up

Close(c) ==
    /\ up /\ conn[c] = "accepted"
    /\ conn' = [conn EXCEPT ![c] = "closed"] /\ UNCHANGED up

GoUp == ~up /\ up' = TRUE /\ UNCHANGED conn

GoDown ==
    /\ up /\ \A c \in Conns : conn[c] # "accepted"
    /\ up' = FALSE /\ UNCHANGED conn

Lost == [c \in Conns |-> IF conn[c] = "accepted" THEN "lost" ELSE conn[c]]

Die == up' = FALSE /\ conn' = Lost

Next == (\E c \in Conns : Accept(c) \/ Close(c)) \/ GoUp \/ GoDown \/ Die

Spec == Init /\ [][Next]_serviceVars

\* Down, the service owes nobody an answer.
NobodyWaits == ~up => \A c \in Conns : conn[c] # "accepted"
=============================================================================
