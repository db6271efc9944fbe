------------------------------ MODULE Election ------------------------------
(***************************************************************************)
(* What the single-instance protocol promises, without a memory block, a   *)
(* checksum or a lock: a leader is elected only while there is none, and a *)
(* process gives way only to a leader or to the ghost of one that died in  *)
(* office.  A ghost keeps everybody from office until it is gone.          *)
(***************************************************************************)
EXTENDS Naturals

CONSTANT Procs

VARIABLES
    leaders,    \* the processes in office
    ghost,      \* a leader died and is still on record
    yielded,    \* the processes that are giving way
    deaths      \* how many have died so far

electionVars == <<leaders, ghost, yielded, deaths>>

Init == leaders = {} /\ ghost = FALSE /\ yielded = {} /\ deaths = 0

Elect(p) ==
    /\ leaders = {} /\ ~ghost
    /\ leaders' = {p} /\ UNCHANGED <<ghost, yielded, deaths>>

Resign(p) ==
    /\ leaders = {p}
    /\ leaders' = {} /\ UNCHANGED <<ghost, yielded, deaths>>

Yield(p) ==
    /\ leaders # {} \/ ghost
    /\ yielded' = yielded \cup {p} /\ UNCHANGED <<leaders, ghost, deaths>>

\* The last to leave takes the record along.
Depart(p) ==
    /\ yielded' = yielded \ {p} /\ UNCHANGED <<leaders, deaths>>
    /\ ghost' \in {ghost, FALSE}

Die(p) ==
    /\ leaders' = leaders \ {p} /\ yielded' = yielded \ {p}
    /\ ghost' = (ghost \/ leaders = {p})
    /\ deaths' = deaths + 1

Next == \E p \in Procs : Elect(p) \/ Resign(p) \/ Yield(p) \/ Depart(p) \/ Die(p)

Spec == Init /\ [][Next]_electionVars

\* There is one leader at most, and a ghost takes a death.
OneLeader ==
    /\ \A p, q \in leaders : p = q
    /\ ghost => leaders = {} /\ deaths > 0
=============================================================================
