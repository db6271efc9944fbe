------------------------------ MODULE KeyGuard ------------------------------
(***************************************************************************)
(* What the PIN flag promises, without dialogs, threads or a queue: it is  *)
(* raised only once there is a default device, and only for a key that is  *)
(* in its port or whose removal is yet to be handled; the removal of the   *)
(* default device lowers it when it is handled, any other removal does     *)
(* not.  UkeyAgent and SsoSession both implement it.                       *)
(***************************************************************************)
CONSTANTS
    Keys,
    NoKey       \* no device; the flag is down

VARIABLES
    here,       \* keys in their ports
    told,       \* keys with a removal that is yet to be handled
    default,    \* the default device
    flag        \* the key the flag is raised for

guardVars == <<here, told, default, flag>>

Init == here \in SUBSET Keys /\ told = {} /\ default = NoKey /\ flag = NoKey

Plug(k) ==
    /\ k \notin here /\ here' = here \cup {k}
    /\ UNCHANGED <<told, default, flag>>

Unplug(k) ==
    /\ k \in here /\ here' = here \ {k}
    /\ told' = told \cup {k}
    /\ UNCHANGED <<default, flag>>

Choose(k) == default' = k /\ UNCHANGED <<here, told, flag>>

Raise(k) ==
    /\ default # NoKey /\ k \in here \cup told
    /\ flag' = k
    /\ UNCHANGED <<here, told, default>>

Lower == flag' = NoKey /\ UNCHANGED <<here, told, default>>

\* More than one removal of a key may be waiting.
Handle(k) ==
    /\ k \in told /\ told' \in {told, told \ {k}}
    /\ flag' = IF k = default THEN NoKey ELSE flag
    /\ UNCHANGED <<here, default>>

\* The process dies: what it had been told is lost, and so is its flag.
Restart == told' = {} /\ default' = NoKey /\ flag' = NoKey /\ UNCHANGED here

Next ==
    \/ Lower \/ Restart
    \/ \E k \in Keys : Plug(k) \/ Unplug(k) \/ Choose(k) \/ Raise(k) \/ Handle(k)

Spec == Init /\ [][Next]_guardVars

\* The promise to the owner of a single key: a raised flag stands for a key
\* that is in its port, or whose removal will yet lower the flag.
FlagPresent == Keys = {flag} => default = flag /\ flag \in here \cup told
=============================================================================
