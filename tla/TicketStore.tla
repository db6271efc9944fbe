----------------------------- MODULE TicketStore -----------------------------
(***************************************************************************)
(* What the single-sign-on cache promises, without threads, tables or      *)
(* messages: a store of tickets that grows only by tickets granted for     *)
(* their key, one at a time, and that is forgotten only as a whole, and    *)
(* only once some granted ticket has ended.  SsoSession implements it.     *)
(***************************************************************************)
CONSTANTS
    Keys,       \* (application, mark) pairs
    Tickets     \* what the SSO server may issue

VARIABLES
    store,      \* pairs <<key, ticket>> kept on disk
    granted,    \* pairs the SSO server has granted
    ended       \* tickets it no longer accepts

storeVars == <<store, granted, ended>>

Init == store = {} /\ granted = {} /\ ended = {}

TicketsIn(pairs) == {g[2] : g \in pairs}

\* A new ticket belongs to one key for good.
Grant ==
    /\ \E k \in Keys, t \in Tickets \ TicketsIn(granted) : granted' = granted \cup {<<k, t>>}
    /\ UNCHANGED <<store, ended>>

Keep ==
    /\ \E g \in granted : store' = store \cup {g}
    /\ UNCHANGED <<granted, ended>>

End ==
    /\ \E t \in TicketsIn(granted) : ended' = ended \cup {t}
    /\ UNCHANGED <<store, granted>>

Forget ==
    /\ store' = {}
    /\ TicketsIn(granted) \cap ended # {}
    /\ UNCHANGED <<granted, ended>>

Next == Grant \/ Keep \/ End \/ Forget

Spec == Init /\ [][Next]_storeVars

\* What is kept, or has ended, was granted, and no ticket serves two keys.
Honest ==
    /\ store \subseteq granted /\ ended \subseteq TicketsIn(granted)
    /\ \A g, h \in granted : g[2] = h[2] => g = h
=============================================================================
