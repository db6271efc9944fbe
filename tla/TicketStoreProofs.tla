-------------------------- MODULE TicketStoreProofs --------------------------
(***************************************************************************)
(* SsoSession implements TicketStore: every step of the workers, the GUI   *)
(* thread and the server is a step of the abstract store, or none.         *)
(***************************************************************************)
EXTENDS SsoSessionProofs

storeBar   == {<<KeyOf(rows[i]), rows[i].tgt>> : i \in Cached}
grantedBar == {<<issued[t], t>> : t \in DOMAIN issued}
endedBar   == DOMAIN issued \ live

LEMMA GrantedTickets == Store!TicketsIn(grantedBar) = DOMAIN issued
<1>1. \A t \in DOMAIN issued : <<issued[t], t>> \in grantedBar /\ <<issued[t], t>>[2] = t
    BY DEF grantedBar
<1>2. \A g \in grantedBar : g[2] \in DOMAIN issued
    BY DEF grantedBar
<1>. QED BY <1>1, <1>2 DEF Store!TicketsIn

LEMMA StoreInit == Init => Store!Init
BY DEF Init, Store!Init, Cached

\* Issuing a ticket grants it.
LEMMA IssueGrants ==
    ASSUME TypeInv, NEW w \in Workers, Issue(w), pc[w] = "post", rows' = rows
    PROVE  Store!Grant
<1>. DEFINE n == Len(issued) + 1
            k == KeyOf(req[w])
<1>1. issued \in Seq(Keys) /\ k \in Keys /\ n \in Tgts
    BY ServedFields, BoundsAssumption DEF TypeInv, TypeOK, ServesRequest, GetSTSteps, Issue, Tgts
<1>2. issued' = Append(issued, k) /\ live' = live \cup {n}
    BY DEF Issue
<1>. HIDE DEF k
<1>3. /\ DOMAIN issued' = DOMAIN issued \cup {n} /\ n \notin DOMAIN issued
      /\ issued'[n] = k /\ \A t \in DOMAIN issued : issued'[t] = issued[t]
    BY <1>1, <1>2
<1>. HIDE DEF n
<1>4. grantedBar' = grantedBar \cup {<<k, n>>}
    BY <1>3 DEF grantedBar
<1>5. n \notin Store!TicketsIn(grantedBar)
    BY <1>3, GrantedTickets
<1>6. endedBar' = endedBar
    BY <1>2, <1>3 DEF endedBar
<1>7. storeBar' = storeBar
    BY DEF storeBar, Cached
<1>. QED BY <1>1, <1>4, <1>5, <1>6, <1>7 DEF Store!Grant, grantedBar, endedBar, storeBar

\* InsertTGT keeps a granted pair; an empty ticket leaves the store as it is.
LEMMA InsertKeeps ==
    ASSUME TypeInv, TicketInv, NEW w \in Workers, Insert(w)
    PROVE  Store!Keep \/ UNCHANGED Store!storeVars
<1>. DEFINE new == [app |-> req[w].app, mark |-> req[w].mark, tgt |-> tgt[w]]
<1>1. UNCHANGED serverVars /\ pc[w] = "insert" /\ rows \in Seq(Row(Apps, Marks, Nat))
    BY DEF Insert, Step, TypeInv, TypeOK
<1>2. grantedBar' = grantedBar /\ endedBar' = endedBar
    BY <1>1 DEF serverVars, grantedBar, endedBar
<1>3. CASE rows' = rows
    <2>1. storeBar' = storeBar
        BY <1>3 DEF storeBar, Cached
    <2>. QED BY <1>2, <2>1 DEF Store!storeVars, storeBar, grantedBar, endedBar
<1>4. CASE rows' = Append(rows, new)
    <2>1. KeyOf(new) = KeyOf(req[w]) /\ new.tgt = tgt[w]
        BY DEF KeyOf
    <2>2. /\ DOMAIN rows' = DOMAIN rows \cup {Len(rows) + 1}
          /\ rows'[Len(rows) + 1] = new
          /\ \A i \in DOMAIN rows : rows'[i] = rows[i]
        BY <1>1, <1>4
    <2>. HIDE DEF new
    <2>3. CASE tgt[w] = NoTgt
        <3>1. Cached' = Cached
            BY <2>1, <2>2, <2>3, <1>1 DEF Cached
        <3>2. storeBar' = storeBar
            BY <3>1, <2>2 DEF storeBar, Cached
        <3>. QED BY <1>2, <3>2 DEF Store!storeVars, storeBar, grantedBar, endedBar
    <2>4. CASE tgt[w] # NoTgt
        <3>1. Cached' = Cached \cup {Len(rows) + 1}
            BY <2>1, <2>2, <2>4 DEF Cached
        <3>2. storeBar' = storeBar \cup {<<KeyOf(req[w]), tgt[w]>>}
            BY <3>1, <2>1, <2>2 DEF storeBar, Cached
        <3>3. <<KeyOf(req[w]), tgt[w]>> \in grantedBar
            BY <1>1, <2>4 DEF TicketInv, TicketOfRequest, grantedBar
        <3>. QED BY <1>2, <3>2, <3>3 DEF Store!Keep, storeBar, grantedBar, endedBar
    <2>. QED BY <2>3, <2>4
<1>. QED BY <1>3, <1>4 DEF Insert, InsertTGT

\* A logout forgets everything, and only with an ended ticket in its hand.
LEMMA ClearForgets ==
    ASSUME TypeInv, TicketInv, NEW p \in Procs, Clear(p)
    PROVE  Store!Forget \/ UNCHANGED Store!storeVars
<1>1. UNCHANGED serverVars /\ pc[p] = "clear" /\ (rows' = << >> \/ rows' = rows)
    BY DEF Clear, OnFault, DeleteTGT
<1>2. grantedBar' = grantedBar /\ endedBar' = endedBar
    BY <1>1 DEF serverVars, grantedBar, endedBar
<1>3. CASE rows' = rows
    <2>1. storeBar' = storeBar
        BY <1>3 DEF storeBar, Cached
    <2>. QED BY <1>2, <2>1 DEF Store!storeVars, storeBar, grantedBar, endedBar
<1>4. CASE rows' = << >>
    <2>1. storeBar' = {}
        BY <1>4 DEF storeBar, Cached
    <2>2. tgt[p] \in Store!TicketsIn(grantedBar) \cap endedBar
        BY <1>1, GrantedTickets DEF TicketInv, LogoutHoldsTicket, endedBar
    <2>. QED BY <1>2, <2>1, <2>2 DEF Store!Forget, storeBar, grantedBar, endedBar
<1>. QED BY <1>1, <1>3, <1>4

\* Revoking and expiring end at most one ticket.
LEMMA EndEnds ==
    ASSUME NEW t, UNCHANGED <<rows, issued>>, live' = live \ {t}
    PROVE  Store!End \/ UNCHANGED Store!storeVars
<1>1. storeBar' = storeBar /\ grantedBar' = grantedBar
    BY DEF storeBar, Cached, grantedBar
<1>2. CASE t \in DOMAIN issued
    <2>1. endedBar' = endedBar \cup {t}
        BY <1>2 DEF endedBar
    <2>2. t \in Store!TicketsIn(grantedBar)
        BY <1>2, GrantedTickets
    <2>. QED BY <1>1, <2>1, <2>2 DEF Store!End, storeBar, grantedBar, endedBar
<1>3. CASE t \notin DOMAIN issued
    <2>1. endedBar' = endedBar
        BY <1>3 DEF endedBar
    <2>. QED BY <1>1, <2>1 DEF Store!storeVars, storeBar, grantedBar, endedBar
<1>. QED BY <1>2, <1>3

LEMMA Stutter ==
    ASSUME UNCHANGED <<rows, serverVars>>
    PROVE  UNCHANGED Store!storeVars
<1>1. storeBar' = storeBar /\ grantedBar' = grantedBar /\ endedBar' = endedBar
    BY DEF storeBar, Cached, grantedBar, endedBar, serverVars
<1>. QED BY <1>1 DEF Store!storeVars, storeBar, grantedBar, endedBar

LEMMA StoreStep == TypeInv /\ TicketInv /\ [Next]_vars => [Store!Next]_(Store!storeVars)
<1>. SUFFICES ASSUME TypeInv, TicketInv, [Next]_vars
              PROVE  Store!Next \/ UNCHANGED Store!storeVars
    OBVIOUS
<1>1. CASE UNCHANGED <<rows, serverVars>>
    BY <1>1, Stutter
<1>2. ASSUME NEW w \in Workers, PostTgt(w) PROVE Store!Grant \/ UNCHANGED Store!storeVars
    <2>1. rows' = rows /\ pc[w] = "post" /\ (Issue(w) \/ UNCHANGED serverVars)
        BY <1>2 DEF PostTgt, Step, serverVars
    <2>. QED BY <2>1, IssueGrants, Stutter
<1>3. ASSUME NEW p \in Procs, Revoke(p) PROVE Store!End \/ UNCHANGED Store!storeVars
    <2>1. UNCHANGED <<rows, issued>> /\ (live' = live \ {tgt[p]} \/ live' = live)
        BY <1>3 DEF Revoke, OnFault
    <2>2. CASE live' = live
        BY <2>1, <2>2, Stutter DEF serverVars
    <2>. QED BY <2>1, <2>2, EndEnds DEF Store!Next
<1>4. CASE Expire
    <2>1. PICK t \in live : live' = live \ {t}
        BY <1>4 DEF Expire
    <2>2. UNCHANGED <<rows, issued>>
        BY <1>4 DEF Expire
    <2>. QED BY <2>1, <2>2, EndEnds DEF Store!Next
<1>5. \/ UNCHANGED <<rows, serverVars>> \/ Expire
      \/ \E w \in Workers : PostTgt(w) \/ Insert(w)
      \/ \E p \in Procs : Revoke(p) \/ Clear(p)
    BY DEF Next, GetST, Logout, Accept, AskLogout, Query, GetCert, JudgeAgain, ParseCertMb,
           FetchRandom, SignRandom, PostSt, Reply, ReadTgt, HandleInsert, VerifyPin,
           HandleExtract, Plug, Unplug, Restart, vars, serverVars
<1>. QED BY <1>1, <1>2, <1>3, <1>4, <1>5, InsertKeeps, ClearForgets DEF Store!Next

\* The detailed specification implements the abstract one.
THEOREM Refinement == Spec => ImplementsTicketStore
BY TicketSpec, StoreInit, StoreStep, PTL DEF Spec, ImplementsTicketStore, Store!Spec

\* Hence the table never holds a ticket the server has not granted for its key.
THEOREM StoreIsHonest == Spec => []Store!Honest
<1>. USE DEF Store!Honest, Store!TicketsIn
<1>1. Init => Store!Honest
    BY DEF Init, Cached
<1>2. Store!Honest /\ [Store!Next]_(Store!storeVars) => Store!Honest'
    <2>. SUFFICES ASSUME Store!Honest, [Store!Next]_(Store!storeVars) PROVE Store!Honest'
        OBVIOUS
    <2>1. CASE Store!Grant
        BY <2>1 DEF Store!Grant
    <2>2. CASE Store!Keep
        BY <2>2 DEF Store!Keep
    <2>3. CASE Store!End
        BY <2>3 DEF Store!End
    <2>4. CASE Store!Forget
        BY <2>4 DEF Store!Forget
    <2>5. CASE UNCHANGED Store!storeVars
        BY <2>5 DEF Store!storeVars
    <2>. QED BY <2>1, <2>2, <2>3, <2>4, <2>5 DEF Store!Next
<1>. QED BY <1>1, <1>2, Refinement, PTL DEF Spec, ImplementsTicketStore, Store!Spec

=============================================================================
