------------------------- MODULE SsoSessionProofs -------------------------
(***************************************************************************)
(* Proofs about SsoSession for every set of workers, every set of requests *)
(* and every bound.                                                        *)
(***************************************************************************)
EXTENDS SsoSession, FiniteSetTheorems, TLAPS

\* A select returns nothing or the ticket of one of its rows.
LEMMA SelectedFromRows ==
    ASSUME NEW rs, NEW ids, NEW t \in Selected(rs, ids)
    PROVE  t = NoTgt \/ \E i \in ids : t = rs[i].tgt
BY DEF Selected, Newest

LEMMA RowTgt ==
    ASSUME NEW rs \in Seq(Row(Apps, Marks, Nat)), NEW i \in DOMAIN rs
    PROVE  rs[i] \in Row(Apps, Marks, Nat) /\ rs[i].tgt \in Nat
<1>1. rs[i] \in Row(Apps, Marks, Nat)
    OBVIOUS
<1>. QED BY <1>1 DEF Row

LEMMA SelectedType ==
    ASSUME NEW rs \in Seq(Row(Apps, Marks, Nat)), NEW ids \in SUBSET (DOMAIN rs),
           NEW t \in Selected(rs, ids)
    PROVE  t \in Nat
<1>1. CASE t = NoTgt
    BY <1>1 DEF NoTgt
<1>2. CASE \E i \in ids : t = rs[i].tgt
    BY <1>2, RowTgt
<1>. QED BY <1>1, <1>2, SelectedFromRows

LEMMA QueryType ==
    ASSUME NEW rs \in Seq(Row(Apps, Marks, Nat)), NEW app, NEW mark,
           NEW t \in QueryLocalTGT(rs, app, mark) \cup OnFault("sql", {NoTgt})
    PROVE  t \in Nat
BY SelectedType DEF QueryLocalTGT, OnFault, NoTgt

LEMMA GetLocalType ==
    ASSUME NEW rs \in Seq(Row(Apps, Marks, Nat)),
           NEW t \in GetLocalTGT(rs) \cup OnFault("sql", {NoTgt})
    PROVE  t \in Nat
BY SelectedType DEF GetLocalTGT, OnFault, NoTgt

\* What a worker serves names an application and a mark of the table.
LEMMA ServedKey ==
    ASSUME NEW r \in Requests, NEW t \in SignTypes
    PROVE  /\ Typed(r, t) \in Served
           /\ Typed(r, t).app \in Apps /\ Typed(r, t).mark \in Marks
           /\ Typed(r, t).app = r.app /\ Typed(r, t).mark = r.mark
BY RequestsAssumption DEF Typed, Served, Apps, Marks

LEMMA ServedFields ==
    ASSUME NEW x \in Served
    PROVE  x.app \in Apps /\ x.mark \in Marks /\ KeyOf(x) \in Keys
<1>1. PICK r \in Requests, t \in SignTypes : x = Typed(r, t)
    BY DEF Served
<1>2. x.app = r.app /\ x.mark = r.mark /\ r.app \in Apps /\ r.mark \in Marks
    BY <1>1, ServedKey DEF Apps, Marks
<1>. QED BY <1>2 DEF KeyOf, Keys

LEMMA NextTicket ==
    ASSUME NEW n \in Nat, NEW S, S \subseteq 1 .. n
    PROVE  S \cup {n + 1} \subseteq 1 .. (n + 1)
<1>1. \A x \in S : x \in 1 .. (n + 1)
    <2>1. \A x \in 1 .. n : x \in 1 .. (n + 1)
        OBVIOUS
    <2>. QED BY <2>1
<1>2. n + 1 \in 1 .. (n + 1)
    OBVIOUS
<1>. QED BY <1>1, <1>2

TypeInv == TypeOK /\ ServesRequest

LEMMA TypeInit == Init => TypeInv
<1>. SUFFICES ASSUME Init PROVE TypeInv
    OBVIOUS
<1>1. rows \in Seq(Row(Apps, Marks, Nat)) /\ issued \in Seq(Keys) /\ live \subseteq 1 .. Len(issued)
    BY DEF Init
<1>. QED BY <1>1, ThreadsAssumption
   DEF Init, TypeInv, TypeOK, ServesRequest, Procs, Steps, GetSTSteps, LogoutSteps, ErrCodes, NoTgt

\* The domains survive every step, because a request stays the one that was
\* accepted until its reply.
LEMMA TypeStep == TypeInv /\ [Next]_vars => TypeInv'
<1>. SUFFICES ASSUME TypeInv, [Next]_vars PROVE TypeInv'
    OBVIOUS
<1>. USE ThreadsAssumption DEF TypeInv, TypeOK, ServesRequest, Procs, Steps, GetSTSteps,
         LogoutSteps, Answers, Step, Goto, SetErrorCode, ErrCodes, GetTgtCodes, NoTgt
<1>1. ASSUME NEW w \in Workers, Accept(w) PROVE TypeInv'
    BY <1>1, ServedKey DEF Accept, keyVars, serverVars, localVars
<1>2. ASSUME NEW w \in Workers, AskLogout(w) PROVE TypeInv'
    BY <1>2 DEF AskLogout, keyVars, serverVars, localVars
<1>3. ASSUME NEW w \in Workers, Query(w) PROVE TypeInv'
    <2>1. PICK t \in QueryLocalTGT(rows, req[w].app, req[w].mark) \cup OnFault("sql", {NoTgt}) :
             /\ tgt' = [tgt EXCEPT ![w] = t]
             /\ pc' = [pc EXCEPT ![w] = "st"] \/ pc' = [pc EXCEPT ![w] = "cert"]
                \/ pc' = [pc EXCEPT ![w] = "post"]
        BY <1>3 DEF Query
    <2>2. t \in Nat
        BY QueryType
    <2>. QED BY <1>3, <2>1, <2>2 DEF Query, keyVars, serverVars, localVars
<1>4. ASSUME NEW w \in Workers, GetCert(w) PROVE TypeInv'
    BY <1>4 DEF GetCert, keyVars, serverVars, localVars
<1>5. ASSUME NEW w \in Workers, JudgeAgain(w) PROVE TypeInv'
    BY <1>5 DEF JudgeAgain, keyVars, serverVars, localVars
<1>6. ASSUME NEW w \in Workers, ParseCertMb(w) PROVE TypeInv'
    BY <1>6 DEF ParseCertMb, keyVars, serverVars, localVars
<1>7. ASSUME NEW w \in Workers, FetchRandom(w) PROVE TypeInv'
    BY <1>7 DEF FetchRandom, keyVars, serverVars, localVars
<1>8. ASSUME NEW w \in Workers, SignRandom(w) PROVE TypeInv'
    <2>1. signed' \in [Workers -> Workers \cup {Nobody}]
        BY <1>8 DEF SignRandom
    <2>2. pc' \in [Procs -> Steps] /\ pc'[Gui] = pc[Gui] /\ errCode' \in ErrCodes
        BY <1>8 DEF SignRandom
    <2>. QED BY <1>8, <2>1, <2>2 DEF SignRandom, keyVars, serverVars, localVars
<1>9. ASSUME NEW w \in Workers, PostTgt(w) PROVE TypeInv'
    <2>1. KeyOf(req[w]) \in Keys
        BY <1>9, ServedFields DEF PostTgt
    <2>2. pc' \in [Procs -> Steps] /\ pc'[Gui] = pc[Gui] /\ errCode' \in ErrCodes
        BY <1>9 DEF PostTgt
    <2>3. tgt' \in [Procs -> Nat]
        BY <1>9 DEF PostTgt
    <2>4. issued' \in Seq(Keys) /\ live' \subseteq 1 .. Len(issued')
        <3>1. CASE UNCHANGED serverVars
            BY <3>1 DEF serverVars
        <3>2. CASE Issue(w)
            <4>1. issued' \in Seq(Keys) /\ Len(issued') = Len(issued) + 1
                BY <3>2, <2>1 DEF Issue
            <4>2. live' = live \cup {Len(issued) + 1}
                BY <3>2 DEF Issue
            <4>3. Len(issued) \in Nat /\ live \subseteq 1 .. Len(issued)
                OBVIOUS
            <4>4. live' \subseteq 1 .. (Len(issued) + 1)
                BY <4>2, <4>3, NextTicket
            <4>. QED BY <4>1, <4>4
        <3>. QED BY <1>9, <3>1, <3>2 DEF PostTgt
    <2>5. \A v \in Workers : pc'[v] \in GetSTSteps => pc[v] \in GetSTSteps
        BY <1>9 DEF PostTgt
    <2>. QED BY <1>9, <2>2, <2>3, <2>4, <2>5 DEF PostTgt, keyVars
<1>10. ASSUME NEW w \in Workers, Insert(w) PROVE TypeInv'
    <2>1. req[w].app \in Apps /\ req[w].mark \in Marks
        BY <1>10, ServedFields DEF Insert
    <2>2. rows' \in Seq(Row(Apps, Marks, Nat))
        <3>1. tgt[w] \in Nat
            OBVIOUS
        <3>2. [app |-> req[w].app, mark |-> req[w].mark, tgt |-> tgt[w]] \in Row(Apps, Marks, Nat)
            BY <3>1, <2>1 DEF Row
        <3>3. CASE rows' = rows
            BY <3>3
        <3>4. CASE rows' = InsertTGT(rows, req[w].app, req[w].mark, tgt[w])
            BY <3>2, <3>4 DEF InsertTGT
        <3>. QED BY <1>10, <3>3, <3>4 DEF Insert
    <2>. QED BY <1>10, <2>2 DEF Insert, keyVars, serverVars, localVars
<1>11. ASSUME NEW w \in Workers, PostSt(w) PROVE TypeInv'
    BY <1>11 DEF PostSt, keyVars, serverVars, localVars
<1>12. ASSUME NEW w \in Workers, Reply(w) PROVE TypeInv'
    BY <1>12 DEF Reply, keyVars, serverVars, localVars
<1>13. ASSUME NEW p \in Procs, ReadTgt(p) PROVE TypeInv'
    BY <1>13, GetLocalType DEF ReadTgt, Leave, keyVars, serverVars, localVars
<1>14. ASSUME NEW p \in Procs, Revoke(p) PROVE TypeInv'
    <2>1. live' \subseteq 1 .. Len(issued)
        BY <1>14 DEF Revoke, OnFault
    <2>2. pc' \in [Procs -> Steps] /\ pc'[Gui] \in {"idle"} \cup LogoutSteps
        BY <1>14 DEF Revoke, Leave
    <2>4. tgt' \in [Procs -> Nat]
        <3>1. CASE UNCHANGED tgt
            BY <3>1
        <3>2. CASE tgt' = [tgt EXCEPT ![p] = NoTgt]
            BY <3>2
        <3>. QED BY <1>14, <3>1, <3>2 DEF Revoke
    <2>3. \A v \in Workers : pc'[v] \in GetSTSteps => pc[v] \in GetSTSteps
        BY <1>14 DEF Revoke, Leave
    <2>. QED BY <1>14, <2>1, <2>2, <2>3, <2>4 DEF Revoke, keyVars
<1>15. ASSUME NEW p \in Procs, Clear(p) PROVE TypeInv'
    <2>1. rows' \in Seq(Row(Apps, Marks, Nat))
        <3>1. rows' = << >> \/ rows' = rows
            BY <1>15 DEF Clear, OnFault, DeleteTGT
        <3>2. CASE rows' = << >>
            BY <3>2
        <3>. QED BY <3>1, <3>2
    <2>2. pc' \in [Procs -> Steps] /\ pc'[Gui] \in {"idle"} \cup LogoutSteps /\ tgt' \in [Procs -> Nat]
        BY <1>15 DEF Clear, Leave
    <2>3. \A v \in Workers : pc'[v] \in GetSTSteps => pc[v] \in GetSTSteps
        BY <1>15 DEF Clear, Leave
    <2>. QED BY <1>15, <2>1, <2>2, <2>3 DEF Clear, keyVars, serverVars, localVars
<1>16. CASE HandleInsert
    BY <1>16 DEF HandleInsert, keyVars, serverVars, localVars
<1>17. CASE VerifyPin
    BY <1>17 DEF VerifyPin, keyVars, serverVars, localVars
<1>18. CASE HandleExtract
    <2>1. removals' \in Nat
        BY <1>18 DEF HandleExtract
    <2>2. verify' \in BOOLEAN
        BY <1>18, Zenon DEF HandleExtract
    <2>3. pc' \in [Procs -> Steps] /\ pc'[Gui] \in {"idle"} \cup LogoutSteps
        BY <1>18 DEF HandleExtract
    <2>4. \A v \in Workers : pc'[v] = pc[v]
        BY <1>18 DEF HandleExtract
    <2>. QED BY <1>18, <2>1, <2>2, <2>3, <2>4 DEF HandleExtract, keyVars, serverVars, localVars
<1>19. CASE Plug
    BY <1>19 DEF Plug, keyVars, serverVars, localVars
<1>20. CASE Unplug
    <2>1. removals' \in Nat
        BY <1>20 DEF Unplug
    <2>. QED BY <1>20, <2>1 DEF Unplug, keyVars, serverVars, localVars
<1>21. CASE Expire
    BY <1>21 DEF Expire, keyVars, serverVars, localVars
<1>22. CASE Restart
    BY <1>22 DEF Restart, keyVars, serverVars, localVars
<1>23. CASE UNCHANGED vars
    BY <1>23 DEF vars, keyVars, serverVars, localVars
<1>. QED
    BY <1>1, <1>2, <1>3, <1>4, <1>5, <1>6, <1>7, <1>8, <1>9, <1>10, <1>11, <1>12, <1>13, <1>14, <1>15, <1>16, <1>17, <1>18, <1>19, <1>20, <1>21, <1>22, <1>23 DEF Next, GetST, Logout

\* Every variable stays in its domain, on every path of the program.
THEOREM TypeCorrect == Spec => []TypeOK
<1>1. TypeInv => TypeOK
    BY DEF TypeInv
<1>. QED BY TypeInit, TypeStep, <1>1, PTL DEF Spec

-----------------------------------------------------------------------------
(* Tickets *)

\* What the server has issued stays issued, for the same key, and a ticket
\* that has ended is never accepted again.
LEMMA TicketsPersist ==
    ASSUME TypeInv, [Next]_vars, NEW t \in DOMAIN issued
    PROVE  /\ t \in DOMAIN issued' /\ issued'[t] = issued[t]
           /\ t \notin live => t \notin live'
<1>1. CASE UNCHANGED serverVars
    BY <1>1 DEF serverVars
<1>2. CASE UNCHANGED issued /\ live' \subseteq live
    BY <1>2
<1>3. ASSUME NEW w \in Workers, Issue(w)
      PROVE  /\ t \in DOMAIN issued' /\ issued'[t] = issued[t]
             /\ t \notin live => t \notin live'
    <2>1. issued \in Seq(Keys) /\ t \in 1 .. Len(issued)
        BY DEF TypeInv, TypeOK
    <2>2. t # Len(issued) + 1
        BY <2>1
    <2>. QED BY <1>3, <2>1, <2>2 DEF Issue
<1>4. ASSUME NEW w \in Workers, PostTgt(w) PROVE UNCHANGED serverVars \/ Issue(w)
    BY <1>4 DEF PostTgt, serverVars
<1>5. ASSUME NEW p \in Procs, Revoke(p) PROVE UNCHANGED issued /\ live' \subseteq live
    BY <1>5 DEF Revoke, OnFault
<1>6. Expire => UNCHANGED issued /\ live' \subseteq live
    BY DEF Expire
<1>7. \/ UNCHANGED serverVars \/ Expire
      \/ \E w \in Workers : PostTgt(w)
      \/ \E p \in Procs : Revoke(p)
    BY DEF Next, GetST, Logout, Accept, AskLogout, Query, GetCert, JudgeAgain, ParseCertMb,
           FetchRandom, SignRandom, Insert, PostSt, Reply, ReadTgt, Clear, HandleInsert,
           VerifyPin, HandleExtract, Plug, Unplug, Restart, vars, serverVars
<1>. QED BY <1>1, <1>2, <1>3, <1>4, <1>5, <1>6, <1>7

-----------------------------------------------------------------------------
(* Who moves: the step of one thread leaves the others where they are *)

LEMMA WorkerMoves ==
    ASSUME TypeInv, [Next]_vars, NEW v \in Workers
    PROVE  \/ /\ pc'[v] = pc[v] /\ tgt'[v] = tgt[v]
              /\ req'[v] = req[v] /\ signed'[v] = signed[v]
           \/ Accept(v) \/ AskLogout(v) \/ GetST(v) \/ Reply(v) \/ Logout(v)
           \/ Restart
<1>. DEFINE Still == /\ pc'[v] = pc[v] /\ tgt'[v] = tgt[v]
                     /\ req'[v] = req[v] /\ signed'[v] = signed[v]
<1>. USE ThreadsAssumption DEF TypeInv, TypeOK, Procs
<1>1. ASSUME NEW w \in Workers \ {v}, Accept(w) \/ AskLogout(w) \/ Reply(w) PROVE Still
    BY <1>1 DEF Accept, AskLogout, Reply, Step, Goto, localVars
<1>2. ASSUME NEW w \in Workers \ {v}, GetST(w) PROVE Still
    BY <1>2 DEF GetST, Query, GetCert, JudgeAgain, ParseCertMb, FetchRandom, SignRandom,
                PostTgt, Insert, PostSt, Step, Goto, localVars
<1>3. ASSUME NEW p \in Procs \ {v}, Logout(p) PROVE Still
    BY <1>3 DEF Logout, ReadTgt, Revoke, Clear, Leave, Step, Goto, localVars
<1>4. HandleInsert \/ VerifyPin \/ HandleExtract \/ Plug \/ Unplug \/ Expire => Still
    BY DEF HandleInsert, VerifyPin, HandleExtract, Plug, Unplug, Expire, Step, Goto, localVars
<1>5. UNCHANGED vars => Still
    BY DEF vars, localVars
<1>. QED BY <1>1, <1>2, <1>3, <1>4, <1>5 DEF Next

TicketInv == RowsIssued /\ TicketOfRequest /\ LogoutHoldsTicket /\ MissHoldsNothing

\* Only InsertTGT and DeleteTGT touch the table.
LEMMA RowsChange ==
    ASSUME TypeInv, [Next]_vars
    PROVE  \/ rows' = rows \/ rows' = << >>
           \/ \E w \in Workers : /\ Insert(w)
                                /\ rows' = InsertTGT(rows, req[w].app, req[w].mark, tgt[w])
<1>1. \A p \in Procs : Clear(p) => rows' = rows \/ rows' = << >>
    BY DEF Clear, OnFault, DeleteTGT
<1>2. \/ rows' = rows
      \/ \E w \in Workers : Insert(w)
      \/ \E p \in Procs : Clear(p)
    BY DEF Next, GetST, Logout, Accept, AskLogout, Query, GetCert, JudgeAgain, ParseCertMb,
           FetchRandom, SignRandom, PostTgt, PostSt, Reply, ReadTgt, Revoke, HandleInsert,
           VerifyPin, HandleExtract, Plug, Unplug, Expire, Restart, vars
<1>. QED BY <1>1, <1>2 DEF Insert

LEMMA EmptiedByClear ==
    ASSUME TypeInv, [Next]_vars, rows # << >>, rows' = << >>
    PROVE  \E p \in Procs : Clear(p)
<1>1. rows' # rows
    OBVIOUS
<1>2. \A w \in Workers : ~Insert(w)
    <2>. SUFFICES ASSUME NEW w \in Workers, Insert(w) PROVE FALSE
        OBVIOUS
    <2>1. rows' = Append(rows, [app |-> req[w].app, mark |-> req[w].mark, tgt |-> tgt[w]])
        BY <1>1 DEF Insert, InsertTGT
    <2>2. rows \in Seq(Row(Apps, Marks, Nat))
        BY DEF TypeInv, TypeOK
    <2>3. Len(rows') = Len(rows) + 1 /\ Len(rows) \in Nat
        BY <2>1, <2>2
    <2>. QED BY <2>3
<1>. QED BY <1>1, <1>2
    DEF Next, GetST, Logout, Accept, AskLogout, Query, GetCert, JudgeAgain, ParseCertMb,
        FetchRandom, SignRandom, PostTgt, PostSt, Reply, ReadTgt, Revoke, HandleInsert,
        VerifyPin, HandleExtract, Plug, Unplug, Expire, Restart, vars

LEMMA RowsIssuedStep == TypeInv /\ TicketInv /\ [Next]_vars => RowsIssued'
<1>. SUFFICES ASSUME TypeInv, TicketInv, [Next]_vars PROVE RowsIssued'
    OBVIOUS
<1>1. CASE rows' = rows
    BY <1>1, TicketsPersist DEF TicketInv, RowsIssued
<1>2. CASE rows' = << >>
    BY <1>2 DEF RowsIssued
<1>3. ASSUME NEW w \in Workers, Insert(w),
             rows' = InsertTGT(rows, req[w].app, req[w].mark, tgt[w])
      PROVE  RowsIssued'
    <2>. DEFINE new == [app |-> req[w].app, mark |-> req[w].mark, tgt |-> tgt[w]]
    <2>1. UNCHANGED issued /\ pc[w] = "insert"
        BY <1>3 DEF Insert, serverVars, Step
    <2>2. new.tgt # NoTgt => new.tgt \in DOMAIN issued /\ issued[new.tgt] = KeyOf(new)
        BY <2>1 DEF TicketInv, TicketOfRequest, KeyOf
    <2>3. rows \in Seq(Row(Apps, Marks, Nat)) /\ rows' = Append(rows, new)
        BY <1>3 DEF TypeInv, TypeOK, InsertTGT
    <2>. HIDE DEF new
    <2>4. ASSUME NEW i \in DOMAIN rows' PROVE rows'[i] = new \/ (i \in DOMAIN rows /\ rows'[i] = rows[i])
        BY <2>3
    <2>. QED BY <2>1, <2>2, <2>4 DEF TicketInv, RowsIssued
<1>. QED BY <1>1, <1>2, <1>3, RowsChange

\* A ticket found in the table belongs to the key that was asked for.
LEMMA QueryHit ==
    ASSUME TypeInv, RowsIssued, NEW app, NEW mark,
           NEW t \in QueryLocalTGT(rows, app, mark), t # NoTgt
    PROVE  t \in DOMAIN issued /\ issued[t] = [app |-> app, mark |-> mark]
<1>1. PICK i \in {i \in DOMAIN rows : rows[i].app = app /\ rows[i].mark = mark} : t = rows[i].tgt
    BY SelectedFromRows DEF QueryLocalTGT
<1>. QED BY <1>1 DEF RowsIssued, KeyOf

LEMMA TicketOfRequestStep == TypeInv /\ TicketInv /\ [Next]_vars => TicketOfRequest'
<1>. SUFFICES ASSUME TypeInv, TicketInv, [Next]_vars,
                     NEW v \in Workers, pc'[v] \in {"insert", "st"}, tgt'[v] # NoTgt
              PROVE  tgt'[v] \in DOMAIN issued' /\ issued'[tgt'[v]] = KeyOf(req'[v])
    BY DEF TicketOfRequest
<1>. USE ThreadsAssumption DEF Procs
<1>1. CASE pc[v] \in {"insert", "st"} /\ tgt'[v] = tgt[v] /\ req'[v] = req[v]
    BY <1>1, TicketsPersist DEF TicketInv, TicketOfRequest
<1>2. CASE Query(v)
    <2>1. PICK t \in QueryLocalTGT(rows, req[v].app, req[v].mark) \cup OnFault("sql", {NoTgt}) :
            tgt' = [tgt EXCEPT ![v] = t]
        BY <1>2 DEF Query
    <2>2. tgt'[v] = t /\ UNCHANGED <<req, issued>>
        BY <1>2, <2>1 DEF TypeInv, TypeOK, Query, serverVars
    <2>3. t \in QueryLocalTGT(rows, req[v].app, req[v].mark)
        BY <2>1, <2>2 DEF OnFault
    <2>. QED BY <2>2, <2>3, QueryHit DEF TicketInv, KeyOf
<1>3. CASE PostTgt(v)
    <2>1. req' = req
        BY <1>3 DEF PostTgt
    <2>2. CASE tgt' = tgt
        <3>1. tgt[v] = NoTgt
            BY <1>3 DEF PostTgt, Step, TicketInv, MissHoldsNothing
        <3>. QED BY <2>2, <3>1
    <2>3. CASE Issue(v) /\ tgt' = [tgt EXCEPT ![v] = Len(issued) + 1]
        BY <2>1, <2>3 DEF TypeInv, TypeOK, Issue
    <2>. QED BY <1>3, <2>2, <2>3 DEF PostTgt
<1>4. CASE Insert(v) \/ PostSt(v)
    <2>1. pc[v] \in {"insert", "st"} /\ UNCHANGED localVars
        BY <1>4 DEF Insert, PostSt, Step
    <2>. QED BY <1>1, <2>1 DEF localVars
<1>5. ~(Accept(v) \/ AskLogout(v) \/ GetCert(v) \/ JudgeAgain(v) \/ ParseCertMb(v)
        \/ FetchRandom(v) \/ SignRandom(v) \/ Reply(v) \/ Logout(v) \/ Restart)
    BY DEF TypeInv, TypeOK, Accept, AskLogout, GetCert, JudgeAgain, ParseCertMb, FetchRandom,
           SignRandom, Reply, Logout, ReadTgt, Revoke, Clear, Leave, Restart, Step, Goto
<1>. QED BY <1>1, <1>2, <1>3, <1>4, <1>5, WorkerMoves DEF GetST

LEMMA MissHoldsNothingStep == TypeInv /\ TicketInv /\ [Next]_vars => MissHoldsNothing'
<1>. DEFINE Missed == {"cert", "judge", "mb", "random", "sign", "post"}
<1>. SUFFICES ASSUME TypeInv, TicketInv, [Next]_vars,
                     NEW v \in Workers, pc'[v] \in Missed
              PROVE  tgt'[v] = NoTgt
    BY DEF MissHoldsNothing
<1>. USE ThreadsAssumption DEF Procs, TypeInv, TypeOK
<1>1. CASE pc[v] \in Missed /\ tgt'[v] = tgt[v]
    BY <1>1 DEF TicketInv, MissHoldsNothing
<1>2. CASE Query(v)
    <2>1. PICK t : /\ tgt' = [tgt EXCEPT ![v] = t]
                   /\ t # NoTgt => pc' = [pc EXCEPT ![v] = "st"]
        BY <1>2 DEF Query, Goto
    <2>2. t = NoTgt
        BY <2>1
    <2>. QED BY <2>1, <2>2
<1>3. CASE GetCert(v) \/ JudgeAgain(v) \/ ParseCertMb(v) \/ FetchRandom(v) \/ SignRandom(v)
    <2>1. pc[v] \in Missed /\ tgt' = tgt
        BY <1>3 DEF GetCert, JudgeAgain, ParseCertMb, FetchRandom, SignRandom, Step, localVars
    <2>. QED BY <1>1, <2>1
<1>4. ~(Accept(v) \/ AskLogout(v) \/ PostTgt(v) \/ Insert(v) \/ PostSt(v)
        \/ Reply(v) \/ Logout(v) \/ Restart)
    BY DEF Accept, AskLogout, PostTgt, Insert, PostSt, Reply, Logout, ReadTgt, Revoke, Clear,
           Leave, Restart, Step, Goto
<1>. QED BY <1>1, <1>2, <1>3, <1>4, WorkerMoves DEF GetST

LEMMA LogoutMoves ==
    ASSUME TypeInv, [Next]_vars, NEW q \in Procs, pc'[q] \in {"revoke", "clear"}
    PROVE  (pc'[q] = pc[q] /\ tgt'[q] = tgt[q]) \/ ReadTgt(q) \/ Revoke(q)
<1>. DEFINE Still == pc'[q] = pc[q] /\ tgt'[q] = tgt[q]
<1>. USE ThreadsAssumption DEF TypeInv, TypeOK, Procs
<1>1. ASSUME NEW w \in Workers, Accept(w) \/ AskLogout(w) \/ Reply(w) PROVE Still
    BY <1>1 DEF Accept, AskLogout, Reply, Step, Goto, localVars
<1>2. ASSUME NEW w \in Workers, GetST(w) PROVE Still
    BY <1>2 DEF GetST, Query, GetCert, JudgeAgain, ParseCertMb, FetchRandom, SignRandom,
                PostTgt, Insert, PostSt, Step, Goto, localVars
<1>3. ASSUME NEW p \in Procs, Logout(p) PROVE Still \/ ReadTgt(q) \/ Revoke(q)
    <2>1. CASE p = q
        BY <1>3, <2>1 DEF Logout, Clear, Leave, Goto
    <2>2. CASE p # q
        BY <1>3, <2>2 DEF Logout, ReadTgt, Revoke, Clear, Leave, Step, Goto
    <2>. QED BY <2>1, <2>2
<1>4. HandleInsert \/ VerifyPin \/ HandleExtract \/ Plug \/ Unplug \/ Expire => Still
    BY DEF HandleInsert, VerifyPin, HandleExtract, Plug, Unplug, Expire, Step, Goto, localVars
<1>5. ~Restart
    BY DEF Restart
<1>6. UNCHANGED vars => Still
    BY DEF vars, localVars
<1>. QED BY <1>1, <1>2, <1>3, <1>4, <1>5, <1>6 DEF Next

LEMMA LogoutHoldsTicketStep == TypeInv /\ TicketInv /\ [Next]_vars => LogoutHoldsTicket'
<1>. SUFFICES ASSUME TypeInv, TicketInv, [Next]_vars,
                     NEW q \in Procs, pc'[q] \in {"revoke", "clear"}
              PROVE  /\ tgt'[q] \in DOMAIN issued'
                     /\ pc'[q] = "clear" => tgt'[q] \notin live'
    BY DEF LogoutHoldsTicket
<1>. USE DEF TypeInv, TypeOK
<1>1. CASE pc'[q] = pc[q] /\ tgt'[q] = tgt[q]
    BY <1>1, TicketsPersist DEF TicketInv, LogoutHoldsTicket
<1>2. CASE ReadTgt(q)
    <2>1. PICK t \in GetLocalTGT(rows) \cup OnFault("sql", {NoTgt}) :
            /\ tgt' = [tgt EXCEPT ![q] = t]
            /\ (t # NoTgt /\ Goto(q, "revoke")) \/ (t = NoTgt /\ Leave(q, TRUE))
        BY <1>2 DEF ReadTgt
    <2>2. t # NoTgt /\ pc'[q] = "revoke"
        BY <2>1 DEF Leave, Goto
    <2>3. PICK i \in DOMAIN rows : t = rows[i].tgt
        BY <2>1, <2>2, SelectedFromRows DEF GetLocalTGT, OnFault
    <2>4. t \in DOMAIN issued /\ issued' = issued
        BY <1>2, <2>2, <2>3 DEF TicketInv, RowsIssued, ReadTgt, serverVars
    <2>. QED BY <2>1, <2>2, <2>4
<1>3. CASE Revoke(q)
    <2>1. pc'[q] = "clear" /\ UNCHANGED tgt /\ live' = live \ {tgt[q]} /\ UNCHANGED issued
        BY <1>3 DEF Revoke, Leave, Goto, Step
    <2>2. tgt[q] \in DOMAIN issued
        BY <1>3 DEF Revoke, Step, TicketInv, LogoutHoldsTicket
    <2>. QED BY <2>1, <2>2
<1>. QED BY <1>1, <1>2, <1>3, LogoutMoves

LEMMA TicketInit == Init => TicketInv
BY DEF Init, TicketInv, RowsIssued, TicketOfRequest, LogoutHoldsTicket, MissHoldsNothing, Procs

LEMMA TicketSpec == Spec => [](TypeInv /\ TicketInv)
<1>1. TypeInv /\ TicketInv /\ [Next]_vars => TicketInv'
    BY RowsIssuedStep, TicketOfRequestStep, LogoutHoldsTicketStep, MissHoldsNothingStep
       DEF TicketInv
<1>. QED BY TypeInit, TypeStep, TicketInit, <1>1, PTL DEF Spec

\* GetST never uses one application's ticket for another, for any number of
\* workers, logouts, restarts and failures.
THEOREM TicketOfRequestHolds == Spec => []TicketOfRequest
<1>1. TicketInv => TicketOfRequest
    BY DEF TicketInv
<1>. QED BY TicketSpec, <1>1, PTL

\* The table is emptied only by a logout whose own ticket the server has
\* ended, never by another path of the program.
THEOREM ForgottenOnlyAfterRevokeHolds == Spec => ForgottenOnlyAfterRevoke
<1>. DEFINE Forgotten == rows # << >> /\ rows' = << >> =>
                \E p \in Procs : pc[p] = "clear" /\ tgt[p] # NoTgt /\ tgt[p] \notin live
<1>1. TypeInv /\ TicketInv /\ [Next]_vars => [Forgotten]_vars
    <2>. SUFFICES ASSUME TypeInv, TicketInv, [Next]_vars, rows # << >>, rows' = << >>
                  PROVE  \E p \in Procs : pc[p] = "clear" /\ tgt[p] # NoTgt /\ tgt[p] \notin live
        OBVIOUS
    <2>1. PICK p \in Procs : Clear(p)
        BY EmptiedByClear
    <2>2. pc[p] = "clear"
        BY <2>1 DEF Clear
    <2>3. tgt[p] \in DOMAIN issued /\ tgt[p] \notin live
        BY <2>2 DEF TicketInv, LogoutHoldsTicket
    <2>4. tgt[p] # NoTgt
        BY <2>3 DEF TypeInv, TypeOK, NoTgt
    <2>. QED BY <2>2, <2>3, <2>4
<1>. QED BY TicketSpec, <1>1, PTL DEF Spec, ForgottenOnlyAfterRevoke

-----------------------------------------------------------------------------
(* The key *)

\* The flag is lowered before the last queued removal is gone.
LEMMA VerifiedStep == TypeInv /\ VerifiedKeyPresent /\ [Next]_vars => VerifiedKeyPresent'
<1>. SUFFICES ASSUME TypeInv, VerifiedKeyPresent, [Next]_vars, verify'
              PROVE  known' /\ (plugged' \/ removals' > 0)
    BY DEF VerifiedKeyPresent
<1>1. CASE UNCHANGED keyVars
    BY <1>1 DEF VerifiedKeyPresent, keyVars
<1>2. ASSUME NEW w \in Workers, FetchRandom(w) PROVE known' /\ (plugged' \/ removals' > 0)
    BY <1>2 DEF FetchRandom, VerifiedKeyPresent
<1>3. CASE HandleInsert \/ Plug
    BY <1>3 DEF HandleInsert, Plug, VerifiedKeyPresent
<1>4. CASE VerifyPin
    BY <1>4 DEF VerifyPin
<1>5. CASE HandleExtract
    <2>1. UNCHANGED <<known, plugged>> /\ (~known => UNCHANGED verify) /\ (known => verify' = FALSE)
        BY <1>5, Zenon DEF HandleExtract
    <2>. QED BY <2>1 DEF VerifiedKeyPresent
<1>6. CASE Unplug
    <2>1. removals' > 0
        BY <1>6 DEF Unplug, TypeInv, TypeOK
    <2>2. UNCHANGED <<verify, known>>
        BY <1>6 DEF Unplug
    <2>. QED BY <2>1, <2>2 DEF VerifiedKeyPresent
<1>7. ~Restart
    BY DEF Restart
<1>8. \/ UNCHANGED keyVars \/ HandleInsert \/ Plug \/ VerifyPin \/ HandleExtract
      \/ Unplug \/ Restart \/ \E w \in Workers : FetchRandom(w)
    BY DEF Next, GetST, Logout, Accept, AskLogout, Query, GetCert, JudgeAgain, ParseCertMb,
           SignRandom, PostTgt, Insert, PostSt, Reply, ReadTgt, Revoke, Clear, Expire, vars, keyVars
<1>. QED BY <1>1, <1>2, <1>3, <1>4, <1>5, <1>6, <1>7, <1>8

\* The PIN counts as verified only while the key is in, or its removal is
\* still on its way to the GUI thread.
THEOREM VerifiedKeyPresentHolds == Spec => []VerifiedKeyPresent
<1>1. Init => VerifiedKeyPresent
    BY DEF Init, VerifiedKeyPresent
<1>2. TypeInv /\ TicketInv => TypeInv
    OBVIOUS
<1>. QED BY TicketSpec, <1>1, <1>2, VerifiedStep, PTL DEF Spec

\* The key of this model and its flag take only the steps of a KeyGuard.
LEMMA GuardStep ==
    TypeInv /\ VerifiedKeyPresent /\ [Next]_vars => [Guard!Next]_(Guard!guardVars)
<1>. SUFFICES ASSUME TypeInv, VerifiedKeyPresent, [Next]_vars
              PROVE  [Guard!Next]_(Guard!guardVars)
    OBVIOUS
<1>1. removals \in Nat /\ removals' \in Nat /\ plugged \in BOOLEAN /\ known \in BOOLEAN
    BY TypeStep DEF TypeInv, TypeOK
<1>2. CASE UNCHANGED keyVars
    BY <1>2 DEF keyVars, Guard!guardVars
<1>3. ASSUME UNCHANGED <<verify, plugged, removals>>, known' \in {known, TRUE}
      PROVE  [Guard!Next]_(Guard!guardVars)
    <2>1. CASE known' = known
        BY <1>3, <2>1 DEF Guard!guardVars
    <2>2. CASE known' = TRUE
        <3>1. Guard!Choose("key")
            BY <1>3, <2>2 DEF Guard!Choose
        <3>. QED BY <3>1 DEF Guard!Next
    <2>. QED BY <1>3, <2>1, <2>2
<1>4. ASSUME NEW w \in Workers, FetchRandom(w) PROVE [Guard!Next]_(Guard!guardVars)
    <2>1. UNCHANGED <<verify, plugged, removals>> /\ known' \in {known, TRUE}
        BY <1>1, <1>4 DEF FetchRandom
    <2>. QED BY <1>3, <2>1
<1>5. CASE HandleInsert
    BY <1>3, <1>5 DEF HandleInsert
<1>6. CASE VerifyPin
    <2>1. UNCHANGED <<known, plugged, removals>>
        BY <1>6 DEF VerifyPin
    <2>2. CASE verify'
        <3>1. known /\ (plugged \/ removals > 0)
            BY <1>6, <2>2 DEF VerifyPin
        <3>2. Guard!Raise("key")
            BY <2>1, <2>2, <3>1 DEF Guard!Raise
        <3>. QED BY <3>2 DEF Guard!Next
    <2>3. CASE ~verify'
        <3>1. Guard!Lower
            BY <2>1, <2>3 DEF Guard!Lower
        <3>. QED BY <3>1 DEF Guard!Next
    <2>. QED BY <2>2, <2>3
<1>7. CASE HandleExtract
    <2>1. removals > 0 /\ UNCHANGED <<known, plugged>>
          /\ (~known => UNCHANGED verify) /\ (known => verify' = FALSE)
        BY <1>7, Zenon DEF HandleExtract
    <2>2. Guard!Handle("key")
        BY <2>1 DEF Guard!Handle, VerifiedKeyPresent
    <2>. QED BY <2>2 DEF Guard!Next
<1>8. CASE Plug
    <2>1. Guard!Plug("key")
        BY <1>8 DEF Plug, Guard!Plug
    <2>. QED BY <2>1 DEF Guard!Next
<1>9. CASE Unplug
    <2>1. Guard!Unplug("key")
        BY <1>1, <1>9 DEF Unplug, Guard!Unplug
    <2>. QED BY <2>1 DEF Guard!Next
<1>10. CASE Restart
    <2>1. Guard!Restart
        BY <1>10 DEF Restart, Guard!Restart
    <2>. QED BY <2>1 DEF Guard!Next
<1>11. \/ UNCHANGED keyVars \/ HandleInsert \/ Plug \/ VerifyPin \/ HandleExtract
       \/ Unplug \/ Restart \/ \E w \in Workers : FetchRandom(w)
    BY DEF Next, GetST, Logout, Accept, AskLogout, Query, GetCert, JudgeAgain, ParseCertMb,
           SignRandom, PostTgt, Insert, PostSt, Reply, ReadTgt, Revoke, Clear, Expire, vars, keyVars
<1>. QED BY <1>2, <1>4, <1>5, <1>6, <1>7, <1>8, <1>9, <1>10, <1>11

\* The session's view of key and flag is the one UkeyAgent implements in
\* detail: both are a KeyGuard.
THEOREM SessionImplementsGuard == Spec => ImplementsKeyGuard
<1>1. Init => Guard!Init
    BY DEF Init, Guard!Init
<1>2. TypeInv /\ TicketInv => TypeInv
    OBVIOUS
<1>. QED BY TicketSpec, <1>1, <1>2, VerifiedKeyPresentHolds, GuardStep, PTL
         DEF Spec, ImplementsKeyGuard, Guard!Spec

LEMMA PinStep ==
    ASSUME TypeInv, VerifiedKeyPresent, [Next]_vars, ~plugged, removals = 0
    PROVE  PastPin' \subseteq PastPin
<1>. USE ThreadsAssumption DEF TypeInv, TypeOK, Procs
<1>0. ~verify
    BY DEF VerifiedKeyPresent
<1>. SUFFICES ASSUME NEW v \in Workers, req'[v].type = "UKEY",
                     pc'[v] \in {"random", "sign", "post", "insert"}
              PROVE  v \in PastPin
    BY DEF PastPin
<1>1. CASE pc'[v] = pc[v] /\ req'[v] = req[v]
    BY <1>1 DEF PastPin
<1>2. CASE FetchRandom(v) \/ SignRandom(v) \/ PostTgt(v)
    BY <1>2 DEF FetchRandom, SignRandom, PostTgt, Step, Goto, localVars, PastPin
<1>3. ~ParseCertMb(v)
    BY <1>0 DEF ParseCertMb, Step, Goto
<1>4. ~Query(v)
    BY DEF Query, Goto
<1>5. ~(Accept(v) \/ AskLogout(v) \/ GetCert(v) \/ JudgeAgain(v) \/ Insert(v) \/ PostSt(v)
        \/ Reply(v) \/ Logout(v) \/ Restart)
    BY DEF Accept, AskLogout, GetCert, JudgeAgain, Insert, PostSt, Reply, Logout, ReadTgt, Revoke,
           Clear, Leave, Restart, Step, Goto
<1>. QED BY <1>1, <1>2, <1>3, <1>4, <1>5, WorkerMoves DEF GetST

\* The key is out and its removal handled: logins by key only become fewer.
THEOREM NoLoginWithoutKeyHolds == Spec => NoLoginWithoutKey
<1>1. TypeInv /\ TicketInv => TypeInv
    OBVIOUS
<1>2. TypeInv /\ VerifiedKeyPresent /\ [Next]_vars =>
          [~plugged /\ removals = 0 => PastPin' \subseteq PastPin]_vars
    BY PinStep
<1>. QED BY TicketSpec, VerifiedKeyPresentHolds, <1>1, <1>2, PTL DEF Spec, NoLoginWithoutKey

-----------------------------------------------------------------------------
(* The shared random *)

LEMMA SignatureStep == TypeInv /\ SignatureOverlap /\ [Next]_vars => SignatureOverlap'
<1>. SUFFICES ASSUME TypeInv, SignatureOverlap, [Next]_vars,
                     NEW v \in Workers, pc'[v] = "post", req'[v].type = "UKEY",
                     signed'[v] # random'
              PROVE  random' \in Workers \ {v}
    BY DEF SignatureOverlap
<1>. USE ThreadsAssumption DEF TypeInv, TypeOK, Procs
<1>1. CASE SignRandom(v)
    BY <1>1 DEF SignRandom, Step, Goto
<1>2. CASE Query(v)
    <2>1. req' = req /\ pc[v] = "query"
        BY <1>2 DEF Query
    <2>2. req[v].type # "UKEY"
        BY <1>2 DEF Query, Goto
    <2>. QED BY <2>1, <2>2
<1>3. CASE pc'[v] = pc[v] /\ req'[v] = req[v] /\ signed'[v] = signed[v]
    <2>1. CASE random' = random
        BY <1>3, <2>1 DEF SignatureOverlap
    <2>2. ASSUME NEW w \in Workers, FetchRandom(w) PROVE random' \in Workers \ {v}
        <3>1. w # v
            BY <1>3, <2>2 DEF FetchRandom, Step
        <3>2. random' = random \/ random' = w
            BY <2>2 DEF FetchRandom
        <3>. QED BY <2>1, <3>1, <3>2
    <2>3. random' = random \/ \E w \in Workers : FetchRandom(w)
        <3>1. ~Restart
            BY DEF Restart
        <3>. QED BY <3>1
            DEF Next, GetST, Logout, Accept, AskLogout, Query, GetCert, JudgeAgain,
                ParseCertMb, SignRandom, PostTgt, Insert, PostSt, Reply, ReadTgt, Revoke, Clear,
                HandleInsert, VerifyPin, HandleExtract, Plug, Unplug, Expire, vars
    <2>. QED BY <2>1, <2>2, <2>3
<1>4. ~(Accept(v) \/ AskLogout(v) \/ GetCert(v) \/ JudgeAgain(v) \/ ParseCertMb(v)
        \/ FetchRandom(v) \/ PostTgt(v) \/ Insert(v) \/ PostSt(v) \/ Reply(v) \/ Logout(v)
        \/ Restart)
    BY DEF Accept, AskLogout, GetCert, JudgeAgain, ParseCertMb, FetchRandom, PostTgt, Insert,
           PostSt, Reply, Logout, ReadTgt, Revoke, Clear, Leave, Restart, Step, Goto
<1>. QED BY <1>1, <1>2, <1>3, <1>4, WorkerMoves DEF GetST

\* The login sends what was signed unless another worker's login came between.
THEOREM SignatureOverlapHolds == Spec => []SignatureOverlap
<1>1. Init => SignatureOverlap
    BY DEF Init, SignatureOverlap, Procs
<1>2. TypeInv /\ TicketInv => TypeInv
    OBVIOUS
<1>. QED BY TicketSpec, <1>1, <1>2, SignatureStep, PTL DEF Spec

-----------------------------------------------------------------------------
(* Racing logins leave a bounded number of duplicates *)

LEMMA NoEmptyStep ==
    ASSUME "nullData" \notin Faults
    PROVE  TypeInv /\ NoEmptyTicket /\ [Next]_vars => NoEmptyTicket'
<1>. SUFFICES ASSUME TypeInv, NoEmptyTicket, [Next]_vars PROVE NoEmptyTicket'
    OBVIOUS
<1>1. ASSUME NEW i \in DOMAIN rows' PROVE rows'[i].tgt # NoTgt
    <2>1. CASE rows' = rows \/ rows' = << >>
        BY <2>1 DEF NoEmptyTicket
    <2>2. ASSUME NEW w \in Workers, Insert(w),
                 rows' = InsertTGT(rows, req[w].app, req[w].mark, tgt[w])
          PROVE  rows'[i].tgt # NoTgt
        <3>1. tgt[w] # NoTgt
            BY <2>2 DEF Insert, Step, NoEmptyTicket
        <3>2. /\ rows \in Seq(Row(Apps, Marks, Nat))
              /\ rows' = Append(rows, [app |-> req[w].app, mark |-> req[w].mark, tgt |-> tgt[w]])
            BY <2>2 DEF InsertTGT, TypeInv, TypeOK
        <3>3. /\ DOMAIN rows = 1 .. Len(rows) /\ DOMAIN rows' = 1 .. Len(rows) + 1
              /\ Len(rows) \in Nat
            BY <3>2
        <3>4. CASE i = Len(rows) + 1
            BY <3>1, <3>2, <3>4
        <3>5. CASE i \in DOMAIN rows
            BY <3>2, <3>3, <3>5 DEF NoEmptyTicket
        <3>. QED BY <3>3, <3>4, <3>5
    <2>. QED BY <2>1, <2>2, RowsChange
<1>2. ASSUME NEW v \in Workers, pc'[v] \in {"insert", "st"} PROVE tgt'[v] # NoTgt
    <2>. USE ThreadsAssumption DEF TypeInv, TypeOK, Procs
    <2>1. CASE pc'[v] = pc[v] /\ tgt'[v] = tgt[v]
        BY <1>2, <2>1 DEF NoEmptyTicket
    <2>2. CASE Query(v)
        BY <1>2, <2>2 DEF Query, Goto
    <2>3. CASE PostTgt(v)
        BY <1>2, <2>3 DEF PostTgt, Step, Goto, NoTgt
    <2>4. CASE Insert(v)
        BY <2>4 DEF Insert, Step, NoEmptyTicket, localVars
    <2>5. ~(Accept(v) \/ AskLogout(v) \/ GetCert(v) \/ JudgeAgain(v) \/ ParseCertMb(v)
            \/ FetchRandom(v) \/ SignRandom(v) \/ PostSt(v) \/ Reply(v) \/ Logout(v) \/ Restart)
        BY <1>2 DEF Accept, AskLogout, GetCert, JudgeAgain, ParseCertMb, FetchRandom, SignRandom,
           PostSt, Reply, Logout, ReadTgt, Revoke, Clear, Leave, Restart, Step, Goto
    <2>. QED BY <2>1, <2>2, <2>3, <2>4, <2>5, WorkerMoves DEF GetST
<1>. QED BY <1>1, <1>2 DEF NoEmptyTicket

\* A request that misses in a table without empty tickets finds no row of its key.
LEMMA MissMeansNone ==
    ASSUME "sql" \notin Faults, TypeInv, NoEmptyTicket, NEW w \in Workers,
           NEW t \in QueryLocalTGT(rows, req[w].app, req[w].mark) \cup OnFault("sql", {NoTgt}),
           t = NoTgt
    PROVE  TicketsOf(KeyOf(req[w])) = {}
<1>. DEFINE ids == {i \in DOMAIN rows : rows[i].app = req[w].app /\ rows[i].mark = req[w].mark}
<1>1. t \in Selected(rows, ids)
    BY DEF OnFault, QueryLocalTGT
<1>2. ids = {}
    BY <1>1 DEF Selected, Newest, NoEmptyTicket
<1>3. ASSUME NEW i \in DOMAIN rows, KeyOf(rows[i]) = KeyOf(req[w]) PROVE i \in ids
    BY <1>3 DEF KeyOf
<1>. QED BY <1>2, <1>3 DEF TicketsOf

LEMMA RaceFinite ==
    ASSUME IsFiniteSet(Workers), TypeInv, NEW k
    PROVE  /\ IsFiniteSet(TicketsOf(k)) /\ Cardinality(TicketsOf(k)) \in Nat
           /\ IsFiniteSet(InFlight(k)) /\ Cardinality(InFlight(k)) \in Nat
           /\ Cardinality(InFlight(k)) <= Cardinality(Workers) /\ Cardinality(Workers) \in Nat
<1>1. Len(rows) \in Nat /\ DOMAIN rows = 1 .. Len(rows)
    BY DEF TypeInv, TypeOK
<1>2. IsFiniteSet(DOMAIN rows)
    BY <1>1, FS_Interval
<1>3. TicketsOf(k) \in SUBSET (DOMAIN rows) /\ InFlight(k) \in SUBSET Workers
    BY DEF TicketsOf, InFlight
<1>4. IsFiniteSet(TicketsOf(k))
    BY <1>2, <1>3, FS_Subset
<1>5. IsFiniteSet(InFlight(k)) /\ Cardinality(InFlight(k)) <= Cardinality(Workers)
    BY <1>3, FS_Subset
<1>. QED BY <1>4, <1>5, FS_CardinalityType

\* A request enters the race only by a miss.
LEMMA EntersByMiss ==
    ASSUME TypeInv, [Next]_vars, NEW v \in Workers, NEW k, v \in InFlight(k)', v \notin InFlight(k)
    PROVE  Query(v) /\ KeyOf(req[v]) = k /\ tgt'[v] = NoTgt /\ rows' = rows
<1>. USE ThreadsAssumption DEF TypeInv, TypeOK, Procs, InFlight
<1>1. ~(pc'[v] = pc[v] /\ req'[v] = req[v])
    OBVIOUS
<1>2. CASE Query(v)
    BY <1>2 DEF Query, Goto
<1>3. ~(GetCert(v) \/ JudgeAgain(v) \/ ParseCertMb(v) \/ FetchRandom(v) \/ SignRandom(v)
        \/ PostTgt(v) \/ Insert(v) \/ PostSt(v))
    BY DEF GetCert, JudgeAgain, ParseCertMb, FetchRandom, SignRandom, PostTgt, Insert, PostSt,
       Step, Goto, localVars
<1>4. ~(Accept(v) \/ AskLogout(v) \/ Reply(v) \/ Logout(v) \/ Restart)
    BY DEF Accept, AskLogout, Reply, Logout, ReadTgt, Revoke, Clear, Leave, Restart, Step, Goto
<1>. QED BY <1>1, <1>2, <1>3, <1>4, WorkerMoves DEF GetST

LEMMA RaceStep ==
    ASSUME IsFiniteSet(Workers), "sql" \notin Faults
    PROVE  TypeInv /\ NoEmptyTicket /\ RaceBound /\ [Next]_vars => RaceBound'
<1>. SUFFICES ASSUME TypeInv, NoEmptyTicket, RaceBound, [Next]_vars, NEW k \in Keys
              PROVE  Cardinality(TicketsOf(k)') + Cardinality(InFlight(k)') <= Cardinality(Workers)
    BY DEF RaceBound
<1>0. TypeInv'
    BY TypeStep
<1>1. /\ Cardinality(TicketsOf(k)) \in Nat /\ Cardinality(InFlight(k)) \in Nat
      /\ IsFiniteSet(TicketsOf(k)) /\ IsFiniteSet(InFlight(k)) /\ Cardinality(Workers) \in Nat
    BY RaceFinite
<1>2. /\ IsFiniteSet(InFlight(k)') /\ Cardinality(InFlight(k)') \in Nat
      /\ Cardinality(InFlight(k)') <= Cardinality(Workers)
    <2>1. InFlight(k)' \in SUBSET Workers
        BY DEF InFlight
    <2>. QED BY <2>1, FS_Subset, FS_CardinalityType
<1>3. CASE TicketsOf(k)' = {}
    BY <1>2, <1>3, FS_EmptySet
<1>4. CASE \E v \in Workers : v \in InFlight(k)' /\ v \notin InFlight(k)
    <2>1. PICK v \in Workers : Query(v) /\ KeyOf(req[v]) = k /\ tgt'[v] = NoTgt /\ rows' = rows
        BY <1>4, EntersByMiss
    <2>2. PICK t \in QueryLocalTGT(rows, req[v].app, req[v].mark) \cup OnFault("sql", {NoTgt}) :
              tgt' = [tgt EXCEPT ![v] = t]
        BY <2>1 DEF Query
    <2>3. t = NoTgt
        BY <2>1, <2>2 DEF TypeInv, TypeOK, Procs
    <2>4. TicketsOf(k) = {}
        BY <2>1, <2>3, MissMeansNone
    <2>5. TicketsOf(k)' = TicketsOf(k)
        BY <2>1 DEF TicketsOf
    <2>. QED BY <2>4, <2>5, <1>3
<1>5. CASE InFlight(k)' \subseteq InFlight(k) /\ TicketsOf(k)' = TicketsOf(k)
    <2>1. Cardinality(InFlight(k)') <= Cardinality(InFlight(k))
        BY <1>1, <1>5, FS_Subset
    <2>. QED BY <2>1, <1>1, <1>2, <1>5 DEF RaceBound
<1>6. ASSUME InFlight(k)' \subseteq InFlight(k), NEW w \in Workers, Insert(w),
             rows' = InsertTGT(rows, req[w].app, req[w].mark, tgt[w])
      PROVE  Cardinality(TicketsOf(k)') + Cardinality(InFlight(k)') <= Cardinality(Workers)
    <2>1. /\ rows \in Seq(Row(Apps, Marks, Nat)) /\ Len(rows) \in Nat
          /\ rows' = Append(rows, [app |-> req[w].app, mark |-> req[w].mark, tgt |-> tgt[w]])
        BY <1>6 DEF InsertTGT, TypeInv, TypeOK
    <2>2. /\ DOMAIN rows = 1 .. Len(rows) /\ DOMAIN rows' = 1 .. Len(rows) + 1
          /\ \A i \in 1 .. Len(rows) : rows'[i] = rows[i]
          /\ KeyOf(rows'[Len(rows) + 1]) = KeyOf(req[w])
        BY <2>1 DEF KeyOf
    <2>3. CASE KeyOf(req[w]) # k
        <3>1. TicketsOf(k)' = TicketsOf(k)
            BY <2>2, <2>1, <2>3 DEF TicketsOf
        <3>. QED BY <3>1, <1>5, <1>6
    <2>4. CASE KeyOf(req[w]) = k
        <3>1. TicketsOf(k)' \subseteq TicketsOf(k) \cup {Len(rows) + 1}
            BY <2>1, <2>2 DEF TicketsOf
        <3>2. Cardinality(TicketsOf(k)') <= Cardinality(TicketsOf(k)) + 1
              /\ Cardinality(TicketsOf(k)') \in Nat
            <4>. DEFINE T == TicketsOf(k)
            <4>. HIDE DEF T
            <4>0. /\ IsFiniteSet(T \cup {Len(rows) + 1})
                  /\ Cardinality(T \cup {Len(rows) + 1})
                        = IF Len(rows) + 1 \in T THEN Cardinality(T) ELSE Cardinality(T) + 1
                BY <1>1, FS_AddElement DEF T
            <4>1. /\ IsFiniteSet(TicketsOf(k) \cup {Len(rows) + 1})
                  /\ Cardinality(TicketsOf(k) \cup {Len(rows) + 1}) <= Cardinality(TicketsOf(k)) + 1
                  /\ Cardinality(TicketsOf(k) \cup {Len(rows) + 1}) \in Nat
                <5>1. Cardinality(T) \in Nat
                    BY <1>1 DEF T
                <5>2. /\ IsFiniteSet(T \cup {Len(rows) + 1})
                      /\ Cardinality(T \cup {Len(rows) + 1}) <= Cardinality(T) + 1
                      /\ Cardinality(T \cup {Len(rows) + 1}) \in Nat
                    BY <4>0, <5>1
                <5>. QED BY <5>2 DEF T
            <4>2. IsFiniteSet(TicketsOf(k)')
                BY <3>1, <4>1, FS_Subset
            <4>3. Cardinality(TicketsOf(k)') <= Cardinality(TicketsOf(k) \cup {Len(rows) + 1})
                BY <3>1, <4>1, FS_Subset
            <4>. QED BY <1>1, <4>1, <4>2, <4>3, FS_CardinalityType
        <3>3. w \in InFlight(k) /\ w \notin InFlight(k)'
            BY <1>6, <2>4, ThreadsAssumption
               DEF Insert, Step, Goto, InFlight, TypeInv, TypeOK, Procs
        <3>4. Cardinality(InFlight(k)') <= Cardinality(InFlight(k)) - 1
            <4>1. InFlight(k)' \in SUBSET (InFlight(k) \ {w})
                BY <1>6, <3>3
            <4>2. IsFiniteSet(InFlight(k) \ {w})
                  /\ Cardinality(InFlight(k) \ {w}) = Cardinality(InFlight(k)) - 1
                BY <1>1, <3>3, FS_RemoveElement
            <4>. QED BY <4>1, <4>2, FS_Subset
        <3>. QED BY <1>1, <1>2, <3>2, <3>4 DEF RaceBound
    <2>. QED BY <2>3, <2>4
<1>7. rows' = rows => TicketsOf(k)' = TicketsOf(k)
    BY DEF TicketsOf
<1>8. rows' = << >> => TicketsOf(k)' = {}
    BY DEF TicketsOf
<1>9. InFlight(k)' \subseteq InFlight(k) \/ \E v \in Workers : v \in InFlight(k)' /\ v \notin InFlight(k)
    BY DEF InFlight
<1>. QED BY <1>3, <1>4, <1>5, <1>6, <1>7, <1>8, <1>9, RowsChange

\* However logins race, no application and mark has more tickets in the table
\* than there are threads, if no select fails and no ticket is null.
THEOREM DuplicatesBoundedHolds ==
    ASSUME IsFiniteSet(Workers), "sql" \notin Faults, "nullData" \notin Faults
    PROVE  Spec => []DuplicatesBounded
<1>1. Init => NoEmptyTicket /\ RaceBound
    <2>. SUFFICES ASSUME Init PROVE NoEmptyTicket /\ RaceBound
        OBVIOUS
    <2>1. NoEmptyTicket
        BY DEF Init, NoEmptyTicket, Procs
    <2>2. \A k : TicketsOf(k) = {} /\ InFlight(k) = {}
        BY DEF Init, TicketsOf, InFlight, Procs
    <2>3. Cardinality(Workers) \in Nat
        BY FS_CardinalityType
    <2>. QED BY <2>1, <2>2, <2>3, FS_EmptySet DEF RaceBound
<1>2. TypeInv /\ RaceBound => DuplicatesBounded
    <2>. SUFFICES ASSUME TypeInv, RaceBound, NEW k \in Keys
                  PROVE  Cardinality(TicketsOf(k)) <= Cardinality(Workers)
        BY DEF DuplicatesBounded
    <2>. QED BY RaceFinite DEF RaceBound
<1>. QED BY TypeInit, TypeStep, NoEmptyStep, RaceStep, <1>1, <1>2, PTL DEF Spec

-----------------------------------------------------------------------------
(* A ticket that has ended stays in the table *)

LEMMA StuckStep ==
    ASSUME "sql" \notin Faults, TypeInv, TicketInv, [Next]_vars, NEW k \in Keys, Stuck(k)
    PROVE  Stuck(k)' \/ rows' = << >>
<1>1. PICK i \in DOMAIN rows :
          /\ KeyOf(rows[i]) = k /\ rows[i].tgt \notin live \cup {NoTgt}
          /\ \A j \in DOMAIN rows : KeyOf(rows[j]) = k => j <= i
    BY DEF Stuck
<1>2. InFlight(k) = {}
    BY DEF Stuck
<1>3. rows \in Seq(Row(Apps, Marks, Nat))
    BY DEF TypeInv, TypeOK
<1>4. rows[i].tgt \notin live'
    <2>1. rows[i].tgt \in DOMAIN issued
        BY <1>1 DEF TicketInv, RowsIssued
    <2>. QED BY <1>1, <2>1, TicketsPersist
<1>5. InFlight(k)' = {}
    <2>. SUFFICES ASSUME NEW v \in Workers, v \in InFlight(k)' PROVE FALSE
        BY DEF InFlight
    <2>1. Query(v) /\ KeyOf(req[v]) = k /\ tgt'[v] = NoTgt
        BY <1>2, EntersByMiss
    <2>2. PICK t \in QueryLocalTGT(rows, req[v].app, req[v].mark) \cup OnFault("sql", {NoTgt}) :
              tgt' = [tgt EXCEPT ![v] = t]
        BY <2>1 DEF Query
    <2>3. t = NoTgt
        BY <2>1, <2>2 DEF TypeInv, TypeOK, Procs
    <2>. DEFINE ids == {j \in DOMAIN rows : rows[j].app = req[v].app /\ rows[j].mark = req[v].mark}
    <2>4. t \in Selected(rows, ids)
        BY <2>2 DEF OnFault, QueryLocalTGT
    <2>5. /\ i \in ids
          /\ \A j \in ids : j <= i /\ j \in Nat
        BY <1>1, <1>3, <2>1 DEF KeyOf
    <2>6. Newest(ids) = {i}
        BY <2>5 DEF Newest
    <2>7. t = rows[i].tgt
        BY <2>4, <2>5, <2>6 DEF Selected
    <2>. QED BY <1>1, <2>3, <2>7
<1>6. CASE rows' = rows
    BY <1>1, <1>4, <1>5, <1>6 DEF Stuck
<1>7. ASSUME NEW w \in Workers, Insert(w),
             rows' = InsertTGT(rows, req[w].app, req[w].mark, tgt[w])
      PROVE  Stuck(k)'
    <2>1. KeyOf(req[w]) # k
        BY <1>2, <1>7 DEF Insert, Step, InFlight
    <2>2. /\ rows' = Append(rows, [app |-> req[w].app, mark |-> req[w].mark, tgt |-> tgt[w]])
          /\ Len(rows) \in Nat
        BY <1>3, <1>7 DEF InsertTGT
    <2>3. /\ DOMAIN rows = 1 .. Len(rows) /\ DOMAIN rows' = 1 .. Len(rows) + 1
          /\ \A j \in 1 .. Len(rows) : rows'[j] = rows[j]
          /\ KeyOf(rows'[Len(rows) + 1]) = KeyOf(req[w])
        BY <1>3, <2>2 DEF KeyOf
    <2>4. i \in DOMAIN rows' /\ rows'[i] = rows[i]
        BY <1>1, <2>3, <2>2
    <2>5. \A j \in DOMAIN rows' : KeyOf(rows'[j]) = k => j <= i
        <3>. SUFFICES ASSUME NEW j \in DOMAIN rows', KeyOf(rows'[j]) = k PROVE j <= i
            OBVIOUS
        <3>1. j # Len(rows) + 1
            BY <2>1, <2>3
        <3>2. j \in DOMAIN rows
            BY <2>2, <2>3, <3>1
        <3>. QED BY <1>1, <2>3, <3>2
    <2>6. KeyOf(rows'[i]) = k /\ rows'[i].tgt \notin live' \cup {NoTgt}
        BY <1>1, <1>4, <2>4
    <2>. QED BY <1>5, <2>4, <2>5, <2>6 DEF Stuck
<1>. QED BY <1>6, <1>7, RowsChange

\* A request never gets rid of an ended ticket: the session is stuck with it until
\* a logout empties the table, if no select fails.
THEOREM EndedTicketSticksHolds ==
    ASSUME "sql" \notin Faults PROVE Spec => EndedTicketSticks
<1>1. TypeInv /\ TicketInv /\ [Next]_vars =>
          [\A k \in Keys : Stuck(k) => Stuck(k)' \/ rows' = << >>]_vars
    BY StuckStep
<1>. QED BY TicketSpec, <1>1, PTL DEF Spec, EndedTicketSticks

-----------------------------------------------------------------------------
(* The code of a failed reply, with one worker *)

LEMMA ErrCodeChange ==
    ASSUME TypeInv, [Next]_vars
    PROVE  errCode' = errCode \/ Restart \/ \E w \in Workers : GetST(w)
<1>1. CASE UNCHANGED vars
    BY <1>1 DEF vars
<1>2. ASSUME NEW w \in Workers, Accept(w) \/ AskLogout(w) \/ Reply(w) PROVE errCode' = errCode
    BY <1>2 DEF Accept, AskLogout, Reply
<1>3. ASSUME NEW p \in Procs, Logout(p) PROVE errCode' = errCode
    BY <1>3 DEF Logout, ReadTgt, Revoke, Clear
<1>4. HandleInsert \/ VerifyPin \/ HandleExtract \/ Plug \/ Unplug \/ Expire => errCode' = errCode
    BY DEF HandleInsert, VerifyPin, HandleExtract, Plug, Unplug, Expire
<1>. QED BY <1>1, <1>2, <1>3, <1>4 DEF Next

LEMMA ErrorStep ==
    ASSUME \A u, v \in Workers : u = v, "http" \notin Faults, "nullData" \notin Faults
    PROVE  TypeInv /\ TicketInv /\ ErrorInv /\ [Next]_vars => ErrorInv'
<1>. SUFFICES ASSUME TypeInv, TicketInv, ErrorInv, [Next]_vars, NEW v \in Workers
              PROVE  ErrorInvOf(v)'
    BY DEF ErrorInv
<1>. USE ThreadsAssumption DEF TypeInv, TypeOK, Procs, ErrorInv, ErrorInvOf
<1>1. CASE pc'[v] = pc[v] /\ tgt'[v] = tgt[v] /\ errCode' = errCode
    BY <1>1
<1>2. CASE Query(v)
    BY <1>2 DEF Query, Goto
<1>3. CASE GetCert(v)
    BY <1>3 DEF GetCert, Step, Goto, SetErrorCode, localVars
<1>4. CASE JudgeAgain(v)
    BY <1>4 DEF JudgeAgain, Step, Goto, SetErrorCode, localVars, GetTgtCodes, TicketInv,
       MissHoldsNothing
<1>5. CASE ParseCertMb(v) \/ FetchRandom(v) \/ SignRandom(v)
    <2>1. tgt'[v] = NoTgt
        BY <1>5 DEF ParseCertMb, FetchRandom, SignRandom, Step, localVars, TicketInv,
           MissHoldsNothing
    <2>. QED BY <1>5, <2>1 DEF ParseCertMb, FetchRandom, SignRandom, Step, Goto, SetErrorCode,
            GetTgtCodes
<1>6. CASE PostTgt(v)
    BY <1>6 DEF PostTgt, Step, Goto, SetErrorCode, GetTgtCodes, NoTgt, TicketInv,
       MissHoldsNothing
<1>7. CASE Insert(v)
    BY <1>7 DEF Insert, Step, Goto, localVars
<1>8. CASE PostSt(v)
    BY <1>8 DEF PostSt, Step, Goto, SetErrorCode, localVars
<1>9. CASE Accept(v) \/ AskLogout(v) \/ Reply(v) \/ Logout(v) \/ Restart
    BY <1>9 DEF Accept, AskLogout, Reply, Logout, ReadTgt, Revoke, Clear, Leave, Restart, Step, Goto
<1>10. CASE GetST(v)
    BY <1>2, <1>3, <1>4, <1>5, <1>6, <1>7, <1>8, <1>10 DEF GetST
<1>. QED BY <1>1, <1>9, <1>10, WorkerMoves, ErrCodeChange

\* With one worker and no transport failure, the code of a failed reply tells
\* whether it was the login or the service ticket that failed.
THEOREM ErrorNamesFailedPhaseHolds ==
    ASSUME \A u, v \in Workers : u = v, "http" \notin Faults, "nullData" \notin Faults
    PROVE  Spec => []ErrorNamesFailedPhase
<1>1. Init => ErrorInv
    BY DEF Init, ErrorInv, ErrorInvOf, Procs
<1>2. ErrorInv => ErrorNamesFailedPhase
    BY DEF ErrorInv, ErrorInvOf, ErrorNamesFailedPhase
<1>. QED BY TicketSpec, ErrorStep, <1>1, <1>2, PTL DEF Spec

=============================================================================
