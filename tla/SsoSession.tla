----------------------------- MODULE SsoSession -----------------------------
(***************************************************************************)
(* The single-sign-on session of the client: the httplib worker threads    *)
(* that answer POST /sso/v1/st and GET /sso/v1/logout                      *)
(* (HttpServerRunable -> httpClientAgent), the GUI thread that logs out    *)
(* when the key is pulled (WrapPkiAgent::OnDeviceChange), and everything   *)
(* they share without a lock: the TGT table, m_errCode, m_strRandom and    *)
(* the PIN flag of the verify dialog.                                      *)
(*                                                                         *)
(* A thread's code is cut at every call that blocks (SQL, PKI agent, SSO   *)
(* server); between two cuts it is one action, so the actions interleave   *)
(* exactly where the threads can.  The SSO server is external: it issues   *)
(* tickets, revokes them, lets them expire, refuses, or cannot be reached. *)
(***************************************************************************)
EXTENDS TgtTable, FiniteSets

CONSTANTS
    Workers,    \* threads of the local server's pool
    Gui,        \* the Qt main thread
    Requests,   \* what callers post to /sso/v1/st
    MaxTgt,     \* bound: tickets the server can issue
    MaxRows,    \* bound: rows of the table (an insert beyond it fails)
    MaxRemovals,\* bound: removal events waiting for the GUI thread
    Faults      \* the faults the environment may show, of AllFaults

AllFaults == {"http", "sql", "nullData", "expiry", "restart"}

SignTypes == {"PIN", "UKEY", "OTHER"}
Uninit == "UNINIT"      \* AppData.type when the request has no "type"
Blank == ""             \* a parameter the caller left out

NoCode == "0"           \* m_errCode before any SetErrorCode (static storage)
GetTgtCodes == {"ERR_KEY_NOT_EXIST", "ERR_GET_CERT_ERROR", "ERR_GET_MB_ERROR",
                "ERR_SIGNATURE_FAILED", "ERR_GET_TGT_FAILED"}
ErrCodes == GetTgtCodes \cup {"ERR_GET_ST_FAILED", NoCode}

ASSUME ThreadsAssumption == Gui \notin Workers
ASSUME RequestsAssumption ==
    \A r \in Requests : /\ DOMAIN r = {"app", "mark", "user", "type"}
                        /\ r.type \in SignTypes \cup {Uninit}
ASSUME BoundsAssumption == MaxTgt \in Nat /\ MaxRows \in Nat /\ MaxRemovals \in Nat
ASSUME FaultsAssumption == Faults \subseteq AllFaults

Procs == Workers \cup {Gui}
Nobody == "nobody"      \* m_strRandom before the first answer of /sso/v1/random
ASSUME NobodyAssumption == Nobody \notin Workers

VARIABLES
    rows,       \* the TGT table (a file: it survives a restart)
    errCode,    \* HttpServerRunable::m_errCode
    random,     \* httpClientAgent::m_strRandom, named by the worker that fetched it
    verify,     \* UkeyVerifyWidget::m_verifyFlag
    known,      \* m_defaultDevice.devID is not empty
    plugged,    \* the key is in the port
    removals,   \* queued DeviceChange(EXTRACT) events
    pc,         \* where each thread stands
    req,        \* the request a worker serves
    tgt,        \* strTGT of a thread's GetST, GetTGT or Logout
    signed,     \* the random a worker's signature covers
    issued,     \* the server's tickets: issued[t] is the (app, mark) they were fetched for
    live        \* tickets the server would still accept

keyVars    == <<verify, known, plugged, removals>>
serverVars == <<issued, live>>
localVars  == <<req, tgt, signed>>
vars == <<rows, errCode, random, keyVars, pc, localVars, serverVars>>

Apps  == {r.app : r \in Requests}
Marks == {r.mark : r \in Requests}
KeyOf(r) == [app |-> r.app, mark |-> r.mark]
Keys == {KeyOf(r) : r \in Requests}
NoReq == [app |-> Blank, mark |-> Blank, user |-> Blank, type |-> "OTHER"]
Typed(r, type) == [r EXCEPT !.type = type]
Served == {Typed(r, t) : r \in Requests, t \in SignTypes}
Tgts == 1 .. MaxTgt

GetSTSteps == {"query", "cert", "judge", "mb", "random", "sign", "post", "insert", "st"}
LogoutSteps == {"read", "revoke", "clear"}
Answers == {"ok", "err", "logoutErr"}
Steps == {"idle"} \cup GetSTSteps \cup LogoutSteps \cup Answers

Goto(p, to) == pc' = [pc EXCEPT ![p] = to]
Step(p, from, to) == pc[p] = from /\ Goto(p, to)
SetErrorCode(code) == errCode' = code
OnFault(fault, outcomes) == IF fault \in Faults THEN outcomes ELSE {}

Init ==
    /\ rows = << >>
    /\ errCode = NoCode
    /\ random = Nobody
    /\ verify = FALSE /\ known = FALSE
    /\ plugged \in BOOLEAN
    /\ removals = 0
    /\ pc = [p \in Procs |-> "idle"]
    /\ req = [w \in Workers |-> NoReq]
    /\ tgt = [p \in Procs |-> NoTgt]
    /\ signed = [w \in Workers |-> Nobody]
    /\ issued = << >>
    /\ live = {}

-----------------------------------------------------------------------------
(* POST /sso/v1/st *)

\* ParseData: a request that names neither an application nor a user is
\* answered at once with its own code and touches nothing.  Without a "type"
\* parameter AppData.type is never assigned: any value.
Accept(w) ==
    /\ Step(w, "idle", "query")
    /\ \E r \in Requests, t \in SignTypes :
         /\ r.app # Blank \/ r.user # Blank
         /\ r.type \in {t, Uninit}
         /\ req' = [req EXCEPT ![w] = Typed(r, t)]
    /\ UNCHANGED <<rows, errCode, random, keyVars, tgt, signed, serverVars>>

\* VerifyLocalTGT asks the table first; a failed select is a miss, too.
Query(w) ==
    /\ pc[w] = "query"
    /\ \E t \in QueryLocalTGT(rows, req[w].app, req[w].mark) \cup OnFault("sql", {NoTgt}) :
         /\ tgt' = [tgt EXCEPT ![w] = t]
         /\ \/ t # NoTgt /\ Goto(w, "st")
            \/ t = NoTgt /\ req[w].type = "UKEY" /\ Goto(w, "cert")
            \/ t = NoTgt /\ req[w].type # "UKEY" /\ Goto(w, "post")
    /\ UNCHANGED <<rows, errCode, random, keyVars, req, signed, serverVars>>

\* Mutant of GetCert: a call without a verified key waits for one.
GetCertWaits(w) ==
    /\ verify /\ plugged /\ Step(w, "cert", "mb") /\ UNCHANGED errCode
    /\ UNCHANGED <<rows, random, keyVars, localVars, serverVars>>

\* GetCert: VerifyPINJudge, then the agent, which needs the key in its port.
GetCert(w) ==
    /\ \/ verify /\ plugged /\ Step(w, "cert", "mb") /\ UNCHANGED errCode
       \/ Step(w, "cert", "judge") /\ SetErrorCode("ERR_GET_CERT_ERROR")
    /\ UNCHANGED <<rows, random, keyVars, localVars, serverVars>>

\* After a failed GetCert the PIN flag is read once more, and a PIN that is
\* not verified is reported as a key that does not exist.
JudgeAgain(w) ==
    /\ Step(w, "judge", "err")
    /\ \/ verify /\ UNCHANGED errCode
       \/ ~verify /\ SetErrorCode("ERR_KEY_NOT_EXIST")
    /\ UNCHANGED <<rows, random, keyVars, localVars, serverVars>>

\* Mutant of ParseCertMb: the certificate is parsed without a look at the PIN.
ParseUnasked(w) ==
    /\ \/ Step(w, "mb", "random") /\ UNCHANGED errCode
       \/ Step(w, "mb", "err") /\ SetErrorCode("ERR_GET_MB_ERROR")
    /\ UNCHANGED <<rows, random, keyVars, localVars, serverVars>>

ParseCertMb(w) ==
    /\ \/ verify /\ Step(w, "mb", "random") /\ UNCHANGED errCode
       \/ Step(w, "mb", "err") /\ SetErrorCode("ERR_GET_MB_ERROR")
    /\ UNCHANGED <<rows, random, keyVars, localVars, serverVars>>

\* MediaInfo (its result is ignored) looks the key up again, then GetP7Sign
\* fetches the random.  ParsonRandomResBody returns no value, so whether the
\* answer was good does not decide how its caller goes on.
FetchRandom(w) ==
    /\ known' \in {known, known \/ plugged}
    /\ random' \in {random, w}
    /\ \/ Step(w, "random", "sign") /\ UNCHANGED errCode
       \/ Step(w, "random", "err") /\ SetErrorCode("ERR_SIGNATURE_FAILED")
    /\ UNCHANGED <<rows, verify, plugged, removals, localVars, serverVars>>

\* Mutant of SignRandom: the signature is made before the answer is stored.
SignBeforeStore(w) ==
    /\ plugged /\ Step(w, "sign", "post")
    /\ signed' = [signed EXCEPT ![w] = random]
    /\ random' = w
    /\ UNCHANGED <<rows, errCode, keyVars, req, tgt, serverVars>>

\* SignData signs whatever m_strRandom holds now; it does not ask for the PIN.
SignRandom(w) ==
    /\ \/ /\ plugged /\ Step(w, "sign", "post")
          /\ signed' = [signed EXCEPT ![w] = random]
          /\ UNCHANGED errCode
       \/ /\ Step(w, "sign", "err") /\ SetErrorCode("ERR_SIGNATURE_FAILED")
          /\ UNCHANGED signed
    /\ UNCHANGED <<rows, random, keyVars, req, tgt, serverVars>>

\* The server checks the signature against the originalData it was sent,
\* which is m_strRandom at the time of the post.
Credible(w) ==
    \/ req[w].type = "PIN"
    \/ req[w].type = "UKEY" /\ signed[w] = random

Issue(w) ==
    /\ Credible(w) /\ Len(issued) < MaxTgt
    /\ issued' = Append(issued, KeyOf(req[w]))
    /\ live' = live \cup {Len(issued) + 1}

\* POST /sso/v1/tgt.  "data": null counts as success and leaves strTGT empty;
\* a transport failure sets no code, and the server may have acted on the post.
PostTgt(w) ==
    /\ \/ /\ Step(w, "post", "insert") /\ Issue(w)
          /\ tgt' = [tgt EXCEPT ![w] = Len(issued) + 1]
          /\ UNCHANGED errCode
       \/ /\ Step(w, "post", "insert") /\ "nullData" \in Faults
          /\ UNCHANGED <<tgt, errCode, serverVars>>
       \/ /\ Step(w, "post", "err") /\ SetErrorCode("ERR_GET_TGT_FAILED")
          /\ UNCHANGED <<tgt, serverVars>>
       \/ /\ Step(w, "post", "err") /\ "http" \in Faults
          /\ Issue(w) \/ UNCHANGED serverVars
          /\ UNCHANGED <<tgt, errCode>>
    /\ UNCHANGED <<rows, random, keyVars, req, signed>>

\* The result of InsertTGT is ignored.
Insert(w) ==
    /\ Step(w, "insert", "st")
    /\ \/ /\ Len(rows) < MaxRows
          /\ rows' = InsertTGT(rows, req[w].app, req[w].mark, tgt[w])
       \/ /\ "sql" \in Faults \/ Len(rows) = MaxRows
          /\ UNCHANGED rows
    /\ UNCHANGED <<errCode, random, keyVars, localVars, serverVars>>

\* Mutant of PostSt: the refusal of a service ticket sets no code.
PostStSilent(w) ==
    /\ \/ Step(w, "st", "ok") /\ tgt[w] \in live
       \/ Step(w, "st", "err")
    /\ UNCHANGED <<rows, errCode, random, keyVars, localVars, serverVars>>

\* POST /sso/v1/st of the remote server.  No failure evicts the ticket.
PostSt(w) ==
    /\ \/ Step(w, "st", "ok") /\ tgt[w] \in live /\ UNCHANGED errCode
       \/ Step(w, "st", "err") /\ SetErrorCode("ERR_GET_ST_FAILED")
       \/ Step(w, "st", "err") /\ "http" \in Faults /\ UNCHANGED errCode
    /\ UNCHANGED <<rows, random, keyVars, localVars, serverVars>>

\* The reply of a failed request carries m_errCode as it is by now.
Reply(w) ==
    /\ pc[w] \in Answers
    /\ Goto(w, "idle")
    /\ req' = [req EXCEPT ![w] = NoReq]
    /\ tgt' = [tgt EXCEPT ![w] = NoTgt]
    /\ signed' = [signed EXCEPT ![w] = Nobody]
    /\ UNCHANGED <<rows, errCode, random, keyVars, serverVars>>

-----------------------------------------------------------------------------
(* httpClientAgent::Logout, called by a worker and by the GUI thread *)

AskLogout(w) ==
    /\ Step(w, "idle", "read")
    /\ UNCHANGED <<rows, errCode, random, keyVars, localVars, serverVars>>

\* Mutant of Leave: the GUI thread's logout goes on to answer, like a worker's.
LeaveToAnswer(p, ok) == Goto(p, IF ok THEN "ok" ELSE "logoutErr")

\* The thread leaves Logout; the GUI thread drops the result.
Leave(p, ok) ==
    Goto(p, IF p = Gui THEN "idle" ELSE IF ok THEN "ok" ELSE "logoutErr")

\* Nothing to log out of is a success.
ReadTgt(p) ==
    /\ pc[p] = "read"
    /\ \E t \in GetLocalTGT(rows) \cup OnFault("sql", {NoTgt}) :
         /\ tgt' = [tgt EXCEPT ![p] = t]
         /\ \/ t # NoTgt /\ Goto(p, "revoke")
            \/ t = NoTgt /\ Leave(p, TRUE)
    /\ UNCHANGED <<rows, errCode, random, keyVars, req, signed, serverVars>>

\* Mutant of Revoke: the table is emptied whatever the server answered.
RevokeUnchecked(p) ==
    /\ Step(p, "revoke", "clear")
    /\ live' \in {live, live \ {tgt[p]}}
    /\ UNCHANGED <<rows, errCode, random, keyVars, req, tgt, signed, issued>>

\* POST /sso/v1/delTgt with the one ticket that was read.
Revoke(p) ==
    /\ \/ /\ Step(p, "revoke", "clear")
          /\ live' = live \ {tgt[p]}
          /\ UNCHANGED tgt
       \/ /\ pc[p] = "revoke" /\ Leave(p, FALSE)
          /\ tgt' = [tgt EXCEPT ![p] = NoTgt]
          /\ live' \in {live} \cup OnFault("http", {live \ {tgt[p]}})
    /\ UNCHANGED <<rows, errCode, random, keyVars, req, signed, issued>>

\* Only now, after the server has answered, the table is emptied: all of it.
Clear(p) ==
    /\ pc[p] = "clear" /\ Leave(p, TRUE)
    /\ tgt' = [tgt EXCEPT ![p] = NoTgt]
    /\ rows' \in {DeleteTGT(rows)} \cup OnFault("sql", {rows})
    /\ UNCHANGED <<errCode, random, keyVars, req, signed, serverVars>>

-----------------------------------------------------------------------------
(* The GUI thread and the key *)

\* OnDeviceChange(INSERT), and the INSERT that VerifyPINJudge queues: the key
\* becomes the default device.
HandleInsert ==
    /\ pc[Gui] = "idle" /\ plugged /\ ~known
    /\ known' = TRUE
    /\ UNCHANGED <<rows, errCode, random, verify, plugged, removals, pc, localVars, serverVars>>

\* OnVerifyPin: the flag takes the agent's verdict.  The key may have been
\* pulled since the agent gave it: its removal is then still queued.
VerifyPin ==
    /\ pc[Gui] = "idle"
    /\ verify' \in {FALSE, known /\ (plugged \/ removals > 0)}
    /\ UNCHANGED <<rows, errCode, random, known, plugged, removals, pc, localVars, serverVars>>

\* Mutants of HandleExtract: the flag stays up; the logout is left out.
ExtractKeepsFlag ==
    /\ removals > 0 /\ removals' = removals - 1
    /\ \/ known /\ Step(Gui, "idle", "read")
       \/ ~known /\ pc[Gui] = "idle" /\ UNCHANGED pc
    /\ UNCHANGED <<rows, errCode, random, verify, known, plugged, localVars, serverVars>>

ExtractWithoutLogout ==
    /\ removals > 0 /\ removals' = removals - 1
    /\ pc[Gui] = "idle" /\ UNCHANGED pc
    /\ verify' = (verify /\ ~known)
    /\ UNCHANGED <<rows, errCode, random, known, plugged, localVars, serverVars>>

\* OnDeviceChange(EXTRACT): if the key is the default device, drop the PIN
\* flag and log out, all on the GUI thread.
HandleExtract ==
    /\ removals > 0
    /\ removals' = removals - 1
    /\ \/ known /\ verify' = FALSE /\ Step(Gui, "idle", "read")
       \/ ~known /\ pc[Gui] = "idle" /\ UNCHANGED <<verify, pc>>
    /\ UNCHANGED <<rows, errCode, random, known, plugged, localVars, serverVars>>

Plug ==
    /\ ~plugged /\ plugged' = TRUE
    /\ UNCHANGED <<rows, errCode, random, verify, known, removals, pc, localVars, serverVars>>

\* The agent's notification of the removal is a queued signal.
Unplug ==
    /\ plugged /\ plugged' = FALSE
    /\ removals < MaxRemovals /\ removals' = removals + 1
    /\ UNCHANGED <<rows, errCode, random, verify, known, pc, localVars, serverVars>>

-----------------------------------------------------------------------------
(* Environment *)

\* A ticket ends on the server; the client is not told.
Expire ==
    /\ "expiry" \in Faults
    /\ \E t \in live : live' = live \ {t}
    /\ UNCHANGED <<rows, errCode, random, keyVars, pc, localVars, issued>>

\* The process dies and is started again: only the table is left.
Restart ==
    /\ "restart" \in Faults
    /\ errCode' = NoCode
    /\ random' = Nobody
    /\ verify' = FALSE /\ known' = FALSE /\ removals' = 0
    /\ pc' = [p \in Procs |-> "idle"]
    /\ req' = [w \in Workers |-> NoReq]
    /\ tgt' = [p \in Procs |-> NoTgt]
    /\ signed' = [w \in Workers |-> Nobody]
    /\ UNCHANGED <<rows, plugged, serverVars>>

-----------------------------------------------------------------------------
GetST(w) ==
    \/ Query(w) \/ GetCert(w) \/ JudgeAgain(w) \/ ParseCertMb(w)
    \/ FetchRandom(w) \/ SignRandom(w) \/ PostTgt(w) \/ Insert(w) \/ PostSt(w)

Logout(p) == ReadTgt(p) \/ Revoke(p) \/ Clear(p)

Next ==
    \/ \E w \in Workers : Accept(w) \/ AskLogout(w) \/ GetST(w) \/ Reply(w)
    \/ \E p \in Procs : Logout(p)
    \/ HandleInsert \/ VerifyPin \/ HandleExtract
    \/ Plug \/ Unplug \/ Expire \/ Restart

Spec == Init /\ [][Next]_vars

\* Every call of a worker returns (the HTTP client and the agent time out),
\* and the GUI thread's event loop runs: what they have begun they continue.
\* Nobody has to send a request, enter a PIN or touch the key.
Fairness ==
    /\ \A w \in Workers : WF_vars(GetST(w) \/ Logout(w) \/ Reply(w))
    /\ WF_vars(Logout(Gui)) /\ WF_vars(HandleExtract)

FairSpec == Spec /\ Fairness

-----------------------------------------------------------------------------
(* Properties *)

\* Every variable stays in its domain.
TypeOK ==
    /\ rows \in Seq(Row(Apps, Marks, Nat))
    /\ errCode \in ErrCodes
    /\ random \in Workers \cup {Nobody}
    /\ verify \in BOOLEAN /\ known \in BOOLEAN /\ plugged \in BOOLEAN
    /\ removals \in Nat
    /\ pc \in [Procs -> Steps] /\ pc[Gui] \in {"idle"} \cup LogoutSteps
    /\ req \in [Workers -> Served \cup {NoReq}]
    /\ tgt \in [Procs -> Nat]
    /\ signed \in [Workers -> Workers \cup {Nobody}]
    /\ issued \in Seq(Keys)
    /\ live \subseteq 1 .. Len(issued)

\* A worker inside GetST serves a request it accepted.
ServesRequest ==
    \A w \in Workers : pc[w] \in GetSTSteps => req[w] \in Served

\* A request that missed in the table holds no ticket until the server answers.
MissHoldsNothing ==
    \A w \in Workers :
        pc[w] \in {"cert", "judge", "mb", "random", "sign", "post"} => tgt[w] = NoTgt

\* Every ticket in the table was issued for the key of its row.
RowsIssued ==
    \A i \in DOMAIN rows : rows[i].tgt # NoTgt =>
        rows[i].tgt \in DOMAIN issued /\ issued[rows[i].tgt] = KeyOf(rows[i])

\* A logout holds a ticket the server knows, and empties the table with one
\* that has ended.
LogoutHoldsTicket ==
    \A p \in Procs : pc[p] \in {"revoke", "clear"} =>
        /\ tgt[p] \in DOMAIN issued
        /\ pc[p] = "clear" => tgt[p] \notin live

\* A service ticket is only ever asked for with a ticket that was issued to
\* a request of the same application and mark, whatever other workers,
\* logouts and restarts did to the table in between.
TicketOfRequest ==
    \A w \in Workers :
        pc[w] \in {"insert", "st"} /\ tgt[w] # NoTgt =>
            tgt[w] \in DOMAIN issued /\ issued[tgt[w]] = KeyOf(req[w])

\* The table never forgets a session before the server has: a step that
\* empties it belongs to a logout whose own ticket is no longer live.
ForgottenOnlyAfterRevoke ==
    [][rows # << >> /\ rows' = << >> =>
         \E p \in Procs : pc[p] = "clear" /\ tgt[p] # NoTgt /\ tgt[p] \notin live]_vars

\* The PIN flag never outlives the key unnoticed: while it is set and the key
\* is out, the removal is still queued for the GUI thread.
VerifiedKeyPresent ==
    verify => known /\ (plugged \/ removals > 0)

\* originalData differs from what was signed only if another worker fetched
\* a random of its own in between.
SignatureOverlap ==
    \A w \in Workers :
        pc[w] = "post" /\ req[w].type = "UKEY" /\ signed[w] # random =>
            random \in Workers \ {w}

\* Rows of one application and mark that hold a ticket.
TicketsOf(k) == {i \in DOMAIN rows : KeyOf(rows[i]) = k /\ rows[i].tgt # NoTgt}

\* Requests that race past the query leave duplicates, but never more
\* than there are workers (no SQL failure, no empty ticket).
DuplicatesBounded ==
    \A k \in Keys : Cardinality(TicketsOf(k)) <= Cardinality(Workers)

(* The inductive invariant behind DuplicatesBounded *)

\* Without a null ticket in an answer, none is held or stored.
NoEmptyTicket ==
    /\ \A i \in DOMAIN rows : rows[i].tgt # NoTgt
    /\ \A w \in Workers : pc[w] \in {"insert", "st"} => tgt[w] # NoTgt

\* Requests that have missed in the table and may still insert a ticket.
InFlight(k) ==
    {w \in Workers :
        /\ pc[w] \in {"cert", "judge", "mb", "random", "sign", "post", "insert"}
        /\ KeyOf(req[w]) = k}

RaceBound ==
    \A k \in Keys : Cardinality(TicketsOf(k)) + Cardinality(InFlight(k)) <= Cardinality(Workers)

\* Logins by key that are past the PIN and may yet store a ticket.
PastPin ==
    {w \in Workers : req[w].type = "UKEY" /\ pc[w] \in {"random", "sign", "post", "insert"}}

\* Once a removal has been handled, only the logins under way by then can store
\* a ticket behind the back of its logout: until the key returns none joins them.
NoLoginWithoutKey == [][~plugged /\ removals = 0 => PastPin' \subseteq PastPin]_vars

\* The table answers with an ended ticket of k, and nobody is fetching another.
Stuck(k) ==
    /\ \E i \in DOMAIN rows :
         /\ KeyOf(rows[i]) = k /\ rows[i].tgt \notin live \cup {NoTgt}
         /\ \A j \in DOMAIN rows : KeyOf(rows[j]) = k => j <= i
    /\ InFlight(k) = {}

\* An ended ticket is never replaced: requests for its application and mark
\* get it, and no other, until a logout empties the table (no SQL failure).
EndedTicketSticks ==
    [][\A k \in Keys : Stuck(k) => Stuck(k)' \/ rows' = << >>]_vars

\* As long as every failure sets a code and nobody else sets one in between
\* (one worker, no transport failure), the code of a failed reply tells
\* whether it was the login or the service ticket that failed.
ErrorNamesFailedPhase ==
    \A w \in Workers : pc[w] = "err" =>
        IF tgt[w] = NoTgt THEN errCode \in GetTgtCodes ELSE errCode = "ERR_GET_ST_FAILED"

(* The inductive invariant behind ErrorNamesFailedPhase *)

ErrorInvOf(w) ==
    /\ pc[w] = "judge" => errCode = "ERR_GET_CERT_ERROR"
    /\ pc[w] \in {"insert", "st"} => tgt[w] # NoTgt
    /\ pc[w] = "err" =>
         IF tgt[w] = NoTgt THEN errCode \in GetTgtCodes ELSE errCode = "ERR_GET_ST_FAILED"

ErrorInv == \A w \in Workers : ErrorInvOf(w)

\* Every accepted request is answered.
Answered == \A w \in Workers : pc[w] # "idle" ~> pc[w] = "idle"

\* A key that is pulled while its PIN counts as verified ends in a logout,
\* with the flag down.
RemovalLogsOut == (verify /\ ~plugged) ~> (~verify /\ pc[Gui] = "read")

(* The abstract specification *)

Cached == {i \in DOMAIN rows : rows[i].tgt # NoTgt}

Store == INSTANCE TicketStore WITH
    store   <- {<<KeyOf(rows[i]), rows[i].tgt>> : i \in Cached},
    granted <- {<<issued[t], t>> : t \in DOMAIN issued},
    ended   <- DOMAIN issued \ live,
    Tickets <- Tgts

\* The table and the server's tickets together behave as a TicketStore.
ImplementsTicketStore == Store!Spec

\* The one key of this model, its queued removals and the PIN flag.
Guard == INSTANCE KeyGuard WITH
    Keys  <- {"key"},
    NoKey <- "none",
    here  <- IF plugged THEN {"key"} ELSE {},
    told  <- IF removals > 0 THEN {"key"} ELSE {},
    default <- IF known THEN "key" ELSE "none",
    flag  <- IF verify THEN "key" ELSE "none"

\* The flag behaves as a KeyGuard whatever the workers, the logouts of the GUI
\* thread and restarts do in between.
ImplementsKeyGuard == Guard!Spec

(* What the code's comments say, and the code does not do *)

\* "ERR_KEY_NOT_EXIST: no Longmai key inserted" (commontype.h:36): the code is
\* set only while no key is in the port.
KeyNotExistMeansNoKey ==
    [][errCode' = "ERR_KEY_NOT_EXIST" /\ errCode' # errCode => ~plugged]_vars

\* "ERR_GET_TGT_FAILED: getting the granting ticket failed" (commontype.h:40):
\* a reply with this code belongs to a request that got no such ticket.
TgtCodeMeansNoTgt ==
    \A w \in Workers :
        pc[w] = "err" /\ errCode = "ERR_GET_TGT_FAILED" => tgt[w] = NoTgt

\* "Log the session out" (httpserverrunable.cpp:96): when the table is emptied,
\* no ticket that was in it is still accepted by the server.
LogoutEndsSession ==
    [][rows # << >> /\ rows' = << >> =>
         \A i \in DOMAIN rows : rows[i].tgt \notin live]_vars
=============================================================================
