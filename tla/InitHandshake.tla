---------------------------- MODULE InitHandshake ----------------------------
(***************************************************************************)
(* SingleInstance together with the local socket over which a launch that  *)
(* gives up tells the primary of itself (connectToPrimary) and with the    *)
(* primary's side of it: a stage per connection, driven by readyRead, and  *)
(* a header and a body that may arrive cut anywhere.  The launch waits a   *)
(* second for the connection and another for its bytes, ignores what came  *)
(* of either wait, and ends.  The primary reads in its event loop; it may  *)
(* quit or die under its connections.  A process has one connection at a   *)
(* time: it is launched again only after the primary has dropped the last  *)
(* one (a bound).                                                          *)
(***************************************************************************)
EXTENDS SingleInstance

VARIABLES
    conn    \* the connection each process has opened to a primary

hvars == <<vars, conn>>

\* The message in quarters: one may be cut inside the header, between header
\* and body, and inside the body.
Header == 2
Whole == 4

\* Without a connection; refused, not made in time, or cut off by the end of the
\* primary; in the server's backlog; and the three stages of the primary.
Stages == {"none", "lost", "backlog", "header", "body", "connected"}

\* written: quarters that were sent; unread: some of them since the last readyRead.
NoConn == [stage |-> "none", to |-> Nobody, written |-> 0, unread |-> FALSE]
Lost == [NoConn EXCEPT !.stage = "lost"]

Listening(q) == pc[q] \in {"checksum", "primary"}
Open(p) == conn[p].to # Nobody
Closed(p) == pc[p] = "off"

HInit == Init /\ conn = [p \in Procs |-> NoConn]

-----------------------------------------------------------------------------
(* connectToPrimary, in the launch that gives up *)

\* A primary that listens may take the connection, in time or not.
MakeConnection(p) ==
    \/ /\ listener # Nobody /\ Listening(listener)
       /\ conn' = [conn EXCEPT ![p] = [NoConn EXCEPT !.stage = "backlog", !.to = listener]]
    \/ conn' = [conn EXCEPT ![p] = Lost]

\* Mutant of Connect: the launch connects before it knows of a primary.
ConnectEarly(p) ==
    /\ pc[p] \in {"check", "giveUp"} /\ conn[p].stage = "none" /\ MakeConnection(p)
    /\ UNCHANGED vars

Connect(p) ==
    /\ pc[p] = "giveUp" /\ conn[p].stage = "none" /\ MakeConnection(p)
    /\ UNCHANGED vars

\* What is written may leave in pieces.
Send(p) ==
    /\ pc[p] = "giveUp" /\ Open(p)
    /\ \E n \in conn[p].written + 1 .. Whole :
         conn' = [conn EXCEPT ![p].written = n, ![p].unread = TRUE]
    /\ UNCHANGED vars

\* The destructor closes the socket, whatever came of the waits: what has not
\* been written by then never is.
HGiveUp(p) ==
    /\ GiveUp(p) /\ conn[p].stage # "none"
    /\ conn' = IF Open(p) THEN conn ELSE [conn EXCEPT ![p] = NoConn]

HLaunch(p) ==
    /\ Launch(p) /\ ~Open(p)
    /\ conn' = [conn EXCEPT ![p] = NoConn]

-----------------------------------------------------------------------------
(* The primary's event loop *)

Serves(q, p) == pc[q] = "primary" /\ conn[p].to = q

SlotConnectionEstablished(q, p) ==
    /\ Serves(q, p) /\ conn[p].stage = "backlog"
    /\ conn' = [conn EXCEPT ![p].stage = "header"]
    /\ UNCHANGED vars

\* Mutant of ReadInitMessageHeader: the body is left for the next readyRead.
ReadHeaderOnly(n) == IF n >= Header THEN "body" ELSE "header"

\* The stage after what has arrived by now: a header that is complete is read,
\* and then the body, if it is complete as well.
ReadInitMessageBody(n) == IF n >= Whole THEN "connected" ELSE "body"

ReadInitMessageHeader(n) == IF n >= Header THEN ReadInitMessageBody(n) ELSE "header"

\* readyRead comes once for what has arrived, and not again.
OnReadyRead(q, p) ==
    /\ Serves(q, p) /\ conn[p].stage # "backlog" /\ conn[p].unread
    /\ LET n == conn[p].written
           stage == CASE conn[p].stage = "header" -> ReadInitMessageHeader(n)
                      [] conn[p].stage = "body" -> ReadInitMessageBody(n)
                      [] OTHER -> conn[p].stage
       IN  conn' = [conn EXCEPT ![p].stage = stage, ![p].unread = FALSE]
    /\ UNCHANGED vars

\* Mutant of OnDisconnected: only a launch that was announced is removed.
DropAnnounced(q, p) ==
    /\ Serves(q, p) /\ conn[p].stage = "connected" /\ ~conn[p].unread
    /\ Closed(p)
    /\ conn' = [conn EXCEPT ![p] = NoConn]
    /\ UNCHANGED vars

\* The other end has closed, and everything it sent has been seen.
OnDisconnected(q, p) ==
    /\ Serves(q, p) /\ conn[p].stage # "backlog" /\ ~conn[p].unread
    /\ Closed(p)
    /\ conn' = [conn EXCEPT ![p] = NoConn]
    /\ UNCHANGED vars

EventLoop(q, p) ==
    SlotConnectionEstablished(q, p) \/ OnReadyRead(q, p) \/ OnDisconnected(q, p)

-----------------------------------------------------------------------------
(* The end of a process *)

\* Mutant of Cut: the connections that were not accepted yet stay.
CutAccepted(q) ==
    conn' = [p \in Procs |->
        IF conn[p].to = q /\ conn[p].stage # "backlog" THEN Lost ELSE conn[p]]

\* The connections to q go down with it.
Cut(q) == conn' = [p \in Procs |-> IF conn[p].to = q THEN Lost ELSE conn[p]]

HQuit(p) == Quit(p) /\ Cut(p)
HCrash(p) == Crash(p) /\ Cut(p)

-----------------------------------------------------------------------------
\* The steps of SingleInstance that have nothing to do with connections.
Other(p) ==
    /\ \/ Probe(p) \/ Unprobe(p) \/ Create(p) \/ InitializeBlock(p) \/ Attach(p)
       \/ BecomePrimary(p) \/ YieldToPrimary(p) \/ Reinitialize(p)
       \/ StartPrimary(p) \/ SealPrimary(p)
    /\ UNCHANGED conn

HStarting(p) == Other(p) \/ Connect(p) \/ Send(p) \/ HGiveUp(p)

HTimeout(p) == Timeout(p) /\ UNCHANGED conn

HEnding(p) == (SealQuit(p) \/ Leave(p)) /\ UNCHANGED conn

HNext == \E p \in Procs :
    \/ HLaunch(p) \/ HStarting(p) \/ HTimeout(p) \/ HEnding(p) \/ HQuit(p) \/ HCrash(p)
    \/ \E q \in Procs : EventLoop(q, p)

HSpec == HInit /\ [][HNext]_hvars

\* As in SingleInstance, and the primary's event loop gets to each connection.
HFairness == \A p \in Procs :
    /\ SF_hvars(HStarting(p))
    /\ WF_hvars(HTimeout(p)) /\ WF_hvars(HEnding(p))
    /\ WF_hvars(\E q \in Procs : EventLoop(q, p))

HFairSpec == HSpec /\ HFairness

-----------------------------------------------------------------------------
(* Properties *)

\* Every variable stays in its domain, and only a launch that has given up has
\* a connection.
HTypeOK ==
    /\ TypeOK
    /\ conn \in [Procs -> [stage : Stages, to : Procs \cup {Nobody},
                           written : 0 .. Whole, unread : BOOLEAN]]
    /\ \A p \in Procs : conn[p] # NoConn => pc[p] \in {"giveUp", "off"}

\* Once the primary has seen all that arrived, it has read all it could: no
\* complete header or body waits for a readyRead that will not come, and the
\* launch counts as announced exactly when its whole message is there.
NothingLeftUnread ==
    \A p \in Procs :
        LET c == conn[p] IN
        /\ c.stage = "header" => c.written < Header \/ c.unread
        /\ c.stage = "body" => Header <= c.written /\ (c.written < Whole \/ c.unread)
        /\ c.stage = "connected" => c.written = Whole

\* Every open connection leads to the process that owns the server's name, and
\* that one is the primary: none is left to a process that quit, crashed, or
\* has lost the name.
LeadsToPrimary ==
    \A p \in Procs : Open(p) => conn[p].to = listener /\ Listening(listener)

\* A launch that has handed its message to the primary is announced there,
\* however the message was cut and though the launch may have ended since,
\* unless the primary ends first.
Announced == \A p \in Procs :
    conn[p].written = Whole ~> conn[p].stage \in {"connected", "lost"}

\* The primary keeps no connection of a launch that has ended, though it ended
\* unannounced: before it was accepted, or by a wait that ran out or a crash
\* half way through its message.
EndedIsForgotten == \A p \in Procs : Closed(p) /\ Open(p) ~> ~Open(p)
=============================================================================
