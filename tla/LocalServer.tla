---------------------------- MODULE LocalServer ----------------------------
(***************************************************************************)
(* The life of the local HTTP server and of the HTTP client behind it.     *)
(* Three kinds of thread of one process meet here:                         *)
(*  - the server thread (HttpServerRunable::run) makes a server, listens   *)
(*    until somebody closes its socket, drains the pool, sleeps 2 s, and   *)
(*    starts over with the port that is configured by then;                *)
(*  - the pool's threads serve the connections, some by a call of the SSO  *)
(*    server through m_clientPtr, some by a message box;                   *)
(*  - the GUI thread saves a new port or address, and then stops and frees *)
(*    the server, or replaces the client, whoever may be using it.         *)
(* A use of a freed object is undefined: the process dies or goes on with  *)
(* the old contents.  A call through a null pointer kills the process.     *)
(***************************************************************************)
EXTENDS ThreadPool, Naturals

CONSTANTS
    Ports,      \* local ports a user may configure
    NoPort,     \* no listening socket
    Addrs,      \* addresses of the SSO server a user may configure
    NoAddr,     \* m_clientPtr is null
    SavedPort, SavedAddr,   \* the configuration found at the first start
    KeepAlive,  \* requests of one connection (CPPHTTPLIB_KEEPALIVE_MAX_COUNT)
    MaxConfirms,\* bound: confirmations of a setting dialog
    MaxFaults   \* bound: failures of bind and accept

Conns == Jobs

ASSUME NamesAssumption == NoPort \notin Ports /\ NoAddr \notin Addrs
ASSUME SavedAssumption == SavedPort \in Ports /\ SavedAddr \in Addrs
ASSUME KeepAliveAssumption == KeepAlive \in Nat \ {0}
ASSUME BoundsAssumption == MaxConfirms \in Nat /\ MaxFaults \in Nat

VARIABLES
    port, remote,   \* the configuration file
    confirms,
    gui,        \* where the GUI thread stands in OnConfirmReleased
    ptr,        \* m_serverPtr is not null
    pc,         \* where the server thread stands
    freed,      \* the server object that thread works on has been destroyed
    sock,       \* svr_sock_ is not INVALID_SOCKET
    fd,         \* the port listened on
    bindTo,     \* the port read for listen()
    unstopped,  \* history: a server in use was destroyed with its socket open
    faults,
    client,     \* the address m_clientPtr was made for
    left,       \* requests a thread may still answer on its connection
    call,       \* what a thread's handler is doing
    loose,      \* threads inside a post whose client has been destroyed
    conn        \* what became of each connection

configVars == <<port, remote, confirms>>
serverVars == <<ptr, pc, freed, sock, fd, bindTo, unstopped, faults>>
serveVars  == <<left, call>>
clientVars == <<client, loose>>
vars == <<configVars, gui, serverVars, clientVars, serveVars, conn, poolVars>>

Steps == {"create", "route", "bind", "bound", "poll", "notify", "join", "sleep", "dead"}
GuiSteps == {"idle", "stop", "reset", "drop", "init", "quit"}

Alive == pc # "dead"
Running == pc \in {"poll", "notify", "join"}    \* is_running_, and there is a pool
Goto(to) == pc' = to
Step(from, to) == pc = from /\ Goto(to)
GuiStep(from, to) == Alive /\ gui = from /\ gui' = to

Init ==
    /\ port = SavedPort /\ remote = SavedAddr /\ confirms = 0
    /\ gui = "idle"
    /\ ptr = FALSE /\ pc = "create" /\ freed = FALSE
    /\ sock = FALSE /\ fd = NoPort /\ bindTo = NoPort
    /\ unstopped = FALSE /\ faults = 0
    /\ client = remote /\ loose = {}
    /\ left = [t \in Threads |-> 0] /\ call = [t \in Threads |-> "none"]
    /\ conn = [c \in Conns |-> "new"]
    /\ NoPool

-----------------------------------------------------------------------------
(* The server thread *)

\* InitServer: the new server takes the place of the old one.
Create ==
    /\ Step("create", "route")
    /\ ptr' = TRUE /\ freed' = FALSE /\ sock' = FALSE
    /\ UNCHANGED <<fd, bindTo, unstopped, faults, configVars, gui, clientVars, serveVars, conn, poolVars>>

\* Mutant of Route: the port is read once and for all.
RouteCached ==
    /\ ptr /\ Step("route", "bind")
    /\ bindTo' = IF bindTo = NoPort THEN port ELSE bindTo
    /\ UNCHANGED <<ptr, freed, sock, fd, unstopped, faults, configVars, gui, clientVars, serveVars, conn, poolVars>>

\* InitRouter and the handlers go through m_serverPtr; then the port is read.
Route ==
    /\ ptr /\ Step("route", "bind")
    /\ bindTo' = port
    /\ UNCHANGED <<ptr, freed, sock, fd, unstopped, faults, configVars, gui, clientVars, serveVars, conn, poolVars>>

Bind ==
    /\ ptr /\ Step("bind", "bound")
    /\ sock' = TRUE /\ fd' = bindTo
    /\ UNCHANGED <<ptr, freed, bindTo, unstopped, faults, configVars, gui, clientVars, serveVars, conn, poolVars>>

\* The port is taken: listen returns, and run() tries again after its sleep.
BindFails ==
    /\ ptr /\ Step("bind", "sleep")
    /\ faults < MaxFaults /\ faults' = faults + 1
    /\ UNCHANGED <<ptr, freed, sock, fd, bindTo, unstopped, configVars, gui, clientVars, serveVars, conn, poolVars>>

\* is_running_ goes up, and the pool's threads start.
StartPool ==
    /\ Step("bound", "poll") /\ NewPool
    /\ UNCHANGED <<ptr, freed, sock, fd, bindTo, unstopped, faults, configVars, gui, clientVars, serveVars, conn>>

Accept(c) ==
    /\ pc = "poll" /\ fd # NoPort /\ conn[c] = "new"
    /\ conn' = [conn EXCEPT ![c] = "accepted"]
    /\ Enqueue(c)
    /\ UNCHANGED <<configVars, gui, serverVars, clientVars, serveVars>>

\* stop() has closed the socket: the loop ends and the pool is told to.
SeeClosed ==
    /\ ~sock /\ Step("poll", "notify") /\ SetShutdown
    /\ UNCHANGED <<ptr, freed, sock, fd, bindTo, unstopped, faults, configVars, gui, clientVars, serveVars, conn>>

\* accept() fails for good: the loop closes the socket itself.  svr_sock_ keeps
\* the descriptor, and a later stop() closes it again: taken to close nothing.
AcceptFails ==
    /\ sock /\ Step("poll", "notify") /\ SetShutdown
    /\ faults < MaxFaults /\ faults' = faults + 1
    /\ fd' = NoPort
    /\ UNCHANGED <<ptr, freed, sock, bindTo, unstopped, configVars, gui, clientVars, serveVars, conn>>

Notify ==
    /\ Step("notify", "join") /\ NotifyAll
    /\ UNCHANGED <<ptr, freed, sock, fd, bindTo, unstopped, faults, configVars, gui, clientVars, serveVars, conn>>

\* shutdown() has joined every thread, and listen returns.
JoinPool ==
    /\ Joined /\ Step("join", "sleep") /\ DropPool
    /\ UNCHANGED <<ptr, freed, sock, fd, bindTo, unstopped, faults, configVars, gui, clientVars, serveVars, conn>>

\* Two seconds later.  m_bExit is still down: only a static destructor, which
\* the end of this very thread has to precede, would raise it.
RunAgain ==
    /\ Step("sleep", "create")
    /\ UNCHANGED <<ptr, freed, sock, fd, bindTo, unstopped, faults, configVars, gui, clientVars, serveVars, conn, poolVars>>

-----------------------------------------------------------------------------
(* A thread of the pool *)

TakeConn(t) ==
    /\ Take(t) /\ left' = [left EXCEPT ![t] = KeepAlive]
    /\ UNCHANGED <<configVars, gui, serverVars, clientVars, call, conn>>

Rest(t) ==
    /\ Sleep(t) \/ Leave(t)
    /\ UNCHANGED <<configVars, gui, serverVars, clientVars, serveVars, conn>>

Wake(t) ==
    /\ WakeSpuriously(t)
    /\ UNCHANGED <<configVars, gui, serverVars, clientVars, serveVars, conn>>

Serving(t) == state[t] = "run" /\ call[t] = "none"

\* Mutant of Request: the count of requests is not looked at.
RequestUncounted(t) ==
    /\ Serving(t)
    /\ left' = [left EXCEPT ![t] = @ - 1]
    /\ \E to \in {"none", "box"} \cup (IF client # NoAddr THEN {"post"} ELSE {}) :
         call' = [call EXCEPT ![t] = to]
    /\ UNCHANGED <<configVars, gui, serverVars, clientVars, conn, poolVars>>

\* One more request: answered at once, by a message box (UnlockPIN), or by a
\* call of the SSO server.
Request(t) ==
    /\ Serving(t) /\ left[t] > 0
    /\ left' = [left EXCEPT ![t] = @ - 1]
    /\ \E to \in {"none", "box"} \cup (IF client # NoAddr THEN {"post"} ELSE {}) :
         call' = [call EXCEPT ![t] = to]
    /\ UNCHANGED <<configVars, gui, serverVars, clientVars, conn, poolVars>>

EndPost(t) ==
    /\ call[t] = "post" /\ call' = [call EXCEPT ![t] = "none"]
    /\ loose' = loose \ {t}
    /\ UNCHANGED <<configVars, gui, serverVars, client, left, conn, poolVars>>

CloseBox(t) ==
    /\ call[t] = "box" /\ call' = [call EXCEPT ![t] = "none"]
    /\ UNCHANGED <<configVars, gui, serverVars, clientVars, left, conn, poolVars>>

\* The caller hangs up or is silent for 5 s, or the last request is answered.
CloseConn(t) ==
    /\ Serving(t) /\ Finish(t)
    /\ conn' = [conn EXCEPT ![fn[t]] = "closed"]
    /\ left' = [left EXCEPT ![t] = 0]
    /\ UNCHANGED <<configVars, gui, serverVars, clientVars, call>>

-----------------------------------------------------------------------------
(* The GUI thread *)

\* LocalSettingDialog: the port is saved, then DestroyServer is called.
ConfirmPort(p) ==
    /\ GuiStep("idle", "stop")
    /\ confirms < MaxConfirms /\ confirms' = confirms + 1
    /\ port' = p
    /\ UNCHANGED <<remote, serverVars, clientVars, serveVars, conn, poolVars>>

\* stop() has an effect only while is_running_.
StopServer ==
    /\ \/ /\ ptr /\ GuiStep("stop", "reset")
          /\ IF Running THEN sock' = FALSE /\ fd' = NoPort ELSE UNCHANGED <<sock, fd>>
       \/ ~ptr /\ GuiStep("stop", "idle") /\ UNCHANGED <<sock, fd>>
    /\ UNCHANGED <<configVars, ptr, pc, freed, bindTo, unstopped, faults, clientVars, serveVars, conn, poolVars>>

\* Mutant of ResetServer: the pointer stays.
KeepServer ==
    /\ GuiStep("reset", "idle")
    /\ UNCHANGED <<configVars, serverVars, clientVars, serveVars, conn, poolVars>>

InUse == pc \notin {"create", "sleep"}

\* m_serverPtr holds the only reference: reset() destroys the server.
ResetServer ==
    /\ GuiStep("reset", "idle")
    /\ ptr' = FALSE
    /\ freed' = (freed \/ InUse)
    /\ unstopped' = (unstopped \/ pc \in {"route", "bind", "bound"} \/ (pc = "poll" /\ sock))
    /\ UNCHANGED <<configVars, pc, sock, fd, bindTo, faults, clientVars, serveVars, conn, poolVars>>

\* ServerSettingDialog: the address is saved, then ReInitClient is called.
ConfirmRemote(a) ==
    /\ GuiStep("idle", "drop")
    /\ confirms < MaxConfirms /\ confirms' = confirms + 1
    /\ remote' = a
    /\ UNCHANGED <<port, serverVars, clientVars, serveVars, conn, poolVars>>

DestroyClient ==
    /\ GuiStep("drop", "init")
    /\ client' = NoAddr
    /\ loose' = {t \in Threads : call[t] = "post"}
    /\ UNCHANGED <<configVars, serverVars, serveVars, conn, poolVars>>

\* Mutant of InitClient: the client is not made again.
InitNothing ==
    /\ GuiStep("init", "idle")
    /\ UNCHANGED <<configVars, serverVars, clientVars, serveVars, conn, poolVars>>

InitClient ==
    /\ GuiStep("init", "idle")
    /\ client' = remote
    /\ UNCHANGED <<loose, configVars, serverVars, serveVars, conn, poolVars>>

\* The session ends: exec() returns, and the end of main waits for run().
Quit ==
    /\ GuiStep("idle", "quit")
    /\ UNCHANGED <<configVars, serverVars, clientVars, serveVars, conn, poolVars>>

-----------------------------------------------------------------------------
(* The end of the process *)

NullUse ==
    \/ ~ptr /\ pc \in {"route", "bind"}
    \/ client = NoAddr /\ \E t \in Threads : Serving(t) /\ left[t] > 0

FreedUse ==
    \/ freed /\ pc \in {"bound", "poll", "join"}
    \/ freed /\ \E t \in Threads : Serving(t)
    \/ loose # {}

Crash ==
    /\ NullUse \/ FreedUse
    /\ pc' = "dead" /\ gui' = "idle"
    /\ ptr' = FALSE /\ freed' = FALSE /\ sock' = FALSE /\ fd' = NoPort /\ bindTo' = NoPort
    /\ unstopped' = FALSE
    /\ client' = remote /\ loose' = {}
    /\ left' = [t \in Threads |-> 0] /\ call' = [t \in Threads |-> "none"]
    /\ conn' = [c \in Conns |-> IF conn[c] = "accepted" THEN "lost" ELSE conn[c]]
    /\ DropPool
    /\ UNCHANGED <<configVars, faults>>

\* The user starts the program again: the configuration is still there.
Launch ==
    /\ Step("dead", "create")
    /\ UNCHANGED <<ptr, freed, sock, fd, bindTo, unstopped, faults, configVars, gui, clientVars, serveVars, conn, poolVars>>

-----------------------------------------------------------------------------
Server ==
    \/ Create \/ Route \/ Bind \/ BindFails \/ StartPool
    \/ SeeClosed \/ AcceptFails \/ Notify \/ JoinPool \/ RunAgain

Worker(t) == TakeConn(t) \/ Rest(t) \/ Request(t) \/ EndPost(t) \/ CloseConn(t)

Confirmed == StopServer \/ ResetServer \/ DestroyClient \/ InitClient

Next ==
    \/ Server \/ (\E c \in Conns : Accept(c))
    \/ \E t \in Threads : Worker(t) \/ Wake(t) \/ CloseBox(t)
    \/ (\E p \in Ports : ConfirmPort(p)) \/ (\E a \in Addrs : ConfirmRemote(a))
    \/ Confirmed \/ Quit \/ Crash \/ Launch

Spec == Init /\ [][Next]_vars

\* Each thread runs on: the server thread, every thread of the pool (silent
\* callers and the SSO server time out), and the GUI thread inside
\* OnConfirmReleased.  Nobody has to connect, to confirm a dialog, to close a
\* box or to start the program, and no wait has to end spuriously.
Fairness ==
    /\ WF_vars(Server)
    /\ \A t \in Threads : WF_vars(Worker(t))
    /\ WF_vars(Confirmed)

FairSpec == Spec /\ Fairness

-----------------------------------------------------------------------------
(* Properties *)

\* Every variable stays in its domain.
TypeOK ==
    /\ port \in Ports /\ remote \in Addrs /\ confirms \in Nat /\ faults \in Nat
    /\ gui \in GuiSteps /\ pc \in Steps
    /\ ptr \in BOOLEAN /\ freed \in BOOLEAN /\ sock \in BOOLEAN
    /\ unstopped \in BOOLEAN /\ shut \in BOOLEAN
    /\ fd \in Ports \cup {NoPort} /\ bindTo \in Ports \cup {NoPort}
    /\ client \in Addrs \cup {NoAddr} /\ loose \subseteq Threads
    /\ left \in [Threads -> Nat]
    /\ call \in [Threads -> {"none", "box", "post"}]
    /\ conn \in [Conns -> {"new", "accepted", "closed", "lost"}]
    /\ jobs \in Seq(Conns)
    /\ state \in [Threads -> States]
    /\ fn \in [Threads -> Conns \cup {NoJob}]

\* assert(svr_sock_ != INVALID_SOCKET) in Server::stop holds at every stop,
\* however confirmations, restarts and failures of accept() overlap.
StopAssert == gui = "stop" /\ ptr /\ Running => sock

Service == INSTANCE ConnService WITH up <- Running

\* Seen by its callers the server is a ConnService: nothing is accepted once
\* the pool shuts down, nothing is served twice, and it goes down, to change
\* its port, only after it has closed every connection it accepted.
ImplementsConnService == Service!Spec

Looking == {t \in Threads : state[t] = "check"}

\* While any thread of the pool sleeps, for every queued connection there is a
\* thread that is about to look at the queue.
EnoughAwake ==
    (\E t \in Threads : state[t] = "asleep") => Len(jobs) <= Cardinality(Looking)

\* Once shutdown() begins to join, no thread sleeps, and none will: the flag
\* was raised before the one notification that every thread gets.
JoinFindsNoneAsleep == pc = "join" => \A t \in Threads : state[t] # "asleep"

\* No wake-up is lost, spurious ones and all: one notification per connection
\* is enough to have it served, and one for all to let the server go down.
WakeUpsSuffice == EnoughAwake /\ JoinFindsNoneAsleep

\* An old configuration is in use only while its confirmation is being
\* handled: a port that is not the configured one is listened on, and an
\* address that is not the configured one is called, at no other time.
\* Excused is the server that was destroyed before it could be stopped.
ConfigLags ==
    /\ fd \notin {NoPort, port} => gui \in {"stop", "reset"} \/ unstopped
    /\ client # remote => gui \in {"drop", "init"}

Boxed(t) == call[t] = "box"

\* An accepted connection is closed, or lost with the process, unless the
\* thread that serves it, or the whole pool, waits for the user to close a box.
AcceptedClosed ==
    \A c \in Conns : conn[c] = "accepted" ~>
        \/ conn[c] # "accepted"
        \/ \E t \in Threads : Boxed(t) /\ fn[t] = c
        \/ \A t \in Threads : Boxed(t)

Excused == ~Alive \/ unstopped \/ \E t \in Threads : Boxed(t)

\* What the user confirms takes effect: in the end the program listens on the
\* configured port and calls the configured address.  Excused are a process
\* that died, a pool that cannot be joined because of an open box, and a
\* server that was destroyed before it could be stopped: that one listens on
\* the port it had read, and no later confirmation reaches it.
ConfigTakesEffect == <>[](Excused \/ (fd = port /\ client = remote))

Leaving == (pc = "poll" /\ ~sock) \/ pc \in {"notify", "join"}

\* A confirmation that meets a busy thread can kill the process, but only for
\* a while: until the client is made again, the server on its way out has
\* drained, and the posts through the old client have ended.  Excused is again the
\* server that was destroyed before it could be stopped.
DeathExplained ==
    [][Alive /\ ~Alive' => gui = "init" \/ unstopped \/ loose # {} \/ Leaving]_vars

(* The inductive invariant behind the safety properties *)

\* While a server that can be stopped listens, its socket is open.
StopInv ==
    /\ pc = "bound" => sock
    /\ ptr /\ Running /\ gui # "reset" => sock

\* Who listens has an open socket, and a pointer to the server unless that was
\* reset too early; the port read for listen() is the configured one, or the
\* handling of the new one is under way.
ConfigInv ==
    /\ ConfigLags
    /\ fd # NoPort => sock /\ pc \in {"bound", "poll"} /\ (ptr \/ unstopped)
    /\ pc = "bind" /\ bindTo # port => gui \in {"stop", "reset"} \/ unstopped

\* Where a null pointer or a destroyed server can still be met.
DeathInv ==
    /\ ~ptr /\ pc \in {"route", "bind"} => unstopped
    /\ client = NoAddr => gui = "init"
    /\ freed => unstopped \/ Leaving \/ pc \in {"create", "sleep"}

\* A thread of the pool ends only during shutdown, and leaves no job behind.
PoolInv ==
    /\ shut <=> pc \in {"notify", "join"}
    /\ ~Running => jobs = << >> /\ Joined
    /\ Running => \A t \in Threads : state[t] = "gone" => shut /\ jobs = << >>

Queued(c) == \E i \in 1 .. Len(jobs) : jobs[i] = c
Runs(t, c) == state[t] = "run" /\ fn[t] = c

\* The accepted connections are those in the queue and those being served,
\* each in one place.
ConnInv ==
    /\ \A c \in Conns : conn[c] = "accepted" => Queued(c) \/ \E t \in Threads : Runs(t, c)
    /\ \A c \in Conns : Queued(c) => conn[c] = "accepted"
    /\ \A i, j \in 1 .. Len(jobs) : jobs[i] = jobs[j] => i = j
    /\ \A t \in Threads, c \in Conns : Runs(t, c) => conn[c] = "accepted" /\ ~Queued(c)
    /\ \A t, u \in Threads, c \in Conns : Runs(t, c) /\ Runs(u, c) => t = u
    /\ \A t \in Threads : state[t] = "run" => fn[t] \in Conns
=============================================================================
