------------------------- MODULE LocalServerProofs -------------------------
(***************************************************************************)
(* What holds of LocalServer for every pool size, every number of          *)
(* connections, ports and addresses, and any number of confirmations and   *)
(* failures.                                                               *)
(***************************************************************************)
EXTENDS LocalServer, FiniteSetTheorems, TLAPS

USE DEF configVars, serverVars, serveVars, clientVars, poolVars

-----------------------------------------------------------------------------
(* Types *)

\* The first job of a non-empty queue, and what is left of the queue.
LEMMA QueueTypes ==
    ASSUME jobs \in Seq(Conns), jobs # << >>
    PROVE  Head(jobs) \in Conns /\ Tail(jobs) \in Seq(Conns)
OBVIOUS

LEMMA EmptyQueue == << >> \in Seq(Conns)
OBVIOUS

LEMMA LongerQueue ==
    ASSUME jobs \in Seq(Conns), NEW c \in Conns
    PROVE  Append(jobs, c) \in Seq(Conns)
OBVIOUS

LEMMA TypeInit == Init => TypeOK
<1> SUFFICES ASSUME Init PROVE TypeOK
  OBVIOUS
<1>1. /\ port \in Ports /\ remote \in Addrs /\ client \in Addrs
      /\ confirms \in Nat /\ faults \in Nat /\ gui \in GuiSteps /\ pc \in Steps
  BY SavedAssumption DEF Init, GuiSteps, Steps
<1>2. /\ left \in [Threads -> Nat] /\ call \in [Threads -> {"none", "box", "post"}]
      /\ conn \in [Conns -> {"new", "accepted", "closed", "lost"}]
  BY DEF Init
<1>3. /\ jobs \in Seq(Conns) /\ shut \in BOOLEAN
      /\ state \in [Threads -> States] /\ fn \in [Threads -> Conns \cup {NoJob}]
  BY EmptyQueue DEF Init, NoPool, States
<1> QED
  BY <1>1, <1>2, <1>3 DEF Init, TypeOK

LEMMA TypeServer == TypeOK /\ Server => TypeOK'
<1> SUFFICES ASSUME TypeOK, Server PROVE TypeOK'
  OBVIOUS
<1> USE BoundsAssumption DEF TypeOK, Steps, Step, Goto, States
<1>1. CASE Create
  BY <1>1 DEF Create
<1>2. CASE Route
  BY <1>2 DEF Route
<1>3. CASE Bind
  BY <1>3 DEF Bind
<1>4. CASE BindFails
  BY <1>4 DEF BindFails
<1>5. CASE StartPool
  BY <1>5, EmptyQueue DEF StartPool, NewPool
<1>6. CASE SeeClosed
  BY <1>6 DEF SeeClosed, SetShutdown
<1>7. CASE AcceptFails
  BY <1>7 DEF AcceptFails, SetShutdown
<1>8. CASE Notify
  BY <1>8 DEF Notify, NotifyAll
<1>9. CASE JoinPool
  BY <1>9, EmptyQueue DEF JoinPool, DropPool
<1>10. CASE RunAgain
  BY <1>10 DEF RunAgain
<1> QED
  BY <1>1, <1>2, <1>3, <1>4, <1>5, <1>6, <1>7, <1>8, <1>9, <1>10 DEF Server

LEMMA TypePool ==
    ASSUME TypeOK, NEW t \in Threads, Worker(t) \/ Wake(t) \/ CloseBox(t)
    PROVE  TypeOK'
<1> USE KeepAliveAssumption DEF TypeOK, States, Enters
<1>1. CASE TakeConn(t)
  BY <1>1, QueueTypes DEF TakeConn, Take
<1>2. CASE Rest(t) \/ Wake(t)
  BY <1>2 DEF Rest, Wake, Sleep, Leave, WakeSpuriously
<1>3. CASE Request(t)
  BY <1>3 DEF Request, Serving
<1>4. CASE EndPost(t) \/ CloseBox(t)
  BY <1>4 DEF EndPost, CloseBox
<1>5. CASE CloseConn(t)
  BY <1>5 DEF CloseConn, Serving, Finish
<1> QED
  BY <1>1, <1>2, <1>3, <1>4, <1>5 DEF Worker

LEMMA TypeGui ==
    ASSUME TypeOK,
           \/ Confirmed \/ Quit
           \/ \E p \in Ports : ConfirmPort(p)
           \/ \E a \in Addrs : ConfirmRemote(a)
    PROVE  TypeOK'
<1> USE DEF TypeOK, GuiStep, GuiSteps
<1>1. ASSUME NEW p \in Ports, ConfirmPort(p) PROVE TypeOK'
  BY <1>1 DEF ConfirmPort
<1>2. ASSUME NEW a \in Addrs, ConfirmRemote(a) PROVE TypeOK'
  BY <1>2 DEF ConfirmRemote
<1>3. CASE StopServer
  BY <1>3 DEF StopServer
<1>4. CASE ResetServer
  BY <1>4 DEF ResetServer
<1>5. CASE DestroyClient \/ InitClient
  BY <1>5 DEF DestroyClient, InitClient
<1>6. CASE Quit
  BY <1>6 DEF Quit
<1> QED
  BY <1>1, <1>2, <1>3, <1>4, <1>5, <1>6 DEF Confirmed

LEMMA TypeStep == TypeOK /\ [Next]_vars => TypeOK'
<1> SUFFICES ASSUME TypeOK, [Next]_vars PROVE TypeOK'
  OBVIOUS
<1>1. ASSUME NEW c \in Conns, Accept(c) PROVE TypeOK'
  BY <1>1, LongerQueue DEF TypeOK, Accept, Enqueue, Enters, States
<1>2. CASE Crash
  BY <1>2, EmptyQueue, KeepAliveAssumption DEF TypeOK, Crash, DropPool, Steps, GuiSteps, States
<1>3. CASE Launch
  BY <1>3 DEF TypeOK, Launch, Step, Goto, Steps
<1>4. CASE UNCHANGED vars
  BY <1>4 DEF TypeOK, vars
<1> QED
  BY <1>1, <1>2, <1>3, <1>4, TypeServer, TypePool, TypeGui DEF Next

\* Every variable stays in its domain.
THEOREM LocalServerTypeCorrect == Spec => []TypeOK
BY TypeInit, TypeStep, PTL DEF Spec

-----------------------------------------------------------------------------
(* The assertion in stop(), and the death of the process *)

\* Connections and the threads that serve them touch neither the
\* configuration nor the server object, and destroy no client.
LEMMA PoolFrame ==
    ASSUME \/ \E c \in Conns : Accept(c)
           \/ \E t \in Threads : Worker(t) \/ Wake(t) \/ CloseBox(t)
    PROVE  UNCHANGED <<configVars, gui, serverVars, client>>
BY DEF Accept, Worker, TakeConn, Rest, Request, EndPost, CloseConn, Wake, CloseBox

LEMMA StopStep == StopInv /\ [Next]_vars => StopInv'
<1> SUFFICES ASSUME StopInv, [Next]_vars PROVE StopInv'
  OBVIOUS
<1> USE DEF StopInv, Running, Step, Goto, GuiStep, Alive
<1>1. CASE Server
  BY <1>1 DEF Server, Create, Route, Bind, BindFails, StartPool, SeeClosed, AcceptFails,
              Notify, JoinPool, RunAgain
<1>2. CASE Confirmed \/ Quit
  BY <1>2 DEF Confirmed, StopServer, ResetServer, DestroyClient, InitClient, Quit
<1>3. CASE (\E p \in Ports : ConfirmPort(p)) \/ (\E a \in Addrs : ConfirmRemote(a))
  BY <1>3 DEF ConfirmPort, ConfirmRemote
<1>4. CASE Crash \/ Launch
  BY <1>4 DEF Crash, Launch
<1>5. CASE \/ \E c \in Conns : Accept(c)
           \/ \E t \in Threads : Worker(t) \/ Wake(t) \/ CloseBox(t)
  BY <1>5, PoolFrame
<1>6. CASE UNCHANGED vars
  BY <1>6 DEF vars
<1> QED
  BY <1>1, <1>2, <1>3, <1>4, <1>5, <1>6 DEF Next

\* httplib's assertion in stop() never fails: the only path that stops a
\* server twice is cut by the reset of the pointer.
THEOREM StopAssertHolds == Spec => []StopAssert
<1>1. Init => StopInv
  BY DEF Init, StopInv, Running
<1>2. StopInv => StopAssert
  BY DEF StopInv, StopAssert
<1> QED
  BY <1>1, <1>2, StopStep, PTL DEF Spec

LEMMA DeathStep == TypeOK /\ DeathInv /\ [Next]_vars => DeathInv'
<1> SUFFICES ASSUME TypeOK, DeathInv, [Next]_vars PROVE DeathInv'
  OBVIOUS
<1> USE DEF DeathInv, Leaving, Step, Goto, GuiStep, Alive
<1>1. CASE Server
  BY <1>1 DEF Server, Create, Route, Bind, BindFails, StartPool, SeeClosed, AcceptFails,
              Notify, JoinPool, RunAgain
<1>2. CASE StopServer \/ Quit
  BY <1>2 DEF StopServer, Running, Quit
<1>3. CASE ResetServer
  BY <1>3 DEF ResetServer, InUse, TypeOK, Steps, StopInv, Running
<1>4. CASE DestroyClient \/ InitClient
  BY <1>4, NamesAssumption DEF DestroyClient, InitClient, TypeOK
<1>5. CASE (\E p \in Ports : ConfirmPort(p)) \/ (\E a \in Addrs : ConfirmRemote(a))
  BY <1>5 DEF ConfirmPort, ConfirmRemote
<1>6. CASE Crash \/ Launch
  BY <1>6, NamesAssumption DEF Crash, Launch, TypeOK
<1>7. CASE \/ \E c \in Conns : Accept(c)
           \/ \E t \in Threads : Worker(t) \/ Wake(t) \/ CloseBox(t)
  BY <1>7, PoolFrame
<1>8. CASE UNCHANGED vars
  BY <1>8 DEF vars
<1> QED
  BY <1>1, <1>2, <1>3, <1>4, <1>5, <1>6, <1>7, <1>8 DEF Next, Confirmed

-----------------------------------------------------------------------------
(* The pool and its queue *)

LEMMA PoolStep == TypeOK /\ PoolInv /\ [Next]_vars => PoolInv'
<1> SUFFICES ASSUME TypeOK, PoolInv, [Next]_vars PROVE PoolInv'
  OBVIOUS
<1> USE DEF PoolInv, Running, Joined, Step, Goto, GuiStep, Alive
<1>1. CASE Server
  <2>1. CASE StartPool
    BY <2>1 DEF StartPool, NewPool
  <2>2. CASE SeeClosed \/ AcceptFails
    BY <2>2 DEF SeeClosed, AcceptFails, SetShutdown
  <2>3. CASE Notify
    BY <2>3 DEF Notify, NotifyAll, TypeOK
  <2>4. CASE JoinPool
    BY <2>4 DEF JoinPool, DropPool
  <2>5. CASE Create \/ Route \/ Bind \/ BindFails \/ RunAgain
    BY <2>5 DEF Create, Route, Bind, BindFails, RunAgain
  <2> QED
    BY <1>1, <2>1, <2>2, <2>3, <2>4, <2>5 DEF Server
<1>2. ASSUME NEW c \in Conns, Accept(c) PROVE PoolInv'
  BY <1>2 DEF Accept, Enqueue, Enters, TypeOK
<1>3. ASSUME NEW t \in Threads, Worker(t) \/ Wake(t) \/ CloseBox(t) PROVE PoolInv'
  <2>1. CASE TakeConn(t)
    <3>1. Running /\ UNCHANGED <<shut, pc>> /\ jobs # << >>
      BY <2>1 DEF TakeConn, Take
    <3>2. \A u \in Threads : state'[u] = "gone" => state[u] = "gone"
      BY <2>1 DEF TakeConn, Take, Enters, TypeOK
    <3> QED
      BY <3>1, <3>2
  <2>2. CASE Rest(t)
    BY <2>2 DEF Rest, Sleep, Leave, Enters, TypeOK
  <2>3. CASE Wake(t)
    BY <2>3 DEF Wake, WakeSpuriously, Enters, TypeOK
  <2>4. CASE CloseConn(t)
    BY <2>4 DEF CloseConn, Serving, Finish, Enters, TypeOK
  <2>5. CASE Request(t) \/ EndPost(t) \/ CloseBox(t)
    BY <2>5 DEF Request, EndPost, CloseBox
  <2> QED
    BY <1>3, <2>1, <2>2, <2>3, <2>4, <2>5 DEF Worker
<1>4. CASE Confirmed \/ Quit
  BY <1>4 DEF Confirmed, StopServer, ResetServer, DestroyClient, InitClient, Quit
<1>5. CASE (\E p \in Ports : ConfirmPort(p)) \/ (\E a \in Addrs : ConfirmRemote(a))
  BY <1>5 DEF ConfirmPort, ConfirmRemote
<1>6. CASE Crash \/ Launch
  BY <1>6 DEF Crash, DropPool, Launch
<1>7. CASE UNCHANGED vars
  BY <1>7 DEF vars
<1> QED
  BY <1>1, <1>2, <1>3, <1>4, <1>5, <1>6, <1>7 DEF Next

\* What Append does to the queue.
LEMMA AppendQueued ==
    ASSUME jobs \in Seq(Conns), NEW c \in Conns, jobs' = Append(jobs, c)
    PROVE  /\ \A d \in Conns : Queued(d)' <=> Queued(d) \/ d = c
           /\ ~Queued(c) /\ (\A i, j \in 1 .. Len(jobs) : jobs[i] = jobs[j] => i = j)
              => \A i, j \in 1 .. Len(jobs') : jobs'[i] = jobs'[j] => i = j
<1>1. /\ Len(jobs') = Len(jobs) + 1 /\ Len(jobs) \in Nat
      /\ \A i \in 1 .. Len(jobs) : jobs'[i] = jobs[i]
      /\ jobs'[Len(jobs) + 1] = c
  OBVIOUS
<1>2. \A i \in 1 .. Len(jobs') : i \in 1 .. Len(jobs) \/ i = Len(jobs) + 1
  BY <1>1
<1>3. \A i \in 1 .. Len(jobs) : i \in 1 .. Len(jobs')
  BY <1>1
<1> QED
  BY <1>1, <1>2, <1>3 DEF Queued

\* What Head and Tail do to it.
LEMMA TailQueued ==
    ASSUME jobs \in Seq(Conns), jobs # << >>, jobs' = Tail(jobs), NEW c, c = Head(jobs),
           \A i, j \in 1 .. Len(jobs) : jobs[i] = jobs[j] => i = j
    PROVE  /\ \A d \in Conns : Queued(d) <=> Queued(d)' \/ d = c
           /\ ~Queued(c)'
           /\ \A i, j \in 1 .. Len(jobs') : jobs'[i] = jobs'[j] => i = j
<1>1. /\ Len(jobs) \in Nat \ {0} /\ Len(jobs') = Len(jobs) - 1
      /\ \A i \in 1 .. Len(jobs') : jobs'[i] = jobs[i + 1]
      /\ Head(jobs) = jobs[1]
  OBVIOUS
<1>2. \A i \in 1 .. Len(jobs') : i + 1 \in 1 .. Len(jobs) /\ i + 1 # 1
  BY <1>1
<1>3. \A i \in 1 .. Len(jobs) : i = 1 \/ (i - 1 \in 1 .. Len(jobs') /\ jobs'[i - 1] = jobs[i])
  BY <1>1
<1>4. \A i, j \in 1 .. Len(jobs') : jobs'[i] = jobs'[j] => i = j
  <2> SUFFICES ASSUME NEW i \in 1 .. Len(jobs'), NEW j \in 1 .. Len(jobs'), jobs'[i] = jobs'[j]
               PROVE  i = j
    OBVIOUS
  <2>1. i + 1 = j + 1
    BY <1>1, <1>2
  <2> QED
    BY <1>1, <2>1
<1>5. ~Queued(c)'
  BY <1>1, <1>2 DEF Queued
<1>6. Queued(c)
  BY <1>1 DEF Queued
<1>7. ASSUME NEW d \in Conns, Queued(d) PROVE Queued(d)' \/ d = c
  <2>1. PICK i \in 1 .. Len(jobs) : jobs[i] = d
    BY <1>7 DEF Queued
  <2> QED
    BY <2>1, <1>1, <1>3 DEF Queued
<1>8. ASSUME NEW d \in Conns, Queued(d)' PROVE Queued(d)
  <2>1. PICK i \in 1 .. Len(jobs') : jobs'[i] = d
    BY <1>8 DEF Queued
  <2> QED
    BY <2>1, <1>1, <1>2 DEF Queued
<1> QED
  BY <1>4, <1>5, <1>6, <1>7, <1>8

-----------------------------------------------------------------------------
(* Where the accepted connections are *)

\* A step that starts and ends no job and leaves the queue alone.
LEMMA ConnFrame ==
    ASSUME ConnInv, UNCHANGED <<jobs, fn, conn>>,
           \A t \in Threads : state'[t] = "run" <=> state[t] = "run"
    PROVE  ConnInv'
BY DEF ConnInv, Queued, Runs

\* A step that finds no job and leaves none.
LEMMA ConnEmpty ==
    ASSUME jobs' = << >>, \A t \in Threads : state'[t] # "run",
           \A c \in Conns : conn'[c] # "accepted"
    PROVE  ConnInv'
BY DEF ConnInv, Queued, Runs

LEMMA NothingAccepted ==
    ASSUME ConnInv, jobs = << >>, \A t \in Threads : state[t] # "run"
    PROVE  \A c \in Conns : conn[c] # "accepted"
BY DEF ConnInv, Queued, Runs

LEMMA JoinedEmpty ==
    ASSUME PoolInv, Joined
    PROVE  jobs = << >> /\ \A t \in Threads : state[t] # "run"
BY ThreadsAssumption DEF PoolInv, Joined

LEMMA ConnAccept ==
    ASSUME TypeOK, ConnInv, NEW c \in Conns, Accept(c)
    PROVE  ConnInv'
<1>1. /\ jobs \in Seq(Conns) /\ jobs' = Append(jobs, c) /\ UNCHANGED fn
      /\ conn[c] = "new" /\ conn' = [conn EXCEPT ![c] = "accepted"]
      /\ \A t \in Threads : state'[t] = "run" <=> state[t] = "run"
  BY DEF Accept, Enqueue, Enters, TypeOK
<1>2. ~Queued(c) /\ \A t \in Threads : ~Runs(t, c)
  BY <1>1 DEF ConnInv
<1>3. \A t \in Threads, d \in Conns : Runs(t, d)' <=> Runs(t, d)
  BY <1>1 DEF Runs
<1>4. \A d \in Conns : conn'[d] = "accepted" <=> conn[d] = "accepted" \/ d = c
  BY <1>1 DEF TypeOK
<1>5. /\ \A d \in Conns : Queued(d)' <=> Queued(d) \/ d = c
      /\ \A i, j \in 1 .. Len(jobs') : jobs'[i] = jobs'[j] => i = j
  BY <1>1, <1>2, AppendQueued DEF ConnInv
<1> QED
  BY <1>1, <1>2, <1>3, <1>4, <1>5 DEF ConnInv

LEMMA ConnTake ==
    ASSUME TypeOK, ConnInv, NEW t \in Threads, TakeConn(t)
    PROVE  ConnInv'
<1>1. PICK c \in Conns : c = Head(jobs)
  BY QueueTypes DEF TakeConn, Take, TypeOK
<1>2. /\ jobs \in Seq(Conns) /\ jobs # << >> /\ jobs' = Tail(jobs) /\ UNCHANGED conn
      /\ state[t] = "check" /\ state' = [state EXCEPT ![t] = "run"]
      /\ fn' = [fn EXCEPT ![t] = c]
  BY <1>1 DEF TakeConn, Take, Enters, TypeOK
<1>3. /\ \A d \in Conns : Queued(d) <=> Queued(d)' \/ d = c
      /\ ~Queued(c)'
      /\ \A i, j \in 1 .. Len(jobs') : jobs'[i] = jobs'[j] => i = j
  BY <1>1, <1>2, TailQueued DEF ConnInv
<1>4. /\ \A u \in Threads, d \in Conns : Runs(u, d)' <=> Runs(u, d) \/ (u = t /\ d = c)
      /\ \A d \in Conns : ~Runs(t, d)
  BY <1>2 DEF Runs, TypeOK
<1>5. \A u \in Threads : state'[u] = "run" => fn'[u] \in Conns
  BY <1>2 DEF ConnInv, TypeOK
<1>6. \A u \in Threads : ~Runs(u, c)
  BY <1>3 DEF ConnInv
<1> QED
  BY <1>2, <1>3, <1>4, <1>5, <1>6 DEF ConnInv

LEMMA ConnClose ==
    ASSUME TypeOK, ConnInv, NEW t \in Threads, CloseConn(t)
    PROVE  ConnInv' /\ conn[fn[t]] = "accepted" /\ fn[t] \in Conns
<1>1. PICK c \in Conns : c = fn[t]
  BY DEF CloseConn, Serving, ConnInv
<1>2. /\ UNCHANGED jobs /\ conn' = [conn EXCEPT ![c] = "closed"]
      /\ state[t] = "run" /\ state' = [state EXCEPT ![t] = "check"]
      /\ fn' = [fn EXCEPT ![t] = NoJob]
  BY <1>1 DEF CloseConn, Serving, Finish, Enters
<1>3. \A d \in Conns : Queued(d)' <=> Queued(d)
  BY <1>2 DEF Queued
<1>4. \A u \in Threads, d \in Conns : Runs(u, d)' <=> Runs(u, d) /\ u # t
  BY <1>2 DEF Runs, TypeOK
<1>5. Runs(t, c) /\ conn[c] = "accepted" /\ ~Queued(c)
  BY <1>1, <1>2 DEF Runs, ConnInv
<1>6. \A d \in Conns : conn'[d] = "accepted" <=> conn[d] = "accepted" /\ d # c
  BY <1>2 DEF TypeOK
<1>7. \A u \in Threads : state'[u] = "run" => fn'[u] \in Conns
  BY <1>2 DEF ConnInv, TypeOK
<1>8. \A u \in Threads : u # t => ~Runs(u, c)
  BY <1>5 DEF ConnInv
<1>9. \A d \in Conns : Runs(t, d) => d = c
  BY <1>1 DEF Runs
<1> QED
  BY <1>1, <1>2, <1>3, <1>4, <1>5, <1>6, <1>7, <1>8, <1>9 DEF ConnInv

LEMMA ConnStep == TypeOK /\ PoolInv /\ ConnInv /\ [Next]_vars => ConnInv'
<1> SUFFICES ASSUME TypeOK, PoolInv, ConnInv, [Next]_vars PROVE ConnInv'
  OBVIOUS
<1> USE DEF Step, Goto, GuiStep, Alive
<1>1. CASE Server
  <2>1. CASE StartPool
    <3>1. jobs = << >> /\ \A t \in Threads : state[t] # "run"
      BY <2>1 DEF StartPool, PoolInv, Running, Joined
    <3> QED
      BY <2>1, <3>1, NothingAccepted, ConnEmpty DEF StartPool, NewPool
  <2>2. CASE JoinPool
    BY <2>2, JoinedEmpty, NothingAccepted, ConnEmpty DEF JoinPool, DropPool
  <2>3. CASE Notify
    BY <2>3, ConnFrame DEF Notify, NotifyAll, TypeOK
  <2>4. CASE Create \/ Route \/ Bind \/ BindFails \/ SeeClosed \/ AcceptFails \/ RunAgain
    BY <2>4, ConnFrame
        DEF Create, Route, Bind, BindFails, SeeClosed, AcceptFails, SetShutdown, RunAgain
  <2> QED
    BY <1>1, <2>1, <2>2, <2>3, <2>4 DEF Server
<1>2. ASSUME NEW t \in Threads, Worker(t) \/ Wake(t) \/ CloseBox(t) PROVE ConnInv'
  <2>1. CASE Rest(t) \/ Wake(t)
    BY <2>1, ConnFrame DEF Rest, Wake, Sleep, Leave, WakeSpuriously, Enters, TypeOK
  <2>2. CASE Request(t) \/ EndPost(t) \/ CloseBox(t)
    BY <2>2, ConnFrame DEF Request, EndPost, CloseBox
  <2> QED
    BY <1>2, <2>1, <2>2, ConnTake, ConnClose DEF Worker
<1>3. CASE Crash
  <2>1. \A c \in Conns : conn'[c] # "accepted"
    BY <1>3 DEF Crash
  <2> QED
    BY <1>3, <2>1, ConnEmpty DEF Crash, DropPool
<1>4. CASE \/ Confirmed \/ Quit \/ Launch \/ UNCHANGED vars
           \/ (\E p \in Ports : ConfirmPort(p)) \/ (\E a \in Addrs : ConfirmRemote(a))
  BY <1>4, ConnFrame DEF Confirmed, StopServer, ResetServer, DestroyClient, InitClient, Quit,
                         Launch, ConfirmPort, ConfirmRemote, vars
<1> QED
  BY <1>1, <1>2, <1>3, <1>4, ConnAccept DEF Next

-----------------------------------------------------------------------------
(* Wake-ups *)

\* One more thread looks at the queue, or one less.
LEMMA LookingGrows ==
    ASSUME TypeOK, NEW t \in Threads, state[t] # "check", Enters(t, "check")
    PROVE  Cardinality(Looking') = Cardinality(Looking) + 1 /\ Cardinality(Looking) \in Nat
<1>1. Looking' = Looking \cup {t} /\ t \notin Looking
  BY DEF Enters, Looking, TypeOK
<1>2. IsFiniteSet(Looking)
  BY ThreadsAssumption, FS_Subset DEF Looking
<1> QED
  BY <1>1, <1>2, FS_AddElement, FS_CardinalityType

LEMMA LookingShrinks ==
    ASSUME TypeOK, NEW t \in Threads, NEW s, s # "check", state[t] = "check", Enters(t, s)
    PROVE  Cardinality(Looking') = Cardinality(Looking) - 1 /\ Cardinality(Looking) \in Nat
<1>1. Looking' = Looking \ {t} /\ t \in Looking
  BY DEF Enters, Looking, TypeOK
<1>2. IsFiniteSet(Looking)
  BY ThreadsAssumption, FS_Subset DEF Looking
<1> QED
  BY <1>1, <1>2, FS_RemoveElement, FS_CardinalityType

LEMMA LookingIsNat == Cardinality(Looking) \in Nat
BY ThreadsAssumption, FS_Subset, FS_CardinalityType DEF Looking

\* A step that leaves the queue and the threads of the pool alone.
LEMMA WakeFrame ==
    ASSUME EnoughAwake, UNCHANGED <<jobs, state>>
    PROVE  EnoughAwake'
<1>1. Looking' = Looking
  BY DEF Looking
<1> QED
  BY <1>1 DEF EnoughAwake

\* An empty queue needs no thread.
LEMMA WakeEmpty ==
    ASSUME jobs' = << >>
    PROVE  EnoughAwake'
<1>1. IsFiniteSet(Looking') /\ Len(jobs') = 0
  BY ThreadsAssumption, FS_Subset DEF Looking
<1>2. Cardinality(Looking') \in Nat
  BY <1>1, FS_CardinalityType
<1> QED
  BY <1>1, <1>2 DEF EnoughAwake

LEMMA WakeAccept ==
    ASSUME TypeOK, EnoughAwake, NEW c \in Conns, Accept(c)
    PROVE  EnoughAwake'
<1>1. Len(jobs) \in Nat /\ Len(jobs') = Len(jobs) + 1
  BY DEF Accept, Enqueue, TypeOK
<1>2. CASE \E t \in Threads : state[t] = "asleep" /\ Enters(t, "check")
  <2>1. PICK t \in Threads : state[t] = "asleep" /\ Enters(t, "check")
    BY <1>2
  <2>2. Len(jobs) <= Cardinality(Looking)
    BY <2>1 DEF EnoughAwake
  <2>3. Cardinality(Looking') = Cardinality(Looking) + 1 /\ Cardinality(Looking) \in Nat
    BY <2>1, LookingGrows
  <2> QED
    BY <1>1, <2>2, <2>3 DEF EnoughAwake
<1>3. CASE (\A t \in Threads : state[t] # "asleep") /\ UNCHANGED state
  BY <1>3 DEF EnoughAwake
<1> QED
  BY <1>2, <1>3 DEF Accept, Enqueue

LEMMA WakeWorker ==
    ASSUME TypeOK, EnoughAwake, NEW t \in Threads, Worker(t) \/ Wake(t) \/ CloseBox(t)
    PROVE  EnoughAwake'
<1>1. CASE TakeConn(t)
  <2>1. /\ state[t] = "check" /\ Enters(t, "run")
        /\ Len(jobs) \in Nat \ {0} /\ Len(jobs') = Len(jobs) - 1
    BY <1>1 DEF TakeConn, Take, TypeOK
  <2>2. Cardinality(Looking') = Cardinality(Looking) - 1 /\ Cardinality(Looking) \in Nat
    BY <2>1, LookingShrinks
  <2>3. \A u \in Threads : state'[u] = "asleep" => state[u] = "asleep"
    BY <2>1 DEF Enters, TypeOK
  <2> QED
    BY <2>1, <2>2, <2>3 DEF EnoughAwake
<1>2. CASE Rest(t)
  BY <1>2, WakeEmpty DEF Rest, Sleep, Leave
<1>3. CASE Wake(t) \/ CloseConn(t)
  <2>1. state[t] # "check" /\ Enters(t, "check") /\ UNCHANGED jobs
    BY <1>3 DEF Wake, WakeSpuriously, CloseConn, Finish
  <2>2. Cardinality(Looking') = Cardinality(Looking) + 1 /\ Cardinality(Looking) \in Nat
    BY <2>1, LookingGrows
  <2>3. \A u \in Threads : state'[u] = "asleep" => state[u] = "asleep"
    BY <2>1 DEF Enters, TypeOK
  <2>4. Len(jobs) \in Nat
    BY DEF TypeOK
  <2> QED
    BY <2>1, <2>2, <2>3, <2>4 DEF EnoughAwake
<1>4. CASE Request(t) \/ EndPost(t) \/ CloseBox(t)
  BY <1>4, WakeFrame DEF Request, EndPost, CloseBox
<1> QED
  BY <1>1, <1>2, <1>3, <1>4 DEF Worker

LEMMA WakeStep == TypeOK /\ EnoughAwake /\ [Next]_vars => EnoughAwake'
<1> SUFFICES ASSUME TypeOK, EnoughAwake, [Next]_vars PROVE EnoughAwake'
  OBVIOUS
<1>1. CASE Server
  <2>1. CASE StartPool \/ JoinPool
    BY <2>1, WakeEmpty DEF StartPool, NewPool, JoinPool, DropPool
  <2>2. CASE Notify
    BY <2>2 DEF Notify, NotifyAll, EnoughAwake
  <2>3. CASE Create \/ Route \/ Bind \/ BindFails \/ SeeClosed \/ AcceptFails \/ RunAgain
    BY <2>3, WakeFrame DEF Create, Route, Bind, BindFails, SeeClosed, AcceptFails, SetShutdown, RunAgain
  <2> QED
    BY <1>1, <2>1, <2>2, <2>3 DEF Server
<1>2. CASE Crash
  BY <1>2, WakeEmpty DEF Crash, DropPool
<1>3. CASE \/ Confirmed \/ Quit \/ Launch \/ UNCHANGED vars
           \/ (\E p \in Ports : ConfirmPort(p)) \/ (\E a \in Addrs : ConfirmRemote(a))
  BY <1>3, WakeFrame DEF Confirmed, StopServer, ResetServer, DestroyClient, InitClient, Quit,
                         Launch, ConfirmPort, ConfirmRemote, vars
<1> QED
  BY <1>1, <1>2, <1>3, WakeAccept, WakeWorker DEF Next

LEMMA JoinStep ==
    TypeOK /\ PoolInv /\ JoinFindsNoneAsleep /\ [Next]_vars => JoinFindsNoneAsleep'
<1> SUFFICES ASSUME TypeOK, PoolInv, JoinFindsNoneAsleep, [Next]_vars, pc' = "join",
                    NEW t \in Threads, state'[t] = "asleep"
             PROVE  FALSE
  BY DEF JoinFindsNoneAsleep
<1> USE DEF JoinFindsNoneAsleep, PoolInv, Step, Goto
<1>1. CASE Server
  <2>1. CASE Notify
    BY <2>1 DEF Notify, NotifyAll
  <2>2. CASE ~Notify
    BY <1>1, <2>2 DEF Server, Create, Route, Bind, BindFails, StartPool, SeeClosed, AcceptFails,
                      JoinPool, RunAgain
  <2> QED
    BY <2>1, <2>2
<1>2. ASSUME NEW c \in Conns, Accept(c) PROVE FALSE
  BY <1>2 DEF Accept
<1>3. ASSUME NEW u \in Threads, Worker(u) \/ Wake(u) \/ CloseBox(u) PROVE FALSE
  <2>1. UNCHANGED pc
    BY <1>3, PoolFrame
  <2>2. state[t] = "asleep"
    BY <1>3, <2>1 DEF Worker, TakeConn, Take, Rest, Sleep, Leave, Request, EndPost, CloseConn, Finish,
                Wake, WakeSpuriously, CloseBox, Enters, TypeOK
  <2> QED
    BY <2>1, <2>2
<1>4. CASE Crash \/ Launch
  BY <1>4 DEF Crash, Launch
<1>5. CASE \/ Confirmed \/ Quit \/ UNCHANGED vars
           \/ (\E p \in Ports : ConfirmPort(p)) \/ (\E a \in Addrs : ConfirmRemote(a))
  BY <1>5 DEF Confirmed, StopServer, ResetServer, DestroyClient, InitClient, Quit,
              ConfirmPort, ConfirmRemote, vars
<1> QED
  BY <1>1, <1>2, <1>3, <1>4, <1>5 DEF Next

\* One notification for each queued connection is enough: none waits while the
\* threads sleep.  And the one notification of shutdown() reaches every thread
\* that will ever need it.
THEOREM NoWakeUpLost == Spec => []WakeUpsSuffice
<1>1. Init => PoolInv /\ EnoughAwake /\ JoinFindsNoneAsleep
  BY DEF Init, NoPool, PoolInv, Running, Joined, EnoughAwake, JoinFindsNoneAsleep
<1>2. EnoughAwake /\ JoinFindsNoneAsleep => WakeUpsSuffice
  BY DEF WakeUpsSuffice
<1> QED
  BY <1>1, <1>2, TypeInit, TypeStep, PoolStep, WakeStep, JoinStep, PTL DEF Spec

-----------------------------------------------------------------------------
(* The configuration in use *)

LEMMA ConfigStep == TypeOK /\ DeathInv /\ ConfigInv /\ [Next]_vars => ConfigInv'
<1> SUFFICES ASSUME TypeOK, DeathInv, ConfigInv, [Next]_vars PROVE ConfigInv'
  OBVIOUS
<1> USE DEF ConfigInv, ConfigLags, Step, Goto, GuiStep, Alive, Running
<1>1. CASE Server
  BY <1>1 DEF Server, Create, Route, Bind, BindFails, StartPool, SeeClosed, AcceptFails,
              Notify, JoinPool, RunAgain
<1>2. CASE StopServer
  BY <1>2 DEF StopServer, DeathInv
<1>3. CASE ResetServer
  BY <1>3 DEF ResetServer
<1>4. CASE DestroyClient \/ InitClient \/ Quit
  BY <1>4 DEF DestroyClient, InitClient, Quit
<1>5. CASE (\E p \in Ports : ConfirmPort(p)) \/ (\E a \in Addrs : ConfirmRemote(a))
  BY <1>5 DEF ConfirmPort, ConfirmRemote
<1>6. CASE Crash \/ Launch
  BY <1>6 DEF Crash, Launch
<1>7. CASE \/ \E c \in Conns : Accept(c)
           \/ \E t \in Threads : Worker(t) \/ Wake(t) \/ CloseBox(t)
  BY <1>7, PoolFrame
<1>8. CASE UNCHANGED vars
  BY <1>8 DEF vars
<1> QED
  BY <1>1, <1>2, <1>3, <1>4, <1>5, <1>6, <1>7, <1>8 DEF Next, Confirmed

\* An old port or address is in use only while the confirmation of the new one
\* is being handled, or after a server was destroyed before it could be stopped.
THEOREM OldConfigurationLeaves == Spec => []ConfigLags
<1>1. Init => DeathInv /\ ConfigInv
  BY SavedAssumption, NamesAssumption DEF Init, DeathInv, ConfigInv, ConfigLags
<1>2. ConfigInv => ConfigLags
  BY DEF ConfigInv
<1> QED
  BY <1>1, <1>2, TypeInit, TypeStep, DeathStep, ConfigStep, PTL DEF Spec

-----------------------------------------------------------------------------
(* The properties of whole behaviours *)

Invariants == TypeOK /\ DeathInv /\ PoolInv /\ ConnInv

LEMMA InvariantsHold == Spec => []Invariants
<1>1. Init => PoolInv
  BY DEF Init, PoolInv, NoPool, Running, Joined
<1>2. Init => DeathInv
  BY SavedAssumption, NamesAssumption DEF Init, DeathInv
<1>3. Init => ConnInv
  BY DEF Init, NoPool, ConnInv, Queued, Runs
<1>4. Init => Invariants
  BY <1>1, <1>2, <1>3, TypeInit DEF Invariants
<1>5. Invariants /\ [Next]_vars => Invariants'
  BY TypeStep, DeathStep, PoolStep, ConnStep DEF Invariants
<1> QED
  BY <1>4, <1>5, PTL DEF Spec

\* No step but a crash ends the process.
LEMMA OnlyCrashKills ==
    ASSUME [Next]_vars, Alive, ~Alive'
    PROVE  NullUse \/ FreedUse
<1> USE DEF Alive, Step, Goto, GuiStep
<1>1. CASE Server
  BY <1>1 DEF Server, Create, Route, Bind, BindFails, StartPool, SeeClosed, AcceptFails,
              Notify, JoinPool, RunAgain
<1>2. CASE Confirmed \/ Quit
  BY <1>2 DEF Confirmed, StopServer, ResetServer, DestroyClient, InitClient, Quit
<1>3. CASE \/ \E c \in Conns : Accept(c)
           \/ \E t \in Threads : Worker(t) \/ Wake(t) \/ CloseBox(t)
  BY <1>3, PoolFrame
<1>4. CASE \/ (\E p \in Ports : ConfirmPort(p)) \/ (\E a \in Addrs : ConfirmRemote(a))
           \/ Crash \/ Launch \/ UNCHANGED vars
  BY <1>4 DEF ConfirmPort, ConfirmRemote, Crash, Launch, vars
<1> QED
  BY <1>1, <1>2, <1>3, <1>4 DEF Next

\* A process whose dialogs meet busy threads dies only in the windows named.
THEOREM DeathIsExplained == Spec => DeathExplained
<1> DEFINE Window == gui = "init" \/ unstopped \/ loose # {} \/ Leaving
<1>1. Invariants /\ [Next]_vars => [Alive /\ ~Alive' => Window]_vars
  <2> SUFFICES ASSUME Invariants, [Next]_vars, Alive, ~Alive' PROVE Window
    OBVIOUS
  <2>1. CASE NullUse
    BY <2>1 DEF NullUse, Invariants, DeathInv
  <2>2. CASE FreedUse
    <3>1. ASSUME NEW t \in Threads, Serving(t) PROVE Running
      BY <3>1 DEF Serving, Invariants, PoolInv, Joined
    <3> QED
      BY <2>2, <3>1 DEF FreedUse, Invariants, DeathInv, Running, Leaving
  <2> QED
    BY <2>1, <2>2, OnlyCrashKills
<1> QED
  BY <1>1, InvariantsHold, PTL DEF Spec, DeathExplained

\* A step that moves neither the server in or out of its loop nor a connection.
LEMMA ServiceStutter ==
    ASSUME UNCHANGED <<Running, conn>>
    PROVE  [Service!Next]_(Service!serviceVars)
BY DEF Service!serviceVars

LEMMA ServiceStep ==
    ASSUME Invariants, [Next]_vars
    PROVE  [Service!Next]_(Service!serviceVars)
<1> USE DEF Step, Goto, GuiStep, Alive
<1>1. CASE Server
  <2>1. CASE StartPool
    BY <2>1 DEF StartPool, Running, Service!Next, Service!GoUp
  <2>2. CASE JoinPool
    <3>1. \A c \in Conns : conn[c] # "accepted"
      BY <2>2, JoinedEmpty, NothingAccepted DEF JoinPool, Invariants
    <3> QED
      BY <2>2, <3>1 DEF JoinPool, Running, Service!Next, Service!GoDown
  <2>3. CASE \/ Create \/ Route \/ Bind \/ BindFails \/ SeeClosed \/ AcceptFails \/ Notify
             \/ RunAgain
    BY <2>3, ServiceStutter DEF Create, Route, Bind, BindFails, SeeClosed, AcceptFails, Notify,
                                RunAgain, Running
  <2> QED
    BY <1>1, <2>1, <2>2, <2>3 DEF Server
<1>2. ASSUME NEW c \in Conns, Accept(c) PROVE Service!Next
  BY <1>2, PoolFrame DEF Accept, serverVars, Running, Service!Next, Service!Accept
<1>3. ASSUME NEW t \in Threads, Worker(t) \/ Wake(t) \/ CloseBox(t)
      PROVE  [Service!Next]_(Service!serviceVars)
  <2>1. UNCHANGED pc
    BY <1>3, PoolFrame
  <2>2. CASE CloseConn(t)
    <3>1. PICK c \in Conns : c = fn[t]
      BY <2>2, ConnClose DEF Invariants
    <3>2. conn[c] = "accepted" /\ conn' = [conn EXCEPT ![c] = "closed"]
      BY <2>2, <3>1, ConnClose DEF Invariants, CloseConn
    <3>3. Running
      BY <2>2 DEF CloseConn, Serving, Invariants, PoolInv, Joined
    <3>4. Service!Close(c)
      BY <2>1, <3>2, <3>3 DEF Service!Close, Running
    <3> QED
      BY <3>4 DEF Service!Next
  <2>3. CASE ~CloseConn(t)
    <3>1. UNCHANGED conn
      BY <1>3, <2>3 DEF Worker, TakeConn, Rest, Request, EndPost, Wake, CloseBox
    <3> QED
      BY <2>1, <3>1, ServiceStutter DEF Running
  <2> QED
    BY <2>2, <2>3
<1>4. CASE Crash
  BY <1>4 DEF Crash, Running, Service!Next, Service!Die, Service!Lost
<1>5. CASE \/ Confirmed \/ Quit \/ Launch \/ UNCHANGED vars
           \/ (\E p \in Ports : ConfirmPort(p)) \/ (\E a \in Addrs : ConfirmRemote(a))
  BY <1>5, ServiceStutter DEF Confirmed, StopServer, ResetServer, DestroyClient, InitClient, Quit,
                              Launch, ConfirmPort, ConfirmRemote, vars, Running
<1> QED
  BY <1>1, <1>2, <1>3, <1>4, <1>5 DEF Next

\* The server thread, the pool and the dialogs together implement ConnService.
THEOREM LocalServerRefinesConnService == Spec => ImplementsConnService
<1>1. Init => Service!Init
  BY DEF Init, Service!Init, Running
<1>2. Invariants /\ [Next]_vars => [Service!Next]_(Service!serviceVars)
  BY ServiceStep
<1> QED
  BY <1>1, <1>2, InvariantsHold, PTL DEF Spec, ImplementsConnService, Service!Spec

\* So a server that is not running, stopped or dead, has no connection open.
THEOREM StoppedOwesNobody == Spec => []Service!NobodyWaits
<1>1. Init => Service!NobodyWaits
  BY DEF Init, Service!NobodyWaits
<1>2. Service!NobodyWaits /\ [Service!Next]_(Service!serviceVars) => Service!NobodyWaits'
  <2>. SUFFICES ASSUME Service!NobodyWaits, [Service!Next]_(Service!serviceVars)
                PROVE  Service!NobodyWaits'
    OBVIOUS
  <2>. USE DEF Service!NobodyWaits
  <2>1. ASSUME NEW c \in Conns, Service!Accept(c) \/ Service!Close(c) PROVE Service!NobodyWaits'
    BY <2>1 DEF Service!Accept, Service!Close
  <2>2. CASE Service!GoUp
    BY <2>2 DEF Service!GoUp
  <2>3. CASE Service!GoDown
    BY <2>3 DEF Service!GoDown
  <2>4. CASE Service!Die
    BY <2>4 DEF Service!Die, Service!Lost
  <2>5. CASE UNCHANGED Service!serviceVars
    BY <2>5 DEF Service!serviceVars
  <2>. QED BY <2>1, <2>2, <2>3, <2>4, <2>5 DEF Service!Next
<1>. QED
  BY <1>1, <1>2, LocalServerRefinesConnService, PTL
     DEF Spec, ImplementsConnService, Service!Spec
=============================================================================
