--------------------------- MODULE SingleInstance ---------------------------
(***************************************************************************)
(* How SingleApplication lets one process of the program run: every launch *)
(* goes through a shared memory block (InstancesInfo) with a checksum,     *)
(* guarded by the lock of QSharedMemory, and either becomes the primary    *)
(* instance or gives up.  The Unix branch is modelled: the block goes away *)
(* when the last process detaches, and survives a crash.  The lock is a    *)
(* mutex: create() is taken to leave a semaphore that is in use as it is.  *)
(* Secondary instances are not allowed (main.cpp takes the default).       *)
(***************************************************************************)
EXTENDS Naturals, FiniteSets

CONSTANTS
    Procs,          \* processes of the program
    Nobody,         \* no process
    MaxCrashes,     \* bound: crashes
    SlowCreator     \* TRUE: 5 s may pass between create() and lock()

ASSUME NobodyAssumption == Nobody \notin Procs
ASSUME CrashesAssumption == MaxCrashes \in Nat
ASSUME SlowAssumption == SlowCreator \in BOOLEAN

VARIABLES
    block,      \* InstancesInfo; exists says whether there is a segment
    attached,   \* processes attached to the segment
    lock,       \* holder of the memory lock, between two of its steps
    listener,   \* owner of the QLocalServer name
    pc,         \* where each process stands
    late,       \* time.elapsed() > 5000 in the checksum loop
    orphan,     \* history: the process was launched on the block of a dead primary
    crashes

vars == <<block, attached, lock, listener, pc, late, orphan, crashes>>

Steps == {"off", "probe", "probed", "create", "init", "attach", "check", "start",
          "checksum", "primary", "closing", "detach", "giveUp"}

Blocks == [exists : BOOLEAN, primary : BOOLEAN, primaryPid : Procs \cup {Nobody}, sound : BOOLEAN]

\* sound: the checksum field matches the contents.  A fresh segment is all
\* zeros, and the checksum of zeros is not zero.
NoBlock    == [exists |-> FALSE, primary |-> FALSE, primaryPid |-> Nobody, sound |-> FALSE]
FreshBlock == [NoBlock EXCEPT !.exists = TRUE]
EmptyBlock == [FreshBlock EXCEPT !.sound = TRUE]

Goto(p, to) == pc' = [pc EXCEPT ![p] = to]
Step(p, from, to) == pc[p] = from /\ Goto(p, to)
Free == lock = Nobody

Init ==
    /\ block = NoBlock /\ attached = {}
    /\ lock = Nobody /\ listener = Nobody
    /\ pc = [p \in Procs |-> "off"]
    /\ late = [p \in Procs |-> FALSE]
    /\ orphan = [p \in Procs |-> FALSE]
    /\ crashes = 0

\* The destructor of QSharedMemory: the last to detach removes the segment.
Detach(p) ==
    /\ attached' = attached \ {p}
    /\ block' = IF p \in attached /\ attached' = {} THEN NoBlock ELSE block

DeadPrimary == block.primary /\ pc[block.primaryPid] \notin {"checksum", "primary"}

Launch(p) ==
    /\ Step(p, "off", "probe")
    /\ late' = [late EXCEPT ![p] = FALSE]
    /\ orphan' = [orphan EXCEPT ![p] = DeadPrimary]
    /\ UNCHANGED <<block, attached, lock, listener, crashes>>

\* Attach and detach once, to be rid of the block of a crashed process.
Probe(p) ==
    /\ Step(p, "probe", "probed")
    /\ attached' = IF block.exists THEN attached \cup {p} ELSE attached
    /\ UNCHANGED <<block, lock, listener, late, orphan, crashes>>

Unprobe(p) ==
    /\ Step(p, "probed", "create")
    /\ Detach(p)
    /\ UNCHANGED <<lock, listener, late, orphan, crashes>>

Create(p) ==
    /\ \/ ~block.exists /\ Step(p, "create", "init") /\ block' = FreshBlock /\ attached' = {p}
       \/ block.exists /\ Step(p, "create", "attach") /\ UNCHANGED <<block, attached>>
    /\ UNCHANGED <<lock, listener, late, orphan, crashes>>

\* The creator's initializeMemoryBlock, in one hold of the lock.
InitializeBlock(p) ==
    /\ Step(p, "init", "check") /\ Free
    /\ block' = EmptyBlock
    /\ UNCHANGED <<attached, lock, listener, late, orphan, crashes>>

\* Mutant of Attach: a block that has gone is waited for.
AttachWaits(p) ==
    /\ block.exists /\ Step(p, "attach", "check")
    /\ attached' = attached \cup {p}
    /\ UNCHANGED <<block, lock, listener, late, orphan, crashes>>

\* The block may have gone since create() failed: the launch ends in failure.
Attach(p) ==
    /\ \/ block.exists /\ Step(p, "attach", "check") /\ attached' = attached \cup {p}
       \/ ~block.exists /\ Step(p, "attach", "off") /\ UNCHANGED attached
    /\ UNCHANGED <<block, lock, listener, late, orphan, crashes>>

\* Mutant of BecomePrimary: the lock is left before the primary is set up.
BecomePrimaryUnlocked(p) ==
    /\ Step(p, "check", "start") /\ Free
    /\ block.sound /\ ~block.primary
    /\ UNCHANGED <<block, attached, lock, listener, late, orphan, crashes>>

\* The loop leaves with the lock held once the checksum matches.
BecomePrimary(p) ==
    /\ Step(p, "check", "start") /\ Free
    /\ block.sound /\ ~block.primary
    /\ lock' = p
    /\ UNCHANGED <<block, attached, listener, late, orphan, crashes>>

YieldToPrimary(p) ==
    /\ Step(p, "check", "giveUp") /\ Free
    /\ block.sound /\ block.primary
    /\ UNCHANGED <<block, attached, lock, listener, late, orphan, crashes>>

\* After 5 s of bad checksums the waiting process writes the block anew.
Reinitialize(p) ==
    /\ pc[p] = "check" /\ Free /\ late[p] /\ ~block.sound
    /\ block' = EmptyBlock
    /\ UNCHANGED <<attached, lock, listener, pc, late, orphan, crashes>>

Timeout(p) ==
    /\ pc[p] = "check" /\ ~block.sound /\ ~late[p]
    /\ SlowCreator \/ \A q \in Procs : pc[q] # "init"
    /\ late' = [late EXCEPT ![p] = TRUE]
    /\ UNCHANGED <<block, attached, lock, listener, pc, orphan, crashes>>

\* startPrimary: take over the server's name, set the flag, then the checksum.
StartPrimary(p) ==
    /\ Step(p, "start", "checksum")
    /\ listener' = p
    /\ block' = [block EXCEPT !.primary = TRUE, !.primaryPid = p, !.sound = FALSE]
    /\ UNCHANGED <<attached, lock, late, orphan, crashes>>

\* Mutant of SealPrimary: the new checksum is not written.
StartWithoutChecksum(p) ==
    /\ Step(p, "checksum", "primary")
    /\ lock' = Nobody
    /\ UNCHANGED <<block, attached, listener, late, orphan, crashes>>

SealPrimary(p) ==
    /\ Step(p, "checksum", "primary")
    /\ block' = [block EXCEPT !.sound = TRUE]
    /\ lock' = Nobody
    /\ UNCHANGED <<attached, listener, late, orphan, crashes>>

\* connectToPrimary, then the destructor takes and leaves the lock and detaches.
GiveUp(p) ==
    /\ Step(p, "giveUp", "off") /\ Free
    /\ Detach(p)
    /\ UNCHANGED <<lock, listener, late, orphan, crashes>>

\* Mutant of Quit: the flag of the primary stays.
QuitKeepsRecord(p) ==
    /\ Step(p, "primary", "closing") /\ Free
    /\ lock' = p
    /\ listener' = IF listener = p THEN Nobody ELSE listener
    /\ block' = [block EXCEPT !.sound = FALSE]
    /\ UNCHANGED <<attached, late, orphan, crashes>>

\* The destructor of the primary: flag first, then the checksum, then detach.
Quit(p) ==
    /\ Step(p, "primary", "closing") /\ Free
    /\ lock' = p
    /\ listener' = IF listener = p THEN Nobody ELSE listener
    /\ block' = [block EXCEPT !.primary = FALSE, !.primaryPid = Nobody, !.sound = FALSE]
    /\ UNCHANGED <<attached, late, orphan, crashes>>

\* Mutant of SealQuit: the destructor keeps the lock.
QuitKeepsLock(p) ==
    /\ Step(p, "closing", "detach")
    /\ block' = [block EXCEPT !.sound = TRUE]
    /\ UNCHANGED <<attached, lock, listener, late, orphan, crashes>>

SealQuit(p) ==
    /\ Step(p, "closing", "detach")
    /\ block' = [block EXCEPT !.sound = TRUE]
    /\ lock' = Nobody
    /\ UNCHANGED <<attached, listener, late, orphan, crashes>>

Leave(p) ==
    /\ Step(p, "detach", "off")
    /\ Detach(p)
    /\ UNCHANGED <<lock, listener, late, orphan, crashes>>

\* The kernel detaches a dead process and undoes its semaphore, and nothing else.
Crash(p) ==
    /\ pc[p] # "off" /\ Goto(p, "off")
    /\ crashes < MaxCrashes /\ crashes' = crashes + 1
    /\ attached' = attached \ {p}
    /\ lock' = IF lock = p THEN Nobody ELSE lock
    /\ UNCHANGED <<block, listener, late, orphan>>

Starting(p) ==
    \/ Probe(p) \/ Unprobe(p) \/ Create(p) \/ InitializeBlock(p) \/ Attach(p)
    \/ BecomePrimary(p) \/ YieldToPrimary(p) \/ Reinitialize(p)
    \/ StartPrimary(p) \/ SealPrimary(p) \/ GiveUp(p)

Ending(p) == Quit(p) \/ SealQuit(p) \/ Leave(p)

Next == \E p \in Procs :
    Launch(p) \/ Starting(p) \/ Timeout(p) \/ Ending(p) \/ Crash(p)

Spec == Init /\ [][Next]_vars

\* A process runs, its 5 s pass, and the system semaphore behind the lock
\* serves every waiter, although others take it again and again (hence SF).
\* Nobody has to launch or quit the program.
Fairness == \A p \in Procs :
    /\ SF_vars(Starting(p)) /\ WF_vars(Timeout(p))
    /\ WF_vars(SealQuit(p) \/ Leave(p))

FairSpec == Spec /\ Fairness

-----------------------------------------------------------------------------
(* Properties *)

\* Every variable stays in its domain.
TypeOK ==
    /\ block \in Blocks
    /\ attached \subseteq Procs
    /\ lock \in Procs \cup {Nobody} /\ listener \in Procs \cup {Nobody}
    /\ pc \in [Procs -> Steps]
    /\ late \in [Procs -> BOOLEAN] /\ orphan \in [Procs -> BOOLEAN]
    /\ crashes \in Nat

\* While a primary runs, the block says so, in its name and with a good
\* checksum outside the lock, and the server's name is its own: however
\* launches, exits and crashes of others interleave.  So there is at most one.
LivePrimaryRecorded ==
    \A p \in Procs : pc[p] = "primary" =>
        /\ block.exists /\ p \in attached
        /\ block.primary /\ block.primaryPid = p /\ block.sound
        /\ listener = p

\* A bad checksum that nobody is about to repair was left by a crash: without
\* one, no launch ever waits out its 5 s.
TornOnlyByCrash ==
    block.exists /\ ~block.sound /\ Free =>
        crashes > 0 \/ \E p \in Procs : pc[p] = "init"

\* The lock is never left behind: its holder is in the middle of a change.
LockNotLost ==
    lock # Nobody => pc[lock] \in {"start", "checksum", "closing"}

\* Every launch becomes the primary or ends.
LaunchSettles == \A p \in Procs : pc[p] = "probe" ~> pc[p] \in {"primary", "off"}

(* The inductive invariant behind LivePrimaryRecorded *)

\* A process in the middle of a change holds the lock.
ChangerHoldsLock ==
    \A p \in Procs : pc[p] \in {"start", "checksum", "closing"} => lock = p

\* A process past create() keeps the segment alive.
BlockKept ==
    \A p \in Procs : pc[p] \in {"init", "check", "start", "checksum", "primary", "closing"} =>
        block.exists /\ p \in attached

\* What the next primary has seen, or written, is still in the block.
StarterSeesTruth ==
    \A p \in Procs :
        /\ pc[p] = "start" => block.sound /\ ~block.primary
        /\ pc[p] = "checksum" => block.primary /\ block.primaryPid = p /\ listener = p

\* Between create() and initializeMemoryBlock nobody else gets past the
\* checksum, nor has waited for 5 s.
CreatorAlone ==
    \A p \in Procs : pc[p] = "init" =>
        /\ ~block.sound
        /\ \A q \in Procs \ {p} :
             /\ pc[q] \notin {"init", "start", "checksum", "primary", "closing"}
             /\ pc[q] = "check" => ~late[q]

\* Nobody is late before the checksum loop.
LateOnlyInLoop ==
    \A p \in Procs : pc[p] \in {"probe", "probed", "create", "init", "attach"} => ~late[p]

RecordInv ==
    /\ ChangerHoldsLock /\ BlockKept /\ StarterSeesTruth
    /\ CreatorAlone /\ LateOnlyInLoop /\ LivePrimaryRecorded

(* The abstract specification *)

InOffice == {p \in Procs : pc[p] \in {"checksum", "primary"}}

Election == INSTANCE Election WITH
    leaders <- InOffice,
    ghost   <- block.primary /\ InOffice = {},
    yielded <- {p \in Procs : pc[p] = "giveUp"},
    deaths  <- crashes

\* Block, checksum and lock together behave as an Election: nobody becomes the
\* primary while there is one, nobody gives up unless there is one or one has
\* crashed, and only a crash leaves a record that bars the next launch.
ImplementsElection == Election!Spec

(* What the comments say, and the code does not do *)

\* "Successful creation means that no main process exists"
\* (singleapplication_p.cpp:150): a primary starts only while there is none.
StartMeansNoPrimary ==
    [][\A p \in Procs : pc[p] = "start" /\ pc'[p] = "checksum" =>
         \A q \in Procs : pc[q] # "primary"]_vars

\* "we make sure that the memory is deleted even after the process has crashed"
\* (singleapplication.cpp:60): a launch that began after the primary's death
\* does not give up to the dead primary's block.
CrashedBlockDeleted ==
    [][\A p \in Procs : pc[p] = "check" /\ pc'[p] = "giveUp" /\ orphan[p] => ~DeadPrimary]_vars
=============================================================================
