----------------------------- MODULE ThreadPool -----------------------------
(***************************************************************************)
(* The thread pool of httplib: a list of jobs, a flag and a condition      *)
(* variable under one mutex.  What a thread does in one hold of the mutex  *)
(* is one action; waiting on the condition variable may end spuriously.    *)
(***************************************************************************)
EXTENDS Sequences, FiniteSets

CONSTANTS
    Threads,    \* threads of a pool
    Jobs,       \* what can be queued
    NoJob       \* no job

ASSUME ThreadsAssumption == Threads # {} /\ IsFiniteSet(Threads)
ASSUME JobsAssumption == NoJob \notin Jobs

VARIABLES
    jobs,       \* jobs_
    shut,       \* shutdown_
    state,      \* where each thread stands: about to look, waiting, running a job, ended
    fn          \* the job a thread runs

poolVars == <<jobs, shut, state, fn>>

States == {"check", "asleep", "run", "gone"}

\* Before the first pool, and after shutdown() has joined one.
NoPool ==
    /\ jobs = << >> /\ shut = FALSE
    /\ state = [t \in Threads |-> "gone"] /\ fn = [t \in Threads |-> NoJob]

NewPool ==
    /\ jobs' = << >> /\ shut' = FALSE
    /\ state' = [t \in Threads |-> "check"] /\ fn' = [t \in Threads |-> NoJob]

DropPool ==
    /\ jobs' = << >> /\ shut' = FALSE
    /\ state' = [t \in Threads |-> "gone"] /\ fn' = [t \in Threads |-> NoJob]

Enters(t, s) == state' = [state EXCEPT ![t] = s]

\* Mutant of Enqueue: the waiting threads are not told.
EnqueueSilently(j) ==
    /\ jobs' = Append(jobs, j)
    /\ UNCHANGED <<shut, state, fn>>

\* enqueue: one waiting thread, if there is one, is told.
Enqueue(j) ==
    /\ jobs' = Append(jobs, j)
    /\ \/ \E t \in Threads : state[t] = "asleep" /\ Enters(t, "check")
       \/ (\A t \in Threads : state[t] # "asleep") /\ UNCHANGED state
    /\ UNCHANGED <<shut, fn>>

Sleep(t) ==
    /\ state[t] = "check" /\ jobs = << >> /\ ~shut
    /\ Enters(t, "asleep")
    /\ UNCHANGED <<jobs, shut, fn>>

\* A wait may end without a notification.
WakeSpuriously(t) ==
    /\ state[t] = "asleep" /\ Enters(t, "check")
    /\ UNCHANGED <<jobs, shut, fn>>

Take(t) ==
    /\ state[t] = "check" /\ jobs # << >>
    /\ Enters(t, "run")
    /\ fn' = [fn EXCEPT ![t] = Head(jobs)]
    /\ jobs' = Tail(jobs)
    /\ UNCHANGED shut

\* Mutant of Leave: the jobs still queued are left behind.
LeaveAtOnce(t) ==
    /\ state[t] = "check" /\ shut
    /\ Enters(t, "gone")
    /\ UNCHANGED <<jobs, shut, fn>>

\* A thread ends only when nothing is left to do.
Leave(t) ==
    /\ state[t] = "check" /\ shut /\ jobs = << >>
    /\ Enters(t, "gone")
    /\ UNCHANGED <<jobs, shut, fn>>

Finish(t) ==
    /\ state[t] = "run" /\ Enters(t, "check")
    /\ fn' = [fn EXCEPT ![t] = NoJob]
    /\ UNCHANGED <<jobs, shut>>

\* shutdown(): the flag under the mutex, the notification after it.
SetShutdown == shut' = TRUE /\ UNCHANGED <<jobs, state, fn>>

\* Mutant of NotifyAll: one waiting thread is told instead of all.
NotifyOne ==
    /\ \/ \E t \in Threads : state[t] = "asleep" /\ Enters(t, "check")
       \/ (\A t \in Threads : state[t] # "asleep") /\ UNCHANGED state
    /\ UNCHANGED <<jobs, shut, fn>>

NotifyAll ==
    /\ state' = [t \in Threads |-> IF state[t] = "asleep" THEN "check" ELSE state[t]]
    /\ UNCHANGED <<jobs, shut, fn>>

Joined == \A t \in Threads : state[t] = "gone"
=============================================================================
