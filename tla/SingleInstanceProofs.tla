----------------------- MODULE SingleInstanceProofs -----------------------
(***************************************************************************)
(* Proofs about SingleInstance and InitHandshake for every set of          *)
(* processes and any number of crashes.                                    *)
(***************************************************************************)
EXTENDS InitHandshake, TLAPS

LEMMA BlockTypes ==
    /\ NoBlock \in Blocks /\ FreshBlock \in Blocks /\ EmptyBlock \in Blocks
    /\ ~NoBlock.exists
    /\ FreshBlock.exists /\ ~FreshBlock.sound /\ ~FreshBlock.primary
    /\ EmptyBlock.exists /\ EmptyBlock.sound /\ ~EmptyBlock.primary
BY DEF NoBlock, FreshBlock, EmptyBlock, Blocks

LEMMA TypeInit == Init => TypeOK
BY BlockTypes DEF Init, TypeOK, Steps

LEMMA TypeStep == TypeOK /\ [Next]_vars => TypeOK'
<1>. SUFFICES ASSUME TypeOK, [Next]_vars PROVE TypeOK'
    OBVIOUS
<1>. USE BlockTypes DEF TypeOK, Steps, Step, Goto
<1>1. ASSUME NEW p \in Procs, Launch(p) PROVE TypeOK'
    BY <1>1 DEF Launch, DeadPrimary
<1>2. ASSUME NEW p \in Procs, Probe(p) PROVE TypeOK'
    BY <1>2 DEF Probe
<1>3. ASSUME NEW p \in Procs, Unprobe(p) PROVE TypeOK'
    BY <1>3 DEF Unprobe, Detach
<1>4. ASSUME NEW p \in Procs, Create(p) PROVE TypeOK'
    BY <1>4 DEF Create
<1>5. ASSUME NEW p \in Procs, InitializeBlock(p) PROVE TypeOK'
    BY <1>5 DEF InitializeBlock
<1>6. ASSUME NEW p \in Procs, Attach(p) PROVE TypeOK'
    BY <1>6 DEF Attach
<1>7. ASSUME NEW p \in Procs, BecomePrimary(p) PROVE TypeOK'
    BY <1>7 DEF BecomePrimary
<1>8. ASSUME NEW p \in Procs, YieldToPrimary(p) PROVE TypeOK'
    BY <1>8 DEF YieldToPrimary
<1>9. ASSUME NEW p \in Procs, Reinitialize(p) PROVE TypeOK'
    BY <1>9 DEF Reinitialize
<1>10. ASSUME NEW p \in Procs, StartPrimary(p) PROVE TypeOK'
    BY <1>10 DEF StartPrimary, Blocks
<1>11. ASSUME NEW p \in Procs, SealPrimary(p) PROVE TypeOK'
    BY <1>11 DEF SealPrimary, Blocks
<1>12. ASSUME NEW p \in Procs, GiveUp(p) PROVE TypeOK'
    BY <1>12 DEF GiveUp, Detach
<1>13. ASSUME NEW p \in Procs, Timeout(p) PROVE TypeOK'
    BY <1>13 DEF Timeout
<1>14. ASSUME NEW p \in Procs, Quit(p) PROVE TypeOK'
    BY <1>14 DEF Quit, Blocks
<1>15. ASSUME NEW p \in Procs, SealQuit(p) PROVE TypeOK'
    BY <1>15 DEF SealQuit, Blocks
<1>16. ASSUME NEW p \in Procs, Leave(p) PROVE TypeOK'
    BY <1>16 DEF Leave, Detach
<1>17. ASSUME NEW p \in Procs, Crash(p) PROVE TypeOK'
    BY <1>17 DEF Crash
<1>18. CASE UNCHANGED vars
    BY <1>18 DEF vars
<1>. QED
    BY <1>1, <1>2, <1>3, <1>4, <1>5, <1>6, <1>7, <1>8, <1>9, <1>10, <1>11, <1>12, <1>13, <1>14, <1>15, <1>16, <1>17, <1>18 DEF Next, Starting, Ending

\* Every variable stays in its domain.
THEOREM SingleInstanceTypeCorrect == Spec => []TypeOK
BY TypeInit, TypeStep, PTL DEF Spec

-----------------------------------------------------------------------------
(* The primary is recorded, unless a creator may stall for 5 s *)

LEMMA RecordInit == Init => RecordInv
BY DEF Init, RecordInv, ChangerHoldsLock, BlockKept, StarterSeesTruth, CreatorAlone, LateOnlyInLoop, LivePrimaryRecorded

LEMMA RecordStep ==
    ASSUME ~SlowCreator
    PROVE  TypeOK /\ RecordInv /\ [Next]_vars => RecordInv'
<1>. SUFFICES ASSUME TypeOK, RecordInv, [Next]_vars PROVE RecordInv'
    OBVIOUS
<1>. USE NobodyAssumption, BlockTypes DEF TypeOK, RecordInv, Step, Goto
<1>1. ASSUME NEW p \in Procs, Launch(p) PROVE RecordInv'
    <2>1. ChangerHoldsLock'
        BY <1>1 DEF Launch, ChangerHoldsLock
    <2>2. BlockKept'
        BY <1>1 DEF Launch, BlockKept
    <2>3. StarterSeesTruth'
        BY <1>1 DEF Launch, StarterSeesTruth, ChangerHoldsLock, BlockKept
    <2>4. CreatorAlone'
        BY <1>1 DEF Launch, CreatorAlone, BlockKept, LateOnlyInLoop
    <2>5. LateOnlyInLoop'
        BY <1>1 DEF Launch, LateOnlyInLoop
    <2>6. LivePrimaryRecorded'
        BY <1>1 DEF Launch, LivePrimaryRecorded, StarterSeesTruth, CreatorAlone, BlockKept, ChangerHoldsLock
    <2>. QED BY <2>1, <2>2, <2>3, <2>4, <2>5, <2>6
<1>2. ASSUME NEW p \in Procs, Probe(p) PROVE RecordInv'
    <2>1. ChangerHoldsLock'
        BY <1>2 DEF Probe, ChangerHoldsLock
    <2>2. BlockKept'
        BY <1>2 DEF Probe, BlockKept
    <2>3. StarterSeesTruth'
        BY <1>2 DEF Probe, StarterSeesTruth, ChangerHoldsLock, BlockKept
    <2>4. CreatorAlone'
        BY <1>2 DEF Probe, CreatorAlone, BlockKept, LateOnlyInLoop
    <2>5. LateOnlyInLoop'
        BY <1>2 DEF Probe, LateOnlyInLoop
    <2>6. LivePrimaryRecorded'
        BY <1>2 DEF Probe, LivePrimaryRecorded, StarterSeesTruth, CreatorAlone, BlockKept, ChangerHoldsLock
    <2>. QED BY <2>1, <2>2, <2>3, <2>4, <2>5, <2>6
<1>3. ASSUME NEW p \in Procs, Unprobe(p) PROVE RecordInv'
    <2>1. ChangerHoldsLock'
        BY <1>3 DEF Unprobe, Detach, ChangerHoldsLock
    <2>2. BlockKept'
        BY <1>3 DEF Unprobe, Detach, BlockKept
    <2>3. StarterSeesTruth'
        BY <1>3 DEF Unprobe, Detach, StarterSeesTruth, ChangerHoldsLock, BlockKept
    <2>4. CreatorAlone'
        BY <1>3 DEF Unprobe, Detach, CreatorAlone, BlockKept, LateOnlyInLoop
    <2>5. LateOnlyInLoop'
        BY <1>3 DEF Unprobe, Detach, LateOnlyInLoop
    <2>6. LivePrimaryRecorded'
        BY <1>3 DEF Unprobe, Detach, LivePrimaryRecorded, StarterSeesTruth, CreatorAlone, BlockKept, ChangerHoldsLock
    <2>. QED BY <2>1, <2>2, <2>3, <2>4, <2>5, <2>6
<1>4. ASSUME NEW p \in Procs, Create(p) PROVE RecordInv'
    <2>1. ChangerHoldsLock'
        BY <1>4 DEF Create, ChangerHoldsLock
    <2>2. BlockKept'
        BY <1>4 DEF Create, BlockKept
    <2>3. StarterSeesTruth'
        BY <1>4 DEF Create, StarterSeesTruth, ChangerHoldsLock, BlockKept
    <2>4. CreatorAlone'
        BY <1>4 DEF Create, CreatorAlone, BlockKept, LateOnlyInLoop
    <2>5. LateOnlyInLoop'
        BY <1>4 DEF Create, LateOnlyInLoop
    <2>6. LivePrimaryRecorded'
        BY <1>4 DEF Create, LivePrimaryRecorded, StarterSeesTruth, CreatorAlone, BlockKept, ChangerHoldsLock
    <2>. QED BY <2>1, <2>2, <2>3, <2>4, <2>5, <2>6
<1>5. ASSUME NEW p \in Procs, InitializeBlock(p) PROVE RecordInv'
    <2>1. ChangerHoldsLock'
        BY <1>5 DEF InitializeBlock, Free, ChangerHoldsLock
    <2>2. BlockKept'
        BY <1>5 DEF InitializeBlock, Free, BlockKept
    <2>3. StarterSeesTruth'
        BY <1>5 DEF InitializeBlock, Free, StarterSeesTruth, ChangerHoldsLock, BlockKept
    <2>4. CreatorAlone'
        BY <1>5 DEF InitializeBlock, Free, CreatorAlone, BlockKept, LateOnlyInLoop
    <2>5. LateOnlyInLoop'
        BY <1>5 DEF InitializeBlock, Free, LateOnlyInLoop
    <2>6. LivePrimaryRecorded'
        BY <1>5 DEF InitializeBlock, Free, LivePrimaryRecorded, StarterSeesTruth, CreatorAlone, BlockKept, ChangerHoldsLock
    <2>. QED BY <2>1, <2>2, <2>3, <2>4, <2>5, <2>6
<1>6. ASSUME NEW p \in Procs, Attach(p) PROVE RecordInv'
    <2>1. ChangerHoldsLock'
        BY <1>6 DEF Attach, ChangerHoldsLock
    <2>2. BlockKept'
        BY <1>6 DEF Attach, BlockKept
    <2>3. StarterSeesTruth'
        BY <1>6 DEF Attach, StarterSeesTruth, ChangerHoldsLock, BlockKept
    <2>4. CreatorAlone'
        BY <1>6 DEF Attach, CreatorAlone, BlockKept, LateOnlyInLoop
    <2>5. LateOnlyInLoop'
        BY <1>6 DEF Attach, LateOnlyInLoop
    <2>6. LivePrimaryRecorded'
        BY <1>6 DEF Attach, LivePrimaryRecorded, StarterSeesTruth, CreatorAlone, BlockKept, ChangerHoldsLock
    <2>. QED BY <2>1, <2>2, <2>3, <2>4, <2>5, <2>6
<1>7. ASSUME NEW p \in Procs, BecomePrimary(p) PROVE RecordInv'
    <2>1. ChangerHoldsLock'
        BY <1>7 DEF BecomePrimary, Free, ChangerHoldsLock
    <2>2. BlockKept'
        BY <1>7 DEF BecomePrimary, Free, BlockKept
    <2>3. StarterSeesTruth'
        BY <1>7 DEF BecomePrimary, Free, StarterSeesTruth, ChangerHoldsLock, BlockKept
    <2>4. CreatorAlone'
        BY <1>7 DEF BecomePrimary, Free, CreatorAlone, BlockKept, LateOnlyInLoop
    <2>5. LateOnlyInLoop'
        BY <1>7 DEF BecomePrimary, Free, LateOnlyInLoop
    <2>6. LivePrimaryRecorded'
        BY <1>7 DEF BecomePrimary, Free, LivePrimaryRecorded, StarterSeesTruth, CreatorAlone, BlockKept, ChangerHoldsLock
    <2>. QED BY <2>1, <2>2, <2>3, <2>4, <2>5, <2>6
<1>8. ASSUME NEW p \in Procs, YieldToPrimary(p) PROVE RecordInv'
    <2>1. ChangerHoldsLock'
        BY <1>8 DEF YieldToPrimary, Free, ChangerHoldsLock
    <2>2. BlockKept'
        BY <1>8 DEF YieldToPrimary, Free, BlockKept
    <2>3. StarterSeesTruth'
        BY <1>8 DEF YieldToPrimary, Free, StarterSeesTruth, ChangerHoldsLock, BlockKept
    <2>4. CreatorAlone'
        BY <1>8 DEF YieldToPrimary, Free, CreatorAlone, BlockKept, LateOnlyInLoop
    <2>5. LateOnlyInLoop'
        BY <1>8 DEF YieldToPrimary, Free, LateOnlyInLoop
    <2>6. LivePrimaryRecorded'
        BY <1>8 DEF YieldToPrimary, Free, LivePrimaryRecorded, StarterSeesTruth, CreatorAlone, BlockKept, ChangerHoldsLock
    <2>. QED BY <2>1, <2>2, <2>3, <2>4, <2>5, <2>6
<1>9. ASSUME NEW p \in Procs, Reinitialize(p) PROVE RecordInv'
    <2>1. ChangerHoldsLock'
        BY <1>9 DEF Reinitialize, Free, ChangerHoldsLock
    <2>2. BlockKept'
        BY <1>9 DEF Reinitialize, Free, BlockKept
    <2>3. StarterSeesTruth'
        BY <1>9 DEF Reinitialize, Free, StarterSeesTruth, ChangerHoldsLock, BlockKept
    <2>4. CreatorAlone'
        BY <1>9 DEF Reinitialize, Free, CreatorAlone, BlockKept, LateOnlyInLoop
    <2>5. LateOnlyInLoop'
        BY <1>9 DEF Reinitialize, Free, LateOnlyInLoop
    <2>6. LivePrimaryRecorded'
        BY <1>9 DEF Reinitialize, Free, LivePrimaryRecorded, StarterSeesTruth, CreatorAlone, BlockKept, ChangerHoldsLock
    <2>. QED BY <2>1, <2>2, <2>3, <2>4, <2>5, <2>6
<1>10. ASSUME NEW p \in Procs, StartPrimary(p) PROVE RecordInv'
    <2>1. ChangerHoldsLock'
        BY <1>10 DEF StartPrimary, Blocks, ChangerHoldsLock
    <2>2. BlockKept'
        BY <1>10 DEF StartPrimary, Blocks, BlockKept
    <2>3. StarterSeesTruth'
        BY <1>10 DEF StartPrimary, Blocks, StarterSeesTruth, ChangerHoldsLock, BlockKept
    <2>4. CreatorAlone'
        BY <1>10 DEF StartPrimary, Blocks, CreatorAlone, BlockKept, LateOnlyInLoop
    <2>5. LateOnlyInLoop'
        BY <1>10 DEF StartPrimary, Blocks, LateOnlyInLoop
    <2>6. LivePrimaryRecorded'
        BY <1>10 DEF StartPrimary, Blocks, LivePrimaryRecorded, StarterSeesTruth, CreatorAlone, BlockKept, ChangerHoldsLock
    <2>. QED BY <2>1, <2>2, <2>3, <2>4, <2>5, <2>6
<1>11. ASSUME NEW p \in Procs, SealPrimary(p) PROVE RecordInv'
    <2>1. ChangerHoldsLock'
        BY <1>11 DEF SealPrimary, Blocks, ChangerHoldsLock
    <2>2. BlockKept'
        BY <1>11 DEF SealPrimary, Blocks, BlockKept
    <2>3. StarterSeesTruth'
        BY <1>11 DEF SealPrimary, Blocks, StarterSeesTruth, ChangerHoldsLock, BlockKept
    <2>4. CreatorAlone'
        BY <1>11 DEF SealPrimary, Blocks, CreatorAlone, BlockKept, LateOnlyInLoop
    <2>5. LateOnlyInLoop'
        BY <1>11 DEF SealPrimary, Blocks, LateOnlyInLoop
    <2>6. LivePrimaryRecorded'
        BY <1>11 DEF SealPrimary, Blocks, LivePrimaryRecorded, StarterSeesTruth, CreatorAlone, BlockKept, ChangerHoldsLock
    <2>. QED BY <2>1, <2>2, <2>3, <2>4, <2>5, <2>6
<1>12. ASSUME NEW p \in Procs, GiveUp(p) PROVE RecordInv'
    <2>1. ChangerHoldsLock'
        BY <1>12 DEF GiveUp, Detach, Free, ChangerHoldsLock
    <2>2. BlockKept'
        BY <1>12 DEF GiveUp, Detach, Free, BlockKept
    <2>3. StarterSeesTruth'
        BY <1>12 DEF GiveUp, Detach, Free, StarterSeesTruth, ChangerHoldsLock, BlockKept
    <2>4. CreatorAlone'
        BY <1>12 DEF GiveUp, Detach, Free, CreatorAlone, BlockKept, LateOnlyInLoop
    <2>5. LateOnlyInLoop'
        BY <1>12 DEF GiveUp, Detach, Free, LateOnlyInLoop
    <2>6. LivePrimaryRecorded'
        BY <1>12 DEF GiveUp, Detach, Free, LivePrimaryRecorded, StarterSeesTruth, CreatorAlone, BlockKept, ChangerHoldsLock
    <2>. QED BY <2>1, <2>2, <2>3, <2>4, <2>5, <2>6
<1>13. ASSUME NEW p \in Procs, Timeout(p) PROVE RecordInv'
    <2>1. ChangerHoldsLock'
        BY <1>13 DEF Timeout, ChangerHoldsLock
    <2>2. BlockKept'
        BY <1>13 DEF Timeout, BlockKept
    <2>3. StarterSeesTruth'
        BY <1>13 DEF Timeout, StarterSeesTruth, ChangerHoldsLock, BlockKept
    <2>4. CreatorAlone'
        BY <1>13 DEF Timeout, CreatorAlone, BlockKept, LateOnlyInLoop
    <2>5. LateOnlyInLoop'
        BY <1>13 DEF Timeout, LateOnlyInLoop
    <2>6. LivePrimaryRecorded'
        BY <1>13 DEF Timeout, LivePrimaryRecorded, StarterSeesTruth, CreatorAlone, BlockKept, ChangerHoldsLock
    <2>. QED BY <2>1, <2>2, <2>3, <2>4, <2>5, <2>6
<1>14. ASSUME NEW p \in Procs, Quit(p) PROVE RecordInv'
    <2>1. ChangerHoldsLock'
        BY <1>14 DEF Quit, Blocks, Free, ChangerHoldsLock
    <2>2. BlockKept'
        BY <1>14 DEF Quit, Blocks, Free, BlockKept
    <2>3. StarterSeesTruth'
        BY <1>14 DEF Quit, Blocks, Free, StarterSeesTruth, ChangerHoldsLock, BlockKept
    <2>4. CreatorAlone'
        BY <1>14 DEF Quit, Blocks, Free, CreatorAlone, BlockKept, LateOnlyInLoop
    <2>5. LateOnlyInLoop'
        BY <1>14 DEF Quit, Blocks, Free, LateOnlyInLoop
    <2>6. LivePrimaryRecorded'
        BY <1>14 DEF Quit, Blocks, Free, LivePrimaryRecorded, StarterSeesTruth, CreatorAlone, BlockKept, ChangerHoldsLock
    <2>. QED BY <2>1, <2>2, <2>3, <2>4, <2>5, <2>6
<1>15. ASSUME NEW p \in Procs, SealQuit(p) PROVE RecordInv'
    <2>1. ChangerHoldsLock'
        BY <1>15 DEF SealQuit, Blocks, ChangerHoldsLock
    <2>2. BlockKept'
        BY <1>15 DEF SealQuit, Blocks, BlockKept
    <2>3. StarterSeesTruth'
        BY <1>15 DEF SealQuit, Blocks, StarterSeesTruth, ChangerHoldsLock, BlockKept
    <2>4. CreatorAlone'
        BY <1>15 DEF SealQuit, Blocks, CreatorAlone, BlockKept, LateOnlyInLoop
    <2>5. LateOnlyInLoop'
        BY <1>15 DEF SealQuit, Blocks, LateOnlyInLoop
    <2>6. LivePrimaryRecorded'
        BY <1>15 DEF SealQuit, Blocks, LivePrimaryRecorded, StarterSeesTruth, CreatorAlone, BlockKept, ChangerHoldsLock
    <2>. QED BY <2>1, <2>2, <2>3, <2>4, <2>5, <2>6
<1>16. ASSUME NEW p \in Procs, Leave(p) PROVE RecordInv'
    <2>1. ChangerHoldsLock'
        BY <1>16 DEF Leave, Detach, ChangerHoldsLock
    <2>2. BlockKept'
        BY <1>16 DEF Leave, Detach, BlockKept
    <2>3. StarterSeesTruth'
        BY <1>16 DEF Leave, Detach, StarterSeesTruth, ChangerHoldsLock, BlockKept
    <2>4. CreatorAlone'
        BY <1>16 DEF Leave, Detach, CreatorAlone, BlockKept, LateOnlyInLoop
    <2>5. LateOnlyInLoop'
        BY <1>16 DEF Leave, Detach, LateOnlyInLoop
    <2>6. LivePrimaryRecorded'
        BY <1>16 DEF Leave, Detach, LivePrimaryRecorded, StarterSeesTruth, CreatorAlone, BlockKept, ChangerHoldsLock
    <2>. QED BY <2>1, <2>2, <2>3, <2>4, <2>5, <2>6
<1>17. ASSUME NEW p \in Procs, Crash(p) PROVE RecordInv'
    <2>1. ChangerHoldsLock'
        BY <1>17 DEF Crash, ChangerHoldsLock
    <2>2. BlockKept'
        BY <1>17 DEF Crash, BlockKept
    <2>3. StarterSeesTruth'
        BY <1>17 DEF Crash, StarterSeesTruth, ChangerHoldsLock, BlockKept
    <2>4. CreatorAlone'
        BY <1>17 DEF Crash, CreatorAlone, BlockKept, LateOnlyInLoop
    <2>5. LateOnlyInLoop'
        BY <1>17 DEF Crash, LateOnlyInLoop
    <2>6. LivePrimaryRecorded'
        BY <1>17 DEF Crash, LivePrimaryRecorded, StarterSeesTruth, CreatorAlone, BlockKept, ChangerHoldsLock
    <2>. QED BY <2>1, <2>2, <2>3, <2>4, <2>5, <2>6
<1>18. CASE UNCHANGED vars
    BY <1>18 DEF vars, ChangerHoldsLock, BlockKept, StarterSeesTruth, CreatorAlone, LateOnlyInLoop, LivePrimaryRecorded
<1>. QED
    BY <1>1, <1>2, <1>3, <1>4, <1>5, <1>6, <1>7, <1>8, <1>9, <1>10, <1>11, <1>12, <1>13, <1>14, <1>15, <1>16, <1>17, <1>18 DEF Next, Starting, Ending

\* If no creator stalls, a running primary is the one the block names, whatever
\* the other processes do and whichever of them crash.
THEOREM LivePrimaryRecordedHolds ==
    ASSUME ~SlowCreator
    PROVE  Spec => []LivePrimaryRecorded
<1>1. TypeOK /\ RecordInv /\ [Next]_vars => RecordInv'
    BY RecordStep
<1>2. RecordInv => LivePrimaryRecorded
    BY DEF RecordInv
<1>. QED BY TypeInit, TypeStep, RecordInit, <1>1, <1>2, PTL DEF Spec

\* Hence there is never more than one primary.
THEOREM OnePrimary ==
    ASSUME ~SlowCreator
    PROVE  Spec => [](\A p, q \in Procs : pc[p] = "primary" /\ pc[q] = "primary" => p = q)
<1>1. LivePrimaryRecorded =>
        \A p, q \in Procs : pc[p] = "primary" /\ pc[q] = "primary" => p = q
    BY DEF LivePrimaryRecorded
<1>. QED BY LivePrimaryRecordedHolds, <1>1, PTL

-----------------------------------------------------------------------------
(* The protocol as an Election, unless a creator may stall for 5 s *)

GivingUp == {p \in Procs : pc[p] = "giveUp"}

\* A step that leaves the office alone and adds nobody to those who give up.
LEMMA ElectionQuiet ==
    ASSUME NEW p \in Procs, crashes' = crashes, InOffice' = InOffice,
           GivingUp' = GivingUp \ {p}, block'.primary = block.primary \/ block'.primary = FALSE
    PROVE  Election!Next
<1>1. (block.primary /\ InOffice = {})' \in {block.primary /\ InOffice = {}, FALSE}
    BY Zenon
<1>2. Election!Depart(p)
    BY <1>1 DEF Election!Depart, GivingUp
<1>. QED BY <1>2 DEF Election!Next

\* The one in office is the one in the block.
LEMMA OfficeRecorded ==
    TypeOK /\ RecordInv => \A p \in InOffice : block.primary /\ InOffice = {p} /\ block.exists
BY DEF TypeOK, RecordInv, InOffice, StarterSeesTruth, LivePrimaryRecorded, BlockKept

LEMMA ElectionStep ==
    ASSUME ~SlowCreator
    PROVE  TypeOK /\ RecordInv /\ [Next]_vars => [Election!Next]_(Election!electionVars)
<1>. SUFFICES ASSUME TypeOK, RecordInv, Next PROVE Election!Next
    BY DEF vars, Election!electionVars, InOffice
<1>0. TypeOK' /\ RecordInv'
    BY TypeStep, RecordStep
<1>a. pc \in [Procs -> Steps] /\ block.primary \in BOOLEAN
    BY DEF TypeOK, Blocks
<1>. DEFINE Quiet(p) == /\ crashes' = crashes /\ InOffice' = InOffice
                        /\ GivingUp' = GivingUp \ {p}
                        /\ block'.primary = block.primary \/ block'.primary = FALSE
<1>. USE BlockTypes DEF Step, Goto
<1>1. ASSUME NEW p \in Procs, Launch(p) PROVE Quiet(p)
    BY <1>1, <1>a DEF Launch, InOffice, GivingUp
<1>2. ASSUME NEW p \in Procs, Probe(p) PROVE Quiet(p)
    BY <1>2, <1>a DEF Probe, InOffice, GivingUp
<1>3. ASSUME NEW p \in Procs, Unprobe(p) PROVE Quiet(p)
    BY <1>3, <1>a DEF Unprobe, Detach, NoBlock, InOffice, GivingUp
<1>4. ASSUME NEW p \in Procs, Create(p) PROVE Quiet(p)
    BY <1>4, <1>a DEF Create, InOffice, GivingUp
<1>5. ASSUME NEW p \in Procs, InitializeBlock(p) PROVE Quiet(p)
    BY <1>5, <1>a DEF InitializeBlock, EmptyBlock, FreshBlock, NoBlock, InOffice, GivingUp
<1>6. ASSUME NEW p \in Procs, Attach(p) PROVE Quiet(p)
    BY <1>6, <1>a DEF Attach, InOffice, GivingUp
<1>7. ASSUME NEW p \in Procs, BecomePrimary(p) PROVE Quiet(p)
    BY <1>7, <1>a DEF BecomePrimary, InOffice, GivingUp
<1>9. ASSUME NEW p \in Procs, Reinitialize(p) PROVE Quiet(p)
    BY <1>9, <1>a DEF Reinitialize, EmptyBlock, FreshBlock, NoBlock, InOffice, GivingUp
<1>11. ASSUME NEW p \in Procs, SealPrimary(p) PROVE Quiet(p)
    BY <1>11, <1>a DEF SealPrimary, TypeOK, Blocks, InOffice, GivingUp
<1>12. ASSUME NEW p \in Procs, GiveUp(p) PROVE Quiet(p)
    BY <1>12, <1>a DEF GiveUp, Detach, NoBlock, InOffice, GivingUp
<1>13. ASSUME NEW p \in Procs, Timeout(p) PROVE Quiet(p)
    BY <1>13, <1>a DEF Timeout, InOffice, GivingUp
<1>15. ASSUME NEW p \in Procs, SealQuit(p) PROVE Quiet(p)
    BY <1>15, <1>a DEF SealQuit, TypeOK, Blocks, InOffice, GivingUp
<1>16. ASSUME NEW p \in Procs, Leave(p) PROVE Quiet(p)
    BY <1>16, <1>a DEF Leave, Detach, NoBlock, InOffice, GivingUp
<1>8. ASSUME NEW p \in Procs, YieldToPrimary(p) PROVE Election!Next
    <2>1. InOffice' = InOffice /\ GivingUp' = GivingUp \cup {p}
        BY <1>8, <1>a DEF YieldToPrimary, InOffice, GivingUp
    <2>2. Election!Yield(p)
        BY <1>8, <2>1 DEF YieldToPrimary, Election!Yield, GivingUp
    <2>. QED BY <2>2 DEF Election!Next
<1>10. ASSUME NEW p \in Procs, StartPrimary(p) PROVE Election!Next
    <2>1. ~block.primary
        BY <1>10 DEF StartPrimary, RecordInv, StarterSeesTruth
    <2>2. InOffice = {}
        BY <2>1, OfficeRecorded
    <2>3. GivingUp' = GivingUp /\ InOffice' = {p} /\ crashes' = crashes
        BY <1>10, <1>a, <2>2 DEF StartPrimary, InOffice, GivingUp
    <2>4. (block.primary /\ InOffice = {})' = (block.primary /\ InOffice = {})
        BY <2>1, <2>3
    <2>5. Election!Elect(p)
        BY <2>1, <2>2, <2>3, <2>4 DEF Election!Elect, GivingUp
    <2>. QED BY <2>5 DEF Election!Next
<1>14. ASSUME NEW p \in Procs, Quit(p) PROVE Election!Next
    <2>1. p \in InOffice
        BY <1>14 DEF Quit, InOffice
    <2>2. InOffice = {p}
        BY <2>1, OfficeRecorded
    <2>3. GivingUp' = GivingUp /\ InOffice' = {} /\ crashes' = crashes
        BY <1>14, <1>a, <2>2 DEF Quit, InOffice, GivingUp
    <2>4. ~block'.primary
        BY <1>14 DEF Quit, TypeOK, Blocks
    <2>5. (block.primary /\ InOffice = {})' = (block.primary /\ InOffice = {})
        BY <2>2, <2>4
    <2>6. Election!Resign(p)
        BY <2>2, <2>3, <2>5 DEF Election!Resign, GivingUp
    <2>. QED BY <2>6 DEF Election!Next
<1>17. ASSUME NEW p \in Procs, Crash(p) PROVE Election!Next
    <2>1. /\ GivingUp' = GivingUp \ {p} /\ InOffice' = InOffice \ {p}
          /\ crashes' = crashes + 1 /\ block' = block
        BY <1>17, <1>a DEF Crash, InOffice, GivingUp
    <2>2. InOffice = {p} => block.primary
        BY OfficeRecorded
    <2>3. (block.primary /\ InOffice = {})'
              = ((block.primary /\ InOffice = {}) \/ InOffice = {p})
        <3>1. InOffice' = {} <=> InOffice = {} \/ InOffice = {p}
            BY <2>1
        <3>. QED BY <2>1, <2>2, <3>1
    <2>4. Election!Die(p)
        BY <2>1, <2>3 DEF Election!Die, GivingUp
    <2>. QED BY <2>4 DEF Election!Next
<1>18. ASSUME NEW p \in Procs, Quiet(p) PROVE Election!Next
    BY <1>18, ElectionQuiet
<1>. HIDE DEF Quiet
<1>. QED
    BY <1>1, <1>2, <1>3, <1>4, <1>5, <1>6, <1>7, <1>8, <1>9, <1>10, <1>11, <1>12, <1>13, <1>14,
       <1>15, <1>16, <1>17, <1>18 DEF Next, Starting, Ending

\* Block, checksum and lock together behave as an Election: a launch becomes the
\* primary only while there is none and no dead one is on record, and it gives up
\* only to one that runs or to one that has crashed.
THEOREM SingleInstanceIsElection ==
    ASSUME ~SlowCreator PROVE Spec => ImplementsElection
<1>1. Init => Election!Init
    BY DEF Init, NoBlock, InOffice, Election!Init
<1>. QED BY <1>1, TypeInit, TypeStep, RecordInit, RecordStep, ElectionStep, PTL
         DEF Spec, ImplementsElection, Election!Spec

\* So there is one process in office at most, from the flag in the block to the
\* end of its run, and a record of a primary that does not run takes a crash.
THEOREM OneInOffice ==
    ASSUME ~SlowCreator PROVE Spec => []Election!OneLeader
<1>1. Init => Election!OneLeader
    BY DEF Init, NoBlock, InOffice, Election!OneLeader
<1>2. TypeOK /\ Election!OneLeader /\ [Election!Next]_(Election!electionVars)
          => Election!OneLeader'
    <2>. SUFFICES ASSUME crashes \in Nat, Election!OneLeader,
                         [Election!Next]_(Election!electionVars)
                  PROVE  Election!OneLeader'
        BY DEF TypeOK
    <2>1. ASSUME NEW p \in Procs, Election!Elect(p) PROVE Election!OneLeader'
        BY <2>1 DEF Election!Elect, Election!OneLeader
    <2>2. ASSUME NEW p \in Procs, Election!Resign(p) PROVE Election!OneLeader'
        BY <2>2 DEF Election!Resign, Election!OneLeader
    <2>3. ASSUME NEW p \in Procs, Election!Yield(p) PROVE Election!OneLeader'
        BY <2>3 DEF Election!Yield, Election!OneLeader
    <2>4. ASSUME NEW p \in Procs, Election!Depart(p) PROVE Election!OneLeader'
        BY <2>4 DEF Election!Depart, Election!OneLeader
    <2>5. ASSUME NEW p \in Procs, Election!Die(p) PROVE Election!OneLeader'
        BY <2>5 DEF Election!Die, Election!OneLeader
    <2>6. CASE UNCHANGED Election!electionVars
        BY <2>6 DEF Election!electionVars, Election!OneLeader
    <2>. QED BY <2>1, <2>2, <2>3, <2>4, <2>5, <2>6 DEF Election!Next
<1>. QED BY <1>1, <1>2, TypeInit, TypeStep, SingleInstanceIsElection, PTL
         DEF Spec, ImplementsElection, Election!Spec

\* The comment at create() is right of every creator that does not stall: a
\* primary starts only while there is none.
THEOREM StartMeansNoPrimaryHolds ==
    ASSUME ~SlowCreator PROVE Spec => StartMeansNoPrimary
<1>. DEFINE Start(p) == pc[p] = "start" /\ pc'[p] = "checksum" => \A q \in Procs : pc[q] # "primary"
<1>1. RecordInv => [\A p \in Procs : Start(p)]_vars
    <2>. SUFFICES ASSUME RecordInv, NEW p \in Procs, pc[p] = "start", NEW q \in Procs, pc[q] = "primary"
                  PROVE  FALSE
        OBVIOUS
    <2>1. ~block.primary
        BY DEF RecordInv, StarterSeesTruth
    <2>2. block.primary
        BY DEF RecordInv, LivePrimaryRecorded
    <2>. QED BY <2>1, <2>2
<1>. QED BY <1>1, TypeInit, TypeStep, RecordInit, RecordStep, PTL DEF Spec, StartMeansNoPrimary

-----------------------------------------------------------------------------
(* The lock and the checksum, without any assumption about slow creators *)

LEMMA LockStep == TypeOK /\ LockNotLost /\ ChangerHoldsLock /\ [Next]_vars =>
                  (LockNotLost /\ ChangerHoldsLock)'
<1>. SUFFICES ASSUME TypeOK, LockNotLost, ChangerHoldsLock, [Next]_vars
              PROVE  (LockNotLost /\ ChangerHoldsLock)'
    OBVIOUS
<1>. USE NobodyAssumption DEF TypeOK, LockNotLost, ChangerHoldsLock, Step, Goto
<1>1. ASSUME NEW p \in Procs, Launch(p) PROVE (LockNotLost /\ ChangerHoldsLock)'
    BY <1>1 DEF Launch
<1>2. ASSUME NEW p \in Procs, Probe(p) PROVE (LockNotLost /\ ChangerHoldsLock)'
    BY <1>2 DEF Probe
<1>3. ASSUME NEW p \in Procs, Unprobe(p) PROVE (LockNotLost /\ ChangerHoldsLock)'
    BY <1>3 DEF Unprobe, Detach
<1>4. ASSUME NEW p \in Procs, Create(p) PROVE (LockNotLost /\ ChangerHoldsLock)'
    BY <1>4 DEF Create
<1>5. ASSUME NEW p \in Procs, InitializeBlock(p) PROVE (LockNotLost /\ ChangerHoldsLock)'
    BY <1>5 DEF InitializeBlock, Free
<1>6. ASSUME NEW p \in Procs, Attach(p) PROVE (LockNotLost /\ ChangerHoldsLock)'
    BY <1>6 DEF Attach
<1>7. ASSUME NEW p \in Procs, BecomePrimary(p) PROVE (LockNotLost /\ ChangerHoldsLock)'
    BY <1>7 DEF BecomePrimary, Free
<1>8. ASSUME NEW p \in Procs, YieldToPrimary(p) PROVE (LockNotLost /\ ChangerHoldsLock)'
    BY <1>8 DEF YieldToPrimary, Free
<1>9. ASSUME NEW p \in Procs, Reinitialize(p) PROVE (LockNotLost /\ ChangerHoldsLock)'
    BY <1>9 DEF Reinitialize, Free
<1>10. ASSUME NEW p \in Procs, StartPrimary(p) PROVE (LockNotLost /\ ChangerHoldsLock)'
    BY <1>10 DEF StartPrimary
<1>11. ASSUME NEW p \in Procs, SealPrimary(p) PROVE (LockNotLost /\ ChangerHoldsLock)'
    BY <1>11 DEF SealPrimary
<1>12. ASSUME NEW p \in Procs, GiveUp(p) PROVE (LockNotLost /\ ChangerHoldsLock)'
    BY <1>12 DEF GiveUp, Detach, Free
<1>13. ASSUME NEW p \in Procs, Timeout(p) PROVE (LockNotLost /\ ChangerHoldsLock)'
    BY <1>13 DEF Timeout
<1>14. ASSUME NEW p \in Procs, Quit(p) PROVE (LockNotLost /\ ChangerHoldsLock)'
    BY <1>14 DEF Quit, Free
<1>15. ASSUME NEW p \in Procs, SealQuit(p) PROVE (LockNotLost /\ ChangerHoldsLock)'
    BY <1>15 DEF SealQuit
<1>16. ASSUME NEW p \in Procs, Leave(p) PROVE (LockNotLost /\ ChangerHoldsLock)'
    BY <1>16 DEF Leave, Detach
<1>17. ASSUME NEW p \in Procs, Crash(p) PROVE (LockNotLost /\ ChangerHoldsLock)'
    BY <1>17 DEF Crash
<1>18. CASE UNCHANGED vars
    BY <1>18 DEF vars
<1>. QED
    BY <1>1, <1>2, <1>3, <1>4, <1>5, <1>6, <1>7, <1>8, <1>9, <1>10, <1>11, <1>12, <1>13, <1>14, <1>15, <1>16, <1>17, <1>18 DEF Next, Starting, Ending

\* The memory lock is never left behind, however processes end: its holder is
\* in the middle of a change.
THEOREM LockNotLostHolds == Spec => []LockNotLost
<1>1. Init => LockNotLost /\ ChangerHoldsLock
    BY DEF Init, LockNotLost, ChangerHoldsLock
<1>. QED BY TypeInit, TypeStep, LockStep, <1>1, PTL DEF Spec

\* Until the first crash a bad checksum belongs to somebody about to write it.
TornIsWork ==
    crashes = 0 /\ block.exists /\ ~block.sound =>
        \E p \in Procs : pc[p] \in {"init", "checksum", "closing"}

LEMMA TornStep == TypeOK /\ TornIsWork /\ [Next]_vars => TornIsWork'
<1>. SUFFICES ASSUME TypeOK, TornIsWork, [Next]_vars PROVE TornIsWork'
    OBVIOUS
<1>. USE BlockTypes DEF TypeOK, TornIsWork, Blocks, Step, Goto
<1>1. ASSUME NEW p \in Procs, Launch(p) PROVE TornIsWork'
    BY <1>1 DEF Launch
<1>2. ASSUME NEW p \in Procs, Probe(p) PROVE TornIsWork'
    BY <1>2 DEF Probe
<1>3. ASSUME NEW p \in Procs, Unprobe(p) PROVE TornIsWork'
    BY <1>3 DEF Unprobe, Detach
<1>4. ASSUME NEW p \in Procs, Create(p) PROVE TornIsWork'
    BY <1>4 DEF Create
<1>5. ASSUME NEW p \in Procs, InitializeBlock(p) PROVE TornIsWork'
    BY <1>5 DEF InitializeBlock, Free
<1>6. ASSUME NEW p \in Procs, Attach(p) PROVE TornIsWork'
    BY <1>6 DEF Attach
<1>7. ASSUME NEW p \in Procs, BecomePrimary(p) PROVE TornIsWork'
    BY <1>7 DEF BecomePrimary, Free
<1>8. ASSUME NEW p \in Procs, YieldToPrimary(p) PROVE TornIsWork'
    BY <1>8 DEF YieldToPrimary, Free
<1>9. ASSUME NEW p \in Procs, Reinitialize(p) PROVE TornIsWork'
    BY <1>9 DEF Reinitialize, Free
<1>10. ASSUME NEW p \in Procs, StartPrimary(p) PROVE TornIsWork'
    BY <1>10 DEF StartPrimary
<1>11. ASSUME NEW p \in Procs, SealPrimary(p) PROVE TornIsWork'
    BY <1>11 DEF SealPrimary
<1>12. ASSUME NEW p \in Procs, GiveUp(p) PROVE TornIsWork'
    BY <1>12 DEF GiveUp, Detach, Free
<1>13. ASSUME NEW p \in Procs, Timeout(p) PROVE TornIsWork'
    BY <1>13 DEF Timeout
<1>14. ASSUME NEW p \in Procs, Quit(p) PROVE TornIsWork'
    BY <1>14 DEF Quit, Free
<1>15. ASSUME NEW p \in Procs, SealQuit(p) PROVE TornIsWork'
    BY <1>15 DEF SealQuit
<1>16. ASSUME NEW p \in Procs, Leave(p) PROVE TornIsWork'
    BY <1>16 DEF Leave, Detach
<1>17. ASSUME NEW p \in Procs, Crash(p) PROVE TornIsWork'
    BY <1>17 DEF Crash
<1>18. CASE UNCHANGED vars
    BY <1>18 DEF vars
<1>. QED
    BY <1>1, <1>2, <1>3, <1>4, <1>5, <1>6, <1>7, <1>8, <1>9, <1>10, <1>11, <1>12, <1>13, <1>14, <1>15, <1>16, <1>17, <1>18 DEF Next, Starting, Ending

\* A bad checksum that nobody is about to repair was left by a crash.
THEOREM TornOnlyByCrashHolds == Spec => []TornOnlyByCrash
<1>1. Init => LockNotLost /\ ChangerHoldsLock /\ TornIsWork
    BY DEF Init, LockNotLost, ChangerHoldsLock, TornIsWork, NoBlock
<1>2. TypeOK /\ ChangerHoldsLock /\ TornIsWork => TornOnlyByCrash
    BY NobodyAssumption DEF TypeOK, ChangerHoldsLock, TornIsWork, TornOnlyByCrash, Free
<1>. QED BY TypeInit, TypeStep, LockStep, TornStep, <1>1, <1>2, PTL DEF Spec

-----------------------------------------------------------------------------
(* With the connections *)

LEMMA HandshakeStep == [HNext]_hvars => [Next]_vars
<1>. SUFFICES ASSUME [HNext]_hvars PROVE [Next]_vars
    OBVIOUS
<1>1. ASSUME NEW p \in Procs, HLaunch(p) PROVE Next
    BY <1>1 DEF HLaunch, Next
<1>2. ASSUME NEW p \in Procs, HStarting(p) PROVE [Next]_vars
    BY <1>2 DEF HStarting, Other, Connect, Send, HGiveUp, Next, Starting
<1>3. ASSUME NEW p \in Procs, HTimeout(p) PROVE Next
    BY <1>3 DEF HTimeout, Next
<1>4. ASSUME NEW p \in Procs, HEnding(p) PROVE Next
    BY <1>4 DEF HEnding, Next, Ending
<1>5. ASSUME NEW p \in Procs, HQuit(p) PROVE Next
    BY <1>5 DEF HQuit, Next, Ending
<1>6. ASSUME NEW p \in Procs, HCrash(p) PROVE Next
    BY <1>6 DEF HCrash, Next
<1>7. ASSUME NEW p \in Procs, NEW q \in Procs, EventLoop(q, p) PROVE UNCHANGED vars
    BY <1>7 DEF EventLoop, SlotConnectionEstablished, OnReadyRead, OnDisconnected
<1>8. CASE UNCHANGED hvars
    BY <1>8 DEF hvars
<1>. QED BY <1>1, <1>2, <1>3, <1>4, <1>5, <1>6, <1>7, <1>8 DEF HNext

\* The launch protocol with its connections behaves as the one without: what
\* is proved of SingleInstance holds of InitHandshake.
THEOREM HandshakeKeepsProtocol == HSpec => Spec
<1>1. HInit => Init
    BY DEF HInit
<1>. QED BY <1>1, HandshakeStep, PTL DEF HSpec, Spec

ConnType == [stage : Stages, to : Procs \cup {Nobody}, written : 0 .. Whole, unread : BOOLEAN]

LEMMA ConnTypes == NoConn \in ConnType /\ Lost \in ConnType
<1>1. 0 \in 0 .. Whole
    BY DEF Whole
<1>2. NoConn \in ConnType
    BY <1>1 DEF NoConn, ConnType, Stages
<1>3. Lost \in ConnType
    BY <1>2 DEF Lost, ConnType, Stages
<1>. QED BY <1>2, <1>3

LEMMA Connected ==
    ASSUME NEW p \in Procs, MakeConnection(p), listener \in Procs \cup {Nobody}
    PROVE  \E c \in ConnType : conn' = [conn EXCEPT ![p] = c]
<1>1. [NoConn EXCEPT !.stage = "backlog", !.to = listener] \in ConnType
    BY ConnTypes DEF ConnType, Stages
<1>. QED BY <1>1, ConnTypes DEF MakeConnection

LEMMA HTypeStep == HTypeOK /\ [HNext]_hvars => HTypeOK'
<1>. SUFFICES ASSUME HTypeOK, [HNext]_hvars PROVE HTypeOK'
    OBVIOUS
<1>0. TypeOK'
    BY HandshakeStep, TypeStep DEF HTypeOK
<1>. DEFINE Idle == \A p \in Procs : conn[p] # NoConn => pc[p] \in {"giveUp", "off"}
<1>a. conn \in [Procs -> ConnType] /\ pc \in [Procs -> Steps] /\ Idle
    BY DEF HTypeOK, TypeOK, ConnType
<1>. SUFFICES conn' \in [Procs -> ConnType] /\ Idle'
    BY <1>0 DEF HTypeOK, ConnType
<1>. USE ConnTypes DEF Step, Goto
<1>1. ASSUME NEW p \in Procs, HLaunch(p) PROVE conn' \in [Procs -> ConnType] /\ Idle'
    BY <1>1, <1>a DEF HLaunch, Launch
<1>2. ASSUME NEW p \in Procs, Other(p) PROVE conn' \in [Procs -> ConnType] /\ Idle'
    <2>1. /\ conn' = conn /\ pc[p] \notin {"giveUp", "off"}
          /\ \A q \in Procs \ {p} : pc'[q] = pc[q]
        BY <1>2, <1>a DEF Other, Probe, Unprobe, Create, InitializeBlock, Attach, BecomePrimary,
           YieldToPrimary, Reinitialize, StartPrimary, SealPrimary
    <2>. QED BY <2>1, <1>a
<1>3. ASSUME NEW p \in Procs, Connect(p) PROVE conn' \in [Procs -> ConnType] /\ Idle'
    <2>1. PICK c \in ConnType : conn' = [conn EXCEPT ![p] = c]
        BY <1>3, Connected DEF Connect, HTypeOK, TypeOK
    <2>. QED BY <1>3, <2>1, <1>a DEF Connect, vars
<1>4. ASSUME NEW p \in Procs, Send(p) PROVE conn' \in [Procs -> ConnType] /\ Idle'
    <2>1. PICK n \in conn[p].written + 1 .. Whole :
              conn' = [conn EXCEPT ![p].written = n, ![p].unread = TRUE]
        BY <1>4 DEF Send
    <2>2. [conn[p] EXCEPT !.written = n, !.unread = TRUE] \in ConnType
        <3>1. conn[p] \in ConnType /\ n \in 0 .. Whole
            BY <1>a DEF ConnType, Whole
        <3>. QED BY <3>1 DEF ConnType
    <2>3. conn' = [conn EXCEPT ![p] = [conn[p] EXCEPT !.written = n, !.unread = TRUE]]
        BY <2>1, <1>a DEF ConnType
    <2>. QED BY <1>4, <2>2, <2>3, <1>a DEF Send, vars
<1>5. ASSUME NEW p \in Procs, HGiveUp(p) PROVE conn' \in [Procs -> ConnType] /\ Idle'
    BY <1>5, <1>a DEF HGiveUp, GiveUp
<1>6. ASSUME NEW p \in Procs, HTimeout(p) \/ HEnding(p)
      PROVE  conn' \in [Procs -> ConnType] /\ Idle'
    BY <1>6, <1>a DEF HTimeout, Timeout, HEnding, SealQuit, Leave
<1>7. ASSUME NEW p \in Procs, HQuit(p) \/ HCrash(p)
      PROVE  conn' \in [Procs -> ConnType] /\ Idle'
    <2>1. /\ conn' = [q \in Procs |-> IF conn[q].to = p THEN Lost ELSE conn[q]]
          /\ \A q \in Procs \ {p} : pc'[q] = pc[q]
          /\ pc'[p] = "off" \/ pc[p] = "primary"
        BY <1>7, <1>a DEF HQuit, HCrash, Quit, Crash, Cut
    <2>2. conn' \in [Procs -> ConnType]
        BY <2>1, <1>a
    <2>3. ASSUME NEW q \in Procs, conn'[q] # NoConn PROVE conn[q] # NoConn
        <3>1. NoConn.to = Nobody
            BY DEF NoConn
        <3>. QED BY <2>1, <2>3, <3>1, NobodyAssumption
    <2>. QED BY <2>1, <2>2, <2>3, <1>a
<1>8. ASSUME NEW p \in Procs, NEW q \in Procs, EventLoop(q, p)
      PROVE  conn' \in [Procs -> ConnType] /\ Idle'
    <2>. pc' = pc
        BY <1>8 DEF EventLoop, SlotConnectionEstablished, OnReadyRead, OnDisconnected, vars
    <2>0. pc[p] \in {"giveUp", "off"}
        <3>1. conn[p].to = q
            BY <1>8 DEF EventLoop, SlotConnectionEstablished, OnReadyRead, OnDisconnected, Serves
        <3>2. NoConn.to = Nobody
            BY DEF NoConn
        <3>. QED BY <3>1, <3>2, <1>a, NobodyAssumption
    <2>1. CASE SlotConnectionEstablished(q, p)
        <3>1. conn' = [conn EXCEPT ![p] = [conn[p] EXCEPT !.stage = "header"]]
            BY <2>1, <1>a DEF SlotConnectionEstablished
        <3>2. [conn[p] EXCEPT !.stage = "header"] \in ConnType
            BY <1>a DEF ConnType, Stages
        <3>. QED BY <2>0, <3>1, <3>2, <1>a
    <2>2. CASE OnReadyRead(q, p)
        <3>. DEFINE next(s) == [conn[p] EXCEPT !.stage = s, !.unread = FALSE]
        <3>1. conn[p] \in ConnType /\ conn[p].stage \in Stages
            BY <1>a DEF ConnType
        <3>2. /\ ReadInitMessageHeader(conn[p].written) \in Stages
              /\ ReadInitMessageBody(conn[p].written) \in Stages
            BY DEF ReadInitMessageHeader, ReadInitMessageBody, Stages
        <3>3. PICK s \in Stages : conn' = [conn EXCEPT ![p].stage = s, ![p].unread = FALSE]
            BY <2>2, <3>1, <3>2 DEF OnReadyRead
        <3>4. conn' = [conn EXCEPT ![p] = next(s)]
            BY <3>3, <1>a
        <3>5. next(s) \in ConnType
            BY <3>1 DEF ConnType
        <3>. HIDE DEF next
        <3>. QED BY <2>0, <3>4, <3>5, <1>a
    <2>3. CASE OnDisconnected(q, p)
        BY <2>3, <2>0, <1>a DEF OnDisconnected
    <2>. QED BY <1>8, <2>1, <2>2, <2>3 DEF EventLoop
<1>9. CASE UNCHANGED hvars
    BY <1>9, <1>a DEF hvars, vars
<1>. QED BY <1>1, <1>2, <1>3, <1>4, <1>5, <1>6, <1>7, <1>8, <1>9 DEF HNext, HStarting

\* The variables of the handshake keep their domains, and a connection is
\* only ever held for a launch that gave up.
THEOREM HandshakeTypeCorrect == HSpec => []HTypeOK
<1>1. HInit => HTypeOK
    BY TypeInit, ConnTypes DEF HInit, HTypeOK, NoConn, ConnType
<1>. QED BY <1>1, HTypeStep, PTL DEF HSpec

-----------------------------------------------------------------------------
(* What has been read of a message *)

\* What a connection has read at each of its stages.
ReadOk(c) ==
    /\ c.to # Nobody <=> c.stage \notin {"none", "lost"}
    /\ c.stage \in {"none", "lost"} => c.written = 0 /\ ~c.unread
    /\ c.stage = "backlog" => c.written = 0 \/ c.unread
    /\ c.stage = "header" => c.written < Header \/ c.unread
    /\ c.stage = "body" => Header <= c.written /\ (c.written < Whole \/ c.unread)
    /\ c.stage = "connected" => c.written = Whole

ReadInv == \A p \in Procs : ReadOk(conn[p])

LEMMA ReadOkEnds == ReadOk(NoConn) /\ ReadOk(Lost)
BY DEF ReadOk, NoConn, Lost

LEMMA ReadOkSent ==
    ASSUME NEW c \in ConnType, ReadOk(c), c.to # Nobody, NEW n \in c.written + 1 .. Whole
    PROVE  ReadOk([c EXCEPT !.written = n, !.unread = TRUE])
<1>1. c.written \in 0 .. Whole /\ c.stage # "connected" /\ c.stage \notin {"none", "lost"}
    BY DEF ConnType, ReadOk, Whole
<1>2. c.stage = "body" => Header <= n
    BY <1>1 DEF ReadOk, Whole, Header
<1>. QED BY <1>1, <1>2 DEF ConnType, ReadOk

LEMMA ReadOkRead ==
    ASSUME NEW c \in ConnType, ReadOk(c), c.stage \notin {"none", "lost", "backlog"}, NEW s,
           s = CASE c.stage = "header" -> ReadInitMessageHeader(c.written)
                 [] c.stage = "body" -> ReadInitMessageBody(c.written)
                 [] OTHER -> c.stage
    PROVE  ReadOk([c EXCEPT !.stage = s, !.unread = FALSE])
<1>1. c.written \in 0 .. 4 /\ c.to # Nobody
    BY DEF ConnType, ReadOk, Whole
<1>2. c.stage \in {"header", "body", "connected"}
    BY DEF ConnType, Stages
<1>3. \/ s = "header" /\ c.written < Header
      \/ s = "body" /\ Header <= c.written /\ c.written < Whole
      \/ s = "connected" /\ c.written = Whole
    BY <1>1, <1>2 DEF ReadOk, ReadInitMessageHeader, ReadInitMessageBody, Header, Whole
<1>. QED BY <1>1, <1>3 DEF ConnType, ReadOk

LEMMA ConnTyped == HTypeOK => conn \in [Procs -> ConnType] /\ pc \in [Procs -> Steps]
BY DEF HTypeOK, TypeOK, ConnType

LEMMA ReadStep == HTypeOK /\ ReadInv /\ [HNext]_hvars => ReadInv'
<1>. SUFFICES ASSUME HTypeOK, ReadInv, [HNext]_hvars PROVE ReadInv'
    OBVIOUS
<1>a. conn \in [Procs -> ConnType]
    BY ConnTyped
<1>. USE ReadOkEnds DEF ReadInv
<1>1. ASSUME NEW p \in Procs, HLaunch(p) PROVE ReadInv'
    BY <1>1, <1>a DEF HLaunch
<1>2. ASSUME NEW p \in Procs, Other(p) PROVE ReadInv'
    BY <1>2 DEF Other
<1>3. ASSUME NEW p \in Procs, Connect(p) PROVE ReadInv'
    <2>1. ReadOk([NoConn EXCEPT !.stage = "backlog", !.to = listener]) \/ listener = Nobody
        BY DEF ReadOk, NoConn
    <2>2. PICK c : conn' = [conn EXCEPT ![p] = c] /\ ReadOk(c)
        BY <1>3, <2>1 DEF Connect, MakeConnection
    <2>. QED BY <2>2, <1>a
<1>4. ASSUME NEW p \in Procs, Send(p) PROVE ReadInv'
    <2>1. PICK n \in conn[p].written + 1 .. Whole :
              conn' = [conn EXCEPT ![p].written = n, ![p].unread = TRUE]
        BY <1>4 DEF Send
    <2>2. conn' = [conn EXCEPT ![p] = [conn[p] EXCEPT !.written = n, !.unread = TRUE]]
        BY <2>1, <1>a DEF ConnType
    <2>3. ReadOk([conn[p] EXCEPT !.written = n, !.unread = TRUE])
        BY <1>4, <1>a, ReadOkSent DEF Send, Open
    <2>. QED BY <2>2, <2>3, <1>a
<1>5. ASSUME NEW p \in Procs, HGiveUp(p) PROVE ReadInv'
    BY <1>5, <1>a DEF HGiveUp
<1>6. ASSUME NEW p \in Procs, HTimeout(p) \/ HEnding(p) PROVE ReadInv'
    BY <1>6 DEF HTimeout, HEnding
<1>7. ASSUME NEW p \in Procs, HQuit(p) \/ HCrash(p) PROVE ReadInv'
    BY <1>7, <1>a DEF HQuit, HCrash, Cut
<1>8. ASSUME NEW p \in Procs, NEW q \in Procs, EventLoop(q, p) PROVE ReadInv'
    <2>0. conn[p] \in ConnType /\ ReadOk(conn[p]) /\ conn[p].to # Nobody
        BY <1>8, <1>a, NobodyAssumption
           DEF EventLoop, SlotConnectionEstablished, OnReadyRead, OnDisconnected, Serves
    <2>1. CASE SlotConnectionEstablished(q, p)
        <3>1. conn' = [conn EXCEPT ![p] = [conn[p] EXCEPT !.stage = "header"]]
            BY <2>1, <1>a DEF SlotConnectionEstablished
        <3>2. ReadOk([conn[p] EXCEPT !.stage = "header"])
            BY <2>0, <2>1 DEF SlotConnectionEstablished, ReadOk, ConnType, Header
        <3>. QED BY <3>1, <3>2, <1>a
    <2>2. CASE OnReadyRead(q, p)
        <3>. DEFINE s == CASE conn[p].stage = "header" -> ReadInitMessageHeader(conn[p].written)
                           [] conn[p].stage = "body" -> ReadInitMessageBody(conn[p].written)
                           [] OTHER -> conn[p].stage
                    next == [conn[p] EXCEPT !.stage = s, !.unread = FALSE]
        <3>1. conn' = [conn EXCEPT ![p] = next]
            BY <2>2, <1>a DEF OnReadyRead
        <3>2. conn[p].stage \notin {"none", "lost", "backlog"}
            BY <2>0, <2>2 DEF OnReadyRead, ReadOk
        <3>3. ReadOk(next)
            BY <2>0, <3>2, ReadOkRead
        <3>. HIDE DEF next
        <3>. QED BY <3>1, <3>3, <1>a
    <2>3. CASE OnDisconnected(q, p)
        BY <2>3, <1>a DEF OnDisconnected
    <2>. QED BY <1>8, <2>1, <2>2, <2>3 DEF EventLoop
<1>9. CASE UNCHANGED hvars
    BY <1>9 DEF hvars
<1>. QED BY <1>1, <1>2, <1>3, <1>4, <1>5, <1>6, <1>7, <1>8, <1>9 DEF HNext, HStarting

LEMMA ReadHolds == HSpec => []ReadInv
<1>1. HInit => ReadInv
    BY ReadOkEnds DEF HInit, ReadInv
<1>. QED BY <1>1, HandshakeTypeCorrect, ReadStep, PTL DEF HSpec

\* Whatever the cuts, a complete header or body never waits for a readyRead that
\* has been and gone.
THEOREM NothingIsLeftUnread == HSpec => []NothingLeftUnread
<1>1. ReadInv => NothingLeftUnread
    BY DEF ReadInv, ReadOk, NothingLeftUnread
<1>. QED BY <1>1, ReadHolds, PTL

-----------------------------------------------------------------------------
(* Where the connections lead, unless a creator may stall for 5 s *)

LEMMA LeadsStep ==
    ASSUME ~SlowCreator
    PROVE  HTypeOK /\ RecordInv /\ LeadsToPrimary /\ [HNext]_hvars => LeadsToPrimary'
<1>. SUFFICES ASSUME HTypeOK, RecordInv, LeadsToPrimary, [HNext]_hvars PROVE LeadsToPrimary'
    OBVIOUS
<1>a. /\ conn \in [Procs -> ConnType] /\ pc \in [Procs -> Steps]
      /\ listener \in Procs \cup {Nobody}
    BY ConnTyped DEF HTypeOK, TypeOK
<1>b. NoConn.to = Nobody /\ Lost.to = Nobody
    BY DEF NoConn, Lost
<1>c. ASSUME NEW p \in Procs, Open(p)
      PROVE  listener \in InOffice
    BY <1>c, <1>a DEF LeadsToPrimary, Open, Listening, InOffice
<1>. USE <1>b DEF LeadsToPrimary, Listening, Open, Step, Goto
<1>1. ASSUME NEW p \in Procs, HLaunch(p) PROVE LeadsToPrimary'
    BY <1>1, <1>a DEF HLaunch, Launch
<1>2. ASSUME NEW p \in Procs, Other(p), ~StartPrimary(p) PROVE LeadsToPrimary'
    BY <1>2, <1>a DEF Other, Probe, Unprobe, Create, InitializeBlock, Attach, BecomePrimary,
       YieldToPrimary, Reinitialize, SealPrimary
<1>3. ASSUME NEW p \in Procs, StartPrimary(p), UNCHANGED conn PROVE LeadsToPrimary'
    <2>1. InOffice = {}
        BY <1>3, OfficeRecorded DEF StartPrimary, RecordInv, StarterSeesTruth, HTypeOK
    <2>2. \A q \in Procs : ~Open(q)
        BY <2>1, <1>c
    <2>. QED BY <1>3, <2>2
<1>4. ASSUME NEW p \in Procs, Connect(p) PROVE LeadsToPrimary'
    BY <1>4, <1>a DEF Connect, MakeConnection, NoConn, vars
<1>5. ASSUME NEW p \in Procs, Send(p) PROVE LeadsToPrimary'
    <2>1. PICK n : conn' = [conn EXCEPT ![p].written = n, ![p].unread = TRUE]
        BY <1>5 DEF Send
    <2>2. \A q \in Procs : conn'[q].to = conn[q].to
        BY <2>1, <1>a DEF ConnType
    <2>. QED BY <1>5, <2>2, <1>a DEF Send, vars
<1>6. ASSUME NEW p \in Procs, HGiveUp(p) PROVE LeadsToPrimary'
    BY <1>6, <1>a DEF HGiveUp, GiveUp
<1>7. ASSUME NEW p \in Procs, HTimeout(p) \/ HEnding(p) PROVE LeadsToPrimary'
    BY <1>7, <1>a DEF HTimeout, Timeout, HEnding, SealQuit, Leave
<1>8. ASSUME NEW p \in Procs, HQuit(p) PROVE LeadsToPrimary'
    <2>1. listener = p
        BY <1>8 DEF HQuit, Quit, RecordInv, LivePrimaryRecorded
    <2>2. \A q \in Procs : conn'[q].to = Nobody
        BY <1>8, <2>1, <1>a DEF HQuit, Cut
    <2>. QED BY <2>2
<1>9. ASSUME NEW p \in Procs, HCrash(p) PROVE LeadsToPrimary'
    BY <1>9, <1>a DEF HCrash, Crash, Cut
<1>10. ASSUME NEW p \in Procs, NEW q \in Procs, EventLoop(q, p) PROVE LeadsToPrimary'
    <2>1. pc' = pc /\ listener' = listener
        BY <1>10 DEF EventLoop, SlotConnectionEstablished, OnReadyRead, OnDisconnected, vars
    <2>2. \/ conn' = [conn EXCEPT ![p] = NoConn]
          \/ \E s : conn' = [conn EXCEPT ![p].stage = s]
          \/ \E s : conn' = [conn EXCEPT ![p].stage = s, ![p].unread = FALSE]
        BY <1>10 DEF EventLoop, SlotConnectionEstablished, OnReadyRead, OnDisconnected
    <2>3. \A r \in Procs : conn'[r] = NoConn \/ conn'[r].to = conn[r].to
        BY <2>2, <1>a DEF ConnType
    <2>. QED BY <2>1, <2>3
<1>11. CASE UNCHANGED hvars
    BY <1>11 DEF hvars, vars
<1>. QED BY <1>1, <1>2, <1>3, <1>4, <1>5, <1>6, <1>7, <1>8, <1>9, <1>10, <1>11
         DEF HNext, HStarting, Other

\* Every open connection leads to the primary, which owns the server's name.
THEOREM LeadsToPrimaryHolds ==
    ASSUME ~SlowCreator PROVE HSpec => []LeadsToPrimary
<1>1. HInit => LeadsToPrimary
    BY DEF HInit, NoConn, LeadsToPrimary, Open
<1>2. HTypeOK => TypeOK
    BY DEF HTypeOK
<1>3. HInit => RecordInv
    BY RecordInit DEF HInit
<1>. QED BY <1>1, <1>2, <1>3, HandshakeTypeCorrect, HandshakeStep, RecordStep, LeadsStep, PTL
         DEF HSpec

=============================================================================
