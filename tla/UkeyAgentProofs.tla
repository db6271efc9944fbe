-------------------------- MODULE UkeyAgentProofs --------------------------
(***************************************************************************)
(* What holds of UkeyAgent for any number of keys, workers, queued events, *)
(* typed PINs and insertions.                                              *)
(***************************************************************************)
EXTENDS UkeyAgent, TLAPS

USE DEF agentVars, dialogVars, boxVars, historyVars

Events == [type : {"insert", "extract", "judge"}, key : Keys \cup {NoKey}]

\* Where a device has been found, the default device is one.
FoundInv ==
    /\ visible \/ verify \/ Asking \/ gui = "apps" => dev \in Keys
    /\ gui \in {"look", "apps"} => look[Gui] \in Keys
    /\ verify => flagOf \in Keys
    /\ Asking => ~Boxed

Typed == TypeOK /\ FoundInv

-----------------------------------------------------------------------------
(* The queue *)

LEMMA EmptyQueue == << >> \in Seq(Events)
OBVIOUS

LEMMA QueueTypes ==
    ASSUME queue \in Seq(Events), queue # << >>
    PROVE  Head(queue) \in Events /\ Tail(queue) \in Seq(Events)
OBVIOUS

LEMMA LongerQueue ==
    ASSUME queue \in Seq(Events), NEW e \in Events
    PROVE  Append(queue, e) \in Seq(Events)
OBVIOUS

LEMMA PostTypes ==
    ASSUME queue \in Seq(Events), NEW e \in Events, Post(e)
    PROVE  queue' \in Seq(Events)
BY LongerQueue DEF Post

\* A posted event is queued, and so is what was queued before.
LEMMA PostKeeps ==
    ASSUME queue \in Seq(Events), NEW e \in Events, Post(e)
    PROVE  /\ \A k : RemovalQueued(k) => RemovalQueued(k)'
           /\ \A k : e = Event("extract", k) => RemovalQueued(k)'
<1>1. /\ queue' = Append(queue, e) /\ Len(queue) \in Nat
      /\ Len(queue') = Len(queue) + 1
      /\ \A i \in 1 .. Len(queue) : queue'[i] = queue[i]
      /\ queue'[Len(queue) + 1] = e
  BY DEF Post
<1>2. Len(queue) + 1 \in 1 .. Len(queue') /\ \A i \in 1 .. Len(queue) : i \in 1 .. Len(queue')
  BY <1>1
<1> QED
  BY <1>1, <1>2 DEF RemovalQueued

\* Only the event that is handled leaves the queue.
LEMMA HandledOnly ==
    ASSUME queue \in Seq(Events), NEW types, Handles(types), NEW k,
           RemovalQueued(k), Head(queue) # Event("extract", k)
    PROVE  RemovalQueued(k)'
<1>1. /\ Len(queue) \in Nat /\ queue' = Tail(queue) /\ Len(queue') = Len(queue) - 1
      /\ \A i \in 1 .. Len(queue') : queue'[i] = queue[i + 1]
      /\ Head(queue) = queue[1]
  BY DEF Handles
<1>2. PICK i \in 1 .. Len(queue) : queue[i] = Event("extract", k)
  BY DEF RemovalQueued
<1>3. i # 1 /\ i - 1 \in 1 .. Len(queue')
  BY <1>1, <1>2
<1>4. queue'[i - 1] = Event("extract", k)
  BY <1>1, <1>2, <1>3
<1> QED
  BY <1>3, <1>4 DEF RemovalQueued

-----------------------------------------------------------------------------
(* Types *)

LEMMA TypedInit == Init => Typed
<1> SUFFICES ASSUME Init PROVE Typed
  OBVIOUS
<1>1. queue \in Seq([type : {"insert", "extract", "judge"}, key : Keys \cup {NoKey}])
  BY EmptyQueue DEF Init, Events
<1>2. FoundInv /\ ~Asking
  BY DEF Init, FoundInv, Asking
<1>3. /\ left => exec
      /\ below \in 0 .. 1 /\ above \in 0 .. 1 /\ (above > 0 => exec)
      /\ pins \in Nat /\ moves \in Nat
  BY DEF Init
<1>4. look \in [Threads -> Keys \cup {NoKey}] /\ gui \in GuiSteps
  BY DEF Init, GuiSteps
<1> QED
  BY <1>1, <1>2, <1>3, <1>4 DEF Init, Typed, TypeOK

LEMMA TypedAgent ==
    ASSUME Typed, \/ \E k \in Keys : Insert(k) \/ Extract(k)
                  \/ VerifyPINJudge
    PROVE  Typed'
<1> USE DEF Typed, TypeOK, FoundInv, Asking, Boxed
<1>1. ASSUME NEW k \in Keys, Insert(k) PROVE Typed'
  <2>1. queue' \in Seq(Events)
    BY <1>1, PostTypes DEF Insert, Event, Events
  <2> QED
    BY <1>1, <2>1 DEF Insert, Events
<1>2. ASSUME NEW k \in Keys, Extract(k) PROVE Typed'
  <2>1. queue' \in Seq(Events)
    BY <1>2, PostTypes DEF Extract, Event, Events
  <2> QED
    BY <1>2, <2>1 DEF Extract, Events
<1>3. CASE VerifyPINJudge
  <2>1. queue' \in Seq(Events)
    BY <1>3, PostTypes DEF VerifyPINJudge, Event, Events
  <2> QED
    BY <1>3, <2>1 DEF VerifyPINJudge, Events
<1> QED
  BY <1>1, <1>2, <1>3

LEMMA TypedMedia ==
    ASSUME Typed, NEW w \in Workers, MediaInfo(w) \/ MediaAssign(w)
    PROVE  Typed'
<1> USE DEF Typed, TypeOK
<1>1. strayed' \in BOOLEAN
  BY DEF MediaInfo, MediaAssign
<1>2. /\ look' \in [Threads -> Keys \cup {NoKey}] /\ look'[Gui] = look[Gui]
      /\ dev' \in Keys \cup {NoKey} /\ (dev \in Keys => dev' \in Keys)
  BY GuiAssumption, KeysAssumption DEF MediaInfo, MediaAssign, Pick, Forget, Threads
<1>3. UNCHANGED <<agentVars, verify, gui, modal, asked, dialogVars, flagOf, shown, missed, pins, queue>>
  BY DEF MediaInfo, MediaAssign
<1>4. FoundInv'
  BY <1>2, <1>3 DEF FoundInv, Asking, Boxed
<1> QED
  BY <1>1, <1>2, <1>3, <1>4 DEF Asking

\* A hidden dialog's loop, if there is one, has been told to return.
LEMMA HideTypes ==
    ASSUME Typed, Hide
    PROVE  /\ ~visible' /\ visible' \in BOOLEAN /\ left' \in BOOLEAN
           /\ (left' => exec') /\ UNCHANGED <<exec, boxVars>>
<1>1. visible' = FALSE /\ UNCHANGED <<exec, boxVars>> /\ left' = (left \/ exec)
  BY DEF Hide
<1>2. exec \in BOOLEAN /\ left \in BOOLEAN /\ (left => exec)
  BY DEF Typed, TypeOK
<1>3. left' \in BOOLEAN
  BY <1>1, Zenon
<1>4. left' => exec'
  BY <1>1, <1>2
<1> QED
  BY <1>1, <1>3, <1>4

LEMMA TypedHandler ==
    ASSUME Typed, ReadNoise \/ HandleInsert \/ HandleExtract
    PROVE  Typed'
<1>1. queue' \in Seq(Events)
  BY QueueTypes DEF ReadNoise, HandleInsert, HandleExtract, ExtractLongmaiDev, Handles, Typed, TypeOK, Events
<1> USE DEF Typed, TypeOK, FoundInv, Asking, Boxed, Handles, GuiSteps
<1>2. CASE ReadNoise
  BY <1>1, <1>2 DEF ReadNoise, Events
<1>3. CASE HandleInsert
  BY <1>1, <1>3 DEF HandleInsert, Pick, Threads, Events
<1>4. CASE HandleExtract
  <2>1. missed' \in BOOLEAN /\ verify' \in BOOLEAN
    BY <1>4 DEF HandleExtract, ExtractLongmaiDev
  <2>2. visible' \in BOOLEAN /\ left' \in BOOLEAN /\ (left' => exec') /\ UNCHANGED <<exec, boxVars>>
    BY <1>4, HideTypes DEF HandleExtract, ExtractLongmaiDev
  <2>3. gui' \in {"idle", "logout"} /\ (verify' => verify) /\ (visible' => visible)
    BY <1>4, HideTypes DEF HandleExtract, ExtractLongmaiDev
  <2> QED
    BY <1>1, <1>4, <2>1, <2>2, <2>3 DEF HandleExtract, ExtractLongmaiDev, Events
<1> QED
  BY <1>2, <1>3, <1>4

LEMMA TypedGui ==
    ASSUME Typed,
           \/ LookDone \/ AppsFail \/ ShowDialog \/ LogoutDone \/ AgentAnswers
           \/ PinAccepted \/ PinRefused \/ OnVerifyPin \/ CloseBox \/ Reject \/ ExecReturns
    PROVE  Typed'
<1> USE DEF Typed, TypeOK, FoundInv, Asking, Boxed, GuiStep, GuiSteps
<1>1. CASE LookDone
  BY <1>1, KeysAssumption DEF LookDone
<1>2. CASE AppsFail
  BY <1>2 DEF AppsFail, Forget, Threads
<1>3. CASE ShowDialog
  <2>1. look' \in [Threads -> Keys \cup {NoKey}] /\ shown' \in Keys /\ gui' = "idle" /\ dev \in Keys
    BY <1>3 DEF ShowDialog, Forget, Threads
  <2>2. visible' \in BOOLEAN /\ left' \in BOOLEAN /\ exec' \in BOOLEAN /\ modal' \in BOOLEAN
    BY <1>3 DEF ShowDialog
  <2>3. (left' => exec') /\ UNCHANGED boxVars /\ (above' > 0 => exec')
    BY <1>3 DEF ShowDialog
  <2> QED
    BY <1>3, <2>1, <2>2, <2>3 DEF ShowDialog
<1>4. CASE LogoutDone \/ AgentAnswers
  BY <1>4 DEF LogoutDone, AgentAnswers
<1>5. CASE PinAccepted
  BY <1>5, HideTypes DEF PinAccepted
<1>6. CASE PinRefused
  <2>1. IF exec THEN above = 0 ELSE below = 0
    BY <1>6 DEF PinRefused
  <2>2. /\ below' \in 0 .. 1 /\ above' \in 0 .. 1
        /\ above' > 0 => exec
    <3>1. CASE exec
      BY <1>6, <2>1, <3>1 DEF PinRefused, OpenBox
    <3>2. CASE ~exec
      BY <1>6, <2>1, <3>2 DEF PinRefused, OpenBox
    <3> QED
      BY <3>1, <3>2
  <2> QED
    BY <1>6, <2>2 DEF PinRefused
<1>7. CASE OnVerifyPin
  BY <1>7, BoundsAssumption DEF OnVerifyPin
<1>8. CASE CloseBox
  BY <1>8 DEF CloseBox
<1>9. CASE Reject
  BY <1>9, HideTypes DEF Reject
<1>10. CASE ExecReturns
  BY <1>10 DEF ExecReturns
<1> QED
  BY <1>1, <1>2, <1>3, <1>4, <1>5, <1>6, <1>7, <1>8, <1>9, <1>10

LEMMA TypedStep == Typed /\ [Next]_vars => Typed'
<1> SUFFICES ASSUME Typed, [Next]_vars PROVE Typed'
  OBVIOUS
<1>1. CASE UNCHANGED vars
  BY <1>1 DEF vars, Typed, TypeOK, FoundInv, Asking, Boxed
<1> QED
  BY <1>1, TypedAgent, TypedMedia, TypedHandler, TypedGui DEF Next, GuiThread

\* Every variable stays in its domain, and the event loops nest no deeper
\* than a box, the dialog and a box, however many events arrive.
THEOREM UkeyTypeCorrect == Spec => []TypeOK
<1>1. Typed => TypeOK
  BY DEF Typed
<1> QED
  BY <1>1, TypedInit, TypedStep, PTL DEF Spec

-----------------------------------------------------------------------------
(* The PIN flag *)

\* What the agent has accepted is verified, or its removal is queued.
AcceptedInv == gui = "right" => asked \in pinned \/ RemovalQueued(asked)

PinInv == FlagMeansPin /\ AcceptedInv

\* A step that leaves the flag, the verified PINs and the queue alone.
LEMMA PinFrame ==
    ASSUME PinInv, UNCHANGED <<verify, flagOf, pinned, queue, missed, asked>>,
           gui' = "right" <=> gui = "right", gui' = "wrong" <=> gui = "wrong"
    PROVE  PinInv'
BY DEF PinInv, FlagMeansPin, AcceptedInv, RemovalQueued

\* A handler of an event that is no removal of k keeps what is queued of k.
LEMMA PinOtherEvent ==
    ASSUME Typed, PinInv, ReadNoise \/ HandleInsert
    PROVE  PinInv'
<1>1. /\ UNCHANGED <<verify, flagOf, pinned, missed>>
      /\ gui = "idle" /\ gui' \in {"idle", "look"}
      /\ Handles({"insert", "judge"})
  BY DEF ReadNoise, HandleInsert, Handles
<1>2. \A k : Head(queue) # Event("extract", k)
  BY <1>1 DEF Handles, Event
<1>3. RemovalQueued(flagOf) => RemovalQueued(flagOf)'
  BY <1>1, <1>2, HandledOnly DEF Typed, TypeOK, Events, RemovalQueued
<1> QED
  BY <1>1, <1>3 DEF PinInv, FlagMeansPin, AcceptedInv

LEMMA PinExtracted ==
    ASSUME Typed, PinInv, HandleExtract
    PROVE  PinInv'
<1>1. gui = "idle" /\ gui' \in {"idle", "logout"} /\ UNCHANGED <<flagOf, pinned>>
  BY DEF HandleExtract, ExtractLongmaiDev, Handles
<1>2. CASE Head(queue).key = dev
  BY <1>1, <1>2 DEF HandleExtract, ExtractLongmaiDev, PinInv, FlagMeansPin, AcceptedInv
<1>3. CASE Head(queue).key # dev
  <2>1. UNCHANGED verify /\ missed' = (missed \/ (verify /\ Head(queue).key = flagOf))
    BY <1>3 DEF HandleExtract, ExtractLongmaiDev
  <2>2. ASSUME Head(queue) # Event("extract", flagOf), RemovalQueued(flagOf)
        PROVE  RemovalQueued(flagOf)'
    <3>1. RemovalQueued(flagOf)' <=> (\E i \in 1 .. Len(queue') : queue'[i] = Event("extract", flagOf))
      BY <1>1 DEF RemovalQueued
    <3> QED
      BY <2>2, <3>1, HandledOnly DEF HandleExtract, ExtractLongmaiDev, Typed, TypeOK, Events, RemovalQueued
  <2>3. Head(queue) = Event("extract", flagOf) => Head(queue).key = flagOf
    BY DEF Event
  <2> QED
    BY <1>1, <2>1, <2>2, <2>3 DEF PinInv, FlagMeansPin, AcceptedInv
<1> QED
  BY <1>2, <1>3

LEMMA PinPosted ==
    ASSUME Typed, PinInv, \/ \E k \in Keys : Insert(k) \/ Extract(k)
                          \/ VerifyPINJudge
    PROVE  PinInv'
<1>1. UNCHANGED <<verify, flagOf, missed, asked, gui>>
  BY DEF Insert, Extract, VerifyPINJudge
<1>2. ASSUME NEW e \in Events, Post(e), UNCHANGED pinned PROVE PinInv'
  <2>1. \A k : RemovalQueued(k) => RemovalQueued(k)'
    BY <1>2, PostKeeps DEF Typed, TypeOK, Events
  <2> QED
    BY <1>1, <1>2, <2>1 DEF PinInv, FlagMeansPin, AcceptedInv, RemovalQueued
<1>3. ASSUME NEW k \in Keys, Extract(k) PROVE PinInv'
  <2>1. Event("extract", k) \in Events /\ Post(Event("extract", k)) /\ pinned' = pinned \ {k}
    BY <1>3 DEF Extract, Event, Events
  <2>2. (\A l : RemovalQueued(l) => RemovalQueued(l)') /\ RemovalQueued(k)'
    BY <2>1, PostKeeps DEF Typed, TypeOK, Events
  <2> QED
    BY <1>1, <2>1, <2>2 DEF PinInv, FlagMeansPin, AcceptedInv, RemovalQueued
<1>4. Event("insert", NoKey) \in Events /\ Event("judge", NoKey) \in Events
  BY DEF Event, Events
<1> QED
  BY <1>2, <1>3, <1>4 DEF Insert, VerifyPINJudge

LEMMA PinStep == Typed /\ PinInv /\ [Next]_vars => PinInv'
<1> SUFFICES ASSUME Typed, PinInv, [Next]_vars PROVE PinInv'
  OBVIOUS
<1>1. CASE AgentAnswers
  BY <1>1 DEF AgentAnswers, GuiStep, PinInv, FlagMeansPin, AcceptedInv, RemovalQueued
<1>2. CASE PinAccepted
  BY <1>2 DEF PinAccepted, GuiStep, PinInv, FlagMeansPin, AcceptedInv, RemovalQueued
<1>3. CASE PinRefused
  BY <1>3 DEF PinRefused, GuiStep, PinInv, FlagMeansPin, AcceptedInv
<1>4. CASE LookDone \/ AppsFail \/ ShowDialog \/ LogoutDone
  BY <1>4, PinFrame DEF LookDone, AppsFail, ShowDialog, LogoutDone, GuiStep
<1>5. CASE OnVerifyPin
  BY <1>5 DEF OnVerifyPin, GuiStep, PinInv, FlagMeansPin, AcceptedInv, RemovalQueued
<1>6. CASE CloseBox \/ Reject \/ ExecReturns
  BY <1>6, PinFrame DEF CloseBox, Reject, ExecReturns, Hide
<1>7. CASE \E w \in Workers : MediaInfo(w) \/ MediaAssign(w)
  BY <1>7, PinFrame DEF MediaInfo, MediaAssign
<1>8. CASE UNCHANGED vars
  BY <1>8, PinFrame DEF vars
<1> QED
  BY <1>1, <1>2, <1>3, <1>4, <1>5, <1>6, <1>7, <1>8, PinOtherEvent, PinExtracted, PinPosted
     DEF Next, GuiThread

\* The PIN flag stands for a key that was verified, or is about to fall, or a
\* removal met another default device.
THEOREM FlagMeansPinHolds == Spec => []FlagMeansPin
<1>1. Init => PinInv
  BY DEF Init, PinInv, FlagMeansPin, AcceptedInv
<1>2. PinInv => FlagMeansPin
  BY DEF PinInv
<1> QED
  BY <1>1, <1>2, TypedInit, TypedStep, PinStep, PTL DEF Spec

\* Whoever owns one key never meets the excuse of FlagMeansPin.
THEOREM NeverMissed == Spec => []OneKeyNeverMissed
<1>1. Init => OneKeyNeverMissed
  BY DEF Init, OneKeyNeverMissed
<1>2. Typed /\ OneKeyNeverMissed /\ [Next]_vars => OneKeyNeverMissed'
  <2> SUFFICES ASSUME Typed, OneKeyNeverMissed, [Next]_vars, \A k, l \in Keys : k = l, ~missed
               PROVE  ~missed'
    BY DEF OneKeyNeverMissed
  <2>1. CASE HandleExtract
    <3>1. Head(queue).key \in Keys => Head(queue).key = dev \/ ~verify
      BY DEF Typed, FoundInv
    <3>2. verify /\ Head(queue).key = flagOf => Head(queue).key \in Keys
      BY DEF Typed, FoundInv
    <3> QED
      BY <2>1, <3>1, <3>2 DEF HandleExtract, ExtractLongmaiDev
  <2>2. CASE ~HandleExtract
    BY <2>2 DEF Next, Insert, Extract, MediaInfo, MediaAssign, VerifyPINJudge, OnVerifyPin, CloseBox,
                Reject, ExecReturns, GuiThread, ReadNoise, HandleInsert, LookDone, AppsFail,
                ShowDialog, LogoutDone, AgentAnswers, PinAccepted, PinRefused, vars
  <2> QED
    BY <2>1, <2>2
<1> QED
  BY <1>1, <1>2, TypedInit, TypedStep, PTL DEF Spec

-----------------------------------------------------------------------------
(* Where a PIN goes *)

\* The dialog on the screen was filled for the default device.
ShownInv ==
    IF gui = "apps" THEN dev = look[Gui] \/ strayed
                    ELSE visible => dev = shown \/ strayed

LEMMA ShownStep == Typed /\ ShownInv /\ [Next]_vars => ShownInv'
<1> SUFFICES ASSUME Typed, ShownInv, [Next]_vars PROVE ShownInv'
  OBVIOUS
<1> USE DEF ShownInv, GuiStep
<1>1. ASSUME NEW w \in Workers, MediaInfo(w) \/ MediaAssign(w) PROVE ShownInv'
  <2>1. look'[Gui] = look[Gui] /\ UNCHANGED <<gui, visible, shown>>
    BY <1>1, GuiAssumption DEF MediaInfo, MediaAssign, Pick, Forget, Threads, Typed, TypeOK
  <2>2. CASE MediaInfo(w)
    BY <2>1, <2>2 DEF MediaInfo
  <2>3. CASE MediaAssign(w)
    <3>1. strayed' = (strayed \/ dev' # dev)
      BY <2>3 DEF MediaAssign
    <3>2. (dev' # dev => strayed') /\ (strayed => strayed')
      BY <3>1, Zenon
    <3> QED
      BY <2>1, <3>2
  <2> QED
    BY <1>1, <2>2, <2>3
<1>2. CASE LookDone
  BY <1>2 DEF LookDone
<1>3. CASE AppsFail \/ ShowDialog
  BY <1>3 DEF AppsFail, ShowDialog
<1>4. CASE HandleInsert
  BY <1>4 DEF HandleInsert, Handles
<1>5. CASE ReadNoise \/ HandleExtract
  BY <1>5, HideTypes DEF ReadNoise, HandleExtract, ExtractLongmaiDev, Handles
<1>6. CASE PinAccepted \/ Reject
  BY <1>6, HideTypes DEF PinAccepted, Reject
<1>7. CASE \/ \E k \in Keys : Insert(k) \/ Extract(k)
           \/ VerifyPINJudge \/ OnVerifyPin \/ CloseBox \/ ExecReturns
           \/ LogoutDone \/ AgentAnswers \/ PinRefused \/ UNCHANGED vars
  BY <1>7 DEF Insert, Extract, VerifyPINJudge, OnVerifyPin, CloseBox, ExecReturns, LogoutDone,
              AgentAnswers, PinRefused, vars
<1> QED
  BY <1>1, <1>2, <1>3, <1>4, <1>5, <1>6, <1>7 DEF Next, GuiThread

\* A typed PIN reaches another key than the dialog was filled for only if the
\* default device was replaced and the dialog was not filled again.
THEOREM PinReachesKeyShown == Spec => PinToKeyShown
<1>1. Init => ShownInv
  BY DEF Init, ShownInv
<1>2. Typed /\ ShownInv /\ [Next]_vars
      => [gui # "pin" /\ gui' = "pin" => asked' = shown \/ strayed]_vars
  <2> SUFFICES ASSUME ShownInv, [Next]_vars, gui # "pin", gui' = "pin"
               PROVE  asked' = shown \/ strayed
    OBVIOUS
  <2>1. OnVerifyPin
    BY DEF Next, Insert, Extract, MediaInfo, MediaAssign, VerifyPINJudge, CloseBox, Reject,
           ExecReturns, GuiThread, ReadNoise, HandleInsert, HandleExtract, ExtractLongmaiDev, Handles, LookDone, AppsFail,
           ShowDialog, LogoutDone, AgentAnswers, PinAccepted, PinRefused, GuiStep, vars
  <2> QED
    BY <2>1 DEF OnVerifyPin, GuiStep, ShownInv
<1> QED
  BY <1>1, <1>2, TypedInit, TypedStep, ShownStep, PTL DEF Spec, PinToKeyShown
-----------------------------------------------------------------------------
(* The abstract specification *)

toldBar == {k \in Keys : RemovalQueued(k)}
flagBar == IF verify THEN flagOf ELSE NoKey

\* A removal that is queued after a post was queued before, or was posted.
LEMMA PostAddsOne ==
    ASSUME queue \in Seq(Events), NEW e \in Events, Post(e), NEW k, RemovalQueued(k)'
    PROVE  RemovalQueued(k) \/ e = Event("extract", k)
<1>1. /\ queue' = Append(queue, e) /\ Len(queue) \in Nat
      /\ Len(queue') = Len(queue) + 1
      /\ \A i \in 1 .. Len(queue) : queue'[i] = queue[i]
      /\ queue'[Len(queue) + 1] = e
  BY DEF Post
<1>2. PICK i \in 1 .. Len(queue') : queue'[i] = Event("extract", k)
  BY DEF RemovalQueued, Event
<1>3. i \in 1 .. Len(queue) \/ i = Len(queue) + 1
  BY <1>1, <1>2
<1> QED
  BY <1>1, <1>2, <1>3 DEF RemovalQueued

\* Handling an event queues nothing.
LEMMA HandledAddsNone ==
    ASSUME queue \in Seq(Events), NEW types, Handles(types), NEW k, RemovalQueued(k)'
    PROVE  RemovalQueued(k)
<1>1. /\ Len(queue) \in Nat /\ queue' = Tail(queue) /\ Len(queue') = Len(queue) - 1
      /\ \A i \in 1 .. Len(queue') : queue'[i] = queue[i + 1]
  BY DEF Handles
<1>2. PICK i \in 1 .. Len(queue') : queue'[i] = Event("extract", k)
  BY DEF RemovalQueued, Event
<1>3. i + 1 \in 1 .. Len(queue) /\ queue[i + 1] = Event("extract", k)
  BY <1>1, <1>2
<1> QED
  BY <1>3 DEF RemovalQueued

\* The event that is handled was queued.
LEMMA HeadQueued ==
    ASSUME queue \in Seq(Events), Handles({"extract"})
    PROVE  RemovalQueued(Head(queue).key)
<1>1. Head(queue) \in Events /\ Head(queue).type = "extract"
  BY QueueTypes DEF Handles
<1>2. Head(queue) = Event("extract", Head(queue).key)
  BY <1>1 DEF Events, Event
<1>3. 1 \in 1 .. Len(queue) /\ queue[1] = Head(queue)
  BY DEF Handles
<1> QED
  BY <1>2, <1>3 DEF RemovalQueued

\* Only keys are removed.
NoKeyStays == ~RemovalQueued(NoKey)

LEMMA TypedQueue ==
    ASSUME Typed
    PROVE  queue \in Seq(Events)
BY DEF Typed, TypeOK, Events

LEMMA NoKeyStaysStep == Typed /\ NoKeyStays /\ [Next]_vars => NoKeyStays'
<1> SUFFICES ASSUME Typed, NoKeyStays, [Next]_vars, RemovalQueued(NoKey)' PROVE FALSE
  BY DEF NoKeyStays
<1> USE TypedQueue
<1>1. ASSUME NEW e \in Events, Post(e), e # Event("extract", NoKey) PROVE FALSE
  BY <1>1, PostAddsOne DEF NoKeyStays
<1>2. ASSUME NEW types, Handles(types) PROVE FALSE
  BY <1>2, HandledAddsNone DEF NoKeyStays
<1>3. CASE UNCHANGED queue
  BY <1>3 DEF NoKeyStays, RemovalQueued
<1>4. \A k \in Keys : Event("extract", k) \in Events /\ Event("extract", k) # Event("extract", NoKey)
  BY KeysAssumption DEF Event, Events
<1>5. \A type \in {"insert", "judge"} :
        Event(type, NoKey) \in Events /\ Event(type, NoKey) # Event("extract", NoKey)
  BY DEF Event, Events
<1>6. CASE \E k \in Keys : Insert(k) \/ Extract(k)
  BY <1>1, <1>4, <1>5, <1>6 DEF Insert, Extract
<1>7. CASE VerifyPINJudge
  BY <1>1, <1>5, <1>7 DEF VerifyPINJudge
<1>8. CASE ReadNoise \/ HandleInsert \/ HandleExtract
  BY <1>2, <1>8 DEF ReadNoise, HandleInsert, HandleExtract
<1>9. CASE \/ \E w \in Workers : MediaInfo(w) \/ MediaAssign(w)
           \/ OnVerifyPin \/ CloseBox \/ Reject \/ ExecReturns \/ LookDone \/ AppsFail
           \/ ShowDialog \/ LogoutDone \/ AgentAnswers \/ PinAccepted \/ PinRefused
           \/ UNCHANGED vars
  BY <1>3, <1>9 DEF MediaInfo, MediaAssign, OnVerifyPin, CloseBox, Reject, ExecReturns, LookDone,
        AppsFail, ShowDialog, LogoutDone, AgentAnswers, PinAccepted, PinRefused, vars
<1> QED
  BY <1>6, <1>7, <1>8, <1>9 DEF Next, GuiThread

LEMMA GuardInit == Init => Guard!Init
BY DEF Init, Guard!Init, RemovalQueued

\* An insertion plugs a key, a removal unplugs it and tells; a question of a
\* worker tells of no removal.
LEMMA GuardPosted ==
    ASSUME Typed, \/ \E k \in Keys : Insert(k) \/ Extract(k)
                  \/ VerifyPINJudge
    PROVE  [Guard!Next]_(Guard!guardVars)
<1> USE TypedQueue
<1>1. UNCHANGED <<dev, flagBar>>
  BY DEF Insert, Extract, VerifyPINJudge, flagBar
<1>2. ASSUME NEW type \in {"insert", "judge"}, Post(Event(type, NoKey))
      PROVE  toldBar' = toldBar
  <2>1. Event(type, NoKey) \in Events /\ \A k : Event(type, NoKey) # Event("extract", k)
    BY DEF Event, Events
  <2>2. \A k : RemovalQueued(k)' <=> RemovalQueued(k)
    BY <1>2, <2>1, PostKeeps, PostAddsOne
  <2> QED
    BY <2>2 DEF toldBar
<1>3. ASSUME NEW k \in Keys, Insert(k) PROVE Guard!Plug(k)
  BY <1>1, <1>2, <1>3 DEF Insert, Guard!Plug, toldBar, flagBar
<1>4. ASSUME NEW k \in Keys, Extract(k) PROVE Guard!Unplug(k)
  <2>1. Event("extract", k) \in Events /\ Post(Event("extract", k))
    BY <1>4 DEF Extract, Event, Events
  <2>2. \A l : Event("extract", k) = Event("extract", l) <=> k = l
    BY DEF Event
  <2>3. \A l : RemovalQueued(l)' <=> RemovalQueued(l) \/ l = k
    BY <2>1, <2>2, PostKeeps, PostAddsOne
  <2>4. toldBar' = toldBar \cup {k}
    BY <2>3 DEF toldBar
  <2> QED
    BY <1>1, <1>4, <2>4 DEF Extract, Guard!Unplug, toldBar, flagBar
<1>5. CASE VerifyPINJudge
  BY <1>1, <1>2, <1>5 DEF VerifyPINJudge, Guard!guardVars, toldBar, flagBar
<1> QED
  BY <1>3, <1>4, <1>5 DEF Guard!Next

LEMMA GuardHandled ==
    ASSUME Typed, NoKeyStays, ReadNoise \/ HandleInsert \/ HandleExtract
    PROVE  [Guard!Next]_(Guard!guardVars)
<1> USE TypedQueue
<1>1. CASE ReadNoise \/ HandleInsert
  <2>1. Handles({"insert", "judge"}) /\ \A k : Head(queue) # Event("extract", k)
    BY <1>1 DEF ReadNoise, HandleInsert, Handles, Event
  <2>2. \A k : RemovalQueued(k)' <=> RemovalQueued(k)
    BY <2>1, HandledOnly, HandledAddsNone
  <2> QED
    BY <1>1, <2>2 DEF ReadNoise, HandleInsert, Guard!guardVars
<1>2. CASE HandleExtract
  <2> DEFINE k == Head(queue).key
  <2>1. Handles({"extract"}) /\ UNCHANGED <<plugged, dev, flagOf>>
    BY <1>2 DEF HandleExtract
  <2>2. k \in Keys /\ RemovalQueued(k)
    BY <2>1, HeadQueued, QueueTypes DEF NoKeyStays, Handles, Events
  <2>3. \A l : l # k => Head(queue) # Event("extract", l)
    BY DEF Event
  <2>4. \A l : (RemovalQueued(l)' => RemovalQueued(l)) /\ (l # k /\ RemovalQueued(l) => RemovalQueued(l)')
    BY <2>1, <2>3, HandledOnly, HandledAddsNone
  <2> HIDE DEF k
  <2>5. toldBar' \in {toldBar, toldBar \ {k}}
    BY <2>4 DEF toldBar
  <2>6. flagBar' = IF k = dev THEN NoKey ELSE flagBar
    BY <1>2 DEF HandleExtract, ExtractLongmaiDev, k, flagBar
  <2>7. Guard!Handle(k)
    BY <2>1, <2>2, <2>5, <2>6 DEF Guard!Handle, toldBar, flagBar
  <2> QED
    BY <2>2, <2>7 DEF Guard!Next
<1> QED
  BY <1>1, <1>2

LEMMA GuardStep ==
    Typed /\ PinInv /\ NoKeyStays /\ [Next]_vars => [Guard!Next]_(Guard!guardVars)
<1> SUFFICES ASSUME Typed, PinInv, NoKeyStays, [Next]_vars
             PROVE  [Guard!Next]_(Guard!guardVars)
  OBVIOUS
<1> USE DEF GuiStep
<1>1. ASSUME UNCHANGED <<plugged, queue>> PROVE toldBar' = toldBar
  BY <1>1 DEF toldBar, RemovalQueued
<1>2. CASE UNCHANGED <<plugged, queue, dev, verify, flagOf>>
  BY <1>1, <1>2 DEF Guard!guardVars, toldBar
<1>3. ASSUME NEW w \in Workers, MediaInfo(w) \/ MediaAssign(w)
      PROVE  [Guard!Next]_(Guard!guardVars)
  <2>1. CASE MediaInfo(w)
    BY <2>1, <1>2 DEF MediaInfo
  <2>2. CASE MediaAssign(w)
    <3>1. look[w] \in Keys /\ dev' = look[w] /\ UNCHANGED <<plugged, queue, verify, flagOf>>
      BY <2>2 DEF MediaAssign, Typed, TypeOK, Threads
    <3>2. Guard!Choose(look[w])
      BY <1>1, <3>1 DEF Guard!Choose, toldBar
    <3> QED
      BY <3>1, <3>2 DEF Guard!Next
  <2> QED
    BY <1>3, <2>1, <2>2
<1>4. CASE LookDone
  <2>1. look[Gui] \in Keys /\ dev' = look[Gui] /\ UNCHANGED <<plugged, queue, verify, flagOf>>
    BY <1>4 DEF LookDone, Typed, FoundInv
  <2>2. Guard!Choose(look[Gui])
    BY <1>1, <2>1 DEF Guard!Choose, toldBar
  <2> QED
    BY <2>1, <2>2 DEF Guard!Next
<1>5. CASE PinAccepted
  <2>1. /\ asked \in Keys /\ dev # NoKey
        /\ verify' = TRUE /\ flagOf' = asked /\ UNCHANGED <<plugged, queue, dev>>
    BY <1>5, KeysAssumption DEF PinAccepted, Typed, TypeOK, FoundInv, Asking
  <2>2. asked \in plugged \cup toldBar
    BY <1>5, <2>1 DEF PinAccepted, PinInv, AcceptedInv, Typed, TypeOK, toldBar
  <2>3. Guard!Raise(asked)
    BY <1>1, <2>1, <2>2 DEF Guard!Raise, toldBar
  <2> QED
    BY <2>1, <2>3 DEF Guard!Next
<1>6. CASE PinRefused
  <2>1. Guard!Lower
    BY <1>1, <1>6 DEF PinRefused, Guard!Lower, toldBar
  <2> QED
    BY <2>1 DEF Guard!Next
<1>7. CASE \/ OnVerifyPin \/ CloseBox \/ Reject \/ ExecReturns \/ AppsFail
           \/ ShowDialog \/ LogoutDone \/ AgentAnswers \/ UNCHANGED vars
  BY <1>2, <1>7 DEF OnVerifyPin, CloseBox, Reject, ExecReturns, AppsFail, ShowDialog, LogoutDone,
                    AgentAnswers, vars
<1> QED
  BY <1>3, <1>4, <1>5, <1>6, <1>7, GuardPosted, GuardHandled DEF Next, GuiThread

\* Whatever dialogs and boxes are open, the flag is the one of KeyGuard: it goes
\* up for a key that is there or whose removal waits, and the removal of the
\* default device lowers it.
THEOREM UkeyImplementsGuard == Spec => ImplementsKeyGuard
<1>1. Init => PinInv /\ NoKeyStays
  BY DEF Init, PinInv, FlagMeansPin, AcceptedInv, NoKeyStays, RemovalQueued
<1> QED
  BY <1>1, TypedInit, TypedStep, PinStep, NoKeyStaysStep, GuardInit, GuardStep, PTL
     DEF Spec, ImplementsKeyGuard, Guard!Spec

\* What KeyGuard promises follows from its steps alone: the default device and
\* the flag are always keys, or none.
GuardTypes == dev \in Keys \cup {NoKey} /\ flagBar \in Keys \cup {NoKey} /\ plugged \subseteq Keys
GuardInv == GuardTypes /\ Guard!FlagPresent

LEMMA GuardKeeps == GuardInv /\ [Guard!Next]_(Guard!guardVars) => GuardInv'
<1> SUFFICES ASSUME GuardInv, [Guard!Next]_(Guard!guardVars) PROVE GuardInv'
  OBVIOUS
<1> USE KeysAssumption DEF GuardInv, GuardTypes, flagBar, Guard!FlagPresent
<1>1. CASE Guard!Lower \/ Guard!Restart
  BY <1>1 DEF Guard!Lower, Guard!Restart
<1>2. ASSUME NEW k \in Keys, Guard!Plug(k) \/ Guard!Unplug(k) PROVE GuardInv'
  BY <1>2 DEF Guard!Plug, Guard!Unplug
<1>3. ASSUME NEW k \in Keys, Guard!Choose(k) \/ Guard!Raise(k) PROVE GuardInv'
  BY <1>3 DEF Guard!Choose, Guard!Raise
<1>4. ASSUME NEW k \in Keys, Guard!Handle(k) PROVE GuardInv'
  BY <1>4 DEF Guard!Handle
<1>5. CASE UNCHANGED Guard!guardVars
  BY <1>5 DEF Guard!guardVars
<1> QED
  BY <1>1, <1>2, <1>3, <1>4, <1>5 DEF Guard!Next

\* To the owner of a single key a raised flag means that the key is in its
\* port, or that its removal waits and will lower the flag.
THEOREM GuardPromise == Spec => []Guard!FlagPresent
<1>1. Guard!Init => GuardInv
  BY KeysAssumption DEF Guard!Init, GuardInv, GuardTypes, flagBar, Guard!FlagPresent
<1>2. GuardInv => Guard!FlagPresent
  BY DEF GuardInv
<1> QED
  BY <1>1, <1>2, UkeyImplementsGuard, GuardKeeps, PTL DEF ImplementsKeyGuard, Guard!Spec
=============================================================================
