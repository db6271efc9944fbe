----------------------------- MODULE UkeyAgent -----------------------------
(***************************************************************************)
(* The keys, the default device and the PIN dialog.  The PKI agent tells   *)
(* of insertions and removals, worker threads ask for a PIN                *)
(* (VerifyPINJudge); both queue events for the GUI thread, which handles   *)
(* them in whatever event loop runs: main's, the dialog's exec() or that   *)
(* of an error box, one inside the other.  A handler's code is cut at      *)
(* every blocking call of the agent.  m_defaultDevice is shared without a  *)
(* lock: workers replace it (MediaInfo) while the GUI thread looks for a   *)
(* device, verifies a PIN or matches a removal.                            *)
(***************************************************************************)
EXTENDS Naturals, Sequences

CONSTANTS
    Keys,       \* Longmai keys
    NoKey,      \* no device
    Workers,    \* threads that may be inside MediaInfo
    Gui,        \* the Qt main thread
    MaxEvents,  \* bound: events waiting for the GUI thread
    MaxPins,    \* bound: PINs the user types
    MaxMoves    \* bound: insertions and removals

ASSUME KeysAssumption == NoKey \notin Keys
ASSUME GuiAssumption == Gui \notin Workers
ASSUME BoundsAssumption == MaxEvents \in Nat /\ MaxPins \in Nat /\ MaxMoves \in Nat

VARIABLES
    plugged,    \* the keys in their ports
    pinned,     \* the keys whose PIN was verified since they were plugged in
    dev,        \* m_defaultDevice
    verify,     \* m_verifyFlag
    queue,      \* queued DeviceChange signals
    gui,        \* where the GUI thread stands in a handler
    modal,      \* the event being handled asks for exec()
    look,       \* the device a thread's GetDefualtDevice has picked from the list
    asked,      \* the device a PIN was sent to
    visible,    \* the PIN dialog is on the screen
    exec,       \* the dialog's own event loop runs
    below, above,   \* error boxes opened before, and inside, that loop
    left,       \* the dialog's loop has been told to return
    flagOf,     \* history: the key the flag was raised for
    shown,      \* history: the key the dialog was filled for
    strayed,    \* history: dev was replaced and the dialog was not filled again
    missed,     \* history: the removal of flagOf met another default device
    pins, moves

agentVars   == <<plugged, pinned, moves>>
boxVars     == <<below, above>>
dialogVars  == <<visible, exec, boxVars, left>>
historyVars == <<flagOf, shown, strayed, missed>>
vars == <<agentVars, dev, verify, queue, gui, modal, look, asked, dialogVars, historyVars, pins>>

Threads == Workers \cup {Gui}
Event(type, k) == [type |-> type, key |-> k]
GuiSteps == {"idle", "look", "apps", "pin", "right", "wrong", "logout"}
GuiStep(from, to) == gui = from /\ gui' = to

\* The innermost event loop is a box's: the dialog takes no input.
Boxed == IF exec THEN above > 0 ELSE below > 0
OpenBox ==
    IF exec THEN above' = above + 1 /\ UNCHANGED below
            ELSE below' = below + 1 /\ UNCHANGED above
Post(e) == Len(queue) < MaxEvents /\ queue' = Append(queue, e)

Init ==
    /\ plugged = {} /\ pinned = {} /\ moves = 0
    /\ dev = NoKey /\ verify = FALSE /\ queue = << >>
    /\ gui = "idle" /\ modal = FALSE
    /\ look = [t \in Threads |-> NoKey] /\ asked = NoKey
    /\ visible = FALSE /\ exec = FALSE /\ below = 0 /\ above = 0 /\ left = FALSE
    /\ flagOf = NoKey /\ shown = NoKey /\ strayed = FALSE /\ missed = FALSE
    /\ pins = 0

-----------------------------------------------------------------------------
(* The keys and the PKI agent's notifications *)

Insert(k) ==
    /\ moves < MaxMoves /\ moves' = moves + 1
    /\ k \notin plugged /\ plugged' = plugged \cup {k}
    /\ Post(Event("insert", NoKey))
    /\ UNCHANGED <<pinned, dev, verify, gui, modal, look, asked, dialogVars, historyVars, pins>>

Extract(k) ==
    /\ moves < MaxMoves /\ moves' = moves + 1
    /\ k \in plugged /\ plugged' = plugged \ {k} /\ pinned' = pinned \ {k}
    /\ Post(Event("extract", k))
    /\ UNCHANGED <<dev, verify, gui, modal, look, asked, dialogVars, historyVars, pins>>

-----------------------------------------------------------------------------
(* Worker threads *)

\* A call that needs the PIN and finds the flag down asks for the dialog.
VerifyPINJudge ==
    /\ dev = NoKey \/ ~verify
    /\ Post(Event("judge", NoKey))
    /\ UNCHANGED <<agentVars, dev, verify, gui, modal, look, asked, dialogVars, historyVars, pins>>

\* GetDefualtDevice takes the first Longmai device of the list it was given.
Pick(t) == \E k \in plugged : look' = [look EXCEPT ![t] = k]
Forget(t) == look' = [look EXCEPT ![t] = NoKey]

MediaInfo(w) ==
    /\ look[w] = NoKey /\ Pick(w)
    /\ UNCHANGED <<agentVars, dev, verify, queue, gui, modal, asked, dialogVars, historyVars, pins>>

\* It becomes the default device; the PIN flag stays as it is.
MediaAssign(w) ==
    /\ look[w] # NoKey /\ dev' = look[w] /\ Forget(w)
    /\ strayed' = (strayed \/ dev' # dev)
    /\ UNCHANGED <<agentVars, verify, queue, gui, modal, asked, dialogVars,
                   flagOf, shown, missed, pins>>

-----------------------------------------------------------------------------
(* The GUI thread: OnDeviceChange *)

Handles(types) == gui = "idle" /\ queue # << >> /\ Head(queue).type \in types /\ queue' = Tail(queue)

\* VerifyPINJudge passed the address of a local: its slot finds the type that
\* was written there, or whatever the worker's stack holds by now.
ReadNoise ==
    /\ Handles({"judge"})
    /\ UNCHANGED <<agentVars, dev, verify, gui, modal, look, asked, dialogVars, historyVars, pins>>

\* Mutant of HandleInsert: it goes on although no device was found.
InsertUnchecked ==
    /\ Handles({"insert", "judge"})
    /\ gui' = "look" /\ modal' = (Head(queue).type = "judge")
    /\ Pick(Gui) \/ UNCHANGED look
    /\ UNCHANGED <<agentVars, dev, verify, asked, dialogVars, historyVars, pins>>

\* An insertion, or a question of a worker: a device is looked for.
HandleInsert ==
    /\ Handles({"insert", "judge"})
    /\ \/ Pick(Gui) /\ gui' = "look" /\ modal' = (Head(queue).type = "judge")
       \/ UNCHANGED <<look, gui, modal>>
    /\ UNCHANGED <<agentVars, dev, verify, asked, dialogVars, historyVars, pins>>

\* The device is assigned, then its applications are asked for.
LookDone ==
    /\ GuiStep("look", "apps")
    /\ dev' = look[Gui] /\ strayed' = FALSE
    /\ UNCHANGED <<agentVars, verify, queue, modal, look, asked, dialogVars,
                   flagOf, shown, missed, pins>>

\* A device without applications: the dialog stays as it was.
AppsFail ==
    /\ GuiStep("apps", "idle") /\ Forget(Gui)
    /\ strayed' = TRUE /\ modal' = FALSE
    /\ UNCHANGED <<agentVars, dev, verify, queue, asked, dialogVars,
                   flagOf, shown, missed, pins>>

\* Mutant of ShowDialog: the list of applications is not set anew.
ShowUnfilled ==
    /\ GuiStep("apps", "idle") /\ Forget(Gui)
    /\ shown' = (IF shown = NoKey THEN look[Gui] ELSE shown)
    /\ visible' = TRUE /\ modal' = FALSE
    /\ UNCHANGED <<agentVars, dev, verify, queue, asked, exec, boxVars, left,
                   flagOf, strayed, missed, pins>>

\* SetAppList, then show() or exec().  exec() inside exec() returns at once.
ShowDialog ==
    /\ GuiStep("apps", "idle") /\ Forget(Gui)
    /\ shown' = look[Gui] /\ modal' = FALSE
    /\ \/ ~modal /\ visible' = TRUE /\ UNCHANGED <<exec, boxVars, left>>
       \/ /\ modal /\ ~exec
          /\ visible' = TRUE /\ exec' = TRUE /\ left' = FALSE /\ UNCHANGED boxVars
       \/ modal /\ exec /\ UNCHANGED dialogVars
    /\ UNCHANGED <<agentVars, dev, verify, queue, asked, flagOf, strayed, missed, pins>>

Hide == visible' = FALSE /\ left' = (left \/ exec) /\ UNCHANGED <<exec, boxVars>>

\* A removal counts only if it is the default device's.
ExtractLongmaiDev(e) == e.key = dev

\* Mutant of HandleExtract: the dialog goes, the flag stays.
ExtractHidesOnly ==
    /\ Handles({"extract"})
    /\ IF ExtractLongmaiDev(Head(queue)) THEN gui' = "logout" /\ Hide ELSE UNCHANGED <<gui, dialogVars>>
    /\ UNCHANGED <<agentVars, dev, verify, modal, look, asked, historyVars, pins>>

\* The default device's removal lowers the flag and logs out.
HandleExtract ==
    /\ Handles({"extract"})
    /\ \/ /\ ExtractLongmaiDev(Head(queue))
          /\ Hide /\ verify' = FALSE /\ gui' = "logout"
          /\ UNCHANGED missed
       \/ /\ ~ExtractLongmaiDev(Head(queue))
          /\ missed' = (missed \/ (verify /\ Head(queue).key = flagOf))
          /\ UNCHANGED <<dialogVars, verify, gui>>
    /\ UNCHANGED <<agentVars, dev, modal, look, asked, flagOf, shown, strayed, pins>>

\* The logout blocks the GUI thread until the SSO server answers or times out.
LogoutDone ==
    /\ GuiStep("logout", "idle")
    /\ UNCHANGED <<agentVars, dev, verify, queue, modal, look, asked, dialogVars, historyVars, pins>>

-----------------------------------------------------------------------------
(* The PIN dialog *)

\* The user types a PIN; it goes to the device that is the default now.
OnVerifyPin ==
    /\ pins < MaxPins /\ pins' = pins + 1
    /\ visible /\ ~Boxed /\ GuiStep("idle", "pin")
    /\ asked' = dev
    /\ UNCHANGED <<agentVars, dev, verify, queue, modal, look, dialogVars, historyVars>>

\* The agent decides while the GUI thread waits; a wrong PIN also takes back
\* an earlier right one.
AgentAnswers ==
    /\ \/ GuiStep("pin", "right") /\ asked \in plugged /\ pinned' = pinned \cup {asked}
       \/ GuiStep("pin", "wrong") /\ pinned' = pinned \ {asked}
    /\ UNCHANGED <<plugged, moves, dev, verify, queue, modal, look, asked, dialogVars,
                   historyVars, pins>>

\* Mutant of PinRefused: the flag goes up whatever the agent answered.
RefusedButSet ==
    /\ GuiStep("wrong", "idle")
    /\ verify' = TRUE /\ flagOf' = asked /\ missed' = FALSE
    /\ OpenBox /\ asked' = NoKey
    /\ UNCHANGED <<agentVars, dev, queue, modal, look, visible, exec, left, shown, strayed, pins>>

PinAccepted ==
    /\ GuiStep("right", "idle")
    /\ verify' = TRUE /\ flagOf' = asked /\ missed' = FALSE
    /\ Hide /\ asked' = NoKey
    /\ UNCHANGED <<agentVars, dev, queue, modal, look, shown, strayed, pins>>

\* The flag goes down, and a box opens: an event loop of its own.
PinRefused ==
    /\ GuiStep("wrong", "idle")
    /\ verify' = FALSE /\ asked' = NoKey
    /\ OpenBox
    /\ UNCHANGED <<agentVars, dev, queue, modal, look, visible, exec, left, historyVars, pins>>

\* The user closes the topmost box, or the dialog by Esc.
CloseBox ==
    /\ gui = "idle" /\ Boxed
    /\ IF exec THEN above' = above - 1 /\ UNCHANGED below
               ELSE below' = below - 1 /\ UNCHANGED above
    /\ UNCHANGED <<agentVars, dev, verify, queue, gui, modal, look, asked, visible, exec, left,
                   historyVars, pins>>

Reject ==
    /\ gui = "idle" /\ visible /\ ~Boxed /\ Hide
    /\ UNCHANGED <<agentVars, dev, verify, queue, gui, modal, look, asked, historyVars, pins>>

\* The dialog's loop returns when it is the innermost one again.
ExecReturns ==
    /\ gui = "idle" /\ exec /\ ~Boxed /\ left
    /\ exec' = FALSE /\ left' = FALSE
    /\ UNCHANGED <<agentVars, dev, verify, queue, gui, modal, look, asked, visible, boxVars,
                   historyVars, pins>>

-----------------------------------------------------------------------------
GuiThread ==
    \/ ReadNoise \/ HandleInsert \/ LookDone \/ AppsFail \/ ShowDialog
    \/ HandleExtract \/ LogoutDone \/ AgentAnswers \/ PinAccepted \/ PinRefused

Next ==
    \/ \E k \in Keys : Insert(k) \/ Extract(k)
    \/ \E w \in Workers : MediaInfo(w) \/ MediaAssign(w)
    \/ VerifyPINJudge \/ OnVerifyPin \/ CloseBox \/ Reject \/ ExecReturns
    \/ GuiThread

Spec == Init /\ [][Next]_vars

\* The GUI thread always sits in some event loop or in a call that returns.
\* Nobody has to move a key, type a PIN, close a box or send a request.
FairSpec == Spec /\ WF_vars(GuiThread) /\ WF_vars(ExecReturns)

-----------------------------------------------------------------------------
(* Properties *)

Asking == gui \in {"pin", "right", "wrong"}

\* Every variable stays in its domain, a PIN goes to some device, and the
\* event loops nest at most as box, dialog, box.
TypeOK ==
    /\ pinned \subseteq plugged /\ plugged \subseteq Keys
    /\ dev \in Keys \cup {NoKey} /\ verify \in BOOLEAN
    /\ queue \in Seq([type : {"insert", "extract", "judge"}, key : Keys \cup {NoKey}])
    /\ gui \in GuiSteps /\ modal \in BOOLEAN
    /\ look \in [Threads -> Keys \cup {NoKey}]
    /\ asked \in Keys \cup {NoKey} /\ (Asking => asked \in Keys)
    /\ visible \in BOOLEAN /\ left \in BOOLEAN
    /\ exec \in BOOLEAN /\ (left => exec)
    /\ below \in 0 .. 1 /\ above \in 0 .. 1 /\ (above > 0 => exec)
    /\ flagOf \in Keys \cup {NoKey} /\ shown \in Keys \cup {NoKey}
    /\ strayed \in BOOLEAN /\ missed \in BOOLEAN
    /\ pins \in Nat /\ moves \in Nat

RemovalQueued(k) == \E i \in 1 .. Len(queue) : queue[i] = Event("extract", k)

\* The PIN flag stands for a key whose PIN was verified since it was plugged
\* in, or whose removal the GUI thread has yet to handle.  Two excuses: the
\* removal was handled while another key was the default device, and so
\* ignored; or a wrong PIN is about to lower the flag.
FlagMeansPin ==
    verify => flagOf \in pinned \/ RemovalQueued(flagOf) \/ missed \/ gui = "wrong"

\* With one key no removal is missed: the flag and the default device can
\* only be about that key.
OneKeyNeverMissed == (\A k, l \in Keys : k = l) => ~missed

\* A flag whose key has gone is lowered, whatever dialogs and boxes are open,
\* unless another key was the default device when the removal was handled.
RemovalLowersFlag ==
    \A k \in Keys : (verify /\ flagOf = k /\ k \notin pinned) ~> (~verify \/ flagOf # k \/ missed)

\* A typed PIN goes to the key the dialog was filled for, unless the default
\* device was replaced since and the dialog was not filled again: by a worker,
\* or by an insertion whose list of applications failed.
PinToKeyShown ==
    [][gui # "pin" /\ gui' = "pin" => asked' = shown \/ strayed]_vars

(* The abstract specification *)

Guard == INSTANCE KeyGuard WITH
    here <- plugged,
    told <- {k \in Keys : RemovalQueued(k)},
    default <- dev,
    flag <- IF verify THEN flagOf ELSE NoKey

\* Keys, queue, default device and flag together behave as a KeyGuard: through
\* all dialogs and boxes the flag goes up only for a key that is in its port
\* or whose removal waits, and the removal of the default device lowers it.
ImplementsKeyGuard == Guard!Spec
=============================================================================
