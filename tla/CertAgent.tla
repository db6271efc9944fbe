----------------------------- MODULE CertAgent -----------------------------
(***************************************************************************)
(* Containers and certificates on the key: POST /cert/request, /install,   *)
(* /destroy and /unlock (HttpServerRunable), a login's GetCert, and the    *)
(* calls of WrapPkiAgent below them, all on worker threads that share      *)
(* m_defaultDevice.defaultContent without a lock.                          *)
(*                                                                         *)
(* One action is one call of the PKI agent with the code up to the next    *)
(* one.  Every call may be refused: VerifyPINJudge in front of it may fail *)
(* (SsoSession models the PIN flag), the key may be out, full or locked,   *)
(* or the agent has done what it was asked and its answer never came.      *)
(***************************************************************************)
EXTENDS Naturals, FiniteSets

CONSTANTS
    Workers,    \* threads of the local server's pool
    Names,      \* container names (uuids; bound: containers ever created)
    SNs,        \* serial numbers of certificates
    NoContainer,\* the empty container name
    NoCert,     \* a certificate the caller left out; an empty slot
    Installs,   \* pairs of certificates that callers install
    Destroys    \* sets of serial numbers that callers ask to delete

Slots == [sign : SNs \cup {NoCert}, enc : SNs \cup {NoCert}]
Empty == [sign |-> NoCert, enc |-> NoCert]

ASSUME ContainerAssumption == NoContainer \notin Names
ASSUME CertAssumption == NoCert \notin SNs
ASSUME InstallsAssumption == Installs \subseteq Slots
ASSUME DestroysAssumption == Destroys \subseteq SUBSET SNs

VARIABLES
    containers, \* on the key
    keyed,      \* containers with a key pair
    cert,       \* the certificates of a container
    default,    \* m_defaultDevice.defaultContent
    pc,         \* the call a worker is about to make
    job,        \* what it does once DefualtContainer has returned
    con,        \* container name of a worker's handler
    pair,       \* certificates left to import
    todo,       \* serial numbers left to delete
    listed,     \* certVec: what GetAllCert listed, as <<serial, container>>
    destroyed,  \* history: containers that were deleted
    spare,      \* history: containers made as a default, or left by a failed request
    disturbed   \* history: containers that got half a pair, as far as the
                \* caller knows, or which several workers worked on at once

keyVars == <<containers, keyed, cert>>
handlerVars == <<job, con, pair, todo, listed>>
historyVars == <<destroyed, spare, disturbed>>
vars == <<keyVars, default, pc, handlerVars, historyVars>>

Steps == {"idle", "create", "keypair", "p10", "lookup", "list", "fresh", "sign", "enc",
          "getCert", "all", "del", "unlock", "box", "ok", "err"}

Goto(w, to) == pc' = [pc EXCEPT ![w] = to]
Step(w, from, to) == pc[w] = from /\ Goto(w, to)
Refused(w) == Goto(w, "err")

Init ==
    /\ containers \in SUBSET Names /\ keyed = containers
    /\ cert = [c \in Names |-> Empty]
    /\ default = NoContainer
    /\ pc = [w \in Workers |-> "idle"]
    /\ job = [w \in Workers |-> "install"]
    /\ con = [w \in Workers |-> NoContainer]
    /\ pair = [w \in Workers |-> Empty]
    /\ todo = [w \in Workers |-> {}]
    /\ listed = [w \in Workers |-> {}]
    /\ destroyed = {} /\ spare = {} /\ disturbed = {}

\* A name of QUuid::createUuid is new.
FreshNames == Names \ (containers \cup destroyed)

-----------------------------------------------------------------------------
(* POST /cert/request: MakePkcs10 *)

AskRequest(w) ==
    /\ Step(w, "idle", "create")
    /\ UNCHANGED <<keyVars, default, handlerVars, historyVars>>

\* Mutant of Create: the default is set before the container exists.
CreateUnchecked(w) ==
    /\ pc[w] = "create"
    /\ \E c \in FreshNames :
         /\ default' = c /\ con' = [con EXCEPT ![w] = c]
         /\ \/ containers' = containers \cup {c} /\ Goto(w, "keypair")
            \/ containers' = containers /\ Refused(w)
    /\ UNCHANGED <<keyed, cert, job, pair, todo, listed, historyVars>>

\* CreateContainer has failed, but perhaps not at the key.
Unheard ==
    \/ \E c \in FreshNames : containers' = containers \cup {c} /\ spare' = spare \cup {c}
    \/ UNCHANGED <<containers, spare>>

\* CreateContainer, and the new container becomes the default.
Create(w) ==
    /\ \/ /\ Step(w, "create", "keypair")
          /\ \E c \in FreshNames :
               /\ containers' = containers \cup {c}
               /\ default' = c
               /\ con' = [con EXCEPT ![w] = c]
          /\ UNCHANGED spare
       \/ /\ pc[w] = "create" /\ Refused(w) /\ Unheard
          /\ UNCHANGED <<default, con>>
    /\ UNCHANGED <<keyed, cert, job, pair, todo, listed, destroyed, disturbed>>

\* Mutant of GenKeypair: the key pair goes into the default container.
GenKeypairInDefault(w) ==
    /\ \/ /\ Step(w, "keypair", "p10") /\ default \in containers
          /\ keyed' = keyed \cup {default}
          /\ UNCHANGED spare
       \/ /\ pc[w] = "keypair" /\ Refused(w)
          /\ spare' = spare \cup {con[w]}
          /\ UNCHANGED keyed
    /\ UNCHANGED <<containers, cert, default, handlerVars, destroyed, disturbed>>

\* A refusal leaves the container, and the default, behind.
GenKeypair(w) ==
    /\ \/ /\ Step(w, "keypair", "p10") /\ con[w] \in containers
          /\ keyed' = keyed \cup {con[w]}
          /\ UNCHANGED spare
       \/ /\ pc[w] = "keypair" /\ Refused(w)
          /\ spare' = spare \cup {con[w]}
          /\ keyed' \in {keyed, keyed \cup ({con[w]} \cap containers)}
    /\ UNCHANGED <<containers, cert, default, handlerVars, destroyed, disturbed>>

MakePkcs10(w) ==
    /\ \/ Step(w, "p10", "ok") /\ con[w] \in keyed
       \/ pc[w] = "p10" /\ Refused(w)
    /\ UNCHANGED <<keyVars, default, handlerVars, historyVars>>

-----------------------------------------------------------------------------
(* DefualtContainer, and what its callers do with the name: POST             *)
(* /cert/install imports certificates, GetCert (a login) reads one.          *)

AskInstall(w) ==
    /\ Step(w, "idle", "lookup")
    /\ job' = [job EXCEPT ![w] = "install"]
    /\ \E r \in Installs : pair' = [pair EXCEPT ![w] = r]
    /\ UNCHANGED <<keyVars, default, con, todo, listed, historyVars>>

AskCert(w) ==
    /\ Step(w, "idle", "lookup")
    /\ job' = [job EXCEPT ![w] = "getCert"]
    /\ UNCHANGED <<keyVars, default, con, pair, todo, listed, historyVars>>

\* Workers in the middle of an installation into c, or about to delete it.
Importing(u, c) == pc[u] \in {"sign", "enc"} /\ con[u] = c
Deleting(u, c) == pc[u] = "del" /\ \E sn \in todo[u] : <<sn, c>> \in listed[u]

HalfPair(r) == r # Empty /\ NoCert \in {r.sign, r.enc}

FirstImport(w) ==
    IF pair[w].sign # NoCert THEN "sign" ELSE IF pair[w].enc # NoCert THEN "enc" ELSE "ok"

\* The caller goes on with the name it got; a login asks for a certificate
\* even with no name.  An installation without certificates succeeds.
Use(w, c) ==
    /\ con' = [con EXCEPT ![w] = c]
    /\ Goto(w, CASE job[w] = "getCert" -> "getCert"
                 [] c = NoContainer -> "err"
                 [] OTHER -> FirstImport(w))
    /\ disturbed' =
         IF /\ job[w] = "install"
            /\ HalfPair(pair[w]) \/ \E u \in Workers \ {w} : Importing(u, c) \/ Deleting(u, c)
         THEN disturbed \cup {c} ELSE disturbed

Lookup(w) ==
    /\ \/ pc[w] = "lookup" /\ default # NoContainer /\ Use(w, default)
       \/ Step(w, "lookup", "list") /\ default = NoContainer /\ UNCHANGED <<con, disturbed>>
    /\ UNCHANGED <<keyVars, default, job, pair, todo, listed, destroyed, spare>>

\* GetContainers: the first one listed becomes the default, if there is one.
\* The default is read again, as other workers may have set it meanwhile.
List(w) ==
    /\ pc[w] = "list"
    /\ default' \in containers \cup {default}
    /\ \/ default' # NoContainer /\ Use(w, default')
       \/ default' = NoContainer /\ Goto(w, "fresh") /\ UNCHANGED <<con, disturbed>>
    /\ UNCHANGED <<keyVars, job, pair, todo, listed, destroyed, spare>>

\* CreateContainer for a key that has none; no key pair is made.
CreateDefault(w) ==
    /\ pc[w] = "fresh"
    /\ \/ \E c \in FreshNames :
            /\ containers' = containers \cup {c} /\ spare' = spare \cup {c}
            /\ default' = c
       \/ Unheard /\ UNCHANGED default
    /\ Use(w, default')
    /\ UNCHANGED <<keyed, cert, job, pair, todo, listed, destroyed>>

GetCert(w) ==
    /\ \/ Step(w, "getCert", "ok") /\ con[w] \in containers
       \/ pc[w] = "getCert" /\ Refused(w)
    /\ UNCHANGED <<keyVars, default, handlerVars, historyVars>>

ImportSign(w) ==
    /\ pc[w] = "sign"
    /\ \/ /\ con[w] \in containers
          /\ cert' = [cert EXCEPT ![con[w]].sign = pair[w].sign]
          /\ \/ /\ Goto(w, IF pair[w].enc = NoCert THEN "ok" ELSE "enc")
                /\ UNCHANGED disturbed
             \/ Refused(w) /\ disturbed' = disturbed \cup {con[w]}
       \/ Refused(w) /\ UNCHANGED <<cert, disturbed>>
    /\ UNCHANGED <<containers, keyed, default, handlerVars, destroyed, spare>>

\* Mutant of ImportEnc: the default container is asked for once more.
ImportEncToDefault(w) ==
    /\ pc[w] = "enc"
    /\ \/ /\ Goto(w, "ok") /\ default \in containers
          /\ cert' = [cert EXCEPT ![default].enc = pair[w].enc]
          /\ UNCHANGED disturbed
       \/ /\ Refused(w) /\ UNCHANGED cert
          /\ disturbed' = disturbed \cup {con[w]}
    /\ UNCHANGED <<containers, keyed, default, handlerVars, destroyed, spare>>

\* A refusal here leaves the signing certificate installed alone, unless only
\* the answer is missing.
ImportEnc(w) ==
    /\ pc[w] = "enc"
    /\ \/ /\ con[w] \in containers /\ (Goto(w, "ok") \/ Refused(w))
          /\ cert' = [cert EXCEPT ![con[w]].enc = pair[w].enc]
          /\ UNCHANGED disturbed
       \/ /\ Refused(w) /\ UNCHANGED cert
          /\ disturbed' = disturbed \cup {con[w]}
    /\ UNCHANGED <<containers, keyed, default, handlerVars, destroyed, spare>>

-----------------------------------------------------------------------------
(* POST /cert/destroy and /cert/unlock *)

AskDestroy(w) ==
    /\ Step(w, "idle", "all")
    /\ \E asked \in Destroys : todo' = [todo EXCEPT ![w] = asked]
    /\ UNCHANGED <<keyVars, default, job, con, pair, listed, historyVars>>

CertsOf(c) == {cert[c].sign, cert[c].enc} \ {NoCert}
Certificates == {e \in SNs \X containers : e[1] \in CertsOf(e[2])}

GetAllCert(w) ==
    /\ \/ /\ Step(w, "all", "del")
          /\ listed' = [listed EXCEPT ![w] = Certificates]
          /\ disturbed' = disturbed \cup {c \in containers : \E u \in Workers : Importing(u, c)}
       \/ pc[w] = "all" /\ Refused(w) /\ UNCHANGED <<listed, disturbed>>
    /\ UNCHANGED <<keyVars, default, job, con, pair, todo, destroyed, spare>>

\* Mutant of DelContainer: the key pair of a deleted container stays listed.
DelContainerKeepsKeys(c) ==
    /\ c \in containers
    /\ containers' = containers \ {c} /\ UNCHANGED keyed
    /\ cert' = [cert EXCEPT ![c] = Empty]
    /\ destroyed' = destroyed \cup {c}

\* The agent deletes a container with its key pair and certificates.
DelContainer(c) ==
    /\ c \in containers
    /\ containers' = containers \ {c} /\ keyed' = keyed \ {c}
    /\ cert' = [cert EXCEPT ![c] = Empty]
    /\ destroyed' = destroyed \cup {c}

\* Mutant of Destroy: any listed certificate matches.
DestroyAny(w) ==
    /\ pc[w] = "del" /\ UNCHANGED pc
    /\ \E sn \in todo[w] :
         /\ todo' = [todo EXCEPT ![w] = @ \ {sn}]
         /\ \/ \E c \in {e[2] : e \in listed[w]} : DelContainer(c)
            \/ UNCHANGED <<keyVars, destroyed>>
    /\ UNCHANGED <<default, job, con, pair, listed, spare, disturbed>>

\* The whole container of the listed certificate goes.  The result is
\* ignored, and the default may go on naming the container.
Destroy(w) ==
    /\ pc[w] = "del" /\ UNCHANGED pc
    /\ \E sn \in todo[w] :
         /\ todo' = [todo EXCEPT ![w] = @ \ {sn}]
         /\ \/ \E c \in Names : <<sn, c>> \in listed[w] /\ DelContainer(c)
            \/ UNCHANGED <<keyVars, destroyed>>
    /\ UNCHANGED <<default, job, con, pair, listed, spare, disturbed>>

DestroyDone(w) ==
    /\ Step(w, "del", "ok") /\ todo[w] = {}
    /\ UNCHANGED <<keyVars, default, handlerVars, historyVars>>

AskUnlock(w) ==
    /\ Step(w, "idle", "unlock")
    /\ UNCHANGED <<keyVars, default, handlerVars, historyVars>>

\* A refusal opens a message box on this thread.
UnlockPIN(w) ==
    /\ Step(w, "unlock", "ok") \/ Step(w, "unlock", "box")
    /\ UNCHANGED <<keyVars, default, handlerVars, historyVars>>

CloseBox(w) ==
    /\ Step(w, "box", "err")
    /\ UNCHANGED <<keyVars, default, handlerVars, historyVars>>

Reply(w) ==
    /\ pc[w] \in {"ok", "err"} /\ Goto(w, "idle")
    /\ con' = [con EXCEPT ![w] = NoContainer]
    /\ pair' = [pair EXCEPT ![w] = Empty]
    /\ todo' = [todo EXCEPT ![w] = {}]
    /\ listed' = [listed EXCEPT ![w] = {}]
    /\ job' = [job EXCEPT ![w] = "install"]
    /\ UNCHANGED <<keyVars, default, historyVars>>

\* POST /media, a login's MediaInfo and an insertion event read the device
\* anew, which forgets the chosen container.
GetDefualtDevice ==
    /\ default' = NoContainer
    /\ UNCHANGED <<keyVars, pc, handlerVars, historyVars>>

\* The process ends within any call, and is started again on the same key.
Restart ==
    /\ default' = NoContainer
    /\ pc' = [w \in Workers |-> "idle"]
    /\ job' = [w \in Workers |-> "install"]
    /\ con' = [w \in Workers |-> NoContainer]
    /\ pair' = [w \in Workers |-> Empty]
    /\ todo' = [w \in Workers |-> {}]
    /\ listed' = [w \in Workers |-> {}]
    /\ spare' = spare \cup {con[w] : w \in {u \in Workers : pc[u] = "keypair"}}
    /\ disturbed' = disturbed \cup {con[w] : w \in {u \in Workers : pc[u] = "enc"}}
    /\ UNCHANGED <<keyVars, destroyed>>

Ask(w) == AskRequest(w) \/ AskInstall(w) \/ AskCert(w) \/ AskDestroy(w) \/ AskUnlock(w)

Serve(w) ==
    \/ Create(w) \/ GenKeypair(w) \/ MakePkcs10(w)
    \/ Lookup(w) \/ List(w) \/ CreateDefault(w) \/ GetCert(w)
    \/ ImportSign(w) \/ ImportEnc(w)
    \/ GetAllCert(w) \/ Destroy(w) \/ DestroyDone(w)
    \/ UnlockPIN(w) \/ Reply(w)

Next ==
    \/ \E w \in Workers : Ask(w) \/ Serve(w) \/ CloseBox(w)
    \/ GetDefualtDevice \/ Restart

Spec == Init /\ [][Next]_vars

-----------------------------------------------------------------------------
(* Properties *)

\* Every variable stays in its domain.
TypeOK ==
    /\ containers \subseteq Names /\ keyed \subseteq containers
    /\ cert \in [Names -> Slots]
    /\ default \in Names \cup {NoContainer}
    /\ pc \in [Workers -> Steps]
    /\ job \in [Workers -> {"install", "getCert"}]
    /\ con \in [Workers -> Names \cup {NoContainer}]
    /\ pair \in [Workers -> Slots]
    /\ todo \in [Workers -> SUBSET SNs]
    /\ listed \in [Workers -> SUBSET (SNs \X Names)]
    /\ destroyed \subseteq Names
    /\ spare \cup disturbed \subseteq Names \cup {NoContainer}

\* A container name in use, shared or in a handler, may be stale, but only
\* because somebody deleted that container: no name is used that the key has
\* never known, however requests, lookups and deletions overlap.
StaleOnlyByDelete ==
    {default} \cup {con[w] : w \in Workers} \subseteq containers \cup destroyed \cup {NoContainer}

\* A container without a key pair is excused: it is a default made for a key
\* that had none, its request failed, or is still at work.
BareExcused ==
    \A c \in containers \ keyed :
        \/ c \in spare
        \/ \E w \in Workers : pc[w] = "keypair" /\ con[w] = c

\* Signing and encryption certificate of a container come from one request,
\* unless a request named or imported only one, as far as it could tell, or
\* two workers were at it at once: a default that changes between the imports does not split them.
PairsMatch ==
    \A c \in containers \ disturbed :
        (\A w \in Workers : ~Importing(w, c)) => cert[c] \in Installs \cup {Empty}

\* A destroy takes a container only for a certificate the caller named that
\* is in it, unless an installation got into it after the list was made.
OnlyNamedDestroyed ==
    [][\A c \in containers \ containers' :
         c \in disturbed \/ \E w \in Workers : pc[w] = "del" /\ CertsOf(c) \cap todo[w] # {}]_vars

(* The inductive invariant behind PairsMatch and OnlyNamedDestroyed *)

\* A container that is not on the key holds no certificate.
AbsentEmpty == \A c \in Names \ containers : cert[c] = Empty

\* An installation imports a pair that a caller sent.
ServesInstall ==
    \A w \in Workers :
        \/ pc[w] \in {"sign", "enc"}
        \/ pc[w] \in {"lookup", "list", "fresh"} /\ job[w] = "install"
        => pair[w] \in Installs

\* Who imports into an undisturbed container is alone there, has both
\* certificates of a pair, and has found a whole pair or none.
ImportsAlone ==
    \A w \in Workers : \A c \in Names \ disturbed : Importing(w, c) =>
        /\ NoCert \notin {pair[w].sign, pair[w].enc}
        /\ \A u \in Workers \ {w} : ~Importing(u, c)
        /\ pc[w] = "sign" => cert[c] \in Installs \cup {Empty}
        /\ pc[w] = "enc" /\ c \in containers => cert[c].sign = pair[w].sign

\* What is about to be deleted from an undisturbed container is still in it.
DeletionsAlone ==
    \A w \in Workers : \A c \in Names \ disturbed : pc[w] = "del" =>
        \A sn \in todo[w] : <<sn, c>> \in listed[w] =>
            /\ c \in containers \cup destroyed
            /\ c \in containers => sn \in CertsOf(c)
            /\ \A u \in Workers : ~Importing(u, c)

OverlapInv ==
    AbsentEmpty /\ ServesInstall /\ ImportsAlone /\ DeletionsAlone /\ PairsMatch
=============================================================================
