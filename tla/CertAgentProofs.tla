-------------------------- MODULE CertAgentProofs --------------------------
(***************************************************************************)
(* What holds of CertAgent for every set of workers, containers and        *)
(* certificates.                                                           *)
(***************************************************************************)
EXTENDS CertAgent, TLAPS

USE DEF keyVars, handlerVars, historyVars, Unheard

-----------------------------------------------------------------------------
(* Types *)

\* Use, the shared end of DefualtContainer, keeps the types of what it writes.
LEMMA UseTypes ==
    ASSUME TypeOK, NEW w \in Workers, NEW c \in Names \cup {NoContainer}, Use(w, c)
    PROVE  /\ con' \in [Workers -> Names \cup {NoContainer}]
           /\ pc' \in [Workers -> Steps]
           /\ disturbed' \subseteq Names \cup {NoContainer}
<1>1. FirstImport(w) \in Steps
  BY DEF FirstImport, Steps
<1>2. pc' \in [Workers -> Steps]
  BY <1>1 DEF TypeOK, Use, Goto, Steps
<1>3. con' \in [Workers -> Names \cup {NoContainer}] /\ disturbed' \subseteq Names \cup {NoContainer}
  BY DEF TypeOK, Use
<1> QED
  BY <1>2, <1>3

LEMMA TypeStep == TypeOK /\ [Next]_vars => TypeOK'
<1> SUFFICES ASSUME TypeOK, [Next]_vars PROVE TypeOK'
  OBVIOUS
<1> USE CertAssumption, ContainerAssumption
<1>1. ASSUME NEW w \in Workers, Ask(w) PROVE TypeOK'
  <2>1. CASE AskInstall(w)
    <3>1. PICK r \in Installs : pair' = [pair EXCEPT ![w] = r]
      BY <2>1 DEF AskInstall
    <3>2. r \in Slots
      BY InstallsAssumption
    <3> QED
      BY <2>1, <3>1, <3>2 DEF AskInstall, TypeOK, Step, Goto, Steps
  <2>2. CASE AskDestroy(w)
    BY <2>2, DestroysAssumption DEF AskDestroy, TypeOK, Step, Goto, Steps
  <2>3. CASE AskRequest(w) \/ AskCert(w) \/ AskUnlock(w)
    BY <2>3 DEF AskRequest, AskCert, AskUnlock, TypeOK, Step, Goto, Steps
  <2> QED
    BY <1>1, <2>1, <2>2, <2>3 DEF Ask
<1>2. ASSUME NEW w \in Workers, Serve(w) PROVE TypeOK'
  <2>1. CASE Create(w)
    BY <2>1 DEF Create, FreshNames, TypeOK, Step, Goto, Refused, Steps
  <2>2. CASE GenKeypair(w)
    BY <2>2 DEF GenKeypair, TypeOK, Step, Goto, Refused, Steps
  <2>3. CASE Lookup(w)
    <3>1. CASE Use(w, default)
      BY <2>3, <3>1, UseTypes DEF Lookup, TypeOK
    <3>2. CASE Step(w, "lookup", "list") /\ UNCHANGED <<con, disturbed>>
      BY <2>3, <3>2 DEF Lookup, TypeOK, Step, Goto, Steps
    <3> QED
      BY <2>3, <3>1, <3>2 DEF Lookup
  <2>4. CASE List(w)
    <3>1. default' \in Names \cup {NoContainer}
      BY <2>4 DEF List, TypeOK
    <3>2. CASE Use(w, default')
      BY <2>4, <3>1, <3>2, UseTypes DEF List, TypeOK
    <3>3. CASE Goto(w, "fresh") /\ UNCHANGED <<con, disturbed>>
      BY <2>4, <3>1, <3>3 DEF List, TypeOK, Goto, Steps
    <3> QED
      BY <2>4, <3>2, <3>3 DEF List
  <2>5. CASE CreateDefault(w)
    <3>1. default' \in Names \cup {NoContainer}
      BY <2>5 DEF CreateDefault, FreshNames, TypeOK
    <3>2. containers' \subseteq Names /\ keyed' \subseteq containers' /\ spare' \subseteq Names \cup {NoContainer}
      BY <2>5 DEF CreateDefault, FreshNames, TypeOK
    <3>3. Use(w, default')
      BY <2>5 DEF CreateDefault
    <3> QED
      BY <2>5, <3>1, <3>2, <3>3, UseTypes DEF CreateDefault, TypeOK
  <2>6. CASE ImportSign(w)
    <3>1. pair[w] \in Slots /\ pair[w].sign \in SNs \cup {NoCert}
      BY DEF TypeOK, Slots
    <3>2. cert' \in [Names -> Slots]
      BY <2>6, <3>1 DEF ImportSign, TypeOK, Slots
    <3> QED
      BY <2>6, <3>2 DEF ImportSign, TypeOK, Goto, Refused, Steps
  <2>7. CASE ImportEnc(w)
    <3>1. pair[w] \in Slots /\ pair[w].enc \in SNs \cup {NoCert}
      BY DEF TypeOK, Slots
    <3>2. cert' \in [Names -> Slots]
      BY <2>7, <3>1 DEF ImportEnc, TypeOK, Slots
    <3> QED
      BY <2>7, <3>2 DEF ImportEnc, TypeOK, Goto, Refused, Steps
  <2>8. CASE GetAllCert(w)
    <3>1. Certificates \in SUBSET (SNs \X Names)
      BY DEF Certificates, TypeOK
    <3> QED
      BY <2>8, <3>1 DEF GetAllCert, TypeOK, Step, Goto, Refused, Steps
  <2>9. CASE Destroy(w)
    <3>1. todo' \in [Workers -> SUBSET SNs]
      BY <2>9 DEF Destroy, TypeOK
    <3>2. containers' \subseteq Names /\ keyed' \subseteq containers' /\ destroyed' \subseteq Names
      BY <2>9 DEF Destroy, DelContainer, TypeOK
    <3>3. cert' \in [Names -> Slots]
      <4>1. Empty \in Slots
        BY DEF Empty, Slots
      <4>2. CASE \E c \in Names : DelContainer(c)
        BY <4>1, <4>2 DEF DelContainer, TypeOK
      <4>3. CASE UNCHANGED cert
        BY <4>3 DEF TypeOK
      <4> QED
        BY <2>9, <4>2, <4>3 DEF Destroy
    <3> QED
      BY <2>9, <3>1, <3>2, <3>3 DEF Destroy, TypeOK
  <2>10. CASE MakePkcs10(w) \/ GetCert(w) \/ DestroyDone(w) \/ UnlockPIN(w)
    BY <2>10 DEF MakePkcs10, GetCert, DestroyDone, UnlockPIN, TypeOK, Step, Goto, Refused, Steps
  <2>11. CASE Reply(w)
    BY <2>11 DEF Reply, TypeOK, Goto, Steps, Slots, Empty
  <2> QED
    BY <1>2, <2>1, <2>2, <2>3, <2>4, <2>5, <2>6, <2>7, <2>8, <2>9, <2>10, <2>11 DEF Serve
<1>3. ASSUME NEW w \in Workers, CloseBox(w) PROVE TypeOK'
  BY <1>3 DEF CloseBox, TypeOK, Step, Goto, Steps
<1>4. CASE GetDefualtDevice
  BY <1>4 DEF GetDefualtDevice, TypeOK
<1>5. CASE Restart
  BY <1>5 DEF Restart, TypeOK, Slots, Empty, Steps
<1>6. CASE UNCHANGED vars
  BY <1>6 DEF vars, TypeOK
<1> QED
  BY <1>1, <1>2, <1>3, <1>4, <1>5, <1>6 DEF Next

\* The variables of CertAgent keep their domains; in particular only a
\* container on the key has a key pair.
THEOREM CertTypeCorrect == Spec => []TypeOK
<1>1. Init => TypeOK
  BY DEF Init, TypeOK, Steps, Slots, Empty
<1> QED
  BY <1>1, TypeStep, PTL DEF Spec

-----------------------------------------------------------------------------
(* Names and key pairs *)

\* A name is stale only by a deletion: containers \cup destroyed only grows,
\* and each write of a name takes one from there.
LEMMA StaleStep == TypeOK /\ StaleOnlyByDelete /\ [Next]_vars => StaleOnlyByDelete'
<1> SUFFICES ASSUME TypeOK, StaleOnlyByDelete, [Next]_vars PROVE StaleOnlyByDelete'
  OBVIOUS
<1> DEFINE Seen == containers \cup destroyed \cup {NoContainer}
<1>1. Seen \subseteq Seen'
  <2>1. CASE \E c \in Names : DelContainer(c)
    BY <2>1 DEF DelContainer
  <2>2. CASE containers \subseteq containers' /\ destroyed' = destroyed
    BY <2>2
  <2>3. ASSUME NEW w \in Workers, Ask(w) PROVE containers' = containers /\ destroyed' = destroyed
    BY <2>3 DEF Ask, AskRequest, AskInstall, AskCert, AskDestroy, AskUnlock
  <2>4. ASSUME NEW w \in Workers, Serve(w), ~Destroy(w)
        PROVE  containers \subseteq containers' /\ destroyed' = destroyed
    BY <2>4 DEF Serve, Create, GenKeypair, MakePkcs10, Lookup, List, CreateDefault, GetCert,
       ImportSign, ImportEnc, GetAllCert, DestroyDone, UnlockPIN, Reply
  <2>5. ASSUME NEW w \in Workers, Destroy(w)
        PROVE  (\E c \in Names : DelContainer(c)) \/ UNCHANGED <<containers, destroyed>>
    BY <2>5 DEF Destroy
  <2>6. ASSUME NEW w \in Workers, CloseBox(w) PROVE UNCHANGED <<containers, destroyed>>
    BY <2>6 DEF CloseBox
  <2>7. CASE GetDefualtDevice \/ Restart \/ UNCHANGED vars
    BY <2>7, <2>2 DEF GetDefualtDevice, Restart, vars
  <2> QED
    BY <2>1, <2>2, <2>3, <2>4, <2>5, <2>6, <2>7 DEF Next
<1>2. default' \in Seen'
  <2>1. default \in Seen
    BY DEF StaleOnlyByDelete
  <2>2. ASSUME NEW w \in Workers, Ask(w) PROVE default' = default
    BY <2>2 DEF Ask, AskRequest, AskInstall, AskCert, AskDestroy, AskUnlock
  <2>3. ASSUME NEW w \in Workers, Serve(w) PROVE default' \in {default} \cup containers'
    BY <2>3 DEF Serve, Create, GenKeypair, MakePkcs10, Lookup, List, CreateDefault, GetCert,
       ImportSign, ImportEnc, GetAllCert, Destroy, DestroyDone, UnlockPIN, Reply
  <2>4. ASSUME NEW w \in Workers, CloseBox(w) PROVE default' = default
    BY <2>4 DEF CloseBox
  <2>5. CASE GetDefualtDevice \/ Restart \/ UNCHANGED vars
    BY <2>5, <2>1, <1>1 DEF GetDefualtDevice, Restart, vars
  <2> QED
    BY <1>1, <2>1, <2>2, <2>3, <2>4, <2>5 DEF Next
<1>3. ASSUME NEW u \in Workers PROVE con'[u] \in Seen'
  <2>1. con[u] \in Seen
    BY DEF StaleOnlyByDelete
  <2>2. ASSUME NEW w \in Workers, Ask(w) PROVE con' = con
    BY <2>2 DEF Ask, AskRequest, AskInstall, AskCert, AskDestroy, AskUnlock
  <2>3. ASSUME NEW w \in Workers, Serve(w)
        PROVE  con'[u] \in {con[u], default, default', NoContainer}
    <3>1. CASE Create(w) \/ Lookup(w) \/ List(w) \/ CreateDefault(w) \/ Reply(w)
      BY <3>1 DEF Create, Lookup, List, CreateDefault, Reply, Use, TypeOK
    <3>2. CASE con' = con
      BY <3>2
    <3> QED
      BY <2>3, <3>1, <3>2 DEF Serve, GenKeypair, MakePkcs10, GetCert,
         ImportSign, ImportEnc, GetAllCert, Destroy, DestroyDone, UnlockPIN
  <2>4. ASSUME NEW w \in Workers, CloseBox(w) PROVE con' = con
    BY <2>4 DEF CloseBox
  <2>5. CASE GetDefualtDevice \/ Restart \/ UNCHANGED vars
    BY <2>5, <2>1, <1>1 DEF GetDefualtDevice, Restart, vars
  <2>6. default \in Seen
    BY DEF StaleOnlyByDelete
  <2> HIDE DEF Seen
  <2>7. NoContainer \in Seen
    BY DEF Seen
  <2> QED
    BY <1>1, <1>2, <2>1, <2>2, <2>3, <2>4, <2>5, <2>6, <2>7 DEF Next
<1> QED
  BY <1>2, <1>3 DEF StaleOnlyByDelete

\* No handler ever works with a container name that the key has not known
\* (wrappkiagent.cpp: DefualtContainer and MakePkcs10 race).
THEOREM StaleOnlyByDeleteHolds == Spec => []StaleOnlyByDelete
<1>1. Init => StaleOnlyByDelete
  BY DEF Init, StaleOnlyByDelete
<1> QED
  BY <1>1, StaleStep, CertTypeCorrect, PTL DEF Spec

\* Only the container a request has just made is bare without excuse.
LEMMA BareStep == TypeOK /\ BareExcused /\ [Next]_vars => BareExcused'
<1> SUFFICES ASSUME TypeOK, BareExcused, [Next]_vars,
                    NEW c \in containers', c \notin keyed', c \notin spare'
             PROVE  \E w \in Workers : pc'[w] = "keypair" /\ con'[w] = c
  BY DEF BareExcused
<1> DEFINE Request(w) == pc[w] = "keypair" /\ con[w] = c
<1>1. ASSUME NEW w \in Workers, Create(w)
      PROVE  \E u \in Workers : pc'[u] = "keypair" /\ con'[u] = c
  <2>1. CASE c \in containers
    <3>1. PICK u \in Workers : Request(u)
      BY <1>1, <2>1 DEF Create, BareExcused
    <3>2. u # w
      BY <1>1, <3>1 DEF Create, Step
    <3> QED
      BY <1>1, <3>1, <3>2 DEF Create, Step, Goto, Refused, TypeOK
  <2>2. CASE c \notin containers
    BY <1>1, <2>2 DEF Create, Step, Goto, Refused, TypeOK, Steps
  <2> QED
    BY <2>1, <2>2
<1>2. ASSUME NEW w \in Workers, CreateDefault(w) PROVE c \in containers /\ c \notin keyed /\ c \notin spare
  BY <1>2 DEF CreateDefault
<1>3. ASSUME NEW w \in Workers, Serve(w), ~Create(w), ~CreateDefault(w)
      PROVE  c \in containers /\ c \notin keyed /\ c \notin spare
  BY <1>3 DEF Serve, GenKeypair, MakePkcs10, Lookup, List, GetCert, ImportSign, ImportEnc,
     GetAllCert, Destroy, DelContainer, DestroyDone, UnlockPIN, Reply
<1>4. ASSUME NEW w \in Workers, Serve(w), ~Create(w), NEW u \in Workers, Request(u)
      PROVE  pc'[u] = "keypair" /\ con'[u] = c
  <2>1. CASE u = w
    <3>1. GenKeypair(w)
      BY <1>4, <2>1 DEF Serve, CreateDefault, MakePkcs10, Lookup, List, GetCert, ImportSign,
         ImportEnc, GetAllCert, Destroy, DestroyDone, UnlockPIN, Reply, Step
    <3> QED
      BY <1>4, <2>1, <3>1 DEF GenKeypair, Step
  <2>2. CASE u # w
    <3>1. ASSUME NEW to, Goto(w, to) PROVE pc'[u] = pc[u]
      BY <3>1, <2>2 DEF Goto, TypeOK
    <3>2. ASSUME NEW d, Use(w, d) PROVE pc'[u] = pc[u] /\ con'[u] = con[u]
      BY <3>1, <3>2, <2>2 DEF Use, TypeOK
    <3>3. pc'[u] = pc[u] /\ con'[u] = con[u]
      <4>1. CASE Lookup(w) \/ List(w) \/ CreateDefault(w)
        BY <4>1, <3>1, <3>2 DEF Lookup, List, CreateDefault, Step
      <4>2. CASE Reply(w) \/ Destroy(w)
        BY <4>2, <3>1, <2>2 DEF Reply, Destroy, TypeOK
      <4>3. CASE GenKeypair(w) \/ MakePkcs10(w) \/ GetCert(w) \/ DestroyDone(w) \/ UnlockPIN(w)
        BY <4>3, <3>1 DEF GenKeypair, MakePkcs10, GetCert, DestroyDone, UnlockPIN, Step, Refused
      <4>4. CASE ImportSign(w) \/ ImportEnc(w) \/ GetAllCert(w)
        BY <4>4, <3>1 DEF ImportSign, ImportEnc, GetAllCert, Step, Refused
      <4> QED
        BY <1>4, <4>1, <4>2, <4>3, <4>4 DEF Serve
    <3> QED
      BY <1>4, <3>3
  <2> QED
    BY <2>1, <2>2
<1>5. ASSUME NEW w \in Workers, Ask(w) \/ CloseBox(w)
      PROVE  /\ c \in containers /\ c \notin keyed /\ c \notin spare
             /\ \A u \in Workers : Request(u) => pc'[u] = "keypair" /\ con'[u] = c
  <2>1. c \in containers /\ c \notin keyed /\ c \notin spare /\ con' = con
    BY <1>5 DEF Ask, AskRequest, AskInstall, AskCert, AskDestroy, AskUnlock, CloseBox
  <2>2. pc[w] # "keypair" /\ \E to \in Steps : pc' = [pc EXCEPT ![w] = to]
    BY <1>5 DEF Ask, AskRequest, AskInstall, AskCert, AskDestroy, AskUnlock, CloseBox, Step, Goto, Steps
  <2> QED
    BY <2>1, <2>2 DEF TypeOK
<1>6. CASE GetDefualtDevice \/ Restart \/ UNCHANGED vars
  BY <1>6 DEF GetDefualtDevice, Restart, vars, BareExcused
<1> QED
  BY <1>1, <1>2, <1>3, <1>4, <1>5, <1>6 DEF Next, BareExcused

\* MakePkcs10 never reports success for a container it left without a key
\* pair: every bare container has a failed request or a default to explain it.
THEOREM BareExcusedHolds == Spec => []BareExcused
<1>1. Init => BareExcused
  BY DEF Init, BareExcused
<1> QED
  BY <1>1, BareStep, CertTypeCorrect, PTL DEF Spec

-----------------------------------------------------------------------------
(* Overlapping installations and deletions *)

\* What a step of w leaves to the other workers.
Others(w) ==
    \A u \in Workers \ {w} :
        /\ pc'[u] = pc[u] /\ job'[u] = job[u] /\ con'[u] = con[u] /\ pair'[u] = pair[u]
        /\ todo'[u] = todo[u] /\ listed'[u] = listed[u]

\* Containers are only added, and only new ones.
Grows ==
    /\ containers \subseteq containers' /\ containers' \ containers \subseteq FreshNames
    /\ destroyed' = destroyed /\ cert' = cert

\* Nobody imports into a container the key has never had.
LEMMA ImporterKnows ==
    ASSUME StaleOnlyByDelete, NEW u \in Workers, NEW c \in Names, Importing(u, c)
    PROVE  c \in containers \cup destroyed
BY ContainerAssumption DEF StaleOnlyByDelete, Importing

\* A step after which w imports nothing, and before which it did not leave
\* half a pair behind.
LEMMA QuietStep ==
    ASSUME TypeOK, TypeOK', StaleOnlyByDelete, OverlapInv, NEW w \in Workers,
           Others(w), Grows, disturbed' = disturbed,
           pc[w] # "enc", pc'[w] \notin {"sign", "enc"},
           pc'[w] = "del" => pc[w] = "del" /\ todo'[w] \subseteq todo[w] /\ listed'[w] = listed[w],
           pc'[w] \in {"lookup", "list", "fresh"} /\ job'[w] = "install" => pair'[w] \in Installs
    PROVE  OverlapInv'
<1>1. \A u \in Workers, c \in Names :
         Importing(u, c)' => Importing(u, c) /\ pc'[u] = pc[u] /\ pair'[u] = pair[u]
                             /\ c \in containers \cup destroyed
  <2> SUFFICES ASSUME NEW u \in Workers, NEW c \in Names, Importing(u, c)'
               PROVE  Importing(u, c) /\ pc'[u] = pc[u] /\ pair'[u] = pair[u]
    BY ImporterKnows
  <2> QED
    BY DEF Importing, Others
<1>2. AbsentEmpty'
  BY DEF OverlapInv, AbsentEmpty, Grows
<1>3. ServesInstall'
  BY DEF OverlapInv, ServesInstall, Others
<1>4. ImportsAlone'
  BY <1>1 DEF OverlapInv, ImportsAlone, Grows, FreshNames
<1>5. DeletionsAlone'
  <2> SUFFICES ASSUME NEW v \in Workers, NEW c \in Names \ disturbed, pc'[v] = "del",
                      NEW sn \in todo'[v], <<sn, c>> \in listed'[v]
               PROVE  /\ c \in containers' \cup destroyed'
                      /\ c \in containers' => sn \in CertsOf(c)'
                      /\ \A u \in Workers : ~Importing(u, c)'
    BY DEF DeletionsAlone
  <2>1. pc[v] = "del" /\ sn \in todo[v] /\ <<sn, c>> \in listed[v]
    BY DEF Others
  <2>2. /\ c \in containers \cup destroyed
        /\ c \in containers => sn \in CertsOf(c)
        /\ \A u \in Workers : ~Importing(u, c)
    BY <2>1 DEF OverlapInv, DeletionsAlone
  <2> QED
    BY <2>2, <1>1 DEF Grows, FreshNames, CertsOf
<1>6. PairsMatch'
  <2> SUFFICES ASSUME NEW c \in containers' \ disturbed, \A u \in Workers : ~Importing(u, c)'
               PROVE  cert[c] \in Installs \cup {Empty}
    BY DEF PairsMatch, Grows
  <2>1. CASE c \notin containers
    BY <2>1 DEF OverlapInv, AbsentEmpty, TypeOK
  <2>2. CASE c \in containers /\ \E u \in Workers : Importing(u, c)
    <3>1. Importing(w, c)
      BY <2>2 DEF Importing, Others
    <3> QED
      BY <3>1, <2>2 DEF OverlapInv, ImportsAlone, Importing, TypeOK
  <2>3. CASE c \in containers /\ \A u \in Workers : ~Importing(u, c)
    BY <2>3 DEF OverlapInv, PairsMatch
  <2> QED
    BY <2>1, <2>2, <2>3
<1> QED
  BY <1>2, <1>3, <1>4, <1>5, <1>6 DEF OverlapInv

\* A worker that gets its container name.
LEMMA UseStep ==
    ASSUME TypeOK, TypeOK', StaleOnlyByDelete, OverlapInv, NEW w \in Workers,
           pc[w] \in {"lookup", "list", "fresh"}, Others(w), Grows,
           UNCHANGED <<job, pair>>, NEW d \in Names \cup {NoContainer}, Use(w, d)
    PROVE  OverlapInv'
<1>0. pc'[w] = CASE job[w] = "getCert" -> "getCert"
                 [] d = NoContainer -> "err"
                 [] OTHER -> FirstImport(w)
  BY DEF Use, Goto, TypeOK
<1>1. con'[w] = d /\ disturbed \subseteq disturbed'
  BY DEF Use, TypeOK
<1>2. CASE pc'[w] \notin {"sign", "enc"} /\ disturbed' = disturbed
  <2>1. pc'[w] \in {"getCert", "err", "ok"}
    BY <1>0, <1>2 DEF FirstImport
  <2> QED
    BY <1>2, <2>1, QuietStep
<1>3. CASE pc'[w] \in {"sign", "enc"} \/ disturbed' # disturbed
  <2>1. job[w] = "install" /\ pair[w] \in Installs
    <3>1. job[w] = "install"
      BY <1>3, <1>0 DEF Use, TypeOK
    <3> QED
      BY <3>1 DEF OverlapInv, ServesInstall
  <2>2. \A u \in Workers \ {w}, c \in Names :
          Importing(u, c)' => Importing(u, c) /\ pc'[u] = pc[u] /\ pair'[u] = pair[u]
                              /\ c \in containers \cup destroyed
    <3> SUFFICES ASSUME NEW u \in Workers \ {w}, NEW c \in Names, Importing(u, c)'
                 PROVE  Importing(u, c) /\ pc'[u] = pc[u] /\ pair'[u] = pair[u]
      BY ImporterKnows
    <3> QED
      BY DEF Importing, Others
  <2>3. \A c \in Names : Importing(w, c)' => c = d
    BY <1>1 DEF Importing
  <2>4. d \notin disturbed' =>
          /\ ~HalfPair(pair[w])
          /\ \A u \in Workers \ {w} : ~Importing(u, d) /\ ~Deleting(u, d)
    BY <2>1, <1>1 DEF Use
  <2>5. AbsentEmpty'
    BY DEF OverlapInv, AbsentEmpty, Grows
  <2>6. ServesInstall'
    BY <2>1 DEF OverlapInv, ServesInstall, Others
  <2>7. d \in Names \ disturbed' => cert[d] \in Installs \cup {Empty}
    <3> SUFFICES ASSUME d \in Names \ disturbed' PROVE cert[d] \in Installs \cup {Empty}
      OBVIOUS
    <3>1. CASE d \notin containers
      BY <3>1 DEF OverlapInv, AbsentEmpty
    <3>2. CASE d \in containers
      <4>1. \A u \in Workers : ~Importing(u, d)
        BY <2>4 DEF Importing
      <4> QED
        BY <3>2, <4>1, <1>1 DEF OverlapInv, PairsMatch
    <3> QED
      BY <3>1, <3>2
  <2>8. ImportsAlone'
    <3> SUFFICES ASSUME NEW v \in Workers, NEW c \in Names \ disturbed', Importing(v, c)'
                 PROVE  /\ NoCert \notin {pair'[v].sign, pair'[v].enc}
                        /\ \A u \in Workers \ {v} : ~Importing(u, c)'
                        /\ pc'[v] = "sign" => cert'[c] \in Installs \cup {Empty}
                        /\ pc'[v] = "enc" /\ c \in containers' => cert'[c].sign = pair'[v].sign
      BY DEF ImportsAlone
    <3>1. CASE v = w
      <4>1. c = d
        BY <2>3, <3>1
      <4>2. NoCert \notin {pair[w].sign, pair[w].enc} /\ pc'[w] = "sign"
        <5>1. pc'[w] = FirstImport(w) /\ pc'[w] \in {"sign", "enc"}
          BY <3>1, <1>0, <2>1, <4>1, ContainerAssumption DEF Importing
        <5>2. pair[w].sign # NoCert \/ pair[w].enc # NoCert
          BY <5>1 DEF FirstImport
        <5>3. pair[w] # Empty
          BY <5>2 DEF Empty
        <5> QED
          BY <5>1, <5>3, <2>4, <4>1 DEF HalfPair, FirstImport
      <4>3. \A u \in Workers \ {w} : ~Importing(u, c)'
        BY <2>2, <2>4, <4>1
      <4> QED
        BY <3>1, <4>1, <4>2, <4>3, <2>7 DEF Grows
    <3>2. CASE v # w
      <4>1. Importing(v, c) /\ pc'[v] = pc[v] /\ pair'[v] = pair[v] /\ c \in containers \cup destroyed
        BY <2>2, <3>2
      <4>2. c # d \/ ~Importing(w, c)'
        BY <2>4, <3>2, <4>1
      <4>3. \A u \in Workers \ {v} : ~Importing(u, c)'
        BY <2>2, <2>3, <4>1, <4>2, <1>1 DEF OverlapInv, ImportsAlone
      <4> QED
        BY <4>1, <4>3, <1>1 DEF OverlapInv, ImportsAlone, Grows, FreshNames
    <3> QED
      BY <3>1, <3>2
  <2>9. DeletionsAlone'
    <3> SUFFICES ASSUME NEW v \in Workers, NEW c \in Names \ disturbed', pc'[v] = "del",
                        NEW sn \in todo'[v], <<sn, c>> \in listed'[v]
                 PROVE  /\ c \in containers' \cup destroyed'
                        /\ c \in containers' => sn \in CertsOf(c)'
                        /\ \A u \in Workers : ~Importing(u, c)'
      BY DEF DeletionsAlone
    <3>1. v # w
      BY <1>0 DEF FirstImport
    <3>2. pc[v] = "del" /\ sn \in todo[v] /\ <<sn, c>> \in listed[v]
      BY <3>1 DEF Others
    <3>3. /\ c \in containers \cup destroyed
          /\ c \in containers => sn \in CertsOf(c)
          /\ \A u \in Workers : ~Importing(u, c)
      BY <3>2, <1>1 DEF OverlapInv, DeletionsAlone
    <3>4. ~Importing(w, c)'
      BY <2>3, <2>4, <3>1, <3>2 DEF Deleting
    <3> QED
      BY <3>3, <3>4, <2>2 DEF Grows, FreshNames, CertsOf
  <2>10. PairsMatch'
    <3> SUFFICES ASSUME NEW c \in containers' \ disturbed', \A u \in Workers : ~Importing(u, c)'
                 PROVE  cert[c] \in Installs \cup {Empty}
      BY DEF PairsMatch, Grows
    <3>1. \A u \in Workers : ~Importing(u, c)
      BY DEF Importing, Others
    <3>2. CASE c \in containers
      BY <3>1, <3>2, <1>1 DEF OverlapInv, PairsMatch
    <3>3. CASE c \notin containers
      BY <3>3 DEF OverlapInv, AbsentEmpty, TypeOK
    <3> QED
      BY <3>2, <3>3
  <2> QED
    BY <2>5, <2>6, <2>8, <2>9, <2>10 DEF OverlapInv
<1> QED
  BY <1>2, <1>3

\* An import of the signing certificate.
LEMMA ImportSignStep ==
    ASSUME TypeOK, TypeOK', StaleOnlyByDelete, OverlapInv, NEW w \in Workers,
           ImportSign(w), Others(w)
    PROVE  OverlapInv'
<1>1. CASE Refused(w) /\ UNCHANGED <<cert, disturbed>>
  <2>1. pc'[w] = "err" /\ pc[w] = "sign" /\ Grows /\ disturbed' = disturbed
    BY <1>1 DEF ImportSign, Refused, Goto, TypeOK, Grows
  <2> QED
    BY <2>1, QuietStep
<1>2. CASE /\ con[w] \in containers
           /\ cert' = [cert EXCEPT ![con[w]].sign = pair[w].sign]
           /\ \/ /\ Goto(w, IF pair[w].enc = NoCert THEN "ok" ELSE "enc")
                 /\ UNCHANGED disturbed
              \/ Refused(w) /\ disturbed' = disturbed \cup {con[w]}
  <2> DEFINE c0 == con[w]
  <2>1. /\ pc[w] = "sign" /\ c0 \in containers
        /\ cert' = [cert EXCEPT ![c0].sign = pair[w].sign]
        /\ \/ disturbed' = disturbed /\ pc'[w] = IF pair[w].enc = NoCert THEN "ok" ELSE "enc"
           \/ disturbed' = disturbed \cup {c0} /\ pc'[w] = "err"
        /\ UNCHANGED <<containers, con, pair, destroyed, job, todo, listed>>
    BY <1>2 DEF ImportSign, Goto, Refused, TypeOK
  <2>a. disturbed \subseteq disturbed'
    BY <2>1
  <2>2. \A u \in Workers, c \in Names : Importing(u, c)' => Importing(u, c)
    BY <2>1 DEF Importing, Others
  <2>3. \A u \in Workers \ {w}, c \in Names : Importing(u, c)' <=> Importing(u, c)
    BY <2>1 DEF Importing, Others
  <2>4. Importing(w, c0) /\ \A c \in Names : c # c0 => ~Importing(w, c) /\ cert'[c] = cert[c]
    BY <2>1 DEF Importing, TypeOK
  <2>5. cert'[c0].sign = pair[w].sign
    BY <2>1 DEF TypeOK, Slots
  <2>6. AbsentEmpty'
    BY <2>1, <2>4 DEF OverlapInv, AbsentEmpty
  <2>7. ServesInstall'
    BY <2>1 DEF OverlapInv, ServesInstall, Others
  <2>8. ImportsAlone'
    <3> SUFFICES ASSUME NEW v \in Workers, NEW c \in Names \ disturbed', Importing(v, c)'
                 PROVE  /\ NoCert \notin {pair[v].sign, pair[v].enc}
                        /\ \A u \in Workers \ {v} : ~Importing(u, c)'
                        /\ pc'[v] = "sign" => cert'[c] \in Installs \cup {Empty}
                        /\ pc'[v] = "enc" /\ c \in containers => cert'[c].sign = pair[v].sign
      BY <2>1 DEF ImportsAlone
    <3>1. NoCert \notin {pair[v].sign, pair[v].enc} /\ \A u \in Workers \ {v} : ~Importing(u, c)'
      BY <2>a, <2>2 DEF OverlapInv, ImportsAlone
    <3>2. CASE v = w
      BY <3>1, <3>2, <2>1, <2>2, <2>4, <2>5
    <3>3. CASE v # w
      <4>1. Importing(v, c) /\ c # c0 /\ pc'[v] = pc[v]
        BY <3>3, <2>a, <2>2, <2>4 DEF OverlapInv, ImportsAlone, Others
      <4> QED
        BY <3>1, <4>1, <2>a, <2>4 DEF OverlapInv, ImportsAlone
    <3> QED
      BY <3>2, <3>3
  <2>9. DeletionsAlone'
    <3> SUFFICES ASSUME NEW v \in Workers, NEW c \in Names \ disturbed', pc'[v] = "del",
                        NEW sn \in todo[v], <<sn, c>> \in listed[v]
                 PROVE  /\ c \in containers \cup destroyed
                        /\ c \in containers => sn \in CertsOf(c)'
                        /\ \A u \in Workers : ~Importing(u, c)'
      BY <2>1 DEF DeletionsAlone
    <3>1. pc[v] = "del"
      BY <2>1 DEF Others
    <3>2. /\ c \in containers \cup destroyed
          /\ c \in containers => sn \in CertsOf(c)
          /\ \A u \in Workers : ~Importing(u, c)
      BY <2>a, <3>1 DEF OverlapInv, DeletionsAlone
    <3>3. c # c0
      BY <3>2, <2>4
    <3> QED
      BY <3>2, <3>3, <2>2, <2>4 DEF CertsOf
  <2>10. PairsMatch'
    <3> SUFFICES ASSUME NEW c \in containers \ disturbed', \A u \in Workers : ~Importing(u, c)'
                 PROVE  cert'[c] \in Installs \cup {Empty}
      BY <2>1 DEF PairsMatch
    <3>1. c \in Names
      BY DEF TypeOK
    <3>2. c # c0
      <4> SUFFICES ASSUME c = c0 PROVE FALSE
        OBVIOUS
      <4>1. pair[w].enc # NoCert
        BY <2>a, <3>1, <2>4 DEF OverlapInv, ImportsAlone
      <4>2. pc'[w] = "enc" /\ con'[w] = c0
        BY <4>1, <2>1
      <4> QED
        BY <4>2 DEF Importing
    <3>3. \A u \in Workers : ~Importing(u, c)
      BY <3>1, <3>2, <2>3, <2>4
    <3> QED
      BY <2>a, <3>1, <3>2, <3>3, <2>4 DEF OverlapInv, PairsMatch
  <2> QED
    BY <2>6, <2>7, <2>8, <2>9, <2>10 DEF OverlapInv
<1> QED
  BY <1>1, <1>2 DEF ImportSign

\* An import of the encryption certificate completes a pair, or disturbs it.
LEMMA ImportEncStep ==
    ASSUME TypeOK, TypeOK', StaleOnlyByDelete, OverlapInv, NEW w \in Workers,
           ImportEnc(w), Others(w)
    PROVE  OverlapInv'
<1> DEFINE c0 == con[w]
<1>1. /\ pc[w] = "enc" /\ pc'[w] \in {"ok", "err"}
      /\ UNCHANGED <<containers, con, pair, destroyed, job, todo, listed>>
      /\ \/ /\ c0 \in containers /\ disturbed' = disturbed
            /\ cert' = [cert EXCEPT ![c0].enc = pair[w].enc]
         \/ cert' = cert /\ disturbed' = disturbed \cup {c0}
  BY DEF ImportEnc, Goto, Refused, TypeOK
<1>2. \A u \in Workers, c \in Names : Importing(u, c)' => u # w /\ Importing(u, c)
  BY <1>1 DEF Importing, Others
<1>3. \A u \in Workers \ {w}, c \in Names : Importing(u, c)' <=> Importing(u, c)
  BY <1>1 DEF Importing, Others
<1>4. Importing(w, c0) /\ \A c \in Names : c # c0 => ~Importing(w, c) /\ cert'[c] = cert[c]
  BY <1>1 DEF Importing, TypeOK
<1>5. AbsentEmpty'
  BY <1>1, <1>4 DEF OverlapInv, AbsentEmpty
<1>6. ServesInstall'
  BY <1>1 DEF OverlapInv, ServesInstall, Others
<1>7. ImportsAlone'
  <2> SUFFICES ASSUME NEW v \in Workers, NEW c \in Names \ disturbed', Importing(v, c)'
               PROVE  /\ NoCert \notin {pair[v].sign, pair[v].enc}
                      /\ \A u \in Workers \ {v} : ~Importing(u, c)'
                      /\ pc'[v] = "sign" => cert'[c] \in Installs \cup {Empty}
                      /\ pc'[v] = "enc" /\ c \in containers => cert'[c].sign = pair[v].sign
    BY <1>1 DEF ImportsAlone
  <2>1. v # w /\ Importing(v, c) /\ c \notin disturbed /\ pc'[v] = pc[v]
    BY <1>1, <1>2 DEF Others
  <2>2. c # c0
    BY <2>1, <1>4 DEF OverlapInv, ImportsAlone
  <2> QED
    BY <2>1, <2>2, <1>2, <1>4 DEF OverlapInv, ImportsAlone
<1>8. DeletionsAlone'
  <2> SUFFICES ASSUME NEW v \in Workers, NEW c \in Names \ disturbed', pc'[v] = "del",
                      NEW sn \in todo[v], <<sn, c>> \in listed[v]
               PROVE  /\ c \in containers \cup destroyed
                      /\ c \in containers => sn \in CertsOf(c)'
                      /\ \A u \in Workers : ~Importing(u, c)'
    BY <1>1 DEF DeletionsAlone
  <2>1. pc[v] = "del" /\ c \notin disturbed
    BY <1>1 DEF Others
  <2>2. /\ c \in containers \cup destroyed
        /\ c \in containers => sn \in CertsOf(c)
        /\ \A u \in Workers : ~Importing(u, c)
    BY <2>1 DEF OverlapInv, DeletionsAlone
  <2>3. c # c0
    BY <2>2, <1>4
  <2> QED
    BY <2>2, <2>3, <1>2, <1>4 DEF CertsOf
<1>9. PairsMatch'
  <2> SUFFICES ASSUME NEW c \in containers \ disturbed', \A u \in Workers : ~Importing(u, c)'
               PROVE  cert'[c] \in Installs \cup {Empty}
    BY <1>1 DEF PairsMatch
  <2>1. c \in Names /\ c \notin disturbed
    BY <1>1 DEF TypeOK
  <2>2. CASE c = c0
    <3>1. cert' = [cert EXCEPT ![c0].enc = pair[w].enc]
      BY <2>2, <1>1
    <3>2. cert[c0].sign = pair[w].sign
      BY <2>1, <2>2, <1>1, <1>4 DEF OverlapInv, ImportsAlone
    <3>3. cert[c0] \in Slots /\ pair[w] \in Slots
      BY <2>1, <2>2 DEF TypeOK
    <3>4. cert'[c0] = pair[w]
      BY <2>1, <2>2, <3>1, <3>2, <3>3 DEF TypeOK, Slots
    <3>5. pair[w] \in Installs
      BY <1>1 DEF OverlapInv, ServesInstall
    <3> QED
      BY <2>2, <3>4, <3>5
  <2>3. CASE c # c0
    <3>1. \A u \in Workers : ~Importing(u, c)
      BY <2>1, <2>3, <1>3, <1>4
    <3> QED
      BY <2>1, <2>3, <3>1, <1>4 DEF OverlapInv, PairsMatch
  <2> QED
    BY <2>2, <2>3
<1> QED
  BY <1>5, <1>6, <1>7, <1>8, <1>9 DEF OverlapInv

\* A listing disturbs what is being imported into.
LEMMA GetAllCertStep ==
    ASSUME TypeOK, TypeOK', StaleOnlyByDelete, OverlapInv, NEW w \in Workers,
           GetAllCert(w), Others(w)
    PROVE  OverlapInv'
<1>1. CASE Refused(w) /\ UNCHANGED <<listed, disturbed>>
  <2>1. pc'[w] = "err" /\ pc[w] = "all" /\ Grows
    BY <1>1 DEF GetAllCert, Refused, Step, Goto, TypeOK, Grows
  <2> QED
    BY <1>1, <2>1, QuietStep
<1>2. CASE /\ Step(w, "all", "del")
           /\ listed' = [listed EXCEPT ![w] = Certificates]
           /\ disturbed' = disturbed \cup {c \in containers : \E u \in Workers : Importing(u, c)}
  <2>1. /\ pc[w] = "all" /\ pc'[w] = "del" /\ listed'[w] = Certificates
        /\ UNCHANGED <<containers, cert, con, pair, destroyed, job, todo>>
    BY <1>2 DEF GetAllCert, Step, Goto, TypeOK
  <2>2. \A u \in Workers, c \in Names :
          (Importing(u, c)' <=> Importing(u, c)) /\ (Importing(u, c) => u # w /\ pc'[u] = pc[u])
    BY <2>1 DEF Importing, Others
  <2>3. disturbed \subseteq disturbed'
    BY <1>2
  <2>4. AbsentEmpty'
    BY <2>1 DEF OverlapInv, AbsentEmpty
  <2>5. ServesInstall'
    BY <2>1 DEF OverlapInv, ServesInstall, Others
  <2>6. ImportsAlone'
    BY <2>1, <2>2, <2>3 DEF OverlapInv, ImportsAlone
  <2>7. DeletionsAlone'
    <3> SUFFICES ASSUME NEW v \in Workers, NEW c \in Names \ disturbed', pc'[v] = "del",
                        NEW sn \in todo[v], <<sn, c>> \in listed'[v]
                 PROVE  /\ c \in containers \cup destroyed
                        /\ c \in containers => sn \in CertsOf(c)
                        /\ \A u \in Workers : ~Importing(u, c)'
      BY <2>1 DEF DeletionsAlone, CertsOf
    <3>1. CASE v = w
      <4>1. c \in containers /\ sn \in CertsOf(c)
        BY <3>1, <2>1 DEF Certificates
      <4>2. \A u \in Workers : ~Importing(u, c)
        BY <4>1, <1>2
      <4> QED
        BY <4>1, <4>2, <2>2
    <3>2. CASE v # w
      <4>1. pc[v] = "del" /\ <<sn, c>> \in listed[v] /\ c \notin disturbed
        BY <3>2, <2>3 DEF Others
      <4> QED
        BY <4>1, <2>2 DEF OverlapInv, DeletionsAlone
    <3> QED
      BY <3>1, <3>2
  <2>8. PairsMatch'
    BY <2>1, <2>2, <2>3 DEF OverlapInv, PairsMatch, TypeOK
  <2> QED
    BY <2>4, <2>5, <2>6, <2>7, <2>8 DEF OverlapInv
<1> QED
  BY <1>1, <1>2 DEF GetAllCert

\* A deletion takes a container, its certificates and nothing else.
LEMMA DestroyStep ==
    ASSUME TypeOK, TypeOK', StaleOnlyByDelete, OverlapInv, NEW w \in Workers,
           Destroy(w), Others(w)
    PROVE  OverlapInv'
<1>1. /\ pc' = pc /\ todo'[w] \subseteq todo[w]
      /\ UNCHANGED <<con, pair, job, listed, disturbed>>
  BY DEF Destroy, TypeOK
<1>2. \A v \in Workers : todo'[v] \subseteq todo[v]
  BY <1>1 DEF Others
<1>3. CASE UNCHANGED <<keyVars, destroyed>>
  <2>1. Grows /\ pc[w] = "del"
    BY <1>3 DEF Grows, Destroy
  <2> QED
    BY <1>1, <2>1, QuietStep
<1>4. ASSUME NEW c0 \in Names, DelContainer(c0) PROVE OverlapInv'
  <2>1. /\ containers' = containers \ {c0} /\ destroyed' = destroyed \cup {c0}
        /\ cert'[c0] = Empty /\ \A c \in Names : c # c0 => cert'[c] = cert[c]
    BY <1>4 DEF DelContainer, TypeOK
  <2>2. \A u \in Workers, c \in Names : Importing(u, c)' <=> Importing(u, c)
    BY <1>1 DEF Importing
  <2>3. AbsentEmpty'
    BY <2>1 DEF OverlapInv, AbsentEmpty
  <2>4. ServesInstall'
    BY <1>1 DEF OverlapInv, ServesInstall
  <2>5. ImportsAlone'
    <3> SUFFICES ASSUME NEW v \in Workers, NEW c \in Names \ disturbed, Importing(v, c)
                 PROVE  /\ NoCert \notin {pair[v].sign, pair[v].enc}
                        /\ \A u \in Workers \ {v} : ~Importing(u, c)
                        /\ pc[v] = "sign" => cert'[c] \in Installs \cup {Empty}
                        /\ pc[v] = "enc" /\ c \in containers' => cert'[c].sign = pair[v].sign
      BY <1>1, <2>2 DEF ImportsAlone
    <3> QED
      BY <2>1 DEF OverlapInv, ImportsAlone
  <2>6. DeletionsAlone'
    <3> SUFFICES ASSUME NEW v \in Workers, NEW c \in Names \ disturbed, pc[v] = "del",
                        NEW sn \in todo[v], <<sn, c>> \in listed[v]
                 PROVE  /\ c \in containers' \cup destroyed'
                        /\ c \in containers' => sn \in CertsOf(c)'
                        /\ \A u \in Workers : ~Importing(u, c)
      BY <1>1, <2>2, <1>2 DEF DeletionsAlone
    <3>1. /\ c \in containers \cup destroyed
          /\ c \in containers => sn \in CertsOf(c)
          /\ \A u \in Workers : ~Importing(u, c)
      BY DEF OverlapInv, DeletionsAlone
    <3> QED
      BY <3>1, <2>1 DEF CertsOf
  <2>7. PairsMatch'
    <3> SUFFICES ASSUME NEW c \in containers' \ disturbed, \A u \in Workers : ~Importing(u, c)'
                 PROVE  cert'[c] \in Installs \cup {Empty}
      BY <1>1 DEF PairsMatch
    <3>1. c \in containers /\ c \in Names /\ c # c0
      BY <2>1 DEF TypeOK
    <3> QED
      BY <3>1, <2>1, <2>2 DEF OverlapInv, PairsMatch
  <2> QED
    BY <2>3, <2>4, <2>5, <2>6, <2>7 DEF OverlapInv
<1> QED
  BY <1>3, <1>4 DEF Destroy

\* A worker's step leaves the handlers of the others alone.
LEMMA OthersStep ==
    ASSUME TypeOK, NEW w \in Workers, Ask(w) \/ Serve(w) \/ CloseBox(w)
    PROVE  Others(w)
<1> SUFFICES ASSUME NEW u \in Workers \ {w}
             PROVE  /\ pc'[u] = pc[u] /\ job'[u] = job[u] /\ con'[u] = con[u]
                    /\ pair'[u] = pair[u] /\ todo'[u] = todo[u] /\ listed'[u] = listed[u]
  BY DEF Others
<1>1. ASSUME NEW to, Goto(w, to) PROVE pc'[u] = pc[u]
  BY <1>1 DEF Goto, TypeOK
<1>2. ASSUME NEW d, Use(w, d) PROVE pc'[u] = pc[u] /\ con'[u] = con[u]
  BY <1>1, <1>2 DEF Use, TypeOK
<1>3. CASE Ask(w)
  BY <1>1, <1>3 DEF Ask, AskRequest, AskInstall, AskCert, AskDestroy, AskUnlock, Step, TypeOK
<1>4. CASE Lookup(w) \/ List(w) \/ CreateDefault(w)
  BY <1>1, <1>2, <1>4 DEF Lookup, List, CreateDefault, Step
<1>5. CASE Create(w) \/ Reply(w)
  BY <1>1, <1>5 DEF Create, Reply, Step, Refused, TypeOK
<1>6. CASE GenKeypair(w) \/ MakePkcs10(w) \/ GetCert(w) \/ DestroyDone(w) \/ UnlockPIN(w) \/ CloseBox(w)
  BY <1>1, <1>6 DEF GenKeypair, MakePkcs10, GetCert, DestroyDone, UnlockPIN, CloseBox, Step, Refused
<1>7. CASE ImportSign(w) \/ ImportEnc(w)
  BY <1>1, <1>7 DEF ImportSign, ImportEnc, Refused
<1>8. CASE GetAllCert(w) \/ Destroy(w)
  BY <1>1, <1>8 DEF GetAllCert, Destroy, Step, Refused, TypeOK
<1> QED
  BY <1>3, <1>4, <1>5, <1>6, <1>7, <1>8 DEF Serve

LEMMA OverlapStep ==
    TypeOK /\ StaleOnlyByDelete /\ OverlapInv /\ [Next]_vars => OverlapInv'
<1> SUFFICES ASSUME TypeOK, StaleOnlyByDelete, OverlapInv, [Next]_vars PROVE OverlapInv'
  OBVIOUS
<1>0. TypeOK'
  BY TypeStep
<1>1. ASSUME NEW w \in Workers, Ask(w) PROVE OverlapInv'
  <2>1. /\ pc[w] = "idle" /\ pc'[w] \in {"create", "lookup", "all", "unlock"}
        /\ Grows /\ disturbed' = disturbed
    BY <1>1 DEF Ask, AskRequest, AskInstall, AskCert, AskDestroy, AskUnlock, Step, Goto, TypeOK, Grows
  <2>2. pc'[w] = "lookup" /\ job'[w] = "install" => pair'[w] \in Installs
    BY <1>1 DEF Ask, AskRequest, AskInstall, AskCert, AskDestroy, AskUnlock, Step, Goto, TypeOK
  <2> QED
    BY <1>0, <1>1, <2>1, <2>2, OthersStep, QuietStep
<1>2. ASSUME NEW w \in Workers, Serve(w) PROVE OverlapInv'
  <2>1. Others(w)
    BY <1>2, OthersStep
  <2>2. CASE Create(w) \/ GenKeypair(w) \/ MakePkcs10(w) \/ GetCert(w) \/ DestroyDone(w)
             \/ UnlockPIN(w) \/ Reply(w)
    <3>1. /\ pc[w] # "enc" /\ pc'[w] \in {"keypair", "p10", "ok", "err", "box", "idle"}
          /\ disturbed' = disturbed
      BY <2>2 DEF Create, GenKeypair, MakePkcs10, GetCert, DestroyDone, UnlockPIN, Reply,
         Step, Goto, Refused, TypeOK
    <3>2. Grows
      BY <2>2 DEF Create, GenKeypair, MakePkcs10, GetCert, DestroyDone, UnlockPIN, Reply, Grows
    <3> QED
      BY <1>0, <2>1, <3>1, <3>2, QuietStep
  <2>3. CASE Lookup(w)
    <3>1. UNCHANGED <<job, pair, containers, cert, destroyed>> /\ Grows /\ pc[w] = "lookup"
      BY <2>3 DEF Lookup, Step, Grows
    <3>2. CASE Use(w, default)
      <4>1. default \in Names \cup {NoContainer}
        BY DEF TypeOK
      <4> QED
        BY <1>0, <2>1, <3>1, <3>2, <4>1, UseStep
    <3>3. CASE Step(w, "lookup", "list") /\ UNCHANGED <<con, disturbed>>
      <4>1. pc'[w] = "list" /\ (job[w] = "install" => pair[w] \in Installs)
        BY <3>1, <3>3 DEF Step, Goto, TypeOK, OverlapInv, ServesInstall
      <4> QED
        BY <1>0, <2>1, <3>1, <3>3, <4>1, QuietStep
    <3> QED
      BY <2>3, <3>2, <3>3 DEF Lookup
  <2>4. CASE List(w)
    <3>1. UNCHANGED <<job, pair, containers, cert, destroyed>> /\ Grows /\ pc[w] = "list"
      BY <2>4 DEF List, Grows
    <3>2. CASE Use(w, default')
      <4>1. default' \in Names \cup {NoContainer}
        BY <1>0 DEF TypeOK
      <4> QED
        BY <1>0, <2>1, <3>1, <3>2, <4>1, UseStep
    <3>3. CASE Goto(w, "fresh") /\ UNCHANGED <<con, disturbed>>
      <4>1. pc'[w] = "fresh" /\ (job[w] = "install" => pair[w] \in Installs)
        BY <3>1, <3>3 DEF Goto, TypeOK, OverlapInv, ServesInstall
      <4> QED
        BY <1>0, <2>1, <3>1, <3>3, <4>1, QuietStep
    <3> QED
      BY <2>4, <3>2, <3>3 DEF List
  <2>5. CASE CreateDefault(w)
    <3>1. UNCHANGED <<job, pair>> /\ Grows /\ pc[w] = "fresh" /\ Use(w, default')
      BY <2>5 DEF CreateDefault, Grows
    <3>2. default' \in Names \cup {NoContainer}
      BY <1>0 DEF TypeOK
    <3> QED
      BY <1>0, <2>1, <3>1, <3>2, UseStep
  <2>6. CASE ImportSign(w) \/ ImportEnc(w) \/ GetAllCert(w) \/ Destroy(w)
    BY <1>0, <2>1, <2>6, ImportSignStep, ImportEncStep, GetAllCertStep, DestroyStep
  <2> QED
    BY <1>2, <2>2, <2>3, <2>4, <2>5, <2>6 DEF Serve
<1>3. ASSUME NEW w \in Workers, CloseBox(w) PROVE OverlapInv'
  <2>1. pc[w] = "box" /\ pc'[w] = "err" /\ Grows /\ disturbed' = disturbed
    BY <1>3 DEF CloseBox, Step, Goto, TypeOK, Grows
  <2> QED
    BY <1>0, <1>3, <2>1, OthersStep, QuietStep
<1>4. CASE GetDefualtDevice \/ UNCHANGED vars
  BY <1>4 DEF GetDefualtDevice, vars, OverlapInv, AbsentEmpty, ServesInstall, ImportsAlone,
     DeletionsAlone, PairsMatch, Importing, CertsOf
<1>5. CASE Restart
  <2>1. /\ containers' = containers /\ cert' = cert /\ disturbed \subseteq disturbed'
        /\ \A w \in Workers : pc'[w] = "idle"
        /\ \A w \in Workers : pc[w] = "enc" => con[w] \in disturbed'
    BY <1>5 DEF Restart
  <2>2. AbsentEmpty' /\ ServesInstall' /\ ImportsAlone' /\ DeletionsAlone'
    BY <2>1 DEF OverlapInv, AbsentEmpty, ServesInstall, ImportsAlone, DeletionsAlone, Importing
  <2>3. ASSUME NEW c \in containers \ disturbed' PROVE cert[c] \in Installs \cup {Empty}
    <3>1. c \in Names \ disturbed
      BY <2>1, <2>3 DEF TypeOK
    <3>2. CASE \E w \in Workers : Importing(w, c)
      <4>1. PICK w \in Workers : pc[w] = "sign" /\ Importing(w, c)
        BY <2>1, <2>3, <3>2 DEF Importing
      <4> QED
        BY <3>1, <4>1 DEF OverlapInv, ImportsAlone
    <3> QED
      BY <2>3, <3>1, <3>2 DEF OverlapInv, PairsMatch
  <2> QED
    BY <2>1, <2>2, <2>3 DEF OverlapInv, PairsMatch
<1> QED
  BY <1>1, <1>2, <1>3, <1>4, <1>5 DEF Next

\* The overlap invariant holds of every run.
LEMMA OverlapInvHolds == Spec => []OverlapInv
<1>1. Init => OverlapInv
  BY DEF Init, OverlapInv, AbsentEmpty, ServesInstall, ImportsAlone, DeletionsAlone, PairsMatch, Importing
<1> QED
  BY <1>1, OverlapStep, CertTypeCorrect, StaleOnlyByDeleteHolds, PTL DEF Spec

\* CertInstallHandle keeps the pairs of different requests apart, as long as
\* its two imports succeed and nobody else is at the same container.
THEOREM PairsMatchHolds == Spec => []PairsMatch
<1>1. OverlapInv => PairsMatch
  BY DEF OverlapInv
<1> QED
  BY <1>1, OverlapInvHolds, PTL

\* CertDeleteHandle acts on a list that may be old, yet takes no certificate
\* that was not named, unless an installation overlapped.
THEOREM OnlyNamedDestroyedHolds == Spec => OnlyNamedDestroyed
<1> DEFINE Named == \A c \in containers \ containers' :
                c \in disturbed \/ \E w \in Workers : pc[w] = "del" /\ CertsOf(c) \cap todo[w] # {}
<1>1. TypeOK /\ OverlapInv /\ [Next]_vars => [Named]_vars
  <2> SUFFICES ASSUME TypeOK, OverlapInv, Next,
                      NEW c \in containers \ containers', c \notin disturbed
               PROVE  \E w \in Workers : pc[w] = "del" /\ CertsOf(c) \cap todo[w] # {}
    OBVIOUS
  <2>1. PICK w \in Workers : Destroy(w)
    <3>1. \A w \in Workers : ~Ask(w) /\ ~CloseBox(w)
      BY DEF Ask, AskRequest, AskInstall, AskCert, AskDestroy, AskUnlock, CloseBox
    <3>2. ~GetDefualtDevice /\ ~Restart
      BY DEF GetDefualtDevice, Restart
    <3>3. \A w \in Workers : Serve(w) => Destroy(w)
      BY DEF Serve, Create, GenKeypair, MakePkcs10, Lookup, List, CreateDefault, GetCert,
         ImportSign, ImportEnc, GetAllCert, DestroyDone, UnlockPIN, Reply
    <3> QED
      BY <3>1, <3>2, <3>3 DEF Next
  <2>2. PICK sn \in todo[w] : <<sn, c>> \in listed[w]
    BY <2>1 DEF Destroy, DelContainer
  <2>3. pc[w] = "del" /\ c \in Names
    BY <2>1 DEF Destroy, TypeOK
  <2>4. sn \in CertsOf(c)
    BY <2>2, <2>3 DEF OverlapInv, DeletionsAlone
  <2> QED
    BY <2>2, <2>3, <2>4
<1> QED
  BY <1>1, CertTypeCorrect, OverlapInvHolds, PTL DEF Spec, OnlyNamedDestroyed
=============================================================================
