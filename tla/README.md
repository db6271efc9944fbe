# A TLA+ model of GCMClient

GCMClient is a tray program that a user of a USB key (a "Longmai" key) keeps running. Web pages on
the same machine talk to its HTTP server on 127.0.0.1; it logs the user in at a remote single-sign-on
(SSO) server, keeps the granting tickets (TGT) in a sqlite file and hands out service tickets (ST),
and it forwards certificate requests to the PKI agent that drives the key. Only one process of it
may run.

This directory holds the specifications of its core, the TLC models that check them on small
instances, and the theorems that TLAPS proves about them for every instance.

## 1. The system

| component | source (under `src/src`) | state | operations |
|---|---|---|---|
| TGT table, `UniqueAuthDatabase` | `uniqueAuthDatabase.cpp` | sqlite table `TGT(ID, APPSIGN, SECMARK, USERID, TGTDATA)` on disk | `InsertTGT`, `QueryLocalTGT`, `GetLocalTGT`, `DeleteTGT` |
| SSO client, `httpClientAgent` | `httpclientagent.cpp` | `m_strRandom`, the HTTP client | `GetST` (`VerifyLocalTGT`, `GetTGT`, `GetP7Sign`, posts to `/random`, `/tgt`, `/st`), `Logout`, `ReInitClient` |
| local server, `HttpServerRunable` | `httpserverrunable.cpp` | `m_errCode`, `m_serverPtr`, `m_bExit` | session handlers (`GetST`, `Logout`), certificate handlers (request, install, destroy, unlock), life cycle (`run`, `InitServer`, `DestroyServer`) |
| PKI agent wrapper, `WrapPkiAgent` | `wrappkiagent.cpp` | `m_defaultDevice` (device, containers), `m_defualtApp` | `OnDeviceChange`, `OnVerifyPin`, `VerifyPINJudge`, `GetCert`, `ParseCertMb`, `SignData`, `MediaInfo`, container and certificate calls |
| PIN dialog, `UkeyVerifyWidget` | `ukeyverifywidget.cpp` | `m_verifyFlag` | `SetVerify`, `Verify`, the dialog |
| JSON glue, `ParsonJsonAgent` | `parsonjsonagent.cpp` | none | builders and parsers; what `ParsonTgtResBody` and `ParsonRandomResBody` return decides the control |
| single instance, `SingleApplication` | `singleapplication.cpp`, `singleapplication_p.cpp` | a shared memory block with checksum, its lock, a local socket | constructor, destructor, `startPrimary`, `connectToPrimary`, connection handshake |
| tray icon, settings, config | `ukeysystemtray.cpp`, `settingdialog.cpp`, `confighandle.cpp` | configuration file | menus, dialogs |
| USB listener | `libusbagentrunable.cpp` | the libusb callback | start of the PKI agent on a hot-plug |
| utilities, parson | `utils.cpp`, `parson.c` | none | logging, paths, JSON |

**How they interact.** httplib serves connections with a fixed pool of threads (one less than the
machine's, at least one; up to five requests per connection). The handlers call
`httpClientAgent` and `WrapPkiAgent` directly, and both are singletons: the threads share the TGT
table, `m_errCode`, `m_strRandom`, `m_defaultDevice` and the PIN flag, none of them under a lock.
The PKI agent reports plugging and removal from a thread of its own; the report becomes a queued Qt
signal which the GUI thread handles, by showing the PIN dialog, or by lowering the PIN flag and
logging out (on the GUI thread, with blocking HTTP). Launches of the program meet only in the
shared memory block.

**What is hard here.** (1) A login is a chain of up to nine blocking calls, with shared state read before and
used after each. (2) The check of the table and the insertion of its answer are far apart. (3) A
logout revokes one ticket and deletes all rows. (4) The error code of a reply is a variable all
threads write. (5) Removal of the key, the PIN flag and logins in flight race. (6) The table
survives a restart, and nothing else does. (7) The settings stop and free the server, or replace the
HTTP client, while other threads work on them. (8) Dialogs and error boxes run event loops inside event
loops, and key events are handled in any of them. (9) Launch, exit and crash of processes interleave
on a block that is guarded by a lock and repaired after a timeout, and over a socket whose
messages come in pieces, from senders that wait a second and exit whatever came of it. `PROJECT.json` lists each at its line, under
`hazards`, with the properties that would catch it.

**What makes each component correct.**

- TGT table and SSO client: a service ticket is asked for only with a granting ticket that was
  issued to the same application and mark; tickets are not forgotten before the server ended one;
  racing logins leave a bounded number of duplicates; every request is answered, and with a code
  that names what failed.
- Key and PIN: the PIN flag stands for a key whose PIN was verified, or whose removal is still to be
  handled; a PIN goes to the key its dialog shows; a removal ends in a logout.
- Single instance: at most one primary, every launch settles, a message that was written whole is announced, and
  the connection of a launch that ended is dropped, announced or not.
- Certificates: a container name in use is on the key or was deleted from it; what a failed
  request leaves half done is explained by that failure; the certificates of two requests do not mix;
  a deletion takes only what was named.
- Life cycle: the server can be stopped in every state without an accepted connection being dropped,
  what the user confirms takes effect, and what can kill the process is known.

## 2. The modules

| module | what it is | models |
|---|---|---|
| `TgtTable` | operators | the four SQL statements of `uniqueAuthDatabase.cpp`, and the callback that keeps the last row |
| `SsoSession` | core state machine | worker threads, GUI thread, table, key, SSO server |
| `TicketStore` | abstract specification | what the cache promises, without threads or messages |
| `KeyGuard` | abstract specification | what the PIN flag promises; `UkeyAgent` and `SsoSession` both implement it |
| `Election` | abstract specification | what the launch protocol promises, without block, checksum or lock |
| `SingleInstance` | state machine | launches, exits and crashes on the shared memory block |
| `InitHandshake` | `SingleInstance` composed with the local socket | the message of a launch that gives up, and the stages of the primary |
| `CertAgent` | state machine | certificate handlers and the container calls of the PKI agent wrapper |
| `UkeyAgent` | state machine | several keys, the GUI thread's event queue, the PIN dialog and the error boxes |
| `ThreadPool` | actions on a pool | httplib's pool: jobs, flag, condition variable |
| `LocalServer` | `ThreadPool` composed with the server thread, the GUI thread and the HTTP client | start, stop and restart of the server, exchange of the client |
| `ConnService` | abstract specification | what the server promises to a connection |
| `MCSsoSession`, `MCSingleInstance`, `MCInitHandshake`, `MCCertAgent`, `MCUkeyAgent`, `MCLocalServer` | TLC instances | requests and symmetry |
| `SsoSessionProofs`, `TicketStoreProofs`, `SingleInstanceProofs`, `CertAgentProofs`, `UkeyAgentProofs`, `LocalServerProofs` | proofs | the theorems of section 5 |

### SsoSession

A thread's code is cut at each call that blocks. Between two cuts it is one action, and `pc[p]`
names the call it is about to make:

| `pc` | action | code |
|---|---|---|
| `idle` | `Accept` | `HttpServerRunable::GetST`, `HttpUtils::ParseData` |
| `query` | `Query` | `VerifyLocalTGT`, `QueryLocalTGT` |
| `cert`, `judge` | `GetCert`, `JudgeAgain` | `GetTGT`: `GetCert`, and the second look at the PIN flag that selects the code |
| `mb` | `ParseCertMb` | `ParseCertMb` |
| `random`, `sign` | `FetchRandom`, `SignRandom` | `MediaInfo`, `GetRandom`, `GetP7Sign`, `SignData` |
| `post` | `PostTgt` | the post to `/sso/v1/tgt`, `ParsonTgtResBody` |
| `insert` | `Insert` | `InsertTGT` (result ignored) |
| `st` | `PostSt` | the post to `/sso/v1/st` |
| `ok`, `err`, `logoutErr` | `Reply` | the answer, `m_errCode` read now |
| `read`, `revoke`, `clear` | `ReadTgt`, `Revoke`, `Clear` | `httpClientAgent::Logout`, on a worker or on the GUI thread |

`rows` is the table, `errCode` is `m_errCode`, `random` is `m_strRandom` (named by the worker that
fetched it), `verify` the PIN flag, `known` says that `m_defaultDevice.devID` is not empty,
`plugged` that the key is in its port, `removals` counts queued removal events. The SSO server is
external: `issued` and `live` are the tickets it has issued and would accept. `Faults` selects
which faults the environment shows: lost posts or answers, failing SQL, a `null` ticket, expiry,
a restart of the process.

Abstractions: one key (`UkeyAgent` has several, and its theorem `NeverMissed` says what one key makes impossible);
`HandleInsert` stands for every queued insertion event, whose dialog only matters by the
`VerifyPin` it leads to, and `VerifyPin` may happen any time the GUI thread is idle, a superset of
what the dialog allows; the
SQL statements match and store exactly the values they are given, which the code, that puts them into the text as they came, does
for values without a quote in a text that fits into `BUFSIZ` (a text that is cut there is one of the failing statements); `GetCert` reads the flag and calls the agent in one action, while
`JudgeAgain` reads the flag a second time, later; sqlite serialises its statements; containers
are left out (they belong to `CertAgent`). What `ParsonRandomResBody` makes its caller
do is a free choice, since it ends without returning a value; so is the sign type of a request
without a `type` parameter.

### SingleInstance

One action per step of the constructor and the destructor between which other processes can act.
The lock of `QSharedMemory` is a mutex (`lock`), which takes it that Qt's `create()` leaves a system semaphore that is in use
as it is (library code, outside the repository). It is taken in one action and left in a later one where
the code changes the block twice under it (`primary` first, the checksum afterwards), so a crash
can fall between the two. `Detach` removes the block when the last process leaves, as
`QSharedMemory` does on Unix; a crash detaches without removing. `Timeout` is the 5 s rule of the
checksum loop; `SlowCreator` says whether a process may spend those 5 s between `create()` and
`lock()`.

`Election` knows leaders, a ghost (the record of a leader that died), those who give way, and the number of deaths. A process is
in office (`InOffice`) from the moment `startPrimary` sets the flag until it quits or crashes; the ghost is a flag in the
block with nobody in office. Only `Die` makes a ghost, so an exit that left the flag behind would be no step of `Election`; and only
`Elect` needs that there is neither leader nor ghost.

### InitHandshake

Extends `SingleInstance` with `conn[p]`, the connection that launch `p` has opened: its stage at the primary
(`backlog`, `header`, `body`, `connected`), the primary it goes `to`, how much was `written`, and whether some
of it is `unread` since the last `readyRead`.

| action | code |
|---|---|
| `Connect` | `connectToServer` and `waitForConnected`: in the server's backlog, or refused or not made in time |
| `Send` | the writes, of which some or all leave before the wait for them ends |
| `HGiveUp` | `delete d; ::exit`: the destructor closes the socket, with nothing, some or all of the message out |
| `SlotConnectionEstablished`, `OnReadyRead`, `OnDisconnected` | the slots of the same names; `OnReadyRead` calls `ReadInitMessageHeader` or `ReadInitMessageBody` |
| `HQuit`, `HCrash` | exit and crash of `SingleInstance`, which cut the connections (`Cut`) |

The message counts four quarters and may be cut at each, so inside the header, between header and body, and inside the
body. Every client is this program, so an invalid message does not occur. `aboutToClose` may hand out bytes that were left, but
`main.cpp` connects neither `receivedMessage` nor `instanceStarted`. Both waits of a second ignore what came of them, so a
launch can end unannounced without any crash, when the primary is slow: nothing promises that it is announced. What is promised is on the primary's side. Secondary instances and `sendMessage` are never
asked for. A process is launched again only after the primary has dropped its last connection (a bound).

### UkeyAgent

`plugged` and `pinned` are the keys as the agent sees them; `dev` is `m_defaultDevice`, `verify` the PIN flag,
`queue` the `DeviceChange` signals not yet handled. `gui` says where the GUI thread stands in a handler that
waits for the agent, `look` what a thread's `GetDefualtDevice` has found and not yet assigned. The
nested event loops are `exec` (the dialog's) and the boxes `below` and `above` it.

| action | code |
|---|---|
| `Insert`, `Extract` | `agentNotifyImp`, `AgentNotify` |
| `VerifyPINJudge`, `ReadNoise` | a worker asks for the dialog with the address of a local; its slot finds the type in it (handled like an insertion), or noise |
| `MediaInfo`, `MediaAssign` | `GetDefualtDevice` on a worker |
| `HandleInsert`, `LookDone`, `AppsFail`, `ShowDialog` | `OnDeviceChange`, insertion |
| `HandleExtract`, `LogoutDone` | `OnDeviceChange`, removal |
| `OnVerifyPin`, `AgentAnswers`, `PinAccepted`, `PinRefused` | `OnVerifyPin`, `SetVerify`, `ShowInfomationBox` |
| `CloseBox`, `Reject`, `ExecReturns` | the user and Qt |

`flagOf`, `shown`, `strayed` and `missed` are history: the key the flag was raised for, the key the dialog was filled
for, whether the default device was replaced since, whether a removal met another default device. No guard reads them.

Abstractions: `m_defaultDevice` is assigned in one piece, although no lock protects it; the agent's own
notification is intact when it is handled; a wrong PIN takes back the verified state at the key; the tray icon follows `AuthChange` in the
same steps and is not a variable; the modality of a setting dialog, which can keep the user from typing a
PIN, is left out. Of Qt it is used that `exec()` inside `exec()` returns at once, that a box is modal, and that Esc rejects.

### KeyGuard

Both models of the key implement it, each with its own idea of a removal on its way: for `UkeyAgent` the keys with an event in the queue, for
`SsoSession` the counter `removals`. So what `SsoSession` assumes of the GUI thread (a flag is raised by `VerifyPin` only for
a key that is in, or about to be missed, and `HandleExtract` lowers it) is a promise that the detailed model, with its nested
dialogs and its agent calls, keeps in the same words.

### LocalServer, ThreadPool, ConnService

`ThreadPool` has one action per hold of the pool's mutex. `LocalServer` adds `pc` (the server thread), `gui` (the GUI thread
inside `OnConfirmReleased`), `call[t]` (what a pool thread's handler does: nothing, a post, a message box) and `conn`, the fate of each
connection.

| action | code |
|---|---|
| `Create`, `Route`, `Bind`, `BindFails`, `RunAgain` | `run`, `InitServer`, `InitRouter`, `Server::listen`, `bind_internal` |
| `StartPool`, `Accept`, `SeeClosed`, `AcceptFails`, `Notify`, `JoinPool` | `listen_internal`, `ThreadPool::shutdown` |
| `TakeConn`, `Request`, `EndPost`, `CloseBox`, `CloseConn`, `Rest`, `Wake` | the pool's threads, `process_and_close_socket`, the handlers |
| `ConfirmPort`, `StopServer`, `ResetServer` | `LocalSettingDialog::OnConfirmReleased`, `DestroyServer`, `Server::stop` |
| `ConfirmRemote`, `DestroyClient`, `InitClient` | `ServerSettingDialog::OnConfirmReleased`, `ReInitClient` |
| `Quit` | `exec()` returns, and the end of `main` waits for `run()` |
| `Crash`, `Launch` | a use of a null pointer or of a destroyed object kills the process; the user starts it again |

`freed` says that the server object the server thread works on has been destroyed, `loose` names the threads whose post
runs through a destroyed client. A use of either is undefined in C++: in the model the process dies or goes on with the
old contents. `unstopped` records that a server was destroyed before `stop()` could close its socket (`stop()` does nothing until `is_running_`): nobody
can stop that one any more. The environment can be out of descriptors (`EMFILE`: the loop repeats, a stutter), fail to bind, or fail to accept.

`m_bExit` is raised only by a static destructor, which runs after `~QCoreApplication` has waited for the pool in which `run()`
runs; so `Quit` leaves a process that serves requests for ever, and no action raises it.
After `AcceptFails` `svr_sock_` still names the closed descriptor, which a later `stop()` closes again: the model gives that no
effect, although the number may belong to another file by then.
`httpClientAgent` is taken as made at the start; the code makes it at its first use.
`ConnService` has no threads: a connection is accepted while the service is up and closed once, and the service goes down only
when everything accepted is closed, unless the process dies.

### CertAgent

The certificate handlers run on the same worker threads; they share the key and, without a lock,
`m_defaultDevice.defaultContent` (`default`). One action is one call of the agent with the code up to the
next one:

| `pc` | action | code |
|---|---|---|
| `idle` | `AskRequest`, `AskInstall`, `AskCert`, `AskDestroy`, `AskUnlock` | the routes of `InitRouter`; `AskCert` is the `GetCert` of a login |
| `create`, `keypair`, `p10` | `Create`, `GenKeypair`, `MakePkcs10` | `CertRequestHandle`, `MakePkcs10` |
| `lookup`, `list`, `fresh` | `Lookup`, `List`, `CreateDefault` | `DefualtContainer`, `GetContainers`; `Use` is what its caller does next |
| `getCert` | `GetCert` | the agent's answer to a login |
| `sign`, `enc` | `ImportSign`, `ImportEnc` | the two imports of `CertInstallHandle` |
| `all`, `del` | `GetAllCert`, `Destroy`, `DestroyDone` | `CertDeleteHandle` and its loop |
| `unlock`, `box` | `UnlockPIN`, `CloseBox` | `UnLockHandle`, the message box of `ShowInfomationBox` |
| `ok`, `err` | `Reply` | the answer |

`GetDefualtDevice` (reached by `POST /media`, by a login and by an insertion) copies the device anew,
which empties `default`. `Restart` ends the process in the middle of any call and starts it again on the same key.
`containers`, `keyed` and `cert` are what is on the key. The history variables `destroyed`, `spare` and `disturbed`
record deletions, containers without a request that completed, and containers that got half a
pair or that several workers were at; properties refer to them, no guard does but that a fresh name is new.

Abstractions: one key; every call of the agent may be refused, which covers a failing `VerifyPINJudge` in front
of it, and an answer that is lost, so a refused call that changes the key may have been performed all the same (`Unheard` for a container, and the
refusals of `GenKeypair`, `ImportSign` and `ImportEnc`) (two refusals of one call, such as those of `MakePkcs10` and `CreateContainer`, are one); a uuid is
new, and `Names` bounds how many containers there ever are; the string `defaultContent` is read and
written whole, although the code does so without a lock, and the tests and the `return` of `DefualtContainer`
read it in one step except across the agent's calls; each certificate in the agent's list names its container and serial.
`media_container` of a request is parsed but never used by the code, so it is not an input.

## 3. The runs

| run | question | bounds |
|---|---|---|
| `sso_tickets` | with every fault at once, are tickets kept apart by application, never forgotten before a revoke, and does the code implement `TicketStore`? | 2 workers, 2 applications behind one mark, 2 tickets, 2 rows |
| `sso_key` | key, PIN flag (as a `KeyGuard`), signature, duplicates and logins behind a removal's back while logins, removals and restarts interleave | 2 workers, 3 tickets, 3 rows, 1 queued removal |
| `sso_live` | is every request answered, does a removal log out, does an expired ticket stay, does the code of a failed reply name its phase? | 1 worker, expiry, 2 tickets, requests by key and with an unset type |
| `single_launch` | is the protocol an `Election`; one primary, sound block, free lock, every launch settles; do connections lead to the primary, is a whole message announced, is the connection of an ended launch dropped? | 2 processes, 3 crashes |
| `cert_races` | do container names stay meaningful, are half done requests explained, do pairs stay together, is only what was named destroyed? | 2 workers, 2 containers, 2 pairs of certificates |
| `local_server` | is the server a `ConnService`, is no wake-up lost, is each connection closed, does a confirmation take effect, what kills the process? | 2 pool threads, 3 connections of 1 request, 2 ports, 2 confirmations, 1 fault |
| `ukey` | does the PIN flag mean a verified key, is it a `KeyGuard`, is it lowered, where does a PIN go? | 2 keys, 1 worker, 3 queued events, 2 PINs, 4 moves of keys |
| `key_not_exist`, `stale_code`, `logout_leaves_tickets`, `two_primaries`, `dead_block` | findings, section 4 | as small as the counterexample allows |

**Bounds.** Two workers are enough for every pairwise race of one worker with another, and the GUI
thread adds a third actor that logs out; the theorems remove this bound for the safety properties
they cover. Two applications with the same mark make a query that ignores one column of its key
visible. Two tickets and two rows let a table hold a row of each application, and let an
insertion fail at the bound (an insert may also fail in the code). `sso_key` has one more ticket
and row than workers, so `DuplicatesBounded` is not a consequence of `MaxRows`. One queued removal
is enough because a second one finds the flag already down. Logouts of the GUI thread come from removals, so they
race with workers in `sso_key` and `sso_live`; `sso_tickets` leaves removals out and has workers log out. In `single_launch` two processes are launched again and again, so each role (primary, launch that gives up, launch after a
crash) meets each other one, and three crashes tear the block or a connection at any step, also twice in a row; a third
process makes liveness too slow for TLC, and for the safety invariants the theorems hold for any number. In `cert_races` two workers cover every pair of handlers that meet on a
container, and two names let one of them be deleted or chosen while the other is in use; each
destroy may name one or two certificates, of different pairs. An installation names a whole pair: with halves as well the run takes longer than a run may; a half
installation marks its container `disturbed`, which excuses it in `PairsMatch` and `OnlyNamedDestroyed`, and the theorems cover it. In `local_server` a third connection waits in the queue
while both threads serve, and two confirmations let the second meet the effects of the first (port after port, address in the
middle of a restart); one request per connection is enough since the next one finds the thread as the first did. The one address means
that exchanging the client is checked for its null and freed pointer, not for the new value, which `InitClient` reads from the
configuration. In `ukey` two keys are what a confusion of devices needs, four moves plug both and pull one that is
plugged again, and the queue of three holds an insertion, a removal and a worker's question; two PINs let a wrong one follow a right one.
`ukey` ends when its moves and PINs are used up, so it is not checked for deadlock.

**Fairness.** `SsoSession!Fairness` asks that a worker continues what it has begun (HTTP client
and agent have timeouts, so each call returns), and that the GUI thread runs its event loop and
finishes its logout. No request, PIN or removal is ever required, nor a success of any
call. `SingleInstance!Fairness` asks that a process runs and its 5 s pass, and that the semaphore behind
the lock serves each waiter although others take it again and again (strong fairness: the
kernel queues waiters); nobody must launch or quit. `InitHandshake!HFairness` is the same for
the launches, and weakly fair for the primary's event loop on each connection; a crash or an exit of the primary is the excuse in `Announced`, and settles `EndedIsForgotten`, which
asks nothing of the launch. `LocalServer!Fairness`
is weak fairness of the server thread, of each pool thread (a caller finishes or is silent for 5 s, and posts time out; a caller that drips bytes may hold a thread for longer and is not covered) and of the GUI thread inside
`OnConfirmReleased`; nobody has to close a box, so `AcceptedClosed` and `ConfigTakesEffect` except boxes, and no wait has to end
spuriously, which is why a lost notification would show. `UkeyAgent!FairSpec` is weak fairness of the GUI thread's
handlers and of the return of the dialog's loop: it sits in some event loop, whatever the user does.

`CHECK_DEADLOCK` stays on in every run but `ukey`. Symmetry over the workers is used only in runs without liveness.

## 4. Where the code and its comments disagree

- **`key_not_exist`** `commontype.h` explains `ERR_KEY_NOT_EXIST` as "no Longmai key inserted". `GetTGT` sets it
  whenever `GetCert` failed and the PIN is not verified, also with the key in its port.
- **`stale_code`** A transport failure sets no code, and the reply carries what an earlier request
  left: a service ticket that could not be fetched is reported as `ERR_GET_TGT_FAILED`.
- **`logout_leaves_tickets`** A logout revokes the ticket of the last row and deletes every row; the other tickets stay
  alive at the server, and nobody knows them any more.
- **`two_primaries`** The comment in `singleapplication_p.cpp` takes a successful `create()` for proof that
  there is no primary. A creator that stalls for more than 5 s before it locks finds its block
  taken over, and initialises it again under a running primary.
- **`dead_block`** The attach-and-detach at a launch is there to delete the block of a crashed
  process. Two launches at the same time keep it alive for each other, and both give up to the dead primary.

## 5. The theorems

| theorem | says |
|---|---|
| `TypeCorrect` | `Spec => [](TypeOK /\ ServesRequest)` of `SsoSession` |
| `TicketOfRequestHolds` | a worker uses only tickets of its request's key |
| `ForgottenOnlyAfterRevokeHolds` | the table is emptied only with a revoked ticket in hand |
| `VerifiedKeyPresentHolds` | the PIN flag never outlives the key unnoticed |
| `SignatureOverlapHolds` | signature and `originalData` differ only after another worker's random |
| `NoLoginWithoutKeyHolds` | after a handled removal no further login by key gets past the PIN |
| `EndedTicketSticksHolds` | an ended ticket that the table answers with is replaced by nothing but a logout |
| `SessionImplementsGuard` | `SsoSession` implements `KeyGuard` |
| `Refinement`, `StoreIsHonest` | `SsoSession` implements `TicketStore`; so what is kept was granted for its key |
| `SingleInstanceTypeCorrect` | type correctness of `SingleInstance` |
| `LivePrimaryRecordedHolds`, `OnePrimary` | a live primary is recorded in a sound block and owns the name; so there is at most one |
| `SingleInstanceIsElection`, `OneInOffice` | the protocol implements `Election`; so one process at most is in office, and a record of nobody takes a crash |
| `StartMeansNoPrimaryHolds` | a primary starts only while there is none |
| `LockNotLostHolds`, `TornOnlyByCrashHolds` | the lock is held only by a process about to leave it; only a crash leaves a bad checksum on a free block |
| `HandshakeKeepsProtocol`, `HandshakeTypeCorrect` | `InitHandshake` implies `SingleInstance`, so its theorems carry over; its type correctness |
| `NothingIsLeftUnread` | no complete part of a message waits for a `readyRead` that has been |
| `LeadsToPrimaryHolds` | open connections lead to the primary that owns the name |
| `DuplicatesBoundedHolds` | racing logins leave at most one ticket per worker for an application and mark |
| `ErrorNamesFailedPhaseHolds` | with one worker the code of a failed reply names its phase |
| `CertTypeCorrect` | type correctness of `CertAgent` |
| `StaleOnlyByDeleteHolds` | a container name in use is on the key or has been deleted from it |
| `BareExcusedHolds` | a container without a key pair has a reason: a failed request, a default, or a request at work |
| `PairsMatchHolds` | certificates of different requests do not mix in a container, unless they overlap or fail half way |
| `OnlyNamedDestroyedHolds` | a deletion takes only containers of named certificates, unless an installation overlapped |
| `LocalServerTypeCorrect`, `StopAssertHolds` | type correctness of `LocalServer`; the assertion of `Server::stop` |
| `DeathIsExplained` | the moments in which a confirmation can kill the process |
| `LocalServerRefinesConnService`, `StoppedOwesNobody` | the server implements `ConnService`; so one that does not run has no connection open |
| `NoWakeUpLost` | while threads of the pool sleep, each queued connection has one awake for it; none sleeps into a shutdown's joins |
| `OldConfigurationLeaves` | an outdated port or address is in use only while its confirmation is handled |
| `UkeyTypeCorrect`, `FlagMeansPinHolds` | type correctness of `UkeyAgent`; the PIN flag means a verified key |
| `PinReachesKeyShown` | a PIN goes to the key the dialog was filled for |
| `NeverMissed` | with one key no removal is missed |
| `UkeyImplementsGuard`, `GuardPromise` | `UkeyAgent` implements `KeyGuard`; so a single key whose flag is up is in, or its removal will lower the flag |

They hold for any finite or infinite sets of workers, requests, processes, containers and certificates, and any bounds and
faults. `OnePrimary`, `LivePrimaryRecordedHolds`, `SingleInstanceIsElection`, `OneInOffice`, `StartMeansNoPrimaryHolds` and
`LeadsToPrimaryHolds` assume `~SlowCreator`: without it the theorems are false, as `two_primaries`
shows (it refutes `StartMeansNoPrimary` with a slow creator), and the proof fails at exactly `Timeout`. `EndedTicketSticksHolds` assumes that no
select fails: a failed select is a miss, and a miss fetches a new ticket. `DuplicatesBoundedHolds` assumes finitely many workers, no failing select and
no `null` ticket; `ErrorNamesFailedPhaseHolds` at most one worker, no transport failure and no `null` ticket: these are the faults their runs leave
out, and with them the properties are false.

**Argument for the tickets.** `TicketOfRequest` alone is not inductive: a worker takes the ticket
from a row (`Query`) or from the server (`PostTgt`). So the rows must be right (`RowsIssued`), and
the insertion must write the row of the worker's own request, which is what `TicketOfRequest`
says at `insert`. A ticket that is looked up must be found empty until then (`MissHoldsNothing`),
and the ticket that a logout holds must be issued, and dead at `clear` (`LogoutHoldsTicket`); tickets never come
back to life because `Issue` always takes the next number. Their conjunction `TicketInv`
is inductive together with `TypeOK /\ ServesRequest`. `ForgottenOnlyAfterRevoke` and
`Refinement` follow from it step by step: `Insert` maps to `Keep`, or to a stutter for an empty
ticket; `PostTgt` to `Grant`; `Revoke` and `Expire` to `End`; `Clear` to `Forget`.

**Argument for the primary.** `RecordInv` adds to `LivePrimaryRecorded` that a process in the middle of a
change holds the lock, that a process past `create()` keeps the segment, that what the next
primary saw is still so, and that between `create()` and `initializeMemoryBlock` nobody else is past the
checksum or late. The last one is where `~SlowCreator` enters.

**Argument for the election.** While somebody is in office the block names it (`StarterSeesTruth`, `LivePrimaryRecorded`), so it is alone there
(`OfficeRecorded`). `StartPrimary` elects: the starter has seen a flag that is down, and holds the lock since. `Quit` resigns, a crash in office leaves the flag to a
ghost. Every other step leaves the office alone, and the flag or clears it (`ElectionQuiet`): it is a stutter, a
departure, or the end of a ghost. The abstract invariant `OneLeader` then needs nothing of the code.

**Argument for the handshake.** `ReadInv` says of each connection what has been read at its stage, so that a stage with enough bytes to leave it has them
`unread`; whether its launch still runs plays no part. `LeadsToPrimary` is inductive with `RecordInv`: no connection is open when the name is taken over,
since it would lead to somebody in office; and whoever leaves office owns the name, and takes all connections down.

**Argument for the certificates.** `StaleOnlyByDelete` is inductive because `containers \cup destroyed` only grows and
each name a worker or `default` takes comes from there; `BareExcused` because a bare container
leaves `keypair` either with its key pair or into `spare`. `PairsMatch` and `OnlyNamedDestroyed` need
`OverlapInv`: an undisturbed container has one importer at most, who holds a whole pair and whose first
half is in the container before the second (`ImportsAlone`); what a destroyer has listed in an undisturbed
container is still in it, as nobody imports there (`DeletionsAlone`); an installation imports a pair that was sent
(`ServesInstall`); a deleted container holds nothing (`AbsentEmpty`). The lemma `QuietStep` covers all the steps
that neither import nor delete, so that only `UseStep`, `ImportSignStep`, `ImportEncStep`,
`GetAllCertStep`, `DestroyStep` and `Restart` remain.

**Argument for the lock and the checksum.** `ChangerHoldsLock` of `RecordInv` does not need `~SlowCreator`: whoever is between
two writes holds the lock. With it each step of `LockNotLost` and `TornOnlyByCrash` is local to the process that takes it.

**Argument for the duplicates.** A ticket enters the table by an insertion of a worker that has missed, and a worker misses only when
the table has no ticket of its key. `RaceBound` counts both: tickets of a key plus workers in flight for it never exceed the workers, as an insertion
turns one of the latter into one of the former, and a new miss means that there are none of the former. `NoEmptyTicket` makes a miss mean that.

**Argument for the flag and the late logins.** `KeyGuard` is implemented step by step; of the invariants it needs `VerifiedKeyPresent` (in `UkeyAgent`, `FlagMeansPin`'s
strengthening), when a flag is raised for a key that is being pulled. Once a removal is handled the flag is down, so `ParseCertMb`
refuses and only workers past it go on: `NoLoginWithoutKey`.

**Argument for the ended ticket.** A row that is the last of its key is what `QueryLocalTGT` finds. With nobody in flight for the key nobody inserts behind it, every later
request hits it, and so nobody ever gets in flight; tickets do not come back to life.

**Argument for the pool.** `WakeUpsSuffice` has two parts. `EnoughAwake` counts: `Enqueue` and its notification add one job and one thread that looks, taking a job removes one of each, and a thread
goes to sleep only when it finds no job. Shutdown raises the flag before it wakes all, and who looks after that ends.

**Argument for the server.** `StopInv`: from `bind` on the socket is open as long as the server can be stopped, since only `stop()` through `ptr`, and a failing
`accept` that keeps `sock`, come between. `DeathInv` traces null and freed pointers to the confirmations that made them. `PoolInv` says that a thread ends
only during shutdown and leaves no job behind; `ConnInv` that the accepted connections are those queued or served, each once. Then
`JoinPool` finds none left, which is `GoDown` of `ConnService`; `Accept` and `CloseConn` map to its `Accept` and `Close`, `StartPool` to `GoUp`,
`Crash` to `Die`, or to a stutter while nothing is up, and all others to a stutter.

**Argument for the PIN.** `FlagMeansPin` is kept with the fact that the agent's verdict is still true, or its key's removal queued, when the GUI
thread acts on it: a removal after the verdict posts an event that only the GUI thread takes from the queue, and it is busy.

**Only model-checked.** Liveness (`Answered`, `RemovalLogsOut`, `LaunchSettles`, `Announced`, `EndedIsForgotten`, `AcceptedClosed`, `ConfigTakesEffect`,
`RemovalLowersFlag`), which is out of the prover's reach. What each of them needs at every moment is proved: `NothingLeftUnread` and
`LeadsToPrimary` for `Announced`, `LeadsToPrimary` for `EndedIsForgotten`, `WakeUpsSuffice` for `AcceptedClosed`, `ConfigLags` for
`ConfigTakesEffect`, the `KeyGuard` for `RemovalLowersFlag` and `RemovalLogsOut`, `LockNotLost` for `LaunchSettles`. Every other property of a passing run is proved.

## 6. What is left

1. A composition of `LocalServer` with `SsoSession`, in which a worker's post may run through a client that is being replaced; today
   a post that is lost this way is one of the `http` faults of `SsoSession`.
2. `CertAgent` under fairness: that each certificate request is answered (a worker of `CertAgent` has no loop but that over the named certificates).
3. An abstract specification for `CertAgent`, as the other four components have one; its invariants are proved directly.

**Not modelled**, and why: the tray icon (shows `AuthChange`, feeds nothing back), logging and paths
(no state), parson (a library, used as an oracle by the parsers), the libusb listener (its two lines
in `main.cpp` are commented out), secondary instances and `sendMessage` of `SingleApplication` (never asked for), `InitAgent` and `InitDB` (start-up
I/O), the wording and encoding of messages. The largest part of the repository's lines is vendored:
the headers of sqlite and OpenSSL, libusb, plog, and httplib, of which only the server's accept loop and its pool are modelled.
