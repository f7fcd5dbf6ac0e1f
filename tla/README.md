# A TLA+ verification of rust-rcs-client

`rust-rcs-client` is the client side of an RCS service: it configures a device over HTTP, keeps a
SIP registration with an IMS core, sends and receives messages over SIP and MSRP, and transfers
files over HTTP. This directory holds TLA+ models of its stateful parts, TLC configurations that
check them on small instances, and proofs of their main safety properties that TLAPS checks for
every value of the constants. Paths below are relative to `src/src/`.

1. [The system](#the-system) – 2. [Modules](#modules) – 3. [Runs](#runs) –
4. [Fairness](#fairness) – 5. [Proofs](#proofs) – 6. [What the checks found](#what-the-checks-found) –
7. [What is not modelled](#what-is-not-modelled) – 8. [Plan](#plan)

## The system

| component | code | state it keeps | operations | talks to |
|---|---|---|---|---|
| engine | `rcs_engine.rs`, `context.rs` | connection state, registration status, the connections' transports, under one mutex (**E**) | configure, connect, disconnect, send_message, upload, download, conference and chatbot calls | everything below, and the host through callbacks |
| registration | `connectivity/registration.rs` | state, CSeq, digest parameters, under one mutex per connection (**R**) | start_register, deregister, on_final_response, refresh task | SIP core; owner through RegistrationEvent |
| flow manager | `connectivity/flow.rs`, `reg_info_xml.rs` | observed registration, reg-info subscription, table of flows, under one mutex (**F**) | observe, stop, on_registration_authenticated, subscriber events | SIP subscriber; engine through state_callback |
| standalone messages | `messaging/cpm/standalone_messaging.rs` | per message: INVITE or MESSAGE transaction, MSRP session, the host's callback | send (pager, large), MESSAGE, INVITE, ACK, CANCEL, BYE handlers | SIP core, MSRP stack |
| CPM sessions | `messaging/cpm/session.rs`, `session_invitation.rs` | the identity, the lists of ringing INVITEs, of outgoing ones and of sessions, each list and each session's state under its own mutex; per session a stream and a channel of messages | send_message, INVITE, ACK, CANCEL, BYE handlers, accept_and_open_session, MSRP callbacks | SIP core, MSRP stack, the host's listeners |
| file upload | `messaging/ft_http/upload.rs` | recorded transfer ids, stored credentials, the request in progress | upload_file, resume_upload_* | content server |
| file download | `messaging/ft_http/download.rs` | the file on disk, the request in progress | download_file | content server |
| configuration | `provisioning/device_configuration.rs`, `local_provisioning_doc.rs` | the provisioning file, OTP channel, the request in progress | start_auto_config and its requests, store, OTP input | configuration servers, host |
| conferences | `conference/mod.rs` | the identity; per conference: dialog, channel of events, the host's listener | create_conference, on_final_response, INVITE, ACK and dialog handlers, accept and drop of the response receiver | SIP core, the host's listeners |
| chatbot directory | `chat_bot/mod.rs` | none between calls | search, retrieve | HTTP server |
| host interface | `lib.rs`, `*/ffi.rs` | none of its own | C entry points | engine |

How they interact:

* `connect` reserves the engine (CONNECTING) and spawns a task. The task makes a transport, asks the
  flow manager to observe the new registration, and starts it. A 200 OK to its REGISTER makes the
  flow manager subscribe to the reg-info event; a NOTIFY that shows the connection's own contact as
  bound makes the engine MAINTAINED, and only then are messages let through. Losing that binding, a
  failed REGISTER, a transport that ends and `disconnect` all tear this down again. Each of these is
  a callback on its own thread, most with a mutex held.
* A message goes to the session service, or to pager or large mode, by its size, its recipient and
  the configuration. Large mode opens an MSRP session whose end, whose transfer, whose INVITE and
  whose own task all may report the result to the host.
* An INVITE goes to the session service or the conference service. It may ring, in which case a task
  of its own waits for the host's answer or a CANCEL; the answer, the ACK, the BYE and the end of the
  stream each come on a thread of their own and find the session through a list under a mutex.
* Files, configuration and chatbot calls share an HTTP client and a security context, in which the
  answers to challenges are stored for later requests.

What is hard in it: mutexes taken in different orders by callbacks of different components; late
events of a connection that was already replaced; requests that are challenged, lost or answered
late; results that race each other to one callback; lists that are searched and cut by position
from several threads; threads that panic with a mutex held, which poisons it for all others; streams
whose dialog ends while they connect; uploads and downloads cut anywhere; a configuration file that is
rewritten in place, several times a start. `PROJECT.json` lists each of these hazards with its line and the properties that cover it.

What makes each component correct, and hence what the models state:

* registration: it is asked for once, bound once, released for good; one challenge is answered, and
  every later request is signed for it with the next count; the de-REGISTER is its last word; an
  attempt is decided; a binding is refreshed when it is due.
* flow manager: the subscription belongs to the observed connection; there are no flows without a
  subscription, and a contact changes no binding but its own. (Whose NOTIFY it was is not asked.)
* engine: no subscriber's late event takes over the subscription in force or ends the registration in
  use; messages pass on registered connections only; no deadlocks but the known ones; an attempt is
  decided. (A transport that exits and a registration that is released do reset whatever connection is
  in use.)
* messages: exactly one result for each, 200 only for one that was delivered; one delivery of each
  received one; the media session of a standalone message never outlives its dialog.
* sessions: the list holds the sessions that are on, each once; an INVITE that rings can be accepted
  and leaves its list afterwards; an accepted INVITE is answered, and its stream waits for the ACK; a
  message given to a session leaves the client or is given up.
* conferences: the host's first answer counts, an accepted INVITE is answered, and the end of a
  conference reaches the host whenever it comes.
* files: "ok" means that the whole file is there; no byte in a wrong place; a retry gets there.
* configuration: what is stored as valid is complete and was allowed; a start ends.

## Modules

Each specification names the Rust function it models in the comment over an action or in `map` of
`PROJECT.json`; state variables keep the code's names where they have one.

**RegistrationLifecycle, Registration, MCRegistration.** `RegistrationLifecycle` is what a
registration promises its owner: IDLE, REQUESTING, REGISTERED, RELEASED and the one request in
flight. `Registration` is `registration.rs` in full, one step for each critical section of the
`(seq, state, params)` mutex. Two handlers have two: a 2xx binds in the first and leaves its expiration
in `due`, from where `ScheduleRefresh` takes it; a challenge that cannot be answered resets the
parameters in the first and leaves the transaction `refused`, from where `OnRefused` releases. What
other threads do in between is explored. Requests are kept by CSeq, kind and the nonce and count they
are signed with; the registrar may challenge a second time with the same or another nonce, grant any
lifetime, or lose a request. The clock is explicit (`now`, bounded by
`MaxTime`) because the refresh task compares instants. `Registration` implements
`RegistrationLifecycle` (`Lifecycle`).

**RegInfoBindings, FlowManager, MCFlowManager.** `FlowManager` is `flow.rs`: the triple
`managed_flow`, the subscribers that may still report events, a NOTIFY applied contact by contact
under F, and the second critical section of a NOTIFY that shows no own flow (`Reject`), before which
other handlers may run. `RegInfoBindings` is what its nested vectors stand for, a relation between
flows and records with the subscription it belongs to; `FlowManager` implements it (`RegInfo`).

**RcsEngine.** `connect`, the connection task, `disconnect`, the registration callback, the exit
callback of a transport and the NOTIFY callback, with any number of overlapping attempts. A step is
what a thread does between two mutexes; which mutexes are held (`EHeld`, `FHeld`, `RHeld`) follows
from where the threads are. `send_message` holds E while it calls the session service; a call that
returns changes nothing here, one that does not (`SendMessageIsLost`) takes E with it. It composes the two modules above through their abstractions: a
registration is `RegistrationLifecycle` (`EachLifecycle` checks that the engine and all late events
keep to it), a NOTIFY is its outcome. The host calls from one thread at a time, `connect` any number
of times.

**SessionTransport, MsrpSession.** `MsrpSession` is the half of a message session that the send and
receive sessions of `standalone_messaging.rs` have in common: the socket that is taken once, the task
that connects, the bounded channel that feeds the stream, and `stop`, which goes through that channel.
`SessionTransport` is what it promises a dialog: one stream at most, none begun after the dialog
ended, none that stays. Whether the dialog was terminated is a history variable (`terminated`): the
code keeps it only in what `stop` leaves of the socket and the sender, and the refinement maps it to
`ended`, so that a `stop` that leaves the socket behind is seen to break the
promise. Both extensions of `MsrpSession` check this refinement, `MediaSession`.

**StandaloneSend, MCStandaloneSend, StandaloneReceive.** Both extend `MsrpSession`. `StandaloneSend`
is one message from `RcsEngine::send_message` to its result: the choice of a service, the MESSAGE or
INVITE, the task, the transfer and the dialog's end. `StandaloneReceive` is the receiving side of
large mode (INVITE, ACK, chunks, CANCEL, BYE) and a received MESSAGE.

**IncomingInvite, CpmSessions, MCCpmSessions, Conference.** `IncomingInvite` is what a service
promises of each INVITE it is given: offered, accepted, answered once, running only after the ACK; or
declined, or dead with the thread that handled it. Both services implement it (`EachInvite`), fairness
included.

`CpmSessions` has one entry per INVITE of another party (`stage`), the task that waits for the host
(`task`, `box`), the two lists as sequences with the code's search from the front and its
`swap_remove`, the dialog and the stream of each session, and the messages of the host up to their
result. Panics are modelled: a thread that dies poisons the mutexes it holds (`poisoned`), and a thread
that locks one of those dies too. The thread that locks a mutex it holds (`Opens`) keeps two others
for ever (`opener`). Who registered over which connection matters because the accepting thread
compares the two (`identity`, `transport`).

`Conference` has the conferences the host creates and those it is invited to: the INVITE and its
outcomes, the oneshot through which the host answers, the mutex of the listener that is held while the
200 OK is sent and that the ACK wants, and the channel through which the end of the dialog reaches the
host's listener. The two services share no state.

**HttpTransfer, FileUpload, FileDownload.** `HttpTransfer` has what uploads and downloads share: the
calls, what their requests are signed with, and the security context that may have an authorization.

`FileUpload`: calls with one transfer id: the empty POST and the POST of the content for a new id,
otherwise check, PUT of the rest and GET. The content server is external; it may challenge, refuse or
lose any request, receive any part of a body, and forget an upload.

`FileDownload`: calls for one path: the request with or without a range, one challenge, and the
copying. Bytes on disk are old, right or misplaced.

**DeviceConfiguration, MCDeviceConfiguration.** A start from `start_auto_config` to its result. The
recursion of the code (a default server's document has additional servers configured, each of which
may restart itself after 511) is a stage `at`, the `server` that is asked, and the default server's
document that waits in `outer`. The default server may be named by its own document (a DEFAULT
element): it is then asked like the others, with its document in `outer`, and what it says goes into
its own entry; `AsDefault` tells the two ways apart, `default` is the mark an entry was made with, and
`own` (history) which way it was last written. Which servers are still to be asked is the set `rest` of their
positions in the document's access control; the next one is the first by `Before` (identity providers,
then the others, each in the document's order). The provisioning file maps servers to entries; a
write may fail before or after the old file is gone, or break off, and the reader drops an entry that is incomplete
(`Broken`). Validities have no clock: what is stored as valid may cease to be so at any time.

**Registration_proofs, FlowManager_proofs, RcsEngine_proofs, Standalone_proofs,
CpmSessions_proofs, Conference_proofs, FileTransfer_proofs, DeviceConfiguration_proofs** hold the
theorems; see below. `Standalone_proofs` is about the sender and the receiver, `FileTransfer_proofs`
about the upload and the download. The two specifications that such a module extends have the variables
of their common base in common (which is why the names of one of them begin with `Receive` or
`Download`), and each theorem is about one of the two.

Operators named `X_Y` with the comment *Faulty variant* are forms of `X` with a plausible bug. No
specification uses them. `PROJECT.json` pairs each checked property with one that violates it, which
shows that the property can tell the code from a wrong one.

## Runs

`tlc -config X.cfg M`, with the module `PROJECT.json` names. No run uses symmetry, since most check
liveness or a refinement.

| run | instance | what it shows |
|---|---|---|
| Registration | two nonces, lifetimes 1 and 2, four ticks, AKA | `DeregisterIsLast`, `OneChallengeSigns`, refinement `Lifecycle`, liveness `Settles` |
| Registration_refresh | the same, Digest | *violated:* `RefreshedWhenDue` |
| FlowManager | two connections, two flows, two records | `SubscriptionOfObserved`, `FlowsSound`, refinement `RegInfo` |
| FlowManager_ends | two connections, one flow, one record | *violated:* `EndsOwnSubscription` |
| RcsEngine | two overlapping attempts | `DeadlocksKnown`, `MaintainedIsRegistered`, `OnlyHostUnbindsCurrent`, `EachLifecycle`, liveness `AttemptResolves` |
| StandaloneSend | three chunks, channel of two, all configurations, recipients and sizes around the limit | `ResultIsTrue`, liveness `EveryMessageHasResult`, refinement `MediaSession` with its fairness |
| StandaloneReceive | channel of one | `DeliveredOnce`, refinement `MediaSession` with its fairness |
| CpmSessions | two INVITEs of one contact, two messages, two connections, channel of one | `ListIsExact`, `IncomingAnswerable`, refinement `EachInvite` with its fairness, liveness `MessagesMoveOn` |
| Conference | one created and one invited to, channel of one | refinement `EachInvite` with its fairness, liveness `EndIsHeard` |
| FileUpload | two calls, three bytes, one drop, one restart | `SuccessIsComplete`, liveness `RetryCompletes` |
| FileDownload | two calls, two bytes, old files of one and three bytes | `OkIsWhole`, `NothingMisplaced` |
| DeviceConfiguration | a default server with four documents, one naming the server itself, an identity provider and another server with three each | `NamedServersAnswered`, `AppsWereAllowed`, liveness `EveryStartEnds` |

Every passing run also checks its module's `TypeOK` (`ReceiveTypeOK`, `DownloadTypeOK`), which includes the relations between variables
that the code's types give (a transport exactly while CONNECTED, a document exactly while one is
handled).

Bounds, and why they are enough:

* Two connections: every property of the flow manager and the engine relates the connection in use
  with *another* one; a third adds no new relation, and the proofs cover any number.
* Two nonces let a second challenge repeat the nonce or change it; the code refuses both. Two lifetimes let an expiration move in
  either direction. Four ticks let both expire and one more be granted. CSeq, counts and requests
  need no bound: the attempts are bounded by the code.
* Two flows with two records make each of *first, last, other* happen in create, update and remove.
* Three chunks with a channel of two let the channel be full before the end, and the stop wait behind
  data. A channel of one does so on the receiving side, where only the stop is queued.
* Two INVITEs of one contact let one stand before the other in both lists, and either be the last that
  `swap_remove` moves. Two messages with a channel of one let one wait while the other is queued. Two
  connections let the client register anew between the 180 and the accept. Conferences do not interact,
  so that one of each kind is enough; two reports of an end are more than its channel of one holds.
* Three bytes let a body break off before, in and just before the end of the rest; two calls let one
  resume what the other is sending. Drops and restarts are the model's only counters in `FileUpload`;
  the call repeats without a bound.
* `DeviceConfiguration` has no bound but its documents: version 1 and 2 name different servers in
  different orders for different applications, version 2 the default server itself and version 1 one
  for the IMS application alone; one document switches RCS off and one has no version; an
  additional server configures everything (also what it may not), or is off for now, or for good.

Deadlock checking is off where the modelled thing ends (a registration is released, a message has its
result, an INVITE its answer, the host stops calling) or does deadlock (RcsEngine, where `DeadlocksKnown` says how; CpmSessions, where `opener` does); it is
on for `DeviceConfiguration`, which can always be started.

## Fairness

Assumed, each because the code or the libraries under it see to it:

* *A SIP transaction ends*, with a response, a timeout or a transport error (its timers).
  `Registration`, `StandaloneSend`, `Conference`.
* *A spawned task runs; sleeping tasks wake; the clock goes on.* The Tokio runtime.
* *A mutex is granted in the end* to a thread that wants it again and again: the strong fairness of
  `RcsEngine`. A thread that waits for a mutex nobody will release is not helped by this;
  `AttemptResolves` therefore excludes the deadlocks by name.
* *Connecting an MSRP stream ends, and a stream reads its channel*: `StandaloneSend`,
  `StandaloneReceive`, `CpmSessions`. In `CpmSessions` a mutex is granted to one of the threads that
  want it for one step only, so that weak fairness is enough there.
* *HTTP requests end and the OTP wait times out* (64 seconds): `FileUpload`, `DeviceConfiguration`.
* `FileUpload`'s `PersistentSpec` states an environment on top: the host keeps calling, and requests
  are not all challenged, cut or lost for ever. `RetryCompletes` is about the code under that
  environment. `EveryStartEnds` allows for a server that answers 511 over and over, which the code
  follows without a bound.

Never assumed: that the host calls, that a peer, registrar or server answers favourably, that an event
or a NOTIFY comes, that a transport ends.

## Proofs

`tlapm M.tla` checks each module. The theorems hold for every value of the constants that satisfies
the module's assumption, and for every behaviour of `Spec`, without fairness. Every invariant that a
run checks is the statement of one of them.

| module | theorems |
|---|---|
| Registration_proofs | `TypeCorrect`, `OneChallenge` (OneChallengeSigns), `LastWord` (DeregisterIsLast), `Refinement` (Lifecycle) |
| FlowManager_proofs | `TypeCorrect`, `SubscriptionFollows`, `FlowsFollow` (FlowsSound), `Refinement` (RegInfo) |
| RcsEngine_proofs | `TypeCorrect`, `SubscriptionOwner`, `MessagesOnRegistered`, `Deadlocks` (DeadlocksKnown), `UnboundByHost`, `KeepsLifecycles` |
| Standalone_proofs | `TypeCorrect`, `OneTrueResult` (ResultIsTrue), `Refinement` (the safety half of SessionTransport); of the receiver `ReceiveTypeCorrect`, `ListenerCalledOnce` (DeliveredOnce), `ReceiveRefinement` |
| CpmSessions_proofs | `TypeCorrect`, `SessionsExact` (ListIsExact), `RingingAnswerable` (IncomingAnswerable), `Refinement` (the safety half of IncomingInvite) |
| Conference_proofs | `TypeCorrect`, `Refinement` (the safety half of IncomingInvite) |
| FileTransfer_proofs | `UploadTypeCorrect`, `UploadIsComplete` (SuccessIsComplete); `DownloadTypeCorrect`, `DownloadIsWhole` (OkIsWhole), `DownloadIsInPlace` (NothingMisplaced) |
| DeviceConfiguration_proofs | `TypeCorrect`, `AnswerInFull` (NamedServersAnswered), `NoOtherApps` (AppsWereAllowed) |

Each rests on an inductive invariant `IInv` (theorem `Invariance`, and `ReceiveInvariance`,
`UploadInvariance`, `DownloadInvariance` where a module has two), proved with one lemma per action and
used with `PTL` in the last step. The assumptions on the constants say what the code's types do: a
channel has room for one, a file is not empty, an `Option`'s value is not its `None`, and the names that
are not the default server's do not include it.

* **Registration.** `OneChallengeSigns` speaks of all requests ever sent and is not inductive. `IInv`
  adds that one transaction is open at a time (`OneOpen`), which one that is in each state (`Phase`,
  which also says that the refresh task's condition is never met), that CSeqs grow (`Numbering`), and
  that each signed request was signed for the challenge in hand, whose count has grown with the CSeq
  since (`Signing`, which also says that nothing is signed before the first challenge). The last two
  are what a further request needs to be the next of its challenge.
* **FlowManager.** The four safety properties together are inductive: that a table does not outlive
  its subscription needs that the subscription is the observed connection's. The lemmas on create,
  update and remove say what a contact does to a well-formed table; the refinement shows from them
  that it changes at most the pair it names.
* **RcsEngine.** `MaintainedIsRegistered` depends on where each thread is. `IInv` adds, per thread,
  what the program counter implies (`HostPhase`, `RegPhase`, `EventPhase`), that the connection in use
  is past its task's last step or was left by a failed one (`CurrentPhase`), and the property in the
  form in which it survives the steps between a report and its effect (`MaintainedPhase`).
  `Deadlocks` then is a lemma without time: `IInv` implies `DeadlocksKnown`.
* **StandaloneSend and StandaloneReceive.** `Phase` ties the stages of the task, the session and the transfer together;
  the two halves of `ResultIsTrue` (`OneResult`, `SuccessIsDelivery`) are inductive with it. On the
  receiving side `Listening` says that an open stream was acknowledged and that an uncalled listener
  has not delivered; the socket being taken is what carries the ACK over to the stream. The two sides
  share the lemmas on the media session: each of their steps is one of `MediaStep`, which keeps the
  types and takes one step of `SessionTransport` or none.
* **CpmSessions.** That `swap_remove` takes out one entry and no other is a lemma on sequences without
  repetition (`Swapped`); appending keeps them so if the entry is new (`Appended`). That it is new
  needs to know where each INVITE is: `StagePhase` ties the task to the stage and says that a session
  about to be listed has only been negotiated, `IncomingPhase` says that the INVITEs in the list are
  those whose task has not removed them, and `WaitingPhase` that a message waits for a session. With
  these `ListIsExact` is inductive, and `IncomingPhase` implies `IncomingAnswerable`. For the
  refinement, each action maps to one step of one INVITE's phase, to `Block`, or to a stutter.
* **Conference.** An INVITE's phase depends on the host's answer and on whether the conference was
  joined. `StagePhase` says which of these a stage allows, above all that nothing is joined that was
  not acknowledged, nor acknowledged before the 200 OK. `SendingPhase` bounds the tasks that wait to
  send the end by the reports there were, which the type needs.
* **FileUpload.** That a result is true needs to know what the server has, and of which upload. Several
  calls may send at once and the server may drop an upload under any of them, so `Numbered` says that
  a call never holds the number of a later upload, and `Behind` that of the upload a body goes to the
  server has everything before the part that is on its way. A body received to its end then makes the
  upload whole (`Wholeness`), which no later request can undo. The lemma `LastByte` is about the range a
  server reports: its end is in the set of bytes it has.
* **FileDownload.** `Copied` says that only a call that starts at 0 ever copies (the position of a file
  opened for appending is refused for every other), and that the file is right up to what such a call
  has copied; a second call that copies beside it writes the same bytes.
* **DeviceConfiguration.** `SoundFile` is the two properties made local to an entry. A valid entry of
  the default server is stored at the end of a recursion during which the file was rewritten, broken
  off and read back, so `Waits` carries the claim there: the document that is handled, or waits, owes
  configuration only to servers that are still in `rest` or being asked now. `Asking` says that the
  default server is asked as such only while nothing valid is held of it; without it a new document would
  make the history of a valid one begin anew. The operators on the file (`Put`, `WithoutEntry`,
  `WithoutToken`, `Broken`) keep entries sound, each by a lemma.

Model-checked only: all liveness (`Settles`, `AttemptResolves`, `EveryMessageHasResult`,
`MessagesMoveOn`, `EndIsHeard`, `RetryCompletes`, `EveryStartEnds`, the fairness of `MediaSession` and
of `EachInvite`), which is beyond the prover. The two violations are found by TLC.

## What the checks found

Two runs end in a violation of something the repository says of itself (`findings` in `PROJECT.json`
quotes it).

1. *A registration is never refreshed* (`registration.rs:585`). `schedule_refresh` returns if the
   expiration it is given is the one in force, which its callers have just made so. The comment at
   616–620 describes the refresh that was meant to happen.
2. *The end of an old subscription ends the one in force* (`flow.rs:391`), against the comment at 388
   that there is only one.

Other things the models made plain. The repository's README lists chatbots, and says that chat works
in standalone mode only; no other text says anything of these.

* The engine can deadlock in three ways (`DeadlocksKnown`): a NOTIFY callback holds F and wants E while
  `disconnect`, a released registration or an ended transport holds E and wants F; `disconnect`
  holds E and wants R while a 200 OK holds R and wants E; and `send_message` to a group calls the session
  service with E held (`rcs_engine.rs:1292`, 1365), which locks itself out with the first message
  (`session.rs:1506`) or panics (729): E is never free again. A 200 OK takes R then F and a NOTIFY F then
  R, but never both for one registration at a time. A host that calls back from a state callback
  waits for itself.
* A task that fails after its connection was made resets half of the engine's state; messages then
  pass on an unregistered connection. `MaintainedIsRegistered` names the exception. A transport that
  exits late, or an old registration that is released, resets whatever connection is in use
  (`rcs_engine.rs:1104`, 1227).
* The NOTIFY of a dropped subscriber adds its flows to the table of the subscription in force and
  removes others from it, and its rejection (`flow.rs:371`) ends the one in force.
* A large message is normally reported as 500: the task calls the callback as soon as it has spawned
  the media session (`standalone_messaging.rs:1040`), before that can deliver anything. What is reported
  as 200 was delivered (`ResultIsTrue`); what is reported as 500 may have been.
* A 2xx without an expiry releases the registration here and leaves the binding at the registrar.
* An upload whose last answer was lost cannot be reported as done: with nothing left to send,
  `resume_upload_file` is an error. `RetryCompletes` is therefore about the server's copy.
* A chatbot's message is never delivered: `chat_bot/cpim.rs:26` returns `None` for each. A resumed
  download is always refused: a file opened for appending is at position 0 (`download.rs:275`), so it is
  reported as inconsistent (285) with every start but 0.
* A message to a contact without a session is the last the session service handles: it locks the list
  of outgoing INVITEs again (`session.rs:1506`) while it holds that list, the list of sessions and the
  identity. A second registration waits for the identity from then on.
* A client that registers over another connection between the 180 and the accept panics with the
  identity's mutex held (`session_invitation.rs:314`); later INVITEs are not answered. A message to a
  session whose ACK has not come panics (`session.rs:729`) with the session's mutex and that of the
  list; nobody is told, and every later message, BYE and 200 OK dies.
* A session stays in the list, and gets messages, when its stream cannot be connected
  (`session.rs:613`, where the queued messages are dropped with their callbacks), when its BYE comes
  before it was put there, and when it expires or is ended by a response. A BYE does not close the
  stream. Messages of a session are queued by a task each (732) and may leave in another order.
* The creator of a conference never hears of a refusal (`conference/mod.rs:527`); the INVITE to one
  sends its 180 only when no dialog can be made (1008), and a CANCEL of it is not told to the host
  (891).
* A configuration none of whose P-CSCF addresses is an FQDN or a readable IPv4 address makes `connect`
  recurse without end (`connection/p_cscf_connection_config.rs:76`: `get_next` calls itself).
* A file that is downloaded over a longer one keeps that one's tail; `OkIsWhole` speaks of the
  resource's length.
* A token an additional configuration server refuses is sent to it again without end, since
  `unlink_token` changes the default server's entry only. A default server that switches RCS off
  removes its entry, but applications of additional servers in the file let the start succeed.
  ACCESS-CONTROL that names a server for the IMS application alone is passed over, since its
  identifier is compared in percent-encoded form (`device_configuration.rs:910`, 952).
* A DEFAULT element of ACCESS-CONTROL with the default server's name (`wap_provisioning_doc.rs:318`) has
  that server asked once more as an additional one, and the answer filed in its own entry
  (`device_configuration.rs:916`, 958, 1113). The entry is valid from then on, though servers that come
  after have not answered; if one of them fails, the next starts take what is stored for the server's
  answer: the document before it, or one without ACCESS-CONTROL. An entry made that way has no default mark: the default server's own answer never
  gets its characteristics into it (ACCESS-CONTROL among them), and its token is not unlinked.
  `NamedServersAnswered` is about the entries that are left.
* An application that a newer ACCESS-CONTROL names no server for stays on file; `AppsWereAllowed` asks
  for some document of the default server, not the last.

## What is not modelled

* The SIP core, the MSRP stack, the HTTP client, TLS and GBA are other crates. They appear as what
  `src/` relies on: transactions end, streams break, requests are answered or not.
* XML, SIP header and CPIM parsing and printing: pure functions. What they decide (a document is
  readable, a header is missing) is a choice of the models.
* The C interface: it passes arguments on. Its one effect, the engine's mutex, is in `RcsEngine`.
* Digest and AKA computations: a signature is the nonce and count it is made with.
* Session timers and UPDATE within a dialog of a standalone message: kept by the SIP core.
* Sessions: the UPDATE that refreshes one, and what arrives over its stream (handed to the host's
  listener, with nothing kept); groups differ from contacts in headers only. After an outgoing INVITE
  was answered, the code that would set up its session cannot be reached, since the task waits for the
  identity; it is modelled up to there. `conference/subscription.rs` and `join_conference` are empty.
* Code that ends in `todo!()` (`flow.rs:386`, `standalone_messaging.rs:1569`, `session.rs:728`
  and `:1652`, `conference/mod.rs:891` and `:967`): where a modelled handler reaches one, the thread
  ends there without a further effect (`session.rs:729` poisons mutexes and is modelled).
* `configure` and the routing of incoming requests to services; the directory calls of chatbots (one
  request, one challenge).
* Two starts of the configuration at once, and the subscriber's number that an identity provider
  supplies.

## Plan

| | modules | status |
|---|---|---|
| 1 | RegistrationLifecycle, Registration, proofs | done |
| 2 | RegInfoBindings, FlowManager, proofs | done |
| 3 | RcsEngine over the abstractions of 1 and 2, proofs | done |
| 4 | SessionTransport, MsrpSession, StandaloneSend, StandaloneReceive, proofs | done |
| 5 | HttpTransfer, FileUpload, FileDownload, proofs | done |
| 6 | DeviceConfiguration, proofs | done |
| 7 | IncomingInvite, CpmSessions, proofs | done |
| 8 | Conference, proofs | done |
| 9 | routing of incoming requests among the services, and `configure` changing it | open: the first of three services that knows a request by its headers takes it, and `configure` replaces values that the next call reads; neither has steps in between |
