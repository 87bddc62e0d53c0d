# askahuman: verification project

askahuman lets a program (usually a coding agent, over MCP) ask a person a
question on their phone. An **agent** process pairs with a phone page by a short
code, both talk through an untrusted **relay**, and every request, answer and
receipt is signed and sealed under the key the pairing gave.

This directory holds TLA+ models of that system, translated from the code, the
TLC instances that check them, and TLAPS proofs about every one of them. Source paths
below are relative to `src/`; `PROJECT.json` "map" gives, for each definition,
the lines it models.

    tlasany M.tla                      parse a module
    tlc -workers 2 -config X.cfg M     check an instance (the table in section 4)
    tlapm XProofs.tla                  check the proofs of a module

## 1. Inventory

For every component: its state, its operations, whom it talks to, what is hard,
and when it is correct.

### Agent: Ask, session reader, receipts — `backend/internal/agent/{agent,protocol}.go`

*State.* The session (keys, `requestSeq`, the receipt cache with its FIFO
`receiptOrder` of at most `maxReceipts` = 32, the bounded `ackQueue`), the single
registered `waiter` (a one-place decision mailbox and a small event channel), the
flags `asking` and `peerPresent`, the socket.

*Operations.* `Ask` (take the single-flight flag, number and sign the request,
register the waiter, announce, then loop over decision / event / deadline with
backoff); `readLoop` and `handleFrame`; `routeBoundDecision` (replay a cached
receipt, refuse an unknown decision, or fill the mailbox); `commitDecision` (accept
or expire, under `waiterMu`); `ackLoop`.

*Interaction.* Three goroutines meet at `waiterMu`, two channels and two atomics.
The reader receives whatever the relay chooses to deliver: any signed decision, at
any time, in any order, again, or never.

*Hard.* A decision races the deadline and the commit; a duplicate arrives when its
receipt was lost or evicted; full channels drop events; the socket dies between the
registration and the first announcement; the request counter ends.

*Correct when* a request is settled once, with an answer signed for it and shaped as
asked; each receipt is true of what the caller got; no transport trouble is slept
through; a call whose context is done returns.

### Agent: MCP server — `backend/internal/agent/mcp.go`

*State.* `pendingRequests`, the shared pairing `attempt` and its code, all under
`h.mu`; and, through the agent's own locks, the session, its reader and presence.

*Operations.* `request_approval` (count itself, `ensurePaired`, `Ask`, uncount),
`start_pairing` with and without `reset`, the pairing goroutine, `pair_status`.

*Hard.* The check "a session exists" and its use are under different locks; a reset
must not come between; a reset must join the old reader before presence is cleared;
a failed attempt must release everybody who waits on it.

*Correct when* one handshake runs at a time, the code shown is the running
attempt's, no reset takes the session from a pending approval or from any `Ask`, no
reader outlives its session, and waits end.

### Pairing handshake — `backend/internal/agent/pair.go`, `frontend/src/lib/{pairing,session}.ts`

*State.* On each side: which message was sampled, whether the peer's was used, a
confirm kept for later; the frames in flight; the phone's socket.

*Operations.* Each side sends `{pake}`, answers with `{confirm}`, verifies the
peer's, and repeats its pake on `peer_joined` or `undeliverable`.

*Hard.* Resends after reconnects, a confirm that overtakes the pake or the awaited
key import, the page reloaded and the code typed again, the one confirm lost.

*Correct when* both sides that pair have the same key, retries never break a
confirmation, and an attempt completes unless something it needs is really gone.

### Phone: session, ledger — `frontend/src/lib/{session,protocol-state}.ts`

*State.* In memory: connection, screen, current request, retained decisions (at
most 32) with their receipts. In IndexedDB: the highest request sequence seen. In
localStorage: the roster, one entry per paired room, rewritten whole on each change.

*Operations.* Receiving a request, a signal or a receipt; the human's tap
(`sendDecision`, suspended at three awaits); expiry and retry timers; reconnecting;
restoring after a reload; saving; repair.

*Interaction.* JavaScript runs each handler to its next await. Tabs of one browser
share IndexedDB and localStorage, each with a roster of its own in memory. iOS
kills pages at any moment.

*Hard.* A newer request, a second tap or an expiry while a signature is awaited; a
kill between signing, saving and sending; stale saves; storage that fails; receipts
that arrive again and out of order.

*Correct when* one request gets at most one signed answer, the answer survives a
kill and is not asked for again, the screen never claims an outcome that is not
true at the agent, and older questions do not come back.

### Phone: roster and user interface — `frontend/src/lib/{manager,store,push-page}.ts`, `components/{App,screens}.tsx`

*State.* The sessions of all rooms, their order, the active one, unread counts, the
rooms in localStorage; what React has rendered; the gesture, the committed card and
its commit timer; the room a clicked notification left in the URL fragment.

*Operations.* A session changes (`onSessionChange`); React renders; a finger goes
down, moves, is lifted or cancelled; buttons and options; the commit timer; the
countdown; switching, adding and forgetting agents; submitting a code; a wake-up
before or after mounting; a reload.

*Interaction.* The manager reacts to a session at once, React only some time later:
between the two the human acts on a card that may have been replaced.

*Hard.* Timers that outlive their card, two fingers, requests of another agent
while a card is open, a code typed over a failed attempt, a wake-up before `mount`.

*Correct when* a card answers once and, on a page that shows what is current, answers
its own request (elsewhere it may not: section 7), no other agent's request takes an
open card away, no attempt costs a paired agent, a clicked notification brings its
agent to the front.

### Phone: relay client — `frontend/src/lib/relay.ts`

*State.* The current socket, the reconnect and heartbeat timers, `stopped`.
*Operations.* `connect`, `onopen`, `onclose`, `handleClose`, the timers, `retryNow`,
`close`. *Interaction.* The relay refuses a full room with 4001, and the room may be
full of the phone's own dead sockets until a probe reaps them. *Hard.* Late close
events of replaced sockets, a forced retry over a pending timer, beats on a dead
path. *Correct when* there is one socket or one pending attempt at every moment, and
the phone comes back when the faults stop.

### Push notifications — `frontend/src/lib/{push,push-device,push-routing,manager,session}.ts`, `backend/internal/agent/agent.go`

*State.* Shared by the tabs: the room's Web Lock, the ledger record with the push
counter, the native registration. Per tab: which reconciliation is the latest
(`epoch`), the key known for the agent, the status in the roster. At the agent: the
subscription and its sequence number.

*Operations.* Reconciling under the lock (check, register, read, replace, subscribe,
count, sign, send), forgetting (delete the ledger record, then the registration),
`absorbPush`, `Notify` and the 404 that retires a subscription.

*Hard.* Two tabs reconcile at once, one forgets the pairing meanwhile or is killed
holding the lock; updates arrive out of order; a 404 for a subscription already
replaced.

*Correct when* the agent's subscription only gets newer and goes only when it is
gone, a forgotten room stays forgotten, "ready" means sent, cleanups happen.

### Relay — `backend/internal/relay/relay.go`

*State.* Rooms of at most two peers, counters per address, a probing flag per room,
all under `Relay.mu`; sockets. *Operations.* Admission, `join`, greeting, `pump`
(forward or `undeliverable`), `leave`, `probeRoom`, `keepalive`.

*Hard.* Signals and frames are written after the lock is released, to peers that
may have left; dead sockets hold a place; slots must be freed on every way out; a
probe may outlive the room it captured.

*Correct when* membership and counters match the running handlers, peers learn of
each other, a lost frame is reported, a probing flag belongs to a running probe.

### Wire protocol — `backend/pkg/wire/protocol.go`, `frontend/src/lib/protocol.ts`

*State.* None; both programs validate, encode, sign and decode the same messages
with code of their own. *Hard.* Limits checked before all fields are known, by two
serializers that escape differently; strict decoders written twice. *Correct when*
whatever one side lets through the other can read, different questions are signed
over different bytes, and both decoders admit the same texts.

### Not modelled

| part | why |
|---|---|
| proxy address selection (`proxy.go`) | a pure function of headers and configuration; `Relay` takes the address as given |
| push transport (`push_transport.go`) | predicates over host names and an HTTP client's settings |
| device key and VAPID key creation | one-time creation of a key; a mismatch is `RestoreFails` in `Phone` |
| SPAKE2, sealed box, codes, encodings | assumed correct; arithmetic out of TLC's reach |
| code entry form, pairing page, theme, badge, scrolling, the confirmation's own timer | presentation and best-effort I/O |
| command line, website, npm installer, infrastructure | no state of the approval protocol |
| version 1 encodings of `wire.go`, `decodeDecision` (agent.go:874) | no longer called |

## 2. Modules and the code

| module | what it is |
|---|---|
| `Approval` | abstract: a request is asked once, settled once (a signed answer or a timeout), and reported accepted only if it was |
| `Agent` | detailed model of Ask, reader and receipt writer; implements `Approval` |
| `McpServer` | concurrent tool calls, pairing attempts, reset |
| `Pairing` | one attempt, both sides and the relay's queues |
| `Phone` | the phone's session, ledger and roster entry; implements `Approval` |
| `App` | the roster of several rooms, the rendered screen and the fingers on it |
| `Push` | subscriptions: tabs, lock, ledger, push service, agent |
| `Relay` | rooms, slots, signals, probes |
| `Link` | the phone's relay client composed with `Relay` (it EXTENDS it) |
| `Wire` | limits, encodings, transcripts and decoders of both programs |
| `Filter` | what is left of an array when entries are taken out or skipped; used by `App` and `Push` |
| `AgentProofs`, `McpProofs`, `PairingProofs`, `RelayProofs` (with `Link`), `PhoneProofs`, `PushProofs`, `AppProofs`, `WireProofs` | theorems; the lemmas about `Filter` are in the two that use it |
| `MC*` | instances for TLC |

**Agent.** `askPc` is the place of the Ask goroutine, one value per piece of code
between two lock or channel operations; `reader` is the reader's place. Request `n`
is the one with `RequestSeq = n`. `receipts` keeps what the map keeps, `expired` is
`ctx.Done()`. Abstractions: the queueing of a replayed receipt and the delivery of an
event happen together with the capture of the waiter under `waiterMu`;
`sendRequest` is one step that works or not; signing the receipt in `commitDecision`
may fail, which ends the call like a timeout; backoff durations are gone (a backoff
may end at any time or be cut short by the context); a call refused as busy,
unpaired or exhausted changes nothing and is left out, like an early return on an
expired context or an encoding error before the waiter is registered; the waker is
in `Push`. The relay is untrusted: any decision once signed may be handled at any
later step.

**McpServer.** One step per critical section of `h.mu` or access to the agent's own
locks; a reset holds `h.mu` over several. Attempts and sessions are identities
reused once nothing refers to them. Ask's body is one step here (it is `Agent`);
the test override `h.pair` and the pairing page are left out.

**Pairing.** One code. Frames are FIFO per direction; a dropped socket loses a
suffix. A page number names the phone's SPAKE2 message, and with it the key: keys
are equal exactly when both sides used each other's message. Wrong codes and
malformed frames, which only reject, are left out; the agent's early failures are
`AgentExpires`.

**Phone.** Each action is the code from one await (or event) to the next. `signing`
is the set of suspended `sendDecision` calls, `handling` the suspended box. A ledger
transaction and the continuation that uses its result are two steps. `disk` is this
session's entry in the saved roster; every setter that saves does so within its
action. The agent's side is an environment that settles requests as `Agent` does
and issues exactly the receipts that `AgentProofs` proves true (`ReceiptInv`): an
assume/guarantee split. `Faults` switches environments on: `"storage"` (an
IndexedDB transaction fails), `"early"` (a retry or a save while the session is
being restored), `"tab"` (a second tab writes back the entry it remembers).
Abstractions: reading a saved session is one step after the reload; the kinds of
cards are one; a retry timer may fire at any time; a second tab loads once; a frame
dropped from a full inbox (32 boxes, `enqueueBox`) is one never delivered; the
seen-list's truncation at 50 and a box's signature check have no step. `Tap` asks
that the page shows the card, which is where `sendDecision` is called from: the method
itself does not look at the screen. It matters once: a refused answer clears `delivery`
whatever request is current by then (session.ts:557), and only the card, which is gone
when it has answered, keeps a second answer to that request from being signed.

**App.** A session is the part of its state the roster reads; it changes on its own
and `onSessionChange` runs in the same step. `shown` is what React has rendered,
`Render` a step of its own that no click can overtake twice (`urgent`: React renders
after a click before the next event). `timer` is the commit timer of the card shown,
`dying` those of cards replaced whose effect cleanup has not run yet. The roster changes at
once and the screen later, so that a timer may fire in between; either kind answers
whatever request is current, as `manager.approve` does. `latest` and
`fate` stand for the ledger and the retained answer of a room. A notification click
is `Wake`, and what the page does on hearing of it `receive`. `wanted` (the room of
the last click), `touched` (the fingers that went down during a gesture) and `spent`
(the card shown has answered) are history variables, read by no action.

**Push.** One reconciliation is a record whose `at` names the await it is suspended
at. `queue` is the Web Lock, its head the holder. Subscriptions are numbered as the
browser creates them. Frames are delivered in any order or never; a tab is killed
and opened again; the agent's `Notify` captures a subscription, sends under no lock
and compares before it retires. The permission is granted throughout. Reading the
subscription, subscribing, sending and cleaning up may each fail. The second look at
`current()` after subscribing (push.ts:133) is left out: the model sends where the code
may still give up.

**Relay.** A `Conn` is a connection, and used again for another once its handler is over
and nothing refers to it (`Unused`), so that clients dial without end and a room is
recreated while a probe of its predecessor still runs. A step is one critical section or
one write; closing the socket and freeing the slot are one step (`hangUp`), since a
closed socket whose slot is still held is reached anyway, when the client closes it.
The rate limit and the check for a `_relay` field are one nondeterministic policy
close. A write to a frozen socket is lost. `probeRoom` is the room a probe captured, by name,
and `orphan` says that the name now means another one. `told`, `absentSince` and `lost` are
history variables, read by no action.

**Link.** The client's variables beside the whole of `Relay`'s; a socket is a `Conn`,
used again when the relay's `Unused` says so. The agent's connection stays in the room.
Delays are gone: a timer that is armed may fire. Events of a replaced socket do
nothing, since its handlers are detached, and are not steps.

**Wire.** A string is a sequence of code points of four kinds: one byte long, escaped by
Go's encoder, four bytes long, and half of a surrogate pair. UTF-8, quoting and the
length of each member of a message are computed from them; the constant parts of a
message are one number, `Fixed`. A JSON text is the sequence of its values, each with
the value it is in and the key it is under, so that the two decoders, `strictValue` and
`scan`, go down it from value to value by recursion on a place and a depth, as the
programs do. White space, token syntax and what `json.Unmarshal` makes of a value of the
wrong type are left out, and so are structures in arrays: the messages have none. The
limits are scaled down, their relations kept. Hashes and signatures are the bytes they
are of. In a transcript, the eight bytes of a length, the digits of a number and a
constant word are one symbol each. The transcripts of push and VAPID messages have the
same form and are not repeated.

## 3. Properties

The comment above each property in its module states it and names the code it is
about; `PROJECT.json` "hazards" lists, line by line, what each is there to catch.
Every property of a passing run has a mutant: a plausible bug in one definition
(kept in the module above the definition, "Bug: ..." or "Mutant: ...") under which
the same run reports the property violated.

| hazard | properties |
|---|---|
| decision against deadline, duplicate, eviction | `ReceiptsTrue`, `ReceiptCacheSound`, `OutcomeFinal`, `NoForgedAnswer` |
| events lost or early, calls that must return | `ReannouncementOwed`, `AskReturns` |
| suspended handlers, kills, stale tabs on the phone | `OneAnswer`, `NoSecondInvitation`, `AnswerDurable`, `TerminalReceiptKept`, `NoRevival`, `SigningEnds`, `DeliveryTrue`, `ShownForward` |
| end to end | `KeepsPromise`, of `Agent` and of `Phone` |
| rendering, timers, fingers, roster | `OneCardOneAnswer`, `CommitAnswersItsCard` (violated), `SwipeIsOneFingers`, `CardNotStolen`, `PairedKept`, `WakeSelects` |
| lock order and reset in the MCP server | `AttemptShared`, `CodeCurrent`, `SessionStable`, `ApprovalsKeepSession` |
| handshake under retries | `PairingSafe`, `PairingCompletes` |
| counters, signals and probes of the relay | `Accounting`, `PeersTold`, `LossOwed`, `ProbeFlagOwned` |
| sockets of the phone | `OneAttempt`, `ComesBack` |
| push over several tabs | `AgentKeepsNewest`, `ForgottenStaysForgotten`, `ReadyMeansSent`, `CleanupOwed` |
| two implementations of one format | `NothingLost`, `TranscriptsDistinct`, `DecodersAgree` |

## 4. Runs

| run | cfg | what it shows | bounds |
|---|---|---|---|
| agent | MCAgent | no answer to another request or of another shape, receipts true and the cache consistent, outcomes final, `Agent` implements `Approval`; no trouble slept through, cancelled calls return | 2 requests, 2 answers of which one does not fit, cache of 1, 1 event, 1 redial |
| phone | MCPhone | one answer, durable, never asked for again; receipts monotone; no revival; signing ends | 2 requests, 2 answers, 1 retained decision, 1 reload, no faults |
| phone_faults | MCPhoneFaults | outcome screens true, `Phone` implements `Approval`, questions move forward | 2 requests of which the first may be answered (`FirstAnswered`), 1 answer, 1 reload; all faults |
| phone_early | MCPhoneEarly | **violation**, see section 7 | 1 request, 2 answers, 2 reloads, early saves |
| relay | MCRelay | rooms, counters, greetings, losses, probes | 4 connections at a time, without end, 2 rooms (1 may live), 1 address of 3 slots |
| link | MCLink | one attempt always, the phone comes back | 3 sockets and the agent's, 1 room, 2 faults or forced retries |
| mcp | MCMcpServer | one handshake, its code, the session under reset | 2 calls, 1 direct Ask, 3 attempts, 2 sessions |
| pairing | MCPairing | key agreement, retries harmless, completion | 3 pages, 2 lost sockets, 2 queued repeats |
| app | MCApp | a card answers once, and where it was given while it is current; roster, gestures, wake-ups | 2 rooms, 2 fingers, 1 request of each room |
| app_late_commit | MCAppLate | **violation**, see section 7 | 2 rooms, 1 finger, 1 request of each room |
| push | MCPush | newest subscription, forgetting, status, cleanup | 2 tabs, 2 reconciliations, 2 subscriptions, 1 wake-up, 1 reload |
| wire | MCWire | what is sent can be read; transcripts; decoders | 736 questions (225 let through), 7 typed texts, 6517 texts of four levels at most, each at two sizes; 2 sequence numbers, 2 deadlines; sizes scaled (plaintext 64, padding 8) |

*Why the bounds are enough to be interesting.* Two requests are the least for which
a late decision, a late receipt or a stale roster can hit the wrong one; with a
cache (or a list of retained decisions) of one, the second acceptance evicts the
first, as the 33rd does in the code. A full room takes two connections and its probe a
third, rejected one; since names are used again, the room can empty, fill and overflow a
second time while that probe runs, and the second probe meets it (the mutant of
`ProbeFlagOwned`, a probe that clears the flag of whatever room has the name, is found
that way only). The fourth connection is refused for want of a slot while the third is
served, or takes the place of one that leaves; two rooms with one allowed reach
"overloaded". Three sockets
let two dead ones of the phone's hold the room while the third is refused. Three
attempts let one be joined while its predecessor's waiters have not run yet, and two
sessions let a reset be followed by a new pairing. Three pages let the agent finish
with the first or second and still receive the others. Two rooms with one request
each are enough for a card of one agent to be replaced by the other's, for a code to
be typed over a failed attempt, and for a wake-up of the agent that is not active.
Two tabs and two reconciliations, of one tab or of both, give a superseded one, a
stale one and one queued behind a cleanup. The questions of `wire` sit on both sides of each scaled
limit, with plain, escaped and wide characters; its texts go past the scaled depth limit
of 2, with keys repeated, unknown and broken at each level. The safety properties of
every module hold for all bounds, by proof.

Deadlock checking is on, except for `Pairing`, `Link` and `Push`, which come
to an end (an attempt is over; the client was closed; the bounded calls are used up).
Symmetry is used in runs without liveness only: over calls, attempts and sessions (mcp),
over connections and rooms (relay), over tabs (push). No action of these modules tells the
permuted values apart.

## 5. Fairness

* **Agent** — weak fairness of Ask's own steps. Every wait in `Ask` is a select
  that includes `ctx.Done()` (agent.go), so an expired context always leaves a step
  enabled. Nothing is assumed of the reader, the relay or the phone; without a
  deadline a call may wait for ever.
* **Phone** — weak fairness of the steps of suspended `sendDecision` calls: ledger
  transactions time out after five seconds and the signature is local. Nothing is
  assumed of the human, the relay or the agent.
* **Pairing** — both programs run and the phone redials. The human need not type.
* **Link** — goroutines of the relay run, its pings and dead paths time out, and the
  client's timers fire. Faults are bounded: `ComesBack` speaks of what follows the
  last one.

`McpServer`, `Relay`, `App`, `Push` and `Wire` have no fairness. What must eventually
happen there is stated as a safety property instead: whoever waits for an attempt
has one that runs or has ended (`AttemptShared`), a loss is owed by somebody who can
still pay it (`LossOwed`), a flag or a lock has a holder at work (`ProbeFlagOwned`,
`CleanupOwed`). These are stronger than the leads-to forms in that they name who will
act, and can be proved.

## 6. Proofs

The only assumptions are those the modules declare (`AnswerAssumption`,
`BoundsAssumption`, `McpAssumption`, `RelayAssumption`, `PhoneAssumption`,
`PushAssumption`, `AppAssumption`, `WireAssumption`): that the special values differ from the others,
that bounds are natural numbers, positive where the code needs it, and that the
callers of `McpServer` are finitely many, since they are counted. Sets of answers,
connections, rooms, fingers, tabs and attempts may be infinite. `WireAssumption` also says
what reaches the encoders: the strings of a question are valid Unicode (`StrictDecode` saw
to it when the tool call came in), a sequence number is positive and, like a deadline, a
safe integer, and a JSON text is a value with its members nested in it. The last theorems
of `PhoneProofs` also assume `Faults = {}`, and say so in their statements.

| module | theorem | states |
|---|---|---|
| `AgentProofs` | `Invariance`, `TypeCorrect` | `IInv`, `TypeOK` |
| | `AnswersAreSigned`, `ReceiptsAreTrue`, `ReceiptCacheIsSound`, `ReannouncementNeverLost` | `NoForgedAnswer`, `ReceiptsTrue`, `ReceiptCacheSound`, `ReannouncementOwed` |
| | `SettledOnce` | `OutcomeFinal` |
| | `AgentKeepsPromise` | `Agent` implements `Approval` |
| `McpProofs` | `Inductive`, `TypeCorrect` | `IInv`, `TypeOK` |
| | `Shared`, `CodeIsCurrent`, `SessionIsStable`, `PendingKeepsSession` | `AttemptShared`, `CodeCurrent`, `SessionStable`, `ApprovalsKeepSession` |
| `PairingProofs` | `Inductive`, `TypeCorrect`, `PairedAlike` | `IInv`, `TypeOK`, `PairingSafe` |
| `RelayProofs` | `Inductive`, `TypeCorrect` | `IInv`, `TypeOK` |
| | `AccountingExact`, `PeersAreTold`, `LossIsOwed`, `FlagIsOwned` | `Accounting`, `PeersTold`, `LossOwed`, `ProbeFlagOwned` |
| (about `Link`) | `AlwaysOneAttempt` | `OneAttempt` |
| `PhoneProofs` | `Inductive`, `TypeCorrect` | `IInv`, `TypeOK` |
| | `DeliveryIsTrue`, `ShowsForward`, `NothingRevived` | `DeliveryTrue`, `ShownForward`, `NoRevival` |
| | `PhoneKeepsPromise` | `Phone` implements `Approval` |
| (with `Faults = {}`) | `SoundInductive`, `SignsOneAnswer`, `InvitesOnce` | `SInv`, `OneAnswer`, `NoSecondInvitation` |
| | `AnswersAreDurable`, `ReceiptsAreFinal` | `AnswerDurable`, `TerminalReceiptKept` |
| `PushProofs` | `Invariant`, `TypeCorrect` | `IInv`, `TypeOK` |
| | `NewestKept`, `ForgottenForGood` | `AgentKeepsNewest`, `ForgottenStaysForgotten` |
| | `ReadyIsSent`, `CleanupStaysOwed` | `ReadyMeansSent`, `CleanupOwed` |
| `AppProofs` | `Invariant`, `TypeCorrect` | `IInv`, `TypeOK` |
| | `CardAnswersOnce`, `OpenCardStays`, `PairedAgentsKept` | `OneCardOneAnswer`, `CardNotStolen`, `PairedKept` |
| | `WokenIsShown`, `OneFingerSwipes` | `WakeSelects`, `SwipeIsOneFingers` |
| `WireProofs` | `Invariant` | `Inv` |
| | `NothingIsLost`, `TranscriptsAreDistinct`, `DecodersDoAgree` | `NothingLost`, `TranscriptsDistinct`, `DecodersAgree` |
| | `AnswerFitsOne` | decisions signed alike have one id, request hash and kind, and say the same |

*Agent.* None of the receipt properties is inductive: that a receipt is true
depends on the mailbox holding only answers to the registered request, which
depends on where Ask is. So `IInv` joins `TypeOK`; `AskInv` (the program counter
fixes which request is registered and how far it is settled); `MailboxInv` (mailbox
and captured decision hold signed, fitting answers to that request); `WireInv` (only
announced requests are answered); `ReceiptInv` (cached, queued and sent receipts are
true of the outcomes) and `NoForgedAnswer`. Each conjunct has a lemma, one step per
action. Receipts stay true because outcomes only leave "open" once, which also gives
`SettledOnce`, and, with the mapping `signed <- decisions`, `confirmed <- Receipted`
(answers whose accepted receipt reached the wire), the refinement.
`ReannouncementOwed` needs `StaleInv` on top: trouble that is still owed has an event
in the channel or in the reader's hand, which a full channel does not contradict
since any event serves. `ReceiptCacheSound` needs `CacheInv`: the queue is
duplicate-free and lists exactly the map's keys, kept through append and eviction.

*McpServer.* The properties rest on each other: no reset begins while an approval
is pending, which needs the counter to be exact (`Counted`, by cardinality of the
calls that have entered and not left); a session appears only through the one
attempt that runs (`SingleFlight`, `Attempts`), and no attempt runs beside a session;
a reset that has begun holds `h.mu`, so no call is counted and none starts an
attempt until it is over (`Resetting`); a call that waits, waits for an attempt whose
`done` has not been dropped (`Waiters`); an Ask has the session it captured
(`Captured`).

*Pairing.* What a queue holds decides later, so `Queues` says what a queued confirm
is good for: those on their way to the agent are of pages that derived a key, those
on their way to the phone are of the page the agent finished with; `Kept` says the
same of the confirms either side has put aside. The agent's choice is made once
(`NextGrows`), which is what an attempt's retries must not undo.

*Relay.* Rooms and counters are images of where the handlers are (`RoomsExact`,
`HoldersExact`); the steps that change them change one element, so that a count
moves by one. `PeersTold` is inductive given those. `LossOwed` needs `Losses`: as
long as a client's loss is unreported there is a dead peer in its room, or one that
has left and holds the client as the peer to tell; a frame captured for a dead peer
(`forward`) must already have one. `ProbeFlagOwned` needs `Probes`: who probes was
rejected and is in no room, and an orphan's flag is not its own.

*Link.* All that the relay does to a socket is close it (`RelayOnlyCloses`, one step
per action of `Relay`), so the client's own steps decide.

*Phone.* Two invariants. `IInv` holds whatever fails: every entry (the session's, the
saved one, the one a reload started from, the one another tab remembers) is true of
the agent (`EntryTrue`: its request was asked, its answers were signed, what it calls
expired did expire), and so are the suspended calls and the answers on the wire
(`Tasks`) and the screen (`ScreenTrue`). Truth at the agent only grows (`Grows`), so
copying an entry, however stale, keeps it: most steps only move entries (`Moves`), and
the few that write one (`Saves`) are taken one by one. `Newest` says that what is about
to be shown is what the ledger holds, which is why a stale roster cannot bring a
question back. `SInv` needs storage that works, one tab and no early save, and fails
without them (section 7): the saved entry mirrors the session or is what it will be
restored from (`Mirror`); retained answers are in the order of their requests, so that
the one displaced is the oldest (`Retained`, `RetainsInOrder`); a signed answer's
request is seen, and pending while it is on the screen (`SignedOnce`); a request has one
suspended answer at most, which is not signed yet, and once off the screen it is closed
or older than the ledger (`SigningOnce`), so that it does not return to be answered
again. A step of a restored session other than a send or a reload leaves the retained
answers and moves the screen in one of three ways (`Keeps`: `Stays`, `Leaves`, `Shows`);
the conjuncts follow from that.

*Push.* The pages meet at the room's lock, so `QueueInv` comes first: the queue lists,
each once, the reconciliations under way and the cleanups that are owed, and whoever
is past "queued" is at its head. Two holders never are, which is what makes the other
conjuncts inductive. `ForgetInv`: once a page has deleted the record it stays deleted,
and once the registration is gone no reconciliation is past the check that reads the
record, since that check and all that follows it run under the lock the cleanup had.
`ShownInv`: what the roster shows is the result of the page's newest reconciliation,
which has ended and has sent, under the agent's key where that is known. For the agent,
`EndpointInv` numbers endpoints as the browser creates them (one at a time, the last one
is the native one) and says that a reconciliation at work with one has the newest;
`FrameInv` that of the frames on their way and the one the agent kept, those with newer
numbers carry newer endpoints, and none is above what is being signed. So the agent, which
goes by the number, never gets an older endpoint. A step of a reconciliation moves
it to its next await or ends it (`CallStepKinds`), which is all that the queue and the
roster see of it.

*App.* `Unmounted` says that without an App there is no roster and that the last
notification is the one in the fragment, so that `Mount`, which restores the roster before
it reads the fragment, selects it; everything that changes the active agent otherwise
ends what was wanted. `TimerOfCard`: a commit timer is that of the card on the screen, for
cards are keyed by request; with `Rendered` and `Receipts` it gives that, on a page that
shows what is current, the answer it sends is the one for the card. `SpentCard`: a card
that has answered is committed and has no timer left, or a click is being handled and what
is current is no longer a card; so it does not answer again, whatever is current by then.
An answer that goes to another request is not excluded (section 7), and `CardAnswersOnce`
says so: its first part has the hypothesis that the page is rendered and no dying timer
fires, its second part only that no dying timer fires. `Receipts`: only a paired session sends an answer or shows a
receipt, and the receipt's request is gone, so that neither a countdown nor a reconnection
closes it. `OneFinger` follows the fingers over a gesture. A step of a session is taken
once, as `OwnChange`: it reacts with `onSessionChange`, sends no answer and closes no
receipt (`SessionStepIs`); `ChangeIs` says what that does to the roster. The properties
then follow from the few kinds of step (`Kinds`).

*Wire.* `NothingLost` is not inductive: that the agent accepts an answer depends on what
the card showed, and that on the question. `Inv` ties them: the request is some checked
question with its metadata (`Full`), the card is its JSON, the text typed is whole and
within the card's limit, and the answer under way `Fits` the card. Each step then asks for
a fact about two pieces of code written twice. `Reserved`: the length checked with the
longest metadata bounds, padding included, the length with any other (`DigitsRise`,
`PadRises`), and is below the phone's own limit. `PhoneReads`, `Admitted`: every check of
the phone holds of what the agent's checks let through, absent members included.
`TranscriptsSame`, `DecisionSame`: both programs sign the same bytes.

`TranscriptsDistinct` needs that transcripts can be read back. `FlattenUnique`: words of
which none begins another are told apart when joined; it serves for length-prefixed parts
(`FieldsUnique`) and for UTF-8 (`BytesUnique`). The number of options is in the transcript
before the options, so that what follows them is where it was (`PartsApart`,
`TranscriptUnique`).

`DecodersAgree`: each decoder is a function that is TRUE of a value when the value is good
and so are all in it (`Descends`; `GoIs`, `TsIs`). There is one such function for a given
notion of good (`DescendsExists`, `DescendsUnique`). The notions differ in one thing only:
TypeScript asks for whole characters on its way, Go before it starts (`PlainSame`); and
what TypeScript reads to the end has whole characters everywhere, since every value is in
one that was read (`ReadWhole`).

These are inductions over sequences and over nested texts. The library's induction
theorems cannot be used here, for they take an operator; but the order of the naturals is
well founded without one, so a set of numbers has a least member (`Least`), and each
induction is about the least number at which something fails. A recursive function exists
because the greatest set of good values that holds, with each of them, all that are in it
is its graph.

*Filter.* `SelectSeq` and `Remove` say nothing to the provers, so what is left of an
array is defined by position (`Kept`), and `PushProofs` proves what it is: the elements
at the chosen positions and no others, in the order they had; `AppProofs`, which cannot
extend it, has the part it needs. (That is an induction in disguise; it is done with
ranks, cardinalities and a bijection of finite sets.)

*Only model-checked.* The liveness properties (`AskReturns`, `SigningEnds`,
`PairingCompletes`, `ComesBack`), since the prover has no ENABLED. Every safety property
of a passing run is proved.

## 7. Disagreements found

**phone_early.** The manager saves every room whose session has a key, also while
that session is still being restored. If the page becomes visible or online in
that moment (`App.tsx` calls `retryAll`), or another room changes, the saved entry
loses its retained answers; a kill before the restore ends makes that final, and
the answered question is offered again. ADR 0026 says a lost receipt "does not
invite a different answer". With `Faults = {"storage"}` (a failed read while
restoring) or `{"tab"}` (a stale tab's save) the same configuration reports the
same property violated.

**app_late_commit.** A swipe commits its answer 330 ms later, by a timer that asks the
manager to approve (or decline) whatever the active session then has (screens.tsx:486,
manager.ts:295). The comments at App.tsx:340-344 and screens.tsx:418-422 say that the key on
the card and the cleanup of its timer keep the answer from another request. They do so once
React has rendered and run the cleanup; but the roster changes at once, outside an event,
and React renders in a later task. A timer that is due in between answers a request nobody
has seen: of the same agent, when a newer request replaced the one swiped, or of another
one, when the swiped request went away and the manager brought another agent to the front.
The run shows the latter. `OneCardOneAnswer` is what holds: outside these two moments
(between a change and its rendering, and in a card replaced but not cleaned up) an answer is
the shown card's, and no card answers twice. In the first moment a tap may stray as well.

Seen while modelling, with no run of their own:

* The agent sends its confirm once and ignores later pakes (pair.go:175-177). If
  that frame is lost while the phone's arrives, the agent reports "No new code
  needed." (mcp.go:288) and the phone waits until a code is typed again.
  `PairingCompletes` names the lost confirm as an exception.
* A tab killed between deleting the ledger record and removing the native
  registration (push.ts:151) leaves the registration behind.
* `onPairError` does not set `closed`: a handler suspended at an await goes on after
  a storage failure and replaces the repair screen (session.ts:752).
* A card refused after signing clears the delivery state even if a newer request has
  the screen (`Refuse`).
* A `peer_left` written outside the relay's lock can arrive after its successor's
  `peer_joined` (relay.go:481).
* The shared attempt runs under the context of the call that started it
  (mcp.go:181): when that call is cancelled, everybody who joined fails with it.
* Each `undeliverable` makes the pairing phone send again, at network speed
  (session.ts:648).
* A session that was paired and then failed is replaced by the next code typed for
  its room (App.tsx:271).
* The timeout diagnostic says "the phone never connected" when it is merely away at
  the deadline (agent.go:659).

## 8. What is left

1. `System`: `Agent` and `Phone` composed over one untrusted channel, implementing
   `Approval` end to end, in place of the assume/guarantee split.
2. Behaviour that is modelled and covered by no property: the lost confirm, the handler
   that outlives a failed pairing, the registration that outlives a killed tab (section 7).
3. Proxy addresses as operators against a reference definition; device and VAPID key
   creation by racing processes.
