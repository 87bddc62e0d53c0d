------------------------------- MODULE Agent -------------------------------
(***************************************************************************)
(* The agent process of askahuman (backend/internal/agent): one call of    *)
(* Ask at a time, the persistent session reader (readLoop), and the        *)
(* receipt writer (ackLoop), for the lifetime of one paired session.       *)
(*                                                                         *)
(* The three goroutines interleave at their locks and channels: askPc and  *)
(* reader are their program counters.  The relay is untrusted: a decision  *)
(* once signed by the device can reach the reader at any later time, in    *)
(* any order and any number of times, or never.                            *)
(*                                                                         *)
(* The n-th request is the one with RequestSeq = n: the sequence number is *)
(* signed into the request, so it identifies the request hash.             *)
(***************************************************************************)
EXTENDS Naturals, Sequences

CONSTANTS
  Answer,          \* the results a device may sign
  Fitting,         \* those that match the response the request asked for
  MaxSafeInteger,  \* wire.MaxSafeInteger: requests per session
  maxReceipts,     \* receipts kept, and capacity of the receipt queue
  EvCap,           \* capacity of a waiter's event channel
  MaxReconnects    \* bound on re-dials (model bound, not in the code)

Unasked == "unasked"
Open    == "open"
Timeout == "timeout"   \* ended without an answer

ASSUME AnswerAssumption ==
  /\ Answer \cap {Unasked, Open, Timeout} = {}
  /\ Fitting \subseteq Answer
ASSUME BoundsAssumption ==
  /\ MaxSafeInteger \in Nat \ {0}
  /\ maxReceipts \in Nat \ {0}
  /\ EvCap \in Nat \ {0}
  /\ MaxReconnects \in Nat

Request  == 1 .. MaxSafeInteger
Decision == [req : Request, ans : Answer]
Event    == {"absent", "reconnected"}
Ack      == [req : Request, ans : Answer,
             status : {"accepted", "expired", "unknown"}]

VARIABLES
  seq,           \* sess.requestSeq; also the request of the Ask in flight
  askPc,         \* where the Ask in flight is; "idle" iff asking is false
  expired,       \* its context is cancelled or past the deadline
  waiter,        \* a.waiter: the registered request, 0 for nil
  decCh,         \* the waiter's one-place decision mailbox
  evCh,          \* the waiter's transport events
  dec,           \* the decision Ask took from decCh, if any
  receipts,      \* sess.receipts: request -> accepted answer, or Open
  receiptOrder,  \* sess.receiptOrder: FIFO of the keys of receipts
  ackQueue,      \* sess.ackQueue
  reader,        \* where the reader is
  alive,         \* the current socket works
  reconnects,    \* number of successful re-dials
  peerPresent,   \* a.peerPresent
  announced,     \* requests that reached the wire
  sentAcks,      \* receipts that reached the wire
  decisions,     \* decisions the paired device has signed and sent
  outcome,       \* history: how each request ended for the caller
  stale          \* history: transport trouble seen since the last announcement
                 \* of the registered request

askVars    == <<seq, askPc, expired, waiter, decCh, evCh, dec>>
commitVars == <<receipts, receiptOrder, ackQueue>>
connVars   == <<reader, alive, reconnects, peerPresent>>
wireVars   == <<announced, sentAcks, decisions>>
histVars   == <<outcome, stale>>
agentVars  == <<askVars, commitVars, connVars, announced, sentAcks, histVars>>
vars       == <<askVars, commitVars, connVars, wireVars, histVars>>

AskType ==
  /\ seq \in 0 .. MaxSafeInteger
  /\ askPc \in {"idle", "register", "announce", "loop", "select", "backoff",
                "commit", "accepted", "refused", "return", "release"}
  /\ expired \in BOOLEAN
  /\ waiter \in {0} \cup Request
  /\ decCh \in {<<>>} \cup {<<d>> : d \in Decision}
  /\ evCh \in Seq(Event)
  /\ dec \in {<<>>} \cup {<<d>> : d \in Decision}

CommitType ==
  /\ receipts \in [Request -> {Open} \cup Answer]
  /\ receiptOrder \in Seq(Request)
  /\ ackQueue \in Seq(Ack)

ConnType ==
  /\ reader \in {"reading", "redial", "notify", "pause"}
  /\ alive \in BOOLEAN
  /\ reconnects \in Nat
  /\ peerPresent \in BOOLEAN

WireType ==
  /\ announced \subseteq Request
  /\ sentAcks \subseteq Ack
  /\ decisions \subseteq Decision

HistType ==
  /\ outcome \in [Request -> {Unasked, Open, Timeout} \cup Answer]
  /\ stale \in BOOLEAN

TypeOK == AskType /\ CommitType /\ ConnType /\ WireType /\ HistType

\* Pair has just installed the session and started its reader.
Init ==
  /\ seq = 0
  /\ askPc = "idle"
  /\ expired = FALSE
  /\ waiter = 0
  /\ decCh = <<>>
  /\ evCh = <<>>
  /\ dec = <<>>
  /\ receipts = [n \in Request |-> Open]
  /\ receiptOrder = <<>>
  /\ ackQueue = <<>>
  /\ reader = "reading"
  /\ alive = TRUE
  /\ reconnects = 0
  /\ peerPresent = TRUE
  /\ announced = {}
  /\ sentAcks = {}
  /\ decisions = {}
  /\ outcome = [n \in Request |-> Unasked]
  /\ stale = FALSE

\* A non-blocking send on a channel of capacity cap: full means dropped.
TrySend(ch, x, cap) == IF Len(ch) < cap THEN Append(ch, x) ELSE ch

AckFor(d, status) == [req |-> d.req, ans |-> d.ans, status |-> status]

queueAck(ack) == ackQueue' = TrySend(ackQueue, ack, maxReceipts)

-----------------------------------------------------------------------------
(* Ask                                                                     *)

\* Ask up to prepareRequest: single flight, then the next sequence number.
\* ErrBusy, ErrNotPaired and an exhausted sequence return without a change.
AskBegin ==
  /\ askPc = "idle"
  /\ seq < MaxSafeInteger
  /\ seq' = seq + 1
  /\ expired' = FALSE
  /\ askPc' = "register"
  /\ outcome' = [outcome EXCEPT ![seq + 1] = Open]
  /\ UNCHANGED <<waiter, decCh, evCh, dec, commitVars, connVars, wireVars,
                 stale>>

\* The caller cancels or the deadline passes, at any point of the call.
ContextDone ==
  /\ askPc # "idle"
  /\ ~expired
  /\ expired' = TRUE
  /\ UNCHANGED <<seq, askPc, waiter, decCh, evCh, dec, commitVars, connVars,
                 wireVars, histVars>>

\* A fresh mailbox, installed under waiterMu before anything is sent.
RegisterWaiter ==
  /\ askPc = "register"
  /\ waiter' = seq
  /\ decCh' = <<>>
  /\ evCh' = <<>>
  /\ dec' = <<>>
  /\ askPc' = "announce"
  /\ UNCHANGED <<seq, expired, commitVars, connVars, wireVars, histVars>>

\* sendRequest on the current connection; a write to a dead socket is lost
\* and its error ignored.
sendRequest ==
  /\ askPc = "announce"
  /\ announced' = IF alive THEN announced \cup {seq} ELSE announced
  /\ stale' = FALSE
  /\ askPc' = "loop"
  /\ UNCHANGED <<seq, expired, waiter, decCh, evCh, dec, commitVars, connVars,
                 sentAcks, decisions, outcome>>

\* The check at the head of the loop, before select blocks.
EnterSelect ==
  /\ askPc = "loop"
  /\ ~expired
  /\ askPc' = "select"
  /\ UNCHANGED <<seq, expired, waiter, decCh, evCh, dec, commitVars, connVars,
                 wireVars, histVars>>

\* Bug: only an absent phone ends the wait.
GiveUpOnAbsence ==
  /\ askPc \in {"loop", "select", "backoff"}
  /\ expired /\ ~peerPresent
  /\ outcome' = [outcome EXCEPT ![seq] = Timeout]
  /\ askPc' = "return"
  /\ UNCHANGED <<seq, expired, waiter, decCh, evCh, dec, commitVars, connVars,
                 wireVars, stale>>

\* requestExpired at the head of the loop, or ctx.Done in either select.
GiveUp ==
  /\ askPc \in {"loop", "select", "backoff"}
  /\ expired
  /\ outcome' = [outcome EXCEPT ![seq] = Timeout]
  /\ askPc' = "return"
  /\ UNCHANGED <<seq, expired, waiter, decCh, evCh, dec, commitVars, connVars,
                 wireVars, stale>>

\* select may pick the mailbox even when ctx.Done is ready as well.
TakeDecision ==
  /\ askPc \in {"select", "backoff"}
  /\ decCh # <<>>
  /\ dec' = decCh
  /\ decCh' = <<>>
  /\ askPc' = "commit"
  /\ UNCHANGED <<seq, expired, waiter, evCh, commitVars, connVars, wireVars,
                 histVars>>

\* A peer-absent event waits out the backoff before the re-announcement, a
\* reconnect event re-announces at once.
TakeEvent ==
  /\ askPc = "select"
  /\ evCh # <<>>
  /\ evCh' = Tail(evCh)
  /\ askPc' = IF Head(evCh) = "absent" THEN "backoff" ELSE "announce"
  /\ UNCHANGED <<seq, expired, waiter, decCh, dec, commitVars, connVars,
                 wireVars, histVars>>

\* Bug: after the backoff the request is not sent again.
BackoffWithoutResend ==
  /\ askPc = "backoff"
  /\ askPc' = "loop"
  /\ UNCHANGED <<seq, expired, waiter, decCh, evCh, dec, commitVars, connVars,
                 wireVars, histVars>>

BackoffElapsed ==
  /\ askPc = "backoff"
  /\ askPc' = "announce"
  /\ UNCHANGED <<seq, expired, waiter, decCh, evCh, dec, commitVars, connVars,
                 wireVars, histVars>>

\* Bug: the evicted receipt stays in the map.
CommitWithoutEviction ==
  /\ askPc = "commit" /\ ~expired
  /\ askPc' = "accepted"
  /\ outcome' = [outcome EXCEPT ![seq] = dec[1].ans]
  /\ receipts' = [receipts EXCEPT ![seq] = dec[1].ans]
  /\ receiptOrder' = Append(IF Len(receiptOrder) < maxReceipts
                              THEN receiptOrder ELSE Tail(receiptOrder), seq)
  /\ UNCHANGED <<seq, expired, waiter, decCh, evCh, dec, ackQueue, connVars,
                 wireVars, stale>>

\* commitDecision: its receipt is signed first, and without one the call fails;
\* then under waiterMu, past the deadline the answer is refused, otherwise its
\* receipt is stored, the oldest one evicted over the limit.
commitDecision ==
  LET d == dec[1] IN
  /\ askPc = "commit"
  /\ \/ /\ askPc' = "return"
        /\ outcome' = [outcome EXCEPT ![seq] = Timeout]
        /\ UNCHANGED <<receipts, receiptOrder>>
     \/ /\ expired
        /\ askPc' = "refused"
        /\ outcome' = [outcome EXCEPT ![seq] = Timeout]
        /\ UNCHANGED <<receipts, receiptOrder>>
     \/ /\ ~expired
        /\ askPc' = "accepted"
        /\ outcome' = [outcome EXCEPT ![seq] = d.ans]
        /\ IF Len(receiptOrder) < maxReceipts
             THEN /\ receipts' = [receipts EXCEPT ![d.req] = d.ans]
                  /\ receiptOrder' = Append(receiptOrder, d.req)
             ELSE /\ receipts' = [receipts EXCEPT
                                    ![d.req] = d.ans,
                                    ![Head(receiptOrder)] = Open]
                  /\ receiptOrder' = Append(Tail(receiptOrder), d.req)
  /\ UNCHANGED <<seq, expired, waiter, decCh, evCh, dec, ackQueue, connVars,
                 wireVars, stale>>

\* Bug: the context is consulted again after the commit.
ReceiptRechecksContext ==
  /\ askPc \in {"accepted", "refused"}
  /\ queueAck(AckFor(dec[1], IF expired THEN "expired" ELSE "accepted"))
  /\ outcome' = IF expired THEN [outcome EXCEPT ![seq] = Timeout] ELSE outcome
  /\ askPc' = "return"
  /\ UNCHANGED <<seq, expired, waiter, decCh, evCh, dec, receipts,
                 receiptOrder, connVars, wireVars, stale>>

\* Bug: an answer taken before the deadline is receipted as expired.
ReceiptIgnoresCommit ==
  /\ askPc \in {"accepted", "refused"}
  /\ queueAck(AckFor(dec[1], IF expired THEN "expired" ELSE "accepted"))
  /\ askPc' = "return"
  /\ UNCHANGED <<seq, expired, waiter, decCh, evCh, dec, receipts,
                 receiptOrder, connVars, wireVars, histVars>>

\* The receipt is queued after waiterMu is released.
QueueReceipt ==
  /\ askPc \in {"accepted", "refused"}
  /\ queueAck(AckFor(dec[1], IF askPc = "accepted" THEN "accepted" ELSE "expired"))
  /\ askPc' = "return"
  /\ UNCHANGED <<seq, expired, waiter, decCh, evCh, dec, receipts,
                 receiptOrder, connVars, wireVars, histVars>>

\* The deferred calls, in order: the waiter first, then the single-flight flag.
ClearWaiter ==
  /\ askPc = "return"
  /\ waiter' = 0
  /\ decCh' = <<>>
  /\ evCh' = <<>>
  /\ dec' = <<>>
  /\ stale' = FALSE
  /\ askPc' = "release"
  /\ UNCHANGED <<seq, expired, commitVars, connVars, wireVars, outcome>>

ReleaseAsking ==
  /\ askPc = "release"
  /\ askPc' = "idle"
  /\ UNCHANGED <<seq, expired, waiter, decCh, evCh, dec, commitVars, connVars,
                 wireVars, histVars>>

AskStep ==
  \/ RegisterWaiter \/ sendRequest \/ EnterSelect \/ GiveUp \/ TakeDecision
  \/ TakeEvent \/ BackoffElapsed \/ commitDecision \/ QueueReceipt
  \/ ClearWaiter \/ ReleaseAsking

-----------------------------------------------------------------------------
(* readLoop, handleFrame, ackLoop                                          *)

notifyWaiter(ev) ==
  evCh' = IF waiter = 0 THEN evCh ELSE TrySend(evCh, ev, EvCap)

Reading == reader = "reading" /\ alive

\* An undeliverable or peer_left signal.
HandleAbsent ==
  /\ Reading
  /\ peerPresent' = FALSE
  /\ notifyWaiter("absent")
  /\ stale' = (waiter # 0)
  /\ UNCHANGED <<seq, askPc, expired, waiter, decCh, dec, commitVars, reader,
                 alive, reconnects, wireVars, outcome>>

\* A peer_joined signal, or any box that opens under the session key but is
\* neither a subscription nor a valid decision.
HandlePresent ==
  /\ Reading
  /\ peerPresent' = TRUE
  /\ UNCHANGED <<askVars, commitVars, reader, alive, reconnects, wireVars,
                 outcome, stale>>

\* Bug: the cached receipt is matched by request only.
RouteByRequest(d) ==
  IF waiter = d.req /\ receipts[d.req] = Open
    THEN decCh' = TrySend(decCh, d, 1) /\ UNCHANGED ackQueue
    ELSE /\ UNCHANGED decCh
         /\ queueAck(AckFor(d, IF receipts[d.req] = Open THEN "unknown"
                               ELSE "accepted"))

\* Bug: whichever request is waiting gets the answer.
RouteToWaiter(d) ==
  IF receipts[d.req] = d.ans
    THEN queueAck(AckFor(d, "accepted")) /\ UNCHANGED decCh
    ELSE IF waiter = 0
      THEN queueAck(AckFor(d, "unknown")) /\ UNCHANGED decCh
      ELSE /\ decCh' = IF d.ans \in Fitting THEN TrySend(decCh, d, 1) ELSE decCh
           /\ UNCHANGED ackQueue

\* routeBoundDecision for a decision whose signature verified.
routeBoundDecision(d) ==
  IF receipts[d.req] = d.ans
    THEN queueAck(AckFor(d, "accepted")) /\ UNCHANGED decCh
    ELSE IF waiter # d.req
      THEN queueAck(AckFor(d, "unknown")) /\ UNCHANGED decCh
      ELSE /\ decCh' = IF d.ans \in Fitting THEN TrySend(decCh, d, 1) ELSE decCh
           /\ UNCHANGED ackQueue

HandleDecision(d) ==
  /\ Reading
  /\ d \in decisions
  /\ peerPresent' = TRUE
  /\ routeBoundDecision(d)
  /\ UNCHANGED <<seq, askPc, expired, waiter, evCh, dec, receipts,
                 receiptOrder, reader, alive, reconnects, wireVars, outcome,
                 stale>>

ReadError ==
  /\ reader = "reading"
  /\ ~alive
  /\ reader' = "redial"
  /\ UNCHANGED <<askVars, commitVars, alive, reconnects, peerPresent, wireVars,
                 histVars>>

\* readerReconnect: the fresh connection is installed before the waiter is
\* told about it.
RedialOk ==
  /\ reader = "redial"
  /\ reconnects < MaxReconnects
  /\ reconnects' = reconnects + 1
  /\ alive' = TRUE
  /\ reader' = "notify"
  /\ stale' = (waiter # 0)
  /\ UNCHANGED <<askVars, commitVars, peerPresent, wireVars, outcome>>

RedialFail ==
  /\ reader = "redial"
  /\ reader' = "pause"
  /\ UNCHANGED <<askVars, commitVars, alive, reconnects, peerPresent, wireVars,
                 histVars>>

NotifyReconnected ==
  /\ reader = "notify"
  /\ notifyWaiter("reconnected")
  /\ reader' = "pause"
  /\ UNCHANGED <<seq, askPc, expired, waiter, decCh, dec, commitVars, alive,
                 reconnects, peerPresent, wireVars, histVars>>

ReaderBackoff ==
  /\ reader = "pause"
  /\ reader' = "reading"
  /\ UNCHANGED <<askVars, commitVars, alive, reconnects, peerPresent, wireVars,
                 histVars>>

\* Write errors of ackLoop are ignored: the receipt is then gone.
ackLoop ==
  /\ ackQueue # <<>>
  /\ ackQueue' = Tail(ackQueue)
  /\ sentAcks' = IF alive THEN sentAcks \cup {Head(ackQueue)} ELSE sentAcks
  /\ UNCHANGED <<askVars, receipts, receiptOrder, connVars, announced,
                 decisions, histVars>>

ReaderStep ==
  \/ ReadError \/ RedialOk \/ RedialFail \/ NotifyReconnected \/ ReaderBackoff

-----------------------------------------------------------------------------
(* Environment                                                             *)

ConnDies ==
  /\ alive
  /\ alive' = FALSE
  /\ UNCHANGED <<askVars, commitVars, reader, reconnects, peerPresent,
                 wireVars, histVars>>

\* The device answers a request it was shown.  Nothing here stops it from
\* signing conflicting answers: the agent must cope.
DeviceSigns(d) ==
  /\ d.req \in announced
  /\ decisions' = decisions \cup {d}
  /\ UNCHANGED <<askVars, commitVars, connVars, announced, sentAcks, histVars>>

AgentStep ==
  \/ AskBegin \/ ContextDone \/ AskStep
  \/ HandleAbsent \/ HandlePresent
  \/ \E d \in Decision : HandleDecision(d)
  \/ ReaderStep \/ ackLoop \/ ConnDies

Next == AgentStep \/ \E d \in Decision : DeviceSigns(d)

Spec == Init /\ [][Next]_vars

\* The Ask goroutine is never blocked for good: each of its waits is a select
\* that includes ctx.Done.
FairSpec == Spec /\ WF_vars(AskStep)

-----------------------------------------------------------------------------
(* Properties                                                              *)

Acks == {ackQueue[i] : i \in 1 .. Len(ackQueue)} \cup sentAcks

Answered(n) == outcome[n] \in Answer

\* What Ask returned to its caller is an answer the device signed for this very
\* request and of the shape it asked for; a transport failure, a timeout or an
\* answer to another request never becomes one (agent.go: Ask, "A failure is
\* never returned as approved").
NoForgedAnswer ==
  \A n \in Request :
    Answered(n) => /\ [req |-> n, ans |-> outcome[n]] \in decisions
                   /\ outcome[n] \in Fitting

\* An "accepted" receipt, queued or sent, first time or repeated for a
\* duplicate, names exactly the answer the caller was given: the phone never
\* shows "confirmed" for a request that timed out or was answered otherwise
\* (protocol.go: commitDecision, routeBoundDecision).
AcceptedReceiptTrue ==
  \A k \in Acks : k.status = "accepted" => outcome[k.req] = k.ans

\* An "expired" receipt is only issued for a request that timed out, so the
\* device is never told that an answer the agent acted on was too late.
ExpiredReceiptTrue ==
  \A k \in Acks : k.status = "expired" => outcome[k.req] = Timeout

\* An "unknown" receipt is never issued while the request is still open: a
\* phone told "unknown" knows that no later acceptance can follow, and for the
\* accepted answer itself it means the receipt has been evicted.
UnknownReceiptClosed ==
  \A k \in Acks :
    k.status = "unknown" =>
      /\ outcome[k.req] \notin {Unasked, Open}
      /\ outcome[k.req] = k.ans => receipts[k.req] = Open

\* Every receipt tells the truth about the request it names, whatever was duplicated,
\* delayed, evicted or raced with the deadline on the way to it.
ReceiptsTrue == AcceptedReceiptTrue /\ ExpiredReceiptTrue /\ UnknownReceiptClosed

\* The receipt cache and its eviction queue describe the same requests, each
\* once, at most maxReceipts of them, and only accepted answers: an eviction
\* never leaves a receipt behind that can no longer be evicted.
ReceiptCacheSound ==
  /\ Len(receiptOrder) <= maxReceipts
  /\ \A i, j \in 1 .. Len(receiptOrder) :
       i # j => receiptOrder[i] # receiptOrder[j]
  /\ \A n \in Request :
       /\ receipts[n] # Open <=>
            \E i \in 1 .. Len(receiptOrder) : receiptOrder[i] = n
       /\ receipts[n] # Open => receipts[n] = outcome[n]

\* While Ask is blocked in its select, trouble the transport reported since the
\* last announcement (peer absent, or a new connection) still has an event
\* waiting for it: Ask never sleeps on a request that may have been lost, even
\* though full event channels drop events and events arrive while it is busy.
ReannouncementOwed ==
  askPc \in {"loop", "select"} /\ stale => evCh # <<>> \/ reader = "notify"

\* Once Ask has settled a request no later step changes how it ended: after a
\* timeout no late decision is accepted, after an acceptance no deadline or
\* cancellation turns it into a timeout (protocol.go: "No later context check
\* may turn this into a timeout").
OutcomeFinal ==
  [][\A n \in Request :
       outcome[n] \notin {Unasked, Open} => outcome'[n] = outcome[n]]_outcome

\* The inductive strengthening.  AskInv: the program counter of Ask fixes which
\* request is registered and how far it is settled.
AskInv ==
  /\ askPc # "idle" => seq \in Request
  /\ waiter = IF askPc \in {"idle", "register", "release"} THEN 0 ELSE seq
  /\ \A n \in Request :
       /\ n > seq => outcome[n] = Unasked
       /\ n < seq => outcome[n] \notin {Unasked, Open}
       /\ n = seq =>
            /\ askPc \in {"register", "announce", "loop", "select", "backoff",
                          "commit"} => outcome[n] = Open
            /\ askPc = "accepted" => outcome[n] = dec[1].ans
            /\ askPc = "refused" => outcome[n] = Timeout
            /\ askPc \in {"return", "release", "idle"} =>
                 outcome[n] \notin {Unasked, Open}

\* Mailboxes hold signed, fitting answers to the registered request only.
MailboxInv ==
  /\ waiter = 0 => decCh = <<>> /\ dec = <<>>
  /\ askPc \in {"commit", "accepted", "refused"} => dec # <<>>
  /\ \A d \in Decision :
       decCh = <<d>> \/ dec = <<d>> =>
         d.req = seq /\ d.ans \in Fitting /\ d \in decisions

\* Only requests that reached the wire have been answered.
WireInv ==
  /\ \A n \in announced : n <= seq /\ outcome[n] # Unasked
  /\ askPc = "register" => seq \notin announced
  /\ \A d \in decisions : d.req \in announced

\* What each kind of receipt means, wherever it is.
AckTrue(k) ==
  /\ k.status = "accepted" => outcome[k.req] = k.ans
  /\ k.status = "expired" => outcome[k.req] = Timeout
  /\ k.status = "unknown" =>
       /\ outcome[k.req] \notin {Unasked, Open}
       /\ outcome[k.req] = k.ans => receipts[k.req] = Open

ReceiptInv ==
  /\ \A n \in Request : receipts[n] # Open => receipts[n] = outcome[n]
  /\ \A i \in 1 .. Len(ackQueue) : AckTrue(ackQueue[i])
  /\ \A k \in sentAcks : AckTrue(k)

IInv == TypeOK /\ AskInv /\ MailboxInv /\ WireInv /\ ReceiptInv /\ NoForgedAnswer

\* Every step of the agent is a step of the promise Approval makes, or changes
\* nothing it speaks about: requests are settled once, with a signed answer or a
\* timeout, and only what was accepted is receipted as accepted.
Receipted == {d \in Decision : AckFor(d, "accepted") \in sentAcks}

Promise == INSTANCE Approval WITH signed <- decisions, confirmed <- Receipted

KeepsPromise == Promise!Spec

\* A request whose context is done always comes back to its caller, whatever
\* the reader, the relay and the phone do.
AskReturns == (askPc # "idle" /\ expired) ~> (askPc = "idle")

=============================================================================
