------------------------------- MODULE Phone -------------------------------
(***************************************************************************)
(* The phone's Session (frontend/src/lib/session.ts) for one paired room,  *)
(* with the durable sequence ledger (protocol-state.ts) and the roster     *)
(* snapshot the manager saves on every change (manager.ts).                *)
(*                                                                         *)
(* JavaScript runs each handler to its next await: the pieces between two  *)
(* awaits are the actions.  signing holds the calls of sendDecision that   *)
(* are suspended, handling the box whose handling is suspended (boxes are  *)
(* drained one at a time).  The page can be killed and reloaded between    *)
(* any two of them.                                                        *)
(*                                                                         *)
(* The agent is the environment: it settles requests as module Agent does, *)
(* and issues the receipts that Agent is proved to issue and no others.    *)
(* The relay is untrusted: announcements and receipts arrive late, again,  *)
(* in any order, or never.                                                 *)
(***************************************************************************)
EXTENDS Naturals, Sequences

CONSTANTS
  Answer,       \* the results the human can give
  MaxRequest,   \* requests in the session (wire.MaxSafeInteger)
  maxSent,      \* decisions retained by the session (32)
  MaxReloads,   \* bound on page reloads (model bound)
  Faults        \* "storage": an IndexedDB transaction may fail;
                \* "early": the roster is saved, or the sockets are retried,
                \* while the session is still being restored;
                \* "tab": a second tab holds a roster snapshot and saves it

Unasked == "unasked"
Open    == "open"
Timeout == "timeout"
None    == "none"

ASSUME PhoneAssumption ==
  /\ Answer \cap {Unasked, Open, Timeout, None} = {}
  /\ MaxRequest \in Nat \ {0}
  /\ maxSent \in Nat \ {0}
  /\ MaxReloads \in Nat
  /\ Faults \subseteq {"storage", "early", "tab"}

Request  == 1 .. MaxRequest
Decision == [req : Request, ans : Answer]
Ack      == [req : Request, ans : Answer,
             status : {"accepted", "expired", "unknown"}]
\* Bug: only an acceptance is final.
TerminalAccepted == {"accepted"}

Terminal == {"accepted", "expired"}

\* What the roster keeps of a session across reloads.
Snapshot == [request : {0} \cup Request,
             sent : [Request -> {None} \cup Answer],
             order : Seq(Request),
             receipts : [Request -> {None, "accepted", "expired", "unknown"}],
             seen : SUBSET Request]

\* A suspended sendDecision, and a suspended box.
Signing  == [req : Request, ans : Answer,
             step : {"read1", "checked1", "sign", "read2", "checked2"},
             ok : BOOLEAN]
Idle     == <<>>
Handling == {Idle} \cup {<<"observe", n>> : n \in Request}
              \cup {<<"observed", n, ok>> : n \in Request, ok \in BOOLEAN}
              \cup {<<"ack", k>> : k \in Ack}

VARIABLES
  status,        \* paired, pairError and the loading of a saved session
  conn,          \* the socket: "closed" (or dialled again), "open", and
                 \* "early" when it is dialled before the session is restored
  request, screen, delivery, result,           \* what the human sees
  sentDecisions, sentOrder, receipts, seenIDs, \* the session's bookkeeping
  signing, handling,                           \* suspended calls
  ledger,        \* highest request sequence observed, in IndexedDB
  disk,          \* this session's entry in the saved roster
  loaded,        \* the entry a reloaded page started from
  otherTab,      \* the entry as another tab remembers it
  reloads,
  outcome,       \* the agent: how each request stands with its caller
  decisions,     \* decisions that reached the wire
  late,          \* requests past their deadline on the phone's clock
  lastShown,     \* history: newest request ever shown
  signed,        \* history: decisions the device signed and retained
  confirmed      \* history: decisions shown as received by the agent

connVars  == <<status, conn>>
uiVars    == <<request, screen, delivery, result>>
bookVars  == <<sentDecisions, sentOrder, receipts, seenIDs>>
taskVars  == <<signing, handling>>
diskVars  == <<disk, loaded, otherTab, reloads>>
agentVars == <<outcome, decisions, late>>
histVars  == <<lastShown, signed, confirmed>>
vars == <<connVars, uiVars, bookVars, taskVars, ledger, diskVars, agentVars,
          histVars>>

TypeOK ==
  /\ status \in {"restoring", "paired", "failed"}
  /\ conn \in {"open", "closed", "early"}
  /\ request \in {0} \cup Request
  /\ screen = "card" => request # 0
  /\ screen \in {"pair", "listening", "card", "pending", "confirmed", "offline"}
  /\ delivery \in {None, "signing", "awaiting", "uncertain", "expired"}
  /\ result \in {<<>>} \cup {<<d>> : d \in Decision}
  /\ [request |-> request, sent |-> sentDecisions, order |-> sentOrder,
      receipts |-> receipts, seen |-> seenIDs] \in Snapshot
  /\ {disk, loaded, otherTab} \subseteq Snapshot
  /\ signing \subseteq Signing
  /\ handling \in Handling
  /\ ledger \in {0} \cup Request
  /\ reloads \in 0 .. MaxReloads
  /\ outcome \in [Request -> {Unasked, Open, Timeout} \cup Answer]
  /\ decisions \subseteq Decision
  /\ late \subseteq Request
  /\ lastShown \in {0} \cup Request
  /\ signed \subseteq Decision
  /\ confirmed \subseteq Decision

NoAnswers  == [n \in Request |-> None]
EmptyEntry == [request |-> 0, sent |-> NoAnswers, order |-> <<>>,
               receipts |-> NoAnswers, seen |-> {}]

\* onPaired has just completed.
Init ==
  /\ status = "paired"
  /\ conn = "open"
  /\ request = 0 /\ screen = "listening" /\ delivery = None /\ result = <<>>
  /\ sentDecisions = NoAnswers /\ sentOrder = <<>>
  /\ receipts = NoAnswers /\ seenIDs = {}
  /\ signing = {} /\ handling = Idle
  /\ ledger = 0
  /\ disk = EmptyEntry /\ loaded = EmptyEntry /\ otherTab = EmptyEntry
  /\ reloads = 0
  /\ outcome = [n \in Request |-> Unasked]
  /\ decisions = {} /\ late = {}
  /\ lastShown = 0 /\ signed = {} /\ confirmed = {}

-----------------------------------------------------------------------------
(* Shared pieces of the handlers                                           *)

\* set(): the listeners run persistAll, which saves the whole roster.
persistAll ==
  disk' = [request |-> request', sent |-> sentDecisions', order |-> sentOrder',
           receipts |-> receipts', seen |-> seenIDs']

persisted == persistAll /\ UNCHANGED <<loaded, otherTab, reloads>>

\* retryPending over a socket in state c: every retained decision without a
\* terminal receipt goes out again, if the socket takes it.
retryPending(c) ==
  decisions' = IF c = "open"
    THEN decisions \cup {d \in Decision : /\ sentDecisions[d.req] = d.ans
                                          /\ receipts[d.req] \notin Terminal}
    ELSE decisions

sendBox(d) ==
  decisions' = IF conn = "open" THEN decisions \cup {d} ELSE decisions

\* Bug: the deadline passing is taken for a refusal of the answer.
ExpireAssumesRefusal ==
  /\ screen' = "pending" /\ delivery' = "expired"
  /\ UNCHANGED <<request, result, bookVars>>
  /\ persisted

\* expire(id) for the request on the screen.
expire ==
  /\ IF sentDecisions[request] # None
       THEN /\ screen' = "pending"
            /\ delivery' = IF receipts[request] = "expired"
                             THEN "expired" ELSE "uncertain"
            /\ UNCHANGED <<request, result, seenIDs>>
       ELSE /\ seenIDs' = seenIDs \cup {request}
            /\ screen' = "listening"
            /\ request' = 0
            /\ result' = <<>>
            /\ delivery' = None
  /\ UNCHANGED <<sentDecisions, sentOrder, receipts>>
  /\ persisted

\* onPairError: the relay client is closed and the repair screen shown.
onPairError ==
  /\ status' = "failed"
  /\ conn' = "closed"
  /\ screen' = "pair"
  /\ UNCHANGED <<request, delivery, result, bookVars>>
  /\ persisted

nothingShown == UNCHANGED <<uiVars, bookVars, diskVars>>

-----------------------------------------------------------------------------
(* sendDecision                                                            *)

\* Bug: the options stay active while an answer is being signed.
TapWhileSigning(a) ==
  /\ status = "paired"
  /\ screen \in {"card", "pending"} /\ request # 0
  /\ sentDecisions[request] = None /\ request \notin late
  /\ screen' = "pending" /\ delivery' = "signing" /\ result' = <<>>
  /\ signing' = signing \cup
       {[req |-> request, ans |-> a, step |-> "read1", ok |-> FALSE]}
  /\ UNCHANGED <<request, bookVars>>
  /\ persisted
  /\ UNCHANGED <<connVars, handling, ledger, agentVars, histVars>>

\* A tap on the card of the request, up to the first await.  The page may show the card
\* of a session that has just gone offline; of one that is pending it has taken it away,
\* also when Refuse has cleared the delivery.  A tap past the deadline is ExpireTimer.
Tap(a) ==
  /\ status = "paired"
  /\ screen \in {"card", "offline"} /\ request # 0
  /\ delivery = None
  /\ sentDecisions[request] = None
  /\ request \notin late
  /\ screen' = "pending"
  /\ delivery' = "signing"
  /\ result' = <<>>
  /\ signing' = signing \cup
       {[req |-> request, ans |-> a, step |-> "read1", ok |-> FALSE]}
  /\ UNCHANGED <<request, bookVars>>
  /\ persisted
  /\ UNCHANGED <<connVars, handling, ledger, agentVars, histVars>>

Advance(op, step, ok) ==
  signing' = (signing \ {op}) \cup {[op EXCEPT !.step = step, !.ok = ok]}
Drop(op) == signing' = signing \ {op}

\* The currentRequest transaction commits; its continuation runs later.
currentRequest(op) ==
  /\ \/ op.step = "read1" /\ Advance(op, "checked1", ledger = op.req)
     \/ op.step = "read2" /\ Advance(op, "checked2", ledger = op.req)
  /\ nothingShown
  /\ UNCHANGED <<connVars, handling, ledger, agentVars, histVars>>

\* A ledger or signer failure is reported only while its request is on the
\* screen.
SendingFails(op) ==
  /\ "storage" \in Faults
  /\ op.step \in {"read1", "sign", "read2"}
  /\ Drop(op)
  /\ IF request = op.req THEN onPairError
                         ELSE nothingShown /\ UNCHANGED connVars
  /\ UNCHANGED <<handling, ledger, agentVars, histVars>>

\* After the first ledger check.
Checked(op) ==
  /\ op.step = "checked1"
  /\ IF request = op.req /\ op.ok THEN Advance(op, "sign", FALSE) ELSE Drop(op)
  /\ IF request = op.req /\ ~op.ok THEN expire ELSE nothingShown
  /\ UNCHANGED <<connVars, handling, ledger, agentVars, histVars>>

\* The signature is there.
SignatureReady(op) ==
  /\ op.step = "sign"
  /\ IF request = op.req THEN Advance(op, "read2", FALSE) ELSE Drop(op)
  /\ nothingShown
  /\ UNCHANGED <<connVars, handling, ledger, agentVars, histVars>>

\* Bug: a refused answer leaves the screen as it is.
RefuseSilently(op) ==
  /\ op.step = "checked2"
  /\ ~op.ok \/ op.req \in late \/ request # op.req
  /\ Drop(op)
  /\ nothingShown
  /\ UNCHANGED <<connVars, handling, ledger, agentVars, histVars>>

\* After the second ledger check, the refusals.  The delivery state is cleared
\* even when another request has taken the screen.
Refuse(op) ==
  /\ op.step = "checked2"
  /\ Drop(op)
  /\ \/ ~op.ok /\ request # op.req
        /\ delivery' = None
        /\ UNCHANGED <<request, screen, result, bookVars>>
        /\ persisted
     \/ (~op.ok \/ op.req \in late) /\ request = op.req /\ expire
     \/ op.ok /\ request # op.req /\ nothingShown
  /\ UNCHANGED <<connVars, handling, ledger, agentVars, histVars>>

\* Bug: the oldest decision is displaced one too early.
RetainOneLess(d) ==
  LET order == Append(sentOrder, d.req)
      full  == Len(order) >= maxSent
  IN /\ sentOrder' = IF full THEN Tail(order) ELSE order
     /\ sentDecisions' = [n \in Request |->
          IF full /\ n = Head(order) THEN None
          ELSE IF n = d.req THEN d.ans ELSE sentDecisions[n]]
     /\ receipts' = IF full THEN [receipts EXCEPT ![Head(order)] = None]
                    ELSE receipts

\* retainDecision: a Map keeps insertion order; over the limit the oldest goes.
retainDecision(d) ==
  LET order == IF sentDecisions[d.req] = None THEN Append(sentOrder, d.req)
                                              ELSE sentOrder
      full  == Len(order) > maxSent
      gone  == Head(order)
  IN /\ sentOrder' = IF full THEN Tail(order) ELSE order
     /\ sentDecisions' = [n \in Request |->
          IF full /\ n = gone THEN None
          ELSE IF n = d.req THEN d.ans ELSE sentDecisions[n]]
     /\ receipts' = IF full THEN [receipts EXCEPT ![gone] = None] ELSE receipts

\* The decision is retained and saved before it is written to the socket.
Send(op) ==
  LET d == [req |-> op.req, ans |-> op.ans] IN
  /\ op.step = "checked2" /\ op.ok
  /\ request = op.req
  /\ op.req \notin late
  /\ Drop(op)
  /\ retainDecision(d)
  /\ seenIDs' = seenIDs \cup {op.req}
  /\ screen' = "pending"
  /\ delivery' = IF conn = "open" THEN "awaiting" ELSE "uncertain"
  /\ UNCHANGED <<request, result>>
  /\ persisted
  /\ sendBox(d)
  /\ signed' = signed \cup {d}
  /\ UNCHANGED <<connVars, handling, ledger, outcome, late, lastShown, confirmed>>

SendStep ==
  \E op \in signing :
    \/ currentRequest(op) \/ SendingFails(op) \/ Checked(op)
    \/ SignatureReady(op) \/ Refuse(op) \/ Send(op)

-----------------------------------------------------------------------------
(* onBox: requests                                                         *)

\* A verified announcement.  One that was already answered gets the retained
\* decision again, any other goes to the ledger.
ReceiveRequest(n) ==
  /\ status = "paired"
  /\ handling = Idle
  /\ outcome[n] # Unasked
  /\ IF sentDecisions[n] # None
       THEN /\ UNCHANGED handling
            /\ IF receipts[n] # "accepted"
                 THEN sendBox([req |-> n, ans |-> sentDecisions[n]])
                 ELSE UNCHANGED decisions
       ELSE handling' = <<"observe", n>> /\ UNCHANGED decisions
  /\ nothingShown
  /\ UNCHANGED <<connVars, signing, ledger, outcome, late, histVars>>

\* Bug: the high-water mark is kept but not compared.
ObserveUnordered ==
  /\ handling # Idle /\ handling[1] = "observe"
  /\ ledger' = IF handling[2] >= ledger THEN handling[2] ELSE ledger
  /\ handling' = <<"observed", handling[2], TRUE>>
  /\ nothingShown
  /\ UNCHANGED <<connVars, signing, agentVars, histVars>>

\* The observeRequest transaction: the high-water mark never goes down.
observeRequest ==
  /\ handling # Idle /\ handling[1] = "observe"
  /\ LET n == handling[2] IN
       /\ ledger' = IF n >= ledger THEN n ELSE ledger
       /\ handling' = <<"observed", n, n >= ledger>>
  /\ nothingShown
  /\ UNCHANGED <<connVars, signing, agentVars, histVars>>

observeRequestFails ==
  /\ "storage" \in Faults
  /\ handling # Idle /\ handling[1] = "observe"
  /\ handling' = Idle
  /\ onPairError
  /\ UNCHANGED <<signing, ledger, agentVars, histVars>>

\* Bug: the deadline is not looked at before a card is shown.
ShowWithoutDeadline ==
  /\ handling # Idle /\ handling[1] = "observed"
  /\ handling' = Idle
  /\ IF handling[3] /\ request # handling[2] /\ handling[2] \notin seenIDs
       THEN /\ request' = handling[2] /\ screen' = "card"
            /\ delivery' = None /\ result' = <<>>
            /\ UNCHANGED bookVars /\ persisted
            /\ lastShown' = handling[2]
       ELSE nothingShown /\ UNCHANGED lastShown
  /\ UNCHANGED <<connVars, signing, ledger, agentVars, signed, confirmed>>

\* The continuation: a re-announcement of the open request, a closed or late
\* request, or a new card.
ShowRequest ==
  /\ handling # Idle /\ handling[1] = "observed"
  /\ handling' = Idle
  /\ LET n == handling[2] IN
       \/ ~handling[3] /\ nothingShown /\ UNCHANGED lastShown
       \/ /\ handling[3] /\ request = n /\ n \in late
          /\ expire /\ UNCHANGED lastShown
       \/ /\ handling[3] /\ request = n /\ n \notin late
          /\ IF screen = "offline"
               THEN screen' = "card" /\ UNCHANGED <<request, delivery, result>>
                    /\ UNCHANGED bookVars /\ persisted
               ELSE nothingShown
          /\ UNCHANGED lastShown
       \/ /\ handling[3] /\ request # n /\ n \in seenIDs \cup late
          /\ seenIDs' = seenIDs \cup {n}
          /\ UNCHANGED <<uiVars, sentDecisions, sentOrder, receipts, diskVars,
                         lastShown>>
       \/ /\ handling[3] /\ request # n /\ n \notin seenIDs \cup late
          /\ request' = n /\ screen' = "card"
          /\ delivery' = None /\ result' = <<>>
          /\ UNCHANGED bookVars /\ persisted
          /\ lastShown' = n
  /\ UNCHANGED <<connVars, signing, ledger, agentVars, signed, confirmed>>

-----------------------------------------------------------------------------
(* onAck                                                                   *)

\* The receipts the agent issues for decisions it received (Agent!ReceiptInv).
AckIssued(k) ==
  /\ [req |-> k.req, ans |-> k.ans] \in decisions
  /\ k.status = "accepted" => outcome[k.req] = k.ans
  /\ k.status = "expired" => outcome[k.req] = Timeout
  /\ k.status = "unknown" => outcome[k.req] \notin {Unasked, Open}

\* A receipt matching a retained decision; its signature is then verified.
ReceiveAck(k) ==
  /\ status = "paired"
  /\ handling = Idle
  /\ AckIssued(k)
  /\ sentDecisions[k.req] = k.ans
  /\ handling' = <<"ack", k>>
  /\ nothingShown
  /\ UNCHANGED <<connVars, signing, ledger, agentVars, histVars>>

\* Bug: any receipt counts as an acceptance.
ApplyAckOptimistic ==
  /\ handling # Idle /\ handling[1] = "ack"
  /\ handling' = Idle
  /\ LET k == handling[2]
         d == [req |-> k.req, ans |-> k.ans]
     IN /\ receipts' = [receipts EXCEPT ![k.req] = k.status]
        /\ UNCHANGED <<sentDecisions, sentOrder, seenIDs>>
        /\ screen' = "confirmed" /\ request' = 0
        /\ delivery' = None /\ result' = <<d>>
        /\ confirmed' = confirmed \cup {d}
        /\ persisted
  /\ UNCHANGED <<connVars, signing, ledger, agentVars, lastShown, signed>>

\* The continuation: a terminal receipt is never overwritten.
ApplyAck ==
  /\ handling # Idle /\ handling[1] = "ack"
  /\ handling' = Idle
  /\ LET k == handling[2]
         d == [req |-> k.req, ans |-> k.ans]
     IN IF receipts[k.req] \in Terminal
          THEN nothingShown /\ UNCHANGED confirmed
          ELSE /\ receipts' = [receipts EXCEPT ![k.req] = k.status]
               /\ UNCHANGED <<sentDecisions, sentOrder, seenIDs>>
               /\ \/ /\ request # k.req
                     /\ UNCHANGED <<uiVars, confirmed>>
                  \/ /\ request = k.req /\ k.status = "accepted"
                     /\ screen' = "confirmed" /\ request' = 0
                     /\ delivery' = None /\ result' = <<d>>
                     /\ confirmed' = confirmed \cup {d}
                  \/ /\ request = k.req /\ k.status # "accepted"
                     /\ screen' = "pending"
                     /\ delivery' = IF k.status = "expired" THEN "expired"
                                                            ELSE "uncertain"
                     /\ UNCHANGED <<request, result, confirmed>>
               /\ persisted
  /\ UNCHANGED <<connVars, signing, ledger, agentVars, lastShown, signed>>

-----------------------------------------------------------------------------
(* Timers, the connection, and the human                                   *)

\* The countdown reaches zero (or a tap comes after it did).
ExpireTimer ==
  /\ request \in late
  /\ expire
  /\ UNCHANGED <<connVars, taskVars, ledger, agentVars, histVars>>

\* The screen depends on whether a socket that is not open is being dialled.
dismissConfirmation ==
  /\ screen = "confirmed"
  /\ screen' \in IF conn = "open" THEN {"listening"} ELSE {"listening", "offline"}
  /\ result' = <<>>
  /\ UNCHANGED <<request, delivery, bookVars>>
  /\ persisted
  /\ UNCHANGED <<connVars, taskVars, ledger, agentVars, histVars>>

markUncertain ==
  delivery' = IF screen = "pending" /\ delivery # "expired" THEN "uncertain"
                                                            ELSE delivery

\* The five-second timer armed by the first send or open connection.
RetryTimer ==
  /\ status # "restoring"
  /\ markUncertain
  /\ UNCHANGED <<request, screen, result, bookVars, connVars>>
  /\ persisted
  /\ retryPending(conn')
  /\ UNCHANGED <<taskVars, ledger, outcome, late, histVars>>

Redialled == IF status = "restoring" THEN "early" ELSE "closed"

\* Bug: a lost socket takes an answered request off the pending screen.
ConnClosesPending ==
  /\ conn = "open"
  /\ conn' = "closed"
  /\ screen' = "offline"
  /\ UNCHANGED <<status, request, delivery, result, bookVars>>
  /\ persisted
  /\ UNCHANGED <<taskVars, ledger, agentVars, histVars>>

\* A socket closes, or a dial fails.
ConnCloses ==
  /\ conn # "closed" \/ status = "paired"
  /\ conn' = Redialled
  /\ screen' = IF status # "paired" \/ screen \in {"pending", "confirmed"}
                 THEN screen ELSE "offline"
  /\ UNCHANGED <<status, request, delivery, result, bookVars>>
  /\ persisted
  /\ UNCHANGED <<taskVars, ledger, agentVars, histVars>>

\* A socket opens before the session is restored only if it was retried early.
ConnOpens ==
  /\ conn = Redialled /\ status # "failed"
  /\ conn' = "open"
  /\ screen' = IF screen # "offline" THEN screen
               ELSE IF request # 0 THEN "card" ELSE "listening"
  /\ UNCHANGED <<status, request, delivery, result, bookVars>>
  /\ persisted
  /\ retryPending(conn')
  /\ UNCHANGED <<taskVars, ledger, outcome, late, histVars>>

\* retry: the human's button, or the App when it becomes visible or online.
\* Pending answers go to the old socket, which is then replaced; the screen does
\* not change while the new one is dialled.
retry ==
  /\ status = "paired" \/ (status = "restoring" /\ "early" \in Faults)
  /\ conn' = Redialled
  /\ UNCHANGED <<status, uiVars, bookVars>>
  /\ persisted
  /\ retryPending(conn)
  /\ UNCHANGED <<taskVars, ledger, outcome, late, histVars>>

PeerJoined ==
  /\ conn = "open"
  /\ UNCHANGED <<uiVars, bookVars, connVars>>
  /\ persisted
  /\ retryPending(conn')
  /\ UNCHANGED <<taskVars, ledger, outcome, late, histVars>>

\* peer_left takes an open card away; undeliverable leaves it.
PeerAbsent ==
  /\ conn = "open"
  /\ \/ screen' = IF screen = "card" THEN "offline" ELSE screen
     \/ UNCHANGED screen
  /\ markUncertain
  /\ UNCHANGED <<request, result, bookVars>>
  /\ persisted
  /\ UNCHANGED <<connVars, taskVars, ledger, agentVars, histVars>>

\* canReconcilePush finds the pairing's record missing or unreadable.
PushStorageFails ==
  /\ "storage" \in Faults
  /\ status = "paired"
  /\ onPairError
  /\ UNCHANGED <<taskVars, ledger, agentVars, histVars>>

-----------------------------------------------------------------------------
(* Reload                                                                  *)

\* The page is killed and loaded again: a Session in its initial state, which
\* already may be saved with the roster (canPersist).
Reload ==
  /\ reloads < MaxReloads
  /\ reloads' = reloads + 1
  /\ loaded' = disk
  /\ status' = "restoring" /\ conn' = "closed"
  /\ request' = 0 /\ screen' = "pair" /\ delivery' = None /\ result' = <<>>
  /\ sentDecisions' = NoAnswers /\ sentOrder' = <<>>
  /\ receipts' = NoAnswers /\ seenIDs' = {}
  /\ signing' = {} /\ handling' = Idle
  /\ UNCHANGED <<ledger, disk, otherTab, agentVars, histVars>>

\* initialize: verified decisions and receipts come back; the request only if
\* it is the newest one observed, and not if it expired unanswered.
Restore ==
  LET current  == loaded.request # 0 /\ loaded.request = ledger
      answered == current /\ loaded.sent[loaded.request] # None
      tooLate  == current /\ ~answered /\ loaded.request \in late
      shows    == current /\ ~tooLate
  IN
  /\ status = "restoring"
  /\ status' = "paired"
  /\ sentDecisions' = loaded.sent
  /\ sentOrder' = loaded.order
  /\ receipts' = [n \in Request |->
       IF loaded.sent[n] # None THEN loaded.receipts[n] ELSE None]
  /\ seenIDs' = loaded.seen \cup {n \in Request : tooLate /\ n = loaded.request}
  /\ request' = IF shows THEN loaded.request ELSE 0
  /\ screen' = IF ~shows THEN "listening"
               ELSE IF answered THEN "pending" ELSE "card"
  /\ delivery' = IF ~answered THEN None
                 ELSE IF receipts'[loaded.request] = "expired" THEN "expired"
                 ELSE "uncertain"
  /\ lastShown' = IF shows THEN loaded.request ELSE lastShown
  /\ conn' = IF conn = "open" THEN "open" ELSE "closed"
  /\ UNCHANGED result
  /\ persisted
  /\ UNCHANGED <<taskVars, ledger, agentVars, signed, confirmed>>

\* The signer or the ledger cannot be read.
RestoreFails ==
  /\ "storage" \in Faults
  /\ status = "restoring"
  /\ onPairError
  /\ UNCHANGED <<taskVars, ledger, agentVars, histVars>>

\* Another room's session changes: persistAll saves this one as it stands.
OtherRoomSaves ==
  /\ "early" \in Faults
  /\ UNCHANGED <<uiVars, bookVars>>
  /\ persisted
  /\ UNCHANGED <<connVars, taskVars, ledger, agentVars, histVars>>

\* A second tab loads the roster once (restoreAll), and saves what it loaded.
OtherTab ==
  /\ "tab" \in Faults
  /\ \/ otherTab = EmptyEntry /\ otherTab' = disk /\ UNCHANGED disk
     \/ disk' = otherTab /\ UNCHANGED otherTab
  /\ UNCHANGED <<loaded, reloads, connVars, uiVars, bookVars, taskVars, ledger,
                 agentVars, histVars>>

-----------------------------------------------------------------------------
(* The agent and the clock                                                 *)

Settled(n) == outcome[n] \notin {Unasked, Open}

AgentAsks(n) ==
  /\ outcome[n] = Unasked
  /\ \A m \in Request : m < n => Settled(m)
  /\ outcome' = [outcome EXCEPT ![n] = Open]
  /\ UNCHANGED <<connVars, uiVars, bookVars, taskVars, ledger, diskVars,
                 decisions, late, histVars>>

AgentSettles(n) ==
  /\ outcome[n] = Open
  /\ \/ outcome' = [outcome EXCEPT ![n] = Timeout]
     \/ \E d \in decisions : d.req = n /\ outcome' = [outcome EXCEPT ![n] = d.ans]
  /\ UNCHANGED <<connVars, uiVars, bookVars, taskVars, ledger, diskVars,
                 decisions, late, histVars>>

DeadlinePasses(n) ==
  /\ outcome[n] # Unasked /\ n \notin late
  /\ late' = late \cup {n}
  /\ UNCHANGED <<connVars, uiVars, bookVars, taskVars, ledger, diskVars,
                 outcome, decisions, histVars>>

PhoneStep ==
  \/ \E a \in Answer : Tap(a)
  \/ SendStep
  \/ \E n \in Request : ReceiveRequest(n)
  \/ observeRequest \/ observeRequestFails \/ ShowRequest
  \/ \E k \in Ack : ReceiveAck(k)
  \/ ApplyAck \/ ExpireTimer \/ dismissConfirmation \/ RetryTimer
  \/ ConnCloses \/ ConnOpens \/ retry \/ PeerJoined \/ PeerAbsent \/ PushStorageFails
  \/ Reload \/ Restore \/ RestoreFails \/ OtherRoomSaves \/ OtherTab

Next ==
  \/ PhoneStep
  \/ \E n \in Request : AgentAsks(n) \/ AgentSettles(n) \/ DeadlinePasses(n)

Spec == Init /\ [][Next]_vars

\* Ledger transactions end (they time out after five seconds) and so does the
\* signature; their continuations are run.
FairSpec == Spec /\ WF_vars(SendStep)

-----------------------------------------------------------------------------
(* Properties                                                              *)

Range(s) == {s[i] : i \in 1 .. Len(s)}

\* What the screen says of an answer's fate is true at the agent, after any number of
\* reloads and whatever receipts arrive late or again: "Answer received by agent" is
\* shown only for the very answer the agent returned to its caller (ADR 0026: invalid,
\* expired and unknown outcomes cannot show an accepted-success screen), and that an
\* answer came too late only for a request that did time out there.
DeliveryTrue ==
  /\ screen = "confirmed" => /\ result # <<>>
                             /\ outcome[result[1].req] = result[1].ans
  /\ screen = "pending" /\ delivery = "expired" => outcome[request] = Timeout

\* However sendDecision's awaits interleave with new requests, expiry and
\* reloads, the device signs at most one answer to a request.
OneAnswer ==
  \A d, e \in signed : d.req = e.req => d = e

\* A request whose answer was signed and retained is not offered for another
\* answer, not after a lost receipt, a reload or a re-announcement either (ADR
\* 0026: a lost receipt "does not invite a different answer").
NoSecondInvitation ==
  screen = "card" => \A d \in signed : d.req # request

\* An answer that was retained is still in the saved roster, so a killed page
\* can retry it, until maxSent newer ones displaced it.
AnswerDurable ==
  \A d \in signed :
    \/ disk.sent[d.req] = d.ans
    \/ /\ Len(disk.order) = maxSent
       /\ \A m \in Range(disk.order) : m > d.req

\* The questions on the screen only move forward: an older request never comes
\* back once a newer one was shown, neither from a late announcement nor from a
\* stale roster (ADR 0026: "a stale roster cannot lower a request high-water
\* mark").
ShownForward ==
  [][request' # 0 => request' >= lastShown]_request

\* A request that is past its deadline when it arrives, or when the page is
\* restored, is not put on the screen unless its answer is already on its way.
NoRevival ==
  [][request' # request /\ request' \in late => screen' = "pending"]_vars

\* A verified terminal receipt is never downgraded while its answer is retained:
\* a replayed "unknown" cannot make a received answer uncertain again.
TerminalReceiptKept ==
  [][\A n \in Request :
       /\ disk.receipts[n] \in {"accepted", "expired"}
       /\ disk'.sent[n] # None
       => disk'.receipts[n] = disk.receipts[n]]_disk

\* "signing" is a passing state: the answer is sent or the card withdrawn.
SigningEnds ==
  (screen = "pending" /\ delivery = "signing") ~> (delivery # "signing" \/ screen = "pair")

\* Every step of the phone is a step of what Approval promises: what it signs is
\* an answer to a request that was asked, what it shows as received was accepted.
Promise == INSTANCE Approval

KeepsPromise == Promise!Spec

=============================================================================
