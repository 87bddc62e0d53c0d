----------------------------- MODULE PhoneProofs -----------------------------
(***************************************************************************)
(* Theorems about Phone, for any number of requests, answers, retained     *)
(* decisions and reloads.                                                  *)
(*                                                                         *)
(* Whatever fails (storage, early saves, a stale tab): the phone keeps the *)
(* promise of Approval, its screen tells the truth about an answer's fate, *)
(* and older questions do not come back.  When nothing of that kind fails: *)
(* one answer to a request, kept through reloads, and never asked for      *)
(* again.                                                                  *)
(***************************************************************************)
EXTENDS Phone, TLAPS

(***************************************************************************)
(* The invariant that survives every fault                                 *)
(***************************************************************************)

\* What persistAll would save now.
Book == [request |-> request, sent |-> sentDecisions, order |-> sentOrder,
         receipts |-> receipts, seen |-> seenIDs]

\* An entry is true of the agent: its request was asked, its answers are signed, and what it
\* calls expired did expire.
EntryTrue(s, o, g) ==
  /\ s.request # 0 => o[s.request] # Unasked
  /\ \A n \in Request :
       /\ s.sent[n] # None => [req |-> n, ans |-> s.sent[n]] \in g
       /\ s.receipts[n] = "expired" => o[n] = Timeout

Entries ==
  /\ EntryTrue(Book, outcome, signed) /\ EntryTrue(disk, outcome, signed)
  /\ EntryTrue(loaded, outcome, signed) /\ EntryTrue(otherTab, outcome, signed)

\* So are the calls that are suspended, and the answers on the wire.
Tasks ==
  /\ \A op \in signing : outcome[op.req] # Unasked
  /\ handling # Idle /\ handling[1] \in {"observe", "observed"} =>
       outcome[handling[2]] # Unasked
  /\ handling # Idle /\ handling[1] = "ack" =>
       LET k == handling[2] IN
       /\ [req |-> k.req, ans |-> k.ans] \in signed
       /\ k.status = "accepted" => outcome[k.req] = k.ans
       /\ k.status = "expired" => outcome[k.req] = Timeout
  /\ decisions \subseteq signed

\* So is what the human sees.
ScreenTrue ==
  /\ delivery = "expired" => request # 0 /\ outcome[request] = Timeout
  /\ screen = "confirmed" => /\ result # <<>>
                             /\ outcome[result[1].req] = result[1].ans

\* What is about to be shown is the newest request observed.
Newest ==
  /\ lastShown <= ledger
  /\ handling # Idle /\ handling[1] = "observed" /\ handling[3] => handling[2] = ledger

IInv == TypeOK /\ Entries /\ Tasks /\ ScreenTrue /\ Newest

(***************************************************************************)
(* The invariant of a phone whose storage works and which has one tab      *)
(***************************************************************************)

\* The saved entry is what the session holds, or will be when it is restored.
Mirror ==
  /\ status \in {"restoring", "paired"}
  /\ status = "restoring" =>
       /\ conn = "closed" /\ screen = "pair" /\ request = 0
       /\ signing = {} /\ handling = Idle /\ loaded = disk
  /\ status = "paired" =>
       /\ disk.request = request /\ disk.sent = sentDecisions
       /\ disk.order = sentOrder /\ disk.receipts = receipts
       /\ disk.seen \subseteq seenIDs

\* The retained answers are in the order of their requests.
Retained ==
  /\ Len(disk.order) <= maxSent
  /\ \A i, j \in 1 .. Len(disk.order) : i < j => disk.order[i] < disk.order[j]
  /\ \A n \in Request :
       disk.sent[n] # None <=> \E i \in 1 .. Len(disk.order) : disk.order[i] = n
  /\ \A i \in 1 .. Len(disk.order) : disk.order[i] <= lastShown
  /\ disk.request \in {0, lastShown}

\* A request whose answer is signed is seen, and pending while it is on the screen.
SignedOnce ==
  /\ OneAnswer
  /\ \A d \in signed :
       /\ d.req \in disk.seen /\ d.req <= lastShown
       /\ d.req = disk.request => disk.sent[d.req] = d.ans
       /\ d.req = request => screen = "pending"

\* A request has one suspended answer at most, before it is signed, and only while it is
\* pending; once it has left the screen it does not return.
SigningOnce ==
  /\ \A op, other \in signing : op.req = other.req => op = other
  /\ \A op \in signing :
       /\ \A d \in signed : d.req # op.req
       /\ IF op.req = request THEN screen = "pending"
          ELSE op.req \in seenIDs \/ op.req < ledger

SInv == Mirror /\ Retained /\ SignedOnce /\ SigningOnce /\ AnswerDurable

(***************************************************************************)
(* Types, in parts                                                         *)
(***************************************************************************)

BookType ==
  /\ request \in {0} \cup Request
  /\ sentDecisions \in [Request -> {None} \cup Answer]
  /\ sentOrder \in Seq(Request)
  /\ receipts \in [Request -> {None, "accepted", "expired", "unknown"}]
  /\ seenIDs \subseteq Request

ScreenType ==
  /\ status \in {"restoring", "paired", "failed"}
  /\ conn \in {"open", "closed", "early"}
  /\ screen \in {"pair", "listening", "card", "pending", "confirmed", "offline"}
  /\ screen = "card" => request # 0
  /\ delivery \in {None, "signing", "awaiting", "uncertain", "expired"}
  /\ result \in {<<>>} \cup {<<d>> : d \in Decision}

EntryType ==
  /\ disk \in Snapshot /\ loaded \in Snapshot /\ otherTab \in Snapshot
  /\ reloads \in 0 .. MaxReloads

TaskType ==
  /\ signing \subseteq Signing
  /\ handling \in Handling
  /\ ledger \in {0} \cup Request

AgentType ==
  /\ outcome \in [Request -> {Unasked, Open, Timeout} \cup Answer]
  /\ decisions \subseteq Decision /\ late \subseteq Request
  /\ lastShown \in {0} \cup Request
  /\ signed \subseteq Decision /\ confirmed \subseteq Decision

LEMMA BookFields == BookType <=> Book \in Snapshot
BY DEF BookType, Book, Snapshot

LEMMA BookFieldsNext == BookType' <=> Book' \in Snapshot
BY DEF BookType, Book, Snapshot

LEMMA TypeParts ==
  TypeOK <=> BookType /\ ScreenType /\ EntryType /\ TaskType /\ AgentType
<1>1. TypeOK => BookType /\ ScreenType /\ EntryType /\ TaskType /\ AgentType
  BY BookFields DEF TypeOK, Book, ScreenType, EntryType, TaskType, AgentType
<1>2. BookType /\ ScreenType /\ EntryType /\ TaskType /\ AgentType => TypeOK
  BY BookFields DEF TypeOK, Book, BookType, ScreenType, EntryType, TaskType, AgentType
<1>3. QED
  BY <1>1, <1>2

LEMMA EntryFields ==
  ASSUME NEW s \in Snapshot
  PROVE  /\ s.request \in {0} \cup Request
         /\ s.sent \in [Request -> {None} \cup Answer]
         /\ s.order \in Seq(Request)
         /\ s.receipts \in [Request -> {None, "accepted", "expired", "unknown"}]
         /\ s.seen \subseteq Request
BY DEF Snapshot

\* What a suspended box can be.
LEMMA HandlingShape ==
  ASSUME NEW h \in Handling, h # Idle
  PROVE  /\ h[1] \in {"observe", "observed", "ack"}
         /\ h[1] \in {"observe", "observed"} => h[2] \in Request
         /\ h[1] = "observed" => h[3] \in BOOLEAN
         /\ h[1] = "ack" => h[2] \in Ack
BY DEF Handling, Idle

LEMMA AckFields ==
  ASSUME NEW k \in Ack
  PROVE  /\ k.req \in Request /\ k.ans \in Answer
         /\ k.status \in {"accepted", "expired", "unknown"}
         /\ [req |-> k.req, ans |-> k.ans] \in Decision
BY DEF Ack, Decision

LEMMA OpFields ==
  ASSUME NEW op \in Signing
  PROVE  /\ op.req \in Request /\ op.ans \in Answer /\ op.ok \in BOOLEAN
         /\ op.step \in {"read1", "checked1", "sign", "read2", "checked2"}
         /\ [req |-> op.req, ans |-> op.ans] \in Decision
BY DEF Signing, Decision

LEMMA Markers ==
  /\ None \notin Answer /\ Unasked \notin Answer /\ Open \notin Answer
  /\ Timeout \notin Answer
  /\ Unasked # Open /\ Unasked # Timeout /\ Open # Timeout
  /\ MaxRequest \in Nat /\ 0 \notin Request /\ Request \subseteq Nat
  /\ maxSent \in Nat \ {0} /\ MaxReloads \in Nat
BY PhoneAssumption DEF Unasked, Open, Timeout, None, Request

(***************************************************************************)
(* The steps that leave what the session holds                             *)
(***************************************************************************)

QuietStep ==
  \/ \E a \in Answer : Tap(a)
  \/ \E op \in signing : currentRequest(op) \/ SendingFails(op) \/ SignatureReady(op)
  \/ \E n \in Request : ReceiveRequest(n) \/ DeadlinePasses(n)
  \/ \E k \in Ack : ReceiveAck(k)
  \/ observeRequest \/ observeRequestFails \/ dismissConfirmation \/ RetryTimer
  \/ ConnCloses \/ ConnOpens \/ retry \/ PeerJoined \/ PeerAbsent \/ PushStorageFails
  \/ RestoreFails \/ OtherRoomSaves \/ OtherTab \/ UNCHANGED vars

LEMMA StepKinds ==
  [Next]_vars =>
    \/ QuietStep
    \/ \E op \in signing : Checked(op) \/ Refuse(op) \/ Send(op)
    \/ ShowRequest \/ ApplyAck \/ ExpireTimer \/ Reload \/ Restore
    \/ \E n \in Request : AgentAsks(n) \/ AgentSettles(n)
BY DEF QuietStep, Next, PhoneStep, SendStep

\* A quiet step saves the session as it is, or another tab does so for it.
Quiet ==
  /\ UNCHANGED <<request, bookVars, outcome, lastShown, signed, confirmed>>
  /\ disk' \in {disk, Book, otherTab} /\ loaded' = loaded
  /\ otherTab' \in {otherTab, disk} /\ reloads' = reloads

LEMMA QuietSteps == QuietStep => Quiet
<1> USE DEF Quiet, Book, bookVars, uiVars, diskVars, agentVars, histVars, persisted, persistAll,
           nothingShown
<1>1. CASE \E a \in Answer : Tap(a)
  BY <1>1 DEF Tap
<1>2. CASE \E op \in signing : currentRequest(op)
  BY <1>2 DEF currentRequest
<1>3. CASE \E op \in signing : SendingFails(op)
  BY <1>3 DEF SendingFails, onPairError
<1>4. CASE \E op \in signing : SignatureReady(op)
  BY <1>4 DEF SignatureReady
<1>5. CASE \E n \in Request : ReceiveRequest(n)
  BY <1>5 DEF ReceiveRequest
<1>6. CASE \E n \in Request : DeadlinePasses(n)
  BY <1>6 DEF DeadlinePasses
<1>7. CASE \E k \in Ack : ReceiveAck(k)
  BY <1>7 DEF ReceiveAck
<1>8. CASE observeRequest
  BY <1>8 DEF observeRequest
<1>9. CASE observeRequestFails
  BY <1>9 DEF observeRequestFails, onPairError
<1>10. CASE dismissConfirmation
  BY <1>10 DEF dismissConfirmation
<1>11. CASE RetryTimer
  BY <1>11 DEF RetryTimer
<1>12. CASE ConnCloses
  BY <1>12 DEF ConnCloses
<1>13. CASE ConnOpens
  BY <1>13 DEF ConnOpens
<1>14. CASE retry
  BY <1>14 DEF retry
<1>15. CASE PeerJoined
  BY <1>15 DEF PeerJoined
<1>16. CASE PeerAbsent
  BY <1>16 DEF PeerAbsent
<1>17. CASE PushStorageFails
  BY <1>17 DEF PushStorageFails, onPairError
<1>18. CASE RestoreFails
  BY <1>18 DEF RestoreFails, onPairError
<1>19. CASE OtherRoomSaves
  BY <1>19 DEF OtherRoomSaves
<1>20. CASE OtherTab
  BY <1>20 DEF OtherTab
<1>21. CASE UNCHANGED vars
  BY <1>21 DEF vars, connVars, uiVars, taskVars
<1>22. QED
  BY <1>1, <1>2, <1>3, <1>4, <1>5, <1>6, <1>7, <1>8, <1>9, <1>10, <1>11, <1>12,
     <1>13, <1>14, <1>15, <1>16, <1>17, <1>18, <1>19, <1>20, <1>21 DEF QuietStep

(***************************************************************************)
(* The steps that change what the session holds                            *)
(***************************************************************************)

\* Requests are settled once and signatures are kept.
Grows ==
  /\ \A n \in Request : /\ outcome[n] # Unasked => outcome'[n] # Unasked
                        /\ outcome[n] = Timeout => outcome'[n] = Timeout
                        /\ outcome[n] \in Answer => outcome'[n] = outcome[n]
  /\ signed \subseteq signed'

LEMMA EntryStays ==
  ASSUME NEW s, Grows, EntryTrue(s, outcome, signed), s.request \in {0} \cup Request
  PROVE  EntryTrue(s, outcome', signed')
BY DEF EntryTrue, Grows

\* The entry saved is the session's, and it is true.
Saves ==
  /\ Book' \in Snapshot /\ EntryTrue(Book', outcome', signed')
  /\ disk' = Book' /\ loaded' = loaded /\ otherTab' = otherTab /\ reloads' = reloads

\* What expire may leave behind.
Expired ==
  /\ Saves
  /\ screen' \in {"pending", "listening"} /\ result' \in {result, <<>>}
  /\ delivery' \in {"expired", "uncertain", None}
  /\ delivery' = "expired" => request' # 0 /\ outcome[request'] = Timeout
  /\ request' \in {0, request}
  /\ UNCHANGED <<sentDecisions, sentOrder, receipts>>

LEMMA Expires ==
  ASSUME BookType, EntryTrue(Book, outcome, signed), request \in Request, expire,
         UNCHANGED <<outcome, signed>>
  PROVE  Expired
<1>1. disk' = Book' /\ loaded' = loaded /\ otherTab' = otherTab /\ reloads' = reloads
  BY DEF expire, persisted, persistAll, Book
<1>2. CASE sentDecisions[request] # None
  <2>1. UNCHANGED <<request, bookVars>>
    BY <1>2 DEF expire, bookVars
  <2>2. Book' = Book
    BY <2>1 DEF Book, bookVars
  <2>3. Book' \in Snapshot /\ EntryTrue(Book', outcome', signed')
    BY <2>2, BookFields
  <2>4. receipts[request] = "expired" => outcome[request] = Timeout
    BY DEF EntryTrue, Book
  <2>5. QED
    BY <1>1, <1>2, <2>1, <2>3, <2>4, Markers DEF expire, Expired, Saves, bookVars
<1>3. CASE sentDecisions[request] = None
  <2>1. /\ request' = 0 /\ seenIDs' = seenIDs \cup {request}
        /\ UNCHANGED <<sentDecisions, sentOrder, receipts>>
        /\ screen' = "listening" /\ delivery' = None /\ result' = <<>>
    BY <1>3 DEF expire
  <2>2. BookType'
    BY <2>1 DEF BookType
  <2>3. Book' \in Snapshot
    BY <2>2, BookFieldsNext
  <2>4. EntryTrue(Book', outcome', signed')
    BY <2>1 DEF EntryTrue, Book
  <2>5. QED
    BY <1>1, <2>1, <2>3, <2>4 DEF Expired, Saves, None
<1>4. QED
  BY <1>2, <1>3

\* What is true of the entries stays true, and the entries keep their types.
Kept == BookType' /\ EntryType' /\ Entries'

LEMMA SavesKeep ==
  ASSUME IInv, Grows, Saves
  PROVE  Kept
<1>1. BookType'
  BY BookFieldsNext DEF Saves
<1>2. EntryType'
  BY TypeParts DEF IInv, EntryType, Saves
<1>3. /\ loaded.request \in {0} \cup Request /\ otherTab.request \in {0} \cup Request
  BY TypeParts, EntryFields DEF IInv, EntryType
<1>4. EntryTrue(loaded, outcome', signed') /\ EntryTrue(otherTab, outcome', signed')
  BY <1>3, EntryStays DEF IInv, Entries
<1>5. EntryTrue(disk', outcome', signed') /\ EntryTrue(Book', outcome', signed')
  BY DEF Saves
<1>6. Entries'
  BY <1>4, <1>5 DEF Entries, Saves
<1>7. QED
  BY <1>1, <1>2, <1>6 DEF Kept

\* Entries that only change places.
Moves ==
  /\ Book' = Book /\ disk' \in {disk, Book, otherTab}
  /\ loaded' \in {loaded, disk} /\ otherTab' \in {otherTab, disk}
  /\ reloads' \in 0 .. MaxReloads

LEMMA MovesKeep ==
  ASSUME IInv, Grows, Moves
  PROVE  Kept
<1>1. Book \in Snapshot /\ disk \in Snapshot /\ loaded \in Snapshot /\ otherTab \in Snapshot
  BY TypeParts, BookFields DEF IInv, EntryType
<1>2. BookType'
  BY <1>1, BookFieldsNext DEF Moves
<1>3. EntryType'
  BY <1>1 DEF EntryType, Moves
<1>4. /\ Book.request \in {0} \cup Request /\ disk.request \in {0} \cup Request
      /\ loaded.request \in {0} \cup Request /\ otherTab.request \in {0} \cup Request
  BY <1>1, EntryFields
<1>5. /\ EntryTrue(Book, outcome', signed') /\ EntryTrue(disk, outcome', signed')
      /\ EntryTrue(loaded, outcome', signed') /\ EntryTrue(otherTab, outcome', signed')
  BY <1>4, EntryStays DEF IInv, Entries
<1>6. Entries'
  BY <1>5 DEF Entries, Moves
<1>7. QED
  BY <1>2, <1>3, <1>6 DEF Kept

LEMMA QuietKeeps ==
  ASSUME IInv, Quiet
  PROVE  Grows /\ Kept
<1>1. Grows
  BY DEF Quiet, Grows
<1>2. reloads \in 0 .. MaxReloads
  BY TypeParts DEF IInv, EntryType
<1>3. Moves
  BY <1>2 DEF Quiet, Moves, Book, bookVars
<1>4. QED
  BY <1>1, <1>3, MovesKeep

\* A step that leaves the session, or withdraws the card of a request.
LEMMA WithdrawKeeps ==
  ASSUME IInv, UNCHANGED <<outcome, signed>>,
         \/ request \in Request /\ expire
         \/ UNCHANGED <<request, bookVars>> /\ (UNCHANGED diskVars \/ persisted)
  PROVE  Grows /\ Kept
<1>1. Grows
  BY DEF Grows
<1>2. CASE request \in Request /\ expire
  BY <1>1, <1>2, Expires, SavesKeep, TypeParts DEF IInv, Entries, Expired
<1>3. CASE UNCHANGED <<request, bookVars>> /\ (UNCHANGED diskVars \/ persisted)
  <2>1. Book' = Book
    BY <1>3 DEF Book, bookVars
  <2>2. reloads \in 0 .. MaxReloads
    BY TypeParts DEF IInv, EntryType
  <2>3. Moves
    BY <1>3, <2>1, <2>2 DEF Moves, diskVars, persisted, persistAll, Book
  <2>4. QED
    BY <1>1, <2>3, MovesKeep
<1>4. QED
  BY <1>2, <1>3

LEMMA CheckedKeeps ==
  ASSUME IInv, NEW op \in signing, Checked(op) \/ Refuse(op)
  PROVE  Grows /\ Kept
<1>1. op.req \in Request
  BY OpFields, TypeParts DEF IInv, TaskType
<1>2. UNCHANGED <<outcome, signed>>
  BY DEF Checked, Refuse, agentVars, histVars
<1>3. CASE Checked(op)
  <2>1. \/ request = op.req /\ expire
        \/ UNCHANGED <<request, bookVars>> /\ UNCHANGED diskVars
    BY <1>3 DEF Checked, nothingShown, uiVars
  <2>2. QED
    BY <1>1, <1>2, <2>1, WithdrawKeeps
<1>4. CASE Refuse(op)
  <2>1. \/ request = op.req /\ expire
        \/ UNCHANGED <<request, bookVars>> /\ (UNCHANGED diskVars \/ persisted)
    BY <1>4 DEF Refuse, nothingShown, uiVars
  <2>2. QED
    BY <1>1, <1>2, <2>1, WithdrawKeeps
<1>5. QED
  BY <1>3, <1>4

LEMMA ExpireTimerKeeps ==
  ASSUME IInv, ExpireTimer
  PROVE  Grows /\ Kept
<1>1. request \in Request
  BY TypeParts DEF IInv, AgentType, ExpireTimer
<1>2. UNCHANGED <<outcome, signed>> /\ expire
  BY DEF ExpireTimer, agentVars, histVars
<1>3. QED
  BY <1>1, <1>2, WithdrawKeeps

\* retainDecision adds the answer, and may drop an older one.
LEMMA Retains ==
  ASSUME BookType, NEW d \in Decision, retainDecision(d)
  PROVE  /\ sentDecisions' \in [Request -> {None} \cup Answer]
         /\ sentOrder' \in Seq(Request)
         /\ receipts' \in [Request -> {None, "accepted", "expired", "unknown"}]
         /\ \A n \in Request : /\ \/ sentDecisions'[n] \in {None, sentDecisions[n]}
                                  \/ n = d.req /\ sentDecisions'[n] = d.ans
                               /\ receipts'[n] \in {None, receipts[n]}
<1> DEFINE order == IF sentDecisions[d.req] = None THEN Append(sentOrder, d.req) ELSE sentOrder
           full  == Len(order) > maxSent
<1>1. d.req \in Request /\ d.ans \in Answer
  BY DEF Decision
<1>2. order \in Seq(Request)
  BY <1>1 DEF BookType
<1>3. sentOrder' = IF full THEN Tail(order) ELSE order
  BY DEF retainDecision
<1>4. full => order # <<>>
  BY <1>2, Markers
<1>5. sentOrder' \in Seq(Request)
  BY <1>2, <1>3, <1>4
<1>6. sentDecisions' = [n \in Request |->
         IF full /\ n = Head(order) THEN None
         ELSE IF n = d.req THEN d.ans ELSE sentDecisions[n]]
  BY DEF retainDecision
<1>7. receipts' = IF full THEN [receipts EXCEPT ![Head(order)] = None] ELSE receipts
  BY DEF retainDecision
<1> HIDE DEF full, order
<1>8. QED
  BY <1>1, <1>5, <1>6, <1>7 DEF BookType

LEMMA SendKeeps ==
  ASSUME IInv, NEW op \in signing, Send(op)
  PROVE  Grows /\ Kept
<1> DEFINE d == [req |-> op.req, ans |-> op.ans]
<1>1. op.req \in Request /\ d \in Decision /\ d.req = op.req /\ d.ans = op.ans
  BY OpFields, TypeParts DEF IInv, TaskType
<1>2. /\ retainDecision(d) /\ seenIDs' = seenIDs \cup {op.req} /\ request' = request
      /\ signed' = signed \cup {d} /\ outcome' = outcome /\ persisted
  BY DEF Send
<1>3. BookType /\ EntryTrue(Book, outcome, signed)
  BY TypeParts DEF IInv, Entries
<1> HIDE DEF d
<1>4. /\ sentDecisions' \in [Request -> {None} \cup Answer]
      /\ sentOrder' \in Seq(Request)
      /\ receipts' \in [Request -> {None, "accepted", "expired", "unknown"}]
      /\ \A n \in Request : /\ \/ sentDecisions'[n] \in {None, sentDecisions[n]}
                               \/ n = d.req /\ sentDecisions'[n] = d.ans
                            /\ receipts'[n] \in {None, receipts[n]}
  BY <1>1, <1>2, <1>3, Retains
<1>5. Grows
  BY <1>2 DEF Grows
<1>6. BookType'
  BY <1>1, <1>2, <1>3, <1>4 DEF BookType
<1>7. ASSUME NEW n \in Request, sentDecisions'[n] # None
      PROVE  [req |-> n, ans |-> sentDecisions'[n]] \in signed'
  <2>1. CASE sentDecisions'[n] = sentDecisions[n]
    BY <1>2, <1>3, <1>7, <2>1 DEF EntryTrue, Book
  <2>2. CASE n = d.req /\ sentDecisions'[n] = d.ans
    <3>1. d = [req |-> d.req, ans |-> d.ans]
      BY <1>1 DEF Decision
    <3>2. QED
      BY <1>2, <2>2, <3>1
  <2>3. QED
    BY <1>4, <1>7, <2>1, <2>2
<1>8. ASSUME NEW n \in Request, receipts'[n] = "expired"
      PROVE  outcome'[n] = Timeout
  BY <1>2, <1>3, <1>4, <1>8, Markers DEF EntryTrue, Book, None
<1>9. request' # 0 => outcome'[request'] # Unasked
  BY <1>2, <1>3 DEF EntryTrue, Book
<1>10. EntryTrue(Book', outcome', signed')
  BY <1>7, <1>8, <1>9 DEF EntryTrue, Book
<1>11. Saves
  BY <1>2, <1>6, <1>10, BookFieldsNext DEF Saves, Book, persisted, persistAll
<1>12. QED
  BY <1>5, <1>11, SavesKeep

LEMMA ShowKeeps ==
  ASSUME IInv, ShowRequest
  PROVE  Grows /\ Kept
<1> DEFINE n == handling[2]
<1>1. n \in Request /\ outcome[n] # Unasked
  BY TypeParts, HandlingShape DEF IInv, TaskType, Tasks, ShowRequest
<1>2. UNCHANGED <<outcome, signed>>
  BY DEF ShowRequest, agentVars
<1>3. \/ request \in Request /\ expire
      \/ UNCHANGED <<request, bookVars>> /\ (UNCHANGED diskVars \/ persisted)
      \/ /\ seenIDs' = seenIDs \cup {n}
         /\ UNCHANGED <<request, sentDecisions, sentOrder, receipts, diskVars>>
      \/ request' = n /\ UNCHANGED bookVars /\ persisted
  BY <1>1 DEF ShowRequest, nothingShown, uiVars
<1>4. Grows
  BY <1>2 DEF Grows
<1>5. BookType /\ EntryTrue(Book, outcome, signed)
  BY TypeParts DEF IInv, Entries
<1> HIDE DEF n
<1>6. CASE /\ seenIDs' = seenIDs \cup {n}
           /\ UNCHANGED <<request, sentDecisions, sentOrder, receipts, diskVars>>
  <2>1. BookType'
    BY <1>1, <1>5, <1>6 DEF BookType
  <2>2. EntryTrue(Book', outcome', signed')
    BY <1>2, <1>5, <1>6 DEF EntryTrue, Book
  <2>3. EntryType' /\ Entries'
    BY <1>2, <1>6, <2>2, TypeParts DEF IInv, EntryType, Entries, diskVars
  <2>4. QED
    BY <1>4, <2>1, <2>3 DEF Kept
<1>7. CASE request' = n /\ UNCHANGED bookVars /\ persisted
  <2>1. BookType'
    BY <1>1, <1>5, <1>7 DEF BookType, bookVars
  <2>2. EntryTrue(Book', outcome', signed')
    BY <1>1, <1>2, <1>5, <1>7 DEF EntryTrue, Book, bookVars
  <2>3. Saves
    BY <1>7, <2>1, <2>2, BookFieldsNext DEF Saves, Book, persisted, persistAll
  <2>4. QED
    BY <1>4, <2>3, SavesKeep
<1>8. QED
  BY <1>2, <1>3, <1>6, <1>7, WithdrawKeeps

LEMMA AckKeeps ==
  ASSUME IInv, ApplyAck
  PROVE  Grows /\ Kept
<1> DEFINE k == handling[2]
<1>1. k \in Ack /\ k.req \in Request /\ k.status \in {"accepted", "expired", "unknown"}
  BY TypeParts, HandlingShape, AckFields DEF IInv, TaskType, ApplyAck
<1>2. k.status = "expired" => outcome[k.req] = Timeout
  BY DEF IInv, Tasks, ApplyAck
<1>3. UNCHANGED <<outcome, signed>>
  BY DEF ApplyAck, agentVars
<1>4. \/ nothingShown
      \/ /\ receipts' = [receipts EXCEPT ![k.req] = k.status]
         /\ UNCHANGED <<sentDecisions, sentOrder, seenIDs>>
         /\ request' \in {0, request}
         /\ persisted
  BY DEF ApplyAck, uiVars
<1>5. Grows
  BY <1>3 DEF Grows
<1>6. BookType /\ EntryTrue(Book, outcome, signed)
  BY TypeParts DEF IInv, Entries
<1> HIDE DEF k
<1>7. CASE nothingShown
  BY <1>3, <1>7, WithdrawKeeps DEF nothingShown, uiVars
<1>8. CASE /\ receipts' = [receipts EXCEPT ![k.req] = k.status]
           /\ UNCHANGED <<sentDecisions, sentOrder, seenIDs>>
           /\ request' \in {0, request}
           /\ persisted
  <2>1. BookType'
    BY <1>1, <1>6, <1>8 DEF BookType
  <2>2. ASSUME NEW n \in Request, receipts'[n] = "expired" PROVE outcome'[n] = Timeout
    BY <1>1, <1>2, <1>3, <1>6, <1>8, <2>2 DEF EntryTrue, Book, BookType
  <2>3. EntryTrue(Book', outcome', signed')
    BY <1>3, <1>6, <1>8, <2>2 DEF EntryTrue, Book
  <2>4. Saves
    BY <1>8, <2>1, <2>3, BookFieldsNext DEF Saves, Book, persisted, persistAll
  <2>5. QED
    BY <1>5, <2>4, SavesKeep
<1>9. QED
  BY <1>4, <1>7, <1>8

LEMMA ReloadKeeps ==
  ASSUME IInv, Reload
  PROVE  Grows /\ Kept
<1>1. UNCHANGED <<outcome, signed>>
  BY DEF Reload, agentVars, histVars
<1>2. Grows
  BY <1>1 DEF Grows
<1>3. BookType'
  BY DEF Reload, BookType, NoAnswers
<1>4. EntryType'
  <2>1. reloads \in 0 .. MaxReloads /\ MaxReloads \in Nat
    BY TypeParts, Markers DEF IInv, EntryType
  <2>2. reloads' \in 0 .. MaxReloads
    BY <2>1 DEF Reload
  <2>3. QED
    BY <2>2, TypeParts DEF IInv, EntryType, Reload
<1>5. EntryTrue(Book', outcome', signed')
  BY DEF Reload, EntryTrue, Book, NoAnswers, None
<1>6. Entries'
  BY <1>1, <1>5 DEF IInv, Entries, Reload
<1>7. QED
  BY <1>2, <1>3, <1>4, <1>6 DEF Kept

LEMMA RestoreKeeps ==
  ASSUME IInv, Restore
  PROVE  Grows /\ Kept
<1>1. UNCHANGED <<outcome, signed>>
  BY DEF Restore, agentVars
<1>2. Grows
  BY <1>1 DEF Grows
<1>3. EntryTrue(loaded, outcome, signed) /\ loaded \in Snapshot
  BY TypeParts DEF IInv, Entries, EntryType
<1>4. /\ loaded.request \in {0} \cup Request
      /\ loaded.sent \in [Request -> {None} \cup Answer] /\ loaded.order \in Seq(Request)
      /\ loaded.receipts \in [Request -> {None, "accepted", "expired", "unknown"}]
      /\ loaded.seen \subseteq Request
  BY <1>3, EntryFields
<1>5. /\ sentDecisions' = loaded.sent /\ sentOrder' = loaded.order
      /\ receipts' = [n \in Request |-> IF loaded.sent[n] # None THEN loaded.receipts[n] ELSE None]
      /\ request' \in {0, loaded.request} /\ persisted
  BY DEF Restore
<1>6. seenIDs' \subseteq Request
  BY <1>4 DEF Restore
<1>7. BookType'
  BY <1>4, <1>5, <1>6 DEF BookType
<1>8. EntryTrue(Book', outcome', signed')
  BY <1>1, <1>3, <1>5 DEF EntryTrue, Book, None
<1>9. Saves
  BY <1>5, <1>7, <1>8, BookFieldsNext DEF Saves, Book, persisted, persistAll
<1>10. QED
  BY <1>2, <1>9, SavesKeep

LEMMA AgentKeeps ==
  ASSUME IInv, NEW n \in Request, AgentAsks(n) \/ AgentSettles(n)
  PROVE  Grows /\ Kept
<1>1. outcome \in [Request -> {Unasked, Open, Timeout} \cup Answer] /\ decisions \subseteq Decision
  BY TypeParts DEF IInv, AgentType
<1>2. UNCHANGED <<uiVars, bookVars, diskVars, histVars>>
  BY DEF AgentAsks, AgentSettles
<1>3. \E o \in {Open, Timeout} \cup Answer :
         /\ outcome[n] \in {Unasked, Open} /\ outcome' = [outcome EXCEPT ![n] = o]
         /\ outcome[n] = Unasked => o = Open
  <2>1. \A d \in decisions : d.ans \in Answer
    BY <1>1 DEF Decision
  <2>2. QED
    BY <2>1, Markers DEF AgentAsks, AgentSettles
<1>4. Grows
  BY <1>1, <1>2, <1>3, Markers DEF Grows, histVars
<1>5. Book' = Book /\ reloads \in 0 .. MaxReloads
  BY <1>2, TypeParts DEF Book, uiVars, bookVars, IInv, EntryType
<1>6. Moves
  BY <1>2, <1>5 DEF Moves, diskVars
<1>7. QED
  BY <1>4, <1>6, MovesKeep

LEMMA StepKeeps ==
  ASSUME IInv, [Next]_vars
  PROVE  Grows /\ Kept
BY StepKinds, QuietSteps, QuietKeeps, CheckedKeeps, SendKeeps, ShowKeeps, AckKeeps,
   ExpireTimerKeeps, ReloadKeeps, RestoreKeeps, AgentKeeps

(***************************************************************************)
(* The suspended calls                                                     *)
(***************************************************************************)

SigningTrue == signing \subseteq Signing /\ \A op \in signing : outcome[op.req] # Unasked

\* A suspended answer is advanced or dropped, or begun for the request on the screen.
LEMMA SigningFollows ==
  ASSUME IInv, [Next]_vars
  PROVE  /\ signing' \subseteq Signing
         /\ \A op \in signing' : \/ op.req = request /\ request \in Request
                                 \/ \E o \in signing : o.req = op.req
<1>1. /\ signing \subseteq Signing
      /\ \A op \in signing : [req |-> op.req, ans |-> op.ans, step |-> op.step, ok |-> op.ok] = op
  BY TypeParts DEF IInv, TaskType, Signing
<1>2. request \in {0} \cup Request
  BY TypeParts DEF IInv, BookType
<1> DEFINE Goal == /\ signing' \subseteq Signing
                   /\ \A op \in signing' : \/ op.req = request /\ request \in Request
                                           \/ \E o \in signing : o.req = op.req
<1>3. ASSUME NEW a \in Answer, Tap(a) PROVE Goal
  <2>1. request \in Request
    BY <1>2, <1>3, TypeParts DEF Tap, IInv, ScreenType
  <2> DEFINE new == [req |-> request, ans |-> a, step |-> "read1", ok |-> FALSE]
  <2>2. new \in Signing
    BY <2>1 DEF Signing
  <2>3. signing' = signing \cup {new}
    BY <1>3 DEF Tap
  <2>4. new.req = request
    OBVIOUS
  <2> HIDE DEF new
  <2>5. QED
    BY <1>1, <2>1, <2>2, <2>3, <2>4
<1>4. ASSUME NEW op \in signing, NEW step \in {"checked1", "sign", "read2", "checked2"},
             NEW ok \in BOOLEAN, Advance(op, step, ok)
      PROVE  Goal
  <2>1. op \in Signing
    BY <1>1
  <2>2. [op EXCEPT !.step = step, !.ok = ok] \in Signing
    BY <1>4, <2>1 DEF Signing
  <2>3. [op EXCEPT !.step = step, !.ok = ok].req = op.req
    BY <2>1 DEF Signing
  <2>4. QED
    BY <1>1, <1>4, <2>2, <2>3 DEF Advance
<1>5. ASSUME NEW op \in signing, Drop(op) \/ UNCHANGED signing \/ signing' = {} PROVE Goal
  BY <1>1, <1>5 DEF Drop
<1>6. ASSUME NEW op \in signing,
             currentRequest(op) \/ SendingFails(op) \/ Checked(op) \/ SignatureReady(op)
               \/ Refuse(op) \/ Send(op)
      PROVE  Goal
  <2>1. (ledger = op.req) \in BOOLEAN
    OBVIOUS
  <2>2. CASE currentRequest(op)
    BY <1>4, <2>1, <2>2 DEF currentRequest
  <2>3. CASE Checked(op) \/ SignatureReady(op)
    BY <1>4, <1>5, <2>3 DEF Checked, SignatureReady
  <2>4. CASE SendingFails(op) \/ Refuse(op) \/ Send(op)
    BY <1>5, <2>4 DEF SendingFails, Refuse, Send
  <2>5. QED
    BY <1>6, <2>2, <2>3, <2>4
<1>7. ASSUME UNCHANGED signing \/ signing' = {} PROVE Goal
  BY <1>1, <1>7
<1>8. ASSUME NEW n \in Request, ReceiveRequest(n) \/ AgentAsks(n) \/ AgentSettles(n)
                                \/ DeadlinePasses(n)
      PROVE  UNCHANGED signing
  BY <1>8 DEF ReceiveRequest, AgentAsks, AgentSettles, DeadlinePasses, taskVars
<1>9. ASSUME NEW k \in Ack, ReceiveAck(k) PROVE UNCHANGED signing
  BY <1>9 DEF ReceiveAck
<1>10. CASE observeRequest \/ observeRequestFails \/ ShowRequest \/ ApplyAck
  BY <1>7, <1>10 DEF observeRequest, observeRequestFails, ShowRequest, ApplyAck
<1>11. CASE ExpireTimer \/ dismissConfirmation \/ RetryTimer \/ ConnCloses \/ ConnOpens
             \/ retry \/ PeerJoined \/ PeerAbsent \/ PushStorageFails
  BY <1>7, <1>11 DEF ExpireTimer, dismissConfirmation, RetryTimer, ConnCloses, ConnOpens,
     retry, PeerJoined, PeerAbsent, PushStorageFails, taskVars
<1>12. CASE Reload \/ Restore \/ RestoreFails \/ OtherRoomSaves \/ OtherTab \/ UNCHANGED vars
  BY <1>7, <1>12 DEF Reload, Restore, RestoreFails, OtherRoomSaves, OtherTab, vars, taskVars
<1>13. QED
  BY <1>3, <1>6, <1>7, <1>8, <1>9, <1>10, <1>11, <1>12 DEF Next, PhoneStep, SendStep

LEMMA SigningKeeps ==
  ASSUME IInv, [Next]_vars
  PROVE  SigningTrue'
<1>1. signing \subseteq Signing /\ \A o \in signing : o.req \in Request /\ outcome[o.req] # Unasked
  BY TypeParts, OpFields DEF IInv, TaskType, Tasks
<1>2. request # 0 => outcome[request] # Unasked
  BY DEF IInv, Entries, EntryTrue, Book
<1>3. Grows
  BY StepKeeps
<1>4. ASSUME NEW op \in signing' PROVE outcome'[op.req] # Unasked
  <2>1. CASE op.req = request /\ request \in Request
    BY <1>2, <1>3, <2>1, Markers DEF Grows
  <2>2. CASE \E o \in signing : o.req = op.req
    BY <1>1, <1>3, <2>2 DEF Grows
  <2>3. QED
    BY <1>4, <2>1, <2>2, SigningFollows
<1>5. QED
  BY <1>4, SigningFollows DEF SigningTrue

HandlingTrue ==
  /\ handling \in Handling /\ ledger \in {0} \cup Request
  /\ handling # Idle /\ handling[1] \in {"observe", "observed"} =>
       outcome[handling[2]] # Unasked
  /\ handling # Idle /\ handling[1] = "ack" =>
       LET k == handling[2] IN
       /\ [req |-> k.req, ans |-> k.ans] \in signed
       /\ k.status = "accepted" => outcome[k.req] = k.ans
       /\ k.status = "expired" => outcome[k.req] = Timeout
  /\ handling # Idle /\ handling[1] = "observed" /\ handling[3] => handling[2] = ledger

\* The box whose handling is suspended was true when it came, and stays true.
LEMMA HandlingKeeps ==
  ASSUME IInv, [Next]_vars
  PROVE  HandlingTrue'
<1>1. Grows
  BY StepKeeps
<1>2. HandlingTrue
  BY TypeParts DEF IInv, TaskType, Tasks, Newest, HandlingTrue
<1>3. decisions \subseteq signed /\ decisions \subseteq Decision
  BY TypeParts DEF IInv, AgentType, Tasks
<1>4. ASSUME UNCHANGED <<handling, ledger>> PROVE HandlingTrue'
  <2>1. CASE handling = Idle
    BY <1>2, <1>4, <2>1 DEF HandlingTrue
  <2>2. CASE handling # Idle /\ handling[1] \in {"observe", "observed"}
    BY <1>1, <1>2, <1>4, <2>2, HandlingShape DEF HandlingTrue, Grows
  <2>3. CASE handling # Idle /\ handling[1] = "ack"
    BY <1>1, <1>2, <1>4, <2>3, HandlingShape, AckFields DEF HandlingTrue, Grows
  <2>4. QED
    BY <1>2, <2>1, <2>2, <2>3, HandlingShape DEF HandlingTrue
<1>5. ASSUME handling' = Idle, ledger' = ledger PROVE HandlingTrue'
  BY <1>2, <1>5 DEF HandlingTrue, Handling
<1>6. ASSUME NEW n \in Request, ReceiveRequest(n) PROVE HandlingTrue'
  <2>1. ledger' = ledger /\ outcome' = outcome /\ outcome[n] # Unasked
    BY <1>6 DEF ReceiveRequest
  <2>2. CASE handling' = <<"observe", n>>
    BY <1>2, <2>1, <2>2 DEF HandlingTrue, Handling, Idle
  <2>3. QED
    BY <1>4, <1>6, <2>1, <2>2 DEF ReceiveRequest
<1>7. ASSUME NEW k \in Ack, ReceiveAck(k) PROVE HandlingTrue'
  <2>1. ledger' = ledger /\ handling' = <<"ack", k>> /\ UNCHANGED <<outcome, signed>>
    BY <1>7 DEF ReceiveAck, agentVars, histVars
  <2>2. [req |-> k.req, ans |-> k.ans] \in signed
    BY <1>3, <1>7 DEF ReceiveAck, AckIssued
  <2>3. /\ k.status = "accepted" => outcome[k.req] = k.ans
        /\ k.status = "expired" => outcome[k.req] = Timeout
    BY <1>7 DEF ReceiveAck, AckIssued
  <2>4. handling' \in Handling /\ handling'[1] = "ack" /\ handling'[2] = k
    BY <2>1 DEF Handling
  <2>5. QED
    BY <1>2, <2>1, <2>2, <2>3, <2>4 DEF HandlingTrue
<1>8. CASE observeRequest
  <2> DEFINE n == handling[2]
  <2>1. n \in Request /\ outcome[n] # Unasked /\ outcome' = outcome
    BY <1>2, <1>8, HandlingShape DEF HandlingTrue, observeRequest, agentVars
  <2>2. /\ ledger' = IF n >= ledger THEN n ELSE ledger
        /\ handling' = <<"observed", n, n >= ledger>>
    BY <1>8 DEF observeRequest
  <2>3. n \in Nat /\ ledger \in Nat
    <3>1. ledger \in {0} \cup Request
      BY <1>2 DEF HandlingTrue
    <3>2. QED
      BY <2>1, <3>1 DEF Request
  <2> HIDE DEF n
  <2>4. (n >= ledger) \in BOOLEAN /\ ledger' \in {0} \cup Request /\ (n >= ledger => ledger' = n)
    BY <1>2, <2>1, <2>2, <2>3 DEF HandlingTrue
  <2>5. PICK b \in BOOLEAN : b = (n >= ledger)
    BY <2>4
  <2>6. handling' = <<"observed", n, b>>
    BY <2>2, <2>5
  <2>7. handling' \in Handling
    BY <2>1, <2>6 DEF Handling
  <2>8. /\ handling'[1] = "observed" /\ handling'[2] = n
        /\ handling'[3] => ledger' = n
    BY <2>4, <2>5, <2>6
  <2>9. QED
    BY <2>1, <2>4, <2>7, <2>8 DEF HandlingTrue
<1>9. ASSUME NEW op \in signing,
             currentRequest(op) \/ SendingFails(op) \/ Checked(op) \/ SignatureReady(op)
               \/ Refuse(op) \/ Send(op)
      PROVE  UNCHANGED <<handling, ledger>>
  BY <1>9 DEF currentRequest, SendingFails, Checked, SignatureReady, Refuse, Send
<1>10. ASSUME NEW n \in Request, AgentAsks(n) \/ AgentSettles(n) \/ DeadlinePasses(n)
       PROVE  UNCHANGED <<handling, ledger>>
  BY <1>10 DEF AgentAsks, AgentSettles, DeadlinePasses, taskVars
<1>11. ASSUME NEW a \in Answer, Tap(a) PROVE UNCHANGED <<handling, ledger>>
  BY <1>11 DEF Tap
<1>12. CASE observeRequestFails \/ ShowRequest \/ ApplyAck \/ Reload
  BY <1>5, <1>12 DEF observeRequestFails, ShowRequest, ApplyAck, Reload
<1>13. CASE ExpireTimer \/ dismissConfirmation \/ RetryTimer \/ ConnCloses \/ ConnOpens
             \/ retry \/ PeerJoined \/ PeerAbsent \/ PushStorageFails
  BY <1>4, <1>13 DEF ExpireTimer, dismissConfirmation, RetryTimer, ConnCloses, ConnOpens,
     retry, PeerJoined, PeerAbsent, PushStorageFails, taskVars
<1>14. CASE Restore \/ RestoreFails \/ OtherRoomSaves \/ OtherTab \/ UNCHANGED vars
  BY <1>4, <1>14 DEF Restore, RestoreFails, OtherRoomSaves, OtherTab, vars, taskVars
<1>15. QED
  BY <1>4, <1>6, <1>7, <1>8, <1>9, <1>10, <1>11, <1>12, <1>13, <1>14
     DEF Next, PhoneStep, SendStep

\* Only answers that are signed are on the wire.
LEMMA DecisionsKeep ==
  ASSUME IInv, [Next]_vars
  PROVE  decisions' \subseteq signed'
<1>1. /\ decisions \subseteq signed /\ decisions \subseteq Decision
      /\ signed \subseteq signed'
  BY TypeParts, StepKeeps DEF IInv, Tasks, AgentType, Grows
<1>2. \A n \in Request : sentDecisions[n] # None =>
         [req |-> n, ans |-> sentDecisions[n]] \in signed
  BY DEF IInv, Entries, EntryTrue, Book
<1>3. ASSUME NEW d \in Decision, sentDecisions[d.req] = d.ans PROVE d \in signed
  <2>1. d.req \in Request /\ d.ans # None /\ d = [req |-> d.req, ans |-> d.ans]
    BY Markers DEF Decision
  <2>2. QED
    BY <1>2, <1>3, <2>1
<1>4. ASSUME UNCHANGED decisions PROVE decisions' \subseteq signed'
  BY <1>1, <1>4
<1>5. ASSUME NEW c, retryPending(c) PROVE decisions' \subseteq signed'
  BY <1>1, <1>3, <1>5 DEF retryPending
<1>6. ASSUME NEW n \in Request, ReceiveRequest(n) PROVE decisions' \subseteq signed'
  BY <1>1, <1>2, <1>6 DEF ReceiveRequest, sendBox
<1>7. ASSUME NEW op \in signing, Send(op) PROVE decisions' \subseteq signed'
  BY <1>1, <1>7 DEF Send, sendBox
<1>8. ASSUME NEW op \in signing,
             currentRequest(op) \/ SendingFails(op) \/ Checked(op) \/ SignatureReady(op)
               \/ Refuse(op)
      PROVE  UNCHANGED decisions
  BY <1>8 DEF currentRequest, SendingFails, Checked, SignatureReady, Refuse, agentVars
<1>9. ASSUME NEW n \in Request, AgentAsks(n) \/ AgentSettles(n) \/ DeadlinePasses(n)
      PROVE  UNCHANGED decisions
  BY <1>9 DEF AgentAsks, AgentSettles, DeadlinePasses
<1>10. ASSUME NEW a \in Answer, Tap(a) PROVE UNCHANGED decisions
  BY <1>10 DEF Tap, agentVars
<1>11. ASSUME NEW k \in Ack, ReceiveAck(k) PROVE UNCHANGED decisions
  BY <1>11 DEF ReceiveAck, agentVars
<1>12. CASE RetryTimer \/ ConnOpens \/ retry \/ PeerJoined
  BY <1>5, <1>12 DEF RetryTimer, ConnOpens, retry, PeerJoined
<1>13. CASE observeRequest \/ observeRequestFails \/ ShowRequest \/ ApplyAck \/ Reload
             \/ ExpireTimer \/ dismissConfirmation \/ ConnCloses \/ PeerAbsent
  BY <1>4, <1>13 DEF observeRequest, observeRequestFails, ShowRequest, ApplyAck, Reload,
     ExpireTimer, dismissConfirmation, ConnCloses, PeerAbsent, agentVars
<1>14. CASE PushStorageFails \/ Restore \/ RestoreFails \/ OtherRoomSaves \/ OtherTab
             \/ UNCHANGED vars
  BY <1>4, <1>14 DEF PushStorageFails, Restore, RestoreFails, OtherRoomSaves, OtherTab, vars,
     agentVars
<1>15. QED
  BY <1>4, <1>6, <1>7, <1>8, <1>9, <1>10, <1>11, <1>12, <1>13, <1>14
     DEF Next, PhoneStep, SendStep

(***************************************************************************)
(* What the human sees                                                     *)
(***************************************************************************)

\* The screen after a step, true of the agent before it.
ScreenNow ==
  /\ ScreenType'
  /\ delivery' = "expired" => request' \in Request /\ outcome[request'] = Timeout
  /\ screen' = "confirmed" => /\ result' # <<>>
                              /\ outcome[result'[1].req] = result'[1].ans

LEMMA ScreenStays ==
  ASSUME Grows, ScreenNow
  PROVE  ScreenTrue'
<1>1. CASE screen' = "confirmed"
  <2>1. PICK d \in Decision : result' = <<d>>
    BY <1>1 DEF ScreenNow, ScreenType
  <2>2. d.req \in Request /\ d.ans \in Answer /\ result'[1] = d
    BY <2>1 DEF Decision
  <2>3. outcome[d.req] = d.ans
    BY <1>1, <2>2 DEF ScreenNow
  <2>4. outcome'[d.req] = d.ans
    BY <2>2, <2>3 DEF Grows
  <2>5. QED
    BY <2>1, <2>2, <2>4, Markers DEF ScreenTrue, ScreenNow, Grows
<1>2. CASE screen' # "confirmed"
  BY <1>2, Markers DEF ScreenTrue, ScreenNow, Grows
<1>3. QED
  BY <1>1, <1>2

LEMMA ScreenBefore ==
  ASSUME IInv
  PROVE  /\ ScreenType /\ BookType
         /\ delivery = "expired" => request \in Request /\ outcome[request] = Timeout
         /\ screen = "confirmed" => /\ result # <<>>
                                    /\ outcome[result[1].req] = result[1].ans
BY TypeParts DEF IInv, ScreenTrue, BookType

LEMMA UnchangedScreen ==
  ASSUME IInv, UNCHANGED <<connVars, uiVars>>
  PROVE  ScreenNow
BY ScreenBefore DEF ScreenNow, ScreenType, connVars, uiVars

LEMMA FailedScreen ==
  ASSUME IInv, onPairError
  PROVE  ScreenNow
BY ScreenBefore DEF ScreenNow, ScreenType, onPairError

LEMMA ExpiredScreen ==
  ASSUME IInv, request \in Request, expire, UNCHANGED <<outcome, signed, connVars>>
  PROVE  ScreenNow
<1>1. Expired
  BY Expires, ScreenBefore DEF IInv, Entries
<1>2. ScreenType'
  BY <1>1, ScreenBefore DEF Expired, ScreenType, connVars
<1>3. QED
  BY <1>1, <1>2, ScreenBefore DEF Expired, ScreenNow, BookType

LEMMA SendScreens ==
  ASSUME IInv, NEW op \in signing,
         currentRequest(op) \/ SendingFails(op) \/ Checked(op) \/ SignatureReady(op)
           \/ Refuse(op) \/ Send(op)
  PROVE  ScreenNow
<1>1. op.req \in Request
  BY OpFields, TypeParts DEF IInv, TaskType
<1>2. CASE currentRequest(op) \/ SignatureReady(op)
  BY <1>2, UnchangedScreen DEF currentRequest, SignatureReady, nothingShown
<1>3. CASE SendingFails(op)
  BY <1>3, UnchangedScreen, FailedScreen DEF SendingFails, nothingShown
<1>4. CASE Checked(op)
  <2>1. UNCHANGED <<outcome, signed, connVars>>
    BY <1>4 DEF Checked, agentVars, histVars
  <2>2. (request = op.req /\ expire) \/ nothingShown
    BY <1>4 DEF Checked
  <2>3. QED
    BY <1>1, <2>1, <2>2, ExpiredScreen, UnchangedScreen DEF nothingShown
<1>5. CASE Refuse(op)
  <2>1. UNCHANGED <<outcome, signed, connVars>>
    BY <1>5 DEF Refuse, agentVars, histVars
  <2>2. \/ request = op.req /\ expire
        \/ nothingShown
        \/ delivery' = None /\ UNCHANGED <<request, screen, result>>
    BY <1>5 DEF Refuse
  <2>3. CASE delivery' = None /\ UNCHANGED <<request, screen, result>>
    BY <2>1, <2>3, ScreenBefore DEF ScreenNow, ScreenType, None, connVars
  <2>4. QED
    BY <1>1, <2>1, <2>2, <2>3, ExpiredScreen, UnchangedScreen DEF nothingShown
<1>6. CASE Send(op)
  <2>1. /\ UNCHANGED <<request, result, connVars>> /\ screen' = "pending"
        /\ delivery' \in {"awaiting", "uncertain"}
    BY <1>6 DEF Send
  <2>2. QED
    BY <2>1, ScreenBefore DEF ScreenNow, ScreenType, connVars
<1>7. QED
  BY <1>2, <1>3, <1>4, <1>5, <1>6

LEMMA ShowScreens ==
  ASSUME IInv, ShowRequest
  PROVE  ScreenNow
<1> DEFINE n == handling[2]
<1>1. n \in Request
  BY TypeParts, HandlingShape DEF IInv, TaskType, ShowRequest
<1>2. UNCHANGED <<outcome, signed, connVars>>
  BY DEF ShowRequest, agentVars
<1>3. \/ UNCHANGED uiVars
      \/ request = n /\ expire
      \/ request = n /\ screen' = "card" /\ UNCHANGED <<request, delivery, result>>
      \/ request' = n /\ screen' = "card" /\ delivery' = None /\ result' = <<>>
  BY DEF ShowRequest, nothingShown
<1> HIDE DEF n
<1>4. CASE request = n /\ screen' = "card" /\ UNCHANGED <<request, delivery, result>>
  BY <1>1, <1>2, <1>4, ScreenBefore, Markers DEF ScreenNow, ScreenType, connVars
<1>5. CASE request' = n /\ screen' = "card" /\ delivery' = None /\ result' = <<>>
  BY <1>1, <1>2, <1>5, ScreenBefore, Markers DEF ScreenNow, ScreenType, connVars, None
<1>6. QED
  BY <1>1, <1>2, <1>3, <1>4, <1>5, UnchangedScreen, ExpiredScreen

LEMMA AckScreens ==
  ASSUME IInv, ApplyAck
  PROVE  ScreenNow
<1> DEFINE k == handling[2]
           d == [req |-> k.req, ans |-> k.ans]
<1>1. k \in Ack /\ d \in Decision
  BY TypeParts, HandlingShape, AckFields DEF IInv, TaskType, ApplyAck
<1>2. /\ k.status = "accepted" => outcome[k.req] = k.ans
      /\ k.status = "expired" => outcome[k.req] = Timeout
  BY DEF IInv, Tasks, ApplyAck
<1>3. UNCHANGED connVars
  BY DEF ApplyAck
<1>4. \/ UNCHANGED uiVars
      \/ /\ request = k.req /\ k.status = "accepted"
         /\ screen' = "confirmed" /\ request' = 0 /\ delivery' = None /\ result' = <<d>>
      \/ /\ request = k.req /\ screen' = "pending"
         /\ delivery' = IF k.status = "expired" THEN "expired" ELSE "uncertain"
         /\ UNCHANGED <<request, result>>
  BY DEF ApplyAck, nothingShown
<1>5. d.req = k.req /\ d.ans = k.ans /\ k.req \in Request
  BY <1>1, AckFields
<1> HIDE DEF k, d
<1>6. CASE /\ request = k.req /\ k.status = "accepted"
           /\ screen' = "confirmed" /\ request' = 0 /\ delivery' = None /\ result' = <<d>>
  <2>1. result' \in {<<>>} \cup {<<e>> : e \in Decision} /\ result' # <<>> /\ result'[1] = d
    BY <1>1, <1>6
  <2>2. ScreenType'
    BY <1>3, <1>6, <2>1, ScreenBefore DEF ScreenType, connVars
  <2>3. delivery' # "expired"
    BY <1>6 DEF None
  <2>4. outcome[result'[1].req] = result'[1].ans
    BY <1>2, <1>5, <1>6, <2>1
  <2>5. QED
    BY <2>1, <2>2, <2>3, <2>4 DEF ScreenNow
<1>7. CASE /\ request = k.req /\ screen' = "pending"
           /\ delivery' = IF k.status = "expired" THEN "expired" ELSE "uncertain"
           /\ UNCHANGED <<request, result>>
  BY <1>2, <1>3, <1>5, <1>7, ScreenBefore DEF ScreenNow, ScreenType, connVars
<1>8. QED
  BY <1>3, <1>4, <1>6, <1>7, UnchangedScreen

LEMMA RestoreScreens ==
  ASSUME IInv, Restore
  PROVE  ScreenNow
<1> DEFINE n == loaded.request
           answered == n # 0 /\ n = ledger /\ loaded.sent[n] # None
<1>1. /\ n \in {0} \cup Request
      /\ \A m \in Request : loaded.receipts[m] = "expired" => outcome[m] = Timeout
  BY TypeParts, EntryFields DEF IInv, EntryType, Entries, EntryTrue
<1>2. receipts' = [m \in Request |-> IF loaded.sent[m] # None THEN loaded.receipts[m] ELSE None]
  BY DEF Restore
<1>3. /\ screen' \in {"listening", "pending", "card"} /\ UNCHANGED result
      /\ conn' \in {"open", "closed"} /\ status' = "paired"
      /\ screen' = "card" => request' = n /\ n # 0
  BY DEF Restore
<1>4. /\ delivery' \in {None, "expired", "uncertain"}
      /\ delivery' = "expired" => n \in Request /\ request' = n /\ receipts'[n] = "expired"
  BY <1>1 DEF Restore, None
<1>5. delivery' = "expired" => request' \in Request /\ outcome[request'] = Timeout
  BY <1>1, <1>2, <1>4 DEF None
<1> HIDE DEF n, answered
<1>6. ScreenType'
  BY <1>3, <1>4, ScreenBefore DEF ScreenType
<1>7. QED
  BY <1>3, <1>5, <1>6 DEF ScreenNow

LEMMA OtherScreens ==
  ASSUME IInv,
         \/ \E a \in Answer : Tap(a)
         \/ dismissConfirmation \/ RetryTimer \/ ConnCloses \/ ConnOpens \/ retry
         \/ PeerAbsent \/ Reload
  PROVE  ScreenNow
<1> USE ScreenBefore DEF ScreenNow, ScreenType, connVars
<1>1. CASE \E a \in Answer : Tap(a)
  BY <1>1 DEF Tap
<1>2. CASE dismissConfirmation
  BY <1>2 DEF dismissConfirmation
<1>3. CASE RetryTimer
  BY <1>3 DEF RetryTimer, markUncertain
<1>4. CASE ConnCloses
  BY <1>4 DEF ConnCloses, Redialled
<1>5. CASE ConnOpens
  BY <1>5 DEF ConnOpens
<1>6. CASE retry
  BY <1>6 DEF retry, Redialled, uiVars
<1>7. CASE PeerAbsent
  BY <1>7 DEF PeerAbsent, markUncertain
<1>8. CASE Reload
  BY <1>8 DEF Reload, None
<1>9. QED
  BY <1>1, <1>2, <1>3, <1>4, <1>5, <1>6, <1>7, <1>8

LEMMA ScreenKeeps ==
  ASSUME IInv, [Next]_vars
  PROVE  ScreenType' /\ ScreenTrue'
<1>1. ASSUME NEW n \in Request,
             ReceiveRequest(n) \/ AgentAsks(n) \/ AgentSettles(n) \/ DeadlinePasses(n)
      PROVE  UNCHANGED <<connVars, uiVars>>
  BY <1>1 DEF ReceiveRequest, AgentAsks, AgentSettles, DeadlinePasses, nothingShown
<1>2. ASSUME NEW k \in Ack, ReceiveAck(k) PROVE UNCHANGED <<connVars, uiVars>>
  BY <1>2 DEF ReceiveAck, nothingShown
<1>3. ASSUME observeRequest \/ PeerJoined \/ OtherRoomSaves \/ OtherTab \/ UNCHANGED vars
      PROVE  UNCHANGED <<connVars, uiVars>>
  BY <1>3 DEF observeRequest, PeerJoined, OtherRoomSaves, OtherTab, vars, nothingShown
<1>4. CASE observeRequestFails \/ PushStorageFails \/ RestoreFails
  BY <1>4, FailedScreen, ScreenStays, StepKeeps DEF observeRequestFails, PushStorageFails,
     RestoreFails, ScreenNow
<1>5. CASE ExpireTimer
  <2>1. request \in Request /\ expire /\ UNCHANGED <<outcome, signed, connVars>>
    BY <1>5, TypeParts DEF ExpireTimer, IInv, AgentType, agentVars, histVars
  <2>2. QED
    BY <2>1, ExpiredScreen, ScreenStays, StepKeeps DEF ScreenNow
<1>6. ASSUME ScreenNow PROVE ScreenType' /\ ScreenTrue'
  BY <1>6, ScreenStays, StepKeeps DEF ScreenNow
<1>7. QED
  BY <1>1, <1>2, <1>3, <1>4, <1>5, <1>6, UnchangedScreen, SendScreens, ShowScreens,
     AckScreens, RestoreScreens, OtherScreens DEF Next, PhoneStep, SendStep

(***************************************************************************)
(* The agent, and the newest request                                       *)
(***************************************************************************)

AgentTrue == AgentType /\ lastShown <= ledger

LEMMA AgentTypeKeeps ==
  ASSUME IInv, [Next]_vars
  PROVE  AgentTrue'
<1>1. AgentType /\ lastShown <= ledger /\ ledger \in Nat /\ lastShown \in Nat
  <2>1. ledger \in {0} \cup Request /\ lastShown \in {0} \cup Request
    BY TypeParts DEF IInv, TaskType, AgentType
  <2>2. QED
    BY <2>1, Markers, TypeParts DEF IInv, Newest
<1>2. ASSUME UNCHANGED <<outcome, late, histVars, ledger>>, decisions' \subseteq signed'
      PROVE  AgentTrue'
  BY <1>1, <1>2 DEF AgentTrue, AgentType, histVars
<1>3. decisions' \subseteq signed'
  BY DecisionsKeep
<1>4. ASSUME NEW op \in signing, Send(op) PROVE AgentTrue'
  <2>1. [req |-> op.req, ans |-> op.ans] \in Decision
    BY OpFields, TypeParts DEF IInv, TaskType
  <2>2. QED
    BY <1>1, <1>3, <1>4, <2>1 DEF Send, AgentTrue, AgentType
<1>5. ASSUME NEW op \in signing,
             currentRequest(op) \/ SendingFails(op) \/ Checked(op) \/ SignatureReady(op)
               \/ Refuse(op)
      PROVE  UNCHANGED <<outcome, late, histVars, ledger>>
  BY <1>5 DEF currentRequest, SendingFails, Checked, SignatureReady, Refuse, agentVars
<1>6. ASSUME NEW n \in Request, ReceiveRequest(n) PROVE AgentTrue'
  BY <1>2, <1>3, <1>6 DEF ReceiveRequest
<1>7. ASSUME NEW n \in Request, AgentAsks(n) \/ AgentSettles(n) \/ DeadlinePasses(n)
      PROVE  AgentTrue'
  <2>1. \A d \in decisions : d.ans \in Answer
    BY <1>1 DEF AgentType, Decision
  <2>2. outcome' \in [Request -> {Unasked, Open, Timeout} \cup Answer] /\ late' \subseteq Request
    BY <1>1, <1>7, <2>1 DEF AgentAsks, AgentSettles, DeadlinePasses, AgentType
  <2>3. UNCHANGED <<histVars, ledger, decisions>>
    BY <1>7 DEF AgentAsks, AgentSettles, DeadlinePasses, taskVars
  <2>4. QED
    BY <1>1, <2>2, <2>3 DEF AgentTrue, AgentType, histVars
<1>8. CASE observeRequest
  <2>1. handling[2] \in Nat
    BY <1>8, TypeParts, HandlingShape, Markers DEF IInv, TaskType, observeRequest
  <2>2. UNCHANGED <<agentVars, histVars>> /\ ledger' >= ledger /\ ledger' \in Nat
    BY <1>1, <1>8, <2>1 DEF observeRequest
  <2>3. QED
    BY <1>1, <2>2 DEF AgentTrue, AgentType, agentVars, histVars
<1>9. CASE ShowRequest
  <2>1. handling[2] \in Request /\ (handling[3] => handling[2] = ledger)
    BY <1>9, TypeParts, HandlingShape DEF IInv, TaskType, Newest, ShowRequest
  <2>2. /\ (lastShown' = lastShown \/ (handling[3] /\ lastShown' = handling[2]))
        /\ UNCHANGED <<ledger, agentVars, signed, confirmed>>
    BY <1>9 DEF ShowRequest
  <2>3. QED
    BY <1>1, <2>1, <2>2 DEF AgentTrue, AgentType, agentVars
<1>10. CASE ApplyAck
  <2>1. [req |-> handling[2].req, ans |-> handling[2].ans] \in Decision
    BY <1>10, TypeParts, HandlingShape, AckFields DEF IInv, TaskType, ApplyAck
  <2>2. /\ confirmed' \in {confirmed, confirmed \cup {[req |-> handling[2].req, ans |-> handling[2].ans]}}
        /\ UNCHANGED <<ledger, agentVars, lastShown, signed>>
    BY <1>10 DEF ApplyAck
  <2>3. QED
    BY <1>1, <2>1, <2>2 DEF AgentTrue, AgentType, agentVars
<1>11. CASE Restore
  <2>1. /\ lastShown' \in {lastShown, ledger}
        /\ UNCHANGED <<ledger, agentVars, signed, confirmed>>
    BY <1>11 DEF Restore
  <2>2. ledger \in {0} \cup Request
    BY TypeParts DEF IInv, TaskType
  <2>3. QED
    BY <1>1, <2>1, <2>2 DEF AgentTrue, AgentType, agentVars
<1>12. ASSUME NEW a \in Answer, Tap(a) PROVE UNCHANGED <<outcome, late, histVars, ledger>>
  BY <1>12 DEF Tap, agentVars
<1>13. ASSUME NEW k \in Ack, ReceiveAck(k) PROVE UNCHANGED <<outcome, late, histVars, ledger>>
  BY <1>13 DEF ReceiveAck, agentVars
<1>14. CASE observeRequestFails \/ Reload \/ ExpireTimer \/ dismissConfirmation \/ RetryTimer
             \/ ConnCloses \/ ConnOpens \/ retry
  BY <1>2, <1>3, <1>14 DEF observeRequestFails, Reload, ExpireTimer, dismissConfirmation,
     RetryTimer, ConnCloses, ConnOpens, retry, agentVars
<1>15. CASE PeerJoined \/ PeerAbsent \/ PushStorageFails \/ RestoreFails \/ OtherRoomSaves
             \/ OtherTab \/ UNCHANGED vars
  BY <1>2, <1>3, <1>15 DEF PeerJoined, PeerAbsent, PushStorageFails, RestoreFails,
     OtherRoomSaves, OtherTab, vars, agentVars
<1>16. QED
  BY <1>2, <1>3, <1>4, <1>5, <1>6, <1>7, <1>8, <1>9, <1>10, <1>11, <1>12, <1>13, <1>14, <1>15
     DEF Next, PhoneStep, SendStep

(***************************************************************************)
(* What holds whatever fails                                               *)
(***************************************************************************)

LEMMA InitIInv == Init => IInv
<1> SUFFICES ASSUME Init PROVE IInv
  OBVIOUS
<1>1. EmptyEntry \in Snapshot
  BY DEF EmptyEntry, Snapshot, NoAnswers
<1>2. Book = EmptyEntry
  BY DEF Init, Book, EmptyEntry
<1>3. BookType /\ ScreenType /\ EntryType /\ TaskType /\ AgentType
  BY <1>1, Markers DEF Init, BookType, ScreenType, EntryType, TaskType, AgentType,
     NoAnswers, Handling
<1>4. EntryTrue(EmptyEntry, outcome, signed)
  BY DEF EntryTrue, EmptyEntry, NoAnswers, None
<1>5. Entries
  BY <1>2, <1>4 DEF Init, Entries
<1>6. Tasks /\ ScreenTrue /\ Newest
  BY DEF Init, Tasks, ScreenTrue, Newest, None
<1>7. QED
  BY <1>3, <1>5, <1>6, TypeParts DEF IInv

LEMMA NextIInv == IInv /\ [Next]_vars => IInv'
<1> SUFFICES ASSUME IInv, [Next]_vars PROVE IInv'
  OBVIOUS
<1>1. BookType' /\ EntryType' /\ Entries'
  BY StepKeeps DEF Kept
<1>2. SigningTrue' /\ HandlingTrue' /\ decisions' \subseteq signed'
  BY SigningKeeps, HandlingKeeps, DecisionsKeep
<1>3. ScreenType' /\ ScreenTrue'
  BY ScreenKeeps
<1>4. AgentType' /\ (lastShown <= ledger)'
  BY AgentTypeKeeps DEF AgentTrue
<1>5. TaskType'
  BY <1>2 DEF TaskType, SigningTrue, HandlingTrue
<1>6. Tasks'
  BY <1>2 DEF Tasks, SigningTrue, HandlingTrue
<1>7. Newest'
  BY <1>2, <1>4 DEF Newest, HandlingTrue
<1>8. Book' \in Snapshot
  BY <1>1, BookFieldsNext
<1>9. TypeOK'
  BY <1>1, <1>3, <1>4, <1>5, <1>8 DEF TypeOK, Book, BookType, ScreenType, EntryType, TaskType,
     AgentType
<1>10. QED
  BY <1>1, <1>3, <1>6, <1>7, <1>9 DEF IInv

\* The inductive invariant of a session that anything may happen to: every entry, kept,
\* saved or remembered by another tab, every suspended call and every answer on the wire
\* is true of the agent.
THEOREM Inductive == Spec => []IInv
BY InitIInv, NextIInv, PTL DEF Spec

\* Type correctness of Phone.
THEOREM TypeCorrect == Spec => []TypeOK
<1>1. IInv => TypeOK
  BY DEF IInv
<1>2. QED
  BY <1>1, Inductive, PTL

\* The screen tells the truth about an answer's fate, whatever is lost, repeated, reloaded
\* or saved over.
THEOREM DeliveryIsTrue == Spec => []DeliveryTrue
<1>1. IInv => DeliveryTrue
  BY DEF IInv, ScreenTrue, DeliveryTrue
<1>2. QED
  BY <1>1, Inductive, PTL

\* The question on the screen is the newest one ever shown, whatever a stale roster holds.
THEOREM ShowsForward == Spec => ShownForward
<1> DEFINE Forward == request' # 0 => request' >= lastShown
<1>1. ASSUME IInv, [Next]_vars, request' # request PROVE Forward
  <2>1. lastShown <= ledger /\ lastShown \in Nat /\ ledger \in Nat
    <3>1. ledger \in {0} \cup Request /\ lastShown \in {0} \cup Request
      BY <1>1, TypeParts DEF IInv, TaskType, AgentType
    <3>2. QED
      BY <1>1, <3>1, Markers DEF IInv, Newest
  <2>2. QuietStep => request' = request
    BY QuietSteps DEF Quiet
  <2>3. ASSUME NEW op \in signing, Checked(op) \/ Refuse(op) \/ Send(op)
        PROVE  request' \in {0, request}
    BY <2>3 DEF Checked, Refuse, Send, expire, nothingShown, uiVars
  <2>4. ASSUME NEW n \in Request, AgentAsks(n) \/ AgentSettles(n) PROVE request' = request
    BY <2>4 DEF AgentAsks, AgentSettles, uiVars
  <2>5. CASE ShowRequest
    <3>1. handling # Idle /\ handling[1] = "observed" /\ (handling[3] => handling[2] = ledger)
      BY <1>1, <2>5 DEF IInv, Newest, ShowRequest
    <3>2. request' \in {0, request} \/ (handling[3] /\ request' = handling[2])
      BY <2>5 DEF ShowRequest, expire, nothingShown, uiVars
    <3>3. QED
      BY <1>1, <2>1, <3>1, <3>2
  <2>6. ApplyAck \/ ExpireTimer \/ Reload => request' \in {0, request}
    BY DEF ApplyAck, ExpireTimer, Reload, expire, nothingShown, uiVars
  <2>7. Restore => request' \in {0, ledger}
    BY DEF Restore
  <2>8. QED
    BY <1>1, <2>1, <2>2, <2>3, <2>4, <2>5, <2>6, <2>7, StepKinds
<1>2. IInv /\ [Next]_vars => [Forward]_request
  BY <1>1
<1>3. QED
  BY <1>2, Inductive, PTL DEF Spec, ShownForward

\* No question past its deadline comes onto the screen, but one whose answer is on its way.
THEOREM NothingRevived == Spec => NoRevival
<1> DEFINE Fresh == request' # request /\ request' \in late => screen' = "pending"
<1>1. ASSUME IInv, [Next]_vars PROVE Fresh
  <2>1. 0 \notin late
    BY <1>1, TypeParts, Markers DEF IInv, AgentType
  <2>2. QuietStep => request' = request
    BY QuietSteps DEF Quiet
  <2>3. ASSUME NEW op \in signing, Checked(op) \/ Refuse(op) \/ Send(op)
        PROVE  request' \in {0, request}
    BY <2>3 DEF Checked, Refuse, Send, expire, nothingShown, uiVars
  <2>4. ASSUME NEW n \in Request, AgentAsks(n) \/ AgentSettles(n) PROVE request' = request
    BY <2>4 DEF AgentAsks, AgentSettles, uiVars
  <2>5. CASE ShowRequest
    <3>1. request' \in {0, request} \/ (request' = handling[2] /\ handling[2] \notin late)
      BY <2>5 DEF ShowRequest, expire, nothingShown, uiVars
    <3>2. QED
      BY <2>1, <3>1
  <2>6. ApplyAck \/ ExpireTimer \/ Reload => request' \in {0, request}
    BY DEF ApplyAck, ExpireTimer, Reload, expire, nothingShown, uiVars
  <2>7. CASE Restore
    <3>1. request' = 0 \/ (request' = loaded.request
                           /\ (loaded.request \in late => screen' = "pending"))
      BY <2>7 DEF Restore
    <3>2. QED
      BY <2>1, <3>1
  <2>8. QED
    BY <1>1, <2>1, <2>2, <2>3, <2>4, <2>5, <2>6, <2>7, StepKinds
<1>2. IInv /\ [Next]_vars => [Fresh]_vars
  BY <1>1
<1>3. QED
  BY <1>2, Inductive, PTL DEF Spec, NoRevival

(***************************************************************************)
(* The promise of Approval                                                 *)
(***************************************************************************)

LEMMA NextPromise == IInv /\ [Next]_vars => [Promise!Next]_(Promise!vars)
<1> SUFFICES ASSUME IInv, [Next]_vars PROVE Promise!Next \/ UNCHANGED Promise!vars
  OBVIOUS
<1> USE DEF Promise!vars
<1>1. ASSUME QuietStep PROVE UNCHANGED Promise!vars
  BY <1>1, QuietSteps DEF Quiet
<1>2. ASSUME NEW op \in signing, Checked(op) \/ Refuse(op) PROVE UNCHANGED Promise!vars
  BY <1>2 DEF Checked, Refuse, agentVars, histVars
<1>3. CASE ExpireTimer \/ ShowRequest \/ Reload \/ Restore
  BY <1>3 DEF ExpireTimer, ShowRequest, Reload, Restore, agentVars, histVars
<1>4. ASSUME NEW op \in signing, Send(op) PROVE Promise!Next
  <2> DEFINE d == [req |-> op.req, ans |-> op.ans]
  <2>1. d \in Decision /\ outcome[d.req] # Unasked
    BY OpFields, TypeParts DEF IInv, TaskType, Tasks
  <2>2. signed' = signed \cup {d} /\ UNCHANGED <<outcome, confirmed>>
    BY <1>4 DEF Send
  <2> HIDE DEF d
  <2>3. Promise!Sign(d)
    BY <2>1, <2>2 DEF Promise!Sign, Unasked, Promise!Unasked
  <2>4. QED
    BY <2>1, <2>3 DEF Promise!Next, Promise!Decision, Decision
<1>5. ASSUME ApplyAck PROVE Promise!Next \/ UNCHANGED Promise!vars
  <2> DEFINE k == handling[2]
             d == [req |-> k.req, ans |-> k.ans]
  <2>1. d \in Decision /\ d.req = k.req /\ d.ans = k.ans
    BY <1>5, TypeParts, HandlingShape, AckFields DEF IInv, TaskType, ApplyAck
  <2>2. k.status = "accepted" => outcome[k.req] = k.ans
    BY <1>5 DEF IInv, Tasks, ApplyAck
  <2>3. /\ UNCHANGED <<outcome, signed>>
        /\ \/ confirmed' = confirmed
           \/ k.status = "accepted" /\ confirmed' = confirmed \cup {d}
    BY <1>5 DEF ApplyAck, agentVars
  <2> HIDE DEF k, d
  <2>4. CASE confirmed' = confirmed
    BY <2>3, <2>4
  <2>5. CASE k.status = "accepted" /\ confirmed' = confirmed \cup {d}
    <3>1. Promise!Confirm(d)
      BY <2>1, <2>2, <2>3, <2>5 DEF Promise!Confirm
    <3>2. QED
      BY <2>1, <3>1 DEF Promise!Next, Promise!Decision, Decision
  <2>6. QED
    BY <2>3, <2>4, <2>5
<1>6. ASSUME NEW n \in Request, AgentAsks(n) PROVE Promise!Next
  <2>1. Promise!Ask(n)
    BY <1>6 DEF AgentAsks, Promise!Ask, histVars, Unasked, Open, Promise!Unasked, Promise!Open
  <2>2. QED
    BY <2>1 DEF Promise!Next
<1>7. ASSUME NEW n \in Request, AgentSettles(n) PROVE Promise!Next
  <2>1. outcome[n] = Open /\ UNCHANGED <<signed, confirmed>>
    BY <1>7 DEF AgentSettles, histVars
  <2>2. CASE outcome' = [outcome EXCEPT ![n] = Timeout]
    <3>1. Promise!GiveUp(n)
      BY <2>1, <2>2 DEF Promise!GiveUp, Open, Timeout, Promise!Open, Promise!Timeout
    <3>2. QED
      BY <3>1 DEF Promise!Next
  <2>3. CASE \E d \in decisions : d.req = n /\ outcome' = [outcome EXCEPT ![n] = d.ans]
    <3>1. PICK d \in decisions : d.req = n /\ outcome' = [outcome EXCEPT ![n] = d.ans]
      BY <2>3
    <3>2. d \in signed /\ d \in Decision
      BY <3>1, TypeParts DEF IInv, Tasks, AgentType
    <3>3. Promise!Accept(d)
      BY <2>1, <3>1, <3>2 DEF Promise!Accept, Open, Promise!Open
    <3>4. QED
      BY <3>2, <3>3 DEF Promise!Next, Promise!Decision, Decision
  <2>4. QED
    BY <1>7, <2>2, <2>3 DEF AgentSettles
<1>8. QED
  BY <1>1, <1>2, <1>3, <1>4, <1>5, <1>6, <1>7, StepKinds

\* The phone keeps the promise of Approval, whatever fails around it: it signs answers to
\* requests that were asked, and reports as accepted what the agent accepted.
THEOREM PhoneKeepsPromise == Spec => KeepsPromise
<1>1. Init => Promise!Init
  BY DEF Init, Promise!Init, Unasked, Promise!Unasked
<1>2. IInv /\ [Next]_vars => [Promise!Next]_(Promise!vars)
  BY NextPromise
<1>3. QED
  BY <1>1, <1>2, Inductive, PTL DEF Spec, KeepsPromise, Promise!Spec

(***************************************************************************)
(* When nothing fails: the steps                                           *)
(***************************************************************************)

\* While the session is restored, only the agent and the clock move.
Waits == UNCHANGED <<connVars, uiVars, bookVars, taskVars, ledger, diskVars, decisions,
                     histVars>>

LEMMA RestoringSteps ==
  ASSUME Faults = {}, IInv, Mirror, status = "restoring", [Next]_vars
  PROVE  Reload \/ Restore \/ Waits
<1>1. /\ conn = "closed" /\ screen = "pair" /\ request = 0
      /\ signing = {} /\ handling = Idle
  BY DEF Mirror
<1>2. 0 \notin late
  BY TypeParts, Markers DEF IInv, AgentType
<1>3. ASSUME NEW n \in Request, AgentAsks(n) \/ AgentSettles(n) \/ DeadlinePasses(n)
      PROVE  Waits
  BY <1>3 DEF AgentAsks, AgentSettles, DeadlinePasses, Waits
<1>4. ASSUME NEW a \in Answer PROVE ~ Tap(a)
  BY DEF Tap
<1>5. ASSUME NEW n \in Request PROVE ~ ReceiveRequest(n)
  BY DEF ReceiveRequest
<1>6. ASSUME NEW k \in Ack PROVE ~ ReceiveAck(k)
  BY DEF ReceiveAck
<1>7. ~ (observeRequest \/ observeRequestFails \/ ShowRequest \/ ApplyAck \/ ExpireTimer)
  BY <1>1, <1>2 DEF observeRequest, observeRequestFails, ShowRequest, ApplyAck, ExpireTimer
<1>8. ~ (dismissConfirmation \/ RetryTimer \/ ConnCloses \/ ConnOpens \/ retry \/ PeerJoined
         \/ PeerAbsent)
  BY <1>1 DEF dismissConfirmation, RetryTimer, ConnCloses, ConnOpens, Redialled, retry,
     PeerJoined, PeerAbsent
<1>9. ~ (PushStorageFails \/ RestoreFails \/ OtherRoomSaves \/ OtherTab)
  BY DEF PushStorageFails, RestoreFails, OtherRoomSaves, OtherTab
<1>10. UNCHANGED vars => Waits
  BY DEF vars, Waits, agentVars
<1>11. QED
  BY <1>1, <1>3, <1>4, <1>5, <1>6, <1>7, <1>8, <1>9, <1>10 DEF Next, PhoneStep, SendStep

\* A restored session saves what it changes, but for a request it only notes as seen.
Follows ==
  /\ status' = "paired" /\ seenIDs \subseteq seenIDs'
  /\ \/ disk' = Book'
     \/ disk' = disk /\ UNCHANGED <<request, sentDecisions, sentOrder, receipts>>

\* The screen stays with its request, or leaves it closed, or shows a newer one.
Stays  == /\ request' = request /\ lastShown' = lastShown
          /\ screen = "pending" => screen' = "pending"
Leaves == request' = 0 /\ lastShown' = lastShown /\ request \in seenIDs'
Shows  == /\ request' = ledger /\ lastShown' = ledger /\ ledger \in Request \ seenIDs
          /\ request # ledger /\ handling # Idle

\* A terminal receipt is not replaced.
ReceiptsStay ==
  \A n \in Request : receipts[n] \in Terminal => receipts'[n] = receipts[n]

Keeps ==
  /\ Follows /\ (Stays \/ Leaves \/ Shows) /\ ReceiptsStay
  /\ UNCHANGED <<sentDecisions, sentOrder, signed>>

LEMMA ExpireFollows ==
  ASSUME expire, UNCHANGED <<status, signed, lastShown>>, status = "paired"
  PROVE  Keeps
BY DEF expire, persisted, persistAll, Book, Keeps, Follows, Stays, Leaves, ReceiptsStay

LEMMA NothingFollows ==
  ASSUME nothingShown, UNCHANGED <<status, signed, lastShown>>, status = "paired"
  PROVE  Keeps
BY DEF nothingShown, uiVars, bookVars, diskVars, Keeps, Follows, Stays, ReceiptsStay

LEMMA SendingFollows ==
  ASSUME Faults = {}, status = "paired", NEW op \in signing,
         currentRequest(op) \/ SendingFails(op) \/ Checked(op) \/ SignatureReady(op)
           \/ Refuse(op)
  PROVE  Keeps
<1>1. UNCHANGED <<status, signed, lastShown>>
  BY DEF currentRequest, SendingFails, Checked, SignatureReady, Refuse, connVars, histVars
<1>2. \/ expire \/ nothingShown
      \/ UNCHANGED <<request, screen, bookVars>> /\ persisted
  BY DEF currentRequest, SendingFails, Checked, SignatureReady, Refuse
<1>3. CASE UNCHANGED <<request, screen, bookVars>> /\ persisted
  BY <1>1, <1>3 DEF bookVars, persisted, persistAll, Book, Keeps, Follows, Stays, ReceiptsStay
<1>4. QED
  BY <1>1, <1>2, <1>3, ExpireFollows, NothingFollows

LEMMA ShowFollows ==
  ASSUME IInv, status = "paired", ShowRequest
  PROVE  Keeps
<1> DEFINE n == handling[2]
<1>1. n \in Request /\ (handling[3] => n = ledger) /\ handling # Idle
  BY TypeParts, HandlingShape DEF IInv, TaskType, Newest, ShowRequest
<1>2. UNCHANGED <<status, signed>>
  BY DEF ShowRequest, connVars
<1>3. \/ UNCHANGED lastShown /\ (expire \/ nothingShown)
      \/ UNCHANGED lastShown /\ screen = "offline" /\ UNCHANGED <<request, bookVars>> /\ persisted
      \/ UNCHANGED lastShown /\ seenIDs' = seenIDs \cup {n}
           /\ UNCHANGED <<uiVars, sentDecisions, sentOrder, receipts, diskVars>>
      \/ /\ handling[3] /\ request # n /\ n \notin seenIDs
         /\ request' = n /\ lastShown' = n /\ UNCHANGED bookVars /\ persisted
  BY DEF ShowRequest
<1> HIDE DEF n
<1>4. CASE UNCHANGED lastShown /\ screen = "offline" /\ UNCHANGED <<request, bookVars>> /\ persisted
  BY <1>2, <1>4 DEF bookVars, persisted, persistAll, Book, Keeps, Follows, Stays, ReceiptsStay
<1>5. CASE UNCHANGED lastShown /\ seenIDs' = seenIDs \cup {n}
             /\ UNCHANGED <<uiVars, sentDecisions, sentOrder, receipts, diskVars>>
  BY <1>2, <1>5 DEF uiVars, diskVars, Keeps, Follows, Stays, ReceiptsStay
<1>6. CASE /\ handling[3] /\ request # n /\ n \notin seenIDs
           /\ request' = n /\ lastShown' = n /\ UNCHANGED bookVars /\ persisted
  BY <1>1, <1>2, <1>6 DEF bookVars, persisted, persistAll, Book, Keeps, Follows, Shows,
     ReceiptsStay
<1>7. QED
  BY <1>2, <1>3, <1>4, <1>5, <1>6, ExpireFollows, NothingFollows

LEMMA AckFollows ==
  ASSUME IInv, Mirror, SignedOnce, status = "paired", ApplyAck
  PROVE  Keeps
<1> DEFINE k == handling[2]
<1>1. k.req \in Request /\ [req |-> k.req, ans |-> k.ans] \in signed
  BY TypeParts, HandlingShape, AckFields DEF IInv, TaskType, Tasks, ApplyAck
<1>2. k.req \in seenIDs
  BY <1>1 DEF SignedOnce, Mirror
<1>3. UNCHANGED <<status, signed, lastShown>>
  BY DEF ApplyAck, connVars
<1>4. \/ nothingShown
      \/ /\ receipts[k.req] \notin Terminal
         /\ receipts' = [receipts EXCEPT ![k.req] = k.status]
         /\ UNCHANGED <<sentDecisions, sentOrder, seenIDs>> /\ persisted
         /\ \/ request' = request /\ (screen = "pending" => screen' = "pending")
            \/ request = k.req /\ request' = 0
  BY DEF ApplyAck, uiVars
<1>5. receipts \in [Request -> {None, "accepted", "expired", "unknown"}]
  BY TypeParts DEF IInv, BookType
<1> HIDE DEF k
<1>6. CASE /\ receipts[k.req] \notin Terminal
           /\ receipts' = [receipts EXCEPT ![k.req] = k.status]
           /\ UNCHANGED <<sentDecisions, sentOrder, seenIDs>> /\ persisted
           /\ \/ request' = request /\ (screen = "pending" => screen' = "pending")
              \/ request = k.req /\ request' = 0
  <2>1. ReceiptsStay
    BY <1>5, <1>6 DEF ReceiptsStay
  <2>2. disk' = Book'
    BY <1>6 DEF persisted, persistAll, Book
  <2>3. QED
    BY <1>2, <1>3, <1>6, <2>1, <2>2 DEF Keeps, Follows, Stays, Leaves
<1>7. QED
  BY <1>3, <1>4, <1>6, NothingFollows

LEMMA PairedSteps ==
  ASSUME Faults = {}, IInv, Mirror, SignedOnce, status = "paired", [Next]_vars
  PROVE  Keeps \/ Reload \/ \E op \in signing : Send(op)
<1>1. ASSUME NEW n \in Request,
             ReceiveRequest(n) \/ AgentAsks(n) \/ AgentSettles(n) \/ DeadlinePasses(n)
      PROVE  Keeps
  BY <1>1, NothingFollows DEF ReceiveRequest, AgentAsks, AgentSettles, DeadlinePasses,
     nothingShown, connVars, histVars
<1>2. ASSUME NEW k \in Ack, ReceiveAck(k) PROVE Keeps
  BY <1>2, NothingFollows DEF ReceiveAck, connVars, histVars
<1>3. CASE observeRequest \/ UNCHANGED vars
  BY <1>3, NothingFollows DEF observeRequest, vars, nothingShown, connVars, histVars
<1>4. CASE ExpireTimer
  BY <1>4, ExpireFollows DEF ExpireTimer, connVars, histVars
<1>5. ~ (observeRequestFails \/ PushStorageFails \/ Restore \/ RestoreFails \/ OtherRoomSaves
         \/ OtherTab)
  BY DEF observeRequestFails, PushStorageFails, Restore, RestoreFails, OtherRoomSaves, OtherTab
<1>6. ASSUME UNCHANGED <<request, bookVars, status, histVars>>, persisted,
             screen = "pending" => screen' = "pending"
      PROVE  Keeps
  BY <1>6 DEF bookVars, histVars, persisted, persistAll, Book, Keeps, Follows, Stays,
     ReceiptsStay
<1>7. CASE dismissConfirmation \/ RetryTimer \/ ConnCloses \/ ConnOpens
  BY <1>6, <1>7 DEF dismissConfirmation, RetryTimer, ConnCloses, ConnOpens, connVars
<1>8. CASE retry \/ PeerJoined \/ PeerAbsent
  BY <1>6, <1>8 DEF retry, PeerJoined, PeerAbsent, connVars, uiVars
<1>9. ASSUME NEW a \in Answer, Tap(a) PROVE Keeps
  BY <1>6, <1>9 DEF Tap, connVars
<1>10. QED
  BY <1>1, <1>2, <1>3, <1>4, <1>5, <1>7, <1>8, <1>9, SendingFollows, ShowFollows,
     AckFollows DEF Next, PhoneStep, SendStep

(***************************************************************************)
(* When nothing fails: what a step keeps                                   *)
(***************************************************************************)

Numbers == /\ request \in {0} \cup Request /\ lastShown \in Nat /\ ledger \in Nat
           /\ lastShown <= ledger

LEMMA NumbersHold ==
  ASSUME IInv
  PROVE  Numbers
<1>1. request \in {0} \cup Request /\ lastShown \in {0} \cup Request
      /\ ledger \in {0} \cup Request /\ lastShown <= ledger
  BY TypeParts DEF IInv, BookType, TaskType, AgentType, Newest
<1>2. QED
  BY <1>1, Markers DEF Numbers

\* The ledger never goes down.
LEMMA LedgerGrows ==
  ASSUME IInv, [Next]_vars
  PROVE  ledger' \in Nat /\ ledger' >= ledger
<1>1. ledger \in Nat
  BY NumbersHold DEF Numbers
<1>2. CASE observeRequest
  <2>1. handling[2] \in Nat
    BY <1>2, TypeParts, HandlingShape, Markers DEF IInv, TaskType, observeRequest
  <2>2. QED
    BY <1>1, <1>2, <2>1 DEF observeRequest
<1>3. ASSUME NEW op \in signing,
             currentRequest(op) \/ SendingFails(op) \/ Checked(op) \/ SignatureReady(op)
               \/ Refuse(op) \/ Send(op)
      PROVE  UNCHANGED ledger
  BY <1>3 DEF currentRequest, SendingFails, Checked, SignatureReady, Refuse, Send
<1>4. ASSUME NEW n \in Request,
             ReceiveRequest(n) \/ AgentAsks(n) \/ AgentSettles(n) \/ DeadlinePasses(n)
      PROVE  UNCHANGED ledger
  BY <1>4 DEF ReceiveRequest, AgentAsks, AgentSettles, DeadlinePasses, taskVars
<1>5. ASSUME NEW a \in Answer, Tap(a) PROVE UNCHANGED ledger
  BY <1>5 DEF Tap
<1>6. ASSUME NEW k \in Ack, ReceiveAck(k) PROVE UNCHANGED ledger
  BY <1>6 DEF ReceiveAck
<1>7. CASE observeRequestFails \/ ShowRequest \/ ApplyAck \/ Reload
  BY <1>1, <1>7 DEF observeRequestFails, ShowRequest, ApplyAck, Reload
<1>8. CASE ExpireTimer \/ dismissConfirmation \/ RetryTimer \/ ConnCloses \/ ConnOpens
             \/ retry \/ PeerJoined \/ PeerAbsent \/ PushStorageFails
  BY <1>1, <1>8 DEF ExpireTimer, dismissConfirmation, RetryTimer, ConnCloses, ConnOpens,
     retry, PeerJoined, PeerAbsent, PushStorageFails
<1>9. CASE Restore \/ RestoreFails \/ OtherRoomSaves \/ OtherTab \/ UNCHANGED vars
  BY <1>1, <1>9 DEF Restore, RestoreFails, OtherRoomSaves, OtherTab, vars
<1>10. QED
  BY <1>1, <1>2, <1>3, <1>4, <1>5, <1>6, <1>7, <1>8, <1>9 DEF Next, PhoneStep, SendStep

\* What a step other than a send or a reload leaves of the saved entry.
LEMMA KeepsEntry ==
  ASSUME Mirror, status = "paired", Keeps
  PROVE  /\ Mirror'
         /\ disk'.order = disk.order /\ disk'.sent = disk.sent
         /\ disk.seen \subseteq disk'.seen /\ disk.seen \subseteq seenIDs'
         /\ disk'.request = request'
<1>1. /\ disk.request = request /\ disk.sent = sentDecisions /\ disk.order = sentOrder
      /\ disk.receipts = receipts /\ disk.seen \subseteq seenIDs
  BY DEF Mirror
<1>2. UNCHANGED <<sentDecisions, sentOrder>> /\ status' = "paired" /\ seenIDs \subseteq seenIDs'
  BY DEF Keeps, Follows
<1>3. CASE disk' = Book'
  BY <1>1, <1>2, <1>3 DEF Book, Mirror
<1>4. CASE disk' = disk /\ UNCHANGED <<request, sentDecisions, sentOrder, receipts>>
  BY <1>1, <1>2, <1>4 DEF Mirror
<1>5. QED
  BY <1>3, <1>4 DEF Keeps, Follows

LEMMA KeepsRetained ==
  ASSUME IInv, Mirror, Retained, SignedOnce, AnswerDurable, status = "paired", Keeps
  PROVE  Retained' /\ SignedOnce' /\ AnswerDurable'
<1>1. /\ disk'.order = disk.order /\ disk'.sent = disk.sent
      /\ disk.seen \subseteq disk'.seen
      /\ disk'.request = request' /\ disk.request = request /\ disk.seen \subseteq seenIDs
  BY KeepsEntry DEF Mirror
<1>2. Numbers /\ disk.order \in Seq(Request)
  BY NumbersHold, EntryFields, TypeParts DEF IInv, EntryType
<1>3. lastShown' \in Nat /\ lastShown' >= lastShown /\ request' \in {0, lastShown'}
  BY <1>1, <1>2, Markers DEF Keeps, Stays, Leaves, Shows, Retained, Numbers
<1>4. ASSUME NEW i \in 1 .. Len(disk.order) PROVE disk.order[i] <= lastShown'
  <2>1. disk.order[i] \in Request
    BY <1>2
  <2>2. disk.order[i] \in Nat /\ disk.order[i] <= lastShown
    BY <2>1, Markers DEF Retained
  <2>3. QED
    BY <1>2, <1>3, <2>2 DEF Numbers
<1>5. Retained'
  BY <1>1, <1>3, <1>4 DEF Retained
<1>6. signed' = signed /\ signed \subseteq Decision
  BY TypeParts DEF Keeps, IInv, AgentType
<1>7. ASSUME NEW d \in signed
      PROVE  /\ d.req \in disk'.seen /\ d.req <= lastShown'
             /\ d.req = disk'.request => disk'.sent[d.req] = d.ans
             /\ d.req = request' => screen' = "pending"
  <2>1. d.req \in Request /\ d.req \in Nat
    BY <1>6, Markers DEF Decision
  <2>2. /\ d.req \in disk.seen /\ d.req <= lastShown
        /\ d.req = request => disk.sent[d.req] = d.ans /\ screen = "pending"
    BY <1>1 DEF SignedOnce
  <2>3. d.req \in seenIDs
    BY <1>1, <2>2
  <2>4. d.req = request' => request' = request /\ (screen = "pending" => screen' = "pending")
    BY <2>1, <2>3, Markers DEF Keeps, Stays, Leaves, Shows
  <2>5. QED
    BY <1>1, <1>2, <1>3, <2>1, <2>2, <2>4 DEF Numbers
<1>8. SignedOnce'
  BY <1>6, <1>7 DEF SignedOnce, OneAnswer
<1>9. AnswerDurable'
  BY <1>1, <1>6 DEF AnswerDurable, Range
<1>10. QED
  BY <1>5, <1>8, <1>9

\* How the suspended answers follow.
SameOnes ==
  /\ \A op \in signing' : \E o \in signing : o.req = op.req
  /\ \A op, other \in signing' : op.req = other.req => op = other
Begins ==
  /\ screen # "pending" /\ screen' = "pending" /\ request' = request
  /\ \E new : new.req = request /\ signing' = signing \cup {new}

LEMMA Follow ==
  ASSUME IInv, \A op, other \in signing : op.req = other.req => op = other, [Next]_vars
  PROVE  SameOnes \/ Begins
<1>1. signing \subseteq Signing
  BY TypeParts DEF IInv, TaskType
<1>2. ASSUME UNCHANGED signing \/ signing' = {} PROVE SameOnes
  BY <1>2 DEF SameOnes
<1>3. ASSUME NEW op \in signing, Drop(op) PROVE SameOnes
  BY <1>3 DEF SameOnes, Drop
<1>4. ASSUME NEW op \in signing, NEW step, NEW ok, Advance(op, step, ok) PROVE SameOnes
  <2> DEFINE new == [op EXCEPT !.step = step, !.ok = ok]
  <2>1. new.req = op.req
    BY <1>1 DEF Signing
  <2>2. signing' = (signing \ {op}) \cup {new}
    BY <1>4 DEF Advance
  <2> HIDE DEF new
  <2>3. QED
    BY <2>1, <2>2 DEF SameOnes
<1>5. ASSUME NEW a \in Answer, Tap(a) PROVE Begins
  <2> DEFINE new == [req |-> request, ans |-> a, step |-> "read1", ok |-> FALSE]
  <2>1. new.req = request
    OBVIOUS
  <2>2. signing' = signing \cup {new}
    BY <1>5 DEF Tap
  <2>3. screen # "pending" /\ screen' = "pending" /\ request' = request
    BY <1>5 DEF Tap
  <2> HIDE DEF new
  <2>4. QED
    BY <2>1, <2>2, <2>3 DEF Begins
<1>6. ASSUME NEW op \in signing,
             currentRequest(op) \/ SendingFails(op) \/ Checked(op) \/ SignatureReady(op)
               \/ Refuse(op) \/ Send(op)
      PROVE  SameOnes
  <2>1. CASE currentRequest(op)
    BY <1>4, <2>1 DEF currentRequest
  <2>2. CASE Checked(op) \/ SignatureReady(op)
    BY <1>3, <1>4, <2>2 DEF Checked, SignatureReady
  <2>3. CASE SendingFails(op) \/ Refuse(op) \/ Send(op)
    BY <1>3, <2>3 DEF SendingFails, Refuse, Send
  <2>4. QED
    BY <1>6, <2>1, <2>2, <2>3
<1>7. ASSUME NEW n \in Request,
             ReceiveRequest(n) \/ AgentAsks(n) \/ AgentSettles(n) \/ DeadlinePasses(n)
      PROVE  UNCHANGED signing
  BY <1>7 DEF ReceiveRequest, AgentAsks, AgentSettles, DeadlinePasses, taskVars
<1>8. ASSUME NEW k \in Ack, ReceiveAck(k) PROVE UNCHANGED signing
  BY <1>8 DEF ReceiveAck
<1>9. CASE observeRequest \/ observeRequestFails \/ ShowRequest \/ ApplyAck
  BY <1>2, <1>9 DEF observeRequest, observeRequestFails, ShowRequest, ApplyAck
<1>10. CASE ExpireTimer \/ dismissConfirmation \/ RetryTimer \/ ConnCloses \/ ConnOpens
             \/ retry \/ PeerJoined \/ PeerAbsent \/ PushStorageFails
  BY <1>2, <1>10 DEF ExpireTimer, dismissConfirmation, RetryTimer, ConnCloses, ConnOpens,
     retry, PeerJoined, PeerAbsent, PushStorageFails, taskVars
<1>11. CASE Reload \/ Restore \/ RestoreFails \/ OtherRoomSaves \/ OtherTab \/ UNCHANGED vars
  BY <1>2, <1>11 DEF Reload, Restore, RestoreFails, OtherRoomSaves, OtherTab, vars, taskVars
<1>12. QED
  BY <1>2, <1>5, <1>6, <1>7, <1>8, <1>9, <1>10, <1>11 DEF Next, PhoneStep, SendStep

LEMMA KeepsSigning ==
  ASSUME IInv, Mirror, Retained, SignedOnce, SigningOnce, status = "paired", [Next]_vars, Keeps
  PROVE  SigningOnce'
<1>1. Numbers /\ request \in {0, lastShown} /\ signed' = signed /\ seenIDs \subseteq seenIDs'
  BY NumbersHold DEF Mirror, Retained, Keeps, Follows
<1>2. /\ signing \subseteq Signing
      /\ \A op, other \in signing : op.req = other.req => op = other
  BY TypeParts DEF IInv, TaskType, SigningOnce
<1>3. ledger' \in Nat /\ ledger' >= ledger
  BY LedgerGrows
<1>4. ASSUME NEW o \in signing, NEW op, op.req = o.req
      PROVE  /\ \A d \in signed : d.req # op.req
             /\ IF op.req = request' THEN screen' = "pending"
                ELSE op.req \in seenIDs' \/ op.req < ledger'
  <2>1. o.req \in Request /\ o.req \in Nat
    BY <1>2, OpFields, Markers
  <2>2. /\ \A d \in signed : d.req # o.req
        /\ IF o.req = request THEN screen = "pending"
           ELSE o.req \in seenIDs \/ o.req < ledger
    BY DEF SigningOnce
  <2>3. CASE Stays
    BY <1>1, <1>3, <1>4, <2>1, <2>2, <2>3 DEF Stays, Numbers
  <2>4. CASE Leaves
    BY <1>1, <1>3, <1>4, <2>1, <2>2, <2>4, Markers DEF Leaves, Numbers
  <2>5. CASE Shows
    BY <1>1, <1>3, <1>4, <2>1, <2>2, <2>5 DEF Shows, Numbers
  <2>6. QED
    BY <2>3, <2>4, <2>5 DEF Keeps
<1>5. CASE SameOnes
  BY <1>1, <1>4, <1>5 DEF SameOnes, SigningOnce
<1>6. CASE Begins
  <2>1. PICK new : new.req = request /\ signing' = signing \cup {new}
    BY <1>6 DEF Begins
  <2>2. screen # "pending" /\ screen' = "pending" /\ request' = request
    BY <1>6 DEF Begins
  <2>3. \A o \in signing : o.req # request
    BY <2>2 DEF SigningOnce
  <2>4. \A d \in signed : d.req # request
    BY <2>2 DEF SignedOnce
  <2>5. \A op, other \in signing' : op.req = other.req => op = other
    BY <1>2, <2>1, <2>3
  <2>6. ASSUME NEW op \in signing'
        PROVE  /\ \A d \in signed : d.req # op.req
               /\ IF op.req = request' THEN screen' = "pending"
                  ELSE op.req \in seenIDs' \/ op.req < ledger'
    BY <1>4, <2>1, <2>2, <2>4, <2>6
  <2>7. QED
    BY <1>1, <2>5, <2>6 DEF SigningOnce
<1>7. QED
  BY <1>2, <1>5, <1>6, Follow

(***************************************************************************)
(* When nothing fails: an answer is sent                                   *)
(***************************************************************************)

\* The ledger of answers in order of their requests, each at its place.
InOrder(order, sent) ==
  /\ \A i, j \in 1 .. Len(order) : i < j => order[i] < order[j]
  /\ \A n \in Request : sent[n] # None <=> \E i \in 1 .. Len(order) : order[i] = n

\* A new answer goes to the end; the one that is displaced is the oldest.
LEMMA RetainsInOrder ==
  ASSUME BookType, NEW d \in Decision, retainDecision(d),
         InOrder(sentOrder, sentDecisions), Len(sentOrder) <= maxSent,
         sentDecisions[d.req] = None,
         \A i \in 1 .. Len(sentOrder) : sentOrder[i] < d.req
  PROVE  /\ InOrder(sentOrder', sentDecisions') /\ Len(sentOrder') <= maxSent
         /\ sentDecisions'[d.req] = d.ans
         /\ \A i \in 1 .. Len(sentOrder') : sentOrder'[i] <= d.req
         /\ \A n \in Request :
              \/ n = d.req
              \/ sentDecisions'[n] = sentDecisions[n]
              \/ /\ Len(sentOrder') = maxSent
                 /\ \A i \in 1 .. Len(sentOrder') : sentOrder'[i] > n
         /\ Len(sentOrder) = maxSent => /\ Len(sentOrder') = maxSent
                                        /\ \A i \in 1 .. Len(sentOrder') :
                                             \/ sentOrder'[i] = d.req
                                             \/ \E j \in 1 .. Len(sentOrder) :
                                                  sentOrder'[i] = sentOrder[j]
<1> DEFINE order == Append(sentOrder, d.req)
           L == Len(sentOrder)
<1>1. /\ d.req \in Request /\ d.ans \in Answer /\ d.ans # None /\ Request \subseteq Nat
      /\ d.req \in Nat
  BY Markers DEF Decision
<1>2. sentOrder \in Seq(Request) /\ L \in Nat /\ maxSent \in Nat /\ maxSent >= 1
  BY Markers DEF BookType
<1>3. /\ order \in Seq(Request) /\ Len(order) = L + 1 /\ order[L + 1] = d.req
      /\ \A i \in 1 .. L : order[i] = sentOrder[i]
  BY <1>1, <1>2
<1>4. /\ sentOrder' = IF Len(order) > maxSent THEN Tail(order) ELSE order
      /\ sentDecisions' = [n \in Request |->
           IF Len(order) > maxSent /\ n = Head(order) THEN None
           ELSE IF n = d.req THEN d.ans ELSE sentDecisions[n]]
  BY DEF retainDecision
<1> HIDE DEF order
<1>5. \A i \in 1 .. L : sentOrder[i] \in Request /\ sentOrder[i] \in Nat
  <2>1. \A i \in 1 .. L : sentOrder[i] \in Request
    BY <1>2
  <2>2. QED
    BY <1>1, <2>1
<1>6. ASSUME NEW i \in 1 .. L + 1, NEW j \in 1 .. L + 1, i < j PROVE order[i] < order[j]
  <2>1. i \in 1 .. L /\ (j \in 1 .. L \/ j = L + 1)
    BY <1>2, <1>6
  <2>2. CASE j \in 1 .. L
    BY <1>3, <1>6, <2>1, <2>2 DEF InOrder
  <2>3. CASE j = L + 1
    BY <1>3, <2>1, <2>3
  <2>4. QED
    BY <2>1, <2>2, <2>3
<1>7. \A n \in Request : (sentDecisions[n] # None \/ n = d.req) <=> \E i \in 1 .. L + 1 : order[i] = n
  <2>1. ASSUME NEW n \in Request, sentDecisions[n] # None \/ n = d.req
        PROVE  \E i \in 1 .. L + 1 : order[i] = n
    <3>1. CASE n = d.req
      BY <1>2, <1>3, <3>1
    <3>2. CASE sentDecisions[n] # None
      <4>1. PICK i \in 1 .. L : sentOrder[i] = n
        BY <3>2 DEF InOrder
      <4>2. i \in 1 .. L + 1 /\ order[i] = n
        BY <1>2, <1>3, <4>1
      <4>3. QED
        BY <4>2
    <3>3. QED
      BY <2>1, <3>1, <3>2
  <2>2. ASSUME NEW n \in Request, NEW i \in 1 .. L + 1, order[i] = n
        PROVE  sentDecisions[n] # None \/ n = d.req
    <3>1. i \in 1 .. L \/ i = L + 1
      BY <1>2
    <3>2. QED
      BY <1>3, <2>2, <3>1 DEF InOrder
  <2>3. QED
    BY <2>1, <2>2
<1>8. \A i \in 1 .. L + 1 : order[i] <= d.req /\ order[i] \in Nat
  <2>1. ASSUME NEW i \in 1 .. L + 1 PROVE order[i] <= d.req /\ order[i] \in Nat
    <3>1. i \in 1 .. L \/ i = L + 1
      BY <1>2
    <3>2. CASE i \in 1 .. L
      <4>1. order[i] = sentOrder[i] /\ sentOrder[i] \in Nat /\ sentOrder[i] < d.req
        BY <1>3, <1>5, <3>2
      <4>2. QED
        BY <1>1, <4>1
    <3>3. CASE i = L + 1
      BY <1>1, <1>3, <3>3
    <3>4. QED
      BY <3>1, <3>2, <3>3
  <2>2. QED
    BY <2>1
<1>9. CASE ~ (Len(order) > maxSent)
  <2>1. sentOrder' = order /\ L + 1 <= maxSent
    BY <1>2, <1>3, <1>4, <1>9
  <2>2. \A n \in Request : sentDecisions'[n] = IF n = d.req THEN d.ans ELSE sentDecisions[n]
    BY <1>4, <1>9
  <2>3. InOrder(sentOrder', sentDecisions')
    BY <1>1, <1>3, <1>6, <1>7, <2>1, <2>2 DEF InOrder
  <2>4. L # maxSent
    BY <1>2, <2>1
  <2>5. QED
    BY <1>1, <1>3, <1>8, <2>1, <2>2, <2>3, <2>4
<1>10. CASE Len(order) > maxSent
  <2>1. L = maxSent /\ L >= 1
    BY <1>2, <1>3, <1>10
  <2>2. order # <<>> /\ Head(order) = order[1]
    BY <1>2, <1>3
  <2>3. /\ sentOrder' = Tail(order) /\ Len(sentOrder') = L
        /\ \A i \in 1 .. L : sentOrder'[i] = order[i + 1]
    BY <1>2, <1>3, <1>4, <1>10, <2>2
  <2>4. order[1] # d.req
    BY <1>1, <1>2, <1>3, <1>5, <2>1
  <2>5. \A n \in Request : sentDecisions'[n] = IF n = order[1] THEN None
           ELSE IF n = d.req THEN d.ans ELSE sentDecisions[n]
    BY <1>4, <1>10, <2>2
  <2>6. \A i, j \in 1 .. L : i < j => sentOrder'[i] < sentOrder'[j]
    <3>1. ASSUME NEW i \in 1 .. L, NEW j \in 1 .. L, i < j PROVE order[i + 1] < order[j + 1]
      <4>1. i + 1 \in 1 .. L + 1 /\ j + 1 \in 1 .. L + 1 /\ i + 1 < j + 1
        BY <1>2, <3>1
      <4>2. QED
        BY <1>6, <4>1
    <3>2. QED
      BY <2>3, <3>1
  <2>7. \A i \in 1 .. L : sentOrder'[i] > order[1]
    <3>1. ASSUME NEW i \in 1 .. L PROVE order[1] < order[i + 1]
      <4>1. i + 1 \in 1 .. L + 1 /\ 1 \in 1 .. L + 1 /\ 1 < i + 1
        BY <1>2
      <4>2. QED
        BY <1>6, <4>1
    <3>2. ASSUME NEW i \in 1 .. L PROVE order[1] \in Nat /\ order[i + 1] \in Nat
      <4>1. i + 1 \in 1 .. L + 1 /\ 1 \in 1 .. L + 1
        BY <1>2
      <4>2. QED
        BY <1>8, <4>1
    <3>3. QED
      BY <2>3, <3>1, <3>2
  <2>8. ASSUME NEW n \in Request
        PROVE  sentDecisions'[n] # None <=> \E i \in 1 .. L : sentOrder'[i] = n
    <3>1. CASE n = order[1]
      BY <1>1, <2>5, <2>7, <3>1
    <3>2. CASE n # order[1]
      <4>1. sentDecisions'[n] # None <=> (sentDecisions[n] # None \/ n = d.req)
        BY <1>1, <2>5, <3>2
      <4>2. (\E i \in 1 .. L + 1 : order[i] = n) => \E i \in 1 .. L : sentOrder'[i] = n
        <5>1. ASSUME NEW i \in 1 .. L + 1, order[i] = n PROVE \E j \in 1 .. L : sentOrder'[j] = n
          <6>1. i # 1
            BY <3>2, <5>1
          <6>2. i - 1 \in 1 .. L /\ (i - 1) + 1 = i
            BY <1>2, <6>1
          <6>3. sentOrder'[i - 1] = n
            BY <2>3, <5>1, <6>2
          <6>4. QED
            BY <6>2, <6>3
        <5>2. QED
          BY <5>1
      <4>3. (\E i \in 1 .. L : sentOrder'[i] = n) => \E i \in 1 .. L + 1 : order[i] = n
        <5>1. ASSUME NEW i \in 1 .. L, sentOrder'[i] = n PROVE \E j \in 1 .. L + 1 : order[j] = n
          <6>1. i + 1 \in 1 .. L + 1 /\ order[i + 1] = n
            BY <1>2, <2>3, <5>1
          <6>2. QED
            BY <6>1
        <5>2. QED
          BY <5>1
      <4>4. QED
        BY <1>7, <4>1, <4>2, <4>3
    <3>3. QED
      BY <3>1, <3>2
  <2>9. InOrder(sentOrder', sentDecisions')
    BY <2>3, <2>6, <2>8 DEF InOrder
  <2>10. \A i \in 1 .. L : sentOrder'[i] <= d.req
    <3>1. \A i \in 1 .. L : i + 1 \in 1 .. L + 1
      BY <1>2
    <3>2. QED
      BY <1>8, <2>3, <3>1
  <2>11. \A n \in Request : \/ n = d.req
                            \/ sentDecisions'[n] = sentDecisions[n]
                            \/ \A i \in 1 .. L : sentOrder'[i] > n
    BY <2>5, <2>7
  <2>12. ASSUME NEW i \in 1 .. L
         PROVE  sentOrder'[i] = d.req \/ \E j \in 1 .. L : sentOrder'[i] = sentOrder[j]
    <3>1. i + 1 \in 1 .. L \/ i + 1 = L + 1
      BY <1>2
    <3>2. QED
      BY <1>3, <2>3, <3>1
  <2>13. sentDecisions'[d.req] = d.ans
    BY <1>1, <2>4, <2>5
  <2>14. QED
    BY <1>2, <2>1, <2>3, <2>9, <2>10, <2>11, <2>12, <2>13
<1>11. QED
  BY <1>9, <1>10

LEMMA SendSound ==
  ASSUME IInv, SInv, status = "paired", NEW op \in signing, Send(op), [Next]_vars
  PROVE  SInv'
<1> DEFINE d == [req |-> op.req, ans |-> op.ans]
<1>1. op.req \in Request /\ d \in Decision /\ d.req = op.req /\ d.ans = op.ans
  BY OpFields, TypeParts DEF IInv, TaskType
<1>2. /\ request = d.req /\ signing' = signing \ {op}
      /\ retainDecision(d) /\ seenIDs' = seenIDs \cup {d.req}
      /\ screen' = "pending" /\ UNCHANGED <<request, status, lastShown, ledger>>
      /\ signed' = signed \cup {d}
  BY <1>1 DEF Send, Drop, connVars
<1> HIDE DEF d
<1>3. disk' = Book'
  BY DEF Send, persisted, persistAll, Book
<1>4. Mirror'
  BY <1>2, <1>3 DEF SInv, Mirror, Book
<1>5. /\ disk.request = request /\ disk.sent = sentDecisions /\ disk.order = sentOrder
      /\ disk.seen \subseteq seenIDs
  BY DEF SInv, Mirror
<1>6. /\ disk'.request = request /\ disk'.sent = sentDecisions' /\ disk'.order = sentOrder'
      /\ disk'.seen = seenIDs \cup {d.req}
  BY <1>2, <1>3 DEF Book
<1>7. BookType /\ signed \subseteq Decision /\ signing \subseteq Signing
  BY TypeParts DEF IInv, AgentType, TaskType
<1>8. \A e \in signed : e.req # d.req
  BY <1>1 DEF SInv, SigningOnce
<1>9. request = lastShown /\ d.req \in Nat
  BY <1>1, <1>2, <1>5, Markers DEF SInv, Retained
<1>10. InOrder(sentOrder, sentDecisions) /\ Len(sentOrder) <= maxSent
  BY <1>5 DEF SInv, Retained, InOrder
<1>11. sentDecisions[d.req] = None
  <2>1. sentDecisions[d.req] # None => [req |-> d.req, ans |-> sentDecisions[d.req]] \in signed
    BY <1>1 DEF IInv, Entries, EntryTrue, Book
  <2>2. [req |-> d.req, ans |-> sentDecisions[d.req]].req = d.req
    OBVIOUS
  <2>3. QED
    BY <1>8, <2>1, <2>2
<1>12. ASSUME NEW i \in 1 .. Len(sentOrder) PROVE sentOrder[i] < d.req
  <2>1. sentOrder[i] \in Request /\ sentOrder[i] \in Nat
    BY <1>7, Markers DEF BookType
  <2>2. sentOrder[i] <= d.req
    BY <1>2, <1>5, <1>9 DEF SInv, Retained
  <2>3. sentOrder[i] # d.req
    BY <1>10, <1>11, <2>1 DEF InOrder
  <2>4. QED
    BY <1>9, <2>1, <2>2, <2>3
<1>13. /\ InOrder(sentOrder', sentDecisions') /\ Len(sentOrder') <= maxSent
       /\ sentDecisions'[d.req] = d.ans
       /\ \A i \in 1 .. Len(sentOrder') : sentOrder'[i] <= d.req
       /\ \A n \in Request :
            \/ n = d.req
            \/ sentDecisions'[n] = sentDecisions[n]
            \/ /\ Len(sentOrder') = maxSent
               /\ \A i \in 1 .. Len(sentOrder') : sentOrder'[i] > n
       /\ Len(sentOrder) = maxSent => /\ Len(sentOrder') = maxSent
                                      /\ \A i \in 1 .. Len(sentOrder') :
                                           \/ sentOrder'[i] = d.req
                                           \/ \E j \in 1 .. Len(sentOrder) :
                                                sentOrder'[i] = sentOrder[j]
  BY <1>1, <1>2, <1>7, <1>10, <1>11, <1>12, RetainsInOrder
<1>14. Retained'
  BY <1>2, <1>6, <1>9, <1>13 DEF Retained, InOrder
<1>15. OneAnswer'
  BY <1>2, <1>8 DEF SInv, SignedOnce, OneAnswer
<1>16. ASSUME NEW e \in signed'
       PROVE  /\ e.req \in disk'.seen /\ e.req <= lastShown'
              /\ e.req = disk'.request => disk'.sent[e.req] = e.ans
              /\ e.req = request' => screen' = "pending"
  <2>1. CASE e = d
    <3>1. d.req \in disk'.seen /\ d.req <= lastShown'
      BY <1>2, <1>6, <1>9
    <3>2. disk'.sent[d.req] = d.ans
      BY <1>6, <1>13
    <3>3. QED
      BY <1>2, <2>1, <3>1, <3>2
  <2>2. CASE e \in signed
    BY <1>2, <1>5, <1>6, <1>8, <2>2 DEF SInv, SignedOnce
  <2>3. QED
    BY <1>2, <2>1, <2>2
<1>17. SigningOnce'
  <2>1. ASSUME NEW o \in signing' PROVE o \in signing /\ o.req # d.req
    BY <1>1, <1>2, <2>1 DEF SInv, SigningOnce
  <2>2. QED
    BY <1>2, <2>1 DEF SInv, SigningOnce
<1>18. ASSUME NEW e \in signed'
       PROVE  \/ disk'.sent[e.req] = e.ans
              \/ Len(disk'.order) = maxSent /\ \A m \in Range(disk'.order) : m > e.req
  <2>1. CASE e = d
    BY <1>6, <1>13, <2>1
  <2>2. CASE e \in signed
    <3>1. e.req \in Request /\ e.req \in Nat /\ e.req # d.req
      BY <1>7, <1>8, <2>2, Markers DEF Decision
    <3>2. CASE disk.sent[e.req] = e.ans
      BY <1>5, <1>6, <1>13, <3>1, <3>2 DEF Range
    <3>3. CASE Len(disk.order) = maxSent /\ \A m \in Range(disk.order) : m > e.req
      <4>1. \A j \in 1 .. Len(sentOrder) : sentOrder[j] > e.req
        BY <1>5, <3>3 DEF Range
      <4>2. e.req < d.req
        BY <1>2, <1>9, <2>2, <3>1 DEF SInv, SignedOnce
      <4>3. Len(sentOrder') = maxSent
        BY <1>5, <1>13, <3>3
      <4>4. ASSUME NEW i \in 1 .. Len(sentOrder') PROVE sentOrder'[i] > e.req
        BY <1>5, <1>9, <1>13, <3>1, <3>3, <4>1, <4>2
      <4>5. QED
        BY <1>6, <4>3, <4>4 DEF Range
    <3>4. QED
      BY <2>2, <3>2, <3>3 DEF SInv, AnswerDurable
  <2>3. QED
    BY <1>2, <2>1, <2>2
<1>19. SignedOnce'
  BY <1>15, <1>16 DEF SignedOnce
<1>20. AnswerDurable'
  BY <1>18 DEF AnswerDurable
<1>21. QED
  BY <1>4, <1>14, <1>17, <1>19, <1>20 DEF SInv

(***************************************************************************)
(* When nothing fails: a reload, and the theorems                          *)
(***************************************************************************)

LEMMA ReloadSound ==
  ASSUME IInv, SInv, Reload
  PROVE  SInv'
<1>1. /\ disk' = disk /\ loaded' = disk /\ status' = "restoring" /\ conn' = "closed"
      /\ request' = 0 /\ screen' = "pair" /\ signing' = {} /\ handling' = Idle
      /\ UNCHANGED <<ledger, lastShown, signed>>
  BY DEF Reload, histVars
<1>2. Mirror'
  BY <1>1 DEF Mirror
<1>3. Retained' /\ AnswerDurable'
  BY <1>1 DEF SInv, Retained, AnswerDurable
<1>4. \A d \in signed : d.req # 0
  BY TypeParts, Markers DEF IInv, AgentType, Decision
<1>5. SignedOnce'
  BY <1>1, <1>4 DEF SInv, SignedOnce, OneAnswer
<1>6. SigningOnce'
  BY <1>1 DEF SigningOnce
<1>7. QED
  BY <1>2, <1>3, <1>5, <1>6 DEF SInv

LEMMA WaitsSound ==
  ASSUME SInv, Waits
  PROVE  SInv'
<1> USE DEF Waits, connVars, uiVars, bookVars, taskVars, diskVars, histVars
<1>1. Mirror'
  BY DEF SInv, Mirror
<1>2. Retained' /\ AnswerDurable'
  BY DEF SInv, Retained, AnswerDurable
<1>3. SignedOnce' /\ SigningOnce'
  BY DEF SInv, SignedOnce, OneAnswer, SigningOnce
<1>4. QED
  BY <1>1, <1>2, <1>3 DEF SInv

LEMMA RestoreSound ==
  ASSUME IInv, SInv, Restore
  PROVE  SInv'
<1>1. /\ status = "restoring" /\ loaded = disk /\ signing = {}
      /\ Numbers /\ disk.request \in {0, lastShown}
  BY NumbersHold DEF SInv, Mirror, Retained, Restore
<1>2. /\ status' = "paired" /\ sentDecisions' = disk.sent /\ sentOrder' = disk.order
      /\ disk.seen \subseteq seenIDs'
      /\ disk' = Book' /\ UNCHANGED <<signing, handling, ledger, signed>>
  BY <1>1 DEF Restore, persisted, persistAll, Book, taskVars
<1>3. \/ request' = 0 /\ lastShown' = lastShown
      \/ /\ request' = disk.request /\ disk.request = ledger /\ lastShown' = ledger
         /\ disk.sent[disk.request] # None => screen' = "pending"
  BY <1>1 DEF Restore
<1>4. /\ disk'.request = request' /\ disk'.sent = disk.sent /\ disk'.order = disk.order
      /\ disk'.receipts = receipts' /\ disk'.seen = seenIDs'
  BY <1>2 DEF Book
<1>5. Mirror'
  BY <1>2, <1>4 DEF Mirror
<1>6. lastShown' \in Nat /\ lastShown' >= lastShown /\ request' \in {0, lastShown'}
  BY <1>1, <1>3 DEF Numbers
<1>7. disk.order \in Seq(Request) /\ signed \subseteq Decision
  BY EntryFields, TypeParts DEF IInv, EntryType, AgentType
<1>8. ASSUME NEW i \in 1 .. Len(disk.order) PROVE disk.order[i] <= lastShown'
  <2>1. disk.order[i] \in Request
    BY <1>7
  <2>2. disk.order[i] \in Nat /\ disk.order[i] <= lastShown
    BY <2>1, Markers DEF SInv, Retained
  <2>3. QED
    BY <1>1, <1>6, <2>2 DEF Numbers
<1>9. Retained'
  BY <1>4, <1>6, <1>8 DEF SInv, Retained
<1>10. ASSUME NEW d \in signed
       PROVE  /\ d.req \in disk'.seen /\ d.req <= lastShown'
              /\ d.req = disk'.request => disk'.sent[d.req] = d.ans
              /\ d.req = request' => screen' = "pending"
  <2>1. d.req \in Request /\ d.req \in Nat /\ d.ans # None
    BY <1>7, Markers DEF Decision
  <2>2. /\ d.req \in disk.seen /\ d.req <= lastShown
        /\ d.req = disk.request => disk.sent[d.req] = d.ans
    BY DEF SInv, SignedOnce
  <2>3. d.req = request' => request' = disk.request
    BY <1>3, <2>1, Markers
  <2>4. QED
    BY <1>1, <1>2, <1>3, <1>4, <1>6, <2>1, <2>2, <2>3, Markers DEF Numbers
<1>11. SignedOnce'
  BY <1>2, <1>10 DEF SInv, SignedOnce, OneAnswer
<1>12. SigningOnce'
  BY <1>1, <1>2 DEF SigningOnce
<1>13. AnswerDurable'
  BY <1>2, <1>4 DEF SInv, AnswerDurable
<1>14. QED
  BY <1>5, <1>9, <1>11, <1>12, <1>13 DEF SInv

LEMMA InitSInv == Init => SInv
<1> SUFFICES ASSUME Init PROVE SInv
  OBVIOUS
<1> USE DEF Init, EmptyEntry, NoAnswers
<1>1. Mirror
  BY DEF Mirror
<1>2. Retained
  BY Markers DEF Retained
<1>3. SignedOnce /\ SigningOnce /\ AnswerDurable
  BY DEF SignedOnce, OneAnswer, SigningOnce, AnswerDurable
<1>4. QED
  BY <1>1, <1>2, <1>3 DEF SInv

LEMMA NextSInv == Faults = {} /\ IInv /\ SInv /\ [Next]_vars => SInv'
<1> SUFFICES ASSUME Faults = {}, IInv, SInv, [Next]_vars PROVE SInv'
  OBVIOUS
<1>1. /\ Mirror /\ Retained /\ SignedOnce /\ SigningOnce /\ AnswerDurable
      /\ status \in {"restoring", "paired"}
  BY DEF SInv, Mirror
<1>2. CASE status = "restoring"
  BY <1>1, <1>2, RestoringSteps, ReloadSound, RestoreSound, WaitsSound
<1>3. CASE status = "paired" /\ Keeps
  BY <1>1, <1>3, KeepsEntry, KeepsRetained, KeepsSigning DEF SInv
<1>4. CASE status = "paired" /\ Reload
  BY <1>4, ReloadSound
<1>5. ASSUME status = "paired", NEW op \in signing, Send(op) PROVE SInv'
  BY <1>5, SendSound
<1>6. QED
  BY <1>1, <1>2, <1>3, <1>4, <1>5, PairedSteps

\* The inductive invariant of a phone whose storage works and which has one tab: the saved
\* entry mirrors the session, the retained answers are in order, and a request has at most
\* one answer, suspended or signed.
THEOREM SoundInductive ==
  ASSUME Faults = {}
  PROVE  Spec => [](IInv /\ SInv)
<1>1. Init => IInv /\ SInv
  BY InitIInv, InitSInv
<1>2. (IInv /\ SInv) /\ [Next]_vars => (IInv /\ SInv)'
  BY NextIInv, NextSInv
<1>3. QED
  BY <1>1, <1>2, PTL DEF Spec

\* However the awaits of sendDecision interleave with requests, expiry and reloads, the
\* device signs at most one answer to a request.
THEOREM SignsOneAnswer ==
  ASSUME Faults = {}
  PROVE  Spec => []OneAnswer
<1>1. IInv /\ SInv => OneAnswer
  BY DEF SInv, SignedOnce
<1>2. QED
  BY <1>1, SoundInductive, PTL

\* A request that was answered is not offered for another answer, not after a lost receipt,
\* a reload or a re-announcement either.
THEOREM InvitesOnce ==
  ASSUME Faults = {}
  PROVE  Spec => []NoSecondInvitation
<1>1. IInv /\ SInv => NoSecondInvitation
  BY DEF SInv, SignedOnce, NoSecondInvitation
<1>2. QED
  BY <1>1, SoundInductive, PTL

\* A retained answer stays in the saved roster until maxSent newer ones have displaced it.
THEOREM AnswersAreDurable ==
  ASSUME Faults = {}
  PROVE  Spec => []AnswerDurable
<1>1. IInv /\ SInv => AnswerDurable
  BY DEF SInv
<1>2. QED
  BY <1>1, SoundInductive, PTL

\* A terminal receipt in the saved roster is not changed while its answer is retained.
THEOREM ReceiptsAreFinal ==
  ASSUME Faults = {}
  PROVE  Spec => TerminalReceiptKept
<1> DEFINE Final == \A n \in Request :
                      /\ disk.receipts[n] \in {"accepted", "expired"}
                      /\ disk'.sent[n] # None
                      => disk'.receipts[n] = disk.receipts[n]
<1>1. ASSUME IInv, SInv, [Next]_vars PROVE Final
  <2>1. Mirror /\ SignedOnce /\ status \in {"restoring", "paired"}
    BY <1>1 DEF SInv, Mirror
  <2>2. Reload \/ Waits => disk' = disk
    BY DEF Reload, Waits, diskVars
  <2>3. CASE Restore
    <3>1. disk' = Book' /\ loaded = disk
      BY <2>1, <2>3 DEF Mirror, Restore, persisted, persistAll, Book
    <3>2. /\ disk'.sent = disk.sent
          /\ disk'.receipts = [n \in Request |->
                                 IF disk.sent[n] # None THEN disk.receipts[n] ELSE None]
      BY <2>3, <3>1 DEF Restore, Book
    <3>3. QED
      BY <3>2
  <2>4. CASE status = "paired" /\ Keeps
    <3>1. disk.receipts = receipts /\ disk'.receipts = receipts'
      BY <2>1, <2>4, KeepsEntry DEF Mirror, Keeps, Follows
    <3>2. QED
      BY <2>4, <3>1 DEF Keeps, ReceiptsStay, Terminal
  <2>5. ASSUME status = "paired", NEW op \in signing, Send(op) PROVE Final
    <3> DEFINE d == [req |-> op.req, ans |-> op.ans]
               order == IF sentDecisions[d.req] = None THEN Append(sentOrder, d.req)
                                                       ELSE sentOrder
    <3>1. BookType
      BY <1>1, TypeParts DEF IInv
    <3>2. disk.receipts = receipts /\ disk'.receipts = receipts' /\ disk'.sent = sentDecisions'
      BY <2>1, <2>5 DEF Mirror, Send, persisted, persistAll
    <3>3. retainDecision(d)
      BY <2>5 DEF Send
    <3>4. /\ sentDecisions' = [n \in Request |->
               IF Len(order) > maxSent /\ n = Head(order) THEN None
               ELSE IF n = d.req THEN d.ans ELSE sentDecisions[n]]
          /\ receipts' = IF Len(order) > maxSent THEN [receipts EXCEPT ![Head(order)] = None]
                                                ELSE receipts
      BY <3>3 DEF retainDecision
    <3> HIDE DEF d, order
    <3>5. QED
      BY <3>1, <3>2, <3>4 DEF BookType
  <2>6. QED
    BY <1>1, <2>1, <2>2, <2>3, <2>4, <2>5, RestoringSteps, PairedSteps
<1>2. IInv /\ SInv /\ [Next]_vars => [Final]_disk
  BY <1>1
<1>3. QED
  BY <1>2, SoundInductive, PTL DEF Spec, TerminalReceiptKept

=============================================================================
