----------------------------- MODULE McpProofs -----------------------------
(***************************************************************************)
(* Proofs about the MCP server: type correctness, the inductive invariant  *)
(* IInv, and from it the four properties of McpServer.                     *)
(***************************************************************************)
EXTENDS McpServer, FiniteSetTheorems, TLAPS

(***************************************************************************)
(* The inductive invariant                                                 *)
(***************************************************************************)

\* The approvals that h.pendingRequests counts.
Pending == {c \in Caller : pc[c] # "idle"}

Counted == pendingRequests = Cardinality(Pending)

\* Only calls of the wrapper wait for an attempt, and they wait for a real one.
\* An attempt that ended well has left a session.
Waiters ==
  \A c \in Asker :
    /\ pc[c] \in {"ensure", "pairing", "wait"} => c \in Caller
    /\ pc[c] \in {"pairing", "wait"} =>
         /\ waitsOn[c] \in Attempt
         /\ result[waitsOn[c]] = "ok" => sess # None
         /\ stage[waitsOn[c]] # "none" \/ result[waitsOn[c]] # "open"

\* The calls that hold the single-flight flag, and the reset that does.
Holder(c) == pc[c] \in {"capture", "register", "asking", "release"}
ResetHolds == reset \in {"close", "drop", "absent"}

SingleFlight ==
  /\ \A c \in Asker : Holder(c) => asking /\ ~ResetHolds
  /\ \A c, d \in Asker : Holder(c) /\ Holder(d) => c = d
  /\ ResetHolds => asking

\* A reset runs without approvals and attempts, and takes the reader, then
\* the session, for good.
Resetting ==
  /\ reset # "none" => attempt = None /\ \A c \in Caller : pc[c] = "idle"
  /\ reset = "drop" => readerSess = None
  /\ reset \in {"absent", "reserve"} => sess = None

\* There is a session exactly from the step of the attempt that stores it.
Attempts ==
  /\ OneHandshake
  /\ attempt # None => stage[attempt] # "none"
  /\ \A k \in Attempt :
       /\ stage[k] # "none" => result[k] = "open"
       /\ stage[k] \in {"mint", "handshake", "void", "failed"} => sess = None
       /\ stage[k] \in {"present", "reader"} => sess # None /\ made[k] = sess
       /\ stage[k] = "paired" => sess # None

\* An Ask past its capture has the session the agent holds.
Captured ==
  \A c \in Asker :
    pc[c] \in {"register", "asking"} => using[c] # None /\ using[c] = sess

IInv ==
  /\ TypeOK /\ Counted /\ Waiters /\ SingleFlight /\ Resetting /\ Attempts
  /\ Captured /\ CodeCurrent /\ SessionStable

(***************************************************************************)
(* Counting the approvals                                                  *)
(***************************************************************************)

\* The counter is exact, and zero only without approvals.
LEMMA PendingFacts ==
  ASSUME TypeOK, Counted
  PROVE  /\ IsFiniteSet(Pending)
         /\ pendingRequests = 0 => \A c \in Caller : pc[c] = "idle"
<1>1. IsFiniteSet(Pending)
  BY FS_Subset, McpAssumption DEF Pending
<1>2. pendingRequests = 0 => Pending = {}
  BY <1>1, FS_EmptySet DEF Counted
<1>3. QED
  BY <1>1, <1>2 DEF Pending

\* A call is counted when it begins and uncounted when it leaves; no other
\* step makes it idle or busy.
LEMMA NextCounted == TypeOK /\ Counted /\ [Next]_vars => Counted' /\ pendingRequests' \in Nat
<1> SUFFICES ASSUME TypeOK, Counted, [Next]_vars
             PROVE  Counted' /\ pendingRequests' \in Nat
  OBVIOUS
<1> USE DEF TypeOK, Goto, mcpVars, pairVars, agentVars, callVars
<1>1. ASSUME NEW c \in Asker, requestApproval(c)
      PROVE  Counted' /\ pendingRequests' \in Nat
  <2>1. c \notin Pending /\ Pending' = Pending \cup {c}
    BY <1>1 DEF requestApproval, Pending, Asker
  <2>2. Cardinality(Pending') = Cardinality(Pending) + 1
    BY <2>1, PendingFacts, FS_AddElement
  <2>3. QED
    BY <1>1, <2>2 DEF requestApproval, Counted
<1>2. ASSUME NEW c \in Asker, Leave(c)
      PROVE  Counted' /\ pendingRequests' \in Nat
  <2>1. CASE c \in Caller
    <3>1. c \in Pending /\ Pending' = Pending \ {c}
      BY <1>2, <2>1 DEF Leave, Pending, Asker
    <3>2. /\ IsFiniteSet(Pending')
          /\ Cardinality(Pending') = Cardinality(Pending) - 1
      BY <3>1, PendingFacts, FS_RemoveElement
    <3>3. Cardinality(Pending') \in Nat
      BY <3>2, FS_CardinalityType
    <3>4. QED
      BY <1>2, <2>1, <3>2, <3>3 DEF Leave, Counted
  <2>2. CASE c \notin Caller
    <3>1. Pending' = Pending
      BY <1>2, <2>2 DEF Leave, Pending, Asker
    <3>2. QED
      BY <1>2, <2>2, <3>1 DEF Leave, Counted
  <2>3. QED
    BY <2>1, <2>2
<1>3. ASSUME pendingRequests' = pendingRequests,
             \A c \in Caller : pc'[c] = "idle" <=> pc[c] = "idle"
      PROVE  Counted' /\ pendingRequests' \in Nat
  <2>1. Pending' = Pending
    BY <1>3 DEF Pending
  <2>2. QED
    BY <1>3, <2>1 DEF Counted
<1>4. ASSUME NEW c \in Asker, DirectAsk(c)
      PROVE  Counted' /\ pendingRequests' \in Nat
  BY <1>3, <1>4, McpAssumption DEF DirectAsk
<1>5. ASSUME NEW c \in Asker, Cancel(c) \/ CallStep(c) \/ AskEnds(c), ~Leave(c)
      PROVE  Counted' /\ pendingRequests' \in Nat
  <2>1. CASE ensurePaired(c)
    BY <1>3, <2>1
    DEF ensurePaired, EnsureCancelled, AlreadyPaired, BeginAttempt, JoinAttempt, Asker
  <2>2. CASE AttemptDone(c) \/ WaitCancelled(c) \/ Cancel(c) \/ AskBusy(c)
    BY <1>3, <2>2 DEF AttemptDone, WaitCancelled, Cancel, AskBusy, Asker
  <2>3. CASE AskBegin(c) \/ Capture(c) \/ ensureReader(c)
    BY <1>3, <2>3 DEF AskBegin, Capture, ensureReader, Asker
  <2>4. CASE AskEnds(c) \/ Release(c)
    BY <1>3, <2>4 DEF AskEnds, Release, Asker
  <2>5. QED
    BY <1>5, <2>1, <2>2, <2>3, <2>4 DEF CallStep
<1>6. ASSUME NEW k \in Attempt, PairingStep(k)
      PROVE  Counted' /\ pendingRequests' \in Nat
  BY <1>3, <1>6
  DEF PairingStep, Mint, MintFails, HandshakeFails, VoidCode, StoreSession,
      setPeerPresent, StartReader, runPairingEnds
<1>7. CASE startPairing \/ ResetBegin \/ ResetStep \/ readLoop \/ UNCHANGED vars
  BY <1>3, <1>7
  DEF startPairing, ResetBegin, ResetStep, ResetClose, ResetDrop, ResetAbsent,
      ResetReserve, readLoop, vars
<1>8. QED
  BY <1>1, <1>2, <1>4, <1>5, <1>6, <1>7 DEF Next

(***************************************************************************)
(* The invariant is inductive                                              *)
(***************************************************************************)

\* All of it but the count.
Shape ==
  /\ Waiters /\ SingleFlight /\ Resetting /\ Attempts
  /\ Captured /\ CodeCurrent /\ SessionStable

\* It holds before anything was called.
LEMMA InitIInv == Init => IInv
<1> SUFFICES ASSUME Init PROVE IInv
  OBVIOUS
<1>1. Pending = {}
  BY DEF Init, Pending, Asker
<1>2. Counted
  BY <1>1, FS_EmptySet DEF Init, Counted
<1>3. TypeOK
  BY DEF Init, TypeOK
<1>4. QED
  BY <1>2, <1>3 DEF Init, IInv, Waiters, SingleFlight, Resetting, Attempts,
     Captured, CodeCurrent, SessionStable, Holder, ResetHolds, OneHandshake,
     AskPaired, ReaderOfSession, Asker

\* The reset reserves a well-typed attempt.
LEMMA ResetReserveType == TypeOK /\ ResetReserve => TypeOK'
<1> SUFFICES ASSUME TypeOK, ResetReserve PROVE TypeOK'
  OBVIOUS
<1>1. PICK k \in Attempt : Reserve(k)
  BY DEF ResetReserve
<1>2. /\ attempt' \in Attempt \cup {None}
      /\ stage' \in [Attempt -> {"none", "mint", "handshake", "void", "failed",
                                "present", "reader", "paired"}]
      /\ made' \in [Attempt -> Session \cup {None}]
      /\ result' \in [Attempt -> {"open", "ok", "failed"}]
  BY <1>1 DEF Reserve, TypeOK
<1>3. QED
  BY <1>2 DEF ResetReserve, TypeOK, agentVars, callVars

\* Every step keeps it: one case per action.
LEMMA NextShape == IInv /\ [Next]_vars => TypeOK' /\ Shape'
<1> SUFFICES ASSUME IInv, [Next]_vars PROVE TypeOK' /\ Shape'
  OBVIOUS
<1> USE McpAssumption DEF IInv, TypeOK, Asker, Goto, Stage, muFree, Reserve,
     UnusedAttempt, UnusedSession, mcpVars, pairVars, agentVars, callVars,
     Shape, Waiters, SingleFlight, Resetting, Attempts, Captured, CodeCurrent,
     SessionStable, Holder, ResetHolds, OneHandshake, AskPaired, ReaderOfSession
<1>1. ASSUME NEW c \in Asker, requestApproval(c) PROVE TypeOK' /\ Shape'
  BY <1>1 DEF requestApproval
<1>2. ASSUME NEW c \in Asker, Cancel(c) PROVE TypeOK' /\ Shape'
  BY <1>2 DEF Cancel
<1>3. ASSUME NEW c \in Asker, EnsureCancelled(c) PROVE TypeOK' /\ Shape'
  BY <1>3 DEF EnsureCancelled
<1>4. ASSUME NEW c \in Asker, AlreadyPaired(c) PROVE TypeOK' /\ Shape'
  BY <1>4 DEF AlreadyPaired
<1>5. ASSUME NEW c \in Asker, BeginAttempt(c) PROVE TypeOK' /\ Shape'
  BY <1>5 DEF BeginAttempt
<1>6. ASSUME NEW c \in Asker, JoinAttempt(c) PROVE TypeOK' /\ Shape'
  BY <1>6 DEF JoinAttempt
<1>7. ASSUME NEW c \in Asker, AttemptDone(c) PROVE TypeOK' /\ Shape'
  BY <1>7 DEF AttemptDone
<1>8. ASSUME NEW c \in Asker, WaitCancelled(c) PROVE TypeOK' /\ Shape'
  BY <1>8 DEF WaitCancelled
<1>9. ASSUME NEW c \in Asker, DirectAsk(c) PROVE TypeOK' /\ Shape'
  BY <1>9 DEF DirectAsk
<1>10. ASSUME NEW c \in Asker, AskBusy(c) PROVE TypeOK' /\ Shape'
  BY <1>10 DEF AskBusy
<1>11. ASSUME NEW c \in Asker, AskBegin(c) PROVE TypeOK' /\ Shape'
  BY <1>11 DEF AskBegin
<1>12. ASSUME NEW c \in Asker, Capture(c) PROVE TypeOK' /\ Shape'
  BY <1>12 DEF Capture
<1>13. ASSUME NEW c \in Asker, ensureReader(c) PROVE TypeOK' /\ Shape'
  BY <1>13 DEF ensureReader
<1>14. ASSUME NEW c \in Asker, AskEnds(c) PROVE TypeOK' /\ Shape'
  BY <1>14 DEF AskEnds
<1>15. ASSUME NEW c \in Asker, Release(c) PROVE TypeOK' /\ Shape'
  <2>1. TypeOK'
    BY <1>15 DEF Release
  <2>2. Waiters' /\ SingleFlight'
    BY <1>15 DEF Release
  <2>3. Resetting' /\ Captured'
    BY <1>15 DEF Release
  <2>4. Attempts'
    BY <1>15 DEF Release
  <2>5. CodeCurrent' /\ SessionStable'
    BY <1>15 DEF Release
  <2>6. QED
    BY <2>1, <2>2, <2>3, <2>4, <2>5
<1>16. ASSUME NEW c \in Asker, Leave(c) PROVE TypeOK' /\ Shape'
  BY <1>16, NextCounted DEF Leave
<1>17. ASSUME NEW k \in Attempt, Mint(k) PROVE TypeOK' /\ Shape'
  BY <1>17 DEF Mint
<1>18. ASSUME NEW k \in Attempt, MintFails(k) PROVE TypeOK' /\ Shape'
  BY <1>18 DEF MintFails
<1>19. ASSUME NEW k \in Attempt, HandshakeFails(k) PROVE TypeOK' /\ Shape'
  BY <1>19 DEF HandshakeFails
<1>20. ASSUME NEW k \in Attempt, VoidCode(k) PROVE TypeOK' /\ Shape'
  <2>1. TypeOK'
    BY <1>20 DEF VoidCode
  <2>2. Waiters' /\ SingleFlight'
    BY <1>20 DEF VoidCode
  <2>3. Resetting' /\ Captured'
    BY <1>20 DEF VoidCode
  <2>4. Attempts'
    BY <1>20 DEF VoidCode
  <2>5. CodeCurrent' /\ SessionStable'
    BY <1>20 DEF VoidCode
  <2>6. QED
    BY <2>1, <2>2, <2>3, <2>4, <2>5
<1>21. ASSUME NEW k \in Attempt, StoreSession(k) PROVE TypeOK' /\ Shape'
  BY <1>21 DEF StoreSession
<1>22. ASSUME NEW k \in Attempt, setPeerPresent(k) PROVE TypeOK' /\ Shape'
  BY <1>22 DEF setPeerPresent
<1>23. ASSUME NEW k \in Attempt, StartReader(k) PROVE TypeOK' /\ Shape'
  BY <1>23 DEF StartReader
<1>24. ASSUME NEW k \in Attempt, runPairingEnds(k) PROVE TypeOK' /\ Shape'
  <2>1. TypeOK'
    BY <1>24 DEF runPairingEnds
  <2>2. Waiters' /\ SingleFlight'
    BY <1>24 DEF runPairingEnds
  <2>3. Resetting' /\ Captured'
    BY <1>24 DEF runPairingEnds
  <2>4. Attempts'
    BY <1>24 DEF runPairingEnds
  <2>5. CodeCurrent' /\ SessionStable'
    BY <1>24 DEF runPairingEnds
  <2>6. QED
    BY <2>1, <2>2, <2>3, <2>4, <2>5
<1>25. CASE startPairing
  BY <1>25 DEF startPairing
<1>26. CASE ResetBegin
  BY <1>26, PendingFacts DEF ResetBegin
<1>27. CASE ResetClose
  BY <1>27 DEF ResetClose
<1>28. CASE ResetDrop
  BY <1>28 DEF ResetDrop
<1>29. CASE ResetAbsent
  BY <1>29 DEF ResetAbsent
<1>30. CASE ResetReserve
  <2>1. TypeOK'
    BY ResetReserveType, <1>30
  <2>2. Waiters' /\ SingleFlight'
    BY <1>30 DEF ResetReserve
  <2>3. Resetting' /\ Captured'
    BY <1>30 DEF ResetReserve
  <2>4. Attempts'
    BY <1>30 DEF ResetReserve
  <2>5. CodeCurrent' /\ SessionStable'
    BY <1>30 DEF ResetReserve
  <2>6. QED
    BY <2>1, <2>2, <2>3, <2>4, <2>5
<1>31. CASE readLoop
  BY <1>31 DEF readLoop
<1>32. CASE UNCHANGED vars
  BY <1>32 DEF vars
<1>33. QED
  BY <1>1, <1>2, <1>3, <1>4, <1>5, <1>6, <1>7, <1>8, <1>9, <1>10, <1>11,
     <1>12, <1>13, <1>14, <1>15, <1>16, <1>17, <1>18, <1>19, <1>20, <1>21,
     <1>22, <1>23, <1>24, <1>25, <1>26, <1>27, <1>28, <1>29, <1>30, <1>31,
     <1>32
  DEF Next, CallStep, ensurePaired, PairingStep, ResetStep

(***************************************************************************)
(* Theorems                                                                *)
(***************************************************************************)

\* The invariant holds of every state the server reaches.
THEOREM Inductive == Spec => []IInv
<1>1. IInv /\ [Next]_vars => IInv'
  BY NextCounted, NextShape DEF IInv, Shape
<1>2. QED
  BY InitIInv, <1>1, PTL DEF Spec

\* The types of the MCP server's state, of the sessions and calls, hold always: the
\* counter of approvals never goes below zero, whoever leaves first (mcp.go:330-334).
THEOREM TypeCorrect == Spec => []TypeOK
<1>1. IInv => TypeOK
  BY DEF IInv
<1>2. QED
  BY Inductive, <1>1, PTL

\* For any number of calls, attempts and sessions, one handshake runs at a
\* time and everybody who waits for it hears of its end.
THEOREM Shared == Spec => []AttemptShared
<1>1. IInv => AttemptShared
  BY DEF IInv, Attempts, Waiters, AttemptShared, WaiterServed
<1>2. QED
  BY Inductive, <1>1, PTL

\* A code is reported only while the attempt that minted it runs.
THEOREM CodeIsCurrent == Spec => []CodeCurrent
<1>1. IInv => CodeCurrent
  BY DEF IInv
<1>2. QED
  BY Inductive, <1>1, PTL

\* No Ask, of the wrapper or beside it, finds its session replaced or its
\* reader gone.
THEOREM SessionIsStable == Spec => []SessionStable
<1>1. IInv => SessionStable
  BY DEF IInv
<1>2. QED
  BY Inductive, <1>1, PTL

\* While an approval is pending the session is not discarded: the reset finds
\* the counter above zero, and no attempt runs beside a session.
THEOREM PendingKeepsSession == Spec => ApprovalsKeepSession
<1> DEFINE Kept == (\E c \in Caller : pc[c] # "idle") /\ sess # None => sess' = sess
<1>1. IInv /\ [Next]_vars => Kept
  <2> SUFFICES ASSUME IInv, [Next]_vars, NEW c \in Caller, pc[c] # "idle", sess # None
               PROVE  sess' = sess
    OBVIOUS
  <2> USE DEF mcpVars, pairVars, agentVars, callVars, Reserve
  <2>1. ASSUME NEW k \in Attempt, PairingStep(k) PROVE sess' = sess
    BY <2>1 DEF PairingStep, Mint, MintFails, HandshakeFails, VoidCode,
       StoreSession, setPeerPresent, StartReader, runPairingEnds, IInv, Attempts
  <2>2. CASE ResetStep
    BY <2>2 DEF ResetStep, ResetClose, ResetDrop, ResetAbsent, ResetReserve,
       IInv, Resetting
  <2>3. ASSUME NEW d \in Asker,
               \/ requestApproval(d) \/ DirectAsk(d) \/ Cancel(d)
               \/ CallStep(d) \/ AskEnds(d)
        PROVE  sess' = sess
    BY <2>3
    DEF requestApproval, DirectAsk, Cancel, AskEnds, CallStep, ensurePaired,
        EnsureCancelled, AlreadyPaired, BeginAttempt, JoinAttempt, AttemptDone,
        WaitCancelled, AskBusy, AskBegin, Capture, ensureReader, Release, Leave
  <2>4. CASE startPairing \/ ResetBegin \/ readLoop \/ UNCHANGED vars
    BY <2>4 DEF startPairing, ResetBegin, readLoop, vars
  <2>5. QED
    BY <2>1, <2>2, <2>3, <2>4 DEF Next
<1>2. QED
  BY Inductive, <1>1, PTL DEF Spec, ApprovalsKeepSession

=============================================================================
