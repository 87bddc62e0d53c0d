---------------------------- MODULE AgentProofs ----------------------------
(***************************************************************************)
(* Proofs about the agent: type correctness, the inductive invariant IInv, *)
(* the safety properties that follow from it, and that the agent keeps the *)
(* promise of Approval.                                                    *)
(***************************************************************************)
EXTENDS Agent, TLAPS

(***************************************************************************)
(* Channels                                                                *)
(***************************************************************************)

\* A non-blocking send keeps the channel well typed and adds nothing but x.
LEMMA TrySendProps ==
  ASSUME NEW S, NEW ch \in Seq(S), NEW x \in S, NEW cap \in Nat
  PROVE  /\ TrySend(ch, x, cap) \in Seq(S)
         /\ \A i \in 1 .. Len(TrySend(ch, x, cap)) :
              \/ TrySend(ch, x, cap)[i] = x
              \/ /\ i \in 1 .. Len(ch)
                 /\ TrySend(ch, x, cap)[i] = ch[i]
  BY DEF TrySend

\* A receive keeps the channel well typed and its elements are old ones.
LEMMA TailProps ==
  ASSUME NEW S, NEW ch \in Seq(S), ch # <<>>
  PROVE  /\ Tail(ch) \in Seq(S)
         /\ Head(ch) \in S
         /\ Head(ch) = ch[1]
         /\ 1 \in 1 .. Len(ch)
         /\ Len(Tail(ch)) = Len(ch) - 1
         /\ \A i \in 1 .. Len(Tail(ch)) :
              i + 1 \in 1 .. Len(ch) /\ Tail(ch)[i] = ch[i + 1]
  OBVIOUS

\* The receipt issued for a decision is a receipt.
LEMMA AckForType ==
  ASSUME NEW d \in Decision, NEW st \in {"accepted", "expired", "unknown"}
  PROVE  /\ AckFor(d, st) \in Ack
         /\ AckFor(d, st).req = d.req
         /\ AckFor(d, st).ans = d.ans
         /\ AckFor(d, st).status = st
  BY DEF AckFor, Ack, Decision

(***************************************************************************)
(* Type correctness                                                        *)
(***************************************************************************)

\* A step that leaves a group of variables alone leaves its type alone.
LEMMA SameType ==
  /\ AskType /\ UNCHANGED askVars => AskType'
  /\ CommitType /\ UNCHANGED commitVars => CommitType'
  /\ ConnType /\ UNCHANGED connVars => ConnType'
  /\ WireType /\ UNCHANGED wireVars => WireType'
  /\ HistType /\ UNCHANGED histVars => HistType'
  BY DEF AskType, CommitType, ConnType, WireType, HistType,
         askVars, commitVars, connVars, wireVars, histVars

LEMMA InitType == Init => TypeOK
<1> SUFFICES ASSUME Init PROVE TypeOK
  OBVIOUS
<1> USE BoundsAssumption DEF Init
<1>1. AskType
  <2>1. seq \in 0 .. MaxSafeInteger /\ waiter \in {0} \cup Request
    OBVIOUS
  <2>2. evCh \in Seq(Event)
    OBVIOUS
  <2>3. QED
    BY <2>1, <2>2 DEF AskType
<1>2. CommitType
  BY DEF CommitType
<1>3. ConnType /\ WireType /\ HistType
  BY DEF ConnType, WireType, HistType
<1>4. QED
  BY <1>1, <1>2, <1>3 DEF TypeOK

LEMMA NextType == TypeOK /\ MailboxInv /\ AskInv /\ [Next]_vars => TypeOK'
<1> SUFFICES ASSUME TypeOK, MailboxInv, AskInv, [Next]_vars PROVE TypeOK'
  OBVIOUS
<1> USE AnswerAssumption, BoundsAssumption DEF TypeOK
<1>1. CASE AskBegin
  <2>1. AskType'
    <3>1. seq' \in 0 .. MaxSafeInteger
      BY <1>1 DEF AskBegin, AskType
    <3>2. QED
      BY <1>1, <3>1 DEF AskBegin, AskType
  <2>2. HistType'
    BY <1>1 DEF AskBegin, HistType, Request, AskType
  <2>3. QED
    BY <1>1, <2>1, <2>2, SameType DEF AskBegin, askVars, commitVars, connVars, wireVars, histVars
<1>2. CASE ContextDone
  <2>1. AskType'
    BY <1>2 DEF ContextDone, AskType
  <2>2. QED
    BY <1>2, <2>1, SameType DEF ContextDone, askVars, commitVars, connVars, wireVars, histVars
<1>3. CASE RegisterWaiter
  <2>1. AskType'
    BY <1>3 DEF RegisterWaiter, AskType, AskInv
  <2>2. QED
    BY <1>3, <2>1, SameType DEF RegisterWaiter, askVars, commitVars, connVars, wireVars, histVars
<1>4. CASE sendRequest
  <2>1. AskType'
    BY <1>4 DEF sendRequest, AskType, AskInv
  <2>2. WireType'
    BY <1>4 DEF sendRequest, WireType, AskInv, AskType
  <2>3. HistType'
    BY <1>4 DEF sendRequest, HistType, AskInv
  <2>4. QED
    BY <1>4, <2>1, <2>2, <2>3, SameType DEF sendRequest, askVars, commitVars, connVars, wireVars, histVars
<1>5. CASE EnterSelect
  <2>1. AskType'
    BY <1>5 DEF EnterSelect, AskType
  <2>2. QED
    BY <1>5, <2>1, SameType DEF EnterSelect, askVars, commitVars, connVars, wireVars, histVars
<1>6. CASE GiveUp
  <2>1. AskType'
    BY <1>6 DEF GiveUp, AskType
  <2>2. HistType'
    BY <1>6 DEF GiveUp, HistType
  <2>3. QED
    BY <1>6, <2>1, <2>2, SameType DEF GiveUp, askVars, commitVars, connVars, wireVars, histVars
<1>7. CASE TakeDecision
  <2>1. AskType'
    BY <1>7 DEF TakeDecision, AskType
  <2>2. QED
    BY <1>7, <2>1, SameType DEF TakeDecision, askVars, commitVars, connVars, wireVars, histVars
<1>8. CASE TakeEvent
  <2>1. AskType'
    BY <1>8 DEF TakeEvent, AskType
  <2>2. QED
    BY <1>8, <2>1, SameType DEF TakeEvent, askVars, commitVars, connVars, wireVars, histVars
<1>9. CASE BackoffElapsed
  <2>1. AskType'
    BY <1>9 DEF BackoffElapsed, AskType
  <2>2. QED
    BY <1>9, <2>1, SameType DEF BackoffElapsed, askVars, commitVars, connVars, wireVars, histVars
<1>10. CASE commitDecision
  <2>1. dec[1] \in Decision
    BY <1>10 DEF commitDecision, AskType, MailboxInv
  <2>2. dec[1].req \in Request /\ dec[1].ans \in Answer
    BY <2>1 DEF Decision
  <2>3. HistType'
    BY <1>10, <2>2 DEF commitDecision, HistType
  <2>4. receipts' \in [Request -> {Open} \cup Answer]
    BY <1>10, <2>2 DEF commitDecision, CommitType
  <2>5. receiptOrder' \in Seq(Request)
    <3> SUFFICES ASSUME askPc' = "accepted"
                 PROVE  receiptOrder' \in Seq(Request)
      BY <1>10 DEF commitDecision, CommitType
    <3>1. CASE Len(receiptOrder) < maxReceipts
      <4>1. Append(receiptOrder, dec[1].req) \in Seq(Request)
        BY <2>2 DEF CommitType
      <4>2. QED
        BY <4>1, <3>1, <1>10 DEF commitDecision, CommitType
    <3>2. CASE ~ Len(receiptOrder) < maxReceipts
      <4>1. receiptOrder # <<>>
        BY <3>2 DEF CommitType
      <4>2. Tail(receiptOrder) \in Seq(Request)
        BY <4>1, TailProps DEF CommitType
      <4>3. Append(Tail(receiptOrder), dec[1].req) \in Seq(Request)
        BY <4>2, <2>2
      <4>4. QED
        BY <4>3, <3>2, <1>10 DEF commitDecision, CommitType
    <3>3. QED
      BY <3>1, <3>2
  <2>6. CommitType'
    BY <1>10, <2>4, <2>5 DEF commitDecision, CommitType
  <2>7. AskType'
    BY <1>10 DEF commitDecision, AskType
  <2>8. QED
    BY <1>10, <2>3, <2>6, <2>7, SameType DEF commitDecision, TypeOK
<1>11. CASE QueueReceipt
  <2>1. dec[1] \in Decision
    BY <1>11 DEF QueueReceipt, AskType, MailboxInv
  <2>2. CommitType'
    BY <1>11, <2>1, AckForType, TrySendProps DEF QueueReceipt, queueAck, CommitType
  <2>3. AskType'
    BY <1>11 DEF QueueReceipt, AskType
  <2>4. QED
    BY <1>11, <2>2, <2>3, SameType DEF QueueReceipt, TypeOK
<1>12. CASE ClearWaiter
  <2>1. AskType'
    BY <1>12 DEF ClearWaiter, AskType
  <2>2. HistType'
    BY <1>12 DEF ClearWaiter, HistType
  <2>3. QED
    BY <1>12, <2>1, <2>2, SameType DEF ClearWaiter, askVars, commitVars, connVars, wireVars, histVars
<1>13. CASE ReleaseAsking
  <2>1. AskType'
    BY <1>13 DEF ReleaseAsking, AskType
  <2>2. QED
    BY <1>13, <2>1, SameType DEF ReleaseAsking, askVars, commitVars, connVars, wireVars, histVars
<1>14. CASE HandleAbsent
  <2>1. AskType'
    BY <1>14, TrySendProps DEF HandleAbsent, AskType, notifyWaiter, Event
  <2>2. ConnType'
    BY <1>14 DEF HandleAbsent, ConnType
  <2>3. HistType'
    BY <1>14 DEF HandleAbsent, HistType
  <2>4. QED
    BY <1>14, <2>1, <2>2, <2>3, SameType DEF HandleAbsent, askVars, commitVars, connVars, wireVars, histVars
<1>15. CASE HandlePresent
  <2>1. ConnType'
    BY <1>15 DEF HandlePresent, ConnType
  <2>2. HistType'
    BY <1>15 DEF HandlePresent, HistType
  <2>3. QED
    BY <1>15, <2>1, <2>2, SameType DEF HandlePresent, askVars, commitVars, connVars, wireVars, histVars
<1>16. ASSUME NEW d \in Decision, HandleDecision(d) PROVE TypeOK'
  <2>1. CommitType'
    BY <1>16, AckForType, TrySendProps
    DEF HandleDecision, routeBoundDecision, queueAck, CommitType
  <2>2. decCh' \in {decCh, TrySend(decCh, d, 1)}
    BY <1>16 DEF HandleDecision, routeBoundDecision
  <2>3. TrySend(decCh, d, 1) \in {decCh, <<d>>}
    <3>1. CASE decCh = <<>>
      BY <3>1 DEF TrySend
    <3>2. CASE decCh # <<>>
      BY <3>2 DEF TrySend, AskType
    <3>3. QED
      BY <3>1, <3>2
  <2>4. decCh' \in {<<>>} \cup {<<e>> : e \in Decision}
    BY <2>2, <2>3 DEF AskType
  <2>5. AskType'
    BY <1>16, <2>4 DEF HandleDecision, AskType
  <2>6. ConnType' /\ HistType'
    BY <1>16 DEF HandleDecision, ConnType, HistType
  <2>7. QED
    BY <1>16, <2>1, <2>5, <2>6, SameType DEF HandleDecision, TypeOK
<1>17. CASE ReadError
  <2>1. ConnType'
    BY <1>17 DEF ReadError, ConnType
  <2>2. QED
    BY <1>17, <2>1, SameType DEF ReadError, askVars, commitVars, connVars, wireVars, histVars
<1>18. CASE RedialOk
  <2>1. ConnType'
    BY <1>18 DEF RedialOk, ConnType
  <2>2. HistType'
    BY <1>18 DEF RedialOk, HistType
  <2>3. QED
    BY <1>18, <2>1, <2>2, SameType DEF RedialOk, askVars, commitVars, connVars, wireVars, histVars
<1>19. CASE RedialFail
  <2>1. ConnType'
    BY <1>19 DEF RedialFail, ConnType
  <2>2. QED
    BY <1>19, <2>1, SameType DEF RedialFail, askVars, commitVars, connVars, wireVars, histVars
<1>20. CASE NotifyReconnected
  <2>1. AskType'
    BY <1>20, TrySendProps DEF NotifyReconnected, AskType, notifyWaiter, Event
  <2>2. ConnType'
    BY <1>20 DEF NotifyReconnected, ConnType
  <2>3. QED
    BY <1>20, <2>1, <2>2, SameType DEF NotifyReconnected, askVars, commitVars, connVars, wireVars, histVars
<1>21. CASE ReaderBackoff
  <2>1. ConnType'
    BY <1>21 DEF ReaderBackoff, ConnType
  <2>2. QED
    BY <1>21, <2>1, SameType DEF ReaderBackoff, askVars, commitVars, connVars, wireVars, histVars
<1>22. CASE ackLoop
  <2>1. CommitType'
    BY <1>22, TailProps DEF ackLoop, CommitType
  <2>2. WireType'
    BY <1>22, TailProps DEF ackLoop, WireType, CommitType
  <2>3. QED
    BY <1>22, <2>1, <2>2, SameType DEF ackLoop, askVars, commitVars, connVars, wireVars, histVars
<1>23. CASE ConnDies
  <2>1. ConnType'
    BY <1>23 DEF ConnDies, ConnType
  <2>2. QED
    BY <1>23, <2>1, SameType DEF ConnDies, askVars, commitVars, connVars, wireVars, histVars
<1>24. ASSUME NEW d \in Decision, DeviceSigns(d) PROVE TypeOK'
  <2>1. WireType'
    BY <1>24 DEF DeviceSigns, WireType
  <2>2. QED
    BY <1>24, <2>1, SameType DEF DeviceSigns, askVars, commitVars, connVars, wireVars, histVars
<1>25. CASE UNCHANGED vars
  BY <1>25, SameType DEF vars
<1>26. QED
  BY <1>1, <1>2, <1>3, <1>4, <1>5, <1>6, <1>7, <1>8, <1>9, <1>10, <1>11,
     <1>12, <1>13, <1>14, <1>15, <1>16, <1>17, <1>18, <1>19, <1>20, <1>21,
     <1>22, <1>23, <1>24, <1>25
  DEF Next, AgentStep, AskStep, ReaderStep

(***************************************************************************)
(* AskInv                                                                  *)
(***************************************************************************)

\* The steps of the other goroutines and of the environment.
OtherStep ==
  \/ HandleAbsent \/ HandlePresent \/ (\E d \in Decision : HandleDecision(d))
  \/ ReaderStep \/ ackLoop \/ ConnDies \/ (\E d \in Decision : DeviceSigns(d))
  \/ UNCHANGED vars

\* None of them moves Ask, settles a request or touches a stored receipt.
LEMMA OtherFrame ==
  OtherStep => UNCHANGED <<seq, askPc, expired, waiter, dec, outcome, receipts, receiptOrder>>
<1> SUFFICES ASSUME OtherStep
             PROVE UNCHANGED <<seq, askPc, expired, waiter, dec, outcome, receipts, receiptOrder>>
  OBVIOUS
<1> USE DEF askVars, commitVars, connVars, wireVars, histVars
<1>1. CASE HandleAbsent \/ HandlePresent \/ \E d \in Decision : HandleDecision(d)
  BY <1>1 DEF HandleAbsent, HandlePresent, HandleDecision
<1>2. CASE ReaderStep
  BY <1>2 DEF ReaderStep, ReadError, RedialOk, RedialFail, NotifyReconnected, ReaderBackoff
<1>3. CASE ackLoop \/ ConnDies \/ \E d \in Decision : DeviceSigns(d)
  BY <1>3 DEF ackLoop, ConnDies, DeviceSigns
<1>4. CASE UNCHANGED vars
  BY <1>4 DEF vars
<1>5. QED
  BY <1>1, <1>2, <1>3, <1>4 DEF OtherStep

\* They never take back a signed decision either.
LEMMA DecisionsGrow == [Next]_vars => decisions \subseteq decisions'
<1> SUFFICES ASSUME [Next]_vars PROVE decisions \subseteq decisions'
  OBVIOUS
<1> USE DEF askVars, commitVars, connVars, wireVars, histVars
<1>1. CASE AskBegin \/ ContextDone \/ AskStep
  BY <1>1 DEF AskBegin, ContextDone, AskStep, RegisterWaiter, sendRequest,
     EnterSelect, GiveUp, TakeDecision, TakeEvent, BackoffElapsed,
     commitDecision, QueueReceipt, ClearWaiter, ReleaseAsking
<1>2. CASE HandleAbsent \/ HandlePresent \/ \E d \in Decision : HandleDecision(d)
  BY <1>2 DEF HandleAbsent, HandlePresent, HandleDecision
<1>3. CASE ReaderStep
  BY <1>3 DEF ReaderStep, ReadError, RedialOk, RedialFail, NotifyReconnected, ReaderBackoff
<1>4. CASE ackLoop \/ ConnDies \/ \E d \in Decision : DeviceSigns(d)
  BY <1>4 DEF ackLoop, ConnDies, DeviceSigns
<1>5. CASE UNCHANGED vars
  BY <1>5 DEF vars
<1>6. QED
  BY <1>1, <1>2, <1>3, <1>4, <1>5 DEF Next, AgentStep

LEMMA NextAskInv == IInv /\ [Next]_vars => AskInv'
<1> SUFFICES ASSUME IInv, [Next]_vars PROVE AskInv'
  OBVIOUS
<1> USE AnswerAssumption, BoundsAssumption
    DEF IInv, TypeOK, AskType, HistType, Request, Unasked, Open, Timeout
<1>1. CASE AskBegin
  BY <1>1 DEF AskBegin, AskInv
<1>2. CASE ContextDone
  BY <1>2 DEF ContextDone, AskInv, histVars
<1>3. CASE RegisterWaiter
  BY <1>3 DEF RegisterWaiter, AskInv, histVars
<1>4. CASE sendRequest
  BY <1>4 DEF sendRequest, AskInv
<1>5. CASE EnterSelect
  BY <1>5 DEF EnterSelect, AskInv, histVars
<1>6. CASE GiveUp
  BY <1>6 DEF GiveUp, AskInv
<1>7. CASE TakeDecision
  BY <1>7 DEF TakeDecision, AskInv, histVars
<1>8. CASE TakeEvent
  BY <1>8 DEF TakeEvent, AskInv, histVars
<1>9. CASE BackoffElapsed
  BY <1>9 DEF BackoffElapsed, AskInv, histVars
<1>10. CASE commitDecision
  <2>1. dec[1].ans \in Answer
    BY <1>10 DEF commitDecision, MailboxInv, Decision
  <2>2. QED
    BY <1>10, <2>1 DEF commitDecision, AskInv
<1>11. CASE QueueReceipt
  <2>1. dec[1].ans \in Answer
    BY <1>11 DEF QueueReceipt, MailboxInv, Decision
  <2>2. QED
    BY <1>11, <2>1 DEF QueueReceipt, AskInv, histVars
<1>12. CASE ClearWaiter
  BY <1>12 DEF ClearWaiter, AskInv
<1>13. CASE ReleaseAsking
  BY <1>13 DEF ReleaseAsking, AskInv, histVars
<1>14. CASE OtherStep
  BY <1>14, OtherFrame DEF AskInv
<1>15. QED
  BY <1>1, <1>2, <1>3, <1>4, <1>5, <1>6, <1>7, <1>8, <1>9, <1>10, <1>11,
     <1>12, <1>13, <1>14
  DEF Next, AgentStep, AskStep, OtherStep

(***************************************************************************)
(* MailboxInv                                                              *)
(***************************************************************************)

LEMMA NextMailboxInv == IInv /\ [Next]_vars => MailboxInv'
<1> SUFFICES ASSUME IInv, [Next]_vars PROVE MailboxInv'
  OBVIOUS
<1> USE DEF IInv, TypeOK, AskType
<1>0. decisions \subseteq decisions'
  BY DecisionsGrow
<1>1. CASE AskBegin
  BY <1>0, <1>1 DEF AskBegin, MailboxInv, AskInv
<1>2. CASE RegisterWaiter \/ ClearWaiter
  <2>1. decCh' = <<>> /\ dec' = <<>> /\ askPc' \in {"announce", "release"}
    BY <1>2 DEF RegisterWaiter, ClearWaiter
  <2>2. \A d \in Decision : decCh' # <<d>> /\ dec' # <<d>>
    BY <2>1
  <2>3. QED
    BY <2>1, <2>2 DEF MailboxInv
<1>3. CASE TakeDecision
  BY <1>0, <1>3 DEF TakeDecision, MailboxInv, AskInv
<1>4. CASE ContextDone \/ sendRequest \/ EnterSelect \/ GiveUp \/ TakeEvent
           \/ BackoffElapsed \/ commitDecision \/ QueueReceipt \/ ReleaseAsking
  BY <1>0, <1>4 DEF ContextDone, sendRequest, EnterSelect, GiveUp, TakeEvent,
     BackoffElapsed, commitDecision, QueueReceipt, ReleaseAsking, MailboxInv
<1>5. ASSUME NEW d \in Decision, HandleDecision(d) PROVE MailboxInv'
  <2>1. UNCHANGED <<seq, askPc, waiter, dec>>
    BY <1>5 DEF HandleDecision
  <2>2. \/ decCh' = decCh
        \/ decCh' = <<d>> /\ waiter = d.req /\ d.ans \in Fitting /\ d \in decisions
    <3>1. CASE decCh = <<>>
      BY <1>5, <3>1 DEF HandleDecision, routeBoundDecision, TrySend
    <3>2. CASE decCh # <<>>
      <4>1. TrySend(decCh, d, 1) = decCh
        BY <3>2 DEF TrySend
      <4>2. QED
        BY <1>5, <4>1 DEF HandleDecision, routeBoundDecision
    <3>3. QED
      BY <3>1, <3>2
  <2>3. CASE decCh' = decCh
    BY <1>0, <2>1, <2>3 DEF MailboxInv
  <2>4. CASE decCh' = <<d>> /\ waiter = d.req /\ d.ans \in Fitting /\ d \in decisions
    <3>1. d.req # 0 /\ waiter = seq
      BY <2>4 DEF Decision, Request, AskInv
    <3>2. QED
      BY <1>0, <2>1, <2>4, <3>1 DEF MailboxInv
  <2>5. QED
    BY <2>2, <2>3, <2>4
<1>6. CASE HandleAbsent \/ HandlePresent \/ ReaderStep \/ ackLoop \/ ConnDies
           \/ (\E d \in Decision : DeviceSigns(d)) \/ UNCHANGED vars
  <2>1. UNCHANGED <<seq, askPc, waiter, dec>>
    BY <1>6, OtherFrame DEF OtherStep
  <2>2. UNCHANGED decCh
    BY <1>6 DEF HandleAbsent, HandlePresent, ReaderStep, ReadError, RedialOk,
       RedialFail, NotifyReconnected, ReaderBackoff, ackLoop, ConnDies,
       DeviceSigns, vars, askVars
  <2>3. QED
    BY <1>0, <2>1, <2>2 DEF MailboxInv
<1>7. QED
  BY <1>1, <1>2, <1>3, <1>4, <1>5, <1>6 DEF Next, AgentStep, AskStep

(***************************************************************************)
(* WireInv                                                                 *)
(***************************************************************************)

LEMMA NextWireInv == IInv /\ [Next]_vars => WireInv'
<1> SUFFICES ASSUME IInv, [Next]_vars PROVE WireInv'
  OBVIOUS
<1> USE AnswerAssumption, BoundsAssumption
    DEF IInv, TypeOK, AskType, HistType, WireType, Unasked, Open, Timeout
<1>1. CASE AskBegin
  BY <1>1 DEF AskBegin, WireInv, wireVars, Request
<1>2. CASE sendRequest
  BY <1>2 DEF sendRequest, WireInv, AskInv, Request
<1>3. CASE GiveUp
  BY <1>3 DEF GiveUp, WireInv, wireVars, Request
<1>4. CASE commitDecision
  <2>1. dec[1].ans \in Answer
    BY <1>4 DEF commitDecision, MailboxInv, Decision
  <2>2. QED
    BY <1>4, <2>1 DEF commitDecision, WireInv, wireVars, Request
<1>5. CASE ContextDone \/ RegisterWaiter \/ EnterSelect \/ TakeDecision \/ TakeEvent
           \/ BackoffElapsed \/ QueueReceipt \/ ClearWaiter \/ ReleaseAsking
  BY <1>5 DEF ContextDone, RegisterWaiter, EnterSelect, TakeDecision, TakeEvent,
     BackoffElapsed, QueueReceipt, ClearWaiter, ReleaseAsking, WireInv, wireVars, histVars
<1>6. ASSUME NEW d \in Decision, DeviceSigns(d) PROVE WireInv'
  BY <1>6 DEF DeviceSigns, WireInv, askVars, histVars
<1>7. CASE HandleAbsent \/ HandlePresent \/ (\E d \in Decision : HandleDecision(d))
           \/ ReaderStep \/ ackLoop \/ ConnDies \/ UNCHANGED vars
  <2>1. UNCHANGED <<seq, askPc, outcome>>
    BY <1>7, OtherFrame DEF OtherStep
  <2>2. UNCHANGED <<announced, decisions>>
    BY <1>7 DEF HandleAbsent, HandlePresent, HandleDecision, ReaderStep,
       ReadError, RedialOk, RedialFail, NotifyReconnected, ReaderBackoff,
       ackLoop, ConnDies, vars, wireVars
  <2>3. QED
    BY <2>1, <2>2 DEF WireInv
<1>8. QED
  BY <1>1, <1>2, <1>3, <1>4, <1>5, <1>6, <1>7 DEF Next, AgentStep, AskStep

(***************************************************************************)
(* ReceiptInv                                                              *)
(***************************************************************************)

\* A receipt that was true stays true as long as settled requests stay as they
\* are and no receipt is put back.
LEMMA AckTrueStable ==
  ASSUME TypeOK, NEW k \in Ack, AckTrue(k),
         outcome[k.req] \notin {Unasked, Open} =>
           outcome'[k.req] = outcome[k.req],
         receipts[k.req] = Open /\ outcome[k.req] \notin {Unasked, Open} =>
           receipts'[k.req] = Open
  PROVE  AckTrue(k)'
<1> USE AnswerAssumption
    DEF TypeOK, HistType, AckTrue, Ack, Unasked, Open, Timeout
<1>1. k.req \in Request /\ k.ans \in Answer
  OBVIOUS
<1>2. CASE k.status = "accepted"
  BY <1>1, <1>2
<1>3. CASE k.status = "expired"
  BY <1>1, <1>3
<1>4. CASE k.status = "unknown"
  BY <1>1, <1>4
<1>5. QED
  BY <1>2, <1>3, <1>4

\* ReceiptInv survives any step that only drops receipts or leaves them alone,
\* and settles or leaves alone the current request.
LEMMA ReceiptInvFrame ==
  ASSUME TypeOK, ReceiptInv, UNCHANGED <<receipts, ackQueue, sentAcks>>,
         \A n \in Request :
           outcome[n] \notin {Unasked, Open} => outcome'[n] = outcome[n]
  PROVE  ReceiptInv'
<1> USE AnswerAssumption
    DEF TypeOK, CommitType, WireType, HistType
<1>1. \A k \in Ack : AckTrue(k) => AckTrue(k)'
  BY AckTrueStable DEF Ack
<1>2. \A n \in Request : receipts'[n] # Open => receipts'[n] = outcome'[n]
  BY DEF ReceiptInv, Unasked, Open, Timeout
<1>3. \A i \in 1 .. Len(ackQueue) : ackQueue[i] \in Ack
  OBVIOUS
<1>4. QED
  BY <1>1, <1>2, <1>3 DEF ReceiptInv

\* Queueing a receipt that is true preserves ReceiptInv.
LEMMA ReceiptInvQueue ==
  ASSUME TypeOK, ReceiptInv, NEW k \in Ack, AckTrue(k), queueAck(k),
         UNCHANGED <<outcome, receipts, sentAcks>>
  PROVE  ReceiptInv'
<1>1. \A e : AckTrue(e)' <=> AckTrue(e)
  BY DEF AckTrue
<1>2. \A i \in 1 .. Len(ackQueue') : AckTrue(ackQueue'[i])
  <2>1. \A i \in 1 .. Len(ackQueue') :
          ackQueue'[i] = k \/ (i \in 1 .. Len(ackQueue) /\ ackQueue'[i] = ackQueue[i])
    BY BoundsAssumption, TrySendProps DEF queueAck, TypeOK, CommitType
  <2>2. QED
    BY <2>1 DEF ReceiptInv
<1>3. QED
  BY <1>1, <1>2 DEF ReceiptInv

LEMMA NextReceiptInv == IInv /\ [Next]_vars => ReceiptInv'
<1> SUFFICES ASSUME IInv, [Next]_vars PROVE ReceiptInv'
  OBVIOUS
<1> USE AnswerAssumption, BoundsAssumption DEF IInv
<1>1. CASE AskBegin
  <2>1. \A n \in Request :
          outcome[n] \notin {Unasked, Open} => outcome'[n] = outcome[n]
    BY <1>1 DEF AskBegin, AskInv, TypeOK, AskType, HistType, Request
  <2>2. UNCHANGED <<receipts, ackQueue, sentAcks>>
    BY <1>1 DEF AskBegin, commitVars, wireVars
  <2>3. QED
    BY <2>1, <2>2, ReceiptInvFrame
<1>2. CASE GiveUp
  <2>1. \A n \in Request :
          outcome[n] \notin {Unasked, Open} => outcome'[n] = outcome[n]
    BY <1>2 DEF GiveUp, AskInv, TypeOK, AskType, HistType
  <2>2. UNCHANGED <<receipts, ackQueue, sentAcks>>
    BY <1>2 DEF GiveUp, commitVars, wireVars
  <2>3. QED
    BY <2>1, <2>2, ReceiptInvFrame
<1>3. CASE commitDecision
  <2>1. /\ dec[1] \in Decision
        /\ dec[1].req = seq
        /\ dec[1].ans \in Answer
        /\ seq \in Request
        /\ outcome[seq] = Open
    BY <1>3 DEF commitDecision, MailboxInv, AskInv, TypeOK, AskType, Decision
  <2>2. \A n \in Request :
          outcome[n] \notin {Unasked, Open} => outcome'[n] = outcome[n]
    BY <1>3, <2>1 DEF commitDecision, TypeOK, HistType
  <2>3. UNCHANGED <<ackQueue, sentAcks>>
    BY <1>3 DEF commitDecision, wireVars
  <2>4. CASE askPc' # "accepted"
    BY <1>3, <2>2, <2>3, <2>4, ReceiptInvFrame DEF commitDecision
  <2>5. CASE askPc' = "accepted"
    <3>1. outcome' = [outcome EXCEPT ![seq] = dec[1].ans]
      BY <1>3, <2>5 DEF commitDecision
    <3>2. \/ receipts' = [receipts EXCEPT ![seq] = dec[1].ans]
          \/ receipts' = [receipts EXCEPT ![seq] = dec[1].ans,
                                          ![Head(receiptOrder)] = Open]
      BY <1>3, <2>1, <2>5 DEF commitDecision
    <3>3. \A n \in Request :
            /\ n # seq => receipts'[n] \in {receipts[n], Open}
            /\ receipts'[seq] \in {dec[1].ans, Open}
      BY <2>1, <3>2 DEF TypeOK, CommitType
    <3>4. \A n \in Request : receipts'[n] # Open => receipts'[n] = outcome'[n]
      BY <2>1, <3>1, <3>3 DEF ReceiptInv, TypeOK, HistType
    <3>5. \A k \in Ack : AckTrue(k) => AckTrue(k)'
      <4>1. \A k \in Ack : k.req \in Request
        BY DEF Ack
      <4>2. \A k \in Ack :
              receipts[k.req] = Open /\ outcome[k.req] \notin {Unasked, Open} =>
                receipts'[k.req] = Open
        BY <2>1, <3>3, <4>1
      <4>3. QED
        BY <2>2, <4>1, <4>2, AckTrueStable
    <3>6. \A i \in 1 .. Len(ackQueue) : ackQueue[i] \in Ack
      BY DEF TypeOK, CommitType
    <3>7. QED
      BY <2>3, <3>4, <3>5, <3>6 DEF ReceiptInv, TypeOK, WireType
  <2>6. QED
    BY <2>4, <2>5 DEF TypeOK, AskType
<1>4. CASE QueueReceipt
  <2> DEFINE k == AckFor(dec[1], IF askPc = "accepted" THEN "accepted" ELSE "expired")
  <2>1. dec[1] \in Decision /\ dec[1].req = seq /\ seq \in Request
    BY <1>4 DEF QueueReceipt, MailboxInv, AskInv, TypeOK, AskType
  <2>2. k \in Ack /\ k.req = seq /\ k.ans = dec[1].ans
        /\ k.status = IF askPc = "accepted" THEN "accepted" ELSE "expired"
    BY <2>1, AckForType
  <2>3. AckTrue(k)
    BY <1>4, <2>1, <2>2 DEF QueueReceipt, AckTrue, AskInv
  <2>4. queueAck(k) /\ UNCHANGED <<outcome, receipts, sentAcks>>
    BY <1>4 DEF QueueReceipt, wireVars, histVars
  <2> HIDE DEF k
  <2>5. QED
    BY <2>2, <2>3, <2>4, ReceiptInvQueue
<1>5. CASE ContextDone \/ RegisterWaiter \/ sendRequest \/ EnterSelect
           \/ TakeDecision \/ TakeEvent \/ BackoffElapsed \/ ClearWaiter \/ ReleaseAsking
  <2>1. UNCHANGED <<outcome, receipts, ackQueue, sentAcks>>
    BY <1>5 DEF ContextDone, RegisterWaiter, sendRequest, EnterSelect,
       TakeDecision, TakeEvent, BackoffElapsed, ClearWaiter, ReleaseAsking,
       commitVars, wireVars, histVars
  <2>2. QED
    BY <2>1, ReceiptInvFrame
<1>6. ASSUME NEW d \in Decision, HandleDecision(d) PROVE ReceiptInv'
  <2>0. d.req \in Request /\ d.ans \in Answer
    BY DEF Decision
  <2>1. UNCHANGED <<outcome, receipts, sentAcks>>
    BY <1>6 DEF HandleDecision, wireVars
  <2>2. CASE receipts[d.req] = d.ans
    <3>1. AckTrue(AckFor(d, "accepted"))
      BY <2>0, <2>2, AckForType DEF AckTrue, ReceiptInv, Open
    <3>2. queueAck(AckFor(d, "accepted"))
      BY <1>6, <2>2 DEF HandleDecision, routeBoundDecision
    <3>3. QED
      BY <2>1, <3>1, <3>2, AckForType, ReceiptInvQueue
  <2>3. CASE receipts[d.req] # d.ans /\ waiter # d.req
    <3>1. d.req <= seq /\ outcome[d.req] # Unasked
          /\ (askPc = "register" => d.req # seq)
      BY <1>6 DEF HandleDecision, WireInv
    <3>2. outcome[d.req] \notin {Unasked, Open}
      <4>1. CASE d.req < seq
        BY <2>0, <4>1 DEF AskInv
      <4>2. CASE d.req = seq
        BY <2>0, <2>3, <3>1, <4>2 DEF AskInv
      <4>3. QED
        BY <2>0, <3>1, <4>1, <4>2 DEF TypeOK, AskType, Request
    <3>3. outcome[d.req] = d.ans => receipts[d.req] = Open
      BY <2>0, <2>3 DEF ReceiptInv
    <3>4. AckTrue(AckFor(d, "unknown"))
      BY <3>2, <3>3, AckForType DEF AckTrue
    <3>5. queueAck(AckFor(d, "unknown"))
      BY <1>6, <2>3 DEF HandleDecision, routeBoundDecision
    <3>6. QED
      BY <2>1, <3>4, <3>5, AckForType, ReceiptInvQueue
  <2>4. CASE receipts[d.req] # d.ans /\ waiter = d.req
    <3>1. UNCHANGED ackQueue
      BY <1>6, <2>4 DEF HandleDecision, routeBoundDecision
    <3>2. QED
      BY <2>1, <3>1, ReceiptInvFrame
  <2>5. QED
    BY <2>2, <2>3, <2>4
<1>7. CASE ackLoop
  <2>1. UNCHANGED <<outcome, receipts>>
    BY <1>7 DEF ackLoop, histVars
  <2>2. \A e : AckTrue(e)' <=> AckTrue(e)
    BY <2>1 DEF AckTrue
  <2>3. /\ \A i \in 1 .. Len(ackQueue') :
             i + 1 \in 1 .. Len(ackQueue) /\ ackQueue'[i] = ackQueue[i + 1]
        /\ \A k \in sentAcks' : k \in sentAcks \/ k = ackQueue[1]
        /\ 1 \in 1 .. Len(ackQueue)
    BY <1>7, TailProps DEF ackLoop, TypeOK, CommitType
  <2>4. QED
    BY <2>1, <2>2, <2>3 DEF ReceiptInv
<1>8. CASE HandleAbsent \/ HandlePresent \/ ReaderStep \/ ConnDies
           \/ (\E d \in Decision : DeviceSigns(d)) \/ UNCHANGED vars
  <2>1. UNCHANGED <<outcome, receipts>>
    BY <1>8, OtherFrame DEF OtherStep
  <2>2. UNCHANGED <<ackQueue, sentAcks>>
    BY <1>8 DEF HandleAbsent, HandlePresent, ReaderStep, ReadError, RedialOk,
       RedialFail, NotifyReconnected, ReaderBackoff, ConnDies, DeviceSigns,
       vars, commitVars, wireVars
  <2>3. QED
    BY <2>1, <2>2, ReceiptInvFrame
<1>9. QED
  BY <1>1, <1>2, <1>3, <1>4, <1>5, <1>6, <1>7, <1>8 DEF Next, AgentStep, AskStep

(***************************************************************************)
(* The invariant, and what follows from it                                 *)
(***************************************************************************)

LEMMA NextNoForgedAnswer == IInv /\ [Next]_vars => NoForgedAnswer'
<1> SUFFICES ASSUME IInv, [Next]_vars PROVE NoForgedAnswer'
  OBVIOUS
<1> USE AnswerAssumption
    DEF IInv, TypeOK, HistType, NoForgedAnswer, Answered, Unasked, Open, Timeout
<1>0. decisions \subseteq decisions'
  BY DecisionsGrow
<1>1. CASE AskBegin
  BY <1>0, <1>1 DEF AskBegin
<1>2. CASE GiveUp
  BY <1>0, <1>2 DEF GiveUp
<1>3. CASE commitDecision
  <2>1. dec[1] \in Decision /\ dec[1].req = seq /\ seq \in Request
        /\ dec[1].ans \in Fitting /\ dec[1] \in decisions
    BY <1>3 DEF commitDecision, MailboxInv, AskInv, AskType
  <2>2. dec[1] = [req |-> seq, ans |-> dec[1].ans]
    BY <2>1 DEF Decision
  <2>3. \A n \in Request :
          \/ outcome'[n] = outcome[n]
          \/ outcome'[n] = Timeout
          \/ n = seq /\ outcome'[n] = dec[1].ans
    BY <1>3, <2>1 DEF commitDecision
  <2>4. QED
    BY <1>0, <2>1, <2>2, <2>3
<1>4. CASE ContextDone \/ RegisterWaiter \/ sendRequest \/ EnterSelect
           \/ TakeDecision \/ TakeEvent \/ BackoffElapsed \/ QueueReceipt
           \/ ClearWaiter \/ ReleaseAsking
  BY <1>0, <1>4 DEF ContextDone, RegisterWaiter, sendRequest, EnterSelect,
     TakeDecision, TakeEvent, BackoffElapsed, QueueReceipt, ClearWaiter,
     ReleaseAsking, histVars
<1>5. CASE OtherStep
  BY <1>0, <1>5, OtherFrame
<1>6. QED
  BY <1>1, <1>2, <1>3, <1>4, <1>5 DEF Next, AgentStep, AskStep, OtherStep

LEMMA InitInv == Init => IInv
<1> SUFFICES ASSUME Init PROVE IInv
  OBVIOUS
<1> USE AnswerAssumption, BoundsAssumption
<1>1. TypeOK
  BY InitType
<1>2. AskInv /\ WireInv /\ NoForgedAnswer
  BY DEF Init, AskInv, WireInv, NoForgedAnswer, Answered, Request, Unasked
<1>3. MailboxInv
  BY DEF Init, MailboxInv
<1>4. ReceiptInv
  BY DEF Init, ReceiptInv
<1>5. QED
  BY <1>1, <1>2, <1>3, <1>4 DEF IInv

LEMMA NextInv == IInv /\ [Next]_vars => IInv'
  BY NextType, NextAskInv, NextMailboxInv, NextWireInv, NextReceiptInv,
     NextNoForgedAnswer DEF IInv

\* The invariant holds in every reachable state, for every number of requests,
\* answers, receipts, events and reconnects.
THEOREM Invariance == Spec => []IInv
<1>1. Init => IInv
  BY InitInv
<1>2. IInv /\ [Next]_vars => IInv'
  BY NextInv
<1>3. QED
  BY <1>1, <1>2, PTL DEF Spec

\* Every variable of the agent keeps its type.
THEOREM TypeCorrect == Spec => []TypeOK
<1>1. IInv => TypeOK
  BY DEF IInv
<1>2. QED
  BY <1>1, Invariance, PTL

\* Ask only ever returns an answer the device signed for that request.
THEOREM AnswersAreSigned == Spec => []NoForgedAnswer
<1>1. IInv => NoForgedAnswer
  BY DEF IInv
<1>2. QED
  BY <1>1, Invariance, PTL

LEMMA AcksAreTrue == IInv => \A k \in Acks : AckTrue(k)
  BY DEF IInv, ReceiptInv, Acks

\* Every receipt is true: an accepted one names the answer the caller was given, an
\* expired one a request that timed out, an unknown one no request that is open.
THEOREM ReceiptsAreTrue == Spec => []ReceiptsTrue
<1>1. IInv => AcceptedReceiptTrue
  BY AcksAreTrue DEF AcceptedReceiptTrue, AckTrue
<1>2. IInv => ExpiredReceiptTrue
  BY AcksAreTrue DEF ExpiredReceiptTrue, AckTrue
<1>3. IInv => UnknownReceiptClosed
  BY AcksAreTrue DEF UnknownReceiptClosed, AckTrue
<1>4. IInv => ReceiptsTrue
  BY <1>1, <1>2, <1>3 DEF ReceiptsTrue
<1>5. QED
  BY <1>4, Invariance, PTL

(***************************************************************************)
(* Settled requests, and the promise of Approval                           *)
(***************************************************************************)

\* No step changes how a settled request ended.
LEMMA SettledStays ==
  ASSUME IInv, [Next]_vars, NEW n \in Request, outcome[n] \notin {Unasked, Open}
  PROVE  outcome'[n] = outcome[n]
<1> USE DEF IInv, TypeOK, AskType, HistType, AskInv
<1>1. CASE AskBegin
  BY <1>1 DEF AskBegin, Request
<1>2. CASE GiveUp
  BY <1>2 DEF GiveUp
<1>3. CASE commitDecision
  BY <1>3 DEF commitDecision
<1>4. CASE ContextDone \/ RegisterWaiter \/ sendRequest \/ EnterSelect
           \/ TakeDecision \/ TakeEvent \/ BackoffElapsed \/ QueueReceipt
           \/ ClearWaiter \/ ReleaseAsking
  BY <1>4 DEF ContextDone, RegisterWaiter, sendRequest, EnterSelect,
     TakeDecision, TakeEvent, BackoffElapsed, QueueReceipt, ClearWaiter,
     ReleaseAsking, histVars
<1>5. CASE OtherStep
  BY <1>5, OtherFrame
<1>6. QED
  BY <1>1, <1>2, <1>3, <1>4, <1>5 DEF Next, AgentStep, AskStep, OtherStep

\* A request is settled once: no late decision overrides a timeout and no
\* deadline overrides an acceptance.
THEOREM SettledOnce == Spec => OutcomeFinal
<1>1. IInv /\ [Next]_vars =>
        [\A n \in Request :
           outcome[n] \notin {Unasked, Open} => outcome'[n] = outcome[n]]_outcome
  BY SettledStays
<1>2. QED
  BY <1>1, Invariance, PTL DEF Spec, OutcomeFinal

LEMMA InitPromise == Init => Promise!Init
  BY DEF Init, Promise!Init, Receipted, Unasked, Promise!Unasked

\* A step that changes neither the outcomes, the decisions nor the receipts
\* sent is a stuttering step of the promise.
LEMMA PromiseStutter ==
  UNCHANGED <<outcome, decisions, sentAcks>> => UNCHANGED Promise!vars
  BY DEF Promise!vars, Receipted

LEMMA NextPromise == IInv /\ [Next]_vars => [Promise!Next]_(Promise!vars)
<1> SUFFICES ASSUME IInv, [Next]_vars
             PROVE  Promise!Next \/ UNCHANGED Promise!vars
  OBVIOUS
<1> USE DEF IInv, Unasked, Open, Timeout,
            Promise!Unasked, Promise!Open, Promise!Timeout
<1>1. CASE AskBegin
  <2>1. /\ seq + 1 \in Request
        /\ outcome[seq + 1] = Unasked
        /\ outcome' = [outcome EXCEPT ![seq + 1] = Open]
        /\ UNCHANGED <<decisions, Receipted>>
    BY <1>1, BoundsAssumption
    DEF AskBegin, AskInv, TypeOK, AskType, Request, wireVars, Receipted
  <2>2. Promise!Ask(seq + 1)
    BY <2>1 DEF Promise!Ask
  <2>3. QED
    BY <2>1, <2>2 DEF Promise!Next
<1>2. CASE GiveUp
  <2>1. seq \in Request /\ outcome[seq] = Open /\ UNCHANGED <<decisions, Receipted>>
    BY <1>2 DEF GiveUp, AskInv, wireVars, Receipted
  <2>2. Promise!GiveUp(seq)
    BY <1>2, <2>1 DEF GiveUp, Promise!GiveUp
  <2>3. QED
    BY <2>1, <2>2 DEF Promise!Next
<1>3. CASE commitDecision
  <2>1. /\ seq \in Request
        /\ outcome[seq] = Open
        /\ dec[1] \in Decision
        /\ dec[1].req = seq
        /\ dec[1] \in decisions
        /\ UNCHANGED <<decisions, Receipted>>
    BY <1>3 DEF commitDecision, AskInv, MailboxInv, TypeOK, AskType, wireVars, Receipted
  <2>2. CASE askPc' # "accepted"
    <3>1. Promise!GiveUp(seq)
      BY <1>3, <2>1, <2>2 DEF commitDecision, Promise!GiveUp
    <3>2. QED
      BY <2>1, <3>1 DEF Promise!Next
  <2>3. CASE askPc' = "accepted"
    <3>1. Promise!Accept(dec[1])
      BY <1>3, <2>1, <2>3 DEF commitDecision, Promise!Accept
    <3>2. QED
      BY <2>1, <3>1 DEF Promise!Next, Promise!Decision, Decision
  <2>4. QED
    BY <2>2, <2>3
<1>4. CASE ContextDone \/ RegisterWaiter \/ sendRequest \/ EnterSelect
           \/ TakeDecision \/ TakeEvent \/ BackoffElapsed \/ QueueReceipt
           \/ ClearWaiter \/ ReleaseAsking
  <2>1. UNCHANGED <<outcome, decisions, sentAcks>>
    BY <1>4 DEF ContextDone, RegisterWaiter, sendRequest, EnterSelect,
       TakeDecision, TakeEvent, BackoffElapsed, QueueReceipt, ClearWaiter,
       ReleaseAsking, wireVars, histVars
  <2>2. QED
    BY <2>1, PromiseStutter
<1>5. CASE ackLoop
  <2> DEFINE k == Head(ackQueue)
  <2>1. k \in Ack /\ AckTrue(k) /\ UNCHANGED <<outcome, decisions>>
        /\ sentAcks' \in {sentAcks, sentAcks \cup {k}}
    <3>1. k \in Ack /\ k = ackQueue[1] /\ 1 \in 1 .. Len(ackQueue)
      BY <1>5, TailProps DEF ackLoop, TypeOK, CommitType
    <3>2. AckTrue(k)
      BY <3>1 DEF ReceiptInv
    <3>3. QED
      BY <1>5, <3>1, <3>2 DEF ackLoop, histVars
  <2> HIDE DEF k
  <2>2. CASE sentAcks' = sentAcks
    BY <2>1, <2>2, PromiseStutter
  <2>3. CASE sentAcks' = sentAcks \cup {k} /\ k.status # "accepted"
    <3>1. Receipted' = Receipted
      BY <2>3, AckForType DEF Receipted
    <3>2. QED
      BY <2>1, <3>1 DEF Promise!vars
  <2>4. CASE sentAcks' = sentAcks \cup {k} /\ k.status = "accepted"
    <3> DEFINE d == [req |-> k.req, ans |-> k.ans]
    <3>1. d \in Decision /\ outcome[d.req] = d.ans
      BY <2>1, <2>4 DEF Ack, Decision, AckTrue
    <3>2. AckFor(d, "accepted") = k
      BY <2>1, <2>4 DEF AckFor, Ack
    <3>3. \A e \in Decision : AckFor(e, "accepted") = k => e = d
      BY DEF AckFor, Decision
    <3>4. Receipted' = Receipted \cup {d}
      BY <2>4, <3>1, <3>2, <3>3 DEF Receipted
    <3>5. Promise!Confirm(d)
      BY <2>1, <3>1, <3>4 DEF Promise!Confirm
    <3>6. QED
      BY <3>1, <3>5 DEF Promise!Next, Promise!Decision, Decision
  <2>5. QED
    BY <2>1, <2>2, <2>3, <2>4
<1>6. ASSUME NEW d \in Decision, DeviceSigns(d) PROVE Promise!Next
  <2>1. outcome[d.req] # Unasked
    BY <1>6 DEF DeviceSigns, WireInv
  <2>2. decisions' = decisions \cup {d} /\ UNCHANGED <<outcome, Receipted>>
    BY <1>6 DEF DeviceSigns, histVars, Receipted
  <2>3. Promise!Sign(d)
    BY <2>1, <2>2 DEF Promise!Sign
  <2>4. QED
    BY <2>3 DEF Promise!Next, Promise!Decision, Decision
<1>7. CASE HandleAbsent \/ HandlePresent \/ (\E d \in Decision : HandleDecision(d))
           \/ ReaderStep \/ ConnDies \/ UNCHANGED vars
  <2>1. UNCHANGED outcome
    BY <1>7, OtherFrame DEF OtherStep
  <2>2. UNCHANGED <<decisions, sentAcks>>
    BY <1>7 DEF HandleAbsent, HandlePresent, HandleDecision, ReaderStep,
       ReadError, RedialOk, RedialFail, NotifyReconnected, ReaderBackoff,
       ConnDies, vars, wireVars
  <2>3. QED
    BY <2>1, <2>2, PromiseStutter
<1>8. QED
  BY <1>1, <1>2, <1>3, <1>4, <1>5, <1>6, <1>7 DEF Next, AgentStep, AskStep

\* The agent implements Approval: it settles each request once, with a signed
\* answer or a timeout, and receipts as accepted only what it accepted.
THEOREM AgentKeepsPromise == Spec => KeepsPromise
<1>1. Init => Promise!Init
  BY InitPromise
<1>2. IInv /\ [Next]_vars => [Promise!Next]_(Promise!vars)
  BY NextPromise
<1>3. QED
  BY <1>1, <1>2, Invariance, PTL DEF Spec, KeepsPromise, Promise!Spec

(***************************************************************************)
(* Re-announcement                                                         *)
(***************************************************************************)

\* ReannouncementOwed is inductive relative to IInv once the history variable
\* is known to be clear whenever no request is registered.
StaleInv == ReannouncementOwed /\ (waiter = 0 => ~stale)

LEMMA NotifyKeepsEvent ==
  ASSUME NEW ev \in Event, IInv, notifyWaiter(ev)
  PROVE  /\ evCh # <<>> => evCh' # <<>>
         /\ waiter # 0 => evCh' # <<>>
<1>1. TrySend(evCh, ev, EvCap) # <<>>
  BY BoundsAssumption DEF TrySend, IInv, TypeOK, AskType
<1>2. QED
  BY <1>1 DEF notifyWaiter

LEMMA NextStaleInv == IInv /\ StaleInv /\ [Next]_vars => StaleInv'
<1> SUFFICES ASSUME IInv, StaleInv, [Next]_vars PROVE StaleInv'
  OBVIOUS
<1> USE DEF StaleInv, ReannouncementOwed
<1>1. CASE AskBegin \/ ContextDone \/ GiveUp \/ TakeDecision \/ BackoffElapsed
           \/ commitDecision \/ QueueReceipt \/ ReleaseAsking \/ EnterSelect \/ TakeEvent
  BY <1>1 DEF AskBegin, ContextDone, GiveUp, TakeDecision, BackoffElapsed,
     commitDecision, QueueReceipt, ReleaseAsking, EnterSelect, TakeEvent,
     connVars, histVars
<1>2. CASE RegisterWaiter \/ sendRequest \/ ClearWaiter
  BY <1>2 DEF RegisterWaiter, sendRequest, ClearWaiter, IInv, AskInv, histVars
<1>3. CASE HandleAbsent
  <2>1. waiter' = waiter /\ askPc' = askPc /\ stale' = (waiter # 0)
    BY <1>3 DEF HandleAbsent
  <2>2. waiter # 0 => evCh' # <<>>
    BY <1>3, NotifyKeepsEvent DEF HandleAbsent, Event
  <2>3. QED
    BY <2>1, <2>2
<1>4. CASE RedialOk
  BY <1>4 DEF RedialOk, askVars
<1>5. CASE NotifyReconnected
  <2>1. waiter' = waiter /\ askPc' = askPc /\ stale' = stale
    BY <1>5 DEF NotifyReconnected, histVars
  <2>2. waiter # 0 => evCh' # <<>>
    BY <1>5, NotifyKeepsEvent DEF NotifyReconnected, Event
  <2>3. QED
    BY <2>1, <2>2
<1>6. CASE HandlePresent \/ (\E d \in Decision : HandleDecision(d)) \/ ackLoop
           \/ ConnDies \/ (\E d \in Decision : DeviceSigns(d)) \/ UNCHANGED vars
  BY <1>6 DEF HandlePresent, HandleDecision, ackLoop, ConnDies, DeviceSigns,
     vars, askVars, connVars, histVars
<1>7. CASE ReadError \/ RedialFail \/ ReaderBackoff
  BY <1>7 DEF ReadError, RedialFail, ReaderBackoff, askVars, histVars
<1>8. QED
  BY <1>1, <1>2, <1>3, <1>4, <1>5, <1>6, <1>7
  DEF Next, AgentStep, AskStep, ReaderStep

\* Ask never blocks on an announcement the transport has declared in doubt
\* without an event that will make it announce again, for every capacity of
\* the event channel.
THEOREM ReannouncementNeverLost == Spec => []ReannouncementOwed
<1>1. Init => StaleInv
  BY DEF Init, StaleInv, ReannouncementOwed
<1>2. IInv /\ StaleInv /\ [Next]_vars => StaleInv'
  BY NextStaleInv
<1>3. StaleInv => ReannouncementOwed
  BY DEF StaleInv
<1>4. QED
  BY <1>1, <1>2, <1>3, Invariance, PTL DEF Spec

(***************************************************************************)
(* The receipt cache                                                       *)
(***************************************************************************)

\* Every receipt names a settled request, so the request about to be committed
\* is not in the cache yet.
CacheInv ==
  /\ ReceiptCacheSound
  /\ \A i \in 1 .. Len(receiptOrder) : receiptOrder[i] <= seq
  /\ askPc = "commit" =>
       \A i \in 1 .. Len(receiptOrder) : receiptOrder[i] # seq

LEMMA CommitCache ==
  ASSUME IInv, CacheInv, commitDecision, askPc' = "accepted"
  PROVE  CacheInv'
<1> DEFINE n == dec[1].req
<1> DEFINE a == dec[1].ans
<1>1. n = seq /\ seq \in Request /\ a \in Answer /\ a # Open /\ outcome[seq] = Open
  BY AnswerAssumption
  DEF commitDecision, IInv, TypeOK, AskType, MailboxInv, AskInv, Decision, Open
<1>2. /\ askPc = "commit" /\ askPc' = "accepted" /\ seq' = seq
      /\ outcome' = [outcome EXCEPT ![seq] = a]
  BY DEF commitDecision
<1>3. receiptOrder \in Seq(Request) /\ receipts \in [Request -> {Open} \cup Answer]
      /\ maxReceipts \in Nat \ {0} /\ seq \in Nat
      /\ outcome \in [Request -> {Unasked, Open, Timeout} \cup Answer]
  BY BoundsAssumption, <1>1 DEF IInv, TypeOK, CommitType, HistType, Request
<1>4. \A i \in 1 .. Len(receiptOrder) : receiptOrder[i] \in Request /\ receiptOrder[i] # n
  BY <1>1, <1>2, <1>3 DEF CacheInv
<1> HIDE DEF n, a
<1>5. CASE Len(receiptOrder) < maxReceipts
  <2>1. /\ receipts' = [receipts EXCEPT ![n] = a]
        /\ receiptOrder' = Append(receiptOrder, n)
    BY <1>5 DEF commitDecision, n, a
  <2>2. /\ Len(receiptOrder') = Len(receiptOrder) + 1
        /\ receiptOrder'[Len(receiptOrder) + 1] = n
        /\ \A i \in 1 .. Len(receiptOrder) : receiptOrder'[i] = receiptOrder[i]
        /\ \A i \in 1 .. Len(receiptOrder') :
             i \in 1 .. Len(receiptOrder) \/ i = Len(receiptOrder) + 1
    BY <1>1, <1>3, <2>1
  <2>3. Len(receiptOrder') <= maxReceipts
    BY <1>3, <1>5, <2>2
  <2>4. \A i, j \in 1 .. Len(receiptOrder') :
          i # j => receiptOrder'[i] # receiptOrder'[j]
    BY <1>4, <2>2 DEF CacheInv, ReceiptCacheSound
  <2>5. \A m \in Request :
          receipts'[m] # Open <=> \E i \in 1 .. Len(receiptOrder') : receiptOrder'[i] = m
    <3> SUFFICES ASSUME NEW m \in Request
        PROVE receipts'[m] # Open <=> \E i \in 1 .. Len(receiptOrder') : receiptOrder'[i] = m
      OBVIOUS
    <3>0. Len(receiptOrder) + 1 \in 1 .. Len(receiptOrder')
          /\ \A i \in 1 .. Len(receiptOrder) : i \in 1 .. Len(receiptOrder')
      BY <1>3, <2>2
    <3>1. CASE m = n
      BY <1>1, <1>3, <2>1, <2>2, <3>0, <3>1
    <3>2. CASE m # n
      <4>1. receipts'[m] = receipts[m]
        BY <1>3, <2>1, <3>2
      <4>2. receipts[m] # Open <=> \E i \in 1 .. Len(receiptOrder) : receiptOrder[i] = m
        BY DEF CacheInv, ReceiptCacheSound
      <4>3. (\E i \in 1 .. Len(receiptOrder') : receiptOrder'[i] = m) <=>
              \E i \in 1 .. Len(receiptOrder) : receiptOrder[i] = m
        BY <2>2, <3>0, <3>2
      <4>4. QED
        BY <4>1, <4>2, <4>3
    <3>3. QED
      BY <3>1, <3>2
  <2>6. \A m \in Request : receipts'[m] # Open => receipts'[m] = outcome'[m]
    BY <1>1, <1>2, <1>3, <2>1 DEF CacheInv, ReceiptCacheSound
  <2>7. \A i \in 1 .. Len(receiptOrder') : receiptOrder'[i] <= seq'
    BY <1>1, <1>2, <1>3, <2>2 DEF CacheInv
  <2>8. QED
    BY <1>2, <2>3, <2>4, <2>5, <2>6, <2>7 DEF CacheInv, ReceiptCacheSound
<1>6. CASE ~ Len(receiptOrder) < maxReceipts
  <2> DEFINE h == Head(receiptOrder)
  <2> DEFINE L == Len(receiptOrder)
  <2>0. receiptOrder # <<>> /\ L \in Nat \ {0} /\ L = maxReceipts
    BY <1>3, <1>6 DEF CacheInv, ReceiptCacheSound
  <2>1. /\ receipts' = [receipts EXCEPT ![n] = a, ![h] = Open]
        /\ receiptOrder' = Append(Tail(receiptOrder), n)
    BY <1>6 DEF commitDecision, n, a
  <2>2. /\ h = receiptOrder[1] /\ h \in Request /\ h # n
        /\ Tail(receiptOrder) \in Seq(Request)
        /\ Len(Tail(receiptOrder)) = L - 1
        /\ \A i \in 1 .. L - 1 : Tail(receiptOrder)[i] = receiptOrder[i + 1]
    BY <1>3, <1>4, <2>0, TailProps
  <2>3. /\ Len(receiptOrder') = L
        /\ receiptOrder'[L] = n
        /\ \A i \in 1 .. L - 1 : receiptOrder'[i] = receiptOrder[i + 1] /\ i + 1 \in 1 .. L
        /\ \A i \in 1 .. L : i \in 1 .. L - 1 \/ i = L
    BY <1>1, <1>3, <2>0, <2>1, <2>2
  <2> HIDE DEF h, L
  <2>4. Len(receiptOrder') <= maxReceipts
    BY <1>3, <2>0, <2>3
  <2>5. \A i, j \in 1 .. L : i # j => receiptOrder'[i] # receiptOrder'[j]
    <3>1. \A i, j \in 1 .. L : i # j => receiptOrder[i] # receiptOrder[j]
      BY DEF CacheInv, ReceiptCacheSound, L
    <3>2. \A i \in 1 .. L : receiptOrder[i] # n
      BY <1>4 DEF L
    <3>3. \A i, j \in 1 .. L - 1 : i # j => receiptOrder'[i] # receiptOrder'[j]
      BY <2>0, <2>3, <3>1
    <3>4. \A i \in 1 .. L - 1 : receiptOrder'[i] # n
      BY <2>0, <2>3, <3>2
    <3>5. QED
      BY <2>0, <2>3, <3>3, <3>4
  <2>6. \A m \in Request :
          receipts'[m] # Open <=> \E i \in 1 .. L : receiptOrder'[i] = m
    <3> SUFFICES ASSUME NEW m \in Request
                 PROVE  receipts'[m] # Open <=> \E i \in 1 .. L : receiptOrder'[i] = m
      OBVIOUS
    <3>1. CASE m = n
      BY <1>1, <1>3, <2>0, <2>1, <2>2, <2>3, <3>1
    <3>2. CASE m = h
      <4>1. receipts'[m] = Open
        BY <1>3, <2>1, <2>2, <3>2
      <4>2. \A i \in 1 .. L - 1 : receiptOrder[i + 1] # h
        BY <2>0, <2>2, <2>3 DEF CacheInv, ReceiptCacheSound, L
      <4>3. \A i \in 1 .. L : receiptOrder'[i] # m
        BY <2>0, <2>2, <2>3, <3>2, <4>2
      <4>4. QED
        BY <4>1, <4>3
    <3>3. CASE m # n /\ m # h
      <4>1. receipts'[m] = receipts[m]
        BY <1>3, <2>1, <3>3
      <4>2. receipts[m] # Open <=> \E i \in 1 .. L : receiptOrder[i] = m
        BY DEF CacheInv, ReceiptCacheSound, L
      <4>3. (\E i \in 1 .. L : receiptOrder'[i] = m) =>
              \E i \in 1 .. L : receiptOrder[i] = m
        BY <2>3, <3>3
      <4>4. ASSUME NEW i \in 1 .. L, receiptOrder[i] = m
            PROVE  \E j \in 1 .. L : receiptOrder'[j] = m
        <5>1. i # 1
          BY <2>2, <3>3, <4>4
        <5>2. i - 1 \in 1 .. L - 1 /\ i - 1 \in 1 .. L /\ (i - 1) + 1 = i
          BY <2>0, <5>1
        <5>3. receiptOrder'[i - 1] = m
          BY <2>3, <4>4, <5>2
        <5>4. QED
          BY <5>2, <5>3
      <4>5. QED
        BY <4>1, <4>2, <4>3, <4>4
    <3>4. QED
      BY <3>1, <3>2, <3>3
  <2>7. \A m \in Request : receipts'[m] # Open => receipts'[m] = outcome'[m]
    BY <1>1, <1>2, <1>3, <2>1, <2>2 DEF CacheInv, ReceiptCacheSound
  <2>8. \A i \in 1 .. L : receiptOrder'[i] <= seq'
    BY <1>1, <1>2, <1>3, <2>0, <2>3 DEF CacheInv, L
  <2>9. QED
    BY <1>2, <2>3, <2>4, <2>5, <2>6, <2>7, <2>8 DEF CacheInv, ReceiptCacheSound
<1>7. QED
  BY <1>5, <1>6

LEMMA NextCacheInv == IInv /\ CacheInv /\ [Next]_vars => CacheInv'
<1> SUFFICES ASSUME IInv, CacheInv, [Next]_vars PROVE CacheInv'
  OBVIOUS
<1>0. \A i \in 1 .. Len(receiptOrder) :
        receiptOrder[i] \in Request /\ receiptOrder[i] \in Nat
        /\ receipts[receiptOrder[i]] # Open
        /\ outcome[receiptOrder[i]] \notin {Unasked, Open}
  <2> SUFFICES ASSUME NEW i \in 1 .. Len(receiptOrder)
      PROVE receiptOrder[i] \in Request /\ receiptOrder[i] \in Nat
            /\ receipts[receiptOrder[i]] # Open
            /\ outcome[receiptOrder[i]] \notin {Unasked, Open}
    OBVIOUS
  <2>1. receiptOrder[i] \in Request /\ receiptOrder[i] \in Nat
    <3>1. receiptOrder[i] \in Request
      BY DEF IInv, TypeOK, CommitType
    <3>2. QED
      BY <3>1, BoundsAssumption DEF Request
  <2>2. receipts[receiptOrder[i]] # Open
        /\ receipts[receiptOrder[i]] = outcome[receiptOrder[i]]
    BY <2>1 DEF CacheInv, ReceiptCacheSound
  <2>3. receipts[receiptOrder[i]] \in {Open} \cup Answer
    BY <2>1 DEF IInv, TypeOK, CommitType
  <2>4. QED
    BY <2>1, <2>2, <2>3, AnswerAssumption DEF Unasked, Open
<1>1. CASE UNCHANGED <<receipts, receiptOrder>> /\ askPc' # "commit"
  <2>1. \A i \in 1 .. Len(receiptOrder) : outcome'[receiptOrder[i]] = outcome[receiptOrder[i]]
    BY <1>0, SettledStays
  <2>2. seq' \in {seq, seq + 1}
    <3>1. CASE AskBegin
      BY <3>1 DEF AskBegin
    <3>2. CASE ContextDone \/ AskStep
      BY <3>2 DEF ContextDone, AskStep, RegisterWaiter, sendRequest, EnterSelect,
         GiveUp, TakeDecision, TakeEvent, BackoffElapsed, commitDecision,
         QueueReceipt, ClearWaiter, ReleaseAsking
    <3>3. CASE OtherStep
      BY <3>3, OtherFrame
    <3>4. QED
      BY <3>1, <3>2, <3>3 DEF Next, AgentStep, OtherStep
  <2>3. \A i \in 1 .. Len(receiptOrder) : receiptOrder[i] <= seq'
    BY <1>0, <2>2 DEF CacheInv, IInv, TypeOK, AskType
  <2>4. \A m \in Request : receipts[m] # Open => receipts[m] = outcome'[m]
    <3> SUFFICES ASSUME NEW m \in Request, receipts[m] # Open
                 PROVE  receipts[m] = outcome'[m]
      OBVIOUS
    <3>1. PICK i \in 1 .. Len(receiptOrder) : receiptOrder[i] = m
      BY DEF CacheInv, ReceiptCacheSound
    <3>2. receipts[m] = outcome[m]
      BY DEF CacheInv, ReceiptCacheSound
    <3>3. QED
      BY <2>1, <3>1, <3>2
  <2>5. QED
    BY <1>1, <2>3, <2>4 DEF CacheInv, ReceiptCacheSound
<1>2. CASE TakeDecision
  <2>1. /\ UNCHANGED <<receipts, receiptOrder, outcome, seq>>
        /\ askPc \in {"select", "backoff"}
    BY <1>2 DEF TakeDecision, commitVars, histVars
  <2>2. seq \in Request /\ outcome[seq] = Open
    BY <2>1 DEF IInv, AskInv
  <2>3. \A i \in 1 .. Len(receiptOrder) : receiptOrder[i] # seq
    BY <1>0, <2>2
  <2>4. QED
    BY <2>1, <2>3 DEF CacheInv, ReceiptCacheSound
<1>3. CASE commitDecision
  <2>1. CASE askPc' # "accepted"
    BY <1>1, <1>3, <2>1 DEF commitDecision
  <2>2. CASE askPc' = "accepted"
    BY <1>3, <2>2, CommitCache
  <2>3. QED
    BY <2>1, <2>2
<1>4. CASE AskBegin \/ RegisterWaiter \/ sendRequest \/ EnterSelect \/ GiveUp
           \/ TakeEvent \/ BackoffElapsed \/ QueueReceipt \/ ClearWaiter \/ ReleaseAsking
  <2>1. UNCHANGED <<receipts, receiptOrder>> /\ askPc' # "commit"
    BY <1>4 DEF AskBegin, RegisterWaiter, sendRequest, EnterSelect, GiveUp,
       TakeEvent, BackoffElapsed, QueueReceipt, ClearWaiter, ReleaseAsking, commitVars
  <2>2. QED
    BY <1>1, <2>1
<1>5. CASE ContextDone \/ OtherStep
  <2>1. UNCHANGED <<receipts, receiptOrder, seq, askPc, outcome>>
    BY <1>5, OtherFrame DEF ContextDone, commitVars, histVars
  <2>2. QED
    BY <2>1 DEF CacheInv, ReceiptCacheSound
<1>6. QED
  BY <1>2, <1>3, <1>4, <1>5 DEF Next, AgentStep, AskStep, OtherStep

\* The receipt cache and its eviction queue never drift apart, and never hold
\* more than maxReceipts receipts.
THEOREM ReceiptCacheIsSound == Spec => []ReceiptCacheSound
<1>1. Init => CacheInv
  BY BoundsAssumption DEF Init, CacheInv, ReceiptCacheSound
<1>2. IInv /\ CacheInv /\ [Next]_vars => CacheInv'
  BY NextCacheInv
<1>3. CacheInv => ReceiptCacheSound
  BY DEF CacheInv
<1>4. QED
  BY <1>1, <1>2, <1>3, Invariance, PTL DEF Spec

=============================================================================
