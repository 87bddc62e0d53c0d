---------------------------- MODULE PairingProofs ----------------------------
(***************************************************************************)
(* PairingSafe, for any number of pages, drops and queued frames: sides    *)
(* that pair have the same key, and a retry never breaks a confirmation.   *)
(*                                                                         *)
(* Neither half is inductive: a frame in a queue decides later.  The       *)
(* invariant says what a queued or kept confirm is good for: the agent's   *)
(* queue holds confirms of pages that derived a key only, the phone's only *)
(* confirms of the page the agent finished with, which never changes.      *)
(***************************************************************************)
EXTENDS Pairing, SequenceTheorems, TLAPS

(***************************************************************************)
(* The inductive invariant                                                 *)
(***************************************************************************)

\* What may be on its way to the agent and to the phone.
AgentFrames == {Joined} \cup {Pake(p) : p \in 1 .. page} \cup {Confirm(p) : p \in derived}
PhoneFrames == {Joined, Hello} \cup {Confirm(p) : p \in {agentPeer} \ {0}}

Queues ==
  /\ toAgent \in Seq(AgentFrames)
  /\ toPhone \in Seq(PhoneFrames)

\* A page exists while anything of it does, and keys are those of pages.
Pages ==
  /\ phase # "none" => page >= 1
  /\ conn # "stopped" \/ finishing => phase # "none"
  /\ derived \subseteq 1 .. page
  /\ agentPeer <= page

\* The confirms kept for later, as those in the queues.
Kept ==
  /\ agentPending # 0 => agentPending \in derived
  /\ phonePending # 0 => phonePending = agentPeer

IInv == TypeOK /\ Pages /\ Queues /\ Kept /\ KeyAgreement /\ MismatchNeedsTwoPages

(***************************************************************************)
(* Queues                                                                  *)
(***************************************************************************)

\* Queues stay well formed through the operations on them.
LEMMA QueueOps ==
  ASSUME NEW S, NEW q \in Seq(S)
  PROVE  /\ q # <<>> => Head(q) \in S /\ Tail(q) \in Seq(S)
         /\ \A n \in 0 .. Len(q) : SubSeq(q, 1, n) \in Seq(S)
         /\ \A x \in S : Append(q, x) \in Seq(S) /\ q \o <<x>> \in Seq(S)
         /\ \A x, y \in S : q \o <<x, y>> \in Seq(S)
         /\ <<>> \in Seq(S) /\ q \o <<>> \in Seq(S)
<1>1. q # <<>> => Head(q) \in S /\ Tail(q) \in Seq(S)
  BY HeadTailProperties
<1>2. ASSUME NEW n \in 0 .. Len(q) PROVE SubSeq(q, 1, n) \in Seq(S)
  <2>1. \A i \in 1 .. n : q[i] \in S
    BY ElementOfSeq, LenProperties
  <2>2. n \in Int
    BY LenProperties
  <2>3. QED
    BY <2>1, <2>2, SubSeqProperties
<1>3. ASSUME NEW x \in S PROVE Append(q, x) \in Seq(S) /\ q \o <<x>> \in Seq(S)
  <2>1. <<x>> \in Seq(S)
    OBVIOUS
  <2>2. QED
    BY <2>1, AppendProperties, ConcatProperties
<1>4. ASSUME NEW x \in S, NEW y \in S PROVE q \o <<x, y>> \in Seq(S)
  <2>1. <<x, y>> \in Seq(S)
    OBVIOUS
  <2>2. QED
    BY <2>1, ConcatProperties
<1>5. <<>> \in Seq(S)
  BY EmptySeq
<1>6. q \o <<>> \in Seq(S)
  BY <1>5, ConcatProperties
<1>7. QED
  BY <1>1, <1>2, <1>3, <1>4, <1>5, <1>6

\* A frame that may be sent, and a head that is read, say what they are.
LEMMA FrameFacts ==
  /\ Joined \in AgentFrames
  /\ \A p \in 1 .. page : Pake(p) \in AgentFrames
  /\ \A p \in derived : Confirm(p) \in AgentFrames
  /\ \A f \in AgentFrames : /\ f.kind = "pake" => f.page \in 1 .. page
                            /\ f.kind = "confirm" => f.page \in derived
  /\ Joined \in PhoneFrames /\ Hello \in PhoneFrames
  /\ agentPeer # 0 => Confirm(agentPeer) \in PhoneFrames
  /\ \A f \in PhoneFrames :
       f.kind = "confirm" => f.page = agentPeer /\ agentPeer # 0
<1>1. /\ Joined \in AgentFrames
      /\ \A p \in 1 .. page : Pake(p) \in AgentFrames
      /\ \A p \in derived : Confirm(p) \in AgentFrames
  BY DEF AgentFrames
<1>2. ASSUME NEW f \in AgentFrames
      PROVE  /\ f.kind = "pake" => f.page \in 1 .. page
             /\ f.kind = "confirm" => f.page \in derived
  BY DEF AgentFrames, Joined, Pake, Confirm
<1>3. /\ Joined \in PhoneFrames /\ Hello \in PhoneFrames
      /\ agentPeer # 0 => Confirm(agentPeer) \in PhoneFrames
  BY DEF PhoneFrames
<1>4. ASSUME NEW f \in PhoneFrames, f.kind = "confirm"
      PROVE  f.page = agentPeer /\ agentPeer # 0
  BY <1>4 DEF PhoneFrames, Joined, Hello, Pake, Confirm
<1>5. QED
  BY <1>1, <1>2, <1>3, <1>4

\* The heads of the queues, in the words of the invariant.
LEMMA Heads ==
  ASSUME Queues
  PROVE  /\ toAgent # <<>> =>
              /\ Head(toAgent).kind = "pake" => Head(toAgent).page \in 1 .. page
              /\ Head(toAgent).kind = "confirm" => Head(toAgent).page \in derived
         /\ toPhone # <<>> =>
              (Head(toPhone).kind = "confirm" =>
                 Head(toPhone).page = agentPeer /\ agentPeer # 0)
<1>1. toAgent # <<>> => Head(toAgent) \in AgentFrames
  BY QueueOps DEF Queues
<1>2. toPhone # <<>> => Head(toPhone) \in PhoneFrames
  BY QueueOps DEF Queues
<1>3. QED
  BY <1>1, <1>2, FrameFacts

(***************************************************************************)
(* Preservation                                                            *)
(***************************************************************************)

\* Nothing is queued before anybody speaks.
LEMMA InitIInv == Init => IInv
<1> SUFFICES ASSUME Init PROVE IInv
  OBVIOUS
<1>1. Queues
  BY EmptySeq DEF Init, Queues
<1>2. <<>> \in Seq(Frame)
  BY EmptySeq
<1>3. TypeOK
  <2>1. 0 \in 0 .. MaxPages /\ 0 \in 0 .. MaxDrops
    BY BoundsAssumption
  <2>2. toAgent \in Seq(Frame) /\ toPhone \in Seq(Frame)
    BY <1>2 DEF Init
  <2>3. QED
    BY <2>1, <2>2 DEF Init, TypeOK
<1>4. QED
  BY <1>1, <1>3 DEF Init, IInv, Pages, Kept, KeyAgreement, MismatchNeedsTwoPages

\* Pages are counted up, keys are kept, and the agent's choice is made once.
LEMMA NextGrows ==
  ASSUME TypeOK, [Next]_vars
  PROVE  /\ page' \in Nat /\ page' >= page
         /\ derived \subseteq derived'
         /\ agentPeer # 0 => agentPeer' = agentPeer
<1>1. page \in Nat /\ agentPeer \in Nat
  BY BoundsAssumption DEF TypeOK
<1>2. CASE Dial
  BY <1>2, <1>1 DEF Dial, AgentSends, vars, agentVars, phoneVars
<1>3. CASE AgentPeerJoined
  BY <1>3, <1>1 DEF AgentPeerJoined, AgentReads, AgentSends, vars, agentVars, phoneVars
<1>4. CASE AgentPake
  BY <1>4, <1>1 DEF AgentPake, AgentReads, AgentSends, AgentVerifies, vars, agentVars,
     phoneVars
<1>5. CASE AgentExtraPake
  BY <1>5, <1>1 DEF AgentExtraPake, AgentReads, vars, agentVars, phoneVars
<1>6. CASE AgentEarlyConfirm
  BY <1>6, <1>1 DEF AgentEarlyConfirm, AgentReads, vars, agentVars, phoneVars
<1>7. CASE AgentConfirm
  BY <1>7, <1>1 DEF AgentConfirm, AgentReads, AgentVerifies, vars, agentVars, phoneVars
<1>8. CASE AgentExpires
  BY <1>8, <1>1 DEF AgentExpires, vars, agentVars, phoneVars
<1>9. CASE TypeCode
  BY <1>9, <1>1 DEF TypeCode, vars, agentVars, phoneVars
<1>10. CASE Opens
  BY <1>10, <1>1 DEF Opens, vars, agentVars, phoneVars
<1>11. CASE Drops
  BY <1>11, <1>1 DEF Drops, LoseSocket, vars, agentVars, phoneVars
<1>12. CASE Reload
  BY <1>12, <1>1 DEF Reload, LoseSocket, vars, agentVars, phoneVars
<1>13. CASE Undeliverable
  BY <1>13, <1>1 DEF Undeliverable, start, PhoneSends, vars, agentVars, phoneVars
<1>14. CASE PhonePeerJoined
  BY <1>14, <1>1 DEF PhonePeerJoined, PhoneReads, start, PhoneSends, vars, agentVars,
     phoneVars
<1>15. CASE onPeerPake
  BY <1>15, <1>1 DEF onPeerPake, PhoneReads, vars, agentVars, phoneVars
<1>16. CASE PhoneFinishes
  BY <1>16, <1>1 DEF PhoneFinishes, PhoneSends, verifyConfirm, vars, agentVars,
     phoneVars
<1>17. CASE onPeerConfirm
  BY <1>17, <1>1 DEF onPeerConfirm, PhoneReads, verifyConfirm, vars, agentVars,
     phoneVars
<1>18. CASE LedgerReady
  BY <1>18, <1>1 DEF LedgerReady, vars, agentVars, phoneVars
<1>19. CASE ledgerFailed
  BY <1>19, <1>1 DEF ledgerFailed, vars, agentVars, phoneVars
<1>20. CASE UNCHANGED vars
  BY <1>20, <1>1 DEF vars, vars, agentVars, phoneVars
<1>21. QED
  BY <1>2, <1>3, <1>4, <1>5, <1>6, <1>7, <1>8, <1>9, <1>10, <1>11, <1>12, <1>13,
     <1>14, <1>15, <1>16, <1>17, <1>18, <1>19, <1>20 DEF Next, pairAsA, PhoneStep

\* What was sent may still be on its way after a step.
LEMMA FramesGrow ==
  ASSUME TypeOK, [Next]_vars
  PROVE  AgentFrames \subseteq AgentFrames' /\ PhoneFrames \subseteq PhoneFrames'
<1>1. page \in Nat
  BY BoundsAssumption DEF TypeOK
<1>2. 1 .. page \subseteq 1 .. page'
  BY <1>1, NextGrows
<1>3. {agentPeer} \ {0} \subseteq {agentPeer'} \ {0}
  BY NextGrows
<1>4. QED
  BY <1>2, <1>3, NextGrows DEF AgentFrames, PhoneFrames

\* The queues hold what the invariant says: what was in them, less what was
\* read or lost, and what the step sends.
LEMMA NextQueues == IInv /\ [Next]_vars => Queues'
<1> SUFFICES ASSUME IInv, [Next]_vars PROVE Queues'
  OBVIOUS
<1> DEFINE A == AgentFrames'
           P == PhoneFrames'
<1>a. toAgent \in Seq(A) /\ toPhone \in Seq(P)
  BY FramesGrow, SeqMonotonic DEF IInv, Queues
<1>b. /\ toAgent # <<>> => Tail(toAgent) \in Seq(A)
      /\ \A n \in 0 .. Len(toAgent) : SubSeq(toAgent, 1, n) \in Seq(A)
      /\ \A x \in A : Append(toAgent, x) \in Seq(A) /\ toAgent \o <<x>> \in Seq(A)
      /\ \A x, y \in A : toAgent \o <<x, y>> \in Seq(A)
      /\ <<>> \in Seq(A) /\ toAgent \o <<>> \in Seq(A)
  BY <1>a, QueueOps
<1>c. /\ toPhone # <<>> => Tail(toPhone) \in Seq(P)
      /\ \A x \in P : toPhone \o <<x>> \in Seq(P)
      /\ \A x, y \in P : toPhone \o <<x, y>> \in Seq(P)
      /\ <<>> \in Seq(P)
  BY <1>a, QueueOps
<1>d. /\ Joined \in A /\ Joined \in P /\ Hello \in P
      /\ \A p \in 1 .. page' : Pake(p) \in A
      /\ \A p \in derived' : Confirm(p) \in A
      /\ agentPeer' # 0 => Confirm(agentPeer') \in P
  BY DEF AgentFrames, PhoneFrames
<1>e. <<Joined>> \in Seq(A) /\ <<Joined>> \in Seq(P)
  BY <1>d
<1>f. Queues' = (toAgent' \in Seq(A) /\ toPhone' \in Seq(P))
  BY DEF Queues
<1>g. /\ page \in Nat
      /\ PhoneInRoom \/ finishing => page >= 1
  BY BoundsAssumption DEF IInv, TypeOK, Pages, PhoneInRoom
<1> HIDE DEF A, P
<1>2. CASE Dial
  BY <1>2, <1>a, <1>b, <1>c, <1>d, <1>e, <1>f, <1>g DEF Dial, AgentSends
<1>3. CASE AgentPeerJoined
  BY <1>3, <1>a, <1>b, <1>c, <1>d, <1>e, <1>f, <1>g DEF AgentPeerJoined, AgentReads,
     AgentSends
<1>4. CASE AgentPake
  <2>1. agentPeer' # 0
    BY <1>4, Heads, <1>g DEF AgentPake, AgentReads, IInv
  <2>2. QED
    BY <1>4, <2>1, <1>a, <1>b, <1>c, <1>d, <1>e, <1>f, <1>g DEF AgentPake, AgentReads,
       AgentSends
<1>5. CASE AgentExtraPake
  BY <1>5, <1>a, <1>b, <1>c, <1>d, <1>e, <1>f, <1>g DEF AgentExtraPake, AgentReads
<1>6. CASE AgentEarlyConfirm
  BY <1>6, <1>a, <1>b, <1>c, <1>d, <1>e, <1>f, <1>g DEF AgentEarlyConfirm, AgentReads
<1>7. CASE AgentConfirm
  BY <1>7, <1>a, <1>b, <1>c, <1>d, <1>e, <1>f, <1>g DEF AgentConfirm, AgentReads,
     AgentVerifies
<1>8. CASE AgentExpires
  BY <1>8, <1>a, <1>b, <1>c, <1>d, <1>e, <1>f, <1>g DEF AgentExpires
<1>9. CASE TypeCode
  BY <1>9, <1>a, <1>b, <1>c, <1>d, <1>e, <1>f, <1>g DEF TypeCode
<1>10. CASE Opens
  BY <1>10, <1>a, <1>b, <1>c, <1>d, <1>e, <1>f, <1>g DEF Opens
<1>11. CASE Drops
  BY <1>11, <1>a, <1>b, <1>c, <1>d, <1>e, <1>f, <1>g DEF Drops, LoseSocket
<1>12. CASE Reload
  BY <1>12, <1>a, <1>b, <1>c, <1>d, <1>e, <1>f, <1>g DEF Reload, LoseSocket
<1>13. CASE Undeliverable
  <2>1. page' = page /\ Pake(page) \in A
    BY <1>13, <1>g, <1>d DEF Undeliverable
  <2>2. QED
    BY <1>13, <2>1, <1>a, <1>b, <1>c, <1>d, <1>e, <1>f, <1>g DEF Undeliverable, start,
       PhoneSends
<1>14. CASE PhonePeerJoined
  <2>1. page' = page /\ Pake(page) \in A
    BY <1>14, <1>g, <1>d DEF PhonePeerJoined, PhoneReads
  <2>2. QED
    BY <1>14, <2>1, <1>a, <1>b, <1>c, <1>d, <1>e, <1>f, <1>g DEF PhonePeerJoined,
       PhoneReads, start, PhoneSends
<1>15. CASE onPeerPake
  BY <1>15, <1>a, <1>b, <1>c, <1>d, <1>e, <1>f, <1>g DEF onPeerPake, PhoneReads
<1>16. CASE PhoneFinishes
  <2>1. page' = page /\ page \in 1 .. page' /\ page \in derived'
    BY <1>16, <1>g DEF PhoneFinishes
  <2>2. Pake(page) \in A /\ Confirm(page) \in A
    BY <2>1, <1>d
  <2>3. (IF started THEN <<>> ELSE <<Pake(page)>>) \o <<Confirm(page)>> \in Seq(A)
    <3>1. <<Pake(page)>> \in Seq(A) /\ <<Confirm(page)>> \in Seq(A)
      BY <2>2
    <3>2. (IF started THEN <<>> ELSE <<Pake(page)>>) \in Seq(A)
      BY <3>1, <1>b
    <3>3. QED
      BY <3>1, <3>2, ConcatProperties
  <2>4. toAgent \o ((IF started THEN <<>> ELSE <<Pake(page)>>) \o <<Confirm(page)>>)
          \in Seq(A)
    BY <2>3, <1>a, ConcatProperties
  <2>5. QED
    BY <1>16, <2>4, <1>a, <1>f DEF PhoneFinishes, PhoneSends
<1>17. CASE onPeerConfirm
  BY <1>17, <1>a, <1>b, <1>c, <1>d, <1>e, <1>f, <1>g DEF onPeerConfirm, PhoneReads,
     verifyConfirm
<1>18. CASE LedgerReady
  BY <1>18, <1>a, <1>b, <1>c, <1>d, <1>e, <1>f, <1>g DEF LedgerReady
<1>19. CASE ledgerFailed
  BY <1>19, <1>a, <1>b, <1>c, <1>d, <1>e, <1>f, <1>g DEF ledgerFailed
<1>20. CASE UNCHANGED vars
  BY <1>20, <1>a, <1>b, <1>c, <1>d, <1>e, <1>f, <1>g DEF vars
<1>21. QED
  BY <1>2, <1>3, <1>4, <1>5, <1>6, <1>7, <1>8, <1>9, <1>10, <1>11, <1>12, <1>13,
     <1>14, <1>15, <1>16, <1>17, <1>18, <1>19, <1>20 DEF Next, pairAsA, PhoneStep

\* A page exists while anything of it does.
LEMMA NextPages == IInv /\ [Next]_vars => Pages'
<1> SUFFICES ASSUME IInv, [Next]_vars PROVE Pages'
  OBVIOUS
<1>1. /\ TypeOK /\ Pages /\ page \in Nat /\ agentPeer \in Nat
      /\ PhoneInRoom => phase # "none"
  BY BoundsAssumption DEF IInv, TypeOK, Pages, PhoneInRoom
<1>2. CASE Dial
  BY <1>2, <1>1 DEF Dial, AgentSends, Pages, agentVars, phoneVars
<1>3. CASE AgentPeerJoined
  BY <1>3, <1>1 DEF AgentPeerJoined, AgentReads, AgentSends, Pages, agentVars, phoneVars
<1>4. CASE AgentPake
  <2>1. agentPeer' \in 1 .. page
    BY <1>4, Heads DEF AgentPake, AgentReads, IInv
  <2>2. QED
    BY <1>4, <1>1, <2>1 DEF AgentPake, AgentReads, Pages, phoneVars
<1>5. CASE AgentExtraPake
  BY <1>5, <1>1 DEF AgentExtraPake, AgentReads, Pages, agentVars, phoneVars
<1>6. CASE AgentEarlyConfirm
  BY <1>6, <1>1 DEF AgentEarlyConfirm, AgentReads, Pages, agentVars, phoneVars
<1>7. CASE AgentConfirm
  BY <1>7, <1>1 DEF AgentConfirm, AgentReads, AgentVerifies, Pages, agentVars, phoneVars
<1>8. CASE AgentExpires
  BY <1>8, <1>1 DEF AgentExpires, Pages, agentVars, phoneVars
<1>9. CASE TypeCode
  BY <1>9, <1>1 DEF TypeCode, Pages, agentVars, phoneVars
<1>10. CASE Opens
  BY <1>10, <1>1 DEF Opens, Pages, agentVars, phoneVars
<1>11. CASE Drops
  BY <1>11, <1>1 DEF Drops, LoseSocket, Pages, agentVars, phoneVars
<1>12. CASE Reload
  BY <1>12, <1>1 DEF Reload, LoseSocket, Pages, agentVars, phoneVars
<1>13. CASE Undeliverable
  BY <1>13, <1>1 DEF Undeliverable, start, PhoneSends, Pages, agentVars, phoneVars
<1>14. CASE PhonePeerJoined
  BY <1>14, <1>1 DEF PhonePeerJoined, PhoneReads, start, PhoneSends, Pages, agentVars,
     phoneVars
<1>15. CASE onPeerPake
  BY <1>15, <1>1 DEF onPeerPake, PhoneReads, Pages, agentVars, phoneVars
<1>16. CASE PhoneFinishes
  <2>1. page \in 1 .. page
    BY <1>16, <1>1 DEF PhoneFinishes, Pages
  <2>2. QED
    BY <1>16, <1>1, <2>1 DEF PhoneFinishes, verifyConfirm, Pages, agentVars
<1>17. CASE onPeerConfirm
  BY <1>17, <1>1 DEF onPeerConfirm, PhoneReads, verifyConfirm, Pages, agentVars,
     phoneVars
<1>18. CASE LedgerReady
  BY <1>18, <1>1 DEF LedgerReady, Pages, agentVars, phoneVars
<1>19. CASE ledgerFailed
  BY <1>19, <1>1 DEF ledgerFailed, Pages, agentVars, phoneVars
<1>20. CASE UNCHANGED vars
  BY <1>20, <1>1 DEF vars, Pages, agentVars, phoneVars
<1>21. QED
  BY <1>2, <1>3, <1>4, <1>5, <1>6, <1>7, <1>8, <1>9, <1>10, <1>11, <1>12, <1>13,
     <1>14, <1>15, <1>16, <1>17, <1>18, <1>19, <1>20 DEF Next, pairAsA, PhoneStep

\* The types of all but the queues.
Scalars ==
  /\ agent \in {"dialing", "waiting", "paired", "rejected", "expired"}
  /\ agentPeer \in 0 .. MaxPages
  /\ agentPending \in 0 .. MaxPages
  /\ page \in 0 .. MaxPages
  /\ phase \in {"none", "idle", "awaiting_peer_pake", "awaiting_peer_confirm",
                "paired", "mismatch", "unsaved"}
  /\ started \in BOOLEAN
  /\ finishing \in BOOLEAN
  /\ finishing => phase \in {"idle", "awaiting_peer_pake"}
  /\ phonePending \in 0 .. MaxPages
  /\ saved \in BOOLEAN
  /\ conn \in {"open", "closed", "stopped"}
  /\ drops \in 0 .. MaxDrops
  /\ derived \subseteq Page
  /\ verified \subseteq Page
  /\ confirmLost \in BOOLEAN

\* Types, given that the queues are well formed.
LEMMA NextTypes == IInv /\ [Next]_vars => TypeOK'
<1> SUFFICES ASSUME IInv, [Next]_vars PROVE TypeOK'
  OBVIOUS
<1>a. /\ TypeOK /\ page \in Nat /\ agentPeer \in Nat /\ MaxPages \in Nat
      /\ MaxDrops \in Nat
  BY BoundsAssumption DEF IInv, TypeOK
<1>b. page' \in 0 .. MaxPages /\ agentPeer' \in 0 .. MaxPages
  <2>1. page' \in 0 .. MaxPages
    BY <1>a DEF TypeOK, Next, pairAsA, PhoneStep, Dial, AgentPeerJoined, AgentPake,
       AgentExtraPake, AgentEarlyConfirm, AgentConfirm, AgentReads, AgentExpires,
       TypeCode, Opens, Drops, Reload, Undeliverable, PhonePeerJoined, onPeerPake,
       PhoneFinishes, onPeerConfirm, PhoneReads, LedgerReady, ledgerFailed, vars
  <2>2. agentPeer' \in Nat
    <3>1. CASE AgentPake
      BY <3>1, <1>a, Heads DEF AgentPake, AgentReads, IInv
    <3>2. CASE ~AgentPake
      BY <3>2, <1>a DEF Next, pairAsA, PhoneStep, Dial, AgentPeerJoined,
       AgentExtraPake, AgentEarlyConfirm, AgentConfirm, AgentReads, AgentExpires,
       TypeCode, Opens, Drops, Reload, Undeliverable, PhonePeerJoined, onPeerPake,
       PhoneFinishes, onPeerConfirm, PhoneReads, LedgerReady, ledgerFailed, vars,
       agentVars
    <3>3. QED
      BY <3>1, <3>2
  <2>3. QED
    BY <1>a, <2>1, <2>2, NextPages DEF Pages
<1>c. derived' \subseteq Page
  BY <1>a, <1>b, NextPages DEF Pages, Page
<1>d. toAgent' \in Seq(Frame) /\ toPhone' \in Seq(Frame)
  <2>1. AgentFrames' \subseteq Frame /\ PhoneFrames' \subseteq Frame
    BY <1>a, <1>b, <1>c DEF AgentFrames, PhoneFrames, Frame, Page, Pake, Confirm
  <2>2. QED
    BY <2>1, NextQueues, SeqMonotonic DEF Queues
<1>e. agentPending \in 0 .. MaxPages /\ (agentPending # 0 => agentPending \in derived)
  BY DEF IInv, TypeOK, Kept
<1>h. /\ toAgent # <<>> /\ Head(toAgent).kind = "confirm"
           => Head(toAgent).page \in 0 .. MaxPages
      /\ toPhone # <<>> /\ Head(toPhone).kind = "confirm"
           => Head(toPhone).page \in 0 .. MaxPages
  <2>1. derived \subseteq 0 .. MaxPages /\ agentPeer \in 0 .. MaxPages
    BY <1>a DEF TypeOK, Page
  <2>2. QED
    BY <2>1, Heads DEF IInv
<1>i. page \in 1 .. MaxPages \/ phase = "none"
  BY <1>a DEF IInv, Pages, TypeOK
<1>j. HasConfirm(toPhone) \in BOOLEAN
  BY DEF HasConfirm
<1>k. TypeOK' = (Scalars' /\ toAgent' \in Seq(Frame) /\ toPhone' \in Seq(Frame))
  BY DEF TypeOK, Scalars
<1> SUFFICES Scalars'
  BY <1>d, <1>k
<1>2. CASE Dial
  BY <1>2, <1>a, <1>b, <1>c, <1>h, <1>i, <1>j DEF Dial, AgentSends, TypeOK, Scalars,
     agentVars, phoneVars, Page
<1>3. CASE AgentPeerJoined
  BY <1>3, <1>a, <1>b, <1>c, <1>h, <1>i, <1>j DEF AgentPeerJoined, AgentReads,
     AgentSends, TypeOK, Scalars, agentVars, phoneVars, Page
<1>4. CASE AgentPake
  BY <1>4, <1>a, <1>b, <1>c, <1>h, <1>i, <1>j DEF AgentPake, AgentReads, AgentSends,
     AgentVerifies, TypeOK, Scalars, agentVars, phoneVars, Page
<1>5. CASE AgentExtraPake
  BY <1>5, <1>a, <1>b, <1>c, <1>h, <1>i, <1>j DEF AgentExtraPake, AgentReads, TypeOK,
     Scalars, agentVars, phoneVars, Page
<1>6. CASE AgentEarlyConfirm
  BY <1>6, <1>a, <1>b, <1>c, <1>h, <1>i, <1>j DEF AgentEarlyConfirm, AgentReads,
     TypeOK, Scalars, agentVars, phoneVars, Page
<1>7. CASE AgentConfirm
  BY <1>7, <1>a, <1>b, <1>c, <1>h, <1>i, <1>j DEF AgentConfirm, AgentReads,
     AgentVerifies, TypeOK, Scalars, agentVars, phoneVars, Page
<1>8. CASE AgentExpires
  BY <1>8, <1>a, <1>b, <1>c, <1>h, <1>i, <1>j DEF AgentExpires, TypeOK, Scalars,
     agentVars, phoneVars, Page
<1>9. CASE TypeCode
  <2>1. 0 \in 0 .. MaxPages
    BY <1>a
  <2>2. /\ page' \in 0 .. MaxPages /\ agentPeer' \in 0 .. MaxPages
        /\ derived' \subseteq Page
    BY <1>b, <1>c
  <2>3. QED
    BY <1>9, <2>1, <2>2, <1>a DEF TypeCode, TypeOK, Scalars, agentVars
<1>10. CASE Opens
  BY <1>10, <1>a, <1>b, <1>c, <1>h, <1>i, <1>j DEF Opens, TypeOK, Scalars, agentVars,
     phoneVars, Page
<1>11. CASE Drops
  <2>1. confirmLost' \in BOOLEAN
    BY <1>11, <1>a DEF Drops, LoseSocket, TypeOK, HasConfirm
  <2>2. QED
    BY <1>11, <2>1, <1>a, <1>b, <1>c DEF Drops, TypeOK, Scalars, agentVars, phoneVars
<1>12. CASE Reload
  <2>1. confirmLost' \in BOOLEAN
    BY <1>12, <1>a DEF Reload, LoseSocket, TypeOK, HasConfirm
  <2>2. QED
    BY <1>12, <2>1, <1>a, <1>b, <1>c DEF Reload, TypeOK, Scalars, agentVars, phoneVars
<1>13. CASE Undeliverable
  BY <1>13, <1>a, <1>b, <1>c, <1>h, <1>i, <1>j DEF Undeliverable, start, PhoneSends,
     TypeOK, Scalars, agentVars, phoneVars, Page
<1>14. CASE PhonePeerJoined
  BY <1>14, <1>a, <1>b, <1>c, <1>h, <1>i, <1>j DEF PhonePeerJoined, PhoneReads, start,
     PhoneSends, TypeOK, Scalars, agentVars, phoneVars, Page
<1>15. CASE onPeerPake
  BY <1>15, <1>a, <1>b, <1>c, <1>h, <1>i, <1>j DEF onPeerPake, PhoneReads, TypeOK,
     Scalars, agentVars, phoneVars, Page
<1>16. CASE PhoneFinishes
  <2>1. confirmLost' \in BOOLEAN
    BY <1>16, <1>a DEF PhoneFinishes, PhoneSends, TypeOK, HasConfirm
  <2>2. page \in Page
    BY <1>16, <1>a, <1>i DEF PhoneFinishes, TypeOK, Page
  <2>3. /\ 0 \in 0 .. MaxPages /\ page' \in 0 .. MaxPages
        /\ agentPeer' \in 0 .. MaxPages /\ derived' \subseteq Page
    BY <1>a, <1>b, <1>c
  <2>4. /\ phase' \in {"awaiting_peer_confirm", "paired", "mismatch"}
        /\ verified' \in {verified, verified \cup {page}}
        /\ conn' \in {conn, "stopped"} /\ phonePending' = 0
        /\ UNCHANGED <<agentVars, saved, drops>>
    BY <1>16 DEF PhoneFinishes, verifyConfirm
  <2>5. QED
    BY <1>16, <2>1, <2>2, <2>3, <2>4, <1>a DEF PhoneFinishes, TypeOK, Scalars, agentVars
<1>17. CASE onPeerConfirm
  <2>1. /\ phase' \in {phase, "paired", "mismatch"} /\ conn' \in {conn, "stopped"}
        /\ verified' \in {verified, verified \cup {page}}
        /\ finishing => phase' = phase
    BY <1>17, <1>a DEF onPeerConfirm, verifyConfirm, PhoneReads, TypeOK
  <2>2. phonePending' \in 0 .. MaxPages
    BY <1>17, <1>a, <1>h DEF onPeerConfirm, PhoneReads, TypeOK
  <2>3. verified' \subseteq Page
    BY <1>17, <2>1, <1>a, <1>i DEF onPeerConfirm, PhoneReads, verifyConfirm, TypeOK,
       Page
  <2>4. UNCHANGED <<agentVars, page, saved, drops, started, finishing, derived,
                    confirmLost>>
    BY <1>17 DEF onPeerConfirm, PhoneReads
  <2>5. QED
    BY <2>1, <2>2, <2>3, <2>4, <1>a DEF TypeOK, Scalars, agentVars
<1>18. CASE LedgerReady
  BY <1>18, <1>a, <1>b, <1>c, <1>h, <1>i, <1>j DEF LedgerReady, TypeOK, Scalars,
     agentVars, phoneVars, Page
<1>19. CASE ledgerFailed
  BY <1>19, <1>a, <1>b, <1>c, <1>h, <1>i, <1>j DEF ledgerFailed, TypeOK, Scalars,
     agentVars, phoneVars, Page
<1>20. CASE UNCHANGED vars
  BY <1>20, <1>a, <1>b, <1>c, <1>h, <1>i, <1>j DEF vars, TypeOK, Scalars, agentVars,
     phoneVars, Page
<1>21. QED
  BY <1>2, <1>3, <1>4, <1>5, <1>6, <1>7, <1>8, <1>9, <1>10, <1>11, <1>12, <1>13,
     <1>14, <1>15, <1>16, <1>17, <1>18, <1>19, <1>20 DEF Next, pairAsA, PhoneStep

\* A confirm that is kept is as good as one that is queued.
LEMMA NextKept == IInv /\ [Next]_vars => Kept'
<1> SUFFICES ASSUME IInv, [Next]_vars PROVE Kept'
  OBVIOUS
<1>1. /\ Kept /\ agentPending \in Nat /\ phonePending \in Nat
      /\ derived \subseteq derived' /\ (agentPeer # 0 => agentPeer' = agentPeer)
  BY NextGrows, BoundsAssumption DEF IInv, TypeOK
<1>h. /\ toAgent # <<>> /\ Head(toAgent).kind = "confirm"
           => Head(toAgent).page \in derived
      /\ toPhone # <<>> /\ Head(toPhone).kind = "confirm"
           => Head(toPhone).page = agentPeer
  BY Heads DEF IInv
<1>2. CASE Dial
  BY <1>2, <1>1, <1>h DEF Dial, AgentSends, Kept, agentVars, phoneVars
<1>3. CASE AgentPeerJoined
  BY <1>3, <1>1, <1>h DEF AgentPeerJoined, AgentReads, AgentSends, Kept, agentVars,
     phoneVars
<1>4. CASE AgentPake
  BY <1>4, <1>1, <1>h DEF AgentPake, AgentReads, AgentSends, AgentVerifies, Kept,
     agentVars, phoneVars
<1>5. CASE AgentExtraPake
  BY <1>5, <1>1, <1>h DEF AgentExtraPake, AgentReads, Kept, agentVars, phoneVars
<1>6. CASE AgentEarlyConfirm
  BY <1>6, <1>1, <1>h DEF AgentEarlyConfirm, AgentReads, Kept, agentVars, phoneVars
<1>7. CASE AgentConfirm
  BY <1>7, <1>1, <1>h DEF AgentConfirm, AgentReads, AgentVerifies, Kept, agentVars,
     phoneVars
<1>8. CASE AgentExpires
  BY <1>8, <1>1, <1>h DEF AgentExpires, Kept, agentVars, phoneVars
<1>9. CASE TypeCode
  BY <1>9, <1>1, <1>h DEF TypeCode, Kept, agentVars, phoneVars
<1>10. CASE Opens
  BY <1>10, <1>1, <1>h DEF Opens, Kept, agentVars, phoneVars
<1>11. CASE Drops
  BY <1>11, <1>1, <1>h DEF Drops, LoseSocket, Kept, agentVars, phoneVars
<1>12. CASE Reload
  BY <1>12, <1>1, <1>h DEF Reload, LoseSocket, Kept, agentVars, phoneVars
<1>13. CASE Undeliverable
  BY <1>13, <1>1, <1>h DEF Undeliverable, start, PhoneSends, Kept, agentVars, phoneVars
<1>14. CASE PhonePeerJoined
  BY <1>14, <1>1, <1>h DEF PhonePeerJoined, PhoneReads, start, PhoneSends, Kept,
     agentVars, phoneVars
<1>15. CASE onPeerPake
  BY <1>15, <1>1, <1>h DEF onPeerPake, PhoneReads, Kept, agentVars, phoneVars
<1>16. CASE PhoneFinishes
  BY <1>16, <1>1, <1>h DEF PhoneFinishes, PhoneSends, verifyConfirm, Kept, agentVars,
     phoneVars
<1>17. CASE onPeerConfirm
  BY <1>17, <1>1, <1>h DEF onPeerConfirm, PhoneReads, verifyConfirm, Kept, agentVars,
     phoneVars
<1>18. CASE LedgerReady
  BY <1>18, <1>1, <1>h DEF LedgerReady, Kept, agentVars, phoneVars
<1>19. CASE ledgerFailed
  BY <1>19, <1>1, <1>h DEF ledgerFailed, Kept, agentVars, phoneVars
<1>20. CASE UNCHANGED vars
  BY <1>20, <1>1, <1>h DEF vars, Kept, agentVars, phoneVars
<1>21. QED
  BY <1>2, <1>3, <1>4, <1>5, <1>6, <1>7, <1>8, <1>9, <1>10, <1>11, <1>12, <1>13,
     <1>14, <1>15, <1>16, <1>17, <1>18, <1>19, <1>20 DEF Next, pairAsA, PhoneStep

\* Whoever confirms has the other's key.
LEMMA NextAgree == IInv /\ [Next]_vars => KeyAgreement' /\ MismatchNeedsTwoPages'
<1> SUFFICES ASSUME IInv, [Next]_vars PROVE KeyAgreement' /\ MismatchNeedsTwoPages'
  OBVIOUS
<1>1. /\ Kept /\ Pages /\ KeyAgreement /\ MismatchNeedsTwoPages
      /\ page \in Nat /\ agentPeer \in Nat /\ derived \subseteq 1 .. page
      /\ verified \subseteq Page /\ 0 \notin verified
      /\ agentPending \in Nat /\ phonePending \in Nat
      /\ page' \in Nat /\ page' >= page
      /\ derived \subseteq derived' /\ (agentPeer # 0 => agentPeer' = agentPeer)
  BY NextGrows, BoundsAssumption DEF IInv, TypeOK, Pages, Page
<1>h. /\ toAgent # <<>> /\ Head(toAgent).kind = "confirm"
           => Head(toAgent).page \in derived
      /\ toAgent # <<>> /\ Head(toAgent).kind = "pake"
           => Head(toAgent).page \in 1 .. page
      /\ toPhone # <<>> /\ Head(toPhone).kind = "confirm"
           => Head(toPhone).page = agentPeer /\ agentPeer # 0
  BY Heads DEF IInv
<1>2. CASE Dial
  BY <1>2, <1>1, <1>h DEF Dial, AgentSends, KeyAgreement, MismatchNeedsTwoPages, Kept,
     Pages, agentVars, phoneVars
<1>3. CASE AgentPeerJoined
  BY <1>3, <1>1, <1>h DEF AgentPeerJoined, AgentReads, AgentSends, KeyAgreement,
     MismatchNeedsTwoPages, Kept, Pages, agentVars, phoneVars
<1>4. CASE AgentPake
  BY <1>4, <1>1, <1>h DEF AgentPake, AgentReads, AgentSends, AgentVerifies,
     KeyAgreement, MismatchNeedsTwoPages, Kept, Pages, agentVars, phoneVars
<1>5. CASE AgentExtraPake
  BY <1>5, <1>1, <1>h DEF AgentExtraPake, AgentReads, KeyAgreement,
     MismatchNeedsTwoPages, Kept, Pages, agentVars, phoneVars
<1>6. CASE AgentEarlyConfirm
  BY <1>6, <1>1, <1>h DEF AgentEarlyConfirm, AgentReads, KeyAgreement,
     MismatchNeedsTwoPages, Kept, Pages, agentVars, phoneVars
<1>7. CASE AgentConfirm
  <2>1. PICK p \in derived : AgentVerifies(p, agentPeer)
    BY <1>7, <1>h DEF AgentConfirm, AgentReads
  <2>2. p \in 1 .. page /\ agentPeer \in 1 .. page
    BY <1>7, <1>1 DEF AgentConfirm, Pages
  <2>3. agent' = "rejected" => page > 1
    BY <2>1, <2>2, <1>1 DEF AgentVerifies
  <2>4. UNCHANGED <<agentPeer, page, phase, derived, verified>>
    BY <1>7 DEF AgentConfirm, AgentReads, phoneVars
  <2>5. QED
    BY <2>1, <2>3, <2>4, <1>1 DEF AgentVerifies, KeyAgreement, MismatchNeedsTwoPages
<1>8. CASE AgentExpires
  BY <1>8, <1>1, <1>h DEF AgentExpires, KeyAgreement, MismatchNeedsTwoPages, Kept,
     Pages, agentVars, phoneVars
<1>9. CASE TypeCode
  BY <1>9, <1>1, <1>h DEF TypeCode, KeyAgreement, MismatchNeedsTwoPages, Kept, Pages,
     agentVars, phoneVars
<1>10. CASE Opens
  BY <1>10, <1>1, <1>h DEF Opens, KeyAgreement, MismatchNeedsTwoPages, Kept, Pages,
     agentVars, phoneVars
<1>11. CASE Drops
  BY <1>11, <1>1, <1>h DEF Drops, LoseSocket, KeyAgreement, MismatchNeedsTwoPages,
     Kept, Pages, agentVars, phoneVars
<1>12. CASE Reload
  BY <1>12, <1>1, <1>h DEF Reload, LoseSocket, KeyAgreement, MismatchNeedsTwoPages,
     Kept, Pages, agentVars, phoneVars
<1>13. CASE Undeliverable
  BY <1>13, <1>1, <1>h DEF Undeliverable, start, PhoneSends, KeyAgreement,
     MismatchNeedsTwoPages, Kept, Pages, agentVars, phoneVars
<1>14. CASE PhonePeerJoined
  BY <1>14, <1>1, <1>h DEF PhonePeerJoined, PhoneReads, start, PhoneSends,
     KeyAgreement, MismatchNeedsTwoPages, Kept, Pages, agentVars, phoneVars
<1>15. CASE onPeerPake
  BY <1>15, <1>1, <1>h DEF onPeerPake, PhoneReads, KeyAgreement,
     MismatchNeedsTwoPages, Kept, Pages, agentVars, phoneVars
<1>16. CASE PhoneFinishes
  <2>1. page >= 1 /\ UNCHANGED <<agent, agentPeer, page>>
    BY <1>16, <1>1 DEF PhoneFinishes, Pages, agentVars
  <2>2. CASE phonePending # 0
    <3>1. phonePending = agentPeer /\ agentPeer \in 1 .. page
      BY <2>2, <1>1 DEF Kept, Pages
    <3>2. verifyConfirm(phonePending) /\ derived' = derived \cup {page}
      BY <1>16, <2>2 DEF PhoneFinishes
    <3>3. CASE phonePending = page
      BY <2>1, <3>1, <3>2, <3>3, <1>1 DEF verifyConfirm, KeyAgreement,
         MismatchNeedsTwoPages
    <3>4. CASE phonePending # page
      <4>1. page > 1
        BY <3>1, <3>4, <1>1
      <4>2. verified' = verified
        BY <3>2, <3>4 DEF verifyConfirm
      <4>3. QED
        BY <2>1, <3>2, <4>1, <4>2, <1>1 DEF KeyAgreement, MismatchNeedsTwoPages
    <3>5. QED
      BY <3>3, <3>4
  <2>3. CASE phonePending = 0
    BY <1>16, <2>1, <2>3, <1>1 DEF PhoneFinishes, KeyAgreement, MismatchNeedsTwoPages
  <2>4. QED
    BY <2>2, <2>3
<1>17. CASE onPeerConfirm
  BY <1>17, <1>1, <1>h DEF onPeerConfirm, PhoneReads, verifyConfirm, KeyAgreement,
     MismatchNeedsTwoPages, Kept, Pages, agentVars, phoneVars
<1>18. CASE LedgerReady
  BY <1>18, <1>1, <1>h DEF LedgerReady, KeyAgreement, MismatchNeedsTwoPages, Kept,
     Pages, agentVars, phoneVars
<1>19. CASE ledgerFailed
  BY <1>19, <1>1, <1>h DEF ledgerFailed, KeyAgreement, MismatchNeedsTwoPages, Kept,
     Pages, agentVars, phoneVars
<1>20. CASE UNCHANGED vars
  BY <1>20, <1>1, <1>h DEF vars, KeyAgreement, MismatchNeedsTwoPages, Kept, Pages,
     agentVars, phoneVars
<1>21. QED
  BY <1>2, <1>3, <1>4, <1>5, <1>6, <1>7, <1>8, <1>9, <1>10, <1>11, <1>12, <1>13,
     <1>14, <1>15, <1>16, <1>17, <1>18, <1>19, <1>20 DEF Next, pairAsA, PhoneStep

(***************************************************************************)
(* Theorems                                                                *)
(***************************************************************************)

\* The invariant holds of every state of an attempt.
THEOREM Inductive == Spec => []IInv
<1>1. IInv /\ [Next]_vars => IInv'
  BY NextTypes, NextPages, NextQueues, NextKept, NextAgree DEF IInv
<1>2. QED
  BY InitIInv, <1>1, PTL DEF Spec

\* The types of both sides and of the frames between them hold always: the
\* import a page awaits is one of an exchange still open (pairing.ts).
THEOREM TypeCorrect == Spec => []TypeOK
<1>1. IInv => TypeOK
  BY DEF IInv
<1>2. QED
  BY Inductive, <1>1, PTL

\* Sides that pair have the same key, and with one page no confirmation fails
\* (pair.go, pairing.ts), for any number of retries.
THEOREM PairedAlike == Spec => []PairingSafe
<1>1. IInv => PairingSafe
  BY DEF IInv, PairingSafe
<1>2. QED
  BY Inductive, <1>1, PTL

=============================================================================
