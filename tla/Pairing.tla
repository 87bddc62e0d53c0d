------------------------------ MODULE Pairing ------------------------------
(***************************************************************************)
(* One pairing attempt: the agent's A side (pairAsA) and the phone's B     *)
(* side (pairing.ts, driven by session.ts) exchange {pake} and {confirm}   *)
(* frames through the relay, which queues them per direction and loses     *)
(* what is in flight when the phone's socket drops.  The page may be       *)
(* reloaded at any time, and the code typed again.                         *)
(*                                                                         *)
(* The agent has one SPAKE2 message.  The phone's is named by the page     *)
(* that sampled it, and so is the key the two of them give: a confirmation *)
(* is for the key of one page.                                             *)
(***************************************************************************)
EXTENDS Naturals, Sequences

CONSTANTS
  MaxPages,   \* bound: times the code is typed
  MaxDrops,   \* bound: lost phone sockets
  MaxQueue    \* bound: frames waiting for the agent when the phone repeats one

ASSUME BoundsAssumption ==
  MaxPages \in Nat /\ MaxDrops \in Nat /\ MaxQueue \in Nat

Page == 1 .. MaxPages

VARIABLES
  agent,          \* where pairAsA is
  agentPeer,      \* the page whose message it finished with, 0 before
  agentPending,   \* pendingConfirm: a confirm that came before the pake
  page,           \* how often the code has been typed; names the page alive
  phase,          \* its Pairing.phase, or "none" while no page is alive
  started,        \* its message is sampled
  finishing,      \* onPeerPake awaits importSigner
  phonePending,   \* its pendingConfirm
  saved,          \* the session is paired and persisted
  conn,           \* its socket
  drops,
  toAgent, toPhone,
  derived,        \* history: pages that derived a key
  verified,       \* history: pages that verified the agent's confirm
  confirmLost     \* history: a confirm frame was lost

agentVars == <<agent, agentPeer, agentPending>>
phoneVars == <<phase, started, finishing, phonePending, saved, derived,
               verified>>
vars == <<agentVars, page, phoneVars, conn, drops, toAgent, toPhone,
          confirmLost>>

Pake(p)    == [kind |-> "pake", page |-> p]
Confirm(p) == [kind |-> "confirm", page |-> p]
Joined     == [kind |-> "peer_joined", page |-> 0]
Hello      == Pake(0)   \* the agent's, the same in every resend

Frame == {Joined, Hello} \cup {Pake(p) : p \in Page}
                         \cup {Confirm(p) : p \in Page}

TypeOK ==
  /\ agent \in {"dialing", "waiting", "paired", "rejected", "expired"}
  /\ agentPeer \in 0 .. MaxPages
  /\ agentPending \in 0 .. MaxPages
  /\ page \in 0 .. MaxPages
  /\ phase \in {"none", "idle", "awaiting_peer_pake", "awaiting_peer_confirm",
                "paired", "mismatch", "unsaved"}
  /\ started \in BOOLEAN
  /\ finishing \in BOOLEAN
  /\ finishing => phase \in {"idle", "awaiting_peer_pake"}
  /\ phonePending \in 0 .. MaxPages
  /\ saved \in BOOLEAN
  /\ conn \in {"open", "closed", "stopped"}
  /\ drops \in 0 .. MaxDrops
  /\ toAgent \in Seq(Frame)
  /\ toPhone \in Seq(Frame)
  /\ derived \subseteq Page
  /\ verified \subseteq Page
  /\ confirmLost \in BOOLEAN

Init ==
  /\ agent = "dialing"
  /\ agentPeer = 0
  /\ agentPending = 0
  /\ page = 0
  /\ phase = "none"
  /\ started = FALSE
  /\ finishing = FALSE
  /\ phonePending = 0
  /\ saved = FALSE
  /\ conn = "stopped"
  /\ drops = 0
  /\ toAgent = <<>>
  /\ toPhone = <<>>
  /\ derived = {}
  /\ verified = {}
  /\ confirmLost = FALSE

AgentInRoom == agent \in {"waiting", "paired"}
PhoneInRoom == conn = "open"

HasConfirm(queue) == \E i \in 1 .. Len(queue) : queue[i].kind = "confirm"

\* Frames written while the other side is not in the room are lost.
AgentSends(frames) ==
  /\ toPhone' = IF PhoneInRoom THEN toPhone \o frames ELSE toPhone
  /\ confirmLost' = (confirmLost \/ (~PhoneInRoom /\ HasConfirm(frames)))

PhoneSends(frames) ==
  /\ toAgent' =
       IF PhoneInRoom /\ AgentInRoom THEN toAgent \o frames ELSE toAgent
  /\ confirmLost' =
       (confirmLost \/ (~(PhoneInRoom /\ AgentInRoom) /\ HasConfirm(frames)))

-----------------------------------------------------------------------------
(* The agent                                                               *)

\* Both sides hear of each other if the phone is there already; the hello is
\* sent at once in any case.
Dial ==
  /\ agent = "dialing"
  /\ agent' = "waiting"
  /\ AgentSends(<<Joined, Hello>>)
  /\ toAgent' = IF PhoneInRoom THEN <<Joined>> ELSE <<>>
  /\ UNCHANGED <<agentPeer, agentPending, page, phoneVars, conn, drops>>

AgentReads(kind) ==
  /\ agent = "waiting"
  /\ toAgent # <<>>
  /\ Head(toAgent).kind = kind
  /\ toAgent' = Tail(toAgent)
  /\ UNCHANGED <<page, phoneVars, conn, drops>>

AgentPeerJoined ==
  /\ AgentReads("peer_joined")
  /\ AgentSends(<<Hello>>)
  /\ UNCHANGED agentVars

AgentVerifies(confirm, peer) ==
  agent' = IF confirm = peer THEN "paired" ELSE "rejected"

AgentPake ==
  /\ AgentReads("pake")
  /\ agentPeer = 0
  /\ agentPeer' = Head(toAgent).page
  /\ AgentSends(<<Confirm(agentPeer')>>)
  /\ IF agentPending # 0
       THEN AgentVerifies(agentPending, agentPeer')
       ELSE agent' = agent
  /\ UNCHANGED agentPending

\* Bug: a pake after the first starts the exchange over.
AgentFinishesAgain ==
  /\ AgentReads("pake")
  /\ agentPeer # 0
  /\ agentPeer' = Head(toAgent).page
  /\ AgentSends(<<Confirm(agentPeer')>>)
  /\ UNCHANGED <<agent, agentPending>>

\* A duplicate after a resend, or a new page's: already finished.
AgentExtraPake ==
  /\ AgentReads("pake")
  /\ agentPeer # 0
  /\ UNCHANGED <<agentVars, toPhone, confirmLost>>

\* Bug: a confirm that comes before the pake is dropped.
AgentDropsEarlyConfirm ==
  /\ AgentReads("confirm")
  /\ agentPeer = 0
  /\ UNCHANGED <<agentVars, toPhone, confirmLost>>

AgentEarlyConfirm ==
  /\ AgentReads("confirm")
  /\ agentPeer = 0
  /\ agentPending' = Head(toAgent).page
  /\ UNCHANGED <<agent, agentPeer, toPhone, confirmLost>>

AgentConfirm ==
  /\ AgentReads("confirm")
  /\ agentPeer # 0
  /\ AgentVerifies(Head(toAgent).page, agentPeer)
  /\ UNCHANGED <<agentPeer, agentPending, toPhone, confirmLost>>

\* pairTTL, a cancelled caller, or a failed read or write: the room is
\* abandoned.
AgentExpires ==
  /\ agent \in {"dialing", "waiting"}
  /\ agent' = "expired"
  /\ UNCHANGED <<agentPeer, agentPending, page, phoneVars, conn, drops,
                 toAgent, toPhone, confirmLost>>

pairAsA ==
  \/ Dial \/ AgentPeerJoined \/ AgentPake \/ AgentExtraPake
  \/ AgentEarlyConfirm \/ AgentConfirm

-----------------------------------------------------------------------------
(* The phone                                                               *)

\* The code is typed into a page that has no live attempt.
TypeCode ==
  /\ phase \in {"none", "mismatch", "unsaved"}
  /\ page < MaxPages
  /\ page' = page + 1
  /\ phase' = "idle"
  /\ started' = FALSE
  /\ finishing' = FALSE
  /\ phonePending' = 0
  /\ conn' = "closed"
  /\ UNCHANGED <<agentVars, saved, drops, toAgent, toPhone, derived, verified,
                 confirmLost>>

Opens ==
  /\ conn = "closed"
  /\ conn' = "open"
  /\ IF AgentInRoom
       THEN toPhone' = <<Joined>> /\ toAgent' = Append(toAgent, Joined)
       ELSE UNCHANGED <<toAgent, toPhone>>
  /\ UNCHANGED <<agentVars, page, phoneVars, drops, confirmLost>>

\* Nothing more reaches this socket, and of what it sent only a prefix
\* reaches the agent.
LoseSocket ==
  /\ toPhone' = <<>>
  /\ \E n \in 0 .. Len(toAgent) :
       /\ toAgent' = SubSeq(toAgent, 1, n)
       /\ confirmLost' = \/ confirmLost
                         \/ HasConfirm(toPhone)
                         \/ HasConfirm(SubSeq(toAgent, n + 1, Len(toAgent)))

Drops ==
  /\ conn = "open"
  /\ drops < MaxDrops
  /\ drops' = drops + 1
  /\ conn' = "closed"
  /\ LoseSocket
  /\ UNCHANGED <<agentVars, page, phoneVars>>

\* The page is reloaded or killed before the pairing was saved.
Reload ==
  /\ phase # "none"
  /\ ~saved
  /\ page < MaxPages
  /\ phase' = "none"
  /\ finishing' = FALSE
  /\ conn' = "stopped"
  /\ LoseSocket
  /\ UNCHANGED <<agentVars, page, started, phonePending, saved, drops, derived,
                 verified>>

PhoneReads(kind) ==
  /\ PhoneInRoom
  /\ toPhone # <<>>
  /\ Head(toPhone).kind = kind
  /\ toPhone' = Tail(toPhone)
  /\ UNCHANGED <<agentVars, page, saved, drops>>

\* The same message in every resend.
start ==
  /\ phase \notin {"paired", "mismatch", "unsaved"}
  /\ started' = TRUE
  /\ phase' = IF phase = "idle" THEN "awaiting_peer_pake" ELSE phase
  /\ PhoneSends(<<Pake(page)>>)

PhonePeerJoined ==
  /\ PhoneReads("peer_joined")
  /\ \/ start
     \/ /\ phase \in {"paired", "mismatch", "unsaved"}
        /\ UNCHANGED <<started, phase, toAgent, confirmLost>>
  /\ UNCHANGED <<finishing, phonePending, derived, verified, conn>>

\* The relay reports a frame undeliverable; the report can be older than the
\* agent's arrival.
Undeliverable ==
  /\ PhoneInRoom
  /\ started
  /\ Len(toAgent) < MaxQueue
  /\ start
  /\ UNCHANGED <<agentVars, page, finishing, phonePending, saved, derived,
                 verified, conn, drops, toPhone>>

onPeerPake ==
  /\ PhoneReads("pake")
  /\ finishing' = (finishing \/ phase \in {"idle", "awaiting_peer_pake"})
  /\ UNCHANGED <<phase, started, phonePending, derived, verified, conn,
                 toAgent, confirmLost>>

\* A mismatch closes the socket for good (onPairError).
verifyConfirm(confirm) ==
  IF confirm = page
    THEN /\ phase' = "paired"
         /\ verified' = verified \cup {page}
         /\ conn' = conn
    ELSE /\ phase' = "mismatch"
         /\ verified' = verified
         /\ conn' = "stopped"

\* onPeerPake after importSigner: sample the message if the agent spoke first,
\* derive the key, send the confirm, and verify one that came meanwhile.
PhoneFinishes ==
  /\ finishing
  /\ finishing' = FALSE
  /\ started' = TRUE
  /\ derived' = derived \cup {page}
  /\ PhoneSends((IF started THEN <<>> ELSE <<Pake(page)>>)
                \o <<Confirm(page)>>)
  /\ IF phonePending # 0
       THEN verifyConfirm(phonePending) /\ phonePending' = 0
       ELSE /\ phase' = "awaiting_peer_confirm"
            /\ UNCHANGED <<verified, phonePending, conn>>
  /\ UNCHANGED <<agentVars, page, saved, drops, toPhone>>

onPeerConfirm ==
  /\ PhoneReads("confirm")
  /\ CASE phase = "awaiting_peer_confirm" ->
            /\ verifyConfirm(Head(toPhone).page)
            /\ phonePending' = phonePending
       [] phase \in {"idle", "awaiting_peer_pake"} ->
            /\ phonePending' = Head(toPhone).page
            /\ UNCHANGED <<phase, verified, conn>>
       [] OTHER -> UNCHANGED <<phase, verified, conn, phonePending>>
  /\ UNCHANGED <<started, finishing, derived, toAgent, confirmLost>>

\* onPaired saves the session once its ledger is created, if it can be.
LedgerReady ==
  /\ phase = "paired"
  /\ ~saved
  /\ saved' = TRUE
  /\ UNCHANGED <<agentVars, page, phase, started, finishing, phonePending,
                 derived, verified, conn, drops, toAgent, toPhone,
                 confirmLost>>

ledgerFailed ==
  /\ phase = "paired"
  /\ ~saved
  /\ phase' = "unsaved"
  /\ conn' = "stopped"
  /\ UNCHANGED <<agentVars, page, started, finishing, phonePending, saved,
                 derived, verified, drops, toAgent, toPhone, confirmLost>>

PhoneStep ==
  \/ PhonePeerJoined \/ onPeerPake \/ PhoneFinishes \/ onPeerConfirm
  \/ LedgerReady

Next ==
  \/ pairAsA \/ AgentExpires
  \/ TypeCode \/ Opens \/ Drops \/ Reload \/ Undeliverable
  \/ PhoneStep \/ ledgerFailed

Spec == Init /\ [][Next]_vars

\* Both programs run, and the phone's socket reconnects whenever it closes
\* (relay.ts, handleClose).  Typing the code is up to the human.
FairSpec == Spec /\ WF_vars(pairAsA) /\ WF_vars(PhoneStep) /\ WF_vars(Opens)

-----------------------------------------------------------------------------
(* Properties                                                              *)

\* Whoever is paired is paired with the same key: the agent only with a page
\* that derived it, and no page but the one the agent finished with, however
\* often frames are repeated and the code is typed again.
KeyAgreement ==
  /\ agent = "paired" => agentPeer \in derived
  /\ verified \subseteq {agentPeer}

\* Resends, reconnects and early confirms never make a confirmation fail: a
\* mismatch needs a second page (pairAsA "re-send the SAME pake", pairing.ts
\* "never re-randomize mid-flow").
MismatchNeedsTwoPages ==
  agent = "rejected" \/ phase = "mismatch" => page > 1

\* A confirmation succeeds only for equal keys, and with one page it never fails.
PairingSafe == KeyAgreement /\ MismatchNeedsTwoPages

\* An attempt completes on both sides, whatever the order of arrival and
\* whatever else is lost, unless a confirm is lost, the page goes away, its
\* storage fails, or the attempt expires.
PairingCompletes ==
  (agent = "waiting" /\ conn = "open") ~>
     \/ agent = "paired" /\ saved
     \/ confirmLost \/ page > 1 \/ phase \in {"none", "unsaved"}
     \/ agent = "expired"

=============================================================================
