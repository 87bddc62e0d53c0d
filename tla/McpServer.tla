----------------------------- MODULE McpServer -----------------------------
(***************************************************************************)
(* The MCP wrapper of the agent (backend/internal/agent/mcp.go) and the    *)
(* parts of Agent it shares with its tools: several tool calls at once     *)
(* pair lazily, wait for one shared pairing attempt, ask one question at a *)
(* time, and may reset the pairing.                                        *)
(*                                                                         *)
(* A step is one critical section of h.mu, or one access to the agent's    *)
(* own locks and atomics.  start_pairing{reset} holds h.mu through several *)
(* such steps.  Attempts and sessions are pools of identities: a new one   *)
(* is any that nothing refers to any more.                                 *)
(***************************************************************************)
EXTENDS Naturals, FiniteSets

CONSTANTS
  Caller,    \* concurrent request_approval calls
  Direct,    \* callers of Agent.Ask outside the MCP wrapper
  Attempt,   \* pairing attempts
  Session,   \* sessions
  None

ASSUME McpAssumption ==
  /\ IsFiniteSet(Caller)
  /\ Caller \cap Direct = {}
  /\ None \notin Attempt \cup Session

VARIABLES
  pendingRequests, \* h.pendingRequests
  attempt,         \* h.attempt
  havePairing,     \* h.havePairing: a code is shown as current
  reset,           \* where start_pairing{reset:true} is; it holds h.mu
                   \* unless this is "none"
  stage,           \* where runPairing is, for each attempt
  made,            \* the session Pair made, held in its local variable
  result,          \* attempt.err, once attempt.done is closed
  sess,            \* a.sess
  readerSess,      \* a.readerSess
  peerPresent,     \* a.peerPresent
  asking,          \* a.asking
  pc,              \* where each call is
  waitsOn,         \* the attempt it waits on
  using,           \* the session its Ask captured
  cancelled        \* its context is cancelled

mcpVars   == <<pendingRequests, attempt, havePairing, reset>>
pairVars  == <<stage, made, result>>
agentVars == <<sess, readerSess, peerPresent, asking>>
callVars  == <<pc, waitsOn, using, cancelled>>
vars      == <<mcpVars, pairVars, agentVars, callVars>>

Asker == Caller \cup Direct

TypeOK ==
  /\ pendingRequests \in Nat
  /\ attempt \in Attempt \cup {None}
  /\ havePairing \in BOOLEAN
  /\ reset \in {"none", "close", "drop", "absent", "reserve"}
  /\ stage \in [Attempt -> {"none", "mint", "handshake", "void", "failed",
                            "present", "reader", "paired"}]
  /\ made \in [Attempt -> Session \cup {None}]
  /\ result \in [Attempt -> {"open", "ok", "failed"}]
  /\ sess \in Session \cup {None}
  /\ readerSess \in Session \cup {None}
  /\ peerPresent \in BOOLEAN
  /\ asking \in BOOLEAN
  /\ pc \in [Asker -> {"idle", "ensure", "pairing", "wait", "ask", "capture",
                       "register", "asking", "release", "leave"}]
  /\ waitsOn \in [Asker -> Attempt \cup {None}]
  /\ using \in [Asker -> Session \cup {None}]
  /\ cancelled \in [Asker -> BOOLEAN]

Init ==
  /\ pendingRequests = 0
  /\ attempt = None
  /\ havePairing = FALSE
  /\ reset = "none"
  /\ stage = [k \in Attempt |-> "none"]
  /\ made = [k \in Attempt |-> None]
  /\ result = [k \in Attempt |-> "open"]
  /\ sess = None
  /\ readerSess = None
  /\ peerPresent = FALSE
  /\ asking = FALSE
  /\ pc = [c \in Asker |-> "idle"]
  /\ waitsOn = [c \in Asker |-> None]
  /\ using = [c \in Asker |-> None]
  /\ cancelled = [c \in Asker |-> FALSE]

muFree == reset = "none"

Goto(c, there) == pc' = [pc EXCEPT ![c] = there]

UnusedAttempt ==
  {k \in Attempt : /\ k # attempt
                   /\ stage[k] = "none"
                   /\ \A c \in Asker : waitsOn[c] # k}

UnusedSession ==
  {s \in Session : /\ s \notin {sess, readerSess}
                   /\ \A c \in Asker : using[c] # s
                   /\ \A k \in Attempt : made[k] # s}

\* The attempt is reserved before any of its work starts.
Reserve(k) ==
  /\ k \in UnusedAttempt
  /\ attempt' = k
  /\ stage' = [stage EXCEPT ![k] = "mint"]
  /\ result' = [result EXCEPT ![k] = "open"]
  /\ made' = made

-----------------------------------------------------------------------------
(* request_approval, up to Agent.Ask                                       *)

\* Bug: only the call that reaches Agent.Ask counts as pending.
ApprovalUncounted(c) ==
  /\ c \in Caller
  /\ pc[c] = "idle"
  /\ Goto(c, "ensure")
  /\ cancelled' = [cancelled EXCEPT ![c] = FALSE]
  /\ UNCHANGED <<mcpVars, pairVars, agentVars, waitsOn, using>>

requestApproval(c) ==
  /\ c \in Caller
  /\ pc[c] = "idle"
  /\ muFree
  /\ pendingRequests' = pendingRequests + 1
  /\ Goto(c, "ensure")
  /\ cancelled' = [cancelled EXCEPT ![c] = FALSE]
  /\ UNCHANGED <<attempt, havePairing, reset, pairVars, agentVars, waitsOn,
                 using>>

Cancel(c) ==
  /\ pc[c] # "idle"
  /\ ~cancelled[c]
  /\ cancelled' = [cancelled EXCEPT ![c] = TRUE]
  /\ UNCHANGED <<mcpVars, pairVars, agentVars, pc, waitsOn, using>>

EnsureCancelled(c) ==
  /\ pc[c] = "ensure"
  /\ cancelled[c]
  /\ Goto(c, "leave")
  /\ UNCHANGED <<mcpVars, pairVars, agentVars, waitsOn, using, cancelled>>

AlreadyPaired(c) ==
  /\ pc[c] = "ensure"
  /\ muFree
  /\ attempt = None
  /\ sess # None
  /\ Goto(c, "ask")
  /\ UNCHANGED <<mcpVars, pairVars, agentVars, waitsOn, using, cancelled>>

\* Bug: the attempt under way is not looked at.
BeginSecondAttempt(c) ==
  /\ pc[c] = "ensure" /\ muFree
  /\ sess = None
  /\ \E k \in Attempt :
       /\ Reserve(k)
       /\ waitsOn' = [waitsOn EXCEPT ![c] = k]
  /\ Goto(c, "pairing")
  /\ UNCHANGED <<pendingRequests, havePairing, reset, agentVars, using,
                 cancelled>>

\* This call runs the attempt itself, under its own context.
BeginAttempt(c) ==
  /\ pc[c] = "ensure"
  /\ muFree
  /\ attempt = None
  /\ sess = None
  /\ \E k \in Attempt :
       /\ Reserve(k)
       /\ waitsOn' = [waitsOn EXCEPT ![c] = k]
  /\ Goto(c, "pairing")
  /\ UNCHANGED <<pendingRequests, havePairing, reset, agentVars, using,
                 cancelled>>

JoinAttempt(c) ==
  /\ pc[c] = "ensure"
  /\ muFree
  /\ attempt # None
  /\ waitsOn' = [waitsOn EXCEPT ![c] = attempt]
  /\ Goto(c, "wait")
  /\ UNCHANGED <<mcpVars, pairVars, agentVars, using, cancelled>>

ensurePaired(c) ==
  EnsureCancelled(c) \/ AlreadyPaired(c) \/ BeginAttempt(c) \/ JoinAttempt(c)

\* A waiter gets the result of the attempt it joined, even if another attempt
\* has started since.
AttemptDone(c) ==
  /\ pc[c] \in {"pairing", "wait"}
  /\ result[waitsOn[c]] # "open"
  /\ Goto(c, IF result[waitsOn[c]] = "ok" THEN "ask" ELSE "leave")
  /\ waitsOn' = [waitsOn EXCEPT ![c] = None]
  /\ UNCHANGED <<mcpVars, pairVars, agentVars, using, cancelled>>

WaitCancelled(c) ==
  /\ pc[c] = "wait"
  /\ cancelled[c]
  /\ Goto(c, "leave")
  /\ waitsOn' = [waitsOn EXCEPT ![c] = None]
  /\ UNCHANGED <<mcpVars, pairVars, agentVars, using, cancelled>>

-----------------------------------------------------------------------------
(* runPairing and pairOnce, for the attempt k                              *)

Stage(k, there) == stage' = [stage EXCEPT ![k] = there]

Mint(k) ==
  /\ stage[k] = "mint"
  /\ muFree
  /\ havePairing' = TRUE
  /\ Stage(k, "handshake")
  /\ UNCHANGED <<pendingRequests, attempt, reset, made, result, agentVars,
                 callVars>>

MintFails(k) ==
  /\ stage[k] = "mint"
  /\ Stage(k, "failed")
  /\ UNCHANGED <<mcpVars, made, result, agentVars, callVars>>

\* The handshake is refused, times out after pairTTL, or its context ends.
HandshakeFails(k) ==
  /\ stage[k] = "handshake"
  /\ Stage(k, "void")
  /\ UNCHANGED <<mcpVars, made, result, agentVars, callVars>>

VoidCode(k) ==
  /\ stage[k] = "void"
  /\ muFree
  /\ havePairing' = FALSE
  /\ Stage(k, "failed")
  /\ UNCHANGED <<pendingRequests, attempt, reset, made, result, agentVars,
                 callVars>>

\* Pair stores the session, then records presence, then starts the reader.
StoreSession(k) ==
  /\ stage[k] = "handshake"
  /\ \E s \in UnusedSession :
       /\ sess' = s
       /\ made' = [made EXCEPT ![k] = s]
  /\ Stage(k, "present")
  /\ UNCHANGED <<mcpVars, result, readerSess, peerPresent, asking, callVars>>

setPeerPresent(k) ==
  /\ stage[k] = "present"
  /\ peerPresent' = TRUE
  /\ Stage(k, "reader")
  /\ UNCHANGED <<mcpVars, made, result, sess, readerSess, asking, callVars>>

StartReader(k) ==
  /\ stage[k] = "reader"
  /\ readerSess' = made[k]
  /\ made' = [made EXCEPT ![k] = None]
  /\ Stage(k, "paired")
  /\ UNCHANGED <<mcpVars, result, sess, peerPresent, asking, callVars>>

\* Bug: the code of the attempt that ended is not withdrawn.
EndsWithCode(k) ==
  /\ stage[k] \in {"failed", "paired"}
  /\ muFree
  /\ result' = [result EXCEPT ![k] =
                  IF stage[k] = "paired" THEN "ok" ELSE "failed"]
  /\ attempt' = IF attempt = k THEN None ELSE attempt
  /\ Stage(k, "none")
  /\ UNCHANGED <<pendingRequests, havePairing, reset, made, agentVars, callVars>>

runPairingEnds(k) ==
  /\ stage[k] \in {"failed", "paired"}
  /\ muFree
  /\ result' = [result EXCEPT ![k] =
                  IF stage[k] = "paired" THEN "ok" ELSE "failed"]
  /\ IF attempt = k
       THEN attempt' = None /\ havePairing' = FALSE
       ELSE UNCHANGED <<attempt, havePairing>>
  /\ Stage(k, "none")
  /\ UNCHANGED <<pendingRequests, reset, made, agentVars, callVars>>

PairingStep(k) ==
  \/ Mint(k) \/ MintFails(k)
  \/ HandshakeFails(k) \/ VoidCode(k)
  \/ StoreSession(k) \/ setPeerPresent(k) \/ StartReader(k)
  \/ runPairingEnds(k)

-----------------------------------------------------------------------------
(* Agent.Ask                                                               *)

DirectAsk(c) ==
  /\ c \in Direct
  /\ pc[c] = "idle"
  /\ Goto(c, "ask")
  /\ cancelled' = [cancelled EXCEPT ![c] = FALSE]
  /\ UNCHANGED <<mcpVars, pairVars, agentVars, waitsOn, using>>

AskBusy(c) ==
  /\ pc[c] = "ask"
  /\ asking
  /\ Goto(c, "leave")
  /\ UNCHANGED <<mcpVars, pairVars, agentVars, waitsOn, using, cancelled>>

AskBegin(c) ==
  /\ pc[c] = "ask"
  /\ ~asking
  /\ asking' = TRUE
  /\ Goto(c, "capture")
  /\ UNCHANGED <<mcpVars, pairVars, sess, readerSess, peerPresent, waitsOn,
                 using, cancelled>>

\* Without a session, ErrNotPaired.
Capture(c) ==
  /\ pc[c] = "capture"
  /\ using' = [using EXCEPT ![c] = sess]
  /\ Goto(c, IF sess = None THEN "release" ELSE "register")
  /\ UNCHANGED <<mcpVars, pairVars, agentVars, waitsOn, cancelled>>

ensureReader(c) ==
  /\ pc[c] = "register"
  /\ readerSess' = using[c]
  /\ Goto(c, "asking")
  /\ UNCHANGED <<mcpVars, pairVars, sess, peerPresent, asking, waitsOn, using,
                 cancelled>>

\* Refused before it is announced, answered, timed out or cancelled.
AskEnds(c) ==
  /\ pc[c] \in {"register", "asking"}
  /\ using' = [using EXCEPT ![c] = None]
  /\ Goto(c, "release")
  /\ UNCHANGED <<mcpVars, pairVars, agentVars, waitsOn, cancelled>>

Release(c) ==
  /\ pc[c] = "release"
  /\ asking' = FALSE
  /\ Goto(c, "leave")
  /\ UNCHANGED <<mcpVars, pairVars, sess, readerSess, peerPresent, waitsOn,
                 using, cancelled>>

Leave(c) ==
  /\ pc[c] = "leave"
  /\ c \in Caller => muFree
  /\ pendingRequests' =
       IF c \in Caller THEN pendingRequests - 1 ELSE pendingRequests
  /\ Goto(c, "idle")
  /\ UNCHANGED <<attempt, havePairing, reset, pairVars, agentVars, waitsOn,
                 using, cancelled>>

\* The steps a call takes on its own, while nobody has to answer it.
CallStep(c) ==
  \/ ensurePaired(c) \/ AttemptDone(c) \/ WaitCancelled(c)
  \/ AskBusy(c) \/ AskBegin(c) \/ Capture(c) \/ ensureReader(c)
  \/ Release(c) \/ Leave(c)

-----------------------------------------------------------------------------
(* start_pairing, and the session's reader                                 *)

\* Pairing starts in the background; with an attempt under way, or a session
\* and no reset, the call only reports the status.
startPairing ==
  /\ muFree
  /\ attempt = None
  /\ sess = None
  /\ \E k \in Attempt : Reserve(k)
  /\ UNCHANGED <<pendingRequests, havePairing, reset, agentVars, callVars>>

\* Bug: the reset does not take the single-flight guard.
ResetUnguarded ==
  /\ muFree
  /\ pendingRequests = 0 /\ attempt = None /\ sess # None
  /\ reset' = "close"
  /\ UNCHANGED <<pendingRequests, attempt, havePairing, pairVars, agentVars,
                 callVars>>

ResetBegin ==
  /\ muFree
  /\ pendingRequests = 0
  /\ attempt = None
  /\ sess # None
  /\ ~asking
  /\ asking' = TRUE
  /\ reset' = "close"
  /\ UNCHANGED <<pendingRequests, attempt, havePairing, pairVars, sess,
                 readerSess, peerPresent, callVars>>

\* Close waits for the reader to return.
ResetClose ==
  /\ reset = "close"
  /\ readerSess' = None
  /\ reset' = "drop"
  /\ UNCHANGED <<pendingRequests, attempt, havePairing, pairVars, sess,
                 peerPresent, asking, callVars>>

ResetDrop ==
  /\ reset = "drop"
  /\ sess' = None
  /\ reset' = "absent"
  /\ UNCHANGED <<pendingRequests, attempt, havePairing, pairVars, readerSess,
                 peerPresent, asking, callVars>>

ResetAbsent ==
  /\ reset = "absent"
  /\ peerPresent' = FALSE
  /\ asking' = FALSE
  /\ reset' = "reserve"
  /\ UNCHANGED <<pendingRequests, attempt, havePairing, pairVars, sess,
                 readerSess, callVars>>

ResetReserve ==
  /\ reset = "reserve"
  /\ havePairing' = FALSE
  /\ \E k \in Attempt : Reserve(k)
  /\ reset' = "none"
  /\ UNCHANGED <<pendingRequests, agentVars, callVars>>

ResetStep == ResetClose \/ ResetDrop \/ ResetAbsent \/ ResetReserve

\* The reader records the presence the relay reports.
readLoop ==
  /\ readerSess # None
  /\ peerPresent' = ~peerPresent
  /\ UNCHANGED <<mcpVars, pairVars, sess, readerSess, asking, callVars>>

Next ==
  \/ \E c \in Asker :
       \/ requestApproval(c) \/ DirectAsk(c) \/ Cancel(c)
       \/ CallStep(c) \/ AskEnds(c)
  \/ \E k \in Attempt : PairingStep(k)
  \/ startPairing \/ ResetBegin \/ ResetStep
  \/ readLoop

Spec == Init /\ [][Next]_vars

-----------------------------------------------------------------------------
(* Properties                                                              *)

\* At most one handshake runs, and it is the one every new call joins
\* (mcp.go:273-276), however failures, retries, resets and start_pairing
\* interleave.
OneHandshake == \A k \in Attempt : stage[k] # "none" => attempt = k

\* A call that waits for an attempt is not forgotten: the attempt it joined still runs,
\* or has ended with a result that the call will find (mcp.go:67-68).
WaiterServed ==
  \A c \in Asker :
    pc[c] \in {"pairing", "wait"} => stage[waitsOn[c]] # "none" \/ result[waitsOn[c]] # "open"

\* One handshake, shared by everyone who waits for it.
AttemptShared == OneHandshake /\ WaiterServed

\* A code is reported as current only from the moment the running attempt has minted it
\* until that attempt is over: never the code of an attempt that ended or was replaced
\* (mcp.go:195).
CodeCurrent ==
  havePairing => /\ attempt # None
                 /\ stage[attempt] \in {"handshake", "void", "present", "reader", "paired"}

\* A call that ensurePaired let through finds a session when its Ask reads it
\* under another lock: no reset comes between (mcp.go:59-61).
AskPaired ==
  \A c \in Caller : pc[c] \in {"ask", "capture"} => sess # None

\* No reader outlives its session: the one running, if any, reads for the
\* session the agent holds (mcp.go:264, agent.go:487-488).
ReaderOfSession == readerSess # None => readerSess = sess

\* An Ask works on the session the agent holds, and once it has registered,
\* with that session's reader running: a reset never replaces the session
\* under it, for callers outside the MCP wrapper too (agent.go:489).
SessionStable ==
  /\ AskPaired
  /\ ReaderOfSession
  /\ \A c \in Asker :
       /\ pc[c] \in {"register", "asking"} => using[c] = sess
       /\ pc[c] = "asking" => readerSess = sess

\* While an approval is pending, from before ensurePaired until it returns,
\* the session it is or will be asked on is not discarded (mcp.go:59-61).
ApprovalsKeepSession ==
  [][(\E c \in Caller : pc[c] # "idle") /\ sess # None => sess' = sess]_vars

=============================================================================
