-------------------------------- MODULE Link --------------------------------
(***************************************************************************)
(* The phone's connection to the relay: RelayClient of                     *)
(* frontend/src/lib/relay.ts composed with the relay of module Relay.  The *)
(* client reconnects after every close it did not ask for, replaces its    *)
(* socket at once when the page comes back to the foreground, and beats to *)
(* find out about a dead one; the relay may still hold the sockets it has  *)
(* lost, and answers "room full" (4001) until it has reaped them.          *)
(*                                                                         *)
(* A socket is a Conn of Relay and is used again once the relay is done    *)
(* with it.  The agent's connection agentConn is in the room throughout    *)
(* (its own reconnection is in module Agent).  handlers check that their   *)
(* socket still is the current one and dropSocket detaches them, so the    *)
(* events of another socket change nothing and are not steps.              *)
(***************************************************************************)
EXTENDS Relay

CONSTANTS
  agentConn,
  MaxFaults       \* bound: sockets the network kills or closes, forced reconnections

VARIABLES
  ws,             \* the current socket, or None
  state,          \* "connecting", "open", "closed"
  stopped,
  reconnectTimer, \* reconnectHandle # null
  heartbeat,      \* heartbeatHandle # null
  faults

client == <<ws, state, stopped, reconnectTimer, heartbeat>>
relay == vars
linkVars == <<relay, client, faults>>

Sockets == Conn \ {agentConn}
Room == CHOOSE r \in RoomId : TRUE
Addr == CHOOSE i \in IP : TRUE

LinkInit ==
  /\ pc = [c \in Conn |-> IF c = agentConn THEN "pump" ELSE "done"]
  /\ roomOf = [c \in Conn |-> IF c = agentConn THEN Room ELSE None]
  /\ ipOf = [c \in Conn |-> IF c = agentConn THEN Addr ELSE None]
  /\ sock = [c \in Conn |-> IF c = agentConn THEN "open" ELSE "closed"]
  /\ rooms = [r \in RoomId |-> IF r = Room THEN {agentConn} ELSE {}]
  /\ connsPerIP = [i \in IP |-> IF i = Addr THEN 1 ELSE 0]
  /\ target = [c \in Conn |-> None]
  /\ probe = [c \in Conn |-> "none"]
  /\ probed = [c \in Conn |-> {}]
  /\ probeRoom = [c \in Conn |-> None]
  /\ orphan = [c \in Conn |-> FALSE]
  /\ probing = {}
  /\ told = [c \in Conn |-> {}]
  /\ absentSince = [c \in Conn |-> FALSE]
  /\ lost = [c \in Conn |-> FALSE]
  /\ ws = None /\ state = "closed" /\ stopped = FALSE
  /\ reconnectTimer = TRUE          \* stands for the first connect()
  /\ heartbeat = FALSE
  /\ faults = 0

-----------------------------------------------------------------------------
(* The client's own operations, as changes of the sockets and of its state. *)

\* connect(): a new socket, whose request the relay has yet to see; s are the sockets
\* as the caller leaves them.
connect(s) ==
  \E c \in {x \in Sockets \ {ws} : Unused(x)} :
    /\ ws' = c
    /\ state' = "connecting"
    /\ sock' = [s EXCEPT ![c] = "open"]
    /\ Goto(c, "start")
    /\ UNCHANGED <<connVars, rooms, connsPerIP, target, probeVars, probing, histVars>>

\* dropSocket: the close reaches the relay unless the path is dead.
Dropped == [c \in Conn |-> IF c = ws /\ sock[c] = "open" THEN "closed" ELSE sock[c]]

\* Mutant: the pending reconnection is not cancelled.
ReplaceKeepsTimer ==
  /\ heartbeat' = FALSE
  /\ connect(Dropped)
  /\ UNCHANGED <<stopped, reconnectTimer>>

\* retryNow.
Replace ==
  /\ reconnectTimer' = FALSE /\ heartbeat' = FALSE
  /\ connect(Dropped)
  /\ UNCHANGED stopped

\* The timer of scheduleReconnect.
ReconnectFires ==
  /\ reconnectTimer /\ ~stopped
  /\ reconnectTimer' = FALSE
  /\ IF ws = None THEN connect(sock) ELSE UNCHANGED <<relay, ws, state>>
  /\ UNCHANGED <<stopped, heartbeat, faults>>

\* ws.onopen: the upgrade was accepted.  Whether the room has a place shows later.
OnOpen ==
  /\ ws # None /\ state = "connecting"
  /\ pc[ws] \notin {"start", "accept"} /\ sock[ws] = "open"
  /\ state' = "open"
  /\ heartbeat' = TRUE
  /\ UNCHANGED <<relay, ws, stopped, reconnectTimer, faults>>

\* Mutant: a refusal (4001) is fatal, as it once was: the user has to press Retry.
CloseFatal ==
  /\ ws # None
  /\ sock[ws] # "open" \/ pc[ws] = "done"
  /\ ws' = None
  /\ state' = "closed"
  /\ heartbeat' = FALSE
  /\ reconnectTimer' = (pc[ws] # "done")
  /\ sock' = [sock EXCEPT ![ws] = IF @ = "frozen" THEN "frozen" ELSE "closed"]
  /\ UNCHANGED <<pc, connVars, rooms, connsPerIP, target, probeVars, probing, histVars,
                 stopped, faults>>

\* ws.onclose, handleClose: the relay refused or closed the socket, or the browser gives
\* up on a dead path.  A full room (4001) is retried like everything else.
OnClose ==
  /\ ws # None
  /\ sock[ws] # "open" \/ pc[ws] = "done"
  /\ ws' = None
  /\ state' = "closed"
  /\ heartbeat' = FALSE
  /\ reconnectTimer' = TRUE
  /\ sock' = [sock EXCEPT ![ws] = IF @ = "frozen" THEN "frozen" ELSE "closed"]
  /\ UNCHANGED <<pc, connVars, rooms, connsPerIP, target, probeVars, probing, histVars,
                 stopped, faults>>

\* A beat on a dead path that throws.  A beat that is sent changes nothing.
BeatThrows ==
  /\ heartbeat /\ state = "open" /\ ws # None /\ sock[ws] = "frozen"
  /\ Replace
  /\ UNCHANGED faults

\* Session.retry, unless the session is closed.
retry == ~stopped /\ Replace

\* The page is visible or online again, or the human presses Retry.
RetryNow ==
  /\ faults < MaxFaults
  /\ faults' = faults + 1
  /\ retry

\* close().
Close ==
  /\ ~stopped
  /\ stopped' = TRUE
  /\ ws' = None /\ state' = "closed"
  /\ heartbeat' = FALSE /\ reconnectTimer' = FALSE
  /\ sock' = Dropped
  /\ UNCHANGED <<pc, connVars, rooms, connsPerIP, target, probeVars, probing, histVars,
                 faults>>

-----------------------------------------------------------------------------
\* The network kills the path of the current socket without a word, or closes it.
Fault ==
  /\ ws # None /\ sock[ws] = "open" /\ faults < MaxFaults
  /\ faults' = faults + 1
  /\ \E s \in {"frozen", "closed"} : sock' = [sock EXCEPT ![ws] = s]
  /\ UNCHANGED <<pc, connVars, rooms, connsPerIP, target, probeVars, probing, histVars,
                 client>>

\* The relay's own steps.  On a path that works an upgrade succeeds and a ping is
\* answered: a relay that fails there is one of the faults.
Serve(c) ==
  \/ /\ At(c, "start") /\ sock[c] = "open"
     /\ reserveIP(c, Room, Addr)
  \/ Handler(c) /\ (pc[c] = "accept" /\ sock[c] = "open" => pc'[c] = "join")
  \/ keepalive(c)
  \/ ProbeStart(c) \/ ProbeEnd(c)
  \/ \E q \in Conn : ProbePing(c, q) /\ (sock[q] = "open" => UNCHANGED sock)

RelayStep(c) == Serve(c) /\ UNCHANGED <<client, faults>>

LinkNext ==
  \/ \E c \in Conn : RelayStep(c)
  \/ ReconnectFires \/ OnOpen \/ OnClose \/ BeatThrows \/ RetryNow \/ Close \/ Fault

\* Goroutines run, pings and dead paths time out, timers fire.
LinkFairness ==
  /\ \A c \in Conn : WF_linkVars(RelayStep(c))
  /\ WF_linkVars(ReconnectFires) /\ WF_linkVars(OnOpen) /\ WF_linkVars(OnClose)

LinkSpec == LinkInit /\ [][LinkNext]_linkVars /\ LinkFairness

-----------------------------------------------------------------------------
(* Properties. *)

\* Whatever events cross, the client has either a socket or a pending attempt, never
\* both and never neither until it is closed: no attempt runs over a live socket, and
\* no close, "room full" among them, strands it (relay.ts:126-130, 270-274).  While it
\* believes it is open, the next beat is due.
NeverStranded ==
  /\ ~stopped => ((ws = None) <=> reconnectTimer)
  /\ stopped => ws = None /\ ~reconnectTimer
  /\ state = "open" => heartbeat

\* A socket the client has replaced is closed, unless its path is dead: it never takes
\* the room's second place from its own successor for longer than the relay needs.
OneLiveSocket == \A c \in Sockets : sock[c] = "open" /\ pc[c] # "done" => c = ws

\* One attempt at a time, and always one.
OneAttempt == NeverStranded /\ OneLiveSocket

\* After the last fault the phone is back in the room for good, although its own dead
\* sockets may have filled it.
ComesBack == <>[](stopped \/ (state = "open" /\ ws \in rooms[Room]))

=============================================================================
