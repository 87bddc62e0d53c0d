------------------------------- MODULE Relay -------------------------------
(***************************************************************************)
(* The relay process (backend/internal/relay/relay.go): rooms of at most   *)
(* two connections, frames forwarded between them, and the peer_joined,    *)
(* peer_left and undeliverable signals it injects.                         *)
(*                                                                         *)
(* Each connection is served by a handler goroutine, whose program counter *)
(* is pc; a rejected joiner also leaves a probe goroutine behind.  A piece *)
(* under Relay.mu is one action; every socket write happens after the lock *)
(* was released, and is an action of its own.                              *)
(***************************************************************************)
EXTENDS Naturals, FiniteSets

CONSTANTS
  Conn,           \* connections, used again once nothing refers to them
  RoomId, IP,
  None,           \* no connection, or no room or address yet
  maxRooms,       \* rooms alive at a time
  maxConnsPerIP   \* connections per client address

ASSUME RelayAssumption ==
  /\ None \notin Conn \cup RoomId \cup IP
  /\ maxRooms \in Nat \ {0}
  /\ maxConnsPerIP \in Nat \ {0}

VARIABLES
  pc,           \* the handler of each connection; "start": dialled, not seen yet
  roomOf, ipOf, \* what the connection being served asked for
  sock,         \* "open", "frozen" (dead, not noticed yet), "closed"
  rooms,        \* peers of each room; a room without peers does not exist
  connsPerIP,
  target,       \* the peer a handler captured under the lock, to write to
  probe,        \* the probe goroutine started for a rejected connection
  probed,       \* peers it has still to ping
  probeRoom,    \* the room it was started for
  orphan,       \* that room was deleted: it will write to garbage
  probing,      \* rooms whose probing flag is set
  told,         \* history: the peers a client was told had joined and are there
  absentSince,  \* history: told of an absence since its last frame was read
  lost          \* history: a frame of this client was lost without a word

connVars  == <<roomOf, ipOf>>
probeVars == <<probe, probed, probeRoom, orphan>>
histVars  == <<told, absentSince, lost>>
vars == <<pc, connVars, sock, rooms, connsPerIP, target, probeVars, probing,
          histVars>>

TypeOK ==
  /\ pc \in [Conn -> {"start", "accept", "join", "announce", "greet", "greeting",
                      "pump", "look", "forward", "undeliverable", "leave",
                      "left", "full", "release", "done"}]
  /\ roomOf \in [Conn -> RoomId \cup {None}]
  /\ ipOf \in [Conn -> IP \cup {None}]
  /\ sock \in [Conn -> {"open", "frozen", "closed"}]
  /\ rooms \in [RoomId -> SUBSET Conn]
  /\ connsPerIP \in [IP -> 0 .. maxConnsPerIP]
  /\ target \in [Conn -> Conn \cup {None}]
  /\ probe \in [Conn -> {"none", "start", "ping"}]
  /\ probed \in [Conn -> SUBSET Conn]
  /\ probeRoom \in [Conn -> RoomId \cup {None}]
  /\ orphan \in [Conn -> BOOLEAN]
  /\ probing \subseteq RoomId
  /\ told \in [Conn -> SUBSET Conn]
  /\ absentSince \in [Conn -> BOOLEAN]
  /\ lost \in [Conn -> BOOLEAN]

Init ==
  /\ pc = [c \in Conn |-> "done"]
  /\ roomOf = [c \in Conn |-> None] /\ ipOf = [c \in Conn |-> None]
  /\ sock = [c \in Conn |-> "closed"]
  /\ rooms = [r \in RoomId |-> {}]
  /\ connsPerIP = [i \in IP |-> 0]
  /\ target = [c \in Conn |-> None]
  /\ probe = [c \in Conn |-> "none"]
  /\ probed = [c \in Conn |-> {}]
  /\ probeRoom = [c \in Conn |-> None]
  /\ orphan = [c \in Conn |-> FALSE]
  /\ probing = {}
  /\ told = [c \in Conn |-> {}]
  /\ absentSince = [c \in Conn |-> FALSE]
  /\ lost = [c \in Conn |-> FALSE]

Goto(c, label) == pc' = [pc EXCEPT ![c] = label]
At(c, label) == pc[c] = label
forget(c) == target' = [target EXCEPT ![c] = None]

\* Nothing in the relay refers to c: a new connection may have its name.
Unused(c) ==
  /\ pc[c] \in {"start", "done"}
  /\ probe[c] = "none"
  /\ \A d \in Conn : target[d] # c /\ c \notin probed[d]

\* The histories of a connection that comes or goes: nobody knows of it, nor it of them.
unknown(c) ==
  /\ told' = [d \in Conn |-> IF d = c THEN {} ELSE told[d] \ {c}]
  /\ absentSince' = [absentSince EXCEPT ![c] = FALSE]
  /\ lost' = [lost EXCEPT ![c] = FALSE]

\* writeSignal to peer q: on a dead socket the error is dropped.
writeSignal(q, sig) ==
  IF sock[q] # "open" \/ sig = "peer_joined"
    THEN UNCHANGED <<absentSince, lost>>
    ELSE /\ absentSince' = [absentSince EXCEPT ![q] = TRUE]
         /\ lost' = [lost EXCEPT ![q] = FALSE]

\* The other peer of c's room, of which there is at most one.
others(c) == rooms[roomOf[c]] \ {c}
peerOf(c) == IF others(c) = {} THEN None ELSE CHOOSE q \in others(c) : TRUE

-----------------------------------------------------------------------------
(* Handler and serveConn                                                   *)

\* A connection comes in: its per-IP slot is reserved before the upgrade.
reserveIP(c, r, i) ==
  /\ Unused(c)
  /\ \/ /\ connsPerIP[i] < maxConnsPerIP
        /\ connsPerIP' = [connsPerIP EXCEPT ![i] = @ + 1]
        /\ roomOf' = [roomOf EXCEPT ![c] = r] /\ ipOf' = [ipOf EXCEPT ![c] = i]
        /\ sock' = [sock EXCEPT ![c] = "open"]
        /\ Goto(c, "accept")
        /\ unknown(c)
     \/ /\ connsPerIP[i] >= maxConnsPerIP
        /\ Goto(c, "done")
        /\ UNCHANGED <<connsPerIP, connVars, sock, histVars>>
  /\ UNCHANGED <<rooms, target, probeVars, probing>>

\* CloseNow and releaseIP, which never goes below zero.
hangUp(c) ==
  /\ sock' = [sock EXCEPT ![c] = "closed"]
  /\ connsPerIP' = [connsPerIP EXCEPT ![ipOf[c]] = IF @ > 0 THEN @ - 1 ELSE 0]
  /\ roomOf' = [roomOf EXCEPT ![c] = None] /\ ipOf' = [ipOf EXCEPT ![c] = None]
  /\ Goto(c, "done")

Accept(c) ==
  /\ At(c, "accept")
  /\ \/ Goto(c, "join") /\ UNCHANGED <<sock, connsPerIP, connVars>>
     \/ hangUp(c)
  /\ UNCHANGED <<rooms, target, probeVars, probing, histVars>>

live == {r \in RoomId : rooms[r] # {}}

\* join, under the lock: overloaded, full, alone or second.
join(c) ==
  LET r == roomOf[c] IN
  /\ At(c, "join")
  /\ \/ /\ rooms[r] = {} /\ Cardinality(live) >= maxRooms
        /\ Goto(c, "release") /\ UNCHANGED <<rooms, target>>
     \/ /\ Cardinality(rooms[r]) >= 2
        /\ Goto(c, "full") /\ UNCHANGED <<rooms, target>>
     \/ /\ rooms[r] = {} /\ Cardinality(live) < maxRooms
        /\ rooms' = [rooms EXCEPT ![r] = {c}]
        /\ Goto(c, "greet") /\ UNCHANGED target
     \/ /\ Cardinality(rooms[r]) = 1
        /\ rooms' = [rooms EXCEPT ![r] = @ \cup {c}]
        /\ target' = [target EXCEPT ![c] = peerOf(c)]
        /\ Goto(c, "announce")
  /\ UNCHANGED <<connVars, sock, connsPerIP, probeVars, probing, histVars>>

\* The peer that was already there is told.
Announce(c) ==
  /\ At(c, "announce")
  /\ writeSignal(target[c], "peer_joined")
  /\ told' = [told EXCEPT ![target[c]] = @ \cup {c}]
  /\ forget(c)
  /\ Goto(c, "greet")
  /\ UNCHANGED <<connVars, sock, rooms, connsPerIP, probeVars, probing>>

\* Bug: only the peer that was there first hears of the other.
GreetNobody(c) ==
  /\ At(c, "greet")
  /\ Goto(c, "pump")
  /\ UNCHANGED <<connVars, sock, rooms, connsPerIP, target, probeVars, probing,
                 histVars>>

\* The newcomer is told of a peer it finds.
Greet(c) ==
  /\ At(c, "greet")
  /\ target' = [target EXCEPT ![c] = peerOf(c)]
  /\ Goto(c, IF peerOf(c) = None THEN "pump" ELSE "greeting")
  /\ UNCHANGED <<connVars, sock, rooms, connsPerIP, probeVars, probing, histVars>>

Greeting(c) ==
  /\ At(c, "greeting")
  /\ writeSignal(c, "peer_joined")
  /\ told' = [told EXCEPT ![c] = @ \cup {target[c]}]
  /\ forget(c)
  /\ Goto(c, "pump")
  /\ UNCHANGED <<connVars, sock, rooms, connsPerIP, probeVars, probing>>

-----------------------------------------------------------------------------
(* pump                                                                    *)

\* A frame was read; one that sets _relay, or one too many in the window,
\* closes the connection.
ReadFrame(c) ==
  /\ At(c, "pump")
  /\ sock[c] = "open"
  /\ \/ /\ Goto(c, "look")
        /\ absentSince' = [absentSince EXCEPT ![c] = FALSE]
        /\ UNCHANGED sock
     \/ /\ Goto(c, "leave")
        /\ sock' = [sock EXCEPT ![c] = "closed"]
        /\ UNCHANGED absentSince
  /\ UNCHANGED <<connVars, rooms, connsPerIP, target, probeVars, probing,
                 told, lost>>

ReadError(c) ==
  /\ At(c, "pump")
  /\ sock[c] = "closed"
  /\ Goto(c, "leave")
  /\ UNCHANGED <<connVars, sock, rooms, connsPerIP, target, probeVars, probing,
                 histVars>>

\* The recipient is captured under the lock, and written to after it.
Look(c) ==
  /\ At(c, "look")
  /\ target' = [target EXCEPT ![c] = peerOf(c)]
  /\ Goto(c, IF peerOf(c) = None THEN "undeliverable" ELSE "forward")
  /\ UNCHANGED <<connVars, sock, rooms, connsPerIP, probeVars, probing, histVars>>

Undeliverable(c) ==
  /\ At(c, "undeliverable")
  /\ writeSignal(c, "undeliverable")
  /\ Goto(c, "pump")
  /\ UNCHANGED <<connVars, sock, rooms, connsPerIP, target, probeVars, probing,
                 told>>

\* writeRaw: an error drops the frame.
Forward(c) ==
  /\ At(c, "forward")
  /\ lost' = [lost EXCEPT ![c] =
       @ \/ (sock[target[c]] # "open" /\ ~absentSince[c])]
  /\ forget(c)
  /\ Goto(c, "pump")
  /\ UNCHANGED <<connVars, sock, rooms, connsPerIP, probeVars, probing,
                 told, absentSince>>

\* Bug: the room is deleted with the first peer that leaves it.
LeaveDeletesRoom(c) ==
  /\ At(c, "leave")
  /\ rooms' = [rooms EXCEPT ![roomOf[c]] = {}]
  /\ Goto(c, "release")
  /\ UNCHANGED <<connVars, sock, connsPerIP, target, probeVars, probing, histVars>>

\* leave, under the lock; an emptied room is deleted with its probing flag.
leave(c) ==
  LET r == roomOf[c] IN
  /\ At(c, "leave")
  /\ rooms' = [rooms EXCEPT ![r] = others(c)]
  /\ target' = [target EXCEPT ![c] = peerOf(c)]
  /\ Goto(c, IF others(c) = {} THEN "release" ELSE "left")
  /\ IF others(c) = {}
       THEN /\ probing' = probing \ {r}
            /\ orphan' = [d \in Conn |->
                 orphan[d] \/ (probe[d] = "ping" /\ probeRoom[d] = r)]
       ELSE UNCHANGED <<probing, orphan>>
  /\ unknown(c)
  /\ UNCHANGED <<connVars, sock, connsPerIP, probe, probed, probeRoom>>

\* Bug: the remaining peer is not told.
LeaveUnannounced(c) ==
  /\ At(c, "left")
  /\ forget(c)
  /\ Goto(c, "release")
  /\ UNCHANGED <<connVars, sock, rooms, connsPerIP, probeVars, probing, histVars>>

NotifyLeft(c) ==
  /\ At(c, "left")
  /\ writeSignal(target[c], "peer_left")
  /\ forget(c)
  /\ Goto(c, "release")
  /\ UNCHANGED <<connVars, sock, rooms, connsPerIP, probeVars, probing, told>>

\* A full room: its probe is started, and the connection closed below.
RejectFull(c) ==
  /\ At(c, "full")
  /\ probe' = [probe EXCEPT ![c] = "start"]
  /\ probeRoom' = [probeRoom EXCEPT ![c] = roomOf[c]]
  /\ Goto(c, "release")
  /\ UNCHANGED <<connVars, sock, rooms, connsPerIP, target, probed, orphan,
                 probing, histVars>>

Release(c) ==
  /\ At(c, "release")
  /\ hangUp(c)
  /\ UNCHANGED <<rooms, target, probeVars, probing, histVars>>

Handler(c) ==
  \/ Accept(c) \/ join(c) \/ Announce(c) \/ Greet(c) \/ Greeting(c)
  \/ ReadError(c) \/ Look(c) \/ Undeliverable(c) \/ Forward(c)
  \/ leave(c) \/ NotifyLeft(c) \/ RejectFull(c) \/ Release(c)

-----------------------------------------------------------------------------
(* probeRoom, keepalive, and the clients                                   *)

\* The probe goroutine is over.
stopProbe(c) ==
  /\ probe' = [probe EXCEPT ![c] = "none"]
  /\ probeRoom' = [probeRoom EXCEPT ![c] = None]
  /\ orphan' = [orphan EXCEPT ![c] = FALSE]

\* One probe at a time per room.
ProbeStart(c) ==
  LET r == probeRoom[c] IN
  /\ probe[c] = "start"
  /\ \/ /\ rooms[r] = {} \/ r \in probing
        /\ stopProbe(c)
        /\ UNCHANGED <<probing, probed>>
     \/ /\ rooms[r] # {} /\ r \notin probing
        /\ probe' = [probe EXCEPT ![c] = "ping"]
        /\ probing' = probing \cup {r}
        /\ probed' = [probed EXCEPT ![c] = rooms[r]]
        /\ UNCHANGED <<probeRoom, orphan>>
  /\ UNCHANGED <<pc, connVars, sock, rooms, connsPerIP, target, histVars>>

\* A peer that does not answer the ping is closed, even if it was only slow.
ProbePing(c, q) ==
  /\ probe[c] = "ping"
  /\ q \in probed[c]
  /\ probed' = [probed EXCEPT ![c] = @ \ {q}]
  /\ \/ sock[q] = "open" /\ UNCHANGED sock
     \/ sock' = [sock EXCEPT ![q] = "closed"]
  /\ UNCHANGED <<pc, connVars, rooms, connsPerIP, target, probe, probeRoom, orphan, probing,
                 histVars>>

\* Bug: the flag of whatever room has the name by now is cleared.
ProbeEndByName(c) ==
  /\ probe[c] = "ping"
  /\ probed[c] = {}
  /\ stopProbe(c)
  /\ probing' = probing \ {probeRoom[c]}
  /\ UNCHANGED <<pc, connVars, sock, rooms, connsPerIP, target, probed, histVars>>

\* The flag is cleared on the captured room.
ProbeEnd(c) ==
  /\ probe[c] = "ping"
  /\ probed[c] = {}
  /\ stopProbe(c)
  /\ probing' = IF orphan[c] THEN probing ELSE probing \ {probeRoom[c]}
  /\ UNCHANGED <<pc, connVars, sock, rooms, connsPerIP, target, probed, histVars>>

\* keepalive runs while pump does.
keepalive(c) ==
  /\ pc[c] \in {"pump", "look", "undeliverable", "forward"}
  /\ sock[c] = "frozen"
  /\ sock' = [sock EXCEPT ![c] = "closed"]
  /\ UNCHANGED <<pc, connVars, rooms, connsPerIP, target, probeVars, probing,
                 histVars>>

\* A client closes its connection, or goes away without closing it.
ClientGone(c) ==
  /\ pc[c] \notin {"start", "accept", "done"}
  /\ sock[c] = "open"
  /\ \E s \in {"frozen", "closed"} : sock' = [sock EXCEPT ![c] = s]
  /\ UNCHANGED <<pc, connVars, rooms, connsPerIP, target, probeVars, probing,
                 histVars>>

Next ==
  \E c \in Conn :
    \/ \E r \in RoomId, i \in IP : reserveIP(c, r, i)
    \/ Handler(c) \/ ReadFrame(c)
    \/ ProbeStart(c) \/ ProbeEnd(c) \/ \E q \in Conn : ProbePing(c, q)
    \/ keepalive(c) \/ ClientGone(c)

Spec == Init /\ [][Next]_vars

-----------------------------------------------------------------------------
(* Properties                                                              *)

\* The program counters between join and leave.
InRoom == {"announce", "greet", "greeting", "pump", "look", "forward",
           "undeliverable", "leave"}
\* Those that hold a per-IP slot.
HoldsSlot == InRoom \cup {"accept", "join", "left", "full", "release"}

\* Room membership and the handlers agree: a connection is in exactly the room it asked
\* for while its handler runs, and a room never has a third peer nor the relay one room
\* too many, however joins and leaves interleave.
RoomIntegrity ==
  /\ \A r \in RoomId : /\ rooms[r] = {c \in Conn : pc[c] \in InRoom /\ roomOf[c] = r}
                       /\ Cardinality(rooms[r]) <= 2
  /\ Cardinality(live) <= maxRooms

\* The per-IP counters count exactly the connections being served: no path
\* (failed upgrade, full, overloaded, closed) leaks a slot or frees one twice.
SlotsExact ==
  \A i \in IP :
    connsPerIP[i] = Cardinality({c \in Conn : pc[c] \in HoldsSlot /\ ipOf[c] = i})

\* What the relay counts and lists is what it serves, at every moment.
Accounting == RoomIntegrity /\ SlotsExact

\* Two peers in a room have each been told the other joined, or the goroutine
\* that will tell them has not got to it yet: pairing starts on that signal.
PeersTold ==
  \A c, d \in Conn :
    /\ c # d /\ roomOf[c] = roomOf[d]
    /\ pc[c] \in InRoom /\ pc[d] \in InRoom
    => \/ d \in told[c]
       \/ pc[c] \in {"announce", "greet"}
       \/ pc[c] = "greeting" /\ target[c] = d
       \/ pc[d] = "announce" /\ target[d] = c

\* A frame of a client that went to a dead peer is never lost for good without a word:
\* the dead peer is still in the room, or its handler is about to tell this client (the
\* agent re-announces its open request when it hears that the phone was gone).
LossOwed ==
  \A c \in Conn :
    lost[c] /\ sock[c] = "open" =>
      \E d \in Conn : /\ sock[d] # "open" /\ roomOf[d] = roomOf[c]
                      /\ pc[d] \in InRoom \/ (pc[d] = "left" /\ target[d] = c)

\* The probe goroutine of c works on a room that still exists.
Probing(c) == probe[c] = "ping" /\ ~orphan[c]

\* The probing flag of a live room is that of one running probe: a probe that outlived
\* its room does not free the flag of the room's successor, which a second probe may
\* hold by then, and no flag is left behind to switch the probes of a room off for ever.
ProbeFlagOwned ==
  /\ \A c \in Conn : Probing(c) => probeRoom[c] \in probing
  /\ \A c, d \in Conn : Probing(c) /\ Probing(d) /\ probeRoom[c] = probeRoom[d] => c = d
  /\ \A r \in probing : \E c \in Conn : Probing(c) /\ probeRoom[c] = r

=============================================================================
