---------------------------- MODULE RelayProofs ----------------------------
(***************************************************************************)
(* Proofs about the relay: type correctness, the inductive invariant IInv, *)
(* and from it the four properties of Relay, for any number of connections,*)
(* rooms and addresses.  The last part is about the client that Link puts  *)
(* on it, with an invariant of its own, LinkInv.                           *)
(***************************************************************************)
EXTENDS Link, FiniteSetTheorems, TLAPS

(***************************************************************************)
(* The inductive invariant                                                 *)
(***************************************************************************)

\* What a handler at work was asked for is known, and a greeting is about somebody.
Asked ==
  \A c \in Conn : /\ pc[c] \notin {"start", "done"} => roomOf[c] \in RoomId /\ ipOf[c] \in IP
                  /\ pc[c] = "greeting" => target[c] \in Conn

\* The handlers serving room r, and those holding a slot of address i.
Members(r) == {c \in Conn : pc[c] \in InRoom /\ roomOf[c] = r}
Holders(i) == {c \in Conn : pc[c] \in HoldsSlot /\ ipOf[c] = i}

RoomsExact ==
  /\ \A r \in RoomId : /\ rooms[r] = Members(r)
                       /\ IsFiniteSet(rooms[r]) /\ Cardinality(rooms[r]) <= 2
  /\ IsFiniteSet(live) /\ Cardinality(live) <= maxRooms

HoldersExact ==
  \A i \in IP : /\ IsFiniteSet(Holders(i))
                /\ connsPerIP[i] = Cardinality(Holders(i))

\* A client that has lost a frame is still in its room, with an open socket
\* only if it has not been told since: and the peer a frame is about to be
\* written to will say that it left, or has.
InRoomWith(d, c) ==
  /\ roomOf[d] = roomOf[c]
  /\ pc[d] \in InRoom \/ (pc[d] = "left" /\ target[d] = c)

Loss(c) ==
  /\ pc[c] = "leave" => sock[c] = "closed"
  /\ lost[c] /\ sock[c] = "open" =>
       /\ pc[c] \in InRoom
       /\ \E d \in Conn : sock[d] # "open" /\ InRoomWith(d, c)
  /\ pc[c] = "forward" =>
       /\ target[c] \in Conn
       /\ InRoomWith(target[c], c) \/ absentSince[c] \/ sock[c] # "open"

Losses == \A c \in Conn : Loss(c)

\* Only a rejected connection has a probe, of the room that was full, and only a
\* running one loses its room.
Rejected(c) == /\ probe[c] # "none" => pc[c] \in {"release", "done"} /\ probeRoom[c] \in RoomId
               /\ orphan[c] => probe[c] = "ping"

Probes == ProbeFlagOwned /\ \A c \in Conn : Rejected(c)

IInv ==
  TypeOK /\ Asked /\ RoomsExact /\ HoldersExact /\ PeersTold /\ Losses /\ Probes
(***************************************************************************)
(* Types                                                                   *)
(***************************************************************************)

\* Initially nothing is served.
LEMMA InitIInv == Init => IInv
<1> SUFFICES ASSUME Init PROVE IInv
  OBVIOUS
<1>1. TypeOK
  BY RelayAssumption DEF Init, TypeOK
<1>2. live = {} /\ \A r \in RoomId : Members(r) = {}
  BY DEF Init, live, Members, InRoom
<1>3. RoomsExact
  BY <1>2, FS_EmptySet, RelayAssumption DEF Init, RoomsExact
<1>4. \A i \in IP : Holders(i) = {}
  BY DEF Init, Holders, HoldsSlot, InRoom
<1>5. HoldersExact
  BY <1>4, FS_EmptySet DEF Init, HoldersExact
<1>6. PeersTold /\ Losses
  BY DEF Init, PeersTold, Losses, Loss, InRoom
<1>7. Probes
  BY DEF Init, Probes, Rejected, ProbeFlagOwned, Probing
<1>8. QED
  BY <1>1, <1>3, <1>5, <1>6, <1>7 DEF Init, IInv, Asked

\* The peer of a connection is a connection.
LEMMA PeerType ==
  ASSUME NEW c \in Conn, TypeOK, roomOf[c] \in RoomId
  PROVE  peerOf(c) \in Conn \cup {None} /\ (peerOf(c) # None => peerOf(c) \in others(c))
<1>1. others(c) \subseteq Conn
  BY DEF others, TypeOK
<1>2. others(c) # {} => (CHOOSE q \in others(c) : TRUE) \in others(c)
  OBVIOUS
<1>3. QED
  BY <1>1, <1>2 DEF peerOf

\* A signal changes what its receiver knows, and nothing of another type.
LEMMA SignalType ==
  ASSUME TypeOK, NEW q, NEW sig, writeSignal(q, sig)
  PROVE  absentSince' \in [Conn -> BOOLEAN] /\ lost' \in [Conn -> BOOLEAN]
BY DEF TypeOK, writeSignal

\* A connection that ends gives its slot back.
LEMMA HangUpType ==
  ASSUME TypeOK, Asked, NEW c \in Conn, hangUp(c), pc[c] \notin {"start", "done"}
  PROVE  /\ pc' = [pc EXCEPT ![c] = "done"]
         /\ sock' \in [Conn -> {"open", "frozen", "closed"}]
         /\ connsPerIP' \in [IP -> 0 .. maxConnsPerIP]
         /\ roomOf' \in [Conn -> RoomId \cup {None}] /\ ipOf' \in [Conn -> IP \cup {None}]
         /\ \A d \in Conn \ {c} : roomOf'[d] = roomOf[d] /\ ipOf'[d] = ipOf[d]
<1> USE RelayAssumption DEF TypeOK, Asked, hangUp, Goto
<1>1. connsPerIP' \in [IP -> 0 .. maxConnsPerIP]
  BY DEF hangUp
<1>2. QED
  BY <1>1

\* Every step keeps the types, and no address is served above its limit.
LEMMA NextType == TypeOK /\ Asked /\ Probes /\ [Next]_vars => TypeOK' /\ Asked'
<1> SUFFICES ASSUME TypeOK, Asked, Probes, [Next]_vars PROVE TypeOK' /\ Asked'
  OBVIOUS
<1> USE RelayAssumption DEF TypeOK, Asked, Goto, At, forget, connVars,
   probeVars, histVars
<1>1. ASSUME NEW c \in Conn, NEW r \in RoomId, NEW i \in IP, reserveIP(c, r, i)
      PROVE  TypeOK' /\ Asked'
  <2>1. CASE Goto(c, "done") /\ UNCHANGED <<connsPerIP, connVars, sock, histVars>>
    BY <1>1, <2>1 DEF reserveIP
  <2>2. CASE /\ connsPerIP[i] < maxConnsPerIP
             /\ connsPerIP' = [connsPerIP EXCEPT ![i] = @ + 1]
             /\ roomOf' = [roomOf EXCEPT ![c] = r] /\ ipOf' = [ipOf EXCEPT ![c] = i]
             /\ sock' = [sock EXCEPT ![c] = "open"]
             /\ Goto(c, "accept") /\ unknown(c)
    <3>1. /\ told' \in [Conn -> SUBSET Conn]
          /\ absentSince' \in [Conn -> BOOLEAN] /\ lost' \in [Conn -> BOOLEAN]
      BY <2>2 DEF unknown
    <3>2. UNCHANGED <<rooms, target, probeVars, probing>>
      BY <1>1 DEF reserveIP
    <3>3. connsPerIP' \in [IP -> 0 .. maxConnsPerIP]
      BY <2>2
    <3>4. TypeOK'
      BY <2>2, <3>1, <3>2, <3>3
    <3>5. Asked'
      BY <2>2, <3>2
    <3>6. QED
      BY <3>4, <3>5
  <2>3. QED
    BY <1>1, <2>1, <2>2 DEF reserveIP
<1>2. ASSUME NEW c \in Conn, Accept(c) PROVE TypeOK' /\ Asked'
  <2>1. CASE Goto(c, "join") /\ UNCHANGED <<sock, connsPerIP, connVars>>
    BY <1>2, <2>1 DEF Accept
  <2>2. CASE hangUp(c)
    BY <1>2, <2>2, HangUpType DEF Accept
  <2>3. QED
    BY <1>2, <2>1, <2>2 DEF Accept
<1>3. ASSUME NEW c \in Conn, join(c) PROVE TypeOK' /\ Asked'
  <2>1. roomOf[c] \in RoomId
    BY <1>3 DEF join
  <2>2. /\ rooms' \in [RoomId -> SUBSET Conn]
        /\ target' \in [Conn -> Conn \cup {None}]
        /\ \E l \in {"release", "full", "greet", "announce"} : Goto(c, l)
    <3>1. peerOf(c) \in Conn \cup {None}
      BY <2>1, PeerType
    <3>2. rooms' \in [RoomId -> SUBSET Conn]
      BY <1>3, <2>1 DEF join
    <3>3. target' \in [Conn -> Conn \cup {None}]
      BY <1>3, <3>1 DEF join
    <3>4. \E l \in {"release", "full", "greet", "announce"} : Goto(c, l)
      BY <1>3 DEF join
    <3>5. QED
      BY <3>2, <3>3, <3>4
  <2>3. QED
    BY <1>3, <2>2 DEF join
<1>4. ASSUME NEW c \in Conn, Announce(c) PROVE TypeOK' /\ Asked'
  <2>1. told' \in [Conn -> SUBSET Conn]
    BY <1>4 DEF Announce
  <2>2. TypeOK'
    BY <1>4, <2>1, SignalType DEF Announce
  <2>3. Asked'
    BY <1>4 DEF Announce
  <2>4. QED
    BY <2>2, <2>3
<1>5. ASSUME NEW c \in Conn, Greet(c) PROVE TypeOK' /\ Asked'
  BY <1>5, PeerType DEF Greet
<1>6. ASSUME NEW c \in Conn, Greeting(c) PROVE TypeOK' /\ Asked'
  BY <1>6, SignalType DEF Greeting
<1>7. ASSUME NEW c \in Conn, ReadError(c) PROVE TypeOK' /\ Asked'
  BY <1>7 DEF ReadError
<1>8. ASSUME NEW c \in Conn, Look(c) PROVE TypeOK' /\ Asked'
  BY <1>8, PeerType DEF Look
<1>9. ASSUME NEW c \in Conn, Undeliverable(c) PROVE TypeOK' /\ Asked'
  BY <1>9, SignalType DEF Undeliverable
<1>10. ASSUME NEW c \in Conn, Forward(c) PROVE TypeOK' /\ Asked'
  BY <1>10 DEF Forward
<1>11. ASSUME NEW c \in Conn, leave(c) PROVE TypeOK' /\ Asked'
  <2>1. rooms' \in [RoomId -> SUBSET Conn] /\ target' \in [Conn -> Conn \cup {None}]
    BY <1>11, PeerType DEF leave, others
  <2>2. orphan' \in [Conn -> BOOLEAN] /\ probing' \subseteq RoomId
    <3>1. CASE others(c) = {}
      <4>1. orphan' = [d \in Conn |-> orphan[d] \/ (probe[d] = "ping" /\ probeRoom[d] = roomOf[c])]
        BY <1>11, <3>1 DEF leave
      <4>2. QED
        BY <1>11, <3>1, <4>1 DEF leave
    <3>2. QED
      BY <1>11, <3>1 DEF leave
  <2>3. TypeOK'
    BY <1>11, <2>1, <2>2 DEF leave, unknown
  <2>4. Asked'
    BY <1>11 DEF leave
  <2>5. QED
    BY <2>3, <2>4
<1>12. ASSUME NEW c \in Conn, NotifyLeft(c) PROVE TypeOK' /\ Asked'
  BY <1>12, SignalType DEF NotifyLeft
<1>13. ASSUME NEW c \in Conn, RejectFull(c) PROVE TypeOK' /\ Asked'
  BY <1>13 DEF RejectFull
<1>14. ASSUME NEW c \in Conn, Release(c) PROVE TypeOK' /\ Asked'
  <2>1. pc[c] = "release" /\ hangUp(c) /\ UNCHANGED <<rooms, target, probeVars, probing, histVars>>
    BY <1>14 DEF Release
  <2>2. /\ pc' = [pc EXCEPT ![c] = "done"]
        /\ sock' \in [Conn -> {"open", "frozen", "closed"}]
        /\ connsPerIP' \in [IP -> 0 .. maxConnsPerIP]
        /\ roomOf' \in [Conn -> RoomId \cup {None}] /\ ipOf' \in [Conn -> IP \cup {None}]
        /\ \A d \in Conn \ {c} : roomOf'[d] = roomOf[d] /\ ipOf'[d] = ipOf[d]
    BY <2>1, HangUpType
  <2>3. TypeOK'
    BY <2>1, <2>2
  <2>4. Asked'
    BY <2>1, <2>2
  <2>5. QED
    BY <2>3, <2>4
<1>15. ASSUME NEW c \in Conn, ReadFrame(c) PROVE TypeOK' /\ Asked'
  <2>1. TypeOK'
    <3>1. \E l \in {"look", "leave"} : pc' = [pc EXCEPT ![c] = l]
      BY <1>15 DEF ReadFrame
    <3>2. sock' \in [Conn -> {"open", "frozen", "closed"}]
      BY <1>15 DEF ReadFrame
    <3>3. absentSince' \in [Conn -> BOOLEAN]
      BY <1>15 DEF ReadFrame
    <3>4. UNCHANGED <<connVars, rooms, connsPerIP, target, probeVars, probing, told, lost>>
      BY <1>15 DEF ReadFrame
    <3>5. pc' \in [Conn -> {"start", "accept", "join", "announce", "greet", "greeting",
                             "pump", "look", "forward", "undeliverable", "leave",
                             "left", "full", "release", "done"}]
      BY <3>1
    <3>6. QED
      BY <3>2, <3>3, <3>4, <3>5
  <2>2. Asked'
    BY <1>15 DEF ReadFrame
  <2>3. QED
    BY <2>1, <2>2
<1>16. ASSUME NEW c \in Conn, ProbeStart(c) PROVE TypeOK' /\ Asked'
  <2>1. probeRoom[c] \in RoomId
    BY <1>16 DEF ProbeStart, Probes, Rejected
  <2>2. QED
    <3>1. CASE stopProbe(c) /\ UNCHANGED <<probing, probed>>
      BY <1>16, <3>1 DEF ProbeStart, stopProbe
    <3>2. CASE /\ probe' = [probe EXCEPT ![c] = "ping"]
               /\ probing' = probing \cup {probeRoom[c]}
               /\ probed' = [probed EXCEPT ![c] = rooms[probeRoom[c]]]
               /\ UNCHANGED <<probeRoom, orphan>>
      BY <1>16, <2>1, <3>2 DEF ProbeStart
    <3>3. QED
      BY <1>16, <3>1, <3>2 DEF ProbeStart
<1>17. ASSUME NEW c \in Conn, ProbeEnd(c) PROVE TypeOK' /\ Asked'
  BY <1>17 DEF ProbeEnd, stopProbe
<1>18. ASSUME NEW c \in Conn, NEW q \in Conn, ProbePing(c, q) PROVE TypeOK' /\ Asked'
  BY <1>18 DEF ProbePing
<1>19. ASSUME NEW c \in Conn, keepalive(c) PROVE TypeOK' /\ Asked'
  BY <1>19 DEF keepalive
<1>20. ASSUME NEW c \in Conn, ClientGone(c) PROVE TypeOK' /\ Asked'
  BY <1>20 DEF ClientGone
<1>21. CASE UNCHANGED vars
  BY <1>21 DEF vars
<1>22. QED
  BY <1>1, <1>2, <1>3, <1>4, <1>5, <1>6, <1>7, <1>8, <1>9, <1>10, <1>11,
     <1>12, <1>13, <1>14, <1>15, <1>16, <1>17, <1>18, <1>19, <1>20, <1>21
  DEF Next, Handler

(***************************************************************************)
(* Rooms and slots                                                         *)
(***************************************************************************)

\* One more.
LEMMA AddOne ==
  ASSUME NEW S, NEW T, NEW x, IsFiniteSet(S), x \notin S, T = S \cup {x}
  PROVE  IsFiniteSet(T) /\ Cardinality(T) = Cardinality(S) + 1 /\ Cardinality(S) \in Nat
BY FS_AddElement, FS_CardinalityType

\* And one less.
LEMMA RemoveOne ==
  ASSUME NEW S, NEW T, NEW x, IsFiniteSet(S), x \in S, T = S \ {x}
  PROVE  /\ IsFiniteSet(T) /\ Cardinality(T) = Cardinality(S) - 1
         /\ Cardinality(S) \in Nat \ {0}
<1>1. IsFiniteSet(T) /\ Cardinality(T) = Cardinality(S) - 1
  BY FS_RemoveElement
<1>2. Cardinality(S) \in Nat /\ Cardinality(S) # 0
  BY FS_EmptySet, FS_CardinalityType
<1>3. QED
  BY <1>1, <1>2

\* None is no connection.
LEMMA NoneIsNobody == None \notin Conn
  BY RelayAssumption

\* In a room of two, the other peer is the other one.
LEMMA PeerIs ==
  ASSUME NEW c \in Conn, NEW d \in Conn, c # d, RoomsExact, Asked,
         pc[c] \in InRoom, pc[d] \in InRoom, roomOf[c] = roomOf[d]
  PROVE  others(c) = {d} /\ peerOf(c) = d
<1> DEFINE R == rooms[roomOf[c]]
<1>1. roomOf[c] \in RoomId
  BY DEF Asked, InRoom
<1>2. c \in R /\ d \in R
  BY <1>1 DEF RoomsExact, Members
<1>3. IsFiniteSet(R) /\ Cardinality(R) <= 2
  BY <1>1 DEF RoomsExact
<1>4. /\ IsFiniteSet(R \ {c}) /\ Cardinality(R \ {c}) = Cardinality(R) - 1
      /\ Cardinality(R) \in Nat
  BY <1>2, <1>3, RemoveOne
<1>5. d \in R \ {c}
  BY <1>2
<1>6. Cardinality(R \ {c}) # 0 /\ Cardinality(R \ {c}) \in Nat
  BY <1>4, <1>5, FS_EmptySet, FS_CardinalityType
<1>7. Cardinality(R \ {c}) = 1
  BY <1>3, <1>4, <1>6
<1>8. R \ {c} = {d}
  <2>1. PICK x : R \ {c} = {x}
    BY <1>4, <1>7, FS_Singleton, Zenon
  <2>2. QED
    BY <1>5, <2>1
<1>9. QED
  BY <1>8 DEF others, peerOf

\* Joins and leaves keep the rooms, everything else leaves them alone.
LEMMA NextRooms == TypeOK /\ Asked /\ RoomsExact /\ Probes /\ [Next]_vars => RoomsExact'
<1> SUFFICES ASSUME TypeOK, Asked, RoomsExact, Probes, [Next]_vars PROVE RoomsExact'
  OBVIOUS
<1> USE DEF TypeOK, Goto, At, forget, connVars, probeVars, histVars
<1>1. ASSUME rooms' = rooms, \A r \in RoomId : Members(r)' = Members(r)
      PROVE  RoomsExact'
  BY <1>1 DEF RoomsExact, live
<1>2. ASSUME rooms' = rooms,
             \A d \in Conn : /\ pc'[d] \in InRoom <=> pc[d] \in InRoom
                             /\ pc[d] \in InRoom => roomOf'[d] = roomOf[d]
      PROVE  RoomsExact'
  <2>1. ASSUME NEW r \in RoomId PROVE Members(r)' = Members(r)
    <3>1. \A d \in Conn :
            (pc'[d] \in InRoom /\ roomOf'[d] = r) <=> (pc[d] \in InRoom /\ roomOf[d] = r)
      BY <1>2
    <3>2. QED
      BY <3>1 DEF Members
  <2>2. QED
    BY <1>1, <1>2, <2>1
<1>3. ASSUME NEW c \in Conn, NEW r \in RoomId, NEW i \in IP, reserveIP(c, r, i)
      PROVE  RoomsExact'
  <2>1. \A d \in Conn : pc'[d] \in InRoom <=> pc[d] \in InRoom
    BY <1>3 DEF reserveIP, Unused, InRoom
  <2>2. \A d \in Conn : pc[d] \in InRoom => roomOf'[d] = roomOf[d]
    BY <1>3 DEF reserveIP, Unused, InRoom
  <2>3. QED
    BY <1>1, <1>3, <2>1, <2>2 DEF reserveIP, Members
<1>4. ASSUME NEW c \in Conn, join(c) PROVE RoomsExact'
  <2> DEFINE r == roomOf[c]
  <2>1. r \in RoomId /\ c \notin Members(r)
    BY <1>4 DEF join, Asked, Members, InRoom
  <2>2. CASE rooms' = rooms /\ pc'[c] \notin InRoom
    <3>1. \A d \in Conn : pc'[d] \in InRoom <=> pc[d] \in InRoom
      BY <1>4, <2>2 DEF join, InRoom
    <3>2. QED
      BY <1>2, <1>4, <2>2, <3>1 DEF join
  <2>3. ASSUME rooms' = [rooms EXCEPT ![r] = @ \cup {c}],
               pc' \in {[pc EXCEPT ![c] = "greet"], [pc EXCEPT ![c] = "announce"]},
               Cardinality(rooms[r]) <= 1,
               rooms[r] # {} \/ Cardinality(live) < maxRooms
        PROVE  RoomsExact'
    <3>1. roomOf' = roomOf
      BY <1>4 DEF join
    <3>2. \A q \in RoomId : rooms'[q] = Members(q)'
      BY <2>1, <2>3, <3>1 DEF RoomsExact, Members, InRoom
    <3>3. IsFiniteSet(rooms'[r]) /\ Cardinality(rooms'[r]) <= 2
      <4>1. rooms'[r] = rooms[r] \cup {c} /\ IsFiniteSet(rooms[r]) /\ c \notin rooms[r]
        BY <2>1, <2>3 DEF RoomsExact
      <4>2. IsFiniteSet(rooms'[r]) /\ Cardinality(rooms'[r]) = Cardinality(rooms[r]) + 1
        BY <4>1, AddOne
      <4>3. Cardinality(rooms[r]) \in Nat
        BY <4>1, FS_CardinalityType
      <4>4. QED
        BY <2>3, <4>2, <4>3
    <3>4. \A q \in RoomId : IsFiniteSet(rooms'[q]) /\ Cardinality(rooms'[q]) <= 2
      BY <2>3, <3>3 DEF RoomsExact
    <3>5. live' = live \cup {r}
      <4>1. \A q \in RoomId : rooms'[q] # {} <=> q = r \/ rooms[q] # {}
        BY <2>1, <2>3
      <4>2. QED
        BY <2>1, <4>1 DEF live
    <3>6. IsFiniteSet(live') /\ Cardinality(live') <= maxRooms
      <4>1. /\ IsFiniteSet(live \cup {r})
            /\ Cardinality(live \cup {r}) =
                 IF r \in live THEN Cardinality(live) ELSE Cardinality(live) + 1
        BY FS_AddElement DEF RoomsExact
      <4>2. r \in live \/ Cardinality(live) < maxRooms
        BY <2>1, <2>3 DEF live
      <4>3. Cardinality(live) \in Nat /\ maxRooms \in Nat
        BY FS_CardinalityType, RelayAssumption DEF RoomsExact
      <4>4. QED
        BY <3>5, <4>1, <4>2, <4>3 DEF RoomsExact
    <3>7. QED
      BY <3>2, <3>4, <3>6 DEF RoomsExact
  <2>4. CASE /\ rooms[r] = {} /\ Cardinality(live) < maxRooms
             /\ Goto(c, "greet") /\ rooms' = [rooms EXCEPT ![r] = {c}]
    BY <2>3, <2>4, FS_EmptySet
  <2>5. CASE /\ Cardinality(rooms[r]) = 1
             /\ Goto(c, "announce") /\ rooms' = [rooms EXCEPT ![r] = @ \cup {c}]
    <3>1. rooms[r] # {}
      <4>1. IsFiniteSet(rooms[r])
        BY <2>1 DEF RoomsExact
      <4>2. Cardinality(rooms[r]) # 0
        BY <2>5
      <4>3. QED
        BY <4>1, <4>2, FS_EmptySet, Zenon
    <3>2. QED
      BY <2>3, <2>5, <3>1
  <2>6. QED
    BY <1>4, <2>2, <2>4, <2>5 DEF join, InRoom
<1>5. ASSUME NEW c \in Conn, leave(c) PROVE RoomsExact'
  <2> DEFINE r == roomOf[c]
  <2>1. pc[c] \in InRoom /\ r \in RoomId
    BY <1>5 DEF leave, Asked, InRoom
  <2>2. rooms' = [rooms EXCEPT ![r] = rooms[r] \ {c}] /\ roomOf' = roomOf
    BY <1>5 DEF leave, others
  <2>3. pc'[c] \notin InRoom /\ \A d \in Conn \ {c} : pc'[d] = pc[d]
    BY <1>5 DEF leave, InRoom
  <2>4. \A q \in RoomId : rooms'[q] = Members(q)'
    BY <2>1, <2>2, <2>3 DEF RoomsExact, Members
  <2>5. IsFiniteSet(rooms[r] \ {c}) /\ Cardinality(rooms[r] \ {c}) <= 2
    <3>1. IsFiniteSet(rooms[r]) /\ Cardinality(rooms[r]) <= 2
      BY <2>1 DEF RoomsExact
    <3>2. Cardinality(rooms[r]) \in Nat
      BY <3>1, FS_CardinalityType
    <3>3. /\ IsFiniteSet(rooms[r] \ {c})
          /\ Cardinality(rooms[r] \ {c}) \in {Cardinality(rooms[r]), Cardinality(rooms[r]) - 1}
      BY <3>1, FS_RemoveElement, Zenon
    <3>4. QED
      BY <3>1, <3>2, <3>3
  <2>6. \A q \in RoomId : IsFiniteSet(rooms'[q]) /\ Cardinality(rooms'[q]) <= 2
    BY <2>1, <2>2, <2>5 DEF RoomsExact
  <2>7. live' \in SUBSET live
    BY <2>1, <2>2 DEF live
  <2>8. IsFiniteSet(live') /\ Cardinality(live') <= Cardinality(live)
    BY <2>7, FS_Subset DEF RoomsExact
  <2>9. Cardinality(live') <= maxRooms
    BY <2>8, FS_CardinalityType, RelayAssumption DEF RoomsExact
  <2>10. QED
    BY <2>4, <2>6, <2>8, <2>9 DEF RoomsExact
<1>6. ASSUME NEW c \in Conn, Accept(c) \/ NotifyLeft(c) \/ RejectFull(c) \/ Release(c)
      PROVE  RoomsExact'
  BY <1>2, <1>6 DEF Accept, NotifyLeft, RejectFull, Release, hangUp, InRoom
<1>7. ASSUME NEW c \in Conn, Announce(c) \/ Greet(c) \/ Greeting(c) PROVE RoomsExact'
  BY <1>2, <1>7 DEF Announce, Greet, Greeting, InRoom
<1>8. ASSUME NEW c \in Conn, ReadFrame(c) \/ ReadError(c) PROVE RoomsExact'
  BY <1>2, <1>8 DEF ReadFrame, ReadError, InRoom
<1>9. ASSUME NEW c \in Conn, Look(c) \/ Undeliverable(c) \/ Forward(c) PROVE RoomsExact'
  BY <1>2, <1>9 DEF Look, Undeliverable, Forward, InRoom
<1>10. ASSUME NEW c \in Conn,
              \/ ProbeStart(c) \/ ProbeEnd(c) \/ (\E q \in Conn : ProbePing(c, q))
              \/ keepalive(c) \/ ClientGone(c)
       PROVE  RoomsExact'
  BY <1>2, <1>10 DEF ProbeStart, ProbeEnd, ProbePing, keepalive, ClientGone
<1>11. CASE UNCHANGED vars
  BY <1>2, <1>11 DEF vars
<1>12. QED
  BY <1>3, <1>4, <1>5, <1>6, <1>7, <1>8, <1>9, <1>10, <1>11 DEF Next, Handler

\* The counters follow the handlers into a slot and out of it.
LEMMA NextHolders == TypeOK /\ Asked /\ HoldersExact /\ Probes /\ [Next]_vars => HoldersExact'
<1> SUFFICES ASSUME TypeOK, Asked, HoldersExact, Probes, [Next]_vars PROVE HoldersExact'
  OBVIOUS
<1> USE DEF TypeOK, Goto, At, forget, connVars, probeVars, histVars
<1>1. ASSUME connsPerIP' = connsPerIP, ipOf' = ipOf,
             \A d \in Conn : pc'[d] \in HoldsSlot <=> pc[d] \in HoldsSlot
      PROVE  HoldersExact'
  <2>1. \A i \in IP : Holders(i)' = Holders(i)
    BY <1>1 DEF Holders
  <2>2. QED
    BY <1>1, <2>1 DEF HoldersExact
<1>2. ASSUME NEW c \in Conn, NEW r \in RoomId, NEW i \in IP, reserveIP(c, r, i)
      PROVE  HoldersExact'
  <2>1. c \notin Holders(i) /\ \A j \in IP : c \notin Holders(j)
    BY <1>2 DEF reserveIP, Unused, Holders, HoldsSlot, InRoom
  <2>2. \A j \in IP \ {i} : Holders(j)' = Holders(j) /\ connsPerIP'[j] = connsPerIP[j]
    <3>1. connsPerIP' = connsPerIP \/ connsPerIP' = [connsPerIP EXCEPT ![i] = @ + 1]
      BY <1>2 DEF reserveIP
    <3>2. \A d \in Conn \ {c} : pc'[d] = pc[d] /\ ipOf'[d] = ipOf[d]
      BY <1>2 DEF reserveIP
    <3>3. pc'[c] = "done" \/ ipOf'[c] = i
      BY <1>2 DEF reserveIP
    <3>4. QED
      BY <2>1, <3>1, <3>2, <3>3 DEF Holders, HoldsSlot, InRoom
  <2>3. CASE /\ connsPerIP[i] < maxConnsPerIP
             /\ connsPerIP' = [connsPerIP EXCEPT ![i] = @ + 1]
             /\ ipOf' = [ipOf EXCEPT ![c] = i]
             /\ Goto(c, "accept")
    <3>1. Holders(i)' = Holders(i) \cup {c}
      BY <2>1, <2>3 DEF Holders, HoldsSlot
    <3>2. IsFiniteSet(Holders(i)') /\ Cardinality(Holders(i)') = Cardinality(Holders(i)) + 1
      BY <2>1, <3>1, AddOne DEF HoldersExact
    <3>3. connsPerIP'[i] = connsPerIP[i] + 1
      BY <2>3
    <3>4. QED
      BY <2>2, <3>2, <3>3 DEF HoldersExact
  <2>4. CASE Goto(c, "done") /\ UNCHANGED <<connsPerIP, connVars>>
    <3>1. Holders(i)' = Holders(i)
      BY <2>1, <2>4 DEF Holders, HoldsSlot, InRoom
    <3>2. QED
      BY <2>2, <2>4, <3>1 DEF HoldersExact
  <2>5. QED
    BY <1>2, <2>3, <2>4 DEF reserveIP
<1>3. ASSUME NEW c \in Conn, pc[c] \in HoldsSlot, hangUp(c)
      PROVE  HoldersExact'
  <2>1. ASSUME NEW i \in IP, ipOf[c] = i
        PROVE  IsFiniteSet(Holders(i)') /\ connsPerIP'[i] = Cardinality(Holders(i)')
    <3>1. c \in Holders(i) /\ Holders(i)' = Holders(i) \ {c}
      BY <1>3, <2>1 DEF hangUp, Holders, HoldsSlot, InRoom
    <3>2. /\ IsFiniteSet(Holders(i)')
          /\ Cardinality(Holders(i)') = Cardinality(Holders(i)) - 1
          /\ Cardinality(Holders(i)) \in Nat \ {0}
      BY <3>1, RemoveOne DEF HoldersExact
    <3>3. connsPerIP'[i] = connsPerIP[i] - 1
      BY <1>3, <2>1, <3>2 DEF hangUp, HoldersExact
    <3>4. QED
      BY <3>2, <3>3 DEF HoldersExact
  <2>2. ASSUME NEW i \in IP, ipOf[c] # i
        PROVE  IsFiniteSet(Holders(i)') /\ connsPerIP'[i] = Cardinality(Holders(i)')
    <3>1. Holders(i)' = Holders(i) /\ connsPerIP'[i] = connsPerIP[i]
      BY <1>3, <2>2 DEF hangUp, Holders, HoldsSlot, InRoom
    <3>2. QED
      BY <3>1 DEF HoldersExact
  <2>3. QED
    BY <2>1, <2>2 DEF HoldersExact
<1>4. ASSUME NEW c \in Conn, Accept(c) PROVE HoldersExact'
  <2>1. CASE Goto(c, "join") /\ UNCHANGED <<sock, connsPerIP, connVars>>
    BY <1>1, <1>4, <2>1 DEF Accept, HoldsSlot, InRoom
  <2>2. CASE hangUp(c)
    BY <1>3, <1>4, <2>2 DEF Accept, HoldsSlot
  <2>3. QED
    BY <1>4, <2>1, <2>2 DEF Accept
<1>5. ASSUME NEW c \in Conn, Release(c) PROVE HoldersExact'
  BY <1>3, <1>5 DEF Release, HoldsSlot
<1>6. ASSUME NEW c \in Conn, join(c) \/ leave(c) PROVE HoldersExact'
  BY <1>1, <1>6 DEF join, leave, HoldsSlot, InRoom
<1>7. ASSUME NEW c \in Conn, NotifyLeft(c) \/ RejectFull(c) PROVE HoldersExact'
  BY <1>1, <1>7 DEF NotifyLeft, RejectFull, HoldsSlot, InRoom
<1>8. ASSUME NEW c \in Conn, Announce(c) \/ Greet(c) \/ Greeting(c) PROVE HoldersExact'
  BY <1>1, <1>8 DEF Announce, Greet, Greeting, HoldsSlot, InRoom
<1>9. ASSUME NEW c \in Conn, ReadFrame(c) \/ ReadError(c) PROVE HoldersExact'
  BY <1>1, <1>9 DEF ReadFrame, ReadError, HoldsSlot, InRoom
<1>10. ASSUME NEW c \in Conn, Look(c) \/ Undeliverable(c) \/ Forward(c) PROVE HoldersExact'
  BY <1>1, <1>10 DEF Look, Undeliverable, Forward, HoldsSlot, InRoom
<1>11. ASSUME NEW c \in Conn,
              \/ ProbeStart(c) \/ ProbeEnd(c) \/ (\E q \in Conn : ProbePing(c, q))
              \/ keepalive(c) \/ ClientGone(c)
       PROVE  HoldersExact'
  BY <1>1, <1>11 DEF ProbeStart, ProbeEnd, ProbePing, keepalive, ClientGone
<1>12. CASE UNCHANGED vars
  BY <1>1, <1>12 DEF vars
<1>13. QED
  BY <1>2, <1>4, <1>5, <1>6, <1>7, <1>8, <1>9, <1>10, <1>11, <1>12 DEF Next, Handler

(***************************************************************************)
(* What clients are told                                                   *)
(***************************************************************************)

\* Whoever joins a room announces itself to the peer in it, and greets that
\* peer to itself.
LEMMA NextTold ==
  TypeOK /\ Asked /\ RoomsExact /\ Probes /\ PeersTold /\ [Next]_vars => PeersTold'
<1> SUFFICES ASSUME TypeOK, Asked, RoomsExact, Probes, PeersTold, [Next]_vars,
                    NEW c \in Conn, NEW d \in Conn, c # d, (roomOf[c] = roomOf[d])',
                    (pc[c] \in InRoom)', (pc[d] \in InRoom)'
             PROVE  \/ d \in told'[c]
                    \/ pc'[c] \in {"announce", "greet"}
                    \/ pc'[c] = "greeting" /\ target'[c] = d
                    \/ pc'[d] = "announce" /\ target'[d] = c
  BY DEF PeersTold
<1> DEFINE Goal == \/ d \in told'[c]
                   \/ pc'[c] \in {"announce", "greet"}
                   \/ pc'[c] = "greeting" /\ target'[c] = d
                   \/ pc'[d] = "announce" /\ target'[d] = c
<1> USE DEF TypeOK, Goto, At, forget, connVars, probeVars, histVars
<1>1. pc[c] \in InRoom /\ pc[d] \in InRoom /\ roomOf[c] = roomOf[d] =>
        \/ d \in told[c]
        \/ pc[c] \in {"announce", "greet"}
        \/ pc[c] = "greeting" /\ target[c] = d
        \/ pc[d] = "announce" /\ target[d] = c
  BY DEF PeersTold
<1>2. ASSUME NEW e \in Conn, NEW r \in RoomId, NEW i \in IP, reserveIP(e, r, i) PROVE Goal
  BY <1>1, <1>2 DEF reserveIP, Unused, unknown, InRoom
<1>3. ASSUME NEW e \in Conn, join(e) PROVE Goal
  <2>1. roomOf' = roomOf /\ told' = told
    BY <1>3 DEF join
  <2>2. CASE e = c
    BY <1>3, <2>2 DEF join, InRoom
  <2>3. CASE e = d
    <3>1. pc'[c] = pc[c] /\ target'[c] = target[c] /\ pc[c] \in InRoom
      BY <1>3, <2>3 DEF join
    <3>2. c \in rooms[roomOf[c]] /\ d \notin rooms[roomOf[c]] /\ roomOf[c] \in RoomId
      <4>1. pc[d] = "join" /\ roomOf[c] = roomOf[d]
        BY <1>3, <2>1, <2>3 DEF join
      <4>2. roomOf[c] \in RoomId
        BY <4>1 DEF Asked
      <4>3. QED
        BY <3>1, <4>1, <4>2 DEF RoomsExact, Members, InRoom
    <3>3. pc'[d] = "announce" /\ target'[d] = peerOf(d) /\ Cardinality(rooms[roomOf[d]]) = 1
      <4>1. rooms[roomOf[d]] # {} /\ pc'[d] \in InRoom
        BY <2>1, <2>3, <3>2
      <4>2. /\ Cardinality(rooms[roomOf[d]]) = 1
            /\ target' = [target EXCEPT ![d] = peerOf(d)] /\ Goto(d, "announce")
        BY <1>3, <2>3, <4>1 DEF join, InRoom
      <4>3. QED
        BY <4>2
    <3>4. others(d) = {c}
      <4>1. PICK x : rooms[roomOf[c]] = {x}
        BY <2>1, <3>2, <3>3, FS_Singleton DEF RoomsExact
      <4>2. QED
        BY <2>1, <3>2, <4>1 DEF others
    <3>5. QED
      BY <3>3, <3>4 DEF peerOf
  <2>4. CASE e # c /\ e # d
    <3>1. /\ pc'[c] = pc[c] /\ target'[c] = target[c]
          /\ pc'[d] = pc[d] /\ target'[d] = target[d]
      BY <1>3, <2>4 DEF join
    <3>2. QED
      BY <1>1, <2>1, <3>1
  <2>5. QED
    BY <2>2, <2>3, <2>4
<1>4. ASSUME NEW e \in Conn, Announce(e) PROVE Goal
  BY <1>1, <1>4 DEF Announce, InRoom
<1>5. ASSUME NEW e \in Conn, Greet(e) PROVE Goal
  <2>1. CASE e = c
    <3>1. pc[c] \in InRoom /\ pc[d] \in InRoom /\ roomOf[c] = roomOf[d]
      BY <1>5, <2>1 DEF Greet, InRoom
    <3>2. peerOf(c) = d
      BY <3>1, PeerIs
    <3>3. QED
      BY <1>5, <2>1, <3>2, NoneIsNobody DEF Greet
  <2>2. CASE e # c
    BY <1>1, <1>5, <2>2 DEF Greet, InRoom
  <2>3. QED
    BY <2>1, <2>2
<1>6. ASSUME NEW e \in Conn, Greeting(e) PROVE Goal
  BY <1>1, <1>6 DEF Greeting, InRoom
<1>7. ASSUME NEW e \in Conn, ReadFrame(e) \/ ReadError(e) PROVE Goal
  BY <1>1, <1>7 DEF ReadFrame, ReadError, InRoom
<1>8. ASSUME NEW e \in Conn, Look(e) \/ Undeliverable(e) \/ Forward(e) PROVE Goal
  BY <1>1, <1>8 DEF Look, Undeliverable, Forward, InRoom
<1>9. ASSUME NEW e \in Conn, leave(e) PROVE Goal
  BY <1>1, <1>9 DEF leave, unknown, InRoom
<1>10. ASSUME NEW e \in Conn, Accept(e) \/ NotifyLeft(e) \/ RejectFull(e) \/ Release(e)
       PROVE  Goal
  BY <1>1, <1>10 DEF Accept, NotifyLeft, RejectFull, Release, hangUp, InRoom
<1>11. ASSUME NEW e \in Conn,
              \/ ProbeStart(e) \/ ProbeEnd(e) \/ (\E q \in Conn : ProbePing(e, q))
              \/ keepalive(e) \/ ClientGone(e)
       PROVE  Goal
  BY <1>1, <1>11 DEF ProbeStart, ProbeEnd, ProbePing, keepalive, ClientGone
<1>12. CASE UNCHANGED vars
  BY <1>1, <1>12 DEF vars
<1>13. QED
  BY <1>2, <1>3, <1>4, <1>5, <1>6, <1>7, <1>8, <1>9, <1>10, <1>11, <1>12 DEF Next, Handler

(***************************************************************************)
(* The probes                                                              *)
(***************************************************************************)

\* The last peer to leave a room takes its flag, and its probe for an orphan.
LEMMA NextEmptied ==
  ASSUME TypeOK, Probes, NEW c \in Conn, leave(c), others(c) = {}
  PROVE  Probes'
<1>1. \A d \in Conn : pc'[d] = pc[d] \/ pc[d] = "leave"
  BY DEF leave, TypeOK, Goto, At
<1>2. /\ probing' = probing \ {roomOf[c]}
      /\ \A d \in Conn :
           orphan'[d] = (orphan[d] \/ (probe[d] = "ping" /\ probeRoom[d] = roomOf[c]))
      /\ UNCHANGED <<probe, probeRoom>>
  BY DEF leave, TypeOK, connVars
<1>3. \A d \in Conn : Probing(d)' <=> Probing(d) /\ probeRoom[d] # roomOf[c]
  BY <1>2 DEF Probing, TypeOK
<1>4. \A d \in Conn : Probing(d)' => probeRoom'[d] \in probing'
  BY <1>2, <1>3 DEF Probes, ProbeFlagOwned
<1>5. \A d, e \in Conn : Probing(d)' /\ Probing(e)' /\ probeRoom'[d] = probeRoom'[e] => d = e
  BY <1>2, <1>3 DEF Probes, ProbeFlagOwned
<1>6. \A r \in probing' : \E d \in Conn : Probing(d)' /\ probeRoom'[d] = r
  BY <1>2, <1>3 DEF Probes, ProbeFlagOwned
<1>7. \A d \in Conn : Rejected(d)'
  BY <1>1, <1>2 DEF Probes, Rejected, TypeOK
<1>8. ProbeFlagOwned'
  BY <1>4, <1>5, <1>6 DEF ProbeFlagOwned
<1>9. QED
  BY <1>7, <1>8 DEF Probes

\* A probe sets the flag of a room that has none, clears only its own, and
\* loses it with its room.
LEMMA NextProbes == TypeOK /\ Asked /\ Probes /\ [Next]_vars => Probes'
<1> SUFFICES ASSUME TypeOK, Asked, Probes, [Next]_vars PROVE Probes'
  OBVIOUS
<1> USE DEF TypeOK, Goto, At, Probes, ProbeFlagOwned, Probing, Rejected, connVars,
     probeVars, histVars
<1>1. ASSUME UNCHANGED <<probeVars, probing>>,
             \A c \in Conn : pc[c] \in {"release", "done"} => pc'[c] \in {"release", "done"}
      PROVE  Probes'
  BY <1>1
<1>2. ASSUME NEW c \in Conn, NEW r \in RoomId, NEW i \in IP, reserveIP(c, r, i) PROVE Probes'
  <2>1. probe[c] = "none" /\ ~ orphan[c]
    BY <1>2 DEF reserveIP, Unused
  <2>2. QED
    BY <1>2, <2>1 DEF reserveIP
<1>3. ASSUME NEW c \in Conn, leave(c) PROVE Probes'
  <2>1. \A d \in Conn : pc'[d] = pc[d] \/ pc[d] = "leave"
    BY <1>3 DEF leave
  <2>2. CASE others(c) # {}
    <3>1. UNCHANGED <<probeVars, probing>>
      BY <1>3, <2>2 DEF leave
    <3>2. QED
      BY <1>1, <2>1, <3>1
  <2>3. CASE others(c) = {}
    BY <1>3, <2>3, NextEmptied
  <2>4. QED
    BY <2>2, <2>3
<1>4. ASSUME NEW c \in Conn, RejectFull(c) PROVE Probes'
  <2>1. pc[c] = "full" /\ roomOf[c] \in RoomId
    BY <1>4 DEF RejectFull, Asked
  <2>2. probe[c] = "none" /\ ~ orphan[c]
    BY <2>1
  <2>3. /\ probe' = [probe EXCEPT ![c] = "start"] /\ pc' = [pc EXCEPT ![c] = "release"]
        /\ probeRoom' = [probeRoom EXCEPT ![c] = roomOf[c]]
        /\ UNCHANGED <<orphan, probing>>
    BY <1>4 DEF RejectFull
  <2>4. \A d \in Conn : Rejected(d)'
    BY <2>1, <2>2, <2>3
  <2>5. \A d \in Conn : /\ Probing(d)' = Probing(d)
                        /\ Probing(d) => d # c /\ probeRoom'[d] = probeRoom[d]
    BY <2>2, <2>3
  <2>6. QED
    BY <2>3, <2>4, <2>5
<1>5. ASSUME NEW c \in Conn, ProbeStart(c) PROVE Probes'
  <2>1. probeRoom[c] \in RoomId /\ ~ orphan[c]
    BY <1>5 DEF ProbeStart
  <2>2. CASE stopProbe(c) /\ UNCHANGED <<probing, probed>>
    BY <1>5, <2>1, <2>2 DEF ProbeStart, stopProbe
  <2>3. CASE /\ probeRoom[c] \notin probing /\ probing' = probing \cup {probeRoom[c]}
             /\ probe' = [probe EXCEPT ![c] = "ping"]
             /\ UNCHANGED <<probeRoom, orphan>>
    BY <1>5, <2>1, <2>3 DEF ProbeStart
  <2>4. QED
    BY <1>5, <2>2, <2>3 DEF ProbeStart
<1>6. ASSUME NEW c \in Conn, ProbeEnd(c) PROVE Probes'
  BY <1>6 DEF ProbeEnd, stopProbe
<1>7. ASSUME NEW c \in Conn, NEW q \in Conn, ProbePing(c, q) PROVE Probes'
  BY <1>7 DEF ProbePing
<1>8. ASSUME NEW c \in Conn, Accept(c) \/ join(c) \/ Announce(c) \/ Greet(c) \/ Greeting(c)
      PROVE  Probes'
  BY <1>1, <1>8 DEF Accept, hangUp, join, Announce, Greet, Greeting
<1>9. ASSUME NEW c \in Conn,
             ReadFrame(c) \/ ReadError(c) \/ Look(c) \/ Undeliverable(c) \/ Forward(c)
      PROVE  Probes'
  BY <1>1, <1>9 DEF ReadFrame, ReadError, Look, Undeliverable, Forward
<1>10. ASSUME NEW c \in Conn, NotifyLeft(c) \/ Release(c) \/ keepalive(c) \/ ClientGone(c)
       PROVE  Probes'
  BY <1>1, <1>10 DEF NotifyLeft, Release, hangUp, keepalive, ClientGone
<1>11. CASE UNCHANGED vars
  BY <1>1, <1>11 DEF vars
<1>12. QED
  BY <1>2, <1>3, <1>4, <1>5, <1>6, <1>7, <1>8, <1>9, <1>10, <1>11 DEF Next, Handler

(***************************************************************************)
(* Lost frames                                                             *)
(***************************************************************************)

\* Whoever leaves a peer behind is about to tell it.
LEMMA LeaveTells ==
  ASSUME TypeOK, Asked, RoomsExact, NEW c \in Conn, NEW d \in Conn, c # d, leave(d),
         pc[c] \in InRoom, roomOf[d] = roomOf[c]
  PROVE  pc'[d] = "left" /\ target'[d] = c
<1>1. pc[d] \in InRoom
  BY DEF leave, At, InRoom
<1>2. others(d) = {c} /\ peerOf(d) = c
  BY <1>1, PeerIs
<1>3. QED
  BY <1>2 DEF leave, TypeOK, Goto

\* Once told, the peer has lost nothing without a word; for the others nothing
\* changes.
LEMMA NotifyTells ==
  ASSUME TypeOK, Losses, NEW c \in Conn, NEW d \in Conn, NotifyLeft(d)
  PROVE  Loss(c)'
<1>1. /\ pc[d] = "left" /\ UNCHANGED <<roomOf, sock>>
      /\ \A e \in Conn \ {d} : pc'[e] = pc[e] /\ target'[e] = target[e]
      /\ pc'[d] = "release"
  BY DEF NotifyLeft, TypeOK, At, Goto, forget, connVars
<1>2. /\ lost'[c] => lost[c]
      /\ absentSince[c] => absentSince'[c]
      /\ c = target[d] /\ sock[c] = "open" => ~ lost'[c] /\ absentSince'[c]
  BY DEF NotifyLeft, writeSignal, TypeOK
<1>3. pc[c] = "leave" => sock[c] = "closed"
  BY DEF Losses, Loss
<1>4. lost[c] /\ sock[c] = "open" =>
        pc[c] \in InRoom /\ \E e \in Conn : sock[e] # "open" /\ InRoomWith(e, c)
  BY DEF Losses, Loss
<1>5. pc[c] = "forward" =>
        /\ target[c] \in Conn
        /\ InRoomWith(target[c], c) \/ absentSince[c] \/ sock[c] # "open"
  BY DEF Losses, Loss
<1>6. ASSUME c # target[d], NEW e \in Conn, InRoomWith(e, c) PROVE InRoomWith(e, c)'
  BY <1>1, <1>6 DEF InRoomWith, InRoom
<1>7. pc'[c] = "leave" => sock'[c] = "closed"
  BY <1>1, <1>3
<1>8. lost'[c] /\ sock'[c] = "open" =>
        pc'[c] \in InRoom /\ \E e \in Conn : sock'[e] # "open" /\ InRoomWith(e, c)'
  BY <1>1, <1>2, <1>4, <1>6 DEF InRoom
<1>9. pc'[c] = "forward" =>
        /\ target'[c] \in Conn
        /\ InRoomWith(target[c], c)' \/ absentSince'[c] \/ sock'[c] # "open"
  <2>1. CASE c = target[d]
    BY <1>1, <1>2, <1>5, <2>1
  <2>2. CASE c # target[d] /\ pc'[c] = "forward"
    <3>1. pc[c] = "forward" /\ target'[c] = target[c]
      BY <1>1, <2>2
    <3>2. PICK e \in Conn : e = target[c] /\ e = target'[c]
      BY <1>5, <3>1
    <3>3. CASE InRoomWith(e, c)
      <4>1. InRoomWith(e, c)'
        BY <1>6, <2>2, <3>2, <3>3
      <4>2. InRoomWith(target[c], c)'
        BY <3>2, <4>1 DEF InRoomWith
      <4>3. QED
        BY <3>2, <4>2
    <3>4. CASE absentSince[c] \/ sock[c] # "open"
      BY <1>1, <1>2, <3>2, <3>4
    <3>5. QED
      BY <1>5, <3>1, <3>2, <3>3, <3>4
  <2>3. QED
    BY <2>1, <2>2
<1>10. QED
  BY <1>7, <1>8, <1>9 DEF Loss

\* A frame that goes to a dead peer is lost with that peer still in the room,
\* or on its way out of it with a word for the sender.
LEMMA NextLosses == TypeOK /\ Asked /\ RoomsExact /\ Probes /\ Losses /\ [Next]_vars => Losses'
<1> SUFFICES ASSUME TypeOK, Asked, RoomsExact, Probes, Losses, [Next]_vars PROVE Losses'
  OBVIOUS
<1> USE DEF TypeOK, Goto, At, forget, Losses, Loss, InRoomWith, connVars, probeVars, histVars
<1>1. ASSUME UNCHANGED <<roomOf, sock, absentSince, lost>>,
             \A d \in Conn :
               /\ pc[d] \in InRoom => pc'[d] \in InRoom
               /\ pc[d] = "left" => pc'[d] = "left" /\ target'[d] = target[d]
               /\ pc'[d] \in {"leave", "forward"} => pc'[d] = pc[d] /\ target'[d] = target[d]
      PROVE  Losses'
  BY <1>1 DEF InRoom
<1>2. ASSUME NEW c \in Conn, NEW r \in RoomId, NEW i \in IP, reserveIP(c, r, i) PROVE Losses'
  BY <1>2 DEF reserveIP, Unused, unknown, InRoom
<1>3. ASSUME NEW c \in Conn, Accept(c) PROVE Losses'
  BY <1>3 DEF Accept, hangUp, InRoom
<1>4. ASSUME NEW c \in Conn, join(c) PROVE Losses'
  BY <1>1, <1>4 DEF join, InRoom
<1>5. ASSUME NEW c \in Conn, Announce(c) \/ Greet(c) \/ Greeting(c) PROVE Losses'
  BY <1>1, <1>5 DEF Announce, Greet, Greeting, writeSignal, InRoom
<1>6. ASSUME NEW c \in Conn, ReadFrame(c) PROVE Losses'
  BY <1>6 DEF ReadFrame, InRoom
<1>7. ASSUME NEW c \in Conn, ReadError(c) PROVE Losses'
  BY <1>7 DEF ReadError, InRoom
<1>8. ASSUME NEW c \in Conn, Look(c) PROVE Losses'
  <2>1. roomOf[c] \in RoomId /\ pc[c] \in InRoom
    BY <1>8 DEF Look, Asked, InRoom
  <2>2. CASE peerOf(c) = None
    BY <1>1, <1>8, <2>2 DEF Look, InRoom
  <2>3. CASE peerOf(c) # None
    <3>1. /\ peerOf(c) \in Conn /\ peerOf(c) # c
          /\ pc[peerOf(c)] \in InRoom /\ roomOf[peerOf(c)] = roomOf[c]
      BY <2>1, <2>3, PeerType DEF others, RoomsExact, Members
    <3>2. QED
      BY <1>8, <2>3, <3>1 DEF Look, InRoom
  <2>4. QED
    BY <2>2, <2>3
<1>9. ASSUME NEW c \in Conn, Undeliverable(c) PROVE Losses'
  BY <1>9 DEF Undeliverable, writeSignal, InRoom
<1>10. ASSUME NEW c \in Conn, Forward(c) PROVE Losses'
  BY <1>10 DEF Forward, InRoom
<1>11. ASSUME NEW d \in Conn, leave(d) PROVE Losses'
  <2>1. /\ pc[d] \in InRoom /\ sock[d] = "closed"
        /\ UNCHANGED <<roomOf, sock>> /\ ~ lost'[d]
        /\ \A e \in Conn \ {d} : absentSince'[e] = absentSince[e] /\ lost'[e] = lost[e]
    BY <1>11 DEF leave, unknown, InRoom
  <2>2. /\ \A e \in Conn \ {d} : pc'[e] = pc[e] /\ target'[e] = target[e]
        /\ pc'[d] \in {"release", "left"}
    BY <1>11 DEF leave
  <2>3. \A c \in Conn \ {d} : pc[c] \in InRoom /\ roomOf[d] = roomOf[c] =>
                                pc'[d] = "left" /\ target'[d] = c
    BY <1>11, LeaveTells
  <2>4. ASSUME NEW c \in Conn PROVE Loss(c)'
    <3>1. CASE c = d
      BY <2>1, <2>2, <3>1
    <3>2. CASE c # d
      <4>1. \A e \in Conn : pc[c] \in InRoom /\ InRoomWith(e, c) => InRoomWith(e, c)'
        BY <2>1, <2>2, <2>3, <3>2
      <4>2. pc'[c] = pc[c] /\ target'[c] = target[c]
        BY <2>2, <3>2
      <4>3. QED
        BY <2>1, <4>1, <4>2 DEF InRoom
    <3>3. QED
      BY <3>1, <3>2
  <2>5. QED
    BY <2>4
<1>12. ASSUME NEW d \in Conn, NotifyLeft(d) PROVE Losses'
  BY <1>12, NotifyTells
<1>13. ASSUME NEW c \in Conn, RejectFull(c) PROVE Losses'
  BY <1>1, <1>13 DEF RejectFull, InRoom
<1>14. ASSUME NEW c \in Conn, Release(c) PROVE Losses'
  BY <1>14 DEF Release, hangUp, InRoom
<1>15. ASSUME NEW c \in Conn, ProbeStart(c) \/ ProbeEnd(c) PROVE Losses'
  BY <1>1, <1>15 DEF ProbeStart, ProbeEnd, stopProbe
<1>16. ASSUME NEW c \in Conn, keepalive(c) \/ ClientGone(c) \/ \E q \in Conn : ProbePing(c, q)
       PROVE  Losses'
  <2>1. /\ UNCHANGED <<pc, roomOf, target, absentSince, lost>>
        /\ \A e \in Conn : /\ sock'[e] = "open" => sock[e] = "open"
                           /\ sock[e] = "closed" => sock'[e] = "closed"
    BY <1>16 DEF keepalive, ClientGone, ProbePing
  <2>2. \A e, f \in Conn : InRoomWith(e, f)' = InRoomWith(e, f)
    BY <2>1
  <2>3. QED
    BY <2>1, <2>2
<1>17. CASE UNCHANGED vars
  BY <1>1, <1>17 DEF vars
<1>18. QED
  BY <1>2, <1>3, <1>4, <1>5, <1>6, <1>7, <1>8, <1>9, <1>10, <1>11, <1>12, <1>13,
     <1>14, <1>15, <1>16, <1>17 DEF Next, Handler

(***************************************************************************)
(* The theorems about the relay                                            *)
(***************************************************************************)

\* The invariant holds of every state the relay reaches.
THEOREM Inductive == Spec => []IInv
<1>1. IInv /\ [Next]_vars => IInv'
  BY NextType, NextRooms, NextHolders, NextTold, NextLosses, NextProbes DEF IInv
<1>2. QED
  BY InitIInv, <1>1, PTL DEF Spec

\* The types of the relay's state hold always: no address is ever served more
\* than maxConnsPerIP connections at a time.
THEOREM TypeCorrect == Spec => []TypeOK
<1>1. IInv => TypeOK
  BY DEF IInv
<1>2. QED
  BY Inductive, <1>1, PTL

\* The rooms and the counters are exact, for any number of connections, rooms
\* and addresses: no place and no slot is leaked, shared or freed twice.
THEOREM AccountingExact == Spec => []Accounting
<1>1. IInv => Accounting
  BY DEF IInv, RoomsExact, HoldersExact, Members, Holders, Accounting, RoomIntegrity,
     SlotsExact
<1>2. QED
  BY Inductive, <1>1, PTL

\* Two peers in a room have been told of each other, or are about to be.
THEOREM PeersAreTold == Spec => []PeersTold
<1>1. IInv => PeersTold
  BY DEF IInv
<1>2. QED
  BY Inductive, <1>1, PTL

\* A frame lost to a dead peer is followed by a word to its sender.
THEOREM LossIsOwed == Spec => []LossOwed
<1>1. IInv => LossOwed
  BY DEF IInv, Losses, Loss, InRoomWith, LossOwed
<1>2. QED
  BY Inductive, <1>1, PTL

\* The probing flag of a room is that of one running probe.
THEOREM FlagIsOwned == Spec => []ProbeFlagOwned
<1>1. IInv => ProbeFlagOwned
  BY DEF IInv, Probes
<1>2. QED
  BY Inductive, <1>1, PTL

(***************************************************************************)
(* The phone's client on this relay: OneAttempt, for any number of sockets,*)
(* faults and forced retries.  The client has a socket or an attempt       *)
(* pending, never both and never neither, and no socket it has replaced    *)
(* stays open.  It does not depend on how the relay counts or cleans up:   *)
(* all the relay can do to a socket is close it.                           *)
(***************************************************************************)

\* The state of a socket, and the part of the relay's that decides who may use it.
SocketState == {"open", "frozen", "closed"}
SocketType ==
  /\ sock \in [Conn -> SocketState]
  /\ pc \in [Conn -> {"start", "accept", "join", "announce", "greet", "greeting",
                      "pump", "look", "forward", "undeliverable", "leave",
                      "left", "full", "release", "done"}]

ClientType ==
  /\ ws \in Sockets \cup {None}
  /\ state \in {"connecting", "open", "closed"}
  /\ stopped \in BOOLEAN /\ reconnectTimer \in BOOLEAN /\ heartbeat \in BOOLEAN

LinkInv == SocketType /\ ClientType /\ OneAttempt

(***************************************************************************)
(* The relay's steps                                                       *)
(***************************************************************************)

\* Only the client opens a socket, and only the client uses one again.
OnlyCloses ==
  /\ SocketType'
  /\ \A d \in Conn : /\ sock'[d] = "open" => sock[d] = "open"
                     /\ pc[d] = "done" => pc'[d] = "done"

LEMMA RelayOnlyCloses ==
  ASSUME SocketType, NEW c \in Conn, RelayStep(c)
  PROVE  OnlyCloses
<1>1. CASE At(c, "start") /\ sock[c] = "open" /\ reserveIP(c, Room, Addr)
  BY <1>1 DEF reserveIP, At, Goto, OnlyCloses, SocketType, SocketState
<1>2. CASE Accept(c)
  BY <1>2 DEF Accept, hangUp, At, Goto, OnlyCloses, SocketType, SocketState
<1>3. CASE join(c)
  BY <1>3 DEF join, At, Goto, OnlyCloses, SocketType, SocketState
<1>4. CASE Announce(c)
  BY <1>4 DEF Announce, At, Goto, OnlyCloses, SocketType, SocketState
<1>5. CASE Greet(c)
  BY <1>5 DEF Greet, At, Goto, OnlyCloses, SocketType, SocketState
<1>6. CASE Greeting(c)
  BY <1>6 DEF Greeting, At, Goto, OnlyCloses, SocketType, SocketState
<1>7. CASE ReadError(c)
  BY <1>7 DEF ReadError, At, Goto, OnlyCloses, SocketType, SocketState
<1>8. CASE Look(c)
  BY <1>8 DEF Look, At, Goto, OnlyCloses, SocketType, SocketState
<1>9. CASE Undeliverable(c)
  BY <1>9 DEF Undeliverable, At, Goto, OnlyCloses, SocketType, SocketState
<1>10. CASE Forward(c)
  BY <1>10 DEF Forward, At, Goto, OnlyCloses, SocketType, SocketState
<1>11. CASE leave(c)
  BY <1>11 DEF leave, At, Goto, OnlyCloses, SocketType, SocketState
<1>12. CASE NotifyLeft(c)
  BY <1>12 DEF NotifyLeft, At, Goto, OnlyCloses, SocketType, SocketState
<1>13. CASE RejectFull(c)
  BY <1>13 DEF RejectFull, At, Goto, OnlyCloses, SocketType, SocketState
<1>14. CASE Release(c)
  BY <1>14 DEF Release, hangUp, At, Goto, OnlyCloses, SocketType, SocketState
<1>15. CASE keepalive(c)
  BY <1>15 DEF keepalive, OnlyCloses, SocketType, SocketState
<1>16. CASE ProbeStart(c)
  BY <1>16 DEF ProbeStart, OnlyCloses, SocketType, SocketState
<1>17. CASE ProbeEnd(c)
  BY <1>17 DEF ProbeEnd, OnlyCloses, SocketType, SocketState
<1>18. CASE \E q \in Conn : ProbePing(c, q)
  BY <1>18 DEF ProbePing, OnlyCloses, SocketType, SocketState
<1>19. QED
  BY <1>1, <1>2, <1>3, <1>4, <1>5, <1>6, <1>7, <1>8, <1>9, <1>10, <1>11, <1>12,
     <1>13, <1>14, <1>15, <1>16, <1>17, <1>18 DEF RelayStep, Serve, Handler

(***************************************************************************)
(* The client's steps                                                      *)
(***************************************************************************)

\* No socket is live but the client's own, and after dropSocket none at all.
LEMMA DropsItsOwn ==
  ASSUME SocketType, OneLiveSocket
  PROVE  /\ Dropped \in [Conn -> SocketState]
         /\ \A d \in Sockets : ~ (Dropped[d] = "open" /\ pc[d] # "done")
<1>1. Dropped \in [Conn -> SocketState]
  BY DEF Dropped, SocketType, SocketState
<1>2. ASSUME NEW d \in Sockets, Dropped[d] = "open", pc[d] # "done" PROVE FALSE
  <2>1. d \in Conn
    BY DEF Sockets
  <2>2. Dropped[d] = IF d = ws /\ sock[d] = "open" THEN "closed" ELSE sock[d]
    BY <2>1 DEF Dropped
  <2>3. d # ws /\ sock[d] = "open"
    BY <1>2, <2>2
  <2>4. QED
    BY <1>2, <2>3 DEF OneLiveSocket
<1>3. QED
  BY <1>1, <1>2

\* A new attempt has the only live socket.
LEMMA ConnectIsAlone ==
  ASSUME SocketType, NEW s \in [Conn -> SocketState], connect(s),
         \A d \in Sockets : ~ (s[d] = "open" /\ pc[d] # "done")
  PROVE  /\ SocketType' /\ OneLiveSocket'
         /\ ws' \in Sockets /\ ws' # None /\ state' = "connecting"
<1>1. PICK c \in Sockets : /\ ws' = c /\ state' = "connecting"
                           /\ sock' = [s EXCEPT ![c] = "open"]
                           /\ pc' = [pc EXCEPT ![c] = "start"]
  BY DEF connect, Goto
<1>2. c \in Conn /\ c # None
  BY RelayAssumption DEF Sockets
<1>3. SocketType'
  BY <1>1, <1>2 DEF SocketType, SocketState
<1>4. \A d \in Sockets \ {c} : sock'[d] = s[d] /\ pc'[d] = pc[d]
  BY <1>1, <1>2 DEF SocketType, Sockets
<1>5. OneLiveSocket'
  BY <1>1, <1>4 DEF OneLiveSocket, Sockets
<1>6. QED
  BY <1>1, <1>2, <1>3, <1>5

\* retryNow replaces the socket and cancels the attempt that was pending.
LEMMA ReplaceKeepsOne == LinkInv /\ ~ stopped /\ Replace => LinkInv'
<1> SUFFICES ASSUME LinkInv, ~ stopped, Replace PROVE LinkInv'
  OBVIOUS
<1>1. /\ SocketType' /\ OneLiveSocket' /\ ws' \in Sockets /\ ws' # None
      /\ state' = "connecting"
  <2>1. SocketType /\ OneLiveSocket /\ connect(Dropped)
    BY DEF LinkInv, OneAttempt, Replace
  <2>2. QED
    BY <2>1, DropsItsOwn, ConnectIsAlone
<1>2. /\ reconnectTimer' = FALSE /\ heartbeat' = FALSE /\ stopped' = stopped
      /\ stopped \in BOOLEAN
  BY DEF Replace, LinkInv, ClientType
<1>3. NeverStranded'
  BY <1>1, <1>2 DEF NeverStranded
<1>4. Sockets' = Sockets
  BY DEF Sockets
<1>5. QED
  BY <1>1, <1>2, <1>3, <1>4 DEF LinkInv, ClientType, OneAttempt

\* The first attempt is due when the client starts.
LEMMA InitLinkInv == LinkInit => LinkInv
<1> SUFFICES ASSUME LinkInit PROVE LinkInv
  OBVIOUS
<1>1. SocketType /\ ClientType
  BY DEF LinkInit, SocketType, SocketState, ClientType
<1>2. OneAttempt
  BY DEF LinkInit, OneAttempt, NeverStranded, OneLiveSocket, Sockets
<1>3. QED
  BY <1>1, <1>2 DEF LinkInv

LEMMA NextLinkInv == LinkInv /\ [LinkNext]_linkVars => LinkInv'
<1> SUFFICES ASSUME LinkInv, [LinkNext]_linkVars PROVE LinkInv'
  OBVIOUS
<1>a. /\ SocketType /\ ClientType /\ NeverStranded /\ OneLiveSocket
      /\ None \notin Sockets /\ Sockets \subseteq Conn
  BY RelayAssumption DEF LinkInv, OneAttempt, Sockets
<1>1. ASSUME NEW c \in Conn, RelayStep(c) PROVE LinkInv'
  <2>1. OnlyCloses /\ UNCHANGED client
    BY <1>1, <1>a, RelayOnlyCloses DEF RelayStep
  <2>2. SocketType' /\ ClientType' /\ NeverStranded'
    BY <2>1, <1>a DEF OnlyCloses, client, ClientType, NeverStranded, Sockets
  <2>3. OneLiveSocket'
    BY <2>1, <1>a DEF OnlyCloses, client, OneLiveSocket, Sockets
  <2>4. QED
    BY <2>2, <2>3 DEF LinkInv, OneAttempt
<1>2. CASE ReconnectFires
  <2>1. CASE ws = None
    <3>1. connect(sock) /\ sock \in [Conn -> SocketState]
      BY <1>2, <2>1, <1>a DEF ReconnectFires, SocketType
    <3>2. \A d \in Sockets : ~ (sock[d] = "open" /\ pc[d] # "done")
      BY <2>1, <1>a DEF OneLiveSocket
    <3>3. /\ SocketType' /\ OneLiveSocket' /\ ws' \in Sockets /\ ws' # None
          /\ state' = "connecting"
      BY <3>1, <3>2, <1>a, ConnectIsAlone
    <3>4. ClientType' /\ NeverStranded'
      BY <3>3, <1>2, <1>a DEF ReconnectFires, ClientType, NeverStranded, Sockets
    <3>5. QED
      BY <3>3, <3>4 DEF LinkInv, OneAttempt
  <2>2. CASE ws # None
    BY <1>2, <2>2, <1>a DEF ReconnectFires, NeverStranded
  <2>3. QED
    BY <2>1, <2>2
<1>3. CASE OnOpen
  <2>1. UNCHANGED <<sock, pc, ws>>
    BY <1>3 DEF OnOpen, relay, vars
  <2>2. SocketType' /\ OneLiveSocket'
    BY <2>1, <1>a DEF SocketType, OneLiveSocket, Sockets
  <2>3. ClientType' /\ NeverStranded'
    BY <1>3, <2>1, <1>a DEF OnOpen, ClientType, NeverStranded, Sockets
  <2>4. QED
    BY <2>2, <2>3 DEF LinkInv, OneAttempt
<1>4. CASE OnClose
  <2>1. /\ ws \in Sockets /\ pc' = pc /\ ws' = None
        /\ sock' = [sock EXCEPT ![ws] = IF @ = "frozen" THEN "frozen" ELSE "closed"]
    BY <1>4, <1>a DEF OnClose, ClientType
  <2>2. SocketType'
    BY <2>1, <1>a DEF SocketType, SocketState
  <2>3. OneLiveSocket'
    <3>1. \A d \in Sockets : sock'[d] = "open" => sock[d] = "open" /\ d # ws
      BY <2>1, <1>a DEF SocketType
    <3>2. QED
      BY <2>1, <3>1, <1>a DEF OneLiveSocket, Sockets
  <2>4. ClientType' /\ NeverStranded'
    BY <1>4, <1>a DEF OnClose, ClientType, NeverStranded, Sockets
  <2>5. QED
    BY <2>2, <2>3, <2>4 DEF LinkInv, OneAttempt
<1>5. CASE BeatThrows
  <2>1. ~ stopped
    BY <1>5, <1>a DEF BeatThrows, NeverStranded
  <2>2. QED
    BY <1>5, <2>1, ReplaceKeepsOne DEF BeatThrows
<1>6. CASE RetryNow
  BY <1>6, ReplaceKeepsOne DEF RetryNow, retry
<1>7. CASE Close
  <2>1. /\ ws' = None /\ state' = "closed" /\ stopped' = TRUE
        /\ reconnectTimer' = FALSE /\ heartbeat' = FALSE
        /\ sock' = Dropped /\ pc' = pc
    BY <1>7 DEF Close
  <2>2. SocketType' /\ OneLiveSocket'
    BY <2>1, <1>a, DropsItsOwn DEF SocketType, OneLiveSocket, Sockets
  <2>3. ClientType' /\ NeverStranded'
    BY <2>1 DEF ClientType, NeverStranded
  <2>4. QED
    BY <2>2, <2>3 DEF LinkInv, OneAttempt
<1>8. CASE Fault
  <2>1. PICK s \in {"frozen", "closed"} : sock' = [sock EXCEPT ![ws] = s]
    BY <1>8 DEF Fault
  <2>2. UNCHANGED client /\ UNCHANGED pc
    BY <1>8 DEF Fault
  <2>3. SocketType' /\ ClientType' /\ NeverStranded'
    BY <2>1, <2>2, <1>a DEF SocketType, SocketState, client, ClientType, NeverStranded,
       Sockets
  <2>4. \A d \in Sockets : sock'[d] = "open" => sock[d] = "open"
    BY <2>1, <1>a DEF SocketType
  <2>5. OneLiveSocket'
    BY <2>2, <2>4, <1>a DEF client, OneLiveSocket, Sockets
  <2>6. QED
    BY <2>3, <2>5 DEF LinkInv, OneAttempt
<1>9. CASE UNCHANGED linkVars
  BY <1>9, <1>a DEF linkVars, relay, vars, client, LinkInv, SocketType, ClientType, OneAttempt,
     NeverStranded, OneLiveSocket, Sockets
<1>10. QED
  BY <1>1, <1>2, <1>3, <1>4, <1>5, <1>6, <1>7, <1>8, <1>9 DEF LinkNext

(***************************************************************************)
(* The theorem about the client                                            *)
(***************************************************************************)

\* The client has one attempt or one socket at every moment (relay.ts connect,
\* retryNow, handleClose, close), and no other socket of it is live.
THEOREM AlwaysOneAttempt == LinkSpec => []OneAttempt
<1>1. LinkInv => OneAttempt
  BY DEF LinkInv
<1>2. QED
  BY InitLinkInv, NextLinkInv, <1>1, PTL DEF LinkSpec

=============================================================================
