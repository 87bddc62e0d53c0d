----------------------------- MODULE AppProofs -----------------------------
(***************************************************************************)
(* Proofs about the page: type correctness, the inductive invariant IInv,  *)
(* and from it the five properties of App that hold, for any number of     *)
(* rooms, of fingers and of requests.                                      *)
(***************************************************************************)
EXTENDS App, FiniteSetTheorems, FunctionTheorems, TLAPS

(***************************************************************************)
(* What Kept keeps: the elements at the chosen positions and no others.    *)
(***************************************************************************)

\* Of two numbers of the set, the larger has the higher rank, and every rank is
\* one of the first numbers: no position is lost and none is counted twice.
LEMMA RankRises ==
  ASSUME NEW I \in SUBSET Nat, IsFiniteSet(I)
  PROVE  /\ Cardinality(I) \in Nat
         /\ \A i \in I : Rank(I, i) \in 1..Cardinality(I)
         /\ \A i, j \in I : i < j => Rank(I, i) < Rank(I, j)
<1> DEFINE below(i) == {k \in I : k <= i}
<1>1. Cardinality(I) \in Nat
  BY FS_CardinalityType
<1>2. ASSUME NEW i \in I
      PROVE  IsFiniteSet(below(i)) /\ Cardinality(below(i)) \in 1..Cardinality(I)
  <2>1. IsFiniteSet(below(i)) /\ Cardinality(below(i)) <= Cardinality(I)
    BY FS_Subset
  <2>2. Cardinality(below(i)) \in Nat
    BY <2>1, FS_CardinalityType
  <2>3. i \in below(i)
    OBVIOUS
  <2>4. Cardinality(below(i)) # 0
    BY <2>1, <2>3, FS_EmptySet
  <2> QED BY <1>1, <2>1, <2>2, <2>4
<1>3. ASSUME NEW i \in I, NEW j \in I, i < j
      PROVE  Cardinality(below(i)) < Cardinality(below(j))
  <2>1. below(i) \in SUBSET below(j)
    <3> SUFFICES ASSUME NEW k \in I, k <= i PROVE k <= j
      OBVIOUS
    <3>1. i \in Nat /\ j \in Nat /\ k \in Nat
      OBVIOUS
    <3> QED BY <1>3, <3>1
  <2>2. j \in below(j) /\ j \notin below(i)
    BY <1>3
  <2>3. Cardinality(below(i)) <= Cardinality(below(j))
        /\ Cardinality(below(i)) # Cardinality(below(j))
    BY <1>2, <2>1, <2>2, FS_Subset
  <2>4. Cardinality(below(i)) \in Nat /\ Cardinality(below(j)) \in Nat
    BY <1>2
  <2> QED BY <2>3, <2>4
<1> QED BY <1>1, <1>2, <1>3 DEF Rank

\* Every rank is taken, by exactly one number.
LEMMA NthIs ==
  ASSUME NEW I \in SUBSET Nat, IsFiniteSet(I)
  PROVE  /\ \A n \in 1..Cardinality(I) : Nth(I, n) \in I /\ Rank(I, Nth(I, n)) = n
         /\ \A i \in I : Nth(I, Rank(I, i)) = i
<1> DEFINE rank == [i \in I |-> Rank(I, i)]
<1>1. \A i, j \in I : Rank(I, i) = Rank(I, j) => i = j
  <2> SUFFICES ASSUME NEW i \in I, NEW j \in I, Rank(I, i) = Rank(I, j), i # j
               PROVE  FALSE
    OBVIOUS
  <2>1. i < j \/ j < i
    OBVIOUS
  <2>2. Rank(I, i) \in Nat
    BY RankRises
  <2> QED BY <2>1, <2>2, RankRises
<1>2. rank \in [I -> 1..Cardinality(I)]
  BY RankRises
<1>3. rank \in Injection(I, 1..Cardinality(I))
  BY <1>1, <1>2, Fun_IsInj
<1>4. IsFiniteSet(1..Cardinality(I)) /\ Cardinality(1..Cardinality(I)) = Cardinality(I)
  <2>1. Cardinality(I) \in Nat
    BY RankRises
  <2>2. IsFiniteSet(1..Cardinality(I))
        /\ Cardinality(1..Cardinality(I))
             = IF 1 > Cardinality(I) THEN 0 ELSE Cardinality(I) - 1 + 1
    BY <2>1, FS_Interval
  <2> QED BY <2>1, <2>2
<1>5. rank \in Surjection(I, 1..Cardinality(I))
  BY <1>3, <1>4, FS_Injection
<1>6. \A n \in 1..Cardinality(I) : \E i \in I : Rank(I, i) = n
  <2>1. \A n \in 1..Cardinality(I) : \E i \in I : rank[i] = n
    <3> HIDE DEF rank
    <3> QED BY <1>5, Fun_SurjectionProperties
  <2> QED BY <2>1
<1>7. \A n \in 1..Cardinality(I) : Nth(I, n) \in I /\ Rank(I, Nth(I, n)) = n
  BY <1>6 DEF Nth
<1> QED BY <1>1, <1>7, RankRises

\* Some positions of a sequence are finitely many.
LEMMA PositionsFinite ==
  ASSUME NEW S, NEW s \in Seq(S), NEW I \in SUBSET DOMAIN s
  PROVE  I \in SUBSET Nat /\ IsFiniteSet(I) /\ Cardinality(I) \in Nat
<1>1. DOMAIN s = 1..Len(s) /\ Len(s) \in Nat
  OBVIOUS
<1>2. IsFiniteSet(1..Len(s))
  BY <1>1, FS_Interval
<1>3. IsFiniteSet(I)
  BY <1>1, <1>2, FS_Subset
<1> QED BY <1>1, <1>3, FS_CardinalityType

\* What is kept is a sequence of elements of the kept positions, and each of them is in it.
LEMMA KeptIs ==
  ASSUME NEW S, NEW s \in Seq(S), NEW I \in SUBSET DOMAIN s
  PROVE  /\ Kept(s, I) \in Seq(S)
         /\ Len(Kept(s, I)) = Cardinality(I)
         /\ DOMAIN Kept(s, I) = 1..Cardinality(I)
         /\ \A n \in 1..Cardinality(I) : Nth(I, n) \in I /\ Kept(s, I)[n] = s[Nth(I, n)]
         /\ \A i \in I : \E n \in 1..Cardinality(I) : Kept(s, I)[n] = s[i]
<1>1. I \in SUBSET Nat /\ IsFiniteSet(I) /\ Cardinality(I) \in Nat
  BY PositionsFinite
<1>2. \A n \in 1..Cardinality(I) : Nth(I, n) \in I
  BY <1>1, NthIs
<1>3. \A n \in 1..Cardinality(I) : s[Nth(I, n)] \in S
  BY <1>2
<1>4. Kept(s, I) \in [1..Cardinality(I) -> S]
  BY <1>3 DEF Kept
<1>5. Kept(s, I) \in Seq(S)
  BY <1>1, <1>4
<1>6. Len(Kept(s, I)) = Cardinality(I)
  BY <1>1, <1>4, <1>5
<1>7. ASSUME NEW i \in I
      PROVE  \E n \in 1..Cardinality(I) : Kept(s, I)[n] = s[i]
  <2>1. Rank(I, i) \in 1..Cardinality(I) /\ Nth(I, Rank(I, i)) = i
    BY <1>1, NthIs, RankRises
  <2> QED BY <2>1 DEF Kept
<1> QED BY <1>2, <1>4, <1>5, <1>6, <1>7 DEF Kept

(***************************************************************************)
(* The inductive invariant                                                 *)
(***************************************************************************)

Session == [screen : {"pair", "listening", "card", "pending", "offline", "confirmed"},
            req : Nat, paired : BOOLEAN, err : BOOLEAN, keyed : BOOLEAN]
SomeRoom == Room \cup {None}
Shown == [screen : {"none", "pair", "listening", "card", "pending", "offline", "confirmed"},
          room : SomeRoom, req : Nat]
Answered == SomeRoom \X Nat      \* what a commit timer remembers of its card

SessTypes ==
  /\ sess \in [Room -> Session] /\ latest \in [Room -> Nat]
  /\ fate \in [Room -> {"open", "sent", "over"}]

RosterTypes ==
  /\ order \in Seq(Room) /\ active \in SomeRoom /\ store \in Seq(Room)
  /\ unread \in [Room -> Nat] /\ lastReq \in [Room -> Nat] /\ wanted \in SomeRoom

PageTypes ==
  /\ mounted \in BOOLEAN /\ hash \in SomeRoom /\ pairing \in BOOLEAN /\ urgent \in BOOLEAN

ViewTypes ==
  /\ shown \in Shown /\ wasPaired \in BOOLEAN
  /\ gesture \in [finger : Pointer, across : BOOLEAN] \cup {None}
  /\ committed \in BOOLEAN /\ timer \in Answered \cup {None} /\ dying \in SUBSET Answered
  /\ touched \in SUBSET Pointer /\ spent \in BOOLEAN

TypeOK == SessTypes /\ RosterTypes /\ PageTypes /\ ViewTypes

\* While there is no App, nothing is in the roster, and what a wake-up wants
\* waits in the fragment.
Unmounted == ~mounted => order = <<>> /\ active = None /\ wanted = hash

\* Only a paired session sends an answer or shows a receipt, and the request a
\* receipt closes is gone.
Receipt(s) == /\ s.screen \in {"pending", "confirmed"} => s.paired
              /\ s.screen = "confirmed" => s.req = 0
Receipts == \A r \in Room : Receipt(sess[r])

\* The commit timer is that of the card on the screen.
TimerOfCard == timer # None => shown.screen = "card" /\ timer = <<shown.room, shown.req>>

\* A gesture is of the finger that began it, and no other came down since.
OneFinger == touched = IF gesture = None THEN {} ELSE {gesture.finger}

\* A card that is being committed takes no more gestures.  One that has answered
\* has been committed, or React is about to take it from the screen.
SpentCard ==
  /\ committed => gesture = None
  /\ timer # None => committed
  /\ spent => (committed /\ timer = None) \/ (urgent /\ View.screen # "card")

IInv == /\ TypeOK /\ Unmounted /\ WakeSelects /\ Receipts /\ TimerOfCard
        /\ OneFinger /\ SpentCard

(***************************************************************************)
(* The roster                                                              *)
(***************************************************************************)

LEMMA NoneIsNoRoom == None \notin Room /\ None \notin Pointer
BY AppAssumption

LEMMA ToSetIs ==
  ASSUME NEW s \in Seq(Room)
  PROVE  ToSet(s) \subseteq Room /\ None \notin ToSet(s) /\ ToSet(<<>>) = {}
BY NoneIsNoRoom DEF ToSet

LEMMA AppendedRoom ==
  ASSUME NEW s \in Seq(Room), NEW r \in Room
  PROVE  Append(s, r) \in Seq(Room) /\ ToSet(Append(s, r)) = ToSet(s) \cup {r}
<1>1. /\ Append(s, r) \in Seq(Room)
      /\ DOMAIN Append(s, r) = DOMAIN s \cup {Len(s) + 1}
      /\ \A i \in DOMAIN s : Append(s, r)[i] = s[i]
      /\ Append(s, r)[Len(s) + 1] = r
  OBVIOUS
<1> QED
  BY <1>1 DEF ToSet

LEMMA KeptRooms ==
  ASSUME NEW s \in Seq(Room), NEW I \in SUBSET DOMAIN s
  PROVE  Kept(s, I) \in Seq(Room)
BY KeptIs

\* Taking a room out takes that room out, and no other.
LEMMA WithoutRoom ==
  ASSUME NEW s \in Seq(Room), NEW r \in Room
  PROVE  Without(s, r) \in Seq(Room) /\ ToSet(Without(s, r)) = ToSet(s) \ {r}
<1> DEFINE I == {i \in DOMAIN s : s[i] # r}
           k == Kept(s, I)
<1>1. I \in SUBSET DOMAIN s /\ \A i \in DOMAIN s : i \in I <=> s[i] # r
  OBVIOUS
<1>2. Without(s, r) = k
  BY DEF Without
<1> HIDE DEF I
<1>3. /\ k \in Seq(Room) /\ DOMAIN k = 1..Cardinality(I)
      /\ \A n \in 1..Cardinality(I) : Nth(I, n) \in I /\ k[n] = s[Nth(I, n)]
      /\ \A i \in I : \E n \in 1..Cardinality(I) : k[n] = s[i]
  BY <1>1, KeptIs
<1> HIDE DEF k
<1>4. ToSet(k) \subseteq ToSet(s) \ {r}
  BY <1>1, <1>3 DEF ToSet
<1>5. ToSet(s) \ {r} \subseteq ToSet(k)
  BY <1>1, <1>3 DEF ToSet
<1> QED
  BY <1>2, <1>3, <1>4, <1>5

LEMMA HeadRoom ==
  ASSUME NEW s \in Seq(Room), s # <<>>
  PROVE  Head(s) \in Room
OBVIOUS

(***************************************************************************)
(* What a change of a session does                                         *)
(***************************************************************************)

\* The manager's reaction, in types; and the screen goes to another room only
\* when the one on it has no card open.
LEMMA ChangeTypes ==
  ASSUME SessTypes, RosterTypes, NEW r \in Room, NEW s \in Session, onSessionChange(r, s)
  PROVE  sess' \in [Room -> Session] /\ RosterTypes'
<1>0. /\ sess \in [Room -> Session] /\ order \in Seq(Room) /\ active \in SomeRoom
      /\ unread \in [Room -> Nat] /\ lastReq \in [Room -> Nat] /\ wanted \in SomeRoom
      /\ s.req \in Nat
  BY DEF SessTypes, RosterTypes, Session
<1>1. sess' = [sess EXCEPT ![r] = s]
  BY DEF onSessionChange
<1>2. active' \in {active, r} /\ wanted' \in {wanted, None} /\ order' = order
  BY DEF onSessionChange
<1>3. lastReq' \in [Room -> Nat]
  BY <1>0 DEF onSessionChange
<1>4. unread' \in [Room -> Nat]
  BY <1>0 DEF onSessionChange
<1>5. store' \in Seq(Room)
  <2>1. \E I \in SUBSET DOMAIN order : store' = Kept(order, I)
    BY DEF onSessionChange, persistAll
  <2> QED
    BY <1>0, <2>1, KeptRooms
<1> QED
  BY <1>0, <1>1, <1>2, <1>3, <1>4, <1>5 DEF RosterTypes, SomeRoom

LEMMA ChangeIs ==
  ASSUME SessTypes, RosterTypes, NEW r \in Room, NEW s \in Session, onSessionChange(r, s)
  PROVE  /\ sess'[r] = s /\ \A q \in Room \ {r} : sess'[q] = sess[q]
         /\ order' = order
         /\ active' # active => active' = r /\ (active # None => sess[active].screen # "card")
         /\ wanted' = IF active' # active THEN None ELSE wanted
<1>0. sess \in [Room -> Session] /\ active \in SomeRoom
  BY DEF SessTypes, RosterTypes
<1>1. sess' = [sess EXCEPT ![r] = s]
  BY DEF onSessionChange
<1>2. ASSUME active' # active
      PROVE  active' = r /\ (active # None => sess[active].screen # "card")
  <2>1. active' = r /\ ~activeHasCardOpen([sess EXCEPT ![r] = s])
    BY <1>2 DEF onSessionChange
  <2>2. active # None => [sess EXCEPT ![r] = s][active] = sess[active]
    BY <1>0, <1>2, <2>1 DEF SomeRoom
  <2> QED
    BY <2>1, <2>2 DEF activeHasCardOpen
<1> QED
  BY <1>0, <1>1, <1>2 DEF onSessionChange

\* What becomes of a session: it sends an answer, or closes its receipt.
Answering(old, s) == old.paired /\ old.screen # "pending" /\ s.screen = "pending"
Closing(old, s) == old.screen = "confirmed" /\ s.screen \in {"listening", "offline"}

\* A change of room r in which the human has no part.
OwnChange(r) == \E s \in Session : /\ onSessionChange(r, s) /\ Receipt(s)
                                   /\ ~Answering(sess[r], s) /\ ~Closing(sess[r], s)

\* A session sends no answer by itself, and keeps its receipt until Done: a
\* restored one only resumes the answer it had sent.
LEMMA SessionStepIs ==
  ASSUME SessTypes, Receipts, NEW r \in Room, SessionStep(r)
  PROVE  OwnChange(r) /\ latest' \in [Room -> Nat] /\ fate' \in [Room -> {"open", "sent", "over"}]
<1> DEFINE old == sess[r]
<1>0. /\ old \in Session /\ latest \in [Room -> Nat] /\ latest[r] \in Nat
      /\ fate \in [Room -> {"open", "sent", "over"}] /\ fate[r] \in {"open", "sent", "over"}
      /\ Receipt(old)
  BY DEF SessTypes, Receipts
<1>1. /\ old.screen \in {"pair", "listening", "card", "pending", "offline", "confirmed"}
      /\ old.req \in Nat /\ old.paired \in BOOLEAN /\ old.err \in BOOLEAN /\ old.keyed \in BOOLEAN
  BY <1>0 DEF Session
<1> DEFINE Fine(s) == /\ s \in Session /\ Receipt(s)
                      /\ ~Answering(old, s) /\ ~Closing(old, s)
<1> SUFFICES /\ \E s : onSessionChange(r, s) /\ Fine(s)
             /\ latest' \in [Room -> Nat] /\ fate' \in [Room -> {"open", "sent", "over"}]
  BY DEF OwnChange
<1>2. CASE SessionPaired(r)
  <2> DEFINE s == [old EXCEPT !.paired = TRUE, !.keyed = TRUE, !.screen = "listening"]
  <2>1. s \in Session /\ s.screen = "listening" /\ s.paired
    BY <1>0, <1>1 DEF Session
  <2>2. ~old.paired
    BY <1>2 DEF SessionPaired
  <2>3. Fine(s)
    BY <1>0, <2>1, <2>2 DEF Receipt, Answering, Closing
  <2>4. onSessionChange(r, s) /\ UNCHANGED <<latest, fate>>
    BY <1>2 DEF SessionPaired
  <2> HIDE DEF s, Fine
  <2> QED
    BY <1>0, <2>3, <2>4
<1>3. CASE SessionRestored(r)
  <2> DEFINE q == IF fate[r] = "over" THEN 0 ELSE latest[r]
             c == CASE fate[r] = "over" -> "listening"
                    [] fate[r] = "open" -> "card"
                    [] fate[r] = "sent" -> "pending"
             s == [old EXCEPT !.paired = TRUE, !.req = q, !.screen = c]
  <2>1. q \in Nat /\ c \in {"listening", "card", "pending"}
    BY <1>0
  <2>2. ~old.paired
    BY <1>3 DEF SessionRestored
  <2>3. onSessionChange(r, s) /\ UNCHANGED <<latest, fate>>
    BY <1>3 DEF SessionRestored
  <2> HIDE DEF q, c
  <2>4. s \in Session /\ s.screen = c /\ s.paired
    BY <1>0, <1>1, <2>1 DEF Session
  <2>5. Fine(s)
    BY <1>0, <2>1, <2>2, <2>4 DEF Receipt, Answering, Closing
  <2> HIDE DEF s, Fine
  <2> QED
    BY <1>0, <2>3, <2>5
<1>4. CASE SessionFails(r)
  <2> DEFINE s == [old EXCEPT !.screen = "pair", !.err = TRUE, !.paired = FALSE]
  <2>1. s \in Session /\ s.screen = "pair"
    BY <1>0, <1>1 DEF Session
  <2>2. Fine(s)
    BY <2>1 DEF Receipt, Answering, Closing
  <2>3. onSessionChange(r, s) /\ UNCHANGED <<latest, fate>>
    BY <1>4 DEF SessionFails
  <2> HIDE DEF s, Fine
  <2> QED
    BY <1>0, <2>2, <2>3
<1>5. CASE SessionAsked(r)
  <2> DEFINE q == latest[r] + 1
             s == [old EXCEPT !.req = q, !.screen = "card"]
  <2>1. q \in Nat
    BY <1>0
  <2>2. /\ onSessionChange(r, s)
        /\ latest' = [latest EXCEPT ![r] = @ + 1] /\ fate' = [fate EXCEPT ![r] = "open"]
    BY <1>5 DEF SessionAsked
  <2> HIDE DEF q
  <2>3. s \in Session /\ s.screen = "card"
    BY <1>0, <1>1, <2>1 DEF Session
  <2>4. Fine(s)
    BY <2>3 DEF Receipt, Answering, Closing
  <2> HIDE DEF s, Fine
  <2> QED
    BY <1>0, <2>2, <2>4
<1>6. CASE SessionOffline(r)
  <2> DEFINE s == [old EXCEPT !.screen = "offline"]
  <2>1. s \in Session /\ s.screen = "offline"
    BY <1>0, <1>1 DEF Session
  <2>2. old.screen # "confirmed"
    BY <1>6 DEF SessionOffline
  <2>3. Fine(s)
    BY <2>1, <2>2 DEF Receipt, Answering, Closing
  <2>4. onSessionChange(r, s) /\ UNCHANGED <<latest, fate>>
    BY <1>6 DEF SessionOffline
  <2> HIDE DEF s, Fine
  <2> QED
    BY <1>0, <2>3, <2>4
<1>7. CASE SessionOnline(r)
  <2> DEFINE c == IF old.req = 0 THEN "listening" ELSE "card"
             s == [old EXCEPT !.screen = c]
  <2>1. c \in {"listening", "card"}
    OBVIOUS
  <2>2. old.screen = "offline" /\ onSessionChange(r, s) /\ UNCHANGED <<latest, fate>>
    BY <1>7 DEF SessionOnline
  <2> HIDE DEF c
  <2>3. s \in Session /\ s.screen = c
    BY <1>0, <1>1, <2>1 DEF Session
  <2>4. Fine(s)
    BY <2>1, <2>2, <2>3 DEF Receipt, Answering, Closing
  <2> HIDE DEF s, Fine
  <2> QED
    BY <1>0, <2>2, <2>4
<1>8. CASE SessionSigned(r)
  <2>1. /\ old.screen = "pending" /\ onSessionChange(r, old)
        /\ fate' = [fate EXCEPT ![r] = "sent"] /\ latest' = latest
    BY <1>8 DEF SessionSigned
  <2>2. Fine(old)
    BY <1>0, <2>1 DEF Answering, Closing
  <2> HIDE DEF Fine, old
  <2> QED
    BY <1>0, <2>1, <2>2
<1>9. CASE SessionExpires(r)
  <2> DEFINE s == [old EXCEPT !.req = 0, !.screen = "listening"]
  <2>1. s \in Session /\ s.screen = "listening"
    BY <1>0, <1>1 DEF Session
  <2>2. /\ old.req # 0 /\ onSessionChange(r, s)
        /\ fate' = [fate EXCEPT ![r] = "over"] /\ latest' = latest
    BY <1>9 DEF SessionExpires, expire
  <2>3. old.screen # "confirmed"
    BY <1>0, <2>2 DEF Receipt
  <2>4. Fine(s)
    BY <2>1, <2>3 DEF Receipt, Answering, Closing
  <2> HIDE DEF s, Fine
  <2> QED
    BY <1>0, <2>2, <2>4
<1>10. CASE SessionReceipt(r)
  <2> DEFINE s == [old EXCEPT !.req = 0, !.screen = "confirmed"]
  <2>1. s \in Session /\ s.screen = "confirmed" /\ s.req = 0 /\ s.paired = old.paired
    BY <1>0, <1>1 DEF Session
  <2>2. /\ old.screen = "pending" /\ onSessionChange(r, s)
        /\ fate' = [fate EXCEPT ![r] = "over"] /\ latest' = latest
    BY <1>10 DEF SessionReceipt
  <2>3. Fine(s)
    BY <1>0, <2>1, <2>2 DEF Receipt, Answering, Closing
  <2> HIDE DEF s, Fine
  <2> QED
    BY <1>0, <2>2, <2>3
<1> HIDE DEF Fine, old
<1> QED
  BY <1>2, <1>3, <1>4, <1>5, <1>6, <1>7, <1>8, <1>9, <1>10 DEF SessionStep

\* The countdown of a request closes no receipt: that has no request.
LEMMA CountdownIs ==
  ASSUME SessTypes, RosterTypes, ViewTypes, Receipts, Countdown
  PROVE  /\ active \in Room /\ OwnChange(active)
         /\ latest' = latest /\ fate' \in [Room -> {"open", "sent", "over"}]
<1> DEFINE old == sess[active]
           s == [old EXCEPT !.req = 0, !.screen = "listening"]
<1>1. /\ shown.room # None /\ shown.room = active /\ shown.req # 0 /\ old.req = shown.req
      /\ onSessionChange(active, s)
      /\ fate' = [fate EXCEPT ![active] = "over"] /\ latest' = latest
  BY DEF Countdown, expire
<1>2. active \in Room
  BY <1>1 DEF RosterTypes, SomeRoom
<1>3. old \in Session /\ Receipt(old) /\ fate' \in [Room -> {"open", "sent", "over"}]
  BY <1>1, <1>2 DEF SessTypes, Receipts
<1>4. s \in Session /\ s.screen = "listening"
  BY <1>3 DEF Session
<1>5. old.screen # "confirmed"
  BY <1>1, <1>3 DEF Receipt
<1>6. Receipt(s) /\ ~Answering(old, s) /\ ~Closing(old, s)
  BY <1>4, <1>5 DEF Receipt, Answering, Closing
<1> HIDE DEF s
<1> QED
  BY <1>1, <1>2, <1>3, <1>4, <1>6 DEF OwnChange

\* An answer goes to the room that is active, and only when it can.
DecideChange == \E s \in Session :
  /\ onSessionChange(active, s) /\ Receipt(s) /\ s.screen = "pending"
LEMMA DecideIs ==
  ASSUME SessTypes, RosterTypes, Decide
  PROVE  \/ UNCHANGED <<sess, rosterVars, wanted>>
         \/ active \in Room /\ DecideChange
<1> SUFFICES ASSUME ~UNCHANGED <<sess, rosterVars, wanted>>
             PROVE  active \in Room /\ DecideChange
  OBVIOUS
<1> DEFINE s == [sess[active] EXCEPT !.screen = "pending"]
<1>1. active # None /\ sess[active].paired /\ onSessionChange(active, s)
  BY DEF Decide
<1>2. active \in Room
  BY <1>1 DEF RosterTypes, SomeRoom
<1>3. sess[active] \in Session
  BY <1>2 DEF SessTypes
<1>4. s \in Session /\ s.screen = "pending" /\ s.paired = sess[active].paired
  BY <1>3 DEF Session
<1>5. Receipt(s)
  BY <1>1, <1>4 DEF Receipt
<1> HIDE DEF s
<1> QED
  BY <1>1, <1>2, <1>4, <1>5 DEF DecideChange

\* Done closes the receipt on the screen.
DoneChange == \E s \in Session :
  /\ onSessionChange(active, s) /\ Receipt(s) /\ s.screen # "pending"
LEMMA DismissIs ==
  ASSUME SessTypes, RosterTypes, dismissConfirmation
  PROVE  active \in Room /\ DoneChange
<1>1. active # None
  BY DEF dismissConfirmation
<1>2. active \in Room
  BY <1>1 DEF RosterTypes, SomeRoom
<1>3. sess[active] \in Session
  BY <1>2 DEF SessTypes
<1>4. PICK c \in {"listening", "offline"} : onSessionChange(active, [sess[active] EXCEPT !.screen = c])
  BY DEF dismissConfirmation
<1> DEFINE s == [sess[active] EXCEPT !.screen = c]
<1>5. s \in Session /\ s.screen = c
  BY <1>3 DEF Session
<1>6. Receipt(s)
  BY <1>5 DEF Receipt
<1> HIDE DEF s
<1>7. onSessionChange(active, s)
  BY <1>4 DEF s
<1> QED
  BY <1>2, <1>5, <1>6, <1>7 DEF DoneChange

\* The steps in which the manager reacts to a session.
Reacts == \/ \E r \in Room : SessionStep(r)
          \/ TapAnswer \/ CommitFires \/ Countdown \/ dismissConfirmation
SomeChange == \E r \in Room : \E s \in Session : onSessionChange(r, s) /\ Receipt(s)

LEMMA ReactsIs ==
  ASSUME SessTypes, RosterTypes, ViewTypes, Receipts, Reacts
  PROVE  /\ SomeChange \/ UNCHANGED <<sess, rosterVars, wanted>>
         /\ latest' \in [Room -> Nat] /\ fate' \in [Room -> {"open", "sent", "over"}]
<1>0. latest \in [Room -> Nat] /\ fate \in [Room -> {"open", "sent", "over"}]
  BY DEF SessTypes
<1>1. ASSUME NEW r \in Room, OwnChange(r) PROVE SomeChange
  BY <1>1 DEF OwnChange, SomeChange
<1>2. CASE \E r \in Room : SessionStep(r)
  BY <1>1, <1>2, SessionStepIs
<1>3. CASE Countdown
  BY <1>0, <1>1, <1>3, CountdownIs
<1>4. CASE TapAnswer \/ CommitFires
  <2>1. Decide /\ UNCHANGED <<latest, fate>>
    BY <1>4 DEF TapAnswer, CommitFires
  <2> QED
    BY <1>0, <2>1, DecideIs DEF DecideChange, SomeChange
<1>5. CASE dismissConfirmation
  <2>1. UNCHANGED <<latest, fate>>
    BY <1>5 DEF dismissConfirmation
  <2> QED
    BY <1>0, <1>5, <2>1, DismissIs DEF DoneChange, SomeChange
<1> QED
  BY <1>2, <1>3, <1>4, <1>5 DEF Reacts

(***************************************************************************)
(* The steps                                                               *)
(***************************************************************************)

\* Nothing happens to the sessions or the roster.
Quiet == UNCHANGED <<sessVars, rosterVars, mounted, hash, wanted>>

LEMMA Kinds ==
  ASSUME [Next]_vars
  PROVE  \/ Quiet \/ (Reacts /\ UNCHANGED pageVars) \/ Mount \/ Reload
         \/ \E r \in Room : Select(r) \/ RemoveRoom(r) \/ onSubmitCode(r) \/ Wake(r)
<1>1. Render => Quiet
  BY DEF Render, Quiet
<1>2. AddAgent \/ Cleanup \/ TapButton => Quiet
  BY DEF AddAgent, Cleanup, TapButton, Quiet, pageVars
<1>3. ASSUME NEW p \in Pointer, onDown(p) \/ onMove(p) \/ onUp(p) PROVE Quiet
  BY <1>3 DEF onDown, onMove, onUp, Quiet, pageVars
<1>4. UNCHANGED vars => Quiet
  BY DEF vars, Quiet, pageVars
<1>5. Countdown \/ dismissConfirmation \/ TapAnswer \/ CommitFires => Reacts /\ UNCHANGED pageVars
  BY DEF Reacts, Countdown, dismissConfirmation, TapAnswer, CommitFires
<1>6. ASSUME NEW r \in Room, SessionStep(r) PROVE Reacts /\ UNCHANGED pageVars
  BY <1>6 DEF Reacts, SessionStep
<1> QED
  BY <1>1, <1>2, <1>3, <1>4, <1>5, <1>6 DEF Next, Click, Event

\* What is left when the attempt on the screen has failed, and whether the
\* session of the code typed is kept.
PrevOrder(r) ==
  IF active \notin {None, r} /\ ~sess[active].paired /\ sess[active].err
    THEN remove(order, active, active).order ELSE order
Again(r) == r \in ToSet(PrevOrder(r)) /\ (sess[r].paired \/ ~sess[r].err)
Gone(r, x) == (x = r /\ ~Again(r)) \/ x \notin ToSet(PrevOrder(r))

LEMMA PrevOrderIs ==
  ASSUME RosterTypes, NEW r \in Room
  PROVE  /\ PrevOrder(r) \in Seq(Room)
         /\ ToSet(PrevOrder(r)) \subseteq ToSet(order)
         /\ \A q \in ToSet(order) : sess[q].paired => q \in ToSet(PrevOrder(r))
<1>1. order \in Seq(Room) /\ active \in SomeRoom
  BY DEF RosterTypes
<1>2. CASE active \notin {None, r} /\ ~sess[active].paired /\ sess[active].err
  <2>1. active \in Room /\ PrevOrder(r) = Without(order, active)
    BY <1>1, <1>2 DEF PrevOrder, remove, SomeRoom
  <2>2. PrevOrder(r) \in Seq(Room) /\ ToSet(PrevOrder(r)) = ToSet(order) \ {active}
    BY <1>1, <2>1, WithoutRoom
  <2> QED
    BY <1>2, <2>2
<1>3. CASE ~(active \notin {None, r} /\ ~sess[active].paired /\ sess[active].err)
  <2>1. PrevOrder(r) = order
    BY <1>3 DEF PrevOrder
  <2> QED
    BY <1>1, <2>1
<1> QED
  BY <1>2, <1>3

LEMMA SubmitIs ==
  ASSUME NEW r \in Room, onSubmitCode(r)
  PROVE  /\ order' = IF Again(r) THEN PrevOrder(r) ELSE Append(Without(PrevOrder(r), r), r)
         /\ active' = r /\ wanted' = None /\ pairing' = FALSE
         /\ sess' = [x \in Room |-> IF Gone(r, x) THEN NewSession ELSE sess[x]]
         /\ latest' = [x \in Room |-> IF Gone(r, x) THEN 0 ELSE latest[x]]
         /\ fate' = [x \in Room |-> IF Gone(r, x) THEN "over" ELSE fate[x]]
         /\ unread' = [x \in Room |-> IF x = r \/ Gone(r, x) THEN 0 ELSE unread[x]]
         /\ lastReq' = [x \in Room |-> IF Gone(r, x) THEN 0 ELSE lastReq[x]]
         /\ persistAll(order', sess')
         /\ mounted /\ UNCHANGED <<mounted, hash, viewVars>>
BY DEF onSubmitCode, PrevOrder, Again, Gone

LEMMA SubmitOrder ==
  ASSUME RosterTypes, NEW r \in Room, onSubmitCode(r)
  PROVE  order' \in Seq(Room) /\ ToSet(order') = ToSet(PrevOrder(r)) \cup {r}
<1>1. PrevOrder(r) \in Seq(Room)
  BY PrevOrderIs
<1>2. CASE Again(r)
  BY <1>1, <1>2, SubmitIs DEF Again
<1>3. CASE ~Again(r)
  <2> DEFINE w == Without(PrevOrder(r), r)
  <2>1. w \in Seq(Room) /\ ToSet(w) = ToSet(PrevOrder(r)) \ {r}
    BY <1>1, WithoutRoom
  <2>2. order' = Append(w, r)
    BY <1>3, SubmitIs
  <2> HIDE DEF w
  <2> QED
    BY <2>1, <2>2, AppendedRoom
<1> QED
  BY <1>2, <1>3

(***************************************************************************)
(* Types                                                                   *)
(***************************************************************************)

LEMMA NewSessionIs ==
  /\ NewSession \in Session /\ NewSession.screen = "pair" /\ ~NewSession.paired
  /\ [NewSession EXCEPT !.keyed = TRUE] \in Session
  /\ [NewSession EXCEPT !.keyed = TRUE].screen = "pair"
BY DEF NewSession, Session

LEMMA InitTypes == Init => TypeOK
<1> SUFFICES ASSUME Init PROVE TypeOK
  OBVIOUS
<1>1. SessTypes
  BY NewSessionIs DEF Init, SessTypes
<1>2. RosterTypes
  BY DEF Init, RosterTypes, SomeRoom
<1>3. PageTypes
  BY DEF Init, PageTypes, SomeRoom
<1>4. ViewTypes
  BY DEF Init, ViewTypes, NoView, Shown, SomeRoom
<1> QED
  BY <1>1, <1>2, <1>3, <1>4 DEF TypeOK

LEMMA PersistedRooms ==
  ASSUME NEW o \in Seq(Room), NEW s, persistAll(o, s)
  PROVE  store' \in Seq(Room)
<1>1. \E I \in SUBSET DOMAIN o : store' = Kept(o, I)
  BY DEF persistAll
<1> QED
  BY <1>1, KeptRooms

LEMMA RemoveTypes ==
  ASSUME SessTypes, RosterTypes, NEW r \in Room, RemoveRoom(r)
  PROVE  /\ SessTypes' /\ RosterTypes'
         /\ ToSet(order') = ToSet(order) \ {r} /\ order' = Without(order, r)
         /\ active' = IF active # r THEN active
                      ELSE IF order' = <<>> THEN None ELSE Head(order')
<1>0. /\ sess \in [Room -> Session] /\ latest \in [Room -> Nat]
      /\ fate \in [Room -> {"open", "sent", "over"}] /\ order \in Seq(Room)
      /\ active \in SomeRoom /\ unread \in [Room -> Nat] /\ lastReq \in [Room -> Nat]
  BY DEF SessTypes, RosterTypes
<1>1. /\ order' = Without(order, r)
      /\ active' = IF active # r THEN active
                   ELSE IF order' = <<>> THEN None ELSE Head(order')
      /\ persistAll(order', sess')
  BY DEF RemoveRoom, remove
<1>2. order' \in Seq(Room) /\ ToSet(order') = ToSet(order) \ {r}
  BY <1>0, <1>1, WithoutRoom
<1>3. active' \in SomeRoom
  BY <1>0, <1>1, <1>2, HeadRoom DEF SomeRoom
<1>4. /\ sess' = [sess EXCEPT ![r] = NewSession] /\ latest' = [latest EXCEPT ![r] = 0]
      /\ fate' = [fate EXCEPT ![r] = "over"] /\ unread' = [unread EXCEPT ![r] = 0]
      /\ lastReq' = [lastReq EXCEPT ![r] = 0] /\ wanted' = None
  BY DEF RemoveRoom
<1>5. store' \in Seq(Room)
  <2>1. PICK o \in Seq(Room) : o = order'
    BY <1>2
  <2> QED
    BY <1>1, <2>1, PersistedRooms
<1>6. SessTypes'
  BY <1>0, <1>4, NewSessionIs DEF SessTypes
<1>7. RosterTypes'
  BY <1>0, <1>2, <1>3, <1>4, <1>5 DEF RosterTypes, SomeRoom
<1> QED
  BY <1>1, <1>2, <1>6, <1>7

LEMMA SubmitTypes ==
  ASSUME SessTypes, RosterTypes, NEW r \in Room, onSubmitCode(r)
  PROVE  SessTypes' /\ RosterTypes'
<1>0. /\ sess \in [Room -> Session] /\ latest \in [Room -> Nat]
      /\ fate \in [Room -> {"open", "sent", "over"}]
      /\ unread \in [Room -> Nat] /\ lastReq \in [Room -> Nat]
  BY DEF SessTypes, RosterTypes
<1>1. order' \in Seq(Room) /\ persistAll(order', sess')
  BY SubmitOrder, SubmitIs
<1>2. store' \in Seq(Room)
  <2>1. PICK o \in Seq(Room) : o = order'
    BY <1>1
  <2> QED
    BY <1>1, <2>1, PersistedRooms
<1>3. sess' \in [Room -> Session]
  <2>1. sess' = [x \in Room |-> IF Gone(r, x) THEN NewSession ELSE sess[x]]
    BY SubmitIs
  <2> QED
    BY <1>0, <2>1, NewSessionIs
<1>4. latest' \in [Room -> Nat]
  <2>1. latest' = [x \in Room |-> IF Gone(r, x) THEN 0 ELSE latest[x]]
    BY SubmitIs
  <2> QED
    BY <1>0, <2>1
<1>5. fate' \in [Room -> {"open", "sent", "over"}]
  <2>1. fate' = [x \in Room |-> IF Gone(r, x) THEN "over" ELSE fate[x]]
    BY SubmitIs
  <2> QED
    BY <1>0, <2>1
<1>6. unread' \in [Room -> Nat]
  <2>1. unread' = [x \in Room |-> IF x = r \/ Gone(r, x) THEN 0 ELSE unread[x]]
    BY SubmitIs
  <2> QED
    BY <1>0, <2>1
<1>7. lastReq' \in [Room -> Nat]
  <2>1. lastReq' = [x \in Room |-> IF Gone(r, x) THEN 0 ELSE lastReq[x]]
    BY SubmitIs
  <2> QED
    BY <1>0, <2>1
<1>8. active' = r /\ wanted' = None
  BY SubmitIs
<1> QED
  BY <1>1, <1>2, <1>3, <1>4, <1>5, <1>6, <1>7, <1>8 DEF SessTypes, RosterTypes, SomeRoom

LEMMA MountTypes ==
  ASSUME SessTypes, RosterTypes, PageTypes, Mount
  PROVE  SessTypes' /\ RosterTypes'
<1>0. /\ latest \in [Room -> Nat] /\ fate \in [Room -> {"open", "sent", "over"}]
      /\ unread \in [Room -> Nat] /\ lastReq \in [Room -> Nat] /\ wanted \in SomeRoom
      /\ store \in Seq(Room) /\ hash \in SomeRoom
  BY DEF SessTypes, RosterTypes, PageTypes
<1>1. sess' \in [Room -> Session]
  BY NewSessionIs DEF Mount
<1>2. /\ order' = store /\ UNCHANGED <<latest, fate, unread, lastReq, store, wanted>>
      /\ active' \in {hash, None} \/ (store # <<>> /\ active' = Head(store))
  BY DEF Mount
<1>3. active' \in SomeRoom
  BY <1>0, <1>2, HeadRoom DEF SomeRoom
<1> QED
  BY <1>0, <1>1, <1>2, <1>3 DEF SessTypes, RosterTypes

LEMMA SessRosterTypes ==
  ASSUME TypeOK, Receipts, [Next]_vars
  PROVE  SessTypes' /\ RosterTypes'
<1>0. SessTypes /\ RosterTypes /\ PageTypes /\ ViewTypes
  BY DEF TypeOK
<1>1. CASE Quiet
  BY <1>0, <1>1 DEF Quiet, SessTypes, RosterTypes, sessVars, rosterVars
<1>2. CASE Reacts
  <2>1. latest' \in [Room -> Nat] /\ fate' \in [Room -> {"open", "sent", "over"}]
    BY <1>0, <1>2, ReactsIs
  <2>2. CASE SomeChange
    BY <1>0, <2>1, <2>2, ChangeTypes DEF SomeChange, SessTypes
  <2>3. CASE UNCHANGED <<sess, rosterVars, wanted>>
    BY <1>0, <2>1, <2>3 DEF SessTypes, RosterTypes, rosterVars
  <2> QED
    BY <1>0, <1>2, <2>2, <2>3, ReactsIs
<1>3. CASE Mount
  BY <1>0, <1>3, MountTypes
<1>4. CASE Reload
  BY <1>0, <1>4, NewSessionIs DEF Reload, SessTypes, RosterTypes, SomeRoom
<1>5. ASSUME NEW r \in Room, Select(r) PROVE SessTypes' /\ RosterTypes'
  BY <1>0, <1>5 DEF Select, setActive, SessTypes, RosterTypes, SomeRoom, sessVars
<1>6. ASSUME NEW r \in Room, Wake(r) PROVE SessTypes' /\ RosterTypes'
  <2>1. UNCHANGED <<sess, latest, fate, order, lastReq, store>> /\ wanted' = r
    BY <1>6 DEF Wake, sessVars
  <2>2. active' \in SomeRoom /\ unread' \in [Room -> Nat]
    <3>1. CASE active' = r /\ unread' = [unread EXCEPT ![r] = 0]
      BY <1>0, <3>1 DEF RosterTypes, SomeRoom
    <3>2. CASE UNCHANGED <<active, unread>>
      BY <1>0, <3>2 DEF RosterTypes
    <3> QED
      BY <1>6, <3>1, <3>2 DEF Wake, receive, setActive
  <2> QED
    BY <1>0, <2>1, <2>2 DEF SessTypes, RosterTypes, SomeRoom
<1> QED
  BY <1>0, <1>1, <1>2, <1>3, <1>4, <1>5, <1>6, RemoveTypes, SubmitTypes, Kinds

LEMMA NextPageTypes ==
  ASSUME TypeOK, [Next]_vars
  PROVE  PageTypes'
<1>0. mounted \in BOOLEAN /\ hash \in SomeRoom /\ pairing \in BOOLEAN /\ urgent \in BOOLEAN
  BY DEF TypeOK, PageTypes
<1>1. mounted' \in BOOLEAN /\ hash' \in SomeRoom
  <2>1. CASE Quiet \/ UNCHANGED pageVars
    BY <1>0, <2>1 DEF Quiet, pageVars
  <2>2. CASE Mount \/ Reload
    BY <2>2 DEF Mount, Reload, SomeRoom
  <2>3. ASSUME NEW r \in Room, Select(r) \/ RemoveRoom(r) \/ onSubmitCode(r) \/ Wake(r)
        PROVE  mounted' \in BOOLEAN /\ hash' \in SomeRoom
    BY <1>0, <2>3 DEF Select, RemoveRoom, onSubmitCode, Wake, receive, pageVars, SomeRoom
  <2> QED
    BY <2>1, <2>2, <2>3, Kinds
<1>2. urgent' \in BOOLEAN
  <2>1. CASE Render
    BY <2>1 DEF Render
  <2>2. CASE urgent' = ~Rendered'
    BY <2>2
  <2>3. CASE UNCHANGED urgent
    BY <1>0, <2>3
  <2> QED
    BY <2>1, <2>2, <2>3 DEF Next, vars
<1>3. pairing' \in BOOLEAN
  <2>1. CASE Render
    BY <1>0, <2>1 DEF Render
  <2>2. CASE AddAgent
    BY <2>2 DEF AddAgent
  <2>3. CASE UNCHANGED pageVars
    BY <1>0, <2>3 DEF pageVars
  <2>4. CASE Mount \/ Reload
    BY <2>4 DEF Mount, Reload
  <2>5. ASSUME NEW r \in Room, Select(r) \/ RemoveRoom(r) \/ onSubmitCode(r) \/ Wake(r)
        PROVE  pairing' \in BOOLEAN
    BY <1>0, <2>5 DEF Select, RemoveRoom, onSubmitCode, Wake, receive, pageVars
  <2>6. CASE Cleanup \/ TapButton
    BY <2>3, <2>6 DEF Cleanup, TapButton
  <2>7. ASSUME NEW p \in Pointer, onDown(p) \/ onMove(p) \/ onUp(p) PROVE pairing' \in BOOLEAN
    BY <2>3, <2>7 DEF onDown, onMove, onUp
  <2>8. CASE UNCHANGED vars
    BY <2>3, <2>8 DEF vars
  <2>9. CASE Countdown \/ dismissConfirmation \/ TapAnswer \/ CommitFires
    BY <2>3, <2>9 DEF Countdown, dismissConfirmation, TapAnswer, CommitFires
  <2>10. ASSUME NEW r \in Room, SessionStep(r) PROVE pairing' \in BOOLEAN
    BY <2>3, <2>10 DEF SessionStep
  <2> QED
    BY <2>1, <2>2, <2>4, <2>5, <2>6, <2>7, <2>8, <2>9, <2>10 DEF Next, Click, Event
<1> QED
  BY <1>1, <1>2, <1>3 DEF PageTypes

LEMMA ViewIs ==
  ASSUME SessTypes, RosterTypes
  PROVE  View \in Shown
<1>1. CASE active = None
  BY <1>1 DEF View, Shown, SomeRoom
<1>2. CASE active # None
  <2>1. active \in Room
    BY <1>2 DEF RosterTypes, SomeRoom
  <2>2. /\ sess[active].req \in Nat /\ latest[active] \in Nat
        /\ sess[active].screen \in {"pair", "listening", "card", "pending", "offline", "confirmed"}
    BY <2>1 DEF SessTypes, Session
  <2> DEFINE c == IF pairing THEN "pair" ELSE sess[active].screen
             q == IF sess[active].screen = "confirmed" THEN latest[active] ELSE sess[active].req
  <2>3. View = [screen |-> c, room |-> active, req |-> q]
    BY <1>2 DEF View
  <2>4. /\ c \in {"pair", "listening", "card", "pending", "offline", "confirmed"}
        /\ q \in Nat
    BY <2>2
  <2> HIDE DEF c, q
  <2> QED
    BY <2>1, <2>3, <2>4 DEF Shown, SomeRoom
<1> QED
  BY <1>1, <1>2

\* The card on the screen, its gesture and its timer.
CardInv == ViewTypes /\ TimerOfCard /\ OneFinger

LEMMA NextCardInv ==
  ASSUME SessTypes, RosterTypes, CardInv, [Next]_vars
  PROVE  CardInv'
<1>0. /\ shown \in Shown /\ wasPaired \in BOOLEAN
      /\ gesture \in [finger : Pointer, across : BOOLEAN] \cup {None}
      /\ committed \in BOOLEAN /\ timer \in Answered \cup {None} /\ dying \in SUBSET Answered
      /\ touched \in SUBSET Pointer /\ spent \in BOOLEAN
      /\ timer # None => shown.screen = "card" /\ timer = <<shown.room, shown.req>>
      /\ touched = IF gesture = None THEN {} ELSE {gesture.finger}
  BY DEF CardInv, ViewTypes, TimerOfCard, OneFinger
<1>1. <<shown.room, shown.req>> \in Answered
  BY <1>0 DEF Shown, Answered
<1>2. CASE UNCHANGED viewVars
  BY <1>2 DEF CardInv, ViewTypes, TimerOfCard, OneFinger, viewVars, cardVars
<1>3. CASE Render
  <2>1. shown' \in Shown /\ shown' = View
    BY <1>3, ViewIs DEF Render
  <2>2. wasPaired' \in BOOLEAN
    BY <1>3 DEF Render, AnyPaired
  <2>3. CASE SameCard
    <3>1. UNCHANGED cardVars
      BY <1>3, <2>3 DEF Render
    <3>2. shown'.screen = "card" /\ shown'.room = shown.room /\ shown'.req = shown.req
      BY <2>1, <2>3 DEF SameCard
    <3>3. TimerOfCard'
      BY <1>0, <3>1, <3>2 DEF TimerOfCard, cardVars
    <3>4. OneFinger'
      BY <1>0, <3>1 DEF OneFinger, cardVars
    <3>5. ViewTypes'
      BY <1>0, <2>1, <2>2, <3>1 DEF ViewTypes, cardVars
    <3> QED
      BY <3>3, <3>4, <3>5 DEF CardInv
  <2>4. CASE ~SameCard
    <3>1. /\ gesture' = None /\ committed' = FALSE /\ timer' = None /\ touched' = {}
          /\ dying' = dying \cup ({timer} \ {None}) /\ spent' = FALSE
      BY <1>3, <2>4 DEF Render
    <3>2. ViewTypes'
      BY <1>0, <2>1, <2>2, <3>1 DEF ViewTypes
    <3> QED
      BY <3>1, <3>2 DEF CardInv, TimerOfCard, OneFinger
  <2> QED
    BY <2>3, <2>4
<1>4. CASE Cleanup
  <2>1. dying' = {} /\ UNCHANGED <<shown, wasPaired, gesture, committed, timer, touched, spent>>
    BY <1>4 DEF Cleanup
  <2> QED
    BY <1>0, <2>1 DEF CardInv, ViewTypes, TimerOfCard, OneFinger
<1>5. ASSUME NEW p \in Pointer, onDown(p)
      PROVE  CardInv'
  <2>1. /\ gesture' = IF gesture = None THEN [finger |-> p, across |-> FALSE] ELSE None
        /\ touched' = IF gesture' = None THEN {} ELSE touched \cup {p}
        /\ UNCHANGED <<shown, wasPaired, committed, timer, dying, spent>>
    BY <1>5 DEF onDown
  <2>2. /\ gesture' \in [finger : Pointer, across : BOOLEAN] \cup {None}
        /\ touched' = IF gesture' = None THEN {} ELSE {gesture'.finger}
    BY <1>0, <2>1
  <2>3. touched' \in SUBSET Pointer
    BY <1>0, <2>1
  <2> QED
    BY <1>0, <2>1, <2>2, <2>3 DEF CardInv, ViewTypes, TimerOfCard, OneFinger
<1>6. ASSUME NEW p \in Pointer, onMove(p)
      PROVE  CardInv'
  <2>1. /\ gesture # None
        /\ gesture' = [gesture EXCEPT !.across = TRUE] \/ gesture' = None
        /\ touched' = IF gesture' = None THEN {} ELSE touched
        /\ UNCHANGED <<shown, wasPaired, committed, timer, dying, spent>>
    BY <1>6 DEF onMove
  <2>2. /\ gesture' \in [finger : Pointer, across : BOOLEAN] \cup {None}
        /\ touched' = IF gesture' = None THEN {} ELSE {gesture'.finger}
        /\ touched' \in SUBSET Pointer
    BY <1>0, <2>1
  <2> QED
    BY <1>0, <2>1, <2>2 DEF CardInv, ViewTypes, TimerOfCard, OneFinger
<1>7. ASSUME NEW p \in Pointer, onUp(p)
      PROVE  CardInv'
  <2>1. /\ shown.screen = "card" /\ gesture' = None /\ touched' = {}
        /\ \/ committed' = TRUE /\ timer' = <<shown.room, shown.req>>
           \/ UNCHANGED <<committed, timer>>
        /\ UNCHANGED <<shown, wasPaired, dying, spent>>
    BY <1>7 DEF onUp, OnCard, commit
  <2> QED
    BY <1>0, <1>1, <2>1 DEF CardInv, ViewTypes, TimerOfCard, OneFinger
<1>8. CASE TapButton
  <2>1. /\ shown.screen = "card" /\ gesture' = None /\ touched' = {}
        /\ committed' = TRUE /\ timer' = <<shown.room, shown.req>>
        /\ UNCHANGED <<shown, wasPaired, dying, spent>>
    BY <1>8 DEF TapButton, OnCard, commit
  <2> QED
    BY <1>0, <1>1, <2>1 DEF CardInv, ViewTypes, TimerOfCard, OneFinger
<1>9. CASE CommitFires
  <2>1. /\ timer' \in {timer, None} /\ dying' \subseteq dying
        /\ UNCHANGED <<shown, wasPaired, gesture, committed, touched>>
        /\ spent' \in {spent, spent \/ sess' # sess}
    BY <1>9 DEF CommitFires
  <2> QED
    BY <1>0, <2>1 DEF CardInv, ViewTypes, TimerOfCard, OneFinger
<1>10. CASE Reload
  <2>1. /\ shown' = NoView /\ wasPaired' = FALSE
        /\ gesture' = None /\ committed' = FALSE /\ timer' = None /\ dying' = {}
        /\ touched' = {} /\ spent' = FALSE
    BY <1>10 DEF Reload
  <2> QED
    BY <2>1 DEF CardInv, ViewTypes, TimerOfCard, OneFinger, NoView, Shown, SomeRoom
<1>11. ASSUME NEW r \in Room, \/ Select(r) \/ RemoveRoom(r) \/ onSubmitCode(r) \/ Wake(r)
                              \/ SessionStep(r)
       PROVE  CardInv'
  BY <1>2, <1>11 DEF Select, RemoveRoom, onSubmitCode, Wake, SessionStep
<1>12. CASE AddAgent \/ dismissConfirmation \/ Countdown \/ Mount
  BY <1>2, <1>12 DEF AddAgent, dismissConfirmation, Countdown, Mount
<1>13. CASE TapAnswer
  <2>1. /\ spent' = (spent \/ sess' # sess)
        /\ UNCHANGED <<shown, wasPaired, gesture, committed, timer, dying, touched>>
    BY <1>13 DEF TapAnswer
  <2> QED
    BY <1>0, <2>1 DEF CardInv, ViewTypes, TimerOfCard, OneFinger
<1>14. CASE UNCHANGED vars
  BY <1>2, <1>14 DEF vars
<1> QED
  BY <1>3, <1>4, <1>5, <1>6, <1>7, <1>8, <1>9, <1>10, <1>11, <1>12, <1>13, <1>14
     DEF Next, Click, Event

\* An answer that is tapped takes the card out of what is to be rendered.
LEMMA TapLeavesCard ==
  ASSUME SessTypes, RosterTypes, TapAnswer, sess' # sess
  PROVE  View'.screen # "card" /\ ~Rendered'
<1>1. Decide /\ shown' = shown /\ pairing' = pairing /\ shown.screen = "card"
  BY DEF TapAnswer, OnCard, pageVars
<1>2. active \in Room /\ DecideChange
  BY <1>1, DecideIs
<1>3. PICK s \in Session : onSessionChange(active, s) /\ s.screen = "pending"
  BY <1>2 DEF DecideChange
<1>4. sess'[active].screen = "pending" /\ active' = active
  BY <1>2, <1>3, ChangeIs
<1>5. active' # None
  BY <1>2, <1>4, NoneIsNoRoom
<1>6. View'.screen = IF pairing THEN "pair" ELSE "pending"
  BY <1>1, <1>4, <1>5 DEF View
<1>7. View'.screen # "card"
  BY <1>6
<1>8. shown'.screen = "card"
  BY <1>1
<1>9. ~Rendered'
  BY <1>7, <1>8 DEF Rendered
<1> QED
  BY <1>7, <1>9

LEMMA NextSpentCard ==
  ASSUME SessTypes, RosterTypes, SpentCard, [Next]_vars
  PROVE  SpentCard'
<1>0. /\ committed => gesture = None
      /\ timer # None => committed
      /\ spent => (committed /\ timer = None) \/ (urgent /\ View.screen # "card")
  BY DEF SpentCard
<1>1. CASE UNCHANGED vars
  <2>1. UNCHANGED <<sess, latest, active, pairing, urgent, gesture, committed, timer, spent>>
    BY <1>1 DEF vars, sessVars, rosterVars, pageVars, viewVars, cardVars
  <2>2. View' = View
    BY <2>1 DEF View
  <2> QED
    BY <1>0, <2>1, <2>2 DEF SpentCard
<1>2. CASE Render
  <2>1. CASE SameCard
    <3>1. UNCHANGED <<gesture, committed, timer, spent>> /\ View.screen = "card"
      BY <1>2, <2>1 DEF Render, SameCard, cardVars
    <3> QED
      BY <1>0, <3>1 DEF SpentCard
  <2>2. CASE ~SameCard
    <3>1. gesture' = None /\ committed' = FALSE /\ timer' = None /\ spent' = FALSE
      BY <1>2, <2>2 DEF Render
    <3> QED
      BY <3>1 DEF SpentCard
  <2> QED
    BY <2>1, <2>2
<1>3. ASSUME ~urgent, UNCHANGED <<gesture, committed, timer, spent>>
      PROVE  SpentCard'
  BY <1>0, <1>3 DEF SpentCard
<1>4. CASE ~urgent /\ Click /\ urgent' = ~Rendered'
  <2>1. CASE TapAnswer
    <3>1. /\ ~committed /\ UNCHANGED <<gesture, committed, timer>>
          /\ spent' = (spent \/ sess' # sess)
      BY <2>1 DEF TapAnswer
    <3>2. spent' => sess' # sess
      BY <1>0, <1>4, <3>1
    <3>3. spent' => urgent' /\ View'.screen # "card"
      BY <1>4, <2>1, <3>2, TapLeavesCard
    <3> QED
      BY <1>0, <3>1, <3>3 DEF SpentCard
  <2>2. CASE AddAgent \/ dismissConfirmation
    BY <1>3, <1>4, <2>2 DEF AddAgent, dismissConfirmation, viewVars, cardVars
  <2>3. ASSUME NEW r \in Room, Select(r) \/ RemoveRoom(r) \/ onSubmitCode(r)
        PROVE  SpentCard'
    BY <1>3, <1>4, <2>3 DEF Select, RemoveRoom, onSubmitCode, viewVars, cardVars
  <2> QED
    BY <1>4, <2>1, <2>2, <2>3 DEF Click
<1>5. CASE ~urgent /\ Event
  <2>1. ASSUME NEW p \in Pointer, onDown(p) \/ onMove(p) \/ onUp(p)
        PROVE  SpentCard'
    <3>1. ~committed
      BY <1>0, <2>1 DEF onDown, onMove, onUp
    <3>2. ~spent /\ timer = None
      BY <1>0, <1>5, <3>1
    <3>3. CASE onDown(p) \/ onMove(p)
      BY <3>1, <3>2, <3>3 DEF onDown, onMove, SpentCard
    <3>4. CASE onUp(p)
      BY <3>1, <3>2, <3>4 DEF onUp, commit, SpentCard
    <3> QED
      BY <2>1, <3>3, <3>4
  <2>2. CASE TapButton
    <3>1. ~spent
      BY <1>0, <1>5, <2>2 DEF TapButton
    <3> QED
      BY <2>2, <3>1 DEF TapButton, commit, SpentCard
  <2>3. CASE CommitFires
    <3>1. UNCHANGED <<gesture, committed>>
      BY <2>3 DEF CommitFires
    <3>2. CASE timer # None /\ timer' = None
      BY <1>0, <3>1, <3>2 DEF SpentCard
    <3>3. CASE UNCHANGED <<timer, spent>>
      BY <1>3, <1>5, <3>1, <3>3
    <3> QED
      BY <2>3, <3>2, <3>3 DEF CommitFires
  <2>4. CASE Cleanup \/ Countdown \/ Mount
    BY <1>3, <1>5, <2>4 DEF Cleanup, Countdown, Mount, viewVars, cardVars
  <2>5. CASE Reload
    BY <2>5 DEF Reload, SpentCard
  <2>6. ASSUME NEW r \in Room, SessionStep(r) \/ Wake(r)
        PROVE  SpentCard'
    BY <1>3, <1>5, <2>6 DEF SessionStep, Wake, viewVars, cardVars
  <2> QED
    BY <1>5, <2>1, <2>2, <2>3, <2>4, <2>5, <2>6 DEF Event
<1> QED
  BY <1>1, <1>2, <1>4, <1>5 DEF Next

LEMMA NextTypes ==
  ASSUME IInv, [Next]_vars
  PROVE  TypeOK' /\ TimerOfCard' /\ OneFinger' /\ SpentCard'
<1>1. SpentCard /\ TypeOK /\ SessTypes /\ RosterTypes /\ ViewTypes /\ Receipts /\ CardInv
  BY DEF IInv, TypeOK, CardInv
<1> QED
  BY <1>1, SessRosterTypes, NextPageTypes, NextCardInv, NextSpentCard DEF TypeOK, CardInv

(***************************************************************************)
(* The roster and the wake-ups                                             *)
(***************************************************************************)

LEMMA NextUnmounted ==
  ASSUME IInv, [Next]_vars
  PROVE  Unmounted'
<1>0. RosterTypes /\ SessTypes /\ ViewTypes /\ Receipts
      /\ (~mounted => order = <<>> /\ active = None /\ wanted = hash)
  BY DEF IInv, TypeOK, Unmounted
<1>1. CASE Quiet
  BY <1>0, <1>1 DEF Quiet, rosterVars, Unmounted
<1>2. CASE Reacts /\ UNCHANGED pageVars
  <2>1. mounted
    <3>1. ASSUME NEW r \in Room, SessionStep(r) PROVE Live(r)
      BY <3>1 DEF SessionStep, SessionPaired, SessionRestored, SessionFails, SessionAsked,
                  SessionOffline, SessionOnline, SessionSigned, SessionExpires, SessionReceipt
    <3> QED
      BY <1>2, <3>1 DEF Reacts, Live, TapAnswer, OnCard, CommitFires, Countdown,
                        dismissConfirmation
  <2> QED
    BY <1>2, <2>1 DEF pageVars, Unmounted
<1>3. CASE Mount
  BY <1>3 DEF Mount, Unmounted
<1>4. CASE Reload
  BY <1>4 DEF Reload, Unmounted
<1>5. ASSUME NEW r \in Room, Select(r) \/ RemoveRoom(r) \/ onSubmitCode(r)
      PROVE  Unmounted'
  BY <1>5 DEF Select, RemoveRoom, onSubmitCode, pageVars, Unmounted
<1>6. ASSUME NEW r \in Room, Wake(r)
      PROVE  Unmounted'
  BY <1>0, <1>6 DEF Wake, receive, Unmounted
<1> QED
  BY <1>1, <1>2, <1>3, <1>4, <1>5, <1>6, Kinds

LEMMA NextWakeSelects ==
  ASSUME IInv, [Next]_vars
  PROVE  WakeSelects'
<1>0. /\ RosterTypes /\ SessTypes /\ ViewTypes /\ Receipts
      /\ (~mounted => order = <<>> /\ active = None /\ wanted = hash)
      /\ (mounted /\ wanted \in ToSet(order) => active = wanted)
      /\ order \in Seq(Room) /\ store \in Seq(Room)
  BY DEF IInv, TypeOK, Unmounted, WakeSelects, RosterTypes
<1>1. CASE Quiet
  BY <1>0, <1>1 DEF Quiet, rosterVars, WakeSelects, ToSet
<1>2. CASE Reacts /\ UNCHANGED pageVars
  <2>1. ASSUME NEW r \in Room, NEW s \in Session, onSessionChange(r, s)
        PROVE  WakeSelects'
    <3>1. /\ order' = order /\ wanted' = IF active' # active THEN None ELSE wanted
          /\ mounted' = mounted
      BY <1>0, <1>2, <2>1, ChangeIs DEF pageVars
    <3>2. CASE active' = active
      BY <1>0, <3>1, <3>2 DEF WakeSelects, ToSet
    <3>3. CASE active' # active
      BY <1>0, <3>1, <3>3, ToSetIs DEF WakeSelects, ToSet
    <3> QED
      BY <3>2, <3>3
  <2>2. CASE UNCHANGED <<sess, rosterVars, wanted>>
    BY <1>0, <1>2, <2>2 DEF rosterVars, pageVars, WakeSelects, ToSet
  <2> QED
    BY <1>0, <1>2, <2>1, <2>2, ReactsIs DEF SomeChange
<1>3. CASE Mount
  <2>1. order' = store /\ wanted' = hash
    BY <1>0, <1>3 DEF Mount
  <2>2. hash \in ToSet(store) => active' = hash
    BY <1>0, <1>3, ToSetIs DEF Mount
  <2> QED
    BY <2>1, <2>2 DEF WakeSelects, ToSet
<1>4. CASE Reload
  BY <1>4 DEF Reload, WakeSelects
<1>5. ASSUME NEW r \in Room, Select(r) \/ RemoveRoom(r) \/ onSubmitCode(r)
      PROVE  WakeSelects'
  <2>1. wanted' = None
    BY <1>5 DEF Select, RemoveRoom, onSubmitCode
  <2>2. RosterTypes'
    BY <1>5, SessRosterTypes DEF IInv
  <2>3. PICK o \in Seq(Room) : o = order'
    BY <2>2 DEF RosterTypes
  <2>4. None \notin ToSet(o)
    BY ToSetIs
  <2> QED
    BY <2>1, <2>3, <2>4 DEF WakeSelects, ToSet
<1>6. ASSUME NEW r \in Room, Wake(r)
      PROVE  WakeSelects'
  BY <1>0, <1>6 DEF Wake, receive, setActive, WakeSelects
<1> QED
  BY <1>1, <1>2, <1>3, <1>4, <1>5, <1>6, Kinds

LEMMA NextReceipts ==
  ASSUME IInv, [Next]_vars
  PROVE  Receipts'
<1>0. /\ RosterTypes /\ SessTypes /\ ViewTypes /\ Receipts
      /\ sess \in [Room -> Session] /\ \A q \in Room : Receipt(sess[q])
  BY DEF IInv, TypeOK, SessTypes, Receipts
<1>1. CASE sess' = sess
  BY <1>0, <1>1 DEF Receipts, Receipt
<1>2. CASE Reacts
  <2>1. ASSUME NEW r \in Room, NEW s \in Session, onSessionChange(r, s), Receipt(s)
        PROVE  Receipts'
    <3>1. sess'[r] = s /\ \A q \in Room \ {r} : sess'[q] = sess[q]
      BY <1>0, <2>1, ChangeIs
    <3> QED
      BY <1>0, <2>1, <3>1 DEF Receipts, Receipt
  <2> QED
    BY <1>0, <1>1, <1>2, <2>1, ReactsIs DEF SomeChange
<1>3. CASE Mount \/ Reload
  <2>1. \A q \in Room : sess'[q].screen = "pair"
    BY <1>3, NewSessionIs DEF Mount, Reload
  <2> QED
    BY <2>1 DEF Receipts, Receipt
<1>4. ASSUME NEW r \in Room, RemoveRoom(r)
      PROVE  Receipts'
  <2>1. sess' = [sess EXCEPT ![r] = NewSession]
    BY <1>4 DEF RemoveRoom
  <2>2. sess'[r].screen = "pair" /\ \A q \in Room \ {r} : sess'[q] = sess[q]
    BY <1>0, <2>1, NewSessionIs
  <2> QED
    BY <1>0, <2>2 DEF Receipts, Receipt
<1>5. ASSUME NEW r \in Room, onSubmitCode(r)
      PROVE  Receipts'
  <2>1. \A q \in Room : sess'[q] = sess[q] \/ sess'[q] = NewSession
    BY <1>5, SubmitIs
  <2> QED
    BY <1>0, <2>1, NewSessionIs DEF Receipts, Receipt
<1>6. ASSUME NEW r \in Room, Select(r) \/ Wake(r)
      PROVE  sess' = sess
  BY <1>6 DEF Select, Wake, sessVars
<1>7. Quiet => sess' = sess
  BY DEF Quiet, sessVars
<1> QED
  BY <1>1, <1>2, <1>3, <1>4, <1>5, <1>6, <1>7, Kinds

LEMMA InitInv == Init => IInv
<1> SUFFICES ASSUME Init PROVE IInv
  OBVIOUS
<1>1. \A r \in Room : sess[r].screen = "pair"
  BY NewSessionIs DEF Init
<1>2. Receipts
  BY <1>1 DEF Receipts, Receipt
<1>3. Unmounted /\ WakeSelects /\ TimerOfCard /\ OneFinger /\ SpentCard
  BY DEF Init, Unmounted, WakeSelects, TimerOfCard, OneFinger, SpentCard
<1> QED
  BY <1>2, <1>3, InitTypes DEF IInv

LEMMA NextInv == IInv /\ [Next]_vars => IInv'
BY NextTypes, NextUnmounted, NextWakeSelects, NextReceipts DEF IInv

(***************************************************************************)
(* Theorems                                                                *)
(***************************************************************************)

\* The roster, what is wanted of it, the screen and the card on it stay consistent, whatever
\* the sessions, the human and the notifications do (manager.ts, App.tsx, screens.tsx).
THEOREM Invariant == Spec => []IInv
BY InitInv, NextInv, PTL DEF Spec

\* The variables have their types, for any rooms, fingers and requests (manager.ts, App.tsx).
THEOREM TypeCorrect == Spec => []TypeOK
BY Invariant, PTL DEF IInv

\* A clicked notification brings its agent to the front, whether the page was there, was
\* loading, or was started for it (push-page.ts installPushReceiver, App.tsx).
THEOREM WokenIsShown == Spec => []WakeSelects
BY Invariant, PTL DEF IInv

\* A gesture that can commit a card is one finger's from its first contact to its last
\* (screens.tsx onDown).
THEOREM OneFingerSwipes == Spec => []SwipeIsOneFingers
<1>1. IInv => SwipeIsOneFingers
  BY DEF IInv, OneFinger, SwipeIsOneFingers
<1> QED
  BY <1>1, Invariant, PTL

\* A card on the screen is taken from it by its own session or by the human only: another
\* room's request waits, unread (manager.ts onSessionChange).
THEOREM OpenCardStays == Spec => CardNotStolen
<1>1. ASSUME IInv, [Next]_vars, mounted, active # None, sess[active].screen = "card"
      PROVE  active' = active \/ UserTurns
  <2>0. SessTypes /\ RosterTypes /\ ViewTypes /\ Receipts
    BY <1>1 DEF IInv, TypeOK
  <2>1. CASE Quiet
    BY <2>1 DEF Quiet, rosterVars
  <2>2. CASE Reacts
    <3>1. ASSUME NEW r \in Room, NEW s \in Session, onSessionChange(r, s)
          PROVE  active' = active
      BY <1>1, <2>0, <3>1, ChangeIs
    <3> QED
      BY <2>0, <2>2, <3>1, ReactsIs DEF SomeChange, rosterVars
  <2>3. ~Mount
    BY <1>1 DEF Mount
  <2> QED
    BY <1>1, <2>1, <2>2, <2>3, Kinds DEF UserTurns
<1>2. IInv /\ [Next]_vars
      => [mounted /\ active # None /\ sess[active].screen = "card"
            => active' = active \/ UserTurns]_vars
  BY <1>1
<1> QED
  BY <1>2, Invariant, PTL DEF Spec, CardNotStolen

\* An agent that is paired stays in the roster of the page until the human removes it: a
\* new code replaces a failed attempt, and only that (App.tsx onSubmitCode).
THEOREM PairedAgentsKept == Spec => PairedKept
<1>1. ASSUME IInv, [Next]_vars, NEW r \in ToSet(order), sess[r].paired, mounted'
      PROVE  r \in ToSet(order') \/ RemoveRoom(r)
  <2>0. SessTypes /\ RosterTypes /\ ViewTypes /\ Receipts /\ order \in Seq(Room)
        /\ (~mounted => order = <<>>)
    BY <1>1 DEF IInv, TypeOK, RosterTypes, Unmounted
  <2>1. CASE order' = order
    BY <1>1, <2>1
  <2>2. CASE Reacts
    <3>1. order' = order
      BY <2>0, <2>2, ReactsIs, ChangeIs DEF SomeChange, rosterVars
    <3> QED
      BY <2>1, <3>1
  <2>3. ~Reload
    BY <1>1 DEF Reload
  <2>4. ~Mount
    BY <1>1, <2>0, ToSetIs DEF Mount
  <2>5. ASSUME NEW q \in Room, RemoveRoom(q), q # r
        PROVE  r \in ToSet(order')
    BY <1>1, <2>0, <2>5, RemoveTypes
  <2>6. ASSUME NEW q \in Room, onSubmitCode(q)
        PROVE  r \in ToSet(order')
    BY <1>1, <2>0, <2>6, SubmitOrder, PrevOrderIs
  <2>7. ASSUME NEW q \in Room, Select(q) \/ Wake(q)
        PROVE  order' = order
    BY <2>7 DEF Select, Wake
  <2>8. Quiet => order' = order
    BY DEF Quiet, rosterVars
  <2> QED
    BY <1>1, <2>1, <2>2, <2>3, <2>4, <2>5, <2>6, <2>7, <2>8, Kinds
<1>2. IInv /\ [Next]_vars
      => [\A r \in ToSet(order) :
            sess[r].paired /\ mounted' => r \in ToSet(order') \/ RemoveRoom(r)]_vars
  BY <1>1
<1> QED
  BY <1>2, Invariant, PTL DEF Spec, PairedKept

\* An answer is given to a session by the card on the screen.
LEMMA AnswerIsGiven ==
  ASSUME IInv, Decide, active \in Room, Rendered, shown.screen = "card"
  PROVE  <<shown.room, shown.req>> = <<active, sess[active].req>>
<1>1. active # None /\ shown = View
  BY NoneIsNoRoom DEF Rendered
<1> DEFINE c == IF pairing THEN "pair" ELSE sess[active].screen
           q == IF sess[active].screen = "confirmed" THEN latest[active] ELSE sess[active].req
<1>2. View = [screen |-> c, room |-> active, req |-> q]
  BY <1>1 DEF View
<1>3. c = "card"
  <2> HIDE DEF c, q
  <2> QED
    BY <1>1, <1>2
<1>4. sess[active].screen = "card"
  BY <1>3
<1>5. q = sess[active].req
  BY <1>4
<1> HIDE DEF c, q
<1> QED
  BY <1>1, <1>2, <1>5

\* What a step may do to the session of one room.
Regular(r) == AnswerOrStray(r) /\ ReceiptWasShown(r)

\* The body of the property, for one room.
LEMMA NextAnswer ==
  ASSUME IInv, [Next]_vars, NEW r \in ToSet(order)
  PROVE  Regular(r)
<1>0. /\ SessTypes /\ RosterTypes /\ ViewTypes /\ Receipts
      /\ order \in Seq(Room) /\ sess \in [Room -> Session]
      /\ (~mounted => order = <<>>) /\ mounted \in BOOLEAN
      /\ timer # None => shown.screen = "card" /\ timer = <<shown.room, shown.req>>
      /\ spent => (committed /\ timer = None) \/ urgent
  BY DEF IInv, TypeOK, SessTypes, RosterTypes, PageTypes, Unmounted, TimerOfCard, SpentCard
<1>1. r \in Room
  BY <1>0, ToSetIs
<1>2. ASSUME sess' # sess
      PROVE  ~urgent
  BY <1>2 DEF Next, Render, vars, sessVars
<1>3. ASSUME ~Answering(sess[r], sess'[r]), ~Closing(sess[r], sess'[r])
      PROVE  Regular(r)
  BY <1>3 DEF Answering, Closing, Answers, Regular, AnswerOrStray, AnswerWasShown, ReceiptWasShown
<1>4. CASE sess'[r] = sess[r] \/ sess'[r].screen = "pair"
  BY <1>3, <1>4 DEF Answering, Closing
<1>5. ASSUME NEW q \in Room, OwnChange(q)
      PROVE  Regular(r)
  <2>1. PICK s \in Session : /\ onSessionChange(q, s)
                             /\ ~Answering(sess[q], s) /\ ~Closing(sess[q], s)
    BY <1>5 DEF OwnChange
  <2>2. sess'[q] = s /\ \A x \in Room \ {q} : sess'[x] = sess[x]
    BY <1>0, <2>1, ChangeIs
  <2> QED
    BY <1>1, <1>3, <1>4, <2>1, <2>2
<1>6. ASSUME Decide,
             dying' = dying => /\ shown.screen = "card" /\ ~spent
                               /\ timer' # timer => timer = <<shown.room, shown.req>>
      PROVE  Regular(r)
  <2>1. CASE active \in Room /\ DecideChange
    <3>1. PICK s \in Session : onSessionChange(active, s) /\ s.screen = "pending"
      BY <2>1 DEF DecideChange
    <3>2. sess'[active] = s /\ \A x \in Room \ {active} : sess'[x] = sess[x]
      BY <1>0, <2>1, <3>1, ChangeIs
    <3>3. CASE r # active
      BY <1>1, <1>4, <3>2, <3>3
    <3>4. CASE r = active
      <4>1. sess'[r].screen = "pending"
        BY <3>1, <3>2, <3>4
      <4>2. ASSUME Rendered, dying' = dying
            PROVE  Card = <<r, sess[r].req>>
        <5>1. <<shown.room, shown.req>> = <<r, sess[r].req>>
          BY <1>6, <2>1, <3>4, <4>2, AnswerIsGiven
        <5> QED
          BY <1>6, <4>2, <5>1 DEF Card
      <4>3. dying' = dying => ~spent
        BY <1>6
      <4> QED
        BY <4>1, <4>2, <4>3 DEF Regular, AnswerOrStray, AnswerWasShown, ReceiptWasShown
    <3> QED
      BY <3>3, <3>4
  <2>2. CASE UNCHANGED <<sess, rosterVars, wanted>>
    BY <1>4, <2>2
  <2> QED
    BY <1>0, <1>6, <2>1, <2>2, DecideIs
<1>7. CASE TapAnswer /\ sess' # sess
  <2>1. Decide /\ shown.screen = "card" /\ timer' = timer /\ ~committed
    BY <1>7 DEF TapAnswer, OnCard
  <2>2. ~spent
    BY <1>0, <1>2, <1>7, <2>1
  <2> QED
    BY <1>6, <2>1, <2>2
<1>8. CASE CommitFires /\ sess' # sess
  <2>1. Decide
    BY <1>8 DEF CommitFires
  <2>2. ASSUME dying' = dying
        PROVE  /\ shown.screen = "card" /\ ~spent
               /\ timer' # timer => timer = <<shown.room, shown.req>>
    <3>1. timer # None
      BY <1>8, <2>2 DEF CommitFires
    <3> QED
      BY <1>0, <1>2, <1>8, <3>1
  <2> QED
    BY <1>6, <2>1, <2>2
<1>9. CASE dismissConfirmation
  <2>1. active \in Room /\ DoneChange
    BY <1>0, <1>9, DismissIs
  <2>2. PICK s \in Session : onSessionChange(active, s) /\ s.screen # "pending"
    BY <2>1 DEF DoneChange
  <2>3. sess'[active] = s /\ \A x \in Room \ {active} : sess'[x] = sess[x]
    BY <1>0, <2>1, <2>2, ChangeIs
  <2>4. <<active, latest[active]>> = <<shown.room, shown.req>>
    BY <1>9 DEF dismissConfirmation
  <2>5. CASE r # active
    BY <1>1, <1>4, <2>3, <2>5
  <2>6. CASE r = active
    BY <2>2, <2>3, <2>4, <2>6
       DEF Answers, Regular, AnswerOrStray, AnswerWasShown, ReceiptWasShown
  <2> QED
    BY <2>5, <2>6
<1>10. CASE Reacts
  BY <1>0, <1>4, <1>5, <1>7, <1>8, <1>9, <1>10, SessionStepIs, CountdownIs DEF Reacts
<1>11. CASE Mount
  <2>1. FALSE
    BY <1>0, <1>11, ToSetIs DEF Mount
  <2> QED
    BY <2>1
<1>12. CASE Reload
  BY <1>1, <1>4, <1>12, NewSessionIs DEF Reload
<1>13. ASSUME NEW q \in Room, RemoveRoom(q)
       PROVE  Regular(r)
  <2>1. sess' = [sess EXCEPT ![q] = NewSession]
    BY <1>13 DEF RemoveRoom
  <2>2. sess'[r] = sess[r] \/ sess'[r] = NewSession
    BY <1>0, <1>1, <2>1
  <2> QED
    BY <1>4, <2>2, NewSessionIs
<1>14. ASSUME NEW q \in Room, onSubmitCode(q)
       PROVE  Regular(r)
  <2>1. sess'[r] = sess[r] \/ sess'[r] = NewSession
    BY <1>1, <1>14, SubmitIs
  <2> QED
    BY <1>4, <2>1, NewSessionIs
<1>15. ASSUME NEW q \in Room, Select(q) \/ Wake(q)
       PROVE  sess' = sess
  BY <1>15 DEF Select, Wake, sessVars
<1>16. Quiet => sess' = sess
  BY DEF Quiet, sessVars
<1> QED
  BY <1>4, <1>10, <1>11, <1>12, <1>13, <1>14, <1>15, <1>16, Kinds

\* A card on the screen answers at most once, in every moment; on a card that shows what
\* is current it answers its own request, and Done closes the receipt it was pressed on.
\* Between a change and its rendering, and by the timer of a replaced card, an answer may
\* be another request's: the theorem does not claim otherwise (screens.tsx commit,
\* session.ts dismissConfirmation).
THEOREM CardAnswersOnce == Spec => OneCardOneAnswer
<1>1. IInv /\ [Next]_vars => [\A r \in ToSet(order) : AnswerOrStray(r) /\ ReceiptWasShown(r)]_vars
  BY NextAnswer DEF Regular
<1> QED
  BY <1>1, Invariant, PTL DEF Spec, OneCardOneAnswer

=============================================================================
