---------------------------- MODULE PushProofs ----------------------------
(***************************************************************************)
(* Proofs about Web Push: type correctness, the inductive invariant IInv,  *)
(* and from it the four properties of Push, for any number of pages,       *)
(* reconciliations, subscriptions, wake-ups and reloads.                   *)
(***************************************************************************)
EXTENDS Push, FiniteSetTheorems, FunctionTheorems, TLAPS

(***************************************************************************)
(* What Kept keeps: the elements at the chosen positions and no others, in *)
(* the order they had.                                                     *)
(***************************************************************************)

\* Of two numbers of the set, the larger has the higher rank, and every rank is
\* one of the first numbers: no position is lost and none is counted twice.
LEMMA RankRises ==
  ASSUME NEW I \in SUBSET Nat, IsFiniteSet(I)
  PROVE  /\ Cardinality(I) \in Nat
         /\ \A i \in I : Rank(I, i) \in 1..Cardinality(I)
         /\ \A i, j \in I : i < j => Rank(I, i) < Rank(I, j)
<1> DEFINE below(i) == {k \in I : k <= i}
<1>1. Cardinality(I) \in Nat
  BY FS_CardinalityType
<1>2. ASSUME NEW i \in I
      PROVE  IsFiniteSet(below(i)) /\ Cardinality(below(i)) \in 1..Cardinality(I)
  <2>1. IsFiniteSet(below(i)) /\ Cardinality(below(i)) <= Cardinality(I)
    BY FS_Subset
  <2>2. Cardinality(below(i)) \in Nat
    BY <2>1, FS_CardinalityType
  <2>3. i \in below(i)
    OBVIOUS
  <2>4. Cardinality(below(i)) # 0
    BY <2>1, <2>3, FS_EmptySet
  <2> QED BY <1>1, <2>1, <2>2, <2>4
<1>3. ASSUME NEW i \in I, NEW j \in I, i < j
      PROVE  Cardinality(below(i)) < Cardinality(below(j))
  <2>1. below(i) \in SUBSET below(j)
    <3> SUFFICES ASSUME NEW k \in I, k <= i PROVE k <= j
      OBVIOUS
    <3>1. i \in Nat /\ j \in Nat /\ k \in Nat
      OBVIOUS
    <3> QED BY <1>3, <3>1
  <2>2. j \in below(j) /\ j \notin below(i)
    BY <1>3
  <2>3. Cardinality(below(i)) <= Cardinality(below(j))
        /\ Cardinality(below(i)) # Cardinality(below(j))
    BY <1>2, <2>1, <2>2, FS_Subset
  <2>4. Cardinality(below(i)) \in Nat /\ Cardinality(below(j)) \in Nat
    BY <1>2
  <2> QED BY <2>3, <2>4
<1> QED BY <1>1, <1>2, <1>3 DEF Rank

\* Every rank is taken, by exactly one number.
LEMMA NthIs ==
  ASSUME NEW I \in SUBSET Nat, IsFiniteSet(I)
  PROVE  /\ \A n \in 1..Cardinality(I) : Nth(I, n) \in I /\ Rank(I, Nth(I, n)) = n
         /\ \A i \in I : Nth(I, Rank(I, i)) = i
<1> DEFINE rank == [i \in I |-> Rank(I, i)]
<1>1. \A i, j \in I : Rank(I, i) = Rank(I, j) => i = j
  <2> SUFFICES ASSUME NEW i \in I, NEW j \in I, Rank(I, i) = Rank(I, j), i # j
               PROVE  FALSE
    OBVIOUS
  <2>1. i < j \/ j < i
    OBVIOUS
  <2>2. Rank(I, i) \in Nat
    BY RankRises
  <2> QED BY <2>1, <2>2, RankRises
<1>2. rank \in [I -> 1..Cardinality(I)]
  BY RankRises
<1>3. rank \in Injection(I, 1..Cardinality(I))
  BY <1>1, <1>2, Fun_IsInj
<1>4. IsFiniteSet(1..Cardinality(I)) /\ Cardinality(1..Cardinality(I)) = Cardinality(I)
  <2>1. Cardinality(I) \in Nat
    BY RankRises
  <2>2. IsFiniteSet(1..Cardinality(I))
        /\ Cardinality(1..Cardinality(I))
             = IF 1 > Cardinality(I) THEN 0 ELSE Cardinality(I) - 1 + 1
    BY <2>1, FS_Interval
  <2> QED BY <2>1, <2>2
<1>5. rank \in Surjection(I, 1..Cardinality(I))
  BY <1>3, <1>4, FS_Injection
<1>6. \A n \in 1..Cardinality(I) : \E i \in I : Rank(I, i) = n
  <2>1. \A n \in 1..Cardinality(I) : \E i \in I : rank[i] = n
    <3> HIDE DEF rank
    <3> QED BY <1>5, Fun_SurjectionProperties
  <2> QED BY <2>1
<1>7. \A n \in 1..Cardinality(I) : Nth(I, n) \in I /\ Rank(I, Nth(I, n)) = n
  BY <1>6 DEF Nth
<1> QED BY <1>1, <1>7, RankRises

\* The n-th numbers come in their order.
LEMMA NthRises ==
  ASSUME NEW I \in SUBSET Nat, IsFiniteSet(I),
         NEW m \in 1..Cardinality(I), NEW n \in 1..Cardinality(I), m < n
  PROVE  Nth(I, m) < Nth(I, n)
<1>1. PICK i \in I : i = Nth(I, m) /\ Rank(I, i) = m
  BY NthIs
<1>2. PICK j \in I : j = Nth(I, n) /\ Rank(I, j) = n
  BY NthIs
<1>3. m \in Nat /\ n \in Nat /\ i \in Nat /\ j \in Nat
  BY RankRises
<1>4. i # j
  BY <1>1, <1>2, <1>3
<1>5. ~ (j < i)
  <2>1. j < i => n < m
    BY <1>1, <1>2, RankRises
  <2> QED BY <1>3, <2>1
<1> QED BY <1>1, <1>2, <1>3, <1>4, <1>5

\* Some positions of a sequence are finitely many.
LEMMA PositionsFinite ==
  ASSUME NEW S, NEW s \in Seq(S), NEW I \in SUBSET DOMAIN s
  PROVE  I \in SUBSET Nat /\ IsFiniteSet(I) /\ Cardinality(I) \in Nat
<1>1. DOMAIN s = 1..Len(s) /\ Len(s) \in Nat
  OBVIOUS
<1>2. IsFiniteSet(1..Len(s))
  BY <1>1, FS_Interval
<1>3. IsFiniteSet(I)
  BY <1>1, <1>2, FS_Subset
<1> QED BY <1>1, <1>3, FS_CardinalityType

\* What is kept is a sequence of elements of the kept positions, and each of them is in it.
LEMMA KeptIs ==
  ASSUME NEW S, NEW s \in Seq(S), NEW I \in SUBSET DOMAIN s
  PROVE  /\ Kept(s, I) \in Seq(S)
         /\ Len(Kept(s, I)) = Cardinality(I)
         /\ DOMAIN Kept(s, I) = 1..Cardinality(I)
         /\ \A n \in 1..Cardinality(I) : Nth(I, n) \in I /\ Kept(s, I)[n] = s[Nth(I, n)]
         /\ \A i \in I : \E n \in 1..Cardinality(I) : Kept(s, I)[n] = s[i]
<1>1. I \in SUBSET Nat /\ IsFiniteSet(I) /\ Cardinality(I) \in Nat
  BY PositionsFinite
<1>2. \A n \in 1..Cardinality(I) : Nth(I, n) \in I
  BY <1>1, NthIs
<1>3. \A n \in 1..Cardinality(I) : s[Nth(I, n)] \in S
  BY <1>2
<1>4. Kept(s, I) \in [1..Cardinality(I) -> S]
  BY <1>3 DEF Kept
<1>5. Kept(s, I) \in Seq(S)
  BY <1>1, <1>4
<1>6. Len(Kept(s, I)) = Cardinality(I)
  BY <1>1, <1>4, <1>5
<1>7. ASSUME NEW i \in I
      PROVE  \E n \in 1..Cardinality(I) : Kept(s, I)[n] = s[i]
  <2>1. Rank(I, i) \in 1..Cardinality(I) /\ Nth(I, Rank(I, i)) = i
    BY <1>1, NthIs, RankRises
  <2> QED BY <2>1 DEF Kept
<1> QED BY <1>2, <1>4, <1>5, <1>6, <1>7 DEF Kept

\* Two elements that are kept keep their order, and the first stays the first.
LEMMA KeptOrder ==
  ASSUME NEW S, NEW s \in Seq(S), NEW I \in SUBSET DOMAIN s,
         NEW m \in 1..Cardinality(I), NEW n \in 1..Cardinality(I), m < n
  PROVE  \E i, j \in I : i < j /\ Kept(s, I)[m] = s[i] /\ Kept(s, I)[n] = s[j]
<1>1. I \in SUBSET Nat /\ IsFiniteSet(I)
  BY PositionsFinite
<1>2. Nth(I, m) < Nth(I, n)
  BY <1>1, NthRises
<1> QED BY <1>2, KeptIs

LEMMA KeptHead ==
  ASSUME NEW S, NEW s \in Seq(S), NEW I \in SUBSET DOMAIN s, 1 \in I
  PROVE  Kept(s, I) # <<>> /\ Head(Kept(s, I)) = Head(s)
<1>1. I \in SUBSET Nat /\ IsFiniteSet(I) /\ Cardinality(I) \in Nat
  BY PositionsFinite
<1>2. Rank(I, 1) \in 1..Cardinality(I) /\ Nth(I, Rank(I, 1)) = 1
  BY <1>1, RankRises, NthIs
<1>3. 1 \in 1..Cardinality(I)
  BY <1>1, <1>2
<1>4. Nth(I, 1) \in I /\ Rank(I, Nth(I, 1)) = 1
  BY <1>1, <1>3, NthIs
<1>5. Nth(I, 1) \in DOMAIN s /\ Nth(I, 1) \in Nat
  BY <1>1, <1>4
<1>6. Nth(I, 1) = 1
  <2> SUFFICES ASSUME 1 < Nth(I, 1) PROVE FALSE
    BY <1>5
  <2> QED BY <1>1, <1>2, <1>4, RankRises
<1>7. Kept(s, I)[1] = s[1] /\ Kept(s, I) \in Seq(S) /\ Len(Kept(s, I)) >= 1
  BY <1>1, <1>3, <1>6, KeptIs
<1> QED BY <1>7


(***************************************************************************)
(* The inductive invariant                                                 *)
(***************************************************************************)

Page == [state : {"open", "unpaired", "removed"}, key : Key, epoch : Nat,
         status : {"waiting", "working", "ready", "failed"}]
Call == [at : Stage, key : Key, sub : Subscription \cup {None}, seq : Nat,
         sent : BOOLEAN]
Progress == {"no", "deleting", "deleted", "kept", "cleaned"}
Entry == Tab \X Nat      \* of the lock's queue; a cleanup's number is 0

PageTypes ==
  /\ tab \in [Tab -> Page] /\ call \in [Calls -> Call]
  /\ forgetting \in [Tab -> Progress] /\ queue \in Seq(Entry)
  /\ reloads \in Nat

BrowserTypes ==
  /\ ledger \in Nat \cup {None}
  /\ native \in [reg : BOOLEAN, sub : Subscription \cup {None}]
  /\ gone \in SUBSET Nat

AgentTypes ==
  /\ net \in SUBSET Frame /\ asub \in Frame \cup {None} /\ aseq \in Nat
  /\ wake \in [1..MaxWakes -> [at : {"unused", "sent", "answered"},
                               sub : Frame \cup {None}]]

TypeOK == PageTypes /\ BrowserTypes /\ AgentTypes

\* A reconciliation under way waits for the lock or holds it, and a cleanup that
\* is owed waits for it; nothing else is in the queue, and nothing twice.
Busy(c) == call[c].at \notin {"unused", "done"}

Distinct == \A i, j \in DOMAIN queue : queue[i] = queue[j] => i = j

Entitled(e) ==
  IF e[2] = 0
    THEN tab[e[1]].state = "removed" /\ forgetting[e[1]] \in {"deleting", "deleted", "kept"}
    ELSE e \in Calls /\ Busy(e)

QueueInv ==
  /\ Distinct
  /\ \A i \in DOMAIN queue : Entitled(queue[i])
  /\ \A c \in Calls :
       /\ Busy(c) => \E i \in DOMAIN queue : queue[i] = c
       /\ Busy(c) /\ call[c].at # "queued" => Holds(c)
       /\ call[c].at # "unused" => c[2] <= tab[c[1]].epoch
  /\ \A t \in Tab : forgetting[t] \in {"deleting", "deleted"}
                      => \E i \in DOMAIN queue : queue[i] = <<t, 0>>

\* What the roster shows is the result of the page's newest reconciliation.
ShownInv ==
  \A t \in Tab : tab[t].status = "ready" =>
    LET c == <<t, tab[t].epoch>> IN
    /\ c \in Calls /\ call[c].at = "done" /\ call[c].sent
    /\ tab[t].key = "agent" => call[c].key = "agent"

\* Once the record is deleted it stays so, and once the registration is gone too
\* no reconciliation is past the check that reads the record.
ForgetInv ==
  /\ \A t \in Tab : forgetting[t] \in {"deleted", "cleaned"} => ledger = None
  /\ (\E t \in Tab : forgetting[t] = "cleaned") =>
       /\ ~native.reg
       /\ \A c \in Calls : call[c].at \in {"unused", "queued", "checking", "done"}

\* Endpoints are numbered as they are created; a reconciliation at work with one
\* has the newest.
Subscribed == {"counting", "signing", "sending"}

EndpointInv ==
  /\ gone = 1..Cardinality(gone) /\ Cardinality(gone) \in Nat
  /\ native.sub # None => native.sub.ep = Cardinality(gone) + 1
  /\ \A c \in Calls :
       /\ call[c].at \in Subscribed => call[c].sub # None
       /\ call[c].at \in Subscribed \cup {"replacing", "subscribing"} /\ call[c].sub # None
            => call[c].sub.ep = created

\* The frames sent, with the one the agent kept: newer numbers carry newer
\* endpoints, and no number is above the one being signed or sent.
Sent == net \cup ({asub} \ {None})

FrameInv ==
  /\ \A f \in Sent : f.ep <= created /\ (ledger # None => f.seq <= ledger)
  /\ \A f, g \in Sent : f.seq < g.seq => f.ep <= g.ep
  /\ asub # None => asub.seq = aseq
  /\ \A c \in Calls : call[c].at \in {"signing", "sending"} =>
       /\ \A f \in Sent : f.seq <= call[c].seq
       /\ ledger # None => ledger = call[c].seq

IInv == TypeOK /\ QueueInv /\ ShownInv /\ ForgetInv /\ EndpointInv /\ FrameInv

(***************************************************************************)
(* What the steps of a reconciliation do to the page and to the queue      *)
(***************************************************************************)

\* The lock's holder goes on to a next stage.
Advances(c) ==
  /\ Holds(c) /\ Busy(c)
  /\ \E r \in Call : /\ r.at \notin {"unused", "queued", "done"}
                     /\ call' = [call EXCEPT ![c] = r]
  /\ UNCHANGED <<tab, queue, forgetting>>

SameButStatus(t) ==
  /\ tab'[t].epoch = tab[t].epoch /\ tab'[t].key = tab[t].key
  /\ tab'[t].state = "removed" <=> tab[t].state = "removed"

Shows(c, t) ==
  /\ c = <<t, tab[t].epoch>> /\ call'[c].sent
  /\ tab[t].key = "agent" => call'[c].key = "agent"

\* The lock's holder is done: what the page shows is no better than its result.
Ends(c) ==
  /\ Holds(c) /\ Busy(c)
  /\ \E r \in Call : r.at = "done" /\ call' = [call EXCEPT ![c] = r]
  /\ queue' = Tail(queue)
  /\ tab' \in [Tab -> Page]
  /\ \A t \in Tab : /\ SameButStatus(t)
                    /\ tab'[t].status = "ready" => tab[t].status = "ready" \/ Shows(c, t)
  /\ UNCHANGED forgetting

LEMMA CallParts ==
  ASSUME NEW c \in Calls
  PROVE  c[1] \in Tab /\ c[2] \in 1..MaxCalls /\ c[2] \in Nat /\ c[2] > 0 /\ c = <<c[1], c[2]>>
         /\ c \in Entry
BY PushAssumption DEF Calls, Entry

LEMMA NoneIsNothing ==
  /\ None \notin Nat /\ None \notin Subscription /\ None \notin Frame
BY PushAssumption

LEMMA CreatedIsNat ==
  ASSUME EndpointInv
  PROVE  created \in Nat /\ Cardinality(gone) \in Nat
BY DEF EndpointInv, created

LEMMA FinishEnds ==
  ASSUME TypeOK, NEW c \in Calls, NEW sent \in BOOLEAN, Holds(c), Busy(c),
         Finish(c, sent), UNCHANGED forgetting
  PROVE  Ends(c)
<1>1. c[1] \in Tab /\ c = <<c[1], c[2]>>
  BY CallParts
<1> DEFINE r == [Idle EXCEPT !.at = "done", !.key = call[c].key, !.sent = Delivered(c, sent)]
<1>2. active(c) \in BOOLEAN /\ Delivered(c, sent) \in BOOLEAN /\ (Delivered(c, sent) => active(c))
  BY DEF active, Delivered
<1>3. call[c] \in Call
  BY DEF TypeOK, PageTypes, BrowserTypes
<1>4. r \in Call /\ r.at = "done" /\ r.sent = Delivered(c, sent) /\ r.key = call[c].key
  BY <1>2, <1>3 DEF Call, Idle, Stage
<1>5. call' = [call EXCEPT ![c] = r] /\ queue' = Tail(queue)
  BY DEF Finish
<1>6. call'[c] = r
  BY <1>5 DEF TypeOK, PageTypes, BrowserTypes
<1> HIDE DEF r
<1>7. tab' \in [Tab -> Page]
  <2> DEFINE shown == IF Delivered(c, sent) THEN "ready" ELSE "failed"
  <2>1. tab[c[1]] \in Page /\ shown \in {"waiting", "working", "ready", "failed"}
    BY <1>1 DEF TypeOK, PageTypes, BrowserTypes
  <2>2. tab' = tab \/ tab' = [tab EXCEPT ![c[1]].status = shown]
    BY DEF Finish
  <2> HIDE DEF shown
  <2>3. [tab[c[1]] EXCEPT !.status = shown] \in Page
    BY <2>1 DEF Page
  <2> QED
    BY <1>1, <2>2, <2>3 DEF TypeOK, PageTypes, BrowserTypes
<1>8. ASSUME NEW t \in Tab
      PROVE  SameButStatus(t)
  BY <1>1 DEF Finish, TypeOK, PageTypes, BrowserTypes, Page, SameButStatus
<1>9. ASSUME NEW t \in Tab, tab'[t].status = "ready", tab[t].status # "ready"
      PROVE  Shows(c, t)
  <2>1. active(c) /\ t = c[1] /\ Delivered(c, sent)
    BY <1>1, <1>9 DEF Finish, TypeOK, PageTypes, BrowserTypes, Page
  <2>2. c = <<t, tab[t].epoch>> /\ (tab[t].key = "agent" => call[c].key = "agent")
    BY <1>1, <2>1 DEF active, current
  <2> QED
    BY <1>4, <1>6, <2>1, <2>2 DEF Shows
<1> QED
  BY <1>4, <1>5, <1>7, <1>8, <1>9 DEF Ends

LEMMA LedgerFailedEnds ==
  ASSUME TypeOK, NEW c \in Calls, Holds(c), Busy(c), LedgerFailed(c), UNCHANGED forgetting
  PROVE  Ends(c)
<1>1. c[1] \in Tab
  BY CallParts
<1> DEFINE r == [Idle EXCEPT !.at = "done"]
<1>2. r \in Call /\ r.at = "done"
  BY DEF Call, Idle, Stage, Key
<1>3. call' = [call EXCEPT ![c] = r] /\ queue' = Tail(queue)
  BY DEF LedgerFailed
<1> HIDE DEF r
<1>4. tab' \in [Tab -> Page]
  <2> DEFINE state == IF tab[c[1]].state = "open" THEN "unpaired" ELSE tab[c[1]].state
             shown == IF active(c) THEN "failed" ELSE tab[c[1]].status
             p == [tab[c[1]] EXCEPT !.state = state, !.status = shown]
  <2>1. tab[c[1]] \in Page
    BY <1>1 DEF TypeOK, PageTypes, BrowserTypes
  <2>2. p \in Page
    BY <2>1 DEF Page
  <2>3. tab' = [tab EXCEPT ![c[1]] = p]
    BY <1>1 DEF LedgerFailed, TypeOK, PageTypes, BrowserTypes
  <2> QED
    BY <1>1, <2>2, <2>3 DEF TypeOK, PageTypes, BrowserTypes
<1>5. ASSUME NEW t \in Tab
      PROVE  SameButStatus(t) /\ (tab'[t].status = "ready" => tab[t].status = "ready")
  BY <1>1 DEF LedgerFailed, TypeOK, PageTypes, BrowserTypes, Page, SameButStatus
<1> QED
  BY <1>2, <1>3, <1>4, <1>5 DEF Ends

\* A call that ends, either way, is done.
LEMMA DoneAfter ==
  ASSUME TypeOK, NEW c \in Calls, Finish(c, FALSE) \/ Finish(c, TRUE) \/ LedgerFailed(c)
  PROVE  call'[c].at = "done"
<1>0. call \in [Calls -> Call]
  BY DEF TypeOK, PageTypes
<1>1. ASSUME NEW sent, Finish(c, sent)
      PROVE  call'[c].at = "done"
  <2> DEFINE r == [Idle EXCEPT !.at = "done", !.key = call[c].key, !.sent = Delivered(c, sent)]
  <2>1. r.at = "done"
    BY DEF Idle
  <2>2. call' = [call EXCEPT ![c] = r]
    BY <1>1 DEF Finish
  <2> HIDE DEF r
  <2> QED
    BY <1>0, <2>1, <2>2
<1>2. ASSUME LedgerFailed(c)
      PROVE  call'[c].at = "done"
  <2>1. [Idle EXCEPT !.at = "done"].at = "done"
    BY DEF Idle
  <2> QED
    BY <1>0, <1>2, <2>1 DEF LedgerFailed
<1> QED
  BY <1>1, <1>2

LEMMA GotoAdvances ==
  ASSUME TypeOK, NEW c \in Calls, Holds(c), Busy(c), NEW stage \in Stage \ {"unused", "queued", "done"},
         Goto(c, stage), UNCHANGED <<tab, queue, forgetting>>
  PROVE  Advances(c)
<1> DEFINE r == [call[c] EXCEPT !.at = stage]
<1>1. r \in Call /\ r.at = stage
  BY DEF TypeOK, PageTypes, BrowserTypes, Call
<1>2. call' = [call EXCEPT ![c] = r]
  BY DEF Goto, TypeOK, PageTypes, BrowserTypes
<1> QED
  BY <1>1, <1>2 DEF Advances

LEMMA CallStepKinds ==
  ASSUME TypeOK, EndpointInv, NEW c \in Calls, CallStep(c)
  PROVE  Advances(c) \/ Ends(c)
<1> USE DEF At
<1>a. ASSUME NEW stage \in Stage \ {"unused", "done"}, call[c].at = stage
      PROVE  Busy(c)
  BY <1>a DEF Busy
<1>b. call[c] \in Call /\ native.sub \in Subscription \cup {None}
  BY DEF TypeOK, PageTypes, BrowserTypes
<1>1. CASE Enter(c)
  BY <1>1, <1>a, FinishEnds, GotoAdvances DEF Enter, Stage
<1>2. CASE CanReconcile(c)
  BY <1>2, <1>a, FinishEnds, LedgerFailedEnds, GotoAdvances DEF CanReconcile, Stage
<1>3. CASE Register(c)
  BY <1>3, <1>a, FinishEnds, GotoAdvances DEF Register, Stage
<1>4. CASE GetSubscription(c)
  <2> DEFINE stage == IF native.sub # None /\ native.sub.key # call[c].key
                       THEN "replacing" ELSE "subscribing"
             r == [call[c] EXCEPT !.sub = native.sub, !.at = stage]
  <2>1. Holds(c) /\ Busy(c) /\ UNCHANGED forgetting
    BY <1>4, <1>a DEF GetSubscription, Stage
  <2>2. CASE ~Finish(c, FALSE)
    <3>1. stage \in Stage \ {"unused", "queued", "done"}
      BY DEF Stage
    <3> HIDE DEF stage
    <3>2. r \in Call /\ r.at = stage
      BY <1>b, <3>1 DEF Call
    <3>3. call' = [call EXCEPT ![c].sub = native.sub, ![c].at = stage] /\ UNCHANGED <<tab, queue>>
      BY <1>4, <2>2 DEF GetSubscription, stage
    <3>4. call' = [call EXCEPT ![c] = r]
      BY <3>3 DEF TypeOK, PageTypes, BrowserTypes
    <3> HIDE DEF r
    <3> QED
      BY <2>1, <3>1, <3>2, <3>3, <3>4 DEF Advances
  <2>3. CASE Finish(c, FALSE)
    BY <2>1, <2>3, FinishEnds
  <2> QED
    BY <2>2, <2>3
<1>5. CASE Unsubscribe(c)
  <2> DEFINE r == [call[c] EXCEPT !.sub = None, !.at = "subscribing"]
  <2>1. Holds(c) /\ Busy(c) /\ UNCHANGED forgetting
    BY <1>5, <1>a DEF Unsubscribe, Stage
  <2>2. r \in Call /\ r.at = "subscribing"
    BY <1>b DEF Call, Stage
  <2>3. CASE Finish(c, FALSE)
    BY <2>1, <2>3, FinishEnds
  <2>4. CASE ~Finish(c, FALSE)
    <3>1. call' = [call EXCEPT ![c] = r] /\ UNCHANGED <<tab, queue>>
      BY <1>5, <2>4 DEF Unsubscribe, TypeOK, PageTypes, BrowserTypes
    <3> QED
      BY <2>1, <2>2, <3>1 DEF Advances
  <2> QED
    BY <2>3, <2>4
<1>6. CASE Subscribe(c)
  <2>1. Holds(c) /\ Busy(c) /\ UNCHANGED forgetting
    BY <1>6, <1>a DEF Subscribe, Stage
  <2> DEFINE fresh == [key |-> call[c].key, ep |-> created + 1]
             sub == IF call[c].sub # None THEN call[c].sub
                    ELSE IF native.sub # None THEN native.sub ELSE fresh
             r == [call[c] EXCEPT !.sub = sub, !.at = "counting"]
  <2>2. sub \in Subscription
    BY <1>b, CreatedIsNat DEF Call, Subscription
  <2>3. CASE Finish(c, FALSE)
    BY <2>1, <2>3, FinishEnds
  <2>4. CASE ~Finish(c, FALSE)
    <3>1. call' = [call EXCEPT ![c].sub = sub, ![c].at = "counting"] /\ UNCHANGED <<tab, queue>>
      BY <1>6, <2>4 DEF Subscribe
    <3> HIDE DEF sub
    <3>2. call' = [call EXCEPT ![c] = r]
      BY <3>1 DEF TypeOK, PageTypes, BrowserTypes
    <3>3. r \in Call /\ r.at = "counting"
      BY <1>b, <2>2 DEF Call, Stage
    <3> HIDE DEF r
    <3> QED
      BY <2>1, <3>1, <3>2, <3>3 DEF Advances
  <2> QED
    BY <2>3, <2>4
<1>7. CASE NextPush(c)
  <2>1. Holds(c) /\ Busy(c) /\ UNCHANGED forgetting
    BY <1>7, <1>a DEF NextPush, Stage
  <2> DEFINE r == [call[c] EXCEPT !.seq = ledger + 1, !.at = "signing"]
  <2>2. CASE Finish(c, FALSE) \/ LedgerFailed(c)
    BY <2>1, <2>2, FinishEnds, LedgerFailedEnds
  <2>3. CASE ~Finish(c, FALSE) /\ ~LedgerFailed(c)
    <3>1. ledger \in Nat /\ call' = [call EXCEPT ![c] = r] /\ UNCHANGED <<tab, queue>>
      BY <1>7, <2>3 DEF NextPush, TypeOK, PageTypes, BrowserTypes
    <3>2. ledger + 1 \in Nat
      BY <3>1
    <3>3. r \in Call /\ r.at = "signing"
      BY <1>b, <3>2 DEF Call, Stage
    <3> HIDE DEF r
    <3> QED
      BY <2>1, <3>1, <3>3 DEF Advances
  <2> QED
    BY <2>2, <2>3
<1>8. CASE CurrentPush(c)
  BY <1>8, <1>a, FinishEnds, LedgerFailedEnds, GotoAdvances DEF CurrentPush, Stage
<1>9. CASE SendSubscription(c)
  BY <1>9, <1>a, FinishEnds DEF SendSubscription, Stage
<1> QED
  BY <1>1, <1>2, <1>3, <1>4, <1>5, <1>6, <1>7, <1>8, <1>9 DEF CallStep

(***************************************************************************)
(* Type correctness                                                        *)
(***************************************************************************)

LEMMA AdvanceTypes ==
  ASSUME TypeOK, NEW c \in Calls, Advances(c) \/ Ends(c)
  PROVE  /\ tab' \in [Tab -> Page] /\ call' \in [Calls -> Call]
         /\ forgetting' \in [Tab -> Progress] /\ queue' \in Seq(Entry)
<1>1. CASE Advances(c)
  BY <1>1 DEF Advances, TypeOK, PageTypes
<1>2. CASE Ends(c)
  <2>1. queue # <<>> /\ queue \in Seq(Entry)
    BY <1>2 DEF Ends, Holds, TypeOK, PageTypes
  <2>2. Tail(queue) \in Seq(Entry)
    BY <2>1
  <2> QED
    BY <1>2, <2>2 DEF Ends, TypeOK, PageTypes
<1> QED
  BY <1>1, <1>2

\* What ends a subscription, in types.
LEMMA EndedTypes ==
  ASSUME TypeOK, Ended
  PROVE  gone' \in SUBSET Nat
BY DEF TypeOK, BrowserTypes, Ended, Subscription

LEMMA CallStepTypes ==
  ASSUME TypeOK, EndpointInv, NEW c \in Calls, CallStep(c)
  PROVE  TypeOK'
<1>0. /\ tab' \in [Tab -> Page] /\ call' \in [Calls -> Call]
      /\ forgetting' \in [Tab -> Progress] /\ queue' \in Seq(Entry)
  BY CallStepKinds, AdvanceTypes
<1>b. call[c] \in Call /\ native \in [reg : BOOLEAN, sub : Subscription \cup {None}]
  BY DEF TypeOK, PageTypes, BrowserTypes
<1>1. ASSUME UNCHANGED browser PROVE BrowserTypes'
  BY <1>1 DEF TypeOK, BrowserTypes, browser
<1>2. ASSUME UNCHANGED <<net, agent>> PROVE AgentTypes'
  BY <1>2 DEF TypeOK, AgentTypes, agent
<1>3. CASE Register(c)
  BY <1>0, <1>2, <1>3 DEF Register, TypeOK, PageTypes, BrowserTypes
<1>4. CASE Unsubscribe(c)
  <2>1. native' \in {native, [native EXCEPT !.sub = None]}
    BY <1>4 DEF Unsubscribe
  <2>2. native' \in [reg : BOOLEAN, sub : Subscription \cup {None}]
    BY <1>b, <2>1
  <2>3. gone' \in SUBSET Nat
    BY <1>4, EndedTypes DEF Unsubscribe, TypeOK, BrowserTypes
  <2> QED
    BY <1>0, <1>2, <1>4, <2>2, <2>3 DEF Unsubscribe, TypeOK, PageTypes, BrowserTypes
<1>5. CASE Subscribe(c)
  <2> DEFINE fresh == [key |-> call[c].key, ep |-> created + 1]
             sub == IF call[c].sub # None THEN call[c].sub
                    ELSE IF native.sub # None THEN native.sub ELSE fresh
  <2>1. sub \in Subscription
    BY <1>b, CreatedIsNat DEF Call, Subscription
  <2>2. native' = native \/ native' = [native EXCEPT !.sub = sub]
    BY <1>5 DEF Subscribe
  <2> HIDE DEF sub
  <2>3. native' \in [reg : BOOLEAN, sub : Subscription \cup {None}]
    BY <1>b, <2>1, <2>2
  <2>4. UNCHANGED <<ledger, gone, net, agent, reloads>>
    BY <1>5 DEF Subscribe
  <2> QED
    BY <1>0, <1>2, <2>3, <2>4 DEF TypeOK, PageTypes, BrowserTypes
<1>6. CASE NextPush(c)
  <2>1. ledger' \in Nat \cup {None}
    <3>1. ledger \in Nat \cup {None} /\ (ledger' = ledger \/ (ledger # None /\ ledger' = ledger + 1))
      BY <1>6 DEF NextPush, TypeOK, BrowserTypes
    <3> QED
      BY <3>1
  <2> QED
    BY <1>0, <1>2, <1>6, <2>1 DEF NextPush, TypeOK, PageTypes, BrowserTypes
<1>7. CASE SendSubscription(c)
  <2> DEFINE f == [key |-> call[c].sub.key, ep |-> call[c].sub.ep, seq |-> call[c].seq]
  <2>1. call[c].sub \in Subscription
    BY <1>7, <1>b, NoneIsNothing DEF SendSubscription, At, EndpointInv, Subscribed, Call
  <2>2. f \in Frame
    BY <1>b, <2>1 DEF Call, Subscription, Frame
  <2>3. net' \subseteq net \cup {f} /\ UNCHANGED <<browser, agent, reloads>>
    BY <1>7 DEF SendSubscription
  <2> HIDE DEF f
  <2> QED
    BY <1>0, <1>1, <2>2, <2>3 DEF TypeOK, PageTypes, AgentTypes, agent
<1>8. CASE Enter(c) \/ CanReconcile(c) \/ GetSubscription(c) \/ CurrentPush(c)
  <2>1. UNCHANGED <<browser, net, agent, reloads>>
    BY <1>8 DEF Enter, CanReconcile, GetSubscription, CurrentPush
  <2> QED
    BY <1>0, <1>1, <1>2, <2>1 DEF TypeOK, PageTypes
<1> QED
  BY <1>3, <1>4, <1>5, <1>6, <1>7, <1>8 DEF CallStep

LEMMA InitTypes == Init => TypeOK
<1> SUFFICES ASSUME Init PROVE TypeOK
  OBVIOUS
<1>1. Idle \in Call
  BY DEF Idle, Call, Stage, Key
<1>2. PageTypes
  BY <1>1 DEF Init, PageTypes, Page, Key, Progress
<1>3. BrowserTypes /\ AgentTypes
  BY DEF Init, BrowserTypes, AgentTypes
<1> QED
  BY <1>2, <1>3 DEF TypeOK

LEMMA NextTypes ==
  ASSUME TypeOK, EndpointInv, [Next]_vars
  PROVE  TypeOK'
<1>i. Idle \in Call /\ [Idle EXCEPT !.at = "done"] \in Call
  BY DEF Idle, Call, Stage, Key
<1>p. ASSUME UNCHANGED <<page, reloads>> PROVE PageTypes'
  BY <1>p DEF TypeOK, PageTypes, page
<1>b. ASSUME UNCHANGED browser PROVE BrowserTypes'
  BY <1>b DEF TypeOK, BrowserTypes, browser
<1>a. ASSUME UNCHANGED <<net, agent>> PROVE AgentTypes'
  BY <1>a DEF TypeOK, AgentTypes, agent
<1>1. ASSUME NEW c \in Calls, CallStep(c) PROVE TypeOK'
  BY <1>1, CallStepTypes
<1>2. ASSUME NEW t \in Tab, Reconcile(t) PROVE PageTypes' /\ UNCHANGED <<browser, net, agent>>
  <2> DEFINE c == <<t, tab[t].epoch + 1>>
             p == [tab[t] EXCEPT !.epoch = tab[t].epoch + 1, !.status = "working"]
             r == [Idle EXCEPT !.at = "queued", !.key = tab[t].key]
  <2>1. tab[t] \in Page /\ tab[t].epoch + 1 \in Nat
    BY DEF TypeOK, PageTypes, Page
  <2>2. p \in Page
    BY <2>1 DEF Page
  <2>3. r \in Call
    BY <2>1 DEF Call, Idle, Page, Stage
  <2>4. c \in Calls /\ c \in Entry
    BY <1>2, CallParts DEF Reconcile
  <2>5. tab' = [tab EXCEPT ![t] = p] /\ call' = [call EXCEPT ![c] = r] /\ queue' = Append(queue, c)
        /\ UNCHANGED <<forgetting, browser, net, agent, reloads>>
    BY <1>2 DEF Reconcile, TypeOK, PageTypes
  <2>6. queue' \in Seq(Entry)
    BY <2>4, <2>5 DEF TypeOK, PageTypes
  <2> HIDE DEF c, p, r
  <2> QED
    BY <2>2, <2>3, <2>5, <2>6 DEF TypeOK, PageTypes
<1>3. ASSUME NEW t \in Tab, Forget(t) PROVE PageTypes' /\ UNCHANGED <<browser, net, agent>>
  <2>1. [tab[t] EXCEPT !.state = "removed"] \in Page /\ <<t, 0>> \in Entry
    BY DEF TypeOK, PageTypes, Page, Entry
  <2>2. queue' \in Seq(Entry)
    BY <1>3, <2>1 DEF Forget, TypeOK, PageTypes
  <2>3. tab' = [tab EXCEPT ![t] = [tab[t] EXCEPT !.state = "removed"]]
    BY <1>3 DEF Forget, TypeOK, PageTypes
  <2> QED
    BY <1>3, <2>1, <2>2, <2>3 DEF Forget, TypeOK, PageTypes, Progress
<1>4. ASSUME NEW t \in Tab, LedgerForgotten(t) PROVE TypeOK'
  BY <1>4, <1>a DEF LedgerForgotten, TypeOK, PageTypes, BrowserTypes, Progress
<1>5. ASSUME NEW t \in Tab, Cleanup(t) PROVE TypeOK'
  <2>1. queue' \in Seq(Entry)
    BY <1>5 DEF Cleanup, Holds, TypeOK, PageTypes
  <2>2. gone' \in SUBSET Nat
    BY <1>5, EndedTypes DEF Cleanup, TypeOK, BrowserTypes
  <2>3. forgetting' \in [Tab -> Progress]
    BY <1>5 DEF Cleanup, TypeOK, PageTypes, Progress
  <2>4. native' \in {native, [reg |-> FALSE, sub |-> None], [native EXCEPT !.sub = None]}
    BY <1>5 DEF Cleanup
  <2>5. native' \in [reg : BOOLEAN, sub : Subscription \cup {None}]
    <3>1. native \in [reg : BOOLEAN, sub : Subscription \cup {None}]
          /\ [reg |-> FALSE, sub |-> None] \in [reg : BOOLEAN, sub : Subscription \cup {None}]
      BY DEF TypeOK, BrowserTypes
    <3> QED
      BY <2>4, <3>1
  <2>6. UNCHANGED <<tab, call, ledger, net, agent, reloads>>
    BY <1>5 DEF Cleanup
  <2> QED
    BY <1>a, <2>1, <2>2, <2>3, <2>5, <2>6 DEF TypeOK, PageTypes, BrowserTypes
<1>6. ASSUME NEW t \in Tab, VapidKey(t) PROVE PageTypes' /\ UNCHANGED <<browser, net, agent>>
  <2> DEFINE p == [tab[t] EXCEPT !.key = "agent", !.status = "waiting"]
  <2>0. tab[t] \in Page
    BY DEF TypeOK, PageTypes
  <2>1. p \in Page
    BY <2>0 DEF Page, Key
  <2>2. tab' = [tab EXCEPT ![t] = p]
    BY <1>6 DEF VapidKey, TypeOK, PageTypes
  <2> HIDE DEF p
  <2> QED
    BY <1>6, <2>1, <2>2 DEF VapidKey, TypeOK, PageTypes
<1>7. ASSUME NEW t \in Tab, Reload(t) PROVE PageTypes' /\ UNCHANGED <<browser, net, agent>>
  <2> DEFINE state == IF ledger = None THEN "unpaired" ELSE "open"
             p == [tab[t] EXCEPT !.state = state, !.status = "waiting"]
  <2>0. tab[t] \in Page /\ state \in {"open", "unpaired"}
    BY DEF TypeOK, PageTypes
  <2>1. tab' = [tab EXCEPT ![t] = p]
    BY <1>7 DEF Reload, TypeOK, PageTypes
  <2> HIDE DEF state
  <2>2. p \in Page
    BY <2>0 DEF Page
  <2>3. queue' \in Seq(Entry)
    BY <1>7, KeptIs DEF Reload, TypeOK, PageTypes
  <2>4. reloads' \in Nat
    BY <1>7 DEF Reload, TypeOK, PageTypes
  <2>5. forgetting' \in [Tab -> Progress]
    BY <1>7 DEF Reload, TypeOK, PageTypes, Progress
  <2>6. call' \in [Calls -> Call]
    BY <1>7, <1>i DEF Reload, TypeOK, PageTypes
  <2>7. UNCHANGED <<browser, net, agent>>
    BY <1>7 DEF Reload
  <2> HIDE DEF p
  <2> QED
    BY <2>1, <2>2, <2>3, <2>4, <2>5, <2>6, <2>7 DEF TypeOK, PageTypes
<1>8. ASSUME NEW c \in Calls, WaitAborts(c) PROVE PageTypes' /\ UNCHANGED <<browser, net, agent>>
  <2>0. c[1] \in Tab /\ tab[c[1]] \in Page
    BY CallParts DEF TypeOK, PageTypes
  <2>1. [tab[c[1]] EXCEPT !.status = "failed"] \in Page
    BY <2>0 DEF Page
  <2>2. queue' \in Seq(Entry)
    BY <1>8, KeptIs DEF WaitAborts, TypeOK, PageTypes, Without
  <2>3. tab' = tab \/ tab' = [tab EXCEPT ![c[1]] = [tab[c[1]] EXCEPT !.status = "failed"]]
    BY <1>8, <2>0 DEF WaitAborts, TypeOK, PageTypes
  <2> QED
    BY <1>8, <1>i, <2>0, <2>1, <2>2, <2>3 DEF WaitAborts, TypeOK, PageTypes
<1>9. ASSUME Expire PROVE TypeOK'
  BY <1>9, <1>p, <1>a, EndedTypes DEF Expire, TypeOK, BrowserTypes
<1>10. ASSUME NEW f \in net, Absorb(f) PROVE TypeOK'
  <2>1. f \in Frame /\ f.seq \in Nat
    BY DEF TypeOK, AgentTypes, Frame
  <2>2. AgentTypes'
    BY <1>10, <2>1 DEF Absorb, TypeOK, AgentTypes
  <2> QED
    BY <1>10, <1>p, <1>b, <2>2 DEF Absorb, TypeOK
<1>11. ASSUME NEW w \in 1..MaxWakes, Notify(w) \/ Answered(w) PROVE TypeOK'
  <2>1. AgentTypes'
    BY <1>11 DEF Notify, Answered, TypeOK, AgentTypes
  <2> QED
    BY <1>11, <1>p, <1>b, <2>1 DEF Notify, Answered, TypeOK
<1>12. ASSUME UNCHANGED vars PROVE TypeOK'
  BY <1>12, <1>p, <1>b, <1>a DEF vars, TypeOK
<1> QED
  BY <1>a, <1>b, <1>1, <1>2, <1>3, <1>4, <1>5, <1>6, <1>7, <1>8, <1>9, <1>10, <1>11, <1>12
  DEF Next, TypeOK

(***************************************************************************)
(* The queue                                                               *)
(***************************************************************************)

LEMMA AppendIs ==
  ASSUME NEW S, NEW s \in Seq(S), NEW e \in S
  PROVE  /\ Append(s, e) # <<>> /\ Append(s, e) \in Seq(S)
         /\ DOMAIN Append(s, e) = DOMAIN s \cup {Len(s) + 1} /\ Len(s) + 1 \notin DOMAIN s
         /\ \A i \in DOMAIN s : Append(s, e)[i] = s[i]
         /\ Append(s, e)[Len(s) + 1] = e
         /\ Head(Append(s, e)) = IF s = <<>> THEN e ELSE Head(s)
OBVIOUS

LEMMA TailIs ==
  ASSUME NEW S, NEW s \in Seq(S), s # <<>>
  PROVE  /\ 1 \in DOMAIN s /\ s[1] = Head(s)
         /\ \A i \in DOMAIN Tail(s) : i \in Nat /\ i > 0 /\ i + 1 \in DOMAIN s /\ Tail(s)[i] = s[i + 1]
         /\ \A i \in DOMAIN s : i # 1 => i - 1 \in DOMAIN Tail(s) /\ Tail(s)[i - 1] = s[i]
OBVIOUS

\* The parts of QueueInv.
Waiting(e) == \E i \in DOMAIN queue : queue[i] = e

AllEntitled == \A i \in DOMAIN queue : Entitled(queue[i])

CallsWait ==
  \A c \in Calls :
    /\ Busy(c) => Waiting(c)
    /\ Busy(c) /\ call[c].at # "queued" => Holds(c)
    /\ call[c].at # "unused" => c[2] <= tab[c[1]].epoch

CleanupsWait ==
  \A t \in Tab : forgetting[t] \in {"deleting", "deleted"} => Waiting(<<t, 0>>)

LEMMA QueueParts == QueueInv <=> Distinct /\ AllEntitled /\ CallsWait /\ CleanupsWait
BY DEF QueueInv, Waiting, AllEntitled, CallsWait, CleanupsWait

LEMMA QueuePartsNext == QueueInv' <=> Distinct' /\ AllEntitled' /\ CallsWait' /\ CleanupsWait'
BY DEF QueueInv, Waiting, AllEntitled, CallsWait, CleanupsWait

LEMMA AllEntitledNext ==
  ASSUME \A i \in DOMAIN queue' : \E e : queue'[i] = e /\ Entitled(e)'
  PROVE  AllEntitled'
BY DEF AllEntitled, Entitled

\* What the lock's holder is to the others.
LEMMA HolderIs ==
  ASSUME TypeOK, QueueInv, queue # <<>>
  PROVE  /\ 1 \in DOMAIN queue /\ queue[1] = Head(queue) /\ Entitled(Head(queue))
         /\ Head(queue) \in Entry
         /\ \A i \in DOMAIN queue : i # 1 => queue[i] # Head(queue)
<1>1. queue \in Seq(Entry)
  BY DEF TypeOK, PageTypes
<1>2. 1 \in DOMAIN queue /\ queue[1] = Head(queue) /\ queue[1] \in Entry
  BY <1>1, TailIs
<1> QED
  BY <1>2 DEF QueueInv, Distinct

LEMMA EntryParts ==
  ASSUME NEW e \in Entry
  PROVE  e[1] \in Tab /\ e[2] \in Nat /\ e = <<e[1], e[2]>>
BY DEF Entry

\* The holder leaves, everybody else stays as it was.
LEMMA HolderLeaves ==
  ASSUME TypeOK, QueueInv, queue # <<>>, queue' = Tail(queue)
  PROVE  /\ Distinct'
         /\ \A e : Waiting(e) /\ e # Head(queue) => Waiting(e)'
         /\ \A i \in DOMAIN queue' : \E j \in DOMAIN queue : queue'[i] = queue[j] /\ queue[j] # Head(queue)
<1>1. queue \in Seq(Entry) /\ queue' = Tail(queue)
  BY DEF TypeOK, PageTypes
<1>2. Distinct'
  <2> SUFFICES ASSUME NEW i \in DOMAIN queue', NEW j \in DOMAIN queue', queue'[i] = queue'[j]
               PROVE  i = j
    BY DEF Distinct
  <2>1. i + 1 = j + 1 /\ i \in Nat /\ j \in Nat
    BY <1>1, TailIs DEF QueueInv, Distinct
  <2> QED
    BY <2>1
<1>3. ASSUME NEW e, Waiting(e), e # Head(queue)
      PROVE  Waiting(e)'
  <2>1. PICK i \in DOMAIN queue : queue[i] = e
    BY <1>3 DEF Waiting
  <2>2. i # 1
    BY <1>1, <1>3, <2>1, TailIs
  <2>3. i - 1 \in DOMAIN queue' /\ queue'[i - 1] = e
    BY <1>1, <2>1, <2>2, TailIs
  <2> QED
    BY <2>3 DEF Waiting
<1>4. ASSUME NEW i \in DOMAIN queue'
      PROVE  \E j \in DOMAIN queue : queue'[i] = queue[j] /\ queue[j] # Head(queue)
  <2>1. i \in Nat /\ i > 0 /\ i + 1 \in DOMAIN queue /\ queue'[i] = queue[i + 1]
    BY <1>1, TailIs
  <2>2. i + 1 # 1
    BY <2>1
  <2> QED
    BY <2>1, <2>2, HolderIs
<1> QED
  BY <1>2, <1>3, <1>4

LEMMA QueueAdvance ==
  ASSUME TypeOK, QueueInv, NEW c \in Calls, Advances(c)
  PROVE  QueueInv'
<1>1. PICK r \in Call : r.at \notin {"unused", "queued", "done"} /\ call' = [call EXCEPT ![c] = r]
  BY DEF Advances
<1>2. UNCHANGED <<tab, queue, forgetting>> /\ Holds(c) /\ Busy(c)
  BY DEF Advances
<1>3. \A d \in Calls : /\ Busy(d)' <=> Busy(d)
                       /\ d # c => call'[d] = call[d]
  BY <1>1, <1>2 DEF Busy, TypeOK, PageTypes
<1>4. \A e : Entitled(e) => Entitled(e)'
  BY <1>2, <1>3 DEF Entitled
<1>5. Distinct' /\ AllEntitled' /\ CleanupsWait'
  BY <1>2, <1>4, QueueParts DEF Distinct, AllEntitled, CleanupsWait, Waiting
<1>6. CallsWait'
  <2> SUFFICES ASSUME NEW d \in Calls
               PROVE  /\ Busy(d)' => Waiting(d)'
                      /\ Busy(d)' /\ call'[d].at # "queued" => Holds(d)'
                      /\ call'[d].at # "unused" => d[2] <= tab'[d[1]].epoch
    BY DEF CallsWait
  <2>1. Busy(d)' => Waiting(d)'
    BY <1>2, <1>3, QueueParts DEF CallsWait, Waiting
  <2>2. CASE d = c
    BY <1>2, <2>1, <2>2, QueueParts DEF CallsWait, Holds, Busy
  <2>3. CASE d # c
    BY <1>2, <1>3, <2>1, <2>3, QueueParts DEF CallsWait, Holds
  <2> QED
    BY <2>2, <2>3
<1> QED
  BY <1>5, <1>6, QueuePartsNext

LEMMA QueueEnd ==
  ASSUME TypeOK, QueueInv, NEW c \in Calls, Ends(c)
  PROVE  QueueInv'
<1>1. PICK r \in Call : r.at = "done" /\ call' = [call EXCEPT ![c] = r]
  BY DEF Ends
<1>2. queue # <<>> /\ queue' = Tail(queue) /\ Head(queue) = c /\ UNCHANGED forgetting /\ Busy(c)
  BY DEF Ends, Holds
<1>3. /\ \A d \in Calls : d # c => call'[d] = call[d] /\ (Busy(d)' <=> Busy(d))
      /\ ~Busy(c)' /\ c[1] \in Tab
  BY <1>1, CallParts DEF Busy, TypeOK, PageTypes
<1>4. \A t \in Tab : tab'[t].epoch = tab[t].epoch /\ (tab'[t].state = "removed" <=> tab[t].state = "removed")
  <2> TAKE t \in Tab
  <2>1. SameButStatus(t)
    BY DEF Ends
  <2> QED
    BY <2>1 DEF SameButStatus
<1>5. Distinct' /\ \A i \in DOMAIN queue' : \E j \in DOMAIN queue : queue'[i] = queue[j] /\ queue[j] # c
  BY <1>2, HolderLeaves
<1>6. ASSUME NEW e \in Entry, Entitled(e), e # c
      PROVE  Entitled(e)'
  BY <1>2, <1>3, <1>4, <1>6, EntryParts DEF Entitled
<1>7. AllEntitled'
  <2>1. ASSUME NEW i \in DOMAIN queue'
        PROVE  \E e : queue'[i] = e /\ Entitled(e)'
    <3>1. PICK j \in DOMAIN queue : queue'[i] = queue[j] /\ queue[j] # c
      BY <1>5
    <3>2. PICK e \in Entry : e = queue[j] /\ Entitled(e)
      BY DEF TypeOK, PageTypes, QueueInv
    <3> QED
      BY <1>6, <3>1, <3>2
  <2> QED
    BY <2>1, AllEntitledNext
<1>8. CallsWait'
  <2> SUFFICES ASSUME NEW d \in Calls
               PROVE  /\ Busy(d)' => Waiting(d)'
                      /\ Busy(d)' /\ call'[d].at # "queued" => Holds(d)'
                      /\ call'[d].at # "unused" => d[2] <= tab'[d[1]].epoch
    BY DEF CallsWait
  <2>0. d[1] \in Tab
    BY CallParts
  <2>1. CASE d = c
    BY <1>2, <1>3, <1>4, <2>0, <2>1, QueueParts DEF CallsWait, Busy
  <2>2. CASE d # c
    <3>1. Busy(d)' => Waiting(d)'
      BY <1>2, <1>3, <2>2, HolderLeaves, QueueParts DEF CallsWait
    <3>2. Busy(d) => call[d].at = "queued"
      BY <1>2, <2>2, QueueParts DEF CallsWait, Holds
    <3> QED
      BY <1>3, <1>4, <2>0, <2>2, <3>1, <3>2, QueueParts DEF CallsWait
  <2> QED
    BY <2>1, <2>2
<1>9. CleanupsWait'
  <2>1. \A t \in Tab : <<t, 0>> # c
    BY CallParts
  <2> QED
    BY <1>2, <2>1, HolderLeaves, QueueParts DEF CleanupsWait
<1> QED
  BY <1>5, <1>7, <1>8, <1>9, QueuePartsNext

\* A request for the lock that was not there is put at the end.
LEMMA Requested ==
  ASSUME TypeOK, QueueInv, NEW e \in Entry, ~Waiting(e), queue' = Append(queue, e)
  PROVE  /\ Distinct' /\ Waiting(e)'
         /\ \A d : Waiting(d) => Waiting(d)'
         /\ \A d : Holds(d) => Holds(d)'
         /\ \A i \in DOMAIN queue' : queue'[i] = e \/ \E j \in DOMAIN queue : queue'[i] = queue[j]
<1>1. queue \in Seq(Entry)
  BY DEF TypeOK, PageTypes
<1>2. /\ queue' # <<>> /\ DOMAIN queue' = DOMAIN queue \cup {Len(queue) + 1}
      /\ Len(queue) + 1 \notin DOMAIN queue
      /\ \A i \in DOMAIN queue : queue'[i] = queue[i]
      /\ queue'[Len(queue) + 1] = e
      /\ queue # <<>> => Head(queue') = Head(queue)
  BY <1>1, AppendIs
<1>3. Distinct'
  BY <1>2 DEF Distinct, QueueInv, Waiting
<1> QED
  BY <1>2, <1>3 DEF Waiting, Holds

\* Some entries are taken out of the queue.
LEMMA Withdrawn ==
  ASSUME TypeOK, QueueInv, NEW I \in SUBSET DOMAIN queue, queue' = Kept(queue, I)
  PROVE  /\ Distinct'
         /\ \A e : (\E i \in I : queue[i] = e) => Waiting(e)'
         /\ \A n \in DOMAIN queue' : \E i \in I : queue'[n] = queue[i]
         /\ 1 \in I => queue' # <<>> /\ Head(queue') = Head(queue)
<1>1. queue \in Seq(Entry)
  BY DEF TypeOK, PageTypes
<1>2. /\ DOMAIN queue' = 1..Cardinality(I) /\ Cardinality(I) \in Nat
      /\ \A n \in 1..Cardinality(I) : \E i \in I : queue'[n] = queue[i]
      /\ \A i \in I : \E n \in 1..Cardinality(I) : queue'[n] = queue[i]
  BY <1>1, KeptIs, PositionsFinite
<1>3. ASSUME NEW m \in DOMAIN queue', NEW n \in DOMAIN queue', m < n
      PROVE  queue'[m] # queue'[n]
  <2>1. \E i, j \in I : i < j /\ queue'[m] = queue[i] /\ queue'[n] = queue[j]
    <3>1. m \in 1..Cardinality(I) /\ n \in 1..Cardinality(I)
      BY <1>2
    <3> QED
      BY <1>1, <1>3, <3>1, KeptOrder
  <2>2. PICK i \in I, j \in I : i < j /\ queue'[m] = queue[i] /\ queue'[n] = queue[j]
    BY <2>1
  <2>3. i # j /\ i \in DOMAIN queue /\ j \in DOMAIN queue
    BY <1>1, <2>2
  <2> QED
    BY <2>2, <2>3 DEF QueueInv, Distinct
<1>4. Distinct'
  <2>1. \A m, n \in DOMAIN queue' : m < n \/ n < m \/ m = n
    BY <1>2
  <2> QED
    BY <1>3, <2>1 DEF Distinct
<1>5. ASSUME NEW i \in I
      PROVE  \E n \in DOMAIN queue' : queue'[n] = queue[i]
  BY <1>2
<1>6. 1 \in I => queue' # <<>> /\ Head(queue') = Head(queue)
  BY <1>1, KeptHead
<1>7. ASSUME NEW e, \E i \in I : queue[i] = e
      PROVE  Waiting(e)'
  BY <1>5, <1>7 DEF Waiting
<1> QED
  BY <1>2, <1>4, <1>6, <1>7

LEMMA NextQueueInv ==
  ASSUME TypeOK, EndpointInv, QueueInv, [Next]_vars
  PROVE  QueueInv'
<1> USE QueueParts
<1>0. /\ queue \in Seq(Entry) /\ \A t \in Tab : tab[t].epoch \in Nat /\ <<t, 0>> \in Entry
      /\ \A i \in DOMAIN queue : queue[i] \in Entry /\ Entitled(queue[i])
  BY DEF TypeOK, PageTypes, Page, Entry, QueueInv
<1>1. ASSUME NEW c \in Calls, CallStep(c) PROVE QueueInv'
  BY <1>1, CallStepKinds, QueueAdvance, QueueEnd
<1>2. ASSUME NEW t \in Tab, Reconcile(t) PROVE QueueInv'
  <2>0. PICK c \in Calls : c = <<t, tab[t].epoch + 1>>
    BY <1>2 DEF Reconcile
  <2> DEFINE r == [Idle EXCEPT !.at = "queued", !.key = tab[t].key]
  <2>1. c \in Entry /\ c[1] = t /\ c[2] = tab[t].epoch + 1
    BY <2>0, CallParts
  <2>2. call[c].at = "unused"
    <3>1. call[c].at # "unused" => c[2] <= tab[t].epoch
      BY <2>1 DEF CallsWait
    <3>2. tab[t].epoch \in Nat
      BY <1>0
    <3> QED
      BY <2>1, <3>1, <3>2
  <2>3. ~Waiting(c)
    BY <1>0, <2>1, <2>2, CallParts DEF Waiting, Entitled, Busy
  <2>4. r.at = "queued"
    BY DEF Idle
  <2>5. /\ call' = [call EXCEPT ![c] = r] /\ queue' = Append(queue, c) /\ UNCHANGED forgetting
        /\ tab[t].state = "open"
        /\ tab' = [tab EXCEPT ![t].epoch = tab[t].epoch + 1, ![t].status = "working"]
    BY <1>2, <2>0 DEF Reconcile
  <2> HIDE DEF r
  <2>6. /\ \A d \in Calls \ {c} : call'[d] = call[d]
        /\ call'[c].at = "queued"
        /\ \A u \in Tab : tab'[u].state = tab[u].state /\ tab'[u].epoch >= tab[u].epoch
        /\ \A u \in Tab \ {t} : tab'[u] = tab[u]
        /\ tab'[t].epoch = c[2]
    BY <1>0, <2>1, <2>4, <2>5 DEF TypeOK, PageTypes, Page
  <2>7. /\ Distinct' /\ Waiting(c)' /\ \A d : (Waiting(d) => Waiting(d)') /\ (Holds(d) => Holds(d)')
        /\ \A i \in DOMAIN queue' : queue'[i] = c \/ \E j \in DOMAIN queue : queue'[i] = queue[j]
    BY <2>1, <2>3, <2>5, Requested
  <2>8. ASSUME NEW e \in Entry, Entitled(e)
        PROVE  Entitled(e)'
    BY <2>5, <2>6, <2>8, EntryParts DEF Entitled, Busy
  <2>9. Entitled(c)'
    BY <2>1, <2>6, CallParts DEF Entitled, Busy
  <2>10. AllEntitled'
    BY <1>0, <2>7, <2>8, <2>9, AllEntitledNext
  <2>11. CallsWait'
    <3> SUFFICES ASSUME NEW d \in Calls
                 PROVE  /\ Busy(d)' => Waiting(d)'
                        /\ Busy(d)' /\ call'[d].at # "queued" => Holds(d)'
                        /\ call'[d].at # "unused" => d[2] <= tab'[d[1]].epoch
      BY DEF CallsWait
    <3>1. CASE d = c
      <4>1. c[2] \in Nat
        BY CallParts
      <4> QED
        BY <2>1, <2>6, <2>7, <3>1, <4>1
    <3>2. CASE d # c
      <4>1. d[1] \in Tab /\ d[2] \in Nat /\ tab'[d[1]].epoch >= tab[d[1]].epoch /\ tab[d[1]].epoch \in Nat
            /\ tab'[d[1]].epoch \in Nat
        <5>1. d[1] \in Tab /\ d[2] \in Nat
          BY CallParts
        <5>2. CASE d[1] = t
          BY <1>0, <2>1, <2>6, <5>1, <5>2, CallParts
        <5>3. CASE d[1] # t
          BY <1>0, <2>5, <2>6, <5>1, <5>3
        <5> QED
          BY <5>2, <5>3
      <4> QED
        BY <2>6, <2>7, <3>2, <4>1 DEF CallsWait, Busy
    <3> QED
      BY <3>1, <3>2
  <2>12. CleanupsWait'
    BY <2>5, <2>7 DEF CleanupsWait
  <2> QED
    BY <2>7, <2>10, <2>11, <2>12, QueuePartsNext
<1>3. ASSUME NEW t \in Tab, Forget(t) PROVE QueueInv'
  <2>1. /\ queue' = Append(queue, <<t, 0>>) /\ UNCHANGED call
        /\ tab[t].state # "removed"
        /\ tab' = [tab EXCEPT ![t].state = "removed"]
        /\ forgetting' = [forgetting EXCEPT ![t] = "deleting"]
    BY <1>3 DEF Forget
  <2>2. ~Waiting(<<t, 0>>)
    BY <1>0, <2>1 DEF Waiting, Entitled
  <2>3. /\ \A u \in Tab : /\ tab'[u].epoch = tab[u].epoch
                          /\ tab[u].state = "removed" => tab'[u].state = "removed"
                          /\ u # t => forgetting'[u] = forgetting[u]
        /\ tab'[t].state = "removed" /\ forgetting'[t] = "deleting"
    BY <2>1 DEF TypeOK, PageTypes, Page
  <2>4. /\ Distinct' /\ Waiting(<<t, 0>>)' /\ \A d : (Waiting(d) => Waiting(d)') /\ (Holds(d) => Holds(d)')
        /\ \A i \in DOMAIN queue' : queue'[i] = <<t, 0>> \/ \E j \in DOMAIN queue : queue'[i] = queue[j]
    BY <1>0, <2>1, <2>2, Requested
  <2>5. ASSUME NEW e \in Entry, Entitled(e)
        PROVE  Entitled(e)'
    BY <2>1, <2>3, <2>5, EntryParts DEF Entitled, Busy
  <2>6. Entitled(<<t, 0>>)'
    BY <2>3 DEF Entitled
  <2>7. AllEntitled'
    BY <1>0, <2>4, <2>5, <2>6, AllEntitledNext
  <2>8. CallsWait'
    BY <2>1, <2>3, <2>4, CallParts DEF CallsWait, Busy
  <2>9. CleanupsWait'
    <3> SUFFICES ASSUME NEW u \in Tab, forgetting'[u] \in {"deleting", "deleted"}
                 PROVE  Waiting(<<u, 0>>)'
      BY DEF CleanupsWait
    <3>1. CASE u = t
      BY <2>4, <3>1
    <3>2. CASE u # t
      BY <2>3, <2>4, <3>2 DEF CleanupsWait
    <3> QED
      BY <3>1, <3>2
  <2> QED
    BY <2>4, <2>7, <2>8, <2>9, QueuePartsNext
<1>4. ASSUME NEW t \in Tab, LedgerForgotten(t) PROVE QueueInv'
  <2>1. /\ UNCHANGED <<tab, call, queue>> /\ forgetting[t] = "deleting"
        /\ forgetting'[t] \in {"deleted", "kept"}
        /\ \A u \in Tab \ {t} : forgetting'[u] = forgetting[u]
    BY <1>4 DEF LedgerForgotten, TypeOK, PageTypes
  <2>2. ASSUME NEW e \in Entry, Entitled(e)
        PROVE  Entitled(e)'
    BY <2>1, <2>2, EntryParts DEF Entitled, Busy
  <2>3. AllEntitled'
    BY <1>0, <2>1, <2>2, AllEntitledNext
  <2>4. Distinct' /\ CallsWait' /\ CleanupsWait'
    BY <2>1 DEF Distinct, CallsWait, CleanupsWait, Busy, Holds, Waiting
  <2> QED
    BY <2>3, <2>4, QueuePartsNext
<1>5. ASSUME NEW t \in Tab, Cleanup(t) PROVE QueueInv'
  <2>1. /\ UNCHANGED <<tab, call>> /\ queue' = Tail(queue) /\ queue # <<>> /\ Head(queue) = <<t, 0>>
        /\ forgetting'[t] \in {"cleaned", "kept"}
        /\ \A u \in Tab \ {t} : forgetting'[u] = forgetting[u]
    BY <1>5 DEF Cleanup, Holds, TypeOK, PageTypes
  <2>2. /\ Distinct' /\ \A e : Waiting(e) /\ e # <<t, 0>> => Waiting(e)'
        /\ \A i \in DOMAIN queue' : \E j \in DOMAIN queue : queue'[i] = queue[j] /\ queue[j] # <<t, 0>>
    BY <2>1, HolderLeaves
  <2>3. ASSUME NEW e \in Entry, Entitled(e), e # <<t, 0>>
        PROVE  Entitled(e)'
    BY <2>1, <2>3, EntryParts DEF Entitled, Busy
  <2>4. AllEntitled'
    BY <1>0, <2>2, <2>3, AllEntitledNext
  <2>5. CallsWait'
    BY <2>1, <2>2, CallParts DEF CallsWait, Busy, Holds
  <2>6. CleanupsWait'
    BY <2>1, <2>2 DEF CleanupsWait
  <2> QED
    BY <2>2, <2>4, <2>5, <2>6, QueuePartsNext
<1>6. ASSUME NEW t \in Tab, VapidKey(t) PROVE QueueInv'
  <2>1. /\ UNCHANGED <<call, forgetting, queue>>
        /\ \A u \in Tab : tab'[u].state = tab[u].state /\ tab'[u].epoch = tab[u].epoch
    BY <1>6 DEF VapidKey, TypeOK, PageTypes, Page
  <2>2. ASSUME NEW e \in Entry, Entitled(e)
        PROVE  Entitled(e)'
    BY <2>1, <2>2, EntryParts DEF Entitled, Busy
  <2>3. AllEntitled'
    BY <1>0, <2>1, <2>2, AllEntitledNext
  <2>4. Distinct' /\ CallsWait' /\ CleanupsWait'
    BY <2>1, CallParts DEF Distinct, CallsWait, CleanupsWait, Busy, Holds, Waiting
  <2> QED
    BY <2>3, <2>4, QueuePartsNext
<1>7. ASSUME NEW t \in Tab, Reload(t) PROVE QueueInv'
  <2> DEFINE I == {i \in DOMAIN queue : queue[i][1] # t}
  <2>1. /\ queue' = Kept(queue, I)
        /\ \A c \in Calls : call'[c] = IF c[1] = t THEN Idle ELSE call[c]
        /\ forgetting'[t] \notin {"deleting", "deleted"}
        /\ \A u \in Tab : /\ tab'[u].epoch = tab[u].epoch
                          /\ u # t => tab'[u].state = tab[u].state /\ forgetting'[u] = forgetting[u]
    BY <1>7 DEF Reload, TypeOK, PageTypes, Page
  <2>2. I \in SUBSET DOMAIN queue /\ \A i \in DOMAIN queue : i \in I <=> queue[i][1] # t
    OBVIOUS
  <2> HIDE DEF I
  <2>3. /\ Distinct' /\ \A e : (\E i \in I : queue[i] = e) => Waiting(e)'
        /\ \A n \in DOMAIN queue' : \E i \in I : queue'[n] = queue[i]
        /\ 1 \in I => queue' # <<>> /\ Head(queue') = Head(queue)
    BY <2>1, <2>2, Withdrawn
  <2>4. ASSUME NEW e \in Entry, Entitled(e), e[1] # t
        PROVE  Entitled(e)'
    BY <2>1, <2>4, EntryParts DEF Entitled, Busy
  <2>5. AllEntitled'
    BY <1>0, <2>2, <2>3, <2>4, AllEntitledNext
  <2>6. ASSUME NEW e \in Entry, e[1] # t
        PROVE  (Waiting(e) => Waiting(e)') /\ (Holds(e) => Holds(e)')
    <3>1. Waiting(e) => Waiting(e)'
      BY <2>2, <2>3, <2>6 DEF Waiting
    <3>2. Holds(e) => 1 \in I
      BY <2>2, <2>6, HolderIs DEF Holds
    <3> QED
      BY <2>3, <3>1, <3>2 DEF Holds
  <2>7. CallsWait'
    <3> SUFFICES ASSUME NEW d \in Calls
                 PROVE  /\ Busy(d)' => Waiting(d)'
                        /\ Busy(d)' /\ call'[d].at # "queued" => Holds(d)'
                        /\ call'[d].at # "unused" => d[2] <= tab'[d[1]].epoch
      BY DEF CallsWait
    <3>1. CASE d[1] = t
      BY <2>1, <3>1 DEF Busy, Idle
    <3>2. CASE d[1] # t
      BY <2>1, <2>6, <3>2, CallParts DEF CallsWait, Busy
    <3> QED
      BY <3>1, <3>2
  <2>8. CleanupsWait'
    BY <1>0, <2>1, <2>6 DEF CleanupsWait
  <2> QED
    BY <2>3, <2>5, <2>7, <2>8, QueuePartsNext
<1>8. ASSUME NEW c \in Calls, WaitAborts(c) PROVE QueueInv'
  <2> DEFINE I == {i \in DOMAIN queue : queue[i] # c}
  <2>1. /\ queue' = Kept(queue, I) /\ ~Holds(c) /\ call[c].at = "queued"
        /\ call' = [call EXCEPT ![c] = [Idle EXCEPT !.at = "done"]]
        /\ UNCHANGED forgetting
        /\ tab' = tab \/ tab' = [tab EXCEPT ![c[1]].status = "failed"]
    BY <1>8 DEF WaitAborts, Without
  <2>2. /\ call'[c].at = "done" /\ \A d \in Calls \ {c} : call'[d] = call[d]
        /\ \A u \in Tab : tab'[u].epoch = tab[u].epoch /\ tab'[u].state = tab[u].state
    <3>1. call'[c].at = "done" /\ \A d \in Calls \ {c} : call'[d] = call[d]
      BY <2>1 DEF Idle, TypeOK, PageTypes
    <3>2. ASSUME NEW u \in Tab
          PROVE  tab'[u].epoch = tab[u].epoch /\ tab'[u].state = tab[u].state
      <4>1. c[1] \in Tab /\ tab[c[1]] \in Page /\ tab[u] \in Page /\ tab \in [Tab -> Page]
        BY CallParts DEF TypeOK, PageTypes
      <4> QED
        BY <2>1, <4>1 DEF Page
    <3> QED
      BY <3>1, <3>2
  <2>3. I \in SUBSET DOMAIN queue /\ \A i \in DOMAIN queue : i \in I <=> queue[i] # c
    OBVIOUS
  <2> HIDE DEF I
  <2>4. /\ Distinct' /\ \A e : (\E i \in I : queue[i] = e) => Waiting(e)'
        /\ \A n \in DOMAIN queue' : \E i \in I : queue'[n] = queue[i]
        /\ 1 \in I => queue' # <<>> /\ Head(queue') = Head(queue)
    BY <2>1, <2>3, Withdrawn
  <2>5. ASSUME NEW e \in Entry, Entitled(e), e # c
        PROVE  Entitled(e)'
    BY <2>1, <2>2, <2>5, EntryParts DEF Entitled, Busy
  <2>6. AllEntitled'
    BY <1>0, <2>3, <2>4, <2>5, AllEntitledNext
  <2>7. ASSUME NEW e \in Entry, e # c
        PROVE  (Waiting(e) => Waiting(e)') /\ (Holds(e) => Holds(e)')
    <3>1. Waiting(e) => Waiting(e)'
      BY <2>3, <2>4, <2>7 DEF Waiting
    <3>2. Holds(e) => 1 \in I
      BY <2>3, <2>7, HolderIs DEF Holds
    <3> QED
      BY <2>4, <3>1, <3>2 DEF Holds
  <2>8. CallsWait'
    <3> SUFFICES ASSUME NEW d \in Calls
                 PROVE  /\ Busy(d)' => Waiting(d)'
                        /\ Busy(d)' /\ call'[d].at # "queued" => Holds(d)'
                        /\ call'[d].at # "unused" => d[2] <= tab'[d[1]].epoch
      BY DEF CallsWait
    <3>1. CASE d = c
      BY <2>1, <2>2, <3>1, CallParts DEF CallsWait, Busy
    <3>2. CASE d # c
      BY <2>2, <2>7, <3>2, CallParts DEF CallsWait, Busy
    <3> QED
      BY <3>1, <3>2
  <2>9. CleanupsWait'
    <3>1. \A t \in Tab : <<t, 0>> # c
      BY CallParts
    <3> QED
      BY <1>0, <2>1, <2>7, <3>1 DEF CleanupsWait
  <2> QED
    BY <2>4, <2>6, <2>8, <2>9, QueuePartsNext
<1>9. ASSUME UNCHANGED page PROVE QueueInv'
  <2>1. UNCHANGED <<tab, call, forgetting, queue>>
    BY <1>9 DEF page
  <2>2. Distinct' /\ AllEntitled' /\ CallsWait' /\ CleanupsWait'
    BY <2>1 DEF Distinct, AllEntitled, Entitled, CallsWait, CleanupsWait, Busy, Holds, Waiting
  <2> QED
    BY <2>2, QueuePartsNext
<1>10. ASSUME \/ Expire
              \/ \E f \in net : Absorb(f)
              \/ \E w \in 1..MaxWakes : Notify(w) \/ Answered(w)
              \/ UNCHANGED vars
       PROVE  UNCHANGED page
  BY <1>10 DEF Expire, Absorb, Notify, Answered, vars
<1> QED
  BY <1>1, <1>2, <1>3, <1>4, <1>5, <1>6, <1>7, <1>8, <1>9, <1>10 DEF Next

(***************************************************************************)
(* What the roster shows                                                   *)
(***************************************************************************)

ShownRight(t) ==
  tab[t].status = "ready" =>
    /\ <<t, tab[t].epoch>> \in Calls
    /\ call[<<t, tab[t].epoch>>].at = "done" /\ call[<<t, tab[t].epoch>>].sent
    /\ tab[t].key = "agent" => call[<<t, tab[t].epoch>>].key = "agent"

LEMMA ShownParts == ShownInv <=> \A t \in Tab : ShownRight(t)
BY DEF ShownInv, ShownRight

LEMMA ShownPartsNext == ShownInv' <=> \A t \in Tab : ShownRight(t)'
BY DEF ShownInv, ShownRight

\* A page of which nothing changes but perhaps the state, and whose newest
\* reconciliation is not touched, shows what is right.
LEMMA ShownStays ==
  ASSUME ShownInv, NEW t \in Tab,
         tab'[t].epoch = tab[t].epoch, tab'[t].key = tab[t].key,
         tab'[t].status = "ready" => tab[t].status = "ready",
         \A c \in Calls : c[1] = t /\ call[c].at = "done" => call'[c] = call[c]
  PROVE  ShownRight(t)'
BY ShownParts, CallParts DEF ShownRight

LEMMA NextShownInv ==
  ASSUME TypeOK, EndpointInv, ShownInv, [Next]_vars
  PROVE  ShownInv'
<1> SUFFICES ASSUME NEW t \in Tab PROVE ShownRight(t)'
  BY ShownPartsNext
<1>0. /\ tab \in [Tab -> Page] /\ tab[t] \in Page /\ call \in [Calls -> Call]
  BY DEF TypeOK, PageTypes
<1>1. ASSUME NEW c \in Calls, CallStep(c) PROVE ShownRight(t)'
  <2>1. CASE Advances(c)
    <3>1. UNCHANGED tab /\ Busy(c) /\ \A d \in Calls \ {c} : call'[d] = call[d]
      BY <1>0, <2>1 DEF Advances
    <3> QED
      BY <3>1, ShownStays DEF Busy
  <2>2. CASE Ends(c)
    <3>1. PICK r \in Call : r.at = "done" /\ call' = [call EXCEPT ![c] = r]
      BY <2>2 DEF Ends
    <3>2. call'[c].at = "done" /\ Busy(c) /\ \A d \in Calls \ {c} : call'[d] = call[d]
      BY <1>0, <2>2, <3>1 DEF Ends
    <3>3. /\ tab'[t].epoch = tab[t].epoch /\ tab'[t].key = tab[t].key
          /\ tab'[t].status = "ready" => tab[t].status = "ready" \/ Shows(c, t)
      BY <2>2 DEF Ends, SameButStatus
    <3>4. CASE Shows(c, t)
      BY <3>2, <3>3, <3>4 DEF Shows, ShownRight
    <3>5. CASE ~Shows(c, t)
      BY <3>2, <3>3, <3>5, ShownStays DEF Busy
    <3> QED
      BY <3>4, <3>5
  <2> QED
    BY <1>1, <2>1, <2>2, CallStepKinds
<1>2. ASSUME NEW u \in Tab, Reconcile(u) PROVE ShownRight(t)'
  <2>1. CASE u = t
    BY <1>0, <1>2, <2>1 DEF Reconcile, ShownRight, Page
  <2>2. CASE u # t
    <3>1. tab'[t] = tab[t] /\ \A c \in Calls : c[1] = t => call'[c] = call[c]
      BY <1>0, <1>2, <2>2, CallParts DEF Reconcile
    <3> QED
      BY <3>1, ShownStays
  <2> QED
    BY <2>1, <2>2
<1>3. ASSUME NEW u \in Tab, Forget(u) PROVE ShownRight(t)'
  <2>1. UNCHANGED call /\ tab' = [tab EXCEPT ![u].state = "removed"]
    BY <1>3 DEF Forget
  <2>2. tab'[t].epoch = tab[t].epoch /\ tab'[t].key = tab[t].key /\ tab'[t].status = tab[t].status
    BY <1>0, <2>1 DEF Page
  <2> QED
    BY <2>1, <2>2, ShownStays
<1>4. ASSUME UNCHANGED <<tab, call>> PROVE ShownRight(t)'
  BY <1>4, ShownParts DEF ShownRight
<1>5. ASSUME NEW u \in Tab, VapidKey(u) PROVE ShownRight(t)'
  <2>1. UNCHANGED call /\ tab' = [tab EXCEPT ![u].key = "agent", ![u].status = "waiting"]
    BY <1>5 DEF VapidKey
  <2>2. CASE u = t
    BY <1>0, <2>1, <2>2 DEF ShownRight, Page
  <2>3. CASE u # t
    BY <1>0, <2>1, <2>3, ShownStays
  <2> QED
    BY <2>2, <2>3
<1>6. ASSUME NEW u \in Tab, Reload(u) PROVE ShownRight(t)'
  <2>1. CASE u = t
    BY <1>0, <1>6, <2>1 DEF Reload, ShownRight, Page
  <2>2. CASE u # t
    <3>1. tab'[t] = tab[t] /\ \A c \in Calls : c[1] = t => call'[c] = call[c]
      BY <1>0, <1>6, <2>2 DEF Reload
    <3> QED
      BY <3>1, ShownStays
  <2> QED
    BY <2>1, <2>2
<1>7. ASSUME NEW c \in Calls, WaitAborts(c) PROVE ShownRight(t)'
  <2>1. /\ call[c].at = "queued" /\ \A d \in Calls \ {c} : call'[d] = call[d]
        /\ tab' = tab \/ tab' = [tab EXCEPT ![c[1]].status = "failed"]
    BY <1>0, <1>7 DEF WaitAborts
  <2>2. /\ tab'[t].epoch = tab[t].epoch /\ tab'[t].key = tab[t].key
        /\ tab'[t].status = "ready" => tab[t].status = "ready"
    BY <1>0, <2>1 DEF Page
  <2> QED
    BY <2>1, <2>2, ShownStays
<1>8. ASSUME \/ Expire
             \/ \E f \in net : Absorb(f)
             \/ \E w \in 1..MaxWakes : Notify(w) \/ Answered(w)
             \/ \E u \in Tab : LedgerForgotten(u) \/ Cleanup(u)
             \/ UNCHANGED vars
      PROVE  UNCHANGED <<tab, call>>
  BY <1>8 DEF Expire, Absorb, Notify, Answered, LedgerForgotten, Cleanup, vars, page
<1> QED
  BY <1>1, <1>2, <1>3, <1>4, <1>5, <1>6, <1>7, <1>8 DEF Next

(***************************************************************************)
(* Forgetting                                                              *)
(***************************************************************************)

Early == {"unused", "queued", "checking", "done"}

\* While one reconciliation holds the lock the others are not under way.
LEMMA OthersWait ==
  ASSUME QueueInv, NEW c \in Calls, Holds(c), NEW d \in Calls, d # c
  PROVE  call[d].at \in {"unused", "queued", "done"}
BY DEF QueueInv, Holds, Busy

\* Without a record no step of a reconciliation goes beyond the check for it.
LEMMA RecordMissing ==
  ASSUME TypeOK, EndpointInv, NEW c \in Calls, CallStep(c), ledger = None
  PROVE  /\ ledger' = None
         /\ call[c].at \in Early => UNCHANGED native /\ call'[c].at \in Early
<1>0. call \in [Calls -> Call]
  BY DEF TypeOK, PageTypes
<1>1. ledger' = None
  BY DEF CallStep, Enter, CanReconcile, Register, GetSubscription, Unsubscribe, Subscribe,
         NextPush, CurrentPush, SendSubscription, browser
<1>2. ASSUME call[c].at \in Early
      PROVE  Enter(c) \/ CanReconcile(c)
  BY <1>2 DEF CallStep, Register, GetSubscription, Unsubscribe, Subscribe, NextPush, CurrentPush,
              SendSubscription, At, Early
<1>3. CASE Enter(c)
  <2>1. UNCHANGED native /\ (Goto(c, "checking") \/ Finish(c, FALSE))
    BY <1>3 DEF Enter, browser
  <2>2. Goto(c, "checking") => call'[c].at = "checking"
    BY <1>0 DEF Goto, Call
  <2>3. Finish(c, FALSE) => call'[c].at = "done"
    BY DoneAfter
  <2> QED
    BY <1>1, <2>1, <2>2, <2>3 DEF Early
<1>4. CASE CanReconcile(c)
  BY <1>0, <1>1, <1>4 DEF CanReconcile, Finish, LedgerFailed, browser, Early, Idle
<1> QED
  BY <1>1, <1>2, <1>3, <1>4

LEMMA NextForgetInv ==
  ASSUME TypeOK, EndpointInv, QueueInv, ForgetInv, [Next]_vars
  PROVE  ForgetInv'
<1>0. /\ call \in [Calls -> Call] /\ forgetting \in [Tab -> Progress]
      /\ native \in [reg : BOOLEAN, sub : Subscription \cup {None}]
  BY DEF TypeOK, PageTypes, BrowserTypes
<1>c. ForgetInv => \A t \in Tab : forgetting[t] = "cleaned" =>
                     ledger = None /\ ~native.reg /\ \A d \in Calls : call[d].at \in Early
  BY DEF ForgetInv, Early
<1>i. Idle.at = "unused"
  BY DEF Idle
\* The steps that let nobody go on and make nothing be forgotten.
<1>1. ASSUME /\ ledger' = ledger \/ ledger' = None
             /\ native'.reg = native.reg
             /\ \A d \in Calls : call'[d] = call[d] \/ call'[d].at \in {"unused", "queued", "done"}
             /\ \A t \in Tab : /\ forgetting'[t] = "cleaned" => forgetting[t] = "cleaned"
                               /\ forgetting'[t] = "deleted" => forgetting[t] = "deleted" \/ ledger' = None
      PROVE  ForgetInv'
  BY <1>1 DEF ForgetInv, Early
<1>2. ASSUME NEW c \in Calls, CallStep(c) PROVE ForgetInv'
  <2>1. UNCHANGED forgetting /\ \A d \in Calls \ {c} : call'[d] = call[d]
    BY <1>0, <1>2, CallStepKinds DEF Advances, Ends
  <2>2. \A t \in Tab : forgetting'[t] \in {"deleted", "cleaned"} => ledger' = None
    BY <1>2, <2>1, RecordMissing DEF ForgetInv
  <2>3. ASSUME NEW t \in Tab, forgetting'[t] = "cleaned"
        PROVE  ~native'.reg /\ \A d \in Calls : call'[d].at \in Early
    BY <1>c, <1>2, <2>1, <2>3, RecordMissing
  <2> QED
    BY <2>2, <2>3 DEF ForgetInv, Early
<1>3. ASSUME NEW t \in Tab, Reconcile(t) PROVE ForgetInv'
  <2> DEFINE r == [Idle EXCEPT !.at = "queued", !.key = tab[t].key]
  <2>1. r.at = "queued"
    BY DEF Idle
  <2>2. /\ call' = [call EXCEPT ![<<t, tab[t].epoch + 1>>] = r]
        /\ UNCHANGED <<forgetting, ledger, native>>
    BY <1>3 DEF Reconcile, browser
  <2> HIDE DEF r
  <2> QED
    BY <1>0, <1>1, <2>1, <2>2
<1>4. ASSUME NEW t \in Tab, Forget(t) PROVE ForgetInv'
  BY <1>0, <1>1, <1>4 DEF Forget, browser
<1>5. ASSUME NEW t \in Tab, LedgerForgotten(t) PROVE ForgetInv'
  BY <1>0, <1>1, <1>5 DEF LedgerForgotten
<1>6. ASSUME NEW t \in Tab, Cleanup(t) PROVE ForgetInv'
  <2>1. UNCHANGED <<call, ledger>> /\ queue # <<>> /\ Head(queue) = <<t, 0>>
    BY <1>6 DEF Cleanup, Holds
  <2>2. CASE UNCHANGED <<forgetting, native>>
    BY <1>1, <2>1, <2>2
  <2>3. CASE /\ forgetting[t] = "deleted" /\ native' = [reg |-> FALSE, sub |-> None]
             /\ forgetting' = [forgetting EXCEPT ![t] = "cleaned"]
    <3>1. \A d \in Calls : call[d].at \in {"unused", "queued", "done"}
      BY <2>1, CallParts DEF QueueInv, Busy, Holds
    <3>2. ledger = None /\ ~native'.reg
      BY <2>3 DEF ForgetInv
    <3> QED
      BY <2>1, <3>1, <3>2 DEF ForgetInv
  <2>4. CASE /\ forgetting' = [forgetting EXCEPT ![t] = "kept"]
             /\ native' \in {native, [native EXCEPT !.sub = None]}
    <3>1. native'.reg = native.reg
      BY <2>4 DEF TypeOK, BrowserTypes
    <3>2. \A u \in Tab : forgetting'[u] \in {forgetting[u], "kept"}
      BY <2>4 DEF TypeOK, PageTypes
    <3> QED
      BY <2>1, <3>1, <3>2 DEF ForgetInv
  <2> QED
    BY <1>6, <2>2, <2>3, <2>4 DEF Cleanup
<1>7. ASSUME NEW t \in Tab, VapidKey(t) PROVE ForgetInv'
  BY <1>1, <1>7 DEF VapidKey, browser
<1>8. ASSUME NEW t \in Tab, Reload(t) PROVE ForgetInv'
  <2>1. /\ UNCHANGED <<ledger, native>> /\ \A d \in Calls : call'[d] \in {call[d], Idle}
        /\ \A u \in Tab : forgetting'[u] \in {forgetting[u], "no"}
    BY <1>0, <1>8 DEF Reload, browser
  <2> QED
    BY <1>i, <1>1, <2>1
<1>9. ASSUME NEW c \in Calls, WaitAborts(c) PROVE ForgetInv'
  <2>1. UNCHANGED <<forgetting, ledger, native>> /\ call' = [call EXCEPT ![c] = [Idle EXCEPT !.at = "done"]]
    BY <1>9 DEF WaitAborts, browser
  <2>2. call'[c].at = "done" /\ \A d \in Calls \ {c} : call'[d] = call[d]
    BY <1>0, <2>1 DEF Idle
  <2> QED
    BY <1>1, <2>1, <2>2
<1>10. ASSUME Expire PROVE ForgetInv'
  BY <1>0, <1>1, <1>10 DEF Expire, page
<1>11. ASSUME \/ \E f \in net : Absorb(f)
              \/ \E w \in 1..MaxWakes : Notify(w) \/ Answered(w)
              \/ UNCHANGED vars
       PROVE  ForgetInv'
  <2>1. UNCHANGED <<call, forgetting, ledger, native>>
    BY <1>11 DEF Absorb, Notify, Answered, vars, page, browser
  <2> QED
    BY <1>1, <2>1
<1> QED
  BY <1>2, <1>3, <1>4, <1>5, <1>6, <1>7, <1>8, <1>9, <1>10, <1>11 DEF Next

(***************************************************************************)
(* Endpoints                                                               *)
(***************************************************************************)

\* The endpoints so far are the first numbers, and the live one is the last.
Numbered ==
  /\ gone = 1..Cardinality(gone) /\ Cardinality(gone) \in Nat
  /\ native.sub # None => native.sub.ep = Cardinality(gone) + 1

Stays   == gone' = gone /\ native'.sub = native.sub
Retires == Ended /\ native'.sub = None
Creates == /\ gone' = gone /\ native.sub = None
           /\ native'.sub \in Subscription /\ native'.sub.ep = created + 1

LEMMA StaysNumbered ==
  ASSUME Numbered, Stays
  PROVE  Numbered' /\ created' = created
BY DEF Numbered, Stays, created

LEMMA RetiresNumbered ==
  ASSUME Numbered, Retires
  PROVE  Numbered' /\ created' = created
<1> DEFINE n == Cardinality(gone)
<1>1. n \in Nat /\ gone = 1..n
  BY DEF Numbered
<1>2. CASE native.sub = None
  <2>1. gone' = gone
    BY <1>2 DEF Retires, Ended
  <2> QED
    BY <1>2, <2>1 DEF Retires, Numbered, created
<1>3. CASE native.sub # None
  <2>1. gone' = gone \cup {n + 1}
    BY <1>3 DEF Retires, Ended, Numbered
  <2>2. gone' = 1..(n + 1)
    BY <1>1, <2>1
  <2>3. Cardinality(gone') = n + 1
    BY <1>1, <2>2, FS_Interval
  <2> QED
    BY <1>1, <1>3, <2>2, <2>3 DEF Retires, Numbered, created
<1> QED
  BY <1>2, <1>3

LEMMA CreatesNumbered ==
  ASSUME Numbered, Creates
  PROVE  Numbered' /\ created' = created + 1
BY NoneIsNothing DEF Numbered, Creates, created

\* What a step of a reconciliation does to the endpoints.
LEMMA CallStepEndpoints ==
  ASSUME TypeOK, EndpointInv, NEW c \in Calls, CallStep(c)
  PROVE  Stays \/ Retires \/ (Creates /\ call'[c].sub = native'.sub)
<1>0. /\ native \in [reg : BOOLEAN, sub : Subscription \cup {None}]
      /\ call \in [Calls -> Call] /\ call[c] \in Call
  BY DEF TypeOK, PageTypes, BrowserTypes
<1>1. CASE Enter(c) \/ CanReconcile(c) \/ GetSubscription(c) \/ NextPush(c) \/ CurrentPush(c)
           \/ SendSubscription(c)
  BY <1>1 DEF Enter, CanReconcile, GetSubscription, NextPush, CurrentPush, SendSubscription,
              browser, Stays
<1>2. CASE Register(c)
  BY <1>0, <1>2 DEF Register, Stays
<1>3. CASE Unsubscribe(c)
  BY <1>0, <1>3 DEF Unsubscribe, Stays, Retires
<1>4. CASE Subscribe(c)
  <2> DEFINE fresh == [key |-> call[c].key, ep |-> created + 1]
  <2>1. gone' = gone
    BY <1>4 DEF Subscribe
  <2>2. CASE UNCHANGED native
    BY <2>1, <2>2 DEF Stays
  <2>3. CASE ~UNCHANGED native
    <3>1. call[c].sub = None /\ native.sub = None /\ native' = [native EXCEPT !.sub = fresh]
          /\ call' = [call EXCEPT ![c].sub = fresh, ![c].at = "counting"]
      BY <1>4, <2>3 DEF Subscribe
    <3>2. fresh \in Subscription /\ fresh.ep = created + 1
      BY <1>0, CreatedIsNat DEF Subscription, Call
    <3> HIDE DEF fresh
    <3> QED
      BY <1>0, <2>1, <3>1, <3>2 DEF Creates, Call
  <2> QED
    BY <2>2, <2>3
<1> QED
  BY <1>1, <1>2, <1>3, <1>4 DEF CallStep

LEMMA EndpointParts == EndpointInv => Numbered
BY DEF EndpointInv, Numbered

LEMMA NextEndpoints ==
  ASSUME TypeOK, EndpointInv, [Next]_vars
  PROVE  /\ Numbered' /\ created \in Nat /\ created' \in Nat /\ created' >= created
         /\ created' = created \/ \E c \in Calls : CallStep(c) /\ call'[c].sub = native'.sub
                                                  /\ Creates
<1>1. ASSUME NEW c \in Calls, CallStep(c) PROVE Stays \/ Retires \/ (Creates /\ call'[c].sub = native'.sub)
  BY <1>1, CallStepEndpoints
<1>2. ASSUME NEW t \in Tab, Cleanup(t) PROVE Stays \/ Retires
  <2>1. native \in [reg : BOOLEAN, sub : Subscription \cup {None}]
    BY DEF TypeOK, BrowserTypes
  <2> QED
    BY <1>2, <2>1 DEF Cleanup, Stays, Retires
<1>3. ASSUME Expire PROVE Retires
  <2>1. native \in [reg : BOOLEAN, sub : Subscription \cup {None}]
    BY DEF TypeOK, BrowserTypes
  <2> QED
    BY <1>3, <2>1 DEF Expire, Retires
<1>4. ASSUME \/ \E t \in Tab : \/ Reconcile(t) \/ Forget(t) \/ LedgerForgotten(t)
                               \/ VapidKey(t) \/ Reload(t)
             \/ \E c \in Calls : WaitAborts(c)
             \/ \E f \in net : Absorb(f)
             \/ \E w \in 1..MaxWakes : Notify(w) \/ Answered(w)
             \/ UNCHANGED vars
      PROVE  Stays
  BY <1>4 DEF Reconcile, Forget, LedgerForgotten, VapidKey, Reload, WaitAborts, Absorb, Notify,
              Answered, vars, browser, Stays
<1>5. Stays \/ Retires \/ \E c \in Calls : CallStep(c) /\ call'[c].sub = native'.sub /\ Creates
  BY <1>1, <1>2, <1>3, <1>4 DEF Next
<1>6. created \in Nat
  BY CreatedIsNat
<1> QED
  BY <1>5, <1>6, EndpointParts, StaysNumbered, RetiresNumbered, CreatesNumbered

RightEndpoint(c) ==
  /\ call[c].at \in Subscribed => call[c].sub # None
  /\ call[c].at \in Subscribed \cup {"replacing", "subscribing"} /\ call[c].sub # None
       => call[c].sub.ep = created

\* The steps that create no subscription leave the reconciliation with the newest.
LEMMA CallStepRight ==
  ASSUME TypeOK, EndpointInv, NEW c \in Calls, CallStep(c), Stays \/ Retires
  PROVE  RightEndpoint(c)'
<1>0. call \in [Calls -> Call] /\ call[c] \in Call
  BY DEF TypeOK, PageTypes
<1>1. RightEndpoint(c) /\ created' = created /\ (native.sub # None => native.sub.ep = created)
  BY StaysNumbered, RetiresNumbered, EndpointParts DEF EndpointInv, RightEndpoint, created
<1>2. ASSUME call'[c].at \in {"checking", "registering", "reading", "done"}
      PROVE  RightEndpoint(c)'
  BY <1>2 DEF RightEndpoint, Subscribed
<1>3. ASSUME Finish(c, FALSE) \/ Finish(c, TRUE) \/ LedgerFailed(c)
      PROVE  call'[c].at = "done"
  BY <1>3, DoneAfter
<1>4. ASSUME NEW stage \in Stage, Goto(c, stage)
      PROVE  call'[c].at = stage /\ call'[c].sub = call[c].sub
  BY <1>0, <1>4 DEF Goto, Call
<1>5. CASE Enter(c)
  BY <1>2, <1>3, <1>4, <1>5 DEF Enter, Stage
<1>6. CASE CanReconcile(c)
  BY <1>2, <1>3, <1>4, <1>6 DEF CanReconcile, Stage
<1>7. CASE Register(c)
  BY <1>2, <1>3, <1>4, <1>7 DEF Register, Stage
<1>8. CASE GetSubscription(c)
  <2>1. CASE Finish(c, FALSE)
    BY <1>2, <1>3, <2>1
  <2>2. CASE ~Finish(c, FALSE)
    <3>1. call'[c].sub = native.sub /\ call'[c].at \in {"replacing", "subscribing"}
      <4> DEFINE stage == IF native.sub # None /\ native.sub.key # call[c].key
                            THEN "replacing" ELSE "subscribing"
      <4>1. call' = [call EXCEPT ![c].sub = native.sub, ![c].at = stage]
        BY <1>8, <2>2 DEF GetSubscription
      <4>2. stage \in {"replacing", "subscribing"}
        OBVIOUS
      <4> HIDE DEF stage
      <4> QED
        BY <1>0, <4>1, <4>2 DEF Call
    <3> QED
      BY <1>1, <3>1 DEF RightEndpoint, Subscribed
  <2> QED
    BY <2>1, <2>2
<1>9. CASE Unsubscribe(c)
  <2>1. CASE Finish(c, FALSE)
    BY <1>2, <1>3, <2>1
  <2>2. CASE ~Finish(c, FALSE)
    <3>1. call'[c].sub = None /\ call'[c].at = "subscribing"
      <4>1. call' = [call EXCEPT ![c].sub = None, ![c].at = "subscribing"]
        BY <1>9, <2>2 DEF Unsubscribe
      <4> QED
        BY <1>0, <4>1 DEF Call
    <3> QED
      BY <3>1 DEF RightEndpoint, Subscribed
  <2> QED
    BY <2>1, <2>2
<1>10. CASE Subscribe(c)
  <2> DEFINE fresh == [key |-> call[c].key, ep |-> created + 1]
             sub == IF call[c].sub # None THEN call[c].sub
                    ELSE IF native.sub # None THEN native.sub ELSE fresh
             creates == call[c].sub = None /\ native.sub = None
  <2>1. CASE Finish(c, FALSE)
    BY <1>2, <1>3, <2>1
  <2>2. CASE ~Finish(c, FALSE)
    <3>1. /\ call' = [call EXCEPT ![c].sub = sub, ![c].at = "counting"]
          /\ native' = IF creates THEN [native EXCEPT !.sub = sub] ELSE native
          /\ call[c].at = "subscribing"
      BY <1>10, <2>2 DEF Subscribe, At
    <3>2. ~creates
      <4>1. SUFFICES ASSUME creates PROVE FALSE
        OBVIOUS
      <4>2. fresh \in Subscription /\ sub = fresh
        BY <1>0, <4>1, CreatedIsNat DEF Subscription, Call
      <4>3. native'.sub = fresh
        BY <3>1, <4>1, <4>2 DEF TypeOK, BrowserTypes
      <4> QED
        BY <4>1, <4>2, <4>3, NoneIsNothing DEF Stays, Retires
    <3>3. sub # None /\ sub.ep = created
      BY <1>1, <3>1, <3>2 DEF RightEndpoint
    <3> HIDE DEF sub, fresh
    <3>4. call'[c].sub = sub /\ call'[c].at = "counting"
      BY <1>0, <3>1 DEF Call
    <3> QED
      BY <1>1, <3>3, <3>4 DEF RightEndpoint
  <2> QED
    BY <2>1, <2>2
<1>11. CASE NextPush(c)
  <2>1. CASE Finish(c, FALSE) \/ LedgerFailed(c)
    BY <1>2, <1>3, <2>1
  <2>2. CASE ~Finish(c, FALSE) /\ ~LedgerFailed(c)
    <3>1. call'[c].sub = call[c].sub /\ call'[c].at = "signing" /\ call[c].at = "counting"
      <4>1. /\ call' = [call EXCEPT ![c].seq = ledger + 1, ![c].at = "signing"]
            /\ call[c].at = "counting"
        BY <1>11, <2>2 DEF NextPush, At
      <4> QED
        BY <1>0, <4>1 DEF Call
    <3> QED
      BY <1>1, <3>1 DEF RightEndpoint, Subscribed
  <2> QED
    BY <2>1, <2>2
<1>12. CASE CurrentPush(c)
  <2>1. CASE Finish(c, FALSE) \/ LedgerFailed(c)
    BY <1>2, <1>3, <2>1
  <2>2. CASE ~Finish(c, FALSE) /\ ~LedgerFailed(c)
    <3>1. call'[c].sub = call[c].sub /\ call'[c].at = "sending" /\ call[c].at = "signing"
      BY <1>4, <1>12, <2>2 DEF CurrentPush, At, Stage
    <3> QED
      BY <1>1, <3>1 DEF RightEndpoint, Subscribed
  <2> QED
    BY <2>1, <2>2
<1>13. CASE SendSubscription(c)
  BY <1>2, <1>3, <1>13 DEF SendSubscription
<1> QED
  BY <1>5, <1>6, <1>7, <1>8, <1>9, <1>10, <1>11, <1>12, <1>13 DEF CallStep

\* The steps other than those of a reconciliation let no call get anywhere.
LEMMA OtherSteps ==
  ASSUME TypeOK, [Next]_vars, \A c \in Calls : ~CallStep(c), NEW d \in Calls
  PROVE  call'[d] = call[d] \/ call'[d].at \in {"unused", "queued", "done"}
<1>0. call \in [Calls -> Call]
  BY DEF TypeOK, PageTypes
<1>i. /\ Idle.at = "unused" /\ [Idle EXCEPT !.at = "done"].at = "done"
      /\ \A k \in Key : [Idle EXCEPT !.at = "queued", !.key = k].at = "queued"
  BY DEF Idle
<1>1. ASSUME NEW t \in Tab, Reconcile(t)
      PROVE  call'[d] = call[d] \/ call'[d].at = "queued"
  <2>1. tab[t].key \in Key
    BY DEF TypeOK, PageTypes, Page
  <2> QED
    BY <1>0, <1>1, <1>i, <2>1 DEF Reconcile
<1>2. ASSUME NEW t \in Tab, Reload(t)
      PROVE  call'[d] = call[d] \/ call'[d].at = "unused"
  BY <1>0, <1>2, <1>i DEF Reload
<1>3. ASSUME NEW c \in Calls, WaitAborts(c)
      PROVE  call'[d] = call[d] \/ call'[d].at = "done"
  BY <1>0, <1>3, <1>i DEF WaitAborts
<1>4. ASSUME \/ \E t \in Tab : Forget(t) \/ LedgerForgotten(t) \/ Cleanup(t) \/ VapidKey(t)
             \/ Expire
             \/ \E f \in net : Absorb(f)
             \/ \E w \in 1..MaxWakes : Notify(w) \/ Answered(w)
             \/ UNCHANGED vars
      PROVE  UNCHANGED call
  BY <1>4 DEF Forget, LedgerForgotten, Cleanup, VapidKey, Expire, Absorb, Notify, Answered, vars, page
<1> QED
  BY <1>1, <1>2, <1>3, <1>4 DEF Next

LEMMA NextEndpointInv ==
  ASSUME TypeOK, QueueInv, EndpointInv, [Next]_vars
  PROVE  EndpointInv'
<1>1. /\ Numbered' /\ created \in Nat
      /\ created' = created \/ \E c \in Calls : CallStep(c) /\ call'[c].sub = native'.sub /\ Creates
  BY NextEndpoints
<1>2. ASSUME NEW d \in Calls PROVE RightEndpoint(d)'
  <2>0. RightEndpoint(d)
    BY DEF EndpointInv, RightEndpoint
  <2>1. ASSUME call'[d].at \in {"unused", "queued", "done"} PROVE RightEndpoint(d)'
    BY <2>1 DEF RightEndpoint, Subscribed
  <2>2. ASSUME call'[d] = call[d], created' = created PROVE RightEndpoint(d)'
    BY <2>0, <2>2 DEF RightEndpoint
  <2>3. CASE \A c \in Calls : ~CallStep(c)
    BY <1>1, <2>1, <2>2, <2>3, OtherSteps
  <2>4. ASSUME NEW c \in Calls, CallStep(c) PROVE RightEndpoint(d)'
    <3>1. Stays \/ Retires \/ (Creates /\ call'[c].sub = native'.sub)
      BY <2>4, CallStepEndpoints
    <3>2. Holds(c) /\ (d # c => call'[d] = call[d])
      BY <2>4, CallStepKinds DEF Advances, Ends, TypeOK, PageTypes
    <3>3. CASE d = c
      <4>1. CASE Stays \/ Retires
        BY <2>4, <3>3, <4>1, CallStepRight
      <4>2. CASE Creates /\ call'[c].sub = native'.sub
        <5>1. call'[c].sub # None /\ call'[c].sub.ep = created'
          BY <4>2, EndpointParts, CreatesNumbered, NoneIsNothing DEF Creates
        <5> QED
          BY <3>3, <5>1 DEF RightEndpoint
      <4> QED
        BY <3>1, <4>1, <4>2
    <3>4. CASE d # c
      BY <2>1, <3>2, <3>4, OthersWait
    <3> QED
      BY <3>3, <3>4
  <2> QED
    BY <2>3, <2>4
<1>3. EndpointInv' <=> Numbered' /\ \A d \in Calls : RightEndpoint(d)'
  BY DEF EndpointInv, Numbered, RightEndpoint
<1> QED
  BY <1>1, <1>2, <1>3

(***************************************************************************)
(* Frames                                                                  *)
(***************************************************************************)

FramesBounded ==
  \A f \in Sent : f.ep <= created /\ (ledger # None => f.seq <= ledger)

FramesOrdered ==
  \A f, g \in Sent : f.seq < g.seq => f.ep <= g.ep

KeptIsLast == asub # None => asub.seq = aseq

Signed(c) ==
  call[c].at \in {"signing", "sending"} =>
    /\ \A f \in Sent : f.seq <= call[c].seq
    /\ ledger # None => ledger = call[c].seq

LEMMA FrameParts ==
  FrameInv <=> FramesBounded /\ FramesOrdered /\ KeptIsLast /\ \A c \in Calls : Signed(c)
BY DEF FrameInv, FramesBounded, FramesOrdered, KeptIsLast, Signed

LEMMA FramePartsNext ==
  FrameInv' <=> FramesBounded' /\ FramesOrdered' /\ KeptIsLast' /\ \A c \in Calls : Signed(c)'
BY DEF FrameInv, FramesBounded, FramesOrdered, KeptIsLast, Signed

LEMMA SentAreFrames ==
  ASSUME TypeOK
  PROVE  \A f \in Sent : f \in Frame /\ f.ep \in Nat /\ f.seq \in Nat
BY DEF TypeOK, AgentTypes, Sent, Frame

\* The steps that send nothing, count nothing, and sign nothing.
LEMMA FramesStay ==
  ASSUME TypeOK, FrameInv, created \in Nat, created' \in Nat, created' >= created,
         Sent' \subseteq Sent, KeptIsLast', ledger' = ledger \/ ledger' = None,
         \A d \in Calls : \/ call'[d] = call[d]
                          \/ call'[d].at \notin {"signing", "sending"}
                          \/ /\ call[d].at = "signing" /\ call'[d].at = "sending"
                             /\ call'[d].seq = call[d].seq
  PROVE  FrameInv'
<1>1. FramesBounded'
  <2> SUFFICES ASSUME NEW f \in Sent'
               PROVE  f.ep <= created' /\ (ledger' # None => f.seq <= ledger')
    BY DEF FramesBounded
  <2>1. f \in Sent /\ f.ep \in Nat /\ f.ep <= created /\ (ledger # None => f.seq <= ledger)
    BY SentAreFrames, FrameParts DEF FramesBounded
  <2> QED
    BY <2>1
<1>2. FramesOrdered'
  BY FrameParts DEF FramesOrdered
<1>3. ASSUME NEW d \in Calls PROVE Signed(d)'
  BY FrameParts DEF Signed
<1> QED
  BY <1>1, <1>2, <1>3, FramePartsNext

LEMMA NextFrameInv ==
  ASSUME TypeOK, QueueInv, EndpointInv, FrameInv, [Next]_vars
  PROVE  FrameInv'
<1>0. /\ call \in [Calls -> Call] /\ ledger \in Nat \cup {None}
      /\ created \in Nat /\ created' \in Nat /\ created' >= created
  BY NextEndpoints DEF TypeOK, PageTypes, BrowserTypes
<1>k. ASSUME UNCHANGED <<net, asub, aseq>> PROVE Sent' \subseteq Sent /\ KeptIsLast'
  BY <1>k, FrameParts DEF Sent, KeptIsLast
\* Of the steps of a reconciliation.
<1>1. ASSUME NEW c \in Calls, CallStep(c) PROVE FrameInv'
  <2>0. Holds(c) /\ \A d \in Calls \ {c} : call'[d] = call[d]
    BY <1>0, <1>1, CallStepKinds DEF Advances, Ends
  <2>1. \A d \in Calls \ {c} : call[d].at \notin {"signing", "sending"}
    BY <2>0, OthersWait
  <2>2. ASSUME Finish(c, FALSE) \/ Finish(c, TRUE) \/ LedgerFailed(c)
        PROVE  call'[c].at = "done"
    BY <2>2, DoneAfter
  <2>3. ASSUME NEW stage \in Stage, Goto(c, stage)
        PROVE  call'[c].at = stage /\ call'[c].seq = call[c].seq
    BY <1>0, <2>3 DEF Goto, Call
  <2>4. ASSUME UNCHANGED <<net, agent, ledger>>, call'[c].at \notin {"signing", "sending"}
        PROVE  FrameInv'
    BY <1>0, <1>k, <2>0, <2>4, FramesStay DEF agent
  <2>5. CASE Enter(c)
    BY <2>2, <2>3, <2>4, <2>5 DEF Enter, Stage, browser
  <2>6. CASE CanReconcile(c)
    BY <2>2, <2>3, <2>4, <2>6 DEF CanReconcile, Stage, browser
  <2>7. CASE Register(c)
    BY <2>2, <2>3, <2>4, <2>7 DEF Register, Stage
  <2>8. CASE GetSubscription(c)
    <3>1. UNCHANGED <<net, agent, ledger>>
      BY <2>8 DEF GetSubscription, browser
    <3>2. ASSUME ~Finish(c, FALSE) PROVE call'[c].at \in {"replacing", "subscribing"}
      BY <1>0, <2>8, <3>2 DEF GetSubscription, Call
    <3> QED
      BY <2>2, <2>4, <3>1, <3>2
  <2>9. CASE Unsubscribe(c)
    <3>1. UNCHANGED <<net, agent, ledger>>
      BY <2>9 DEF Unsubscribe
    <3>2. ASSUME ~Finish(c, FALSE) PROVE call'[c].at = "subscribing"
      <4>1. call' = [call EXCEPT ![c].sub = None, ![c].at = "subscribing"]
        BY <2>9, <3>2 DEF Unsubscribe
      <4> QED
        BY <1>0, <4>1 DEF Call
    <3> QED
      BY <2>2, <2>4, <3>1, <3>2
  <2>10. CASE Subscribe(c)
    <3>1. UNCHANGED <<net, agent, ledger>>
      BY <2>10 DEF Subscribe
    <3>2. ASSUME ~Finish(c, FALSE) PROVE call'[c].at = "counting"
      <4>1. \E sub : call' = [call EXCEPT ![c].sub = sub, ![c].at = "counting"]
        BY <2>10, <3>2 DEF Subscribe
      <4> QED
        BY <1>0, <4>1 DEF Call
    <3> QED
      BY <2>2, <2>4, <3>1, <3>2
  <2>11. CASE NextPush(c)
    <3>0. UNCHANGED <<net, agent>>
      BY <2>11 DEF NextPush
    <3>1. CASE Finish(c, FALSE) \/ LedgerFailed(c)
      <4>1. call'[c].at = "done"
        BY <2>2, <3>1
      <4>2. ledger' = ledger \/ call' = [call EXCEPT ![c].seq = ledger + 1, ![c].at = "signing"]
        BY <2>11 DEF NextPush
      <4>3. ledger' = ledger
        BY <1>0, <4>1, <4>2 DEF Call
      <4> QED
        BY <2>4, <3>0, <4>1, <4>3
    <3>2. CASE ~Finish(c, FALSE) /\ ~LedgerFailed(c)
      <4>1. /\ ledger # None /\ ledger' = ledger + 1
            /\ call' = [call EXCEPT ![c].seq = ledger + 1, ![c].at = "signing"]
        BY <2>11, <3>2 DEF NextPush
      <4>2. ledger \in Nat /\ ledger' \in Nat /\ call'[c].seq = ledger + 1 /\ Sent' = Sent
        BY <1>0, <3>0, <4>1 DEF Call, Sent, agent
      <4>3. ASSUME NEW f \in Sent
            PROVE  f.ep <= created' /\ f.seq <= ledger + 1
        <5>1. f.ep \in Nat /\ f.seq \in Nat /\ f.ep <= created /\ f.seq <= ledger
          BY <4>1, SentAreFrames, FrameParts DEF FramesBounded
        <5> QED
          BY <1>0, <4>2, <5>1
      <4>4. FramesBounded' /\ FramesOrdered' /\ KeptIsLast'
        BY <3>0, <4>1, <4>2, <4>3, FrameParts DEF FramesBounded, FramesOrdered, KeptIsLast, agent
      <4>5. ASSUME NEW d \in Calls PROVE Signed(d)'
        <5>1. CASE d = c
          BY <4>1, <4>2, <4>3, <5>1 DEF Signed
        <5>2. CASE d # c
          BY <2>0, <2>1, <5>2 DEF Signed
        <5> QED
          BY <5>1, <5>2
      <4> QED
        BY <4>4, <4>5, FramePartsNext
    <3> QED
      BY <3>1, <3>2
  <2>12. CASE CurrentPush(c)
    <3>0. UNCHANGED <<net, agent, ledger>> /\ call[c].at = "signing"
      BY <2>12 DEF CurrentPush, browser, At
    <3>1. CASE Finish(c, FALSE) \/ LedgerFailed(c)
      BY <2>2, <2>4, <3>0, <3>1
    <3>2. CASE Goto(c, "sending")
      <4>1. call'[c].at = "sending" /\ call'[c].seq = call[c].seq
        BY <2>3, <3>2 DEF Stage
      <4> QED
        BY <1>0, <1>k, <2>0, <3>0, <4>1, FramesStay DEF agent
    <3> QED
      BY <2>12, <3>1, <3>2 DEF CurrentPush
  <2>13. CASE SendSubscription(c)
    <3>0. UNCHANGED <<browser, agent>> /\ call[c].at = "sending" /\ call'[c].at = "done"
      BY <2>2, <2>13 DEF SendSubscription, At
    <3>1. CASE UNCHANGED net
      BY <2>4, <3>0, <3>1 DEF browser
    <3>2. CASE ~UNCHANGED net
      <4> DEFINE g == [key |-> call[c].sub.key, ep |-> call[c].sub.ep, seq |-> call[c].seq]
      <4>1. net' = net \cup {g}
        BY <2>13, <3>2 DEF SendSubscription
      <4>2. call[c].sub # None /\ call[c].sub.ep = created
        BY <3>0 DEF EndpointInv, Subscribed
      <4>3. g.ep = created /\ g.seq = call[c].seq /\ g.seq \in Nat /\ created' = created
        BY <1>0, <3>0, <4>2 DEF Call, created, browser
      <4> HIDE DEF g
      <4>4. Sent' = Sent \cup {g} /\ UNCHANGED <<ledger, asub, aseq>>
        BY <3>0, <4>1 DEF Sent, agent, browser
      <4>5. /\ ledger # None => ledger = g.seq
            /\ \A f \in Sent : f.seq <= g.seq /\ f.ep <= g.ep /\ f.seq \in Nat /\ f.ep \in Nat
        BY <3>0, <4>3, SentAreFrames, FrameParts DEF Signed, FramesBounded
      <4>6. FramesBounded'
        BY <1>0, <4>3, <4>4, <4>5, FrameParts DEF FramesBounded
      <4>7. FramesOrdered'
        BY <1>0, <4>3, <4>4, <4>5, FrameParts DEF FramesOrdered
      <4>8. KeptIsLast' /\ \A d \in Calls : Signed(d)'
        BY <2>0, <2>1, <3>0, <4>4, FrameParts DEF KeptIsLast, Signed
      <4> QED
        BY <4>6, <4>7, <4>8, FramePartsNext
    <3> QED
      BY <3>1, <3>2
  <2> QED
    BY <1>1, <2>5, <2>6, <2>7, <2>8, <2>9, <2>10, <2>11, <2>12, <2>13 DEF CallStep
\* Of the other steps.
<1>2. ASSUME \A c \in Calls : ~CallStep(c) PROVE FrameInv'
  <2>1. \A d \in Calls : call'[d] = call[d] \/ call'[d].at \notin {"signing", "sending"}
    BY <1>2, OtherSteps
  <2>2. ASSUME Sent' \subseteq Sent, KeptIsLast', ledger' = ledger \/ ledger' = None
        PROVE  FrameInv'
    BY <1>0, <2>1, <2>2, FramesStay
  <2>3. ASSUME NEW f \in net, Absorb(f) PROVE FrameInv'
    <3>1. Sent' \subseteq Sent /\ UNCHANGED ledger
      BY <2>3 DEF Absorb, Sent, browser
    <3>2. KeptIsLast'
      BY <2>3, FrameParts DEF Absorb, KeptIsLast
    <3> QED
      BY <2>2, <3>1, <3>2
  <2>4. ASSUME NEW w \in 1..MaxWakes, Notify(w) \/ Answered(w) PROVE FrameInv'
    <3>1. Sent' \subseteq Sent /\ UNCHANGED ledger /\ KeptIsLast'
      BY <2>4, FrameParts DEF Notify, Answered, Sent, browser, KeptIsLast
    <3> QED
      BY <2>2, <3>1
  <2>5. ASSUME \/ \E t \in Tab : \/ Reconcile(t) \/ Forget(t) \/ LedgerForgotten(t) \/ Cleanup(t)
                                 \/ VapidKey(t) \/ Reload(t)
               \/ \E c \in Calls : WaitAborts(c)
               \/ Expire
               \/ UNCHANGED vars
        PROVE  FrameInv'
    <3>1. UNCHANGED <<net, agent>> /\ (ledger' = ledger \/ ledger' = None)
      BY <2>5 DEF Reconcile, Forget, LedgerForgotten, Cleanup, VapidKey, Reload, WaitAborts, Expire,
                  vars, browser
    <3> QED
      BY <1>k, <2>2, <3>1 DEF agent
  <2> QED
    BY <1>2, <2>3, <2>4, <2>5 DEF Next
<1> QED
  BY <1>1, <1>2

(***************************************************************************)
(* The theorems                                                            *)
(***************************************************************************)

LEMMA InitInv == Init => IInv
<1> SUFFICES ASSUME Init PROVE IInv
  OBVIOUS
<1>1. TypeOK
  BY InitTypes
<1>2. /\ queue = <<>> /\ \A c \in Calls : call[c] = Idle
      /\ \A t \in Tab : forgetting[t] = "no" /\ tab[t].status = "waiting"
  BY DEF Init
<1>3. QueueInv /\ ShownInv /\ ForgetInv
  BY <1>2 DEF QueueInv, Distinct, Busy, Idle, ShownInv, ForgetInv
<1>4. EndpointInv
  <2>1. gone = {} /\ Cardinality(gone) = 0 /\ native.sub = None
    BY FS_EmptySet DEF Init
  <2> QED
    BY <1>2, <2>1 DEF EndpointInv, Idle, Subscribed
<1>5. FrameInv
  BY <1>2 DEF Init, FrameInv, Sent, Idle
<1> QED
  BY <1>1, <1>3, <1>4, <1>5 DEF IInv

LEMMA NextInv == IInv /\ [Next]_vars => IInv'
BY NextTypes, NextQueueInv, NextShownInv, NextForgetInv, NextEndpointInv, NextFrameInv DEF IInv

\* The inductive invariant is one: of the pages, the browser and the agent together.
THEOREM Invariant == Spec => []IInv
BY InitInv, NextInv, PTL DEF Spec

\* The variables have their types, whatever the bounds (push.ts, manager.ts, session.ts,
\* agent.go).
THEOREM TypeCorrect == Spec => []TypeOK
BY Invariant, PTL DEF IInv

\* A cleanup that is owed is in the lock's queue, and the lock's holder is at work
\* (push.ts withRoom, removePushForRoom).
THEOREM CleanupStaysOwed == Spec => []CleanupOwed
<1>1. IInv => CleanupOwed
  <2> SUFFICES ASSUME IInv PROVE CleanupOwed
    OBVIOUS
  <2>0. queue \in Seq(Entry) /\ QueueInv /\ TypeOK
    BY DEF IInv, TypeOK, PageTypes
  <2>1. ASSUME NEW t \in Tab, forgetting[t] = "deleted"
        PROVE  Contains(queue, <<t, 0>>)
    BY <2>0, <2>1 DEF QueueInv, Contains
  <2>2. ASSUME queue # <<>>
        PROVE  IF Head(queue)[2] = 0 THEN forgetting[Head(queue)[1]] # "no"
               ELSE call[Head(queue)].at \notin {"unused", "done"}
    BY <2>0, <2>2, HolderIs DEF Entitled, Busy
  <2> QED
    BY <2>1, <2>2 DEF CleanupOwed
<1> QED
  BY <1>1, Invariant, PTL

\* What the roster shows as set up has been sent, by the newest reconciliation and
\* under the key now known (manager.ts reconcilePushSubscription).
THEOREM ReadyIsSent == Spec => []ReadyMeansSent
<1>1. IInv => ReadyMeansSent
  BY DEF IInv, ShownInv, ReadyMeansSent
<1> QED
  BY <1>1, Invariant, PTL

\* No page brings the native registration of a forgotten pairing back (push.ts
\* withPushSubscription, session.ts canReconcilePush).
THEOREM ForgottenForGood == Spec => []ForgottenStaysForgotten
<1>1. IInv => ForgottenStaysForgotten
  BY DEF IInv, ForgetInv, ForgottenStaysForgotten
<1> QED
  BY <1>1, Invariant, PTL

\* Only a frame or an answer of the push service changes what the agent has.
LEMMA OnlyTheAgent ==
  ASSUME [Next]_vars, asub' # asub
  PROVE  (\E f \in net : Absorb(f)) \/ (\E w \in 1..MaxWakes : Answered(w))
<1>1. ASSUME NEW c \in Calls, CallStep(c) PROVE asub' = asub
  BY <1>1 DEF CallStep, Enter, CanReconcile, Register, GetSubscription, Unsubscribe, Subscribe,
              NextPush, CurrentPush, SendSubscription, agent
<1>2. ASSUME \/ \E t \in Tab : \/ Reconcile(t) \/ Forget(t) \/ LedgerForgotten(t) \/ Cleanup(t)
                               \/ VapidKey(t) \/ Reload(t)
             \/ \E c \in Calls : WaitAborts(c)
             \/ Expire
             \/ \E w \in 1..MaxWakes : Notify(w)
             \/ UNCHANGED vars
      PROVE  asub' = asub
  BY <1>2 DEF Reconcile, Forget, LedgerForgotten, Cleanup, VapidKey, Reload, WaitAborts, Expire,
              Notify, vars, agent
<1> QED
  BY <1>1, <1>2 DEF Next

\* The agent's subscription only gets newer, and is dropped only when the push service
\* has said so of that very one (agent.go absorbPush, Notify).
THEOREM NewestKept == Spec => AgentKeepsNewest
<1>0. ASSUME IInv, asub # None
      PROVE  /\ asub \in Frame /\ asub.ep \in Nat /\ asub.seq = aseq /\ asub \in Sent
             /\ net \subseteq Sent /\ net \subseteq Frame
  BY <1>0 DEF IInv, TypeOK, AgentTypes, FrameInv, Sent, Frame
<1>1. ASSUME IInv, [Next]_vars, asub # None, asub' # None
      PROVE  asub'.ep >= asub.ep
  <2>1. CASE asub' = asub
    BY <1>0, <1>1, <2>1
  <2>2. ASSUME NEW f \in net, Absorb(f), asub' # asub
        PROVE  asub'.ep >= asub.ep
    <3>1. asub' = f /\ f \in Sent /\ asub \in Sent /\ asub.seq < f.seq
      BY <1>0, <1>1, <2>2 DEF Absorb, Frame
    <3> QED
      BY <1>1, <3>1, SentAreFrames DEF IInv, FrameInv
  <2>3. ASSUME NEW w \in 1..MaxWakes, Answered(w)
        PROVE  asub' = asub
    BY <1>1, <2>3 DEF Answered
  <2> QED
    BY <1>1, <2>1, <2>2, <2>3, OnlyTheAgent
<1>2. ASSUME IInv, [Next]_vars, asub # None, asub' = None
      PROVE  asub.ep \in gone
  <2>1. ASSUME NEW f \in net, Absorb(f) PROVE asub' # None
    BY <1>0, <1>2, <2>1, NoneIsNothing DEF Absorb
  <2>2. ASSUME NEW w \in 1..MaxWakes, Answered(w) PROVE asub.ep \in gone
    BY <1>2, <2>2 DEF Answered
  <2> QED
    BY <1>2, <2>1, <2>2, OnlyTheAgent
<1>3. IInv /\ [Next]_vars => [asub # None /\ asub' # None => asub'.ep >= asub.ep]_vars
  BY <1>1
<1>4. IInv /\ [Next]_vars => [asub # None /\ asub' = None => asub.ep \in gone]_vars
  BY <1>2
<1>5. Spec => NeverBack
  BY <1>3, Invariant, PTL DEF Spec, NeverBack
<1>6. Spec => RetireExact
  BY <1>4, Invariant, PTL DEF Spec, RetireExact
<1> QED
  BY <1>5, <1>6 DEF AgentKeepsNewest

=============================================================================
