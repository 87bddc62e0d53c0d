-------------------------------- MODULE App --------------------------------
(***************************************************************************)
(* One page of the phone: the roster of sessions (lib/manager.ts), the App *)
(* island that shows one of them (components/App.tsx), and the cards the   *)
(* human answers on (components/screens.tsx).                              *)
(*                                                                         *)
(* A session changes on its own; the manager reacts in the same step, and  *)
(* React shows the result in a later one.  An answer is given on the card  *)
(* that is shown, and goes to the session that is active by then: a swipe  *)
(* or a tap of a yes/no card is acted on by a timer, after its animation.  *)
(* Phone models a session in detail; here it is the part of its state the  *)
(* roster reads.  A request is its room and its sequence number.           *)
(***************************************************************************)
EXTENDS Naturals, Sequences, SequencesExt, Filter

CONSTANTS
  Room,
  Pointer,    \* fingers on the screen
  None,
  MaxRequest  \* requests of a room

ASSUME AppAssumption ==
  /\ None \notin Room \cup Pointer
  /\ MaxRequest \in Nat

VARIABLES
  sess,      \* the state of each session
  latest,    \* the newest request of each room, in the sequence ledger
  fate,      \* what became of it: "open", "sent" (an answer is), "over"
  order,     \* manager.order
  active,    \* manager.active
  unread, lastReq,
  store,     \* the rooms in localStorage
  mounted,   \* the App has mounted; before, only the push receiver listens
  hash,      \* the room a wake-up left in the fragment
  pairing,   \* the code-entry screen is wanted
  shown,     \* what React has put on the screen
  wasPaired, \* anyPaired when it did
  gesture,   \* the finger on the card, and whether it moves sideways
  committed, \* the card shown is committed
  timer,     \* its commit timer
  dying,     \* commit timers of cards gone from the screen
  urgent,    \* the human clicked: React renders before any other event
  wanted,    \* history: the room of the last wake-up, until the roster moves on
  touched,   \* history: the fingers that went down during the gesture
  spent      \* history: the card shown has answered a request

sessVars   == <<sess, latest, fate>>
rosterVars == <<order, active, unread, lastReq, store>>
pageVars   == <<mounted, hash, pairing>>
cardVars   == <<gesture, committed, timer, dying, touched, spent>>
viewVars   == <<shown, wasPaired, cardVars>>
vars == <<sessVars, rosterVars, pageVars, viewVars, wanted, urgent>>

NewSession == [screen |-> "pair", req |-> 0, paired |-> FALSE, err |-> FALSE,
               keyed |-> FALSE]
NoView == [screen |-> "none", room |-> None, req |-> 0]

Init ==
  /\ sess = [r \in Room |-> NewSession]
  /\ latest = [r \in Room |-> 0] /\ fate = [r \in Room |-> "over"]
  /\ order = <<>> /\ active = None /\ store = <<>>
  /\ unread = [r \in Room |-> 0] /\ lastReq = [r \in Room |-> 0]
  /\ mounted = FALSE /\ hash = None /\ pairing = TRUE
  /\ shown = NoView /\ wasPaired = FALSE
  /\ gesture = None /\ committed = FALSE /\ timer = None /\ dying = {}
  /\ urgent = FALSE /\ wanted = None /\ touched = {} /\ spent = FALSE

-----------------------------------------------------------------------------
(* The manager                                                             *)

persistAll(o, s) == store' = Kept(o, {i \in DOMAIN o : s[o[i]].keyed})

activeHasCardOpen(s) == active # None /\ s[active].screen = "card"

\* Bug: a new request takes the screen from a card that is open.
ChangeSteals(r, s) ==
  LET new == s.screen = "card" /\ s.req # lastReq[r] IN
  /\ sess' = [sess EXCEPT ![r] = s]
  /\ lastReq' = [lastReq EXCEPT ![r] = IF s.req = 0 \/ new THEN s.req ELSE @]
  /\ active' = IF new THEN r ELSE active
  /\ unread' = IF new THEN [unread EXCEPT ![r] = 0] ELSE unread
  /\ wanted' = IF active' # active THEN None ELSE wanted
  /\ persistAll(order, sess')
  /\ UNCHANGED order

\* onSessionChange: a new request counts as unread, or takes the screen when
\* the active agent has no card open.
onSessionChange(r, s) ==
  LET new  == s.screen = "card" /\ s.req # lastReq[r]
      take == new /\ ~activeHasCardOpen([sess EXCEPT ![r] = s])
  IN
  /\ sess' = [sess EXCEPT ![r] = s]
  /\ lastReq' = [lastReq EXCEPT ![r] = IF s.req = 0 \/ new THEN s.req ELSE @]
  /\ active' = IF take THEN r ELSE active
  /\ unread' = IF take THEN [unread EXCEPT ![r] = 0]
               ELSE IF new /\ r # active THEN [unread EXCEPT ![r] = @ + 1]
               ELSE unread
  /\ wanted' = IF active' # active THEN None ELSE wanted
  /\ persistAll(order, sess')
  /\ UNCHANGED order

remove(o, a, r) ==
  LET left == Without(o, r)
  IN [order |-> left,
      active |-> IF a # r THEN a ELSE IF left = <<>> THEN None ELSE Head(left)]

-----------------------------------------------------------------------------
(* The sessions                                                            *)

\* What App renders.
View ==
  LET s == sess[active] IN
  IF active = None THEN [screen |-> "pair", room |-> None, req |-> 0]
  ELSE [screen |-> IF pairing THEN "pair" ELSE s.screen, room |-> active,
        req |-> IF s.screen = "confirmed" THEN latest[active] ELSE s.req]
AnyPaired == \E i \in DOMAIN order : sess[order[i]].paired
Rendered  == shown = View /\ wasPaired = AnyPaired

Live(r) == mounted /\ r \in ToSet(order) /\ ~sess[r].err

SessionPaired(r) ==
  /\ Live(r) /\ ~sess[r].paired /\ ~sess[r].keyed
  /\ onSessionChange(r, [sess[r] EXCEPT !.paired = TRUE, !.keyed = TRUE,
                                        !.screen = "listening"])
  /\ UNCHANGED <<latest, fate>>

\* initialize of a restored session; the answer it may have sent is kept.
SessionRestored(r) ==
  /\ Live(r) /\ ~sess[r].paired /\ sess[r].keyed
  /\ onSessionChange(r,
       [sess[r] EXCEPT !.paired = TRUE,
          !.req = IF fate[r] = "over" THEN 0 ELSE latest[r],
          !.screen = CASE fate[r] = "over" -> "listening"
                       [] fate[r] = "open" -> "card"
                       [] fate[r] = "sent" -> "pending"])
  /\ UNCHANGED <<latest, fate>>

\* onPairError: storage or the handshake failed; the request stays.
SessionFails(r) ==
  /\ Live(r)
  /\ onSessionChange(r, [sess[r] EXCEPT !.screen = "pair", !.err = TRUE,
                                        !.paired = FALSE])
  /\ UNCHANGED <<latest, fate>>

\* A new request replaces whatever the session shows.
SessionAsked(r) ==
  /\ Live(r) /\ sess[r].paired /\ latest[r] < MaxRequest
  /\ latest' = [latest EXCEPT ![r] = @ + 1]
  /\ fate' = [fate EXCEPT ![r] = "open"]
  /\ onSessionChange(r, [sess[r] EXCEPT !.req = latest[r] + 1, !.screen = "card"])

\* The socket closed, or the agent left it.
SessionOffline(r) ==
  /\ Live(r) /\ sess[r].paired
  /\ sess[r].screen \in {"card", "listening"}
  /\ onSessionChange(r, [sess[r] EXCEPT !.screen = "offline"])
  /\ UNCHANGED <<latest, fate>>

\* It is open again, or the request was announced again.
SessionOnline(r) ==
  /\ Live(r) /\ sess[r].paired /\ sess[r].screen = "offline"
  /\ onSessionChange(r, [sess[r] EXCEPT
       !.screen = IF sess[r].req = 0 THEN "listening" ELSE "card"])
  /\ UNCHANGED <<latest, fate>>

\* sendDecision got its signature: the answer is retained, and sent.
SessionSigned(r) ==
  /\ Live(r) /\ sess[r].screen = "pending" /\ fate[r] = "open"
  /\ fate' = [fate EXCEPT ![r] = "sent"]
  /\ onSessionChange(r, sess[r])
  /\ UNCHANGED latest

\* expire: what was not answered is over.
expire(r) ==
  /\ fate[r] = "open"
  /\ fate' = [fate EXCEPT ![r] = "over"]
  /\ onSessionChange(r, [sess[r] EXCEPT !.req = 0, !.screen = "listening"])
  /\ UNCHANGED latest

SessionExpires(r) == Live(r) /\ sess[r].paired /\ sess[r].req # 0 /\ expire(r)

SessionReceipt(r) ==
  /\ Live(r) /\ sess[r].screen = "pending" /\ fate[r] = "sent"
  /\ fate' = [fate EXCEPT ![r] = "over"]
  /\ onSessionChange(r, [sess[r] EXCEPT !.req = 0, !.screen = "confirmed"])
  /\ UNCHANGED latest

SessionStep(r) ==
  /\ \/ SessionPaired(r) \/ SessionRestored(r) \/ SessionFails(r)
     \/ SessionAsked(r) \/ SessionOffline(r) \/ SessionOnline(r)
     \/ SessionSigned(r) \/ SessionExpires(r) \/ SessionReceipt(r)
  /\ UNCHANGED <<pageVars, viewVars>>

-----------------------------------------------------------------------------
(* React                                                                   *)

SameCard == /\ shown.screen = "card" /\ View.screen = "card"
            /\ shown.room = View.room /\ shown.req = View.req

\* Bug: the cards are not keyed by request.
RenderReuses ==
  /\ mounted /\ ~Rendered
  /\ shown' = View /\ urgent' = FALSE
  /\ wasPaired' = AnyPaired
  /\ pairing' = (pairing /\ ~(AnyPaired /\ ~wasPaired))
  /\ IF shown.screen = "card" /\ View.screen = "card" THEN UNCHANGED cardVars
     ELSE /\ gesture' = None /\ committed' = FALSE /\ timer' = None
          /\ touched' = {} /\ spent' = FALSE /\ UNCHANGED dying
  /\ UNCHANGED <<sessVars, rosterVars, mounted, hash, wanted>>

\* A card of another request is a new card; the timer of the old one is
\* cleared by its effect's cleanup, which runs after the screen has changed.
\* The code-entry screen is left when the first agent is paired.
Render ==
  /\ mounted /\ ~Rendered
  /\ shown' = View /\ urgent' = FALSE
  /\ wasPaired' = AnyPaired
  /\ pairing' = (pairing /\ ~(AnyPaired /\ ~wasPaired))
  /\ IF SameCard THEN UNCHANGED cardVars
     ELSE /\ gesture' = None /\ committed' = FALSE /\ timer' = None
          /\ touched' = {} /\ spent' = FALSE
          /\ dying' = dying \cup ({timer} \ {None})
  /\ UNCHANGED <<sessVars, rosterVars, mounted, hash, wanted>>

Cleanup ==
  /\ dying # {}
  /\ dying' = {}
  /\ UNCHANGED <<sessVars, rosterVars, pageVars, shown, wasPaired, gesture,
                 committed, timer, touched, spent, wanted>>

-----------------------------------------------------------------------------
(* The cards                                                               *)

OnCard == mounted /\ shown.screen = "card"

\* manager.decide: the answer goes to the session that is active by now.
Decide ==
  IF active # None /\ sess[active].paired /\ sess[active].req # 0
                   /\ sess[active].screen # "pending" /\ fate[active] = "open"
    THEN onSessionChange(active, [sess[active] EXCEPT !.screen = "pending"])
    ELSE UNCHANGED <<sess, rosterVars, wanted>>

\* Bug: a second finger takes the gesture of the first over.
DownTakesOver(p) ==
  /\ OnCard /\ ~committed
  /\ gesture' = IF gesture = None THEN [finger |-> p, across |-> FALSE]
                ELSE [gesture EXCEPT !.finger = p]
  /\ touched' = touched \cup {p}
  /\ UNCHANGED <<sessVars, rosterVars, pageVars, shown, wasPaired, committed,
                 timer, dying, spent, wanted>>

\* A second contact interrupts.
onDown(p) ==
  /\ OnCard /\ ~committed
  /\ gesture' = IF gesture = None THEN [finger |-> p, across |-> FALSE]
                ELSE None
  /\ touched' = IF gesture' = None THEN {} ELSE touched \cup {p}
  /\ UNCHANGED <<sessVars, rosterVars, pageVars, shown, wasPaired, committed,
                 timer, dying, spent, wanted>>

\* Past the dead zone a gesture is a swipe, or a scroll.
onMove(p) ==
  /\ OnCard /\ gesture # None /\ gesture.finger = p /\ ~gesture.across
  /\ \/ gesture' = [gesture EXCEPT !.across = TRUE]
     \/ gesture' = None
  /\ touched' = IF gesture' = None THEN {} ELSE touched
  /\ UNCHANGED <<sessVars, rosterVars, pageVars, shown, wasPaired, committed,
                 timer, dying, spent, wanted>>

commit ==
  /\ committed' = TRUE
  /\ timer' = <<shown.room, shown.req>>

\* Let go far enough to the side, or not; a cancelled or interrupted gesture
\* is one that is let go of too early.
onUp(p) ==
  /\ OnCard /\ gesture # None /\ gesture.finger = p
  /\ gesture' = None /\ touched' = {}
  /\ \/ gesture.across /\ commit
     \/ UNCHANGED <<committed, timer>>
  /\ UNCHANGED <<sessVars, rosterVars, pageVars, shown, wasPaired, dying,
                 spent, wanted>>

\* The buttons of a yes/no card.
TapButton ==
  /\ OnCard /\ ~committed
  /\ gesture' = None /\ touched' = {}
  /\ commit
  /\ UNCHANGED <<sessVars, rosterVars, pageVars, shown, wasPaired, dying,
                 spent, wanted>>

\* The commit timer of the card shown, or of one that is gone.
CommitFires ==
  /\ mounted
  /\ \/ /\ timer # None
        /\ Decide
        /\ spent' = (spent \/ sess' # sess)
        /\ timer' = None /\ UNCHANGED dying
     \/ /\ dying # {}
        /\ Decide
        /\ UNCHANGED <<timer, spent>>
        /\ \E t \in dying : dying' = dying \ {t}
  /\ UNCHANGED <<latest, fate, pageVars, shown, wasPaired, gesture, committed,
                 touched>>

\* An option of a choice card, or the reply of a text card, goes at once.
TapAnswer ==
  /\ OnCard /\ ~committed
  /\ Decide
  /\ spent' = (spent \/ sess' # sess)
  /\ UNCHANGED <<latest, fate, pageVars, shown, wasPaired, gesture, committed,
                 timer, dying, touched>>

\* useExpiryCountdown goes by what is shown, and expires by its id.
Countdown ==
  /\ mounted /\ shown.room # None /\ shown.room = active /\ shown.req # 0
  /\ sess[active].req = shown.req /\ expire(active)
  /\ UNCHANGED <<pageVars, viewVars>>

\* Done closes the confirmation that was shown, if it is still there.
dismissConfirmation ==
  /\ mounted /\ shown.screen = "confirmed" /\ active # None
  /\ sess[active].screen = "confirmed"
  /\ <<active, latest[active]>> = <<shown.room, shown.req>>
  /\ \E s \in {"listening", "offline"} :
       onSessionChange(active, [sess[active] EXCEPT !.screen = s])
  /\ UNCHANGED <<latest, fate, pageVars, viewVars>>

-----------------------------------------------------------------------------
(* The roster, the code-entry screen, wake-ups, and reloads                *)

setActive(r) ==
  /\ active' = r
  /\ unread' = [unread EXCEPT ![r] = 0]

Select(r) ==
  /\ mounted /\ r \in ToSet(order)
  /\ pairing' = FALSE
  /\ setActive(r)
  /\ wanted' = None
  /\ UNCHANGED <<sessVars, order, lastReq, store, mounted, hash, viewVars>>

AddAgent ==
  /\ mounted /\ order # <<>>
  /\ pairing' = TRUE
  /\ UNCHANGED <<sessVars, rosterVars, mounted, hash, viewVars, wanted>>

\* Forgetting a room also deletes its ledger.
RemoveRoom(r) ==
  LET m == remove(order, active, r) IN
  /\ mounted /\ r \in ToSet(order)
  /\ order' = m.order /\ active' = m.active
  /\ sess' = [sess EXCEPT ![r] = NewSession]
  /\ latest' = [latest EXCEPT ![r] = 0] /\ fate' = [fate EXCEPT ![r] = "over"]
  /\ unread' = [unread EXCEPT ![r] = 0] /\ lastReq' = [lastReq EXCEPT ![r] = 0]
  /\ persistAll(m.order, sess')
  /\ wanted' = None
  /\ UNCHANGED <<pageVars, viewVars>>

\* Bug: the attempt on the screen is replaced without looking at its state.
SubmitReplaces(r) ==
  LET prev == IF active # None /\ active # r THEN remove(order, active, active).order
              ELSE order
      again == r \in ToSet(prev) /\ (sess[r].paired \/ ~sess[r].err)
      gone(x) == (x = r /\ ~again) \/ x \notin ToSet(prev)
  IN
  /\ mounted /\ shown.screen = "pair"
  /\ order' = IF again THEN prev ELSE Append(Without(prev, r), r)
  /\ active' = r
  /\ sess' = [x \in Room |-> IF gone(x) THEN NewSession ELSE sess[x]]
  /\ latest' = [x \in Room |-> IF gone(x) THEN 0 ELSE latest[x]]
  /\ fate' = [x \in Room |-> IF gone(x) THEN "over" ELSE fate[x]]
  /\ unread' = [x \in Room |-> IF x = r \/ gone(x) THEN 0 ELSE unread[x]]
  /\ lastReq' = [x \in Room |-> IF gone(x) THEN 0 ELSE lastReq[x]]
  /\ persistAll(order', sess')
  /\ pairing' = FALSE /\ wanted' = None
  /\ UNCHANGED <<mounted, hash, viewVars>>

\* onSubmitCode: a failed attempt is replaced; a live one of the same room is
\* kept.
onSubmitCode(r) ==
  LET prev == IF active \notin {None, r} /\ ~sess[active].paired /\ sess[active].err
                THEN remove(order, active, active).order ELSE order
      again == r \in ToSet(prev) /\ (sess[r].paired \/ ~sess[r].err)
      gone(x) == (x = r /\ ~again) \/ x \notin ToSet(prev)
  IN
  /\ mounted /\ shown.screen = "pair"
  /\ order' = IF again THEN prev ELSE Append(Without(prev, r), r)
  /\ active' = r
  /\ sess' = [x \in Room |-> IF gone(x) THEN NewSession ELSE sess[x]]
  /\ latest' = [x \in Room |-> IF gone(x) THEN 0 ELSE latest[x]]
  /\ fate' = [x \in Room |-> IF gone(x) THEN "over" ELSE fate[x]]
  /\ unread' = [x \in Room |-> IF x = r \/ gone(x) THEN 0 ELSE unread[x]]
  /\ lastReq' = [x \in Room |-> IF gone(x) THEN 0 ELSE lastReq[x]]
  /\ persistAll(order', sess')
  /\ pairing' = FALSE /\ wanted' = None
  /\ UNCHANGED <<mounted, hash, viewVars>>

\* installPushReceiver: the room goes to the App, or waits in the fragment while
\* there is none.
receive(r) ==
  \/ /\ mounted /\ r \in ToSet(order)
     /\ pairing' = FALSE /\ setActive(r)
     /\ UNCHANGED hash
  \/ /\ ~mounted
     /\ hash' = r
     /\ UNCHANGED <<pairing, active, unread>>

\* A notification was clicked, and the worker tells the page.  (One that hears
\* of none opens the page with that fragment, which comes to the same.)
Wake(r) ==
  /\ receive(r)
  /\ wanted' = r
  /\ UNCHANGED <<sessVars, order, lastReq, store, mounted, viewVars>>

\* Bug: the fragment is read before the roster is restored.
MountTooSoon ==
  /\ ~mounted /\ mounted' = TRUE
  /\ order' = store
  /\ sess' = [r \in Room |-> IF r \in ToSet(store)
                THEN [NewSession EXCEPT !.keyed = TRUE] ELSE NewSession]
  /\ active' = IF store = <<>> THEN None ELSE Head(store)
  /\ pairing' = (store = <<>>)
  /\ hash' = None
  /\ UNCHANGED <<latest, fate, unread, lastReq, store, viewVars, wanted>>

\* restoreAll, then the wake-up that waits in the fragment.
Mount ==
  LET woken == hash # None /\ hash \in ToSet(store) IN
  /\ ~mounted /\ mounted' = TRUE
  /\ order' = store
  /\ sess' = [r \in Room |-> IF r \in ToSet(store)
                THEN [NewSession EXCEPT !.keyed = TRUE] ELSE NewSession]
  /\ active' = IF woken THEN hash ELSE IF store = <<>> THEN None ELSE Head(store)
  /\ pairing' = (store = <<>>)
  /\ hash' = None
  /\ UNCHANGED <<latest, fate, unread, lastReq, store, viewVars, wanted>>

\* iOS kills the page; what is not in storage is lost.
Reload ==
  /\ mounted /\ mounted' = FALSE
  /\ sess' = [r \in Room |-> NewSession]
  /\ order' = <<>> /\ active' = None
  /\ unread' = [r \in Room |-> 0] /\ lastReq' = [r \in Room |-> 0]
  /\ pairing' = TRUE /\ hash' = None
  /\ shown' = NoView /\ wasPaired' = FALSE
  /\ gesture' = None /\ committed' = FALSE /\ timer' = None /\ dying' = {}
  /\ touched' = {} /\ spent' = FALSE /\ wanted' = None
  /\ UNCHANGED <<latest, fate, store>>

UserTurns ==
  \/ \E r \in Room : Select(r) \/ RemoveRoom(r) \/ onSubmitCode(r) \/ Wake(r)
  \/ Reload

Click ==
  \/ \E r \in Room : Select(r) \/ RemoveRoom(r) \/ onSubmitCode(r)
  \/ AddAgent \/ TapAnswer \/ dismissConfirmation

Event ==
  \/ \E r \in Room : SessionStep(r) \/ Wake(r)
  \/ \E p \in Pointer : onDown(p) \/ onMove(p) \/ onUp(p)
  \/ TapButton \/ CommitFires \/ Countdown \/ Cleanup \/ Mount \/ Reload

Next ==
  \/ Render
  \/ ~urgent /\ Click /\ urgent' = ~Rendered'
  \/ ~urgent /\ Event /\ UNCHANGED urgent

Spec == Init /\ [][Next]_vars

-----------------------------------------------------------------------------
(* Properties                                                              *)

\* The session of r is given an answer, and the card it was given on: the one whose
\* commit timer fires, or the one on the screen.
Answers(r) == sess[r].paired /\ sess[r].screen # "pending" /\ sess'[r].screen = "pending"
TimerFires == timer' # timer \/ dying' # dying
Card == IF timer' # timer THEN timer
        ELSE IF dying' # dying THEN CHOOSE t \in dying : t \notin dying'
        ELSE <<shown.room, shown.req>>
AnswerWasShown(r) == Answers(r) => Card = <<r, sess[r].req>>

\* A deferred commit never answers another request than its card's, whatever is current
\* when its timer fires: App.tsx:340-344, screens.tsx:418-422.  The code does not keep
\* this, and a run of its own shows it: a change is current before it is rendered, and
\* the timer of a card that was replaced runs until the cleanup.
CommitAnswersItsCard ==
  [][\A r \in ToSet(order) : TimerFires => AnswerWasShown(r)]_vars

\* What the code does keep.  An answer goes astray in these two moments only, and they
\* are the hypothesis here; and in every moment a card on the screen answers once, also
\* when its answer goes astray: screens.tsx:480-487.  Done closes the receipt that is
\* shown and no other: session.ts:397-400.
ReceiptWasShown(r) ==
  sess[r].screen = "confirmed" /\ sess'[r].screen \in {"listening", "offline"}
  => <<shown.room, shown.req>> = <<r, latest[r]>>
AnswerOrStray(r) ==
  /\ Rendered /\ dying' = dying => AnswerWasShown(r)
  /\ Answers(r) /\ dying' = dying => ~spent
OneCardOneAnswer == [][\A r \in ToSet(order) : AnswerOrStray(r) /\ ReceiptWasShown(r)]_vars

\* A card on the screen is only taken from it by its own session, or by the
\* human: manager.ts:9-10.
CardNotStolen ==
  [][ mounted /\ active # None /\ sess[active].screen = "card"
      => active' = active \/ UserTurns ]_vars

\* A pairing attempt never costs an agent that is paired: App.tsx:276.
PairedKept ==
  [][ \A r \in ToSet(order) :
        sess[r].paired /\ mounted' => r \in ToSet(order') \/ RemoveRoom(r) ]_vars

\* A clicked notification brings its agent to the front, whether the page was
\* there, was loading, or was started for it: push-page.ts:6-8.
WakeSelects ==
  mounted /\ wanted \in ToSet(order) => active = wanted

\* A gesture that commits is one finger's: screens.tsx:424-425.
SwipeIsOneFingers == gesture # None => touched = {gesture.finger}

=============================================================================
