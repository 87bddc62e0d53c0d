------------------------------- MODULE Push -------------------------------
(***************************************************************************)
(* Web Push for one paired room.  Several tabs of the same installed app   *)
(* hold the same pairing; each may at any time reconcile the browser's     *)
(* native push registration (manager.ts reconcilePushSubscription, push.ts *)
(* withPushSubscription) and send the resulting subscription, sealed and   *)
(* signed under a fresh sequence number (session.ts sendPushSubscription,  *)
(* protocol-state.ts), to the agent, which keeps the newest (agent.go      *)
(* absorbPush), wakes it, and drops it when the push service says it is    *)
(* gone (Notify).  Any tab may forget the pairing, which deletes the       *)
(* ledger record and then the native registration (removePushForRoom).     *)
(*                                                                         *)
(* The tabs share the browser's lock of the room, the ledger record in     *)
(* IndexedDB and the native registration, nothing else; every await is a   *)
(* place where the others may run.                                         *)
(***************************************************************************)
EXTENDS Naturals, Sequences, FiniteSets, SequencesExt, Filter

CONSTANTS
    None,         \* no subscription, no ledger record
    Tab,          \* the pages of the app that hold the pairing
    MaxCalls,     \* bound: reconciliations the pages start
    MaxSubs,      \* bound: native subscriptions the browser ever creates
    MaxWakes,     \* bound: wake-ups the agent ever sends
    MaxReloads    \* bound: pages killed and opened again

Key == {"fallback", "agent"}
Subscription == [key : Key, ep : Nat]           \* endpoints in the order they are created
Frame == [key : Key, ep : Nat, seq : Nat]

ASSUME PushAssumption ==
    /\ None \notin Nat \cup Subscription \cup Frame
    /\ MaxCalls \in Nat

VARIABLES
    tab,          \* Tab -> what the page knows: a record of Page
    call,         \* Tab \X 1..MaxCalls -> a record of Call: one reconciliation
    forgetting,   \* Tab -> progress of the page's manager.remove
    queue,        \* the room's Web Lock: its first element holds it
    ledger,       \* the pairing's record: its push counter, or None
    native,       \* the room's service-worker registration and subscription
    gone,         \* endpoints the push service no longer knows
    net,          \* sealed push_sub frames between a page and the agent
    asub,         \* Agent.sub
    aseq,         \* Session.pushSeq
    wake,         \* 1..MaxWakes -> the subscription a Notify captured, and its progress
    reloads       \* pages reloaded so far

page == <<tab, call, forgetting, queue>>
browser == <<ledger, native, gone>>
agent == <<asub, aseq, wake>>
vars == <<page, browser, net, agent, reloads>>

Calls == Tab \X (1..MaxCalls)         \* a page and the number of its reconciliation

\* The order of one reconciliation's awaits, all of them under the lock but the first.
Stage == {"unused", "queued", "checking", "registering", "reading", "replacing",
          "subscribing", "counting", "signing", "sending", "done"}

Idle == [at |-> "unused", key |-> "fallback", sub |-> None, seq |-> 0, sent |-> FALSE]

Init ==
    /\ tab = [t \in Tab |-> [state |-> "open", key |-> "fallback", epoch |-> 0, status |-> "waiting"]]
    /\ call = [c \in Calls |-> Idle]
    /\ forgetting = [t \in Tab |-> "no"]
    /\ queue = <<>>
    /\ ledger = 0
    /\ native = [reg |-> FALSE, sub |-> None]
    /\ gone = {}
    /\ net = {}
    /\ asub = None
    /\ aseq = 0
    /\ wake = [w \in 1..MaxWakes |-> [at |-> "unused", sub |-> None]]
    /\ reloads = 0

-----------------------------------------------------------------------------
(* Helpers. *)

\* The number of native subscriptions created so far: endpoints are numbered in that order.
created == Cardinality(gone) + (IF native.sub = None THEN 0 ELSE 1)

\* The reconciliations started so far.
started == MapThenSumSet(LAMBDA t : tab[t].epoch, Tab)

\* usePushNotifications.ts current(): the roster still lists the room, and the key of
\* the reconciliation c is the one the room is to be subscribed under.
current(c) ==
    LET p == tab[c[1]] IN
    /\ p.state \in {"open", "unpaired"}
    /\ p.key = "agent" => call[c].key = "agent"

\* Mutant: a superseded reconciliation still counts.
ActiveWhenOld(c) == current(c)

\* manager.ts active(): the reconciliation c still is the page's newest.
active(c) == tab[c[1]].epoch = c[2] /\ current(c)

\* push-delivery.ts: what was sent counts only for a reconciliation that still is active.
Delivered(c, sent) == sent /\ active(c)

\* Whether the lock's holder is c.
Holds(c) == queue # <<>> /\ Head(queue) = c

At(c, stage) == call[c].at = stage /\ Holds(c)

Goto(c, stage) == call' = [call EXCEPT ![c].at = stage]

\* The end of a reconciliation that held the lock: its result reaches the page only
\* if it still is active there.
Finish(c, sent) ==
    /\ call' = [call EXCEPT ![c] = [Idle EXCEPT !.at = "done", !.key = call[c].key,
                                                !.sent = Delivered(c, sent)]]
    /\ queue' = Tail(queue)
    /\ tab' = IF active(c)
                THEN [tab EXCEPT ![c[1]].status = IF Delivered(c, sent) THEN "ready" ELSE "failed"]
                ELSE tab

\* session.ts ledgerFailed and onPairError: the page gives the pairing up.  The entry
\* stays in the manager, so the result of the call is still shown.
LedgerFailed(c) ==
    /\ call' = [call EXCEPT ![c] = [Idle EXCEPT !.at = "done"]]
    /\ queue' = Tail(queue)
    /\ tab' = [tab EXCEPT ![c[1]].state = IF @ = "open" THEN "unpaired" ELSE @,
                          ![c[1]].status = IF active(c) THEN "failed" ELSE @]

-----------------------------------------------------------------------------
(* One reconciliation: manager.ts, push-delivery.ts, push.ts, session.ts. *)

\* manager.reconcilePushSubscription, from the effect of usePushNotifications or from
\* onSessionChange on a fresh connection; the lock is requested in the same turn.
Reconcile(t) ==
    LET c == <<t, tab[t].epoch + 1>> IN
    /\ tab[t].state = "open"
    /\ started < MaxCalls /\ c \in Calls
    /\ tab' = [tab EXCEPT ![t].epoch = @ + 1, ![t].status = "working"]
    /\ call' = [call EXCEPT ![c] = [Idle EXCEPT !.at = "queued", !.key = tab[t].key]]
    /\ queue' = Append(queue, c)
    /\ UNCHANGED <<forgetting, browser, net, agent, reloads>>

\* withRoom: ten seconds without the lock abort the request (not that of a cleanup).
WaitAborts(c) ==
    /\ call[c].at = "queued" /\ ~Holds(c)
    /\ call' = [call EXCEPT ![c] = [Idle EXCEPT !.at = "done"]]
    /\ queue' = Without(queue, c)
    /\ tab' = IF active(c) THEN [tab EXCEPT ![c[1]].status = "failed"] ELSE tab
    /\ UNCHANGED <<forgetting, browser, net, agent, reloads>>

\* push.ts: the lock is granted.
Enter(c) ==
    /\ At(c, "queued")
    /\ IF active(c)
         THEN Goto(c, "checking") /\ UNCHANGED <<tab, queue>>
         ELSE Finish(c, FALSE)
    /\ UNCHANGED <<forgetting, browser, net, agent, reloads>>

\* Mutant: the page's own state is trusted instead of the record.
TrustPage(c) ==
    /\ At(c, "checking")
    /\ IF tab[c[1]].state = "open" /\ active(c)
         THEN Goto(c, "registering") /\ UNCHANGED <<tab, queue>>
         ELSE Finish(c, FALSE)
    /\ UNCHANGED <<forgetting, browser, net, agent, reloads>>

\* session.canReconcilePush: the record is read again, never created.
CanReconcile(c) ==
    /\ At(c, "checking")
    /\ IF tab[c[1]].state = "open" /\ ledger = None
         THEN LedgerFailed(c)
         ELSE IF tab[c[1]].state = "open" /\ active(c)
                THEN Goto(c, "registering") /\ UNCHANGED <<tab, queue>>
                ELSE Finish(c, FALSE)
    /\ UNCHANGED <<forgetting, browser, net, agent, reloads>>

\* serviceWorker.register and activated(): it may also fail, which ends the call.
Register(c) ==
    /\ At(c, "registering")
    /\ \/ /\ native' = [native EXCEPT !.reg = TRUE]
          /\ IF active(c) THEN Goto(c, "reading") /\ UNCHANGED <<tab, queue>> ELSE Finish(c, FALSE)
       \/ native' \in {native, [native EXCEPT !.reg = TRUE]} /\ Finish(c, FALSE)
    /\ UNCHANGED <<forgetting, ledger, gone, net, agent, reloads>>

\* pushManager.getSubscription: a subscription under another key is to be replaced.  The
\* reading fails, or comes back too late.
GetSubscription(c) ==
    /\ At(c, "reading")
    /\ \/ /\ active(c)
          /\ call' = [call EXCEPT
                ![c].sub = native.sub,
                ![c].at = IF native.sub # None /\ native.sub.key # call[c].key
                            THEN "replacing" ELSE "subscribing"]
          /\ UNCHANGED <<tab, queue>>
       \/ Finish(c, FALSE)
    /\ UNCHANGED <<forgetting, browser, net, agent, reloads>>

\* The browser or its push service ends the current subscription.
Ended == gone' = gone \cup (IF native.sub = None THEN {} ELSE {native.sub.ep})

\* sub.unsubscribe, and the check that it really went.
Unsubscribe(c) ==
    /\ At(c, "replacing")
    /\ \/ /\ Ended
          /\ native' = [native EXCEPT !.sub = None]
          /\ call' = [call EXCEPT ![c].sub = None, ![c].at = "subscribing"]
          /\ UNCHANGED <<tab, queue>>
       \/ Finish(c, FALSE) /\ UNCHANGED <<native, gone>>
    /\ UNCHANGED <<forgetting, ledger, net, agent, reloads>>

\* pushManager.subscribe when there is none, then the hand-over to delivery.  The
\* browser returns a live subscription of the same key instead of a second one.
Subscribe(c) ==
    /\ At(c, "subscribing")
    /\ LET fresh == [key |-> call[c].key, ep |-> created + 1]
           sub == IF call[c].sub # None THEN call[c].sub
                  ELSE IF native.sub # None THEN native.sub ELSE fresh
           creates == call[c].sub = None /\ native.sub = None IN
       IF ~active(c)
         THEN Finish(c, FALSE) /\ UNCHANGED native
         ELSE \/ /\ creates => created < MaxSubs
                 /\ native' = IF creates THEN [native EXCEPT !.sub = sub] ELSE native
                 /\ call' = [call EXCEPT ![c].sub = sub, ![c].at = "counting"]
                 /\ UNCHANGED <<tab, queue>>
              \/ creates /\ Finish(c, FALSE) /\ UNCHANGED native
    /\ UNCHANGED <<forgetting, ledger, gone, net, agent, reloads>>

\* session.sendPushSubscription: ledger.nextPush, unless the session has ended.
NextPush(c) ==
    /\ At(c, "counting")
    /\ IF tab[c[1]].state # "open"
         THEN Finish(c, FALSE) /\ UNCHANGED ledger
         ELSE IF ledger = None
                THEN LedgerFailed(c) /\ UNCHANGED ledger
                ELSE /\ ledger' = ledger + 1
                     /\ call' = [call EXCEPT ![c].seq = ledger + 1, ![c].at = "signing"]
                     /\ UNCHANGED <<tab, queue>>
    /\ UNCHANGED <<forgetting, native, gone, net, agent, reloads>>

\* The signature, then ledger.currentPush: only the newest number may be sent.
CurrentPush(c) ==
    /\ At(c, "signing")
    /\ IF ledger = None
         THEN LedgerFailed(c)
         ELSE IF ledger = call[c].seq
                THEN Goto(c, "sending") /\ UNCHANGED <<tab, queue>>
                ELSE Finish(c, FALSE)
    /\ UNCHANGED <<forgetting, browser, net, agent, reloads>>

\* relay.sendBox: the socket may be closed, and a closed session does not send.
SendSubscription(c) ==
    /\ At(c, "sending")
    /\ \/ /\ tab[c[1]].state = "open"
          /\ net' = net \cup {[key |-> call[c].sub.key, ep |-> call[c].sub.ep, seq |-> call[c].seq]}
          /\ Finish(c, TRUE)
       \/ Finish(c, FALSE) /\ UNCHANGED net
    /\ UNCHANGED <<forgetting, browser, agent, reloads>>

-----------------------------------------------------------------------------
(* Forgetting the pairing: manager.remove, session.forget, removePushForRoom. *)

\* The entry goes, its session closes; the record's deletion and the request for the
\* lock both start.
Forget(t) ==
    /\ tab[t].state \in {"open", "unpaired"}
    /\ tab' = [tab EXCEPT ![t].state = "removed"]
    /\ forgetting' = [forgetting EXCEPT ![t] = "deleting"]
    /\ queue' = Append(queue, <<t, 0>>)
    /\ UNCHANGED <<call, browser, net, agent, reloads>>

\* ledger.forget commits, or its transaction fails.
LedgerForgotten(t) ==
    /\ forgetting[t] = "deleting"
    /\ \/ ledger' = None /\ forgetting' = [forgetting EXCEPT ![t] = "deleted"]
       \/ UNCHANGED ledger /\ forgetting' = [forgetting EXCEPT ![t] = "kept"]
    /\ UNCHANGED <<tab, call, queue, native, gone, net, agent, reloads>>

\* Mutant: the cleanup gives up waiting for the lock like a reconciliation.
CleanupGivesUp(t) ==
    /\ Contains(queue, <<t, 0>>)
    /\ \/ /\ Holds(<<t, 0>>) /\ forgetting[t] = "deleted"
          /\ forgetting' = [forgetting EXCEPT ![t] = "cleaned"]
          /\ Ended
          /\ native' = [reg |-> FALSE, sub |-> None]
       \/ /\ forgetting[t] = "kept" \/ ~Holds(<<t, 0>>)
          /\ UNCHANGED <<forgetting, native, gone>>
    /\ queue' = Without(queue, <<t, 0>>)
    /\ UNCHANGED <<tab, call, ledger, net, agent, reloads>>

\* removePushForRoom under the lock: only after the deletion, the subscription and the
\* registration.  Any of it may fail, and nobody tries again.
Cleanup(t) ==
    /\ Holds(<<t, 0>>)
    /\ \/ /\ forgetting[t] = "deleted"
          /\ forgetting' = [forgetting EXCEPT ![t] = "cleaned"]
          /\ Ended
          /\ native' = [reg |-> FALSE, sub |-> None]
       \/ /\ forgetting[t] = "deleted"
          /\ forgetting' = [forgetting EXCEPT ![t] = "kept"]
          /\ \/ Ended /\ native' = [native EXCEPT !.sub = None]
             \/ UNCHANGED <<native, gone>>
       \/ /\ forgetting[t] = "kept"
          /\ UNCHANGED <<forgetting, native, gone>>
    /\ queue' = Tail(queue)
    /\ UNCHANGED <<tab, call, ledger, net, agent, reloads>>

-----------------------------------------------------------------------------
(* What happens around the calls. *)

\* The agent's own key reaches a page that used the build's (session.onVapidKey).
VapidKey(t) ==
    /\ tab[t].state = "open" /\ tab[t].key = "fallback"
    /\ tab' = [tab EXCEPT ![t].key = "agent", ![t].status = "waiting"]
    /\ UNCHANGED <<call, forgetting, queue, browser, net, agent, reloads>>

\* A page is killed and opened again: its locks and requests go with it, a deletion
\* that has not committed does not happen, and session.restore needs the record.
Reload(t) ==
    /\ reloads < MaxReloads
    /\ tab' = [tab EXCEPT ![t].state = IF ledger = None THEN "unpaired" ELSE "open",
                          ![t].status = "waiting"]
    /\ call' = [c \in Calls |-> IF c[1] = t THEN Idle ELSE call[c]]
    /\ forgetting' = [forgetting EXCEPT ![t] = IF @ = "cleaned" THEN @ ELSE "no"]
    /\ queue' = Kept(queue, {i \in DOMAIN queue : queue[i][1] # t})
    /\ reloads' = reloads + 1
    /\ UNCHANGED <<browser, net, agent>>

\* The push service expires the subscription, or the user withdraws the permission.
Expire ==
    /\ native.sub # None
    /\ Ended
    /\ native' = [native EXCEPT !.sub = None]
    /\ UNCHANGED <<page, ledger, net, agent, reloads>>

-----------------------------------------------------------------------------
(* The agent. *)

\* Mutant: every verified update is stored, whatever its number.
AbsorbAny(f) ==
    /\ f \in net
    /\ net' = net \ {f}
    /\ aseq' = f.seq /\ asub' = f
    /\ UNCHANGED <<page, browser, wake, reloads>>

\* agent.go absorbPush.  The frames of two pages' connections arrive in any order; one
\* that stays in net for ever is lost.
Absorb(f) ==
    /\ f \in net
    /\ net' = net \ {f}
    /\ IF f.seq > aseq
         THEN aseq' = f.seq /\ asub' = f
         ELSE UNCHANGED <<aseq, asub>>
    /\ UNCHANGED <<page, browser, wake, reloads>>

\* Notify reads the subscription under the lock and sends without it.
Notify(w) ==
    /\ wake[w].at = "unused" /\ asub # None
    /\ wake' = [wake EXCEPT ![w] = [at |-> "sent", sub |-> asub]]
    /\ UNCHANGED <<page, browser, net, asub, aseq, reloads>>

\* The push service's answer: 404 or 410 for an endpoint it no longer knows; only the
\* very subscription that was sent is dropped.
Answered(w) ==
    /\ wake[w].at = "sent"
    /\ asub' = IF wake[w].sub.ep \in gone /\ asub = wake[w].sub THEN None ELSE asub
    /\ wake' = [wake EXCEPT ![w] = [at |-> "answered", sub |-> None]]
    /\ UNCHANGED <<page, browser, net, aseq, reloads>>

-----------------------------------------------------------------------------
CallStep(c) ==
    \/ Enter(c) \/ CanReconcile(c) \/ Register(c) \/ GetSubscription(c) \/ Unsubscribe(c)
    \/ Subscribe(c) \/ NextPush(c) \/ CurrentPush(c) \/ SendSubscription(c)

Next ==
    \/ \E t \in Tab : \/ Reconcile(t)
                      \/ Forget(t) \/ LedgerForgotten(t) \/ Cleanup(t)
                      \/ VapidKey(t) \/ Reload(t)
    \/ \E c \in Calls : CallStep(c) \/ WaitAborts(c)
    \/ Expire
    \/ \E f \in net : Absorb(f)
    \/ \E w \in 1..MaxWakes : Notify(w) \/ Answered(w)

Spec == Init /\ [][Next]_vars

-----------------------------------------------------------------------------
(* Properties. *)

\* "An older tab cannot sign a cached endpoint after a newer tab has replaced and
\* delivered the native subscription" (manager.ts:335-338): whatever the pages do and in
\* whatever order their frames arrive, the agent never replaces a subscription with
\* one the browser created before it.
NeverBack == [][asub # None /\ asub' # None => asub'.ep >= asub.ep]_vars

\* Once a page has forgotten the pairing and cleaned up, no other page that still has
\* it open brings the native registration back (push.ts:148-149).
ForgottenStaysForgotten == (\E t \in Tab : forgetting[t] = "cleaned") => ~native.reg

\* Agent.Notify drops a subscription only because of an answer about that subscription:
\* a late 404 for an old one never drops the one swapped in meanwhile (agent.go:1007-1013).
RetireExact == [][asub # None /\ asub' = None => asub.ep \in gone]_vars

\* What the agent wakes the phone through only gets newer, and goes only when it is gone.
AgentKeepsNewest == NeverBack /\ RetireExact

\* The roster says that notifications of an agent are set up only when the page's
\* latest reconciliation, under the key now known, has sent the subscription: the
\* result of one it has superseded never shows.
ReadyMeansSent ==
    \A t \in Tab : tab[t].status = "ready" =>
        LET c == <<t, tab[t].epoch>> IN
        call[c].sent /\ (tab[t].key = "agent" => call[c].key = "agent")

\* A page that has deleted the record still is to remove the native registration, and
\* whoever holds the room's lock is at work and will let it go: no lock outlives its
\* page, and no time limit drops the request of a cleanup.
CleanupOwed ==
    /\ \A t \in Tab : forgetting[t] = "deleted" => Contains(queue, <<t, 0>>)
    /\ queue # <<>> => IF Head(queue)[2] = 0 THEN forgetting[Head(queue)[1]] # "no"
                       ELSE call[Head(queue)].at \notin {"unused", "done"}

=============================================================================
