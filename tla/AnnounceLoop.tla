---------------------------- MODULE AnnounceLoop ----------------------------
(***************************************************************************)
(* The announce loop of SwapServerGuiPlugin in time: one announce task     *)
(* that nobody stops (SwapServer has the stopping), from its proof of work *)
(* on.  Every await is a program counter with a bound on how long it takes;*)
(* Pass lets one unit of time go by, and the statements between two awaits *)
(* take none.                                                              *)
(*                                                                         *)
(* Around it are the relays, the channels' liquidity and the wallet lock,  *)
(* which may change at any moment.  A transport keeps the relays that      *)
(* answered its one connection attempt: once its link is gone, only a new  *)
(* transport is sure to have one.                                          *)
(***************************************************************************)
EXTENDS Naturals

CONSTANTS
  Republish,       \* REPUBLISH_INTERVAL_SEC
  Poll,            \* LIQUIDITY_POLL_SEC
  Recycle,         \* TRANSPORT_RECYCLE_SEC
  MaxFailures,     \* PUBLISH_FAILURES_BEFORE_RECYCLE
  RetryMin,        \* TRANSPORT_RETRY_MIN_SEC
  RetryMax,        \* TRANSPORT_RETRY_MAX_SEC
  UnlockPoll,      \* WALLET_UNLOCK_POLL_SEC
  Expiry,          \* OFFER_UPDATE_INTERVAL_SEC + 10, the NIP-40 expiration
  ConnectTime,     \* transport.connect_timeout + 1
  PublishTime,     \* how long _add_event takes to resolve or time out
  CloseTime,       \* how long the transport takes to close
  HasKey           \* whether the wallet has a nostr keypair

ASSUME TimeAssumption ==
  /\ {Republish, Poll, Recycle, MaxFailures, RetryMin, RetryMax, UnlockPoll, Expiry,
      ConnectTime, PublishTime} \subseteq Nat \ {0}
  /\ CloseTime \in Nat /\ RetryMin <= RetryMax /\ HasKey \in BOOLEAN

\* The republishing interval leaves room inside the offer's lifetime, also when
\* the transport is recycled just before the offer would have been due.
ASSUME RoomAssumption ==
  /\ PublishTime < Republish
  /\ Republish + Poll + PublishTime < Expiry
  /\ Republish + CloseTime + RetryMin + ConnectTime + PublishTime < Expiry

VARIABLES
  pc, waited,      \* where the task awaits, and for how long already
  relay,           \* _relay_connected: "none", "yes" or "no"
  failures,        \* _consecutive_publish_failures, up to MaxFailures
  wakeup,          \* _publish_wakeup
  delay,           \* delay of _announce_loop
  useful,          \* made_progress, published_at_least_once
  built,           \* age of built_at, up to Recycle
  last,            \* age of last_publish_at, up to Republish (its None included)
  forced,          \* forced
  seen,            \* liquidity in the previously advertised values
  \* the transport and its surroundings
  link, online, liquid, locked,
  \* the newest acknowledged offer, and history
  life, sound, calm, claim

loopVars == <<relay, failures, wakeup, delay, useful, built, last, forced, seen>>
envVars  == <<link, online, liquid, locked>>
vars     == <<pc, waited, loopVars, envVars, life, sound, calm, claim>>

Instant == {"serve", "turn"}
Await   == {"unlock", "connect", "publish", "tick", "close", "backoff"}

Lesser(a, b)  == IF a < b THEN a ELSE b
Greater(a, b) == IF a < b THEN b ELSE a

\* announce_state of a running server with a relay, as status() asks for it.
AnnounceState ==
  IF locked THEN "waiting_unlock"
  ELSE IF relay = "no" THEN "no_relay_connected"
  ELSE IF ~liquid THEN "no_liquidity"
  ELSE IF failures > 0 THEN "publish_failing"
  ELSE "announcing"

\* How long the tab may show "announcing" while no relay has an offer: a poll
\* of the lock and a connection attempt, or a poll of the liquidity, and a publish.
ClaimBound == Greater(UnlockPoll + ConnectTime, Poll) + PublishTime

\* How long the loop needs, once nothing stands in its way, to have an offer on
\* the relays: to notice a dead transport by its failures and close it, to sit
\* out the backoff (a long one only if the transport had published nothing, and
\* then its first failure came at once), to connect and to publish.
RecoveryBound ==
  (MaxFailures - 1) * (Republish + Poll)
    + Greater(Republish + Poll + RetryMin, RetryMax)
    + PublishTime + CloseTime + ConnectTime + PublishTime

TypeOK ==
  /\ pc \in Instant \cup Await
  /\ waited \in Nat
  /\ relay \in {"none", "yes", "no"} /\ failures \in 0 .. MaxFailures
  /\ delay \in RetryMin .. RetryMax
  /\ {wakeup, useful, forced, seen, link, online, liquid, locked, sound} \subseteq BOOLEAN
  /\ built \in 0 .. Recycle /\ last \in 0 .. Republish
  /\ life \in 0 .. Expiry
  /\ calm \in 0 .. RecoveryBound /\ claim \in 0 .. ClaimBound + 1

Init ==
  /\ pc = "serve" /\ waited = 0
  /\ relay = "none" /\ failures = 0 /\ wakeup = FALSE /\ delay = RetryMin
  /\ useful = FALSE /\ built = 0 /\ last = Republish /\ forced = FALSE
  /\ seen = FALSE /\ link = FALSE
  /\ online \in BOOLEAN /\ liquid \in BOOLEAN /\ locked \in BOOLEAN
  /\ life = 0 /\ sound = FALSE /\ calm = 0 /\ claim = 0

-----------------------------------------------------------------------------
(* Time and history.                                                       *)

\* Going to an await, or to a statement, from the current one.
Goto(p) == pc' = p /\ waited' = 0

\* A step that takes no time: the claim ends when the state or the offer does.
NoTime ==
  /\ calm' = IF online' /\ liquid' /\ ~locked' THEN calm ELSE 0
  /\ claim' = IF AnnounceState' = "announcing" /\ life' = 0 THEN claim ELSE 0
SameOffer == UNCHANGED <<life, sound>>

\* How long the current await may still take.
Limit ==
  CASE pc = "unlock"  -> UnlockPoll
    [] pc = "connect" -> ConnectTime
    [] pc = "publish" -> PublishTime
    [] pc = "tick"    -> Poll
    [] pc = "close"   -> CloseTime
    [] pc = "backoff" -> IF useful THEN RetryMin ELSE delay
    [] OTHER          -> 0

Pass ==
  /\ waited < Limit
  /\ waited' = waited + 1
  /\ built' = Lesser(built + 1, Recycle)
  /\ last' = Lesser(last + 1, Republish)
  /\ life' = IF life = 0 THEN 0 ELSE life - 1
  /\ calm' = IF online /\ liquid /\ ~locked THEN Lesser(calm + 1, RecoveryBound) ELSE 0
  /\ claim' = IF AnnounceState = "announcing" /\ life' = 0
              THEN Lesser(claim + 1, ClaimBound + 1) ELSE 0
  /\ UNCHANGED <<pc, relay, failures, wakeup, delay, useful, forced, seen, envVars, sound>>

-----------------------------------------------------------------------------
(* _announce_loop and _serve_one_transport.                                *)

\* Building a transport.  The relays that answer its connection attempt are the
\* ones it keeps; the constructor may raise, and the finally clause then runs.
Build ==
  \/ /\ Goto("connect") /\ link' = online
     /\ UNCHANGED <<relay, useful, sound, life>>
  \/ /\ ~online    \* no network yet
     /\ Goto("backoff") /\ relay' = "no" /\ useful' = FALSE
     /\ UNCHANGED <<link, sound, life>>

Serve ==
  /\ pc = "serve"
  /\ IF ~HasKey
     THEN Goto("backoff") /\ useful' = FALSE /\ UNCHANGED <<relay, link, life, sound>>
     ELSE IF locked THEN Goto("unlock") /\ UNCHANGED <<relay, useful, link, life, sound>>
     ELSE Build
  /\ UNCHANGED <<failures, wakeup, delay, built, last, forced, seen, online, liquid, locked>>
  /\ NoTime

UnlockPolled ==
  /\ pc = "unlock" /\ waited = UnlockPoll
  /\ IF locked THEN Goto("unlock") /\ UNCHANGED <<relay, useful, link, life, sound>>
     ELSE Build
  /\ UNCHANGED <<failures, wakeup, delay, built, last, forced, seen, online, liquid, locked>>
  /\ NoTime

\* is_connected: the loop announces at once.
Connected ==
  /\ pc = "connect" /\ link
  /\ Goto("turn") /\ relay' = "yes"
  /\ built' = 0 /\ last' = Republish /\ useful' = FALSE /\ forced' = TRUE
  /\ seen' = liquid
  /\ SameOffer
  /\ UNCHANGED <<failures, wakeup, delay, envVars>>
  /\ NoTime

\* Mutant: no timeout, as in the loop this one replaces.
NoTimeout == pc = "connect" /\ ~link /\ waited > ConnectTime /\ UNCHANGED vars

\* Mutant: the failure to connect is not noted.
NoRelayUnnoted ==
  /\ pc = "connect" /\ ~link /\ waited = ConnectTime
  /\ Goto("backoff") /\ useful' = FALSE
  /\ SameOffer
  /\ UNCHANGED <<relay, failures, wakeup, delay, built, last, forced, seen, envVars>>
  /\ NoTime

\* No relay answered within the timeout.
NoRelay ==
  /\ pc = "connect" /\ ~link /\ waited = ConnectTime
  /\ Goto("close") /\ relay' = "no" /\ useful' = FALSE
  /\ SameOffer
  /\ UNCHANGED <<failures, wakeup, delay, built, last, forced, seen, envVars>>
  /\ NoTime

\* The transport is closed; the finally clause.
Closed ==
  /\ pc = "close"
  /\ Goto("backoff") /\ relay' = "no" /\ link' = FALSE
  /\ SameOffer
  /\ UNCHANGED <<failures, wakeup, delay, useful, built, last, forced, seen, online,
                 liquid, locked>>
  /\ NoTime

Retry ==
  /\ pc = "backoff" /\ waited = Limit
  /\ Goto("serve")
  /\ delay' = IF useful THEN RetryMin ELSE Lesser(delay * 2, RetryMax)
  /\ SameOffer
  /\ UNCHANGED <<relay, failures, wakeup, useful, built, last, forced, seen, envVars>>
  /\ NoTime

-----------------------------------------------------------------------------
(* _announce_until_recycle and _publish_once.                              *)

\* The end of a turn: the scheduled recycle, or the next tick.
EndTurn == IF built >= Recycle THEN Goto("close") ELSE Goto("tick")

\* Mutant: an unchanged offer is not sent again.
DueOnChange(changed) == forced \/ changed

Due(changed) == forced \/ changed \/ last >= Republish

\* A turn: the values are recomputed, and the offer sent when it is due and
\* there is liquidity.  Liquidity cannot come or go without changing them.
Turn ==
  /\ pc = "turn"
  /\ seen' = liquid
  /\ \E changed \in (IF liquid = seen THEN BOOLEAN ELSE {TRUE}) :
       IF Due(changed) /\ liquid
       THEN last' = 0 /\ Goto("publish")
       ELSE EndTurn /\ UNCHANGED last
  /\ SameOffer
  /\ UNCHANGED <<relay, failures, wakeup, delay, useful, built, forced, envVars>>
  /\ NoTime

\* A relay acknowledged the offer; its expiration was stamped when it was sent.
Acknowledged ==
  /\ pc = "publish" /\ link
  /\ failures' = 0 /\ useful' = TRUE
  /\ EndTurn
  /\ life' = Expiry - waited /\ sound' = (liquid /\ ~locked)
  /\ UNCHANGED <<relay, wakeup, delay, built, last, forced, seen, envVars>>
  /\ NoTime

\* Mutant: a transport that reaches nobody is kept until it is recycled.
UnacknowledgedKept ==
  /\ pc = "publish" /\ ~link
  /\ failures' = Lesser(failures + 1, MaxFailures)
  /\ EndTurn
  /\ SameOffer
  /\ UNCHANGED <<relay, wakeup, delay, useful, built, last, forced, seen, envVars>>
  /\ NoTime

Unacknowledged ==
  /\ pc = "publish" /\ ~link
  /\ failures' = Lesser(failures + 1, MaxFailures)
  /\ IF failures' >= MaxFailures THEN Goto("close") ELSE EndTurn
  /\ SameOffer
  /\ UNCHANGED <<relay, wakeup, delay, useful, built, last, forced, seen, envVars>>
  /\ NoTime

\* Mutant: a request that comes with the timeout is cleared unseen.
TickedForgets ==
  /\ pc = "tick" /\ (wakeup \/ waited = Poll)
  /\ Goto("turn")
  /\ forced' = (wakeup /\ waited < Poll) /\ wakeup' = FALSE
  /\ SameOffer
  /\ UNCHANGED <<relay, failures, delay, useful, built, last, seen, envVars>>
  /\ NoTime

\* _wait_for_tick: the timeout, or publish_now.
Ticked ==
  /\ pc = "tick" /\ (wakeup \/ waited = Poll)
  /\ Goto("turn")
  /\ forced' = wakeup /\ wakeup' = FALSE
  /\ SameOffer
  /\ UNCHANGED <<relay, failures, delay, useful, built, last, seen, envVars>>
  /\ NoTime

-----------------------------------------------------------------------------
(* The operator, the channels and the relays.                              *)

PublishNow ==
  /\ HasKey /\ wakeup' = TRUE
  /\ SameOffer
  /\ UNCHANGED <<pc, waited, relay, failures, delay, useful, built, last, forced, seen, envVars>>
  /\ NoTime

\* The relays go down and take the link with them, or come back (and the link
\* may then come back by itself, or not).
RelaysChange ==
  /\ online' = ~online
  /\ IF online THEN link' = FALSE ELSE link' \in {link, (pc \in {"publish", "tick"})}
  /\ sound' = FALSE /\ UNCHANGED <<liquid, locked>>

LiquidityChanges ==
  liquid' = ~liquid /\ sound' = FALSE /\ UNCHANGED <<link, online, locked>>

LockChanges ==
  locked' = ~locked /\ sound' = FALSE /\ UNCHANGED <<link, online, liquid>>

Surroundings ==
  /\ RelaysChange \/ LiquidityChanges \/ LockChanges
  /\ UNCHANGED <<pc, waited, loopVars, life>>
  /\ NoTime

-----------------------------------------------------------------------------
LoopStep ==
  \/ Serve \/ UnlockPolled \/ Connected \/ NoRelay \/ Closed \/ Retry
  \/ Turn \/ Acknowledged \/ Unacknowledged \/ Ticked

Next == Pass \/ LoopStep \/ PublishNow \/ Surroundings

\* Time passes and a step that is possible is taken in the end.
Fairness == WF_vars(Pass) /\ WF_vars(LoopStep)

Spec == Init /\ [][Next]_vars
FairSpec == Spec /\ Fairness

-----------------------------------------------------------------------------
(* Properties.                                                             *)

\* "Refreshing at half the window removes that gap entirely": the offer on the
\* relays is a lease that lapses only if, since it was last acknowledged, the
\* relays, the liquidity or the lock have interfered -- through scheduled
\* recycles of the transport as well.
Lease == INSTANCE OfferLease WITH Expiry <- Expiry, life <- life, sound <- sound
LeaseKept == Lease!Spec

\* Whatever happened before, once relays, liquidity and lock have stood still
\* for RecoveryBound there is an offer on the relays.
Recovers == calm >= RecoveryBound => life > 0

\* "The plugin says Announcing while nothing announces must not be reachable":
\* for longer than ClaimBound it is not.
AnnouncingIsBrief == claim <= ClaimBound

\* publish_now is never lost: a request made while the loop waits for its tick
\* is followed by a publish, if there is liquidity.
RequestHonoured == (pc = "tick" /\ wakeup) ~> (pc = "publish" \/ ~liquid)

\* "Never returns except by cancellation": the loop goes on trying, or polling
\* the lock.
KeepsTrying == []<>(pc \in Instant \cup {"unlock"})
=============================================================================
