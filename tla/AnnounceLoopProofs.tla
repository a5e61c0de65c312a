------------------------- MODULE AnnounceLoopProofs -------------------------
(***************************************************************************)
(* The announce loop implements the lease, for every choice of intervals   *)
(* that leaves the room RoomAssumption asks for; how long the tab may      *)
(* claim to announce when it does not; and how long the loop needs to      *)
(* have an offer on the relays again.                                      *)
(***************************************************************************)
EXTENDS AnnounceLoop, Integers, TLAPS

\* The part of the types the argument needs.
Numbers ==
  /\ pc \in Instant \cup Await /\ waited \in Nat /\ life \in 0 .. Expiry
  /\ last \in 0 .. Republish /\ built \in 0 .. Recycle /\ delay \in RetryMin .. RetryMax
Flags ==
  /\ useful \in BOOLEAN /\ forced \in BOOLEAN /\ sound \in BOOLEAN /\ link \in BOOLEAN
  /\ online \in BOOLEAN /\ liquid \in BOOLEAN /\ locked \in BOOLEAN /\ wakeup \in BOOLEAN
Types == Numbers /\ Flags

\* No await outlasts its bound, and a publish is as old as its attempt.
InTime ==
  /\ waited <= Limit
  /\ pc = "publish" => last = Lesser(waited, Republish)

\* The link of a transport in use is lost with the relays, and without a key no
\* transport is built at all.
LinkUp ==
  /\ link => online
  /\ pc \notin {"serve", "backoff"} => HasKey

\* While all is well, what the loop relies on...
Undisturbed ==
  sound =>
    /\ online /\ liquid /\ ~locked /\ HasKey /\ pc # "unlock"
    /\ pc \in {"connect", "turn", "publish", "tick"} => link
    /\ pc \in {"tick", "close", "backoff"} => useful
    /\ pc = "turn" => useful \/ forced

\* ... and how much of the offer's lifetime is left at each await.
Margin == Expiry - Republish + 1
Budget ==
  sound =>
    /\ pc \in {"tick", "turn"} /\ last < Republish => life + last >= Expiry
    /\ pc \in {"tick", "close"} => life + waited >= Margin
    /\ pc = "turn" => life > PublishTime
    /\ pc = "publish" => life + waited > PublishTime
    /\ pc = "backoff" => life + waited >= Margin - CloseTime
    /\ pc \in {"serve", "connect"} => life + waited >= Margin - CloseTime - RetryMin

IInv == Types /\ InTime /\ LinkUp /\ Undisturbed /\ Budget

\* What the assumptions say of the intervals, one by one.
LEMMA Times ==
  /\ Republish \in Nat \ {0} /\ Poll \in Nat \ {0} /\ Recycle \in Nat \ {0}
  /\ RetryMin \in Nat \ {0} /\ RetryMax \in Nat \ {0} /\ UnlockPoll \in Nat \ {0}
  /\ Expiry \in Nat \ {0} /\ ConnectTime \in Nat \ {0} /\ PublishTime \in Nat \ {0}
  /\ MaxFailures \in Nat \ {0} /\ CloseTime \in Nat /\ RetryMin <= RetryMax
  /\ PublishTime < Republish /\ Republish + Poll + PublishTime < Expiry
  /\ Republish + CloseTime + RetryMin + ConnectTime + PublishTime < Expiry
BY TimeAssumption, RoomAssumption

\* There is no offer at first, so nothing is promised of it.
LEMMA InitHolds == Init => IInv
<1> SUFFICES ASSUME Init PROVE IInv
  OBVIOUS
<1> USE Times DEF Init
<1>1. Types
  <2>1. Numbers
    BY DEF Numbers, Instant, Await
  <2>2. Flags
    BY DEF Flags
  <2>3. QED
    BY <2>1, <2>2 DEF Types
<1>2. InTime /\ LinkUp
  BY DEF InTime, LinkUp, Limit
<1>3. Undisturbed /\ Budget
  BY DEF Undisturbed, Budget
<1>4. QED
  BY <1>1, <1>2, <1>3 DEF IInv

\* Each step of the loop, of time and of the surroundings keeps the invariant.
LEMMA InvariantKept == IInv /\ [Next]_vars => IInv'
<1> SUFFICES ASSUME IInv, [Next]_vars PROVE IInv'
  OBVIOUS
<1>a. Types /\ InTime /\ LinkUp /\ Undisturbed /\ Budget
  BY DEF IInv
<1> USE Times, <1>a DEF Goto, SameOffer, loopVars, envVars
<1>1. CASE Pass
  <2>1. Types'
    <3>1. Numbers'
      BY <1>1 DEF Pass, Types, Numbers, Instant, Await, Lesser, Limit
    <3>2. Flags'
      BY <1>1 DEF Pass, Types, Flags
    <3>3. QED
      BY <3>1, <3>2 DEF Types
  <2>2. InTime'
    BY <1>1 DEF Pass, Types, Numbers, Flags, InTime, Lesser, Limit
  <2>3. LinkUp'
    BY <1>1 DEF Pass, LinkUp
  <2>4. Undisturbed'
    BY <1>1 DEF Pass, Types, Numbers, Flags, LinkUp, Undisturbed
  <2>5. Budget'
    BY <1>1 DEF Pass, Types, Numbers, Flags, InTime, Undisturbed, Budget, Margin, Lesser, Limit
  <2>6. QED
    BY <2>1, <2>2, <2>3, <2>4, <2>5 DEF IInv
<1>2. CASE Serve
  <2>1. Types'
    <3>1. Numbers'
      BY <1>2 DEF Serve, Build, Types, Numbers, Instant, Await, Lesser, Limit
    <3>2. Flags'
      BY <1>2 DEF Serve, Build, Types, Flags
    <3>3. QED
      BY <3>1, <3>2 DEF Types
  <2>2. InTime'
    BY <1>2 DEF Serve, Build, Types, Numbers, Flags, InTime, Lesser, Limit
  <2>3. LinkUp'
    BY <1>2 DEF Serve, Build, LinkUp
  <2>4. Undisturbed'
    BY <1>2 DEF Serve, Build, Types, Numbers, Flags, LinkUp, Undisturbed
  <2>5. Budget'
    <3>1. /\ pc = "serve" /\ waited = 0 /\ waited' = 0 /\ UNCHANGED life
          /\ sound' = sound
      BY <1>2 DEF Serve, Build, Types, Numbers, InTime, Limit
    <3>2. sound => pc' = "connect"
      BY <1>2 DEF Serve, Build, Undisturbed
    <3>3. QED
      BY <3>1, <3>2 DEF Types, Numbers, Budget
  <2>6. QED
    BY <2>1, <2>2, <2>3, <2>4, <2>5 DEF IInv
<1>3. CASE UnlockPolled
  <2>1. Types'
    <3>1. Numbers'
      BY <1>3 DEF UnlockPolled, Build, Types, Numbers, Instant, Await, Lesser, Limit
    <3>2. Flags'
      BY <1>3 DEF UnlockPolled, Build, Types, Flags
    <3>3. QED
      BY <3>1, <3>2 DEF Types
  <2>2. InTime'
    BY <1>3 DEF UnlockPolled, Build, Types, Numbers, Flags, InTime, Lesser, Limit
  <2>3. LinkUp'
    BY <1>3 DEF UnlockPolled, Build, LinkUp
  <2>4. Undisturbed'
    BY <1>3 DEF UnlockPolled, Build, Types, Numbers, Flags, LinkUp, Undisturbed
  <2>5. Budget'
    BY <1>3 DEF UnlockPolled, Build, Types, Numbers, Flags, InTime, Undisturbed, Budget, Margin, Lesser, Limit
  <2>6. QED
    BY <2>1, <2>2, <2>3, <2>4, <2>5 DEF IInv
<1>4. CASE Connected
  <2>1. Types'
    <3>1. Numbers'
      BY <1>4 DEF Connected, Types, Numbers, Instant, Await, Lesser, Limit
    <3>2. Flags'
      BY <1>4 DEF Connected, Types, Flags
    <3>3. QED
      BY <3>1, <3>2 DEF Types
  <2>2. InTime'
    BY <1>4 DEF Connected, Types, Numbers, Flags, InTime, Lesser, Limit
  <2>3. LinkUp'
    BY <1>4 DEF Connected, LinkUp
  <2>4. Undisturbed'
    BY <1>4 DEF Connected, Types, Numbers, Flags, LinkUp, Undisturbed
  <2>5. Budget'
    BY <1>4 DEF Connected, Types, Numbers, Flags, InTime, Undisturbed, Budget, Margin, Lesser, Limit
  <2>6. QED
    BY <2>1, <2>2, <2>3, <2>4, <2>5 DEF IInv
<1>5. CASE NoRelay
  <2>1. Types'
    <3>1. Numbers'
      BY <1>5 DEF NoRelay, Types, Numbers, Instant, Await, Lesser, Limit
    <3>2. Flags'
      BY <1>5 DEF NoRelay, Types, Flags
    <3>3. QED
      BY <3>1, <3>2 DEF Types
  <2>2. InTime'
    BY <1>5 DEF NoRelay, Types, Numbers, Flags, InTime, Lesser, Limit
  <2>3. LinkUp'
    BY <1>5 DEF NoRelay, LinkUp
  <2>4. Undisturbed'
    BY <1>5 DEF NoRelay, Types, Numbers, Flags, LinkUp, Undisturbed
  <2>5. Budget'
    BY <1>5 DEF NoRelay, Types, Numbers, Flags, InTime, Undisturbed, Budget, Margin, Lesser, Limit
  <2>6. QED
    BY <2>1, <2>2, <2>3, <2>4, <2>5 DEF IInv
<1>6. CASE Closed
  <2>1. Types'
    <3>1. Numbers'
      BY <1>6 DEF Closed, Types, Numbers, Instant, Await, Lesser, Limit
    <3>2. Flags'
      BY <1>6 DEF Closed, Types, Flags
    <3>3. QED
      BY <3>1, <3>2 DEF Types
  <2>2. InTime'
    BY <1>6 DEF Closed, Types, Numbers, Flags, InTime, Lesser, Limit
  <2>3. LinkUp'
    BY <1>6 DEF Closed, LinkUp
  <2>4. Undisturbed'
    BY <1>6 DEF Closed, Types, Numbers, Flags, LinkUp, Undisturbed
  <2>5. Budget'
    BY <1>6 DEF Closed, Types, Numbers, Flags, InTime, Undisturbed, Budget, Margin, Lesser, Limit
  <2>6. QED
    BY <2>1, <2>2, <2>3, <2>4, <2>5 DEF IInv
<1>7. CASE Retry
  <2>1. Types'
    <3>1. Numbers'
      BY <1>7 DEF Retry, Types, Numbers, Instant, Await, Lesser, Limit
    <3>2. Flags'
      BY <1>7 DEF Retry, Types, Flags
    <3>3. QED
      BY <3>1, <3>2 DEF Types
  <2>2. InTime'
    BY <1>7 DEF Retry, Types, Numbers, Flags, InTime, Lesser, Limit
  <2>3. LinkUp'
    BY <1>7 DEF Retry, LinkUp
  <2>4. Undisturbed'
    BY <1>7 DEF Retry, Types, Numbers, Flags, LinkUp, Undisturbed
  <2>5. Budget'
    BY <1>7 DEF Retry, Types, Numbers, Flags, InTime, Undisturbed, Budget, Margin, Lesser, Limit
  <2>6. QED
    BY <2>1, <2>2, <2>3, <2>4, <2>5 DEF IInv
<1>8. CASE Turn
  <2>1. Types'
    <3>1. Numbers'
      BY <1>8 DEF Turn, EndTurn, Due, Types, Numbers, Instant, Await, Lesser, Limit
    <3>2. Flags'
      BY <1>8 DEF Turn, EndTurn, Due, Types, Flags
    <3>3. QED
      BY <3>1, <3>2 DEF Types
  <2>2. InTime'
    BY <1>8 DEF Turn, EndTurn, Due, Types, Numbers, Flags, InTime, Lesser, Limit
  <2>3. LinkUp'
    BY <1>8 DEF Turn, EndTurn, Due, LinkUp
  <2>4. Undisturbed'
    BY <1>8 DEF Turn, EndTurn, Due, Types, Numbers, Flags, LinkUp, Undisturbed
  <2>5. Budget'
    BY <1>8 DEF Turn, EndTurn, Due, Types, Numbers, Flags, InTime, Undisturbed, Budget, Margin, Lesser, Limit
  <2>6. QED
    BY <2>1, <2>2, <2>3, <2>4, <2>5 DEF IInv
<1>9. CASE Acknowledged
  <2>0. /\ waited <= PublishTime /\ last = waited /\ pc = "publish" /\ link
        /\ pc' \in {"tick", "close"} /\ waited' = 0 /\ useful' = TRUE
        /\ life' = Expiry - waited /\ sound' = (liquid /\ ~locked)
        /\ UNCHANGED <<last, built, delay, forced, link, online, liquid, locked, wakeup>>
    BY <1>9 DEF Acknowledged, EndTurn, Types, Numbers, InTime, Lesser, Limit
  <2>1. Types'
    <3>1. Numbers'
      BY <2>0 DEF Types, Numbers, Instant, Await
    <3>2. Flags'
      BY <2>0 DEF Types, Flags
    <3>3. QED
      BY <3>1, <3>2 DEF Types
  <2>2. InTime'
    BY <2>0, <2>1 DEF Types, Numbers, InTime, Lesser, Limit
  <2>3. LinkUp'
    BY <2>0 DEF LinkUp
  <2>4. Undisturbed'
    BY <2>0 DEF LinkUp, Undisturbed
  <2>5. Budget'
    BY <2>0 DEF Types, Numbers, Budget, Margin
  <2>6. QED
    BY <2>1, <2>2, <2>3, <2>4, <2>5 DEF IInv
<1>10. CASE Unacknowledged
  <2>1. Types'
    <3>1. Numbers'
      BY <1>10 DEF Unacknowledged, EndTurn, Types, Numbers, Instant, Await, Lesser, Limit
    <3>2. Flags'
      BY <1>10 DEF Unacknowledged, EndTurn, Types, Flags
    <3>3. QED
      BY <3>1, <3>2 DEF Types
  <2>2. InTime'
    BY <1>10 DEF Unacknowledged, EndTurn, Types, Numbers, Flags, InTime, Lesser, Limit
  <2>3. LinkUp'
    BY <1>10 DEF Unacknowledged, EndTurn, LinkUp
  <2>4. Undisturbed'
    BY <1>10 DEF Unacknowledged, EndTurn, Types, Numbers, Flags, LinkUp, Undisturbed
  <2>5. Budget'
    BY <1>10 DEF Unacknowledged, EndTurn, Types, Numbers, Flags, InTime, Undisturbed, Budget, Margin, Lesser, Limit
  <2>6. QED
    BY <2>1, <2>2, <2>3, <2>4, <2>5 DEF IInv
<1>11. CASE Ticked
  <2>1. Types'
    <3>1. Numbers'
      BY <1>11 DEF Ticked, Types, Numbers, Instant, Await, Lesser, Limit
    <3>2. Flags'
      BY <1>11 DEF Ticked, Types, Flags
    <3>3. QED
      BY <3>1, <3>2 DEF Types
  <2>2. InTime'
    BY <1>11 DEF Ticked, Types, Numbers, Flags, InTime, Lesser, Limit
  <2>3. LinkUp'
    BY <1>11 DEF Ticked, LinkUp
  <2>4. Undisturbed'
    BY <1>11 DEF Ticked, Types, Numbers, Flags, LinkUp, Undisturbed
  <2>5. Budget'
    BY <1>11 DEF Ticked, Types, Numbers, Flags, InTime, Undisturbed, Budget, Margin, Lesser, Limit
  <2>6. QED
    BY <2>1, <2>2, <2>3, <2>4, <2>5 DEF IInv
<1>12. CASE PublishNow
  <2>1. Types'
    <3>1. Numbers'
      BY <1>12 DEF PublishNow, Types, Numbers, Instant, Await, Lesser, Limit
    <3>2. Flags'
      BY <1>12 DEF PublishNow, Types, Flags
    <3>3. QED
      BY <3>1, <3>2 DEF Types
  <2>2. InTime'
    BY <1>12 DEF PublishNow, Types, Numbers, Flags, InTime, Lesser, Limit
  <2>3. LinkUp'
    BY <1>12 DEF PublishNow, LinkUp
  <2>4. Undisturbed'
    BY <1>12 DEF PublishNow, Types, Numbers, Flags, LinkUp, Undisturbed
  <2>5. Budget'
    BY <1>12 DEF PublishNow, Types, Numbers, Flags, InTime, Undisturbed, Budget, Margin, Lesser, Limit
  <2>6. QED
    BY <2>1, <2>2, <2>3, <2>4, <2>5 DEF IInv
<1>13. CASE Surroundings
  <2>0. UNCHANGED <<pc, waited, loopVars, life>> /\ (sound' = FALSE)
    BY <1>13 DEF Surroundings, RelaysChange, LiquidityChanges, LockChanges
  <2>1. Types' /\ LinkUp'
    <3>1. Numbers'
      BY <2>0 DEF Types, Numbers
    <3>2. CASE RelaysChange
      <4>1. online' \in BOOLEAN /\ (online \/ online') /\ UNCHANGED <<liquid, locked>>
        BY <3>2 DEF RelaysChange, Types, Flags
      <4>2. CASE online
        <5>1. link' = FALSE
          BY <3>2, <4>2 DEF RelaysChange
        <5>2. QED
          BY <5>1, <4>1, <4>2, <2>0, <3>1 DEF LinkUp, Types, Flags
      <4>3. CASE ~online
        <5>1. (pc \in {"publish", "tick"}) \in BOOLEAN
          OBVIOUS
        <5>2. \A b \in BOOLEAN : link' \in {link, b} => link' \in BOOLEAN
          BY DEF Types, Flags
        <5>3. link' \in BOOLEAN
          BY <3>2, <4>3, <5>1, <5>2, Zenon DEF RelaysChange
        <5>4. QED
          BY <5>3, <4>1, <4>3, <2>0, <3>1 DEF LinkUp, Types, Flags
      <4>4. QED
        BY <4>2, <4>3
    <3>3. CASE LiquidityChanges \/ LockChanges
      <4>1. liquid' \in BOOLEAN /\ locked' \in BOOLEAN /\ UNCHANGED <<link, online>>
        BY <3>3 DEF LiquidityChanges, LockChanges, Types, Flags
      <4>2. QED
        BY <2>0, <3>1, <4>1 DEF LinkUp, Types, Flags
    <3>4. QED
      BY <1>13, <3>2, <3>3 DEF Surroundings
  <2>2. InTime'
    BY <2>0 DEF InTime, Limit
  <2>3. Undisturbed' /\ Budget'
    BY <2>0 DEF Undisturbed, Budget
  <2>4. QED
    BY <2>1, <2>2, <2>3 DEF IInv
<1>14. CASE UNCHANGED vars
  <2>1. Types'
    <3>1. Numbers'
      BY <1>14 DEF vars, Types, Numbers, Instant, Await, Lesser, Limit
    <3>2. Flags'
      BY <1>14 DEF vars, Types, Flags
    <3>3. QED
      BY <3>1, <3>2 DEF Types
  <2>2. InTime'
    BY <1>14 DEF vars, Types, Numbers, Flags, InTime, Lesser, Limit
  <2>3. LinkUp'
    BY <1>14 DEF vars, LinkUp
  <2>4. Undisturbed'
    BY <1>14 DEF vars, Types, Numbers, Flags, LinkUp, Undisturbed
  <2>5. Budget'
    BY <1>14 DEF vars, Types, Numbers, Flags, InTime, Undisturbed, Budget, Margin, Lesser, Limit
  <2>6. QED
    BY <2>1, <2>2, <2>3, <2>4, <2>5 DEF IInv
<1>15. QED
  BY <1>1, <1>2, <1>3, <1>4, <1>5, <1>6, <1>7, <1>8, <1>9, <1>10, <1>11, <1>12, <1>13,
     <1>14 DEF Next, LoopStep

\* The budget of the offer's lifetime holds at every await of the loop.
THEOREM Invariance == Spec => []IInv
BY InitHolds, InvariantKept, PTL DEF Spec

\* Every step is a renewal, a moment in which the lease does not run out while
\* all is well, trouble, or nothing to the lease.
LEMMA StepSimulation ==
  IInv /\ [Next]_vars => [Lease!Renew \/ Lease!Pass \/ Lease!Trouble]_<<life, sound>>
<1> SUFFICES ASSUME IInv, [Next]_vars,
                    ~UNCHANGED <<life, sound>>
             PROVE  Lease!Renew \/ Lease!Pass \/ Lease!Trouble
  OBVIOUS
<1>a. Types /\ InTime /\ LinkUp /\ Undisturbed /\ Budget
  BY DEF IInv
<1> USE Times, <1>a
<1>1. CASE Pass
  <2>1. life > 0 /\ life' = life - 1 /\ UNCHANGED sound
    BY <1>1 DEF Pass, Types, Numbers
  <2>2. life' = 0 => ~sound
    <3>1. SUFFICES ASSUME sound PROVE life > 1
      BY <2>1 DEF Types, Numbers
    <3>2. waited < Limit
      BY <1>1 DEF Pass
    <3>3. QED
      BY <3>1, <3>2 DEF Types, Numbers, Undisturbed, Budget, Margin, Limit, Instant, Await
  <2>3. QED
    BY <2>1, <2>2 DEF Lease!Pass
<1>2. CASE Acknowledged
  <2>1. waited <= PublishTime
    BY <1>2 DEF Acknowledged, InTime, Limit
  <2>2. life' \in 1 .. Expiry
    BY <1>2, <2>1 DEF Acknowledged, Types, Numbers
  <2>3. sound' \in BOOLEAN
    BY <1>2 DEF Acknowledged
  <2>4. QED
    BY <2>2, <2>3 DEF Lease!Renew
<1>3. CASE Surroundings
  BY <1>3 DEF Surroundings, RelaysChange, LiquidityChanges, LockChanges, Lease!Trouble
<1>4. CASE \/ Serve \/ UnlockPolled \/ Connected \/ NoRelay \/ Closed \/ Retry \/ Turn
           \/ Unacknowledged \/ Ticked \/ PublishNow \/ UNCHANGED vars
  BY <1>4 DEF Serve, UnlockPolled, Build, Connected, NoRelay, Closed, Retry, Turn,
     Unacknowledged, Ticked, PublishNow, SameOffer, vars
<1>5. QED
  BY <1>1, <1>2, <1>3, <1>4 DEF Next, LoopStep

\* The announce loop keeps its promise: for every choice of the intervals that
\* leaves room for a tick or a scheduled recycle inside an offer's lifetime, the
\* offer on the relays lapses only if the relays, the liquidity or the lock have
\* interfered since it was last acknowledged.
THEOREM LeaseImplemented == Spec => LeaseKept
<1>1. Init => Lease!Init
  BY DEF Init, Lease!Init
<1>2. QED
  BY <1>1, Invariance, StepSimulation, PTL DEF Spec, LeaseKept, Lease!Spec

-----------------------------------------------------------------------------
(* How long the tab claims to announce.                                    *)

\* A pass at the announcing goes through a poll of the lock and a connection
\* attempt, or a poll of the liquidity; then comes the publish.
BeforePublish == Greater(UnlockPoll + ConnectTime, Poll)

\* How long the claim may have stood at each await.  The transport in use has
\* tried to publish within the republishing interval; if that failed it shows,
\* and if it did not the offer is there.
ClaimBudget ==
  /\ claim \in Nat /\ failures \in Nat
  /\ pc \in {"serve", "backoff"} => claim = 0
  /\ pc = "backoff" => relay = "no"
  /\ pc \in {"unlock", "tick", "close"} => claim <= waited
  /\ pc = "connect" => claim <= UnlockPoll + waited
  /\ pc = "turn" => claim <= BeforePublish
  /\ pc = "publish" => claim <= BeforePublish + waited
  /\ pc \in {"tick", "turn"} /\ last < Republish => failures > 0 \/ life + last >= Expiry

\* A step that takes no time never lengthens a claim, and ends it unless the
\* state shown is "announcing" and there is no offer.
LEMMA ClaimOnlyEnds ==
  ASSUME NoTime, claim \in Nat
  PROVE  /\ claim' \in Nat /\ claim' <= claim
         /\ claim' > 0 => liquid' /\ ~locked' /\ relay' # "no" /\ ~(failures' > 0) /\ life' = 0
BY DEF NoTime, AnnounceState

\* Nothing is claimed at first.
LEMMA ClaimInit == Init => ClaimBudget
BY Times DEF Init, ClaimBudget

\* With a key to announce with, each step keeps the claim within the budget.
LEMMA ClaimKept ==
  ASSUME HasKey, IInv, ClaimBudget, [Next]_vars
  PROVE  ClaimBudget'
<1>a. Types /\ InTime /\ LinkUp
  BY DEF IInv
<1> USE Times, <1>a, HasKey DEF Goto, SameOffer, loopVars, envVars
<1>b. BeforePublish \in Nat /\ UnlockPoll + ConnectTime <= BeforePublish /\ Poll <= BeforePublish
  BY DEF BeforePublish, Greater
<1>1. CASE Pass
  <2>1. waited < Limit /\ UNCHANGED <<pc, relay, failures>> /\ claim' \in Nat /\ claim' <= claim + 1
    BY <1>1 DEF Pass, ClaimBudget, Lesser, ClaimBound, Greater
  <2>2. pc = "backoff" => claim' = 0
    BY <1>1 DEF Pass, ClaimBudget, AnnounceState
  <2>3. pc \in {"tick", "turn"} /\ last' < Republish => failures > 0 \/ life' + last' >= Expiry
    BY <1>1 DEF Pass, ClaimBudget, Lesser, Types, Numbers
  <2>4. pc \notin Instant /\ waited' = waited + 1 /\ waited \in Nat
    BY <1>1, <2>1 DEF Pass, Limit, Types, Numbers, Instant
  <2>5. QED
    BY <1>b, <2>1, <2>2, <2>3, <2>4 DEF ClaimBudget, Instant
<1>2. CASE Serve
  <2>1. NoTime
    BY <1>2 DEF Serve
  <2>2. QED
    BY <1>b, <1>2, <2>1, ClaimOnlyEnds DEF Serve, Build, ClaimBudget, InTime, Limit, Types, Numbers
<1>3. CASE UnlockPolled
  <2>1. NoTime
    BY <1>3 DEF UnlockPolled
  <2>2. QED
    BY <1>b, <1>3, <2>1, ClaimOnlyEnds DEF UnlockPolled, Build, ClaimBudget, InTime, Limit, Types, Numbers
<1>4. CASE Connected
  <2>1. NoTime
    BY <1>4 DEF Connected
  <2>2. QED
    BY <1>b, <1>4, <2>1, ClaimOnlyEnds DEF Connected, ClaimBudget, InTime, Limit, Types, Numbers
<1>5. CASE NoRelay
  <2>1. NoTime
    BY <1>5 DEF NoRelay
  <2>2. QED
    BY <1>b, <1>5, <2>1, ClaimOnlyEnds DEF NoRelay, ClaimBudget, InTime, Limit, Types, Numbers
<1>6. CASE Closed
  <2>1. NoTime
    BY <1>6 DEF Closed
  <2>2. QED
    BY <1>b, <1>6, <2>1, ClaimOnlyEnds DEF Closed, ClaimBudget, InTime, Limit, Types, Numbers
<1>7. CASE Retry
  <2>1. NoTime
    BY <1>7 DEF Retry
  <2>2. QED
    BY <1>b, <1>7, <2>1, ClaimOnlyEnds DEF Retry, ClaimBudget, InTime, Limit, Types, Numbers
<1>8. CASE Turn
  <2>1. NoTime
    BY <1>8 DEF Turn
  <2>2. QED
    BY <1>b, <1>8, <2>1, ClaimOnlyEnds DEF Turn, Due, EndTurn, ClaimBudget, InTime, Limit, Types, Numbers
<1>9. CASE Acknowledged
  <2>1. NoTime
    BY <1>9 DEF Acknowledged
  <2>2. QED
    BY <1>b, <1>9, <2>1, ClaimOnlyEnds DEF Acknowledged, EndTurn, Lesser, ClaimBudget, InTime, Limit, Types, Numbers
<1>10. CASE Unacknowledged
  <2>1. NoTime
    BY <1>10 DEF Unacknowledged
  <2>2. QED
    <3>1. failures' \in Nat /\ failures' > 0 /\ pc' \in {"close", "tick"} /\ waited' = 0
      BY <1>10 DEF Unacknowledged, EndTurn, Lesser, ClaimBudget
    <3>2. claim' = 0
      BY <2>1, <3>1, ClaimOnlyEnds DEF ClaimBudget
    <3>3. QED
      BY <3>1, <3>2 DEF ClaimBudget
<1>11. CASE Ticked
  <2>1. NoTime
    BY <1>11 DEF Ticked
  <2>2. QED
    BY <1>b, <1>11, <2>1, ClaimOnlyEnds DEF Ticked, ClaimBudget, InTime, Limit, Types, Numbers
<1>12. CASE PublishNow
  <2>1. NoTime
    BY <1>12 DEF PublishNow
  <2>2. QED
    BY <1>b, <1>12, <2>1, ClaimOnlyEnds DEF PublishNow, ClaimBudget, InTime, Limit, Types, Numbers
<1>13. CASE Surroundings
  <2>1. NoTime
    BY <1>13 DEF Surroundings
  <2>2. UNCHANGED <<pc, waited, relay, failures, last, life>>
    BY <1>13 DEF Surroundings
  <2>3. claim' \in Nat /\ claim' <= claim
    BY <2>1, ClaimOnlyEnds DEF ClaimBudget
  <2>4. QED
    BY <2>2, <2>3, <1>b DEF ClaimBudget, Types, Numbers
<1>14. CASE UNCHANGED vars
  BY <1>14 DEF vars, ClaimBudget
<1>15. QED
  BY <1>1, <1>2, <1>3, <1>4, <1>5, <1>6, <1>7, <1>8, <1>9, <1>10, <1>11, <1>12, <1>13,
     <1>14 DEF Next, LoopStep

\* "The plugin says Announcing while nothing announces must not be reachable":
\* with a nostr key, and a transport that closes no slower than that, the tab
\* shows "announcing" without an offer on the relays for no longer than a poll
\* and a connection attempt take, and a publish.
THEOREM ClaimBounded ==
  ASSUME HasKey, CloseTime <= ClaimBound
  PROVE  Spec => []AnnouncingIsBrief
<1>1. Init => ClaimBudget
  BY ClaimInit
<1>2. IInv /\ ClaimBudget /\ [Next]_vars => ClaimBudget'
  BY ClaimKept
<1>3. IInv /\ ClaimBudget => AnnouncingIsBrief
  BY Times DEF IInv, Types, Numbers, InTime, Limit, ClaimBudget, ClaimBound, BeforePublish,
     Greater, AnnouncingIsBrief, Instant, Await
<1>4. QED
  BY <1>1, <1>2, <1>3, Invariance, PTL DEF Spec

-----------------------------------------------------------------------------
(* How long the loop needs to have an offer on the relays.                 *)

\* From a publish that fails on, while it is not the one that condemns the
\* transport: the publishes to follow, each a round after the other.
Round == Republish + Poll
Rounds(f) == IF f < MaxFailures THEN (MaxFailures - 1 - f) * Round ELSE 0

\* The backoff ahead, a connection and a publish, and what it takes to get there
\* through the failure of a publish and the closing of its transport.
Pause == IF useful THEN RetryMin ELSE delay
Anew  == Pause + ConnectTime + PublishTime
Renewal == Rounds(failures) + PublishTime + CloseTime + Anew

\* How long it may still take, at each await, to an acknowledged offer.
Left ==
  CASE pc = "serve"   -> ConnectTime + PublishTime
    [] pc = "unlock"  -> UnlockPoll - waited + ConnectTime + PublishTime
    [] pc = "backoff" -> Anew - waited
    [] pc = "close"   -> CloseTime - waited + Anew
    [] pc = "connect" -> IF link THEN ConnectTime - waited + PublishTime
                         ELSE 2 * ConnectTime - waited + CloseTime + delay + PublishTime
    [] pc = "publish" -> (IF link THEN PublishTime ELSE Renewal) - waited
    [] pc \in {"tick", "turn"} ->
         IF last < Republish THEN Round - 1 - last + Renewal
         ELSE (IF pc = "tick" THEN Poll - waited ELSE 0) + (IF link THEN PublishTime ELSE Renewal)

\* A transport in use has published, or failed to, when its offer is not due; and
\* a calm is one of the relays, the liquidity and the lock.
RecoveryShape ==
  /\ failures \in 0 .. MaxFailures
  /\ pc \in {"tick", "turn"} /\ last < Republish =>
       failures < MaxFailures /\ (useful \/ failures > 0)
  /\ calm \in Nat /\ (calm > 0 => online /\ liquid /\ ~locked)

\* Until the offer is acknowledged, what is left fits into the bound.
RecoveryBudget == RecoveryShape /\ (sound \/ calm + Left < RecoveryBound)

\* A long backoff takes no longer than a round and a short one, a connection no
\* longer than a poll and a publish, and a poll of the lock than a republish.
Paced ==
  /\ RetryMax < Republish + RetryMin /\ ConnectTime <= Poll + PublishTime
  /\ UnlockPoll <= Republish

\* The publishes still to fail: one round less with each, and all of them at most.
LEMMA RoundsLeft ==
  ASSUME NEW f \in 0 .. MaxFailures
  PROVE  /\ Rounds(f) \in Nat /\ Rounds(f) <= (MaxFailures - 1) * Round
         /\ f + 1 < MaxFailures => Rounds(f) = Rounds(f + 1) + Round
         /\ 0 < f /\ f < MaxFailures => Rounds(f) + Round <= (MaxFailures - 1) * Round
<1> USE Times
<1>1. Round \in Nat \ {0}
  BY DEF Round
<1>2. \A k \in Nat : k * Round \in Nat
  BY <1>1
<1>3. \A k, l \in Nat : k <= l => k * Round <= l * Round
  BY <1>1
<1>4. \A k \in Nat : (k + 1) * Round = k * Round + Round
  BY <1>1
<1>5. CASE f >= MaxFailures
  BY <1>2, <1>5 DEF Rounds
<1>6. CASE f < MaxFailures
  <2>1. MaxFailures - 1 - f \in Nat /\ MaxFailures - 1 \in Nat /\ MaxFailures - 1 - f <= MaxFailures - 1
    BY <1>6
  <2>2. Rounds(f) \in Nat /\ Rounds(f) <= (MaxFailures - 1) * Round
    BY <2>1, <1>2, <1>3, <1>6 DEF Rounds
  <2>3. ASSUME f + 1 < MaxFailures PROVE Rounds(f) = Rounds(f + 1) + Round
    <3>1. MaxFailures - 1 - (f + 1) \in Nat /\ MaxFailures - 1 - (f + 1) + 1 = MaxFailures - 1 - f
      BY <2>3
    <3>2. QED
      BY <3>1, <2>3, <1>4, <1>6 DEF Rounds
  <2>4. ASSUME 0 < f PROVE Rounds(f) + Round <= (MaxFailures - 1) * Round
    <3>1. MaxFailures - 1 - f + 1 \in Nat /\ MaxFailures - 1 - f + 1 <= MaxFailures - 1
      BY <2>1, <2>4
    <3>2. QED
      BY <3>1, <2>1, <1>3, <1>4, <1>6 DEF Rounds
  <2>5. QED
    BY <2>2, <2>3, <2>4, <1>6
<1>7. QED
  BY <1>5, <1>6

\* Wherever the loop is when a calm begins, what is left fits into the bound.
LEMMA LeftFits ==
  ASSUME Paced
  PROVE  IInv /\ RecoveryShape => Left \in Int /\ Left < RecoveryBound
<1> SUFFICES ASSUME IInv, RecoveryShape PROVE Left \in Int /\ Left < RecoveryBound
  OBVIOUS
<1> DEFINE Q == (MaxFailures - 1) * Round
<1>a. Types /\ InTime
  BY DEF IInv
<1>b. Rounds(failures) \in Nat /\ Rounds(failures) <= Q /\ Q \in Int
  BY RoundsLeft, Times DEF RecoveryShape, Round
<1>c. 0 < failures /\ failures < MaxFailures => Rounds(failures) + Round <= Q
  BY RoundsLeft DEF RecoveryShape
<1>d. RecoveryBound = Q + Round + RetryMin + PublishTime + CloseTime + ConnectTime + PublishTime
  BY Times DEF Paced, RecoveryBound, Greater, Round
<1>e. delay \in RetryMin .. RetryMax /\ Pause \in Nat /\ Pause <= RetryMax /\ (useful => Pause = RetryMin)
  BY <1>a, Times DEF Types, Numbers, Pause
<1>f. waited \in Nat /\ last \in Nat /\ last <= Republish /\ failures \in Nat
  BY <1>a, Times DEF Types, Numbers, RecoveryShape
<1> HIDE DEF Q
<1> USE Times, <1>b, <1>d, <1>e, <1>f DEF Paced, Round
<1>1. CASE pc \in {"serve", "unlock", "backoff", "close", "connect"}
  BY <1>1 DEF Left, Anew
<1>2. CASE pc = "publish"
  BY <1>2 DEF Left, Renewal, Anew
<1>3. CASE pc \in {"tick", "turn"} /\ last < Republish
  BY <1>3, <1>c DEF Left, Renewal, Anew, RecoveryShape
<1>4. CASE pc \in {"tick", "turn"} /\ ~(last < Republish)
  BY <1>4 DEF Left, Renewal, Anew
<1>5. QED
  BY <1>a, <1>1, <1>2, <1>3, <1>4 DEF Types, Numbers, Instant, Await

\* The same of the next state.
LEMMA LeftFitsNext ==
  ASSUME Paced
  PROVE  IInv' /\ RecoveryShape' => Left' \in Int /\ Left' < RecoveryBound
<1>1. IInv /\ RecoveryShape => Left \in Int /\ Left < RecoveryBound
  BY LeftFits
<1>2. (IInv /\ RecoveryShape => Left \in Int /\ Left < RecoveryBound)'
  BY <1>1, PTL
<1>3. QED
  BY <1>2 DEF RecoveryBound, Greater

\* The bound is a number.
LEMMA BoundIsNat == RecoveryBound \in Nat
<1>1. (MaxFailures - 1) * (Republish + Poll) \in Nat
  <2>1. MaxFailures - 1 \in Nat /\ Republish + Poll \in Nat
    BY Times
  <2>2. QED
    BY <2>1
<1>2. QED
  BY <1>1, Times DEF RecoveryBound, Greater

\* No calm at first.
LEMMA RecoveryInit == Paced /\ Init => RecoveryBudget
<1> SUFFICES ASSUME Paced, Init PROVE RecoveryBudget
  OBVIOUS
<1>1. RecoveryShape /\ calm = 0
  BY Times DEF Init, RecoveryShape
<1>2. Left \in Int /\ Left < RecoveryBound
  BY <1>1, InitHolds, LeftFits
<1>3. QED
  BY <1>1, <1>2 DEF RecoveryBudget

\* A step of the loop or of the operator keeps the shape: a calm ends when the
\* relays, the liquidity or the lock do, and a publish leaves its mark.
LEMMA ShapeKept == IInv /\ RecoveryShape /\ [Next]_vars => RecoveryShape'
<1> SUFFICES ASSUME IInv, RecoveryShape, [Next]_vars PROVE RecoveryShape'
  OBVIOUS
<1>a. Types /\ InTime
  BY DEF IInv
<1> USE Times, <1>a DEF Goto, SameOffer, loopVars, envVars
<1>b. calm' \in Nat /\ (calm' > 0 => online' /\ liquid' /\ ~locked')
  <2>1. CASE NoTime
    BY <2>1 DEF NoTime, RecoveryShape
  <2>2. CASE Pass
    <3>1. Lesser(calm + 1, RecoveryBound) \in Nat
      BY BoundIsNat DEF RecoveryShape, Lesser
    <3>2. QED
      BY <2>2, <3>1 DEF Pass, RecoveryShape, envVars
  <2>3. CASE UNCHANGED vars
    BY <2>3 DEF vars, RecoveryShape
  <2>4. QED
    BY <2>1, <2>2, <2>3 DEF Next, LoopStep, Serve, UnlockPolled, Connected, NoRelay, Closed, Retry, Turn,
       Acknowledged, Unacknowledged, Ticked, PublishNow, Surroundings
<1>1. CASE Serve \/ UnlockPolled \/ Connected \/ NoRelay \/ Closed \/ Retry
  BY <1>b, <1>1 DEF Serve, UnlockPolled, Build, Connected, NoRelay, Closed, Retry, RecoveryShape
<1>2. CASE Turn \/ Ticked
  BY <1>b, <1>2 DEF Turn, Due, EndTurn, Ticked, RecoveryShape
<1>3. CASE Acknowledged
  BY <1>b, <1>3 DEF Acknowledged, EndTurn, RecoveryShape
<1>4. CASE Unacknowledged
  BY <1>b, <1>4 DEF Unacknowledged, EndTurn, Lesser, RecoveryShape
<1>5. CASE Pass
  BY <1>b, <1>5 DEF Pass, Lesser, RecoveryShape, Types, Numbers
<1>6. CASE PublishNow \/ Surroundings
  BY <1>b, <1>6 DEF PublishNow, Surroundings, RecoveryShape
<1>7. CASE UNCHANGED vars
  BY <1>b, <1>7 DEF vars, RecoveryShape
<1>8. QED
  BY <1>1, <1>2, <1>3, <1>4, <1>5, <1>6, <1>7 DEF Next, LoopStep

\* In a calm, every step of the loop that takes no time leaves no more to do, or
\* ends in an acknowledged offer.
LEMMA StepsProgress ==
  ASSUME HasKey, Paced, IInv, RecoveryShape, LoopStep \/ PublishNow, calm > 0, ~sound, ~sound'
  PROVE  Left' <= Left
<1>a. Types /\ InTime /\ LinkUp
  BY DEF IInv
<1>b. online /\ liquid /\ ~locked
  BY DEF RecoveryShape
<1>c. waited \in Nat /\ last \in Nat /\ last <= Republish /\ delay \in Nat /\ delay >= RetryMin
      /\ Pause \in Nat /\ Rounds(failures) \in Nat
  BY <1>a, Times, RoundsLeft DEF Types, Numbers, Pause, RecoveryShape
<1> USE Times, <1>a, <1>b, <1>c, HasKey DEF Goto, SameOffer, loopVars, envVars
<1>1. CASE Serve
  <2>1. pc = "serve" /\ pc' = "connect" /\ link' /\ waited' = 0
    BY <1>1 DEF Serve, Build
  <2>2. QED
    BY <2>1 DEF Left
<1>2. CASE UnlockPolled
  <2>1. pc = "unlock" /\ waited = UnlockPoll /\ pc' = "connect" /\ link' /\ waited' = 0
    BY <1>2 DEF UnlockPolled, Build
  <2>2. QED
    BY <2>1 DEF Left
<1>3. CASE Connected
  <2>1. pc = "connect" /\ link /\ link' /\ pc' = "turn" /\ last' = Republish /\ waited <= ConnectTime
    BY <1>3 DEF Connected, InTime, Limit
  <2>2. QED
    BY <2>1 DEF Left
<1>4. CASE NoRelay
  <2>1. pc = "connect" /\ ~link /\ waited = ConnectTime /\ pc' = "close" /\ waited' = 0
        /\ Pause' = delay
    BY <1>4 DEF NoRelay, Pause
  <2>2. QED
    BY <2>1 DEF Left, Anew
<1>5. CASE Closed
  <2>1. pc = "close" /\ waited <= CloseTime /\ pc' = "backoff" /\ waited' = 0 /\ Pause' = Pause
    BY <1>5 DEF Closed, InTime, Limit, Pause
  <2>2. QED
    BY <2>1 DEF Left, Anew
<1>6. CASE Retry
  <2>1. pc = "backoff" /\ waited = Pause /\ pc' = "serve"
    BY <1>6 DEF Retry, Limit, Pause
  <2>2. QED
    BY <2>1 DEF Left, Anew
<1>7. CASE Turn
  <2>1. pc = "turn" /\ UNCHANGED <<link, failures>> /\ Pause' = Pause
    BY <1>7 DEF Turn, Pause
  <2>2. CASE last < Republish
    <3>1. \/ pc' = "publish" /\ waited' = 0
          \/ pc' \in {"tick", "close"} /\ waited' = 0 /\ last' = last
      BY <1>7 DEF Turn, EndTurn
    <3>2. QED
      BY <2>1, <2>2, <3>1 DEF Left, Renewal, Anew, Round
  <2>3. CASE ~(last < Republish)
    <3>1. pc' = "publish" /\ waited' = 0
      BY <1>7, <2>3 DEF Turn, Due
    <3>2. QED
      BY <2>1, <2>3, <3>1 DEF Left, Renewal, Anew
  <2>4. QED
    BY <2>2, <2>3
<1>8. CASE Acknowledged
  BY <1>8 DEF Acknowledged
<1>9. CASE Unacknowledged
  <2>1. pc = "publish" /\ ~link /\ ~link' /\ last' = waited /\ waited <= PublishTime /\ waited' = 0
        /\ Pause' = Pause
    BY <1>9 DEF Unacknowledged, EndTurn, InTime, Limit, Lesser, Pause
  <2>2. CASE pc' = "close"
    BY <2>1, <2>2 DEF Left, Renewal, Anew
  <2>3. CASE pc' # "close"
    <3>1. failures + 1 < MaxFailures /\ failures' = failures + 1 /\ pc' = "tick"
      BY <1>9, <2>3 DEF Unacknowledged, EndTurn, Lesser, RecoveryShape
    <3>2. Rounds(failures) = Rounds(failures') + Round /\ Rounds(failures') \in Nat
      BY <3>1, RoundsLeft DEF RecoveryShape
    <3>3. QED
      BY <2>1, <3>1, <3>2 DEF Left, Renewal, Anew, Round
  <2>4. QED
    BY <2>2, <2>3
<1>10. CASE Ticked
  <2>1. pc = "tick" /\ pc' = "turn" /\ waited <= Poll /\ UNCHANGED <<link, last, failures>>
        /\ Pause' = Pause
    BY <1>10 DEF Ticked, InTime, Limit, Pause
  <2>2. Renewal' = Renewal /\ Renewal \in Nat
    BY <2>1 DEF Renewal, Anew
  <2>3. QED
    BY <2>1, <2>2 DEF Left, Round
<1>11. CASE PublishNow
  <2>1. UNCHANGED <<pc, waited, link, useful, delay, failures, last>>
    BY <1>11 DEF PublishNow
  <2>2. UNCHANGED Left /\ Left \in Int
    BY <2>1, LeftFits DEF Left, Renewal, Anew, Pause, Round
  <2>3. QED
    BY <2>2
<1>12. QED
  BY <1>1, <1>2, <1>3, <1>4, <1>5, <1>6, <1>7, <1>8, <1>9, <1>10, <1>11 DEF LoopStep

\* While nothing has been acknowledged, each moment is one less.
LEMMA TimeProgresses ==
  ASSUME IInv, RecoveryShape, Pass
  PROVE  Left' <= Left - 1
<1>a. Types
  BY DEF IInv
<1>b. waited \in Nat /\ waited' = waited + 1 /\ last \in Nat /\ last <= Republish
      /\ Rounds(failures) \in Nat /\ Pause \in Nat /\ delay \in Nat
  BY <1>a, Times, RoundsLeft DEF Types, Numbers, Pause, RecoveryShape, Pass
<1>c. UNCHANGED <<pc, link, failures, delay>> /\ Pause' = Pause /\ last' = Lesser(last + 1, Republish)
  BY DEF Pass, Pause, envVars
<1>d. pc \notin Instant
  BY <1>b, Times DEF Pass, Limit, Instant
<1> USE Times, <1>b, <1>c, <1>d
<1>1. CASE pc \in {"unlock", "backoff", "close", "connect", "publish"}
  BY <1>1 DEF Left, Anew, Renewal
<1>2. CASE pc = "tick"
  BY <1>2 DEF Left, Anew, Renewal, Lesser, Round
<1>3. QED
  BY <1>a, <1>1, <1>2 DEF Types, Numbers, Instant, Await

\* A sum that starts within a bound stays there when both its parts keep, and when
\* what one of them gains the other loses.
LEMMA Within ==
  ASSUME NEW b \in Nat, NEW l \in Int, NEW m \in Int, NEW c \in Nat, NEW d \in Nat
  PROVE  /\ m < b => 0 + m < b
         /\ c + l < b /\ d = c /\ m <= l => d + m < b
         /\ c + l < b /\ d <= c + 1 /\ m <= l - 1 => d + m < b
OBVIOUS

\* Each step keeps what is left within the bound.
LEMMA RecoveryKept ==
  ASSUME HasKey, Paced, IInv, RecoveryBudget, [Next]_vars
  PROVE  RecoveryBudget'
<1>a. IInv' /\ RecoveryShape'
  BY InvariantKept, ShapeKept DEF RecoveryBudget
<1>b. RecoveryBound' = RecoveryBound
  BY DEF RecoveryBound, Greater
<1>e. RecoveryBound \in Nat /\ Left \in Int /\ Left' \in Int /\ Left' < RecoveryBound
  BY <1>a, BoundIsNat, LeftFits, LeftFitsNext DEF RecoveryBudget
<1>c. calm \in Nat /\ calm' \in Nat
  BY <1>a DEF RecoveryBudget, RecoveryShape
<1>d. calm' = 0 => calm' + Left' < RecoveryBound
  BY <1>e, <1>c, Within, Zenon
<1> SUFFICES ASSUME ~sound', calm' > 0 PROVE calm' + Left' < RecoveryBound
  <2>1. ~sound' => calm' + Left' < RecoveryBound
    BY <1>c, <1>d
  <2>2. QED
    BY <1>a, <1>b, <2>1, Zenon DEF RecoveryBudget
<1>1. CASE LoopStep \/ PublishNow
  <2>1. NoTime
    BY <1>1 DEF LoopStep, Serve, UnlockPolled, Connected, NoRelay, Closed, Retry, Turn,
       Acknowledged, Unacknowledged, Ticked, PublishNow
  <2>2. calm' = calm /\ calm > 0
    BY <2>1, <1>c DEF NoTime
  <2>3. ~sound
    BY <1>1, <2>2 DEF LoopStep, Serve, UnlockPolled, Build, Connected, NoRelay, Closed, Retry, Turn,
       Acknowledged, Unacknowledged, Ticked, PublishNow, SameOffer, RecoveryBudget, RecoveryShape
  <2>4. Left' <= Left
    BY <1>1, <2>2, <2>3, StepsProgress, Zenon DEF RecoveryBudget
  <2>5. calm + Left < RecoveryBound
    BY <2>3, Zenon DEF RecoveryBudget
  <2>6. QED
    BY <1>e, <1>c, <2>2, <2>4, <2>5, Within, Zenon
<1>2. CASE Pass
  <2>1. calm' <= calm + 1 /\ ~sound
    BY <1>2, <1>c, BoundIsNat DEF Pass, Lesser
  <2>2. Left' <= Left - 1
    BY <1>2, TimeProgresses, Zenon DEF RecoveryBudget
  <2>3. calm + Left < RecoveryBound
    BY <2>1, Zenon DEF RecoveryBudget
  <2>4. QED
    BY <1>e, <1>c, <2>1, <2>2, <2>3, Within, Zenon
<1>3. CASE Surroundings
  <2>1. online' /\ liquid' /\ ~locked' /\ calm > 0
    BY <1>3, <1>a, <1>c DEF Surroundings, NoTime, RecoveryShape
  <2>2. online /\ liquid /\ ~locked
    BY <2>1 DEF RecoveryBudget, RecoveryShape
  <2>3. QED
    BY <1>3, <2>1, <2>2 DEF Surroundings, RelaysChange, LiquidityChanges, LockChanges
<1>4. CASE UNCHANGED vars
  <2>1. UNCHANGED <<calm, sound, Left>>
    BY <1>4 DEF vars, loopVars, envVars, Left, Renewal, Anew, Pause
  <2>2. QED
    BY <2>1 DEF RecoveryBudget
<1>5. QED
  BY <1>1, <1>2, <1>3, <1>4 DEF Next

\* Whatever happened before -- dead links, failed publishes, long backoffs --
\* once the relays, the liquidity and the lock have stood still for
\* RecoveryBound, the relays hold an offer.
THEOREM RecoveryBounded ==
  ASSUME HasKey, Paced
  PROVE  Spec => []Recovers
<1>1. Init => RecoveryBudget
  BY RecoveryInit
<1>2. IInv /\ RecoveryBudget /\ [Next]_vars => RecoveryBudget'
  BY RecoveryKept
<1>3. IInv /\ RecoveryBudget => Recovers
  <2> SUFFICES ASSUME IInv, RecoveryBudget, calm >= RecoveryBound PROVE life > 0
    BY DEF Recovers
  <2>a. Types /\ InTime /\ Undisturbed /\ Budget /\ RecoveryShape
    BY DEF IInv, RecoveryBudget
  <2>1. Left >= 0
    <3>1. waited \in Nat /\ waited <= Limit /\ last \in Nat /\ last <= Republish /\ delay \in Nat
          /\ Rounds(failures) \in Nat /\ Pause \in Nat
      BY <2>a, Times, RoundsLeft DEF Types, Numbers, InTime, Pause, RecoveryShape
    <3>2. CASE pc \in {"serve", "unlock", "backoff", "close", "connect"}
      BY <3>1, <3>2, Times DEF Limit, Left, Anew, Pause
    <3>3. CASE pc \in {"publish", "tick", "turn"}
      BY <3>1, <3>3, Times DEF Limit, Left, Anew, Renewal, Round
    <3>4. QED
      BY <2>a, <3>2, <3>3 DEF Types, Numbers, Instant, Await
  <2>2. sound
    BY <2>a, <2>1, BoundIsNat, LeftFits DEF RecoveryBudget, RecoveryShape
  <2>3. QED
    BY <2>a, <2>2, Times DEF Types, Numbers, InTime, Limit, Undisturbed, Budget, Margin, Instant, Await
<1>4. QED
  BY <1>1, <1>2, <1>3, Invariance, PTL DEF Spec

-----------------------------------------------------------------------------
(* Types.                                                                  *)

\* The types the arguments above do not need.
OtherTypes ==
  /\ relay \in {"none", "yes", "no"} /\ failures \in 0 .. MaxFailures /\ seen \in BOOLEAN
  /\ calm \in 0 .. RecoveryBound /\ claim \in 0 .. ClaimBound + 1

\* Each step keeps them.
LEMMA OtherTypesKept == IInv /\ OtherTypes /\ [Next]_vars => OtherTypes'
<1> SUFFICES ASSUME IInv, OtherTypes, [Next]_vars PROVE OtherTypes'
  OBVIOUS
<1> DEFINE B == RecoveryBound
           C == ClaimBound
<1>a. Types /\ B \in Nat /\ C \in Nat
  BY BoundIsNat, Times DEF IInv, ClaimBound, Greater
<1>b. calm \in 0 .. B /\ claim \in 0 .. C + 1
  BY DEF OtherTypes
<1>c. RecoveryBound' = B /\ ClaimBound' = C
  BY DEF RecoveryBound, ClaimBound, Greater
<1>1. calm' \in 0 .. B /\ claim' \in 0 .. C + 1
  <2>1. CASE NoTime
    BY <2>1, <1>a, <1>b DEF NoTime
  <2>2. CASE Pass
    <3>1. Lesser(calm + 1, RecoveryBound) \in 0 .. B /\ Lesser(claim + 1, ClaimBound + 1) \in 0 .. C + 1
      BY <1>a, <1>b DEF Lesser
    <3>2. QED
      BY <2>2, <3>1, <1>a DEF Pass
  <2>3. CASE UNCHANGED vars
    BY <2>3, <1>b DEF vars
  <2>4. QED
    BY <2>1, <2>2, <2>3 DEF Next, LoopStep, Serve, UnlockPolled, Connected, NoRelay, Closed, Retry, Turn,
       Acknowledged, Unacknowledged, Ticked, PublishNow, Surroundings
<1>2. relay' \in {"none", "yes", "no"}
  BY DEF OtherTypes, vars, Next, LoopStep, Pass, Serve, UnlockPolled, Build, Connected, NoRelay, Closed,
     Retry, Turn, Acknowledged, Unacknowledged, Ticked, PublishNow, Surroundings, loopVars
<1>3. seen' \in BOOLEAN
  BY <1>a DEF OtherTypes, vars, Next, LoopStep, Pass, Serve, UnlockPolled, Build, Connected, NoRelay, Closed,
     Retry, Turn, Acknowledged, Unacknowledged, Ticked, PublishNow, Surroundings, loopVars, Types, Flags
<1>4. failures' \in 0 .. MaxFailures
  <2>1. failures \in 0 .. MaxFailures /\ Lesser(failures + 1, MaxFailures) \in 0 .. MaxFailures
        /\ 0 \in 0 .. MaxFailures
    BY Times DEF OtherTypes, Lesser
  <2>2. failures' \in {failures, 0, Lesser(failures + 1, MaxFailures)}
    BY DEF vars, Next, LoopStep, Pass, Serve, UnlockPolled, Connected, NoRelay, Closed,
       Retry, Turn, Acknowledged, Unacknowledged, Ticked, PublishNow, Surroundings, loopVars
  <2>3. QED
    BY <2>1, <2>2
<1>5. QED
  BY <1>c, <1>1, <1>2, <1>3, <1>4 DEF OtherTypes

\* Every variable of the announce loop keeps its type: the delay stays between
\* its two bounds, the ages and counters within theirs.
THEOREM TypeCorrect == Spec => []TypeOK
<1>1. Init => OtherTypes
  <2>1. 0 \in 0 .. RecoveryBound /\ 0 \in 0 .. ClaimBound + 1 /\ 0 \in 0 .. MaxFailures
    BY BoundIsNat, Times DEF ClaimBound, Greater
  <2>2. QED
    BY <2>1 DEF Init, OtherTypes
<1>2. IInv /\ OtherTypes => TypeOK
  BY DEF IInv, Types, Numbers, Flags, OtherTypes, TypeOK
<1>3. QED
  BY <1>1, <1>2, OtherTypesKept, Invariance, PTL DEF Spec
=============================================================================
