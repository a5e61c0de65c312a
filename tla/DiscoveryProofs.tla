--------------------------- MODULE DiscoveryProofs ---------------------------
(***************************************************************************)
(* The discovery check for any relays, offers, tabs and checks: the types, *)
(* the button and its report, both directions of the verdict -- what is    *)
(* called discoverable was, and what could be taken all along is found --  *)
(* and the warning.                                                        *)
(***************************************************************************)
EXTENDS Discovery, SequenceTheorems, FiniteSetTheorems, WellFoundedInduction, TLAPS

Pairs  == Checks \X Relays
Event  == ({"report"} \X Checks) \cup ({"delete"} \X Tabs)
Phases == {"none", "spawned", "running", "done", "emitting", "over"}
PCs    == {"none", "connect", "ours", "page", "closing", "ended"}
Verdict == [status : Status, bits : Nat \cup {NoBits}]

-----------------------------------------------------------------------------
(* The events posted to the Qt thread.                                     *)

Has(q, e)  == \E i \in DOMAIN q : q[i] = e
Once(q, e) == \A i, j \in DOMAIN q : q[i] = e /\ q[j] = e => i = j

\* What taking the head leaves of a queue.
LEMMA TailFacts ==
  ASSUME NEW q \in Seq(Event), q # <<>>, NEW e
  PROVE  /\ Head(q) \in Event /\ Tail(q) \in Seq(Event) /\ Has(q, Head(q))
         /\ Has(Tail(q), e) => Has(q, e)
         /\ Has(q, e) /\ Head(q) # e => Has(Tail(q), e)
         /\ Once(q, e) => Once(Tail(q), e)
         /\ Once(q, e) /\ Head(q) = e => ~Has(Tail(q), e)
<1>1. /\ Head(q) \in Event /\ Tail(q) \in Seq(Event)
      /\ Len(Tail(q)) = Len(q) - 1 /\ Head(q) = q[1]
      /\ DOMAIN q = 1 .. Len(q) /\ DOMAIN Tail(q) = 1 .. Len(q) - 1
      /\ Len(q) \in Nat \ {0}
      /\ \A i \in 1 .. Len(q) - 1 : Tail(q)[i] = q[i + 1]
  BY HeadTailProperties, LenProperties, EmptySeq
<1>2. \A i \in 1 .. Len(q) - 1 : i + 1 \in DOMAIN q /\ Tail(q)[i] = q[i + 1]
  BY <1>1
<1>3. \A i \in DOMAIN q : i # 1 => i - 1 \in DOMAIN Tail(q) /\ Tail(q)[i - 1] = q[i]
  BY <1>1
<1>4. (Has(Tail(q), e) => Has(q, e)) /\ (Has(q, e) /\ Head(q) # e => Has(Tail(q), e))
  BY <1>1, <1>2, <1>3 DEF Has
<1>5. Once(q, e) => Once(Tail(q), e)
  BY <1>1, <1>2 DEF Once
<1>6. Once(q, e) /\ Head(q) = e => ~Has(Tail(q), e)
  BY <1>1, <1>2 DEF Once, Has
<1>7. Has(q, Head(q))
  BY <1>1 DEF Has
<1>8. QED
  BY <1>1, <1>4, <1>5, <1>6, <1>7

\* What posting adds to it.
LEMMA AppendFacts ==
  ASSUME NEW q \in Seq(Event), NEW f \in Event, NEW e
  PROVE  /\ Append(q, f) \in Seq(Event)
         /\ Has(Append(q, f), e) <=> Has(q, e) \/ e = f
         /\ Once(q, e) /\ (e = f => ~Has(q, e)) => Once(Append(q, f), e)
<1>1. /\ Append(q, f) \in Seq(Event) /\ Len(q) \in Nat
      /\ DOMAIN q = 1 .. Len(q) /\ DOMAIN Append(q, f) = 1 .. Len(q) + 1
      /\ \A i \in 1 .. Len(q) : Append(q, f)[i] = q[i]
      /\ Append(q, f)[Len(q) + 1] = f
  BY AppendProperties, LenProperties
<1>2. Has(Append(q, f), e) <=> Has(q, e) \/ e = f
  BY <1>1 DEF Has
<1>3. Once(q, e) /\ (e = f => ~Has(q, e)) => Once(Append(q, f), e)
  BY <1>1 DEF Once, Has
<1>4. QED
  BY <1>1, <1>2, <1>3

-----------------------------------------------------------------------------
(* Types.  Others' offers keep their number when ours goes or comes, and a *)
(* tab that is deleted, or about to be, is not the one shown.              *)

RelayTypes ==
  /\ now \in Start .. End /\ held \in [Relays -> SUBSET Offer]
  /\ ahead \in [Relays -> Nat] /\ behind \in [Relays -> Nat]
  /\ \A r \in Relays : ahead[r] + behind[r] <= MaxOthers
  /\ indexes \in [Relays -> BOOLEAN] /\ silent \in [Relays -> BOOLEAN]
QtTypes ==
  /\ tabs \in 0 .. MaxTabs /\ tab \in {0, tabs}
  /\ deleted \subseteq (1 .. tabs) \ {tab} /\ checking \subseteq {tab} \ {0}
  /\ checkFut \in {0} \cup Checks /\ events \in Seq(Event)
  /\ \A t \in Tabs : Has(events, <<"delete", t>>) => t \in (1 .. tabs) \ {tab}
  /\ asker \in [Checks -> 0 .. tabs] /\ asked \in [Checks -> SUBSET Relays]
  /\ wanted \in [Checks -> {0} \cup Targets]
CheckTypes ==
  /\ phase \in [Checks -> Phases] /\ withdrawn \subseteq Checks
  /\ pc \in [Pairs -> PCs] /\ at \in [Pairs -> Start .. End]
  /\ judged \in [Pairs -> Nat \cup {NoBits}] /\ verdict \in [Pairs -> Verdict]
SeenTypes ==
  cut \subseteq Pairs /\ found \subseteq Pairs /\ stock \subseteq Pairs /\ steady \subseteq Pairs
Types == RelayTypes /\ QtTypes /\ CheckTypes /\ SeenTypes

\* The target a check was asked with.
LEMMA TargetType == {0} \cup Targets \subseteq Nat
<1>1. ASSUME NEW w \in {0} \cup Targets PROVE w \in Nat
  <2>1. CASE w = 0
    BY <2>1
  <2>2. CASE w \in Targets
    BY <2>2, RuleAssumption
  <2>3. QED
    BY <2>1, <2>2
<1>2. QED
  BY <1>1

LEMMA WantedType == ASSUME Types, NEW x \in Pairs PROVE wanted[x[1]] \in Nat
<1>1. x[1] \in Checks
  BY DEF Pairs
<1>2. QED
  BY <1>1, TargetType DEF Types, QtTypes

LEMMA InitTypes == Init => Types
<1> SUFFICES ASSUME Init PROVE Types
  OBVIOUS
<1>1. RelayTypes
  BY RuleAssumption, BoundAssumption DEF Init, RelayTypes, Holdings
<1>2. QtTypes
  <2>1. <<>> \in Seq(Event) /\ \A e : ~Has(<<>>, e)
    BY EmptySeq DEF Has
  <2>2. QED
    BY <2>1, BoundAssumption DEF Init, QtTypes
<1>3. CheckTypes
  BY BoundAssumption DEF Init, CheckTypes, Pairs, Phases, PCs, Verdict, Unjudged, Result, Status
<1>4. SeenTypes
  BY DEF Init, SeenTypes
<1>5. QED
  BY <1>1, <1>2, <1>3, <1>4 DEF Types

\* The relays move on; what a check has seen is of a check and a relay.
LEMMA EnvironmentTypes ==
  ASSUME Types, Environment
  PROVE  RelayTypes' /\ SeenTypes' /\ UNCHANGED <<qtVars, checkVars>>
<1> USE BoundAssumption DEF Types
<1>1. ASSUME Watch PROVE SeenTypes' /\ UNCHANGED <<qtVars, checkVars>>
  BY <1>1 DEF Watch, Watched, SeenTypes, Pairs
<1>2. ASSUME Tick PROVE RelayTypes' /\ Watch
  BY <1>2 DEF Tick, RelayTypes
<1>3. ASSUME NEW r \in Relays, OtherPublishes(r) PROVE RelayTypes' /\ Watch
  BY <1>3 DEF OtherPublishes, RelayTypes
<1>4. ASSUME NEW r \in Relays, OtherExpires(r) PROVE RelayTypes' /\ Watch
  BY <1>4 DEF OtherExpires, RelayTypes
<1>5. ASSUME NEW r \in Relays, NEW o \in held[r], Expire(r, o) PROVE RelayTypes' /\ Watch
  <2>1. held' \in [Relays -> SUBSET Offer]
    BY <1>5 DEF Expire, RelayTypes
  <2>2. QED
    BY <1>5, <2>1 DEF Expire, RelayTypes
<1>6. ASSUME NEW r \in Relays, NEW b \in Bits, Publish(r, b) PROVE RelayTypes' /\ Watch
  <2>1. [version |-> Version, net |-> Net, parses |-> TRUE, complete |-> TRUE,
         bits |-> b, created |-> now] \in Offer
    BY RuleAssumption DEF Offer, RelayTypes
  <2>2. held' \in [Relays -> SUBSET Offer]
    BY <1>6, <2>1 DEF Publish, RelayTypes
  <2>3. QED
    BY <1>6, <2>2 DEF Publish, RelayTypes
<1>7. QED
  BY <1>1, <1>2, <1>3, <1>4, <1>5, <1>6 DEF Environment

\* The Qt thread.
LEMMA QtStepTypes ==
  ASSUME Types, QtStep
  PROVE  QtTypes' /\ CheckTypes' /\ UNCHANGED <<relayVars, history>>
<1> USE BoundAssumption DEF Types
<1>1. CASE AddTab
  <2>1. QtTypes'
    BY <1>1 DEF AddTab, QtTypes
  <2>2. QED
    BY <1>1, <2>1 DEF AddTab, CheckTypes, checkVars
<1>2. ASSUME NEW c \in Checks, Click(c)
      PROVE  QtTypes' /\ CheckTypes' /\ UNCHANGED <<relayVars, history>>
  <2>1. QtTypes'
    BY <1>2 DEF Click, QtTypes
  <2>2. CheckTypes'
    BY <1>2 DEF Click, CheckTypes, Phases
  <2>3. QED
    BY <1>2, <2>1, <2>2 DEF Click
<1>3. CASE RemoveTab
  <2>1. tab \in Tabs /\ <<"delete", tab>> \in Event /\ tab = tabs
    BY <1>3 DEF RemoveTab, QtTypes, Tabs, Event
  <2>2. events' = Append(events, <<"delete", tab>>) /\ tab' = 0 /\ tabs' = tabs
    BY <1>3 DEF RemoveTab
  <2>3. events' \in Seq(Event)
    BY <2>1, <2>2, AppendFacts DEF QtTypes
  <2>4. ASSUME NEW t \in Tabs, Has(events', <<"delete", t>>) PROVE t \in (1 .. tabs') \ {tab'}
    <3>1. Has(events, <<"delete", t>>) \/ t = tab
      BY <2>1, <2>2, <2>4, AppendFacts DEF QtTypes
    <3>2. QED
      BY <2>1, <2>2, <3>1 DEF QtTypes, Tabs
  <2>5. QtTypes'
    <3>1. deleted' \subseteq (1 .. tabs') \ {tab'} /\ checking' \subseteq {tab'} \ {0}
      BY <1>3, <2>1, <2>2 DEF RemoveTab, QtTypes
    <3>2. checkFut' = 0 /\ UNCHANGED <<asker, asked, wanted>>
      BY <1>3 DEF RemoveTab
    <3>3. QED
      BY <2>2, <2>3, <2>4, <3>1, <3>2 DEF QtTypes
  <2>6. QED
    BY <1>3, <2>5 DEF RemoveTab, CheckTypes, QtTypes
<1>4. CASE QtEvent
  <2>1. events # <<>> /\ events' = Tail(events) /\ UNCHANGED <<tabs, tab, checkFut, asker, asked, wanted>>
    BY <1>4 DEF QtEvent
  <2>2. Head(events) \in Event /\ events' \in Seq(Event) /\ Has(events, Head(events))
    BY <2>1, TailFacts DEF QtTypes
  <2>3. \A t \in Tabs : Has(events', <<"delete", t>>) => t \in (1 .. tabs') \ {tab'}
    BY <2>1, TailFacts DEF QtTypes
  <2>4. CASE Head(events)[1] = "delete" /\ deleted' = deleted \cup {Head(events)[2]} /\ UNCHANGED checking
    <3>1. PICK t \in Tabs : Head(events) = <<"delete", t>>
      BY <2>2, <2>4 DEF Event
    <3>2. t \in (1 .. tabs) \ {tab} /\ Head(events)[2] = t
      <4>1. Has(events, <<"delete", t>>)
        BY <2>2, <3>1
      <4>2. t \in (1 .. tabs) \ {tab}
        BY <4>1 DEF QtTypes
      <4>3. QED
        BY <3>1, <4>2
    <3>3. QtTypes'
      BY <2>1, <2>2, <2>3, <2>4, <3>2 DEF QtTypes
    <3>4. QED
      BY <1>4, <3>3 DEF QtEvent, CheckTypes, checkVars
  <2>5. CASE Head(events)[1] = "report" /\ checking' \subseteq checking /\ UNCHANGED deleted
    <3>1. QtTypes'
      BY <2>1, <2>2, <2>3, <2>5 DEF QtTypes
    <3>2. QED
      BY <1>4, <3>1 DEF QtEvent, CheckTypes, checkVars
  <2>6. QED
    BY <1>4, <2>4, <2>5 DEF QtEvent
<1>5. QED
  BY <1>1, <1>2, <1>3, <1>4 DEF QtStep

-----------------------------------------------------------------------------
(* evaluate_offer_event blames the first of the broken rules, and none      *)
(* exactly for an offer that a taker accepts.                               *)

LEMMA EvaluateRules ==
  ASSUME NEW o \in Offer, NEW t \in Int, NEW w \in Nat
  PROVE  /\ Evaluate(o, t, w) \in Status \ {"none"}
         /\ Evaluate(o, t, w) = "discoverable" <=> TakerAccepts(o, t, w)
         /\ Result(Evaluate(o, t, w), BitsOf(o, t, w)) \in Verdict \ {Unjudged}
         /\ o.bits \in Nat
<1> DEFINE broken == {i \in DOMAIN Rules(o, t, w) : ~Rules(o, t, w)[i][1]}
           first == CHOOSE i \in broken : \A j \in broken : i <= j
<1>1. broken \subseteq 1 .. 6 /\ DOMAIN Rules(o, t, w) = 1 .. 6
  BY DEF Rules
<1>2. Evaluate(o, t, w) = IF broken = {} THEN "discoverable" ELSE Rules(o, t, w)[first][2]
  BY DEF Evaluate
<1>3. broken # {} => first \in broken
  <2>1. ASSUME broken # {} PROVE \E i \in broken : \A j \in broken : i <= j
    <3>1. broken \in SUBSET Nat
      BY <1>1
    <3> HIDE DEF broken
    <3>2. PICK i \in broken : \A j \in broken : ~(<<j, i>> \in OpToRel(<, Nat))
      BY <2>1, <3>1, WFMin, NatLessThanWellFounded
    <3>3. ASSUME NEW j \in broken PROVE i <= j
      <4>1. ~(j < i)
        BY <3>1, <3>2 DEF OpToRel
      <4>2. QED
        BY <3>1, <4>1
    <3>4. QED
      BY <3>3
  <2>2. QED
    BY <2>1
<1>4. \A i \in 1 .. 6 : Rules(o, t, w)[i][2] \in Status \ {"none", "discoverable"}
  BY DEF Rules, Status
<1>5. broken = {} <=> TakerAccepts(o, t, w)
  <2>1. o.created \in Int /\ o.bits \in Nat /\ Age(o, t) \in Int /\ Lookback \in Nat
    BY RuleAssumption DEF Offer, Age
  <2>2. broken = {} <=> \A i \in 1 .. 6 : Rules(o, t, w)[i][1]
    BY <1>1
  <2>3. (\A i \in 1 .. 6 : Rules(o, t, w)[i][1]) <=>
          /\ o.parses /\ o.version = Version /\ o.net = Net
          /\ Age(o, t) <= Lookback /\ Age(o, t) >= -Lookback /\ o.bits >= w /\ o.complete
    <3>1. /\ Rules(o, t, w)[1][1] = o.parses /\ Rules(o, t, w)[2][1] = (o.version = Version)
          /\ Rules(o, t, w)[3][1] = (o.net = Net)
          /\ Rules(o, t, w)[4][1] = (Age(o, t) <= Lookback /\ Age(o, t) >= -Lookback)
          /\ Rules(o, t, w)[5][1] = (o.bits >= w) /\ Rules(o, t, w)[6][1] = o.complete
      BY DEF Rules
    <3>2. (\A i \in 1 .. 6 : Rules(o, t, w)[i][1]) <=>
            /\ Rules(o, t, w)[1][1] /\ Rules(o, t, w)[2][1] /\ Rules(o, t, w)[3][1]
            /\ Rules(o, t, w)[4][1] /\ Rules(o, t, w)[5][1] /\ Rules(o, t, w)[6][1]
      <4>1. \A i \in 1 .. 6 : i = 1 \/ i = 2 \/ i = 3 \/ i = 4 \/ i = 5 \/ i = 6
        OBVIOUS
      <4>2. QED
        BY <4>1
    <3>3. QED
      BY <3>1, <3>2
  <2>4. QED
    BY <2>1, <2>2, <2>3 DEF TakerAccepts
<1>6. Evaluate(o, t, w) \in Status \ {"none"} /\ (Evaluate(o, t, w) = "discoverable" <=> broken = {})
  <2> HIDE DEF broken, first
  <2>1. QED
    BY <1>1, <1>2, <1>3, <1>4 DEF Status
<1>7. o.bits \in Nat /\ BitsOf(o, t, w) \in Nat \cup {NoBits}
  BY DEF Offer, BitsOf
<1>8. QED
  BY <1>5, <1>6, <1>7 DEF Result, Verdict, Unjudged

\* What the steps of check_relay do to the relay x of a check, and to no other.
LEMMA RelayStepTypes ==
  ASSUME Types, NEW x \in Pairs, RelayStep(x)
  PROVE  CheckTypes' /\ SeenTypes' /\ UNCHANGED <<checkFrame, phase>>
<1> USE DEF Types
<1>1. ASSUME NEW v \in Verdict, Return(x, v), judged' \in [Pairs -> Nat \cup {NoBits}]
      PROVE  CheckTypes'
  BY <1>1 DEF Return, checkFrame, CheckTypes, PCs
<1>2. CASE Connected(x)
  BY <1>2 DEF Connected, checkFrame, CheckTypes, SeenTypes, RelayTypes, PCs
<1>3. CASE Unreachable(x)
  <2>1. Result("unreachable", NoBits) \in Verdict
    BY DEF Result, Verdict, Status
  <2>2. QED
    BY <1>1, <1>3, <2>1 DEF Unreachable, Return, CheckTypes, SeenTypes, history
<1>4. CASE Raises(x)
  <2>1. Result("error", NoBits) \in Verdict
    BY DEF Result, Verdict, Status
  <2>2. QED
    BY <1>1, <1>4, <2>1 DEF Raises, Return, CheckTypes, SeenTypes, history
<1>5. CASE RelayCancelled(x)
  BY <1>5 DEF RelayCancelled, CheckTypes, SeenTypes, checkFrame, history, PCs
<1>6. CASE Close(x)
  BY <1>6 DEF Close, CheckTypes, SeenTypes, checkFrame, history, PCs
<1>7. ASSUME NEW got \in 0 .. Limit, OursArrived(x, got)
      PROVE  CheckTypes' /\ SeenTypes' /\ UNCHANGED <<checkFrame, phase>>
  <2>1. SeenTypes'
    BY <1>7 DEF OursArrived, Cut, SeenTypes
  <2>2. CASE got = 0
    <3>1. Result("no_event", NoBits) \in Verdict
      BY DEF Result, Verdict, Status
    <3>2. QED
      BY <1>1, <1>7, <2>1, <2>2, <3>1 DEF OursArrived, Return, CheckTypes
  <2>3. CASE got # 0
    <3>1. PICK o \in OursOn(x[2], at[x]) : Judge(x, o)
      BY <1>7, <2>3 DEF OursArrived
    <3>2. o \in Offer /\ at[x] \in Int /\ wanted[x[1]] \in Nat
      BY BoundAssumption, WantedType DEF OursOn, RelayTypes, CheckTypes, Pairs
    <3>3. CASE Evaluate(o, at[x], wanted[x[1]]) = "discoverable"
      BY <2>1, <3>1, <3>2, <3>3, EvaluateRules DEF Judge, checkFrame, CheckTypes, PCs
    <3>4. CASE Evaluate(o, at[x], wanted[x[1]]) # "discoverable"
      BY <1>1, <2>1, <3>1, <3>2, <3>4, EvaluateRules DEF Judge, Return, CheckTypes
    <3>5. QED
      BY <3>3, <3>4
  <2>4. QED
    BY <2>2, <2>3
<1>8. ASSUME NEW got \in 0 .. Limit, PageArrived(x, got)
      PROVE  CheckTypes' /\ SeenTypes' /\ UNCHANGED <<checkFrame, phase>>
  <2>1. SeenTypes'
    BY <1>8 DEF PageArrived, Cut, SeenTypes
  <2>2. \E s \in {"discoverable", "crowded_out", "no_event"} : Return(x, Result(s, judged[x]))
    BY <1>8 DEF PageArrived
  <2>3. PICK s \in {"discoverable", "crowded_out", "no_event"} : Return(x, Result(s, judged[x]))
    BY <2>2
  <2>4. Result(s, judged[x]) \in Verdict
    BY DEF Result, Verdict, Status, CheckTypes
  <2>5. QED
    BY <1>1, <1>8, <2>1, <2>3, <2>4 DEF PageArrived, Return, CheckTypes
<1>9. QED
  BY <1>2, <1>3, <1>4, <1>5, <1>6, <1>7, <1>8 DEF RelayStep, ConnectEnds, QueryEnds

\* The steps of a check as a whole.
LEMMA CheckStepTypes ==
  ASSUME Types, NEW c \in Checks, StartCheck(c) \/ Gathered(c) \/ Done(c) \/ Emit(c)
  PROVE  QtTypes' /\ CheckTypes' /\ UNCHANGED <<relayVars, history, withdrawn, asker, asked, tab, tabs>>
<1> USE DEF Types
<1>1. CASE StartCheck(c)
  <2>1. CheckTypes'
    BY <1>1 DEF StartCheck, checkFrame, CheckTypes, Phases, PCs, Pairs
  <2>2. QED
    BY <1>1, <2>1 DEF StartCheck, checkFrame, qtVars, QtTypes
<1>2. CASE Gathered(c)
  <2>1. CheckTypes'
    BY <1>2 DEF Gathered, checkFrame, CheckTypes, Phases
  <2>2. QED
    BY <1>2, <2>1 DEF Gathered, checkFrame, qtVars, QtTypes
<1>3. CASE Done(c)
  <2>1. CheckTypes'
    BY <1>3 DEF Done, checkFrame, CheckTypes, Phases
  <2>2. QED
    BY <1>3, <2>1 DEF Done, checkFrame, qtVars, QtTypes
<1>4. CASE Emit(c)
  <2>1. CheckTypes'
    BY <1>4 DEF Emit, CheckTypes, Phases
  <2>2. events' \in Seq(Event) /\ \A t \in Tabs : Has(events', <<"delete", t>>) => Has(events, <<"delete", t>>)
    <3>1. <<"report", c>> \in Event /\ \A t \in Tabs : <<"delete", t>> # <<"report", c>>
      BY DEF Event
    <3>2. events \in Seq(Event) /\ events' \in {events, Append(events, <<"report", c>>)}
      BY <1>4 DEF Emit, QtTypes
    <3>3. QED
      BY <3>1, <3>2, AppendFacts
  <2>3. QtTypes'
    BY <1>4, <2>2 DEF Emit, QtTypes
  <2>4. QED
    BY <1>4, <2>1, <2>3 DEF Emit
<1>5. QED
  BY <1>1, <1>2, <1>3, <1>4

LEMMA TypesKept == Types /\ [Next]_vars => Types'
<1> SUFFICES ASSUME Types, [Next]_vars PROVE Types'
  OBVIOUS
<1>1. CASE UNCHANGED vars
  BY <1>1 DEF vars, relayVars, qtVars, checkVars, history, Types, RelayTypes, QtTypes, CheckTypes,
     SeenTypes
<1>2. CASE QtStep
  BY <1>2, QtStepTypes DEF Types, relayVars, history, RelayTypes, SeenTypes
<1>3. CASE Environment
  BY <1>3, EnvironmentTypes DEF Types, qtVars, checkVars, QtTypes, CheckTypes
<1>4. ASSUME NEW c \in Checks, LoopStep(c) PROVE Types'
  <2>1. CASE StartCheck(c) \/ Gathered(c) \/ Done(c) \/ Emit(c)
    BY <2>1, CheckStepTypes DEF Types, relayVars, history, RelayTypes, SeenTypes
  <2>2. ASSUME NEW r \in Relays, RelayStep(<<c, r>>) PROVE Types'
    BY <2>2, RelayStepTypes DEF Types, Pairs, checkFrame, relayVars, qtVars, RelayTypes, QtTypes
  <2>3. QED
    BY <1>4, <2>1, <2>2 DEF LoopStep
<1>5. QED
  BY <1>1, <1>2, <1>3, <1>4 DEF Next

\* Every variable of the check keeps its type; with it, a tab that is gone, or is
\* on its way, is never the one shown, and no button is off but that of the tab
\* shown.
THEOREM TypeCorrect == Spec => []TypeOK
<1>1. Types => TypeOK
  <2> SUFFICES ASSUME Types PROVE TypeOK
    OBVIOUS
  <2>1. \A r \in Relays : \A o \in held[r] : o.bits \in Nat /\ o.created \in Int
    BY DEF Types, RelayTypes, Offer
  <2>2. ahead \in [Relays -> 0 .. MaxOthers] /\ behind \in [Relays -> 0 .. MaxOthers]
    BY BoundAssumption DEF Types, RelayTypes
  <2>3. /\ tabs \in 0 .. MaxTabs /\ tab \in 0 .. MaxTabs /\ deleted \subseteq Tabs \ {tab}
        /\ checking \subseteq Tabs /\ asker \in [Checks -> {0} \cup Tabs]
    BY BoundAssumption DEF Types, QtTypes, Tabs
  <2>4. QED
    BY <2>1, <2>2, <2>3 DEF Types, RelayTypes, QtTypes, CheckTypes, SeenTypes, TypeOK, Event,
       Phases, PCs, Pairs, Verdict
<1>2. QED
  BY <1>1, InitTypes, TypesKept, PTL DEF Spec

-----------------------------------------------------------------------------
(* The report.                                                             *)

Reported(c) == Has(events, <<"report", c>>)
Answered(c) == \A r \in asked[c] : verdict[<<c, r>>] # Unjudged

\* A report is posted once, by a check that is over; a check that is to report has
\* not been withdrawn.
Postings ==
  \A c \in Checks :
    /\ Reported(c) => phase[c] = "over"
    /\ Once(events, <<"report", c>>)
    /\ phase[c] \in {"done", "emitting"} => c \notin withdrawn

\* A relay that is closing has its verdict, unless the check was withdrawn; and so
\* has every relay when the check comes to report.
Answers ==
  \A c \in Checks :
    /\ \A r \in Relays :
         pc[<<c, r>>] \in {"closing", "ended"} /\ c \notin withdrawn
           => verdict[<<c, r>>] # Unjudged
    /\ phase[c] \in {"done", "emitting"} \/ Reported(c) => Answered(c)

\* The queue of events grows by a deletion or a report, and is taken from in front.
LEMMA EventSteps ==
  ASSUME Types, [Next]_vars
  PROVE  \/ UNCHANGED events
         \/ events # <<>> /\ events' = Tail(events)
         \/ \E t \in Tabs : events' = Append(events, <<"delete", t>>)
         \/ \E c \in Checks : Emit(c) /\ events' = Append(events, <<"report", c>>)
<1>1. CASE UNCHANGED vars
  BY <1>1 DEF vars, qtVars
<1>2. CASE Environment
  BY <1>2, EnvironmentTypes DEF qtVars
<1>3. CASE QtStep
  <2>1. tab # 0 => tab \in Tabs
    BY DEF Types, QtTypes, Tabs
  <2>2. QED
    BY <1>3, <2>1 DEF QtStep, AddTab, RemoveTab, QtEvent, Click
<1>4. ASSUME NEW c \in Checks, LoopStep(c)
      PROVE  UNCHANGED events \/ (Emit(c) /\ events' = Append(events, <<"report", c>>))
  <2>1. ASSUME NEW r \in Relays, RelayStep(<<c, r>>) PROVE UNCHANGED events
    BY <2>1, RelayStepTypes DEF Pairs, checkFrame, qtVars
  <2>2. QED
    BY <1>4, <2>1 DEF LoopStep, StartCheck, Gathered, Done, Emit, checkFrame, qtVars
<1>5. QED
  BY <1>1, <1>2, <1>3, <1>4 DEF Next

\* The reports in the queue: a new one is of a check that emits.
LEMMA ReportsLeft ==
  ASSUME Types, [Next]_vars, NEW c \in Checks
  PROVE  /\ Reported(c)' => Reported(c) \/ Emit(c)
         /\ Once(events, <<"report", c>>) /\ (Emit(c) => ~Reported(c)) => Once(events, <<"report", c>>)'
<1>1. events \in Seq(Event) /\ <<"report", c>> \in Event
  BY DEF Types, QtTypes, Event
<1>2. CASE UNCHANGED events
  BY <1>2 DEF Reported
<1>3. CASE events # <<>> /\ events' = Tail(events)
  BY <1>1, <1>3, TailFacts DEF Reported
<1>4. ASSUME NEW e \in Event, events' = Append(events, e)
      PROVE  /\ Reported(c)' => Reported(c) \/ e = <<"report", c>>
             /\ Once(events, <<"report", c>>) /\ (e = <<"report", c>> => ~Reported(c))
                  => Once(events, <<"report", c>>)'
  BY <1>1, <1>4, AppendFacts DEF Reported
<1>5. ASSUME NEW t \in Tabs PROVE <<"delete", t>> \in Event /\ <<"delete", t>> # <<"report", c>>
  BY DEF Event
<1>6. ASSUME NEW d \in Checks PROVE <<"report", d>> \in Event /\ (<<"report", d>> = <<"report", c>> => d = c)
  BY DEF Event
<1>7. CASE \E t \in Tabs : events' = Append(events, <<"delete", t>>)
  BY <1>4, <1>5, <1>7
<1>8. CASE \E d \in Checks : Emit(d) /\ events' = Append(events, <<"report", d>>)
  BY <1>4, <1>6, <1>8
<1>9. QED
  BY <1>2, <1>3, <1>7, <1>8, EventSteps

\* A check has one phase after the other, and is withdrawn before it is done.
LEMMA PhaseSteps ==
  ASSUME Types, [Next]_vars, NEW c \in Checks
  PROVE  \/ phase'[c] = phase[c] /\ withdrawn' = withdrawn
         \/ Click(c) /\ phase[c] = "none" /\ phase'[c] = "spawned" /\ withdrawn' = withdrawn
         \/ /\ phase'[c] = phase[c]
            /\ c \in withdrawn => c \in withdrawn'
            /\ c \in withdrawn' => c \in withdrawn \/ phase[c] \in {"spawned", "running"}
         \/ StartCheck(c) /\ phase[c] = "spawned" /\ withdrawn' = withdrawn
              /\ phase'[c] = (IF c \in withdrawn THEN "over" ELSE "running")
         \/ Gathered(c) /\ phase[c] = "running" /\ withdrawn' = withdrawn
              /\ phase'[c] = (IF c \in withdrawn THEN "over" ELSE "done")
         \/ Done(c) /\ phase[c] = "done" /\ withdrawn' = withdrawn
              /\ phase'[c] = (IF asker[c] = tab THEN "emitting" ELSE "over")
         \/ Emit(c) /\ phase[c] = "emitting" /\ phase'[c] = "over" /\ withdrawn' = withdrawn
<1> USE DEF Types, CheckTypes
<1>1. CASE UNCHANGED vars
  BY <1>1 DEF vars, checkVars
<1>2. CASE Environment
  BY <1>2, EnvironmentTypes DEF checkVars
<1>3. CASE AddTab \/ QtEvent
  BY <1>3 DEF AddTab, QtEvent, checkVars
<1>4. CASE RemoveTab
  BY <1>4 DEF RemoveTab
<1>5. ASSUME NEW d \in Checks, Click(d)
      PROVE  (d = c \/ phase'[c] = phase[c]) /\ withdrawn' = withdrawn
             /\ phase[d] = "none" /\ phase'[d] = "spawned"
  BY <1>5 DEF Click
<1>6. ASSUME NEW d \in Checks, d # c, LoopStep(d)
      PROVE  phase'[c] = phase[c] /\ withdrawn' = withdrawn
  <2>1. ASSUME NEW r \in Relays, RelayStep(<<d, r>>) PROVE phase'[c] = phase[c] /\ withdrawn' = withdrawn
    BY <2>1, RelayStepTypes DEF Pairs, checkFrame
  <2>2. QED
    BY <1>6, <2>1 DEF LoopStep, StartCheck, Gathered, Done, Emit, checkFrame
<1>7. ASSUME NEW r \in Relays, RelayStep(<<c, r>>) PROVE phase'[c] = phase[c] /\ withdrawn' = withdrawn
  BY <1>7, RelayStepTypes DEF Pairs, checkFrame
<1>8. CASE StartCheck(c)
  BY <1>8 DEF StartCheck, checkFrame
<1>9. CASE Gathered(c)
  BY <1>9 DEF Gathered, checkFrame
<1>10. CASE Done(c)
  BY <1>10 DEF Done, checkFrame
<1>11. CASE Emit(c)
  BY <1>11 DEF Emit
<1>12. CASE QtStep
  BY <1>3, <1>4, <1>5, <1>12 DEF QtStep
<1>13. QED
  BY <1>1, <1>2, <1>6, <1>7, <1>8, <1>9, <1>10, <1>11, <1>12 DEF Next, LoopStep

LEMMA PostingsInit == Init => Postings
BY DEF Init, Postings, Reported, Has, Once

LEMMA PostingsKept == Types /\ Postings /\ [Next]_vars => Postings'
<1> SUFFICES ASSUME Types, Postings, [Next]_vars, NEW c \in Checks
             PROVE  /\ Reported(c)' => phase'[c] = "over"
                    /\ Once(events, <<"report", c>>)'
                    /\ phase'[c] \in {"done", "emitting"} => c \notin withdrawn'
  BY DEF Postings, Reported
<1>1. /\ Reported(c) => phase[c] = "over"
      /\ Once(events, <<"report", c>>)
      /\ phase[c] \in {"done", "emitting"} => c \notin withdrawn
  BY DEF Postings
<1>2. Emit(c) => phase[c] = "emitting" /\ phase'[c] = "over"
  BY DEF Emit, Types, CheckTypes
<1>3. QED
  BY <1>1, <1>2, PhaseSteps, ReportsLeft

\* What a step of check_relay leaves: a verdict when it returns one, none that
\* was there before otherwise, and nothing new of the other relays.
LEMMA RelayStepKinds ==
  ASSUME Types, NEW x \in Pairs, RelayStep(x)
  PROVE  /\ \A y \in Pairs \ {x} : pc'[y] = pc[y] /\ verdict'[y] = verdict[y]
         /\ \/ \E v \in Verdict \ {Unjudged} : Return(x, v)
            \/ /\ UNCHANGED verdict
               /\ \/ pc'[x] \in {"ours", "page"}
                  \/ x[1] \in withdrawn
                  \/ pc[x] = "closing" /\ pc'[x] = "ended"
<1> USE DEF Types, CheckTypes
<1>1. ASSUME NEW v, Return(x, v)
      PROVE  \A y \in Pairs \ {x} : pc'[y] = pc[y] /\ verdict'[y] = verdict[y]
  BY <1>1 DEF Return
<1>2. CASE Connected(x)
  BY <1>2 DEF Connected
<1>3. CASE Unreachable(x)
  <2>1. Result("unreachable", NoBits) \in Verdict \ {Unjudged}
    BY DEF Result, Verdict, Status, Unjudged
  <2>2. QED
    BY <1>1, <1>3, <2>1 DEF Unreachable
<1>4. CASE Raises(x)
  <2>1. Result("error", NoBits) \in Verdict \ {Unjudged}
    BY DEF Result, Verdict, Status, Unjudged
  <2>2. QED
    BY <1>1, <1>4, <2>1 DEF Raises
<1>5. CASE RelayCancelled(x)
  BY <1>5 DEF RelayCancelled
<1>6. CASE Close(x)
  BY <1>6 DEF Close
<1>7. ASSUME NEW got \in 0 .. Limit, OursArrived(x, got)
      PROVE  /\ \A y \in Pairs \ {x} : pc'[y] = pc[y] /\ verdict'[y] = verdict[y]
             /\ \/ \E v \in Verdict \ {Unjudged} : Return(x, v)
                \/ UNCHANGED verdict /\ pc'[x] = "page"
  <2>1. CASE got = 0
    <3>1. Result("no_event", NoBits) \in Verdict \ {Unjudged}
      BY DEF Result, Verdict, Status, Unjudged
    <3>2. QED
      BY <1>1, <1>7, <2>1, <3>1 DEF OursArrived
  <2>2. CASE got # 0
    <3>1. PICK o \in OursOn(x[2], at[x]) : Judge(x, o)
      BY <1>7, <2>2 DEF OursArrived
    <3>2. o \in Offer /\ at[x] \in Int /\ wanted[x[1]] \in Nat
      BY BoundAssumption, WantedType DEF OursOn, RelayTypes, Pairs
    <3>3. CASE Evaluate(o, at[x], wanted[x[1]]) = "discoverable"
      BY <3>1, <3>3 DEF Judge
    <3>4. CASE Evaluate(o, at[x], wanted[x[1]]) # "discoverable"
      <4>1. Return(x, Result(Evaluate(o, at[x], wanted[x[1]]), BitsOf(o, at[x], wanted[x[1]])))
        BY <3>1, <3>4 DEF Judge
      <4>2. QED
        BY <1>1, <3>2, <4>1, EvaluateRules
    <3>5. QED
      BY <3>3, <3>4
  <2>3. QED
    BY <2>1, <2>2
<1>8. ASSUME NEW got \in 0 .. Limit, PageArrived(x, got)
      PROVE  /\ \A y \in Pairs \ {x} : pc'[y] = pc[y] /\ verdict'[y] = verdict[y]
             /\ \E v \in Verdict \ {Unjudged} : Return(x, v)
  <2>1. PICK s \in {"discoverable", "crowded_out", "no_event"} : Return(x, Result(s, judged[x]))
    BY <1>8 DEF PageArrived
  <2>2. Result(s, judged[x]) \in Verdict \ {Unjudged}
    BY DEF Result, Verdict, Status, Unjudged
  <2>3. QED
    BY <1>1, <2>1, <2>2
<1>9. QED
  BY <1>2, <1>3, <1>4, <1>5, <1>6, <1>7, <1>8 DEF RelayStep, ConnectEnds, QueryEnds

\* Of one relay of one check, whatever the step.
LEMMA VerdictSteps ==
  ASSUME Types, [Next]_vars, NEW x \in Pairs
  PROVE  /\ verdict'[x] = verdict[x] \/ verdict'[x] # Unjudged
         /\ pc'[x] \in {"closing", "ended"} =>
              \/ verdict'[x] # Unjudged
              \/ x[1] \in withdrawn
              \/ pc[x] \in {"closing", "ended"}
<1> USE DEF Types, CheckTypes
<1>1. ASSUME NEW y \in Pairs, RelayStep(y), y # x PROVE pc'[x] = pc[x] /\ verdict'[x] = verdict[x]
  BY <1>1, RelayStepKinds
<1>2. ASSUME RelayStep(x)
      PROVE  \/ verdict'[x] # Unjudged
             \/ UNCHANGED verdict /\ (pc'[x] \in {"ours", "page"} \/ x[1] \in withdrawn \/ pc[x] = "closing")
  BY <1>2, RelayStepKinds DEF Return
<1>3. ASSUME NEW c \in Checks, StartCheck(c) PROVE verdict' = verdict /\ (pc'[x] = pc[x] \/ pc'[x] = "connect")
  BY <1>3 DEF StartCheck, Pairs
<1>4. ASSUME NEW c \in Checks, Gathered(c) \/ Done(c) \/ Emit(c) PROVE UNCHANGED <<verdict, pc>>
  BY <1>4 DEF Gathered, Done, Emit
<1>5. CASE QtStep
  BY <1>5 DEF QtStep, AddTab, RemoveTab, QtEvent, Click, checkVars
<1>6. CASE Environment
  BY <1>6, EnvironmentTypes DEF checkVars
<1>7. CASE UNCHANGED vars
  BY <1>7 DEF vars, checkVars
<1>8. ASSUME NEW c \in Checks, LoopStep(c)
      PROVE  \/ \E y \in Pairs : RelayStep(y)
             \/ StartCheck(c) \/ Gathered(c) \/ Done(c) \/ Emit(c)
  BY <1>8 DEF LoopStep, Pairs
<1>9. CASE \E y \in Pairs : RelayStep(y)
  BY <1>1, <1>2, <1>9
<1>10. QED
  BY <1>3, <1>4, <1>5, <1>6, <1>7, <1>8, <1>9 DEF Next

LEMMA AnswersInit == Init => Answers
BY DEF Init, Answers, Reported, Has, Pairs

LEMMA AnswersKept == Types /\ Postings /\ Answers /\ [Next]_vars => Answers'
<1> SUFFICES ASSUME Types, Postings, Answers, [Next]_vars, NEW c \in Checks
             PROVE  /\ \A r \in Relays :
                         pc'[<<c, r>>] \in {"closing", "ended"} /\ c \notin withdrawn'
                           => verdict'[<<c, r>>] # Unjudged
                    /\ phase'[c] \in {"done", "emitting"} \/ Reported(c)'
                         => \A r \in asked'[c] : verdict'[<<c, r>>] # Unjudged
  BY DEF Answers, Answered, Reported
<1>1. /\ Reported(c) => phase[c] = "over"
      /\ phase[c] \in {"done", "emitting"} => c \notin withdrawn
  BY DEF Postings
<1>2. c \in withdrawn => c \in withdrawn'
  BY PhaseSteps
<1>3. ASSUME NEW r \in Relays, pc'[<<c, r>>] \in {"closing", "ended"}, c \notin withdrawn'
      PROVE  verdict'[<<c, r>>] # Unjudged
  <2>1. <<c, r>> \in Pairs /\ <<c, r>>[1] = c /\ c \notin withdrawn
    BY <1>2, <1>3 DEF Pairs
  <2>2. QED
    BY <1>3, <2>1, VerdictSteps DEF Answers
<1>4. ASSUME phase'[c] \in {"done", "emitting"} \/ Reported(c)'
      PROVE  \A r \in asked'[c] : verdict'[<<c, r>>] # Unjudged
  <2>1. asked'[c] = asked[c] /\ asked[c] \subseteq Relays
    <3>1. asked'[c] = asked[c]
      <4>1. CASE Click(c)
        BY <1>1, <1>4, <4>1, ReportsLeft DEF Click, Emit, Types, CheckTypes
      <4>2. ASSUME NEW d \in Checks, d # c, Click(d) PROVE asked'[c] = asked[c]
        BY <4>2 DEF Click, Types, QtTypes
      <4>3. CASE QtStep
        BY <4>1, <4>2, <4>3 DEF QtStep, AddTab, RemoveTab, QtEvent
      <4>4. CASE Environment
        BY <4>4, EnvironmentTypes DEF qtVars
      <4>5. ASSUME NEW d \in Checks, LoopStep(d) PROVE asked' = asked
        <5>1. ASSUME NEW r \in Relays, RelayStep(<<d, r>>) PROVE asked' = asked
          BY <5>1, RelayStepTypes DEF Pairs, checkFrame, qtVars
        <5>2. QED
          BY <4>5, <5>1, CheckStepTypes DEF LoopStep
      <4>6. QED
        BY <4>3, <4>4, <4>5 DEF Next, vars, qtVars
    <3>2. QED
      BY <3>1 DEF Types, QtTypes
  <2>2. CASE phase[c] \in {"done", "emitting"} \/ Reported(c)
    <3>1. \A r \in asked[c] : verdict[<<c, r>>] # Unjudged
      BY <2>2 DEF Answers, Answered
    <3>2. QED
      BY <2>1, <3>1, VerdictSteps DEF Pairs
  <2>3. CASE Gathered(c) /\ phase'[c] = "done"
    <3>1. c \notin withdrawn /\ UNCHANGED verdict /\ \A r \in asked[c] : pc[<<c, r>>] = "ended"
      BY <2>3 DEF Gathered, Types, CheckTypes
    <3>2. QED
      BY <2>1, <3>1 DEF Answers
  <2>4. QED
    <3>1. Emit(c) => phase[c] = "emitting"
      BY DEF Emit
    <3>2. QED
      BY <1>4, <2>2, <2>3, <3>1, PhaseSteps, ReportsLeft
<1>5. QED
  BY <1>3, <1>4

\* A report that reaches the tab is complete: a verdict on every relay that was
\* asked, whatever the order in which connections, deadlines, cancellations and
\* the tab's end arrive.
THEOREM ReportsComplete == Spec => []ReportComplete
<1>1. Types /\ Answers => ReportComplete
  <2> SUFFICES ASSUME Types, Answers, NEW i \in DOMAIN events, events[i][1] = "report"
               PROVE  \A r \in asked[events[i][2]] : verdict[<<events[i][2], r>>] # Unjudged
    BY DEF ReportComplete
  <2>1. events[i] \in Event
    BY LenProperties DEF Types, QtTypes
  <2>2. PICK c \in Checks : events[i] = <<"report", c>>
    BY <2>1 DEF Event
  <2>3. Reported(c) /\ events[i][2] = c
    BY <2>2 DEF Reported, Has
  <2>4. QED
    BY <2>3 DEF Answers, Answered
<1>2. QED
  BY <1>1, InitTypes, TypesKept, PostingsInit, PostingsKept, AnswersInit, AnswersKept, PTL DEF Spec

-----------------------------------------------------------------------------
(* The button.                                                             *)

\* The tab shown waits for check c.
Awaits(c) == Outstanding(c) /\ asker[c] = tab

\* A check that was started has a tab that asked for it.
Askers == \A c \in Checks : (phase[c] # "none" => asker[c] # 0) /\ (c \in withdrawn => phase[c] # "none")

LEMMA AskersInit == Init => Askers
BY DEF Init, Askers

LEMMA AskersKept == Types /\ Askers /\ [Next]_vars => Askers'
<1> SUFFICES ASSUME Types, Askers, [Next]_vars, NEW c \in Checks
             PROVE  (phase'[c] # "none" => asker'[c] # 0) /\ (c \in withdrawn' => phase'[c] # "none")
  BY DEF Askers
<1>1. (phase[c] # "none" => asker[c] # 0) /\ (c \in withdrawn => phase[c] # "none")
  BY DEF Askers
<1>2. Click(c) => asker'[c] # 0
  BY DEF Click, Types, QtTypes
<1>3. ~Click(c) => asker'[c] = asker[c]
  <2> SUFFICES ASSUME ~Click(c) PROVE asker'[c] = asker[c]
    OBVIOUS
  <2>1. ASSUME NEW d \in Checks, d # c, Click(d) PROVE asker'[c] = asker[c]
    BY <2>1 DEF Click, Types, QtTypes
  <2>2. CASE QtStep
    BY <2>1, <2>2 DEF QtStep, AddTab, RemoveTab, QtEvent
  <2>3. CASE Environment
    BY <2>3, EnvironmentTypes DEF qtVars
  <2>4. ASSUME NEW d \in Checks, LoopStep(d) PROVE asker' = asker
    <3>1. ASSUME NEW r \in Relays, RelayStep(<<d, r>>) PROVE asker' = asker
      BY <3>1, RelayStepTypes DEF Pairs, checkFrame, qtVars
    <3>2. QED
      BY <2>4, <3>1, CheckStepTypes DEF LoopStep
  <2>5. QED
    BY <2>2, <2>3, <2>4 DEF Next, vars, qtVars
<1>4. QED
  BY <1>1, <1>2, <1>3, PhaseSteps

\* A step that leaves the tab shown, its button, its future and what it waits for
\* leaves the button honest.
LEMMA ButtonFrame ==
  ASSUME ButtonHonest, UNCHANGED <<tab, checkFut, checking>>,
         \A c \in Checks : Awaits(c)' <=> Awaits(c)
  PROVE  ButtonHonest'
BY DEF ButtonHonest, Awaits

LEMMA ButtonInit == Init => ButtonHonest
BY DEF Init, ButtonHonest, Outstanding

LEMMA ButtonKept ==
  Types /\ Postings /\ Askers /\ ButtonHonest /\ [Next]_vars => ButtonHonest'
<1> SUFFICES ASSUME Types, Postings, Askers, ButtonHonest, [Next]_vars PROVE ButtonHonest'
  OBVIOUS
<1>1. \A c \in Checks : /\ Reported(c) => phase[c] = "over"
                        /\ Once(events, <<"report", c>>)
                        /\ phase[c] \in {"done", "emitting"} => c \notin withdrawn
                        /\ phase[c] # "none" => asker[c] # 0
                        /\ c \in withdrawn => phase[c] # "none"
  BY DEF Postings, Askers
<1>2. \A c \in Checks :
        /\ Outstanding(c) <=> \/ phase[c] \in {"spawned", "running", "done", "emitting"}
                                   /\ c \notin withdrawn
                              \/ Reported(c)
        /\ Outstanding(c)' <=> \/ phase'[c] \in {"spawned", "running", "done", "emitting"}
                                    /\ c \notin withdrawn'
                               \/ Reported(c)'
  BY DEF Outstanding, Reported, Has
<1>3. ASSUME UNCHANGED <<tab, checkFut, checking, events, asker, phase, withdrawn>>
      PROVE  ButtonHonest'
  BY <1>3, ButtonFrame DEF Awaits, Outstanding
<1>4. CASE AddTab
  <2>1. \A c \in Checks : asker'[c] # tab'
    BY <1>4 DEF AddTab, Types, QtTypes
  <2>2. tab' \notin checking'
    BY <1>4 DEF AddTab, Types, QtTypes
  <2>3. QED
    BY <2>1, <2>2 DEF ButtonHonest
<1>5. ASSUME NEW d \in Checks, Click(d) PROVE ButtonHonest'
  <2>1. /\ tab' = tab /\ tab # 0 /\ checkFut' = d /\ checking' = checking \cup {tab}
        /\ phase'[d] = "spawned" /\ asker'[d] = tab
        /\ \A c \in Checks \ {d} : phase'[c] = phase[c] /\ asker'[c] = asker[c]
        /\ events' = events /\ withdrawn' = withdrawn /\ phase[d] = "none"
    BY <1>5 DEF Click, Types, QtTypes, CheckTypes
  <2>2. \A c \in Checks : ~Awaits(c)
    BY <1>5 DEF Click, ButtonHonest, Awaits
  <2>3. Outstanding(d)'
    BY <1>1, <1>2, <2>1
  <2>4. \A c \in Checks \ {d} : Outstanding(c)' <=> Outstanding(c)
    BY <1>2, <2>1 DEF Reported
  <2>5. QED
    BY <2>1, <2>2, <2>3, <2>4 DEF ButtonHonest, Awaits
<1>6. CASE RemoveTab
  <2>1. ASSUME NEW c \in Checks, Outstanding(c)' PROVE asker'[c] # tab'
    <3>1. tab' = 0 /\ UNCHANGED <<asker, phase>>
      BY <1>6 DEF RemoveTab
    <3>2. Reported(c)' => Reported(c)
      BY <3>1, ReportsLeft DEF Emit, Types, CheckTypes
    <3>3. QED
      BY <1>1, <1>2, <2>1, <3>1, <3>2
  <2>2. QED
    BY <1>6, <2>1 DEF RemoveTab, ButtonHonest
<1>7. CASE QtEvent
  <2>1. /\ events # <<>> /\ events' = Tail(events) /\ events \in Seq(Event)
        /\ UNCHANGED <<tab, checkFut, asker, phase, withdrawn>>
    BY <1>7 DEF QtEvent, checkVars, Types, QtTypes
  <2>2. \A c \in Checks : Head(events) # <<"report", c>> => (Outstanding(c)' <=> Outstanding(c))
    <3>1. \A c \in Checks : Head(events) # <<"report", c>> => (Reported(c)' <=> Reported(c))
      BY <2>1, TailFacts DEF Reported
    <3>2. QED
      BY <1>2, <2>1, <3>1
  <2>3. CASE Head(events)[1] = "delete" /\ UNCHANGED checking
    <3>1. \A c \in Checks : Head(events) # <<"report", c>>
      BY <2>3
    <3>2. QED
      BY <2>1, <2>2, <2>3, <3>1, ButtonFrame DEF Awaits
  <2>4. CASE Head(events)[1] = "report" /\ checking' = checking \ {asker[Head(events)[2]]}
    <3>1. PICK d \in Checks : Head(events) = <<"report", d>>
      <4>1. Head(events) \in Event
        BY <2>1, TailFacts
      <4>2. QED
        BY <2>4, <4>1 DEF Event
    <3>2. Head(events)[2] = d /\ \A c \in Checks \ {d} : Head(events) # <<"report", c>>
      BY <3>1
    <3>3. Outstanding(d) /\ ~Outstanding(d)'
      <4>1. Has(events, <<"report", d>>) /\ ~Has(events', <<"report", d>>)
        BY <1>1, <2>1, <3>1, TailFacts
      <4>2. QED
        BY <1>1, <1>2, <2>1, <4>1 DEF Reported
    <3>4. checking' = checking \ {asker[d]}
      BY <2>4, <3>2
    <3>5. \A c \in Checks \ {d} : Outstanding(c)' <=> Outstanding(c)
      BY <2>2, <3>2
    <3>6. CASE asker[d] = tab
      <4>1. d = checkFut
        BY <3>3, <3>6 DEF ButtonHonest
      <4>2. QED
        BY <2>1, <3>3, <3>4, <3>5, <3>6, <4>1 DEF ButtonHonest
    <3>7. CASE asker[d] # tab
      BY <2>1, <3>3, <3>4, <3>5, <3>7 DEF ButtonHonest
    <3>8. QED
      BY <3>6, <3>7
  <2>5. QED
    BY <1>7, <2>3, <2>4 DEF QtEvent
<1>8. ASSUME NEW d \in Checks, StartCheck(d) \/ Gathered(d) \/ Done(d)
      PROVE  ButtonHonest'
  <2>1. UNCHANGED <<tab, checkFut, checking, events, asker, withdrawn>>
    BY <1>8 DEF StartCheck, Gathered, Done, checkFrame, qtVars
  <2>2. \A c \in Checks \ {d} : phase'[c] = phase[c]
    BY <1>8 DEF StartCheck, Gathered, Done, Types, CheckTypes
  <2>3. \/ d \in withdrawn /\ phase[d] \in {"spawned", "running"} /\ phase'[d] = "over"
        \/ /\ phase[d] \in {"spawned", "running", "done"}
           /\ phase'[d] \in {"running", "done", "emitting"}
        \/ asker[d] # tab
    BY <1>8 DEF StartCheck, Gathered, Done, Types, CheckTypes
  <2>4. \A c \in Checks : Awaits(c)' <=> Awaits(c)
    BY <1>2, <2>1, <2>2, <2>3 DEF Awaits, Reported
  <2>5. QED
    BY <2>1, <2>4, ButtonFrame
<1>9. ASSUME NEW d \in Checks, Emit(d) PROVE ButtonHonest'
  <2>1. /\ UNCHANGED <<tab, checkFut, checking, asker, withdrawn>>
        /\ phase[d] = "emitting" /\ phase'[d] = "over"
        /\ \A c \in Checks \ {d} : phase'[c] = phase[c]
        /\ events' = IF asker[d] \in deleted THEN events ELSE Append(events, <<"report", d>>)
    BY <1>9 DEF Emit, Types, CheckTypes
  <2>2. \A c \in Checks : Awaits(c)' <=> Awaits(c)
    <3>1. events \in Seq(Event) /\ <<"report", d>> \in Event
      BY DEF Types, QtTypes, Event
    <3>2. CASE asker[d] \in deleted
      <4>1. asker[d] # tab
        BY <3>2 DEF Types, QtTypes
      <4>2. QED
        BY <1>2, <2>1, <3>2, <4>1 DEF Awaits, Reported
    <3>3. CASE asker[d] \notin deleted
      <4>1. \A c \in Checks : Reported(c)' <=> Reported(c) \/ c = d
        <5>1. events' = Append(events, <<"report", d>>)
          BY <2>1, <3>3
        <5>2. \A c \in Checks : <<"report", c>> = <<"report", d>> <=> c = d
          OBVIOUS
        <5>3. QED
          BY <3>1, <5>1, <5>2, AppendFacts DEF Reported
      <4>2. QED
        BY <1>1, <1>2, <2>1, <4>1 DEF Awaits
    <3>4. QED
      BY <3>2, <3>3
  <2>3. QED
    BY <2>1, <2>2, ButtonFrame
<1>10. ASSUME NEW x \in Pairs, RelayStep(x) PROVE ButtonHonest'
  BY <1>3, <1>10, RelayStepTypes DEF checkFrame, qtVars
<1>11. CASE Environment
  BY <1>3, <1>11, EnvironmentTypes DEF qtVars, checkVars
<1>12. CASE UNCHANGED vars
  BY <1>3, <1>12 DEF vars, qtVars, checkVars
<1>13. QED
  BY <1>4, <1>5, <1>6, <1>7, <1>8, <1>9, <1>10, <1>11, <1>12 DEF Next, QtStep, LoopStep, Pairs

\* The button of the tab shown is off exactly while one check is outstanding, the
\* one clean_up would cancel, for any number of tabs and checks and however
\* reports, deletions and cancellations overtake each other.
THEOREM ButtonSafe == Spec => []ButtonHonest
BY InitTypes, TypesKept, PostingsInit, PostingsKept, AskersInit, AskersKept, ButtonInit, ButtonKept,
   PTL DEF Spec

-----------------------------------------------------------------------------
(* The verdicts.  Three things are asked of what is around the check: the      *)
(* announce loop publishes no work below the target (OfferMeetsTarget), no     *)
(* query outlasts the lookback (the deadlines are far shorter), and a wallet   *)
(* does not go back to an older Electrum.                                      *)

HonestWork == \A b \in Bits, w \in Targets : b >= w
Prompt == \A x \in Pairs : pc[x] \in {"ours", "page"} => now - at[x] <= Lookback
OlderFirst == IsFiniteSet(Offers) /\ \A o \in Offers : o.version # Version => o.created < Start

Announced(b, t) == [version |-> Version, net |-> Net, parses |-> TRUE, complete |-> TRUE,
                    bits |-> b, created |-> t]

\* What a step does to the offers we have on a relay.
LEMMA HeldSteps ==
  ASSUME Types, [Next]_vars, NEW r \in Relays
  PROVE  \/ held'[r] \subseteq held[r]
         \/ \E b \in Bits :
              held'[r] = {o \in held[r] : o.version # Version} \cup {Announced(b, now)}
<1> USE DEF Types, RelayTypes
<1>1. CASE UNCHANGED held
  BY <1>1
<1>2. ASSUME NEW q \in Relays, NEW b \in Bits, Publish(q, b)
      PROVE  \/ held'[r] = held[r]
             \/ held'[r] = {o \in held[r] : o.version # Version} \cup {Announced(b, now)}
  <2>1. held' = [held EXCEPT ![q] = (@ \ {o \in held[q] : o.version = Version}) \cup {Announced(b, now)}]
    BY <1>2 DEF Publish, Announced
  <2>2. held[r] \ {o \in held[r] : o.version = Version} = {o \in held[r] : o.version # Version}
    OBVIOUS
  <2>3. QED
    BY <2>1, <2>2
<1>3. ASSUME NEW q \in Relays, NEW o \in held[q], Expire(q, o) PROVE held'[r] \subseteq held[r]
  BY <1>3 DEF Expire
<1>4. CASE Environment
  BY <1>1, <1>2, <1>3, <1>4 DEF Environment, Tick, OtherPublishes, OtherExpires
<1>5. CASE QtStep
  BY <1>1, <1>5, QtStepTypes DEF relayVars
<1>6. ASSUME NEW c \in Checks, LoopStep(c) PROVE UNCHANGED held
  <2>1. ASSUME NEW q \in Relays, RelayStep(<<c, q>>) PROVE UNCHANGED held
    BY <2>1, RelayStepTypes DEF Pairs, checkFrame, relayVars
  <2>2. QED
    BY <1>6, <2>1, CheckStepTypes DEF LoopStep, relayVars
<1>7. QED
  BY <1>1, <1>4, <1>5, <1>6 DEF Next, vars, relayVars

\* A relay has one offer of ours under this version's d tag.
Sole == \A r \in Relays : \A o, p \in held[r] : o.version = Version /\ p.version = Version => o = p

LEMMA SoleInit == Init => Sole
<1> SUFFICES ASSUME Init, NEW r \in Relays, NEW o \in held[r], NEW p \in held[r],
                    o.version = Version, p.version = Version
             PROVE  o = p
  BY DEF Sole
<1>1. held[r] \in Holdings
  BY DEF Init
<1>2. QED
  BY <1>1 DEF Holdings

LEMMA SoleKept == Types /\ Sole /\ [Next]_vars => Sole'
<1> SUFFICES ASSUME Types, Sole, [Next]_vars, NEW r \in Relays, NEW o \in held'[r], NEW p \in held'[r],
                    o.version = Version, p.version = Version
             PROVE  o = p
  BY DEF Sole
<1>1. QED
  BY HeldSteps DEF Sole

\* A relay has finitely many, and what older versions left there is older.
Older ==
  \A r \in Relays :
    /\ IsFiniteSet(held[r])
    /\ \A p \in held[r] : p.version # Version =>
         p.created < Start /\ \A o \in held[r] : o.version = Version => p.created < o.created

LEMMA OlderInit == ASSUME OlderFirst, Init PROVE Older
<1> SUFFICES ASSUME NEW r \in Relays
             PROVE  /\ IsFiniteSet(held[r])
                    /\ \A p \in held[r] : p.version # Version =>
                         p.created < Start /\ \A o \in held[r] : o.version = Version => p.created < o.created
  BY DEF Older
<1>1. held[r] \in Holdings /\ held[r] \subseteq Offers
  BY DEF Init, Holdings
<1>2. IsFiniteSet(held[r])
  BY <1>1, FS_Subset DEF OlderFirst
<1>3. QED
  BY <1>1, <1>2 DEF OlderFirst, Holdings

LEMMA OlderKept == ASSUME Types, Older, [Next]_vars PROVE Older'
<1> SUFFICES ASSUME NEW r \in Relays
             PROVE  /\ IsFiniteSet(held'[r])
                    /\ \A p \in held'[r] : p.version # Version =>
                         p.created < Start /\ \A o \in held'[r] : o.version = Version => p.created < o.created
  BY DEF Older
<1>1. CASE held'[r] \subseteq held[r]
  BY <1>1, FS_Subset DEF Older
<1>2. ASSUME NEW b \in Bits,
             held'[r] = {o \in held[r] : o.version # Version} \cup {Announced(b, now)}
      PROVE  /\ IsFiniteSet(held'[r])
             /\ \A p \in held'[r] : p.version # Version =>
                  p.created < Start /\ \A o \in held'[r] : o.version = Version => p.created < o.created
  <2>1. IsFiniteSet(held'[r])
    <3>1. {o \in held[r] : o.version # Version} \subseteq held[r] /\ IsFiniteSet(held[r])
      BY DEF Older
    <3>2. IsFiniteSet({o \in held[r] : o.version # Version})
      BY <3>1, FS_Subset
    <3>3. QED
      BY <1>2, <3>2, FS_AddElement
  <2>2. ASSUME NEW p \in held'[r], p.version # Version PROVE p \in held[r] /\ p.created < Start
    BY <1>2, <2>2 DEF Older, Announced
  <2>3. ASSUME NEW p \in held[r], p.created < Start, NEW o \in held'[r], o.version = Version
        PROVE  p.created < o.created
    <3>1. o = Announced(b, now)
      BY <1>2, <2>3
    <3>2. p.created \in Int /\ now \in Start .. End /\ o.created = now
      BY <3>1 DEF Types, RelayTypes, Offer, Announced
    <3>3. QED
      BY <2>3, <3>2, BoundAssumption
  <2>4. QED
    BY <2>1, <2>2, <2>3
<1>3. QED
  BY <1>1, <1>2, HeldSteps

\* check_relay for one relay leaves the others alone.
Alone(y) ==
  /\ pc'[y] = pc[y] /\ at'[y] = at[y] /\ verdict'[y] = verdict[y]
  /\ (y \in found' <=> y \in found) /\ (y \in steady' <=> y \in steady) /\ (y \in cut' <=> y \in cut)

LEMMA RelayFrame ==
  ASSUME Types, NEW x \in Pairs, RelayStep(x), NEW y \in Pairs, y # x PROVE Alone(y)
<1> USE DEF Types, CheckTypes
<1>1. pc'[y] = pc[y] /\ verdict'[y] = verdict[y]
  BY RelayStepKinds
<1>2. ASSUME NEW v, Return(x, v) PROVE at'[y] = at[y]
  BY <1>2 DEF Return
<1>3. CASE Connected(x)
  BY <1>1, <1>3 DEF Connected, Alone
<1>4. CASE Unreachable(x) \/ Raises(x)
  BY <1>1, <1>2, <1>4 DEF Unreachable, Raises, history, Alone
<1>5. CASE RelayCancelled(x) \/ Close(x)
  BY <1>1, <1>5 DEF RelayCancelled, Close, history, Alone
<1>6. ASSUME NEW got \in 0 .. Limit, OursArrived(x, got) PROVE Alone(y)
  <2>1. UNCHANGED <<found, steady>> /\ (y \in cut' <=> y \in cut)
    BY <1>6 DEF OursArrived, Cut
  <2>2. at'[y] = at[y]
    BY <1>2, <1>6 DEF OursArrived, Judge
  <2>3. QED
    BY <1>1, <2>1, <2>2 DEF Alone
<1>7. ASSUME NEW got \in 0 .. Limit, PageArrived(x, got) PROVE Alone(y)
  <2>1. UNCHANGED <<found, steady>> /\ (y \in cut' <=> y \in cut)
    BY <1>7 DEF PageArrived, Cut
  <2>2. at'[y] = at[y]
    BY <1>2, <1>7 DEF PageArrived
  <2>3. QED
    BY <1>1, <2>1, <2>2 DEF Alone
<1>8. QED
  BY <1>3, <1>4, <1>5, <1>6, <1>7 DEF RelayStep, ConnectEnds, QueryEnds

\* What the check has of a relay before it judges: no verdict, a clock that is not
\* ahead, and before it is connected nothing at all.
Stage(x) ==
  /\ at[x] <= now
  /\ pc[x] \in {"none", "connect"} => x \notin found /\ x \notin steady
  /\ pc[x] \in {"none", "connect", "ours", "page"} => verdict[x] = Unjudged
  /\ phase[x[1]] \in {"none", "spawned"} => pc[x] = "none"
Stages == \A x \in Pairs : Stage(x)

LEMMA StagesInit == Init => Stages
BY BoundAssumption DEF Init, Stages, Stage, Pairs

\* A verdict is only there once the relay is closing.
LEMMA StageStep ==
  ASSUME Types, Stages, NEW x \in Pairs, RelayStep(x), phase[x[1]] \notin {"none", "spawned"}
  PROVE  Stage(x)'
<1> USE DEF Types, CheckTypes, RelayTypes
<1>1. Stage(x) /\ UNCHANGED <<now, phase>>
  BY RelayStepTypes DEF Stages, checkFrame, relayVars
<1>2. ASSUME NEW v, Return(x, v) PROVE pc'[x] = "closing" /\ at'[x] = at[x]
  BY <1>2 DEF Return
<1>3. CASE Connected(x)
  BY <1>1, <1>3, BoundAssumption DEF Connected, Stage
<1>4. CASE Unreachable(x) \/ Raises(x)
  BY <1>1, <1>2, <1>4 DEF Unreachable, Raises, Stage
<1>5. CASE RelayCancelled(x) \/ Close(x)
  BY <1>1, <1>5 DEF RelayCancelled, Close, Stage
<1>6. ASSUME NEW got \in 0 .. Limit, OursArrived(x, got) PROVE Stage(x)'
  <2>1. (\E v : Return(x, v)) \/ (pc'[x] = "page" /\ UNCHANGED <<at, verdict>>)
    BY <1>6 DEF OursArrived, Judge
  <2>2. pc[x] = "ours"
    BY <1>6 DEF OursArrived
  <2>3. QED
    BY <1>1, <1>2, <2>1, <2>2 DEF Stage
<1>7. ASSUME NEW got \in 0 .. Limit, PageArrived(x, got) PROVE Stage(x)'
  BY <1>1, <1>2, <1>7 DEF PageArrived, Stage
<1>8. QED
  BY <1>3, <1>4, <1>5, <1>6, <1>7 DEF RelayStep, ConnectEnds, QueryEnds

LEMMA StagesKept == Types /\ Stages /\ [Next]_vars => Stages'
<1> SUFFICES ASSUME Types, Stages, [Next]_vars, NEW x \in Pairs PROVE Stage(x)'
  BY DEF Stages
<1>1. Stage(x) /\ x[1] \in Checks
  BY DEF Stages, Pairs
<1>2. phase'[x[1]] \in {"none", "spawned"} => phase[x[1]] \in {"none", "spawned"}
  BY <1>1, PhaseSteps DEF Types, CheckTypes
<1>3. ASSUME UNCHANGED <<now, pc, at, verdict, found, steady>> PROVE Stage(x)'
  BY <1>1, <1>2, <1>3 DEF Stage
<1>4. CASE UNCHANGED vars
  BY <1>3, <1>4 DEF vars, relayVars, checkVars, history
<1>5. CASE Environment
  <2>1. UNCHANGED <<pc, at, verdict>>
    BY <1>5, EnvironmentTypes DEF checkVars
  <2>2. at[x] <= now'
    <3>1. at[x] <= now /\ at[x] \in Int /\ now \in Int
      BY <1>1, BoundAssumption DEF Stage, Types, CheckTypes, RelayTypes
    <3>2. now' = now \/ now' = now + 1
      BY <1>5 DEF Environment, Tick, OtherPublishes, OtherExpires, Publish, Expire
    <3>3. QED
      BY <3>1, <3>2
  <2>3. steady' \subseteq steady /\ (pc[x] \in {"none", "connect"} /\ x \in found' => x \in found)
    BY <1>5 DEF Environment, Tick, OtherPublishes, OtherExpires, Publish, Expire, Watch, Watched
  <2>4. QED
    BY <1>1, <1>2, <2>1, <2>2, <2>3 DEF Stage
<1>6. CASE QtStep
  <2>1. UNCHANGED <<now, pc, at, verdict, found, steady>>
    BY <1>6, QtStepTypes DEF relayVars, history, QtStep, AddTab, RemoveTab, QtEvent, Click, checkVars
  <2>2. QED
    BY <1>3, <2>1
<1>7. ASSUME NEW c \in Checks, Gathered(c) \/ Done(c) \/ Emit(c) PROVE Stage(x)'
  BY <1>3, <1>7, CheckStepTypes DEF relayVars, history, Gathered, Done, Emit
<1>8. ASSUME NEW c \in Checks, StartCheck(c) PROVE Stage(x)'
  <2>1. UNCHANGED <<now, at, verdict, found, steady>>
    BY <1>8 DEF StartCheck, checkFrame, relayVars, history
  <2>2. CASE UNCHANGED pc
    BY <1>3, <2>1, <2>2
  <2>3. CASE c \notin withdrawn
    <3>1. /\ pc' = [y \in Pairs |-> IF y[1] = c /\ y[2] \in asked[c] THEN "connect" ELSE pc[y]]
          /\ phase'[c] = "running" /\ phase[c] = "spawned"
      BY <1>8, <2>3 DEF StartCheck, Pairs, Types, CheckTypes
    <3>2. QED
      BY <1>1, <1>2, <2>1, <3>1 DEF Stage
  <2>4. QED
    BY <1>8, <2>2, <2>3 DEF StartCheck
<1>9. ASSUME NEW y \in Pairs, RelayStep(y) PROVE Stage(x)'
  <2>1. CASE y # x
    BY <1>1, <1>2, <1>9, <2>1, RelayFrame, RelayStepTypes DEF Stage, Alone, checkFrame, relayVars
  <2>2. CASE y = x
    <3>1. pc[x] # "none"
      BY <1>9, <2>2 DEF RelayStep, ConnectEnds, QueryEnds, Connected, Unreachable, OursArrived,
         PageArrived, Raises, RelayCancelled, Close
    <3>2. QED
      BY <1>1, <1>9, <2>2, <3>1, StageStep DEF Stage
  <2>3. QED
    BY <2>1, <2>2
<1>10. QED
  BY <1>4, <1>5, <1>6, <1>7, <1>8, <1>9 DEF Next, LoopStep, Pairs

\* A check keeps the target it was asked with.
LEMMA WantedKept ==
  ASSUME Types, Stages, [Next]_vars, NEW x \in Pairs, pc[x] # "none"
  PROVE  wanted'[x[1]] = wanted[x[1]]
<1>1. x[1] \in Checks /\ phase[x[1]] # "none"
  BY DEF Stages, Stage, Pairs
<1>2. CASE QtStep
  <2>1. ASSUME NEW c \in Checks, Click(c) PROVE wanted'[x[1]] = wanted[x[1]]
    BY <1>1, <2>1 DEF Click, Types, QtTypes
  <2>2. QED
    BY <1>2, <2>1 DEF QtStep, AddTab, RemoveTab, QtEvent
<1>3. CASE Environment
  BY <1>3, EnvironmentTypes DEF qtVars
<1>4. ASSUME NEW c \in Checks, LoopStep(c) PROVE UNCHANGED wanted
  <2>1. ASSUME NEW q \in Relays, RelayStep(<<c, q>>) PROVE UNCHANGED wanted
    BY <2>1, RelayStepTypes DEF Pairs, checkFrame, qtVars
  <2>2. QED
    BY <1>4, <2>1 DEF LoopStep, StartCheck, Gathered, Done, Emit, checkFrame, qtVars
<1>5. QED
  BY <1>2, <1>3, <1>4 DEF Next, vars, qtVars

\* What the check has seen.  The offer it judged good, or that was good all along,
\* is replaced only by one as good; what a taker found on the way is remembered.
Accepted(x) == \A o \in held[x[2]] : o.version = Version => TakerAccepts(o, at[x], wanted[x[1]])
Sight(x) ==
  /\ pc[x] = "page" \/ (pc[x] = "ours" /\ x \in steady) => Accepted(x)
  /\ pc[x] \in {"ours", "page"} /\ TakerFinds(x[2], at[x], wanted[x[1]]) => x \in found
  /\ pc[x] \in {"ours", "page"} /\ x \in steady => TakerFinds(x[2], now, wanted[x[1]])
Sights == \A x \in Pairs : Sight(x)

LEMMA SightsInit == Init => Sights
BY DEF Init, Sights, Sight, Pairs

\* The environment, while x is watched.
LEMMA SightEnvironment ==
  ASSUME Types, Stages, Sights, HonestWork, Prompt, Environment, NEW x \in Pairs
  PROVE  Sight(x)'
<1>1. Sight(x) /\ Stage(x) /\ x[2] \in Relays
  BY DEF Sights, Stages, Pairs
<1>2. UNCHANGED <<pc, at, wanted>> /\ Watch
  BY EnvironmentTypes DEF qtVars, checkVars, Environment, Tick, OtherPublishes, OtherExpires, Publish, Expire
<1>3. x \in steady' => x \in steady
  BY <1>2 DEF Watch
<1>4. ASSUME pc[x] \in {"ours", "page"}, Accepted(x) PROVE Accepted(x)'
  <2>1. ASSUME NEW b \in Bits PROVE TakerAccepts(Announced(b, now), at[x], wanted[x[1]])
    <3>1. /\ Announced(b, now).created = now /\ Announced(b, now).bits = b
          /\ Announced(b, now).version = Version /\ Announced(b, now).net = Net
          /\ Announced(b, now).parses /\ Announced(b, now).complete
      BY DEF Announced
    <3>2. now - at[x] <= Lookback /\ at[x] <= now /\ at[x] \in Int /\ now \in Int /\ Lookback \in Nat
      BY <1>1, <1>4, RuleAssumption, BoundAssumption DEF Prompt, Stage, Types, CheckTypes, RelayTypes
    <3>3. at[x] - now \in -Lookback .. Lookback
      BY <3>2
    <3>4. QED
      <4>1. wanted[x[1]] \in {0} \cup Targets /\ b >= 0
        BY RuleAssumption DEF Types, QtTypes, Pairs
      <4>2. QED
        BY <3>1, <3>3, <4>1 DEF TakerAccepts, Age, HonestWork
  <2>2. ASSUME NEW o \in held'[x[2]], o.version = Version PROVE TakerAccepts(o, at[x], wanted[x[1]])
    <3>1. o \in held[x[2]] \/ \E b \in Bits : o = Announced(b, now)
      BY <1>1, <2>2, HeldSteps DEF Next
    <3>2. QED
      BY <1>4, <2>1, <2>2, <3>1 DEF Accepted
  <2>3. QED
    BY <1>2, <2>2 DEF Accepted
<1>5. ASSUME pc[x] \in {"ours", "page"}, TakerFinds(x[2], at[x], wanted[x[1]])' PROVE x \in found'
  BY <1>2, <1>5 DEF Watch, Watched, Pairs
<1>6. ASSUME pc[x] \in {"ours", "page"}, x \in steady' PROVE TakerFinds(x[2], now, wanted[x[1]])'
  BY <1>2, <1>6 DEF Watch, Watched, Pairs
<1>7. QED
  BY <1>1, <1>2, <1>3, <1>4, <1>5, <1>6 DEF Sight

\* check_relay itself, while the relay stands still.
LEMMA SightStep ==
  ASSUME Types, Stages, Sole, Sights, NEW x \in Pairs, RelayStep(x)
  PROVE  Sight(x)'
<1> USE DEF Types, CheckTypes
<1>1. Sight(x) /\ Stage(x) /\ UNCHANGED <<now, held, ahead, behind, indexes, silent, wanted>>
  BY RelayStepTypes DEF Sights, Stages, checkFrame, relayVars, qtVars
<1>2. ASSUME pc'[x] \notin {"ours", "page"} PROVE Sight(x)'
  BY <1>2 DEF Sight
<1>3. ASSUME NEW v, Return(x, v) PROVE Sight(x)'
  BY <1>2, <1>3 DEF Return
<1>4. CASE Connected(x)
  <2>1. /\ pc'[x] = "ours" /\ at'[x] = now
        /\ IF TakerFinds(x[2], now, wanted[x[1]])
           THEN found' = found \cup {x} /\ steady' = steady \cup {x}
           ELSE UNCHANGED <<found, steady>>
    BY <1>4 DEF Connected
  <2>2. x \notin steady
    BY <1>1, <1>4 DEF Connected, Stage
  <2>3. TakerFinds(x[2], now, wanted[x[1]])' <=> TakerFinds(x[2], now, wanted[x[1]])
    BY <1>1 DEF TakerFinds
  <2>4. TakerFinds(x[2], at[x], wanted[x[1]])' <=> TakerFinds(x[2], now, wanted[x[1]])
    BY <1>1, <2>1 DEF TakerFinds
  <2>5. TakerFinds(x[2], now, wanted[x[1]]) => Accepted(x)'
    <3>1. x[2] \in Relays
      BY DEF Pairs
    <3>2. QED
      BY <1>1, <2>1, <3>1 DEF TakerFinds, Accepted, Sole, TakerAccepts
  <2>6. QED
    BY <2>1, <2>2, <2>3, <2>4, <2>5 DEF Sight
<1>5. CASE Unreachable(x) \/ Raises(x)
  BY <1>3, <1>5 DEF Unreachable, Raises
<1>6. CASE RelayCancelled(x) \/ Close(x)
  BY <1>2, <1>6 DEF RelayCancelled, Close
<1>7. ASSUME NEW got \in 0 .. Limit, OursArrived(x, got) PROVE Sight(x)'
  <2>1. CASE got = 0
    BY <1>3, <1>7, <2>1 DEF OursArrived
  <2>2. CASE got # 0
    <3>1. PICK o \in OursOn(x[2], at[x]) : Judge(x, o)
      BY <1>7, <2>2 DEF OursArrived
    <3>2. CASE Evaluate(o, at[x], wanted[x[1]]) = "discoverable"
      <4>1. pc[x] = "ours" /\ pc'[x] = "page" /\ UNCHANGED <<at, found, steady>>
        BY <1>7, <3>1, <3>2 DEF Judge, OursArrived
      <4>2. o \in held[x[2]] /\ x[2] \in Relays /\ TakerAccepts(o, at[x], wanted[x[1]])
        <5>1. o \in held[x[2]] /\ x[2] \in Relays /\ at[x] \in Int /\ wanted[x[1]] \in Nat
          BY BoundAssumption, WantedType DEF OursOn, Pairs
        <5>2. o \in Offer
          BY <5>1 DEF RelayTypes
        <5>3. QED
          BY <3>2, <5>1, <5>2, EvaluateRules
      <4>3. Accepted(x)
        BY <4>2 DEF Accepted, Sole, TakerAccepts
      <4>4. Accepted(x)'
        BY <1>1, <4>1, <4>3 DEF Accepted
      <4>5. TakerFinds(x[2], at[x], wanted[x[1]])' => TakerFinds(x[2], at[x], wanted[x[1]])
        BY <1>1, <4>1 DEF TakerFinds
      <4>6. TakerFinds(x[2], now, wanted[x[1]]) => TakerFinds(x[2], now, wanted[x[1]])'
        BY <1>1 DEF TakerFinds
      <4>7. QED
        BY <1>1, <4>1, <4>4, <4>5, <4>6 DEF Sight
    <3>3. CASE Evaluate(o, at[x], wanted[x[1]]) # "discoverable"
      BY <1>3, <3>1, <3>3 DEF Judge
    <3>4. QED
      BY <3>2, <3>3
  <2>3. QED
    BY <2>1, <2>2
<1>8. ASSUME NEW got \in 0 .. Limit, PageArrived(x, got) PROVE Sight(x)'
  BY <1>3, <1>8 DEF PageArrived
<1>9. QED
  BY <1>4, <1>5, <1>6, <1>7, <1>8 DEF RelayStep, ConnectEnds, QueryEnds

\* The steps of the Qt thread and of a check as a whole.
LEMMA SightRest ==
  ASSUME Sights, UNCHANGED <<relayVars, at, history>>, NEW x \in Pairs,
         pc'[x] = pc[x] \/ pc'[x] = "connect",
         pc[x] # "none" => wanted'[x[1]] = wanted[x[1]]
  PROVE  Sight(x)'
<1>1. Sight(x)
  BY DEF Sights
<1>2. CASE pc'[x] = "connect"
  BY <1>2 DEF Sight
<1>3. CASE pc'[x] = pc[x]
  BY <1>1, <1>3 DEF Sight, Accepted, TakerFinds, relayVars, history
<1>4. QED
  BY <1>2, <1>3

LEMMA SightsKept ==
  ASSUME HonestWork
  PROVE  Types /\ Stages /\ Sole /\ Sights /\ Prompt /\ [Next]_vars => Sights'
<1> SUFFICES ASSUME Types, Stages, Sole, Sights, Prompt, [Next]_vars, NEW x \in Pairs PROVE Sight(x)'
  BY DEF Sights
<1>1. CASE UNCHANGED vars
  BY <1>1, SightRest DEF vars, qtVars, checkVars
<1>2. CASE QtStep
  <2>1. UNCHANGED <<relayVars, at, pc, history>>
    BY <1>2, QtStepTypes DEF QtStep, AddTab, RemoveTab, QtEvent, Click, checkVars
  <2>2. QED
    BY <2>1, SightRest, WantedKept
<1>3. ASSUME NEW c \in Checks, StartCheck(c) \/ Gathered(c) \/ Done(c) \/ Emit(c) PROVE Sight(x)'
  <2>1. UNCHANGED <<relayVars, history>> /\ UNCHANGED at /\ (pc'[x] = pc[x] \/ pc'[x] = "connect")
    BY <1>3, CheckStepTypes DEF StartCheck, Gathered, Done, Emit, Pairs
  <2>2. LoopStep(c)
    BY <1>3 DEF LoopStep
  <2>3. QED
    BY <2>1, <2>2, SightRest, WantedKept DEF Next
<1>4. ASSUME NEW y \in Pairs, RelayStep(y) PROVE Sight(x)'
  <2>1. CASE y # x
    <3>1. Alone(x) /\ UNCHANGED <<relayVars, wanted>>
      BY <1>4, <2>1, RelayFrame, RelayStepTypes DEF checkFrame, qtVars
    <3>2. Sight(x)
      BY DEF Sights
    <3>3. QED
      BY <3>1, <3>2 DEF Sight, Accepted, TakerFinds, Alone, relayVars
  <2>2. QED
    BY <1>4, <2>1, SightStep
<1>5. CASE Environment
  BY <1>5, SightEnvironment
<1>6. QED
  BY <1>1, <1>2, <1>3, <1>4, <1>5 DEF Next, LoopStep, Pairs

\* The verdict of a step, one relay of one check at a time.
LEMMA PageSound ==
  ASSUME Types, Sights, NEW x \in Pairs, NEW got \in 0 .. Limit, PageArrived(x, got), OnPage(x, got)
  PROVE  x \in found'
<1>1. x[2] \in Relays /\ Tagged(x[2], at[x]) # {} /\ ahead[x[2]] < got /\ got \in 0 .. Page(x)
  BY DEF PageArrived, OnPage, Delivered, Pairs
<1>2. indexes[x[2]] /\ ahead[x[2]] < Limit
  <2>1. got \in Nat /\ got <= Limit /\ ahead[x[2]] \in Nat /\ Limit \in Nat
    BY <1>1, RuleAssumption DEF Types, RelayTypes
  <2>2. Page(x) = 0 => got = 0
    BY <1>1
  <2>3. QED
    BY <1>1, <2>1, <2>2 DEF Page
<1>3. PICK o \in held[x[2]] : o.version = Version
  BY <1>1 DEF Tagged, OursOn
<1>4. pc[x] = "page" /\ found' = found
  BY DEF PageArrived
<1>5. TakerFinds(x[2], at[x], wanted[x[1]])
  BY <1>2, <1>3, <1>4 DEF TakerFinds, Sights, Sight, Accepted
<1>6. QED
  BY <1>4, <1>5 DEF Sights, Sight

LEMMA SoundKept == Types /\ Sights /\ DiscoverableSound /\ [Next]_vars => DiscoverableSound'
<1> USE DEF Types, CheckTypes
<1> SUFFICES ASSUME Types, Sights, DiscoverableSound, [Next]_vars, NEW x \in Pairs,
                    verdict'[x].status = "discoverable"
             PROVE  x \in found'
  BY DEF DiscoverableSound, Pairs
<1>1. ASSUME verdict'[x] = verdict[x], x \in found => x \in found' PROVE x \in found'
  BY <1>1 DEF DiscoverableSound, Pairs
<1>2. CASE UNCHANGED vars
  BY <1>1, <1>2 DEF vars, checkVars, history
<1>3. CASE Environment
  <2>1. UNCHANGED verdict /\ Watch
    BY <1>3, EnvironmentTypes DEF checkVars, Environment, Tick, OtherPublishes, OtherExpires, Publish, Expire
  <2>2. QED
    BY <1>1, <2>1 DEF Watch
<1>4. CASE QtStep
  <2>1. UNCHANGED <<verdict, history>>
    BY <1>4, QtStepTypes DEF QtStep, AddTab, RemoveTab, QtEvent, Click, checkVars
  <2>2. QED
    BY <1>1, <2>1 DEF history
<1>5. ASSUME NEW c \in Checks, StartCheck(c) \/ Gathered(c) \/ Done(c) \/ Emit(c) PROVE x \in found'
  BY <1>1, <1>5, CheckStepTypes DEF StartCheck, Gathered, Done, Emit, history
<1>6. ASSUME NEW y \in Pairs, y # x, RelayStep(y) PROVE x \in found'
  BY <1>1, <1>6, RelayFrame DEF Alone
<1>7. CASE RelayStep(x)
  <2>1. ASSUME NEW s, NEW b, Return(x, Result(s, b)), s # "discoverable" PROVE FALSE
    BY <2>1 DEF Return, Result
  <2>2. CASE Connected(x)
    BY <1>1, <2>2 DEF Connected
  <2>3. CASE Unreachable(x) \/ Raises(x)
    BY <2>1, <2>3 DEF Unreachable, Raises
  <2>4. CASE RelayCancelled(x) \/ Close(x)
    BY <1>1, <2>4 DEF RelayCancelled, Close, history
  <2>5. ASSUME NEW got \in 0 .. Limit, OursArrived(x, got) PROVE x \in found'
    <3>1. UNCHANGED found
      BY <2>5 DEF OursArrived
    <3>2. UNCHANGED verdict
      BY <2>1, <2>5 DEF OursArrived, Judge
    <3>3. QED
      BY <1>1, <3>1, <3>2
  <2>6. ASSUME NEW got \in 0 .. Limit, PageArrived(x, got) PROVE x \in found'
    BY <2>1, <2>6, PageSound DEF PageArrived
  <2>7. QED
    BY <1>7, <2>2, <2>3, <2>4, <2>5, <2>6 DEF RelayStep, ConnectEnds, QueryEnds
<1>8. QED
  BY <1>2, <1>3, <1>4, <1>5, <1>6, <1>7 DEF Next, LoopStep, Pairs

\* "Discoverable" is never said of a relay that did not serve, at some moment of the
\* check, an offer a taker accepts -- whatever is published, expires or crowds
\* between the two queries, provided what is published meets the target and no
\* query outlasts the lookback.
THEOREM DiscoverableTrue ==
  ASSUME HonestWork PROVE Spec /\ []Prompt => []DiscoverableSound
<1>1. Init => DiscoverableSound
  BY DEF Init, DiscoverableSound, Unjudged, Result
<1>2. Types /\ Stages /\ Sole /\ Sights /\ Prompt /\ [Next]_vars => Sights'
  BY SightsKept
<1>3. QED
  BY <1>1, <1>2, InitTypes, TypesKept, StagesInit, StagesKept, SoleInit, SoleKept, SightsInit,
     SoundKept, PTL DEF Spec

\* The offer that stood all along is among ours when either query ends.
LEMMA Standing ==
  ASSUME Types, Sights, Older, NEW x \in Pairs, x \in steady,
         pc[x] = "ours" \/ pc[x] = "page"
  PROVE  /\ \E o \in Tagged(x[2], at[x]) : TakerAccepts(o, at[x], wanted[x[1]])
         /\ indexes[x[2]] /\ ahead[x[2]] < Limit
         /\ Cardinality(OursOn(x[2], at[x])) \in Nat \ {0}
         /\ Cardinality(Tagged(x[2], at[x])) \in Nat \ {0}
<1> DEFINE r == x[2]
<1>1. r \in Relays /\ TakerFinds(r, now, wanted[x[1]]) /\ Accepted(x)
  BY DEF Sights, Sight, Pairs
<1>2. PICK o \in held[r] : TakerAccepts(o, now, wanted[x[1]])
  BY <1>1 DEF TakerFinds
<1>3. TakerAccepts(o, at[x], wanted[x[1]]) /\ o.version = Version
  BY <1>1, <1>2 DEF Accepted, TakerAccepts
<1>4. o.created >= at[x] - Lookback
  <2>1. o.created \in Int /\ at[x] \in Int /\ Lookback \in Nat
    BY <1>1, RuleAssumption, BoundAssumption DEF Types, RelayTypes, CheckTypes, Offer
  <2>2. QED
    BY <1>3, <2>1 DEF TakerAccepts, Age
<1>5. o \in Tagged(r, at[x]) /\ o \in OursOn(r, at[x])
  BY <1>3, <1>4 DEF Tagged, OursOn, TakerAccepts
<1>6. IsFiniteSet(OursOn(r, at[x])) /\ IsFiniteSet(Tagged(r, at[x]))
  <2>1. IsFiniteSet(held[r]) /\ OursOn(r, at[x]) \subseteq held[r]
        /\ Tagged(r, at[x]) \subseteq held[r]
    BY <1>1 DEF Older, OursOn, Tagged
  <2>2. QED
    BY <2>1, FS_Subset
<1>7. /\ Cardinality(OursOn(r, at[x])) \in Nat \ {0}
      /\ Cardinality(Tagged(r, at[x])) \in Nat \ {0}
  BY <1>5, <1>6, FS_CardinalityType, FS_EmptySet
<1>8. QED
  BY <1>1, <1>3, <1>5, <1>7 DEF TakerFinds

\* Query A ends on it: the newest of ours is the one that stood.
LEMMA OursFound ==
  ASSUME Types, Stages, Sole, Older, Sights, NEW x \in Pairs, NEW got \in 0 .. Limit,
         OursArrived(x, got), x \in steady, x \notin cut'
  PROVE  UNCHANGED verdict
<1>1. pc[x] = "ours" /\ x[2] \in Relays
  BY DEF OursArrived, Pairs
<1>2. PICK o \in Tagged(x[2], at[x]) : TakerAccepts(o, at[x], wanted[x[1]])
  BY <1>1, Standing
<1>3. o \in held[x[2]] /\ o \in OursOn(x[2], at[x]) /\ o.version = Version
  BY <1>2 DEF Tagged, OursOn
<1>4. got # 0
  BY <1>1, Standing DEF OursArrived, Cut
<1>5. PICK p \in OursOn(x[2], at[x]) : o.created <= p.created /\ Judge(x, p)
  BY <1>3, <1>4 DEF OursArrived
<1>6. p \in held[x[2]] /\ o \in Offer /\ p \in Offer
  BY <1>1, <1>3, <1>5 DEF OursOn, Types, RelayTypes
<1>7. p.version = Version
  <2>1. p.version # Version => p.created < o.created
    BY <1>1, <1>3, <1>6 DEF Older
  <2>2. QED
    BY <1>5, <1>6, <2>1 DEF Offer
<1>8. p = o
  BY <1>1, <1>3, <1>6, <1>7 DEF Sole
<1>9. Evaluate(p, at[x], wanted[x[1]]) = "discoverable"
  <2>1. at[x] \in Int /\ wanted[x[1]] \in Nat
    BY BoundAssumption, WantedType DEF Types, CheckTypes
  <2>2. QED
    BY <1>2, <1>6, <1>8, <2>1, EvaluateRules
<1>10. QED
  BY <1>5, <1>9 DEF Judge

\* Query B ends on it: no more others are listed ahead of it than the page has room.
LEMMA PageFound ==
  ASSUME Types, Older, Sights, NEW x \in Pairs, NEW got \in 0 .. Limit,
         PageArrived(x, got), x \in steady, x \notin cut'
  PROVE  verdict'[x].status = "discoverable"
<1>1. pc[x] = "page" /\ x[2] \in Relays /\ got \in 0 .. Page(x) /\ ~(got < Page(x))
  BY DEF PageArrived, Delivered, Cut, Pairs
<1>2. /\ Tagged(x[2], at[x]) # {} /\ indexes[x[2]] /\ ahead[x[2]] < Limit
      /\ Cardinality(Tagged(x[2], at[x])) \in Nat \ {0}
  BY <1>1, Standing
<1>3. /\ ahead[x[2]] \in Nat /\ behind[x[2]] \in Nat /\ Limit \in Nat
  BY <1>1, RuleAssumption DEF Types, RelayTypes
<1>4. ahead[x[2]] < Page(x) /\ Page(x) \in Nat
  BY <1>2, <1>3 DEF Page, PageSize
<1>5. ahead[x[2]] < got
  BY <1>1, <1>3, <1>4
<1>6. OnPage(x, got)
  BY <1>2, <1>5 DEF OnPage
<1>7. Return(x, Result("discoverable", judged[x]))
  BY <1>6 DEF PageArrived
<1>8. QED
  BY <1>7 DEF Return, Result, Types, CheckTypes

LEMMA StandingKept ==
  Types /\ Stages /\ Sole /\ Older /\ Sights /\ StandingOfferFound /\ [Next]_vars
    => StandingOfferFound'
<1> USE DEF Types, CheckTypes
<1> SUFFICES ASSUME Types, Stages, Sole, Older, Sights, StandingOfferFound, [Next]_vars,
                    NEW x \in Pairs, verdict'[x].status \notin {"none", "unreachable", "error"},
                    x \in steady', x \notin cut'
             PROVE  verdict'[x].status = "discoverable"
  BY DEF StandingOfferFound, Judged, Pairs
<1>1. ASSUME verdict'[x] = verdict[x], x \in steady, x \notin cut
      PROVE  verdict'[x].status = "discoverable"
  BY <1>1 DEF StandingOfferFound, Judged, Pairs
<1>2. CASE UNCHANGED vars
  BY <1>1, <1>2 DEF vars, checkVars, history
<1>3. CASE Environment
  <2>1. UNCHANGED verdict /\ Watch
    BY <1>3, EnvironmentTypes DEF checkVars, Environment, Tick, OtherPublishes, OtherExpires, Publish, Expire
  <2>2. QED
    BY <1>1, <2>1 DEF Watch
<1>4. CASE QtStep
  <2>1. UNCHANGED <<verdict, history>>
    BY <1>4, QtStepTypes DEF QtStep, AddTab, RemoveTab, QtEvent, Click, checkVars
  <2>2. QED
    BY <1>1, <2>1 DEF history
<1>5. ASSUME NEW c \in Checks, StartCheck(c) \/ Gathered(c) \/ Done(c) \/ Emit(c)
      PROVE  verdict'[x].status = "discoverable"
  BY <1>1, <1>5, CheckStepTypes DEF StartCheck, Gathered, Done, Emit, history
<1>6. ASSUME NEW y \in Pairs, y # x, RelayStep(y) PROVE verdict'[x].status = "discoverable"
  BY <1>1, <1>6, RelayFrame DEF Alone
<1>7. ASSUME RelayStep(x) PROVE verdict'[x].status = "discoverable"
  <2>1. ASSUME NEW s \in {"unreachable", "error"}, Return(x, Result(s, NoBits)) PROVE FALSE
    BY <2>1 DEF Return, Result
  <2>2. CASE Connected(x)
    <3>1. verdict'[x] = Unjudged
      BY <2>2 DEF Connected, Stages, Stage
    <3>2. QED
      BY <3>1 DEF Unjudged, Result
  <2>3. CASE Unreachable(x) \/ Raises(x)
    BY <2>1, <2>3 DEF Unreachable, Raises
  <2>4. CASE RelayCancelled(x) \/ Close(x)
    BY <1>1, <2>4 DEF RelayCancelled, Close, history
  <2>5. ASSUME NEW got \in 0 .. Limit, OursArrived(x, got) PROVE verdict'[x].status = "discoverable"
    <3>1. x \in steady /\ verdict[x] = Unjudged
      BY <2>5 DEF OursArrived, Stages, Stage
    <3>2. verdict'[x] = Unjudged
      BY <2>5, <3>1, OursFound
    <3>3. QED
      BY <3>2 DEF Unjudged, Result
  <2>6. ASSUME NEW got \in 0 .. Limit, PageArrived(x, got) PROVE verdict'[x].status = "discoverable"
    BY <2>6, PageFound DEF PageArrived
  <2>7. QED
    BY <1>7, <2>2, <2>3, <2>4, <2>5, <2>6 DEF RelayStep, ConnectEnds, QueryEnds
<1>8. QED
  BY <1>2, <1>3, <1>4, <1>5, <1>6, <1>7 DEF Next, LoopStep, Pairs

\* An offer that a taker could have taken all through the check is found, however
\* many announcements of ours, of older versions or of others come and go, unless
\* the connection failed or a deadline cut the answer short.
THEOREM StandingFound ==
  ASSUME HonestWork, OlderFirst PROVE Spec /\ []Prompt => []StandingOfferFound
<1>1. Init => StandingOfferFound
  BY DEF Init, StandingOfferFound
<1>2. Types /\ Stages /\ Sole /\ Sights /\ Prompt /\ [Next]_vars => Sights'
  BY SightsKept
<1>3. Init => Older
  BY OlderInit
<1>4. Types /\ Older /\ [Next]_vars => Older'
  BY OlderKept
<1>5. QED
  BY <1>1, <1>2, <1>3, <1>4, InitTypes, TypesKept, StagesInit, StagesKept, SoleInit, SoleKept,
     SightsInit, StandingKept, PTL DEF Spec

-----------------------------------------------------------------------------
(* The warning about the proof of work.                                        *)

\* What a taker on a higher target would take, one on the default target would too:
\* a check asked with no less than the default target has found nothing a stock
\* taker would have missed.
Stock == \A x \in Pairs : x \in found /\ wanted[x[1]] >= DefaultTarget => x \in stock

LEMMA StockInit == Init => Stock
BY DEF Init, Stock

LEMMA StockFinds ==
  ASSUME Types, NEW r \in Relays, NEW t \in Int, NEW w \in Nat, w >= DefaultTarget,
         TakerFinds(r, t, w)
  PROVE  TakerFinds(r, t, DefaultTarget)
<1>1. PICK o \in held[r] : TakerAccepts(o, t, w)
  BY DEF TakerFinds
<1>2. o.bits \in Nat /\ DefaultTarget \in Nat
  BY RuleAssumption DEF Types, RelayTypes, Offer
<1>3. TakerAccepts(o, t, DefaultTarget)
  BY <1>1, <1>2 DEF TakerAccepts
<1>4. QED
  BY <1>3 DEF TakerFinds

LEMMA StockKept == Types /\ Types' /\ Stages /\ Stock /\ [Next]_vars => Stock'
<1> SUFFICES ASSUME Types, Types', Stages, Stock, [Next]_vars, NEW x \in Pairs,
                    x \in found', wanted'[x[1]] >= DefaultTarget
             PROVE  x \in stock'
  BY DEF Stock
<1>1. /\ x[2] \in Relays /\ wanted[x[1]] \in Nat /\ wanted'[x[1]] \in Nat /\ now \in Int
  <2>1. wanted[x[1]] \in Nat
    BY WantedType
  <2>2. wanted'[x[1]] \in Nat
    <3>1. x[1] \in Checks
      BY DEF Pairs
    <3>2. QED
      BY <3>1, TargetType DEF Types, QtTypes
  <2>3. QED
    BY <2>1, <2>2, BoundAssumption DEF Types, RelayTypes, Pairs
<1>2. ASSUME x \in found, stock \subseteq stock' PROVE x \in stock'
  <2>1. pc[x] # "none"
    BY <1>2 DEF Stages, Stage
  <2>2. wanted'[x[1]] = wanted[x[1]]
    BY <2>1, WantedKept
  <2>3. QED
    BY <1>2, <2>2 DEF Stock
<1>3. CASE UNCHANGED history
  BY <1>2, <1>3 DEF history
<1>4. CASE Environment
  <2>1. Watch /\ UNCHANGED <<pc, at, wanted>>
    BY <1>4, EnvironmentTypes DEF qtVars, checkVars, Environment, Tick, OtherPublishes,
       OtherExpires, Publish, Expire
  <2>2. stock \subseteq stock'
    BY <2>1 DEF Watch
  <2>3. CASE x \in Watched /\ TakerFinds(x[2], at[x], wanted[x[1]])'
    <3>1. TakerFinds(x[2], at[x], DefaultTarget)'
      <4>1. ASSUME NEW o \in held'[x[2]], TakerAccepts(o, at'[x], wanted'[x[1]])
            PROVE  TakerAccepts(o, at'[x], DefaultTarget)
        <5>1. o.bits \in Nat /\ DefaultTarget \in Nat
          BY <1>1, RuleAssumption DEF Types, RelayTypes, Offer
        <5>2. QED
          BY <1>1, <4>1, <5>1 DEF TakerAccepts
      <4>2. QED
        BY <2>3, <4>1 DEF TakerFinds
    <3>2. QED
      BY <2>1, <2>3, <3>1 DEF Watch
  <2>4. CASE x \in found
    BY <1>2, <2>2, <2>4
  <2>5. QED
    BY <2>1, <2>3, <2>4 DEF Watch
<1>5. ASSUME NEW y \in Pairs, Connected(y) PROVE x \in stock'
  <2>1. CASE x \in found
    BY <1>2, <1>5, <2>1 DEF Connected
  <2>2. CASE x \notin found
    <3>1. y = x /\ TakerFinds(x[2], now, wanted[x[1]]) /\ UNCHANGED wanted
      BY <1>5, <2>2 DEF Connected, checkFrame, qtVars
    <3>2. TakerFinds(x[2], now, DefaultTarget)
      BY <1>1, <3>1, StockFinds
    <3>3. QED
      BY <1>5, <3>1, <3>2 DEF Connected
  <2>3. QED
    BY <2>1, <2>2
<1>6. ASSUME NEW y \in Pairs, RelayStep(y), ~Connected(y) PROVE UNCHANGED <<found, stock>>
  BY <1>6 DEF RelayStep, ConnectEnds, QueryEnds, Unreachable, OursArrived, PageArrived, Raises,
     RelayCancelled, Close, history
<1>7. ASSUME NEW c \in Checks, StartCheck(c) \/ Gathered(c) \/ Done(c) \/ Emit(c)
      PROVE  UNCHANGED history
  BY <1>7 DEF StartCheck, Gathered, Done, Emit
<1>8. CASE QtStep
  BY <1>3, <1>8, QtStepTypes
<1>9. ASSUME NEW c \in Checks, LoopStep(c) PROVE x \in stock'
  <2>1. ASSUME NEW y \in Pairs, RelayStep(y) PROVE x \in stock'
    BY <1>2, <1>5, <1>6, <2>1
  <2>2. QED
    BY <1>3, <1>7, <1>9, <2>1 DEF LoopStep, Pairs
<1>10. QED
  BY <1>3, <1>4, <1>8, <1>9 DEF Next, vars

\* A report without a warning about proof of work holds for takers on the default
\* target too, whatever target the check was asked with, under what DiscoverableTrue
\* asks of what is around the check.
THEOREM StockWarned ==
  ASSUME HonestWork PROVE Spec /\ []Prompt => []StockTakersWarned
<1>1. Types /\ DiscoverableSound /\ Stock => StockTakersWarned
  <2> SUFFICES ASSUME Types, DiscoverableSound, Stock, NEW c \in Checks,
                      NEW r \in Listed(c, "discoverable"), "lenient" \notin Warnings(c)
               PROVE  <<c, r>> \in stock
    BY DEF StockTakersWarned
  <2>1. <<c, r>> \in found /\ <<c, r>> \in Pairs
    BY DEF DiscoverableSound, Listed, Pairs
  <2>2. wanted[c] >= DefaultTarget
    <3>1. ~(wanted[c] < DefaultTarget)
      BY DEF Warnings
    <3>2. wanted[c] \in Nat /\ DefaultTarget \in Nat
      <4>1. wanted[<<c, r>>[1]] \in Nat
        BY <2>1, WantedType
      <4>2. QED
        BY <4>1, RuleAssumption
    <3>3. QED
      BY <3>1, <3>2
  <2>3. QED
    BY <2>1, <2>2 DEF Stock
<1>2. Spec /\ []Prompt => []DiscoverableSound
  BY DiscoverableTrue
<1>3. Types /\ [Next]_vars => Types'
  BY TypesKept
<1>4. QED
  BY <1>1, <1>2, <1>3, InitTypes, StagesInit, StagesKept, StockInit, StockKept, PTL DEF Spec
==============================================================================
