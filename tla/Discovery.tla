------------------------------ MODULE Discovery ------------------------------
(***************************************************************************)
(* "Can a taker actually see me?"  The discoverability check of            *)
(* nostr_check.py, from the button of the Swap Server tab (qt.py) to the   *)
(* report it shows: each relay is asked for our announcements, the newest  *)
(* is judged by a taker's rules, and the relay is asked once more with a   *)
(* taker's own filter.  Meanwhile offers are published and expire, relays  *)
(* are slow, silent or gone, and the tab may be torn down under the check. *)
(*                                                                         *)
(* An offer is reduced to what the rules look at.  Others' offers are only *)
(* counted: those a relay lists ahead of ours and those behind.  The Qt    *)
(* thread's pending events are a FIFO; a query that its deadline cuts      *)
(* short has delivered what a relay sends first.                           *)
(***************************************************************************)
EXTENDS Integers, Sequences, FiniteSets

CONSTANTS
  Relays,         \* the relays that may be configured
  Version, Net,   \* NOSTR_EVENT_VERSION and NET_NAME of this Electrum
  Targets,        \* what SWAPSERVER_POW_TARGET of this wallet may be
  DefaultTarget,  \* DEFAULT_TAKER_POW_TARGET
  Lookback,       \* OFFER_LOOKBACK_SEC
  Limit,          \* TAKER_QUERY_LIMIT
  Offers,         \* what relays may hold under our key when the model starts
  Bits,           \* the proofs of work that are published
  MaxOthers,      \* bound: others' offers on a relay
  Start, End,     \* bound: the clock when the model starts and stops
  MaxTabs,        \* bound: how often the tab is added
  MaxChecks       \* bound: how often the button is pressed

Offer == [version : {Version} \cup {o.version : o \in Offers},
          net : {Net} \cup {o.net : o \in Offers},
          parses : BOOLEAN, complete : BOOLEAN, bits : Nat, created : Int]

ASSUME RuleAssumption ==
  /\ Lookback \in Nat /\ Limit \in Nat \ {0} /\ Targets \subseteq Nat /\ DefaultTarget \in Nat
  /\ Bits \subseteq Nat /\ Offers \subseteq Offer
ASSUME BoundAssumption ==
  /\ MaxOthers \in Nat /\ MaxTabs \in Nat /\ MaxChecks \in Nat
  /\ Start \in Nat /\ End \in Nat /\ Start <= End

Tabs   == 1 .. MaxTabs
Checks == 1 .. MaxChecks

VARIABLES
  now,
  \* the relays
  held, ahead, behind,   \* our offers; others' offers listed ahead of and behind ours
  indexes, silent,       \* answers tag queries; answers nothing at all
  \* the Qt thread
  tabs, tab, deleted,    \* tabs ever added, the one alive (0 = none), QObjects gone
  checking,              \* the tabs whose _check_running is set
  checkFut,              \* plugin._check_fut (a check, or 0)
  events,                \* events posted to the Qt thread
  \* the checks: for which tab, relays and taker_pow_target, future and callback,
  \* check_relay for each
  asker, asked, wanted, phase, withdrawn,
  pc, at, judged, verdict,
  \* history
  cut, found, stock, steady

relayVars == <<now, held, ahead, behind, indexes, silent>>
qtVars    == <<tabs, tab, deleted, checking, checkFut, events, asker, asked, wanted>>
checkVars == <<phase, withdrawn, pc, at, judged, verdict>>
history   == <<cut, found, stock, steady>>
vars == <<relayVars, qtVars, checkVars, history>>

Status == {"none", "discoverable", "unreachable", "no_event", "wrong_version", "wrong_net",
           "stale", "low_pow", "unparseable", "crowded_out", "error"}
NoBits == -1        \* pow_bits is None
Result(status, bits) == [status |-> status, bits |-> bits]
Unjudged == Result("none", NoBits)

\* Every variable has its type.
TypeOK ==
  /\ now \in Start .. End
  /\ \A r \in Relays : \A o \in held[r] : o.bits \in Nat /\ o.created \in Int
  /\ ahead \in [Relays -> 0 .. MaxOthers] /\ behind \in [Relays -> 0 .. MaxOthers]
  /\ indexes \in [Relays -> BOOLEAN] /\ silent \in [Relays -> BOOLEAN]
  /\ tabs \in 0 .. MaxTabs /\ tab \in 0 .. MaxTabs /\ deleted \subseteq Tabs \ {tab}
  /\ checking \subseteq Tabs /\ checkFut \in {0} \cup Checks
  /\ events \in Seq(({"report"} \X Checks) \cup ({"delete"} \X Tabs))
  /\ asker \in [Checks -> {0} \cup Tabs] /\ asked \in [Checks -> SUBSET Relays]
  /\ wanted \in [Checks -> {0} \cup Targets]
  /\ phase \in [Checks -> {"none", "spawned", "running", "done", "emitting", "over"}]
  /\ withdrawn \subseteq Checks
  /\ pc \in [Checks \X Relays -> {"none", "connect", "ours", "page", "closing", "ended"}]
  /\ at \in [Checks \X Relays -> Start .. End]
  /\ verdict \in [Checks \X Relays -> [status : Status, bits : Nat \cup {NoBits}]]
  /\ judged \in [Checks \X Relays -> Nat \cup {NoBits}]
  /\ cut \subseteq Checks \X Relays
  /\ found \subseteq Checks \X Relays /\ stock \subseteq Checks \X Relays /\ steady \subseteq Checks \X Relays

-----------------------------------------------------------------------------
(* The rules.                                                              *)

Age(o, t) == t - o.created

\* What _get_pairs_loop takes of an event (external; the table in README.md).
TakerAccepts(o, t, target) ==
  /\ o.parses /\ o.complete /\ o.version = Version /\ o.net = Net
  /\ Age(o, t) \in -Lookback .. Lookback /\ o.bits >= target

\* The rules of evaluate_offer_event in their order, and what each is called, for
\* taker_pow_target = w.
Rules(o, t, w) ==
  << <<o.parses, "unparseable">>,
     <<o.version = Version, "wrong_version">>,
     <<o.net = Net, "wrong_net">>,
     <<Age(o, t) <= Lookback /\ Age(o, t) >= -Lookback, "stale">>,
     <<o.bits >= w, "low_pow">>,
     <<o.complete, "unparseable">> >>

\* Mutant: the proof of work is not looked at.
EvaluateNoPow(o, t, w) ==
  LET broken == {i \in DOMAIN Rules(o, t, w) \ {5} : ~Rules(o, t, w)[i][1]} IN
  IF broken = {} THEN "discoverable"
  ELSE Rules(o, t, w)[CHOOSE i \in broken : \A j \in broken : i <= j][2]

\* evaluate_offer_event: the first rule that is broken is blamed.
Evaluate(o, t, w) ==
  LET broken == {i \in DOMAIN Rules(o, t, w) : ~Rules(o, t, w)[i][1]} IN
  IF broken = {} THEN "discoverable"
  ELSE Rules(o, t, w)[CHOOSE i \in broken : \A j \in broken : i <= j][2]

\* The bits a verdict carries: only those reached by the rules before it.
BitsOf(o, t, w) ==
  IF Evaluate(o, t, w) \in {"discoverable", "low_pow"}
     \/ (Evaluate(o, t, w) = "unparseable" /\ o.parses)
  THEN o.bits ELSE NoBits

\* author_query, and taker_query as far as our offers go.
OursOn(r, t) == {o \in held[r] : o.created >= t - Lookback}
Tagged(r, t) == {o \in OursOn(r, t) : o.version = Version /\ o.net = Net}
PageSize(r, t) == ahead[r] + behind[r] + Cardinality(Tagged(r, t))

\* A taker on target w whose clock says t would list an offer of ours from relay r.
TakerFinds(r, t, w) ==
  /\ indexes[r] /\ ahead[r] < Limit
  /\ \E o \in held[r] : TakerAccepts(o, t, w)

-----------------------------------------------------------------------------
(* The environment.                                                        *)

\* What the checks in progress may have seen, after a change to relay r.
Watched == {x \in Checks \X Relays : pc[x] \in {"ours", "page"}}
Watch ==
  /\ UNCHANGED <<qtVars, checkVars, cut>>
  /\ found' = found \cup {x \in Watched : TakerFinds(x[2], at[x], wanted[x[1]])'}
  /\ stock' = stock \cup {x \in Watched : TakerFinds(x[2], at[x], DefaultTarget)'}
  /\ steady' = steady \ {x \in Watched : ~TakerFinds(x[2], now, wanted[x[1]])'}

\* The announce loop publishes (AnnounceLoop); the event replaces the one with
\* the same d tag, unless a relay has one that claims to be newer.
Publish(r, b) ==
  LET new == [version |-> Version, net |-> Net, parses |-> TRUE, complete |-> TRUE,
              bits |-> b, created |-> now]
      old == {o \in held[r] : o.version = Version}
  IN  /\ \A o \in old : o.created <= now
      /\ held' = [held EXCEPT ![r] = (@ \ old) \cup {new}]
      /\ ahead' = [ahead EXCEPT ![r] = 0]
      /\ behind' = [behind EXCEPT ![r] = ahead[r] + behind[r]]
      /\ UNCHANGED <<now, indexes, silent>> /\ Watch

Expire(r, o) ==
  /\ o \in held[r]
  /\ held' = [held EXCEPT ![r] = @ \ {o}]
  /\ IF o.version = Version
     THEN /\ ahead' = [ahead EXCEPT ![r] = @ + behind[r]]
          /\ behind' = [behind EXCEPT ![r] = 0]
     ELSE UNCHANGED <<ahead, behind>>
  /\ UNCHANGED <<now, indexes, silent>> /\ Watch

\* Another server announces, or its offer expires.
OtherPublishes(r) ==
  /\ ahead[r] + behind[r] < MaxOthers
  /\ ahead' = [ahead EXCEPT ![r] = @ + 1]
  /\ UNCHANGED <<now, held, behind, indexes, silent>> /\ Watch
OtherExpires(r) ==
  /\ ahead[r] > 0
  /\ ahead' = [ahead EXCEPT ![r] = @ - 1]
  /\ UNCHANGED <<now, held, behind, indexes, silent>> /\ Watch

Tick ==
  /\ now < End /\ now' = now + 1
  /\ UNCHANGED <<held, ahead, behind, indexes, silent>> /\ Watch

-----------------------------------------------------------------------------
(* The Qt thread.                                                          *)

\* Not withdrawn, and its report not shown yet.
Outstanding(c) ==
  \/ phase[c] \in {"spawned", "running", "done", "emitting"} /\ c \notin withdrawn
  \/ \E i \in DOMAIN events : events[i] = <<"report", c>>

\* _add_tab, when a wallet is opened.
AddTab ==
  /\ tab = 0 /\ tabs < MaxTabs
  /\ tabs' = tabs + 1 /\ tab' = tabs'
  /\ UNCHANGED <<relayVars, deleted, checking, checkFut, events, asker, asked, wanted,
                 checkVars, history>>

\* Mutant: the button does not remember that a check is running.
ClickAgain(c) ==
  /\ tab # 0
  /\ phase[c] = "none" /\ \A b \in Checks : b < c => phase[b] # "none"
  /\ phase' = [phase EXCEPT ![c] = "spawned"]
  /\ checkFut' = c /\ asker' = [asker EXCEPT ![c] = tab]
  /\ \E R \in SUBSET Relays \ {{}} : asked' = [asked EXCEPT ![c] = R]
  /\ \E w \in Targets : wanted' = [wanted EXCEPT ![c] = w]
  /\ checking' = checking \cup {tab}
  /\ UNCHANGED <<relayVars, tabs, tab, deleted, events, withdrawn, pc, at, judged,
                 verdict, history>>

\* on_check_discoverability and check_discoverability, with the relays and the
\* target configured at this moment (without relays it is refused).
Click(c) ==
  /\ tab # 0 /\ tab \notin checking
  /\ phase[c] = "none" /\ \A b \in Checks : b < c => phase[b] # "none"
  /\ phase' = [phase EXCEPT ![c] = "spawned"]
  /\ checkFut' = c /\ asker' = [asker EXCEPT ![c] = tab]
  /\ \E R \in SUBSET Relays \ {{}} : asked' = [asked EXCEPT ![c] = R]
  /\ \E w \in Targets : wanted' = [wanted EXCEPT ![c] = w]
  /\ checking' = checking \cup {tab}
  /\ UNCHANGED <<relayVars, tabs, tab, deleted, events, withdrawn, pc, at, judged,
                 verdict, history>>

\* _remove_tab with clean_up.  A future that has no result yet is cancelled on
\* the spot, and its callback finds it so; the task hears of it later.
RemoveTab ==
  /\ tab # 0
  /\ withdrawn' = withdrawn \cup {c \in {checkFut} \ {0} : phase[c] \in {"spawned", "running"}}
  /\ checkFut' = 0
  /\ checking' = checking \ {tab}
  /\ events' = Append(events, <<"delete", tab>>) /\ tab' = 0
  /\ UNCHANGED <<relayVars, tabs, deleted, asker, asked, wanted, phase, pc, at, judged, verdict,
                 history>>

\* The next event posted to the Qt thread: on_check_finished, unless its
\* receiver is gone, or the deletion of a tab.
QtEvent ==
  /\ events # <<>> /\ events' = Tail(events)
  /\ LET e == Head(events) IN
     \/ e[1] = "delete" /\ deleted' = deleted \cup {e[2]} /\ UNCHANGED checking
     \/ e[1] = "report" /\ checking' = checking \ {asker[e[2]]} /\ UNCHANGED deleted
  /\ UNCHANGED <<relayVars, tabs, tab, checkFut, asker, asked, wanted, checkVars, history>>

-----------------------------------------------------------------------------
(* run_discovery_check and check_relay, on the loop.                       *)

checkFrame == <<relayVars, qtVars, withdrawn>>

\* The task starts: one check_relay for each relay.  Cancelled before, it never
\* does.
StartCheck(c) ==
  /\ phase[c] = "spawned"
  /\ IF c \in withdrawn
     THEN phase' = [phase EXCEPT ![c] = "over"] /\ UNCHANGED pc
     ELSE /\ phase' = [phase EXCEPT ![c] = "running"]
          /\ pc' = [x \in Checks \X Relays |->
                      IF x[1] = c /\ x[2] \in asked[c] THEN "connect" ELSE pc[x]]
  /\ UNCHANGED <<checkFrame, at, judged, verdict, history>>

\* check_relay returns v through its finally clause.
Return(x, v) ==
  /\ pc' = [pc EXCEPT ![x] = "closing"]
  /\ verdict' = [verdict EXCEPT ![x] = v]
  /\ UNCHANGED <<checkFrame, phase, at>>

\* manager.connect under its deadline; now_ts is taken, and query A sent.
Connected(x) ==
  /\ pc[x] = "connect" /\ pc' = [pc EXCEPT ![x] = "ours"]
  /\ at' = [at EXCEPT ![x] = now]
  /\ IF TakerFinds(x[2], now, wanted[x[1]])
     THEN found' = found \cup {x} /\ steady' = steady \cup {x}
     ELSE UNCHANGED <<found, steady>>
  /\ stock' = IF TakerFinds(x[2], now, DefaultTarget) THEN stock \cup {x} ELSE stock
  /\ UNCHANGED <<checkFrame, phase, judged, verdict, cut>>

\* No relay, a timeout, or an exception of the library in either query.  (A
\* CancelledError that is not ours leaves through gather, and reads as an error.)
Unreachable(x) ==
  /\ pc[x] = "connect"
  /\ Return(x, Result("unreachable", NoBits))
  /\ UNCHANGED <<judged, history>>
Raises(x) ==
  /\ pc[x] \in {"connect", "ours", "page"}
  /\ Return(x, Result("error", NoBits))
  /\ UNCHANGED <<judged, history>>

\* Mutant: a query waits for the end of the answer, however long.
CollectNoDeadline(x, all, got) == got = all /\ ~silent[x[2]]

\* What a query delivers: everything (if the relay answers), or the newest part
\* of it that came before the deadline.
Delivered(x, all, got) ==
  /\ got \in 0 .. all
  /\ got = all => ~silent[x[2]] \/ all = 0
  /\ silent[x[2]] => got = 0
Cut(x, all, got) ==
  cut' = IF got < all \/ silent[x[2]] THEN cut \cup {x} ELSE cut

\* Judge o, the newest that came: blame it, or go on with query B.
Judge(x, o) ==
  IF Evaluate(o, at[x], wanted[x[1]]) = "discoverable"
  THEN /\ judged' = [judged EXCEPT ![x] = o.bits]
       /\ pc' = [pc EXCEPT ![x] = "page"]
       /\ UNCHANGED <<checkFrame, phase, at, verdict>>
  ELSE /\ Return(x, Result(Evaluate(o, at[x], wanted[x[1]]), BitsOf(o, at[x], wanted[x[1]])))
       /\ UNCHANGED judged

\* Mutant: the oldest of our announcements is judged.
OursArrivedOldest(x, got) ==
  LET all == OursOn(x[2], at[x]) IN
  /\ pc[x] = "ours" /\ Delivered(x, Cardinality(all), got)
  /\ Cut(x, Cardinality(all), got)
  /\ IF got = 0
     THEN Return(x, Result("no_event", NoBits)) /\ UNCHANGED judged
     ELSE \E o \in all : (\A p \in all : o.created <= p.created) /\ Judge(x, o)
  /\ UNCHANGED <<found, stock, steady>>

\* Query A has delivered our got newest announcements.
OursArrived(x, got) ==
  LET all == OursOn(x[2], at[x]) IN
  /\ pc[x] = "ours" /\ Delivered(x, Cardinality(all), got)
  /\ Cut(x, Cardinality(all), got)
  /\ IF got = 0
     THEN Return(x, Result("no_event", NoBits)) /\ UNCHANGED judged
     ELSE \E o \in all : (\A p \in all : p.created <= o.created) /\ Judge(x, o)
  /\ UNCHANGED <<found, stock, steady>>

\* How much of the page query B can deliver, and whether we are on it.
Page(x) ==
  IF ~indexes[x[2]] THEN 0
  ELSE IF PageSize(x[2], at[x]) < Limit THEN PageSize(x[2], at[x]) ELSE Limit

\* Mutant: any offer on the page is taken for ours.
OnPageAny(x, got) == got > 0

OnPage(x, got) == Tagged(x[2], at[x]) # {} /\ ahead[x[2]] < got

\* Query B has delivered the first got offers of a taker's page.
PageArrived(x, got) ==
  /\ pc[x] = "page" /\ Delivered(x, Page(x), got)
  /\ Cut(x, Page(x), got)
  /\ Return(x, Result(CASE OnPage(x, got)                  -> "discoverable"
                        [] ~OnPage(x, got) /\ got >= Limit -> "crowded_out"
                        [] OTHER                           -> "no_event", judged[x]))
  /\ UNCHANGED <<judged, found, stock, steady>>

\* The cancellation reaches check_relay: in an await it raises, through the
\* finally clause; in manager.close it cuts that short.
RelayCancelled(x) ==
  /\ x[1] \in withdrawn /\ pc[x] \in {"connect", "ours", "page", "closing"}
  /\ pc' = [pc EXCEPT ![x] = IF @ = "closing" THEN "ended" ELSE "closing"]
  /\ UNCHANGED <<checkFrame, phase, at, judged, verdict, history>>

Close(x) ==
  /\ pc[x] = "closing" /\ pc' = [pc EXCEPT ![x] = "ended"]
  /\ UNCHANGED <<checkFrame, phase, at, judged, verdict, history>>

\* Mutant: the first relay that answers ends the check.
GatheredEarly(c) ==
  /\ phase[c] = "running" /\ \E r \in asked[c] : pc[<<c, r>>] = "ended"
  /\ phase' = [phase EXCEPT ![c] = IF c \in withdrawn THEN "over" ELSE "done"]
  /\ UNCHANGED <<checkFrame, pc, at, judged, verdict, history>>

\* gather is complete: the future gets the report, unless it was cancelled.
Gathered(c) ==
  /\ phase[c] = "running" /\ \A r \in asked[c] : pc[<<c, r>>] = "ended"
  /\ phase' = [phase EXCEPT ![c] = IF c \in withdrawn THEN "over" ELSE "done"]
  /\ UNCHANGED <<checkFrame, pc, at, judged, verdict, history>>

\* _done, on the loop's thread: look whether the tab is alive, ...
Done(c) ==
  /\ phase[c] = "done"
  /\ phase' = [phase EXCEPT ![c] = IF asker[c] = tab THEN "emitting" ELSE "over"]
  /\ UNCHANGED <<checkFrame, pc, at, judged, verdict, history>>

\* ... then emit: Qt posts an event to the tab, or raises if it is deleted.
Emit(c) ==
  /\ phase[c] = "emitting" /\ phase' = [phase EXCEPT ![c] = "over"]
  /\ events' = IF asker[c] \in deleted THEN events ELSE Append(events, <<"report", c>>)
  /\ UNCHANGED <<relayVars, tabs, tab, deleted, checking, checkFut, asker, asked, wanted,
                 withdrawn, pc, at, judged, verdict, history>>

-----------------------------------------------------------------------------
(* What the report says.                                                   *)

Listed(c, s) == {r \in Relays : verdict[<<c, r>>].status = s}
SeenBits(c) == {verdict[<<c, r>>].bits : r \in Relays} \ {NoBits}
BestBits(c) == CHOOSE b \in SeenBits(c) : \A d \in SeenBits(c) : d <= b

\* Mutant: the wallet's own target is taken for everybody's.
WarningsOwnTarget(c) ==
  {w \in {"low_pow", "crowded"} :
     \/ w = "low_pow" /\ SeenBits(c) # {} /\ BestBits(c) < DefaultTarget
     \/ w = "crowded" /\ Listed(c, "crowded_out") # {}}

\* warnings.
Warnings(c) ==
  {w \in {"low_pow", "lenient", "crowded"} :
     \/ w = "low_pow" /\ SeenBits(c) # {} /\ BestBits(c) < DefaultTarget
     \/ w = "lenient" /\ wanted[c] < DefaultTarget
     \/ w = "crowded" /\ Listed(c, "crowded_out") # {}}

-----------------------------------------------------------------------------
\* A relay keeps one offer of each d tag; an older Electrum's came first.
Holdings ==
  {H \in SUBSET Offers : \A o, p \in H :
     o # p => \/ o.version = Version /\ p.version # Version /\ p.created < o.created
              \/ p.version = Version /\ o.version # Version /\ o.created < p.created}

Init ==
  /\ now = Start /\ held \in [Relays -> Holdings]
  /\ ahead \in [Relays -> 0 .. MaxOthers] /\ behind = [r \in Relays |-> 0]
  /\ indexes \in [Relays -> BOOLEAN] /\ silent \in [Relays -> BOOLEAN]
  /\ tabs = 0 /\ tab = 0 /\ deleted = {} /\ checking = {} /\ checkFut = 0 /\ events = <<>>
  /\ asker = [c \in Checks |-> 0] /\ asked = [c \in Checks |-> {}]
  /\ wanted = [c \in Checks |-> 0]
  /\ phase = [c \in Checks |-> "none"] /\ withdrawn = {}
  /\ pc = [x \in Checks \X Relays |-> "none"] /\ at = [x \in Checks \X Relays |-> Start]
  /\ judged = [x \in Checks \X Relays |-> NoBits]
  /\ verdict = [x \in Checks \X Relays |-> Unjudged]
  /\ cut = {} /\ found = {} /\ stock = {} /\ steady = {}

ConnectEnds(x) == Connected(x) \/ Unreachable(x)
QueryEnds(x) == \E got \in 0 .. Limit : OursArrived(x, got) \/ PageArrived(x, got)
RelayStep(x) ==
  ConnectEnds(x) \/ QueryEnds(x) \/ Raises(x) \/ RelayCancelled(x) \/ Close(x)

LoopStep(c) ==
  \/ StartCheck(c) \/ Gathered(c) \/ Done(c) \/ Emit(c)
  \/ \E r \in Relays : RelayStep(<<c, r>>)

QtStep == AddTab \/ RemoveTab \/ QtEvent \/ \E c \in Checks : Click(c)

Environment ==
  \/ Tick
  \/ \E r \in Relays : \/ OtherPublishes(r) \/ OtherExpires(r)
                       \/ \E b \in Bits : Publish(r, b)
                       \/ \E o \in held[r] : Expire(r, o)

Next == QtStep \/ Environment \/ \E c \in Checks : LoopStep(c)

\* Both threads run, and every await of check_relay ends: the connection and
\* the queries by their deadlines, manager.close by the library.
Fairness ==
  /\ WF_vars(QtEvent)
  /\ \A c \in Checks : WF_vars(StartCheck(c) \/ Gathered(c) \/ Done(c) \/ Emit(c))
  /\ \A x \in Checks \X Relays :
       WF_vars(ConnectEnds(x)) /\ WF_vars(QueryEnds(x)) /\ WF_vars(Close(x))

Spec == Init /\ [][Next]_vars
FairSpec == Spec /\ Fairness

-----------------------------------------------------------------------------
(* Properties.                                                             *)

\* "Discoverable" is said of a relay only if, at some moment of the check, a
\* taker asking it for this version and network would have taken our offer.
DiscoverableSound ==
  \A x \in Checks \X Relays : verdict[x].status = "discoverable" => x \in found

\* The verdicts that are about the offer, as opposed to the connection.
Judged(x) == verdict[x].status \notin {"none", "unreachable", "error"}

\* An offer that a taker could have taken all through the check is found,
\* whatever other announcements of ours or of others come, go and crowd --
\* unless a deadline cut the relay's answer short.
StandingOfferFound ==
  \A x \in Checks \X Relays :
    Judged(x) /\ x \in steady /\ x \notin cut => verdict[x].status = "discoverable"

\* "This relay is holding no announcement from us": no_event is not said of a
\* relay that serves our offer to takers all through the check.
NoEventTruthful ==
  \A x \in Checks \X Relays : verdict[x].status = "no_event" => x \notin steady

\* The check judges by this wallet's target, takers in stock Electrum by theirs: a
\* report without a warning about proof of work can be taken at its word by them
\* too, whichever of the relays holds which of our offers and whatever target the
\* check was asked with.  Each relay it lists as discoverable had, at some moment
\* of the check, an offer of ours for a taker on the default target.
StockTakersWarned ==
  \A c \in Checks : \A r \in Listed(c, "discoverable") :
    phase[c] \in {"done", "emitting", "over"} /\ Warnings(c) \cap {"low_pow", "lenient"} = {}
      => <<c, r>> \in stock

\* The button of the tab is disabled exactly while one check is outstanding, so
\* that it can neither stay disabled for good nor start a second check; that
\* check is the one clean_up would cancel.
ButtonHonest ==
  /\ \A c \in Checks : Outstanding(c) /\ asker[c] = tab => c = checkFut
  /\ tab # 0 => (tab \in checking <=> \E c \in Checks : Outstanding(c) /\ asker[c] = tab)

\* A report that reaches the tab has a verdict for every relay it was asked of.
ReportComplete ==
  \A i \in DOMAIN events : events[i][1] = "report" =>
    \A r \in asked[events[i][2]] : verdict[<<events[i][2], r>>] # Unjudged

\* The button comes back, however slow or silent the relays.
ButtonComesBack == \A t \in Tabs : tab = t /\ t \in checking ~> tab # t \/ t \notin checking
=============================================================================
