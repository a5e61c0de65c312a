# Verification of the Electrum swap-server GUI plugin

TLA+ specifications of the program logic in `src/plugins/swapserver_gui/`, checked
with TLC, and theorems about them checked with TLAPS. The plugin runs a submarine-swap
server inside Electrum: it starts and stops the server's transports from the Qt GUI,
computes the proof of work its nostr announcement needs, keeps that announcement alive
on the relays, checks whether takers can see it, records which swaps it served, and shows
and exports what they returned.

Line numbers below are of files in `src/plugins/swapserver_gui/`.

## The system

| part | state it keeps | operations | who calls it |
|---|---|---|---|
| lifecycle (`SwapServerGuiPlugin`, `swapserver_gui.py`; hooks in `qt.py`) | `wallet`, `_sm`, `_running`, `_recorded_sm`, the futures `_http_fut`, `_nostr_fut`, `_live_transport`, status flags | `start_server`, `stop_server`, `bind_wallet`, `unbind_wallet`, `supervise`, `publish_now` | the Qt thread: buttons, Electrum's hooks, a 4 s timer |
| HTTP endpoint (`ManagedHttpSwapServer`) | `runner`, `site`, the socket | coroutines `run`, `stop` | the asyncio loop |
| announce loop | `_relay_connected`, `_consecutive_publish_failures`, `_publish_wakeup`, local timers and backoff | `_nostr_startup`, `_announce_loop`, `_serve_one_transport`, `_announce_until_recycle`, `_publish_once` | the asyncio loop |
| proof of work (`pow.py`, `ensure_pow_nonce`) | `PowState` (per-lane cursors, best nonce), persisted; shared arrays; worker processes | `grind`, `_Backend.start/snapshot/stop`, `_grind_worker` | the announce task; forked workers |
| settings | Electrum config variables, the widgets of the form | `load_settings_into_widgets`, `on_save`, `save_settings` | the Qt thread |
| discovery check (`nostr_check.py`) | `_check_fut`, `_check_running`, connections and their deadlines | `check_discoverability`, `run_discovery_check`, `check_relay`, `evaluate_offer_event` | a button, then the asyncio loop, then the Qt thread |
| served-swap ledger | wallet-db map of payment hashes; wrapped `server_create_*` methods | `_install_/_remove_served_swap_recorder`, `record_served_swap` | lifecycle; taker requests |
| served-swap accounting (`served_swaps.py`) | none: a function of the wallet's records | `classify_swap`, `split_fee`, `swap_status`, `build_swap_rows`, `get_swap_summary` | Qt tabs, export |
| history tabs (`served_swaps.py`, `qt.py`) | a labelled copy of Electrum's history | `relabel_swap_history_items` | the Qt thread |
| history export (`history_export.py`) | the document under construction | `build_history_export` and its sections | the Qt thread |
| Qt tab, packaging | widgets, texts, files | presentation and I/O | |

The Qt thread and the asyncio loop share the plugin's attributes without a lock. The
Qt thread asks the loop for things only by appending callbacks to the loop's ready
queue (`run_coroutine_threadsafe`, `Future.cancel`) and never waits for them; the loop's
coroutines read and write the same attributes between awaits. That is where the hard
behaviours are: a cancelled task that is still running its `finally` clause when the next
run has started; a wallet opened while the server runs for another; a listener that
outlives the recorder of its swaps; a worker process killed inside a shared-memory
access; a save that fails between two assignments; a tab torn down under the check it
started; timers, retries and backoffs that must still keep an offer with an expiry alive;
and money figures that are computed, and exported read by read, from a wallet's records
while those are still changing. `PROJECT.json` lists every such hazard at its line, with
the properties that cover it.

What makes each part correct, in one line: *lifecycle* — one announcer at a time, and a stop
that takes hold at whatever await it meets; *HTTP* — a stopped listener stays closed and its
port is free for the next; *announce loop* — an offer never lapses undisturbed, comes back
within a bound, and is not claimed when it is not there; *proof of work* — no nonce is
skipped, none is installed that takers reject, no progress is lost; *settings* — what runs
is what is stored is what is shown; *discovery* — "discoverable" and "not found" are both
true; *ledger* — every swap served is recorded on the manager that served it;
*accounting* — sides, legs and returns agree with what the wallet gained, and a figure once
reported stands; *history and export* — every swap is named, and nothing is dropped or
contradicted in the file.

## Modules

| module | models |
|---|---|
| `SwapServer` | the Qt thread and the loop: lifecycle, HTTP endpoint, announce task, recorder, takers |
| `AnnounceService`, `SwapServerService` | abstract: announcers appointed, told and gone; and `SwapServer` mapped to it |
| `MCSwapServer`, `MCSwapServerService` | settings and scopes of their runs |
| `SwapServerProofs`, `SwapServerServiceProofs` | types, recorder, single announcer, cancellation; the refinement |
| `SwapServerRestartProofs` | what holds from one run to the next, and on which habit of its users it rests |
| `AnnounceLoop`, `OfferLease` | the announce loop in time, among relays, liquidity and lock that change; abstract: an offer as a lease |
| `AnnounceLoopProofs` | the loop implements the lease; how long a false claim lasts; how long recovery takes |
| `PowGrind`, `MCPowGrind` | parent, workers, shared arrays, persistence, SIGTERM, kill |
| `PowGrindProofs` | types, cursors, progress, and what a successful call installs |
| `Settings`, `SettingsProofs` | form, store and running server; what is served, ground for and shown |
| `Discovery`, `MCDiscovery` | from the button over every relay's two queries to the report |
| `DiscoveryProofs` | types, button and report; what the verdicts and the warning are worth |
| `ServedSwaps` | roles, legs, fee split, rows and summary over a wallet that lives |
| `HistoryTab` | rows of the history and whose label is written on them, as operators over `ServedSwaps` |
| `HistoryExport` | the export, read by read, over `ServedSwaps` |
| `MCSwapHistory` | composes the three: the two tables, and the export, over one wallet |
| `SwapHistoryProofs` | theorems about the three: sides, settled counts, sums that reconcile to the satoshi, returns never revised, named swaps, and a file that drops and contradicts nothing |

### SwapServer

*Threads.* `gui` is the Qt thread's place in `start_server` or `stop_server`, whose bodies
are cut into groups of statements (four each) at the points where the loop can observe the
difference; between any two groups the loop may run. `queue` is the loop's ready queue:
`<<"create", k>>` is the callback of `run_coroutine_threadsafe`, `<<"cancel", k>>` that of a
cancelled future, `<<"step", k>>` a task's next step. `RunCallback` takes its head.
A task is named by its label and its run (or spawn), so that tasks of earlier runs stay
apart from the current one. `Cancel` follows `asyncio.Task.cancel`: a suspended task is
woken, one that is ready sees the `CancelledError` in its queued step, a finished one
ignores it. Cancelling a future whose task does not exist yet takes effect after
its creation (`Create`).

*Actions.* `Toggle`, `Save`, `LoadWallet`, `CloseWallet`, `Supervise` are the operator and the
timer; `StopHttp` … `StopFlags`, `Unbind`, `StartRecord` … `StartNostr` the statement groups;
`HttpSetup` … `HttpStopped` the steps of `ManagedHttpSwapServer`; `PowReady` … `Retry` the steps
of `_nostr_startup` from await to await; `CreateSwap` a taker's swap through the wrapper.
`load_wallet` rebinds `wallet` (with `_sm`) even while the server runs, as `bind_wallet` does.

*Abstractions.* Timestamps are replaced by the run that wrote them; whether an offer is due and
what a relay answers are nondeterministic (AnnounceLoop times them); the proof of work ends
with a nonce, without one, with an error or cancelled (PowGrind has its inside). Whether a
transport survives a cancelled `__aexit__` is a choice (`Torn`). Settings are a port and whether
there are relays. `HttpSetup` merges `runner.setup()` with what follows it, up to the await of
`site.start()`.

*History variables.* `missed` (swaps created on an unwrapped manager, by the run that was
current), `clashed` (a bind that failed because of a listener of our own that nobody had got to
stopping), `weakOffer` and `gaveUp` (offers under a nonce below target, and grinds that gave up).

### AnnounceService and SwapServerService

`AnnounceService` is what enabling and disabling the server promises of its presence on the
relays: an announcer is appointed only when none works, is told to go before the server is
disabled or another appointed, may still send until it has heard of it and never afterwards, and
none comes back. `SwapServerService` maps the lifecycle to it: `on` is `running`, an announcer is
a spawned `_nostr_startup` task, *told* is a cancelled future, *heard* is the `CancelledError`
pending in the task or on its way through `__aexit__`. `ServiceKept` says that every step of the
two threads is a step of the service or none.

### AnnounceLoop and OfferLease

One announce task from its proof of work on, with a clock: `Pass` lets one unit go by while the
current await may still last (`Limit`), and statements take no time. The intervals are
constants; the only assumptions are that they are positive and leave room inside an offer's
lifetime (`RoomAssumption`), which the code's values (300 s, 30 s, 3600 s, 5–300 s, 610 s)
satisfy. A transport keeps the relays that answered its one connection attempt (`link`); once
they are gone only a new transport is sure to have one, as the comment at 336–342 explains.
`calm` measures how long relays, liquidity and lock have stood still, `claim` how long
`announce_state` has said *announcing* without an offer on a relay, `life` what is left of the
newest acknowledged offer.

`OfferLease` says what an operator is promised: the lease is renewed before it expires and
runs out only if something stood in the loop's way since the last renewal. The mapping is by
name (`Lease == INSTANCE OfferLease`).

### PowGrind

Each call of `ensure_pow_nonce` is a session: `Begin` takes key and target, `EnsureGrind` loads
the state and starts the workers (or fails to fork one), the parent polls, snapshots and
persists, and ends by success, giving up, cancellation, error, or `Crash` (Electrum killed).
Workers take one step per shared write, in the code's order, and a SIGTERM may take effect before
any of them, with the lock of the array that was about to be written. Arrays are read lane by
lane. A nonce is `<<lane, offset>>` and a digest its number of leading zero bits.

### Settings

Three copies of the settings: `form` (the widgets), `stored` (the config) and what the running
server took of them (`httpPort` at its start, `goal` when the announce task enters the proof of
work, `dialled` whenever it builds a transport). `Assigned(k)` is the config after the first k
assignments of `save_settings`, in its order; a save that raises stops there, and `on_save`'s
`except` clause reloads the form. `stop_server` and `start_server` are single steps here. The spin
box has a range of its own, `SpinMax` (40 in `qt.py`, 408), and shows a larger target as its end.

### Discovery

A check is a future with one `check_relay` task per relay. `pc[<<c, r>>]` goes from connecting
over our own query and a taker's query to closing; `ConnectEnds`, `QueryEnds` and `Close` are
those awaits ended by an answer, an error, a deadline or a cancellation. A query that its deadline
cuts short has delivered a part of what the relay lists (`cut` remembers it). `Evaluate` is
`evaluate_offer_event`, rule by rule in its order. The relays move on meanwhile: offers of ours are
published and dropped, others' are listed ahead of or behind them, and the clock ticks. `Click`,
`Done`, `Emit` and `QtEvent` carry the report from the button over the future's callback and the
Qt event queue to the tab, which may have been removed, and its QObject deleted, in between;
`found` and `steady` remember whether a taker could have taken our offer at some, and at every,
moment at which the check was asking.

### ServedSwaps

The code of `served_swaps.py` is a function of the wallet's records, so it is modelled by
operators with its names (`Role` is `classify_swap`, `SplitFee` is `split_fee`, `Rows` is
`build_swap_rows`, …) evaluated in every state. The state is the wallet: swaps as the four
creation paths store them, the ledger, transactions that are local, in the mempool, confirmed or
dropped, payments made and payments still in the lightning history. These actions model
Electrum, as the plugin's code and comments rely on it; they are mapped as external. `truth` is
the side we were really on, and `delta` what a transaction really brought the wallet.

*Abstractions.* The watcher always knows the lockup's output, so the fallback of
`lockup_value_sat` is not exercised. A leg's value is a record of its own payment, so
`flatten_history`'s indexing is the identity. Only transactions that do one thing are replaced by
a conflicting one. A date is only had or not had.

### HistoryTab and HistoryExport

`HistoryTab` adds no state: Electrum's groups (`GroupOf`, external) and
`relabel_swap_history_items` (`Writers`, `Label`) are functions of the wallet. Of the swaps that
would write on one row the last in dictionary order does.

`HistoryExport` is a program counter over the reads of `build_history_export`: ledger, history,
swaps, transactions listed and then read, records, and the three reads of `build_swap_rows`. The
loop changes the wallet between any two of them. Each read may raise, and then leaves the default
that `_safe` gives it. `Seen` instantiates `ServedSwaps` on what the rows' reads have seen so far,
while the ledger, the records and the status are the live ones, as in the code.

## Runs

All bounds are in the `.cfg` files. Deadlock is checked where nothing stops the model
(`AnnounceLoop`, `PowGrind`, `Settings`); the others run out of starts, checks, swaps or
transactions, which are bounded in their guards.

| run | module | checks | what it shows |
|---|---|---|---|
| `SS_single` | `MCSwapServer` | `TypeOK`, `TaskTracked`, `RestartFindsPortFree`; `StopCompletes`, `DeadTaskRestarted`, `ListenerCloses` | the transport `stop_server` would tear down is the one that is open, and the grinding flag is set exactly while the task grinds; a stop ends the task at whatever await it is; a dead task is restarted; the FIFO closes the old listener before the new one binds, and a closed one stays closed |
| `SS_restart` | `MCSwapServerService` | `StatusTruthful`, `OneAnnouncer`, `CancellationTakesHold`, `OfferMeetsTarget`, `RecorderFollowsRun`, `CurrentSwapsRecorded`; `ServiceKept` | across a bounce, with the tasks of the earlier run still at work, the flags `status()` reads are left behind by no task that is gone and follow what this run's task says; there is one announcer that is not being stopped, no cancellation is lost, no offer goes out under a nonce too weak for its key unless the grind gave up, the recorder is on the manager whose listener runs through rebinding, the current run's swaps are all recorded; and all of it is an announce service |
| `AL_keyed` | `AnnounceLoop` | `Recovers`, `AnnouncingIsBrief`; `LeaseKept`, `RequestHonoured`, `KeepsTrying` | the offer never lapses undisturbed, is back within a bound after any disturbance, and *announcing* is not shown for longer than a bound while there is no offer |
| `PW_grind` | `MCPowGrind` | `InstalledMeetsTarget`, `CursorsScanned`; `WorkKept` | torn reads, kills and restarts never install a bad nonce, skip a nonce or lose a key's cursors |
| `ST_saves` | `Settings` | `FormHonest`, `ServesStored`, `FoundIsKept`; `StartBearsFruit` | the form shows what is stored, also after a half save; who runs uses what is stored, whatever was saved at whatever stage of its start; the best nonce any search has found is at hand ever after, and nothing it reaches is ground for again; a start comes to announce |
| `DC_check` | `MCDiscovery` | `DiscoverableSound`, `StandingOfferFound`, `StockTakersWarned`, `ReportComplete`, `ButtonHonest`; `ButtonComesBack` | a relay called discoverable could have served a taker, an offer that stands all through is found, a report without a warning about proof of work holds for takers on the default target too, the button is off exactly while one check is out, and comes back |
| `SV_rows` | `MCSwapHistory` | `RoleHonest`, `BatchReconciles`, `CountedIsSettled`, `ReturnsAddUp`, `EverySwapNamed`, `StuckIsExported`, `SectionsAgree`, `ExportedReturnStands`; `ReturnNeverRevised` | see below |

*Bounds, and why they suffice.* The hazards of `SwapServer` involve two generations of one task
(old and new), two wallets (the one served, the one bound) and one message overtaking another; two
starts, two spawns and two wallets are the least in which each occurs, and the queue is not bounded
at all. Transports interact only through the recorder and the wallet, so an instance has HTTP
or nostr. In `AnnounceLoop` the ratios matter: two polls per republish, two republishes per
lifetime, a recycle that can fall just before an offer is due, a backoff that reaches its
maximum. In `PowGrind` a lane of three nonces with blocks of two has a full block, a hit inside
a block and the bounded end. In `Settings` one port (or none), two relays and three targets give
every change of one setting that does and does not bounce the server, in every stage. In `Discovery` an
offer that breaks each single rule, at either edge of its windows, is judged, and two others' offers
fill a taker's page of two. In `ServedSwaps` two swaps can share a claim, a funding, or one of each;
three sats over two legs leave a remainder to place.

*Scopes.* Four of these runs explore several small instances in one state graph; each is fixed by the
initial state:

- `SS_single`: nostr with a wallet that can be locked, where the first of the two starts is used up
  (`Later` is the specification of one run with its counters shifted), so a second spawn is left
  for `supervise`; and HTTP through two starts, without lock or nonce, which HTTP does not read.
- `SS_restart`: nostr through two runs, or one and a supervised restart, with one wallet; and HTTP through two runs with two. Swaps taken
  by a transport that is being torn down (`EverySwapRecorded`) are cut off with nostr.
- `DC_check`: *verdict*, one relay that holds anything, among offers that come and go; *report*, two
  relays that stand still, holding offers of any work, asked about with the default target and a lower
  one; *tabs*, two tabs and two checks.
- `SV_rows`: *tables*, two swaps over three or four transactions; *export*, one swap and an export
  at any moment, with at most one read that fails.

A scope restricts only steps of users and of the surroundings, never one that fairness is stated of,
so a liveness property that holds in it is not made true by a step that was cut off.

*The properties of `SV_rows`.* A swap is never filed on the wrong side, and on no side only
where the records cannot tell (`RoleHonest`); the net legs of a batch add up to what the
wallet gained by it, to the sat (`BatchReconciles`); whatever enters the net return was
served, paid and confirmed (`CountedIsSettled`); once all is finished, the net return and the rows
left out of it make up what the wallet gained (`ReturnsAddUp`); a figure once reported is
never replaced by another (`ReturnNeverRevised`); a swap with a leg in the wallet has a row in
the table, and one whose transactions are its own has one row in the history, labelled by it
(`EverySwapNamed`). Of the exported file: what the wallet held from beginning to end is in it,
unconfirmed transactions with their hex (`StuckIsExported`); the records and the rows, read at
different moments and against different copies of the ledger, do not contradict each other
(`SectionsAgree`); and a row that counts is over (`ExportedReturnStands`).

*Deliberate limits.* `TaskTracked` is of one start. `StatusTruthful` is of any number, and therefore leaves
open what is shown after the task of an earlier run has spoken last; that it may then be wrong is
`SS_stale`. `OfferMeetsTarget` and, with nostr, `CurrentSwapsRecorded` hold for one wallet (`SS_newkey`,
`SS_stray`). `WorkKept` is of one key: another one discards the cursors and the best nonce, as the code
means it to. `ExportedReturnStands` is of an export of one swap (`HE_split` shows what a second, created
between two reads, does to the split of a fee). In `MCPowGrind` nonce 0, which `pow_bits` and takers
count as no nonce, is no hit (`PW_zero`). In `ST_saves` the spin box can show every target (`ST_clamp`).

*Details that are simplified.* Each of them leaves every property what it is:

- `AnnounceLoop.Ticked`: a `wait_for` that times out in the moment the event is set returns unforced, and
  the next one at once; here the turn is forced.
- `HistoryExport.ReadTransactions`, `BuildRows`: transactions are read one by one, and rows built one after
  another, in the code; here all at once. The properties are of single transactions and swaps.
- `Discovery.Rules`: a nonce that is not hexadecimal is found unparseable by rule 1 and not by the last one.
- `ServedSwaps.Status`, `SplitFee`, `Net`: transactions with a height in the future and statuses that raise,
  both shown as in flight, do not occur; Electrum knows the fee of each transaction of ours, which the code
  takes as 0 if it does not; and a lightning item in the history is readable.
- `SwapServer.Unacknowledged`: the counter of failures stops at the number that leads to a new transport.

### Disagreements found

Each is a run that must end in a violation of its property:

| run | property | what happens |
|---|---|---|
| `SS_orphan` | `StoppedMeansClosed` | server started for one wallet, another opened, server stopped: `stop_server` looks at the second wallet's manager (989), and the first one's listener stays open |
| `SS_stale` | `NothingFromPreviousRun` | after a bounce the cancelled task's `finally` (759–761) overwrites the relay flag of the new run |
| `SS_unrecorded` | `EverySwapRecorded` | a request in flight when `stop_server` unwraps the manager (1018) creates a swap no ledger has |
| `PW_blocked` | `NeverBlocked` | a worker terminated inside a locked array access blocks the snapshot on the event loop (`pow.py` 308–320) |
| `SV_labels` | `RowNamesDirection` | rows of our own swaps, which the diagnostics export includes, name the opposite direction (`served_swaps.py` 743) |

Further ones that the models show; each has a configuration that reproduces it
(`tlc -config X.cfg M`), besides the runs:

| configuration | module | property | what happens |
|---|---|---|---|
| `SS_bindfails` | `MCSwapServer` | `ListeningMeansBound` | the tab says *listening* (`qt.py` 956) from the creation of the site on, also when its bind failed (1111) |
| `SS_newkey` | `MCSwapServer` | `OfferMeetsTarget` | an announce loop that goes on while another wallet is opened builds its next transport with that wallet's key (717), and announces under the nonce found for the first; the comment at 368 says no such offer is published |
| `SS_stray` | `MCSwapServer` | `CurrentSwapsRecorded` | started for one wallet, bounced while another is open: `stop_server` clears `is_server` of the second only; when the first is opened again, the next transport serves for it, and the recorder is on the second |
| `PW_zero` | `MCPowGrind` | `InstalledMeetsTarget` | a worker that hits at nonce 0 reports success, and the number installed counts as no nonce (`pow.py` 80) |
| `DC_slow` | `MCDiscovery` | `NoEventTruthful` | a relay that has not listed our offer when the deadline passes is said to hold none (`nostr_check.py` 411, 443–448) |
| `ST_torn` | `Settings` | `SavedPortServed` | a save that fails after storing the port leaves nothing for the next one to see changed: the server goes on with the old port (`qt.py` 806–811) |
| `ST_lowered` | `Settings` | `NoNeedlessGrind` | the target is lowered during a grind to what its best nonce meets: without a bounce the grind goes on, silent (`qt.py` 808–809) |
| `ST_clamp` | `Settings` | `FormHonest` | a stored target beyond the spin box's maximum is shown, and saved with anything else, as the maximum (`qt.py` 408, 733, 801–802) |
| `HT_batch` | `HistoryTab` | `EverySideSaid` | of two swaps anchored to one transaction the last one labels the row, and it may be of the other side (`served_swaps.py` 978, 1038) |
| `HE_null` | `HistoryExport` | `FailureSaysNull` | a section that could not be read is an empty list or map, not null (`history_export.py` 119, 264) |
| `HE_split` | `HistoryExport` | `SplitAccountsForAll` | a swap created between the reads of swaps and history is missing from the fee split of the transaction it shares (`served_swaps.py` 687–692) |

## Fairness

`SwapServer`: weak fairness of the Qt thread's statements and of the loop taking the head of its
queue (both threads run); of every await completing, since each of them has a timeout (`sleep`,
`wait_for`, connection and publish timeouts), *except* the grind, which may take for ever; of the
restart throttle expiring and of `supervise`, which a 4 s timer calls. Operators, takers and locks
owe nothing. `AnnounceLoop`: weak fairness of time and of the loop's own steps. `Discovery`: weak
fairness of the Qt thread taking its events, of the loop running a check that is ready, and of each
connection, query and closing ending, which have deadlines; clicks and relays owe nothing.
`Settings`: weak fairness of the announce task's three steps; `Found` is among them, so
`StartBearsFruit` is about a search that ends. `LeaseKept`, `ServiceKept`, the action properties
and all invariants need none. `PowGrind`, `ServedSwaps` and `HistoryExport` state safety only.

## Theorems

They hold for every value of the constants that the named assumptions allow.

| theorem | says | argument |
|---|---|---|
| `SwapServerProofs!TypeCorrect` | `[]TypeOK` | part of `IInv` |
| `SwapServerProofs!RecorderSafe`, `ListenerSafe` | `[]RecorderFollowsRun`, `[]ListenerRecorded` | `IInv` |
| `SwapServerServiceProofs!AnnouncerSafe`, `CancellationSafe` | `[]OneAnnouncer`, `[]CancellationTakesHold` | `IInv /\ LifeInv` |
| `SwapServerServiceProofs!ServiceImplemented` | `Spec => ServiceKept` | step simulation under `IInv /\ LifeInv` |
| `SwapServerRestartProofs!HttpSwapsRecorded` | `[]CurrentSwapsRecorded`, if no configuration has relays | `BaseInv`: listeners keep their manager |
| `SwapServerRestartProofs!KeptWalletRecorded` | `[]CurrentSwapsRecorded`, if `KeepsWallet` | `KeepInv` (`WalletInv`, `KeyInv`, `UpInv`) |
| `SwapServerRestartProofs!KeptWalletPortFree` | `[]RestartFindsPortFree`, if `KeepsWallet` | `KeepInv`, `FollowInv`, `StopsFollow`, `SockInv`, `PortInv` |
| `SwapServerRestartProofs!KeptWalletOffers` | `[]OfferMeetsTarget`, if `KeepsWallet` | `KeepInv`, `FollowInv`, `ProvenInv` |
| `SwapServerRestartProofs!OneWalletKept` | `KeepsWallet`, with one wallet | invariance |
| `SwapServerRestartProofs!ClaimsStand` | `[]StatusTruthful` | `SockInv`, `TransportInv`, `TurnInv`, `RelayInv` |
| `AnnounceLoopProofs!TypeCorrect` | `[]TypeOK` | `IInv /\ OtherTypes` |
| `AnnounceLoopProofs!LeaseImplemented` | `Spec => LeaseKept` | time budget at each await, then step simulation |
| `AnnounceLoopProofs!ClaimBounded` | `[]AnnouncingIsBrief`, if there is a key and `CloseTime <= ClaimBound` | `ClaimBudget` |
| `AnnounceLoopProofs!RecoveryBounded` | `[]Recovers`, if there is a key and the intervals are `Paced` | `RecoveryBudget` |
| `PowGrindProofs!TypeCorrect`, `NothingSkipped`, `WorkAccumulates` | types, `[]CursorsScanned`, `WorkKept` (of one key) | `IInv` |
| `PowGrindProofs!CallKeepsItsWord` | `[]InstalledMeetsTarget`, if `ZeroMisses` | `IInv /\ Meets` |
| `SettingsProofs!TypeCorrect`, `StoredIsServed`, `NothingFoundLost` | types, `[]ServesStored`, `[]FoundIsKept` | the three together |
| `SettingsProofs!FormShowsStored` | `[]FormHonest`, if `SpinMax = Limit` | with types |
| `DiscoveryProofs!TypeCorrect`, `ButtonSafe`, `ReportsComplete` | `[]TypeOK`, `[]ButtonHonest`, `[]ReportComplete` | `Types`, then `Postings`, `Askers`, `Answers` |
| `DiscoveryProofs!DiscoverableTrue` | `[]DiscoverableSound`, if `HonestWork` and always `Prompt` | `Stages /\ Sole /\ Sights` |
| `DiscoveryProofs!StandingFound` | `[]StandingOfferFound`, if also `OlderFirst` | the same with `Older` |
| `DiscoveryProofs!StockWarned` | `[]StockTakersWarned`, if `HonestWork` and always `Prompt` | `Stock` over `DiscoverableSound` |
| `SwapHistoryProofs!SideCorrect` | `[]RoleHonest` | `RoleInv` |
| `SwapHistoryProofs!CountedSettled` | `[]CountedIsSettled` | `RoleInv /\ SettledInv` |
| `SwapHistoryProofs!BatchExact` | `[]BatchReconciles` | `WalletInv /\ NamedInv /\ MoneyInv`, `SplitWhole` |
| `SwapHistoryProofs!NeverRevised` | `ReturnNeverRevised` | the same, `FinalFixed`, `LegsStay` |
| `SwapHistoryProofs!ReturnsExact` | `[]ReturnsAddUp` | the same, `NetLegs`, `SumParts` |
| `SwapHistoryProofs!Typed` | `[]TypeOK` of `ServedSwaps` | the same, `NetLegs` |
| `SwapHistoryProofs!EveryNamed` | `[]EverySwapNamed` | `WalletInv /\ NamedInv` |
| `SwapHistoryProofs!NothingDropped` | `ExportSpec => []StuckIsExported` | `HeldInv` over `WalletInv` |
| `SwapHistoryProofs!SidesAgree` | `ExportSpec => []SectionsAgree` | `SidesInv` over `WalletInv` |
| `SwapHistoryProofs!RowsOver` | `ExportSpec => []ExportedRowsOver`, `ExportedReturnStands` without the amount | `OverInv` over `SidesInv` |
| `SwapHistoryProofs!SplitSuffices` | `ExportSpec => []ExportedReturnStands`, if `SplitAccountsForAll` holds throughout | `ReturnInv` over `FileInv` |
| `SwapHistoryProofs!SplitComplete` | `ExportSpec => []SplitAccountsForAll`, if no swap is created between the two reads | `JoinedInv` over `FileInv` |

*SwapServer.* `RecorderFollowsRun` is not inductive: the recorder is off while the server is being
stopped and on while it is being started, and `running` changes elsewhere. `IInv` adds where the
recorder is at each statement group (`RecorderPlaced`), that `start_server` is only entered
stopped and with no futures left (`StoppedFirst`), that a wallet is bound while the server runs or
a start or stop is under way (`WalletBound`), that the bounds leave room for what is about to be
spawned (`RoomKept`), and that a task past its first await has a wallet (`KeyTaken`, needed for the
types). `LoopFrame` shows once that the loop touches none of what `OwnerInv` speaks of, so only the
Qt thread's steps need an argument (`OwnerStep`).

*SwapServerService.* `OneAnnouncer` and `CancellationTakesHold` are about a task; what keeps them is
what the queue holds for it. `Life(t)` says that a task is created once and from one callback
(`BornOnce`), that no cancellation is ahead of its first step (`FirstStepFirst`), that a task is only
on its way out because it was told (`OnlyIfTold`), that the cancellation of one told is in the queue,
pending or carried out (`ToldForSure`), and that only the plugin's current task has not been told
(`OnlyOne`). `TailFacts` and `AppendFacts` say once what taking the head and appending do to
membership and order in the queue. Every step then moves each task one stage on, or not at all.

*From run to run.* Four properties of `SwapServer` break when a second wallet is opened under a running
server: `OfferMeetsTarget` (`SS_newkey`), `CurrentSwapsRecorded` (`SS_stray`), `StoppedMeansClosed`
(`SS_orphan`) and with it `RestartFindsPortFree`. The theorems of `SwapServerRestartProofs` say of three of
them that nothing else breaks them. `KeepsWallet` is that `wallet` does not change in a step taken while
`running`; it is not the code's, but what an operator who closes one wallet before opening another gives
it. With one wallet it holds of itself (`OneWalletKept`), which is the case of the runs.
The hard part is the order in the loop's queue. A new task must not enter the proof of work, or bind,
before the last one has given it up. `Ahead` says that what ends the earlier task is in the queue before
what begins the later one, and `Outlived` that it therefore takes effect first (`FollowInv`, and
`StopsFollow` for `stop` and `run` of the listeners); `OneFate` says once that a step of the loop is a step
of one task, so that the others of the pair stand still. `ProvenInv` says that an announce task nobody is stopping
is past its proof of work only with the nonce for the bound wallet, or because the grind gave up. Over HTTP alone `CurrentSwapsRecorded` needs
no habit: a listener takes swaps for the manager it was made with, and `ListenerRecorded` ties that to the
recorder (`HttpSwapsRecorded`).
`ClaimsStand` needs no habit either, although a task that was told to end still writes the plugin's flags
when the next run has begun. `TransportInv` says that the transport remembered is of a task that has one, that nobody has asked for the
shutdown of the transport of the task the plugin holds, and that the grinding flag is set by a task that
grinds; `TurnInv` that no run before its own speaks in a task's name, and that of this run's tasks all but
the one the plugin holds are over; `RelayInv` follows the last word on the connection, which if it is of
this run's task is right until somebody else speaks. That somebody else may is the finding of `SS_stale`.

*AnnounceLoop.* `Budget` states for every await how much of the offer's lifetime must be left if
nothing has interfered since it was acknowledged: what the await may still take, plus what
lies between it and the next acknowledgement. It needs `Undisturbed` (undisturbed, the link
holds and the transport has published, so the backoff is the short one) and `InTime` (no await
outlasts its bound). `RoomAssumption` is exactly what closes the argument; the branch through a
scheduled recycle is what makes its second half necessary. `RecoveryBudget` turns it round: `Left` is
the longest way to an acknowledged offer from each await, over the failures still allowed
(`Rounds`), the closing, the backoff and a new connection, and `calm + Left` stays below the bound
until an offer is acknowledged. It asks that the longest backoff is shorter than a republish and
the shortest backoff together (300 < 305), a connection no longer than a poll and a publish, and a
poll of the lock no longer than a republish (`Paced`); the code's intervals are, and so are those of
`AL_keyed`. Without a key the loop only waits, and there is no offer to recover.

*PowGrind.* `Worker(l)` says what a worker at each of its writes has hashed or found, `Cursor(l)` that
every copy of a cursor (worker's, shared, parent's, saved) is behind what was hashed for its key and
in that order, `Call` that a call keeps its key and target. `Meets` adds that the winner's nonce is
good from its reading to its installing; it needs that the number 0 is no hit (`ZeroMisses`), which
is not so in the code (`PW_zero`). The best of a block is found by descent on the block's length
(`Greatest`).

*Settings.* `ServesStored` and `FoundIsKept` are inductive together with the types: whatever a search has found is
the best nonce or the stored one, and no step but a search writes either.

*Discovery.* `ButtonHonest` relates three threads' worth of state; what keeps it are `Postings` (a report is
posted once, by a check that is over, and a check that is to report was not withdrawn), `Askers` (a
check that was started belongs to a tab) and, among the types, that a deleted tab is not the one shown
and no button is off but its own. `Answers` says that a relay that is closing has a verdict unless the
check was withdrawn. For the verdicts, `Sights` says what lies between the two queries: every offer of
this version a relay holds while query B is out is as good as the one judged, an offer that stood is
still there, and what a taker could find is in `found`. That needs three conditions, each of them on the
surroundings: what is published meets the target (`HonestWork`, which is `OfferMeetsTarget` of
`SwapServer`), no query outlasts the lookback (`Prompt`; the deadlines are seconds, the lookback an
hour), and, for `StandingFound`, no older Electrum publishes after this one (`OlderFirst`).
`EvaluateRules` shows that the first broken rule is none exactly when a taker accepts the offer. For
`StockWarned`, `Stock` says that what a taker on a higher target finds is also there for one on the default
target, so only a check asked with a lower one may mislead him, and that one is *lenient*.

*ServedSwaps.* `RoleInv` says what `server_create_*`, `normal_swap` and `reverse_swap` leave in a
swap's record and that the ledger names served swaps only. Every later step keeps the four fields a
role is read from (`Later`). `SettledInv` says that a lockup is spent only after its funding has
confirmed, which it then stays, and that a payment in the history was made.

*Sums of money.* What is left is about amounts. A sum over a set is a fold in the order of `CHOOSE`,
and the library's induction theorems cannot be used. `SetInduction` takes a *set* of
sets instead of an operator: it follows from well-founded induction on the proper subsets. From it come `SumRule`,
that the fold is what its equation says, and the rules of sums (`SumOut`, `SumPlus`, `SumJoin`,
`SumImage`, `SumParts`). `SplitWhole` is `split_fee`: the shares are between nothing and the fee and
add up to it, because what the rounding leaves over is less than the number of legs (`Division`,
`SumLess`) and goes to as many legs, one each, in the order of remainders and keys, which is total as a
swap has one leg in a transaction (`ExtraShared`). `MoneyInv` says that both ends of a lockup are transactions that were made, and
different ones, and that a transaction of ours gained the lockups it spends, less what it
funds and its fee (`Whole`). Every step leaves the swaps of a transaction of ours what they were, makes a new
one, or drops one that did nothing else (`Steady`, `MoneyKept`). The legs of a transaction are then
those of its swaps, one each (`LegsOne`), so `BatchReconciles` is `SplitWhole` and `MoneyInv`. For
`ReturnNeverRevised`, a swap that is final keeps its record, its payments and its legs (`FinalFixed`,
`LegsStay`), and so do the swaps it shared a transaction with what the split reads of them. For
`ReturnsAddUp` the same sum is taken twice, by swap and by payment and transaction.

*HistoryTab.* `EverySwapNamed` is a statement about one state, but needs to know that nothing in the history
is a stranger's: `NamedInv` says that a transaction of ours was made, that a payment is one its swap has,
and that the spending of a lockup that the other side claimed is not ours, which is why `OnchainLegs` may
leave it out. A swap that shares no transaction is then the only one filed under its anchor, and the
groups of its transactions are its own (`OwnGroup`).

*HistoryExport.* Between two reads the wallet may take any number of steps; what helps is what they never
take back: the side of a swap that exists and a confirmation (`WalletKept`). `HeldInv` follows what
was held from the list to the records, `SidesInv` says what each section may hold once its read is past:
the ledger read first names served swaps only, so a role taken from it is the true one or none. A row
that counts is over (`RowsOver`) for any number of swaps. That its amount is also the tab's
(`ExportedReturnStands`) hangs on one thing only: that the legs the rows know of a transaction are all of
it, or none. This is what the comment in `served_swaps.py` asks for, and `SplitSuffices` says that
it is enough. It fails when a swap is created between the read of the swaps and that of the history
and is batched at once (`HE_split`). `SplitComplete` says that it fails in no other way, whatever the
wallet does before and after those two reads. `FeesSeen` is what carries it over the wallet's steps:
a transaction that was read is ours with the fee that was read, or was dropped for good.
`PreimageInv` is needed because a refund is no leg that `missing_legs` asks for: a swap that was paid is not refunded.

Assumptions: those named in the modules (`WalletAssumption`, `BoundAssumption`, `TimeAssumption`,
`RoomAssumption`, `AmountAssumption`, …), which TLC evaluates in every run, and those in the table.

*Only model-checked*: the liveness properties of the passing runs, which are out of this prover's reach
(`StopCompletes`, `DeadTaskRestarted`, `ListenerCloses`, `RequestHonoured`, `KeepsTrying`,
`StartBearsFruit`, `ButtonComesBack`); `TaskTracked`, which holds for one start and not for two; and the
five properties that must be violated. Every other safety property of a passing run is a theorem, some of
them under the conditions in the table. That the conditions on wallets, on the number 0 and on the spin
box are needed is shown by `SS_newkey`, `SS_stray`, `PW_zero` and `ST_clamp`, where the property fails
without them. `TypeOK` of `ServedSwaps`, `AnnounceLoop`, `PowGrind`, `Settings` and
`Discovery` is proved instead of being checked in a run.

## Plan

Done, most important first: lifecycle, announce loop, proof of work, accounting; then settings,
discovery, history tabs and export; the announce service and the refinement; the theorems above.
Left, in this order:

1. The `utxo` fallback of `lockup_value_sat`, which needs a watcher that may not know an output.
2. A statement of what is recorded with nostr and several wallets.

## Not modelled

- Packaging and version (`__init__.py`, `_version.py`, build scripts) and the regtest demo: no state
  that a run of the plugin changes.
- Widgets, columns, dialogs, texts, number and date formatting, logging. The rest of the tab's
  `refresh()` and of `status()` only shows state; its parts are modelled where a property reads them.
- Of the lifecycle, `request_pairs_update` (which only refreshes numbers) and the EventListener
  registration of the HTTP server. Of the settings, the fee, which is read on each request, and the
  question asked before a long grind.
- Of the history tabs, the shadowing of `get_full_history`, which is set and undone within one event
  of the Qt thread. Of the export, sections read and copied like the history (channels, labels,
  versions), the redaction of secrets and the writing of the file.
- Electrum, aiohttp, aionostr and the operating system appear by what the plugin's code relies on, as
  external actions.

## Running

    tlc -workers 2 -config SS_single.cfg MCSwapServer     # likewise the other runs, 6 to 180 s each
    tlapm SwapServerProofs.tla                            # and the other *Proofs

`PROJECT.json` maps every definition to the lines it models, names for each checked property a
plausible bug of the code that breaks it (the operators marked `Mutant:`), and lists findings,
hazards and theorems.
