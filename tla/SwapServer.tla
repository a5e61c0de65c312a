----------------------------- MODULE SwapServer -----------------------------
(***************************************************************************)
(* The lifecycle of SwapServerGuiPlugin (swapserver_gui.py): the Qt thread *)
(* starts, stops, rebinds and supervises the server, the asyncio thread    *)
(* runs the HTTP and nostr coroutines it schedules.                        *)
(*                                                                         *)
(* The two threads share attributes and one FIFO: everything the Qt thread *)
(* asks of the loop (run_coroutine_threadsafe, Future.cancel) is a         *)
(* callback appended to the loop's ready queue, and the loop takes its     *)
(* head.  The Qt thread is a program counter `gui` over the statement      *)
(* groups of start_server and stop_server, so that the loop can run        *)
(* between any two of them.  A coroutine is a program counter over its     *)
(* await points; one step runs from one await to the next.                 *)
(*                                                                         *)
(* Clock values, amounts and texts are abstracted: whether an offer is due *)
(* and what a relay answers are nondeterministic here (AnnounceLoop times  *)
(* them).  A timestamp is replaced by the run that wrote it.               *)
(***************************************************************************)
EXTENDS Naturals, Sequences

CONSTANTS
  Wallets,      \* lightning wallets the operator may open
  NoWallet,     \* stands for None
  Configs,      \* the settings the operator may save: port (0 = off) and relays
  MaxRuns,      \* bound: how often start_server gets past its guards
  MaxSpawns,    \* bound: how many announce tasks are ever spawned
  MaxFailures,  \* PUBLISH_FAILURES_BEFORE_RECYCLE
  Lockable,     \* the wallets with a password
  Takers        \* whether takers send requests in this instance

ASSUME WalletAssumption == NoWallet \notin Wallets
ASSUME LockAssumption == Lockable \subseteq Wallets /\ Takers \in BOOLEAN
ASSUME ConfigAssumption == \A c \in Configs : c.port \in Nat /\ c.relays \in BOOLEAN
ASSUME BoundAssumption ==
  MaxRuns \in Nat \ {0} /\ MaxSpawns \in Nat \ {0} /\ MaxFailures \in Nat \ {0}

Runs    == 1 .. MaxRuns
Spawns  == 1 .. MaxSpawns

\* A coroutine handed to _spawn, by its label.  An HTTP server and its stop
\* carry the number of their run; an announce task and the shutdown of its
\* transport carry the number of the spawn.
Task == ({"http", "http-stop"} \X Runs) \cup ({"nostr", "nostr-stop"} \X Spawns)

Await    == {"lockwait", "binding", "cleanup", "pow", "connect", "publish",
             "tick", "closing", "backoff", "stopping"}
Finished == {"done", "cancelled", "failed"}
PC       == {"none", "spawned", "fresh"} \cup Await \cup Finished

GuiPC == {"idle", "stop_http", "stop_cancel", "stop_transport", "stop_flags",
          "unbind", "start_record", "start_reset", "start_http", "start_nostr"}

VARIABLES
  \* the Qt thread
  gui, cont,          \* where it is, and what follows a stop_server
  config, autostart,  \* the stored settings
  \* plugin and swap-manager attributes
  wallet,             \* self.wallet, and self._sm with it
  running, recorded,  \* _running, _recorded_sm
  wrapped,            \* wrapped[w]: server_create_* of w's manager are wrapped
  isServer, httpOf,   \* sm.is_server, sm.http_server (a run, or 0)
  httpFut, nostrFut,  \* _http_fut (a run), _nostr_fut (a spawn), 0 = None
  runs, spawns,       \* how many of each there were
  throttled,          \* _last_nostr_restart_at is recent
  live,               \* _live_transport, named by the task that built it
  relay, relayBy,     \* _relay_connected, and the run that wrote it
  lastSuccess,        \* _last_publish_success_at: the run that published, or 0
  failures,           \* _consecutive_publish_failures
  grinding,           \* _pow_grinding
  nonceFor,           \* the wallet whose key the stored nonce suffices for
  \* the loop
  queue, pc, mustCancel, cancelled,
  \* ManagedHttpSwapServer objects, by run
  serverWallet, serverPort, runner, site, sock, inflight,
  \* announce tasks, by spawn: its run, and its transport
  runOf, transportWallet, up, serving, dying,
  \* environment and history
  locked, missed, clashed, weakOffer, gaveUp

guiVars   == <<gui, cont, config, autostart>>
ownerVars == <<wallet, running, recorded, wrapped, isServer, httpOf, httpFut,
               nostrFut, runs, spawns, throttled>>
noteVars  == <<relay, relayBy, lastSuccess, failures>>
powVars   == <<grinding, nonceFor>>
loopVars  == <<queue, pc, mustCancel, cancelled>>
httpVars  == <<serverWallet, serverPort, runner, site, sock, inflight>>
nostrVars == <<runOf, transportWallet, up, serving, dying>>
history   == <<missed, clashed, weakOffer, gaveUp>>
vars == <<guiVars, ownerVars, live, noteVars, powVars, loopVars, httpVars,
          nostrVars, locked, history>>

GuiTypes ==
  /\ gui \in GuiPC /\ cont \in {"idle", "unbind", "start_record"}
  /\ config \in Configs /\ autostart \in BOOLEAN
OwnerTypes ==
  /\ wallet \in Wallets \cup {NoWallet} /\ recorded \in Wallets \cup {NoWallet}
  /\ running \in BOOLEAN /\ throttled \in BOOLEAN
  /\ wrapped \in [Wallets -> BOOLEAN] /\ isServer \in [Wallets -> BOOLEAN]
  /\ httpOf \in [Wallets -> 0 .. MaxRuns]
  /\ httpFut \in 0 .. MaxRuns /\ runs \in 0 .. MaxRuns
  /\ nostrFut \in 0 .. MaxSpawns /\ spawns \in 0 .. MaxSpawns
NoteTypes ==
  /\ live \in 0 .. MaxSpawns
  /\ relay \in {"none", "yes", "no"} /\ relayBy \in 0 .. MaxRuns
  /\ lastSuccess \in 0 .. MaxRuns /\ failures \in 0 .. MaxFailures
  /\ grinding \in BOOLEAN /\ nonceFor \in Wallets \cup {NoWallet}
LoopTypes ==
  /\ queue \in Seq({"create", "cancel", "step"} \X Task)
  /\ pc \in [Task -> PC]
  /\ mustCancel \in [Task -> BOOLEAN] /\ cancelled \in [Task -> BOOLEAN]
HttpTypes ==
  /\ serverWallet \in [Runs -> Wallets \cup {NoWallet}]
  /\ serverPort \in [Runs -> Nat]
  /\ runner \in [Runs -> BOOLEAN] /\ site \in [Runs -> BOOLEAN]
  /\ sock \in [Runs -> BOOLEAN] /\ inflight \in [Runs -> BOOLEAN]
NostrTypes ==
  /\ runOf \in [Spawns -> 0 .. MaxRuns]
  /\ transportWallet \in [Spawns -> Wallets \cup {NoWallet}]
  /\ up \in [Spawns -> BOOLEAN] /\ serving \in [Spawns -> BOOLEAN]
  /\ dying \in [Spawns -> BOOLEAN]
HistoryTypes ==
  /\ locked \in [Wallets -> BOOLEAN]
  /\ missed \subseteq {"current", "leftover"} /\ clashed \in BOOLEAN
  /\ weakOffer \subseteq Wallets /\ gaveUp \subseteq Wallets

\* Every variable has its type.
TypeOK ==
  /\ GuiTypes /\ OwnerTypes /\ NoteTypes /\ LoopTypes
  /\ HttpTypes /\ NostrTypes /\ HistoryTypes

Init ==
  /\ gui = "idle" /\ cont = "idle" /\ config \in Configs /\ autostart \in BOOLEAN
  /\ wallet = NoWallet /\ recorded = NoWallet /\ running = FALSE
  /\ wrapped = [w \in Wallets |-> FALSE] /\ isServer = [w \in Wallets |-> FALSE]
  /\ httpOf = [w \in Wallets |-> 0]
  /\ httpFut = 0 /\ nostrFut = 0 /\ runs = 0 /\ spawns = 0 /\ throttled = FALSE
  /\ live = 0 /\ relay = "none" /\ relayBy = 0 /\ lastSuccess = 0 /\ failures = 0
  /\ grinding = FALSE /\ nonceFor \in Wallets \cup {NoWallet}
  /\ queue = <<>> /\ pc = [k \in Task |-> "none"]
  /\ mustCancel = [k \in Task |-> FALSE] /\ cancelled = [k \in Task |-> FALSE]
  /\ serverWallet = [n \in Runs |-> NoWallet] /\ serverPort = [n \in Runs |-> 0]
  /\ runner = [n \in Runs |-> FALSE] /\ site = [n \in Runs |-> FALSE]
  /\ sock = [n \in Runs |-> FALSE] /\ inflight = [n \in Runs |-> FALSE]
  /\ runOf = [t \in Spawns |-> 0] /\ transportWallet = [t \in Spawns |-> NoWallet]
  /\ up = [t \in Spawns |-> FALSE] /\ serving = [t \in Spawns |-> FALSE]
  /\ dying = [t \in Spawns |-> FALSE]
  /\ locked \in {f \in [Wallets -> BOOLEAN] : \A w \in Wallets \ Lockable : ~f[w]}
  /\ missed = {} /\ clashed = FALSE /\ weakOffer = {} /\ gaveUp = {}

-----------------------------------------------------------------------------
(* What the Qt thread can ask of the loop.                                 *)

\* run_coroutine_threadsafe: the task itself is made by the queued callback.
Spawn(k) ==
  /\ queue' = Append(queue, <<"create", k>>)
  /\ pc' = [pc EXCEPT ![k] = "spawned"]

\* What Future.cancel() on the future of k queues: nothing when the task has
\* finished, nothing yet when the task is not even created (see Create).
CancelCall(k) == IF pc[k] \in Finished \cup {"spawned"} THEN <<>> ELSE <<<<"cancel", k>>>>

\* The futures stop_server cancels, and the callbacks that queues.
CurrentFutures ==
  (IF httpFut = 0 THEN {} ELSE {<<"http", httpFut>>})
    \cup (IF nostrFut = 0 THEN {} ELSE {<<"nostr", nostrFut>>})
CancelCalls ==
  (IF httpFut = 0 THEN <<>> ELSE CancelCall(<<"http", httpFut>>))
    \o (IF nostrFut = 0 THEN <<>> ELSE CancelCall(<<"nostr", nostrFut>>))

-----------------------------------------------------------------------------
(* The Qt thread: user actions and hooks.                                  *)

HasTransport(c) == c.port # 0 \/ c.relays
RoomToStart == runs < MaxRuns /\ spawns < MaxSpawns   \* the bounds

\* on_toggle: stop when running, else start if can_run has no objection.
Toggle ==
  /\ gui = "idle" /\ wallet # NoWallet
  /\ \/ /\ running
        /\ gui' = "stop_http" /\ autostart' = FALSE
     \/ /\ ~running /\ HasTransport(config) /\ RoomToStart
        /\ gui' = "start_record" /\ autostart' = TRUE
  /\ cont' = "idle"
  /\ UNCHANGED <<config, ownerVars, live, noteVars, powVars, loopVars, httpVars,
                 nostrVars, locked, history>>

\* on_save: store the settings; bounce a running server when the port or the
\* relays changed or the target was raised (the stored nonce may then be short).
Save(c) ==
  /\ gui = "idle" /\ wallet # NoWallet
  /\ config' = c
  /\ \E raised \in BOOLEAN :
       /\ nonceFor' \in (IF raised THEN {nonceFor, NoWallet} ELSE {nonceFor})
       /\ IF running /\ (c # config \/ raised)
          THEN /\ RoomToStart
               /\ gui' = "stop_http"
               /\ cont' = IF HasTransport(c) THEN "start_record" ELSE "idle"
          ELSE UNCHANGED <<gui, cont>>
  /\ UNCHANGED <<autostart, ownerVars, live, noteVars, grinding, loopVars,
                 httpVars, nostrVars, locked, history>>

\* The load_wallet hook: rebinds whatever is running, then autostarts.
LoadWallet(w) ==
  /\ gui = "idle" /\ w # wallet
  /\ wallet' = w
  /\ IF autostart /\ ~running /\ HasTransport(config)
     THEN RoomToStart /\ gui' = "start_record" /\ cont' = "idle"
     ELSE UNCHANGED <<gui, cont>>
  /\ UNCHANGED <<config, autostart, running, recorded, wrapped, isServer, httpOf,
                 httpFut, nostrFut, runs, spawns, throttled, live, noteVars,
                 powVars, loopVars, httpVars, nostrVars, locked, history>>

\* close_wallet, on_close_window and close: stop, drop the tabs, unbind.
CloseWallet ==
  /\ gui = "idle" /\ wallet # NoWallet
  /\ gui' = IF running THEN "stop_http" ELSE "unbind"
  /\ cont' = "unbind"
  /\ UNCHANGED <<config, autostart, ownerVars, live, noteVars, powVars, loopVars,
                 httpVars, nostrVars, locked, history>>

\* Mutant: any announce task is taken for a dead one.
AnyTaskFailed == running /\ nostrFut # 0

NostrTaskFailed ==
  running /\ nostrFut # 0 /\ pc[<<"nostr", nostrFut>>] = "failed"

SpawnNostr(t) ==
  /\ spawns' = t /\ nostrFut' = t
  /\ runOf' = [runOf EXCEPT ![t] = runs]
  /\ Spawn(<<"nostr", t>>)

\* Mutant: the throttle is tested the wrong way round.
SuperviseOnlyThrottled ==
  /\ gui = "idle" /\ wallet # NoWallet
  /\ NostrTaskFailed /\ throttled /\ spawns < MaxSpawns
  /\ throttled' = TRUE
  /\ SpawnNostr(spawns + 1)
  /\ UNCHANGED <<guiVars, wallet, running, recorded, wrapped, isServer, httpOf,
                 httpFut, runs, live, noteVars, powVars, mustCancel, cancelled,
                 httpVars, transportWallet, up, serving, dying, locked, history>>

\* supervise, from the tab's refresh timer.
Supervise ==
  /\ gui = "idle" /\ wallet # NoWallet
  /\ NostrTaskFailed /\ ~throttled /\ spawns < MaxSpawns
  /\ throttled' = TRUE
  /\ SpawnNostr(spawns + 1)
  /\ UNCHANGED <<guiVars, wallet, running, recorded, wrapped, isServer, httpOf,
                 httpFut, runs, live, noteVars, powVars, mustCancel, cancelled,
                 httpVars, transportWallet, up, serving, dying, locked, history>>

\* NOSTR_RESTART_MIN_INTERVAL_SEC pass.
ThrottleExpires ==
  /\ throttled /\ throttled' = FALSE
  /\ UNCHANGED <<guiVars, wallet, running, recorded, wrapped, isServer, httpOf,
                 httpFut, nostrFut, runs, spawns, live, noteVars, powVars,
                 loopVars, httpVars, nostrVars, locked, history>>

-----------------------------------------------------------------------------
(* stop_server, in four groups of statements, and unbind_wallet.           *)

\* Mutant: the manager forgets its server, and nobody stops it.
StopHttpForgets ==
  /\ gui = "stop_http" /\ gui' = "stop_cancel"
  /\ httpOf' = [httpOf EXCEPT ![wallet] = 0]
  /\ UNCHANGED <<cont, config, autostart, wallet, running, recorded, wrapped,
                 isServer, httpFut, nostrFut, runs, spawns, throttled, live,
                 noteVars, powVars, loopVars, httpVars, nostrVars, locked, history>>

StopHttp ==
  /\ gui = "stop_http" /\ gui' = "stop_cancel"
  /\ IF httpOf[wallet] # 0
     THEN /\ Spawn(<<"http-stop", httpOf[wallet]>>)
          /\ httpOf' = [httpOf EXCEPT ![wallet] = 0]
     ELSE UNCHANGED <<queue, pc, httpOf>>
  /\ UNCHANGED <<cont, config, autostart, wallet, running, recorded, wrapped,
                 isServer, httpFut, nostrFut, runs, spawns, throttled, live,
                 noteVars, powVars, mustCancel, cancelled, httpVars, nostrVars,
                 locked, history>>

StopCancel ==
  /\ gui = "stop_cancel" /\ gui' = "stop_transport"
  /\ queue' = queue \o CancelCalls
  /\ cancelled' = [k \in Task |->
       cancelled[k] \/ (k \in CurrentFutures /\ pc[k] \notin Finished)]
  /\ httpFut' = 0 /\ nostrFut' = 0
  /\ UNCHANGED <<cont, config, autostart, wallet, running, recorded, wrapped,
                 isServer, httpOf, runs, spawns, throttled, live, noteVars,
                 powVars, pc, mustCancel, httpVars, nostrVars, locked, history>>

StopTransport ==
  /\ gui = "stop_transport" /\ gui' = "stop_flags"
  /\ IF live # 0 THEN Spawn(<<"nostr-stop", live>>) ELSE UNCHANGED <<queue, pc>>
  /\ live' = 0
  /\ UNCHANGED <<cont, config, autostart, ownerVars, noteVars, powVars,
                 mustCancel, cancelled, httpVars, nostrVars, locked, history>>

\* Mutant: the manager of the wallet bound now is unwrapped.
RemoveFromBound ==
  /\ wrapped' = [w \in Wallets |-> wrapped[w] /\ w # wallet]
  /\ recorded' = NoWallet

\* _remove_served_swap_recorder: unwraps the manager that was wrapped.
RemoveRecorder ==
  /\ wrapped' = [w \in Wallets |-> wrapped[w] /\ w # recorded]
  /\ recorded' = NoWallet

StopFlags ==
  /\ gui = "stop_flags" /\ gui' = cont
  /\ isServer' = [isServer EXCEPT ![wallet] = FALSE]
  /\ RemoveRecorder
  /\ running' = FALSE /\ grinding' = FALSE
  /\ relay' = "none" /\ relayBy' = 0
  /\ UNCHANGED <<cont, config, autostart, wallet, httpOf, httpFut, nostrFut, runs,
                 spawns, throttled, live, lastSuccess, failures, nonceFor,
                 loopVars, httpVars, nostrVars, locked, history>>

Unbind ==
  /\ gui = "unbind" /\ gui' = "idle"
  /\ RemoveRecorder
  /\ wallet' = NoWallet
  /\ UNCHANGED <<cont, config, autostart, running, isServer, httpOf, httpFut,
                 nostrFut, runs, spawns, throttled, live, noteVars, powVars,
                 loopVars, httpVars, nostrVars, locked, history>>

-----------------------------------------------------------------------------
(* start_server, in four groups of statements.                             *)

\* Mutant: a manager that is already a server is taken for a recorded one.
StartRecordTooLate ==
  /\ gui = "start_record" /\ gui' = "start_reset"
  /\ runs' = runs + 1
  /\ isServer' = [isServer EXCEPT ![wallet] = TRUE]
  /\ IF isServer'[wallet]
     THEN UNCHANGED <<wrapped, recorded>>
     ELSE wrapped' = [wrapped EXCEPT ![wallet] = TRUE] /\ recorded' = wallet
  /\ UNCHANGED <<cont, config, autostart, wallet, running, httpOf, httpFut,
                 nostrFut, spawns, throttled, live, noteVars, powVars, loopVars,
                 httpVars, nostrVars, locked, history>>

StartRecord ==
  /\ gui = "start_record" /\ gui' = "start_reset"
  /\ runs' = runs + 1
  /\ isServer' = [isServer EXCEPT ![wallet] = TRUE]
  /\ IF wrapped[wallet]
     THEN UNCHANGED <<wrapped, recorded>>
     ELSE wrapped' = [wrapped EXCEPT ![wallet] = TRUE] /\ recorded' = wallet
  /\ UNCHANGED <<cont, config, autostart, wallet, running, httpOf, httpFut,
                 nostrFut, spawns, throttled, live, noteVars, powVars, loopVars,
                 httpVars, nostrVars, locked, history>>

StartReset ==
  /\ gui = "start_reset" /\ gui' = "start_http"
  /\ relay' = "none" /\ relayBy' = 0 /\ lastSuccess' = 0 /\ failures' = 0
  /\ throttled' = FALSE
  /\ UNCHANGED <<cont, config, autostart, wallet, running, recorded, wrapped,
                 isServer, httpOf, httpFut, nostrFut, runs, spawns, live, powVars,
                 loopVars, httpVars, nostrVars, locked, history>>

StartHttp ==
  /\ gui = "start_http" /\ gui' = "start_nostr"
  /\ IF config.port # 0
     THEN /\ serverWallet' = [serverWallet EXCEPT ![runs] = wallet]
          /\ serverPort' = [serverPort EXCEPT ![runs] = config.port]
          /\ httpOf' = [httpOf EXCEPT ![wallet] = runs]
          /\ httpFut' = runs
          /\ Spawn(<<"http", runs>>)
     ELSE UNCHANGED <<serverWallet, serverPort, httpOf, httpFut, queue, pc>>
  /\ UNCHANGED <<cont, config, autostart, wallet, running, recorded, wrapped,
                 isServer, nostrFut, runs, spawns, throttled, live, noteVars,
                 powVars, mustCancel, cancelled, runner, site, sock, inflight,
                 nostrVars, locked, history>>

StartNostr ==
  /\ gui = "start_nostr" /\ gui' = "idle"
  /\ running' = TRUE
  /\ IF config.relays
     THEN SpawnNostr(spawns + 1)
     ELSE UNCHANGED <<spawns, nostrFut, runOf, queue, pc>>
  /\ UNCHANGED <<cont, config, autostart, wallet, recorded, wrapped, isServer,
                 httpOf, httpFut, runs, throttled, live, noteVars, powVars,
                 mustCancel, cancelled, httpVars, transportWallet, up, serving,
                 dying, locked, history>>

-----------------------------------------------------------------------------
(* The asyncio loop.                                                       *)

StepQueued(k) == \E i \in DOMAIN queue : queue[i] = <<"step", k>>
Suspended(k)  == pc[k] \in Await /\ ~StepQueued(k)

\* The callback of run_coroutine_threadsafe: make the task, which queues its
\* first step; if the future was cancelled meanwhile, the cancel comes after it.
Create(k) ==
  /\ queue # <<>> /\ Head(queue) = <<"create", k>>
  /\ queue' = Append(Tail(queue), <<"step", k>>)
                \o (IF cancelled[k] THEN <<<<"cancel", k>>>> ELSE <<>>)
  /\ pc' = [pc EXCEPT ![k] = "fresh"]
  /\ UNCHANGED <<guiVars, ownerVars, live, noteVars, powVars, mustCancel,
                 cancelled, httpVars, nostrVars, locked, history>>

\* Mutant: the cancellation of a suspended task wakes nobody.
CancelWakesNobody(k) ==
  /\ queue # <<>> /\ Head(queue) = <<"cancel", k>>
  /\ queue' = Tail(queue)
  /\ mustCancel' = [mustCancel EXCEPT ![k] = pc[k] \notin Finished]
  /\ UNCHANGED <<guiVars, ownerVars, live, noteVars, powVars, pc, cancelled,
                 httpVars, nostrVars, locked, history>>

\* Mutant: a task whose step is queued misses its cancellation.
CancelMissesReady(k) ==
  /\ queue # <<>> /\ Head(queue) = <<"cancel", k>>
  /\ queue' = IF Suspended(k) THEN Append(Tail(queue), <<"step", k>>) ELSE Tail(queue)
  /\ mustCancel' = [mustCancel EXCEPT ![k] = Suspended(k)]
  /\ UNCHANGED <<guiVars, ownerVars, live, noteVars, powVars, pc, cancelled,
                 httpVars, nostrVars, locked, history>>

\* Task.cancel: a suspended task is woken, one about to run will see the
\* CancelledError instead of its result, a finished one ignores it.
Cancel(k) ==
  /\ queue # <<>> /\ Head(queue) = <<"cancel", k>>
  /\ queue' = IF Suspended(k) THEN Append(Tail(queue), <<"step", k>>) ELSE Tail(queue)
  /\ mustCancel' = [mustCancel EXCEPT ![k] = pc[k] \notin Finished]
  /\ UNCHANGED <<guiVars, ownerVars, live, noteVars, powVars, pc, cancelled,
                 httpVars, nostrVars, locked, history>>

\* What a task awaits is ready, or timed out: its next step is queued.
Complete(k) ==
  /\ Suspended(k)
  /\ queue' = Append(queue, <<"step", k>>)
  /\ UNCHANGED <<guiVars, ownerVars, live, noteVars, powVars, pc, mustCancel,
                 cancelled, httpVars, nostrVars, locked, history>>

\* The step of k from its await point `from` (not a state predicate: it pops
\* the queue and consumes the pending cancellation).
Step(k, from) ==
  /\ queue # <<>> /\ Head(queue) = <<"step", k>> /\ pc[k] = from
  /\ queue' = Tail(queue)
  /\ mustCancel' = [mustCancel EXCEPT ![k] = FALSE]

Goto(k, p) == pc' = [pc EXCEPT ![k] = p]

\* A step that a CancelledError ends, with nothing to clean up.
CancelledAt(k, from) ==
  /\ Step(k, from) /\ mustCancel[k]
  /\ Goto(k, "cancelled")

-----------------------------------------------------------------------------
(* ManagedHttpSwapServer.run and stop, for the server of run n.            *)

httpFrame == <<guiVars, ownerVars, live, noteVars, powVars, cancelled, nostrVars,
               locked, missed, weakOffer, gaveUp, serverWallet, serverPort>>

HttpCancelled(n) ==
  /\ \E p \in {"lockwait", "binding"} : CancelledAt(<<"http", n>>, p)
  /\ UNCHANGED <<httpFrame, runner, site, sock, inflight, clashed>>

\* The password poll, then runner and site up to the await of site.start().
HttpSetup(n) ==
  /\ \/ Step(<<"http", n>>, "fresh")
     \/ Step(<<"http", n>>, "lockwait") /\ ~mustCancel[<<"http", n>>]
  /\ IF locked[serverWallet[n]]
     THEN Goto(<<"http", n>>, "lockwait") /\ UNCHANGED <<runner, site>>
     ELSE /\ Goto(<<"http", n>>, "binding")
          /\ runner' = [runner EXCEPT ![n] = TRUE]
          /\ site' = [site EXCEPT ![n] = TRUE]
  /\ UNCHANGED <<httpFrame, sock, inflight, clashed>>

TakenBy(n, m) == sock[m] /\ serverPort[m] = serverPort[n]
StopReached(m) == pc[<<"http-stop", m>>] \in {"cleanup", "done"}

HttpBound(n) ==
  /\ Step(<<"http", n>>, "binding") /\ ~mustCancel[<<"http", n>>]
  /\ ~\E m \in Runs : TakenBy(n, m)
  /\ sock' = [sock EXCEPT ![n] = TRUE]
  /\ Goto(<<"http", n>>, "done")
  /\ UNCHANGED <<httpFrame, runner, site, inflight, clashed>>

\* OSError: the port is taken, by another process or by a server of our own.
HttpBindFails(n) ==
  /\ Step(<<"http", n>>, "binding") /\ ~mustCancel[<<"http", n>>]
  /\ clashed' = (clashed \/ \E m \in Runs : TakenBy(n, m) /\ ~StopReached(m))
  /\ Goto(<<"http", n>>, "failed")
  /\ UNCHANGED <<httpFrame, runner, site, sock, inflight>>

\* Mutant: the runner is dropped without its cleanup.
HttpStopNoCleanup(n) ==
  /\ Step(<<"http-stop", n>>, "fresh")
  /\ runner' = [runner EXCEPT ![n] = FALSE]
  /\ site' = [site EXCEPT ![n] = FALSE]
  /\ Goto(<<"http-stop", n>>, "done")
  /\ UNCHANGED <<httpFrame, sock, inflight, clashed>>

\* stop(): runner.cleanup closes the sockets at once, then waits for requests.
HttpStop(n) ==
  /\ Step(<<"http-stop", n>>, "fresh")
  /\ IF runner[n]
     THEN /\ sock' = [sock EXCEPT ![n] = FALSE]
          /\ Goto(<<"http-stop", n>>, "cleanup")
          /\ UNCHANGED site
     ELSE /\ site' = [site EXCEPT ![n] = FALSE]
          /\ Goto(<<"http-stop", n>>, "done")
          /\ UNCHANGED sock
  /\ UNCHANGED <<httpFrame, runner, inflight, clashed>>

HttpStopped(n) ==
  /\ Step(<<"http-stop", n>>, "cleanup")
  /\ inflight' = [inflight EXCEPT ![n] = FALSE]
  /\ runner' = [runner EXCEPT ![n] = FALSE]
  /\ site' = [site EXCEPT ![n] = FALSE]
  /\ Goto(<<"http-stop", n>>, "done")
  /\ UNCHANGED <<httpFrame, sock, clashed>>

\* A swap is created for a taker: the wrapper puts it in the ledger, and a
\* manager that is not wrapped leaves it out.  (k is the task whose listener or
\* transport took the request; the history tells the current run's from others.)
CreateSwap(w, k) ==
  missed' = IF wrapped[w] THEN missed
            ELSE missed \cup {IF k \in CurrentFutures THEN "current" ELSE "leftover"}

swapFrame == <<guiVars, ownerVars, live, noteVars, powVars, loopVars,
               serverWallet, serverPort, runner, site, sock, nostrVars, locked,
               clashed, weakOffer, gaveUp>>

\* A request arrives; its body is awaited before the swap is created.
HttpRequest(n) ==
  /\ Takers /\ sock[n] /\ ~inflight[n]
  /\ inflight' = [inflight EXCEPT ![n] = TRUE]
  /\ UNCHANGED <<swapFrame, missed>>

HttpCreateSwap(n) ==
  /\ inflight[n]
  /\ inflight' = [inflight EXCEPT ![n] = FALSE]
  /\ CreateSwap(serverWallet[n], <<"http", n>>)
  /\ UNCHANGED swapFrame

\* NostrTransport._handle_requests on a transport that was told to serve.
NostrCreateSwap(t) ==
  /\ Takers /\ up[t] /\ serving[t]
  /\ CreateSwap(transportWallet[t], <<"nostr", t>>)
  /\ UNCHANGED <<swapFrame, inflight>>

-----------------------------------------------------------------------------
(* _nostr_startup: ensure_pow_nonce, then _announce_loop, for spawn t.     *)

nostrFrame == <<guiVars, ownerVars, cancelled, httpVars, runOf, locked, missed,
                clashed>>
N(t) == <<"nostr", t>>

\* Writing _relay_connected, with the run that writes it.
SetRelay(t, v) == relay' = v /\ relayBy' = runOf[t]

\* Building a transport: it may raise, and then the finally clause runs.
Build(t) ==
  \/ /\ Goto(N(t), "connect")
     /\ up' = [up EXCEPT ![t] = TRUE] /\ live' = t
     /\ UNCHANGED <<relay, relayBy>>
  \/ /\ Goto(N(t), "backoff")
     /\ live' = 0 /\ SetRelay(t, "no") /\ UNCHANGED up

\* _serve_one_transport up to its first await.  The swap manager and the key
\* are taken here and kept while the wallet is locked.
ServeOneTransport(t) ==
  IF wallet = NoWallet
  THEN Goto(N(t), "backoff") /\ UNCHANGED <<transportWallet, up, live, relay, relayBy>>
  ELSE /\ transportWallet' = [transportWallet EXCEPT ![t] = wallet]
       /\ IF locked[wallet]
          THEN Goto(N(t), "lockwait") /\ UNCHANGED <<up, live, relay, relayBy>>
          ELSE Build(t)

\* Mutant: the stored nonce is used whatever key it was found for.
PowReadyAnyKey(t) ==
  /\ Step(N(t), "fresh")
  /\ ServeOneTransport(t)
  /\ UNCHANGED <<nostrFrame, serving, dying, lastSuccess, failures, powVars, weakOffer, gaveUp>>

\* ensure_pow_nonce finds the key's nonce, or its best-known one, good enough,
\* or no key at all.
PowReady(t) ==
  /\ Step(N(t), "fresh")
  /\ nonceFor' = IF wallet = NoWallet THEN nonceFor ELSE wallet
  /\ ServeOneTransport(t)
  /\ UNCHANGED <<nostrFrame, serving, dying, lastSuccess, failures, grinding, weakOffer, gaveUp>>

PowGrind(t) ==
  /\ Step(N(t), "fresh")
  /\ wallet # NoWallet /\ nonceFor # wallet
  /\ transportWallet' = [transportWallet EXCEPT ![t] = wallet]
  /\ grinding' = TRUE
  /\ Goto(N(t), "pow")
  /\ UNCHANGED <<nostrFrame, live, noteVars, nonceFor, up, serving, dying, weakOffer, gaveUp>>

\* Nobody is stopping task t, or saving settings over it.
Undisturbed(t) == gui = "idle" /\ ~cancelled[N(t)]

\* grind returned: with a nonce (for a target that a save may be raising), or
\* without one because its workers were killed.  _nostr_startup does not look
\* at the difference.
PowEnds(t, found) ==
  /\ Step(N(t), "pow") /\ ~mustCancel[N(t)]
  /\ grinding' = FALSE
  /\ nonceFor' \in (IF ~found THEN {nonceFor}
                     ELSE IF Undisturbed(t) THEN {transportWallet[t]}
                     ELSE {transportWallet[t], nonceFor})
  /\ gaveUp' = IF found THEN gaveUp ELSE gaveUp \cup {transportWallet[t]}
  /\ ServeOneTransport(t)
  /\ UNCHANGED <<nostrFrame, serving, dying, lastSuccess, failures, weakOffer>>

PowCancelled(t) ==
  /\ CancelledAt(N(t), "pow")
  /\ grinding' = FALSE
  /\ UNCHANGED <<nostrFrame, live, noteVars, nonceFor, transportWallet, up, serving,
                 dying, weakOffer, gaveUp>>

\* Only ensure_pow_nonce can end the task with an error.  (Bound: a spawn is
\* kept for supervise and for every start still allowed.)
PowRaises(t) ==
  /\ \/ Step(N(t), "fresh")
     \/ Step(N(t), "pow") /\ ~mustCancel[N(t)]
  /\ spawns + (MaxRuns - runs) < MaxSpawns
  /\ grinding' = (grinding /\ pc[N(t)] # "pow")
  /\ Goto(N(t), "failed")
  /\ UNCHANGED <<nostrFrame, live, noteVars, nonceFor, transportWallet, up, serving,
                 dying, weakOffer, gaveUp>>

\* The password poll looks at the wallet bound now.
LockPoll(t) ==
  /\ Step(N(t), "lockwait") /\ ~mustCancel[N(t)]
  /\ IF wallet # NoWallet /\ locked[wallet]
     THEN Goto(N(t), "lockwait") /\ UNCHANGED <<up, live, relay, relayBy>>
     ELSE Build(t)
  /\ UNCHANGED <<nostrFrame, serving, dying, transportWallet, lastSuccess, failures,
                 powVars, weakOffer, gaveUp>>

quietFrame == <<nostrFrame, powVars, transportWallet, gaveUp>>

\* _publish_once up to its await: the offer goes out under the transport's key.
Send(t) ==
  /\ wallet # NoWallet
  /\ weakOffer' = IF Undisturbed(t) /\ nonceFor # transportWallet[t]
                  THEN weakOffer \cup {transportWallet[t]} ELSE weakOffer
  /\ Goto(N(t), "publish")

\* The transport connected: the first turn of _announce_until_recycle, unless
\* the wallet is gone and its assertion fails.
Connected(t) ==
  /\ Step(N(t), "connect") /\ ~mustCancel[N(t)]
  /\ SetRelay(t, "yes")
  /\ serving' = [serving EXCEPT ![t] = isServer[transportWallet[t]]]
  /\ \/ Send(t)
     \/ wallet # NoWallet /\ Goto(N(t), "tick") /\ UNCHANGED weakOffer
     \/ wallet = NoWallet /\ Goto(N(t), "closing") /\ UNCHANGED weakOffer
  /\ UNCHANGED <<quietFrame, live, lastSuccess, failures, up, dying>>

NoRelay(t) ==
  /\ Step(N(t), "connect") /\ ~mustCancel[N(t)]
  /\ SetRelay(t, "no")
  /\ Goto(N(t), "closing")
  /\ UNCHANGED <<quietFrame, live, lastSuccess, failures, up, serving, dying, weakOffer>>

\* A relay acknowledged the offer; then a tick, or the scheduled recycle.
Published(t) ==
  /\ Step(N(t), "publish") /\ ~mustCancel[N(t)]
  /\ lastSuccess' = runOf[t] /\ failures' = 0
  /\ Goto(N(t), "tick") \/ Goto(N(t), "closing")
  /\ UNCHANGED <<quietFrame, live, relay, relayBy, up, serving, dying, weakOffer>>

\* Mutant: failures are counted and the transport never given up.
UnacknowledgedForever(t) ==
  /\ Step(N(t), "publish") /\ ~mustCancel[N(t)]
  /\ failures' = failures + 1
  /\ Goto(N(t), "tick")
  /\ UNCHANGED <<quietFrame, live, relay, relayBy, lastSuccess, up, serving, dying, weakOffer>>

\* No relay did: after MaxFailures in a row the transport is given up.
Unacknowledged(t) ==
  /\ Step(N(t), "publish") /\ ~mustCancel[N(t)]
  /\ failures' = IF failures < MaxFailures THEN failures + 1 ELSE MaxFailures
  /\ \/ failures' < MaxFailures /\ Goto(N(t), "tick")
     \/ Goto(N(t), "closing")
  /\ UNCHANGED <<quietFrame, live, relay, relayBy, lastSuccess, up, serving, dying, weakOffer>>

\* A turn of _announce_until_recycle: publish when due, recycle, or wait.
\* _publish_once asserts that a wallet is bound, and raises out of the loop.
Tick(t) ==
  /\ Step(N(t), "tick") /\ ~mustCancel[N(t)]
  /\ \/ Send(t)
     \/ Goto(N(t), "tick") /\ UNCHANGED weakOffer
     \/ Goto(N(t), "closing") /\ UNCHANGED weakOffer
  /\ UNCHANGED <<quietFrame, live, noteVars, up, serving, dying>>

\* A CancelledError inside `async with transport` goes through __aexit__.
CancelledInTransport(t) ==
  /\ \E p \in {"connect", "publish", "tick"} : Step(N(t), p)
  /\ mustCancel[N(t)]
  /\ dying' = [dying EXCEPT ![t] = TRUE]
  /\ Goto(N(t), "closing")
  /\ UNCHANGED <<quietFrame, live, noteVars, up, serving, weakOffer>>

\* __aexit__ closes the transport, which then serves no more, or is cut short
\* by a cancellation and leaves it as it is.
Torn(t) ==
  \/ up' = [up EXCEPT ![t] = FALSE] /\ serving' = [serving EXCEPT ![t] = FALSE]
  \/ (dying[t] \/ mustCancel[N(t)]) /\ UNCHANGED <<up, serving>>

\* Mutant: the finally clause keeps _live_transport.
ClosedStaysLive(t) ==
  /\ Step(N(t), "closing")
  /\ Torn(t)
  /\ SetRelay(t, "no")
  /\ Goto(N(t), IF dying[t] \/ mustCancel[N(t)] THEN "cancelled" ELSE "backoff")
  /\ UNCHANGED <<quietFrame, live, lastSuccess, failures, dying, weakOffer>>

\* Mutant: the finally clause only speaks for the transport that is remembered.
ClosedIfLive(t) ==
  /\ Step(N(t), "closing")
  /\ Torn(t)
  /\ IF live = t THEN SetRelay(t, "no") /\ live' = 0 ELSE UNCHANGED <<relay, relayBy, live>>
  /\ Goto(N(t), IF dying[t] \/ mustCancel[N(t)] THEN "cancelled" ELSE "backoff")
  /\ UNCHANGED <<quietFrame, lastSuccess, failures, dying, weakOffer>>

\* The end of __aexit__, then the finally clause.
Closed(t) ==
  /\ Step(N(t), "closing")
  /\ Torn(t)
  /\ SetRelay(t, "no") /\ live' = 0
  /\ Goto(N(t), IF dying[t] \/ mustCancel[N(t)] THEN "cancelled" ELSE "backoff")
  /\ UNCHANGED <<quietFrame, lastSuccess, failures, dying, weakOffer>>

CancelledIdle(t) ==
  /\ \E p \in {"lockwait", "backoff"} : CancelledAt(N(t), p)
  /\ UNCHANGED <<quietFrame, live, noteVars, up, serving, dying, weakOffer>>

Retry(t) ==
  /\ Step(N(t), "backoff") /\ ~mustCancel[N(t)]
  /\ ServeOneTransport(t)
  /\ UNCHANGED <<nostrFrame, lastSuccess, failures, powVars, serving, dying, weakOffer, gaveUp>>

\* _shutdown_transport, spawned by stop_server for the transport of task t.
ShutdownTransport(t) ==
  /\ \/ /\ Step(<<"nostr-stop", t>>, "fresh")
        /\ Goto(<<"nostr-stop", t>>, "stopping")
        /\ UNCHANGED up
     \/ /\ Step(<<"nostr-stop", t>>, "stopping")
        /\ Goto(<<"nostr-stop", t>>, "done")
        /\ up' = [up EXCEPT ![t] = FALSE]
  /\ UNCHANGED <<quietFrame, live, noteVars, serving, dying, weakOffer>>

\* The operator enters the password, or the wallet locks again.
SetLock(w) ==
  /\ locked' = [locked EXCEPT ![w] = ~locked[w]]
  /\ UNCHANGED <<guiVars, ownerVars, live, noteVars, powVars, loopVars, httpVars,
                 nostrVars, history>>

-----------------------------------------------------------------------------
GuiStep ==
  \/ StopHttp \/ StopCancel \/ StopTransport \/ StopFlags \/ Unbind
  \/ StartRecord \/ StartReset \/ StartHttp \/ StartNostr

UserStep ==
  \/ Toggle \/ CloseWallet
  \/ \E c \in Configs : Save(c)
  \/ \E w \in Wallets : LoadWallet(w)
  \/ \E w \in Lockable : SetLock(w)

NostrStep(t) ==
  \/ PowReady(t) \/ PowGrind(t) \/ PowCancelled(t) \/ PowRaises(t)
  \/ \E found \in BOOLEAN : PowEnds(t, found)
  \/ LockPoll(t) \/ Connected(t) \/ NoRelay(t) \/ Published(t) \/ Unacknowledged(t)
  \/ Tick(t) \/ CancelledInTransport(t) \/ Closed(t) \/ CancelledIdle(t) \/ Retry(t)
  \/ ShutdownTransport(t)

HttpStep(n) ==
  \/ HttpCancelled(n) \/ HttpSetup(n) \/ HttpBound(n) \/ HttpBindFails(n)
  \/ HttpStop(n) \/ HttpStopped(n)

\* The loop runs the callback at the head of its queue.
RunCallback ==
  \/ \E k \in Task : Create(k) \/ Cancel(k)
  \/ \E t \in Spawns : NostrStep(t)
  \/ \E n \in Runs : HttpStep(n)

TakerStep ==
  \/ \E n \in Runs : HttpRequest(n) \/ HttpCreateSwap(n)
  \/ \E t \in Spawns : NostrCreateSwap(t)

Next ==
  \/ GuiStep \/ UserStep \/ Supervise \/ ThrottleExpires
  \/ RunCallback \/ \E k \in Task : Complete(k)
  \/ TakerStep

\* The threads make progress, timers fire (every await but the grind's has a
\* timeout), and the refresh timer calls supervise.  Users owe nothing.
Fairness ==
  /\ WF_vars(GuiStep) /\ WF_vars(RunCallback)
  /\ \A k \in Task : WF_vars(pc[k] # "pow" /\ Complete(k))
  /\ WF_vars(ThrottleExpires) /\ WF_vars(Supervise)

Spec == Init /\ [][Next]_vars
FairSpec == Spec /\ Fairness

-----------------------------------------------------------------------------
(* Properties.                                                             *)

Quiescent ==
  gui = "idle" /\ queue = <<>> /\ \A k \in Task : pc[k] \in Finished \cup {"none"}

\* The wrapper that records served swaps sits on exactly the manager remembered
\* in _recorded_sm, and on one at all exactly while the server runs -- through
\* restarts, and through load_wallet rebinding the plugin while it runs.
RecorderFollowsRun ==
  /\ \A w \in Wallets : wrapped[w] <=> recorded = w
  /\ gui = "idle" => (running <=> recorded # NoWallet)

\* Whatever wallet is bound meanwhile, the listener of the current run creates
\* its swaps on the manager that is wrapped, so they all reach the ledger.
ListenerRecorded == httpFut # 0 => recorded = serverWallet[httpFut]

\* At most one announce task has not ended and not been told to: the one whose
\* future the plugin holds.
OneAnnouncer ==
  \A t \in Spawns :
    pc[N(t)] \notin Finished \cup {"none"} /\ ~cancelled[N(t)] => t = nostrFut

\* Once the loop has carried out a cancellation, the announce task is on its way
\* out: it will not connect, publish or grind again.
CancellationTakesHold ==
  \A t \in Spawns :
    cancelled[N(t)] /\ pc[N(t)] \in Await \ {"closing"}
      => mustCancel[N(t)] \/ \E i \in DOMAIN queue : queue[i] = <<"cancel", N(t)>>

\* What status() claims, through every stop and restart, while tasks that were told
\* to end are still at it:
ConnectedTask(t) == pc[N(t)] \in {"publish", "tick", "closing"}
StatusTruthful ==
  \* "connected" and "grinding" are not left behind by a task that is gone,
  /\ relay = "yes" => \E t \in Spawns : ConnectedTask(t)
  /\ grinding => \E t \in Spawns : pc[N(t)] = "pow"
  \* nor is a transport remembered that its task has given up;
  /\ live # 0 => pc[N(live)] \in {"connect", "publish", "tick", "closing"}
  \* what this run's task has said of its connection is so, until a task of an
  \* earlier run says something (NothingFromPreviousRun);
  /\ gui = "idle" /\ nostrFut # 0 /\ relayBy = runs =>
       /\ pc[N(nostrFut)] \in {"publish", "tick"} => relay = "yes"
       /\ relay = "yes" => ConnectedTask(nostrFut)
  \* with everything at rest, the listener shown of this run does listen, unless
  \* its bind failed (ListeningMeansBound).
  /\ Quiescent /\ wallet # NoWallet /\ httpFut # 0 /\ httpOf[wallet] = httpFut /\ site[httpFut] =>
       sock[httpFut] \/ pc[<<"http", httpFut>>] = "failed"

\* What the plugin remembers of the announce task is so, as long as there is no task
\* of an earlier run: the transport it has open is the one stop_server would tear
\* down, also when building it failed or it was recycled, and _pow_grinding is set
\* exactly while it grinds, also when the grind raises.
TaskTracked ==
  gui = "idle" /\ nostrFut # 0 =>
    /\ live = (IF up[nostrFut] THEN nostrFut ELSE 0)
    /\ grinding <=> pc[N(nostrFut)] = "pow"

\* An offer of a task that nobody is stopping carries a nonce that meets the
\* target, unless the grind gave up for that key ("so we never publish an offer
\* that takers would reject").
OfferMeetsTarget == weakOffer \subseteq gaveUp

\* "Stop all server transports": when everything has come to rest after a
\* stop_server, no HTTP server of ours listens.
StoppedMeansClosed ==
  Quiescent /\ ~running => \A n \in Runs : ~sock[n]

\* A restart never fails because the listener of the run before it has not been
\* closed yet.
RestartFindsPortFree == ~clashed

\* "listening on localhost:{}" (qt.py:956), which the tab says of a site that was
\* created: with everything at rest, the site of the current run does listen.
ListeningMeansBound ==
  Quiescent /\ running /\ wallet # NoWallet /\ httpOf[wallet] # 0 =>
    (site[httpOf[wallet]] => sock[httpOf[wallet]])

\* Swaps of the current run's own listener and transport are all recorded.  (With
\* nostr while the operator keeps to one wallet: stop_server clears is_server of
\* the wallet bound then, and a manager it passed over serves when bound again.)
CurrentSwapsRecorded == "current" \notin missed

\* "From here on, every swap created for a taker is recorded."
EverySwapRecorded == missed = {}

\* "Nothing from a previous run may be reported as if it belonged to this one."
\* (Stated once the announce task of this run has connected.)
NothingFromPreviousRun ==
  gui = "idle" /\ nostrFut # 0 /\ pc[N(nostrFut)] \in {"publish", "tick"}
    => relayBy = runs /\ lastSuccess \in {0, runs}

\* An announce task that stop_server cancelled ends.
StopCompletes ==
  \A t \in Spawns : cancelled[N(t)] ~> pc[N(t)] \in Finished

\* A dead announce task does not stay dead while the server runs.
DeadTaskRestarted == NostrTaskFailed ~> ~NostrTaskFailed

\* A listener that is up when stop_server comes to it is closed for good.
ListenerCloses ==
  \A n \in Runs :
    (gui = "stop_http" /\ httpOf[wallet] = n /\ sock[n]) ~> [](~sock[n])
=============================================================================
