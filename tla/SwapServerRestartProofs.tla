---------------------- MODULE SwapServerRestartProofs ----------------------
(***************************************************************************)
(* What SwapServer promises of one run after another, for every set of     *)
(* wallets and settings and every value of the bounds.                     *)
(*                                                                         *)
(* The runs of SwapServer show that some of these promises break when a    *)
(* second wallet is opened under a running server.  The theorems say that  *)
(* nothing else breaks them: a KeepsWallet in one names the habit it needs *)
(* of the operator.                                                        *)
(***************************************************************************)
EXTENDS SwapServerServiceProofs

USE DEF GuiPC, PC, Await, Finished, Stopping, Starting

\* The wallet stays the one that was bound while the server runs: load_wallet
\* does not rebind a running plugin.
SameWallet == running => wallet' = wallet
KeepsWallet == [][SameWallet]_vars

-----------------------------------------------------------------------------
(* The Qt thread.                                                          *)

\* What the plugin holds, it holds for the run it is in.
HeldInv ==
  /\ gui \in Stopping => running
  /\ nostrFut \in {0, spawns}
  /\ nostrFut # 0 => running
  /\ httpFut # 0 => serverWallet[httpFut] \in Wallets /\ (running \/ gui = "start_nostr")

\* With the wallet kept, it is the one whose manager records and remembers the
\* listener, if any manager does.
WalletInv ==
  /\ running => recorded = wallet
  /\ \A w \in Wallets : httpOf[w] # 0 => w = wallet /\ httpOf[w] = httpFut
  /\ httpFut # 0 /\ gui # "stop_cancel" => httpOf[wallet] = httpFut
  /\ gui \in Stopping \ {"stop_http"} => \A w \in Wallets : httpOf[w] = 0

LEMMA HeldInit == Init => HeldInv /\ WalletInv
<1> SUFFICES ASSUME Init PROVE HeldInv /\ WalletInv
  OBVIOUS
<1>1. /\ gui = "idle" /\ ~running /\ httpFut = 0 /\ nostrFut = 0
      /\ \A w \in Wallets : httpOf[w] = 0
  BY DEF Init
<1>2. QED
  BY <1>1 DEF HeldInv, WalletInv

\* A step of the Qt thread, of the operator or of the timer.
QtStep ==
  \/ GuiStep \/ Toggle \/ CloseWallet \/ Supervise \/ ThrottleExpires
  \/ (\E c \in Configs : Save(c)) \/ (\E w \in Wallets : LoadWallet(w))

\* A step of the loop, of a taker or of the wallet's lock.
LoopStep ==
  \/ RunCallback \/ \E k \in Task : Complete(k)
  \/ TakerStep \/ \E w \in Lockable : SetLock(w)

LEMMA TwoThreads ==
  ASSUME [Next]_vars
  PROVE  QtStep \/ LoopStep \/ UNCHANGED vars
BY DEF Next, UserStep, QtStep, LoopStep

LEMMA HeldKept ==
  ASSUME IInv, HeldInv, [Next]_vars
  PROVE  HeldInv'
<1>0. OwnerTypes /\ HttpTypes /\ StoppedFirst /\ WalletBound /\ RoomKept /\ gui \in GuiPC
  BY DEF IInv, TypeOK, GuiTypes, OwnerInv
<1>1. CASE LoopStep \/ UNCHANGED vars
  <2>1. UNCHANGED <<gui, running, nostrFut, spawns, httpFut, serverWallet>>
    BY <1>1, LoopFrame DEF LoopStep, IInv, guiVars, ownerVars, httpVars, vars
  <2>2. QED
    BY <2>1 DEF HeldInv
<1>2. CASE QtStep
  <2> USE DEF HeldInv
  <2>1. CASE Toggle \/ CloseWallet \/ ThrottleExpires \/ (\E c \in Configs : Save(c))
             \/ (\E w \in Wallets : LoadWallet(w)) \/ Unbind \/ StartRecord \/ StartReset
    <3>1. UNCHANGED <<running, nostrFut, spawns, httpFut, serverWallet>>
      BY <2>1 DEF Toggle, CloseWallet, ThrottleExpires, Save, LoadWallet, Unbind, StartRecord,
         StartReset, ownerVars, httpVars
    <3>2. gui' = gui \/ (gui # "start_nostr" /\ (gui' \in Stopping => running))
      BY <2>1 DEF Toggle, CloseWallet, ThrottleExpires, Save, LoadWallet, Unbind, StartRecord,
         StartReset, guiVars
    <3>3. QED
      BY <3>1, <3>2
  <2>2. CASE StopHttp \/ StopCancel \/ StopTransport
    <3>1. /\ UNCHANGED <<running, spawns, serverWallet>> /\ running /\ gui' \in Stopping
          /\ nostrFut' \in {0, nostrFut} /\ httpFut' \in {0, httpFut}
      BY <2>2 DEF StopHttp, StopCancel, StopTransport, ownerVars, httpVars
    <3>2. QED
      BY <3>1
  <2>3. CASE StopFlags
    <3>1. gui' \in {"idle", "unbind", "start_record"}
      BY <2>3 DEF StopFlags, IInv, TypeOK, GuiTypes
    <3>2. QED
      BY <1>0, <2>3, <3>1 DEF StopFlags, StoppedFirst
  <2>4. CASE StartHttp
    <3>1. /\ wallet \in Wallets /\ runs \in Runs /\ nostrFut = 0 /\ gui' = "start_nostr"
          /\ httpFut = 0 /\ UNCHANGED <<nostrFut, spawns>>
      BY <1>0, <2>4 DEF StartHttp, WalletBound, RoomKept, StoppedFirst
    <3>2. CASE config.port = 0
      BY <2>4, <3>1, <3>2 DEF StartHttp
    <3>3. CASE config.port # 0
      <4>1. httpFut' = runs /\ serverWallet' = [serverWallet EXCEPT ![runs] = wallet]
        BY <2>4, <3>3 DEF StartHttp
      <4>2. serverWallet'[runs] = wallet
        BY <1>0, <3>1, <4>1 DEF HttpTypes
      <4>3. QED
        BY <3>1, <4>1, <4>2
    <3>4. QED
      BY <3>2, <3>3
  <2>5. CASE StartNostr
    BY <2>5 DEF StartNostr, SpawnNostr, httpVars
  <2>6. CASE Supervise
    BY <2>6 DEF Supervise, SpawnNostr, NostrTaskFailed, guiVars, httpVars
  <2>7. QED
    BY <1>2, <2>1, <2>2, <2>3, <2>4, <2>5, <2>6 DEF QtStep, GuiStep
<1>3. QED
  BY <1>1, <1>2, TwoThreads

LEMMA WalletKept ==
  ASSUME IInv, HeldInv, WalletInv, [Next]_vars, [SameWallet]_vars
  PROVE  WalletInv'
<1>0. OwnerTypes /\ StoppedFirst /\ WalletBound /\ RecorderPlaced /\ gui \in GuiPC
  BY DEF IInv, TypeOK, GuiTypes, OwnerInv
<1>1. CASE LoopStep \/ UNCHANGED vars
  <2>1. UNCHANGED <<gui, running, recorded, wallet, httpOf, httpFut>>
    BY <1>1, LoopFrame DEF LoopStep, IInv, guiVars, ownerVars, vars
  <2>2. QED
    BY <2>1 DEF WalletInv
<1>2. CASE QtStep
  <2>0. running => wallet' = wallet
    BY DEF SameWallet, vars, ownerVars
  <2> USE <2>0 DEF WalletInv
  <2>1. CASE Toggle \/ CloseWallet \/ ThrottleExpires \/ (\E c \in Configs : Save(c))
             \/ (\E w \in Wallets : LoadWallet(w)) \/ StartReset
    <3>1. UNCHANGED <<running, recorded, httpOf, httpFut>>
      BY <2>1 DEF Toggle, CloseWallet, ThrottleExpires, Save, LoadWallet, StartReset, ownerVars
    <3>2. gui' = gui \/ (gui \notin Stopping /\ gui' \notin Stopping \ {"stop_http"})
      BY <2>1 DEF Toggle, CloseWallet, ThrottleExpires, Save, LoadWallet, StartReset, guiVars
    <3>3. wallet' = wallet \/ httpFut = 0
      <4>1. wallet' = wallet \/ (gui = "idle" /\ ~running)
        BY <2>1 DEF Toggle, CloseWallet, ThrottleExpires, Save, LoadWallet, StartReset, ownerVars
      <4>2. QED
        BY <1>0, <4>1 DEF StoppedFirst
    <3>4. QED
      BY <2>0, <3>1, <3>2, <3>3
  <2>2. CASE Unbind
    BY <1>0, <2>2 DEF Unbind, StoppedFirst
  <2>3. CASE StartRecord
    BY <1>0, <2>3 DEF StartRecord, StoppedFirst
  <2>4. CASE StopHttp
    <3>1. /\ UNCHANGED <<running, recorded, wallet, httpFut>> /\ wallet \in Wallets
          /\ gui = "stop_http" /\ gui' = "stop_cancel"
      BY <1>0, <2>4 DEF StopHttp, WalletBound
    <3>2. \A w \in Wallets : httpOf'[w] = 0
      <4>1. CASE httpOf[wallet] = 0
        BY <2>4, <3>1, <4>1 DEF StopHttp
      <4>2. CASE httpOf[wallet] # 0
        <5>1. httpOf' = [httpOf EXCEPT ![wallet] = 0]
          BY <2>4, <4>2 DEF StopHttp
        <5>2. \A w \in Wallets : httpOf'[w] = IF w = wallet THEN 0 ELSE httpOf[w]
          BY <1>0, <5>1 DEF OwnerTypes
        <5>3. QED
          BY <5>2
      <4>3. QED
        BY <4>1, <4>2
    <3>3. QED
      BY <3>1, <3>2
  <2>5. CASE StopCancel \/ StopTransport
    BY <2>5 DEF StopCancel, StopTransport, ownerVars
  <2>6. CASE StopFlags
    <3>1. gui' \in {"idle", "unbind", "start_record"}
      BY <2>6 DEF StopFlags, IInv, TypeOK, GuiTypes
    <3>2. QED
      BY <2>6, <3>1 DEF StopFlags
  <2>7. CASE StartHttp
    <3>1. /\ UNCHANGED <<running, recorded, wallet>> /\ wallet \in Wallets /\ httpFut = 0
          /\ gui' = "start_nostr" /\ \A w \in Wallets : httpOf[w] = 0
      BY <1>0, <2>7 DEF StartHttp, WalletBound, StoppedFirst
    <3>2. CASE config.port = 0
      BY <2>7, <3>1, <3>2 DEF StartHttp
    <3>3. CASE config.port # 0
      <4>1. httpFut' = runs /\ httpOf' = [httpOf EXCEPT ![wallet] = runs]
        BY <2>7, <3>3 DEF StartHttp
      <4>2. \A w \in Wallets : httpOf'[w] = IF w = wallet THEN runs ELSE 0
        BY <1>0, <3>1, <4>1 DEF OwnerTypes
      <4>3. QED
        BY <3>1, <4>1, <4>2
    <3>4. QED
      BY <3>2, <3>3
  <2>8. CASE StartNostr
    <3>1. /\ UNCHANGED <<recorded, wallet, httpOf, httpFut>> /\ recorded = wallet
          /\ gui = "start_nostr" /\ gui' = "idle"
      BY <1>0, <2>8 DEF StartNostr, RecorderPlaced
    <3>2. QED
      BY <3>1
  <2>9. CASE Supervise
    BY <2>9 DEF Supervise, SpawnNostr, guiVars
  <2>10. QED
    BY <1>2, <2>1, <2>2, <2>3, <2>4, <2>5, <2>6, <2>7, <2>8, <2>9 DEF QtStep, GuiStep
<1>3. QED
  BY <1>1, <1>2, TwoThreads

-----------------------------------------------------------------------------
(* The steps of an announce task t, which lead it to p.                    *)

Open == {"connect", "publish", "tick", "closing"}
Shut == {"fresh", "pow", "lockwait", "backoff"}
Closer(t) == <<"nostr-stop", t>>

\* What becomes of its transport, ...
OpensAndCloses(t, p) ==
  \/ pc[N(t)] \in Shut /\ p = "connect" /\ up'[t] /\ live' = t
  \/ pc[N(t)] \in Shut /\ p \notin Open /\ up'[t] = up[t] /\ live' \in {0, live}
  \/ pc[N(t)] \in Open /\ p \in Open /\ up'[t] = up[t] /\ live' = live
  \/ pc[N(t)] = "closing" /\ p \notin Open /\ (up'[t] => cancelled[N(t)]) /\ live' = 0

\* ... what it tells of the relays, ...
Announced == {"publish", "tick"}
Connection == {"publish", "tick", "closing"}
Tells(t, p) ==
  \/ relay' = "yes" /\ relayBy' = runOf[t] /\ p \in Connection
  \/ relay' = "no" /\ relayBy' = runOf[t] /\ p \notin Announced
  \/ /\ UNCHANGED <<relay, relayBy>> /\ pc[N(t)] # "closing"
     /\ p \in Announced => pc[N(t)] \in Announced
     /\ pc[N(t)] \in Announced => p \in Connection

\* ... for which key it works, ...
Picks(t, p) ==
  p \in Await /\ wallet # NoWallet =>
    \/ transportWallet'[t] = wallet
    \/ pc[N(t)] \in Await /\ transportWallet'[t] = transportWallet[t]

\* ... and what it does about the proof of work.
Proves(t, p) ==
  /\ grinding' <=> p = "pow" \/ (grinding /\ pc[N(t)] # "pow")
  /\ nonceFor' \in {nonceFor, wallet} \/ (pc[N(t)] = "pow" /\ ~mustCancel[N(t)])
  /\ pc[N(t)] = "fresh" /\ p \in Await \ {"pow"} /\ wallet # NoWallet => nonceFor' = wallet
  /\ pc[N(t)] = "pow" /\ p \in Await /\ Undisturbed(t) =>
       transportWallet[t] \in gaveUp' \cup {nonceFor'}
  /\ pc[N(t)] \in Await \ {"pow"} => p # "pow" /\ nonceFor' = nonceFor
  /\ gaveUp \subseteq gaveUp'

\* An offer that goes out without the nonce it should have.
Offers(t) ==
  weakOffer' = weakOffer \/
    /\ pc[N(t)] \in {"connect", "tick"} /\ Undisturbed(t) /\ nonceFor # transportWallet[t]
    /\ weakOffer' = weakOffer \cup {transportWallet[t]}

Announces(t, p) ==
  /\ pc[N(t)] \in Shut \cup Open /\ p \in Await \cup Finished
  /\ OpensAndCloses(t, p) /\ Tells(t, p) /\ Picks(t, p) /\ Proves(t, p) /\ Offers(t)

\* Nothing of all that happens.
Rests == UNCHANGED <<live, noteVars, powVars, transportWallet, weakOffer, gaveUp>>

\* _serve_one_transport, to its first await.
LEMMA Serves ==
  ASSUME LoopTypes, NostrTypes, NEW t \in Spawns, ServeOneTransport(t)
  PROVE  /\ \A u \in Spawns : u # t => up'[u] = up[u] /\ transportWallet'[u] = transportWallet[u]
         /\ wallet # NoWallet => transportWallet'[t] = wallet
         /\ \/ /\ pc'[N(t)] = "connect" /\ up'[t] /\ live' = t
               /\ UNCHANGED <<relay, relayBy>>
            \/ /\ pc'[N(t)] \in {"backoff", "lockwait"} /\ up'[t] = up[t] /\ live' \in {0, live}
               /\ UNCHANGED <<relay, relayBy>> \/ (relay' = "no" /\ relayBy' = runOf[t])
<1>0. N(t) \in Task
  BY Tasks
<1>1. \A p : Goto(N(t), p) => pc'[N(t)] = p
  BY <1>0 DEF Goto, LoopTypes
<1>2. CASE wallet = NoWallet
  <2>1. Goto(N(t), "backoff") /\ UNCHANGED <<transportWallet, up, live, relay, relayBy>>
    BY <1>2 DEF ServeOneTransport
  <2>2. QED
    BY <1>1, <1>2, <2>1
<1>3. CASE wallet # NoWallet
  <2>1. transportWallet' = [transportWallet EXCEPT ![t] = wallet]
    BY <1>3 DEF ServeOneTransport
  <2>2. transportWallet'[t] = wallet
        /\ \A u \in Spawns : u # t => transportWallet'[u] = transportWallet[u]
    BY <2>1 DEF NostrTypes
  <2>3. CASE locked[wallet]
    BY <1>1, <1>3, <2>2, <2>3 DEF ServeOneTransport
  <2>4. CASE ~locked[wallet]
    <3>1. Build(t)
      BY <1>3, <2>4 DEF ServeOneTransport
    <3>2. CASE Goto(N(t), "connect") /\ up' = [up EXCEPT ![t] = TRUE] /\ live' = t
               /\ UNCHANGED <<relay, relayBy>>
      <4>1. up'[t] /\ \A u \in Spawns : u # t => up'[u] = up[u]
        BY <3>2 DEF NostrTypes
      <4>2. QED
        BY <1>1, <2>2, <3>2, <4>1
    <3>3. CASE Goto(N(t), "backoff") /\ live' = 0 /\ SetRelay(t, "no") /\ UNCHANGED up
      BY <1>1, <2>2, <3>3 DEF SetRelay
    <3>4. QED
      BY <3>1, <3>2, <3>3 DEF Build
  <2>5. QED
    BY <2>3, <2>4
<1>4. QED
  BY <1>2, <1>3

\* The steps of _nostr_startup are of that form.
LEMMA NostrMoves ==
  ASSUME IInv, LifeInv, NEW t \in Spawns, NostrStep(t), ~ShutdownTransport(t)
  PROVE  /\ Announces(t, pc'[N(t)])
         /\ \A u \in Spawns : u # t => up'[u] = up[u] /\ transportWallet'[u] = transportWallet[u]
<1> DEFINE k == N(t)
           p == pc'[N(t)]
<1> USE DEF Step, CancelledAt
<1>0. LoopTypes /\ NostrTypes /\ NoteTypes /\ HistoryTypes
  BY DEF IInv, TypeOK
<1>1. /\ k \in Task /\ (pc[k] = "fresh" => ~mustCancel[k])
      /\ (mustCancel[k] \/ dying[t] => cancelled[k])
      /\ pc[k] \in {"fresh", "pow", "lockwait", "backoff"} => ~dying[t]
  BY <1>0, Tasks, TaskNames DEF LifeInv, TaskInv, Life, FirstStepFirst, OnlyIfTold
<1>2. \A x : Goto(k, x) => p = x
  BY <1>0, <1>1 DEF Goto, LoopTypes
<1>3. ServeOneTransport(t) =>
        /\ \A u \in Spawns : u # t => up'[u] = up[u] /\ transportWallet'[u] = transportWallet[u]
        /\ wallet # NoWallet => transportWallet'[t] = wallet
        /\ \/ p = "connect" /\ up'[t] /\ live' = t /\ UNCHANGED <<relay, relayBy>>
           \/ /\ p \in {"backoff", "lockwait"} /\ up'[t] = up[t] /\ live' \in {0, live}
              /\ UNCHANGED <<relay, relayBy>> \/ (relay' = "no" /\ relayBy' = runOf[t])
  BY <1>0, Serves
<1> HIDE DEF p
<1> USE DEF p, Announces, Open, Shut, noteVars, powVars
<1>4. CASE PowReady(t)
  <2>1. /\ pc[k] = "fresh" /\ ServeOneTransport(t) /\ UNCHANGED <<grinding, weakOffer, gaveUp, lastSuccess>>
        /\ nonceFor' = (IF wallet = NoWallet THEN nonceFor ELSE wallet)
    BY <1>0, <1>1, <1>2, <1>3, <1>4 DEF PowReady
  <2>2. OpensAndCloses(t, p) /\ Tells(t, p)
    BY <1>1, <1>3, <2>1 DEF OpensAndCloses, Tells, Announced, Connection
  <2>3. Picks(t, p) /\ Offers(t)
    BY <1>1, <1>3, <2>1 DEF Picks, Offers
  <2>4. Proves(t, p)
    BY <1>1, <1>3, <2>1 DEF Proves
  <2>5. QED
    BY <1>3, <2>1, <2>2, <2>3, <2>4
<1>5. CASE Retry(t)
  <2>1. /\ pc[k] = "backoff" /\ ServeOneTransport(t)
        /\ UNCHANGED <<powVars, weakOffer, gaveUp, lastSuccess>>
    BY <1>0, <1>1, <1>2, <1>3, <1>5 DEF Retry, powVars
  <2>2. OpensAndCloses(t, p) /\ Tells(t, p)
    BY <1>1, <1>3, <2>1 DEF OpensAndCloses, Tells, Announced, Connection
  <2>3. Picks(t, p) /\ Offers(t)
    BY <1>1, <1>3, <2>1 DEF Picks, Offers
  <2>4. Proves(t, p)
    BY <1>1, <1>3, <2>1 DEF Proves
  <2>5. QED
    BY <1>3, <2>1, <2>2, <2>3, <2>4
<1>6. CASE \E found \in BOOLEAN : PowEnds(t, found)
  <2>1. /\ pc[k] = "pow" /\ ~mustCancel[k] /\ ServeOneTransport(t) /\ ~grinding'
        /\ UNCHANGED <<weakOffer, lastSuccess>> /\ gaveUp \subseteq gaveUp'
        /\ Undisturbed(t) => transportWallet[t] \in gaveUp' \cup {nonceFor'}
    BY <1>0, <1>1, <1>2, <1>3, <1>6 DEF PowEnds
  <2>2. OpensAndCloses(t, p) /\ Tells(t, p)
    BY <1>1, <1>3, <2>1 DEF OpensAndCloses, Tells, Announced, Connection
  <2>3. Picks(t, p) /\ Offers(t)
    BY <1>1, <1>3, <2>1 DEF Picks, Offers
  <2>4. Proves(t, p)
    BY <1>1, <1>3, <2>1 DEF Proves
  <2>5. QED
    BY <1>3, <2>1, <2>2, <2>3, <2>4
<1>7. CASE PowGrind(t)
  <2>1. /\ pc[k] = "fresh" /\ p = "pow" /\ grinding'
        /\ UNCHANGED <<up, live, noteVars, nonceFor, weakOffer, gaveUp>>
        /\ transportWallet' = [transportWallet EXCEPT ![t] = wallet]
        /\ transportWallet'[t] = wallet /\ \A u \in Spawns : u # t => transportWallet'[u] = transportWallet[u]
    BY <1>0, <1>1, <1>2, <1>3, <1>7 DEF PowGrind, noteVars, NostrTypes
  <2>2. OpensAndCloses(t, p) /\ Tells(t, p)
    BY <1>1, <1>3, <2>1 DEF OpensAndCloses, Tells, Announced, Connection
  <2>3. Picks(t, p) /\ Offers(t)
    BY <1>1, <1>3, <2>1 DEF Picks, Offers
  <2>4. Proves(t, p)
    BY <1>1, <1>3, <2>1 DEF Proves
  <2>5. QED
    BY <1>3, <2>1, <2>2, <2>3, <2>4
<1>8. CASE PowCancelled(t) \/ PowRaises(t)
  <2>1. /\ pc[k] \in {"fresh", "pow"} /\ p \in {"cancelled", "failed"}
        /\ grinding' <=> grinding /\ pc[k] # "pow"
        /\ UNCHANGED <<up, live, noteVars, nonceFor, transportWallet, weakOffer, gaveUp>>
    BY <1>0, <1>1, <1>2, <1>3, <1>8 DEF PowCancelled, PowRaises, noteVars
  <2>2. OpensAndCloses(t, p) /\ Tells(t, p)
    BY <1>1, <1>3, <2>1 DEF OpensAndCloses, Tells, Announced, Connection
  <2>3. Picks(t, p) /\ Offers(t)
    BY <1>1, <1>3, <2>1 DEF Picks, Offers
  <2>4. Proves(t, p)
    BY <1>1, <1>3, <2>1 DEF Proves
  <2>5. QED
    BY <1>3, <2>1, <2>2, <2>3, <2>4
<1>9. CASE CancelledIdle(t)
  <2>1. /\ pc[k] \in {"lockwait", "backoff"} /\ p = "cancelled"
        /\ UNCHANGED <<up, live, noteVars, powVars, transportWallet, weakOffer, gaveUp>>
    BY <1>0, <1>1, <1>2, <1>3, <1>9 DEF CancelledIdle, quietFrame
  <2>2. OpensAndCloses(t, p) /\ Tells(t, p)
    BY <1>1, <1>3, <2>1 DEF OpensAndCloses, Tells, Announced, Connection
  <2>3. Picks(t, p) /\ Offers(t)
    BY <1>1, <1>3, <2>1 DEF Picks, Offers
  <2>4. Proves(t, p)
    BY <1>1, <1>3, <2>1 DEF Proves
  <2>5. QED
    BY <1>3, <2>1, <2>2, <2>3, <2>4
<1>10. CASE LockPoll(t)
  <2>1. /\ pc[k] = "lockwait" /\ UNCHANGED <<powVars, transportWallet, weakOffer, gaveUp, lastSuccess>>
        /\ \A u \in Spawns : u # t => up'[u] = up[u]
        /\ \/ p = "connect" /\ up'[t] /\ live' = t
           \/ p \in {"backoff", "lockwait"} /\ up'[t] = up[t] /\ live' \in {0, live}
        /\ UNCHANGED <<relay, relayBy>> \/ (p = "backoff" /\ relay' = "no" /\ relayBy' = runOf[t])
    BY <1>0, <1>1, <1>2, <1>3, <1>10 DEF LockPoll, Build, SetRelay, NostrTypes
  <2>2. OpensAndCloses(t, p) /\ Tells(t, p)
    BY <1>1, <1>3, <2>1 DEF OpensAndCloses, Tells, Announced, Connection
  <2>3. Picks(t, p) /\ Offers(t)
    BY <1>1, <1>3, <2>1 DEF Picks, Offers
  <2>4. Proves(t, p)
    BY <1>1, <1>3, <2>1 DEF Proves
  <2>5. QED
    BY <1>3, <2>1, <2>2, <2>3, <2>4
<1>11. CASE Connected(t) \/ NoRelay(t) \/ Tick(t)
  <2>1. /\ pc[k] \in {"connect", "tick"} /\ p \in {"publish", "tick", "closing"}
        /\ UNCHANGED <<powVars, transportWallet, gaveUp, lastSuccess, up, live>>
        /\ \/ relay' = "yes" /\ relayBy' = runOf[t]
           \/ relay' = "no" /\ relayBy' = runOf[t] /\ p = "closing"
           \/ pc[k] = "tick" /\ UNCHANGED <<relay, relayBy>>
        /\ Offers(t)
    BY <1>0, <1>1, <1>2, <1>3, <1>11 DEF Connected, NoRelay, Tick, Send, SetRelay, quietFrame, noteVars, Offers
  <2>2. OpensAndCloses(t, p) /\ Tells(t, p)
    BY <1>1, <1>3, <2>1 DEF OpensAndCloses, Tells, Announced, Connection
  <2>3. Picks(t, p) /\ Offers(t)
    BY <1>1, <1>3, <2>1 DEF Picks, Offers
  <2>4. Proves(t, p)
    BY <1>1, <1>3, <2>1 DEF Proves
  <2>5. QED
    BY <1>3, <2>1, <2>2, <2>3, <2>4
<1>12. CASE Published(t) \/ Unacknowledged(t)
  <2>1. /\ pc[k] = "publish" /\ p \in {"tick", "closing"} /\ lastSuccess' \in {lastSuccess, runOf[t]}
        /\ UNCHANGED <<powVars, transportWallet, gaveUp, up, live, relay, relayBy, weakOffer>>
    BY <1>0, <1>1, <1>2, <1>3, <1>12 DEF Published, Unacknowledged, quietFrame
  <2>2. OpensAndCloses(t, p) /\ Tells(t, p)
    BY <1>1, <1>3, <2>1 DEF OpensAndCloses, Tells, Announced, Connection
  <2>3. Picks(t, p) /\ Offers(t)
    BY <1>1, <1>3, <2>1 DEF Picks, Offers
  <2>4. Proves(t, p)
    BY <1>1, <1>3, <2>1 DEF Proves
  <2>5. QED
    BY <1>3, <2>1, <2>2, <2>3, <2>4
<1>13. CASE CancelledInTransport(t)
  <2>1. /\ pc[k] \in {"connect", "publish", "tick"} /\ p = "closing"
        /\ UNCHANGED <<powVars, transportWallet, gaveUp, up, live, noteVars, weakOffer>>
    BY <1>0, <1>1, <1>2, <1>3, <1>13 DEF CancelledInTransport, quietFrame
  <2>2. OpensAndCloses(t, p) /\ Tells(t, p)
    BY <1>1, <1>3, <2>1 DEF OpensAndCloses, Tells, Announced, Connection
  <2>3. Picks(t, p) /\ Offers(t)
    BY <1>1, <1>3, <2>1 DEF Picks, Offers
  <2>4. Proves(t, p)
    BY <1>1, <1>3, <2>1 DEF Proves
  <2>5. QED
    BY <1>3, <2>1, <2>2, <2>3, <2>4
<1>14. CASE Closed(t)
  <2>1. /\ pc[k] = "closing" /\ p \in {"cancelled", "backoff"} /\ live' = 0
        /\ relay' = "no" /\ relayBy' = runOf[t]
        /\ (up'[t] => cancelled[k]) /\ \A u \in Spawns : u # t => up'[u] = up[u]
        /\ UNCHANGED <<powVars, transportWallet, gaveUp, lastSuccess, weakOffer>>
    BY <1>0, <1>1, <1>2, <1>3, <1>14 DEF Closed, Torn, SetRelay, quietFrame, NostrTypes
  <2>2. OpensAndCloses(t, p) /\ Tells(t, p)
    BY <1>1, <1>3, <2>1 DEF OpensAndCloses, Tells, Announced, Connection
  <2>3. Picks(t, p) /\ Offers(t)
    BY <1>1, <1>3, <2>1 DEF Picks, Offers
  <2>4. Proves(t, p)
    BY <1>1, <1>3, <2>1 DEF Proves
  <2>5. QED
    BY <1>3, <2>1, <2>2, <2>3, <2>4
<1>15. QED
  BY <1>4, <1>5, <1>6, <1>7, <1>8, <1>9, <1>10, <1>11, <1>12, <1>13, <1>14 DEF NostrStep
-----------------------------------------------------------------------------
(* The steps of the others.                                                *)

\* Task t is asked for, in the place of one that has ended or been told to.
Appointed(t) ==
  /\ pc[N(t)] = "none" /\ pc'[N(t)] = "spawned" /\ t = spawns + 1
  /\ nostrFut' = t /\ spawns' = t /\ runOf'[t] = runs /\ Nobody
  /\ (gui = "start_nostr" /\ gui' = "idle") \/ (NostrTaskFailed /\ gui' = gui)

\* The Qt thread starts tasks and does not run any.
LEMMA QtMoves ==
  ASSUME IInv, LifeInv, QtStep
  PROVE  /\ UNCHANGED <<mustCancel, dying, transportWallet, up, sock, missed, clashed, weakOffer,
                        gaveUp>>
         /\ \A k \in Single : pc'[k] = pc[k] \/ (pc[k] = "none" /\ pc'[k] = "spawned")
         /\ \A t \in Spawns :
              \/ /\ pc'[N(t)] = pc[N(t)] /\ runOf'[t] = runOf[t]
                 /\ t = nostrFut' => t = nostrFut
              \/ Appointed(t)
         /\ \A t \in Spawns : pc[Closer(t)] = "none" /\ pc'[Closer(t)] # "none" =>
              gui = "stop_transport" /\ live = t
<1>0. LoopTypes /\ NostrTypes /\ OwnerTypes /\ HolderInv /\ TaskInv /\ StoppedFirst /\ RoomKept
  BY DEF IInv, TypeOK, LifeInv, OwnerInv
<1> USE DEF ownerVars, guiVars, loopVars, nostrVars, httpVars, history
<1>1. UNCHANGED <<mustCancel, dying, transportWallet, up, sock, missed, clashed, weakOffer, gaveUp>>
  BY DEF QtStep, GuiStep, Toggle, CloseWallet, Supervise, ThrottleExpires, Save, LoadWallet,
     StopHttp, StopCancel, StopTransport, StopFlags, Unbind, StartRecord, StartReset, StartHttp,
     StartNostr
<1>2. CASE (StartNostr /\ config.relays) \/ Supervise
  <2>1. spawns + 1 \in Spawns /\ (nostrFut = 0 \/ NostrTaskFailed)
    BY <1>0, <1>2, Bounds DEF Supervise, StartNostr, RoomKept, OwnerTypes, StoppedFirst
  <2>2. PICK u \in Spawns : u = spawns + 1
    BY <2>1
  <2>3. spawns \in Nat /\ Announcer(u) /\ u > spawns
    BY <1>0, <2>2, Bounds DEF HolderInv, OwnerTypes
  <2>4. Spawn(N(u)) /\ nostrFut' = u /\ spawns' = u /\ runOf' = [runOf EXCEPT ![u] = runs]
    BY <1>2, <2>2 DEF Supervise, StartNostr, SpawnNostr, N
  <2>5. pc[N(u)] = "none" /\ pc'[N(u)] = "spawned" /\ \A k \in Task : k # N(u) => pc'[k] = pc[k]
    BY <1>0, <2>3, <2>4, Tasks DEF Spawn, LoopTypes, Announcer
  <2>6. runOf'[u] = runs /\ \A t \in Spawns : t # u => runOf'[t] = runOf[t]
    BY <1>0, <2>4 DEF NostrTypes
  <2>7. Nobody
    BY <1>0, <2>1, NobodyLeft
  <2>8. Appointed(u)
    BY <1>2, <2>2, <2>4, <2>5, <2>6, <2>7 DEF Appointed, Supervise, StartNostr
  <2>9. \A t \in Spawns : Closer(t) \in Task /\ Closer(t) # N(u) /\ N(t) \in Task
                          /\ (t # u => N(t) # N(u))
    BY Tasks, TaskNames DEF Closer, N
  <2>10. QED
    BY <1>1, <2>4, <2>5, <2>6, <2>8, <2>9, TaskNames
<1>3. CASE ~((StartNostr /\ config.relays) \/ Supervise)
  <2>1. runOf' = runOf /\ nostrFut' \in {0, nostrFut}
    BY <1>3 DEF QtStep, GuiStep, Toggle, CloseWallet, ThrottleExpires, Save, LoadWallet,
       StopHttp, StopCancel, StopTransport, StopFlags, Unbind, StartRecord, StartReset, StartHttp,
       StartNostr
  <2>2. ASSUME NEW i \in Task, Spawn(i), \A t \in Spawns : i # N(t),
               i \in Single => pc[i] = "none",
               \A t \in Spawns : i = Closer(t) => gui = "stop_transport" /\ live = t
        PROVE  /\ \A k \in Single : pc'[k] = pc[k] \/ (pc[k] = "none" /\ pc'[k] = "spawned")
               /\ \A t \in Spawns : pc'[N(t)] = pc[N(t)]
               /\ \A t \in Spawns : pc[Closer(t)] = "none" /\ pc'[Closer(t)] # "none" =>
                    gui = "stop_transport" /\ live = t
    <3>1. pc'[i] = "spawned" /\ \A k \in Task : k # i => pc'[k] = pc[k]
      BY <1>0, <2>2 DEF Spawn, LoopTypes
    <3>2. QED
      BY <2>2, <3>1, TaskNames, Tasks DEF Closer
  <2>3. CASE pc' = pc
    BY <1>1, <2>1, <2>3, Bounds
  <2>4. CASE StopHttp /\ httpOf[wallet] # 0
    <3>1. PICK m \in Runs : m = httpOf[wallet]
      BY <1>0, <2>4, Bounds DEF OwnerTypes, StopHttp, IInv, OwnerInv, WalletBound
    <3>2. Spawn(Stopper(m)) /\ pc[Stopper(m)] = "none" /\ Stopper(m) \in Task
      BY <1>0, <2>4, <3>1, TaskNames
         DEF StopHttp, Stopper, HolderInv, Listener, IInv, OwnerInv, WalletBound
    <3>3. \A t \in Spawns : Stopper(m) # N(t) /\ Stopper(m) # Closer(t)
      BY DEF Stopper, N, Closer
    <3>4. QED
      BY <1>1, <2>1, <2>2, <3>2, <3>3, Bounds
  <2>5. CASE StopTransport /\ live # 0
    <3>1. PICK t \in Spawns : t = live
      BY <2>5, Bounds DEF IInv, TypeOK, NoteTypes
    <3>2. Spawn(Closer(t)) /\ Closer(t) \in Task /\ Closer(t) \notin Single
          /\ gui = "stop_transport" /\ \A u \in Spawns : Closer(t) # N(u) /\ (Closer(t) = Closer(u) => u = t)
      BY <2>5, <3>1, Tasks DEF StopTransport, Closer, Single, N
    <3>3. QED
      BY <1>1, <2>1, <2>2, <3>1, <3>2, Bounds
  <2>6. CASE StartHttp /\ config.port # 0
    <3>1. PICK m \in Runs : m = runs
      BY <1>0, <2>6 DEF StartHttp, RoomKept
    <3>2. Spawn(Server(m)) /\ pc[Server(m)] = "none" /\ Server(m) \in Task
      BY <1>0, <2>6, <3>1, TaskNames DEF StartHttp, Server, HolderInv, Listener
    <3>3. \A t \in Spawns : Server(m) # N(t) /\ Server(m) # Closer(t)
      BY DEF Server, N, Closer
    <3>4. QED
      BY <1>1, <2>1, <2>2, <3>2, <3>3, Bounds
  <2>7. pc' = pc \/ (StopHttp /\ httpOf[wallet] # 0) \/ (StopTransport /\ live # 0)
        \/ (StartHttp /\ config.port # 0)
    BY <1>3 DEF QtStep, GuiStep, Toggle, CloseWallet, ThrottleExpires, Save, LoadWallet,
       StopHttp, StopCancel, StopTransport, StopFlags, Unbind, StartRecord, StartReset, StartHttp,
       StartNostr
  <2>8. QED
    BY <2>3, <2>4, <2>5, <2>6, <2>7
<1>4. QED
  BY <1>2, <1>3

\* The callbacks of tasks, the HTTP server, takers and the lock leave announcing alone.
OtherStep ==
  \/ \E k \in Task : Calling(k)
  \/ \E n \in Runs : HttpStep(n)
  \/ TakerStep \/ \E w \in Lockable : SetLock(w)

LEMMA OtherMoves ==
  ASSUME IInv, LifeInv, OtherStep
  PROVE  /\ Rests /\ UNCHANGED <<up, dying, runOf, guiVars, ownerVars>>
         /\ \A t \in Spawns :
              pc'[N(t)] = pc[N(t)] \/ (pc[N(t)] = "spawned" /\ pc'[N(t)] = "fresh")
<1>0. LoopTypes /\ NostrTypes
  BY DEF IInv, TypeOK
<1> USE DEF Rests, nostrVars, noteVars, powVars, history
<1>1. CASE \E n \in Runs : HttpStep(n)
  <2>1. PICK n \in Runs : HttpStep(n)
    BY <1>1
  <2>2. Rests /\ UNCHANGED <<up, dying, runOf, guiVars, ownerVars>>
    BY <2>1 DEF HttpStep, HttpCancelled, HttpSetup, HttpBound, HttpBindFails, HttpStop,
       HttpStopped, httpFrame
  <2>3. PICK k \in {Server(n), Stopper(n)}, p \in PC : StepTo(k, p)
    <3>1. Life(Server(n)) /\ Life(Stopper(n)) /\ ~cancelled[Stopper(n)]
      BY <2>1, TaskNames DEF LifeInv, TaskInv, HolderInv, Listener
    <3>2. QED
      BY <2>1, <3>1, HttpSteps
  <2>4. \A t \in Spawns : N(t) # k /\ N(t) \in Task
    BY <2>3, TaskNames
  <2>5. \A t \in Spawns : pc'[N(t)] = pc[N(t)]
    BY <1>0, <2>3, <2>4 DEF StepTo, Goto, LoopTypes
  <2>6. QED
    BY <2>2, <2>5
<1>2. CASE TakerStep \/ \E w \in Lockable : SetLock(w)
  BY <1>2 DEF TakerStep, HttpRequest, HttpCreateSwap, NostrCreateSwap, SetLock, swapFrame,
     loopVars
<1>3. CASE \E k \in Task : Calling(k)
  <2>1. PICK k \in Task : Calling(k)
    BY <1>3
  <2>2. Rests /\ UNCHANGED <<up, dying, runOf, guiVars, ownerVars>>
    BY <2>1 DEF Calling, Create, Cancel, Complete
  <2>3. ASSUME NEW t \in Spawns
        PROVE  pc'[N(t)] = pc[N(t)] \/ (pc[N(t)] = "spawned" /\ pc'[N(t)] = "fresh")
    <3>1. N(t) \in Task /\ Life(N(t))
      BY TaskNames DEF LifeInv, TaskInv
    <3>2. CASE k = N(t)
      BY <1>0, <2>1, <3>1, <3>2, LifeSpawned, LifeHears, LifeReady DEF Calling
    <3>3. CASE k # N(t)
      BY <1>0, <2>1, <3>1, <3>3, CallbackOther DEF Alike
    <3>4. QED
      BY <3>2, <3>3
  <2>4. QED
    BY <2>2, <2>3
<1>4. QED
  BY <1>1, <1>2, <1>3 DEF OtherStep

\* Nor does the shutdown of a transport, but for closing it.
LEMMA ShutdownMoves ==
  ASSUME IInv, NEW t \in Spawns, ShutdownTransport(t)
  PROVE  /\ Rests /\ UNCHANGED <<dying, runOf, guiVars, ownerVars>>
         /\ \A u \in Spawns : pc'[N(u)] = pc[N(u)] /\ (up'[u] <=> up[u] /\ (u = t => up'[u]))
         /\ pc[Closer(t)] # "none"
<1>0. LoopTypes /\ NostrTypes
  BY DEF IInv, TypeOK
<1>1. Rests /\ UNCHANGED <<dying, runOf, guiVars, ownerVars>>
  BY DEF ShutdownTransport, quietFrame, nostrFrame, noteVars, Rests, powVars
<1>2. PICK from \in {"fresh", "stopping"}, p \in {"stopping", "done"} :
        Step(Closer(t), from) /\ Goto(Closer(t), p)
  BY DEF ShutdownTransport, Closer
<1>3. pc[Closer(t)] # "none" /\ \A u \in Spawns : pc'[N(u)] = pc[N(u)]
  BY <1>0, <1>2, Tasks DEF Step, Goto, LoopTypes, Closer, N
<1>4. up' = up \/ up' = [up EXCEPT ![t] = FALSE]
  BY DEF ShutdownTransport
<1>5. \A u \in Spawns : up'[u] <=> up[u] /\ (u = t => up'[u])
  BY <1>0, <1>4 DEF NostrTypes
<1>6. QED
  BY <1>1, <1>3, <1>5

-----------------------------------------------------------------------------
(* Four kinds of steps.                                                    *)

\* A step of _nostr_startup.
AnnounceStep(t) == NostrStep(t) /\ ~ShutdownTransport(t)

LEMMA FourKinds ==
  ASSUME [Next]_vars
  PROVE  \/ QtStep \/ OtherStep \/ UNCHANGED vars
         \/ \E t \in Spawns : AnnounceStep(t) \/ ShutdownTransport(t)
<1>1. CASE LoopStep
  BY <1>1 DEF LoopStep, RunCallback, OtherStep, Calling, AnnounceStep
<1>2. QED
  BY <1>1, TwoThreads

\* It moves no other task, and nothing of the Qt thread's.
LEMMA AnnouncesAlone ==
  ASSUME IInv, LifeInv, NEW t \in Spawns, AnnounceStep(t)
  PROVE  /\ UNCHANGED <<guiVars, ownerVars, runOf, cancelled, sock, missed>>
         /\ \E p \in PC : StepTo(N(t), p)
         /\ \A k \in Task : k # N(t) => pc'[k] = pc[k] /\ Same(k) /\ Alike(k)
         /\ Announces(t, pc'[N(t)])
         /\ \A u \in Spawns : u # t => up'[u] = up[u] /\ transportWallet'[u] = transportWallet[u]
<1>0. LoopTypes /\ NostrTypes /\ N(t) \in Single /\ N(t) \in Task /\ Life(N(t))
  BY TaskNames DEF IInv, TypeOK, LifeInv, TaskInv
<1>1. PICK p : StepTo(N(t), p)
  BY <1>0, NostrSteps DEF AnnounceStep
<1>2. p \in PC
  BY <1>1 DEF StepTo
<1>3. \A k \in Task : k # N(t) => Same(k) /\ Alike(k)
  BY <1>0, <1>1, SteppedOther
<1>4. UNCHANGED <<guiVars, ownerVars, runOf, cancelled, httpVars, missed>>
  BY DEF AnnounceStep, NostrStep, PowReady, PowGrind, PowCancelled, PowRaises, PowEnds, LockPoll,
     Connected, NoRelay, Published, Unacknowledged, Tick, CancelledInTransport, Closed,
     CancelledIdle, Retry, nostrFrame, quietFrame
<1>5. QED
  BY <1>1, <1>2, <1>3, <1>4, NostrMoves DEF Alike, AnnounceStep, httpVars

-----------------------------------------------------------------------------
(* Swaps of the current run.                                               *)

\* A transport is open within the announce task's stay in `async with transport`
\* only, as long as nobody cancels that.
UpInv ==
  \A t \in Spawns :
    up[t] /\ (t = nostrFut \/ pc[N(t)] = "none") => pc[N(t)] \in Open

LEMMA UpKept ==
  ASSUME IInv, LifeInv, UpInv, [Next]_vars
  PROVE  UpInv'
<1> USE DEF UpInv, Open, Shut
<1>1. CASE QtStep
  BY <1>1, QtMoves DEF Appointed
<1>2. CASE OtherStep
  BY <1>2, OtherMoves DEF ownerVars
<1>3. CASE UNCHANGED vars
  BY <1>3 DEF vars, loopVars, nostrVars, ownerVars
<1>4. CASE \E t \in Spawns : ShutdownTransport(t)
  BY <1>4, ShutdownMoves DEF ownerVars
<1>5. CASE \E t \in Spawns : AnnounceStep(t)
  <2>1. PICK t \in Spawns : AnnounceStep(t)
    BY <1>5
  <2>2. /\ nostrFut' = nostrFut /\ Announces(t, pc'[N(t)])
        /\ \A u \in Spawns : u # t => up'[u] = up[u] /\ pc'[N(u)] = pc[N(u)]
    BY <2>1, AnnouncesAlone, TaskNames DEF ownerVars
  <2>3. pc'[N(t)] # "none" /\ (t = nostrFut => ~cancelled[N(t)])
    BY <2>2 DEF Announces, LifeInv, HolderInv, Announcer
  <2>4. t = nostrFut /\ up'[t] => pc'[N(t)] \in Open
    <3>1. pc[N(t)] \notin Open /\ t = nostrFut => ~up[t]
      OBVIOUS
    <3>2. QED
      BY <2>2, <2>3, <3>1 DEF Announces, OpensAndCloses
  <2>5. QED
    BY <2>2, <2>3, <2>4
<1>6. QED
  BY <1>1, <1>2, <1>3, <1>4, <1>5, FourKinds

\* With the wallet kept, the announce task works for it.
KeyInv ==
  \A t \in Spawns : t = nostrFut /\ pc[N(t)] \in Await => transportWallet[t] = wallet

LEMMA KeyOfWallet ==
  ASSUME IInv, LifeInv, HeldInv, KeyInv, [Next]_vars, [SameWallet]_vars
  PROVE  KeyInv'
<1> USE DEF KeyInv
<1>0. nostrFut # 0 => wallet \in Wallets /\ wallet # NoWallet /\ wallet' = wallet
  BY NotAWallet DEF HeldInv, IInv, OwnerInv, WalletBound, SameWallet, vars, ownerVars
<1>00. 0 \notin Spawns
  BY Bounds
<1>1. CASE QtStep
  <2>1. ASSUME NEW t \in Spawns, t = nostrFut', pc'[N(t)] \in Await
        PROVE  t = nostrFut /\ pc[N(t)] = pc'[N(t)] /\ transportWallet' = transportWallet
    BY <1>1, <2>1, QtMoves DEF Appointed
  <2>2. QED
    BY <1>0, <1>00, <2>1
<1>2. CASE OtherStep
  BY <1>0, <1>00, <1>2, OtherMoves DEF ownerVars, Rests
<1>3. CASE UNCHANGED vars
  BY <1>3 DEF vars, loopVars, nostrVars, ownerVars
<1>4. CASE \E t \in Spawns : ShutdownTransport(t)
  BY <1>0, <1>00, <1>4, ShutdownMoves DEF ownerVars, Rests
<1>5. CASE \E t \in Spawns : AnnounceStep(t)
  <2>1. PICK t \in Spawns : AnnounceStep(t)
    BY <1>5
  <2>2. /\ nostrFut' = nostrFut /\ Picks(t, pc'[N(t)])
        /\ \A u \in Spawns : u # t => transportWallet'[u] = transportWallet[u] /\ pc'[N(u)] = pc[N(u)]
    BY <2>1, AnnouncesAlone, TaskNames DEF ownerVars, Announces
  <2>3. QED
    BY <1>0, <1>00, <2>2 DEF Picks
<1>6. QED
  BY <1>1, <1>2, <1>3, <1>4, <1>5, FourKinds

\* A swap goes unrecorded at a listener or transport that the run does not hold,
\* or for a manager that is not wrapped.
LEMMA RecordedStep ==
  ASSUME IInv, LifeInv, HeldInv, UpInv, CurrentSwapsRecorded, [Next]_vars,
         nostrFut # 0 => KeyInv /\ recorded = wallet
  PROVE  CurrentSwapsRecorded'
<1> USE DEF CurrentSwapsRecorded
<1>0. /\ RecorderPlaced /\ ListenerRecorded /\ WalletBound /\ OwnerTypes
      /\ \A w \in Wallets : wrapped[w] <=> recorded = w
  BY DEF IInv, OwnerInv, RecorderPlaced, TypeOK
<1>1. CASE QtStep
  BY <1>1, QtMoves
<1>2. CASE UNCHANGED vars
  BY <1>2 DEF vars, history
<1>3. CASE \E t \in Spawns : ShutdownTransport(t)
  BY <1>3 DEF ShutdownTransport, quietFrame, nostrFrame
<1>4. CASE \E t \in Spawns : AnnounceStep(t)
  BY <1>4, AnnouncesAlone
<1>5. CASE OtherStep
  <2>1. CASE (\E k \in Task : Calling(k)) \/ (\E n \in Runs : HttpStep(n))
             \/ \E w \in Lockable : SetLock(w)
    <3>1. missed' = missed
      BY <2>1 DEF Calling, Create, Cancel, Complete, HttpStep, HttpCancelled, HttpSetup,
         HttpBound, HttpBindFails, HttpStop, HttpStopped, httpFrame, SetLock, history
    <3>2. QED
      BY <3>1
  <2>2. CASE \E n \in Runs : HttpRequest(n)
    BY <2>2 DEF HttpRequest
  <2>3. ASSUME NEW n \in Runs, HttpCreateSwap(n) PROVE "current" \notin missed'
    <3>1. CreateSwap(serverWallet[n], <<"http", n>>)
      BY <2>3 DEF HttpCreateSwap
    <3>2. CASE n = httpFut
      <4>1. n # 0
        BY Bounds
      <4>2. wrapped[serverWallet[n]]
        BY <1>0, <3>2, <4>1 DEF HeldInv, ListenerRecorded
      <4>3. QED
        BY <3>1, <4>2 DEF CreateSwap
    <3>3. CASE n # httpFut
      <4>1. <<"http", n>> \notin CurrentFutures
        BY <3>3 DEF CurrentFutures
      <4>2. QED
        BY <3>1, <4>1 DEF CreateSwap
    <3>4. QED
      BY <3>2, <3>3
  <2>4. ASSUME NEW t \in Spawns, NostrCreateSwap(t) PROVE "current" \notin missed'
    <3>1. CreateSwap(transportWallet[t], <<"nostr", t>>) /\ up[t]
      BY <2>4 DEF NostrCreateSwap
    <3>2. CASE t = nostrFut
      <4>1. nostrFut # 0 /\ pc[N(t)] \in Await
        BY <3>1, <3>2, Bounds DEF UpInv, Open
      <4>2. transportWallet[t] = wallet /\ recorded = wallet /\ wallet \in Wallets
        BY <1>0, <3>2, <4>1 DEF KeyInv, HeldInv, WalletBound
      <4>3. wrapped[transportWallet[t]]
        BY <1>0, <4>2
      <4>4. QED
        BY <3>1, <4>3 DEF CreateSwap
    <3>3. CASE t # nostrFut
      <4>1. <<"nostr", t>> \notin CurrentFutures
        BY <3>3 DEF CurrentFutures
      <4>2. QED
        BY <3>1, <4>1 DEF CreateSwap
    <3>4. QED
      BY <3>2, <3>3
  <2>5. QED
    BY <1>5, <2>1, <2>2, <2>3, <2>4 DEF OtherStep, TakerStep
<1>6. QED
  BY <1>1, <1>2, <1>3, <1>4, <1>5, FourKinds

\* What the proofs below build on, in every state.
BaseInv == IInv /\ LifeInv /\ HeldInv /\ UpInv

LEMMA BaseInit == Init => BaseInv
<1> SUFFICES ASSUME Init PROVE BaseInv
  OBVIOUS
<1>1. IInv /\ LifeInv /\ HeldInv
  BY InitHolds, LifeInit, HeldInit
<1>2. UpInv
  BY DEF Init, UpInv
<1>3. QED
  BY <1>1, <1>2 DEF BaseInv

LEMMA BaseKept == BaseInv /\ [Next]_vars => BaseInv'
BY InvariantKept, LifeKept, HolderKept, HeldKept, UpKept DEF BaseInv, LifeInv

\* Without relays there is no announce task.
LEMMA NeverAnnounces ==
  ASSUME \A c \in Configs : ~c.relays, IInv, nostrFut = 0, [Next]_vars
  PROVE  nostrFut' = 0
<1>0. config \in Configs
  BY DEF IInv, TypeOK, GuiTypes
<1>1. CASE LoopStep \/ UNCHANGED vars
  BY <1>1, LoopFrame DEF LoopStep, IInv, ownerVars, vars
<1>2. CASE QtStep
  BY <1>0, <1>2 DEF QtStep, GuiStep, Toggle, CloseWallet, Supervise, NostrTaskFailed,
     ThrottleExpires, Save, LoadWallet, StopHttp, StopCancel, StopTransport, StopFlags, Unbind,
     StartRecord, StartReset, StartHttp, StartNostr, ownerVars
<1>3. QED
  BY <1>1, <1>2, TwoThreads

\* A server that serves over HTTP only records every swap its own listener creates,
\* whatever wallets are opened, closed and rebound under it and however requests in
\* flight are overtaken by stops and starts.
THEOREM HttpSwapsRecorded ==
  (\A c \in Configs : ~c.relays) => (Spec => []CurrentSwapsRecorded)
<1> SUFFICES ASSUME \A c \in Configs : ~c.relays PROVE Spec => []CurrentSwapsRecorded
  OBVIOUS
<1> DEFINE HInv == BaseInv /\ CurrentSwapsRecorded /\ nostrFut = 0
<1>1. Init => HInv
  BY BaseInit DEF Init, CurrentSwapsRecorded
<1>2. HInv /\ [Next]_vars => HInv'
  BY BaseKept, NeverAnnounces, RecordedStep DEF BaseInv
<1>3. HInv => CurrentSwapsRecorded
  OBVIOUS
<1>4. QED
  BY <1>1, <1>2, <1>3, PTL DEF Spec

\* What holds as well while the operator keeps to one wallet.
KeepInv == BaseInv /\ WalletInv /\ KeyInv

LEMMA KeepInit == Init => KeepInv
<1> SUFFICES ASSUME Init PROVE KeepInv
  OBVIOUS
<1>1. nostrFut = 0
  BY DEF Init
<1>2. QED
  BY <1>1, BaseInit, HeldInit, Bounds DEF KeepInv, KeyInv

LEMMA KeepKept == KeepInv /\ [Next]_vars /\ [SameWallet]_vars => KeepInv'
BY BaseKept, WalletKept, KeyOfWallet DEF KeepInv, BaseInv

\* While the operator keeps to one wallet, a swap that the current run's listener or
\* transport creates is recorded: the manager it is created on is the wrapped one.
THEOREM KeptWalletRecorded == Spec /\ KeepsWallet => []CurrentSwapsRecorded
<1>1. Init => KeepInv /\ CurrentSwapsRecorded
  BY KeepInit DEF Init, CurrentSwapsRecorded
<1>2. (KeepInv /\ CurrentSwapsRecorded) /\ [Next]_vars /\ [SameWallet]_vars
        => (KeepInv /\ CurrentSwapsRecorded)'
  <2> SUFFICES ASSUME KeepInv, CurrentSwapsRecorded, [Next]_vars, [SameWallet]_vars
               PROVE  (KeepInv /\ CurrentSwapsRecorded)'
    OBVIOUS
  <2>1. nostrFut # 0 => KeyInv /\ recorded = wallet
    BY DEF KeepInv, BaseInv, HeldInv, WalletInv
  <2>2. QED
    BY <2>1, KeepKept, RecordedStep DEF KeepInv, BaseInv
<1>3. QED
  BY <1>1, <1>2, PTL DEF Spec, KeepsWallet

-----------------------------------------------------------------------------
(* The order in which the loop comes to the tasks.                         *)

\* Of what an action does to the queue: it appends to it, or takes its head, which
\* was for task i, and appends.
Appends(s) == s \in Seq(Calls) /\ queue' = queue \o s
TakesOf(x, s) == s \in Seq(Calls) /\ queue # <<>> /\ Head(queue) = x /\ queue' = Tail(queue) \o s

\* What becomes of task i.
Asked(i) == pc[i] = "none" /\ pc'[i] = "spawned" /\ mustCancel' = mustCancel /\ \E s : Appends(s)
Made(i) ==
  /\ pc[i] = "spawned" /\ pc'[i] = "fresh" /\ mustCancel' = mustCancel
  /\ ~Has(queue, ToStep(i)) /\ \E s : TakesOf(ToCreate(i), s)
Told(i) ==
  /\ pc'[i] = pc[i] /\ pc[i] \in Await \cup Finished /\ (mustCancel'[i] \/ pc[i] \in Finished)
  /\ \E s : TakesOf(ToCancel(i), s)
Ran(i) ==
  /\ pc[i] \in Await \cup {"fresh"} /\ pc'[i] \in Await \cup Finished
  /\ mustCancel[i] \/ Dying(i) => pc'[i] \in Finished \/ Dying(i)'
  /\ \E s : TakesOf(ToStep(i), s)
Waits(i) == pc'[i] = pc[i] /\ mustCancel'[i] = mustCancel[i] /\ \E s : Appends(s)
Elsewhere(i) == i \notin Single /\ \E s : Appends(s) \/ \E op \in Ops : TakesOf(<<op, i>>, s)

Fate(i) == Asked(i) \/ Made(i) \/ Told(i) \/ Ran(i) \/ Waits(i) \/ Elsewhere(i)

\* Nothing becomes of it.
Still(k) == pc'[k] = pc[k] /\ mustCancel'[k] = mustCancel[k] /\ (Dying(k)' <=> Dying(k))

\* What becomes of it under its own step, ...
LEMMA FateOfStep ==
  ASSUME IInv, LifeInv, NEW i \in Task, NEW p \in PC, StepTo(i, p)
  PROVE  Fate(i) /\ (Dying(i) => Dying(i)')
<1>0. LoopTypes /\ NostrTypes
  BY DEF IInv, TypeOK
<1>1. Dying(i) => Dying(i)'
  BY <1>0 DEF StepTo, Dying, NostrTypes
<1>2. CASE i \in Single
  <2>1. /\ queue \in Seq(Calls) /\ queue # <<>> /\ Head(queue) = ToStep(i)
        /\ queue' = Tail(queue) /\ Tail(queue) \in Seq(Calls)
        /\ pc[i] \in Await \cup {"fresh"} /\ pc'[i] \in Await \cup Finished
        /\ mustCancel[i] \/ Dying(i) => pc'[i] \in Finished \/ Dying(i)'
    <3>1. Life(i)
      BY <1>2 DEF LifeInv, TaskInv
    <3>2. QED
      BY <1>0, <1>2, <3>1, LifeStepped
  <2>2. <<>> \in Seq(Calls) /\ queue' = Tail(queue) \o <<>>
    BY <2>1
  <2>3. QED
    BY <1>1, <2>1, <2>2 DEF Fate, Ran, TakesOf
<1>3. CASE i \notin Single
  <2>1. queue # <<>> /\ Head(queue) = <<"step", i>> /\ queue' = Tail(queue) /\ queue \in Seq(Calls)
    BY <1>0 DEF StepTo, Step, LoopTypes, Calls
  <2>2. <<>> \in Seq(Calls) /\ queue' = Tail(queue) \o <<>>
    BY <2>1, QueuePop
  <2>3. QED
    BY <1>1, <1>3, <2>1, <2>2 DEF Fate, Elsewhere, TakesOf, Ops
<1>4. QED
  BY <1>2, <1>3

\* ... and when the loop calls back for it.
LEMMA FateOfCalling ==
  ASSUME IInv, LifeInv, NEW i \in Task, Calling(i)
  PROVE  Fate(i) /\ (Dying(i) <=> Dying(i)')
<1>0. LoopTypes /\ queue \in Seq(Calls)
  BY DEF IInv, TypeOK, LoopTypes, Calls
<1>1. Dying(i) <=> Dying(i)'
  BY DEF Calling, Create, Cancel, Complete, nostrVars, Dying
<1>2. ToStep(i) \in Calls /\ ToCancel(i) \in Calls
  BY OwnCallbacks
<1>3. /\ <<>> \in Seq(Calls) /\ <<ToStep(i)>> \in Seq(Calls) /\ <<ToCancel(i)>> \in Seq(Calls)
      /\ <<ToStep(i)>> \o <<ToCancel(i)>> \in Seq(Calls)
  BY <1>2, OneFacts, AppendFacts
<1>4. CASE i \in Single
  <2>0. Life(i)
    BY <1>4 DEF LifeInv, TaskInv
  <2>1. CASE Create(i)
    <3> DEFINE c == IF cancelled[i] THEN <<ToCancel(i)>> ELSE <<>>
    <3>1. /\ queue # <<>> /\ Head(queue) = ToCreate(i) /\ pc[i] = "spawned" /\ pc'[i] = "fresh"
          /\ mustCancel' = mustCancel /\ ~Has(queue, ToStep(i))
          /\ queue' = (Tail(queue) \o <<ToStep(i)>>) \o c
      BY <1>0, <2>0, <2>1, LifeSpawned
    <3>2. c \in Seq(Calls) /\ Tail(queue) \in Seq(Calls)
      BY <1>0, <1>3, <3>1, QueuePop
    <3>3. <<ToStep(i)>> \o c \in Seq(Calls) /\ queue' = Tail(queue) \o (<<ToStep(i)>> \o c)
      BY <1>3, <3>1, <3>2, AppendFacts
    <3>4. QED
      BY <1>1, <3>1, <3>3 DEF Fate, Made, TakesOf
  <2>2. CASE Cancel(i)
    <3>1. /\ queue # <<>> /\ Head(queue) = ToCancel(i) /\ pc' = pc /\ pc[i] \in Await \cup Finished
          /\ mustCancel'[i] = (pc[i] \notin Finished)
          /\ queue' = Tail(queue) \o <<ToStep(i)>> \/ queue' = Tail(queue) \o <<>>
      BY <1>0, <2>0, <2>2, LifeHears
    <3>2. QED
      BY <1>1, <1>3, <3>1 DEF Fate, Told, TakesOf
  <2>3. CASE Complete(i)
    <3>1. UNCHANGED <<pc, mustCancel>> /\ queue' = queue \o <<ToStep(i)>>
      BY <1>0, <2>0, <2>3, LifeReady
    <3>2. QED
      BY <1>1, <1>3, <3>1 DEF Fate, Waits, Appends
  <2>4. QED
    BY <2>1, <2>2, <2>3 DEF Calling
<1>5. CASE i \notin Single
  <2>1. CASE Complete(i)
    <3>1. queue' = queue \o <<ToStep(i)>>
      BY <1>0, <1>2, <2>1, AppendedAsConcat DEF Complete, ToStep
    <3>2. QED
      BY <1>1, <1>3, <1>5, <3>1 DEF Fate, Elsewhere, Appends
  <2>2. CASE Create(i)
    <3> DEFINE c == IF cancelled[i] THEN <<ToCancel(i)>> ELSE <<>>
    <3>1. queue # <<>> /\ Head(queue) = <<"create", i>> /\ queue' = Append(Tail(queue), ToStep(i)) \o c
      BY <2>2 DEF Create, ToStep, ToCancel
    <3>2. c \in Seq(Calls) /\ Tail(queue) \in Seq(Calls)
      BY <1>0, <1>3, <3>1, QueuePop
    <3>3. <<ToStep(i)>> \o c \in Seq(Calls) /\ queue' = Tail(queue) \o (<<ToStep(i)>> \o c)
      <4>1. Append(Tail(queue), ToStep(i)) = Tail(queue) \o <<ToStep(i)>>
        BY <1>2, <3>2, AppendedAsConcat
      <4>2. QED
        BY <1>3, <3>1, <3>2, <4>1, AppendFacts
    <3>4. QED
      BY <1>1, <1>5, <3>1, <3>3 DEF Fate, Elsewhere, TakesOf, Ops
  <2>3. CASE Cancel(i)
    <3>1. queue # <<>> /\ Head(queue) = <<"cancel", i>> /\ Tail(queue) \in Seq(Calls)
          /\ queue' = (IF Suspended(i) THEN Append(Tail(queue), ToStep(i)) ELSE Tail(queue))
      BY <1>0, <2>3, QueuePop DEF Cancel, ToStep
    <3>2. queue' = Tail(queue) \o <<ToStep(i)>> \/ queue' = Tail(queue) \o <<>>
      BY <1>2, <3>1, AppendedAsConcat
    <3>3. QED
      BY <1>1, <1>3, <1>5, <3>1, <3>2 DEF Fate, Elsewhere, TakesOf, Ops
  <2>4. QED
    BY <2>1, <2>2, <2>3 DEF Calling
<1>6. QED
  BY <1>4, <1>5

\* In every step something becomes of one task at most.
LEMMA OneFate ==
  ASSUME IInv, LifeInv, [Next]_vars
  PROVE  \E i \in Task : /\ Fate(i) /\ (Dying(i) => Dying(i)')
                         /\ \A k \in Task : k # i => Still(k)
<1>0. /\ LoopTypes /\ NostrTypes /\ OwnerTypes /\ HolderInv /\ TaskInv /\ queue \in Seq(Calls)
      /\ <<>> \in Seq(Calls)
  BY DEF IInv, TypeOK, LifeInv, LoopTypes, Calls
<1>1. \E k \in Task : k \in Single
  <2>1. 1 \in Spawns
    BY Bounds
  <2>2. QED
    BY <2>1, TaskNames
<1> USE DEF lifeVars
<1>2. CASE UNCHANGED lifeVars
  <2>1. Appends(<<>>)
    BY <1>0, <1>2 DEF Appends
  <2>2. \A k \in Task : Still(k)
    BY <1>2 DEF Still, Dying
  <2>3. QED
    BY <1>1, <2>1, <2>2 DEF Fate, Waits, Still
<1>3. ASSUME NEW i \in Task, Spawn(i), UNCHANGED <<mustCancel, cancelled, dying>>,
             i \in Single => pc[i] = "none"
      PROVE  Fate(i) /\ (Dying(i) => Dying(i)') /\ \A k \in Task : k # i => Still(k)
  <2>1. pc'[i] = "spawned" /\ \A k \in Task : k # i => pc'[k] = pc[k]
    BY <1>0, <1>3 DEF Spawn, LoopTypes
  <2>2. \A k \in Task : mustCancel'[k] = mustCancel[k] /\ (Dying(k)' <=> Dying(k))
    BY <1>3 DEF Dying
  <2>3. Appends(<<ToCreate(i)>>)
    <3>1. ToCreate(i) \in Calls /\ <<ToCreate(i)>> \in Seq(Calls)
      BY OwnCallbacks, OneFacts
    <3>2. queue' = Append(queue, ToCreate(i))
      BY <1>3 DEF Spawn, ToCreate
    <3>3. QED
      BY <1>0, <3>1, <3>2, AppendedAsConcat DEF Appends
  <2>4. Fate(i)
    BY <1>3, <2>1, <2>3 DEF Fate, Asked, Elsewhere
  <2>5. QED
    BY <2>1, <2>2, <2>4 DEF Still
<1>4. CASE SpawnsOther
  BY <1>3, <1>4 DEF SpawnsOther
<1>5. CASE SpawnsAnnouncer
  <2>1. PICK t \in Spawns : t = spawns + 1
    BY <1>5 DEF SpawnsAnnouncer
  <2>2. t > spawns /\ Announcer(t) /\ N(t) \in Task
    BY <1>0, <2>1, Bounds, TaskNames DEF HolderInv, OwnerTypes
  <2>3. Spawn(N(t)) /\ pc[N(t)] = "none" /\ UNCHANGED <<mustCancel, cancelled, dying>>
    BY <1>5, <2>1, <2>2 DEF SpawnsAnnouncer, SpawnNostr, N, Announcer
  <2>4. QED
    BY <1>3, <2>2, <2>3
<1>6. CASE StopCancel
  <2>1. PICK i \in Task : i \in Single
    BY <1>1
  <2>2. \A k \in Task : Still(k)
    BY <1>6 DEF StopCancel, Still, Dying, nostrVars
  <2>3. \E s : Appends(s)
    <3>1. Life(i) /\ (i \in CurrentFutures => pc[i] # "none")
      BY <1>0, <2>1, CurrentAsked DEF TaskInv
    <3>2. \E s \in Seq(Calls) : queue' = queue \o s
      BY <1>0, <1>6, <2>1, <3>1, LifeTold
    <3>3. QED
      BY <3>2 DEF Appends
  <2>4. QED
    BY <2>1, <2>2, <2>3 DEF Fate, Waits, Still
<1>7. ASSUME NEW i \in Task, Calling(i) PROVE \A k \in Task : k # i => Still(k)
  BY <1>0, <1>7, CallbackOther DEF Still, Alike
<1>8. ASSUME NEW i \in Task, NEW p \in PC, StepTo(i, p) PROVE \A k \in Task : k # i => Still(k)
  BY <1>0, <1>8, SteppedOther DEF Still, Alike
<1>9. QED
  BY <1>2, <1>4, <1>5, <1>6, <1>7, <1>8, FateOfStep, FateOfCalling, Kinds

-----------------------------------------------------------------------------
(* One task after another.                                                 *)

\* The loop makes task j before task k, and runs it first.
Ahead(j, k) ==
  /\ pc[j] = "spawned" /\ pc[k] = "spawned" => Before(queue, ToCreate(j), ToCreate(k))
  /\ pc[k] = "fresh" =>
       pc[j] # "spawned" /\ (pc[j] = "fresh" => Before(queue, ToStep(j), ToStep(k)))
  /\ pc[k] \in Await \cup Finished => pc[j] \notin {"spawned", "fresh"}

\* Task j has ended, was never asked for, or finds its cancellation when it runs next.
Gone(j) == pc[j] \in Finished \cup {"none"} \/ mustCancel[j] \/ Dying(j)

\* When task k runs, j is gone.
Outlived(j, k) ==
  /\ pc[k] = "fresh" => Gone(j) \/ Before(queue, ToCancel(j), ToStep(k))
  /\ pc[k] \in Await \cup Finished => Gone(j)

\* j is asked for before k or never.
NeverAfter(j, k) == pc[k] # "none" /\ pc[j] = "none" => pc'[j] = "none"

\* What is in the queue is ahead of what is not, and stays ahead.
LEMMA Ranks ==
  ASSUME NEW q \in Seq(Calls), NEW x, NEW y
  PROVE  Has(q, x) /\ ~Has(q, y) => Before(q, x, y)
<1> SUFFICES ASSUME Has(q, x), ~Has(q, y) PROVE Before(q, x, y)
  OBVIOUS
<1>1. PICK i \in DOMAIN q : q[i] = x
  BY DEF Has
<1>2. \A j \in 1 .. i : j \in DOMAIN q
  <2>1. DOMAIN q = 1 .. Len(q) /\ Len(q) \in Nat
    OBVIOUS
  <2>2. QED
    BY <2>1
<1>3. QED
  BY <1>1, <1>2 DEF Has, Before

\* What a step that is not j's leaves of the order in the queue.
LEMMA RanksKept ==
  ASSUME queue \in Seq(Calls), NEW x, NEW y, NEW s,
         Appends(s) \/ \E z : TakesOf(z, s) /\ z # x, Before(queue, x, y)
  PROVE  Before(queue', x, y)
<1>1. CASE Appends(s)
  BY <1>1, AppendFacts DEF Appends
<1>2. CASE \E z : TakesOf(z, s) /\ z # x
  <2>1. /\ s \in Seq(Calls) /\ queue # <<>> /\ Head(queue) # x /\ queue' = Tail(queue) \o s
        /\ Tail(queue) \in Seq(Calls)
    BY <1>2, QueuePop DEF TakesOf
  <2>2. Before(Tail(queue), x, y)
    BY <2>1, TailFacts
  <2>3. QED
    BY <2>1, <2>2, AppendFacts
<1>3. QED
  BY <1>1, <1>2

\* The callbacks of different tasks, and of different kinds, differ.
LEMMA Different ==
  ASSUME NEW i, NEW j
  PROVE  /\ i # j => \A a, b : <<a, i>> # <<b, j>>
         /\ ToCreate(i) # ToStep(j) /\ ToCreate(i) # ToCancel(j) /\ ToStep(i) # ToCancel(j)
         /\ i # j => ToCreate(i) # ToCreate(j) /\ ToStep(i) # ToStep(j) /\ ToCancel(i) # ToCancel(j)
         /\ \A op \in Ops : <<op, i>> \in {ToCreate(i), ToStep(i), ToCancel(i)}
BY DEF ToCreate, ToStep, ToCancel, Ops

\* What taking a callback of one kind from the head tells of the order.
LEMMA NotOvertaken ==
  ASSUME queue \in Seq(Calls), NEW x, NEW y, NEW s, TakesOf(y, s)
  PROVE  ~Before(queue, x, y)
BY TailFacts DEF TakesOf

LEMMA AheadKept ==
  ASSUME IInv, LifeInv, [Next]_vars, NEW j \in Single, NEW k \in Single, j # k,
         Ahead(j, k), NeverAfter(j, k)
  PROVE  Ahead(j, k)'
<1>0. queue \in Seq(Calls) /\ Life(j) /\ Life(k) /\ j \in Task /\ k \in Task
  BY TaskNames DEF IInv, TypeOK, LoopTypes, Calls, LifeInv, TaskInv
<1>1. PICK i \in Task : Fate(i) /\ \A l \in Task : l # i => Still(l)
  BY OneFate
<1>2. /\ pc[j] = "spawned" => Has(queue, ToCreate(j))
      /\ pc[k] # "spawned" => ~Has(queue, ToCreate(k))
      /\ pc[j] = "fresh" => Has(queue, ToStep(j))
  BY <1>0 DEF Life, BornOnce, FirstStepFirst, Has, Before
<1>3. CASE i # j /\ i # k
  <2>1. PICK s : Appends(s) \/ \E op \in Ops : TakesOf(<<op, i>>, s)
    BY <1>1, Different DEF Fate, Asked, Made, Told, Ran, Waits, Elsewhere, ToCreate, ToStep, ToCancel, Ops
  <2>2. \A x, y : x \in {ToCreate(j), ToStep(j)} /\ Before(queue, x, y) => Before(queue', x, y)
    <3>1. \A op \in Ops : <<op, i>> # ToCreate(j) /\ <<op, i>> # ToStep(j)
      BY <1>3, Different DEF ToCreate, ToStep
    <3>2. QED
      BY <1>0, <2>1, <3>1, RanksKept
  <2>3. pc'[j] = pc[j] /\ pc'[k] = pc[k]
    BY <1>0, <1>1, <1>3 DEF Still
  <2>4. QED
    BY <2>2, <2>3 DEF Ahead
<1>4. CASE i = j
  <2>0. pc'[k] = pc[k]
    BY <1>0, <1>1, <1>4 DEF Still
  <2>1. CASE Asked(j)
    BY <2>0, <2>1 DEF Ahead, NeverAfter, Asked
  <2>2. CASE Made(j)
    BY <2>0, <2>2 DEF Ahead, Made
  <2>3. CASE Told(j) \/ Ran(j)
    BY <2>0, <2>3 DEF Ahead, Told, Ran
  <2>4. CASE Waits(j)
    BY <1>0, <2>0, <2>4, RanksKept DEF Ahead, Waits
  <2>5. QED
    BY <1>1, <1>4, <2>1, <2>2, <2>3, <2>4 DEF Fate, Elsewhere
<1>5. CASE i = k
  <2>0. pc'[j] = pc[j]
    BY <1>0, <1>1, <1>5 DEF Still
  <2>1. CASE Asked(k)
    <3>1. PICK s : Appends(s)
      BY <2>1 DEF Asked
    <3>2. pc[j] = "spawned" => Before(queue, ToCreate(j), ToCreate(k))
      BY <1>0, <1>2, <2>1, Ranks DEF Asked
    <3>3. QED
      BY <1>0, <2>0, <2>1, <3>1, <3>2, RanksKept DEF Ahead, Asked
  <2>2. CASE Made(k)
    <3>1. PICK s : TakesOf(ToCreate(k), s)
      BY <2>2 DEF Made
    <3>2. pc[j] # "spawned"
      BY <1>0, <2>2, <3>1, NotOvertaken DEF Ahead, Made
    <3>3. pc[j] = "fresh" => Before(queue, ToStep(j), ToStep(k))
      BY <1>0, <1>2, <2>2, Ranks DEF Made
    <3>4. pc[j] = "fresh" => Before(queue', ToStep(j), ToStep(k))
      <4>1. ToCreate(k) # ToStep(j)
        BY Different
      <4>2. QED
        BY <1>0, <3>1, <3>3, <4>1, RanksKept
    <3>5. QED
      BY <2>0, <2>2, <3>2, <3>4 DEF Ahead, Made
  <2>3. CASE Told(k)
    BY <2>0, <2>3 DEF Ahead, Told
  <2>4. CASE Ran(k)
    <3>1. PICK s : TakesOf(ToStep(k), s)
      BY <2>4 DEF Ran
    <3>2. pc[j] \notin {"spawned", "fresh"}
      BY <1>0, <2>4, <3>1, NotOvertaken DEF Ahead, Ran
    <3>3. QED
      BY <2>0, <2>4, <3>2 DEF Ahead, Ran
  <2>5. CASE Waits(k)
    BY <1>0, <2>0, <2>5, RanksKept DEF Ahead, Waits
  <2>6. QED
    BY <1>1, <1>5, <2>1, <2>2, <2>3, <2>4, <2>5 DEF Fate, Elsewhere
<1>6. QED
  BY <1>3, <1>4, <1>5

\* A task that is gone stays so.
LEMMA GoneStays ==
  ASSUME IInv, LifeInv, [Next]_vars, NEW j \in Single, Gone(j), pc[j] = "none" => pc'[j] = "none"
  PROVE  Gone(j)'
<1>0. j \in Task
  BY TaskNames
<1>1. PICK i \in Task : Fate(i) /\ (Dying(i) => Dying(i)') /\ \A l \in Task : l # i => Still(l)
  BY OneFate
<1>2. CASE i # j
  BY <1>0, <1>1, <1>2 DEF Still, Gone
<1>3. CASE i = j
  BY <1>1, <1>3 DEF Fate, Asked, Made, Told, Ran, Waits, Elsewhere, Gone
<1>4. QED
  BY <1>2, <1>3

LEMMA OutlivedKept ==
  ASSUME IInv, LifeInv, [Next]_vars, NEW j \in Single, NEW k \in Single, j # k,
         Ahead(j, k), Outlived(j, k), NeverAfter(j, k), pc[k] # "none" => ~Working(j)
  PROVE  Outlived(j, k)'
<1>0. queue \in Seq(Calls) /\ Life(j) /\ Life(k) /\ j \in Task /\ k \in Task
  BY TaskNames DEF IInv, TypeOK, LoopTypes, Calls, LifeInv, TaskInv
<1>1. PICK i \in Task : Fate(i) /\ \A l \in Task : l # i => Still(l)
  BY OneFate
<1>2. Gone(j) /\ pc[k] # "none" => Gone(j)'
  BY GoneStays DEF NeverAfter
<1>3. Before(queue, ToCancel(j), ToStep(k)) /\ i # j /\ i # k => Before(queue', ToCancel(j), ToStep(k))
  <2>1. i # j /\ i # k => \E s : Appends(s) \/ \E op \in Ops : TakesOf(<<op, i>>, s)
    BY <1>1, Different DEF Fate, Asked, Made, Told, Ran, Waits, Elsewhere, ToCreate, ToStep, ToCancel, Ops
  <2>2. i # j => \A op \in Ops : <<op, i>> # ToCancel(j)
    BY Different DEF ToCancel
  <2>3. QED
    BY <1>0, <2>1, <2>2, RanksKept
<1>4. CASE i # j /\ i # k
  <2>1. pc'[k] = pc[k]
    BY <1>0, <1>1, <1>4 DEF Still
  <2>2. QED
    BY <1>2, <1>3, <1>4, <2>1 DEF Outlived
<1>5. CASE i = j
  <2>0. pc'[k] = pc[k]
    BY <1>0, <1>1, <1>5 DEF Still
  <2>1. CASE Told(j)
    BY <2>0, <2>1 DEF Outlived, Told, Gone
  <2>2. CASE ~Told(j)
    <3>1. \E s : Appends(s) \/ TakesOf(ToCreate(j), s) \/ TakesOf(ToStep(j), s)
      BY <1>1, <1>5, <2>2 DEF Fate, Asked, Made, Ran, Waits, Elsewhere
    <3>2. Before(queue, ToCancel(j), ToStep(k)) => Before(queue', ToCancel(j), ToStep(k))
      BY <1>0, <3>1, RanksKept, Different
    <3>3. QED
      BY <1>2, <2>0, <3>2 DEF Outlived
  <2>3. QED
    BY <2>1, <2>2
<1>6. CASE i = k
  <2>0. pc'[j] = pc[j]
    BY <1>0, <1>1, <1>6 DEF Still
  <2>1. CASE Asked(k)
    BY <2>1 DEF Asked, Outlived
  <2>2. CASE Made(k)
    <3>1. PICK s : TakesOf(ToCreate(k), s)
      BY <2>2 DEF Made
    <3>2. CASE Gone(j)
      BY <1>2, <2>2, <3>2 DEF Outlived, Made
    <3>3. CASE ~Gone(j)
      <4>1. pc[j] # "spawned"
        BY <1>0, <2>2, <3>1, NotOvertaken DEF Ahead, Made
      <4>2. pc[j] \in Await \cup {"fresh"}
        BY <1>0, <3>3, <4>1 DEF Gone, IInv, TypeOK, LoopTypes
      <4>3. cancelled[j]
        BY <2>2, <4>2 DEF Working, Made
      <4>4. Has(queue, ToCancel(j))
        BY <1>0, <3>3, <4>2, <4>3 DEF Life, ToldForSure, Gone
      <4>5. Before(queue, ToCancel(j), ToStep(k))
        BY <1>0, <2>2, <4>4, Ranks DEF Made
      <4>6. Before(queue', ToCancel(j), ToStep(k))
        <5>1. ToCreate(k) # ToCancel(j)
          BY Different
        <5>2. QED
          BY <1>0, <3>1, <4>5, <5>1, RanksKept
      <4>7. QED
        BY <2>2, <4>6 DEF Outlived, Made
    <3>4. QED
      BY <3>2, <3>3
  <2>3. CASE Told(k)
    BY <1>2, <2>3 DEF Outlived, Told
  <2>4. CASE Ran(k)
    <3>1. PICK s : TakesOf(ToStep(k), s)
      BY <2>4 DEF Ran
    <3>2. Gone(j)
      BY <1>0, <2>4, <3>1, NotOvertaken DEF Outlived, Ran
    <3>3. QED
      BY <1>2, <2>4, <3>2 DEF Outlived, Ran
  <2>5. CASE Waits(k)
    BY <1>0, <1>2, <2>5, RanksKept DEF Outlived, Waits
  <2>6. QED
    BY <1>1, <1>6, <2>1, <2>2, <2>3, <2>4, <2>5 DEF Fate, Elsewhere
<1>7. QED
  BY <1>4, <1>5, <1>6

-----------------------------------------------------------------------------
(* The tasks of one run after those of the run before.                     *)

\* Who is asked for, and when.
LEMMA Births ==
  ASSUME IInv, LifeInv, [Next]_vars, NEW j \in Single, pc[j] = "none", pc'[j] # "none"
  PROVE  /\ QtStep /\ pc'[j] = "spawned"
         /\ \/ \E t \in Spawns : j = N(t) /\ Appointed(t)
            \/ StartHttp /\ config.port # 0 /\ j = Server(runs)
            \/ StopHttp /\ httpOf[wallet] # 0 /\ j = Stopper(httpOf[wallet])
<1>0. LoopTypes /\ j \in Task
  BY TaskNames DEF IInv, TypeOK
<1>1. CASE LoopStep \/ UNCHANGED vars
  BY <1>0, <1>1, LoopKinds, LoopKeeps DEF LoopStep, lifeVars, vars, loopVars
<1>2. CASE QtStep
  <2>1. pc'[j] = "spawned"
    BY <1>2, QtMoves
  <2>2. CASE \E t \in Spawns : j = N(t)
    BY <1>2, <2>1, <2>2, QtMoves
  <2>3. CASE ~\E t \in Spawns : j = N(t)
    <3>1. ASSUME NEW t \in Spawns, SpawnNostr(t) PROVE FALSE
      <4>1. pc' = [pc EXCEPT ![N(t)] = "spawned"]
        BY <3>1 DEF SpawnNostr, Spawn, N
      <4>2. QED
        BY <1>0, <2>3, <4>1 DEF LoopTypes
    <3>2. ~(Supervise \/ (StartNostr /\ config.relays))
      <4>1. Supervise \/ StartNostr => spawns + 1 \in Spawns
        BY Bounds DEF Supervise, StartNostr, IInv, RoomKept, TypeOK, OwnerTypes
      <4>2. QED
        BY <3>1, <4>1 DEF Supervise, StartNostr
    <3>3. \/ pc' = pc \/ (StopHttp /\ httpOf[wallet] # 0) \/ (StopTransport /\ live # 0)
          \/ (StartHttp /\ config.port # 0)
      BY <1>2, <3>2 DEF QtStep, GuiStep, Toggle, CloseWallet, ThrottleExpires, Save, LoadWallet,
         StopHttp, StopCancel, StopTransport, StopFlags, Unbind, StartRecord, StartReset, StartHttp,
         StartNostr, loopVars
    <3>4. CASE StopHttp /\ httpOf[wallet] # 0
      <4>1. pc' = [pc EXCEPT ![Stopper(httpOf[wallet])] = "spawned"]
        BY <3>4 DEF StopHttp, Spawn, Stopper
      <4>2. j = Stopper(httpOf[wallet])
        BY <1>0, <4>1 DEF LoopTypes
      <4>3. QED
        BY <1>2, <2>1, <3>4, <4>2
    <3>5. CASE StopTransport /\ live # 0
      <4>1. pc' = [pc EXCEPT ![Closer(live)] = "spawned"]
        BY <3>5 DEF StopTransport, Spawn, Closer
      <4>2. j # Closer(live)
        BY DEF Single, Closer
      <4>3. QED
        BY <1>0, <4>1, <4>2 DEF LoopTypes
    <3>6. CASE StartHttp /\ config.port # 0
      <4>1. pc' = [pc EXCEPT ![Server(runs)] = "spawned"]
        BY <3>6 DEF StartHttp, Spawn, Server
      <4>2. j = Server(runs)
        BY <1>0, <4>1 DEF LoopTypes
      <4>3. QED
        BY <1>2, <2>1, <3>6, <4>2
    <3>7. QED
      BY <3>3, <3>4, <3>5, <3>6
  <2>4. QED
    BY <2>2, <2>3
<1>3. QED
  BY <1>1, <1>2, TwoThreads

\* The HTTP servers and the announce tasks follow each other.
FollowInv ==
  /\ \A m, n \in Runs : m < n => Ahead(Server(m), Server(n)) /\ Outlived(Server(m), Server(n))
  /\ \A s, t \in Spawns : s < t => Ahead(N(s), N(t)) /\ Outlived(N(s), N(t))

LEMMA FollowKept ==
  ASSUME IInv, LifeInv, HeldInv, FollowInv, [Next]_vars
  PROVE  FollowInv'
<1>0. HolderInv /\ OwnerTypes
  BY DEF LifeInv, IInv, TypeOK
<1>1. ASSUME NEW m \in Runs, NEW n \in Runs, m < n
      PROVE  Ahead(Server(m), Server(n))' /\ Outlived(Server(m), Server(n))'
  <2>0. /\ Server(m) \in Single /\ Server(n) \in Single /\ Server(m) # Server(n)
        /\ m \in Nat /\ n \in Nat
    BY <1>1, TaskNames, Bounds
  <2>1. pc[Server(n)] # "none" => n <= runs /\ ~(n = runs /\ gui = "start_http")
    BY <1>0, <2>0 DEF HolderInv, Listener, OwnerTypes
  <2>2. NeverAfter(Server(m), Server(n))
    <3>1. ASSUME pc[Server(n)] # "none", pc[Server(m)] = "none", pc'[Server(m)] # "none"
          PROVE  FALSE
      <4>1. \/ \E t \in Spawns : Server(m) = N(t)
            \/ Server(m) = Server(runs)
            \/ Server(m) = Stopper(httpOf[wallet])
        BY <2>0, <3>1, Births
      <4>2. m = runs
        BY <4>1 DEF Server, N, Stopper
      <4>3. QED
        BY <1>1, <2>0, <2>1, <3>1, <4>2
    <3>2. QED
      BY <3>1 DEF NeverAfter
  <2>3. pc[Server(n)] # "none" => ~Working(Server(m))
    BY <1>0, <1>1, <2>0, <2>1 DEF HolderInv, Listener, OwnerTypes
  <2>4. QED
    BY <1>1, <2>0, <2>2, <2>3, AheadKept, OutlivedKept DEF FollowInv
<1>2. ASSUME NEW s \in Spawns, NEW t \in Spawns, s < t
      PROVE  Ahead(N(s), N(t))' /\ Outlived(N(s), N(t))'
  <2>0. N(s) \in Single /\ N(t) \in Single /\ N(s) # N(t) /\ s \in Nat \ {0} /\ t \in Nat
    BY <1>2, TaskNames, Bounds
  <2>1. pc[N(t)] # "none" => t <= spawns
    BY <1>0, <2>0 DEF HolderInv, Announcer, OwnerTypes
  <2>2. NeverAfter(N(s), N(t))
    <3>1. ASSUME pc[N(t)] # "none", pc[N(s)] = "none", pc'[N(s)] # "none"
          PROVE  FALSE
      <4>1. s = spawns + 1
        BY <1>0, <2>0, <3>1, Births, TaskNames DEF Appointed, N, Server, Stopper
      <4>2. QED
        BY <1>0, <1>2, <2>0, <2>1, <3>1, <4>1 DEF OwnerTypes
    <3>2. QED
      BY <3>1 DEF NeverAfter
  <2>3. pc[N(t)] # "none" => ~Working(N(s))
    <3>1. Working(N(s)) => s = spawns
      BY <1>0, <2>0 DEF HolderInv, Announcer, HeldInv
    <3>2. QED
      BY <1>0, <1>2, <2>0, <2>1, <3>1 DEF OwnerTypes
  <2>4. QED
    BY <1>2, <2>0, <2>2, <2>3, AheadKept, OutlivedKept DEF FollowInv
<1>3. QED
  BY <1>1, <1>2 DEF FollowInv

-----------------------------------------------------------------------------
(* The port.                                                               *)

\* What the HTTP server of run n and its stop do.
ServerMoves(n) ==
  \/ /\ pc'[Stopper(n)] = pc[Stopper(n)]
     /\ pc[Server(n)] \in {"fresh", "lockwait", "binding"} /\ pc'[Server(n)] # "none"
     /\ sock'[n] <=> pc'[Server(n)] = "done" \/ sock[n]
  \/ /\ pc'[Server(n)] = pc[Server(n)]
     /\ pc[Stopper(n)] \in {"fresh", "cleanup"} /\ pc'[Stopper(n)] \in {"cleanup", "done"}
     /\ sock'[n] => sock[n]

\* What the other steps do for them.
ServerRests(n) ==
  /\ sock'[n] = sock[n]
  /\ \A k \in {Server(n), Stopper(n)} :
       \/ pc'[k] = pc[k]
       \/ pc[k] = "none" /\ pc'[k] = "spawned"
       \/ pc[k] = "spawned" /\ pc'[k] = "fresh"

LEMMA HttpMoves ==
  ASSUME IInv, LifeInv, [Next]_vars, NEW n \in Runs
  PROVE  ServerMoves(n) \/ ServerRests(n)
<1>0. LoopTypes /\ NostrTypes /\ HttpTypes /\ TaskInv
  BY DEF IInv, TypeOK, LifeInv
<1>1. Server(n) \in Single /\ Stopper(n) \in Single /\ Server(n) \in Task /\ Stopper(n) \in Task
      /\ Server(n) # Stopper(n) /\ Life(Server(n)) /\ Life(Stopper(n))
  BY <1>0, TaskNames DEF TaskInv
<1>2. CASE QtStep
  BY <1>1, <1>2, QtMoves DEF ServerRests
<1>3. CASE UNCHANGED vars
  BY <1>3 DEF vars, loopVars, httpVars, ServerRests
<1>4. CASE \E t \in Spawns : AnnounceStep(t) \/ ShutdownTransport(t)
  <2>1. PICK t \in Spawns : AnnounceStep(t) \/ ShutdownTransport(t)
    BY <1>4
  <2>2. CASE AnnounceStep(t)
    BY <1>1, <2>2, AnnouncesAlone, TaskNames DEF ServerRests
  <2>3. CASE ShutdownTransport(t)
    <3>1. sock' = sock /\ \E p : Goto(Closer(t), p)
      BY <2>3 DEF ShutdownTransport, quietFrame, nostrFrame, httpVars, Closer
    <3>2. Closer(t) # Server(n) /\ Closer(t) # Stopper(n)
      BY DEF Closer, Server, Stopper
    <3>3. QED
      BY <1>0, <1>1, <3>1, <3>2 DEF ServerRests, Goto, LoopTypes
  <2>4. QED
    BY <2>1, <2>2, <2>3
<1>5. CASE TakerStep \/ \E w \in Lockable : SetLock(w)
  BY <1>5 DEF TakerStep, HttpRequest, HttpCreateSwap, NostrCreateSwap, SetLock, swapFrame,
     loopVars, httpVars, ServerRests
<1>6. CASE \E k \in Task : Calling(k)
  <2>1. PICK i \in Task : Calling(i)
    BY <1>6
  <2>2. sock' = sock
    BY <2>1 DEF Calling, Create, Cancel, Complete, httpVars
  <2>3. \A k \in {Server(n), Stopper(n)} :
          pc'[k] = pc[k] \/ (pc[k] = "spawned" /\ pc'[k] = "fresh")
    <3>1. ASSUME NEW k \in {Server(n), Stopper(n)}
          PROVE  pc'[k] = pc[k] \/ (pc[k] = "spawned" /\ pc'[k] = "fresh")
      <4>1. CASE k = i
        BY <1>0, <1>1, <2>1, <4>1, LifeSpawned, LifeHears, LifeReady DEF Calling
      <4>2. CASE k # i
        BY <1>0, <1>1, <2>1, <4>2, CallbackOther DEF Alike
      <4>3. QED
        BY <4>1, <4>2
    <3>2. QED
      BY <3>1
  <2>4. QED
    BY <2>2, <2>3 DEF ServerRests
<1>7. ASSUME NEW m \in Runs, HttpStep(m) PROVE ServerMoves(n) \/ ServerRests(n)
  <2>1. CASE HttpCancelled(m) \/ HttpSetup(m) \/ HttpBound(m) \/ HttpBindFails(m)
    <3>1. PICK p \in Await \cup Finished :
            /\ Goto(Server(m), p) /\ pc[Server(m)] \in {"fresh", "lockwait", "binding"}
            /\ sock' = IF p = "done" THEN [sock EXCEPT ![m] = TRUE] ELSE sock
      BY <2>1 DEF HttpCancelled, HttpSetup, HttpBound, HttpBindFails, CancelledAt, Step, Server
    <3>2. CASE m = n
      <4>1. pc'[Server(n)] = p /\ pc'[Stopper(n)] = pc[Stopper(n)]
        BY <1>0, <1>1, <3>1, <3>2 DEF Goto, LoopTypes
      <4>2. sock'[n] <=> p = "done" \/ sock[n]
        BY <1>0, <3>1, <3>2 DEF HttpTypes
      <4>3. QED
        BY <3>1, <3>2, <4>1, <4>2 DEF ServerMoves
    <3>3. CASE m # n
      <4>1. Server(m) # Server(n) /\ Server(m) # Stopper(n)
        BY <3>3, TaskNames
      <4>2. pc'[Server(n)] = pc[Server(n)] /\ pc'[Stopper(n)] = pc[Stopper(n)] /\ sock'[n] = sock[n]
        BY <1>0, <1>1, <3>1, <3>3, <4>1 DEF Goto, LoopTypes, HttpTypes
      <4>3. QED
        BY <4>2 DEF ServerRests
    <3>4. QED
      BY <3>2, <3>3
  <2>2. CASE HttpStop(m) \/ HttpStopped(m)
    <3>1. PICK p \in {"cleanup", "done"} :
            /\ Goto(Stopper(m), p) /\ pc[Stopper(m)] \in {"fresh", "cleanup"}
            /\ sock' = sock \/ sock' = [sock EXCEPT ![m] = FALSE]
      BY <2>2 DEF HttpStop, HttpStopped, Step, Stopper
    <3>2. CASE m = n
      <4>1. pc'[Stopper(n)] = p /\ pc'[Server(n)] = pc[Server(n)]
        BY <1>0, <1>1, <3>1, <3>2 DEF Goto, LoopTypes
      <4>2. sock'[n] => sock[n]
        BY <1>0, <3>1, <3>2 DEF HttpTypes
      <4>3. QED
        BY <3>1, <3>2, <4>1, <4>2 DEF ServerMoves
    <3>3. CASE m # n
      <4>1. Stopper(m) # Server(n) /\ Stopper(m) # Stopper(n)
        BY <3>3, TaskNames
      <4>2. pc'[Server(n)] = pc[Server(n)] /\ pc'[Stopper(n)] = pc[Stopper(n)] /\ sock'[n] = sock[n]
        BY <1>0, <1>1, <3>1, <3>3, <4>1 DEF Goto, LoopTypes, HttpTypes
      <4>3. QED
        BY <4>2 DEF ServerRests
    <3>4. QED
      BY <3>2, <3>3
  <2>3. QED
    BY <1>7, <2>1, <2>2 DEF HttpStep
<1>8. QED
  BY <1>2, <1>3, <1>4, <1>5, <1>6, <1>7, FourKinds DEF OtherStep

\* A server that has bound its port listens until its stop comes to it.
SockInv ==
  \A n \in Runs :
    /\ pc[Stopper(n)] \in {"none", "spawned", "fresh", "cleanup", "done"}
    /\ sock[n] => pc[Server(n)] = "done"
    /\ pc[Server(n)] = "done" /\ pc[Stopper(n)] \notin {"cleanup", "done"} => sock[n]

LEMMA SockInit == Init => SockInv
<1> SUFFICES ASSUME Init PROVE SockInv
  OBVIOUS
<1>1. \A n \in Runs : ~sock[n] /\ pc[Server(n)] = "none" /\ pc[Stopper(n)] = "none"
  BY TaskNames DEF Init
<1>2. QED
  BY <1>1 DEF SockInv

LEMMA SockKept ==
  ASSUME IInv, LifeInv, SockInv, [Next]_vars
  PROVE  SockInv'
<1> SUFFICES ASSUME NEW n \in Runs
             PROVE  /\ pc'[Stopper(n)] \in {"none", "spawned", "fresh", "cleanup", "done"}
                    /\ sock'[n] => pc'[Server(n)] = "done"
                    /\ pc'[Server(n)] = "done" /\ pc'[Stopper(n)] \notin {"cleanup", "done"} => sock'[n]
  BY DEF SockInv
<1>1. /\ ServerMoves(n) \/ ServerRests(n)
      /\ sock[n] \in BOOLEAN /\ sock'[n] \in BOOLEAN
  BY HttpMoves, InvariantKept DEF IInv, TypeOK, HttpTypes
<1>2. QED
  BY <1>1 DEF SockInv, ServerMoves, ServerRests

\* With the wallet kept, every server but the current one has a stop.
PortInv ==
  /\ SockInv
  /\ \A n \in Runs :
       pc[Server(n)] # "none" /\ pc[Stopper(n)] = "none" => n = httpFut /\ gui # "stop_cancel"

LEMMA PortKept ==
  ASSUME IInv, LifeInv, HeldInv, WalletInv, PortInv, [Next]_vars
  PROVE  PortInv'
<1> SUFFICES ASSUME NEW n \in Runs, pc'[Server(n)] # "none", pc'[Stopper(n)] = "none"
             PROVE  n = httpFut' /\ gui' # "stop_cancel"
  BY SockKept DEF PortInv
<1>0. /\ ServerMoves(n) \/ ServerRests(n)
      /\ LoopTypes /\ HttpTypes
      /\ sock[n] \in BOOLEAN /\ sock'[n] \in BOOLEAN
  BY HttpMoves, InvariantKept DEF IInv, TypeOK, HttpTypes
<1>1. pc[Server(n)] # "none" /\ pc[Stopper(n)] = "none" => n = httpFut /\ gui # "stop_cancel"
  BY DEF PortInv
<1>2. pc[Stopper(n)] = "none"
  BY <1>0, <1>1 DEF ServerMoves, ServerRests
<1>3. CASE pc[Server(n)] = "none"
  <2>1. StartHttp /\ config.port # 0 /\ Server(n) = Server(runs)
    BY <1>3, Births, TaskNames DEF Server, Stopper, N
  <2>2. QED
    BY <2>1 DEF StartHttp, Server
<1>4. CASE pc[Server(n)] # "none"
  <2>1. n = httpFut /\ gui # "stop_cancel" /\ n # 0
    BY <1>1, <1>2, <1>4, Bounds
  <2>2. CASE LoopStep \/ UNCHANGED vars
    BY <2>1, <2>2, LoopFrame DEF LoopStep, IInv, guiVars, ownerVars, vars
  <2>3. CASE StopHttp
    <3>1. httpOf[wallet] = n
      BY <2>1, <2>3 DEF WalletInv, StopHttp
    <3>2. pc' = [pc EXCEPT ![Stopper(n)] = "spawned"] /\ Stopper(n) \in Task
      BY <2>1, <2>3, <3>1, TaskNames DEF StopHttp, Spawn, Stopper
    <3>3. QED
      BY <1>0, <3>2 DEF LoopTypes
  <2>4. CASE StartHttp
    BY <2>1, <2>4 DEF StartHttp, IInv, OwnerInv, StoppedFirst
  <2>5. CASE QtStep /\ ~StopHttp /\ ~StartHttp
    <3>1. httpFut' = httpFut \/ StopCancel
      BY <2>5 DEF QtStep, GuiStep, Toggle, CloseWallet, Supervise, ThrottleExpires, Save,
         LoadWallet, StopTransport, StopFlags, Unbind, StartRecord, StartReset, StartNostr,
         ownerVars
    <3>2. gui' # "stop_cancel"
      BY <2>1, <2>5 DEF QtStep, GuiStep, Toggle, CloseWallet, Supervise, ThrottleExpires, Save,
         LoadWallet, StopCancel, StopTransport, StopFlags, Unbind, StartRecord, StartReset,
         StartNostr, guiVars, IInv, TypeOK, GuiTypes
    <3>3. QED
      BY <2>1, <3>1, <3>2 DEF StopCancel
  <2>6. QED
    BY <2>2, <2>3, <2>4, <2>5, TwoThreads
<1>5. QED
  BY <1>3, <1>4

\* The stop of a server is asked for before any later server is.
StopsFollow ==
  \A m, n \in Runs : m < n => Ahead(Stopper(m), Server(n))

LEMMA StopsKept ==
  ASSUME IInv, LifeInv, WalletInv, StopsFollow, [Next]_vars
  PROVE  StopsFollow'
<1> SUFFICES ASSUME NEW m \in Runs, NEW n \in Runs, m < n PROVE Ahead(Stopper(m), Server(n))'
  BY DEF StopsFollow
<1>0. /\ Stopper(m) \in Single /\ Server(n) \in Single /\ Stopper(m) # Server(n)
      /\ m \in Nat \ {0} /\ n \in Nat /\ runs \in Nat
  BY TaskNames, Bounds DEF IInv, TypeOK, OwnerTypes
<1>1. NeverAfter(Stopper(m), Server(n))
  <2>1. ASSUME pc[Server(n)] # "none", pc[Stopper(m)] = "none", pc'[Stopper(m)] # "none"
        PROVE  FALSE
    <3>1. StopHttp /\ Stopper(m) = Stopper(httpOf[wallet])
      BY <1>0, <2>1, Births DEF Server, Stopper, N
    <3>2. m = httpOf[wallet] /\ wallet \in Wallets
      BY <3>1 DEF Stopper, StopHttp, IInv, OwnerInv, WalletBound
    <3>3. m = httpFut
      BY <1>0, <3>2 DEF WalletInv
    <3>4. m = runs /\ n <= runs
      BY <1>0, <2>1, <3>3 DEF LifeInv, HolderInv, Listener
    <3>5. QED
      BY <1>0, <3>4
  <2>2. QED
    BY <2>1 DEF NeverAfter
<1>2. QED
  BY <1>0, <1>1, AheadKept DEF StopsFollow

\* A bind fails on a listener of our own that nobody has come to stop: neither an
\* older nor a younger server can be that.
LEMMA NoClash ==
  ASSUME IInv, LifeInv, FollowInv, StopsFollow, PortInv, ~clashed, [Next]_vars
  PROVE  ~clashed'
<1>1. CASE \E n \in Runs : HttpBindFails(n)
  <2>1. PICK n \in Runs : HttpBindFails(n)
    BY <1>1
  <2>2. pc[Server(n)] = "binding" /\ ~mustCancel[Server(n)] /\ ~Dying(Server(n)) /\ n \in Nat
    BY <2>1, TaskNames, Bounds DEF HttpBindFails, Step, Server
  <2>3. ASSUME NEW m \in Runs, sock[m], ~StopReached(m)
        PROVE  FALSE
    <3>1. pc[Server(m)] = "done" /\ pc[Stopper(m)] \in {"none", "spawned", "fresh"} /\ m \in Nat
      BY <2>3, Bounds DEF PortInv, SockInv, StopReached, Stopper
    <3>2. CASE m = n
      BY <2>2, <3>1, <3>2
    <3>3. CASE m > n
      BY <2>2, <3>1, <3>3 DEF FollowInv, Outlived, Gone
    <3>4. CASE m < n
      <4>1. pc[Stopper(m)] \notin {"spawned", "fresh"}
        BY <2>2, <3>4 DEF StopsFollow, Ahead
      <4>2. m = httpFut
        BY <3>1, <4>1 DEF PortInv
      <4>3. m = runs /\ n <= runs
        BY <2>2, <3>1, <4>2 DEF LifeInv, HolderInv, Listener, IInv, TypeOK, OwnerTypes
      <4>4. QED
        BY <2>2, <3>1, <3>4, <4>3
    <3>5. QED
      BY <2>2, <3>1, <3>2, <3>3, <3>4
  <2>4. QED
    BY <2>1, <2>3 DEF HttpBindFails, TakenBy
<1>2. CASE ~\E n \in Runs : HttpBindFails(n)
  <2>1. CASE QtStep \/ UNCHANGED vars
    BY <2>1, QtMoves DEF vars, history
  <2>2. CASE \E t \in Spawns : AnnounceStep(t) \/ ShutdownTransport(t)
    BY <2>2 DEF AnnounceStep, NostrStep, PowReady, PowGrind, PowCancelled, PowRaises, PowEnds,
       LockPoll, Connected, NoRelay, Published, Unacknowledged, Tick, CancelledInTransport, Closed,
       CancelledIdle, Retry, ShutdownTransport, nostrFrame, quietFrame
  <2>3. CASE (\E k \in Task : Calling(k)) \/ TakerStep \/ \E w \in Lockable : SetLock(w)
    BY <2>3 DEF Calling, Create, Cancel, Complete, TakerStep, HttpRequest, HttpCreateSwap,
       NostrCreateSwap, SetLock, swapFrame, history
  <2>4. CASE \E n \in Runs : HttpStep(n)
    BY <1>2, <2>4 DEF HttpStep, HttpCancelled, HttpSetup, HttpBound, HttpStop, HttpStopped,
       httpFrame
  <2>5. QED
    BY <2>1, <2>2, <2>3, <2>4, FourKinds DEF OtherStep
<1>3. QED
  BY <1>1, <1>2

\* While the operator keeps to one wallet, no start meets the listener of an earlier
\* run before the loop has come to its stop: the port a restart needs is free, or
\* somebody else's.
THEOREM KeptWalletPortFree == Spec /\ KeepsWallet => []RestartFindsPortFree
<1> DEFINE PInv == KeepInv /\ FollowInv /\ StopsFollow /\ PortInv /\ ~clashed
<1>1. Init => PInv
  <2> SUFFICES ASSUME Init PROVE PInv
    OBVIOUS
  <2>1. /\ \A k \in Single : pc[k] = "none"
        /\ \A n \in Runs : ~sock[n]
        /\ ~clashed
    BY TaskNames DEF Init
  <2>2. FollowInv /\ StopsFollow
    BY <2>1, TaskNames DEF FollowInv, StopsFollow, Ahead, Outlived
  <2>3. PortInv
    BY <2>1, SockInit, TaskNames DEF PortInv
  <2>4. QED
    BY <2>1, <2>2, <2>3, KeepInit
<1>2. PInv /\ [Next]_vars /\ [SameWallet]_vars => PInv'
  BY KeepKept, FollowKept, StopsKept, PortKept, NoClash DEF KeepInv, BaseInv
<1>3. PInv => RestartFindsPortFree
  BY DEF RestartFindsPortFree
<1>4. QED
  BY <1>1, <1>2, <1>3, PTL DEF Spec, KeepsWallet

-----------------------------------------------------------------------------
(* The proof of work.                                                      *)

\* With nobody stopping it, the announce task is past its proof of work with the
\* nonce, or without one because the grind gave up.
ProvenInv ==
  \A t \in Spawns :
    gui = "idle" /\ t = nostrFut /\ pc[N(t)] \in Await \ {"pow"}
      => nonceFor = wallet \/ wallet \in gaveUp

\* The announce task that the plugin holds is the only one that can still bring a
\* nonce for another wallet.
LEMMA OldGrindsOver ==
  ASSUME IInv, LifeInv, HeldInv, FollowInv, NEW t \in Spawns, t = nostrFut, pc[N(t)] \in Await,
         NEW u \in Spawns, u # t, pc[N(u)] = "pow"
  PROVE  mustCancel[N(u)]
<1>0. t \in Nat \ {0} /\ u \in Nat /\ t = spawns
  BY Bounds DEF HeldInv
<1>1. u < t
  BY <1>0 DEF LifeInv, HolderInv, Announcer
<1>2. Gone(N(u))
  BY <1>1 DEF FollowInv, Outlived
<1>3. ~Dying(N(u))
  BY TaskNames DEF LifeInv, TaskInv, Life, OnlyIfTold
<1>4. QED
  BY <1>2, <1>3 DEF Gone

LEMMA ProvenKept ==
  ASSUME IInv, LifeInv, HeldInv, FollowInv, KeyInv, ProvenInv, [Next]_vars, [SameWallet]_vars
  PROVE  ProvenInv'
<1> SUFFICES ASSUME NEW t \in Spawns, gui' = "idle", t = nostrFut', pc'[N(t)] \in Await \ {"pow"}
             PROVE  nonceFor' = wallet' \/ wallet' \in gaveUp'
  BY DEF ProvenInv
<1>0. t # 0 /\ (nostrFut # 0 => wallet \in Wallets /\ wallet # NoWallet /\ wallet' = wallet)
  BY Bounds, NotAWallet DEF HeldInv, IInv, OwnerInv, WalletBound, SameWallet, vars, ownerVars
<1>1. CASE QtStep
  <2>1. t = nostrFut /\ pc[N(t)] = pc'[N(t)] /\ gaveUp' = gaveUp
    BY <1>1, QtMoves DEF Appointed
  <2>2. gui = "idle"
    BY <1>0, <1>1, <2>1 DEF QtStep, GuiStep, Toggle, CloseWallet, Supervise, ThrottleExpires, Save,
       LoadWallet, StopHttp, StopCancel, StopTransport, StopFlags, Unbind, StartRecord, StartReset,
       StartHttp, StartNostr, guiVars, IInv, OwnerInv, StoppedFirst
  <2>3. nonceFor' = nonceFor
    <3>1. CASE \E c \in Configs : Save(c)
      BY <1>0, <2>1, <3>1 DEF Save, HeldInv
    <3>2. CASE ~\E c \in Configs : Save(c)
      BY <1>1, <3>2 DEF QtStep, GuiStep, Toggle, CloseWallet, Supervise, ThrottleExpires,
         LoadWallet, StopHttp, StopCancel, StopTransport, StopFlags, Unbind, StartRecord,
         StartReset, StartHttp, StartNostr, powVars
    <3>3. QED
      BY <3>1, <3>2
  <2>4. QED
    BY <1>0, <2>1, <2>2, <2>3 DEF ProvenInv
<1>2. CASE OtherStep \/ UNCHANGED vars \/ \E u \in Spawns : ShutdownTransport(u)
  <2>1. UNCHANGED <<nonceFor, gaveUp, gui, nostrFut>> /\ pc[N(t)] \in Await \ {"pow"}
    BY <1>2, OtherMoves, ShutdownMoves DEF Rests, guiVars, ownerVars, powVars, vars, loopVars, history
  <2>2. QED
    BY <1>0, <2>1 DEF ProvenInv
<1>3. CASE \E u \in Spawns : AnnounceStep(u)
  <2>1. PICK u \in Spawns : AnnounceStep(u)
    BY <1>3
  <2>2. /\ UNCHANGED <<gui, nostrFut>> /\ Proves(u, pc'[N(u)])
        /\ pc[N(u)] \in Shut \cup Open
        /\ u # t => pc'[N(t)] = pc[N(t)]
    BY <2>1, AnnouncesAlone, TaskNames DEF guiVars, ownerVars, Announces
  <2>3. t = nostrFut /\ gui = "idle" /\ wallet \in Wallets /\ wallet # NoWallet /\ wallet' = wallet
    BY <1>0, <2>2
  <2>4. CASE u = t
    <3>1. Undisturbed(t)
      BY <2>3 DEF Undisturbed, LifeInv, HolderInv, Announcer
    <3>2. CASE pc[N(t)] = "fresh"
      BY <2>2, <2>3, <2>4, <3>2 DEF Proves
    <3>3. CASE pc[N(t)] = "pow"
      <4>1. transportWallet[t] = wallet
        BY <2>3, <3>3 DEF KeyInv
      <4>2. QED
        BY <2>2, <2>3, <2>4, <3>1, <3>3, <4>1 DEF Proves
    <3>4. CASE pc[N(t)] \in Await \ {"pow"}
      BY <2>2, <2>3, <2>4, <3>4 DEF Proves, ProvenInv
    <3>5. QED
      BY <2>2, <2>4, <3>2, <3>3, <3>4 DEF Shut, Open
  <2>5. CASE u # t
    <3>1. pc[N(t)] \in Await \ {"pow"}
      BY <2>2, <2>5
    <3>2. pc[N(u)] = "pow" => mustCancel[N(u)]
      BY <2>3, <2>5, <3>1, OldGrindsOver
    <3>3. nonceFor' \in {nonceFor, wallet} /\ gaveUp \subseteq gaveUp'
      BY <2>2, <3>2 DEF Proves
    <3>4. QED
      BY <2>3, <3>1, <3>3 DEF ProvenInv
  <2>6. QED
    BY <2>4, <2>5
<1>4. QED
  BY <1>1, <1>2, <1>3, FourKinds

LEMMA OffersKept ==
  ASSUME IInv, LifeInv, KeyInv, ProvenInv, OfferMeetsTarget, [Next]_vars
  PROVE  OfferMeetsTarget'
<1> USE DEF OfferMeetsTarget
<1>1. CASE \E t \in Spawns : AnnounceStep(t)
  <2>1. PICK t \in Spawns : AnnounceStep(t)
    BY <1>1
  <2>2. gaveUp \subseteq gaveUp' /\ Offers(t)
    BY <2>1, AnnouncesAlone DEF Announces, Proves
  <2>3. CASE weakOffer' = weakOffer
    BY <2>2, <2>3
  <2>4. CASE /\ pc[N(t)] \in {"connect", "tick"} /\ Undisturbed(t) /\ nonceFor # transportWallet[t]
             /\ weakOffer' = weakOffer \cup {transportWallet[t]}
    <3>1. t = nostrFut /\ gui = "idle"
      BY <2>4 DEF Undisturbed, LifeInv, HolderInv, Announcer, Working
    <3>2. transportWallet[t] = wallet /\ (nonceFor = wallet \/ wallet \in gaveUp)
      BY <2>4, <3>1 DEF KeyInv, ProvenInv
    <3>3. QED
      BY <2>2, <2>4, <3>2
  <2>5. QED
    BY <2>2, <2>3, <2>4 DEF Offers
<1>2. CASE QtStep \/ OtherStep \/ UNCHANGED vars \/ \E t \in Spawns : ShutdownTransport(t)
  BY <1>2, QtMoves, OtherMoves, ShutdownMoves DEF Rests, vars, history
<1>3. QED
  BY <1>1, <1>2, FourKinds

LEMMA FollowInit == Init => FollowInv
<1> SUFFICES ASSUME Init PROVE FollowInv
  OBVIOUS
<1>1. \A k \in Single : pc[k] = "none"
  BY TaskNames DEF Init
<1>2. QED
  BY <1>1, TaskNames DEF FollowInv, Ahead, Outlived

\* While the operator keeps to one wallet, no offer goes out undisturbed with a nonce
\* short of the target, unless the grind gave up for that key: neither raising the
\* target nor restarting in the middle of a grind leads to one.
THEOREM KeptWalletOffers == Spec /\ KeepsWallet => []OfferMeetsTarget
<1> DEFINE OInv == KeepInv /\ FollowInv /\ ProvenInv /\ OfferMeetsTarget
<1>1. Init => OInv
  <2> SUFFICES ASSUME Init PROVE OInv
    OBVIOUS
  <2>1. nostrFut = 0 /\ weakOffer = {} /\ 0 \notin Spawns
    BY Bounds DEF Init
  <2>2. QED
    BY <2>1, KeepInit, FollowInit DEF ProvenInv, OfferMeetsTarget
<1>2. OInv /\ [Next]_vars /\ [SameWallet]_vars => OInv'
  BY KeepKept, FollowKept, ProvenKept, OffersKept DEF KeepInv, BaseInv
<1>3. QED
  BY <1>1, <1>2, PTL DEF Spec, KeepsWallet

-----------------------------------------------------------------------------
(* The one transport that stop_server would close.                         *)

\* Somebody has asked for the shutdown of the transport of task t.
CloserAsked(t) == pc[Closer(t)] # "none" \/ Has(queue, ToCreate(Closer(t)))

\* That is done for a task the plugin no longer holds, and the transport it does hold
\* belongs to a task that is in it.  The grinding flag is set by a task that grinds.
TransportInv ==
  /\ live # 0 => pc[N(live)] \in Open
  /\ \A t \in Spawns : CloserAsked(t) => t # nostrFut /\ pc[N(t)] # "none"
  /\ grinding => \E t \in Spawns : pc[N(t)] = "pow"

LEMMA CloserAskedBy ==
  ASSUME IInv, LifeInv, [Next]_vars, NEW t \in Spawns, ~CloserAsked(t), CloserAsked(t)'
  PROVE  gui = "stop_transport" /\ live = t
<1> DEFINE k == Closer(t)
<1>0. /\ LoopTypes /\ NostrTypes /\ queue \in Seq(Calls) /\ k \in Task
      /\ pc[k] = "none" /\ ~Has(queue, ToCreate(k))
  BY Tasks DEF IInv, TypeOK, LoopTypes, Calls, CloserAsked, Closer
<1>1. ASSUME Same(k), Alike(k) PROVE FALSE
  BY <1>0, <1>1 DEF Same, Fed, Alike, CloserAsked
<1>2. CASE UNCHANGED lifeVars
  BY <1>0, <1>2 DEF lifeVars, CloserAsked
<1>3. CASE \E i \in Task : Calling(i)
  <2>1. PICK i \in Task : Calling(i)
    BY <1>3
  <2>2. i = k
    BY <1>0, <1>1, <2>1, CallbackOther
  <2>3. ~Create(k)
    <3>1. queue # <<>> => 1 \in DOMAIN queue /\ Head(queue) = queue[1]
      BY <1>0
    <3>2. queue # <<>> => Head(queue) # ToCreate(k)
      BY <1>0, <3>1 DEF Has
    <3>3. QED
      BY <3>2 DEF Create, ToCreate
  <2>4. pc' = pc /\ ToStep(k) \in Calls
    BY <2>1, <2>2, <2>3, OwnCallbacks DEF Calling, Cancel, Complete
  <2>5. \/ queue' = queue \o <<ToStep(k)>>
        \/ queue # <<>> /\ queue' = Tail(queue)
        \/ queue # <<>> /\ queue' = Tail(queue) \o <<ToStep(k)>>
    <3>1. \/ queue' = Append(queue, ToStep(k))
          \/ queue # <<>> /\ queue' = Tail(queue)
          \/ queue # <<>> /\ queue' = Append(Tail(queue), ToStep(k))
      BY <2>1, <2>2, <2>3 DEF Calling, Cancel, Complete, ToStep
    <3>2. queue # <<>> => Tail(queue) \in Seq(Calls)
      BY <1>0, QueuePop
    <3>3. QED
      BY <1>0, <2>4, <3>1, <3>2, AppendedAsConcat
  <2>6. queue # <<>> => Tail(queue) \in Seq(Calls) /\ ~Has(Tail(queue), ToCreate(k))
    BY <1>0, QueuePop, TailFacts
  <2>7. ~Has(queue', ToCreate(k))
    BY <1>0, <2>5, <2>6, PushStep
  <2>8. QED
    BY <1>0, <2>4, <2>7 DEF CloserAsked
<1>4. CASE \E i \in Task, p \in PC : StepTo(i, p)
  <2>1. PICK i \in Task, p \in PC : StepTo(i, p)
    BY <1>4
  <2>2. i # k
    BY <1>0, <2>1 DEF StepTo, Step
  <2>3. QED
    BY <1>0, <1>1, <2>1, <2>2, SteppedOther
<1>5. CASE StopCancel
  <2>1. pc' = pc /\ queue' = queue \o CancelCalls
    BY <1>5 DEF StopCancel
  <2>2. ASSUME NEW q \in Seq(Calls), NEW s, ~Has(q, ToCreate(k)),
               s = <<>> \/ \E i \in Task : s = CancelCall(i)
        PROVE  s \in Seq(Calls) /\ q \o s \in Seq(Calls) /\ ~Has(q \o s, ToCreate(k))
    <3>1. CASE s = <<>>
      BY <2>2, <3>1
    <3>2. ASSUME NEW i \in Task, s = CancelCall(i)
          PROVE  s \in Seq(Calls) /\ q \o s \in Seq(Calls) /\ ~Has(q \o s, ToCreate(k))
      BY <1>0, <2>2, <3>2, ToldOnce DEF Fed
    <3>3. QED
      BY <2>2, <3>1, <3>2
  <2>3. PICK a, b : /\ CancelCalls = a \o b
                    /\ a = <<>> \/ \E i \in Task : a = CancelCall(i)
                    /\ b = <<>> \/ \E i \in Task : b = CancelCall(i)
    <3>1. httpFut = 0 \/ httpFut \in Runs
      BY Bounds DEF IInv, TypeOK, OwnerTypes
    <3>2. nostrFut = 0 \/ nostrFut \in Spawns
      BY Bounds DEF IInv, TypeOK, OwnerTypes
    <3>3. QED
      BY <3>1, <3>2, Tasks DEF CancelCalls, N
  <2>4. queue' = (queue \o a) \o b
    BY <1>0, <2>1, <2>2, <2>3, AppendFacts
  <2>5. ~Has(queue', ToCreate(k))
    BY <1>0, <2>2, <2>3, <2>4
  <2>6. QED
    BY <1>0, <2>1, <2>5 DEF CloserAsked
<1>6. CASE QtStep /\ (SpawnsOther \/ SpawnsAnnouncer)
  <2>1. PICK i \in Task : Spawn(i) /\ UNCHANGED <<mustCancel, cancelled, dying>>
    <3>1. CASE SpawnsOther
      BY <3>1 DEF SpawnsOther
    <3>2. CASE SpawnsAnnouncer
      BY <3>2, Tasks DEF SpawnsAnnouncer, SpawnNostr, N
    <3>3. QED
      BY <1>6, <3>1, <3>2
  <2>2. i = k
    BY <1>0, <1>1, <2>1, SpawnOther
  <2>3. pc'[k] = "spawned"
    BY <1>0, <2>1, <2>2 DEF Spawn, LoopTypes
  <2>4. QED
    BY <1>0, <1>6, <2>3, QtMoves
<1>7. QED
  BY <1>2, <1>3, <1>4, <1>5, <1>6, TwoThreads, GuiKinds, LoopKinds
     DEF QtStep, LoopStep, lifeVars, vars, loopVars, nostrVars

LEMMA TransportKept ==
  ASSUME IInv, LifeInv, TransportInv, [Next]_vars
  PROVE  TransportInv'
<1>0. /\ NoteTypes /\ OwnerTypes /\ StoppedFirst /\ (live = 0 \/ live \in Spawns)
      /\ \A t \in Spawns : N(t) \in Single /\ N(t) \in Task
  BY Bounds, TaskNames DEF IInv, TypeOK, OwnerInv, NoteTypes
<1>00. 0 \notin Spawns
  BY Bounds
<1> USE DEF Open, Shut
<1>1. ASSUME NEW t \in Spawns, CloserAsked(t)' PROVE t # nostrFut' /\ pc'[N(t)] # "none"
  <2>1. CASE ~CloserAsked(t)
    <3>1. gui = "stop_transport" /\ live = t
      BY <1>1, <2>1, CloserAskedBy
    <3>2. nostrFut = 0 /\ pc[N(t)] \in Open
      BY <1>0, <1>00, <3>1 DEF StoppedFirst, TransportInv
    <3>3. nostrFut' # t /\ pc'[N(t)] # "none"
      <4>1. CASE QtStep
        <5>1. nostrFut' = 0
          BY <3>1, <3>2, <4>1 DEF QtStep, GuiStep, Toggle, CloseWallet, Supervise, ThrottleExpires,
             Save, LoadWallet, StopHttp, StopCancel, StopTransport, StopFlags, Unbind, StartRecord,
             StartReset, StartHttp, StartNostr, ownerVars
        <5>2. QED
          BY <1>00, <3>2, <4>1, <5>1, QtMoves DEF Appointed
      <4>2. CASE LoopStep \/ UNCHANGED vars
        <5>1. nostrFut' = nostrFut
          BY <4>2, LoopFrame DEF LoopStep, IInv, ownerVars, vars
        <5>2. pc'[N(t)] # "none"
          BY <1>0, <3>2, <4>2, LoopKinds, LoopKeeps DEF LoopStep, lifeVars, vars, loopVars
        <5>3. QED
          BY <1>00, <3>2, <5>1, <5>2
      <4>3. QED
        BY <4>1, <4>2, TwoThreads
    <3>4. QED
      BY <3>3
  <2>2. CASE CloserAsked(t)
    <3>1. t # nostrFut /\ pc[N(t)] # "none"
      BY <2>2 DEF TransportInv
    <3>2. CASE QtStep
      BY <3>1, <3>2, QtMoves DEF Appointed
    <3>3. CASE LoopStep \/ UNCHANGED vars
      <4>1. nostrFut' = nostrFut
        BY <3>3, LoopFrame DEF LoopStep, IInv, ownerVars, vars
      <4>2. pc'[N(t)] # "none"
        BY <1>0, <3>1, <3>3, LoopKinds, LoopKeeps DEF LoopStep, lifeVars, vars, loopVars
      <4>3. QED
        BY <3>1, <4>1, <4>2
    <3>4. QED
      BY <3>2, <3>3, TwoThreads
  <2>3. QED
    BY <2>1, <2>2
<1>2. /\ live' # 0 => pc'[N(live')] \in Open
      /\ grinding' => \E t \in Spawns : pc'[N(t)] = "pow"
  <2>0. /\ live # 0 => pc[N(live)] \in Open
        /\ grinding => \E t \in Spawns : pc[N(t)] = "pow"
    BY DEF TransportInv
  <2>1. CASE QtStep
    <3>1. live' \in {0, live} /\ (grinding' => grinding)
      BY <2>1 DEF QtStep, GuiStep, Toggle, CloseWallet, Supervise, ThrottleExpires, Save,
         LoadWallet, StopHttp, StopCancel, StopTransport, StopFlags, Unbind, StartRecord,
         StartReset, StartHttp, StartNostr, powVars
    <3>2. \A t \in Spawns : pc[N(t)] # "none" => pc'[N(t)] = pc[N(t)]
      BY <2>1, QtMoves DEF Appointed
    <3>3. QED
      BY <1>0, <2>0, <3>1, <3>2
  <2>2. CASE OtherStep
    BY <1>0, <2>0, <2>2, OtherMoves DEF Rests, powVars
  <2>3. CASE UNCHANGED vars
    BY <2>0, <2>3 DEF vars, powVars, loopVars
  <2>4. CASE \E t \in Spawns : ShutdownTransport(t)
    BY <1>0, <2>0, <2>4, ShutdownMoves DEF Rests, powVars
  <2>5. CASE \E t \in Spawns : AnnounceStep(t)
    <3>1. PICK t \in Spawns : AnnounceStep(t)
      BY <2>5
    <3>2. /\ Announces(t, pc'[N(t)])
          /\ \A u \in Spawns : u # t => pc'[N(u)] = pc[N(u)]
      BY <1>0, <3>1, AnnouncesAlone, TaskNames
    <3>3. live' # 0 => pc'[N(live')] \in Open
      BY <1>0, <2>0, <3>2 DEF Announces, OpensAndCloses
    <3>4. grinding' => \E u \in Spawns : pc'[N(u)] = "pow"
      BY <2>0, <3>2 DEF Announces, Proves
    <3>5. QED
      BY <3>3, <3>4
  <2>6. QED
    BY <2>1, <2>2, <2>3, <2>4, <2>5, FourKinds
<1>3. QED
  BY <1>1, <1>2 DEF TransportInv

-----------------------------------------------------------------------------
(* What the tab is told.                                                   *)

Over(t) == pc[N(t)] \in Finished \cup {"none"}

\* What is over stays so, until the Qt thread asks for it.
LEMMA OverStays ==
  ASSUME IInv, LifeInv, [Next]_vars, NEW t \in Spawns, Over(t), ~Appointed(t)
  PROVE  Over(t)'
<1>0. N(t) \in Single /\ N(t) \in Task
  BY TaskNames
<1>1. PICK i \in Task : Fate(i) /\ \A k \in Task : k # i => Still(k)
  BY OneFate
<1>2. CASE i # N(t)
  BY <1>0, <1>1, <1>2 DEF Still, Over
<1>3. CASE i = N(t)
  <2>1. ~Asked(i)
    <3>1. ASSUME Asked(i) PROVE Appointed(t)
      <4>1. \E u \in Spawns : N(t) = N(u) /\ Appointed(u)
        BY <1>0, <1>3, <3>1, Births DEF Asked, N, Server, Stopper
      <4>2. QED
        BY <4>1, TaskNames
    <3>2. QED
      BY <3>1
  <2>2. QED
    BY <1>0, <1>1, <1>3, <2>1 DEF Fate, Made, Told, Ran, Waits, Elsewhere, Over
<1>4. QED
  BY <1>2, <1>3

\* A task belongs to the run that asked for it, and no run before this one speaks in
\* its name; of this run's tasks all but the one the plugin holds are over.
TurnInv ==
  /\ runs \in Nat /\ relayBy <= runs /\ (gui \in Starting => relayBy < runs)
  /\ \A t \in Spawns : pc[N(t)] # "none" =>
       /\ runOf[t] <= runs /\ (gui \in Starting => runOf[t] < runs)
       /\ nostrFut # 0 => (t = nostrFut => runOf[t] = runs) /\ (runOf[t] = runs => t = nostrFut \/ Over(t))

LEMMA TurnKept ==
  ASSUME IInv, LifeInv, HeldInv, TurnInv, [Next]_vars
  PROVE  TurnInv'
<1>0. /\ StoppedFirst /\ OwnerTypes /\ RoomKept /\ 0 \notin Spawns
      /\ relayBy \in Nat /\ runs \in Nat /\ \A t \in Spawns : runOf[t] \in Nat /\ t # 0
  BY Bounds DEF IInv, OwnerInv, TypeOK, OwnerTypes, NoteTypes, NostrTypes
<1>1. CASE LoopStep \/ UNCHANGED vars
  <2>1. UNCHANGED <<gui, nostrFut, runs>>
    BY <1>1, LoopFrame DEF LoopStep, IInv, ownerVars, guiVars, vars
  <2>2. runOf' = runOf /\ \A t \in Spawns : pc'[N(t)] # "none" => pc[N(t)] # "none"
    <3>1. CASE OtherStep \/ UNCHANGED vars \/ \E t \in Spawns : ShutdownTransport(t)
      BY <3>1, OtherMoves, ShutdownMoves DEF vars, loopVars, nostrVars
    <3>2. CASE \E t \in Spawns : AnnounceStep(t)
      BY <3>2, AnnouncesAlone, TaskNames DEF Announces, Shut, Open
    <3>3. QED
      BY <1>1, <3>1, <3>2 DEF LoopStep, RunCallback, OtherStep, Calling, AnnounceStep
  <2>3. relayBy' = relayBy \/ \E t \in Spawns : pc[N(t)] # "none" /\ relayBy' = runOf[t]
    <3>1. CASE OtherStep \/ UNCHANGED vars \/ \E t \in Spawns : ShutdownTransport(t)
      BY <3>1, OtherMoves, ShutdownMoves DEF Rests, noteVars, vars
    <3>2. CASE \E t \in Spawns : AnnounceStep(t)
      BY <3>2, AnnouncesAlone DEF Announces, Tells, Shut, Open
    <3>3. QED
      BY <1>1, <3>1, <3>2 DEF LoopStep, RunCallback, OtherStep, Calling, AnnounceStep
  <2>4. \A t \in Spawns : Over(t) /\ pc[N(t)] # "none" => Over(t)'
    BY OverStays DEF Appointed
  <2>5. QED
    BY <1>0, <2>1, <2>2, <2>3, <2>4 DEF TurnInv
<1>2. CASE QtStep
  <2>1. \A t \in Spawns : Appointed(t) \/ (pc'[N(t)] = pc[N(t)] /\ runOf'[t] = runOf[t])
    BY <1>2, QtMoves
  <2>2. CASE StartRecord
    <3>1. runs' = runs + 1 /\ relayBy' = relayBy /\ nostrFut' = nostrFut /\ nostrFut = 0
          /\ gui = "start_record"
      BY <1>0, <2>2 DEF StartRecord, StoppedFirst, noteVars
    <3>2. \A t \in Spawns : ~Appointed(t)
      BY <3>1 DEF Appointed, NostrTaskFailed
    <3>3. QED
      BY <1>0, <2>1, <3>1, <3>2 DEF TurnInv
  <2>3. CASE StartNostr \/ Supervise
    <3>1. /\ UNCHANGED <<runs, relayBy>> /\ gui' = "idle"
          /\ \A t \in Spawns : pc[N(t)] # "none" /\ runOf[t] = runs => Over(t)
      <4>1. CASE StartNostr
        BY <1>0, <4>1 DEF TurnInv, StartNostr, noteVars
      <4>2. CASE Supervise
        BY <1>0, <4>2 DEF TurnInv, Supervise, NostrTaskFailed, Over, N, noteVars, guiVars
      <4>3. QED
        BY <2>3, <4>1, <4>2
    <3>2. \A t \in Spawns : t = nostrFut' => Appointed(t)
      BY <1>0, <1>2, <2>3, QtMoves
         DEF HeldInv, StartNostr, Supervise, SpawnNostr, StoppedFirst, OwnerTypes
    <3>3. \A t \in Spawns : Appointed(t) => t = nostrFut' /\ runOf'[t] = runs
      BY DEF Appointed
    <3>4. \A t \in Spawns : Over(t) /\ pc'[N(t)] = pc[N(t)] => Over(t)'
      BY DEF Over
    <3>5. QED
      BY <1>0, <2>1, <3>1, <3>2, <3>3, <3>4 DEF TurnInv
  <2>4. CASE ~(StartRecord \/ StartNostr \/ Supervise)
    <3>1. /\ nostrFut' \in {0, nostrFut} /\ runs' = runs /\ relayBy' \in {0, relayBy}
          /\ gui' \in Starting => gui \in Starting
      BY <1>0, <1>2, <2>4 DEF QtStep, GuiStep, Toggle, CloseWallet, ThrottleExpires, Save, LoadWallet,
         StopHttp, StopCancel, StopTransport, StopFlags, Unbind, StartReset, StartHttp, guiVars,
         ownerVars, noteVars, IInv, TypeOK, GuiTypes
    <3>2. gui \in Starting => runs # 0
      BY <1>0, Bounds DEF RoomKept
    <3>3. \A t \in Spawns : ~Appointed(t)
      BY <1>0, <3>1 DEF Appointed, HeldInv, OwnerTypes
    <3>4. \A t \in Spawns : Over(t) /\ pc'[N(t)] = pc[N(t)] => Over(t)'
      BY DEF Over
    <3>5. QED
      BY <1>0, <2>1, <3>1, <3>2, <3>3, <3>4 DEF TurnInv
  <2>5. QED
    BY <2>2, <2>3, <2>4
<1>3. QED
  BY <1>1, <1>2, TwoThreads

\* The relay flag says "connected" of some task that is; and once this run's task has
\* said anything, of this run's task.
RelayInv ==
  /\ relay = "yes" => \E t \in Spawns : ConnectedTask(t)
  /\ nostrFut # 0 /\ relayBy = runs =>
       /\ pc[N(nostrFut)] \in Announced => relay = "yes"
       /\ relay = "yes" => ConnectedTask(nostrFut)

\* The steps of an announce task.
LEMMA RelayStep ==
  ASSUME IInv, LifeInv, TurnInv, RelayInv, NEW t \in Spawns, AnnounceStep(t)
  PROVE  RelayInv'
<1>0. /\ UNCHANGED <<nostrFut, runs, runOf>> /\ Tells(t, pc'[N(t)]) /\ t # 0
      /\ pc[N(t)] \in Shut \cup Open
      /\ \A u \in Spawns : u # t => pc'[N(u)] = pc[N(u)]
  BY AnnouncesAlone, TaskNames, Bounds DEF ownerVars, Announces
<1>1. nostrFut = 0 \/ nostrFut \in Spawns
  BY Bounds DEF IInv, TypeOK, OwnerTypes
<1> USE DEF ConnectedTask, Announced, Connection
<1>2. relay' = "yes" => \E u \in Spawns : ConnectedTask(u)'
  BY <1>0 DEF Tells, RelayInv, Shut, Open
<1>3. ASSUME nostrFut' # 0, relayBy' = runs'
      PROVE  /\ pc'[N(nostrFut')] \in Announced => relay' = "yes"
             /\ relay' = "yes" => pc'[N(nostrFut')] \in Connection
  <2>1. nostrFut \in Spawns /\ nostrFut # 0 /\ relayBy' = runs
    BY <1>0, <1>1, <1>3
  <2>2. CASE t = nostrFut
    BY <1>0, <2>1, <2>2 DEF Tells, RelayInv, Shut, Open
  <2>3. CASE t # nostrFut
    <3>1. runOf[t] # runs
      BY <1>0, <2>1, <2>3 DEF TurnInv, Over, Shut, Open
    <3>2. UNCHANGED <<relay, relayBy>>
      BY <1>0, <2>1, <3>1 DEF Tells
    <3>3. QED
      BY <1>0, <2>1, <2>3, <3>2 DEF RelayInv
  <2>4. QED
    BY <2>2, <2>3
<1>4. QED
  BY <1>2, <1>3 DEF RelayInv

LEMMA RelayKept ==
  ASSUME IInv, LifeInv, HeldInv, TurnInv, RelayInv, [Next]_vars
  PROVE  RelayInv'
<1>0. /\ StoppedFirst /\ OwnerTypes /\ NoteTypes /\ 0 \notin Spawns
      /\ (nostrFut = 0 \/ nostrFut \in Spawns)
  BY Bounds DEF IInv, OwnerInv, TypeOK, OwnerTypes
<1> USE DEF ConnectedTask, Announced, Connection
<1>1. CASE \E t \in Spawns : AnnounceStep(t)
  BY <1>1, RelayStep
<1>2. CASE OtherStep \/ UNCHANGED vars \/ \E t \in Spawns : ShutdownTransport(t)
  <2>1. UNCHANGED <<relay, relayBy, nostrFut, runs>>
    BY <1>2, OtherMoves, ShutdownMoves DEF Rests, noteVars, ownerVars, vars
  <2>2. \A t \in Spawns : pc'[N(t)] = pc[N(t)] \/ (pc[N(t)] = "spawned" /\ pc'[N(t)] = "fresh")
    BY <1>2, OtherMoves, ShutdownMoves DEF vars, loopVars
  <2>3. QED
    BY <1>0, <2>1, <2>2 DEF RelayInv
<1>3. CASE QtStep
  <2>1. \A t \in Spawns : Appointed(t) \/ pc'[N(t)] = pc[N(t)]
    BY <1>3, QtMoves
  <2>2. relay' = relay \/ relay' = "none"
    BY <1>3 DEF QtStep, GuiStep, Toggle, CloseWallet, Supervise, ThrottleExpires, Save, LoadWallet,
       StopHttp, StopCancel, StopTransport, StopFlags, Unbind, StartRecord, StartReset, StartHttp,
       StartNostr, noteVars
  <2>3. relay' = "yes" => \E u \in Spawns : ConnectedTask(u)'
    BY <2>1, <2>2 DEF RelayInv, Appointed
  <2>4. ASSUME nostrFut' # 0, relayBy' = runs'
        PROVE  /\ pc'[N(nostrFut')] \in Announced => relay' = "yes"
               /\ relay' = "yes" => pc'[N(nostrFut')] \in Connection
    <3>1. nostrFut' \in Spawns
      BY <2>4, InvariantKept, Bounds DEF IInv, TypeOK, OwnerTypes
    <3>2. CASE StartNostr
      BY <1>0, <2>4, <3>2 DEF StartNostr, TurnInv, NoteTypes, noteVars, OwnerTypes
    <3>3. CASE Supervise
      <4>1. /\ nostrFut # 0 /\ pc[N(nostrFut)] = "failed" /\ nostrFut' = spawns + 1
            /\ UNCHANGED <<relay, relayBy, runs>>
        BY <3>3 DEF Supervise, SpawnNostr, NostrTaskFailed, noteVars, N
      <4>2. nostrFut' # nostrFut
        BY <1>0, <4>1 DEF HeldInv, OwnerTypes
      <4>3. Appointed(nostrFut')
        BY <1>3, <3>1, <4>2, QtMoves
      <4>4. relay # "yes"
        BY <2>4, <4>1 DEF RelayInv
      <4>5. QED
        BY <4>1, <4>3, <4>4 DEF Appointed
    <3>4. CASE ~(StartNostr \/ Supervise)
      <4>1. nostrFut' = nostrFut
        BY <1>3, <2>4, <3>4 DEF QtStep, GuiStep, Toggle, CloseWallet, ThrottleExpires, Save,
           LoadWallet, StopHttp, StopCancel, StopTransport, StopFlags, Unbind, StartRecord,
           StartReset, StartHttp, ownerVars
      <4>2. UNCHANGED <<relay, relayBy, runs>>
        BY <1>0, <1>3, <2>4, <3>4, <4>1 DEF QtStep, GuiStep, Toggle, CloseWallet, ThrottleExpires,
           Save, LoadWallet, StopHttp, StopCancel, StopTransport, StopFlags, Unbind, StartRecord,
           StartReset, StartHttp, ownerVars, noteVars, StoppedFirst
      <4>3. pc'[N(nostrFut)] = pc[N(nostrFut)]
        BY <2>1, <2>4, <3>1, <4>1 DEF Appointed, LifeInv, HolderInv, Announcer
      <4>4. QED
        BY <2>4, <4>1, <4>2, <4>3 DEF RelayInv
    <3>5. QED
      BY <3>2, <3>3, <3>4
  <2>5. QED
    BY <2>3, <2>4 DEF RelayInv
<1>4. QED
  BY <1>1, <1>2, <1>3, FourKinds

\* Through every stop, restart and change of wallet, with the tasks of earlier runs still
\* at work: "connected" and "grinding" outlive no task, no transport is remembered that its
\* task has given up, what this run's task has said of its connection is so until a task of
\* an earlier run speaks, and at rest the listener that is shown does listen, unless its
\* bind failed.
THEOREM ClaimsStand == Spec => []StatusTruthful
<1> DEFINE CInv == BaseInv /\ SockInv /\ TransportInv /\ TurnInv /\ RelayInv
<1>1. Init => CInv
  <2> SUFFICES ASSUME Init PROVE CInv
    OBVIOUS
  <2>1. /\ nostrFut = 0 /\ live = 0 /\ ~grinding /\ gui = "idle" /\ relay = "none"
        /\ relayBy = 0 /\ runs = 0 /\ \A k \in Task : pc[k] = "none"
    BY DEF Init
  <2>2. \A t \in Spawns : ~CloserAsked(t)
    <3>1. queue = <<>>
      BY DEF Init
    <3>2. \A t \in Spawns : Closer(t) \in Task
      BY Tasks DEF Closer
    <3>3. \A x : ~Has(queue, x)
      BY <3>1 DEF Has
    <3>4. QED
      BY <2>1, <3>2, <3>3 DEF CloserAsked
  <2>3. TurnInv
    BY <2>1, TaskNames DEF TurnInv
  <2>4. QED
    BY <2>1, <2>2, <2>3, BaseInit, SockInit DEF TransportInv, RelayInv
<1>2. CInv /\ [Next]_vars => CInv'
  BY BaseKept, SockKept, TransportKept, TurnKept, RelayKept DEF BaseInv
<1>3. CInv => StatusTruthful
  <2> SUFFICES ASSUME CInv PROVE StatusTruthful
    OBVIOUS
  <2>1. ASSUME Quiescent, wallet # NoWallet, httpFut # 0, httpOf[wallet] = httpFut, site[httpFut]
        PROVE  sock[httpFut] \/ pc[<<"http", httpFut>>] = "failed"
    <3>1. PICK n \in Runs : n = httpFut
      BY <2>1, Bounds DEF BaseInv, IInv, TypeOK, OwnerTypes
    <3>2. wallet \in Wallets
      BY <2>1 DEF BaseInv, IInv, TypeOK, OwnerTypes
    <3>3. pc[Server(n)] # "none" /\ pc[Stopper(n)] = "none" /\ ~cancelled[Server(n)]
      BY <2>1, <3>1, <3>2 DEF BaseInv, LifeInv, HolderInv, Listener
    <3>4. pc[Server(n)] # "cancelled"
      BY <3>3, TaskNames DEF BaseInv, LifeInv, TaskInv, Life, OnlyIfTold
    <3>5. pc[Server(n)] \in {"done", "failed"}
      BY <2>1, <3>3, <3>4, TaskNames DEF Quiescent
    <3>6. QED
      BY <3>1, <3>3, <3>5 DEF SockInv, Server
  <2>2. /\ relay = "yes" => \E t \in Spawns : ConnectedTask(t)
        /\ grinding => \E t \in Spawns : pc[N(t)] = "pow"
        /\ live # 0 => pc[N(live)] \in {"connect", "publish", "tick", "closing"}
        /\ nostrFut # 0 /\ relayBy = runs =>
             /\ pc[N(nostrFut)] \in {"publish", "tick"} => relay = "yes"
             /\ relay = "yes" => ConnectedTask(nostrFut)
    BY DEF RelayInv, TransportInv, Open, Announced
  <2>3. QED
    BY <2>1, <2>2 DEF StatusTruthful
<1>4. QED
  BY <1>1, <1>2, <1>3, PTL DEF Spec

-----------------------------------------------------------------------------
(* When the habit need not be asked for.                                   *)

\* An operator with one wallet keeps to it: load_wallet has no other to rebind to.
THEOREM OneWalletKept == (\A v, w \in Wallets : v = w) => (Spec => KeepsWallet)
<1> SUFFICES ASSUME \A v, w \in Wallets : v = w PROVE Spec => KeepsWallet
  OBVIOUS
<1>1. IInv /\ [Next]_vars => [SameWallet]_vars
  <2> SUFFICES ASSUME IInv, [Next]_vars, running PROVE wallet' = wallet
    BY DEF SameWallet
  <2>1. CASE LoopStep \/ UNCHANGED vars
    BY <2>1, LoopFrame DEF LoopStep, IInv, ownerVars, vars
  <2>2. CASE QtStep
    <3>1. wallet \in Wallets /\ gui # "unbind"
      BY DEF IInv, OwnerInv, WalletBound, StoppedFirst
    <3>2. QED
      BY <2>2, <3>1 DEF QtStep, GuiStep, Toggle, CloseWallet, Supervise, ThrottleExpires, Save,
         LoadWallet, StopHttp, StopCancel, StopTransport, StopFlags, Unbind, StartRecord,
         StartReset, StartHttp, StartNostr, ownerVars
  <2>3. QED
    BY <2>1, <2>2, TwoThreads
<1>2. QED
  BY <1>1, Invariance, PTL DEF Spec, KeepsWallet

=============================================================================
