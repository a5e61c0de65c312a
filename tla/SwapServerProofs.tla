-------------------------- MODULE SwapServerProofs --------------------------
(***************************************************************************)
(* Proofs about SwapServer, for every set of wallets and settings and every*)
(* value of the bounds.                                                    *)
(***************************************************************************)
EXTENDS SwapServer, SequenceTheorems, TLAPS

Stopping == {"stop_http", "stop_cancel", "stop_transport", "stop_flags"}
Starting == {"start_reset", "start_http", "start_nostr"}

\* A wallet is bound whenever the Qt thread is inside start_server or
\* stop_server, and whenever the server runs.
WalletBound == gui # "idle" \/ running => wallet \in Wallets

\* start_server is entered with the server stopped and its futures gone, and
\* stop_server ends that way.
StoppedFirst ==
  /\ gui \in Starting \cup {"start_record", "unbind"} => ~running
  /\ gui = "stop_flags" \/ gui = "stop_transport" \/ (~running /\ gui \notin Stopping \cup Starting)
       => httpFut = 0 /\ nostrFut = 0
  /\ gui = "start_reset" \/ gui = "start_http" => httpFut = 0
  /\ gui \in Starting => nostrFut = 0

\* Where the recorder is while start_server and stop_server are under way.
RecorderPlaced ==
  /\ \A w \in Wallets : wrapped[w] <=> recorded = w
  /\ gui \in {"start_record", "unbind"} => recorded = NoWallet
  /\ gui \in Starting => recorded = wallet
  /\ gui = "idle" => (running <=> recorded # NoWallet)

OwnerInv == WalletBound /\ StoppedFirst /\ RecorderPlaced /\ ListenerRecorded

\* The bounds leave room for what the Qt thread is about to start.
RoomKept ==
  /\ gui = "start_record" \/ (gui \in Stopping /\ cont = "start_record") => RoomToStart
  /\ gui \in Starting => runs \in Runs /\ spawns < MaxSpawns

\* A task that has chosen its wallet has one.
KeyTaken ==
  \A t \in Spawns :
    pc[N(t)] \in {"pow", "lockwait", "connect", "publish", "tick"}
      => transportWallet[t] \in Wallets

IInv == TypeOK /\ OwnerInv /\ RoomKept /\ KeyTaken

USE DEF GuiPC, PC, Await, Finished, Stopping, Starting

-----------------------------------------------------------------------------
\* None is not a wallet.
LEMMA NotAWallet == NoWallet \notin Wallets
BY WalletAssumption

\* The bounds are positive numbers.
LEMMA Bounds ==
  /\ MaxRuns \in Nat \ {0} /\ MaxSpawns \in Nat \ {0} /\ MaxFailures \in Nat \ {0}
  /\ Runs = 1 .. MaxRuns /\ Spawns = 1 .. MaxSpawns
BY BoundAssumption DEF Runs, Spawns

\* Init establishes the invariant.
LEMMA InitHolds == Init => IInv
<1> SUFFICES ASSUME Init PROVE IInv
  OBVIOUS
<1> USE DEF Init
<1>1. TypeOK
  <2>1. LoopTypes
    BY EmptySeq DEF LoopTypes
  <2>2. 0 \in 0 .. MaxRuns /\ 0 \in 0 .. MaxSpawns /\ 0 \in 0 .. MaxFailures /\ 0 \in Nat
    BY Bounds
  <2>3. GuiTypes
    BY DEF GuiTypes
  <2>4. OwnerTypes
    BY <2>2 DEF OwnerTypes
  <2>5. NoteTypes
    BY <2>2 DEF NoteTypes
  <2>6. HttpTypes
    BY <2>2 DEF HttpTypes
  <2>7. NostrTypes /\ HistoryTypes
    BY <2>2 DEF NostrTypes, HistoryTypes
  <2>8. QED
    BY <2>1, <2>3, <2>4, <2>5, <2>6, <2>7 DEF TypeOK
<1>2. OwnerInv
  BY NotAWallet DEF OwnerInv, WalletBound, StoppedFirst, RecorderPlaced, ListenerRecorded
<1>3. RoomKept
  BY DEF RoomKept
<1>4. KeyTaken
  <2>1. \A t \in Spawns : N(t) \in Task
    BY DEF N, Task
  <2>2. QED
    BY <2>1 DEF KeyTaken
<1>5. QED
  BY <1>1, <1>2, <1>3, <1>4 DEF IInv

\* What the loop, the takers and the lock leave alone.
LEMMA LoopFrame ==
  ASSUME TypeOK,
         \/ RunCallback \/ \E k \in Task : Complete(k)
         \/ TakerStep \/ \E w \in Lockable : SetLock(w)
  PROVE  UNCHANGED <<guiVars, ownerVars, serverWallet>>
<1>1. CASE \E k \in Task : Create(k) \/ Cancel(k) \/ Complete(k)
  BY <1>1 DEF Create, Cancel, Complete, httpVars
<1>2. CASE \E t \in Spawns : NostrStep(t)
  BY <1>2 DEF NostrStep, PowReady, PowGrind, PowCancelled, PowRaises, PowEnds, LockPoll,
     Connected, NoRelay, Published, Unacknowledged, Tick, CancelledInTransport, Closed,
     CancelledIdle, Retry, ShutdownTransport, nostrFrame, quietFrame, httpVars
<1>3. CASE \E n \in Runs : HttpStep(n)
  BY <1>3 DEF HttpStep, HttpCancelled, HttpSetup, HttpBound, HttpBindFails, HttpStop,
     HttpStopped, httpFrame
<1>4. CASE TakerStep
  BY <1>4 DEF TakerStep, HttpRequest, HttpCreateSwap, NostrCreateSwap, swapFrame
<1>5. CASE \E w \in Lockable : SetLock(w)
  BY <1>5 DEF SetLock, httpVars
<1>6. QED
  BY <1>1, <1>2, <1>3, <1>4, <1>5 DEF RunCallback

\* A step of the Qt thread or of its timer keeps the ownership invariant and
\* the room for what it is about to start.
LEMMA OwnerStep ==
  ASSUME IInv, Next
  PROVE  OwnerInv' /\ RoomKept'
<1> USE NotAWallet, Bounds
    DEF IInv, OwnerInv, WalletBound, StoppedFirst, RecorderPlaced, ListenerRecorded,
        RoomKept, RoomToStart
<1> USE DEF TypeOK, GuiTypes, OwnerTypes, HttpTypes
<1>1. CASE Toggle
  BY <1>1 DEF Toggle, ownerVars, httpVars, guiVars
<1>2. CASE CloseWallet
  BY <1>2 DEF CloseWallet, ownerVars, httpVars, guiVars
<1>3. CASE \E c \in Configs : Save(c)
  BY <1>3 DEF Save, ownerVars, httpVars, guiVars
<1>4. CASE \E w \in Wallets : LoadWallet(w)
  BY <1>4 DEF LoadWallet, ownerVars, httpVars, guiVars
<1>5. CASE Supervise
  BY <1>5 DEF Supervise, NostrTaskFailed, SpawnNostr, ownerVars, httpVars, guiVars
<1>6. CASE ThrottleExpires
  BY <1>6 DEF ThrottleExpires, ownerVars, httpVars, guiVars
<1>7. CASE StopHttp
  BY <1>7 DEF StopHttp, ownerVars, httpVars, guiVars
<1>8. CASE StopCancel
  BY <1>8 DEF StopCancel, ownerVars, httpVars, guiVars
<1>9. CASE StopTransport
  BY <1>9 DEF StopTransport, ownerVars, httpVars, guiVars
<1>10. CASE StopFlags
  BY <1>10 DEF StopFlags, RemoveRecorder, ownerVars, httpVars, guiVars
<1>11. CASE Unbind
  BY <1>11 DEF Unbind, RemoveRecorder, ownerVars, httpVars, guiVars
<1>12. CASE StartRecord
  BY <1>12 DEF StartRecord, ownerVars, httpVars, guiVars
<1>13. CASE StartReset
  BY <1>13 DEF StartReset, ownerVars, httpVars, guiVars
<1>14. CASE StartHttp
  BY <1>14 DEF StartHttp, Spawn, ownerVars, httpVars, guiVars
<1>15. CASE StartNostr
  BY <1>15 DEF StartNostr, SpawnNostr, Spawn, ownerVars, httpVars, guiVars
<1>16. CASE \/ RunCallback \/ \E k \in Task : Complete(k)
           \/ TakerStep \/ \E w \in Lockable : SetLock(w)
  BY <1>16, LoopFrame DEF guiVars, ownerVars
<1>17. QED
  BY <1>1, <1>2, <1>3, <1>4, <1>5, <1>6, <1>7, <1>8, <1>9, <1>10, <1>11, <1>12, <1>13, <1>14, <1>15, <1>16 DEF Next, GuiStep, UserStep

-----------------------------------------------------------------------------
(* Type correctness.  The queue is touched in three ways only.             *)

Calls == {"create", "cancel", "step"} \X Task

\* Every announce task and HTTP server has its tasks.
LEMMA Tasks ==
  /\ \A t \in Spawns : N(t) \in Task /\ <<"nostr-stop", t>> \in Task
  /\ \A n \in Runs : <<"http", n>> \in Task /\ <<"http-stop", n>> \in Task
BY DEF Task, N

\* Taking the head of the queue leaves a queue.
LEMMA QueuePop ==
  ASSUME queue \in Seq(Calls), queue # <<>>
  PROVE  Tail(queue) \in Seq(Calls)
BY HeadTailProperties

\* Appending callbacks to the queue leaves a queue.
LEMMA QueueAppend ==
  ASSUME NEW q \in Seq(Calls), NEW op \in {"create", "cancel", "step"}, NEW k \in Task
  PROVE  Append(q, <<op, k>>) \in Seq(Calls)
BY AppendProperties DEF Calls

\* Asking the loop for a task.
LEMMA SpawnTypes ==
  ASSUME LoopTypes, NEW k \in Task, Spawn(k), UNCHANGED <<mustCancel, cancelled>>
  PROVE  LoopTypes'
<1>1. queue' \in Seq(Calls)
  BY QueueAppend DEF LoopTypes, Spawn, Calls
<1>2. pc' \in [Task -> PC]
  BY DEF LoopTypes, Spawn
<1>3. QED
  BY <1>1, <1>2 DEF LoopTypes, Calls

\* One step of a task.
LEMMA StepTypes ==
  ASSUME LoopTypes, NEW k \in Task, NEW from, NEW p \in PC, Step(k, from), Goto(k, p),
         UNCHANGED cancelled
  PROVE  LoopTypes'
<1>1. queue' \in Seq(Calls)
  BY QueuePop DEF LoopTypes, Step, Calls
<1>2. pc' \in [Task -> PC] /\ mustCancel' \in [Task -> BOOLEAN]
  BY DEF LoopTypes, Goto, Step
<1>3. QED
  BY <1>1, <1>2 DEF LoopTypes, Calls

\* The loop's own callbacks.
LEMMA CallbackTypes ==
  ASSUME LoopTypes, NEW k \in Task, Create(k) \/ Cancel(k) \/ Complete(k)
  PROVE  LoopTypes'
<1>1. queue' \in Seq(Calls)
  <2>1. CASE Create(k)
    <3>1. Append(Tail(queue), <<"step", k>>) \in Seq(Calls)
      BY <2>1, QueuePop, QueueAppend DEF Create, LoopTypes, Calls
    <3>2. Append(Append(Tail(queue), <<"step", k>>), <<"cancel", k>>) \in Seq(Calls)
      BY <3>1, QueueAppend
    <3>3. <<"cancel", k>> \in Calls
      BY DEF Calls
    <3>4. <<<<"cancel", k>>>> \in Seq(Calls) /\ <<>> \in Seq(Calls)
      BY <3>3
    <3>5. QED
      BY <2>1, <3>1, <3>4, ConcatProperties DEF Create
  <2>2. CASE Cancel(k) \/ Complete(k)
    BY <2>2, QueuePop, QueueAppend DEF Cancel, Complete, LoopTypes, Calls
  <2>3. QED
    BY <2>1, <2>2
<1>2. pc' \in [Task -> PC] /\ mustCancel' \in [Task -> BOOLEAN] /\ cancelled' = cancelled
  BY DEF LoopTypes, Create, Cancel, Complete
<1>3. QED
  BY <1>1, <1>2 DEF LoopTypes, Calls

\* A task that moves keeps the keys of the others.
LEMMA KeyKept ==
  ASSUME LoopTypes, KeyTaken, NEW t \in Spawns, NEW p \in PC, Goto(N(t), p),
         \A u \in Spawns \ {t} : transportWallet'[u] = transportWallet[u],
         p \in {"pow", "lockwait", "connect", "publish", "tick"}
           => transportWallet'[t] \in Wallets
  PROVE  KeyTaken'
<1>1. \A u \in Spawns : N(u) \in Task /\ (N(u) = N(t) => u = t)
  BY Tasks DEF N
<1>2. \A u \in Spawns : pc'[N(u)] = IF u = t THEN p ELSE pc[N(u)]
  BY <1>1 DEF Goto, LoopTypes
<1>3. QED
  BY <1>2 DEF KeyTaken

\* Building a transport, or failing to.
LEMMA BuildTypes ==
  ASSUME TypeOK, NEW t \in Spawns, Build(t)
  PROVE  /\ \E p \in PC : Goto(N(t), p)
         /\ up' \in [Spawns -> BOOLEAN] /\ live' \in 0 .. MaxSpawns
         /\ relay' \in {"none", "yes", "no"} /\ relayBy' \in 0 .. MaxRuns
<1> USE Bounds DEF TypeOK, NoteTypes, NostrTypes
<1>1. CASE /\ Goto(N(t), "connect") /\ up' = [up EXCEPT ![t] = TRUE] /\ live' = t
           /\ UNCHANGED <<relay, relayBy>>
  <2>1. up' \in [Spawns -> BOOLEAN]
    BY <1>1
  <2>2. live' \in 0 .. MaxSpawns
    BY <1>1
  <2>3. QED
    BY <1>1, <2>1, <2>2
<1>2. CASE Goto(N(t), "backoff") /\ live' = 0 /\ SetRelay(t, "no") /\ UNCHANGED up
  BY <1>2 DEF SetRelay
<1>3. QED
  BY <1>1, <1>2 DEF Build

\* Where a task goes when it is about to serve, and what it has then taken.
LEMMA ServeTypes ==
  ASSUME TypeOK, KeyTaken, NEW t \in Spawns, ServeOneTransport(t)
  PROVE  /\ \E p \in PC : Goto(N(t), p)
         /\ transportWallet' \in [Spawns -> Wallets \cup {NoWallet}]
         /\ up' \in [Spawns -> BOOLEAN] /\ live' \in 0 .. MaxSpawns
         /\ relay' \in {"none", "yes", "no"} /\ relayBy' \in 0 .. MaxRuns
         /\ KeyTaken'
<1> USE Bounds DEF TypeOK, ServeOneTransport
<1>1. CASE wallet = NoWallet
  <2>1. Goto(N(t), "backoff") /\ UNCHANGED <<transportWallet, up, live, relay, relayBy>>
    BY <1>1
  <2>2. KeyTaken'
    BY <2>1, KeyKept
  <2>3. QED
    BY <2>1, <2>2 DEF NoteTypes, NostrTypes
<1>2. CASE wallet # NoWallet
  <2>1. transportWallet' = [transportWallet EXCEPT ![t] = wallet] /\ wallet \in Wallets
    BY <1>2 DEF OwnerTypes
  <2>2. /\ transportWallet' \in [Spawns -> Wallets \cup {NoWallet}]
        /\ transportWallet'[t] \in Wallets
        /\ \A u \in Spawns \ {t} : transportWallet'[u] = transportWallet[u]
    BY <2>1 DEF NostrTypes
  <2>3. \/ Goto(N(t), "lockwait") /\ UNCHANGED <<up, live, relay, relayBy>>
        \/ Build(t)
    BY <1>2
  <2>4. Build(t) =>
          /\ \E p \in PC : Goto(N(t), p)
          /\ up' \in [Spawns -> BOOLEAN] /\ live' \in 0 .. MaxSpawns
          /\ relay' \in {"none", "yes", "no"} /\ relayBy' \in 0 .. MaxRuns
    BY BuildTypes
  <2>5. \E p \in PC : Goto(N(t), p)
    BY <2>3, <2>4
  <2>6. KeyTaken'
    BY <2>2, <2>5, KeyKept
  <2>7. QED
    BY <2>2, <2>3, <2>4, <2>5, <2>6 DEF NoteTypes, NostrTypes
<1>3. QED
  BY <1>1, <1>2

\* An offer is sent for a wallet.
LEMMA SendTypes ==
  ASSUME TypeOK, KeyTaken, NEW t \in Spawns, Send(t), pc[N(t)] \in {"connect", "tick"}
  PROVE  weakOffer' \subseteq Wallets
<1>1. transportWallet[t] \in Wallets
  BY DEF KeyTaken
<1>2. QED
  BY <1>1 DEF Send, TypeOK, HistoryTypes

\* A step of an announce task keeps the types of all it writes, and its wallet.
LEMMA NostrStepTypes ==
  ASSUME IInv, NEW t \in Spawns, NostrStep(t)
  PROVE  TypeOK' /\ KeyTaken'
<1> DEFINE Noted == NoteTypes' /\ NostrTypes' /\ HistoryTypes'
           Moved == \E k \in Task, p \in PC, from \in PC : Step(k, from) /\ Goto(k, p)
<1>0. TypeOK /\ KeyTaken
  BY DEF IInv
<1> USE <1>0, Bounds, Tasks
<1>1. ASSUME PowReady(t)
      PROVE  Noted /\ Moved /\ KeyTaken'
  <2>1. Noted
    BY <1>1, ServeTypes DEF PowReady, nostrFrame, quietFrame, powVars, noteVars, TypeOK, OwnerTypes,
       NoteTypes, NostrTypes, HistoryTypes, KeyTaken, Goto
  <2>2. Moved
    BY <1>1, ServeTypes DEF PowReady, Step, Goto
  <2>3. KeyTaken'
    BY <1>1, ServeTypes DEF PowReady, nostrFrame, quietFrame, powVars, noteVars, TypeOK,
       LoopTypes, NostrTypes, KeyTaken, Step, Goto, N
  <2>4. QED
    BY <2>1, <2>2, <2>3
<1>2. ASSUME PowGrind(t)
      PROVE  Noted /\ Moved /\ KeyTaken'
  <2>1. Noted
    BY <1>2 DEF PowGrind, nostrFrame, quietFrame, powVars, noteVars, TypeOK, OwnerTypes,
       NoteTypes, NostrTypes, HistoryTypes, KeyTaken, Goto
  <2>2. Moved
    BY <1>2 DEF PowGrind, Step, Goto
  <2>3. KeyTaken'
    BY <1>2, KeyKept DEF PowGrind, TypeOK, OwnerTypes, NostrTypes
  <2>4. QED
    BY <2>1, <2>2, <2>3
<1>3. ASSUME PowCancelled(t)
      PROVE  Noted /\ Moved /\ KeyTaken'
  <2>1. Noted
    BY <1>3 DEF PowCancelled, CancelledAt, nostrFrame, quietFrame, powVars, noteVars, TypeOK, OwnerTypes,
       NoteTypes, NostrTypes, HistoryTypes, KeyTaken, Goto
  <2>2. Moved
    BY <1>3 DEF PowCancelled, CancelledAt, Step, Goto
  <2>3. KeyTaken'
    BY <1>3 DEF PowCancelled, CancelledAt, nostrFrame, quietFrame, powVars, noteVars, TypeOK,
       LoopTypes, NostrTypes, KeyTaken, Step, Goto, N
  <2>4. QED
    BY <2>1, <2>2, <2>3
<1>4. ASSUME PowRaises(t)
      PROVE  Noted /\ Moved /\ KeyTaken'
  <2>1. Noted
    BY <1>4 DEF PowRaises, nostrFrame, quietFrame, powVars, noteVars, TypeOK, OwnerTypes,
       NoteTypes, NostrTypes, HistoryTypes, KeyTaken, Goto
  <2>2. Moved
    BY <1>4 DEF PowRaises, Step, Goto
  <2>3. KeyTaken'
    BY <1>4 DEF PowRaises, nostrFrame, quietFrame, powVars, noteVars, TypeOK,
       LoopTypes, NostrTypes, KeyTaken, Step, Goto, N
  <2>4. QED
    BY <2>1, <2>2, <2>3
<1>5. ASSUME \E found \in BOOLEAN : PowEnds(t, found)
      PROVE  Noted /\ Moved /\ KeyTaken'
  <2>1. Noted
    <3>1. PICK found \in BOOLEAN : PowEnds(t, found)
      BY <1>5
    <3>2. transportWallet[t] \in Wallets
      BY <3>1 DEF PowEnds, Step, KeyTaken
    <3>3. nonceFor' \in Wallets \cup {NoWallet} /\ gaveUp' \subseteq Wallets
      BY <3>1, <3>2 DEF PowEnds, TypeOK, NoteTypes, HistoryTypes
    <3>4. UNCHANGED <<runOf, locked, missed, clashed, serving, dying, lastSuccess,
                      failures, weakOffer>> /\ grinding' = FALSE
      BY <3>1 DEF PowEnds, nostrFrame
    <3>5. QED
      BY <3>1, <3>3, <3>4, ServeTypes
         DEF PowEnds, TypeOK, NoteTypes, NostrTypes, HistoryTypes
  <2>2. Moved
    BY <1>5, ServeTypes DEF PowEnds, Step, Goto
  <2>3. KeyTaken'
    BY <1>5, ServeTypes DEF PowEnds, nostrFrame, quietFrame, powVars, noteVars, TypeOK,
       LoopTypes, NostrTypes, KeyTaken, Step, Goto, N
  <2>4. QED
    BY <2>1, <2>2, <2>3
<1>6. ASSUME LockPoll(t)
      PROVE  Noted /\ Moved /\ KeyTaken'
  <2>1. Noted
    BY <1>6, BuildTypes DEF LockPoll, nostrFrame, powVars, TypeOK, NoteTypes, NostrTypes,
       HistoryTypes
  <2>2. Moved
    BY <1>6 DEF LockPoll, Build, SetRelay, Step, Goto
  <2>3. KeyTaken'
    BY <1>6 DEF LockPoll, Build, SetRelay, nostrFrame, quietFrame, powVars, noteVars, TypeOK,
       LoopTypes, NostrTypes, KeyTaken, Step, Goto, N
  <2>4. QED
    BY <2>1, <2>2, <2>3
<1>7. ASSUME Connected(t)
      PROVE  Noted /\ Moved /\ KeyTaken'
  <2>1. Noted
    <3>1. transportWallet[t] \in Wallets /\ pc[N(t)] = "connect"
      BY <1>7 DEF Connected, Step, KeyTaken
    <3>2. serving' \in [Spawns -> BOOLEAN]
      BY <1>7, <3>1 DEF Connected, TypeOK, OwnerTypes, NostrTypes
    <3>3. weakOffer' \subseteq Wallets
      BY <1>7, <3>1, SendTypes DEF Connected, TypeOK, HistoryTypes
    <3>4. QED
      BY <1>7, <3>2, <3>3 DEF Connected, SetRelay, nostrFrame, quietFrame, powVars,
         TypeOK, NoteTypes, NostrTypes, HistoryTypes
  <2>2. Moved
    BY <1>7 DEF Connected, Send, SetRelay, Step, Goto
  <2>3. KeyTaken'
    BY <1>7 DEF Connected, Send, SetRelay, nostrFrame, quietFrame, powVars, noteVars, TypeOK,
       LoopTypes, NostrTypes, KeyTaken, Step, Goto, N
  <2>4. QED
    BY <2>1, <2>2, <2>3
<1>8. ASSUME NoRelay(t)
      PROVE  Noted /\ Moved /\ KeyTaken'
  <2>1. Noted
    BY <1>8 DEF NoRelay, SetRelay, nostrFrame, quietFrame, powVars, noteVars, TypeOK, OwnerTypes,
       NoteTypes, NostrTypes, HistoryTypes, KeyTaken, Goto
  <2>2. Moved
    BY <1>8 DEF NoRelay, SetRelay, Step, Goto
  <2>3. KeyTaken'
    BY <1>8 DEF NoRelay, SetRelay, nostrFrame, quietFrame, powVars, noteVars, TypeOK,
       LoopTypes, NostrTypes, KeyTaken, Step, Goto, N
  <2>4. QED
    BY <2>1, <2>2, <2>3
<1>9. ASSUME Published(t)
      PROVE  Noted /\ Moved /\ KeyTaken'
  <2>1. Noted
    BY <1>9 DEF Published, nostrFrame, quietFrame, powVars, noteVars, TypeOK, OwnerTypes,
       NoteTypes, NostrTypes, HistoryTypes, KeyTaken, Goto
  <2>2. Moved
    BY <1>9 DEF Published, Step, Goto
  <2>3. KeyTaken'
    BY <1>9 DEF Published, nostrFrame, quietFrame, powVars, noteVars, TypeOK,
       LoopTypes, NostrTypes, KeyTaken, Step, Goto, N
  <2>4. QED
    BY <2>1, <2>2, <2>3
<1>10. ASSUME Unacknowledged(t)
      PROVE  Noted /\ Moved /\ KeyTaken'
  <2>1. Noted
    BY <1>10 DEF Unacknowledged, nostrFrame, quietFrame, powVars, noteVars, TypeOK, OwnerTypes,
       NoteTypes, NostrTypes, HistoryTypes, KeyTaken, Goto
  <2>2. Moved
    BY <1>10 DEF Unacknowledged, Step, Goto
  <2>3. KeyTaken'
    BY <1>10 DEF Unacknowledged, nostrFrame, quietFrame, powVars, noteVars, TypeOK,
       LoopTypes, NostrTypes, KeyTaken, Step, Goto, N
  <2>4. QED
    BY <2>1, <2>2, <2>3
<1>11. ASSUME Tick(t)
      PROVE  Noted /\ Moved /\ KeyTaken'
  <2>1. Noted
    <3>1. weakOffer' \subseteq Wallets
      BY <1>11, SendTypes DEF Tick, Step, TypeOK, HistoryTypes
    <3>2. QED
      BY <1>11, <3>1 DEF Tick, nostrFrame, quietFrame, powVars, noteVars,
         TypeOK, NoteTypes, NostrTypes, HistoryTypes
  <2>2. Moved
    BY <1>11 DEF Tick, Send, Step, Goto
  <2>3. KeyTaken'
    BY <1>11 DEF Tick, Send, nostrFrame, quietFrame, powVars, noteVars, TypeOK,
       LoopTypes, NostrTypes, KeyTaken, Step, Goto, N
  <2>4. QED
    BY <2>1, <2>2, <2>3
<1>12. ASSUME CancelledInTransport(t)
      PROVE  Noted /\ Moved /\ KeyTaken'
  <2>1. Noted
    BY <1>12 DEF CancelledInTransport, nostrFrame, quietFrame, powVars, noteVars, TypeOK, OwnerTypes,
       NoteTypes, NostrTypes, HistoryTypes, KeyTaken, Goto
  <2>2. Moved
    BY <1>12 DEF CancelledInTransport, Step, Goto
  <2>3. KeyTaken'
    BY <1>12 DEF CancelledInTransport, nostrFrame, quietFrame, powVars, noteVars, TypeOK,
       LoopTypes, NostrTypes, KeyTaken, Step, Goto, N
  <2>4. QED
    BY <2>1, <2>2, <2>3
<1>13. ASSUME Closed(t)
      PROVE  Noted /\ Moved /\ KeyTaken'
  <2>1. Noted
    <3>1. up' \in [Spawns -> BOOLEAN] /\ serving' \in [Spawns -> BOOLEAN]
      BY <1>13 DEF Closed, Torn, TypeOK, NostrTypes
    <3>2. live' \in 0 .. MaxSpawns /\ relay' = "no" /\ relayBy' \in 0 .. MaxRuns
      BY <1>13 DEF Closed, SetRelay, TypeOK, NostrTypes
    <3>3. QED
      BY <1>13, <3>1, <3>2 DEF Closed, nostrFrame, quietFrame, powVars,
         TypeOK, NoteTypes, NostrTypes, HistoryTypes
  <2>2. Moved
    BY <1>13 DEF Closed, SetRelay, Step, Goto
  <2>3. KeyTaken'
    BY <1>13 DEF Closed, SetRelay, nostrFrame, quietFrame, powVars, noteVars, TypeOK,
       LoopTypes, NostrTypes, KeyTaken, Step, Goto, N
  <2>4. QED
    BY <2>1, <2>2, <2>3
<1>14. ASSUME CancelledIdle(t)
      PROVE  Noted /\ Moved /\ KeyTaken'
  <2>1. Noted
    BY <1>14 DEF CancelledIdle, CancelledAt, nostrFrame, quietFrame, powVars, noteVars, TypeOK, OwnerTypes,
       NoteTypes, NostrTypes, HistoryTypes, KeyTaken, Goto
  <2>2. Moved
    BY <1>14 DEF CancelledIdle, CancelledAt, Step, Goto
  <2>3. KeyTaken'
    BY <1>14 DEF CancelledIdle, CancelledAt, nostrFrame, quietFrame, powVars, noteVars, TypeOK,
       LoopTypes, NostrTypes, KeyTaken, Step, Goto, N
  <2>4. QED
    BY <2>1, <2>2, <2>3
<1>15. ASSUME Retry(t)
      PROVE  Noted /\ Moved /\ KeyTaken'
  <2>1. Noted
    BY <1>15, ServeTypes DEF Retry, nostrFrame, quietFrame, powVars, noteVars, TypeOK, OwnerTypes,
       NoteTypes, NostrTypes, HistoryTypes, KeyTaken, Goto
  <2>2. Moved
    BY <1>15, ServeTypes DEF Retry, Step, Goto
  <2>3. KeyTaken'
    BY <1>15, ServeTypes DEF Retry, nostrFrame, quietFrame, powVars, noteVars, TypeOK,
       LoopTypes, NostrTypes, KeyTaken, Step, Goto, N
  <2>4. QED
    BY <2>1, <2>2, <2>3
<1>16. ASSUME ShutdownTransport(t)
      PROVE  Noted /\ Moved /\ KeyTaken'
  <2>1. Noted
    BY <1>16 DEF ShutdownTransport, nostrFrame, quietFrame, powVars, noteVars, TypeOK, OwnerTypes,
       NoteTypes, NostrTypes, HistoryTypes, KeyTaken, Goto
  <2>2. Moved
    BY <1>16 DEF ShutdownTransport, Step, Goto
  <2>3. KeyTaken'
    BY <1>16 DEF ShutdownTransport, nostrFrame, quietFrame, powVars, noteVars, TypeOK,
       LoopTypes, NostrTypes, KeyTaken, Step, Goto, N
  <2>4. QED
    BY <2>1, <2>2, <2>3
<1>17. Noted /\ Moved /\ KeyTaken'
  BY <1>1, <1>2, <1>3, <1>4, <1>5, <1>6, <1>7, <1>8, <1>9, <1>10, <1>11, <1>12, <1>13, <1>14, <1>15, <1>16 DEF NostrStep
<1>18. cancelled' = cancelled /\ UNCHANGED <<guiVars, ownerVars, httpVars>>
  BY DEF NostrStep, PowReady, PowGrind, PowCancelled, PowRaises, PowEnds, LockPoll,
     Connected, NoRelay, Published, Unacknowledged, Tick, CancelledInTransport, Closed,
     CancelledIdle, Retry, ShutdownTransport, nostrFrame, quietFrame
<1>19. LoopTypes'
  BY <1>17, <1>18, StepTypes DEF TypeOK
<1>20. GuiTypes' /\ OwnerTypes' /\ HttpTypes'
  BY <1>18 DEF TypeOK, GuiTypes, OwnerTypes, HttpTypes, guiVars, ownerVars, httpVars
<1>21. QED
  BY <1>17, <1>19, <1>20 DEF TypeOK

\* A step of an HTTP server touches no announce task.
LEMMA HttpStepTypes ==
  ASSUME IInv, NEW n \in Runs, HttpStep(n)
  PROVE  TypeOK' /\ KeyTaken'
<1> USE Bounds, Tasks
<1> DEFINE Served == runner' \in [Runs -> BOOLEAN] /\ site' \in [Runs -> BOOLEAN]
                     /\ sock' \in [Runs -> BOOLEAN] /\ inflight' \in [Runs -> BOOLEAN]
                     /\ clashed' \in BOOLEAN
           Moved == \E k \in {<<"http", n>>, <<"http-stop", n>>}, p \in PC, from \in PC :
                      Step(k, from) /\ Goto(k, p)
<1>0. TypeOK /\ KeyTaken
  BY DEF IInv
<1>1. Served
  <2>1. runner' \in [Runs -> BOOLEAN] /\ site' \in [Runs -> BOOLEAN]
    BY <1>0 DEF HttpStep, HttpCancelled, HttpSetup, HttpBound, HttpBindFails, HttpStop,
       HttpStopped, TypeOK, HttpTypes
  <2>2. sock' \in [Runs -> BOOLEAN] /\ inflight' \in [Runs -> BOOLEAN]
    BY <1>0 DEF HttpStep, HttpCancelled, HttpSetup, HttpBound, HttpBindFails, HttpStop,
       HttpStopped, TypeOK, HttpTypes
  <2>3. clashed' \in BOOLEAN
    BY <1>0 DEF HttpStep, HttpCancelled, HttpSetup, HttpBound, HttpBindFails, HttpStop,
       HttpStopped, TypeOK, HistoryTypes
  <2>4. QED
    BY <2>1, <2>2, <2>3
<1>2. Moved
  BY DEF HttpStep, HttpCancelled, HttpSetup, HttpBound, HttpBindFails, HttpStop,
     HttpStopped, CancelledAt, Step, Goto
<1>3. UNCHANGED httpFrame
  BY DEF HttpStep, HttpCancelled, HttpSetup, HttpBound, HttpBindFails, HttpStop,
     HttpStopped
<1>4. LoopTypes'
  BY <1>0, <1>2, <1>3, StepTypes DEF TypeOK, httpFrame
<1>5. KeyTaken'
  <2>1. \A t \in Spawns : pc'[N(t)] = pc[N(t)]
    <3>1. PICK k \in {<<"http", n>>, <<"http-stop", n>>}, p \in PC : Goto(k, p)
      BY <1>2
    <3>2. \A t \in Spawns : N(t) # k
      BY <3>1 DEF N
    <3>3. QED
      BY <1>0, <3>1, <3>2, Tasks DEF TypeOK, LoopTypes, Goto
  <2>2. QED
    BY <1>0, <1>3, <2>1 DEF KeyTaken, httpFrame, nostrVars
<1>6. GuiTypes' /\ OwnerTypes' /\ NoteTypes' /\ NostrTypes'
  BY <1>0, <1>3 DEF TypeOK, GuiTypes, OwnerTypes, NoteTypes, NostrTypes, httpFrame,
     guiVars, ownerVars, noteVars, powVars, nostrVars
<1>7. HttpTypes' /\ HistoryTypes'
  BY <1>0, <1>1, <1>3 DEF TypeOK, HttpTypes, HistoryTypes, httpFrame
<1>8. QED
  BY <1>4, <1>5, <1>6, <1>7 DEF TypeOK

\* A callback of the loop, a taker's request and the lock.
LEMMA OutsideStepTypes ==
  ASSUME IInv,
         \/ \E k \in Task : Create(k) \/ Cancel(k) \/ Complete(k)
         \/ TakerStep \/ \E w \in Lockable : SetLock(w)
  PROVE  TypeOK' /\ KeyTaken'
<1>0. TypeOK /\ KeyTaken
  BY DEF IInv
<1>1. CASE \E k \in Task : Create(k) \/ Cancel(k) \/ Complete(k)
  <2>1. PICK k \in Task : Create(k) \/ Cancel(k) \/ Complete(k)
    BY <1>1
  <2>2. LoopTypes'
    BY <1>0, <2>1, CallbackTypes DEF TypeOK
  <2>3. UNCHANGED <<guiVars, ownerVars, live, noteVars, powVars, httpVars, nostrVars,
                    locked, history>>
    BY <2>1 DEF Create, Cancel, Complete
  <2>4. GuiTypes' /\ OwnerTypes' /\ NoteTypes'
    BY <1>0, <2>3 DEF TypeOK, GuiTypes, OwnerTypes, NoteTypes, guiVars, ownerVars,
       noteVars, powVars
  <2>5. HttpTypes' /\ NostrTypes' /\ HistoryTypes'
    BY <1>0, <2>3 DEF TypeOK, HttpTypes, NostrTypes, HistoryTypes, httpVars, nostrVars,
       history
  <2>6. \A t \in Spawns : pc'[N(t)] \in {pc[N(t)], "fresh"}
    BY <1>0, <2>1, Tasks DEF Create, Cancel, Complete, TypeOK, LoopTypes
  <2>7. KeyTaken'
    BY <1>0, <2>3, <2>6 DEF KeyTaken, nostrVars
  <2>8. QED
    BY <2>2, <2>4, <2>5, <2>7 DEF TypeOK
<1>2. CASE TakerStep
  <2>1. inflight' \in [Runs -> BOOLEAN] /\ missed' \subseteq {"current", "leftover"}
    BY <1>0, <1>2 DEF TakerStep, HttpRequest, HttpCreateSwap, NostrCreateSwap, CreateSwap,
       swapFrame, TypeOK, HttpTypes, HistoryTypes
  <2>2. UNCHANGED swapFrame
    BY <1>2 DEF TakerStep, HttpRequest, HttpCreateSwap, NostrCreateSwap
  <2>3. GuiTypes' /\ OwnerTypes' /\ NoteTypes' /\ LoopTypes'
    BY <1>0, <2>2 DEF TypeOK, GuiTypes, OwnerTypes, NoteTypes, LoopTypes, guiVars,
       ownerVars, noteVars, powVars, loopVars, swapFrame
  <2>4. HttpTypes' /\ NostrTypes' /\ HistoryTypes'
    BY <1>0, <2>1, <2>2 DEF TypeOK, HttpTypes, NostrTypes, HistoryTypes, nostrVars, swapFrame
  <2>5. KeyTaken'
    BY <1>0, <2>2 DEF KeyTaken, swapFrame, loopVars, nostrVars
  <2>6. QED
    BY <2>3, <2>4, <2>5 DEF TypeOK
<1>3. CASE \E w \in Lockable : SetLock(w)
  <2>1. PICK w \in Wallets : SetLock(w)
    BY <1>3, LockAssumption
  <2>2. locked' \in [Wallets -> BOOLEAN]
    BY <1>0, <2>1 DEF SetLock, TypeOK, HistoryTypes
  <2>3. UNCHANGED <<guiVars, ownerVars, live, noteVars, powVars, loopVars, httpVars,
                    nostrVars, history>>
    BY <2>1 DEF SetLock
  <2>4. GuiTypes' /\ OwnerTypes' /\ NoteTypes' /\ LoopTypes'
    BY <1>0, <2>3 DEF TypeOK, GuiTypes, OwnerTypes, NoteTypes, LoopTypes, guiVars,
       ownerVars, noteVars, powVars, loopVars
  <2>5. HttpTypes' /\ NostrTypes' /\ HistoryTypes'
    BY <1>0, <2>2, <2>3 DEF TypeOK, HttpTypes, NostrTypes, HistoryTypes, httpVars,
       nostrVars, history
  <2>6. KeyTaken'
    BY <1>0, <2>3 DEF KeyTaken, loopVars, nostrVars
  <2>7. QED
    BY <2>4, <2>5, <2>6 DEF TypeOK
<1>4. QED
  BY <1>1, <1>2, <1>3

\* The Qt thread's own steps.
LEMMA GuiStepTypes ==
  ASSUME IInv, GuiStep \/ Toggle \/ CloseWallet \/ Supervise \/ ThrottleExpires
               \/ (\E c \in Configs : Save(c)) \/ (\E w \in Wallets : LoadWallet(w))
  PROVE  TypeOK' /\ KeyTaken'
<1> DEFINE Rest == NoteTypes' /\ HttpTypes' /\ NostrTypes' /\ HistoryTypes'
                   /\ UNCHANGED transportWallet
           Asked == \/ UNCHANGED loopVars
                    \/ UNCHANGED <<mustCancel, cancelled>> /\ \E k \in Task : Spawn(k)
                    \/ LoopTypes' /\ UNCHANGED pc
<1>0. TypeOK /\ KeyTaken /\ RoomKept /\ WalletBound
  BY DEF IInv, OwnerInv
<1>a. /\ GuiTypes /\ OwnerTypes /\ NoteTypes /\ LoopTypes /\ HttpTypes /\ NostrTypes
       /\ HistoryTypes
  BY <1>0 DEF TypeOK
<1> USE Bounds, NotAWallet
<1>1. ASSUME Toggle
      PROVE  GuiTypes' /\ OwnerTypes' /\ Rest /\ Asked
  <2>1. GuiTypes'
    BY <1>1, <1>a DEF Toggle, GuiTypes, guiVars
  <2>2. OwnerTypes'
    BY <1>1, <1>0, <1>a DEF Toggle, OwnerTypes, ownerVars
  <2>3. Rest
    BY <1>1, <1>a DEF Toggle, powVars, noteVars, httpVars, nostrVars, history,
       NoteTypes, HttpTypes, NostrTypes, HistoryTypes
  <2>4. Asked
    BY <1>1 DEF Toggle, loopVars
  <2>5. QED
    BY <2>1, <2>2, <2>3, <2>4
<1>2. ASSUME CloseWallet
      PROVE  GuiTypes' /\ OwnerTypes' /\ Rest /\ Asked
  <2>1. GuiTypes'
    BY <1>2, <1>a DEF CloseWallet, GuiTypes, guiVars
  <2>2. OwnerTypes'
    BY <1>2, <1>0, <1>a DEF CloseWallet, OwnerTypes, ownerVars
  <2>3. Rest
    BY <1>2, <1>a DEF CloseWallet, powVars, noteVars, httpVars, nostrVars, history,
       NoteTypes, HttpTypes, NostrTypes, HistoryTypes
  <2>4. Asked
    BY <1>2 DEF CloseWallet, loopVars
  <2>5. QED
    BY <2>1, <2>2, <2>3, <2>4
<1>3. ASSUME \E c \in Configs : Save(c)
      PROVE  GuiTypes' /\ OwnerTypes' /\ Rest /\ Asked
  <2>1. GuiTypes'
    BY <1>3, <1>a DEF Save, GuiTypes, guiVars
  <2>2. OwnerTypes'
    BY <1>3, <1>0, <1>a DEF Save, OwnerTypes, ownerVars
  <2>3. Rest
    BY <1>3, <1>a DEF Save, powVars, noteVars, httpVars, nostrVars, history,
       NoteTypes, HttpTypes, NostrTypes, HistoryTypes
  <2>4. Asked
    BY <1>3 DEF Save, loopVars
  <2>5. QED
    BY <2>1, <2>2, <2>3, <2>4
<1>4. ASSUME \E w \in Wallets : LoadWallet(w)
      PROVE  GuiTypes' /\ OwnerTypes' /\ Rest /\ Asked
  <2>1. GuiTypes'
    BY <1>4, <1>a DEF LoadWallet, GuiTypes, guiVars
  <2>2. OwnerTypes'
    BY <1>4, <1>0, <1>a DEF LoadWallet, OwnerTypes, ownerVars
  <2>3. Rest
    BY <1>4, <1>a DEF LoadWallet, powVars, noteVars, httpVars, nostrVars, history,
       NoteTypes, HttpTypes, NostrTypes, HistoryTypes
  <2>4. Asked
    BY <1>4 DEF LoadWallet, loopVars
  <2>5. QED
    BY <2>1, <2>2, <2>3, <2>4
<1>5. ASSUME Supervise
      PROVE  GuiTypes' /\ OwnerTypes' /\ Rest /\ Asked
  <2>1. GuiTypes'
    BY <1>5, <1>a DEF Supervise, SpawnNostr, GuiTypes, guiVars
  <2>2. OwnerTypes'
    BY <1>5, <1>0, <1>a DEF Supervise, SpawnNostr, OwnerTypes, ownerVars
  <2>3. Rest
    <3>1. runOf' \in [Spawns -> 0 .. MaxRuns] /\ UNCHANGED <<transportWallet, up, serving, dying>>
      BY <1>5, <1>a DEF Supervise, SpawnNostr, OwnerTypes, NostrTypes, nostrVars
    <3>2. QED
      BY <1>5, <1>a, <3>1 DEF Supervise, powVars, noteVars, httpVars, history,
         NoteTypes, HttpTypes, NostrTypes, HistoryTypes
  <2>4. Asked
    <3>1. <<"nostr", spawns + 1>> \in Task
      BY <1>5, <1>a DEF Supervise, OwnerTypes, Task
    <3>2. QED
      BY <1>5, <3>1 DEF Supervise, SpawnNostr, loopVars
  <2>5. QED
    BY <2>1, <2>2, <2>3, <2>4
<1>6. ASSUME ThrottleExpires
      PROVE  GuiTypes' /\ OwnerTypes' /\ Rest /\ Asked
  <2>1. GuiTypes'
    BY <1>6, <1>a DEF ThrottleExpires, GuiTypes, guiVars
  <2>2. OwnerTypes'
    BY <1>6, <1>0, <1>a DEF ThrottleExpires, OwnerTypes, ownerVars
  <2>3. Rest
    BY <1>6, <1>a DEF ThrottleExpires, powVars, noteVars, httpVars, nostrVars, history,
       NoteTypes, HttpTypes, NostrTypes, HistoryTypes
  <2>4. Asked
    BY <1>6 DEF ThrottleExpires, loopVars
  <2>5. QED
    BY <2>1, <2>2, <2>3, <2>4
<1>7. ASSUME StopHttp
      PROVE  GuiTypes' /\ OwnerTypes' /\ Rest /\ Asked
  <2>1. GuiTypes'
    BY <1>7, <1>a DEF StopHttp, GuiTypes, guiVars
  <2>2. OwnerTypes'
    BY <1>7, <1>0, <1>a DEF StopHttp, WalletBound, OwnerTypes, ownerVars
  <2>3. Rest
    BY <1>7, <1>a DEF StopHttp, powVars, noteVars, httpVars, nostrVars, history,
       NoteTypes, HttpTypes, NostrTypes, HistoryTypes
  <2>4. Asked
    <3>1. wallet \in Wallets /\ (httpOf[wallet] # 0 => <<"http-stop", httpOf[wallet]>> \in Task)
      BY <1>7, <1>0, <1>a DEF StopHttp, OwnerTypes, Task, WalletBound
    <3>2. QED
      BY <1>7, <3>1 DEF StopHttp, loopVars
  <2>5. QED
    BY <2>1, <2>2, <2>3, <2>4
<1>8. ASSUME StopCancel
      PROVE  GuiTypes' /\ OwnerTypes' /\ Rest /\ Asked
  <2>1. GuiTypes'
    BY <1>8, <1>a DEF StopCancel, GuiTypes, guiVars
  <2>2. OwnerTypes'
    BY <1>8, <1>0, <1>a DEF StopCancel, OwnerTypes, ownerVars
  <2>3. Rest
    BY <1>8, <1>a DEF StopCancel, powVars, noteVars, httpVars, nostrVars, history,
       NoteTypes, HttpTypes, NostrTypes, HistoryTypes
  <2>4. Asked
    <3>1. \A k \in Task : CancelCall(k) \in Seq(Calls)
      <4>1. SUFFICES ASSUME NEW k \in Task PROVE CancelCall(k) \in Seq(Calls)
        OBVIOUS
      <4>2. <<"cancel", k>> \in Calls
        BY DEF Calls
      <4>3. <<<<"cancel", k>>>> \in Seq(Calls)
        BY <4>2
      <4>4. QED
        BY <4>3, EmptySeq DEF CancelCall
    <3>2. httpFut # 0 => <<"http", httpFut>> \in Task
      BY <1>a DEF OwnerTypes, Task
    <3>3. nostrFut # 0 => <<"nostr", nostrFut>> \in Task
      BY <1>a DEF OwnerTypes, Task
    <3>4. CancelCalls \in Seq(Calls)
      <4>1. (IF httpFut = 0 THEN <<>> ELSE CancelCall(<<"http", httpFut>>)) \in Seq(Calls)
        BY <3>1, <3>2, EmptySeq
      <4>2. (IF nostrFut = 0 THEN <<>> ELSE CancelCall(<<"nostr", nostrFut>>)) \in Seq(Calls)
        BY <3>1, <3>3, EmptySeq
      <4>3. QED
        BY <4>1, <4>2, ConcatProperties DEF CancelCalls
    <3>5. queue' \in Seq(Calls)
      BY <1>8, <1>a, <3>4, ConcatProperties DEF StopCancel, LoopTypes, Calls
    <3>6. cancelled' \in [Task -> BOOLEAN] /\ UNCHANGED <<pc, mustCancel>>
      BY <1>8 DEF StopCancel
    <3>7. QED
      BY <1>a, <3>5, <3>6 DEF LoopTypes, Calls
  <2>5. QED
    BY <2>1, <2>2, <2>3, <2>4
<1>9. ASSUME StopTransport
      PROVE  GuiTypes' /\ OwnerTypes' /\ Rest /\ Asked
  <2>1. GuiTypes'
    BY <1>9, <1>a DEF StopTransport, GuiTypes, guiVars
  <2>2. OwnerTypes'
    BY <1>9, <1>0, <1>a DEF StopTransport, OwnerTypes, ownerVars
  <2>3. Rest
    BY <1>9, <1>a DEF StopTransport, powVars, noteVars, httpVars, nostrVars, history,
       NoteTypes, HttpTypes, NostrTypes, HistoryTypes
  <2>4. Asked
    <3>1. live # 0 => <<"nostr-stop", live>> \in Task
      BY <1>a DEF NoteTypes, Task
    <3>2. QED
      BY <1>9, <3>1 DEF StopTransport, loopVars
  <2>5. QED
    BY <2>1, <2>2, <2>3, <2>4
<1>10. ASSUME StopFlags
      PROVE  GuiTypes' /\ OwnerTypes' /\ Rest /\ Asked
  <2>1. GuiTypes'
    BY <1>10, <1>a DEF StopFlags, RemoveRecorder, GuiTypes, guiVars
  <2>2. OwnerTypes'
    BY <1>10, <1>0, <1>a DEF StopFlags, RemoveRecorder, WalletBound, OwnerTypes, ownerVars
  <2>3. Rest
    <3>1. NoteTypes'
      <4>1. /\ relay' = "none" /\ relayBy' = 0 /\ grinding' = FALSE
            /\ UNCHANGED <<live, lastSuccess, failures, nonceFor>>
        BY <1>10 DEF StopFlags
      <4>2. 0 \in 0 .. MaxRuns
        OBVIOUS
      <4>3. QED
        BY <1>a, <4>1, <4>2 DEF NoteTypes
    <3>2. QED
      BY <1>10, <1>a, <3>1 DEF StopFlags, httpVars, nostrVars, history, HttpTypes,
         NostrTypes, HistoryTypes
  <2>4. Asked
    BY <1>10 DEF StopFlags, loopVars
  <2>5. QED
    BY <2>1, <2>2, <2>3, <2>4
<1>11. ASSUME Unbind
      PROVE  GuiTypes' /\ OwnerTypes' /\ Rest /\ Asked
  <2>1. GuiTypes'
    BY <1>11, <1>a DEF Unbind, RemoveRecorder, GuiTypes, guiVars
  <2>2. OwnerTypes'
    BY <1>11, <1>0, <1>a DEF Unbind, RemoveRecorder, OwnerTypes, ownerVars
  <2>3. Rest
    BY <1>11, <1>a DEF Unbind, RemoveRecorder, powVars, noteVars, httpVars, nostrVars, history,
       NoteTypes, HttpTypes, NostrTypes, HistoryTypes
  <2>4. Asked
    BY <1>11 DEF Unbind, loopVars
  <2>5. QED
    BY <2>1, <2>2, <2>3, <2>4
<1>12. ASSUME StartRecord
      PROVE  GuiTypes' /\ OwnerTypes' /\ Rest /\ Asked
  <2>1. GuiTypes'
    BY <1>12, <1>a DEF StartRecord, GuiTypes, guiVars
  <2>2. OwnerTypes'
    <3>1. wallet \in Wallets /\ runs' \in 0 .. MaxRuns
      BY <1>12, <1>0, <1>a DEF StartRecord, RoomKept, RoomToStart, WalletBound, OwnerTypes
    <3>2. wrapped' \in [Wallets -> BOOLEAN] /\ isServer' \in [Wallets -> BOOLEAN]
      BY <1>12, <1>a DEF StartRecord, OwnerTypes
    <3>3. recorded' \in Wallets \cup {NoWallet}
      BY <1>12, <1>a, <3>1 DEF StartRecord, OwnerTypes
    <3>4. QED
      BY <1>12, <1>a, <3>1, <3>2, <3>3 DEF StartRecord, OwnerTypes
  <2>3. Rest
    BY <1>12, <1>a DEF StartRecord, powVars, noteVars, httpVars, nostrVars, history,
       NoteTypes, HttpTypes, NostrTypes, HistoryTypes
  <2>4. Asked
    BY <1>12 DEF StartRecord, loopVars
  <2>5. QED
    BY <2>1, <2>2, <2>3, <2>4
<1>13. ASSUME StartReset
      PROVE  GuiTypes' /\ OwnerTypes' /\ Rest /\ Asked
  <2>1. GuiTypes'
    BY <1>13, <1>a DEF StartReset, GuiTypes, guiVars
  <2>2. OwnerTypes'
    BY <1>13, <1>0, <1>a DEF StartReset, OwnerTypes, ownerVars
  <2>3. Rest
    BY <1>13, <1>a DEF StartReset, powVars, noteVars, httpVars, nostrVars, history,
       NoteTypes, HttpTypes, NostrTypes, HistoryTypes
  <2>4. Asked
    BY <1>13 DEF StartReset, loopVars
  <2>5. QED
    BY <2>1, <2>2, <2>3, <2>4
<1>14. ASSUME StartHttp
      PROVE  GuiTypes' /\ OwnerTypes' /\ Rest /\ Asked
  <2>1. GuiTypes'
    BY <1>14, <1>a DEF StartHttp, GuiTypes, guiVars
  <2>2. OwnerTypes'
    BY <1>14, <1>0, <1>a DEF StartHttp, RoomKept, WalletBound, OwnerTypes, ownerVars
  <2>3. Rest
    <3>1. serverWallet' \in [Runs -> Wallets \cup {NoWallet}] /\ serverPort' \in [Runs -> Nat]
      <4>1. config.port \in Nat
        BY <1>a, ConfigAssumption DEF GuiTypes
      <4>2. serverWallet' \in [Runs -> Wallets \cup {NoWallet}]
        BY <1>14, <1>a DEF StartHttp, OwnerTypes, HttpTypes
      <4>3. serverPort' \in [Runs -> Nat]
        BY <1>14, <1>a, <4>1 DEF StartHttp, HttpTypes
      <4>4. QED
        BY <4>2, <4>3
    <3>2. QED
      BY <1>14, <1>a, <3>1 DEF StartHttp, powVars, noteVars, nostrVars, history,
         NoteTypes, HttpTypes, NostrTypes, HistoryTypes
  <2>4. Asked
    <3>1. <<"http", runs>> \in Task
      BY <1>14, <1>0 DEF StartHttp, RoomKept, Task
    <3>2. QED
      BY <1>14, <3>1 DEF StartHttp, loopVars
  <2>5. QED
    BY <2>1, <2>2, <2>3, <2>4
<1>15. ASSUME StartNostr
      PROVE  GuiTypes' /\ OwnerTypes' /\ Rest /\ Asked
  <2>1. GuiTypes'
    BY <1>15, <1>a DEF StartNostr, SpawnNostr, GuiTypes, guiVars
  <2>2. OwnerTypes'
    BY <1>15, <1>0, <1>a DEF StartNostr, SpawnNostr, RoomKept, OwnerTypes, ownerVars
  <2>3. Rest
    <3>1. runOf' \in [Spawns -> 0 .. MaxRuns] /\ UNCHANGED <<transportWallet, up, serving, dying>>
      BY <1>15, <1>a DEF StartNostr, SpawnNostr, OwnerTypes, NostrTypes, nostrVars
    <3>2. QED
      BY <1>15, <1>a, <3>1 DEF StartNostr, powVars, noteVars, httpVars, history,
         NoteTypes, HttpTypes, NostrTypes, HistoryTypes
  <2>4. Asked
    <3>1. <<"nostr", spawns + 1>> \in Task
      BY <1>15, <1>0, <1>a DEF StartNostr, RoomKept, OwnerTypes, Task
    <3>2. QED
      BY <1>15, <3>1 DEF StartNostr, SpawnNostr, loopVars
  <2>5. QED
    BY <2>1, <2>2, <2>3, <2>4
<1>16. GuiTypes' /\ OwnerTypes' /\ Rest /\ Asked
  BY <1>1, <1>2, <1>3, <1>4, <1>5, <1>6, <1>7, <1>8,
     <1>9, <1>10, <1>11, <1>12, <1>13, <1>14, <1>15 DEF GuiStep
<1>17. LoopTypes'
  BY <1>16, <1>a, SpawnTypes DEF LoopTypes, loopVars
<1>18. \A t \in Spawns : pc'[N(t)] \in {pc[N(t)], "spawned"}
  BY <1>16, <1>a, Tasks DEF loopVars, Spawn, LoopTypes
<1>19. KeyTaken'
  BY <1>0, <1>16, <1>18 DEF KeyTaken
<1>20. QED
  BY <1>16, <1>17, <1>19 DEF TypeOK

-----------------------------------------------------------------------------
\* The invariant is inductive.
LEMMA InvariantKept == IInv /\ [Next]_vars => IInv'
<1> SUFFICES ASSUME IInv, [Next]_vars PROVE IInv'
  OBVIOUS
<1>1. CASE Next
  <2>1. OwnerInv' /\ RoomKept'
    BY <1>1, OwnerStep
  <2>2. TypeOK' /\ KeyTaken'
    BY <1>1, NostrStepTypes, HttpStepTypes, OutsideStepTypes, GuiStepTypes
       DEF Next, UserStep, RunCallback
  <2>3. QED
    BY <2>1, <2>2 DEF IInv
<1>2. CASE UNCHANGED vars
  <2>1. TypeOK' /\ KeyTaken'
    BY <1>2 DEF IInv, TypeOK, KeyTaken, GuiTypes, OwnerTypes, NoteTypes, LoopTypes,
       HttpTypes, NostrTypes, HistoryTypes, vars, guiVars, ownerVars, noteVars, powVars,
       loopVars, httpVars, nostrVars, history
  <2>2. OwnerInv' /\ RoomKept'
    BY <1>2 DEF IInv, OwnerInv, RoomKept, RoomToStart, WalletBound, StoppedFirst,
       RecorderPlaced, ListenerRecorded, vars, guiVars, ownerVars, httpVars
  <2>3. QED
    BY <2>1, <2>2 DEF IInv
<1>3. QED
  BY <1>1, <1>2

\* The invariant holds in every state.
THEOREM Invariance == Spec => []IInv
BY InitHolds, InvariantKept, PTL DEF Spec

\* Every reachable state of the two threads is well typed: in particular no
\* start_server or stop_server runs without a wallet, and no announce task
\* writes a key or a run that does not exist.
THEOREM TypeCorrect == Spec => []TypeOK
<1>1. IInv => TypeOK
  BY DEF IInv
<1>2. QED
  BY <1>1, Invariance, PTL

\* The served-swap recorder sits on exactly the manager the plugin remembers, and
\* on one exactly while the server runs, whatever wallets the operator opens,
\* closes and rebinds and however the loop's tasks interleave with that.
THEOREM RecorderSafe == Spec => []RecorderFollowsRun
<1>1. IInv => RecorderFollowsRun
  BY DEF IInv, OwnerInv, RecorderPlaced, RecorderFollowsRun
<1>2. QED
  BY <1>1, Invariance, PTL

\* The listener of the current run always belongs to the wrapped manager.
THEOREM ListenerSafe == Spec => []ListenerRecorded
<1>1. IInv => ListenerRecorded
  BY DEF IInv, OwnerInv
<1>2. QED
  BY <1>1, Invariance, PTL
=============================================================================
