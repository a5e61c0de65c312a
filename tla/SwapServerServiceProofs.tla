---------------------- MODULE SwapServerServiceProofs ----------------------
(***************************************************************************)
(* SwapServer implements AnnounceService, for every set of wallets and     *)
(* settings and every value of the bounds.  The argument is about the life *)
(* of one task k: what the loop's queue holds for it decides how far a     *)
(* cancellation has come.                                                  *)
(***************************************************************************)
EXTENDS SwapServerService, SwapServerProofs

Has(q, x) == \E i \in DOMAIN q : q[i] = x

\* x is in the queue, and no y is ahead of it.
Before(q, x, y) == \E i \in DOMAIN q : q[i] = x /\ \A j \in 1 .. i : q[j] # y

Once(q, x) == \A i, j \in DOMAIN q : q[i] = x /\ q[j] = x => i = j

ToCreate(k) == <<"create", k>>
ToStep(k)   == <<"step", k>>
ToCancel(k) == <<"cancel", k>>

Server(n)  == <<"http", n>>
Stopper(n) == <<"http-stop", n>>

\* The tasks that are asked for once: all but the shutdown of a transport.
Single == ({"http", "http-stop"} \X Runs) \cup ({"nostr"} \X Spawns)

\* The CancelledError is on its way through the __aexit__ of k's transport.
Dying(k) == \E t \in Spawns : k = N(t) /\ dying[t]

\* A task is created once, from the one callback that asks for it.
BornOnce(k) ==
  /\ Has(queue, ToCreate(k)) <=> pc[k] = "spawned"
  /\ Once(queue, ToCreate(k))

\* No cancellation overtakes the first step of its task.
FirstStepFirst(k) ==
  /\ pc[k] \in {"none", "spawned"} =>
       ~Has(queue, ToStep(k)) /\ ~Has(queue, ToCancel(k)) /\ ~mustCancel[k]
  /\ pc[k] = "fresh" => Before(queue, ToStep(k), ToCancel(k)) /\ ~mustCancel[k]

\* Only a cancelled task ends or leaves its transport for that reason, ...
OnlyIfTold(k) ==
  /\ pc[k] = "none" => ~cancelled[k]
  /\ pc[k] = "cancelled" \/ Has(queue, ToCancel(k)) \/ mustCancel[k] \/ Dying(k) => cancelled[k]
  /\ Dying(k) => pc[k] \in {"closing"} \cup Finished

\* ... and the cancellation of one is in the queue, pending, or carried out.
ToldForSure(k) ==
  cancelled[k] /\ pc[k] \in Await \cup {"fresh"}
    => mustCancel[k] \/ Dying(k) \/ Has(queue, ToCancel(k))

Life(k) == BornOnce(k) /\ FirstStepFirst(k) /\ OnlyIfTold(k) /\ ToldForSure(k)
TaskInv == \A k \in Single : Life(k)

Working(k) == pc[k] \notin Finished \cup {"none"} /\ ~cancelled[k]

\* Only the announce task whose future the plugin holds has not been told to go.
Announcer(t) ==
  /\ t > spawns => pc[N(t)] = "none"
  /\ Working(N(t)) => t = nostrFut
  /\ t = nostrFut => pc[N(t)] # "none" /\ ~cancelled[N(t)]

\* The same of the HTTP server of run n, which a manager remembers until it has
\* been asked to stop.
Listener(n) ==
  /\ n > runs \/ (n = runs /\ gui \in {"start_reset", "start_http"}) => pc[Server(n)] = "none"
  /\ Working(Server(n)) => n = httpFut
  /\ n = httpFut => n = runs /\ pc[Server(n)] # "none" /\ ~cancelled[Server(n)]
  /\ pc[Server(n)] = "none" => pc[Stopper(n)] = "none"
  /\ ~cancelled[Stopper(n)]
  /\ \A w \in Wallets : httpOf[w] = n =>
       serverWallet[n] = w /\ pc[Server(n)] # "none" /\ pc[Stopper(n)] = "none"

HolderInv == (\A t \in Spawns : Announcer(t)) /\ (\A n \in Runs : Listener(n))
LifeInv == TaskInv /\ HolderInv

USE DEF PC, Await, Finished

lifeVars == <<queue, pc, mustCancel, cancelled, dying>>

-----------------------------------------------------------------------------
(* The queue: taking its head and appending to it.                         *)

\* What taking the head does to what the queue has.
LEMMA TailFacts ==
  ASSUME NEW q \in Seq(Calls), q # <<>>, NEW x, NEW y
  PROVE  /\ Has(Tail(q), x) => Has(q, x)
         /\ Has(q, x) /\ Head(q) # x => Has(Tail(q), x)
         /\ Before(q, x, y) => Head(q) # y
         /\ Before(q, x, y) /\ Head(q) # x => Before(Tail(q), x, y)
         /\ Once(q, x) => Once(Tail(q), x)
         /\ Once(q, x) /\ Head(q) = x => ~Has(Tail(q), x)
<1>1. /\ Tail(q) \in Seq(Calls) /\ Len(Tail(q)) = Len(q) - 1 /\ Head(q) = q[1]
      /\ DOMAIN q = 1 .. Len(q) /\ DOMAIN Tail(q) = 1 .. Len(q) - 1
      /\ Len(q) \in Nat \ {0}
      /\ \A i \in 1 .. Len(q) - 1 : Tail(q)[i] = q[i + 1]
  BY HeadTailProperties, LenProperties, EmptySeq
<1>2. \A i \in 1 .. Len(q) - 1 : i + 1 \in DOMAIN q /\ Tail(q)[i] = q[i + 1]
  BY <1>1
<1>3. \A i \in DOMAIN q : i # 1 => i - 1 \in DOMAIN Tail(q) /\ Tail(q)[i - 1] = q[i]
  BY <1>1
<1>4. (Has(Tail(q), x) => Has(q, x)) /\ (Has(q, x) /\ Head(q) # x => Has(Tail(q), x))
  BY <1>1, <1>2, <1>3 DEF Has
<1>5. Before(q, x, y) => Head(q) # y
  BY <1>1 DEF Before
<1>6. ASSUME Before(q, x, y), Head(q) # x PROVE Before(Tail(q), x, y)
  <2>1. PICK i \in DOMAIN q : q[i] = x /\ \A j \in 1 .. i : q[j] # y
    BY <1>6 DEF Before
  <2>2. i # 1 /\ i \in 1 .. Len(q)
    BY <1>1, <1>6, <2>1
  <2>3. i - 1 \in DOMAIN Tail(q) /\ Tail(q)[i - 1] = x
    BY <1>3, <2>1, <2>2
  <2>4. \A j \in 1 .. i - 1 : Tail(q)[j] # y
    BY <1>1, <2>1, <2>2
  <2>5. QED
    BY <2>3, <2>4 DEF Before
<1>7. Once(q, x) => Once(Tail(q), x)
  BY <1>1, <1>2 DEF Once
<1>8. Once(q, x) /\ Head(q) = x => ~Has(Tail(q), x)
  BY <1>1, <1>2 DEF Once, Has
<1>9. QED
  BY <1>4, <1>5, <1>6, <1>7, <1>8

\* What appending does to what the queue has.
LEMMA AppendFacts ==
  ASSUME NEW q \in Seq(Calls), NEW s \in Seq(Calls), NEW x, NEW y
  PROVE  /\ q \o s \in Seq(Calls)
         /\ Has(q \o s, x) <=> Has(q, x) \/ Has(s, x)
         /\ Before(q, x, y) => Before(q \o s, x, y)
         /\ Once(q, x) /\ ~Has(s, x) => Once(q \o s, x)
         /\ Once(s, x) /\ ~Has(q, x) => Once(q \o s, x)
         /\ Before(s, x, y) /\ ~Has(q, y) => Before(q \o s, x, y)
<1>1. /\ q \o s \in Seq(Calls) /\ Len(q) \in Nat /\ Len(s) \in Nat
      /\ DOMAIN q = 1 .. Len(q) /\ DOMAIN s = 1 .. Len(s)
      /\ DOMAIN (q \o s) = 1 .. Len(q) + Len(s)
  BY ConcatProperties, LenProperties
<1>2. \A i \in DOMAIN q : i \in DOMAIN (q \o s) /\ (q \o s)[i] = q[i]
  BY <1>1, ConcatProperties
<1>3. \A i \in DOMAIN s : i + Len(q) \in DOMAIN (q \o s) /\ (q \o s)[i + Len(q)] = s[i]
  BY <1>1, ConcatProperties
<1>4. \A i \in DOMAIN (q \o s) : i \in DOMAIN q \/ i - Len(q) \in DOMAIN s
  BY <1>1
<1>5. Has(q \o s, x) <=> Has(q, x) \/ Has(s, x)
  <2>1. Has(q, x) \/ Has(s, x) => Has(q \o s, x)
    BY <1>2, <1>3 DEF Has
  <2>2. ASSUME NEW i \in DOMAIN (q \o s), (q \o s)[i] = x PROVE Has(q, x) \/ Has(s, x)
    <3>1. CASE i \in DOMAIN q
      BY <3>1, <1>2, <2>2 DEF Has
    <3>2. CASE i - Len(q) \in DOMAIN s
      <4>1. (i - Len(q)) + Len(q) = i
        BY <1>1
      <4>2. s[i - Len(q)] = x
        BY <1>3, <2>2, <3>2, <4>1
      <4>3. QED
        BY <3>2, <4>2 DEF Has
    <3>3. QED
      BY <1>4, <3>1, <3>2
  <2>3. QED
    BY <2>1, <2>2 DEF Has
<1>6. Before(q, x, y) => Before(q \o s, x, y)
  <2>1. ASSUME NEW i \in DOMAIN q PROVE \A j \in 1 .. i : j \in DOMAIN q
    BY <1>1
  <2>2. QED
    BY <1>2, <2>1 DEF Before
<1>7. Once(q, x) /\ ~Has(s, x) => Once(q \o s, x)
  <2>1. ASSUME ~Has(s, x), NEW i \in DOMAIN (q \o s), (q \o s)[i] = x
        PROVE  i \in DOMAIN q /\ q[i] = x
    <3>1. i - Len(q) \notin DOMAIN s
      <4>1. (i - Len(q)) + Len(q) = i
        BY <1>1
      <4>2. QED
        BY <1>3, <2>1, <4>1 DEF Has
    <3>2. QED
      BY <1>2, <1>4, <2>1, <3>1
  <2>2. QED
    BY <2>1 DEF Once
<1>8. Once(s, x) /\ ~Has(q, x) => Once(q \o s, x)
  <2>1. ASSUME ~Has(q, x), NEW i \in DOMAIN (q \o s), (q \o s)[i] = x
        PROVE  i - Len(q) \in DOMAIN s /\ s[i - Len(q)] = x
    <3>1. i \notin DOMAIN q
      BY <1>2, <2>1 DEF Has
    <3>2. i - Len(q) \in DOMAIN s /\ (i - Len(q)) + Len(q) = i
      BY <1>1, <1>4, <3>1
    <3>3. QED
      BY <1>3, <2>1, <3>2
  <2>2. ASSUME Once(s, x), ~Has(q, x), NEW i \in DOMAIN (q \o s), NEW j \in DOMAIN (q \o s),
               (q \o s)[i] = x, (q \o s)[j] = x
        PROVE  i = j
    <3>1. i - Len(q) = j - Len(q)
      BY <2>1, <2>2 DEF Once
    <3>2. QED
      BY <1>1, <3>1
  <2>3. QED
    BY <2>2 DEF Once
<1>9. Before(s, x, y) /\ ~Has(q, y) => Before(q \o s, x, y)
  <2>1. SUFFICES ASSUME Before(s, x, y), ~Has(q, y) PROVE Before(q \o s, x, y)
    OBVIOUS
  <2>2. PICK i \in DOMAIN s : s[i] = x /\ \A j \in 1 .. i : s[j] # y
    BY <2>1 DEF Before
  <2>3. i + Len(q) \in DOMAIN (q \o s) /\ (q \o s)[i + Len(q)] = x
    BY <1>3, <2>2
  <2>4. ASSUME NEW j \in 1 .. i + Len(q) PROVE (q \o s)[j] # y
    <3>1. CASE j \in DOMAIN q
      BY <1>2, <2>1, <3>1 DEF Has
    <3>2. CASE j \notin DOMAIN q
      <4>1. j - Len(q) \in 1 .. i /\ j - Len(q) \in DOMAIN s /\ (j - Len(q)) + Len(q) = j
        BY <1>1, <2>2, <3>2
      <4>2. QED
        BY <1>3, <2>2, <4>1
    <3>3. QED
      BY <3>1, <3>2
  <2>5. QED
    BY <2>3, <2>4 DEF Before
<1>10. QED
  BY <1>1, <1>5, <1>6, <1>7, <1>8, <1>9

\* A single callback.
LEMMA OneFacts ==
  ASSUME NEW c \in Calls, NEW x, NEW y
  PROVE  /\ <<c>> \in Seq(Calls) /\ <<>> \in Seq(Calls)
         /\ ~Has(<<>>, x) /\ Once(<<>>, x)
         /\ Has(<<c>>, x) <=> c = x
         /\ Once(<<c>>, x)
         /\ c = x /\ x # y => Before(<<c>>, x, y)
<1>1. DOMAIN <<c>> = {1} /\ <<c>>[1] = c /\ DOMAIN <<>> = {}
  OBVIOUS
<1>2. <<c>> \in Seq(Calls) /\ <<>> \in Seq(Calls)
  OBVIOUS
<1>3. QED
  BY <1>1, <1>2 DEF Has, Once, Before

\* Append is the concatenation of one callback.
LEMMA AppendedAsConcat ==
  ASSUME NEW q \in Seq(Calls), NEW c \in Calls
  PROVE  Append(q, c) = q \o <<c>>
OBVIOUS

-----------------------------------------------------------------------------
(* The life of task k under the steps that are not its own.                *)

Ops == {"create", "cancel", "step"}
NotFor(k, s) == \A op \in Ops : ~Has(s, <<op, k>>)

\* Queue Q means to k what q did, but for a cancellation when `told`.
Fed(k, q, Q, told) ==
  /\ Has(Q, ToCreate(k)) <=> Has(q, ToCreate(k))
  /\ Has(Q, ToStep(k)) => Has(q, ToStep(k))
  /\ Has(Q, ToCancel(k)) <=> Has(q, ToCancel(k)) \/ told
  /\ Once(q, ToCreate(k)) => Once(Q, ToCreate(k))
  /\ Before(q, ToStep(k), ToCancel(k)) => Before(Q, ToStep(k), ToCancel(k))

Same(k) == Fed(k, queue, queue', FALSE)

\* Callbacks of others come, ...
LEMMA OthersCome ==
  ASSUME NEW q \in Seq(Calls), NEW k \in Task, NEW s \in Seq(Calls), NotFor(k, s)
  PROVE  Fed(k, q, q \o s, FALSE)
BY AppendFacts DEF Ops, NotFor, Fed, ToCreate, ToStep, ToCancel

\* ... and go.
LEMMA OthersGo ==
  ASSUME NEW q \in Seq(Calls), NEW k \in Task, q # <<>>, \A op \in Ops : Head(q) # <<op, k>>
  PROVE  Tail(q) \in Seq(Calls) /\ Fed(k, q, Tail(q), FALSE)
<1>1. Tail(q) \in Seq(Calls)
  BY HeadTailProperties
<1>2. QED
  BY <1>1, TailFacts DEF Ops, Fed, ToCreate, ToStep, ToCancel

\* Two changes of the queue, one after the other.
LEMMA FedTwice ==
  ASSUME NEW k, NEW q, NEW Q, NEW R, NEW a \in BOOLEAN, NEW b \in BOOLEAN,
         Fed(k, q, Q, a), Fed(k, Q, R, b)
  PROVE  Fed(k, q, R, a \/ b)
BY DEF Fed

\* Callbacks of others come and go.
LEMMA QueueSame ==
  ASSUME queue \in Seq(Calls), NEW k \in Task, NEW s \in Seq(Calls), NotFor(k, s),
         \/ queue' = queue \o s
         \/ /\ queue # <<>> /\ queue' = Tail(queue) \o s
            /\ \A op \in Ops : Head(queue) # <<op, k>>
  PROVE  Same(k)
<1>1. CASE queue' = queue \o s
  BY <1>1, OthersCome DEF Same
<1>2. CASE /\ queue # <<>> /\ queue' = Tail(queue) \o s
           /\ \A op \in Ops : Head(queue) # <<op, k>>
  <2>1. Tail(queue) \in Seq(Calls) /\ Fed(k, queue, Tail(queue), FALSE)
    BY <1>2, OthersGo
  <2>2. Fed(k, Tail(queue), queue', FALSE)
    BY <1>2, <2>1, OthersCome
  <2>3. QED
    BY <2>1, <2>2 DEF Fed, Same
<1>3. QED
  BY <1>1, <1>2

\* The other variables of k's life.
Alike(k) ==
  /\ pc'[k] = pc[k] /\ mustCancel'[k] = mustCancel[k]
  /\ cancelled'[k] = cancelled[k] /\ (Dying(k)' <=> Dying(k))

\* A task to which nothing has happened.
LEMMA LifeSame ==
  ASSUME NEW k, Life(k), Same(k), Alike(k)
  PROVE  Life(k)'
BY DEF Life, Same, Fed, Alike, BornOnce, FirstStepFirst, OnlyIfTold, ToldForSure,
   ToCreate, ToStep, ToCancel

\* The callbacks of another task are not k's.
LEMMA OthersCallbacks ==
  ASSUME NEW k \in Task, NEW i \in Task, i # k, NEW op \in Ops
  PROVE  /\ NotFor(k, <<>>) /\ NotFor(k, <<<<op, i>>>>) /\ <<op, i>> \in Calls
         /\ <<>> \in Seq(Calls) /\ <<<<op, i>>>> \in Seq(Calls)
         /\ \A o \in Ops : <<op, i>> # <<o, k>>
<1>1. <<op, i>> \in Calls /\ \A o \in Ops : <<op, i>> # <<o, k>>
  BY DEF Calls, Ops
<1>2. QED
  BY <1>1, OneFacts DEF NotFor

\* The tasks of announcers and HTTP servers, and which of them can be dying.
LEMMA TaskNames ==
  /\ Single \subseteq Task
  /\ \A t \in Spawns : N(t) \in Single /\ (Dying(N(t)) <=> dying[t])
  /\ \A n \in Runs : Server(n) \in Single /\ Stopper(n) \in Single
                     /\ ~Dying(Server(n)) /\ ~Dying(Stopper(n))
  /\ \A t, u \in Spawns : N(t) = N(u) => t = u
  /\ \A m, n \in Runs : Server(m) # Stopper(n) /\ (Server(m) = Server(n) => m = n)
                        /\ (Stopper(m) = Stopper(n) => m = n)
  /\ \A t \in Spawns, n \in Runs : N(t) # Server(n) /\ N(t) # Stopper(n)
  /\ \A k \in Single : \/ \E t \in Spawns : k = N(t)
                       \/ \E n \in Runs : k = Server(n) \/ k = Stopper(n)
BY DEF Single, Task, N, Server, Stopper, Dying

\* A task is asked for: nothing happens to the others.
LEMMA SpawnOther ==
  ASSUME LoopTypes, NEW i \in Task, Spawn(i), UNCHANGED <<mustCancel, cancelled, dying>>,
         NEW k \in Task, i # k
  PROVE  Same(k) /\ Alike(k)
<1>1. queue \in Seq(Calls)
  BY DEF LoopTypes, Calls
<1>2. queue' = queue \o <<<<"create", i>>>>
  BY <1>1, OthersCallbacks, AppendedAsConcat DEF Spawn, Calls, Ops
<1>3. Same(k)
  BY <1>1, <1>2, OthersCallbacks, QueueSame DEF Ops
<1>4. Alike(k)
  BY <1>1 DEF Spawn, Alike, LoopTypes, Dying
<1>5. QED
  BY <1>3, <1>4

\* A step of another task.
LEMMA StepOther ==
  ASSUME LoopTypes, NEW i \in Task, NEW from, NEW p, Step(i, from), Goto(i, p),
         UNCHANGED cancelled, NEW k \in Task, i # k, Dying(k)' <=> Dying(k)
  PROVE  Same(k) /\ Alike(k)
<1>1. queue \in Seq(Calls)
  BY DEF LoopTypes, Calls
<1>2. queue # <<>> /\ Head(queue) = <<"step", i>> /\ queue' = Tail(queue) \o <<>>
  BY <1>1, QueuePop, ConcatEmptySeq DEF Step
<1>3. Same(k)
  BY <1>1, <1>2, OthersCallbacks, QueueSame DEF Ops
<1>4. Alike(k)
  BY <1>1 DEF Step, Goto, Alike, LoopTypes
<1>5. QED
  BY <1>3, <1>4

Calling(i) == Create(i) \/ Cancel(i) \/ Complete(i)

\* The loop's callbacks for another task.
LEMMA CallbackOther ==
  ASSUME LoopTypes, NEW i \in Task, Calling(i), NEW k \in Task, i # k
  PROVE  Same(k) /\ Alike(k)
<1> DEFINE st == <<"step", i>>
           ca == <<"cancel", i>>
<1>1. queue \in Seq(Calls)
  BY DEF LoopTypes, Calls
<1>2. /\ NotFor(k, <<>>) /\ NotFor(k, <<st>>) /\ NotFor(k, <<ca>>)
      /\ st \in Calls /\ ca \in Calls
      /\ <<>> \in Seq(Calls) /\ <<st>> \in Seq(Calls) /\ <<ca>> \in Seq(Calls)
      /\ \A o \in Ops : <<"create", i>> # <<o, k>> /\ ca # <<o, k>>
  BY OthersCallbacks DEF Ops
<1>3. Alike(k)
  BY <1>1 DEF Calling, Create, Cancel, Complete, nostrVars, Alike, LoopTypes, Dying
<1>4. CASE Complete(i)
  <2>1. queue' = queue \o <<st>>
    BY <1>1, <1>2, <1>4, AppendedAsConcat DEF Complete
  <2>2. QED
    BY <1>1, <1>2, <1>3, <2>1, QueueSame
<1>5. CASE Cancel(i)
  <2>1. Tail(queue) \in Seq(Calls)
    BY <1>1, <1>5, QueuePop DEF Cancel
  <2>2. queue' = Tail(queue) \o <<st>> \/ queue' = Tail(queue) \o <<>>
    BY <1>2, <1>5, <2>1, AppendedAsConcat, ConcatEmptySeq DEF Cancel
  <2>3. QED
    BY <1>1, <1>2, <1>3, <1>5, <2>2, QueueSame DEF Cancel
<1>6. CASE Create(i)
  <2>1. Tail(queue) \in Seq(Calls)
    BY <1>1, <1>6, QueuePop DEF Create
  <2>2. Append(Tail(queue), st) = Tail(queue) \o <<st>>
    BY <1>2, <2>1, AppendedAsConcat
  <2>3. \/ queue' = Tail(queue) \o (<<st>> \o <<ca>>)
        \/ queue' = Tail(queue) \o <<st>>
    <3>1. (Tail(queue) \o <<st>>) \o <<ca>> = Tail(queue) \o (<<st>> \o <<ca>>)
      BY <1>2, <2>1, ConcatAssociative
    <3>2. Tail(queue) \o <<st>> \in Seq(Calls)
      BY <1>2, <2>1, AppendFacts
    <3>3. QED
      BY <1>6, <2>2, <3>1, <3>2, ConcatEmptySeq DEF Create
  <2>4. <<st>> \o <<ca>> \in Seq(Calls) /\ NotFor(k, <<st>> \o <<ca>>)
    BY <1>2, AppendFacts DEF NotFor
  <2>5. QED
    BY <1>1, <1>2, <1>3, <1>6, <2>3, <2>4, QueueSame DEF Create
<1>7. QED
  BY <1>4, <1>5, <1>6 DEF Calling

-----------------------------------------------------------------------------
(* The life of task k under its own steps.                                 *)

\* The callbacks of k.
LEMMA OwnCallbacks ==
  ASSUME NEW k \in Task
  PROVE  /\ ToCreate(k) \in Calls /\ ToStep(k) \in Calls /\ ToCancel(k) \in Calls
         /\ ToCreate(k) # ToStep(k) /\ ToStep(k) # ToCancel(k) /\ ToCreate(k) # ToCancel(k)
BY DEF ToCreate, ToStep, ToCancel, Calls

\* Appending the step of k, ...
LEMMA PushStep ==
  ASSUME NEW q \in Seq(Calls), NEW k \in Task, NEW Q, Q = q \o <<ToStep(k)>>
  PROVE  /\ Q \in Seq(Calls)
         /\ Has(Q, ToCreate(k)) <=> Has(q, ToCreate(k))
         /\ Has(Q, ToCancel(k)) <=> Has(q, ToCancel(k))
         /\ Once(q, ToCreate(k)) => Once(Q, ToCreate(k))
         /\ ~Has(q, ToCancel(k)) => Before(Q, ToStep(k), ToCancel(k))
<1> DEFINE s == <<ToStep(k)>>
<1>1. /\ s \in Seq(Calls) /\ ~Has(s, ToCreate(k)) /\ ~Has(s, ToCancel(k))
      /\ Before(s, ToStep(k), ToCancel(k))
  BY OwnCallbacks, OneFacts
<1> HIDE DEF s
<1>2. Q = q \o s
  BY DEF s
<1>3. Q \in Seq(Calls) /\ (Has(Q, ToCreate(k)) <=> Has(q, ToCreate(k)))
  BY <1>1, <1>2, AppendFacts
<1>4. Has(Q, ToCancel(k)) <=> Has(q, ToCancel(k))
  BY <1>1, <1>2, AppendFacts
<1>5. Once(q, ToCreate(k)) => Once(Q, ToCreate(k))
  BY <1>1, <1>2, AppendFacts
<1>6. ~Has(q, ToCancel(k)) => Before(Q, ToStep(k), ToCancel(k))
  BY <1>1, <1>2, AppendFacts
<1>7. QED
  BY <1>3, <1>4, <1>5, <1>6

\* ... and its cancellation.
LEMMA PushCancel ==
  ASSUME NEW q \in Seq(Calls), NEW k \in Task
  PROVE  q \o <<ToCancel(k)>> \in Seq(Calls) /\ Fed(k, q, q \o <<ToCancel(k)>>, TRUE)
<1> DEFINE s == <<ToCancel(k)>>
<1>1. /\ s \in Seq(Calls) /\ Has(s, ToCancel(k))
      /\ ~Has(s, ToCreate(k)) /\ ~Has(s, ToStep(k))
  BY OwnCallbacks, OneFacts
<1> HIDE DEF s
<1>2. Fed(k, q, q \o s, TRUE) /\ q \o s \in Seq(Calls)
  BY <1>1, AppendFacts DEF Fed
<1>3. QED
  BY <1>2 DEF s

\* A task is asked for.
LEMMA LifeBorn ==
  ASSUME LoopTypes, NEW k \in Single, Life(k), pc[k] = "none", Spawn(k),
         UNCHANGED <<mustCancel, cancelled, dying>>
  PROVE  Life(k)' /\ pc'[k] = "spawned" /\ ~cancelled'[k]
<1>1. queue \in Seq(Calls) /\ k \in Task
  BY TaskNames DEF LoopTypes, Calls
<1>2. queue' = queue \o <<ToCreate(k)>> /\ pc'[k] = "spawned"
  BY <1>1, OwnCallbacks, AppendedAsConcat DEF Spawn, LoopTypes, ToCreate
<1>3. /\ ~Has(queue, ToCreate(k)) /\ ~Has(queue, ToStep(k)) /\ ~Has(queue, ToCancel(k))
      /\ ~mustCancel[k] /\ ~cancelled[k] /\ ~Dying(k)
  BY DEF Life, BornOnce, FirstStepFirst, OnlyIfTold
<1>4. <<ToCreate(k)>> \in Seq(Calls) /\ Once(<<ToCreate(k)>>, ToCreate(k))
      /\ Has(<<ToCreate(k)>>, ToCreate(k))
      /\ ~Has(<<ToCreate(k)>>, ToCancel(k)) /\ ~Has(<<ToCreate(k)>>, ToStep(k))
  BY <1>1, OwnCallbacks, OneFacts
<1>5. /\ Has(queue', ToCreate(k)) /\ Once(queue', ToCreate(k))
      /\ ~Has(queue', ToCancel(k)) /\ ~Has(queue', ToStep(k))
  BY <1>1, <1>2, <1>3, <1>4, AppendFacts
<1>6. ~Dying(k)' /\ mustCancel' = mustCancel /\ cancelled' = cancelled
  BY <1>3 DEF Dying
<1>7. QED
  BY <1>2, <1>3, <1>5, <1>6 DEF Life, BornOnce, FirstStepFirst, OnlyIfTold, ToldForSure,
     ToCreate, ToStep, ToCancel

\* The loop makes a task that was asked for.
LEMMA LifeSpawned ==
  ASSUME LoopTypes, NEW k \in Task, Life(k), Create(k)
  PROVE  /\ queue \in Seq(Calls) /\ queue # <<>> /\ Head(queue) = ToCreate(k)
         /\ pc[k] = "spawned" /\ pc'[k] = "fresh" /\ mustCancel' = mustCancel
         /\ cancelled' = cancelled /\ dying' = dying
         /\ ~Has(queue, ToStep(k)) /\ ~Has(queue, ToCancel(k)) /\ ~mustCancel[k]
         /\ queue' = (Tail(queue) \o <<ToStep(k)>>)
                       \o (IF cancelled[k] THEN <<ToCancel(k)>> ELSE <<>>)
<1>1. queue \in Seq(Calls) /\ queue # <<>> /\ Head(queue) = ToCreate(k)
  BY DEF LoopTypes, Calls, Create, ToCreate
<1>2. Has(queue, ToCreate(k))
  BY <1>1, HeadTailProperties, LenProperties, EmptySeq DEF Has
<1>3. pc[k] = "spawned" /\ ~Has(queue, ToStep(k)) /\ ~Has(queue, ToCancel(k)) /\ ~mustCancel[k]
  BY <1>2 DEF Life, BornOnce, FirstStepFirst
<1>4. Append(Tail(queue), ToStep(k)) = Tail(queue) \o <<ToStep(k)>>
  BY <1>1, QueuePop, OwnCallbacks, AppendedAsConcat
<1>5. /\ pc'[k] = "fresh" /\ mustCancel' = mustCancel /\ cancelled' = cancelled
      /\ dying' = dying
  BY DEF Create, LoopTypes, nostrVars
<1>6. QED
  BY <1>1, <1>3, <1>4, <1>5 DEF Create, ToStep, ToCancel

\* The loop makes the task.
LEMMA LifeCreated ==
  ASSUME LoopTypes, NEW k \in Task, Life(k), Create(k)
  PROVE  Life(k)'
<1> DEFINE T == Tail(queue)
           Q == T \o <<ToStep(k)>>
<1>1. /\ queue \in Seq(Calls) /\ queue # <<>> /\ Head(queue) = ToCreate(k)
      /\ pc[k] = "spawned" /\ pc'[k] = "fresh" /\ mustCancel' = mustCancel
      /\ cancelled' = cancelled /\ dying' = dying
      /\ ~Has(queue, ToCancel(k)) /\ ~mustCancel[k]
      /\ queue' = Q \o (IF cancelled[k] THEN <<ToCancel(k)>> ELSE <<>>)
  BY LifeSpawned
<1>2. T \in Seq(Calls)
  BY <1>1, QueuePop
<1>3. ~Dying(k)' /\ ~Dying(k)
  <2>1. ~Dying(k)
    BY <1>1 DEF Life, OnlyIfTold
  <2>2. QED
    BY <1>1, <2>1 DEF Dying
<1>4. ~Has(T, ToCreate(k)) /\ ~Has(T, ToCancel(k)) /\ Once(T, ToCreate(k))
  BY <1>1, TailFacts DEF Life, BornOnce
<1>5. /\ Q \in Seq(Calls) /\ ~Has(Q, ToCreate(k)) /\ ~Has(Q, ToCancel(k))
      /\ Once(Q, ToCreate(k)) /\ Before(Q, ToStep(k), ToCancel(k))
  BY <1>2, <1>4, PushStep
<1>6. /\ ~Has(queue', ToCreate(k)) /\ Once(queue', ToCreate(k))
      /\ Before(queue', ToStep(k), ToCancel(k))
      /\ Has(queue', ToCancel(k)) <=> cancelled[k]
  <2> HIDE DEF Q
  <2>1. CASE cancelled[k]
    <3>1. queue' = Q \o <<ToCancel(k)>>
      BY <1>1, <2>1
    <3>2. QED
      BY <1>5, <2>1, <3>1, PushCancel DEF Fed
  <2>2. CASE ~cancelled[k]
    <3>1. queue' = Q
      BY <1>1, <1>5, <2>2, ConcatEmptySeq
    <3>2. QED
      BY <1>5, <2>2, <3>1
  <2>3. QED
    BY <2>1, <2>2
<1>7. QED
  BY <1>1, <1>3, <1>6 DEF Life, BornOnce, FirstStepFirst, OnlyIfTold, ToldForSure,
     ToCreate, ToStep, ToCancel

\* The cancellation reaches the task.
LEMMA LifeHears ==
  ASSUME LoopTypes, NEW k \in Task, Life(k), Cancel(k)
  PROVE  /\ Life(k)' /\ cancelled[k] /\ pc[k] \in Await \cup Finished
         /\ pc' = pc /\ mustCancel'[k] = (pc[k] \notin Finished)
         /\ cancelled' = cancelled /\ dying' = dying
         /\ queue \in Seq(Calls) /\ queue # <<>> /\ Head(queue) = ToCancel(k)
         /\ queue' = Tail(queue) \o <<ToStep(k)>> \/ queue' = Tail(queue) \o <<>>
<1> DEFINE T == Tail(queue)
<1>1. queue \in Seq(Calls) /\ queue # <<>> /\ Head(queue) = ToCancel(k)
  BY DEF LoopTypes, Calls, Cancel, ToCancel
<1>2. T \in Seq(Calls)
  BY <1>1, QueuePop
<1>3. Has(queue, ToCancel(k))
  BY <1>1, HeadTailProperties, LenProperties, EmptySeq DEF Has
<1>4. cancelled[k] /\ pc[k] \in Await \cup Finished
  <2>1. ~Before(queue, ToStep(k), ToCancel(k))
    BY <1>1, TailFacts
  <2>2. QED
    BY <1>1, <1>3, <2>1 DEF Life, OnlyIfTold, FirstStepFirst, LoopTypes
<1>5. ~Has(T, ToCreate(k)) /\ Once(T, ToCreate(k))
  BY <1>1, <1>4, TailFacts DEF Life, BornOnce
<1>6. queue' = T \o <<ToStep(k)>> \/ queue' = T \o <<>>
  BY <1>2, OwnCallbacks, AppendedAsConcat, ConcatEmptySeq DEF Cancel, ToStep
<1>7. ~Has(queue', ToCreate(k)) /\ Once(queue', ToCreate(k))
  BY <1>2, <1>5, <1>6, PushStep, ConcatEmptySeq
<1>8. /\ pc' = pc /\ mustCancel'[k] = (pc[k] \notin Finished)
      /\ cancelled' = cancelled /\ dying' = dying /\ (Dying(k)' <=> Dying(k))
  BY DEF Cancel, LoopTypes, nostrVars, Dying
<1>9. Life(k)'
  BY <1>4, <1>7, <1>8 DEF Life, BornOnce, FirstStepFirst, OnlyIfTold, ToldForSure,
     ToCreate, ToStep, ToCancel
<1>10. QED
  BY <1>1, <1>4, <1>6, <1>8, <1>9

\* What the task awaits is ready.
LEMMA LifeReady ==
  ASSUME LoopTypes, NEW k \in Task, Life(k), Complete(k)
  PROVE  /\ Life(k)' /\ UNCHANGED <<pc, mustCancel, cancelled, dying>>
         /\ queue \in Seq(Calls) /\ queue' = queue \o <<ToStep(k)>>
<1>1. queue \in Seq(Calls) /\ pc[k] \in Await
  BY DEF LoopTypes, Calls, Complete, Suspended
<1>2. queue' = queue \o <<ToStep(k)>>
  BY <1>1, OwnCallbacks, AppendedAsConcat DEF Complete, ToStep
<1>3. /\ Has(queue', ToCreate(k)) <=> Has(queue, ToCreate(k))
      /\ Has(queue', ToCancel(k)) <=> Has(queue, ToCancel(k))
      /\ Once(queue, ToCreate(k)) => Once(queue', ToCreate(k))
  BY <1>1, <1>2, PushStep
<1>4. UNCHANGED <<pc, mustCancel, cancelled, dying>> /\ (Dying(k)' <=> Dying(k))
  BY DEF Complete, nostrVars, Dying
<1>5. QED
  BY <1>1, <1>2, <1>3, <1>4 DEF Life, BornOnce, FirstStepFirst, OnlyIfTold, ToldForSure,
     ToCreate, ToStep, ToCancel

\* A step of a task leads to its next await or to its end; one that was told to go
\* leads to its end, or to the closing of its transport.
StepTo(k, p) ==
  /\ \E from \in Await \cup {"fresh"} : Step(k, from)
  /\ Goto(k, p) /\ p \in Await \cup Finished
  /\ p = "cancelled" => mustCancel[k] \/ Dying(k)
  /\ \/ dying' = dying /\ (k \in Single /\ (mustCancel[k] \/ Dying(k)) => p \in Finished)
     \/ /\ \E t \in Spawns : k = N(t) /\ dying' = [dying EXCEPT ![t] = TRUE]
        /\ mustCancel[k] /\ p = "closing"
  /\ UNCHANGED <<cancelled, running, nostrFut, spawns>>

\* Such a step, for the task ...
LEMMA LifeStepped ==
  ASSUME LoopTypes, NostrTypes, NEW k \in Single, Life(k), NEW p, StepTo(k, p)
  PROVE  /\ Life(k)'
         /\ queue \in Seq(Calls) /\ queue # <<>> /\ Head(queue) = ToStep(k)
         /\ queue' = Tail(queue) /\ Tail(queue) \in Seq(Calls)
         /\ pc[k] \in Await \cup {"fresh"} /\ pc'[k] = p /\ p \in Await \cup Finished
         /\ mustCancel[k] \/ Dying(k) => p \in Finished \/ Dying(k)'
<1> DEFINE T == Tail(queue)
<1>1. queue \in Seq(Calls) /\ k \in Task /\ queue # <<>> /\ Head(queue) = ToStep(k)
  BY TaskNames DEF LoopTypes, Calls, StepTo, Step, ToStep
<1>2. T \in Seq(Calls) /\ queue' = T
  BY <1>1, QueuePop DEF StepTo, Step
<1>3. /\ Has(T, ToCreate(k)) => Has(queue, ToCreate(k))
      /\ Has(T, ToCancel(k)) <=> Has(queue, ToCancel(k))
      /\ Once(queue, ToCreate(k)) => Once(T, ToCreate(k))
  BY <1>1, OwnCallbacks, TailFacts
<1>4. /\ pc[k] \in Await \cup {"fresh"} /\ pc'[k] = p /\ p \in Await \cup Finished
      /\ mustCancel'[k] = FALSE /\ cancelled' = cancelled
      /\ p = "cancelled" => mustCancel[k] \/ Dying(k)
  BY <1>1 DEF StepTo, Step, Goto, LoopTypes
<1>5. \/ (Dying(k)' <=> Dying(k)) /\ (mustCancel[k] \/ Dying(k) => p \in Finished)
      \/ Dying(k)' /\ mustCancel[k] /\ p = "closing"
  <2>1. CASE dying' = dying /\ (mustCancel[k] \/ Dying(k) => p \in Finished)
    BY <2>1 DEF Dying
  <2>2. CASE /\ \E t \in Spawns : k = N(t) /\ dying' = [dying EXCEPT ![t] = TRUE]
             /\ mustCancel[k] /\ p = "closing"
    <3>1. PICK t \in Spawns : k = N(t) /\ dying' = [dying EXCEPT ![t] = TRUE]
      BY <2>2
    <3>2. dying'[t]
      BY <3>1 DEF NostrTypes
    <3>3. QED
      BY <2>2, <3>1, <3>2 DEF Dying
  <2>3. QED
    BY <2>1, <2>2 DEF StepTo
<1>6. CASE (Dying(k)' <=> Dying(k)) /\ (mustCancel[k] \/ Dying(k) => p \in Finished)
  BY <1>1, <1>2, <1>3, <1>4, <1>6 DEF Life, BornOnce, FirstStepFirst, OnlyIfTold, ToldForSure,
     ToCreate, ToStep, ToCancel
<1>7. CASE Dying(k)' /\ mustCancel[k] /\ p = "closing"
  BY <1>1, <1>2, <1>3, <1>4, <1>7 DEF Life, BornOnce, FirstStepFirst, OnlyIfTold, ToldForSure,
     ToCreate, ToStep, ToCancel
<1>8. QED
  BY <1>5, <1>6, <1>7

\* ... and for the others.
LEMMA SteppedOther ==
  ASSUME LoopTypes, NostrTypes, NEW i \in Task, NEW p, StepTo(i, p), NEW k \in Task, i # k
  PROVE  Same(k) /\ Alike(k)
<1>1. Dying(k)' <=> Dying(k)
  <2>1. CASE dying' = dying
    BY <2>1 DEF Dying
  <2>2. CASE \E t \in Spawns : i = N(t) /\ dying' = [dying EXCEPT ![t] = TRUE]
    <3>1. PICK t \in Spawns : i = N(t) /\ dying' = [dying EXCEPT ![t] = TRUE]
      BY <2>2
    <3>2. \A u \in Spawns : k = N(u) => (dying'[u] <=> dying[u])
      BY <3>1 DEF NostrTypes
    <3>3. QED
      BY <3>2 DEF Dying
  <2>3. QED
    BY <2>1, <2>2 DEF StepTo
<1>2. QED
  BY <1>1, TaskNames, StepOther DEF StepTo

\* What stop_server queues for task i, as task k sees it.
LEMMA ToldOnce ==
  ASSUME NEW q \in Seq(Calls), NEW k \in Task, NEW i \in Task
  PROVE  /\ CancelCall(i) \in Seq(Calls) /\ q \o CancelCall(i) \in Seq(Calls)
         /\ Fed(k, q, q \o CancelCall(i), i = k /\ pc[i] \notin {"spawned"} \cup Finished)
<1>1. CASE CancelCall(i) = <<>>
  <2>1. q \o CancelCall(i) = q /\ CancelCall(i) \in Seq(Calls)
    BY <1>1, ConcatEmptySeq
  <2>2. pc[i] \in {"spawned"} \cup Finished
    BY <1>1 DEF CancelCall
  <2>3. QED
    BY <2>1, <2>2 DEF Fed
<1>2. CASE CancelCall(i) = <<ToCancel(i)>> /\ pc[i] \notin {"spawned"} \cup Finished
  <2>1. CancelCall(i) \in Seq(Calls) /\ q \o CancelCall(i) \in Seq(Calls)
    BY <1>2, OwnCallbacks, PushCancel
  <2>2. CASE i = k
    BY <1>2, <2>1, <2>2, PushCancel
  <2>3. CASE i # k
    <3>1. NotFor(k, CancelCall(i))
      BY <1>2, <2>3, OthersCallbacks DEF Ops, ToCancel
    <3>2. QED
      BY <2>1, <2>3, <3>1, OthersCome
  <2>4. QED
    BY <2>1, <2>2, <2>3
<1>3. QED
  BY <1>1, <1>2 DEF CancelCall, ToCancel

\* stop_server cancels what it holds.
LEMMA LifeTold ==
  ASSUME LoopTypes, OwnerTypes, StopCancel, NEW k \in Single, Life(k),
         k \in CurrentFutures => pc[k] # "none"
  PROVE  /\ Life(k)' /\ UNCHANGED <<pc, mustCancel, dying, running, spawns>>
         /\ cancelled'[k] = (cancelled[k] \/ (k \in CurrentFutures /\ pc[k] \notin Finished))
         /\ k \notin CurrentFutures => Alike(k)
         /\ queue \in Seq(Calls) /\ \E s \in Seq(Calls) : queue' = queue \o s
<1> DEFINE A == IF httpFut = 0 THEN <<>> ELSE CancelCall(<<"http", httpFut>>)
           B == IF nostrFut = 0 THEN <<>> ELSE CancelCall(<<"nostr", nostrFut>>)
           a == httpFut # 0 /\ <<"http", httpFut>> = k /\ pc[k] \notin {"spawned"} \cup Finished
           b == nostrFut # 0 /\ <<"nostr", nostrFut>> = k /\ pc[k] \notin {"spawned"} \cup Finished
<1>1. /\ queue \in Seq(Calls) /\ k \in Task /\ <<>> \in Seq(Calls)
      /\ httpFut # 0 => <<"http", httpFut>> \in Task
      /\ nostrFut # 0 => <<"nostr", nostrFut>> \in Task
  BY TaskNames, Bounds DEF LoopTypes, OwnerTypes, Calls, Task
<1>2. /\ UNCHANGED <<pc, mustCancel, dying, running, spawns>>
      /\ queue' = queue \o (A \o B) /\ (Dying(k)' <=> Dying(k))
  BY DEF StopCancel, nostrVars, CancelCalls, Dying
<1>3. cancelled'[k] = (cancelled[k] \/ (k \in CurrentFutures /\ pc[k] \notin Finished))
  BY <1>1 DEF StopCancel
<1>4. A \in Seq(Calls) /\ queue \o A \in Seq(Calls) /\ Fed(k, queue, queue \o A, a)
  <2>1. CASE httpFut = 0
    BY <1>1, <2>1, ConcatEmptySeq DEF Fed
  <2>2. CASE httpFut # 0
    BY <1>1, <2>2, ToldOnce
  <2>3. QED
    BY <2>1, <2>2
<1>5. B \in Seq(Calls) /\ Fed(k, queue \o A, (queue \o A) \o B, b)
  <2> HIDE DEF A
  <2>1. CASE nostrFut = 0
    BY <1>1, <1>4, <2>1, ConcatEmptySeq DEF Fed
  <2>2. CASE nostrFut # 0
    BY <1>1, <1>4, <2>2, ToldOnce
  <2>3. QED
    BY <2>1, <2>2
<1>6. A \o B \in Seq(Calls) /\ queue' = (queue \o A) \o B
  <2> HIDE DEF A, B
  <2>1. QED
    BY <1>1, <1>2, <1>4, <1>5, ConcatAssociative, ConcatProperties
<1>7. Fed(k, queue, queue', a \/ b)
  <2> HIDE DEF A, B
  <2>1. QED
    BY <1>4, <1>5, <1>6, FedTwice
<1>8. a \/ b <=> k \in CurrentFutures /\ pc[k] \notin {"spawned"} \cup Finished
  BY DEF CurrentFutures
<1>9. Life(k)'
  <2> HIDE DEF A, B, a, b
  <2>1. k \in CurrentFutures \/ k \notin CurrentFutures
    OBVIOUS
  <2>2. pc[k] \in PC
    BY <1>1 DEF LoopTypes
  <2>3. QED
    BY <1>2, <1>3, <1>7, <1>8, <2>1, <2>2 DEF Life, BornOnce, FirstStepFirst, OnlyIfTold,
       ToldForSure, Fed, ToCreate, ToStep, ToCancel
<1>10. k \notin CurrentFutures => Alike(k)
  BY <1>1, <1>2, <1>3 DEF Alike, LoopTypes
<1>11. QED
  BY <1>1, <1>2, <1>3, <1>6, <1>9, <1>10

-----------------------------------------------------------------------------
(* The steps of coroutines.                                                *)

\* Every step of _nostr_startup is a step of its task.
LEMMA NostrSteps ==
  ASSUME IInv, NEW t \in Spawns, Life(N(t)), NostrStep(t)
  PROVE  (\E p : StepTo(N(t), p)) \/ ShutdownTransport(t)
<1> USE DEF Step, Goto, StepTo, SetRelay, CancelledAt
<1>0. LoopTypes /\ NostrTypes
  BY DEF IInv, TypeOK
<1>1. /\ N(t) \in Task /\ pc[N(t)] \in PC /\ (pc[N(t)] = "fresh" => ~mustCancel[N(t)])
      /\ (Dying(N(t)) <=> dying[t]) /\ (dying[t] => pc[N(t)] \in {"closing"} \cup Finished)
  BY <1>0, Tasks, TaskNames DEF LoopTypes, Life, FirstStepFirst, OnlyIfTold
<1>2. ASSUME ServeOneTransport(t)
      PROVE  \E p \in {"backoff", "lockwait", "connect"} : Goto(N(t), p)
  BY <1>2 DEF ServeOneTransport, Build
<1>3. CASE PowReady(t) \/ Retry(t)
  <2>1. PICK p \in {"backoff", "lockwait", "connect"} : Goto(N(t), p)
    BY <1>2, <1>3 DEF PowReady, Retry
  <2>2. StepTo(N(t), p)
    BY <1>1, <1>3, <2>1 DEF PowReady, Retry, nostrFrame, ownerVars
  <2>3. QED
    BY <2>2
<1>4. CASE PowGrind(t)
  <2>1. StepTo(N(t), "pow")
    BY <1>1, <1>4 DEF PowGrind, nostrFrame, ownerVars
  <2>2. QED
    BY <2>1
<1>5. CASE \E found \in BOOLEAN : PowEnds(t, found)
  <2>1. PICK p \in {"backoff", "lockwait", "connect"} : Goto(N(t), p)
    BY <1>2, <1>5 DEF PowEnds
  <2>2. StepTo(N(t), p)
    BY <1>1, <1>5, <2>1 DEF PowEnds, nostrFrame, ownerVars
  <2>3. QED
    BY <2>2
<1>6. CASE PowCancelled(t) \/ CancelledIdle(t)
  <2>1. StepTo(N(t), "cancelled")
    BY <1>1, <1>6 DEF PowCancelled, CancelledIdle, nostrFrame, quietFrame, ownerVars
  <2>2. QED
    BY <2>1
<1>7. CASE PowRaises(t)
  <2>1. StepTo(N(t), "failed")
    BY <1>1, <1>7 DEF PowRaises, nostrFrame, ownerVars
  <2>2. QED
    BY <2>1
<1>8. CASE LockPoll(t)
  <2>1. PICK p \in {"backoff", "lockwait", "connect"} : Goto(N(t), p)
    BY <1>8 DEF LockPoll, Build
  <2>2. StepTo(N(t), p)
    BY <1>1, <1>8, <2>1 DEF LockPoll, nostrFrame, ownerVars
  <2>3. QED
    BY <2>2
<1>9. CASE Connected(t) \/ NoRelay(t) \/ Tick(t)
  <2>1. PICK p \in {"publish", "tick", "closing"} : Goto(N(t), p)
    BY <1>9 DEF Connected, NoRelay, Tick, Send
  <2>2. StepTo(N(t), p)
    BY <1>1, <1>9, <2>1 DEF Connected, NoRelay, Tick, nostrFrame, quietFrame, ownerVars
  <2>3. QED
    BY <2>2
<1>10. CASE Published(t) \/ Unacknowledged(t)
  <2>1. PICK p \in {"tick", "closing"} : Goto(N(t), p)
    BY <1>10 DEF Published, Unacknowledged
  <2>2. StepTo(N(t), p)
    BY <1>1, <1>10, <2>1 DEF Published, Unacknowledged, nostrFrame, quietFrame, ownerVars
  <2>3. QED
    BY <2>2
<1>11. CASE CancelledInTransport(t)
  <2>1. StepTo(N(t), "closing")
    BY <1>1, <1>11 DEF CancelledInTransport, nostrFrame, quietFrame, ownerVars
  <2>2. QED
    BY <2>1
<1>12. CASE Closed(t)
  <2>1. CASE dying[t] \/ mustCancel[N(t)]
    <3>1. StepTo(N(t), "cancelled")
      BY <1>1, <1>12, <2>1 DEF Closed, nostrFrame, quietFrame, ownerVars
    <3>2. QED
      BY <3>1
  <2>2. CASE ~(dying[t] \/ mustCancel[N(t)])
    <3>1. StepTo(N(t), "backoff")
      BY <1>1, <1>12, <2>2 DEF Closed, nostrFrame, quietFrame, ownerVars
    <3>2. QED
      BY <3>1
  <2>3. QED
    BY <2>1, <2>2
<1>13. QED
  BY <1>3, <1>4, <1>5, <1>6, <1>7, <1>8, <1>9, <1>10, <1>11, <1>12 DEF NostrStep

\* Every step of an HTTP server or of its stop is a step of their task.
LEMMA HttpSteps ==
  ASSUME IInv, NEW n \in Runs, Life(Server(n)), Life(Stopper(n)), ~cancelled[Stopper(n)],
         HttpStep(n)
  PROVE  \E k \in {Server(n), Stopper(n)}, p \in PC : StepTo(k, p)
<1> USE DEF Step, Goto, StepTo, CancelledAt, Server, Stopper
<1>1. /\ ~Dying(Server(n)) /\ ~Dying(Stopper(n)) /\ ~mustCancel[Stopper(n)]
      /\ (pc[Server(n)] = "fresh" => ~mustCancel[Server(n)])
  BY TaskNames DEF Life, FirstStepFirst, OnlyIfTold
<1>2. UNCHANGED <<cancelled, running, nostrFut, spawns, dying>>
  BY DEF HttpStep, HttpCancelled, HttpSetup, HttpBound, HttpBindFails, HttpStop, HttpStopped,
     httpFrame, ownerVars, nostrVars
<1>3. CASE HttpCancelled(n)
  <2>1. StepTo(Server(n), "cancelled")
    BY <1>1, <1>2, <1>3 DEF HttpCancelled
  <2>2. QED
    BY <2>1
<1>4. CASE HttpSetup(n)
  <2>1. PICK p \in {"lockwait", "binding"} : Goto(Server(n), p)
    BY <1>4 DEF HttpSetup
  <2>2. StepTo(Server(n), p)
    BY <1>1, <1>2, <1>4, <2>1 DEF HttpSetup
  <2>3. QED
    BY <2>2
<1>5. CASE HttpBound(n) \/ HttpBindFails(n)
  <2>1. PICK p \in {"done", "failed"} : Goto(Server(n), p)
    BY <1>5 DEF HttpBound, HttpBindFails
  <2>2. StepTo(Server(n), p)
    BY <1>1, <1>2, <1>5, <2>1 DEF HttpBound, HttpBindFails
  <2>3. QED
    BY <2>2
<1>6. CASE HttpStop(n) \/ HttpStopped(n)
  <2>1. PICK p \in {"cleanup", "done"} : Goto(Stopper(n), p)
    BY <1>6 DEF HttpStop, HttpStopped
  <2>2. StepTo(Stopper(n), p)
    BY <1>1, <1>2, <1>6, <2>1 DEF HttpStop, HttpStopped
  <2>3. QED
    BY <2>2
<1>7. QED
  BY <1>3, <1>4, <1>5, <1>6 DEF HttpStep

-----------------------------------------------------------------------------
(* The kinds of steps.                                                     *)

Nobody == \A t \in Spawns : ~Working(N(t))

SpawnsOther ==
  /\ \E k \in Task : /\ Spawn(k) /\ \A t \in Spawns : k # N(t)
                     /\ k \in Single => pc[k] = "none"
  /\ UNCHANGED <<mustCancel, cancelled, dying, nostrFut, spawns, running>>

SpawnsAnnouncer ==
  /\ spawns + 1 \in Spawns /\ SpawnNostr(spawns + 1)
  /\ UNCHANGED <<mustCancel, cancelled, dying>>
  /\ Nobody /\ running'

\* Nobody announces while the plugin holds no future, or that of a dead task.
LEMMA NobodyLeft ==
  ASSUME HolderInv, nostrFut = 0 \/ NostrTaskFailed
  PROVE  Nobody
<1>1. 0 \notin Spawns
  BY Bounds
<1>2. NostrTaskFailed => ~Working(N(nostrFut))
  BY DEF NostrTaskFailed, Working, N
<1>3. QED
  BY <1>1, <1>2 DEF Nobody, HolderInv, Announcer

\* Everything the Qt thread does.
LEMMA GuiKinds ==
  ASSUME IInv, LifeInv, GuiStep \/ Toggle \/ CloseWallet \/ Supervise \/ ThrottleExpires
                  \/ (\E c \in Configs : Save(c)) \/ (\E w \in Wallets : LoadWallet(w))
  PROVE  \/ UNCHANGED <<lifeVars, nostrFut, spawns, running>>
         \/ UNCHANGED <<lifeVars, nostrFut, spawns>> /\ Nobody /\ (running' => ~running)
         \/ SpawnsOther \/ SpawnsAnnouncer \/ StopCancel
<1> USE DEF lifeVars, ownerVars, loopVars, nostrVars, httpVars
<1>0. OwnerTypes /\ HttpTypes /\ NoteTypes /\ StoppedFirst /\ WalletBound /\ RoomKept
      /\ wallet \in Wallets \cup {NoWallet} /\ HolderInv
  BY DEF IInv, TypeOK, OwnerInv, OwnerTypes, LifeInv
<1>1. nostrFut = 0 \/ NostrTaskFailed => Nobody
  BY <1>0, NobodyLeft
<1>2. CASE Toggle \/ CloseWallet \/ ThrottleExpires \/ (\E c \in Configs : Save(c))
           \/ (\E w \in Wallets : LoadWallet(w)) \/ Unbind \/ StartRecord \/ StartReset
  BY <1>2 DEF Toggle, CloseWallet, ThrottleExpires, Save, LoadWallet, Unbind, StartRecord,
     StartReset
<1>3. CASE StopFlags
  <2>1. nostrFut = 0
    BY <1>0, <1>3 DEF StopFlags, StoppedFirst
  <2>2. QED
    BY <1>1, <1>3, <2>1 DEF StopFlags
<1>4. CASE StopHttp
  <2>1. CASE httpOf[wallet] = 0
    BY <1>4, <2>1 DEF StopHttp
  <2>2. CASE httpOf[wallet] # 0
    <3>1. wallet \in Wallets /\ httpOf[wallet] \in Runs
      BY <1>0, <1>4, <2>2, Bounds DEF StopHttp, WalletBound, OwnerTypes
    <3>2. /\ <<"http-stop", httpOf[wallet]>> \in Task
          /\ \A t \in Spawns : <<"http-stop", httpOf[wallet]>> # N(t)
          /\ pc[<<"http-stop", httpOf[wallet]>>] = "none"
      BY <1>0, <3>1, Tasks DEF N, HolderInv, Listener, Stopper
    <3>3. QED
      BY <1>4, <2>2, <3>2 DEF StopHttp, SpawnsOther
  <2>3. QED
    BY <2>1, <2>2
<1>5. CASE StopTransport
  <2>1. CASE live = 0
    BY <1>5, <2>1 DEF StopTransport
  <2>2. CASE live # 0
    <3>0. live \in Spawns
      BY <1>0, <2>2, Bounds DEF NoteTypes
    <3>1. /\ <<"nostr-stop", live>> \in Task /\ \A t \in Spawns : <<"nostr-stop", live>> # N(t)
          /\ <<"nostr-stop", live>> \notin Single
      BY <3>0, Tasks DEF N, Single
    <3>2. QED
      BY <1>5, <2>2, <3>1 DEF StopTransport, SpawnsOther
  <2>3. QED
    BY <2>1, <2>2
<1>6. CASE StartHttp
  <2>1. CASE config.port = 0
    BY <1>6, <2>1 DEF StartHttp
  <2>2. CASE config.port # 0
    <3>1. runs \in Runs
      BY <1>0, <1>6 DEF RoomKept, StartHttp, Starting
    <3>2. /\ <<"http", runs>> \in Task /\ \A t \in Spawns : <<"http", runs>> # N(t)
          /\ pc[<<"http", runs>>] = "none"
      BY <1>0, <1>6, <3>1, Tasks DEF N, HolderInv, Listener, Server, StartHttp
    <3>3. Spawn(<<"http", runs>>)
          /\ UNCHANGED <<mustCancel, cancelled, dying, nostrFut, spawns, running>>
      BY <1>6, <2>2 DEF StartHttp
    <3>4. QED
      BY <3>2, <3>3 DEF SpawnsOther
  <2>3. QED
    BY <2>1, <2>2
<1>7. CASE StartNostr
  <2>1. nostrFut = 0 /\ ~running
    BY <1>0, <1>7 DEF StoppedFirst, StartNostr, Starting
  <2>2. spawns + 1 \in Spawns
    BY <1>0, <1>7, Bounds DEF RoomKept, StartNostr, Starting, OwnerTypes
  <2>3. QED
    BY <1>1, <1>7, <2>1, <2>2 DEF StartNostr, SpawnsAnnouncer
<1>8. CASE Supervise
  <2>1. spawns + 1 \in Spawns
    BY <1>0, <1>8, Bounds DEF Supervise, OwnerTypes
  <2>2. NostrTaskFailed /\ running'
    BY <1>8 DEF Supervise, NostrTaskFailed
  <2>3. QED
    BY <1>1, <1>8, <2>1, <2>2 DEF Supervise, SpawnsAnnouncer
<1>9. QED
  BY <1>2, <1>3, <1>4, <1>5, <1>6, <1>7, <1>8 DEF GuiStep

\* Everything the loop and its surroundings do.
LEMMA LoopKinds ==
  ASSUME IInv, LifeInv,
         \/ RunCallback \/ \E k \in Task : Complete(k)
         \/ TakerStep \/ \E w \in Lockable : SetLock(w)
  PROVE  \/ UNCHANGED <<lifeVars, nostrFut, spawns, running>>
         \/ \E k \in Task : Calling(k)
         \/ \E k \in Task, p \in PC : StepTo(k, p)
<1>1. CASE TakerStep \/ \E w \in Lockable : SetLock(w)
  BY <1>1 DEF TakerStep, HttpRequest, HttpCreateSwap, NostrCreateSwap, SetLock, swapFrame,
     lifeVars, loopVars, ownerVars, nostrVars
<1>2. CASE \E k \in Task : Create(k) \/ Cancel(k) \/ Complete(k)
  BY <1>2 DEF Calling
<1>3. CASE \E n \in Runs : HttpStep(n)
  <2>1. PICK n \in Runs : HttpStep(n)
    BY <1>3
  <2>2. Life(Server(n)) /\ Life(Stopper(n)) /\ ~cancelled[Stopper(n)]
    BY <2>1, TaskNames DEF LifeInv, TaskInv, HolderInv, Listener
  <2>3. QED
    BY <2>1, <2>2, HttpSteps, TaskNames
<1>4. CASE \E t \in Spawns : NostrStep(t)
  <2>1. PICK t \in Spawns : NostrStep(t)
    BY <1>4
  <2>2. CASE \E p : StepTo(N(t), p)
    <3>1. \A p : StepTo(N(t), p) => p \in PC
      BY DEF StepTo
    <3>2. QED
      BY <2>1, <2>2, <3>1, Tasks
  <2>3. CASE ShutdownTransport(t)
    <3>1. <<"nostr-stop", t>> \in Task /\ <<"nostr-stop", t>> \notin Single
      BY <2>1, Tasks DEF Single
    <3>2. PICK from \in {"fresh", "stopping"}, p \in {"stopping", "done"} :
            Step(<<"nostr-stop", t>>, from) /\ Goto(<<"nostr-stop", t>>, p)
      BY <2>3 DEF ShutdownTransport
    <3>3. UNCHANGED <<cancelled, dying, nostrFut, spawns, running>>
      BY <2>3 DEF ShutdownTransport, quietFrame, nostrFrame, ownerVars
    <3>4. StepTo(<<"nostr-stop", t>>, p)
      BY <3>1, <3>2, <3>3 DEF StepTo
    <3>5. QED
      BY <3>1, <3>2, <3>4
  <2>4. QED
    BY <2>1, <2>2, <2>3, NostrSteps, TaskNames DEF LifeInv, TaskInv
<1>5. QED
  BY <1>1, <1>2, <1>3, <1>4 DEF RunCallback

\* Every step is of one of these kinds.
LEMMA Kinds ==
  ASSUME IInv, LifeInv, [Next]_vars
  PROVE  \/ UNCHANGED <<lifeVars, nostrFut, spawns, running>>
         \/ UNCHANGED <<lifeVars, nostrFut, spawns>> /\ Nobody /\ (running' => ~running)
         \/ SpawnsOther \/ SpawnsAnnouncer \/ StopCancel
         \/ \E k \in Task : Calling(k)
         \/ \E k \in Task, p \in PC : StepTo(k, p)
<1>1. CASE UNCHANGED vars
  BY <1>1 DEF vars, lifeVars, loopVars, ownerVars, nostrVars
<1>2. CASE Next
  BY <1>2, GuiKinds, LoopKinds DEF Next, UserStep
<1>3. QED
  BY <1>1, <1>2

-----------------------------------------------------------------------------
(* The invariant.                                                          *)

\* Before anything runs.
LEMMA LifeInit == Init => LifeInv
<1> SUFFICES ASSUME Init PROVE LifeInv
  OBVIOUS
<1>1. \A k \in Single : pc[k] = "none" /\ ~mustCancel[k] /\ ~cancelled[k] /\ ~Dying(k)
  BY TaskNames DEF Init, Dying
<1>2. queue = <<>> /\ nostrFut = 0 /\ httpFut = 0 /\ \A w \in Wallets : httpOf[w] = 0
  BY DEF Init
<1>3. \A x : ~Has(queue, x) /\ Once(queue, x)
  BY <1>2 DEF Has, Once
<1>4. TaskInv
  BY <1>1, <1>3 DEF TaskInv, Life, BornOnce, FirstStepFirst, OnlyIfTold, ToldForSure
<1>5. 0 \notin Spawns /\ 0 \notin Runs
  BY Bounds
<1>6. HolderInv
  BY <1>1, <1>2, <1>5, TaskNames DEF HolderInv, Announcer, Listener, Working
<1>7. QED
  BY <1>4, <1>6 DEF LifeInv

\* What the plugin holds has been asked for.
LEMMA CurrentAsked ==
  ASSUME HolderInv, OwnerTypes, NEW k \in Single, k \in CurrentFutures
  PROVE  pc[k] # "none"
<1>1. httpFut # 0 => httpFut \in Runs
  BY Bounds DEF OwnerTypes
<1>2. nostrFut # 0 => nostrFut \in Spawns
  BY Bounds DEF OwnerTypes
<1>3. QED
  BY <1>1, <1>2 DEF CurrentFutures, HolderInv, Announcer, Listener, N, Server

\* No step of any kind breaks the life of any task.
LEMMA LifeKept == IInv /\ LifeInv /\ [Next]_vars => TaskInv'
<1> SUFFICES ASSUME IInv, LifeInv, [Next]_vars, NEW k \in Single PROVE Life(k)'
  BY DEF TaskInv
<1>0. Life(k) /\ LoopTypes /\ NostrTypes /\ OwnerTypes /\ k \in Task /\ HolderInv
  BY TaskNames DEF LifeInv, TaskInv, IInv, TypeOK
<1>1. CASE UNCHANGED lifeVars
  <2>1. Dying(k)' <=> Dying(k)
    BY <1>1 DEF lifeVars, Dying
  <2>2. QED
    BY <1>0, <1>1, <2>1 DEF lifeVars, Life, BornOnce, FirstStepFirst, OnlyIfTold, ToldForSure,
       ToCreate, ToStep, ToCancel
<1>2. CASE SpawnsOther
  <2>1. PICK i \in Task : Spawn(i) /\ (i \in Single => pc[i] = "none")
    BY <1>2 DEF SpawnsOther
  <2>2. CASE i = k
    BY <1>0, <1>2, <2>1, <2>2, LifeBorn DEF SpawnsOther
  <2>3. CASE i # k
    BY <1>0, <1>2, <2>1, <2>3, SpawnOther, LifeSame DEF SpawnsOther
  <2>4. QED
    BY <2>2, <2>3
<1>3. CASE SpawnsAnnouncer
  <2>1. PICK t \in Spawns : t = spawns + 1
    BY <1>3 DEF SpawnsAnnouncer
  <2>2. Spawn(N(t)) /\ N(t) \in Task /\ pc[N(t)] = "none"
    <3>1. spawns \in Nat
      BY <1>0, Bounds DEF OwnerTypes
    <3>2. Spawn(N(t))
      BY <1>3, <2>1 DEF SpawnsAnnouncer, SpawnNostr, N
    <3>3. Announcer(t) /\ t > spawns
      BY <1>0, <2>1, <3>1 DEF HolderInv
    <3>4. QED
      BY <3>2, <3>3, Tasks DEF Announcer
  <2>3. CASE N(t) = k
    BY <1>0, <1>3, <2>2, <2>3, LifeBorn DEF SpawnsAnnouncer
  <2>4. CASE N(t) # k
    BY <1>0, <1>3, <2>2, <2>4, SpawnOther, LifeSame DEF SpawnsAnnouncer
  <2>5. QED
    BY <2>3, <2>4
<1>4. CASE StopCancel
  BY <1>0, <1>4, LifeTold, CurrentAsked
<1>5. CASE \E i \in Task : Calling(i)
  <2>1. PICK i \in Task : Calling(i)
    BY <1>5
  <2>2. CASE i = k
    BY <1>0, <2>1, <2>2, LifeCreated, LifeHears, LifeReady DEF Calling
  <2>3. CASE i # k
    BY <1>0, <2>1, <2>3, CallbackOther, LifeSame
  <2>4. QED
    BY <2>2, <2>3
<1>6. CASE \E i \in Task, p \in PC : StepTo(i, p)
  <2>1. PICK i \in Task, p \in PC : StepTo(i, p)
    BY <1>6
  <2>2. CASE i = k
    BY <1>0, <2>1, <2>2, LifeStepped
  <2>3. CASE i # k
    BY <1>0, <2>1, <2>3, SteppedOther, LifeSame
  <2>4. QED
    BY <2>2, <2>3
<1>7. QED
  BY <1>1, <1>2, <1>3, <1>4, <1>5, <1>6, Kinds DEF lifeVars

\* The loop does not ask for tasks, and takes nobody's cancellation back.
LEMMA LoopKeeps ==
  ASSUME IInv, LifeInv, \/ \E i \in Task : Calling(i)
                        \/ \E i \in Task, p \in PC : StepTo(i, p)
  PROVE  /\ cancelled' = cancelled
         /\ \A k \in Single : (pc'[k] = "none" <=> pc[k] = "none") /\ (Working(k)' => Working(k))
<1>0. LoopTypes /\ NostrTypes
  BY DEF IInv, TypeOK
<1>1. cancelled' = cancelled
  BY DEF Calling, Create, Cancel, Complete, StepTo
<1>2. SUFFICES ASSUME NEW k \in Single
               PROVE  /\ pc'[k] = "none" <=> pc[k] = "none"
                      /\ pc'[k] \notin Finished \cup {"none"} => pc[k] \notin Finished \cup {"none"}
  BY <1>1 DEF Working
<1>3. k \in Task /\ Life(k)
  BY TaskNames DEF LifeInv, TaskInv
<1>4. CASE \E i \in Task : Calling(i)
  <2>1. PICK i \in Task : Calling(i)
    BY <1>4
  <2>2. CASE i = k
    BY <1>0, <1>3, <2>1, <2>2, LifeSpawned, LifeHears, LifeReady DEF Calling
  <2>3. CASE i # k
    BY <1>0, <1>3, <2>1, <2>3, CallbackOther DEF Alike
  <2>4. QED
    BY <2>2, <2>3
<1>5. CASE \E i \in Task, p \in PC : StepTo(i, p)
  <2>1. PICK i \in Task, p \in PC : StepTo(i, p)
    BY <1>5
  <2>2. CASE i = k
    BY <1>0, <1>3, <2>1, <2>2, LifeStepped
  <2>3. CASE i # k
    BY <1>0, <1>3, <2>1, <2>3, SteppedOther DEF Alike
  <2>4. QED
    BY <2>2, <2>3
<1>6. QED
  BY <1>4, <1>5

\* A task that was never asked for is asked for.
LEMMA Born ==
  ASSUME LoopTypes, NEW i \in Task, Spawn(i), UNCHANGED cancelled
  PROVE  /\ pc'[i] = "spawned"
         /\ \A k \in Task : k # i => pc'[k] = pc[k] /\ (Working(k)' <=> Working(k))
BY DEF LoopTypes, Spawn, Working

\* Steps of the Qt thread that ask for no task and cancel none.
LEMMA HolderQuiet ==
  ASSUME HolderInv, StoppedFirst, OwnerTypes,
         UNCHANGED <<pc, cancelled, nostrFut, spawns, httpOf, httpFut, serverWallet>>,
         \/ /\ runs' = runs
            /\ gui' \in {"start_reset", "start_http"} => gui \in {"start_reset", "start_http"}
         \/ gui = "start_record" /\ runs' = runs + 1
  PROVE  HolderInv'
<1>1. ASSUME NEW t \in Spawns PROVE Announcer(t)'
  BY DEF HolderInv, Announcer, Working
<1>2. ASSUME NEW n \in Runs PROVE Listener(n)'
  <2>1. Listener(n)
    BY DEF HolderInv
  <2>2. CASE runs' = runs
             /\ (gui' \in {"start_reset", "start_http"} => gui \in {"start_reset", "start_http"})
    BY <2>1, <2>2 DEF Listener, Working
  <2>3. CASE gui = "start_record" /\ runs' = runs + 1
    <3>1. httpFut = 0 /\ n # 0 /\ runs \in Nat /\ n \in Nat
      BY <2>3, Bounds DEF StoppedFirst, OwnerTypes, Stopping, Starting
    <3>2. n >= runs' => n > runs
      BY <2>3, <3>1
    <3>3. n > runs' \/ n = runs' => pc[Server(n)] = "none"
      BY <2>1, <2>3, <3>1, <3>2 DEF Listener
    <3>4. QED
      BY <2>1, <3>1, <3>3 DEF Listener, Working
  <2>4. QED
    BY <2>2, <2>3
<1>3. QED
  BY <1>1, <1>2 DEF HolderInv

\* The Qt thread and the loop keep the books of who has been asked for.
LEMMA HolderKept == IInv /\ LifeInv /\ [Next]_vars => HolderInv'
<1> SUFFICES ASSUME IInv, LifeInv, [Next]_vars PROVE HolderInv'
  OBVIOUS
<1>0. /\ LoopTypes /\ OwnerTypes /\ HttpTypes /\ NoteTypes /\ StoppedFirst /\ WalletBound
      /\ RoomKept /\ HolderInv /\ gui \in GuiPC
  BY DEF IInv, TypeOK, GuiTypes, OwnerInv, LifeInv
<1> USE DEF ownerVars, loopVars, httpVars, nostrVars
<1>1. CASE UNCHANGED vars
  BY <1>0, <1>1, HolderQuiet DEF vars, guiVars
<1>2. CASE \/ RunCallback \/ \E k \in Task : Complete(k)
           \/ TakerStep \/ \E w \in Lockable : SetLock(w)
  <2>1. UNCHANGED <<gui, nostrFut, spawns, httpOf, httpFut, serverWallet, runs>>
    BY <1>2, LoopFrame DEF IInv, guiVars
  <2>2. /\ cancelled' = cancelled
        /\ \A k \in Single : (pc'[k] = "none" <=> pc[k] = "none") /\ (Working(k)' => Working(k))
    BY <1>2, LoopKinds, LoopKeeps DEF lifeVars, Working
  <2>3. ASSUME NEW t \in Spawns PROVE Announcer(t)'
    BY <1>0, <2>1, <2>2, TaskNames DEF HolderInv, Announcer
  <2>4. ASSUME NEW n \in Runs PROVE Listener(n)'
    BY <1>0, <2>1, <2>2, TaskNames DEF HolderInv, Listener
  <2>5. QED
    BY <2>3, <2>4 DEF HolderInv
<1>3. CASE Toggle \/ CloseWallet \/ ThrottleExpires \/ (\E c \in Configs : Save(c))
           \/ (\E w \in Wallets : LoadWallet(w)) \/ Unbind \/ StartRecord \/ StartReset
           \/ StopFlags
  <2>1. UNCHANGED <<pc, cancelled, nostrFut, spawns, httpOf, httpFut, serverWallet>>
    BY <1>3 DEF Toggle, CloseWallet, ThrottleExpires, Save, LoadWallet, Unbind, StartRecord,
       StartReset, StopFlags, guiVars
  <2>2. CASE StopFlags
    BY <1>0, <2>1, <2>2, HolderQuiet DEF StopFlags, GuiTypes, IInv, TypeOK
  <2>3. CASE StartRecord
    BY <1>0, <2>1, <2>3, HolderQuiet DEF StartRecord
  <2>4. CASE Toggle \/ CloseWallet \/ ThrottleExpires \/ (\E c \in Configs : Save(c))
           \/ (\E w \in Wallets : LoadWallet(w)) \/ Unbind \/ StartReset
    <3>1. /\ runs' = runs
          /\ gui' \in {"start_reset", "start_http"} => gui \in {"start_reset", "start_http"}
      BY <2>4 DEF Toggle, CloseWallet, ThrottleExpires, Save, LoadWallet, Unbind, StartReset,
         guiVars
    <3>2. QED
      BY <1>0, <2>1, <3>1, HolderQuiet
  <2>5. QED
    BY <1>3, <2>2, <2>3, <2>4
<1>4. CASE StopHttp
  <2>1. UNCHANGED <<cancelled, nostrFut, spawns, httpFut, serverWallet, runs>>
        /\ gui = "stop_http" /\ gui' = "stop_cancel"
    BY <1>4 DEF StopHttp
  <2>2. CASE httpOf[wallet] = 0
    BY <1>0, <1>4, <2>1, <2>2, HolderQuiet DEF StopHttp
  <2>3. CASE httpOf[wallet] # 0
    <3>1. PICK m \in Runs : m = httpOf[wallet] /\ wallet \in Wallets
      BY <1>0, <1>4, <2>3, Bounds DEF StopHttp, WalletBound, OwnerTypes
    <3>2. Spawn(Stopper(m)) /\ httpOf' = [httpOf EXCEPT ![wallet] = 0]
      BY <1>4, <2>3, <3>1 DEF StopHttp, Stopper
    <3>3. \A k \in Single : k # Stopper(m) => pc'[k] = pc[k] /\ (Working(k)' <=> Working(k))
      BY <1>0, <2>1, <3>2, Born, TaskNames
    <3>4. ASSUME NEW t \in Spawns PROVE Announcer(t)'
      BY <1>0, <2>1, <3>3, <3>4, TaskNames DEF HolderInv, Announcer
    <3>5. ASSUME NEW n \in Runs PROVE Listener(n)'
      <4>1. Listener(n) /\ Listener(m) /\ n # 0
        BY <1>0, Bounds DEF HolderInv
      <4>2. /\ pc'[Server(n)] = pc[Server(n)] /\ (Working(Server(n))' <=> Working(Server(n)))
            /\ n # m => pc'[Stopper(n)] = pc[Stopper(n)]
        BY <3>3, TaskNames
      <4>3. pc[Server(m)] # "none" /\ serverWallet[m] = wallet
        BY <3>1, <4>1 DEF Listener
      <4>4. \A w \in Wallets : httpOf'[w] = n => httpOf[w] = n /\ n # m
        <5>1. \A w \in Wallets : httpOf'[w] = n => httpOf[w] = n /\ w # wallet
          BY <1>0, <3>1, <3>2, <4>1 DEF OwnerTypes
        <5>2. \A w \in Wallets : httpOf[w] = m => w = wallet
          BY <4>1, <4>3 DEF Listener
        <5>3. QED
          BY <5>1, <5>2
      <4>5. pc[Server(n)] = "none" => n # m
        BY <4>3
      <4>6. QED
        BY <2>1, <4>1, <4>2, <4>4, <4>5 DEF Listener
    <3>6. QED
      BY <3>4, <3>5 DEF HolderInv
  <2>4. QED
    BY <2>2, <2>3
<1>5. CASE StopCancel
  <2>1. /\ UNCHANGED <<pc, spawns, serverWallet, httpOf, runs>> /\ nostrFut' = 0 /\ httpFut' = 0
        /\ gui' = "stop_transport"
    BY <1>5 DEF StopCancel
  <2>2. \A k \in Single :
          cancelled'[k] = (cancelled[k] \/ (k \in CurrentFutures /\ pc[k] \notin Finished))
    BY <1>0, <1>5, LifeTold, CurrentAsked DEF LifeInv, TaskInv
  <2>3. ASSUME NEW t \in Spawns PROVE Announcer(t)'
    <3>1. Announcer(t) /\ t # 0 /\ N(t) \in Single
      BY <1>0, Bounds, TaskNames DEF HolderInv
    <3>2. ~Working(N(t))'
      BY <2>1, <2>2, <3>1 DEF Announcer, Working, CurrentFutures, N
    <3>3. QED
      BY <2>1, <3>1, <3>2 DEF Announcer
  <2>4. ASSUME NEW n \in Runs PROVE Listener(n)'
    <3>1. Listener(n) /\ n # 0 /\ Server(n) \in Single /\ Stopper(n) \in Single
      BY <1>0, Bounds, TaskNames DEF HolderInv
    <3>2. ~Working(Server(n))'
      BY <2>1, <2>2, <3>1 DEF Listener, Working, CurrentFutures, Server
    <3>3. ~cancelled'[Stopper(n)]
      <4>1. Stopper(n) \notin CurrentFutures
        BY DEF Stopper, CurrentFutures
      <4>2. QED
        BY <2>2, <3>1, <4>1 DEF Listener
    <3>4. QED
      BY <2>1, <3>1, <3>2, <3>3 DEF Listener
  <2>5. QED
    BY <2>3, <2>4 DEF HolderInv
<1>6. CASE StopTransport
  <2>1. UNCHANGED <<cancelled, nostrFut, spawns, httpOf, httpFut, serverWallet, runs>>
        /\ gui' = "stop_flags"
    BY <1>6 DEF StopTransport
  <2>2. \A k \in Single : pc'[k] = pc[k]
    <3>1. CASE live = 0
      BY <1>6, <3>1 DEF StopTransport
    <3>2. CASE live # 0
      <4>1. <<"nostr-stop", live>> \in Task /\ <<"nostr-stop", live>> \notin Single
        BY <1>0, <3>2, Bounds DEF NoteTypes, Task, Single
      <4>2. Spawn(<<"nostr-stop", live>>)
        BY <1>6, <3>2 DEF StopTransport
      <4>3. QED
        BY <1>0, <2>1, <4>1, <4>2, Born, TaskNames
    <3>3. QED
      BY <3>1, <3>2
  <2>3. ASSUME NEW t \in Spawns PROVE Announcer(t)'
    BY <1>0, <2>1, <2>2, TaskNames DEF HolderInv, Announcer, Working
  <2>4. ASSUME NEW n \in Runs PROVE Listener(n)'
    BY <1>0, <2>1, <2>2, TaskNames DEF HolderInv, Listener, Working
  <2>5. QED
    BY <2>3, <2>4 DEF HolderInv
<1>7. CASE StartHttp
  <2>1. /\ UNCHANGED <<cancelled, nostrFut, spawns, runs>>
        /\ gui = "start_http" /\ gui' = "start_nostr" /\ httpFut = 0
    BY <1>0, <1>7 DEF StartHttp, StoppedFirst
  <2>2. CASE config.port = 0
    BY <1>0, <1>7, <2>1, <2>2, HolderQuiet DEF StartHttp
  <2>3. CASE config.port # 0
    <3>1. runs \in Runs /\ wallet \in Wallets /\ runs # 0
      BY <1>0, <1>7, Bounds DEF StartHttp, WalletBound, RoomKept, Starting
    <3>2. /\ Spawn(Server(runs)) /\ httpOf' = [httpOf EXCEPT ![wallet] = runs]
          /\ httpFut' = runs /\ serverWallet' = [serverWallet EXCEPT ![runs] = wallet]
      BY <1>7, <2>3 DEF StartHttp, Server
    <3>3. /\ pc'[Server(runs)] = "spawned"
          /\ \A k \in Single : k # Server(runs) => pc'[k] = pc[k] /\ (Working(k)' <=> Working(k))
      BY <1>0, <2>1, <3>1, <3>2, Born, TaskNames
    <3>4. ASSUME NEW t \in Spawns PROVE Announcer(t)'
      <4>1. Announcer(t) /\ N(t) \in Single /\ N(t) # Server(runs)
        BY <1>0, <3>1, TaskNames DEF HolderInv
      <4>2. pc'[N(t)] = pc[N(t)] /\ (Working(N(t))' <=> Working(N(t)))
        BY <3>3, <4>1
      <4>3. QED
        BY <2>1, <4>1, <4>2 DEF Announcer
    <3>5. ASSUME NEW n \in Runs PROVE Listener(n)'
      <4>1. Listener(n) /\ n # 0 /\ Server(n) \in Single /\ Stopper(n) \in Single
            /\ pc'[Stopper(n)] = pc[Stopper(n)]
        BY <1>0, <3>1, <3>3, Bounds, TaskNames DEF HolderInv
      <4>2. CASE n = runs
        <5>1. pc[Server(n)] = "none" /\ pc[Stopper(n)] = "none" /\ ~cancelled[Server(n)]
          <6>1. pc[Server(n)] = "none" /\ pc[Stopper(n)] = "none"
            BY <2>1, <4>1, <4>2 DEF Listener
          <6>2. QED
            BY <4>1, <6>1 DEF LifeInv, TaskInv, Life, OnlyIfTold
        <5>2. \A w \in Wallets : httpOf'[w] = n => w = wallet
          <6>1. \A w \in Wallets : httpOf[w] # n
            BY <4>1, <5>1 DEF Listener
          <6>2. \A w \in Wallets : w # wallet => httpOf'[w] = httpOf[w]
            BY <1>0, <3>2 DEF OwnerTypes
          <6>3. QED
            BY <6>1, <6>2
        <5>3. serverWallet'[n] = wallet
          BY <1>0, <3>1, <3>2, <4>2 DEF HttpTypes
        <5>4. /\ pc'[Server(n)] # "none" /\ ~cancelled'[Server(n)] /\ pc'[Stopper(n)] = "none"
              /\ ~cancelled'[Stopper(n)] /\ n = runs' /\ n = httpFut' /\ ~(n > runs')
          <6>1. pc'[Server(n)] = "spawned" /\ n = runs' /\ n = httpFut'
            BY <2>1, <3>2, <3>3, <4>2
          <6>2. pc'[Stopper(n)] = "none" /\ ~cancelled'[Server(n)] /\ ~cancelled'[Stopper(n)]
            BY <2>1, <4>1, <5>1 DEF Listener
          <6>3. ~(n > runs')
            BY <2>1, <3>1, <4>2, Bounds
          <6>4. QED
            BY <6>1, <6>2, <6>3
        <5>5. QED
          BY <2>1, <5>2, <5>3, <5>4 DEF Listener
      <4>3. CASE n # runs
        <5>1. /\ pc'[Server(n)] = pc[Server(n)] /\ (Working(Server(n))' <=> Working(Server(n)))
              /\ serverWallet'[n] = serverWallet[n]
          BY <1>0, <3>1, <3>2, <3>3, <4>1, <4>3, TaskNames DEF HttpTypes
        <5>2. \A w \in Wallets : httpOf'[w] = n => httpOf[w] = n
          BY <1>0, <3>1, <3>2, <4>1, <4>3 DEF OwnerTypes
        <5>3. n # httpFut' /\ ~(Working(Server(n)))
          BY <2>1, <3>2, <4>1, <4>3 DEF Listener
        <5>4. QED
          BY <2>1, <4>1, <4>3, <5>1, <5>2, <5>3 DEF Listener
      <4>4. QED
        BY <4>2, <4>3
    <3>6. QED
      BY <3>4, <3>5 DEF HolderInv
  <2>4. QED
    BY <2>2, <2>3
<1>8. CASE StartNostr \/ Supervise
  <2>1. /\ UNCHANGED <<cancelled, httpOf, httpFut, serverWallet, runs>>
        /\ gui' \notin {"start_reset", "start_http"}
    BY <1>8 DEF StartNostr, Supervise, guiVars
  <2>2. CASE StartNostr /\ ~config.relays
    BY <1>0, <2>1, <2>2, HolderQuiet DEF StartNostr
  <2>3. CASE Supervise \/ (StartNostr /\ config.relays)
    <3>1. spawns \in Nat /\ spawns + 1 \in Spawns
      BY <1>0, <2>3, Bounds DEF Supervise, StartNostr, OwnerTypes, RoomKept, Starting
    <3>2. PICK u \in Spawns : u = spawns + 1
      BY <3>1
    <3>3. Nobody
      BY <1>0, <2>3, NobodyLeft DEF Supervise, StartNostr, StoppedFirst, Starting
    <3>4. Spawn(N(u)) /\ nostrFut' = u /\ spawns' = u
      BY <2>3, <3>2 DEF Supervise, StartNostr, SpawnNostr, N
    <3>5. /\ pc'[N(u)] = "spawned"
          /\ \A k \in Single : k # N(u) => pc'[k] = pc[k] /\ (Working(k)' <=> Working(k))
      BY <1>0, <2>1, <3>4, Born, TaskNames
    <3>6. ASSUME NEW t \in Spawns PROVE Announcer(t)'
      <4>1. Announcer(t) /\ N(t) \in Single /\ (t # u => N(t) # N(u)) /\ t \in Nat
        BY <1>0, TaskNames, Bounds DEF HolderInv
      <4>2. CASE t = u
        <5>1. pc[N(t)] = "none" /\ ~cancelled[N(t)]
          BY <3>1, <3>2, <4>1, <4>2 DEF Announcer, LifeInv, TaskInv, Life, OnlyIfTold
        <5>2. QED
          BY <2>1, <3>1, <3>2, <3>4, <3>5, <4>2, <5>1 DEF Announcer
      <4>3. CASE t # u
        <5>1. t > spawns' => t > spawns
          BY <3>1, <3>2, <3>4, <4>1
        <5>2. pc'[N(t)] = pc[N(t)] /\ ~Working(N(t))'
          BY <3>3, <3>5, <4>1, <4>3 DEF Nobody
        <5>3. QED
          BY <3>4, <4>1, <4>3, <5>1, <5>2 DEF Announcer
      <4>4. QED
        BY <4>2, <4>3
    <3>7. ASSUME NEW n \in Runs PROVE Listener(n)'
      BY <1>0, <2>1, <3>5, TaskNames DEF HolderInv, Listener
    <3>8. QED
      BY <3>6, <3>7 DEF HolderInv
  <2>4. QED
    BY <1>8, <2>2, <2>3
<1>9. QED
  BY <1>1, <1>2, <1>3, <1>4, <1>5, <1>6, <1>7, <1>8 DEF Next, GuiStep, UserStep

\* The life of every task in every state.
THEOREM LivesOfTasks == Spec => [](IInv /\ LifeInv)
<1>1. Init => IInv /\ LifeInv
  BY InitHolds, LifeInit
<1>2. IInv /\ LifeInv /\ [Next]_vars => (IInv /\ LifeInv)'
  BY InvariantKept, LifeKept, HolderKept DEF LifeInv
<1>3. QED
  BY <1>1, <1>2, PTL DEF Spec

\* At any moment at most one announce task has neither ended nor been told to:
\* the one whose future stop_server would cancel.
THEOREM AnnouncerSafe == Spec => []OneAnnouncer
<1>1. LifeInv => OneAnnouncer
  BY DEF LifeInv, HolderInv, Announcer, Working, OneAnnouncer
<1>2. QED
  BY <1>1, LivesOfTasks, PTL

\* A cancellation that has been carried out is never lost: not while the task is
\* not made yet, not while its step is queued, not in the closing of a transport.
THEOREM CancellationSafe == Spec => []CancellationTakesHold
<1>1. LifeInv => CancellationTakesHold
  BY TaskNames DEF LifeInv, TaskInv, Life, ToldForSure, OnlyIfTold, CancellationTakesHold,
     ToCancel, Has
<1>2. QED
  BY <1>1, LivesOfTasks, PTL

-----------------------------------------------------------------------------
(* The refinement.                                                         *)

Stages == [t \in Spawns |-> Stage(t)]
Sending == {t \in Spawns : pc[N(t)] = "publish"}

\* A task to which nothing happened is where it was.
LEMMA StageSame ==
  ASSUME NEW t \in Spawns, Alike(N(t))
  PROVE  Stage(t)' = Stage(t) /\ (pc'[N(t)] = "publish" <=> pc[N(t)] = "publish")
<1>1. dying'[t] <=> dying[t]
  BY TaskNames DEF Alike, Dying, N
<1>2. QED
  BY <1>1 DEF Alike, Stage, Unfinished, Heard

\* Only task t has moved.
LEMMA OneMoves ==
  ASSUME NEW t \in Spawns, \A u \in Spawns : u # t => Alike(N(u))
  PROVE  /\ Stages' = [Stages EXCEPT ![t] = Stage(t)']
         /\ pc'[N(t)] = "publish" => Sending' = Sending \cup {t}
         /\ pc'[N(t)] # "publish" => Sending' = Sending \ {t}
         /\ (pc'[N(t)] = "publish" <=> pc[N(t)] = "publish") => Sending' = Sending
<1>1. \A u \in Spawns : u # t =>
        Stage(u)' = Stage(u) /\ (pc'[N(u)] = "publish" <=> pc[N(u)] = "publish")
  BY StageSame
<1>2. Stages' = [Stages EXCEPT ![t] = Stage(t)']
  BY <1>1 DEF Stages
<1>3. QED
  BY <1>1, <1>2 DEF Sending

\* Nothing has moved.
LEMMA NothingMoves ==
  ASSUME \A u \in Spawns : Alike(N(u))
  PROVE  Stages' = Stages /\ Sending' = Sending
<1>1. \A u \in Spawns :
        Stage(u)' = Stage(u) /\ (pc'[N(u)] = "publish" <=> pc[N(u)] = "publish")
  BY StageSame
<1>2. QED
  BY <1>1 DEF Stages, Sending

\* A finished or unborn task, or one told to go, does not work.
LEMMA NobodyMaps == Nobody => \A t \in Spawns : Stages[t] # "working"
BY DEF Nobody, Stages, Stage, Working

\* The initial states of the server are those of the service.
LEMMA InitMaps == Init => Service!Init
<1> SUFFICES ASSUME Init PROVE Service!Init
  OBVIOUS
<1>1. \A t \in Spawns : pc[N(t)] = "none"
  BY Tasks DEF Init
<1>2. \A t \in Spawns : Stage(t) = "unborn"
  BY <1>1 DEF Stage
<1>3. running = FALSE
  BY DEF Init
<1>4. QED
  BY <1>1, <1>2, <1>3 DEF Service!Init

\* A step of an announce task is one of the service's, or none.
LEMMA StepMaps ==
  ASSUME IInv, LifeInv, NEW t \in Spawns, NEW p \in PC, StepTo(N(t), p)
  PROVE  running' = running /\ (Service!Send(t) \/ Service!Sent(t) \/ Service!Leave(t))
<1> DEFINE k == N(t)
<1>0. LoopTypes /\ NostrTypes /\ Life(k) /\ k \in Task /\ k \in Single
  BY Tasks, TaskNames DEF IInv, TypeOK, LifeInv, TaskInv
<1>1. /\ pc[k] \in Await \cup {"fresh"} /\ pc'[k] = p /\ p \in Await \cup Finished
      /\ mustCancel'[k] = FALSE /\ cancelled' = cancelled /\ running' = running
  BY <1>0 DEF StepTo, Step, Goto, LoopTypes
<1>2. \/ dying'[t] = dying[t] /\ (mustCancel[k] \/ dying[t] => p \in Finished)
      \/ dying'[t] = TRUE /\ mustCancel[k] /\ p = "closing"
  BY <1>0, TaskNames DEF StepTo, NostrTypes, Dying
<1>3. \A u \in Spawns : u # t => Alike(N(u))
  BY <1>0, SteppedOther, TaskNames
<1>4. Stage(t) \in {"working", "told", "leaving"} /\ Stages[t] = Stage(t)
  BY <1>1 DEF Stage, Stages, Unfinished, Heard
<1>5. CASE p \in Finished
  <2>1. Stage(t)' = "over"
    BY <1>1, <1>5 DEF Stage
  <2>2. Stages' = [Stages EXCEPT ![t] = "over"] /\ Sending' = Sending \ {t}
    BY <1>1, <1>3, <1>5, <2>1, OneMoves
  <2>3. QED
    BY <1>1, <1>4, <2>2 DEF Service!Leave, Service!Move, Stages, Sending
<1>6. CASE p \notin Finished
  <2>1. Stage(t)' = Stage(t)
    <3>1. mustCancel[k] \/ dying[t] => cancelled[k]
      BY <1>0, TaskNames DEF Life, OnlyIfTold
    <3>2. QED
      BY <1>1, <1>2, <1>6, <3>1 DEF Stage, Unfinished, Heard
  <2>2. Stages' = Stages
    BY <1>3, <2>1, OneMoves DEF Stages
  <2>3. CASE p = "publish"
    <3>1. Stage(t) \in {"working", "told"}
      BY <1>1, <1>2, <2>3 DEF Stage, Unfinished, Heard
    <3>2. Sending' = Sending \cup {t}
      BY <1>1, <1>3, <2>3, OneMoves
    <3>3. QED
      BY <1>1, <1>4, <2>2, <3>1, <3>2 DEF Service!Send, Stages, Sending
  <2>4. CASE p # "publish"
    <3>1. Sending' = Sending \ {t}
      BY <1>1, <1>3, <2>4, OneMoves
    <3>2. QED
      BY <1>1, <2>2, <3>1 DEF Service!Sent, Stages, Sending
  <2>5. QED
    BY <2>3, <2>4
<1>7. QED
  BY <1>5, <1>6

\* stop_server tells the one it holds.
LEMMA StopMaps ==
  ASSUME IInv, LifeInv, StopCancel
  PROVE  running' = running /\ Sending' = Sending
         /\ (Stages' = Stages \/ \E t \in Spawns : Service!Tell(t))
<1>0. \A t \in Spawns : N(t) \in CurrentFutures <=> t = nostrFut
  BY Bounds DEF CurrentFutures, N
<1>1. \A t \in Spawns :
        /\ Alike(N(t)) \/ t = nostrFut
        /\ UNCHANGED <<pc, mustCancel, dying, running, spawns>>
        /\ cancelled'[N(t)] = (cancelled[N(t)] \/ (t = nostrFut /\ pc[N(t)] \notin Finished))
  <2>1. LoopTypes /\ OwnerTypes /\ HolderInv
    BY DEF IInv, TypeOK, LifeInv
  <2>2. ASSUME NEW t \in Spawns
        PROVE  N(t) \in Single /\ Life(N(t)) /\ (N(t) \in CurrentFutures => pc[N(t)] # "none")
    BY <2>1, CurrentAsked, TaskNames DEF LifeInv, TaskInv
  <2>3. QED
    BY <1>0, <2>1, <2>2, LifeTold
<1>2. running' = running
  BY DEF StopCancel
<1>3. CASE nostrFut \notin Spawns
  BY <1>1, <1>2, <1>3, NothingMoves
<1>4. CASE nostrFut \in Spawns
  <2>0. PICK t \in Spawns : t = nostrFut
    BY <1>4
  <2>1. /\ pc'[N(t)] = pc[N(t)] /\ mustCancel'[N(t)] = mustCancel[N(t)] /\ dying'[t] = dying[t]
        /\ cancelled'[N(t)] = (cancelled[N(t)] \/ pc[N(t)] \notin Finished)
    BY <1>1, <2>0
  <2>2. /\ Stages' = [Stages EXCEPT ![t] = Stage(t)'] /\ Sending' = Sending
    <3>1. \A u \in Spawns : u # t => Alike(N(u))
      BY <1>1, <2>0
    <3>2. pc'[N(t)] = "publish" <=> pc[N(t)] = "publish"
      BY <2>1
    <3>3. QED
      BY <3>1, <3>2, OneMoves
  <2>3. Stages[t] = Stage(t) /\ Life(N(t)) /\ Announcer(t) /\ (Dying(N(t)) <=> dying[t])
    BY TaskNames DEF Stages, LifeInv, TaskInv, HolderInv
  <2>4. CASE Working(N(t))
    <3>1. ~mustCancel[N(t)] /\ ~dying[t]
      BY <2>3, <2>4 DEF Life, OnlyIfTold, Working
    <3>2. cancelled'[N(t)] /\ ~mustCancel'[N(t)] /\ ~dying'[t]
      BY <2>1, <2>4, <3>1 DEF Working
    <3>3. Stage(t) = "working" /\ Stage(t)' = "told"
      BY <2>1, <2>4, <3>1, <3>2 DEF Stage, Heard, Working
    <3>4. QED
      BY <1>2, <2>2, <2>3, <3>3 DEF Service!Tell, Service!Move, Stages, Sending
  <2>5. CASE ~Working(N(t))
    <3>1. pc[N(t)] # "none" /\ LoopTypes /\ N(t) \in Task
      BY <2>0, <2>3, Tasks DEF Announcer, IInv, TypeOK
    <3>2. cancelled'[N(t)] <=> cancelled[N(t)] \/ pc[N(t)] \notin Finished
      BY <2>1
    <3>3. Stage(t)' = Stage(t)
      BY <2>1, <2>5, <3>1, <3>2 DEF Stage, Heard, Working
    <3>4. Stages' = Stages
      BY <2>2, <2>3, <3>3 DEF Stages
    <3>5. QED
      BY <1>2, <2>2, <3>4
  <2>6. QED
    BY <2>4, <2>5
<1>5. QED
  BY <1>3, <1>4

\* The loop's callbacks for tasks: only a cancellation that arrives counts.
LEMMA CallsMap ==
  ASSUME IInv, LifeInv, NEW k \in Task, Calling(k)
  PROVE  running' = running /\ Sending' = Sending
         /\ (Stages' = Stages \/ \E t \in Spawns : Service!Hear(t))
<1>0. LoopTypes
  BY DEF IInv, TypeOK
<1>1. Create(k) \/ Cancel(k) \/ Complete(k)
  BY DEF Calling
<1>2. running' = running /\ dying' = dying
  BY <1>1 DEF Create, Cancel, Complete, ownerVars, nostrVars
<1>3. CASE \A t \in Spawns : k # N(t)
  <2>1. \A t \in Spawns : Alike(N(t))
    BY <1>0, <1>3, CallbackOther, Tasks
  <2>2. QED
    BY <1>2, <2>1, NothingMoves
<1>4. ASSUME NEW t \in Spawns, k = N(t)
      PROVE  Sending' = Sending /\ (Stages' = Stages \/ Service!Hear(t))
  <2>0. Life(N(t)) /\ N(t) \in Task /\ Stages[t] = Stage(t)
    BY Tasks, TaskNames DEF LifeInv, TaskInv, Stages
  <2>1. \A u \in Spawns : u # t => Alike(N(u))
    BY <1>0, <1>4, CallbackOther, Tasks, TaskNames
  <2>2. CASE Create(k)
    <3>1. /\ pc[N(t)] = "spawned" /\ pc'[N(t)] = "fresh" /\ mustCancel' = mustCancel
          /\ cancelled' = cancelled
      BY <1>0, <1>4, <2>0, <2>2, LifeSpawned
    <3>2. Stage(t)' = Stage(t)
      BY <1>2, <3>1 DEF Stage, Unfinished, Heard
    <3>3. QED
      BY <2>0, <2>1, <3>1, <3>2, OneMoves DEF Stages
  <2>3. CASE Complete(k)
    <3>1. \A u \in Spawns : Alike(N(u))
      BY <1>2, <2>3 DEF Complete, Alike, Dying
    <3>2. QED
      BY <3>1, NothingMoves
  <2>4. CASE Cancel(k)
    <3>1. /\ cancelled[N(t)] /\ pc[N(t)] \in Await \cup Finished
          /\ pc' = pc /\ cancelled' = cancelled /\ mustCancel'[N(t)] = (pc[N(t)] \notin Finished)
      BY <1>0, <1>4, <2>0, <2>4, LifeHears
    <3>2. Stages' = [Stages EXCEPT ![t] = Stage(t)'] /\ Sending' = Sending
      BY <2>1, <3>1, OneMoves
    <3>3. CASE pc[N(t)] \in Finished \/ Heard(t)
      <4>1. Stage(t)' = Stage(t)
        BY <1>2, <3>1, <3>3 DEF Stage, Unfinished, Heard
      <4>2. QED
        BY <2>0, <3>2, <4>1 DEF Stages
    <3>4. CASE pc[N(t)] \notin Finished /\ ~Heard(t)
      <4>1. Stage(t) = "told" /\ Stage(t)' = "leaving"
        BY <1>2, <3>1, <3>4 DEF Stage, Unfinished, Heard
      <4>2. QED
        BY <1>2, <2>0, <3>2, <4>1 DEF Service!Hear, Service!Move, Stages, Sending
    <3>5. QED
      BY <3>3, <3>4
  <2>5. QED
    BY <1>1, <2>2, <2>3, <2>4
<1>5. QED
  BY <1>2, <1>3, <1>4

\* A new announcer is appointed.
LEMMA SpawnMaps ==
  ASSUME IInv, LifeInv, SpawnsAnnouncer, NEW t \in Spawns, t = spawns + 1
  PROVE  Service!Appoint(t)
<1>0. LoopTypes /\ spawns \in Nat /\ N(t) \in Task /\ N(t) \in Single
  <2>1. LoopTypes /\ OwnerTypes
    BY DEF IInv, TypeOK
  <2>2. spawns \in Nat
    BY <2>1, Bounds DEF OwnerTypes
  <2>3. QED
    BY <2>1, <2>2, Tasks, TaskNames
<1>1. Stages[t] = "unborn" /\ pc[N(t)] = "none" /\ ~cancelled[N(t)]
  <2>1. Announcer(t) /\ Life(N(t)) /\ t > spawns
    BY <1>0 DEF LifeInv, TaskInv, HolderInv
  <2>2. QED
    BY <2>1 DEF Announcer, Life, OnlyIfTold, Stages, Stage
<1>2. Spawn(N(t)) /\ pc'[N(t)] = "spawned" /\ cancelled' = cancelled
  BY <1>0 DEF SpawnsAnnouncer, SpawnNostr, Spawn, LoopTypes, N
<1>3. Stage(t)' = "working"
  BY <1>1, <1>2 DEF Stage
<1>4. \A u \in Spawns : u # t => Alike(N(u))
  BY <1>0, <1>2, SpawnOther, Tasks, TaskNames DEF SpawnsAnnouncer
<1>5. Stages' = [Stages EXCEPT ![t] = "working"] /\ Sending' = Sending
  BY <1>1, <1>2, <1>3, <1>4, OneMoves
<1>6. \A u \in Spawns : Stages[u] # "working"
  BY NobodyMaps DEF SpawnsAnnouncer
<1>7. running' = TRUE
  BY InvariantKept DEF SpawnsAnnouncer, SpawnNostr
<1>8. QED
  BY <1>1, <1>5, <1>6, <1>7
     DEF Service!Appoint, Service!Move, Service!NobodyWorks, Stages, Sending

\* Every step of the server is a step of the service, or changes nothing of it.
LEMMA Simulates ==
  ASSUME IInv, LifeInv, [Next]_vars
  PROVE  [Service!Next]_(Service!vars)
<1> USE DEF Service!vars
<1>0. LoopTypes /\ NostrTypes /\ OwnerTypes /\ \A t \in Spawns : N(t) \in Task /\ N(t) \in Single
  BY Tasks, TaskNames DEF IInv, TypeOK
<1>1. CASE UNCHANGED <<lifeVars, nostrFut, spawns, running>>
  <2>1. \A t \in Spawns : Alike(N(t))
    BY <1>1 DEF lifeVars, Alike, Dying
  <2>2. QED
    BY <1>1, <2>1, NothingMoves DEF Stages, Sending
<1>2. CASE UNCHANGED <<lifeVars, nostrFut, spawns>> /\ Nobody /\ (running' => ~running)
  <2>1. \A t \in Spawns : Alike(N(t))
    BY <1>2 DEF lifeVars, Alike, Dying
  <2>2. Stages' = Stages /\ Sending' = Sending /\ \A t \in Spawns : Stages[t] # "working"
    BY <1>2, <2>1, NothingMoves, NobodyMaps
  <2>3. running \in BOOLEAN /\ running' \in BOOLEAN
    BY InvariantKept DEF IInv, TypeOK, OwnerTypes
  <2>4. Service!EnableQuietly \/ Service!Disable
    BY <1>2, <2>2, <2>3 DEF Service!EnableQuietly, Service!Disable, Service!NobodyWorks,
       Stages, Sending
  <2>5. QED
    BY <2>4 DEF Service!Next
<1>3. CASE SpawnsOther
  <2>1. \A t \in Spawns : Alike(N(t))
    BY <1>0, <1>3, SpawnOther DEF SpawnsOther
  <2>2. QED
    BY <1>3, <2>1, NothingMoves DEF SpawnsOther, Stages, Sending
<1>4. CASE SpawnsAnnouncer
  <2>1. PICK t \in Spawns : t = spawns + 1
    BY <1>4 DEF SpawnsAnnouncer
  <2>2. QED
    BY <1>4, <2>1, SpawnMaps DEF Service!Next
<1>5. CASE StopCancel
  BY <1>5, StopMaps DEF Service!Next, Stages, Sending
<1>6. CASE \E k \in Task : Calling(k)
  BY <1>6, CallsMap DEF Service!Next, Stages, Sending
<1>7. CASE \E k \in Task, p \in PC : StepTo(k, p)
  <2>1. PICK k \in Task, p \in PC : StepTo(k, p)
    BY <1>7
  <2>2. CASE \E t \in Spawns : k = N(t)
    BY <2>1, <2>2, StepMaps DEF Service!Next
  <2>3. CASE \A t \in Spawns : k # N(t)
    <3>1. \A t \in Spawns : Alike(N(t))
      BY <1>0, <2>1, <2>3, SteppedOther
    <3>2. running' = running
      BY <2>1 DEF StepTo
    <3>3. QED
      BY <3>1, <3>2, NothingMoves DEF Stages, Sending
  <2>4. QED
    BY <2>2, <2>3
<1>8. QED
  BY <1>1, <1>2, <1>3, <1>4, <1>5, <1>6, <1>7, Kinds

\* The lifecycle of the server is an implementation of the service.
THEOREM ServiceImplemented == Spec => ServiceKept
<1>1. IInv /\ LifeInv /\ [Next]_vars => [Service!Next]_(Service!vars)
  BY Simulates
<1>2. QED
  BY <1>1, InitMaps, LivesOfTasks, PTL DEF Spec, ServiceKept, Service!Spec
=============================================================================
