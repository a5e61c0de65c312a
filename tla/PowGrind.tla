------------------------------ MODULE PowGrind ------------------------------
(***************************************************************************)
(* The announcement proof of work (pow.py) and ensure_pow_nonce: a parent  *)
(* on the event loop, one worker per lane, and the arrays they share.      *)
(*                                                                         *)
(* The parent forks workers, polls, folds their counters into a state that *)
(* it persists, and stops them on success or cancellation.  Each array is  *)
(* guarded by a lock of its own that a worker takes for one element and    *)
(* the parent takes too, on the event loop.  A SIGTERM kills a worker at   *)
(* any later moment, also while it holds a lock; only then is a lock held  *)
(* for longer than one access, and a lock is modelled by that alone.       *)
(*                                                                         *)
(* A nonce is its lane and its offset in the lane; a digest is its number  *)
(* of leading zero bits.  Each session is one call of ensure_pow_nonce;    *)
(* the settings and the open wallet change between them (a call keeps the  *)
(* key and the target it began with), and Electrum may be killed.          *)
(***************************************************************************)
EXTENDS Integers

CONSTANTS
  Keys,        \* nostr keys of the wallets
  Targets,     \* values of SWAPSERVER_POW_TARGET
  NumWorkers,  \* default_worker_count() of the machine
  LaneSize,    \* bound: hashes per lane
  Block,       \* CHECKPOINT_BLOCK
  Digests,     \* functions from keys, lanes and offsets to leading zero bits
  Backends     \* whether fork is available: a subset of BOOLEAN

ASSUME WorkAssumption ==
  /\ NumWorkers \in Nat \ {0} /\ LaneSize \in Nat \ {0} /\ Block \in Nat \ {0}
  /\ Targets \subseteq Nat /\ Backends \subseteq BOOLEAN
ASSUME DigestAssumption ==
  Digests \subseteq [Keys -> [1 .. NumWorkers -> [0 .. LaneSize - 1 -> Nat]]]

Lanes   == 1 .. NumWorkers
Cursors == [Lanes -> 0 .. LaneSize]
Nonces  == Lanes \X (0 .. LaneSize - 1)
NoNonce == <<0, 0>>
Arrays  == {"progress", "bits", "off", "found"}

VARIABLES
  \* settings and wallet
  key, target,
  installed,     \* SWAPSERVER_ANN_POW_NONCE
  saved,         \* SWAPSERVER_GUI_POW_STATE: [key, offsets, nonce, bits]
  \* the call of ensure_pow_nonce
  pc, gkey, gtarget, forked,
  state,         \* the PowState
  lane, then,    \* loop variable of winner and snapshot, and what follows
  won,           \* the nonce of the winner
  outcome,       \* its result: "none" (running), "ready", "without", "raised"
  \* the workers and what they share
  wpc, from, woff, progress, bits, off, found, shutdown, sigterm,
  stuck,         \* the arrays whose lock a killed worker held
  \* environment and history
  digest,
  scanned        \* the nonces hashed for a key, as long as a state refers to it

callVars   == <<pc, gkey, gtarget, forked, state, lane, then, won, outcome>>
sharedVars == <<progress, bits, off, found>>
workVars   == <<wpc, from, woff, sharedVars, shutdown, sigterm, stuck>>
vars == <<key, target, installed, saved, callVars, workVars, digest, scanned>>

Digest(k, l, o) == digest[k][l][o]

\* pow_bits: nonce 0, the first of lane 1, counts as no nonce.
PowBits(k, n) == IF n \in {NoNonce, <<1, 0>>} THEN 0 ELSE Digest(k, n[1], n[2])

Unscanned == [l \in Lanes |-> 0]
Greater(a, b) == IF a < b THEN b ELSE a
Blank(k) == [key |-> k, offsets |-> Unscanned, nonce |-> NoNonce, bits |-> 0]
States   == [key : Keys, offsets : Cursors, nonce : Nonces \cup {NoNonce}, bits : Nat]

WorkerPC == {"none", "scan", "progress", "bits", "off", "check",
             "hit_progress", "hit_off", "hit_bits", "hit_found", "hit_set",
             "exited", "killed"}
ParentPC == {"idle", "poll", "winner", "alive", "snap_progress", "snap_bits",
             "snap_off", "persist", "success"}

Alive(l)  == wpc[l] \notin {"none", "exited", "killed"}
Started   == IF forked THEN Lanes ELSE {1}      \* num_workers of the backend
LastLane  == IF forked THEN NumWorkers ELSE 1

TypeOK ==
  /\ key \in Keys /\ target \in Targets
  /\ installed \in Nonces \cup {NoNonce} /\ saved \in States /\ state \in States
  /\ pc \in ParentPC /\ gkey \in Keys /\ gtarget \in Targets /\ forked \in BOOLEAN
  /\ won \in Nonces \cup {NoNonce}
  /\ lane \in Lanes /\ then \in {"poll", "give_up", "cancelled", "raised", "success"}
  /\ outcome \in {"none", "ready", "without", "raised"}
  /\ wpc \in [Lanes -> WorkerPC] /\ from \in Cursors /\ woff \in Cursors
  /\ progress \in Cursors /\ off \in Cursors /\ bits \in [Lanes -> Nat]
  /\ found \in [Lanes -> BOOLEAN] /\ shutdown \in BOOLEAN
  /\ sigterm \in [Lanes -> BOOLEAN] /\ stuck \subseteq Arrays
  /\ digest \in Digests /\ scanned \in [Keys -> Cursors]

Init ==
  /\ key \in Keys /\ target \in Targets /\ digest \in Digests
  /\ installed = NoNonce /\ saved = Blank(key) /\ state = Blank(key)
  /\ pc = "idle" /\ gkey = key /\ gtarget = target /\ forked \in Backends
  /\ lane = 1 /\ then = "poll" /\ won = NoNonce /\ outcome = "without"
  /\ wpc = [l \in Lanes |-> "none"]
  /\ from = [l \in Lanes |-> 0] /\ woff = [l \in Lanes |-> 0]
  /\ progress = [l \in Lanes |-> 0] /\ off = [l \in Lanes |-> 0]
  /\ bits = [l \in Lanes |-> 0] /\ found = [l \in Lanes |-> FALSE]
  /\ shutdown = FALSE /\ sigterm = [l \in Lanes |-> FALSE] /\ stuck = {}
  /\ scanned = [k \in Keys |-> Unscanned]

-----------------------------------------------------------------------------
(* ensure_pow_nonce, up to its first await.                                *)

\* Mutant: the cursors are dropped when the target has changed.
LoadForTarget(k, t) ==
  IF saved.key = k /\ t = gtarget
  THEN [saved EXCEPT !.bits = PowBits(k, saved.nonce)] ELSE Blank(k)

\* Mutant: the cursors are used for whatever key is bound.
LoadAnyKey(k, t) == [saved EXCEPT !.key = k, !.bits = PowBits(k, saved.nonce)]

\* PowState.load: cursors hold for the key they were scanned for, whatever the
\* target, and the claimed bits of the best nonce are recomputed.
Load(k, t) ==
  IF saved.key = k THEN [saved EXCEPT !.bits = PowBits(k, saved.nonce)] ELSE Blank(k)

Begin ==
  /\ pc = "idle"
  /\ gkey' = key /\ gtarget' = target
Settled ==
  UNCHANGED <<key, target, saved, pc, forked, lane, then, won, workVars, digest, scanned>>

EnsureCached ==
  /\ Begin /\ PowBits(key, installed) >= target
  /\ outcome' = "ready"
  /\ Settled /\ UNCHANGED <<installed, state>>

EnsureBest ==
  /\ Begin /\ PowBits(key, installed) < target
  /\ LET loaded == Load(key, target)
     IN  loaded.nonce # NoNonce /\ loaded.bits >= target /\ installed' = loaded.nonce
  /\ outcome' = "ready"
  /\ Settled /\ UNCHANGED state

\* _Backend.start; ws are the workers that could be forked.
StartWorkers(ws) ==
  /\ wpc' = [l \in Lanes |-> IF l \in ws THEN "scan" ELSE "none"]
  /\ progress' = [l \in Lanes |-> IF l \in Started THEN state'.offsets[l] ELSE 0]
  /\ woff' = progress' /\ from' = progress'
  /\ off' = [l \in Lanes |-> 0] /\ bits' = [l \in Lanes |-> 0]
  /\ found' = [l \in Lanes |-> FALSE]

EnsureGrind ==
  /\ Begin /\ PowBits(key, installed) < target
  /\ state' = Load(key, target)
  /\ state'.nonce = NoNonce \/ state'.bits < target
  /\ outcome' = "none" /\ lane' = 1
  /\ \/ /\ StartWorkers(Started)
        /\ shutdown' = FALSE /\ sigterm' = [l \in Lanes |-> FALSE]
        /\ pc' = "poll" /\ then' = "poll"
     \* a fork fails: the workers before it are stopped, and the error goes up
     \/ /\ \E n \in Started :
             /\ StartWorkers(1 .. n - 1)
             /\ sigterm' = [l \in Lanes |-> forked /\ l < n]
        /\ shutdown' = TRUE
        /\ pc' = "snap_progress" /\ then' = "raised"
  /\ UNCHANGED <<key, target, installed, saved, forked, won, stuck, digest, scanned>>

-----------------------------------------------------------------------------
(* grind: the poll of the parent.                                          *)

parentFrame == <<key, target, installed, saved, gkey, gtarget, forked, won, outcome,
                 digest, scanned>>
Free(a) == a \notin stuck

PollExpires ==
  /\ pc = "poll" /\ pc' = "winner" /\ lane' = 1
  /\ UNCHANGED <<parentFrame, state, then, workVars>>

\* winner, lane by lane.
LookForWinner ==
  /\ pc = "winner" /\ Free("found")
  /\ IF found[lane] THEN pc' = "success" /\ UNCHANGED lane
     ELSE IF lane < LastLane THEN lane' = lane + 1 /\ UNCHANGED pc
     ELSE pc' = "alive" /\ UNCHANGED lane
  /\ UNCHANGED <<parentFrame, state, then, workVars>>

AnyAlive ==
  /\ pc = "alive" /\ pc' = "snap_progress" /\ lane' = 1
  /\ then' = IF \E l \in Lanes : Alive(l) THEN "poll" ELSE "give_up"
  /\ UNCHANGED <<parentFrame, state, workVars>>

\* _Backend.stop: set the event, and terminate the processes still alive.
Stop ==
  /\ shutdown' = TRUE
  /\ sigterm' = [l \in Lanes |-> sigterm[l] \/ (forked /\ Alive(l))]
  /\ UNCHANGED <<wpc, from, woff, sharedVars, stuck>>

Cancelled ==
  /\ pc = "poll" /\ pc' = "snap_progress" /\ lane' = 1 /\ then' = "cancelled"
  /\ Stop
  /\ UNCHANGED <<parentFrame, state>>

\* The nonce of the winner; its bits count for the best so far.
Won == <<lane, off[lane]>>
Success ==
  /\ pc = "success" /\ Free("off")
  /\ won' = Won
  /\ state' = IF PowBits(gkey, Won) > state.bits
              THEN [state EXCEPT !.nonce = Won, !.bits = PowBits(gkey, Won)] ELSE state
  /\ Stop
  /\ pc' = "snap_progress" /\ lane' = 1 /\ then' = "success"
  /\ UNCHANGED <<key, target, installed, saved, gkey, gtarget, forked, outcome, digest,
                 scanned>>

\* snapshot, lane by lane and array by array.
SnapProgress ==
  /\ pc = "snap_progress" /\ Free("progress") /\ pc' = "snap_bits"
  /\ state' = [state EXCEPT !.offsets[lane] = Greater(state.offsets[lane], progress[lane])]
  /\ UNCHANGED <<parentFrame, lane, then, workVars>>

NextLane ==
  IF lane < LastLane THEN pc' = "snap_progress" /\ lane' = lane + 1
  ELSE pc' = "persist" /\ UNCHANGED lane

SnapBits ==
  /\ pc = "snap_bits" /\ Free("bits")
  /\ IF bits[lane] > state.bits
     THEN pc' = "snap_off" /\ UNCHANGED lane /\ state' = [state EXCEPT !.bits = bits[lane]]
     ELSE NextLane /\ UNCHANGED state
  /\ UNCHANGED <<parentFrame, then, workVars>>

SnapOff ==
  /\ pc = "snap_off" /\ Free("off") /\ NextLane
  /\ state' = [state EXCEPT !.nonce = <<lane, off[lane]>>]
  /\ UNCHANGED <<parentFrame, then, workVars>>

\* The backend is garbage.  Workers that are still alive will be killed or see
\* the event; they share nothing with anything any more.
Discard ==
  /\ wpc' = [l \in Lanes |-> "none"]
  /\ from' = Unscanned /\ woff' = Unscanned /\ progress' = Unscanned
  /\ bits' = Unscanned /\ off' = Unscanned /\ found' = [l \in Lanes |-> FALSE]
  /\ shutdown' = FALSE /\ sigterm' = [l \in Lanes |-> FALSE] /\ stuck' = {}

\* on_progress, always at the end of a call and now and then before it; then the
\* call goes on or ends, with the nonce of the winner installed if there is one.
Persist ==
  /\ pc = "persist"
  /\ \/ /\ saved' = state
        /\ scanned' = [k \in Keys |-> IF k = gkey THEN scanned[k] ELSE Unscanned]
     \/ then = "poll" /\ UNCHANGED <<saved, scanned>>
  /\ lane' = 1 /\ then' = "poll"
  /\ IF then = "poll"
     THEN pc' = "poll" /\ UNCHANGED <<outcome, workVars>>
     ELSE /\ pc' = "idle" /\ Discard
          /\ outcome' = CASE then = "success" -> "ready"
                          [] then = "give_up" -> "without"
                          [] OTHER -> "raised"
  /\ installed' = (IF then = "success" THEN won ELSE installed)
  /\ won' = NoNonce
  /\ UNCHANGED <<key, target, gkey, gtarget, forked, state, digest>>

-----------------------------------------------------------------------------
(* _grind_worker for lane l.                                               *)

workerFrame == <<key, target, installed, saved, callVars, sigterm, stuck, digest>>
At(l, p) == wpc[l] = p
To(l, p) == wpc' = [wpc EXCEPT ![l] = p]

\* Offsets of the next block that meet the target.
Ahead(l) == woff[l] .. woff[l] + Block - 1
Hits(l)  == {o \in Ahead(l) : Digest(gkey, l, o) >= gtarget}
FirstOf(S) == CHOOSE o \in S : \A x \in S : o <= x

\* The best offset of this run so far, the first of equals: local_best_off.
BestOff(l) ==
  LET run == from[l] .. woff[l] - 1
  IN  FirstOf({o \in run : \A x \in run : Digest(gkey, l, o) >= Digest(gkey, l, x)})
BestBits(l) == Digest(gkey, l, BestOff(l))

Hashed(l, n) == scanned' = [scanned EXCEPT ![gkey][l] = Greater(scanned[gkey][l], n)]

\* A block is hashed, up to its first hit.  (Bound: past LaneSize nothing more
\* is hashed, and the worker only looks at the shutdown event.)
ScanBlock(l) ==
  /\ At(l, "scan")
  /\ IF woff[l] + Block > LaneSize
     THEN To(l, "check") /\ UNCHANGED <<woff, scanned>>
     ELSE IF Hits(l) # {}
     THEN /\ woff' = [woff EXCEPT ![l] = FirstOf(Hits(l))]
          /\ Hashed(l, FirstOf(Hits(l)) + 1)
          /\ To(l, "hit_progress")
     ELSE /\ woff' = [woff EXCEPT ![l] = woff[l] + Block]
          /\ Hashed(l, woff[l] + Block)
          /\ To(l, "progress")
  /\ UNCHANGED <<workerFrame, from, sharedVars, shutdown>>

\* The array a worker is about to write, if it can get its lock.
Writes(l) ==
  CASE wpc[l] \in {"progress", "hit_progress"} -> {"progress"}
    [] wpc[l] \in {"bits", "hit_bits"}         -> {"bits"}
    [] wpc[l] \in {"off", "hit_off"}           -> {"off"}
    [] wpc[l] = "hit_found"                    -> {"found"}
    [] OTHER                                   -> {}
CanWrite(l) == Writes(l) \cap stuck = {}

\* The end of a block: cursor first, then the best, bits before offset.
Checkpoint(l) ==
  /\ CanWrite(l)
  /\ \/ /\ At(l, "progress") /\ To(l, "bits")
        /\ progress' = [progress EXCEPT ![l] = woff[l]]
        /\ UNCHANGED <<bits, off>>
     \/ /\ At(l, "bits")
        /\ IF BestBits(l) > bits[l]
           THEN To(l, "off") /\ bits' = [bits EXCEPT ![l] = BestBits(l)]
           ELSE To(l, "check") /\ UNCHANGED bits
        /\ UNCHANGED <<progress, off>>
     \/ /\ At(l, "off") /\ To(l, "check")
        /\ off' = [off EXCEPT ![l] = BestOff(l)]
        /\ UNCHANGED <<progress, bits>>
  /\ UNCHANGED <<workerFrame, from, woff, found, shutdown, scanned>>

\* Mutant: found is published before the offset it stands for.
ReportHitEarly(l) ==
  /\ CanWrite(l)
  /\ \/ /\ At(l, "hit_progress") /\ To(l, "hit_found")
        /\ progress' = [progress EXCEPT ![l] = woff[l] + 1]
        /\ UNCHANGED <<bits, off, found>>
     \/ /\ At(l, "hit_found") /\ To(l, "hit_off")
        /\ found' = [found EXCEPT ![l] = TRUE]
        /\ UNCHANGED <<progress, bits, off>>
     \/ /\ At(l, "hit_off") /\ To(l, "hit_set")
        /\ off' = [off EXCEPT ![l] = woff[l]]
        /\ UNCHANGED <<progress, bits, found>>
  /\ UNCHANGED <<workerFrame, from, woff, shutdown, scanned>>

\* A hit: offset and bits are in place before found tells of them.
ReportHit(l) ==
  /\ CanWrite(l)
  /\ \/ /\ At(l, "hit_progress") /\ To(l, "hit_off")
        /\ progress' = [progress EXCEPT ![l] = woff[l] + 1]
        /\ UNCHANGED <<bits, off, found>>
     \/ /\ At(l, "hit_off") /\ To(l, "hit_bits")
        /\ off' = [off EXCEPT ![l] = woff[l]]
        /\ UNCHANGED <<progress, bits, found>>
     \/ /\ At(l, "hit_bits") /\ To(l, "hit_found")
        /\ bits' = [bits EXCEPT ![l] = Digest(gkey, l, woff[l])]
        /\ UNCHANGED <<progress, off, found>>
     \/ /\ At(l, "hit_found") /\ To(l, "hit_set")
        /\ found' = [found EXCEPT ![l] = TRUE]
        /\ UNCHANGED <<progress, bits, off>>
  /\ UNCHANGED <<workerFrame, from, woff, shutdown, scanned>>

SetShutdown(l) ==
  /\ At(l, "hit_set") /\ To(l, "exited") /\ shutdown' = TRUE
  /\ UNCHANGED <<workerFrame, from, woff, sharedVars, scanned>>

CheckShutdown(l) ==
  /\ At(l, "check") /\ To(l, IF shutdown THEN "exited" ELSE "scan")
  /\ UNCHANGED <<workerFrame, from, woff, sharedVars, shutdown, scanned>>

\* SIGTERM takes effect wherever the worker is, with the lock it may hold (what
\* it wrote under that lock nobody will read).
Terminated(l) ==
  /\ sigterm[l] /\ Alive(l) /\ To(l, "killed")
  /\ stuck' = stuck \/ (CanWrite(l) /\ stuck' = stuck \cup Writes(l))
  /\ UNCHANGED <<key, target, installed, saved, callVars, sigterm, digest, from, woff,
                 sharedVars, shutdown, scanned>>

-----------------------------------------------------------------------------
(* The operator and the system.                                            *)

settings == <<installed, saved, callVars, workVars, digest, scanned>>

SetTarget(t)  == pc = "idle" /\ target' = t /\ UNCHANGED <<key, settings>>
OpenWallet(k) == pc = "idle" /\ key' = k /\ UNCHANGED <<target, settings>>

\* Electrum is killed: what is left is what was saved.  (Workers it leaves
\* behind share nothing with the next session.)
Crash ==
  /\ pc # "idle"
  /\ pc' = "idle" /\ outcome' = "raised" /\ state' = saved
  /\ lane' = 1 /\ then' = "poll" /\ won' = NoNonce
  /\ Discard
  /\ UNCHANGED <<key, target, installed, saved, gkey, gtarget, forked, digest, scanned>>

-----------------------------------------------------------------------------
ParentStep ==
  \/ PollExpires \/ LookForWinner \/ AnyAlive \/ Success
  \/ SnapProgress \/ SnapBits \/ SnapOff \/ Persist

WorkerStep(l) ==
  \/ ScanBlock(l) \/ Checkpoint(l) \/ ReportHit(l)
  \/ SetShutdown(l) \/ CheckShutdown(l)

Next ==
  \/ EnsureCached \/ EnsureBest \/ EnsureGrind \/ Cancelled \/ ParentStep
  \/ \E l \in Lanes : WorkerStep(l) \/ Terminated(l)
  \/ \E t \in Targets : SetTarget(t)
  \/ \E k \in Keys : OpenWallet(k)
  \/ Crash

Spec == Init /\ [][Next]_vars

-----------------------------------------------------------------------------
(* Properties.                                                             *)

\* "Returns True when a usable nonce is in place": whatever was read torn,
\* persisted or interrupted before, a call that returns True leaves a nonce that
\* meets the target for its key.
InstalledMeetsTarget == outcome = "ready" => PowBits(gkey, installed) >= gtarget

\* A persisted cursor never claims a nonce that was not hashed for that key, so
\* a resumed search skips nothing.
CursorsScanned == \A l \in Lanes : saved.offsets[l] <= scanned[saved.key][l]

\* "Work accumulates monotonically across restarts": the cursors of a key are
\* lost only to another key.
WorkKept ==
  [][saved'.key = saved.key => \A l \in Lanes : saved'.offsets[l] >= saved.offsets[l]]_vars

\* "The event loop thread is never blocked, on any path": the parent never
\* waits for the lock of a worker that is gone.
NeverBlocked ==
  /\ "progress" \in stuck => pc # "snap_progress"
  /\ "bits" \in stuck => pc # "snap_bits"
  /\ "off" \in stuck => pc \notin {"snap_off", "success"}
  /\ "found" \in stuck => pc # "winner"
=============================================================================
