--------------------------- MODULE PowGrindProofs ---------------------------
(***************************************************************************)
(* The proof of work for any number of workers, any block size, any keys,  *)
(* targets and digests: types, cursors that skip nothing and never go      *)
(* back, and a nonce that is as good as the call says.                     *)
(***************************************************************************)
EXTENDS PowGrind, TLAPS, WellFoundedInduction

-----------------------------------------------------------------------------
(* What FirstOf and BestOff choose.                                        *)

\* A set of naturals that is not empty has a least element.
LEMMA Smallest ==
  ASSUME NEW S \in SUBSET Nat, S # {}
  PROVE  \E o \in S : \A x \in S : o <= x
<1>1. \E o \in S : \A x \in S : ~(<<x, o>> \in OpToRel(<, Nat))
  BY WFMin, NatLessThanWellFounded
<1>2. PICK o \in S : \A x \in S : ~(<<x, o>> \in OpToRel(<, Nat))
  BY <1>1
<1>3. ASSUME NEW x \in S PROVE o <= x
  <2>1. ~(x < o)
    BY <1>2 DEF OpToRel
  <2>2. QED
    BY <2>1
<1>4. QED
  BY <1>2, <1>3

\* A function has a greatest value on an interval that is not empty: if not, it
\* has none on some shortest one, and leaving the last point out helps nothing.
LEMMA Greatest ==
  ASSUME NEW f, NEW a \in Nat, NEW b \in Nat, a < b, \A o \in a .. b - 1 : f[o] \in Nat
  PROVE  \E o \in a .. b - 1 : \A x \in a .. b - 1 : f[o] >= f[x]
<1> DEFINE Top(n) == \E o \in a .. n - 1 : \A x \in a .. n - 1 : f[o] >= f[x]
           Bad == {n \in a + 1 .. b : ~Top(n)}
<1>1. SUFFICES ASSUME Bad # {} PROVE FALSE
  <2>1. b \in a + 1 .. b
    OBVIOUS
  <2>2. QED
    BY <2>1
<1>2. Bad \in SUBSET Nat
  OBVIOUS
<1>3. PICK n \in Bad : \A m \in Bad : n <= m
  BY <1>1, <1>2, Smallest
<1>4. CASE n = a + 1
  <2>1. a .. n - 1 = {a}
    BY <1>4
  <2>2. f[a] \in Nat
    OBVIOUS
  <2>3. Top(n)
    BY <2>1, <2>2
  <2>4. QED
    BY <2>3
<1>5. CASE n # a + 1
  <2>1. n - 1 \in a + 1 .. b /\ n - 1 \notin Bad
    <3>1. n \in a + 1 .. b
      OBVIOUS
    <3>2. n - 1 \in a + 1 .. b /\ ~(n <= n - 1)
      BY <3>1, <1>5
    <3> HIDE DEF Bad
    <3>3. QED
      BY <1>3, <3>2
  <2>2. PICK o \in a .. n - 2 : \A x \in a .. n - 2 : f[o] >= f[x]
    BY <2>1
  <2>3. a .. n - 1 = (a .. n - 2) \cup {n - 1} /\ n \in Nat /\ n - 1 \in a .. b - 1
    BY <2>1
  <2>4. f[o] \in Nat /\ f[n - 1] \in Nat
    BY <2>2, <2>3
  <2>5. CASE f[o] >= f[n - 1]
    BY <2>2, <2>3, <2>5
  <2>6. CASE f[n - 1] > f[o]
    <3>1. \A x \in a .. n - 1 : f[n - 1] >= f[x]
      <4>1. \A x \in a .. n - 2 : f[x] \in Nat
        BY <2>3
      <4>2. QED
        BY <2>2, <2>3, <2>4, <2>6, <4>1
    <3>2. QED
      BY <2>3, <3>1
  <2>7. QED
    BY <2>4, <2>5, <2>6
<1>6. QED
  BY <1>4, <1>5

-----------------------------------------------------------------------------
(* The invariant.                                                          *)

SettingTypes ==
  /\ key \in Keys /\ target \in Targets
  /\ installed \in Nonces \cup {NoNonce} /\ saved \in States
  /\ digest \in Digests /\ scanned \in [Keys -> Cursors]
CallTypes ==
  /\ state \in States /\ pc \in ParentPC /\ gkey \in Keys /\ gtarget \in Targets
  /\ forked \in BOOLEAN /\ won \in Nonces \cup {NoNonce} /\ lane \in Lanes
  /\ then \in {"poll", "give_up", "cancelled", "raised", "success"}
  /\ outcome \in {"none", "ready", "without", "raised"}
WorkTypes ==
  /\ wpc \in [Lanes -> WorkerPC] /\ from \in Cursors /\ woff \in Cursors
  /\ progress \in Cursors /\ off \in [Lanes -> 0 .. LaneSize - 1]
  /\ bits \in [Lanes -> Nat] /\ found \in [Lanes -> BOOLEAN] /\ shutdown \in BOOLEAN
  /\ sigterm \in [Lanes -> BOOLEAN] /\ stuck \subseteq Arrays
Types == SettingTypes /\ CallTypes /\ WorkTypes

\* A call works for the key and the target it began with, and between calls no
\* worker has anything to share.
Call ==
  /\ pc = "idle" => then # "success" /\ \A l \in Lanes : wpc[l] = "none"
  /\ pc # "idle" => state.key = gkey /\ gtarget > 0 /\ outcome = "none"
  /\ pc = "success" => found[lane]

\* Where a worker is, it has hashed; what it reports, it has found.
HitPC == {"hit_progress", "hit_off", "hit_bits", "hit_found"}
Worker(l) ==
  /\ from[l] <= woff[l]
  /\ wpc[l] \in {"progress", "bits", "off"} => from[l] < woff[l]
  /\ wpc[l] \in HitPC =>
       /\ woff[l] < LaneSize /\ woff[l] + 1 <= scanned[gkey][l]
       /\ Digest(gkey, l, woff[l]) >= gtarget
  /\ wpc[l] \in {"hit_bits", "hit_found"} => off[l] = woff[l]
  /\ found[l] =>
       /\ wpc[l] \in {"hit_set", "exited", "killed"}
       /\ Digest(gkey, l, off[l]) >= gtarget

\* The cursors of the call are behind what was hashed for its key, and ahead of
\* what was saved for it.
Cursor(l) ==
  /\ saved.offsets[l] <= scanned[saved.key][l]
  /\ pc # "idle" =>
       /\ state.offsets[l] <= scanned[gkey][l]
       /\ progress[l] <= scanned[gkey][l] /\ woff[l] <= scanned[gkey][l]
       /\ saved.key = gkey => saved.offsets[l] <= state.offsets[l]

IInv == Types /\ Call /\ \A l \in Lanes : Worker(l) /\ Cursor(l)

\* What the assumptions say of the numbers.
LEMMA Numbers ==
  /\ NumWorkers \in Nat \ {0} /\ LaneSize \in Nat \ {0} /\ Block \in Nat \ {0}
  /\ Targets \subseteq Nat /\ 1 \in Lanes /\ Lanes \subseteq Nat
BY WorkAssumption DEF Lanes

LEMMA DigestType ==
  ASSUME digest \in Digests, NEW k \in Keys, NEW l \in Lanes, NEW o \in 0 .. LaneSize - 1
  PROVE  Digest(k, l, o) \in Nat
<1>1. digest \in [Keys -> [Lanes -> [0 .. LaneSize - 1 -> Nat]]]
  BY DigestAssumption DEF Lanes
<1>2. digest[k] \in [Lanes -> [0 .. LaneSize - 1 -> Nat]]
  BY <1>1
<1>3. digest[k][l] \in [0 .. LaneSize - 1 -> Nat]
  BY <1>2
<1>4. QED
  BY <1>3 DEF Digest

LEMMA PowBitsType ==
  ASSUME digest \in Digests, NEW k \in Keys, NEW n \in Nonces \cup {NoNonce}
  PROVE  PowBits(k, n) \in Nat
<1>1. CASE n \in {NoNonce, <<1, 0>>}
  BY <1>1 DEF PowBits
<1>2. CASE n \notin {NoNonce, <<1, 0>>}
  <2>1. n[1] \in Lanes /\ n[2] \in 0 .. LaneSize - 1
    BY <1>2 DEF Nonces
  <2>2. QED
    BY <1>2, <2>1, DigestType DEF PowBits
<1>3. QED
  BY <1>1, <1>2

\* The first hit ahead of a worker is one of them.
LEMMA FirstHit ==
  ASSUME NEW l \in Lanes, woff[l] \in Nat, Hits(l) # {}
  PROVE  /\ FirstOf(Hits(l)) \in Hits(l)
         /\ FirstOf(Hits(l)) \in woff[l] .. woff[l] + Block - 1
         /\ Digest(gkey, l, FirstOf(Hits(l))) >= gtarget
<1>1. Hits(l) \subseteq woff[l] .. woff[l] + Block - 1 /\ Hits(l) \in SUBSET Nat
  BY Numbers DEF Hits, Ahead
<1>2. \E o \in Hits(l) : \A x \in Hits(l) : o <= x
  BY <1>1, Smallest
<1>3. FirstOf(Hits(l)) \in Hits(l)
  BY <1>2 DEF FirstOf
<1>4. QED
  BY <1>1, <1>3 DEF Hits

\* The best offset of a run is one of the run.
LEMMA BestOfRun ==
  ASSUME Types, NEW l \in Lanes, from[l] < woff[l]
  PROVE  /\ BestOff(l) \in 0 .. LaneSize - 1
         /\ BestBits(l) \in Nat
<1> DEFINE run == from[l] .. woff[l] - 1
           best == {o \in run : \A x \in run : Digest(gkey, l, o) >= Digest(gkey, l, x)}
<1>1. from[l] \in Nat /\ woff[l] \in Nat /\ run \subseteq 0 .. LaneSize - 1 /\ gkey \in Keys
      /\ digest \in Digests
  BY Numbers DEF Types, SettingTypes, CallTypes, WorkTypes, Cursors
<1>2. \A o \in run : digest[gkey][l][o] \in Nat
  BY <1>1, DigestType DEF Digest
<1>3. \E o \in run : \A x \in run : digest[gkey][l][o] >= digest[gkey][l][x]
  BY <1>1, <1>2, Greatest
<1>4. best # {} /\ best \in SUBSET Nat
  BY <1>1, <1>3 DEF Digest
<1>5. \E o \in best : \A x \in best : o <= x
  BY <1>4, Smallest
<1>6. FirstOf(best) \in best
  BY <1>5 DEF FirstOf
<1>7. BestOff(l) = FirstOf(best)
  BY DEF BestOff
<1>8. BestOff(l) \in run
  BY <1>6, <1>7
<1>9. QED
  BY <1>1, <1>8, DigestType DEF BestBits

LEMMA InitHolds == Init => IInv
<1> SUFFICES ASSUME Init PROVE IInv
  OBVIOUS
<1> USE Numbers DEF Init, Blank, Unscanned
<1>1. SettingTypes
  BY DEF SettingTypes, States, Cursors
<1>2. CallTypes
  BY WorkAssumption DEF CallTypes, ParentPC, States, Cursors
<1>3. WorkTypes
  <2>1. wpc \in [Lanes -> WorkerPC] /\ shutdown \in BOOLEAN /\ stuck \subseteq Arrays
    BY DEF WorkerPC
  <2>2. found \in [Lanes -> BOOLEAN] /\ sigterm \in [Lanes -> BOOLEAN]
    OBVIOUS
  <2>3. 0 \in 0 .. LaneSize - 1 /\ 0 \in 0 .. LaneSize
    OBVIOUS
  <2>4. off \in [Lanes -> 0 .. LaneSize - 1] /\ bits \in [Lanes -> Nat]
    BY <2>3
  <2>5. from \in Cursors /\ woff \in Cursors /\ progress \in Cursors
    BY <2>3 DEF Cursors
  <2>6. QED
    BY <2>1, <2>2, <2>4, <2>5 DEF WorkTypes
<1>4. Call
  BY DEF Call
<1>5. ASSUME NEW l \in Lanes PROVE Worker(l) /\ Cursor(l)
  BY <1>5 DEF Worker, Cursor, HitPC
<1>6. QED
  BY <1>1, <1>2, <1>3, <1>4, <1>5 DEF IInv, Types

\* What PowState.load returns for the key that is open.
LEMMA LoadType ==
  ASSUME IInv
  PROVE  /\ Load(key, target) \in States /\ Load(key, target).key = key
         /\ Load(key, target).bits = PowBits(key, Load(key, target).nonce)
         /\ \A l \in Lanes : Load(key, target).offsets[l] <= scanned[key][l]
         /\ saved.key = key => Load(key, target).offsets = saved.offsets
<1>1. Types /\ \A l \in Lanes : Cursor(l)
  BY DEF IInv
<1>2. saved \in States /\ key \in Keys /\ digest \in Digests /\ scanned \in [Keys -> Cursors]
  BY <1>1 DEF Types, SettingTypes
<1>3. saved.nonce \in Nonces \cup {NoNonce} /\ saved.offsets \in Cursors
  BY <1>2 DEF States
<1>4. PowBits(key, saved.nonce) \in Nat
  BY <1>2, <1>3, PowBitsType
<1>5. CASE saved.key = key
  <2>1. Load(key, target) = [saved EXCEPT !.bits = PowBits(key, saved.nonce)]
    BY <1>5 DEF Load
  <2>2. QED
    BY <1>1, <1>2, <1>4, <1>5, <2>1 DEF States, Cursor
<1>6. CASE saved.key # key
  <2>1. Load(key, target) = [key |-> key, offsets |-> Unscanned, nonce |-> NoNonce, bits |-> 0]
    BY <1>6 DEF Load, Blank
  <2>2. Unscanned \in Cursors /\ \A l \in Lanes : Unscanned[l] = 0 /\ scanned[key][l] \in Nat
    BY <1>2, Numbers DEF Unscanned, Cursors
  <2>3. PowBits(key, NoNonce) = 0
    BY DEF PowBits
  <2>4. QED
    BY <1>2, <1>6, <2>1, <2>2, <2>3 DEF States
<1>7. QED
  BY <1>5, <1>6

\* The loops over the lanes stay on them.
LEMMA NextIsLane == ASSUME lane \in Lanes, lane < LastLane PROVE lane + 1 \in Lanes
BY Numbers DEF Lanes, LastLane

\* Nothing shared is left of a call that is over.
LEMMA Discarded == ASSUME Discard PROVE WorkTypes'
<1>1. 0 \in 0 .. LaneSize - 1 /\ 0 \in 0 .. LaneSize
  BY Numbers
<1>2. wpc' \in [Lanes -> WorkerPC] /\ shutdown' \in BOOLEAN /\ stuck' \subseteq Arrays
  BY DEF Discard, WorkerPC
<1>3. found' \in [Lanes -> BOOLEAN] /\ sigterm' \in [Lanes -> BOOLEAN]
  BY DEF Discard
<1>4. off' \in [Lanes -> 0 .. LaneSize - 1] /\ bits' \in [Lanes -> Nat]
  BY <1>1 DEF Discard, Unscanned
<1>5. from' \in Cursors /\ woff' \in Cursors /\ progress' \in Cursors
  BY <1>1 DEF Discard, Unscanned, Cursors
<1>6. QED
  BY <1>2, <1>3, <1>4, <1>5 DEF WorkTypes

\* What is hashed stays hashed.
LEMMA HashedMore ==
  ASSUME Types, NEW l \in Lanes, NEW n \in 0 .. LaneSize, Hashed(l, n)
  PROVE  /\ scanned' \in [Keys -> Cursors] /\ scanned'[gkey][l] >= n
         /\ \A x \in Keys, m \in Lanes : scanned[x][m] <= scanned'[x][m]
<1>1. scanned \in [Keys -> Cursors] /\ gkey \in Keys
  BY DEF Types, SettingTypes, CallTypes
<1>2. \A x \in Keys, m \in Lanes : scanned[x][m] \in 0 .. LaneSize
  BY <1>1 DEF Cursors
<1> DEFINE most == Greater(scanned[gkey][l], n)
<1>3. most \in 0 .. LaneSize /\ most >= n /\ most >= scanned[gkey][l]
  BY <1>1, <1>2 DEF Greater
<1> HIDE DEF most
<1>4. scanned' = [scanned EXCEPT ![gkey] = [scanned[gkey] EXCEPT ![l] = most]]
  BY <1>1 DEF Hashed, most
<1>5. [scanned[gkey] EXCEPT ![l] = most] \in Cursors
  BY <1>1, <1>3 DEF Cursors
<1>6. scanned' \in [Keys -> Cursors]
  BY <1>1, <1>4, <1>5
<1>7. scanned'[gkey][l] = most
  BY <1>1, <1>4 DEF Cursors
<1>8. ASSUME NEW x \in Keys, NEW m \in Lanes PROVE scanned[x][m] <= scanned'[x][m]
  <2>1. CASE x = gkey /\ m = l
    BY <1>3, <1>7, <2>1
  <2>2. CASE ~(x = gkey /\ m = l)
    <3>1. scanned'[x][m] = scanned[x][m]
      BY <1>1, <1>4, <2>2 DEF Cursors
    <3>2. QED
      BY <1>2, <3>1
  <2>3. QED
    BY <2>1, <2>2
<1>9. QED
  BY <1>3, <1>6, <1>7, <1>8

\* Each step of the call, of a worker and of the surroundings keeps the invariant.

LEMMA EnsureCachedKeeps == ASSUME IInv, EnsureCached PROVE IInv'
<1> USE Numbers DEF EnsureCached, Begin, Settled, workVars, sharedVars
<1>1. Types /\ Call /\ \A l \in Lanes : Worker(l) /\ Cursor(l)
  BY DEF IInv
<1>2. SettingTypes'
  BY <1>1 DEF Types, SettingTypes
<1>3. CallTypes'
  BY <1>1 DEF Types, SettingTypes, CallTypes, ParentPC
<1>4. WorkTypes'
  BY <1>1 DEF Types, WorkTypes, WorkerPC
<1>5. Call'
  BY <1>1 DEF Types, CallTypes, Call
<1>6. ASSUME NEW l \in Lanes PROVE Worker(l)'
  BY <1>1, <1>6 DEF Types, WorkTypes, Call, Worker, HitPC
<1>7. ASSUME NEW l \in Lanes PROVE Cursor(l)'
  BY <1>1, <1>7 DEF Types, SettingTypes, CallTypes, WorkTypes, Call, Cursor
<1>8. QED
  BY <1>2, <1>3, <1>4, <1>5, <1>6, <1>7 DEF IInv, Types

LEMMA EnsureBestKeeps == ASSUME IInv, EnsureBest PROVE IInv'
<1> USE Numbers DEF EnsureBest, Begin, Settled, workVars, sharedVars
<1>1. Types /\ Call /\ \A l \in Lanes : Worker(l) /\ Cursor(l)
  BY DEF IInv
<1>2. SettingTypes'
  <2>1. Load(key, target) \in States
    BY LoadType
  <2>2. installed' \in Nonces \cup {NoNonce}
    BY <2>1 DEF States
  <2>3. QED
    BY <1>1, <2>2 DEF Types, SettingTypes
<1>3. CallTypes'
  BY <1>1 DEF Types, SettingTypes, CallTypes, ParentPC
<1>4. WorkTypes'
  BY <1>1 DEF Types, WorkTypes, WorkerPC
<1>5. Call'
  BY <1>1 DEF Types, CallTypes, Call
<1>6. ASSUME NEW l \in Lanes PROVE Worker(l)'
  BY <1>1, <1>6 DEF Types, WorkTypes, Call, Worker, HitPC
<1>7. ASSUME NEW l \in Lanes PROVE Cursor(l)'
  BY <1>1, <1>7 DEF Types, SettingTypes, CallTypes, WorkTypes, Call, Cursor
<1>8. QED
  BY <1>2, <1>3, <1>4, <1>5, <1>6, <1>7 DEF IInv, Types

LEMMA EnsureGrindKeeps == ASSUME IInv, EnsureGrind PROVE IInv'
<1> USE Numbers DEF EnsureGrind, Begin, StartWorkers
<1>1. Types /\ Call /\ \A l \in Lanes : Worker(l) /\ Cursor(l)
  BY DEF IInv
<1>2. SettingTypes'
  BY <1>1 DEF Types, SettingTypes
<1>a. state' \in States /\ state'.key = key /\ gkey' = key /\ gtarget' = target
  BY LoadType
<1>3. CallTypes'
  BY <1>1, <1>a DEF Types, SettingTypes, CallTypes, ParentPC
<1>b. state'.offsets \in Cursors
  BY <1>a DEF States
<1>c. /\ progress' \in Cursors /\ woff' = progress' /\ from' = progress'
      /\ \A l \in Lanes : progress'[l] \in {0, state'.offsets[l]}
      /\ off' = [l \in Lanes |-> 0] /\ bits' = [l \in Lanes |-> 0]
      /\ found' = [l \in Lanes |-> FALSE]
      /\ wpc' \in [Lanes -> {"scan", "none"}]
  <2>1. PICK ws : StartWorkers(ws)
    OBVIOUS
  <2>2. \A l \in Lanes : state'.offsets[l] \in 0 .. LaneSize /\ 0 \in 0 .. LaneSize
    BY <1>b DEF Cursors
  <2>3. QED
    BY <2>1, <2>2 DEF Cursors
<1>4. WorkTypes'
  <2>1. wpc' \in [Lanes -> WorkerPC]
    BY <1>c DEF WorkerPC
  <2>2. off' \in [Lanes -> 0 .. LaneSize - 1] /\ bits' \in [Lanes -> Nat]
    BY <1>c
  <2>3. found' \in [Lanes -> BOOLEAN]
    BY <1>c
  <2>4. sigterm' \in [Lanes -> BOOLEAN] /\ shutdown' \in BOOLEAN
    BY <1>1 DEF Types, CallTypes
  <2>5. stuck' \subseteq Arrays
    BY <1>1 DEF Types, WorkTypes
  <2>6. QED
    BY <1>c, <2>1, <2>2, <2>3, <2>4, <2>5 DEF WorkTypes
<1>5. Call'
  <2>1. PowBits(key, installed) \in Nat /\ target \in Nat
    BY <1>1, PowBitsType DEF Types, SettingTypes
  <2>2. gtarget' > 0
    BY <1>a, <2>1
  <2>3. QED
    BY <1>a, <2>2 DEF Call
<1>6. ASSUME NEW l \in Lanes PROVE Worker(l)'
  <2>1. woff'[l] = from'[l] /\ woff'[l] \in Nat /\ ~found'[l] /\ wpc'[l] \in {"scan", "none"}
    BY <1>c DEF Cursors
  <2>2. QED
    BY <2>1 DEF Worker, HitPC
<1>7. ASSUME NEW l \in Lanes PROVE Cursor(l)'
  <2>1. state'.offsets[l] <= scanned[key][l] /\ (saved.key = key => state'.offsets = saved.offsets)
    BY LoadType
  <2>2. scanned[key][l] \in Nat /\ saved.offsets[l] \in Nat
    BY <1>1 DEF Types, SettingTypes, States, Cursors
  <2>3. progress'[l] \in {0, state'.offsets[l]} /\ woff'[l] = progress'[l]
    BY <1>c
  <2>4. progress'[l] <= scanned[key][l]
    BY <2>1, <2>2, <2>3
  <2>5. QED
    BY <1>1, <1>a, <2>1, <2>2, <2>3, <2>4 DEF Cursor
<1>8. QED
  BY <1>2, <1>3, <1>4, <1>5, <1>6, <1>7 DEF IInv, Types

LEMMA CancelledKeeps == ASSUME IInv, Cancelled PROVE IInv'
<1> USE Numbers DEF Cancelled, Stop, parentFrame, sharedVars
<1>1. Types /\ Call /\ \A l \in Lanes : Worker(l) /\ Cursor(l)
  BY DEF IInv
<1>2. SettingTypes'
  BY <1>1 DEF Types, SettingTypes
<1>3. CallTypes'
  BY <1>1 DEF Types, SettingTypes, CallTypes, ParentPC
<1>4. WorkTypes'
  BY <1>1 DEF Types, WorkTypes, WorkerPC
<1>5. Call'
  BY <1>1 DEF Types, CallTypes, Call
<1>6. ASSUME NEW l \in Lanes PROVE Worker(l)'
  BY <1>1, <1>6 DEF Types, WorkTypes, CallTypes, Worker, HitPC, Digest
<1>7. ASSUME NEW l \in Lanes PROVE Cursor(l)'
  BY <1>1, <1>7 DEF Types, SettingTypes, CallTypes, WorkTypes, Call, Cursor
<1>8. QED
  BY <1>2, <1>3, <1>4, <1>5, <1>6, <1>7 DEF IInv, Types

LEMMA PollExpiresKeeps == ASSUME IInv, PollExpires PROVE IInv'
<1> USE Numbers DEF PollExpires, parentFrame, workVars, sharedVars
<1>1. Types /\ Call /\ \A l \in Lanes : Worker(l) /\ Cursor(l)
  BY DEF IInv
<1>2. SettingTypes'
  BY <1>1 DEF Types, SettingTypes
<1>3. CallTypes'
  BY <1>1 DEF Types, SettingTypes, CallTypes, ParentPC
<1>4. WorkTypes'
  BY <1>1 DEF Types, WorkTypes, WorkerPC
<1>5. Call'
  BY <1>1 DEF Types, CallTypes, Call
<1>6. ASSUME NEW l \in Lanes PROVE Worker(l)'
  BY <1>1, <1>6 DEF Types, WorkTypes, CallTypes, Worker, HitPC, Digest
<1>7. ASSUME NEW l \in Lanes PROVE Cursor(l)'
  BY <1>1, <1>7 DEF Types, SettingTypes, CallTypes, WorkTypes, Call, Cursor
<1>8. QED
  BY <1>2, <1>3, <1>4, <1>5, <1>6, <1>7 DEF IInv, Types

LEMMA LookForWinnerKeeps == ASSUME IInv, LookForWinner PROVE IInv'
<1> USE Numbers DEF LookForWinner, parentFrame, workVars, sharedVars
<1>1. Types /\ Call /\ \A l \in Lanes : Worker(l) /\ Cursor(l)
  BY DEF IInv
<1>2. SettingTypes'
  BY <1>1 DEF Types, SettingTypes
<1>3. CallTypes'
  BY <1>1, NextIsLane DEF Types, CallTypes, ParentPC
<1>4. WorkTypes'
  BY <1>1 DEF Types, WorkTypes, WorkerPC
<1>5. Call'
  BY <1>1 DEF Types, CallTypes, Call
<1>6. ASSUME NEW l \in Lanes PROVE Worker(l)'
  BY <1>1, <1>6 DEF Types, WorkTypes, CallTypes, Worker, HitPC, Digest
<1>7. ASSUME NEW l \in Lanes PROVE Cursor(l)'
  BY <1>1, <1>7 DEF Types, SettingTypes, CallTypes, WorkTypes, Call, Cursor
<1>8. QED
  BY <1>2, <1>3, <1>4, <1>5, <1>6, <1>7 DEF IInv, Types

LEMMA AnyAliveKeeps == ASSUME IInv, AnyAlive PROVE IInv'
<1> USE Numbers DEF AnyAlive, parentFrame, workVars, sharedVars
<1>1. Types /\ Call /\ \A l \in Lanes : Worker(l) /\ Cursor(l)
  BY DEF IInv
<1>2. SettingTypes'
  BY <1>1 DEF Types, SettingTypes
<1>3. CallTypes'
  BY <1>1 DEF Types, SettingTypes, CallTypes, ParentPC
<1>4. WorkTypes'
  BY <1>1 DEF Types, WorkTypes, WorkerPC
<1>5. Call'
  BY <1>1 DEF Types, CallTypes, Call
<1>6. ASSUME NEW l \in Lanes PROVE Worker(l)'
  BY <1>1, <1>6 DEF Types, WorkTypes, CallTypes, Worker, HitPC, Digest
<1>7. ASSUME NEW l \in Lanes PROVE Cursor(l)'
  BY <1>1, <1>7 DEF Types, SettingTypes, CallTypes, WorkTypes, Call, Cursor
<1>8. QED
  BY <1>2, <1>3, <1>4, <1>5, <1>6, <1>7 DEF IInv, Types

LEMMA SuccessKeeps == ASSUME IInv, Success PROVE IInv'
<1> USE Numbers DEF Success, Stop, sharedVars
<1>1. Types /\ Call /\ \A l \in Lanes : Worker(l) /\ Cursor(l)
  BY DEF IInv
<1>2. SettingTypes'
  BY <1>1 DEF Types, SettingTypes
<1>a. Won \in Nonces /\ PowBits(gkey, Won) \in Nat
  <2>1. Won \in Nonces
    BY <1>1 DEF Types, CallTypes, WorkTypes, Won, Nonces
  <2>2. QED
    BY <1>1, <2>1, PowBitsType DEF Types, CallTypes, SettingTypes
<1>b. state' \in States /\ state'.key = state.key /\ state'.offsets = state.offsets
  BY <1>1, <1>a DEF Types, CallTypes, States
<1>3. CallTypes'
  <2>1. won' \in Nonces \cup {NoNonce}
    BY <1>a
  <2>2. QED
    BY <1>1, <1>b, <2>1 DEF Types, SettingTypes, CallTypes, ParentPC
<1>4. WorkTypes'
  BY <1>1 DEF Types, WorkTypes, WorkerPC
<1>5. Call'
  BY <1>1 DEF Types, CallTypes, Call
<1>6. ASSUME NEW l \in Lanes PROVE Worker(l)'
  BY <1>1, <1>6 DEF Types, WorkTypes, CallTypes, Worker, HitPC, Digest
<1>7. ASSUME NEW l \in Lanes PROVE Cursor(l)'
  BY <1>1, <1>7 DEF Types, SettingTypes, CallTypes, WorkTypes, Call, Cursor
<1>8. QED
  BY <1>2, <1>3, <1>4, <1>5, <1>6, <1>7 DEF IInv, Types

LEMMA SnapProgressKeeps == ASSUME IInv, SnapProgress PROVE IInv'
<1> USE Numbers DEF SnapProgress, parentFrame, workVars, sharedVars
<1>1. Types /\ Call /\ \A l \in Lanes : Worker(l) /\ Cursor(l)
  BY DEF IInv
<1>2. SettingTypes'
  BY <1>1 DEF Types, SettingTypes
<1>a. state.offsets \in Cursors /\ state \in States /\ lane \in Lanes
  BY <1>1 DEF Types, CallTypes, States
<1>b. DEFINE cursor == Greater(state.offsets[lane], progress[lane])
<1>c. cursor \in 0 .. LaneSize /\ cursor >= state.offsets[lane]
      /\ cursor \in {state.offsets[lane], progress[lane]}
  BY <1>1, <1>a DEF Types, WorkTypes, Cursors, Greater
<1>d. /\ state' \in States /\ state'.key = state.key
      /\ state'.offsets = [state.offsets EXCEPT ![lane] = cursor]
  <2> HIDE DEF cursor
  <2>1. [state.offsets EXCEPT ![lane] = cursor] \in Cursors
    BY <1>a, <1>c DEF Cursors
  <2>2. state' = [state EXCEPT !.offsets = [state.offsets EXCEPT ![lane] = cursor]]
    BY <1>a DEF cursor, States
  <2>3. QED
    BY <1>a, <2>1, <2>2 DEF States
<1>3. CallTypes'
  BY <1>1, <1>d DEF Types, SettingTypes, CallTypes, ParentPC
<1>4. WorkTypes'
  BY <1>1 DEF Types, WorkTypes, WorkerPC
<1>5. Call'
  BY <1>1 DEF Types, CallTypes, Call
<1>6. ASSUME NEW l \in Lanes PROVE Worker(l)'
  BY <1>1, <1>6 DEF Types, WorkTypes, CallTypes, Worker, HitPC, Digest
<1>7. ASSUME NEW l \in Lanes PROVE Cursor(l)'
  <2> HIDE DEF cursor
  <2>1. state.offsets[l] \in Nat /\ saved.offsets[l] \in Nat
    BY <1>1, <1>a DEF Types, SettingTypes, States, Cursors
  <2>2. state'.offsets[l] \in {state.offsets[l], progress[l]} /\ state'.offsets[l] >= state.offsets[l]
    BY <1>a, <1>c, <1>d, <2>1 DEF Cursors
  <2>3. scanned[gkey][l] \in Nat
    BY <1>1 DEF Types, SettingTypes, CallTypes, Cursors
  <2>4. progress[l] \in Nat
    BY <1>1 DEF Types, WorkTypes, Cursors
  <2>5. state.offsets[l] <= scanned[gkey][l] /\ progress[l] <= scanned[gkey][l]
        /\ (saved.key = gkey => saved.offsets[l] <= state.offsets[l])
    BY <1>1 DEF Cursor
  <2>6. state'.offsets[l] <= scanned[gkey][l]
        /\ (saved.key = gkey => saved.offsets[l] <= state'.offsets[l])
    BY <2>1, <2>2, <2>3, <2>4, <2>5
  <2>7. QED
    BY <1>1, <2>6 DEF Cursor
<1>8. QED
  BY <1>2, <1>3, <1>4, <1>5, <1>6, <1>7 DEF IInv, Types

LEMMA SnapBitsKeeps == ASSUME IInv, SnapBits PROVE IInv'
<1> USE Numbers DEF SnapBits, NextLane, parentFrame, workVars, sharedVars
<1>1. Types /\ Call /\ \A l \in Lanes : Worker(l) /\ Cursor(l)
  BY DEF IInv
<1>2. SettingTypes'
  BY <1>1 DEF Types, SettingTypes
<1>a. state' \in States /\ state'.key = state.key /\ state'.offsets = state.offsets
  <2>1. bits[lane] \in Nat
    BY <1>1 DEF Types, CallTypes, WorkTypes
  <2>2. QED
    BY <1>1, <2>1 DEF Types, CallTypes, States
<1>3. CallTypes'
  <2>1. lane' \in Lanes /\ pc' \in ParentPC
    BY <1>1, NextIsLane DEF Types, CallTypes, ParentPC
  <2>2. QED
    BY <1>1, <1>a, <2>1 DEF Types, CallTypes
<1>4. WorkTypes'
  BY <1>1 DEF Types, WorkTypes, WorkerPC
<1>5. Call'
  BY <1>1, <1>a DEF Types, CallTypes, Call
<1>6. ASSUME NEW l \in Lanes PROVE Worker(l)'
  BY <1>1, <1>6 DEF Types, WorkTypes, CallTypes, Worker, HitPC, Digest
<1>7. ASSUME NEW l \in Lanes PROVE Cursor(l)'
  BY <1>1, <1>a, <1>7 DEF Types, SettingTypes, CallTypes, WorkTypes, Call, Cursor
<1>8. QED
  BY <1>2, <1>3, <1>4, <1>5, <1>6, <1>7 DEF IInv, Types

LEMMA SnapOffKeeps == ASSUME IInv, SnapOff PROVE IInv'
<1> USE Numbers DEF SnapOff, NextLane, parentFrame, workVars, sharedVars
<1>1. Types /\ Call /\ \A l \in Lanes : Worker(l) /\ Cursor(l)
  BY DEF IInv
<1>2. SettingTypes'
  BY <1>1 DEF Types, SettingTypes
<1>a. state' \in States /\ state'.key = state.key /\ state'.offsets = state.offsets
  <2>1. <<lane, off[lane]>> \in Nonces
    BY <1>1 DEF Types, CallTypes, WorkTypes, Nonces
  <2>2. QED
    BY <1>1, <2>1 DEF Types, CallTypes, States
<1>3. CallTypes'
  <2>1. lane' \in Lanes /\ pc' \in ParentPC
    BY <1>1, NextIsLane DEF Types, CallTypes, ParentPC
  <2>2. QED
    BY <1>1, <1>a, <2>1 DEF Types, CallTypes
<1>4. WorkTypes'
  BY <1>1 DEF Types, WorkTypes, WorkerPC
<1>5. Call'
  BY <1>1 DEF Types, CallTypes, Call
<1>6. ASSUME NEW l \in Lanes PROVE Worker(l)'
  BY <1>1, <1>6 DEF Types, WorkTypes, CallTypes, Worker, HitPC, Digest
<1>7. ASSUME NEW l \in Lanes PROVE Cursor(l)'
  BY <1>1, <1>7 DEF Types, SettingTypes, CallTypes, WorkTypes, Call, Cursor
<1>8. QED
  BY <1>2, <1>3, <1>4, <1>5, <1>6, <1>7 DEF IInv, Types

LEMMA PersistKeeps == ASSUME IInv, Persist PROVE IInv'
<1> USE Numbers DEF Persist, Discard, workVars, sharedVars, Unscanned
<1>1. Types /\ Call /\ \A l \in Lanes : Worker(l) /\ Cursor(l)
  BY DEF IInv
<1>a. /\ scanned' \in [Keys -> Cursors] /\ saved' \in States
      /\ saved' = state \/ (saved' = saved /\ scanned' = scanned /\ then = "poll")
      /\ scanned'[gkey] = scanned[gkey]
  <2>1. Unscanned \in Cursors
    BY DEF Cursors
  <2>2. QED
    BY <1>1, <2>1 DEF Types, SettingTypes, CallTypes
<1>2. SettingTypes'
  BY <1>1, <1>a DEF Types, SettingTypes, CallTypes
<1>3. CallTypes'
  BY <1>1 DEF Types, SettingTypes, CallTypes, ParentPC
<1>4. WorkTypes'
  <2>1. CASE Discard
    BY <2>1, Discarded
  <2>2. CASE UNCHANGED workVars
    BY <1>1, <2>2 DEF Types, WorkTypes
  <2>3. QED
    BY <2>1, <2>2
<1>5. Call'
  BY <1>1 DEF Types, CallTypes, Call
<1>6. ASSUME NEW l \in Lanes PROVE Worker(l)'
  BY <1>1, <1>6 DEF Types, WorkTypes, CallTypes, Worker, HitPC, Digest
<1>7. ASSUME NEW l \in Lanes PROVE Cursor(l)'
  <2>1. saved.offsets[l] <= scanned[saved.key][l] /\ state.offsets[l] <= scanned[gkey][l]
        /\ state.key = gkey
    BY <1>1 DEF Call, Cursor
  <2>2. saved'.offsets[l] <= scanned'[saved'.key][l]
    BY <1>a, <2>1
  <2>3. pc' # "idle" => /\ state' = state /\ gkey' = gkey /\ UNCHANGED <<progress, woff>>
    OBVIOUS
  <2>4. state.offsets[l] \in Nat
    BY <1>1 DEF Types, CallTypes, States, Cursors
  <2>5. saved'.key = gkey => saved'.offsets[l] <= state.offsets[l]
    BY <1>1, <1>a, <2>4 DEF Cursor
  <2>6. QED
    BY <1>1, <1>a, <2>2, <2>3, <2>5 DEF Cursor
<1>8. QED
  BY <1>2, <1>3, <1>4, <1>5, <1>6, <1>7 DEF IInv, Types

LEMMA ScanBlockKeeps == ASSUME IInv, NEW k \in Lanes, ScanBlock(k) PROVE IInv'
<1> USE Numbers DEF ScanBlock, At, To, Hashed, workerFrame, callVars, sharedVars
<1>1. Types /\ Call /\ \A l \in Lanes : Worker(l) /\ Cursor(l)
  BY DEF IInv
<1>a. k \in Lanes /\ woff[k] \in 0 .. LaneSize /\ from[k] \in 0 .. LaneSize /\ from[k] <= woff[k]
      /\ wpc[k] = "scan"
  BY <1>1 DEF Types, WorkTypes, Cursors, Worker
 \* The worker only looks at the event, or it hashes up to its n-th nonce.
<1>b. \/ /\ wpc' = [wpc EXCEPT ![k] = "check"] /\ UNCHANGED <<woff, scanned>>
      \/ \E w \in 0 .. LaneSize, n \in 0 .. LaneSize :
           /\ woff' = [woff EXCEPT ![k] = w] /\ Hashed(k, n) /\ from[k] <= w /\ w <= n
           /\ \/ wpc' = [wpc EXCEPT ![k] = "progress"] /\ from[k] < w
              \/ /\ wpc' = [wpc EXCEPT ![k] = "hit_progress"] /\ w < n /\ n = w + 1
                 /\ Digest(gkey, k, w) >= gtarget
  <2> USE DEF Hashed
  <2>1. CASE woff[k] + Block > LaneSize
    BY <2>1
  <2>2. CASE ~(woff[k] + Block > LaneSize) /\ Hits(k) # {}
    <3> DEFINE h == FirstOf(Hits(k))
    <3>1. h \in woff[k] .. woff[k] + Block - 1 /\ Digest(gkey, k, h) >= gtarget
      BY <1>a, <2>2, FirstHit
    <3> HIDE DEF h
    <3>2. h \in 0 .. LaneSize /\ h + 1 \in 0 .. LaneSize /\ from[k] <= h /\ h <= h + 1 /\ h < h + 1
      BY <1>a, <2>2, <3>1
    <3>3. /\ woff' = [woff EXCEPT ![k] = h] /\ wpc' = [wpc EXCEPT ![k] = "hit_progress"]
          /\ Hashed(k, h + 1)
      BY <2>2 DEF h
    <3> HIDE DEF Hashed
    <3>4. QED
      BY <3>1, <3>2, <3>3
  <2>3. CASE ~(woff[k] + Block > LaneSize) /\ Hits(k) = {}
    <3> DEFINE w == woff[k] + Block
    <3>1. w \in 0 .. LaneSize /\ from[k] < w /\ from[k] <= w /\ w <= w
      BY <1>a, <2>3
    <3>2. /\ woff' = [woff EXCEPT ![k] = w] /\ wpc' = [wpc EXCEPT ![k] = "progress"]
          /\ Hashed(k, w)
      BY <2>3
    <3> HIDE DEF Hashed, w
    <3>3. QED
      BY <3>1, <3>2
  <2>4. QED
    BY <2>1, <2>2, <2>3
<1>c. /\ scanned' \in [Keys -> Cursors]
      /\ \A x \in Keys, m \in Lanes :
           scanned[x][m] <= scanned'[x][m] /\ scanned[x][m] \in Nat /\ scanned'[x][m] \in Nat
  <2>1. scanned \in [Keys -> Cursors]
    BY <1>1 DEF Types, SettingTypes
  <2>2. CASE UNCHANGED scanned
    BY <2>1, <2>2 DEF Cursors
  <2>3. CASE \E n \in 0 .. LaneSize : Hashed(k, n)
    <3> HIDE DEF Hashed
    <3>1. PICK n \in 0 .. LaneSize : Hashed(k, n)
      BY <2>3
    <3>2. scanned' \in [Keys -> Cursors] /\ \A x \in Keys, m \in Lanes : scanned[x][m] <= scanned'[x][m]
      BY <1>1, <1>a, <3>1, HashedMore
    <3>3. QED
      BY <2>1, <3>2 DEF Cursors
  <2>4. QED
    BY <1>b, <2>2, <2>3
<1>2. SettingTypes'
  BY <1>1, <1>c DEF Types, SettingTypes
<1>3. CallTypes'
  BY <1>1 DEF Types, SettingTypes, CallTypes, ParentPC
<1>4. WorkTypes'
  <2>1. wpc' \in [Lanes -> WorkerPC] /\ woff' \in Cursors
    BY <1>1, <1>b DEF Types, WorkTypes, WorkerPC, Cursors
  <2>2. QED
    BY <1>1, <2>1 DEF Types, WorkTypes
<1>5. Call'
  BY <1>1 DEF Types, CallTypes, Call
<1>6. ASSUME NEW l \in Lanes PROVE Worker(l)' /\ (pc # "idle" => woff'[l] <= scanned'[gkey][l])
  <2>1. woff \in Cursors /\ from \in Cursors /\ wpc \in [Lanes -> WorkerPC] /\ gkey \in Keys
    BY <1>1 DEF Types, WorkTypes, CallTypes
  <2>2. scanned[gkey][l] <= scanned'[gkey][l] /\ scanned[gkey][l] \in Nat /\ scanned'[gkey][l] \in Nat
    BY <1>c, <2>1
  <2>3. CASE l # k
    <3>1. woff'[l] = woff[l] /\ wpc'[l] = wpc[l]
      BY <1>b, <2>1, <2>3 DEF Cursors
    <3>2. woff[l] \in Nat
      BY <2>1 DEF Cursors
    <3>3. woff'[l] < LaneSize /\ woff[l] + 1 <= scanned[gkey][l] => woff'[l] + 1 <= scanned'[gkey][l]
      BY <2>2, <3>1, <3>2
    <3>4. Worker(l)'
      BY <1>1, <2>2, <3>1, <3>2 DEF Worker, HitPC, Digest
    <3>5. pc # "idle" => woff'[l] <= scanned'[gkey][l]
      BY <1>1, <2>2, <3>1, <3>2 DEF Cursor
    <3>6. QED
      BY <3>4, <3>5
  <2>4. CASE l = k
    <3>1. ~found[k]
      BY <1>1, <1>a DEF Worker
    <3>2. CASE wpc' = [wpc EXCEPT ![k] = "check"] /\ UNCHANGED <<woff, scanned>>
      <4>1. wpc'[k] = "check"
        BY <2>1, <3>2
      <4>2. QED
        BY <1>1, <1>a, <2>4, <3>1, <3>2, <4>1 DEF Worker, HitPC, Cursor
    <3>3. ASSUME NEW w \in 0 .. LaneSize, NEW n \in 0 .. LaneSize,
                 woff' = [woff EXCEPT ![k] = w], Hashed(k, n), from[k] <= w, w <= n,
                 \/ wpc' = [wpc EXCEPT ![k] = "progress"] /\ from[k] < w
                 \/ /\ wpc' = [wpc EXCEPT ![k] = "hit_progress"] /\ w < n /\ n = w + 1
                    /\ Digest(gkey, k, w) >= gtarget
          PROVE  Worker(l)' /\ (pc # "idle" => woff'[l] <= scanned'[gkey][l])
      <4>1. woff'[k] = w /\ wpc'[k] \in {"progress", "hit_progress"}
            /\ (wpc'[k] = "progress" => from[k] < w)
            /\ (wpc'[k] = "hit_progress" => w < LaneSize /\ n = w + 1 /\ Digest(gkey, k, w) >= gtarget)
        BY <2>1, <3>3 DEF Cursors
      <4> HIDE DEF Hashed
      <4>2. scanned'[gkey][k] >= n
        BY <1>1, <1>a, <3>3, HashedMore
      <4>3. QED
        BY <1>a, <2>2, <2>4, <3>1, <3>3, <4>1, <4>2 DEF Worker, HitPC, Digest
    <3>4. QED
      BY <1>b, <3>2, <3>3
  <2>5. QED
    BY <2>3, <2>4
<1>7. ASSUME NEW l \in Lanes PROVE Cursor(l)'
  <2>1. saved.key \in Keys /\ gkey \in Keys /\ saved.offsets[l] \in Nat
    BY <1>1 DEF Types, SettingTypes, CallTypes, States, Cursors
  <2>2. state.offsets[l] \in Nat /\ progress[l] \in Nat
    BY <1>1 DEF Types, CallTypes, WorkTypes, States, Cursors
  <2>3. scanned[gkey][l] <= scanned'[gkey][l] /\ scanned[saved.key][l] <= scanned'[saved.key][l]
        /\ scanned[gkey][l] \in Nat /\ scanned'[gkey][l] \in Nat
        /\ scanned[saved.key][l] \in Nat /\ scanned'[saved.key][l] \in Nat
    BY <1>c, <2>1
  <2>4. QED
    BY <1>1, <1>6, <2>1, <2>2, <2>3 DEF Cursor
<1>8. QED
  BY <1>2, <1>3, <1>4, <1>5, <1>6, <1>7 DEF IInv, Types

LEMMA CheckpointKeeps == ASSUME IInv, NEW k \in Lanes, Checkpoint(k) PROVE IInv'
<1> USE Numbers DEF Checkpoint, At, To, workerFrame, callVars, sharedVars
<1>1. Types /\ Call /\ \A l \in Lanes : Worker(l) /\ Cursor(l)
  BY DEF IInv
<1>2. SettingTypes'
  BY <1>1 DEF Types, SettingTypes
<1>3. CallTypes'
  BY <1>1 DEF Types, SettingTypes, CallTypes, ParentPC
<1>a. wpc \in [Lanes -> WorkerPC] /\ woff \in Cursors /\ bits \in [Lanes -> Nat]
      /\ off \in [Lanes -> 0 .. LaneSize - 1] /\ progress \in Cursors
  BY <1>1 DEF Types, WorkTypes
<1>b. wpc[k] \in {"bits", "off"} => BestBits(k) \in Nat /\ BestOff(k) \in 0 .. LaneSize - 1
  BY <1>1, BestOfRun DEF Worker
<1>c. \/ progress' = [progress EXCEPT ![k] = woff[k]]
      \/ progress' = progress
  OBVIOUS
<1>4. WorkTypes'
  <2>1. wpc' \in [Lanes -> WorkerPC]
    BY <1>a DEF WorkerPC
  <2>2. progress' \in Cursors
    BY <1>a, <1>c DEF Cursors
  <2>3. off' \in [Lanes -> 0 .. LaneSize - 1]
    BY <1>a, <1>b
  <2>4. bits' \in [Lanes -> Nat]
    BY <1>a, <1>b
  <2>5. QED
    BY <1>1, <2>1, <2>2, <2>3, <2>4 DEF Types, WorkTypes
<1>5. Call'
  BY <1>1 DEF Types, CallTypes, Call
<1>6. ASSUME NEW l \in Lanes PROVE Worker(l)'
  BY <1>1, <1>6 DEF Types, WorkTypes, CallTypes, Worker, HitPC, Digest
<1>7. ASSUME NEW l \in Lanes PROVE Cursor(l)'
  <2>1. progress'[l] \in {progress[l], woff[l]}
    BY <1>a, <1>c DEF Cursors
  <2>2. QED
    BY <1>1, <2>1 DEF Cursor
<1>8. QED
  BY <1>2, <1>3, <1>4, <1>5, <1>6, <1>7 DEF IInv, Types

LEMMA ReportHitKeeps == ASSUME IInv, NEW k \in Lanes, ReportHit(k) PROVE IInv'
<1> USE Numbers DEF ReportHit, At, To, workerFrame, callVars, sharedVars
<1>1. Types /\ Call /\ \A l \in Lanes : Worker(l) /\ Cursor(l)
  BY DEF IInv
<1>2. SettingTypes'
  BY <1>1 DEF Types, SettingTypes
<1>3. CallTypes'
  BY <1>1 DEF Types, SettingTypes, CallTypes, ParentPC
<1>a. wpc \in [Lanes -> WorkerPC] /\ woff \in Cursors /\ bits \in [Lanes -> Nat]
      /\ off \in [Lanes -> 0 .. LaneSize - 1] /\ progress \in Cursors
      /\ found \in [Lanes -> BOOLEAN] /\ digest \in Digests /\ gkey \in Keys
  BY <1>1 DEF Types, WorkTypes, SettingTypes, CallTypes
<1>b. wpc[k] \in HitPC /\ woff[k] \in 0 .. LaneSize - 1 /\ woff[k] + 1 \in 0 .. LaneSize
      /\ woff[k] + 1 <= scanned[gkey][k]
  <2>1. wpc[k] \in HitPC
    BY DEF HitPC
  <2>2. woff[k] \in Nat
    BY <1>a DEF Cursors
  <2>3. QED
    BY <1>1, <2>1, <2>2 DEF Worker
<1>c. \/ progress' = [progress EXCEPT ![k] = woff[k] + 1]
      \/ progress' = progress
  OBVIOUS
<1>4. WorkTypes'
  <2>1. wpc' \in [Lanes -> WorkerPC]
    BY <1>a DEF WorkerPC
  <2>2. progress' \in Cursors
    BY <1>a, <1>b, <1>c DEF Cursors
  <2>3. off' \in [Lanes -> 0 .. LaneSize - 1]
    BY <1>a, <1>b
  <2>4. bits' \in [Lanes -> Nat]
    <3>1. Digest(gkey, k, woff[k]) \in Nat
      BY <1>a, <1>b, DigestType
    <3>2. QED
      BY <1>a, <3>1
  <2>5. found' \in [Lanes -> BOOLEAN]
    BY <1>a
  <2>6. QED
    BY <1>1, <2>1, <2>2, <2>3, <2>4, <2>5 DEF Types, WorkTypes
<1>5. Call'
  <2>1. lane \in Lanes
    BY <1>1 DEF Types, CallTypes
  <2>2. found[lane] => found'[lane]
    BY <1>a, <2>1
  <2>3. pc # "idle"
    BY <1>1, <1>b DEF Call, HitPC
  <2>4. QED
    BY <1>1, <2>2, <2>3 DEF Call
<1>6. ASSUME NEW l \in Lanes PROVE Worker(l)'
  BY <1>1, <1>6 DEF Types, WorkTypes, CallTypes, Worker, HitPC, Digest
<1>7. ASSUME NEW l \in Lanes PROVE Cursor(l)'
  <2>1. progress'[l] = progress[l] \/ (l = k /\ progress'[l] = woff[k] + 1)
    BY <1>a, <1>c DEF Cursors
  <2>2. QED
    BY <1>1, <1>b, <2>1 DEF Cursor
<1>8. QED
  BY <1>2, <1>3, <1>4, <1>5, <1>6, <1>7 DEF IInv, Types

LEMMA SetShutdownKeeps == ASSUME IInv, NEW k \in Lanes, SetShutdown(k) PROVE IInv'
<1> USE Numbers DEF SetShutdown, At, To, workerFrame, callVars, sharedVars
<1>1. Types /\ Call /\ \A l \in Lanes : Worker(l) /\ Cursor(l)
  BY DEF IInv
<1>2. SettingTypes'
  BY <1>1 DEF Types, SettingTypes
<1>3. CallTypes'
  BY <1>1 DEF Types, SettingTypes, CallTypes, ParentPC
<1>4. WorkTypes'
  BY <1>1 DEF Types, WorkTypes, WorkerPC
<1>5. Call'
  BY <1>1 DEF Types, CallTypes, Call
<1>6. ASSUME NEW l \in Lanes PROVE Worker(l)'
  BY <1>1, <1>6 DEF Types, WorkTypes, CallTypes, Worker, HitPC, Digest
<1>7. ASSUME NEW l \in Lanes PROVE Cursor(l)'
  BY <1>1, <1>7 DEF Types, SettingTypes, CallTypes, WorkTypes, Call, Cursor
<1>8. QED
  BY <1>2, <1>3, <1>4, <1>5, <1>6, <1>7 DEF IInv, Types

LEMMA CheckShutdownKeeps == ASSUME IInv, NEW k \in Lanes, CheckShutdown(k) PROVE IInv'
<1> USE Numbers DEF CheckShutdown, At, To, workerFrame, callVars, sharedVars
<1>1. Types /\ Call /\ \A l \in Lanes : Worker(l) /\ Cursor(l)
  BY DEF IInv
<1>2. SettingTypes'
  BY <1>1 DEF Types, SettingTypes
<1>3. CallTypes'
  BY <1>1 DEF Types, SettingTypes, CallTypes, ParentPC
<1>4. WorkTypes'
  BY <1>1 DEF Types, WorkTypes, WorkerPC
<1>5. Call'
  BY <1>1 DEF Types, CallTypes, Call
<1>6. ASSUME NEW l \in Lanes PROVE Worker(l)'
  BY <1>1, <1>6 DEF Types, WorkTypes, CallTypes, Worker, HitPC, Digest
<1>7. ASSUME NEW l \in Lanes PROVE Cursor(l)'
  BY <1>1, <1>7 DEF Types, SettingTypes, CallTypes, WorkTypes, Call, Cursor
<1>8. QED
  BY <1>2, <1>3, <1>4, <1>5, <1>6, <1>7 DEF IInv, Types

LEMMA TerminatedKeeps == ASSUME IInv, NEW k \in Lanes, Terminated(k) PROVE IInv'
<1> USE Numbers DEF Terminated, To, Alive, callVars, sharedVars
<1>1. Types /\ Call /\ \A l \in Lanes : Worker(l) /\ Cursor(l)
  BY DEF IInv
<1>2. SettingTypes'
  BY <1>1 DEF Types, SettingTypes
<1>3. CallTypes'
  BY <1>1 DEF Types, SettingTypes, CallTypes, ParentPC
<1>4. WorkTypes'
  <2>1. Writes(k) \subseteq Arrays
    BY DEF Writes, Arrays
  <2>2. QED
    BY <1>1, <2>1 DEF Types, WorkTypes, WorkerPC
<1>5. Call'
  BY <1>1 DEF Types, CallTypes, Call
<1>6. ASSUME NEW l \in Lanes PROVE Worker(l)'
  BY <1>1, <1>6 DEF Types, WorkTypes, CallTypes, Worker, HitPC, Digest
<1>7. ASSUME NEW l \in Lanes PROVE Cursor(l)'
  BY <1>1, <1>7 DEF Types, SettingTypes, CallTypes, WorkTypes, Call, Cursor
<1>8. QED
  BY <1>2, <1>3, <1>4, <1>5, <1>6, <1>7 DEF IInv, Types

LEMMA SetTargetKeeps == ASSUME IInv, NEW k \in Targets, SetTarget(k) PROVE IInv'
<1> USE Numbers DEF SetTarget, settings, callVars, workVars, sharedVars
<1>1. Types /\ Call /\ \A l \in Lanes : Worker(l) /\ Cursor(l)
  BY DEF IInv
<1>2. SettingTypes'
  BY <1>1 DEF Types, SettingTypes
<1>3. CallTypes'
  BY <1>1 DEF Types, SettingTypes, CallTypes, ParentPC
<1>4. WorkTypes'
  BY <1>1 DEF Types, WorkTypes, WorkerPC
<1>5. Call'
  BY <1>1 DEF Types, CallTypes, Call
<1>6. ASSUME NEW l \in Lanes PROVE Worker(l)'
  BY <1>1, <1>6 DEF Types, WorkTypes, CallTypes, Worker, HitPC, Digest
<1>7. ASSUME NEW l \in Lanes PROVE Cursor(l)'
  BY <1>1, <1>7 DEF Types, SettingTypes, CallTypes, WorkTypes, Call, Cursor
<1>8. QED
  BY <1>2, <1>3, <1>4, <1>5, <1>6, <1>7 DEF IInv, Types

LEMMA OpenWalletKeeps == ASSUME IInv, NEW k \in Keys, OpenWallet(k) PROVE IInv'
<1> USE Numbers DEF OpenWallet, settings, callVars, workVars, sharedVars
<1>1. Types /\ Call /\ \A l \in Lanes : Worker(l) /\ Cursor(l)
  BY DEF IInv
<1>2. SettingTypes'
  BY <1>1 DEF Types, SettingTypes
<1>3. CallTypes'
  BY <1>1 DEF Types, SettingTypes, CallTypes, ParentPC
<1>4. WorkTypes'
  BY <1>1 DEF Types, WorkTypes, WorkerPC
<1>5. Call'
  BY <1>1 DEF Types, CallTypes, Call
<1>6. ASSUME NEW l \in Lanes PROVE Worker(l)'
  BY <1>1, <1>6 DEF Types, WorkTypes, CallTypes, Worker, HitPC, Digest
<1>7. ASSUME NEW l \in Lanes PROVE Cursor(l)'
  BY <1>1, <1>7 DEF Types, SettingTypes, CallTypes, WorkTypes, Call, Cursor
<1>8. QED
  BY <1>2, <1>3, <1>4, <1>5, <1>6, <1>7 DEF IInv, Types

LEMMA CrashKeeps == ASSUME IInv, Crash PROVE IInv'
<1> USE Numbers DEF Crash, Discard, Unscanned
<1>1. Types /\ Call /\ \A l \in Lanes : Worker(l) /\ Cursor(l)
  BY DEF IInv
<1>2. SettingTypes'
  BY <1>1 DEF Types, SettingTypes
<1>3. CallTypes'
  BY <1>1 DEF Types, SettingTypes, CallTypes, ParentPC
<1>4. WorkTypes'
  BY Discarded
<1>5. Call'
  BY <1>1 DEF Types, CallTypes, Call
<1>6. ASSUME NEW l \in Lanes PROVE Worker(l)'
  BY <1>1, <1>6 DEF Types, WorkTypes, CallTypes, Worker, HitPC, Digest
<1>7. ASSUME NEW l \in Lanes PROVE Cursor(l)'
  BY <1>1, <1>7 DEF Types, SettingTypes, CallTypes, WorkTypes, Call, Cursor
<1>8. QED
  BY <1>2, <1>3, <1>4, <1>5, <1>6, <1>7 DEF IInv, Types

\* Between two steps nothing changes.
LEMMA StutterKeeps == ASSUME IInv, UNCHANGED vars PROVE IInv'
<1> USE DEF vars, callVars, workVars, sharedVars
<1>1. Types'
  BY DEF IInv, Types, SettingTypes, CallTypes, WorkTypes
<1>2. Call'
  BY DEF IInv, Call
<1>3. ASSUME NEW l \in Lanes PROVE Worker(l)' /\ Cursor(l)'
  BY <1>3 DEF IInv, Worker, HitPC, Cursor, Digest
<1>4. QED
  BY <1>1, <1>2, <1>3 DEF IInv

LEMMA InvariantKept == IInv /\ [Next]_vars => IInv'
<1> SUFFICES ASSUME IInv, [Next]_vars PROVE IInv'
  OBVIOUS
<1>1. CASE EnsureCached \/ EnsureBest \/ EnsureGrind \/ Cancelled
  BY <1>1, EnsureCachedKeeps, EnsureBestKeeps, EnsureGrindKeeps, CancelledKeeps
<1>2. CASE ParentStep
  <2>1. CASE PollExpires \/ LookForWinner \/ AnyAlive \/ Success
    BY <2>1, PollExpiresKeeps, LookForWinnerKeeps, AnyAliveKeeps, SuccessKeeps
  <2>2. CASE SnapProgress \/ SnapBits \/ SnapOff \/ Persist
    BY <2>2, SnapProgressKeeps, SnapBitsKeeps, SnapOffKeeps, PersistKeeps
  <2>3. QED
    BY <1>2, <2>1, <2>2 DEF ParentStep
<1>3. ASSUME NEW l \in Lanes, WorkerStep(l) \/ Terminated(l) PROVE IInv'
  <2>1. CASE ScanBlock(l) \/ Checkpoint(l) \/ ReportHit(l)
    BY <2>1, ScanBlockKeeps, CheckpointKeeps, ReportHitKeeps
  <2>2. CASE SetShutdown(l) \/ CheckShutdown(l) \/ Terminated(l)
    BY <2>2, SetShutdownKeeps, CheckShutdownKeeps, TerminatedKeeps
  <2>3. QED
    BY <1>3, <2>1, <2>2 DEF WorkerStep
<1>4. ASSUME NEW t \in Targets, SetTarget(t) PROVE IInv'
  BY <1>4, SetTargetKeeps
<1>5. ASSUME NEW k \in Keys, OpenWallet(k) PROVE IInv'
  BY <1>5, OpenWalletKeeps
<1>6. CASE Crash
  BY <1>6, CrashKeeps
<1>7. CASE UNCHANGED vars
  BY <1>7, StutterKeeps
<1>8. QED
  BY <1>1, <1>2, <1>3, <1>4, <1>5, <1>6, <1>7 DEF Next

LEMMA Invariant == Spec => []IInv
<1>1. QED
  BY InitHolds, InvariantKept, PTL DEF Spec

-----------------------------------------------------------------------------
(* What follows.                                                           *)

\* Every variable has its type, the offsets of reported nonces among them.
THEOREM TypeCorrect == Spec => []TypeOK
<1>1. IInv => TypeOK
  <2> SUFFICES ASSUME Types PROVE TypeOK
    BY DEF IInv
  <2>1. off \in Cursors
    BY Numbers DEF Types, WorkTypes, Cursors
  <2>2. QED
    BY <2>1 DEF Types, SettingTypes, CallTypes, WorkTypes, TypeOK
<1>2. QED
  BY <1>1, Invariant, PTL

\* "A persisted cursor never claims a nonce that was not hashed for that key":
\* also when it was folded in while workers were writing, by a call that another
\* wallet's followed, or before a crash.
THEOREM NothingSkipped == Spec => []CursorsScanned
<1>1. IInv => CursorsScanned
  BY DEF IInv, Cursor, CursorsScanned
<1>2. QED
  BY <1>1, Invariant, PTL

\* "Work accumulates monotonically across restarts": while the saved key stays the same,
\* no later persist, crash or changed target takes back what was persisted.  A search for
\* another key does discard it, as the code means it to.
THEOREM WorkAccumulates == Spec => WorkKept
<1> DEFINE Kept == saved'.key = saved.key => \A l \in Lanes : saved'.offsets[l] >= saved.offsets[l]
<1>1. IInv /\ [Next]_vars => [Kept]_vars
  <2> SUFFICES ASSUME IInv, Next PROVE Kept
    OBVIOUS
  <2>1. ASSUME NEW l \in Lanes PROVE saved.offsets[l] \in Nat /\ state.offsets[l] \in Nat
    BY <2>1 DEF IInv, Types, SettingTypes, CallTypes, States, Cursors
  <2>2. CASE UNCHANGED saved
    BY <2>1, <2>2
  <2>3. CASE Persist
    <3>1. saved' = state \/ saved' = saved
      BY <2>3 DEF Persist
    <3>2. pc # "idle" /\ state.key = gkey
      BY <2>3 DEF Persist, IInv, Call
    <3>3. \A l \in Lanes : saved.key = gkey => saved.offsets[l] <= state.offsets[l]
      BY <3>2 DEF IInv, Cursor
    <3>4. QED
      BY <2>1, <3>1, <3>2, <3>3
  <2>4. UNCHANGED saved \/ Persist
    BY DEF Next, ParentStep, WorkerStep, EnsureCached, EnsureBest, EnsureGrind, Settled,
           Cancelled, PollExpires, LookForWinner, AnyAlive, Success, SnapProgress, SnapBits,
           SnapOff, parentFrame, ScanBlock, Checkpoint, ReportHit, SetShutdown, CheckShutdown,
           Terminated, workerFrame, SetTarget, OpenWallet, settings, Crash
  <2>5. QED
    BY <2>2, <2>3, <2>4
<1>2. QED
  BY <1>1, Invariant, InvariantKept, PTL DEF Spec, WorkKept

-----------------------------------------------------------------------------
(* The nonce that a call leaves behind.                                    *)

\* The number 0 is no hit: no digest of the first nonce meets a target.  (When
\* one does, the code reports a success and has none.)
ZeroMisses == \A d \in Digests, k \in Keys, t \in Targets : t > 0 => d[k][1][0] < t

\* The winner's nonce is good from the moment it is read until it is installed,
\* and then for as long as the call is the last one.
Meets ==
  /\ then = "success" => won \in Nonces /\ PowBits(gkey, won) >= gtarget
  /\ InstalledMeetsTarget

LEMMA WinnerMeets ==
  ASSUME ZeroMisses, IInv, pc = "success"
  PROVE  Won \in Nonces /\ PowBits(gkey, Won) >= gtarget
<1>1. lane \in Lanes /\ off[lane] \in 0 .. LaneSize - 1 /\ found[lane] /\ gtarget > 0
      /\ digest \in Digests /\ gkey \in Keys /\ gtarget \in Targets
  BY DEF IInv, Types, SettingTypes, CallTypes, WorkTypes, Call
<1>2. Digest(gkey, lane, off[lane]) >= gtarget
  BY <1>1 DEF IInv, Worker
<1>3. Digest(gkey, lane, off[lane]) \in Nat /\ gtarget \in Nat
  BY <1>1, DigestType, Numbers
<1>4. ~(lane = 1 /\ off[lane] = 0)
  <2>1. digest[gkey][1][0] < gtarget
    BY <1>1 DEF ZeroMisses
  <2>2. QED
    BY <1>2, <1>3, <2>1 DEF Digest
<1>5. Won \notin {NoNonce, <<1, 0>>}
  BY <1>1, <1>4, Numbers DEF Won, NoNonce, Lanes
<1>6. QED
  BY <1>1, <1>2, <1>5 DEF Won, Nonces, PowBits

\* "Returns True when a usable nonce is in place": if the number 0 is no hit, a
\* call that returns True leaves a nonce that meets its target for its key.
THEOREM CallKeepsItsWord == ASSUME ZeroMisses PROVE Spec => []InstalledMeetsTarget
<1>1. Init => Meets
  BY DEF Init, Meets, InstalledMeetsTarget
<1>2. IInv /\ Meets /\ [Next]_vars => Meets'
  <2> SUFFICES ASSUME IInv, Meets, [Next]_vars PROVE Meets'
    OBVIOUS
  <2> USE DEF Meets, InstalledMeetsTarget
  <2>1. CASE EnsureCached
    BY <2>1 DEF EnsureCached, Begin, Settled, IInv, Call, PowBits, Digest
  <2>2. CASE EnsureBest
    BY <2>2, LoadType DEF EnsureBest, Begin, Settled, IInv, Call, PowBits, Digest
  <2>3. CASE EnsureGrind
    BY <2>3 DEF EnsureGrind, Begin
  <2>4. CASE Success
    <3>1. Won \in Nonces /\ PowBits(gkey, Won) >= gtarget
      BY <2>4, WinnerMeets DEF Success
    <3>2. outcome = "none"
      BY <2>4 DEF Success, IInv, Call
    <3>3. won' = Won /\ gkey' = gkey /\ gtarget' = gtarget /\ digest' = digest /\ outcome' = outcome
      BY <2>4 DEF Success
    <3>4. QED
      BY <3>1, <3>2, <3>3 DEF PowBits, Digest
  <2>5. CASE Persist
    <3>1. pc = "persist" /\ outcome = "none"
      BY <2>5 DEF Persist, IInv, Call
    <3>2. gkey' = gkey /\ gtarget' = gtarget /\ digest' = digest /\ then' = "poll"
      BY <2>5 DEF Persist
    <3>3. outcome' = "ready" => then = "success" /\ installed' = won
      BY <2>5, <3>1 DEF Persist
    <3>4. QED
      BY <3>2, <3>3 DEF PowBits, Digest
  <2>6. CASE Crash
    BY <2>6 DEF Crash
  <2>7. CASE /\ UNCHANGED <<won, gkey, gtarget, digest, outcome, installed>>
             /\ then' = "success" => then = "success"
    BY <2>7 DEF PowBits, Digest
  <2>8. QED
    <3>1. CASE Cancelled \/ PollExpires \/ LookForWinner \/ AnyAlive \/ SnapProgress \/ SnapBits \/ SnapOff
      BY <2>7, <3>1 DEF Cancelled, PollExpires, LookForWinner, AnyAlive, SnapProgress, SnapBits,
                        SnapOff, parentFrame
    <3>2. ASSUME NEW l \in Lanes, WorkerStep(l) \/ Terminated(l) PROVE Meets'
      BY <2>7, <3>2 DEF WorkerStep, ScanBlock, Checkpoint, ReportHit, SetShutdown, CheckShutdown,
                        Terminated, workerFrame, callVars
    <3>3. ASSUME NEW t \in Targets, SetTarget(t) PROVE Meets'
      BY <2>7, <3>3 DEF SetTarget, settings, callVars
    <3>4. ASSUME NEW k \in Keys, OpenWallet(k) PROVE Meets'
      BY <2>7, <3>4 DEF OpenWallet, settings, callVars
    <3>5. CASE UNCHANGED vars
      BY <2>7, <3>5 DEF vars, callVars
    <3>6. QED
      BY <2>1, <2>2, <2>3, <2>4, <2>5, <2>6, <3>1, <3>2, <3>3, <3>4, <3>5 DEF Next, ParentStep
<1>3. Meets => InstalledMeetsTarget
  BY DEF Meets
<1>4. QED
  BY <1>1, <1>2, <1>3, Invariant, PTL DEF Spec
=============================================================================
