----------------------------- MODULE ServedSwaps -----------------------------
(***************************************************************************)
(* The served-swap bookkeeping (served_swaps.py): which side of each swap  *)
(* the wallet was on, what the swap returned, and which of it is settled   *)
(* enough to be reported.  The code is a function of the wallet's records, *)
(* so it is modelled by operators over the state; the actions are the      *)
(* wallet's life (Electrum's SwapManager, watcher and transaction batcher),*)
(* which decides what records there can be.                                *)
(*                                                                         *)
(* A transaction is a number, and so is a swap's payment hash: dictionary  *)
(* order is the order of the numbers.  Dates are reduced to having one,    *)
(* texts to the role and the direction they name.                          *)
(***************************************************************************)
EXTENDS Integers, FiniteSets, FiniteSetsExt

CONSTANTS
  NumSwaps,        \* bound: how many swaps there are
  NumTxs,          \* bound: how many transactions there are
  Lightning,       \* the lightning amount of every swap
  Margins,         \* what servers may charge
  PrepaySat,       \* the part of it that is a mining-fee prepayment
  Overpayments,    \* what a taker may pay into the lockup beyond the amount
  Fees,            \* the mining fees of a batch transaction
  ClaimVbytes,     \* claim_input_vbytes of our redeem script
  FundingVbytes    \* FUNDING_OUTPUT_VBYTES

ASSUME BoundAssumption == NumSwaps \in Nat /\ NumTxs \in Nat
ASSUME AmountAssumption ==
  /\ Lightning \in Nat /\ PrepaySat \in Nat /\ Margins \subseteq Nat
  /\ Overpayments \subseteq Nat /\ Fees \subseteq Nat
  /\ ClaimVbytes \in Nat /\ FundingVbytes \in Nat

Swaps == 1 .. NumSwaps
Txs   == 1 .. NumTxs
Parts == {"main", "prepay"}       \* the payments of a swap

SwapData == [rev : BOOLEAN, prepay : BOOLEAN, claimTo : BOOLEAN,
             onchain : Int, funding : 0 .. NumTxs,
             spending : 0 .. NumTxs, preimage : BOOLEAN]

VARIABLES
  truth,    \* which side we were on: "none" while there is no such swap
  swaps,    \* SwapManager._swaps
  ledger,   \* the payment hashes recorded in the wallet db
  lockup,   \* what was paid into the swap's lockup address
  height,   \* of a transaction; "dropped" is one that lost to a conflict
  ours,     \* the transactions in the wallet's history
  fee,      \* their mining fees
  delta,    \* what the wallet gained by them
  lnItems,  \* the payments in the wallet's lightning history
  lnMade    \* the payments that were ever made

vars == <<truth, swaps, ledger, lockup, height, ours, fee, delta, lnItems, lnMade>>

Heights == {"none", "local", "mempool", "confirmed", "dropped"}
NewSwap(rev, prepay, claimTo, onchain, preimage) ==
  [rev |-> rev, prepay |-> prepay, claimTo |-> claimTo, onchain |-> onchain,
   funding |-> 0, spending |-> 0, preimage |-> preimage]
Blank == NewSwap(FALSE, FALSE, FALSE, 0, FALSE)

Init ==
  /\ truth = [s \in Swaps |-> "none"] /\ swaps = [s \in Swaps |-> Blank]
  /\ ledger = {} /\ lockup = [s \in Swaps |-> 0]
  /\ height = [t \in Txs |-> "none"] /\ ours = {}
  /\ fee = [t \in Txs |-> 0] /\ delta = [t \in Txs |-> 0]
  /\ lnItems = {} /\ lnMade = {}

Stored == {s \in Swaps : truth[s] # "none"}

-----------------------------------------------------------------------------
(* Which side of a swap we were on.                                        *)

\* swap_margin_sat: what we stood to gain, per the agreed amounts.
Margin(d) == IF d.rev THEN d.onchain - Lightning ELSE Lightning - d.onchain

\* looks_server_side, the guess that classify_swap refines.
LooksServerSide(d) == IF d.rev THEN ~d.prepay /\ ~d.claimTo ELSE d.prepay

\* Mutant: the guess is taken for the role.
RoleByFields(s) ==
  IF s \in ledger \/ LooksServerSide(swaps[s]) THEN "served" ELSE "own"

\* Mutant: the ledger alone decides.
RoleByLedger(s) == IF s \in ledger THEN "served" ELSE "own"

\* classify_swap: the ledger, then the fields one side only writes, then the
\* margin.
Role(s) ==
  LET d == swaps[s] IN
  CASE s \in ledger                    -> "served"
    [] s \notin ledger /\ ~d.rev       -> IF d.prepay THEN "served" ELSE "own"
    [] s \notin ledger /\ d.rev /\ (d.claimTo \/ d.prepay) -> "own"
    [] OTHER -> CASE Margin(d) > 0 -> "served"
                  [] Margin(d) < 0 -> "own"
                  [] OTHER         -> "unknown"

\* taker_did_forward_swap: the flag is stored from the point of view of whoever
\* stored it.
TakerDidForward(d, served) == IF served THEN d.rev ELSE ~d.rev

\* The direction in the label of the history tab's copy, and in that of a row.
HistoryLabelForward(s) == TakerDidForward(swaps[s], Role(s) # "own")
RowForward(s) == TakerDidForward(swaps[s], TRUE)

-----------------------------------------------------------------------------
(* The legs of a swap and what each of them was worth.                     *)

Leg(s, t, kind, gross, vbytes) ==
  [swap |-> s, tx |-> t, kind |-> kind, gross |-> gross, vbytes |-> vbytes]

\* _our_onchain_legs: those in the wallet's history.  The side that holds the
\* claim key spends the lockup; the other one funds it, and takes it back when
\* nobody ever revealed the preimage.
OnchainLegs(s) ==
  LET d       == swaps[s]
      claim   == Leg(s, d.spending, "claim", lockup[s], ClaimVbytes)
      funding == Leg(s, d.funding, "funding", -d.onchain, FundingVbytes)
      refund  == Leg(s, d.spending, "refund", lockup[s], ClaimVbytes)
      made    == IF d.rev THEN {claim}
                 ELSE {funding} \cup (IF d.preimage THEN {} ELSE {refund})
  IN  {l \in made : l.tx \in ours}

\* legs_by_tx: of every swap, served or not.
LegsOf(t) == {l \in UNION {OnchainLegs(s) : s \in Stored} : l.tx = t}

\* Mutant: what the rounding leaves over is lost.
SplitFeeFloor(legs, sat) ==
  LET total == MapThenSumSet(LAMBDA l : l.vbytes, legs)
  IN  [l \in legs |-> (sat * l.vbytes) \div total]

\* split_fee: proportional shares rounded down; what that leaves over goes, one
\* each, to the largest remainders, ties broken by key.
SplitFee(legs, sat) ==
  LET even     == MapThenSumSet(LAMBDA l : l.vbytes, legs) = 0
      weight(l) == IF even THEN 1 ELSE l.vbytes
      total    == MapThenSumSet(weight, legs)
      floor(l) == (sat * weight(l)) \div total
      rest(l)  == (sat * weight(l)) % total
      before(l) == {m \in legs : \/ rest(m) > rest(l)
                                 \/ rest(m) = rest(l) /\ m.swap < l.swap}
      left     == sat - MapThenSumSet(floor, legs)
  IN  [l \in legs |-> floor(l) + (IF Cardinality(before(l)) < left THEN 1 ELSE 0)]

\* net_by_leg.
Net(l) == l.gross - SplitFee(LegsOf(l.tx), fee[l.tx])[l]

\* What a payment of the swap brought us (negative when we paid).
LnValue(s, part) ==
  LET d == swaps[s]
      share == CASE part = "prepay" -> PrepaySat
                 [] part = "main"   -> IF d.prepay THEN Lightning - PrepaySat ELSE Lightning
  IN  IF d.rev THEN -share ELSE share

LnParts(s) == IF swaps[s].prepay THEN Parts ELSE {"main"}
LnLegs(s) == {p \in LnParts(s) : <<s, p>> \in lnItems}

-----------------------------------------------------------------------------
(* The rows.                                                               *)

\* Mutant: a swap whose lockup is spent at all is taken for finished.
StatusSpent(s) == IF swaps[s].spending = 0 THEN "in_flight" ELSE "final"

\* swap_status.
Status(s) ==
  CASE swaps[s].spending = 0 -> "in_flight"
    [] OTHER -> CASE height[swaps[s].spending] = "confirmed" -> "final"
                  [] height[swaps[s].spending] = "local"     -> "local"
                  [] OTHER                                   -> "unconfirmed"

\* Mutant: a leg that is not in the history is counted at zero.
MissingNone(s) == {}

\* missing_legs: the legs this wallet made and does not have in its history.
Missing(s) ==
  LET d    == swaps[s]
      made == {l.kind : l \in OnchainLegs(s)}
  IN  (LnParts(s) \ LnLegs(s))
        \cup (IF ~d.rev /\ d.funding # 0 /\ "funding" \notin made THEN {"funding"} ELSE {})
        \cup (IF d.rev /\ d.spending # 0 /\ "claim" \notin made THEN {"claim"} ELSE {})

\* The sum of the legs at hand; a return only when none is missing.
Value(s) ==
  MapThenSumSet(LAMBDA p : LnValue(s, p), LnLegs(s))
    + MapThenSumSet(Net, OnchainLegs(s))

\* A payment has a date, and so has a transaction once it confirmed.
Dated(s) == LnLegs(s) # {} \/ \E l \in OnchainLegs(s) : height[l.tx] = "confirmed"

\* build_swap_rows.
Rows(includeOwn, includePending) ==
  {s \in Stored :
     /\ Role(s) = "own" => includeOwn
     /\ Status(s) # "final" => includePending
     /\ Dated(s) \/ Status(s) # "final"}

\* counts_towards_total, of a row.
Counts(s) ==
  /\ s \in Rows(TRUE, TRUE)
  /\ Missing(s) = {} /\ Role(s) = "served" /\ Status(s) = "final"

\* Mutant: the net return takes in the rows whose side is unknown.
SummaryOfAll(rows) ==
  LET final == {s \in rows : Status(s) = "final"} IN
  [pending      |-> rows \ final,
   incomplete   |-> {s \in final : Missing(s) # {}},
   unattributed |-> {s \in final : Role(s) = "unknown"},
   netReturn    |-> MapThenSumSet(Value, {s \in final : Missing(s) = {}})]

\* get_swap_summary, over the rows of a table.
Summary(rows) ==
  LET final == {s \in rows : Status(s) = "final"} IN
  [pending      |-> rows \ final,
   incomplete   |-> {s \in final : Missing(s) # {}},
   unattributed |-> {s \in final : Role(s) = "unknown"},
   netReturn    |-> MapThenSumSet(Value,
                      {s \in final : Missing(s) = {} /\ Role(s) = "served"})]

-----------------------------------------------------------------------------
(* Creating swaps.                                                         *)

\* record_served_swap, by the recorder; swaps of an older version, and those
\* created while no recorder is installed, are not recorded.
RecordServedSwap(s) == ledger' \in {ledger, ledger \cup {s}}

create == <<lockup, height, ours, fee, delta, lnItems, lnMade>>

\* server_create_normal_swap and server_create_swap: the server comes out ahead
\* by the margin, and asks a prepayment for a swap it funds.
CreateServed(s, rev, margin) ==
  /\ truth[s] = "none"
  /\ truth' = [truth EXCEPT ![s] = "served"]
  /\ swaps' = [swaps EXCEPT ![s] =
       NewSwap(rev, ~rev, FALSE, Lightning + (IF rev THEN margin ELSE -margin), FALSE)]
  /\ RecordServedSwap(s)
  /\ UNCHANGED create

\* normal_swap and reverse_swap: the server we are customers of comes out ahead.
\* A reverse swap may have a prepayment and may pay to somebody else's address.
CreateOwn(s, rev, margin) ==
  /\ truth[s] = "none"
  /\ truth' = [truth EXCEPT ![s] = "own"]
  /\ \E prepay \in BOOLEAN, claimTo \in BOOLEAN :
       /\ prepay \/ claimTo => rev
       /\ swaps' = [swaps EXCEPT ![s] =
            NewSwap(rev, prepay, claimTo, Lightning + (IF rev THEN -margin ELSE margin), rev)]
  /\ UNCHANGED <<ledger, create>>

-----------------------------------------------------------------------------
(* Transactions and payments.                                              *)

\* Transactions are numbered in the order they are made.
NextTx(t) == height[t] = "none" /\ \A u \in Txs : u < t => height[u] # "none"

SettledFunding(s) ==
  s \in Stored /\ swaps[s].funding # 0 /\ height[swaps[s].funding] = "confirmed"
Unspent(s) == SettledFunding(s) /\ swaps[s].spending = 0

Pay(s, part) ==
  /\ lnItems' = lnItems \cup {<<s, part>>} /\ lnMade' = lnMade \cup {<<s, part>>}
Paid(s, part) == <<s, part>> \in lnMade

\* The prepayment is settled at once, before anybody funds.
PayPrepay(s) ==
  /\ s \in Stored /\ swaps[s].prepay /\ ~Paid(s, "prepay") /\ swaps[s].funding = 0
  /\ Pay(s, "prepay")
  /\ UNCHANGED <<truth, swaps, ledger, lockup, height, ours, fee, delta>>

\* The main payment settles with the preimage: we pay the taker's invoice once
\* the lockup is funded, and so learn it; any other one follows its revelation.
PayMain(s) ==
  /\ s \in Stored /\ ~Paid(s, "main")
  /\ \/ swaps[s].rev /\ truth[s] = "served" /\ Unspent(s)
     \/ swaps[s].rev /\ truth[s] = "own" /\ swaps[s].spending \in ours
          /\ height[swaps[s].spending] \in {"mempool", "confirmed"}
     \/ ~swaps[s].rev /\ swaps[s].preimage
  /\ swaps' = [swaps EXCEPT ![s].preimage = TRUE]
  /\ Pay(s, "main")
  /\ UNCHANGED <<truth, ledger, lockup, height, ours, fee, delta>>

\* The channel that carried a payment is gone, and its history with it.
PaymentForgotten(e) ==
  /\ e \in lnItems /\ lnItems' = lnItems \ {e}
  /\ UNCHANGED <<truth, swaps, ledger, lockup, height, ours, fee, delta, lnMade>>

\* The other side funds a lockup that we shall claim.
TheyFund(s, t, over) ==
  /\ s \in Stored /\ swaps[s].rev /\ swaps[s].funding = 0 /\ NextTx(t)
  /\ swaps[s].prepay => Paid(s, "prepay")
  /\ over # 0 => truth[s] = "served"
  /\ swaps' = [swaps EXCEPT ![s].funding = t]
  /\ lockup' = [lockup EXCEPT ![s] = swaps[s].onchain + over]
  /\ height' = [height EXCEPT ![t] = "mempool"]
  /\ UNCHANGED <<truth, ledger, ours, fee, delta, lnItems, lnMade>>

Claimable(s) == Unspent(s) /\ swaps[s].rev /\ swaps[s].preimage
Fundable(s) ==
  /\ s \in Stored /\ ~swaps[s].rev /\ swaps[s].funding = 0
  /\ swaps[s].prepay => Paid(s, "prepay")
Refundable(s) == Unspent(s) /\ ~swaps[s].rev /\ ~swaps[s].preimage

\* The batcher folds what is pending into one transaction, first a local one:
\* swaps to claim or to take back, and swaps to fund.
MakeTx(t, spent, funded, sat) ==
  /\ NextTx(t) /\ spent \cup funded # {}
  /\ \A s \in spent : Claimable(s) \/ Refundable(s)
  /\ \A s \in funded : Fundable(s)
  /\ swaps' = [s \in Swaps |->
       [swaps[s] EXCEPT !.spending = IF s \in spent THEN t ELSE @,
                        !.funding  = IF s \in funded THEN t ELSE @]]
  /\ lockup' = [s \in Swaps |-> IF s \in funded THEN swaps[s].onchain ELSE lockup[s]]
  /\ height' = [height EXCEPT ![t] = "local"]
  /\ ours' = ours \cup {t} /\ fee' = [fee EXCEPT ![t] = sat]
  /\ delta' = [delta EXCEPT ![t] = MapThenSumSet(LAMBDA s : lockup[s], spent)
                                     - MapThenSumSet(LAMBDA s : swaps[s].onchain, funded) - sat]
  /\ UNCHANGED <<truth, ledger, lnItems, lnMade>>

Broadcast(t) ==
  /\ height[t] = "local" /\ height' = [height EXCEPT ![t] = "mempool"]
  /\ UNCHANGED <<truth, swaps, ledger, lockup, ours, fee, delta, lnItems, lnMade>>

Confirm(t) ==
  /\ height[t] = "mempool" /\ height' = [height EXCEPT ![t] = "confirmed"]
  /\ UNCHANGED <<truth, swaps, ledger, lockup, ours, fee, delta, lnItems, lnMade>>

\* Our spend of the lockup may still lose to the other side's.  (Bound: only a
\* transaction that does nothing else is replaced.)
Replaceable(s) ==
  LET t == swaps[s].spending IN
  /\ SettledFunding(s) /\ t \in ours /\ height[t] \in {"local", "mempool"}
  /\ \A x \in Stored \ {s} : swaps[x].spending # t /\ swaps[x].funding # t

\* The other side spends the lockup: it claims, revealing the preimage, or takes
\* back what it funded.
TheySpend(s, t) ==
  /\ NextTx(t) /\ (Unspent(s) \/ Replaceable(s))
  /\ swaps[s].rev => ~Paid(s, "main")
  /\ LET lost == {swaps[s].spending} \ {0} IN
       /\ height' = [u \in Txs |-> IF u = t THEN "mempool"
                                   ELSE IF u \in lost THEN "dropped" ELSE height[u]]
       /\ ours' = ours \ lost
       /\ delta' = [u \in Txs |-> IF u \in lost THEN 0 ELSE delta[u]]
  /\ swaps' = [swaps EXCEPT ![s].spending = t,
                            ![s].preimage = @ \/ ~swaps[s].rev]
  /\ UNCHANGED <<truth, ledger, lockup, fee, lnItems, lnMade>>

-----------------------------------------------------------------------------
Create ==
  \E s \in Swaps, rev \in BOOLEAN, margin \in Margins :
    /\ \A x \in Swaps : x < s => truth[x] # "none"
    /\ CreateServed(s, rev, margin) \/ CreateOwn(s, rev, margin)

Payment ==
  \/ \E s \in Swaps : PayPrepay(s) \/ PayMain(s)
  \/ \E e \in lnItems : PaymentForgotten(e)

Transaction ==
  \E t \in Txs :
    \/ \E s \in Swaps, over \in Overpayments : TheyFund(s, t, over)
    \/ \E spent, funded \in SUBSET Stored, sat \in Fees : MakeTx(t, spent, funded, sat)
    \/ \E s \in Swaps : TheySpend(s, t)
    \/ Broadcast(t) \/ Confirm(t)

Next == Create \/ Payment \/ Transaction

Spec == Init /\ [][Next]_vars

-----------------------------------------------------------------------------
(* Properties.                                                             *)

\* Every variable has its type, and no leg pays a negative share of a fee.
TypeOK ==
  /\ truth \in [Swaps -> {"none", "served", "own"}] /\ swaps \in [Swaps -> SwapData]
  /\ ledger \subseteq Swaps /\ lockup \in [Swaps -> Int]
  /\ height \in [Txs -> Heights] /\ ours \subseteq Txs
  /\ fee \in [Txs -> Nat] /\ delta \in [Txs -> Int]
  /\ lnItems \subseteq lnMade /\ lnMade \subseteq Swaps \X Parts
  /\ \A t \in Txs : LET legs == LegsOf(t) IN
       \A l \in legs : SplitFee(legs, fee[t])[l] \in 0 .. fee[t]

\* A swap is filed on the wrong side never, and on no side only when it was not
\* recorded and nobody charged for it; the history label then names the direction
\* the customer asked for.
RoleHonest ==
  \A s \in Stored :
    /\ Role(s) \in {truth[s], "unknown"}
    /\ Role(s) = "unknown" => s \notin ledger /\ Margin(swaps[s]) = 0
    /\ Role(s) = truth[s] =>
         (HistoryLabelForward(s) <=> (swaps[s].rev <=> truth[s] = "served"))

\* The rows of a batch reconcile with the wallet: whatever swaps share a
\* transaction, and whosever they are, their net legs add up to what the wallet
\* gained by it ("exactly").
BatchReconciles ==
  \A t \in ours : MapThenSumSet(Net, LegsOf(t)) = delta[t]

\* What enters the net return is over: the swap was served, it was paid, and every
\* transaction of ours in it has confirmed.
CountedIsSettled ==
  \A s \in Stored : Counts(s) =>
    /\ truth[s] = "served"
    /\ \A p \in LnParts(s) : Paid(s, p)
    /\ \A l \in OnchainLegs(s) : height[l.tx] = "confirmed"

\* What the wallet gained by all its swaps together.
Balance ==
  MapThenSumSet(LAMBDA e : LnValue(e[1], e[2]), lnMade)
    + MapThenSumSet(LAMBDA t : delta[t], ours)

\* Once all swaps are finished and none has a leg missing, the net return and the
\* returns of the rows it leaves out (our own, and the unattributed) are what the
\* wallet gained.
ReturnsAddUp ==
  (\A s \in Stored : Status(s) = "final" /\ Missing(s) = {}) =>
    LET rest == {s \in Rows(TRUE, FALSE) : ~Counts(s)} IN
    Summary(Rows(FALSE, FALSE)).netReturn + MapThenSumSet(Value, rest) = Balance

\* A return that was reported is never revised: it may be withdrawn, when a leg
\* disappears from the history, but no other figure takes its place.
ReturnNeverRevised ==
  [][\A s \in Swaps : Counts(s) /\ Counts(s)' => Value(s)' = Value(s)]_vars

\* "The flag means the opposite thing depending on which side we were on": a row
\* of a swap whose side is known names the direction the customer asked for.
RowNamesDirection ==
  \A s \in Rows(TRUE, TRUE) : Role(s) = truth[s] =>
    (RowForward(s) <=> (swaps[s].rev <=> truth[s] = "served"))
=============================================================================
