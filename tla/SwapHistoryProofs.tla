--------------------- MODULE SwapHistoryProofs ---------------------
(***************************************************************************)
(* Theorems about the history of swaps, for any number of swaps and        *)
(* transactions and any amounts, fees and margins.                         *)
(*                                                                         *)
(* Of the tables: no swap is ever filed on the wrong side (RoleHonest),    *)
(* and what enters the net return is settled (CountedIsSettled); the net   *)
(* legs of a batch add up to what the wallet gained by it                  *)
(* (BatchReconciles), a return is never revised (ReturnNeverRevised), and  *)
(* with every swap finished the returns are what the wallet gained         *)
(* (ReturnsAddUp).  Of the labels: they name every part of every swap      *)
(* (EverySwapNamed).  Of the exported file, at whatever moment: nothing    *)
(* the wallet held is dropped from it (StuckIsExported), its sections do   *)
(* not contradict each other on a swap's side (SectionsAgree), although    *)
(* they are read at different times; a row it calls settled is settled     *)
(* (ExportedRowsOver); and its returns are those of the tab, if no swap    *)
(* was created between two of the reads (ExportedReturnStands).            *)
(*                                                                         *)
(* RoleHonest reads only how a swap was created, which no later step of a  *)
(* swap changes.  RoleInv states what the four creation paths leave in the *)
(* records, and that the ledger names served swaps only.  SettledInv       *)
(* states that a lockup is spent only once its funding has confirmed,      *)
(* which a confirmed transaction never ceases to be.  MoneyInv states that *)
(* a transaction of ours gained what its swaps brought, less its fee.      *)
(***************************************************************************)
EXTENDS HistoryTab, HistoryExport, FiniteSetTheorems, WellFoundedInduction, TLAPS

\* What the server's paths and the customer's paths write.
ServedRecord(d) ==
  /\ ~d.claimTo /\ (d.prepay <=> ~d.rev)
  /\ IF d.rev THEN d.onchain >= Lightning ELSE d.onchain <= Lightning
OwnRecord(d) ==
  /\ ~d.rev => ~d.claimTo /\ ~d.prepay
  /\ IF d.rev THEN d.onchain <= Lightning ELSE d.onchain >= Lightning

RoleInv ==
  /\ truth \in [Swaps -> {"none", "served", "own"}]
  /\ swaps \in [Swaps -> SwapData]
  /\ \A s \in ledger : s \in Swaps /\ truth[s] = "served"
  /\ \A s \in Swaps : truth[s] = "served" => ServedRecord(swaps[s])
  /\ \A s \in Swaps : truth[s] = "own" => OwnRecord(swaps[s])

\* At first there is no swap.
LEMMA RoleInit == Init => RoleInv
<1>1. Blank \in SwapData
  BY BoundAssumption DEF Blank, NewSwap, SwapData
<1> QED BY <1>1 DEF Init, RoleInv

\* A step that leaves what the four paths wrote as it is keeps the invariant.
SamePath(d, e) ==
  d.rev = e.rev /\ d.prepay = e.prepay /\ d.claimTo = e.claimTo /\ d.onchain = e.onchain

\* A later step of a swap changes nothing a role is read from, and records nothing.
LEMMA Later ==
  ASSUME RoleInv, truth' = truth, ledger' = ledger,
         swaps' \in [Swaps -> SwapData],
         \A s \in Swaps : SamePath(swaps[s], swaps'[s])
  PROVE  RoleInv'
  BY DEF RoleInv, SamePath, ServedRecord, OwnRecord

\* The two server_create_* paths, with or without a ledger entry.
LEMMA ServedKeeps ==
  ASSUME RoleInv, NEW s \in Swaps, NEW rev \in BOOLEAN, NEW margin \in Margins,
         CreateServed(s, rev, margin)
  PROVE  RoleInv'
<1> DEFINE amount == Lightning + (IF rev THEN margin ELSE -margin)
           d == NewSwap(rev, ~rev, FALSE, amount, FALSE)
<1>1. margin \in Nat /\ Lightning \in Nat
  BY AmountAssumption
<1>2. d \in SwapData /\ ServedRecord(d)
  <2>1. amount \in Int /\ IF rev THEN amount >= Lightning ELSE amount <= Lightning
    BY <1>1
  <2>2. (~rev) \in BOOLEAN
    OBVIOUS
  <2> HIDE DEF amount
  <2>3. /\ d \in SwapData
        /\ d.rev = rev /\ d.prepay = ~rev /\ d.claimTo = FALSE /\ d.onchain = amount
    BY <2>1, <2>2, BoundAssumption DEF NewSwap, SwapData
  <2> QED BY <2>1, <2>3 DEF ServedRecord
<1>3. swaps' = [swaps EXCEPT ![s] = d] /\ truth' = [truth EXCEPT ![s] = "served"]
      /\ ledger' \in {ledger, ledger \cup {s}}
  BY DEF CreateServed, RecordServedSwap
<1> HIDE DEF d
<1>4. swaps' \in [Swaps -> SwapData] /\ truth' \in [Swaps -> {"none", "served", "own"}]
  BY <1>2, <1>3 DEF RoleInv
<1>5. \A x \in Swaps : /\ swaps'[x] = IF x = s THEN d ELSE swaps[x]
                       /\ truth'[x] = IF x = s THEN "served" ELSE truth[x]
  BY <1>3 DEF RoleInv
<1>6. \A x \in ledger' : x \in Swaps /\ truth'[x] = "served"
  BY <1>3, <1>5 DEF RoleInv
<1>7. \A x \in Swaps : truth'[x] = "served" => ServedRecord(swaps'[x])
  BY <1>2, <1>5 DEF RoleInv
<1>8. \A x \in Swaps : truth'[x] = "own" => OwnRecord(swaps'[x])
  BY <1>5 DEF RoleInv
<1> QED
  BY <1>4, <1>6, <1>7, <1>8 DEF RoleInv, ServedRecord, OwnRecord

\* The two customer's paths, normal_swap and reverse_swap.
LEMMA OwnKeeps ==
  ASSUME RoleInv, NEW s \in Swaps, NEW rev \in BOOLEAN, NEW margin \in Margins,
         CreateOwn(s, rev, margin)
  PROVE  RoleInv'
<1>1. margin \in Nat /\ Lightning \in Nat
  BY AmountAssumption
<1> DEFINE amount == Lightning + (IF rev THEN -margin ELSE margin)
<1>2. PICK prepay \in BOOLEAN, claimTo \in BOOLEAN :
        /\ prepay \/ claimTo => rev
        /\ swaps' = [swaps EXCEPT ![s] = NewSwap(rev, prepay, claimTo, amount, rev)]
  BY DEF CreateOwn
<1> DEFINE d == NewSwap(rev, prepay, claimTo, amount, rev)
<1>3. d \in SwapData /\ OwnRecord(d)
  <2>1. amount \in Int /\ IF rev THEN amount <= Lightning ELSE amount >= Lightning
    BY <1>1
  <2> HIDE DEF amount
  <2>2. /\ d \in SwapData
        /\ d.rev = rev /\ d.prepay = prepay /\ d.claimTo = claimTo /\ d.onchain = amount
    BY <2>1, BoundAssumption DEF NewSwap, SwapData
  <2> QED BY <1>2, <2>1, <2>2 DEF OwnRecord
<1>4. swaps' = [swaps EXCEPT ![s] = d]
  BY <1>2
<1>5. truth' = [truth EXCEPT ![s] = "own"] /\ ledger' = ledger /\ truth[s] = "none"
  BY DEF CreateOwn
<1> HIDE DEF d
<1>6. s \notin ledger
  BY <1>5 DEF RoleInv
<1>7. swaps' \in [Swaps -> SwapData] /\ truth' \in [Swaps -> {"none", "served", "own"}]
  BY <1>3, <1>4, <1>5 DEF RoleInv
<1>8. \A x \in Swaps : /\ swaps'[x] = IF x = s THEN d ELSE swaps[x]
                       /\ truth'[x] = IF x = s THEN "own" ELSE truth[x]
  BY <1>4, <1>5 DEF RoleInv
<1>9. \A x \in ledger' : x \in Swaps /\ truth'[x] = "served"
  BY <1>5, <1>6, <1>8 DEF RoleInv
<1>10. \A x \in Swaps : truth'[x] = "served" => ServedRecord(swaps'[x])
  BY <1>8 DEF RoleInv
<1>11. \A x \in Swaps : truth'[x] = "own" => OwnRecord(swaps'[x])
  BY <1>3, <1>8 DEF RoleInv
<1> QED
  BY <1>7, <1>9, <1>10, <1>11 DEF RoleInv, ServedRecord, OwnRecord

\* Every step keeps what the creation paths wrote.
LEMMA RoleNext ==
  ASSUME RoleInv, [Next]_vars
  PROVE  RoleInv'
<1>1. CASE UNCHANGED vars
  BY <1>1 DEF RoleInv, vars, ServedRecord, OwnRecord
<1>2. CASE Create
  BY <1>2, ServedKeeps, OwnKeeps DEF Create
<1>3. CASE Payment
  <2>1. ASSUME NEW s \in Swaps, PayPrepay(s) PROVE RoleInv'
    BY <2>1, Later DEF PayPrepay, RoleInv, SamePath
  <2>2. ASSUME NEW s \in Swaps, PayMain(s) PROVE RoleInv'
    BY <2>2, Later DEF PayMain, RoleInv, SamePath, SwapData
  <2>3. ASSUME NEW e \in lnItems, PaymentForgotten(e) PROVE RoleInv'
    BY <2>3, Later DEF PaymentForgotten, RoleInv, SamePath
  <2> QED BY <1>3, <2>1, <2>2, <2>3 DEF Payment
<1>4. CASE Transaction
  <2>1. ASSUME NEW t \in Txs, NEW s \in Swaps, NEW over \in Overpayments, TheyFund(s, t, over)
        PROVE  RoleInv'
    BY <2>1, Later, BoundAssumption DEF TheyFund, RoleInv, SamePath, SwapData, Txs
  <2>2. ASSUME NEW t \in Txs, NEW spent, NEW funded, NEW sat, MakeTx(t, spent, funded, sat)
        PROVE  RoleInv'
    <3> DEFINE made(s) == [swaps[s] EXCEPT
                 !.spending = IF s \in spent THEN t ELSE @,
                 !.funding  = IF s \in funded THEN t ELSE @]
    <3>1. ASSUME NEW s \in Swaps
          PROVE  made(s) \in SwapData /\ SamePath(swaps[s], made(s))
      <4>1. swaps[s] \in SwapData /\ t \in 0 .. NumTxs
        BY <2>2, BoundAssumption DEF RoleInv, Txs
      <4>2. /\ made(s).rev = swaps[s].rev /\ made(s).prepay = swaps[s].prepay
            /\ made(s).claimTo = swaps[s].claimTo /\ made(s).onchain = swaps[s].onchain
        BY <4>1 DEF SwapData
      <4>3. made(s) \in SwapData
        BY <4>1 DEF SwapData
      <4> QED BY <4>2, <4>3 DEF SamePath
    <3>2. swaps' = [s \in Swaps |-> made(s)] /\ truth' = truth /\ ledger' = ledger
      BY <2>2 DEF MakeTx
    <3> HIDE DEF made
    <3>3. swaps' \in [Swaps -> SwapData] /\ \A s \in Swaps : SamePath(swaps[s], swaps'[s])
      BY <3>1, <3>2
    <3> QED BY <3>2, <3>3, Later
  <2>3. ASSUME NEW t \in Txs, NEW s \in Swaps, TheySpend(s, t) PROVE RoleInv'
    <3>1. s \in Swaps /\ swaps[s] \in SwapData /\ t \in 0 .. NumTxs
      BY BoundAssumption DEF RoleInv, Txs
    <3>2. swaps' = [swaps EXCEPT ![s].spending = t,
                                ![s].preimage = @ \/ ~swaps[s].rev]
          /\ truth' = truth /\ ledger' = ledger
      BY <2>3 DEF TheySpend
    <3>3. \A x \in Swaps : SamePath(swaps[x], swaps'[x])
      BY <3>1, <3>2 DEF RoleInv, SamePath, SwapData
    <3>4. swaps' \in [Swaps -> SwapData]
      BY <3>1, <3>2 DEF RoleInv, SwapData
    <3> QED BY <3>2, <3>3, <3>4, Later
  <2>4. ASSUME NEW t \in Txs, Broadcast(t) \/ Confirm(t) PROVE RoleInv'
    BY <2>4, Later DEF Broadcast, Confirm, RoleInv, SamePath
  <2> QED BY <1>4, <2>1, <2>2, <2>3, <2>4 DEF Transaction
<1> QED BY <1>1, <1>2, <1>3, <1>4 DEF Next

\* The records and the ledger settle the side, or leave it open only where the
\* margin is nothing.
LEMMA RoleInvEnough == RoleInv => RoleHonest
<1> SUFFICES ASSUME RoleInv, NEW s \in Stored
             PROVE  /\ Role(s) \in {truth[s], "unknown"}
                    /\ Role(s) = "unknown" => s \notin ledger /\ Margin(swaps[s]) = 0
                    /\ Role(s) = truth[s] =>
                         (HistoryLabelForward(s) <=> (swaps[s].rev <=> truth[s] = "served"))
  BY DEF RoleHonest
<1> DEFINE d == swaps[s]
<1>1. s \in Swaps /\ truth[s] \in {"served", "own"} /\ d \in SwapData
  BY DEF Stored, RoleInv
<1>2. d.rev \in BOOLEAN /\ d.prepay \in BOOLEAN /\ d.claimTo \in BOOLEAN
      /\ d.onchain \in Int /\ Lightning \in Int
  BY <1>1, AmountAssumption DEF SwapData
<1>3. CASE truth[s] = "served"
  <2>1. ServedRecord(d)
    BY <1>1, <1>3 DEF RoleInv
  <2>2. Role(s) \in {"served", "unknown"}
        /\ (Role(s) = "unknown" => s \notin ledger /\ Margin(d) = 0)
    BY <1>2, <2>1 DEF Role, Margin, ServedRecord
  <2> QED BY <1>2, <1>3, <2>2 DEF HistoryLabelForward, TakerDidForward
<1>4. CASE truth[s] = "own"
  <2>1. OwnRecord(d) /\ s \notin ledger
    BY <1>1, <1>4 DEF RoleInv
  <2>2. Role(s) \in {"own", "unknown"}
        /\ (Role(s) = "unknown" => Margin(d) = 0)
    BY <1>2, <2>1 DEF Role, Margin, OwnRecord
  <2> QED BY <1>2, <1>4, <2>1, <2>2 DEF HistoryLabelForward, TakerDidForward
<1> QED BY <1>1, <1>3, <1>4

\* classify_swap never files a swap on the wrong side, whatever happens to the
\* swap after it was created (RoleHonest).
THEOREM SideCorrect == Spec => []RoleHonest
<1>1. RoleInv /\ [Next]_vars => RoleInv'
  BY RoleNext
<1> QED BY RoleInit, <1>1, RoleInvEnough, PTL DEF Spec

-----------------------------------------------------------------------------
(* What is counted is settled.                                             *)

\* A lockup that is spent has a funding that is confirmed; a payment in the
\* history was made.
Settled(d, h) == d.spending # 0 => d.funding \in Txs /\ h[d.funding] = "confirmed"
SettledInv ==
  /\ height \in [Txs -> Heights] /\ lnItems \subseteq lnMade
  /\ \A s \in Swaps : Settled(swaps[s], height)

\* At first there is nothing.
LEMMA SettledInit == Init => SettledInv
BY DEF Init, SettledInv, Settled, Blank, NewSwap, Heights

\* A confirmed transaction stays so, in every step.
ConfirmedStays == \A t \in Txs : height[t] = "confirmed" => height'[t] = "confirmed"

\* A step that changes neither end of a swap keeps it settled.
LEMMA EndsKept ==
  ASSUME SettledInv, ConfirmedStays, height' \in [Txs -> Heights], lnItems' \subseteq lnMade',
         \A s \in Swaps : \/ swaps'[s].spending = 0
                          \/ /\ swaps'[s].spending = swaps[s].spending
                             /\ swaps'[s].funding = swaps[s].funding
                          \/ /\ swaps'[s].funding = swaps[s].funding
                             /\ swaps[s].funding \in Txs /\ height[swaps[s].funding] = "confirmed"
  PROVE  SettledInv'
BY DEF SettledInv, Settled, ConfirmedStays

\* Making a swap.
LEMMA CreateSettles ==
  ASSUME RoleInv, SettledInv, Create
  PROVE  SettledInv'
<1>1. PICK s \in Swaps : \E d : d.spending = 0 /\ swaps' = [swaps EXCEPT ![s] = d]
  BY DEF Create, CreateServed, CreateOwn, NewSwap
<1>2. PICK d : d.spending = 0 /\ swaps' = [swaps EXCEPT ![s] = d]
  BY <1>1
<1>3. UNCHANGED <<height, lnItems, lnMade>>
  BY DEF Create, CreateServed, CreateOwn, create
<1>4. \A x \in Swaps : swaps'[x] = IF x = s THEN d ELSE swaps[x]
  BY <1>2 DEF RoleInv
<1>5. QED
  BY <1>2, <1>3, <1>4, EndsKept DEF SettledInv, ConfirmedStays

\* Paying, and forgetting a payment.
LEMMA PaymentSettles ==
  ASSUME RoleInv, SettledInv, Payment
  PROVE  SettledInv'
<1>1. ASSUME NEW s \in Swaps, PayPrepay(s) PROVE SettledInv'
  BY <1>1, EndsKept DEF PayPrepay, Pay, SettledInv, ConfirmedStays
<1>2. ASSUME NEW s \in Swaps, PayMain(s) PROVE SettledInv'
  <2>1. swaps' = [swaps EXCEPT ![s].preimage = TRUE] /\ height' = height /\ lnItems' \subseteq lnMade'
    BY <1>2 DEF PayMain, Pay, SettledInv
  <2>2. \A x \in Swaps : /\ swaps'[x].spending = swaps[x].spending
                         /\ swaps'[x].funding = swaps[x].funding
    BY <2>1 DEF RoleInv, SwapData
  <2>3. QED
    BY <2>1, <2>2, EndsKept DEF SettledInv, ConfirmedStays
<1>3. ASSUME NEW e \in lnItems, PaymentForgotten(e) PROVE SettledInv'
  BY <1>3, EndsKept DEF PaymentForgotten, SettledInv, ConfirmedStays
<1>4. QED
  BY <1>1, <1>2, <1>3 DEF Payment

\* A transaction that is made, replaces another, is broadcast or confirms.
LEMMA TransactionSettles ==
  ASSUME RoleInv, SettledInv, Transaction
  PROVE  SettledInv'
<1>1. ASSUME NEW t \in Txs, NEW s \in Swaps, NEW over \in Overpayments, TheyFund(s, t, over)
      PROVE  SettledInv'
  <2>1. /\ swaps' = [swaps EXCEPT ![s].funding = t] /\ swaps[s].funding = 0
        /\ height' = [height EXCEPT ![t] = "mempool"] /\ height[t] = "none"
        /\ UNCHANGED <<lnItems, lnMade>>
    BY <1>1 DEF TheyFund, NextTx
  <2>2. swaps[s].spending = 0
    BY <2>1 DEF SettledInv, Settled, Txs
  <2>3. \A x \in Swaps : /\ swaps'[x].spending = swaps[x].spending
                         /\ x # s => swaps'[x].funding = swaps[x].funding
    BY <2>1 DEF RoleInv, SwapData
  <2>4. height' \in [Txs -> Heights] /\ ConfirmedStays
    BY <2>1 DEF SettledInv, Heights, ConfirmedStays
  <2>5. QED
    BY <2>1, <2>2, <2>3, <2>4, EndsKept DEF SettledInv
<1>2. ASSUME NEW t \in Txs, NEW spent \in SUBSET Stored, NEW funded \in SUBSET Stored,
             NEW sat \in Fees, MakeTx(t, spent, funded, sat)
      PROVE  SettledInv'
  <2>1. /\ \A x \in spent : SettledFunding(x) /\ swaps[x].spending = 0
        /\ \A x \in funded : swaps[x].funding = 0
        /\ height' = [height EXCEPT ![t] = "local"] /\ height[t] = "none"
        /\ UNCHANGED <<lnItems, lnMade>>
    BY <1>2 DEF MakeTx, Claimable, Refundable, Unspent, Fundable, NextTx
  <2>2. \A x \in Swaps : /\ swaps'[x].spending = IF x \in spent THEN t ELSE swaps[x].spending
                         /\ swaps'[x].funding = IF x \in funded THEN t ELSE swaps[x].funding
    <3>1. swaps' = [x \in Swaps |->
            [swaps[x] EXCEPT !.spending = IF x \in spent THEN t ELSE @,
                             !.funding  = IF x \in funded THEN t ELSE @]]
      BY <1>2 DEF MakeTx
    <3>2. QED
      BY <3>1 DEF RoleInv, SwapData
  <2>3. \A x \in Swaps : swaps[x].funding \in 0 .. NumTxs
    BY DEF RoleInv, SwapData
  <2>4. \A x \in spent : swaps[x].funding \in Txs /\ height[swaps[x].funding] = "confirmed"
    <3>1. spent \subseteq Swaps
      BY DEF Stored
    <3>2. QED
      BY <2>1, <2>3, <3>1, BoundAssumption DEF SettledFunding, Txs
  <2>5. \A x \in funded \cap Swaps : swaps[x].spending = 0 /\ x \notin spent
    BY <2>1, <2>4 DEF SettledInv, Settled, Txs
  <2>6. height' \in [Txs -> Heights] /\ ConfirmedStays
    BY <2>1 DEF SettledInv, Heights, ConfirmedStays
  <2>7. QED
    BY <2>1, <2>2, <2>4, <2>5, <2>6, EndsKept DEF SettledInv
<1>3. ASSUME NEW t \in Txs, NEW s \in Swaps, TheySpend(s, t) PROVE SettledInv'
  <2> DEFINE lost == {swaps[s].spending} \ {0}
  <2>1. /\ \A u \in lost : height[u] # "confirmed"
        /\ height[t] = "none"
        /\ SettledFunding(s)
    BY <1>3 DEF TheySpend, Unspent, Replaceable, NextTx
  <2>2. /\ height' = [u \in Txs |-> IF u = t THEN "mempool"
                                    ELSE IF u \in lost THEN "dropped" ELSE height[u]]
        /\ swaps' = [swaps EXCEPT ![s].spending = t, ![s].preimage = @ \/ ~swaps[s].rev]
        /\ UNCHANGED <<lnItems, lnMade>>
    BY <1>3 DEF TheySpend
  <2> HIDE DEF lost
  <2>3. \A x \in Swaps : /\ swaps'[x].funding = swaps[x].funding
                         /\ x # s => swaps'[x].spending = swaps[x].spending
    BY <2>2 DEF RoleInv, SwapData
  <2>4. swaps[s].funding \in Txs /\ height[swaps[s].funding] = "confirmed"
    BY <2>1, BoundAssumption DEF SettledFunding, RoleInv, SwapData, Txs
  <2>5. height' \in [Txs -> Heights] /\ ConfirmedStays
    BY <2>1, <2>2 DEF SettledInv, Heights, ConfirmedStays
  <2>6. QED
    BY <2>2, <2>3, <2>4, <2>5, EndsKept DEF SettledInv
<1>4. ASSUME NEW t \in Txs, Broadcast(t) \/ Confirm(t) PROVE SettledInv'
  <2>1. height' \in [Txs -> Heights] /\ ConfirmedStays
    BY <1>4 DEF Broadcast, Confirm, SettledInv, Heights, ConfirmedStays
  <2>2. QED
    BY <1>4, <2>1, EndsKept DEF Broadcast, Confirm, SettledInv
<1>5. QED
  BY <1>1, <1>2, <1>3, <1>4 DEF Transaction

\* With the side known, nothing missing and the spending confirmed, the payments
\* were made and every transaction of ours has confirmed.
LEMMA SettledEnough == RoleInv /\ RoleHonest /\ SettledInv => CountedIsSettled
<1> SUFFICES ASSUME RoleInv, RoleHonest, SettledInv, NEW s \in Stored, Counts(s)
             PROVE  /\ truth[s] = "served"
                    /\ \A p \in LnParts(s) : Paid(s, p)
                    /\ \A l \in OnchainLegs(s) : height[l.tx] = "confirmed"
  BY DEF CountedIsSettled
<1>1. Missing(s) = {} /\ Role(s) = "served" /\ Status(s) = "final" /\ s \in Swaps
  BY DEF Counts, Stored
<1>2. truth[s] = "served"
  BY <1>1 DEF RoleHonest
<1>3. \A p \in LnParts(s) : Paid(s, p)
  BY <1>1 DEF Missing, LnLegs, Paid, SettledInv
<1>4. swaps[s].spending # 0 /\ height[swaps[s].spending] = "confirmed"
  BY <1>1 DEF Status
<1>5. height[swaps[s].funding] = "confirmed"
  BY <1>1, <1>4 DEF SettledInv, Settled
<1>6. \A l \in OnchainLegs(s) : l.tx \in {swaps[s].spending, swaps[s].funding}
  BY DEF OnchainLegs, Leg
<1>7. QED
  BY <1>2, <1>3, <1>4, <1>5, <1>6

\* Whatever enters the net return was served, was paid, and every transaction of
\* ours in it has confirmed (CountedIsSettled).
THEOREM CountedSettled == Spec => []CountedIsSettled
<1>1. RoleInv /\ SettledInv /\ [Next]_vars => SettledInv'
  <2> SUFFICES ASSUME RoleInv, SettledInv, [Next]_vars PROVE SettledInv'
    OBVIOUS
  <2>1. CASE UNCHANGED vars
    BY <2>1 DEF vars, SettledInv, Settled
  <2>2. QED
    BY <2>1, CreateSettles, PaymentSettles, TransactionSettles DEF Next
<1>2. RoleInv /\ [Next]_vars => RoleInv'
  BY RoleNext
<1>3. QED
  BY <1>1, <1>2, RoleInit, RoleInvEnough, SettledInit, SettledEnough, PTL DEF Spec

-----------------------------------------------------------------------------
(* What the wallet never takes back.                                       *)

\* What the wallet's own steps never take back: the side of a swap that exists,
\* and a confirmation.
SidesStay == \A s \in Stored : s \in Stored' /\ truth'[s] = truth[s]

WalletInv == RoleInv /\ SettledInv /\ ours \subseteq Txs

LEMMA WalletInit == Init => WalletInv
BY RoleInit, SettledInit DEF Init, WalletInv

LEMMA WalletKept ==
  ASSUME WalletInv, [Next]_vars
  PROVE  WalletInv' /\ SidesStay /\ ConfirmedStays
<1> USE DEF WalletInv
<1>1. RoleInv'
  BY RoleNext
<1>2. SettledInv'
  <2>1. CASE UNCHANGED vars
    BY <2>1 DEF vars, SettledInv, Settled
  <2>2. QED
    BY <2>1, CreateSettles, PaymentSettles, TransactionSettles DEF Next
<1>3. ours' \subseteq Txs
  <2>1. ASSUME NEW t \in Txs, NEW spent, NEW funded, NEW sat, MakeTx(t, spent, funded, sat)
        PROVE  ours' \subseteq Txs
    BY <2>1 DEF MakeTx
  <2>2. CASE UNCHANGED vars
    BY <2>2 DEF vars
  <2>3. CASE Create
    BY <2>3 DEF Create, CreateServed, CreateOwn, create
  <2>4. CASE Payment
    BY <2>4 DEF Payment, PayPrepay, PayMain, PaymentForgotten
  <2>5. CASE Transaction
    BY <2>1, <2>5 DEF Transaction, TheyFund, TheySpend, Broadcast, Confirm
  <2>6. QED
    BY <2>2, <2>3, <2>4, <2>5 DEF Next
<1>4. SidesStay
  <2>1. ASSUME NEW s \in Swaps, NEW side \in {"served", "own"}, truth[s] = "none",
               truth' = [truth EXCEPT ![s] = side]
        PROVE  SidesStay
    BY <2>1 DEF SidesStay, Stored, RoleInv
  <2>2. ASSUME truth' = truth PROVE SidesStay
    BY <2>2 DEF SidesStay, Stored
  <2>3. CASE UNCHANGED vars
    BY <2>2, <2>3 DEF vars
  <2>4. CASE Create
    BY <2>1, <2>4 DEF Create, CreateServed, CreateOwn
  <2>5. CASE Payment
    BY <2>2, <2>5 DEF Payment, PayPrepay, PayMain, PaymentForgotten
  <2>6. CASE Transaction
    BY <2>2, <2>6 DEF Transaction, TheyFund, MakeTx, TheySpend, Broadcast, Confirm
  <2>7. QED
    BY <2>3, <2>4, <2>5, <2>6 DEF Next
<1>5. ConfirmedStays
  <2>1. ASSUME height' = height PROVE ConfirmedStays
    BY <2>1 DEF ConfirmedStays
  <2>2. ASSUME NEW t \in Txs, NEW h, height[t] # "confirmed", height' = [height EXCEPT ![t] = h]
        PROVE  ConfirmedStays
    BY <2>2 DEF ConfirmedStays, SettledInv
  <2>3. ASSUME NEW t \in Txs, NEW s \in Swaps, TheySpend(s, t) PROVE ConfirmedStays
    <3> DEFINE lost == {swaps[s].spending} \ {0}
    <3>1. /\ \A u \in lost : height[u] # "confirmed"
          /\ height[t] = "none"
          /\ height' = [u \in Txs |-> IF u = t THEN "mempool"
                                      ELSE IF u \in lost THEN "dropped" ELSE height[u]]
      BY <2>3 DEF TheySpend, Unspent, Replaceable, NextTx
    <3> HIDE DEF lost
    <3>2. QED
      BY <3>1 DEF ConfirmedStays
  <2>4. CASE UNCHANGED vars
    BY <2>1, <2>4 DEF vars
  <2>5. CASE Create
    BY <2>1, <2>5 DEF Create, CreateServed, CreateOwn, create
  <2>6. CASE Payment
    BY <2>1, <2>6 DEF Payment, PayPrepay, PayMain, PaymentForgotten
  <2>7. CASE Transaction
    BY <2>2, <2>3, <2>7 DEF Transaction, TheyFund, MakeTx, Broadcast, Confirm, NextTx
  <2>8. QED
    BY <2>4, <2>5, <2>6, <2>7 DEF Next
<1>6. QED
  BY <1>1, <1>2, <1>3, <1>4, <1>5

-----------------------------------------------------------------------------
(* Every swap is named.                                                    *)

\* What the history holds of a swap is that swap's: a transaction of ours was made, a
\* payment that was made is one that its swap has, and a lockup of ours that the other
\* side claimed, revealing the preimage, we did not spend.
Taken(d, h, held) ==
  ~d.rev /\ d.preimage => d.spending \in Txs /\ h[d.spending] # "none" /\ d.spending \notin held
NamedInv ==
  /\ \A t \in ours : height[t] # "none"
  /\ \A e \in lnMade : /\ e \in Stored \X Parts
                       /\ e[2] = "prepay" => swaps[e[1]].prepay
  /\ \A s \in Swaps : Taken(swaps[s], height, ours)

LEMMA NamedInit == Init => NamedInv
BY DEF Init, NamedInv, Taken, Blank, NewSwap

\* What a step may do: make a payment of a swap's own, make transactions
\* and take them into the wallet, and change a swap so that its lockup is not ours, or
\* is unclaimed, or is claimed by a transaction that we do not have.
LEMMA NamedStep ==
  ASSUME NamedInv, lnMade' = lnMade \/ \E s \in Stored, p \in Parts :
                     /\ lnMade' = lnMade \cup {<<s, p>>}
                     /\ p = "prepay" => swaps[s].prepay,
         \A s \in Stored : s \in Stored' /\ swaps'[s].prepay = swaps[s].prepay,
         \A t \in Txs : height[t] # "none" => height'[t] # "none",
         \A t \in ours' : t \in ours \/ (t \in Txs /\ height[t] = "none" /\ height'[t] # "none"),
         ours \subseteq Txs,
         \A s \in Swaps :
           \/ swaps'[s].rev = swaps[s].rev /\ swaps'[s].preimage = swaps[s].preimage
              /\ swaps'[s].spending = swaps[s].spending
           \/ swaps'[s].rev \/ ~swaps'[s].preimage
           \/ /\ swaps'[s].spending \in Txs /\ swaps'[s].spending \notin ours'
              /\ height'[swaps'[s].spending] # "none"
  PROVE  NamedInv'
<1>1. \A t \in ours' : height'[t] # "none"
  BY DEF NamedInv
<1>2. \A e \in lnMade' : e \in Stored' \X Parts /\ (e[2] = "prepay" => swaps'[e[1]].prepay)
  <2>1. ASSUME NEW e \in lnMade
        PROVE  e \in Stored' \X Parts /\ (e[2] = "prepay" => swaps'[e[1]].prepay)
    <3>1. e \in Stored \X Parts /\ (e[2] = "prepay" => swaps[e[1]].prepay)
      BY DEF NamedInv
    <3>2. PICK s \in Stored, p \in Parts : e = <<s, p>>
      BY <3>1
    <3>3. QED
      BY <3>1, <3>2
  <2>2. ASSUME NEW s \in Stored, NEW p \in Parts, p = "prepay" => swaps[s].prepay
        PROVE  <<s, p>> \in Stored' \X Parts
               /\ (<<s, p>>[2] = "prepay" => swaps'[<<s, p>>[1]].prepay)
    BY <2>2
  <2>3. QED
    BY <2>1, <2>2
<1>3. ASSUME NEW s \in Swaps PROVE Taken(swaps'[s], height', ours')
  BY DEF NamedInv, Taken
<1>4. QED
  BY <1>1, <1>2, <1>3 DEF NamedInv

LEMMA NamedKept ==
  ASSUME WalletInv, NamedInv, [Next]_vars
  PROVE  NamedInv'
<1> USE DEF WalletInv
<1>1. CASE UNCHANGED vars
  BY <1>1 DEF NamedInv, Taken, Stored, vars
<1>2. CASE Create
  <2> DEFINE Made(s, side, d) ==
               /\ truth[s] = "none" /\ truth' = [truth EXCEPT ![s] = side]
               /\ swaps' = [swaps EXCEPT ![s] = d]
               /\ d.rev \/ ~d.preimage
               /\ UNCHANGED <<height, ours, lnMade>>
  <2>1. PICK s \in Swaps, side \in {"served", "own"} : \E d : Made(s, side, d)
    <3>1. ASSUME NEW s \in Swaps, NEW rev \in BOOLEAN, NEW margin, CreateServed(s, rev, margin)
          PROVE  \E side \in {"served", "own"} : \E d : Made(s, side, d)
      <4> DEFINE d == NewSwap(rev, ~rev, FALSE, Lightning + (IF rev THEN margin ELSE -margin), FALSE)
      <4>1. d.rev \/ ~d.preimage
        BY DEF NewSwap
      <4>2. /\ truth[s] = "none" /\ truth' = [truth EXCEPT ![s] = "served"]
            /\ swaps' = [swaps EXCEPT ![s] = d] /\ UNCHANGED <<height, ours, lnMade>>
        BY <3>1 DEF CreateServed, create
      <4> HIDE DEF d
      <4>3. QED
        BY <4>1, <4>2
    <3>2. ASSUME NEW s \in Swaps, NEW rev \in BOOLEAN, NEW margin, CreateOwn(s, rev, margin)
          PROVE  \E side \in {"served", "own"} : \E d : Made(s, side, d)
      <4>1. PICK prepay \in BOOLEAN, claimTo \in BOOLEAN :
              swaps' = [swaps EXCEPT ![s] =
                NewSwap(rev, prepay, claimTo, Lightning + (IF rev THEN -margin ELSE margin), rev)]
        BY <3>2 DEF CreateOwn
      <4> DEFINE d == NewSwap(rev, prepay, claimTo, Lightning + (IF rev THEN -margin ELSE margin), rev)
      <4>2. d.rev \/ ~d.preimage
        BY DEF NewSwap
      <4>3. /\ truth[s] = "none" /\ truth' = [truth EXCEPT ![s] = "own"]
            /\ swaps' = [swaps EXCEPT ![s] = d] /\ UNCHANGED <<height, ours, lnMade>>
        BY <3>2, <4>1 DEF CreateOwn, create
      <4> HIDE DEF d
      <4>4. QED
        BY <4>2, <4>3
    <3>3. QED
      BY <1>2, <3>1, <3>2 DEF Create
  <2>2. PICK d : Made(s, side, d)
    BY <2>1
  <2>3. \A x \in Swaps : swaps'[x] = IF x = s THEN d ELSE swaps[x]
    BY <2>2 DEF RoleInv
  <2>4. s \notin Stored /\ \A x \in Stored : x \in Stored'
    BY <2>2 DEF Stored, RoleInv
  <2>5. \A x \in Stored : swaps'[x].prepay = swaps[x].prepay
    BY <2>3, <2>4 DEF Stored
  <2>6. QED
    BY <2>2, <2>3, <2>4, <2>5, NamedStep
<1>3. CASE Payment
  <2>1. ASSUME NEW s \in Swaps, PayPrepay(s) PROVE NamedInv'
    BY <2>1, NamedStep DEF PayPrepay, Pay, Parts, Stored
  <2>2. ASSUME NEW s \in Swaps, PayMain(s) PROVE NamedInv'
    <3>1. /\ swaps' = [swaps EXCEPT ![s].preimage = TRUE] /\ s \in Stored
          /\ lnMade' = lnMade \cup {<<s, "main">>}
          /\ swaps[s].rev \/ swaps[s].preimage
          /\ UNCHANGED <<truth, height, ours>>
      BY <2>2 DEF PayMain, Pay
    <3>2. \A x \in Swaps : /\ swaps'[x].spending = swaps[x].spending
                           /\ swaps'[x].rev = swaps[x].rev
                           /\ swaps'[x].prepay = swaps[x].prepay
                           /\ swaps'[x].preimage = IF x = s THEN TRUE ELSE swaps[x].preimage
      BY <3>1 DEF RoleInv, SwapData
    <3>3. swaps[s].preimage \in BOOLEAN
      BY DEF RoleInv, SwapData
    <3>4. QED
      BY <3>1, <3>2, <3>3, NamedStep DEF Parts, Stored
  <2>3. ASSUME NEW e \in lnItems, PaymentForgotten(e) PROVE NamedInv'
    BY <2>3, NamedStep DEF PaymentForgotten, Stored
  <2>4. QED
    BY <1>3, <2>1, <2>2, <2>3 DEF Payment
<1>4. CASE Transaction
  <2>1. ASSUME NEW t \in Txs, NEW s \in Swaps, NEW over, TheyFund(s, t, over)
        PROVE  NamedInv'
    <3>1. /\ swaps' = [swaps EXCEPT ![s].funding = t]
          /\ height' = [height EXCEPT ![t] = "mempool"]
          /\ UNCHANGED <<truth, ours, lnMade>>
      BY <2>1 DEF TheyFund
    <3>2. \A x \in Swaps : /\ swaps'[x].spending = swaps[x].spending
                           /\ swaps'[x].rev = swaps[x].rev
                           /\ swaps'[x].prepay = swaps[x].prepay
                           /\ swaps'[x].preimage = swaps[x].preimage
      BY <3>1 DEF RoleInv, SwapData
    <3>3. QED
      BY <3>1, <3>2, NamedStep DEF Stored, SettledInv
  <2>2. ASSUME NEW t \in Txs, NEW spent \in SUBSET Stored, NEW funded \in SUBSET Stored,
               NEW sat, MakeTx(t, spent, funded, sat)
        PROVE  NamedInv'
    <3>1. /\ swaps' = [x \in Swaps |->
               [swaps[x] EXCEPT !.spending = IF x \in spent THEN t ELSE @,
                                !.funding  = IF x \in funded THEN t ELSE @]]
          /\ height' = [height EXCEPT ![t] = "local"] /\ height[t] = "none"
          /\ ours' = ours \cup {t}
          /\ UNCHANGED <<truth, lnMade>>
      BY <2>2 DEF MakeTx, NextTx
    <3>2. \A x \in Swaps : /\ swaps'[x].spending = IF x \in spent THEN t ELSE swaps[x].spending
                           /\ swaps'[x].rev = swaps[x].rev
                           /\ swaps'[x].prepay = swaps[x].prepay
                           /\ swaps'[x].preimage = swaps[x].preimage
      BY <3>1 DEF RoleInv, SwapData
    <3>3. \A x \in spent : swaps[x].rev \/ ~swaps[x].preimage
      BY <2>2 DEF MakeTx, Claimable, Refundable
    <3>4. QED
      BY <3>1, <3>2, <3>3, NamedStep DEF Stored, SettledInv
  <2>3. ASSUME NEW t \in Txs, NEW s \in Swaps, TheySpend(s, t) PROVE NamedInv'
    <3> DEFINE lost == {swaps[s].spending} \ {0}
    <3>1. /\ height' = [u \in Txs |-> IF u = t THEN "mempool"
                                      ELSE IF u \in lost THEN "dropped" ELSE height[u]]
          /\ swaps' = [swaps EXCEPT ![s].spending = t, ![s].preimage = @ \/ ~swaps[s].rev]
          /\ ours' = ours \ lost /\ height[t] = "none"
          /\ UNCHANGED <<truth, lnMade>>
      BY <2>3 DEF TheySpend, NextTx
    <3> HIDE DEF lost
    <3>2. \A x \in Swaps : /\ swaps'[x].rev = swaps[x].rev
                           /\ swaps'[x].prepay = swaps[x].prepay
                           /\ x # s => /\ swaps'[x].spending = swaps[x].spending
                                       /\ swaps'[x].preimage = swaps[x].preimage
      BY <3>1 DEF RoleInv, SwapData
    <3>3. swaps'[s].spending = t
      BY <3>1 DEF RoleInv, SwapData
    <3>4. t \notin ours' /\ height'[t] # "none"
      BY <3>1 DEF NamedInv
    <3>5. \A u \in Txs : height[u] # "none" => height'[u] # "none"
      BY <3>1
    <3>6. QED
      BY <3>1, <3>2, <3>3, <3>4, <3>5, NamedStep DEF Stored
  <2>4. ASSUME NEW t \in Txs, Broadcast(t) \/ Confirm(t) PROVE NamedInv'
    BY <2>4, NamedStep DEF Broadcast, Confirm, Stored, SettledInv
  <2>5. QED
    BY <1>4, <2>1, <2>2, <2>3, <2>4 DEF Transaction
<1>5. QED
  BY <1>1, <1>2, <1>3, <1>4 DEF Next

\* Of some swaps there is a last one.
LEMMA LastSwap ==
  ASSUME NEW S \in SUBSET Swaps, S # {}
  PROVE  Max(S) \in S
<1> DEFINE after == {NumSwaps - s : s \in S}
<1>1. after \in SUBSET Nat /\ after # {}
  <2>1. ASSUME NEW s \in S PROVE NumSwaps - s \in Nat
    BY BoundAssumption DEF Swaps
  <2>2. QED
    BY <2>1
<1>2. PICK o \in after : \A x \in after : ~(<<x, o>> \in OpToRel(<, Nat))
  BY <1>1, WFMin, NatLessThanWellFounded
<1>3. PICK m \in S : o = NumSwaps - m
  OBVIOUS
<1>4. ASSUME NEW s \in S PROVE m >= s
  <2>1. ~(NumSwaps - s < NumSwaps - m)
    <3>1. NumSwaps - s \in after /\ NumSwaps - s \in Nat /\ o \in Nat
      BY <1>1
    <3>2. QED
      BY <1>2, <1>3, <3>1 DEF OpToRel
  <2>2. s \in Int /\ m \in Int /\ NumSwaps \in Int
    BY BoundAssumption DEF Swaps
  <2>3. QED
    BY <2>1, <2>2
<1>5. QED
  BY <1>4 DEF Max

\* A leg in the wallet gives the swap a row: it is settled and so has a date, or it
\* is still pending.
LEMMA RowOfEvery ==
  ASSUME WalletInv, NEW s \in Stored, LegsIn(s) # {}
  PROVE  s \in Rows(TRUE, TRUE)
<1> USE DEF WalletInv
<1>1. s \in Swaps
  BY DEF Stored
<1>2. ASSUME Status(s) = "final" PROVE Dated(s)
  <2>1. swaps[s].spending # 0 /\ height[swaps[s].spending] = "confirmed"
    BY <1>2 DEF Status
  <2>2. height[swaps[s].funding] = "confirmed"
    BY <1>1, <2>1 DEF SettledInv, Settled
  <2>3. \A l \in OnchainLegs(s) : l.tx \in {swaps[s].spending, swaps[s].funding}
    BY DEF OnchainLegs, Leg
  <2>4. QED
    BY <2>1, <2>2, <2>3 DEF LegsIn, Dated
<1>3. QED
  BY <1>2 DEF Rows

\* The history's row of a swap that shares no transaction holds its legs.
LEMMA OwnGroup ==
  ASSUME WalletInv, NamedInv, NEW s \in Stored, Anchor(s) # 0, ~Batched(s)
  PROVE  /\ \A x \in Stored : GroupId(x) = Anchor(s) => x = s
         /\ Members(Anchor(s)) = LegsIn(s)
<1> USE DEF WalletInv
<1> DEFINE g == Anchor(s)
           own == {g} \cup (IF swaps[s].rev THEN {} ELSE {swaps[s].spending})
<1>1. s \in Swaps /\ GroupId(s) = g /\ g \in {swaps[s].funding, swaps[s].spending} /\ g # 0
  BY DEF Stored, GroupId, Anchor
<1>2. ASSUME NEW x \in Stored, NEW t \in {swaps[s].funding, swaps[s].spending},
             t # 0, t \in {swaps[x].funding, swaps[x].spending}
      PROVE  x = s
  BY <1>2 DEF Batched
<1>3. \A x \in Stored : GroupId(x) = g => x = s
  BY <1>1, <1>2 DEF GroupId
<1>4. ASSUME NEW t \in ours PROVE GroupOf(t) = g <=> t \in own
  <2>1. t # 0 /\ Grouping(t) \in SUBSET Swaps
    BY DEF Txs, Grouping, Stored
  <2>2. ASSUME t \in own PROVE GroupOf(t) = g
    <3>1. s \in Grouping(t)
      BY <1>1, <2>2 DEF Grouping
    <3>2. t \in {swaps[s].funding, swaps[s].spending}
      BY <1>1, <2>2
    <3>3. \A x \in Grouping(t) : x = s
      BY <1>2, <2>1, <3>2 DEF Grouping, GroupId
    <3>4. Max(Grouping(t)) = s
      BY <2>1, <3>1, <3>3, LastSwap
    <3>5. QED
      BY <1>1, <3>1, <3>4 DEF GroupOf
  <2>3. ASSUME GroupOf(t) = g PROVE t \in own
    <3>1. Grouping(t) # {} /\ GroupId(Max(Grouping(t))) = g
      BY <1>1, <2>3 DEF GroupOf
    <3>2. Max(Grouping(t)) \in Grouping(t)
      BY <2>1, <3>1, LastSwap
    <3>3. s \in Grouping(t)
      BY <1>3, <3>1, <3>2 DEF Grouping
    <3>4. QED
      BY <1>1, <3>3 DEF Grouping
  <2>4. QED
    BY <2>2, <2>3
<1>5. {Tx(t) : t \in {u \in ours : GroupOf(u) = g}} = {Tx(l.tx) : l \in OnchainLegs(s)}
  <2>1. {u \in ours : GroupOf(u) = g} = ours \cap own
    BY <1>4
  <2>2. {l.tx : l \in OnchainLegs(s)} = ours \cap own
    <3>1. CASE swaps[s].rev
      <4> DEFINE c == Leg(s, g, "claim", lockup[s], ClaimVbytes)
      <4>1. g = swaps[s].spending /\ own = {g}
        BY <3>1 DEF Anchor
      <4>2. OnchainLegs(s) = {l \in {c} : l.tx \in ours}
        BY <3>1, <4>1 DEF OnchainLegs
      <4>3. c.tx = g
        BY DEF Leg
      <4> HIDE DEF c
      <4>4. QED
        BY <4>1, <4>2, <4>3
    <3>2. CASE ~swaps[s].rev
      <4> DEFINE f == Leg(s, g, "funding", -swaps[s].onchain, FundingVbytes)
                 r == Leg(s, swaps[s].spending, "refund", lockup[s], ClaimVbytes)
      <4>1. g = swaps[s].funding /\ own = {g, swaps[s].spending}
        BY <3>2 DEF Anchor
      <4>2. OnchainLegs(s) = {l \in {f} \cup (IF swaps[s].preimage THEN {} ELSE {r}) : l.tx \in ours}
        BY <3>2, <4>1 DEF OnchainLegs
      <4>3. f.tx = g /\ r.tx = swaps[s].spending
        BY DEF Leg
      <4> HIDE DEF f, r
      <4>4. swaps[s].preimage => swaps[s].spending \notin ours
        BY <1>1, <3>2 DEF NamedInv, Taken
      <4>5. QED
        BY <4>1, <4>2, <4>3, <4>4
    <3>3. QED
      BY <3>1, <3>2
  <2>3. {Tx(l.tx) : l \in OnchainLegs(s)} = {Tx(t) : t \in {l.tx : l \in OnchainLegs(s)}}
    OBVIOUS
  <2>4. QED
    BY <2>1, <2>2, <2>3
<1>6. {i \in lnItems : GroupId(i[1]) = g} = {<<s, p>> : p \in LnLegs(s)}
  <2>1. ASSUME NEW i \in lnItems, GroupId(i[1]) = g PROVE i \in {<<s, p>> : p \in LnLegs(s)}
    <3>1. PICK x \in Stored, p \in Parts : i = <<x, p>> /\ i \in lnMade
      BY DEF NamedInv, SettledInv
    <3>2. x = s
      BY <1>3, <2>1, <3>1
    <3>3. p \in LnParts(s)
      <4>1. p = "prepay" => swaps[s].prepay
        BY <3>1, <3>2 DEF NamedInv
      <4>2. QED
        BY <4>1 DEF LnParts, Parts
    <3>4. QED
      BY <3>1, <3>2, <3>3 DEF LnLegs
  <2>2. ASSUME NEW p \in LnLegs(s) PROVE <<s, p>> \in lnItems /\ GroupId(<<s, p>>[1]) = g
    BY <1>1 DEF LnLegs
  <2>3. QED
    BY <2>1, <2>2
<1>7. QED
  BY <1>3, <1>5, <1>6 DEF Members, LegsIn

\* And that row tells of the swap, unless it is one transaction that the operator
\* labelled.
LEMMA OwnLabel ==
  ASSUME WalletInv, NamedInv, NEW s \in Stored, Anchor(s) # 0, ~Batched(s), LegsIn(s) # {},
         NEW typed \in BOOLEAN
  PROVE  Label(Anchor(s), typed) = (IF UserLabel(Anchor(s), typed) THEN 0 ELSE s)
<1> DEFINE g == Anchor(s)
<1>1. Members(g) # {} /\ \A x \in Stored : Anchor(x) = g => x = s
  BY OwnGroup DEF GroupId, Anchor
<1>2. UserLabel(g, typed) => ~HasChildren(g)
  <2>1. ASSUME NEW t, Members(g) = {Tx(t)} PROVE ~(Cardinality(Members(g)) > 1)
    <3>1. Cardinality({Tx(t)}) = 1
      BY FS_Singleton
    <3>2. QED
      BY <2>1, <3>1
  <2>2. QED
    BY <2>1 DEF UserLabel, HasChildren
<1>3. Writers(g, typed) = IF UserLabel(g, typed) THEN {} ELSE {s}
  BY <1>1, <1>2 DEF Writers, WritesOn
<1>4. Max({s}) = s
  <2>1. {s} \in SUBSET Swaps
    BY DEF Stored
  <2>2. QED
    BY <2>1, LastSwap
<1>5. QED
  BY <1>3, <1>4 DEF Label

\* A swap of which one leg is in the wallet has a row in the swap table; and in the
\* history, if its transactions are its own, one row with all its legs and nothing
\* else, which tells of it (EverySwapNamed).
THEOREM EveryNamed == Spec => []EverySwapNamed
<1>1. WalletInv /\ NamedInv => EverySwapNamed
  BY RowOfEvery, OwnGroup, OwnLabel DEF EverySwapNamed
<1>2. WalletInv /\ [Next]_vars => WalletInv'
  BY WalletKept
<1>3. WalletInv /\ NamedInv /\ [Next]_vars => NamedInv'
  BY NamedKept
<1>4. QED
  BY <1>1, <1>2, <1>3, WalletInit, NamedInit, PTL DEF Spec

-----------------------------------------------------------------------------
(* Sums over finite sets.                                                  *)

\* What holds of the empty set, and of a set if of all that lack one element of it,
\* holds of every finite set.
LEMMA SetInduction ==
  ASSUME NEW S, IsFiniteSet(S), NEW Good, {} \in Good,
         \A T \in SUBSET S : T # {} /\ (\A x \in T : T \ {x} \in Good) => T \in Good
  PROVE  S \in Good
<1> SUFFICES ASSUME S \notin Good PROVE FALSE
  OBVIOUS
<1> DEFINE Bad == {Cardinality(T) : T \in (SUBSET S) \ Good}
<1>1. \A T \in SUBSET S : IsFiniteSet(T) /\ Cardinality(T) \in Nat
  BY FS_Subset, FS_CardinalityType
<1>2. Bad \in SUBSET Nat /\ Bad # {}
  <2>1. S \in SUBSET S
    OBVIOUS
  <2>2. QED
    BY <1>1, <2>1
<1>3. PICK n \in Bad : \A m \in Bad : ~(<<m, n>> \in OpToRel(<, Nat))
  BY <1>2, WFMin, NatLessThanWellFounded
<1>4. PICK T \in (SUBSET S) \ Good : n = Cardinality(T)
  OBVIOUS
<1>5. ASSUME NEW x \in T PROVE T \ {x} \in Good
  <2>1. Cardinality(T \ {x}) = Cardinality(T) - 1
    BY <1>1, FS_RemoveElement
  <2>2. ASSUME T \ {x} \notin Good PROVE FALSE
    <3>1. Cardinality(T \ {x}) \in Bad
      BY <2>2
    <3>2. Cardinality(T \ {x}) < n /\ n \in Nat /\ Cardinality(T \ {x}) \in Nat
      BY <1>1, <1>4, <2>1
    <3>3. QED
      BY <1>3, <3>1, <3>2 DEF OpToRel
  <2>3. QED
    BY <2>2
<1>6. QED
  BY <1>4, <1>5

\* The sum of what a function gives on a set, the way MapThenSumSet folds it.
SumOver(f, S) == MapThenSumSet(LAMBDA x : f[x], S)
First(T) == CHOOSE x \in T : TRUE
Adds(g, f, S) ==
  g = [T \in SUBSET S |-> IF T = {} THEN 0 ELSE f[First(T)] + g[T \ {First(T)}]]

LEMMA SumFolds ==
  ASSUME NEW f, NEW S
  PROVE  SumOver(f, S) = (CHOOSE g : Adds(g, f, S))[S]
BY Zenon DEF SumOver, MapThenSumSet, MapThenFoldSet, Adds, First

\* Two folds of the same function agree where both are defined.
LEMMA AddsOnce ==
  ASSUME NEW S, IsFiniteSet(S), NEW A, NEW B, S \subseteq A, S \subseteq B, NEW f,
         NEW g, Adds(g, f, A), NEW h, Adds(h, f, B)
  PROVE  g[S] = h[S]
<1> DEFINE Good == {T \in SUBSET S : g[T] = h[T]}
<1>1. ASSUME NEW T \in SUBSET S
      PROVE  /\ g[T] = IF T = {} THEN 0 ELSE f[First(T)] + g[T \ {First(T)}]
             /\ h[T] = IF T = {} THEN 0 ELSE f[First(T)] + h[T \ {First(T)}]
  <2>1. T \in SUBSET A /\ T \in SUBSET B
    OBVIOUS
  <2>2. QED
    BY <2>1 DEF Adds
<1>2. {} \in Good
  BY <1>1
<1>3. ASSUME NEW T \in SUBSET S, T # {}, \A x \in T : T \ {x} \in Good PROVE T \in Good
  <2>1. First(T) \in T
    BY <1>3 DEF First
  <2>2. g[T \ {First(T)}] = h[T \ {First(T)}]
    BY <1>3, <2>1
  <2>3. QED
    BY <1>1, <1>3, <2>2
<1> HIDE DEF Good
<1>4. S \in Good
  BY <1>2, <1>3, SetInduction
<1>5. QED
  BY <1>4 DEF Good

\* There is one on every finite set: it is put together from those on the sets that
\* lack one element.
LEMMA AddsSome ==
  ASSUME NEW S, IsFiniteSet(S), NEW f
  PROVE  \E g : Adds(g, f, S)
<1> DEFINE Good == {T \in SUBSET S : \E g : Adds(g, f, T)}
<1>1. {} \in Good
  <2> DEFINE g == [T \in SUBSET {} |-> 0]
  <2>1. Adds(g, f, {})
    BY DEF Adds
  <2>2. QED
    BY <2>1
<1>2. ASSUME NEW T \in SUBSET S, T # {}, \A x \in T : T \ {x} \in Good PROVE T \in Good
  <2> DEFINE Fits(U, x, g) == x \in T /\ U \subseteq T \ {x} /\ Adds(g, f, T \ {x})
             v(U) == CHOOSE y : \E x, g : Fits(U, x, g) /\ y = g[U]
             h == [U \in SUBSET T |->
                     IF U = T THEN f[First(T)] + v(T \ {First(T)}) ELSE v(U)]
  <2>1. ASSUME NEW U, NEW x, NEW g, Fits(U, x, g) PROVE v(U) = g[U]
    <3>1. IsFiniteSet(U)
      BY <2>1, FS_Subset
    <3>2. ASSUME NEW z, NEW k, Fits(U, z, k) PROVE k[U] = g[U]
      BY <2>1, <3>1, <3>2, AddsOnce
    <3>3. \A y : (\E z, k : Fits(U, z, k) /\ y = k[U]) <=> y = g[U]
      BY <2>1, <3>2
    <3> HIDE DEF Fits
    <3>4. QED
      BY <3>3
  <2>2. First(T) \in T
    BY <1>2 DEF First
  <2>3. ASSUME NEW U \in SUBSET T
        PROVE  h[U] = IF U = {} THEN 0 ELSE f[First(U)] + h[U \ {First(U)}]
    <3>1. CASE U = T
      <4>1. T \ {First(T)} \in SUBSET T /\ T \ {First(T)} # T
        BY <2>2
      <4> HIDE DEF v
      <4>2. QED
        BY <1>2, <3>1, <4>1
    <3>2. CASE U # T
      <4>1. PICK x \in T : x \notin U
        BY <3>2
      <4>2. PICK g : Adds(g, f, T \ {x})
        BY <1>2
      <4>3. Fits(U, x, g) /\ h[U] = g[U]
        <5>1. Fits(U, x, g)
          BY <4>1, <4>2
        <5>2. v(U) = g[U]
          BY <2>1, <5>1
        <5> HIDE DEF v, Fits
        <5>3. QED
          BY <3>2, <5>1, <5>2
      <4>4. g[U] = IF U = {} THEN 0 ELSE f[First(U)] + g[U \ {First(U)}]
        <5>1. U \in SUBSET (T \ {x})
          BY <4>1
        <5>2. QED
          BY <4>2, <5>1 DEF Adds
      <4>5. U \ {First(U)} \in SUBSET T /\ U \ {First(U)} # T /\ Fits(U \ {First(U)}, x, g)
        BY <4>1, <4>2
      <4>6. v(U \ {First(U)}) = g[U \ {First(U)}]
        BY <2>1, <4>5
      <4> HIDE DEF v, Fits
      <4>7. h[U \ {First(U)}] = g[U \ {First(U)}]
        BY <4>5, <4>6
      <4>8. QED
        BY <4>3, <4>4, <4>7
    <3>3. QED
      BY <3>1, <3>2
  <2>4. Adds(h, f, T)
    <3>1. h = [U \in SUBSET T |-> h[U]]
      OBVIOUS
    <3> HIDE DEF h
    <3>2. QED
      BY <2>3, <3>1 DEF Adds
  <2>5. QED
    BY <2>4
<1> HIDE DEF Good
<1>3. S \in Good
  BY <1>1, <1>2, SetInduction
<1>4. QED
  BY <1>3 DEF Good

\* How a sum is computed.
LEMMA SumRule ==
  ASSUME NEW S, IsFiniteSet(S), NEW f
  PROVE  SumOver(f, S) = IF S = {} THEN 0 ELSE f[First(S)] + SumOver(f, S \ {First(S)})
<1> DEFINE G(T) == CHOOSE g : Adds(g, f, T)
           R == S \ {First(S)}
<1>1. IsFiniteSet(R)
  BY FS_Subset
<1>2. Adds(G(S), f, S) /\ Adds(G(R), f, R)
  <2>1. \A T : IsFiniteSet(T) => \E g : Adds(g, f, T)
    BY AddsSome
  <2>2. QED
    BY <1>1, <2>1
<1>3. SumOver(f, S) = G(S)[S] /\ SumOver(f, R) = G(R)[R]
  BY SumFolds
<1> HIDE DEF G
<1>4. G(S)[S] = IF S = {} THEN 0 ELSE f[First(S)] + G(S)[R]
  BY <1>2 DEF Adds
<1>5. G(S)[R] = G(R)[R]
  BY <1>1, <1>2, AddsOnce
<1>6. QED
  BY <1>3, <1>4, <1>5

\* A sum of integers is one.
LEMMA SumWhole ==
  ASSUME NEW S, IsFiniteSet(S), NEW f, \A x \in S : f[x] \in Int
  PROVE  SumOver(f, S) \in Int
<1> DEFINE Good == {T \in SUBSET S : SumOver(f, T) \in Int}
<1>1. ASSUME NEW T \in SUBSET S
      PROVE  SumOver(f, T) = IF T = {} THEN 0 ELSE f[First(T)] + SumOver(f, T \ {First(T)})
  BY FS_Subset, SumRule
<1>2. {} \in Good
  <2>1. SumOver(f, {}) = 0
    BY FS_EmptySet, SumRule
  <2>2. QED
    BY <2>1
<1>3. ASSUME NEW T \in SUBSET S, T # {}, \A x \in T : T \ {x} \in Good PROVE T \in Good
  <2> DEFINE c == First(T)
  <2>1. c \in T
    BY <1>3 DEF First
  <2>2. SumOver(f, T) = f[c] + SumOver(f, T \ {c})
    BY <1>1, <1>3
  <2> HIDE DEF c
  <2>3. f[c] \in Int /\ SumOver(f, T \ {c}) \in Int
    BY <1>3, <2>1
  <2>4. QED
    BY <2>2, <2>3
<1> HIDE DEF Good
<1>4. S \in Good
  BY <1>2, <1>3, SetInduction
<1>5. QED
  BY <1>4 DEF Good

\* Any element may be taken out first.
LEMMA SumOut ==
  ASSUME NEW S, IsFiniteSet(S), NEW f, \A x \in S : f[x] \in Int, NEW x \in S
  PROVE  SumOver(f, S) = f[x] + SumOver(f, S \ {x})
<1> DEFINE Good == {T \in SUBSET S : \A y \in T : SumOver(f, T) = f[y] + SumOver(f, T \ {y})}
<1>1. \A T \in SUBSET S : IsFiniteSet(T) /\ SumOver(f, T) \in Int
  BY FS_Subset, SumWhole
<1>2. {} \in Good
  OBVIOUS
<1>3. ASSUME NEW T \in SUBSET S, T # {}, \A y \in T : T \ {y} \in Good PROVE T \in Good
  <2> DEFINE c == First(T)
  <2>1. c \in T
    BY <1>3 DEF First
  <2>2. SumOver(f, T) = f[c] + SumOver(f, T \ {c})
    BY <1>1, <1>3, SumRule
  <2> HIDE DEF c
  <2>3. ASSUME NEW y \in T, y # c PROVE SumOver(f, T) = f[y] + SumOver(f, T \ {y})
    <3>1. /\ SumOver(f, T \ {c}) = f[y] + SumOver(f, (T \ {c}) \ {y})
          /\ SumOver(f, T \ {y}) = f[c] + SumOver(f, (T \ {y}) \ {c})
      BY <1>3, <2>1, <2>3
    <3>2. (T \ {c}) \ {y} = (T \ {y}) \ {c}
      OBVIOUS
    <3> DEFINE rest == SumOver(f, (T \ {y}) \ {c})
    <3>3. rest \in Int /\ f[c] \in Int /\ f[y] \in Int
      BY <1>1, <2>1, <2>3
    <3>4. SumOver(f, T \ {c}) = f[y] + rest /\ SumOver(f, T \ {y}) = f[c] + rest
      BY <3>1, <3>2
    <3> HIDE DEF rest, Good
    <3>5. QED
      BY <2>2, <3>3, <3>4
  <2>4. QED
    BY <2>2, <2>3
<1> HIDE DEF Good
<1>4. S \in Good
  BY <1>2, <1>3, SetInduction
<1>5. QED
  BY <1>4 DEF Good

\* Nothing sums to nothing, and a sum only depends on what the function gives on the set.
LEMMA SumEmpty == \A f : SumOver(f, {}) = 0
BY FS_EmptySet, SumRule

LEMMA SumSame ==
  ASSUME NEW S, IsFiniteSet(S), NEW f, NEW g, \A x \in S : f[x] = g[x]
  PROVE  SumOver(f, S) = SumOver(g, S)
<1> DEFINE Good == {T \in SUBSET S : SumOver(f, T) = SumOver(g, T)}
<1>1. \A T \in SUBSET S : \A h :
        SumOver(h, T) = IF T = {} THEN 0 ELSE h[First(T)] + SumOver(h, T \ {First(T)})
  BY FS_Subset, SumRule
<1>2. {} \in Good
  BY SumEmpty
<1>3. ASSUME NEW T \in SUBSET S, T # {}, \A x \in T : T \ {x} \in Good PROVE T \in Good
  <2>1. First(T) \in T
    BY <1>3 DEF First
  <2>2. QED
    BY <1>1, <1>3, <2>1
<1> HIDE DEF Good
<1>4. S \in Good
  BY <1>2, <1>3, SetInduction
<1>5. QED
  BY <1>4 DEF Good

\* Sums add up.
LEMMA SumPlus ==
  ASSUME NEW S, IsFiniteSet(S), NEW f, NEW g, NEW h,
         \A x \in S : f[x] \in Int /\ g[x] \in Int /\ h[x] = f[x] + g[x]
  PROVE  SumOver(h, S) = SumOver(f, S) + SumOver(g, S)
<1> DEFINE Good == {T \in SUBSET S : SumOver(h, T) = SumOver(f, T) + SumOver(g, T)}
<1>1. ASSUME NEW T \in SUBSET S
      PROVE  /\ \A k : SumOver(k, T) = IF T = {} THEN 0 ELSE k[First(T)] + SumOver(k, T \ {First(T)})
             /\ SumOver(f, T) \in Int /\ SumOver(g, T) \in Int
  BY FS_Subset, SumRule, SumWhole
<1>2. {} \in Good
  BY SumEmpty
<1>3. ASSUME NEW T \in SUBSET S, T # {}, \A x \in T : T \ {x} \in Good PROVE T \in Good
  <2> DEFINE c == First(T)
  <2>1. c \in T
    BY <1>3 DEF First
  <2>2. /\ SumOver(h, T) = h[c] + SumOver(h, T \ {c})
        /\ SumOver(f, T) = f[c] + SumOver(f, T \ {c})
        /\ SumOver(g, T) = g[c] + SumOver(g, T \ {c})
    BY <1>1, <1>3
  <2> HIDE DEF c
  <2>3. SumOver(h, T \ {c}) = SumOver(f, T \ {c}) + SumOver(g, T \ {c})
    BY <1>3, <2>1
  <2>4. /\ SumOver(f, T \ {c}) \in Int /\ SumOver(g, T \ {c}) \in Int
        /\ f[c] \in Int /\ g[c] \in Int /\ h[c] = f[c] + g[c]
    BY <1>1, <2>1
  <2> HIDE DEF Good
  <2>5. SumOver(h, T) = SumOver(f, T) + SumOver(g, T)
    BY <2>2, <2>3, <2>4
  <2>6. QED
    BY <2>5 DEF Good
<1> HIDE DEF Good
<1>4. S \in Good
  BY <1>2, <1>3, SetInduction
<1>5. QED
  BY <1>4 DEF Good

\* A common factor may be taken out.
LEMMA SumTimes ==
  ASSUME NEW S, IsFiniteSet(S), NEW f, NEW g, NEW c \in Int,
         \A x \in S : f[x] \in Int /\ g[x] = c * f[x]
  PROVE  SumOver(g, S) = c * SumOver(f, S)
<1> DEFINE Good == {T \in SUBSET S : SumOver(g, T) = c * SumOver(f, T)}
<1>1. ASSUME NEW T \in SUBSET S
      PROVE  /\ \A k : SumOver(k, T) = IF T = {} THEN 0 ELSE k[First(T)] + SumOver(k, T \ {First(T)})
             /\ SumOver(f, T) \in Int
  BY FS_Subset, SumRule, SumWhole
<1>2. {} \in Good
  BY SumEmpty
<1>3. ASSUME NEW T \in SUBSET S, T # {}, \A x \in T : T \ {x} \in Good PROVE T \in Good
  <2> DEFINE d == First(T)
  <2>1. d \in T
    BY <1>3 DEF First
  <2>2. /\ SumOver(g, T) = g[d] + SumOver(g, T \ {d})
        /\ SumOver(f, T) = f[d] + SumOver(f, T \ {d})
    BY <1>1, <1>3
  <2> HIDE DEF d
  <2>3. SumOver(g, T \ {d}) = c * SumOver(f, T \ {d})
    BY <1>3, <2>1
  <2>4. SumOver(f, T \ {d}) \in Int /\ f[d] \in Int /\ g[d] = c * f[d]
    BY <1>1, <2>1
  <2>5. \A a, b \in Int : c * a + c * b = c * (a + b)
    OBVIOUS
  <2> HIDE DEF Good
  <2>6. SumOver(g, T) = c * SumOver(f, T)
    BY <2>2, <2>3, <2>4, <2>5
  <2>7. QED
    BY <2>6 DEF Good
<1> HIDE DEF Good
<1>4. S \in Good
  BY <1>2, <1>3, SetInduction
<1>5. QED
  BY <1>4 DEF Good

\* The sum over two sets that have nothing in common.
LEMMA SumJoin ==
  ASSUME NEW A, NEW B, IsFiniteSet(A), IsFiniteSet(B), A \cap B = {},
         NEW f, \A x \in A \cup B : f[x] \in Int
  PROVE  SumOver(f, A \cup B) = SumOver(f, A) + SumOver(f, B)
<1> DEFINE Good == {T \in SUBSET B : SumOver(f, A \cup T) = SumOver(f, A) + SumOver(f, T)}
<1>1. ASSUME NEW T \in SUBSET B
      PROVE  /\ IsFiniteSet(T) /\ IsFiniteSet(A \cup T)
             /\ SumOver(f, T) \in Int /\ SumOver(f, A) \in Int
             /\ SumOver(f, A \cup T) \in Int
  <2>1. IsFiniteSet(T)
    BY FS_Subset
  <2>2. IsFiniteSet(A \cup T)
    BY <2>1, FS_Union
  <2>3. QED
    BY <2>1, <2>2, SumWhole
<1>2. {} \in Good
  <2>1. A \cup {} = A
    OBVIOUS
  <2>2. QED
    BY <1>1, <2>1, SumEmpty
<1>3. ASSUME NEW T \in SUBSET B, T # {}, \A x \in T : T \ {x} \in Good PROVE T \in Good
  <2>1. PICK c \in T : TRUE
    BY <1>3
  <2>2. /\ SumOver(f, T) = f[c] + SumOver(f, T \ {c})
        /\ SumOver(f, A \cup T) = f[c] + SumOver(f, (A \cup T) \ {c})
    BY <1>1, SumOut
  <2>3. (A \cup T) \ {c} = A \cup (T \ {c})
    OBVIOUS
  <2>4. SumOver(f, A \cup (T \ {c})) = SumOver(f, A) + SumOver(f, T \ {c})
    BY <1>3
  <2>5. f[c] \in Int /\ SumOver(f, T \ {c}) \in Int /\ SumOver(f, A) \in Int
    BY <1>1
  <2> HIDE DEF Good
  <2>6. SumOver(f, A \cup T) = SumOver(f, A) + SumOver(f, T)
    <3>1. SumOver(f, A \cup T) = f[c] + (SumOver(f, A) + SumOver(f, T \ {c}))
      BY <2>2, <2>3, <2>4
    <3>2. QED
      BY <2>2, <2>5, <3>1
  <2>7. QED
    BY <2>6 DEF Good
<1> HIDE DEF Good
<1>4. B \in Good
  BY <1>2, <1>3, SetInduction
<1>5. QED
  BY <1>4 DEF Good

\* The sum over what a one-to-one function makes of a set.
LEMMA SumImage ==
  ASSUME NEW S, IsFiniteSet(S), NEW m, \A x, y \in S : m[x] = m[y] => x = y,
         NEW f, NEW h, \A x \in S : f[m[x]] \in Int /\ h[x] = f[m[x]]
  PROVE  IsFiniteSet({m[x] : x \in S}) /\ SumOver(f, {m[x] : x \in S}) = SumOver(h, S)
<1> DEFINE I(T) == {m[x] : x \in T}
           Good == {T \in SUBSET S : IsFiniteSet(I(T)) /\ SumOver(f, I(T)) = SumOver(h, T)}
<1>1. \A T \in SUBSET S : IsFiniteSet(T)
  BY FS_Subset
<1>2. {} \in Good
  <2>1. I({}) = {}
    OBVIOUS
  <2>2. QED
    BY <2>1, SumEmpty, FS_EmptySet
<1>3. ASSUME NEW T \in SUBSET S, T # {}, \A x \in T : T \ {x} \in Good PROVE T \in Good
  <2>1. PICK c \in T : TRUE
    BY <1>3
  <2>2. I(T) \ {m[c]} = I(T \ {c}) /\ m[c] \in I(T) /\ I(T) = I(T \ {c}) \cup {m[c]}
    OBVIOUS
  <2>3. \A y \in I(T) : f[y] \in Int
    OBVIOUS
  <2>4. IsFiniteSet(I(T \ {c})) /\ SumOver(f, I(T \ {c})) = SumOver(h, T \ {c})
    BY <1>3
  <2> HIDE DEF I
  <2>5. IsFiniteSet(I(T))
    <3>1. IsFiniteSet(I(T \ {c}) \cup {m[c]})
      BY <2>4, FS_AddElement
    <3>2. QED
      BY <2>2, <3>1
  <2>6. SumOver(f, I(T)) = f[m[c]] + SumOver(f, I(T) \ {m[c]})
    BY <2>2, <2>3, <2>5, SumOut
  <2>7. SumOver(h, T) = h[c] + SumOver(h, T \ {c})
    BY <1>1, SumOut
  <2>8. SumOver(f, I(T)) = SumOver(h, T)
    BY <2>2, <2>4, <2>6, <2>7
  <2>9. QED
    BY <2>5, <2>8
<1> HIDE DEF Good
<1>4. S \in Good
  BY <1>2, <1>3, SetInduction
<1>5. QED
  BY <1>4 DEF Good

-----------------------------------------------------------------------------
(* What split_fee shares out.                                              *)

\* The parts of SplitFee, each a function that can be summed: the weight of a leg, the
\* whole satoshis of its share, what is left over, and the legs that get one more first.
Vbytes(legs) == [l \in legs |-> l.vbytes]
Weights(legs) == [l \in legs |-> IF SumOver(Vbytes(legs), legs) = 0 THEN 1 ELSE l.vbytes]
Total(legs) == SumOver(Weights(legs), legs)
Floors(legs, sat) == [l \in legs |-> (sat * Weights(legs)[l]) \div Total(legs)]
Rests(legs, sat) == [l \in legs |-> (sat * Weights(legs)[l]) % Total(legs)]
Before(r, legs, l) == {m \in legs : r[m] > r[l] \/ (r[m] = r[l] /\ m.swap < l.swap)}

\* The two sums that split_fee takes, as sums of integers.
LEMMA VbytesSum ==
  ASSUME NEW legs
  PROVE  MapThenSumSet(LAMBDA l : l.vbytes, legs) = SumOver(Vbytes(legs), legs)
<1> DEFINE f == Vbytes(legs)
           fold(g) == [T \in SUBSET legs |-> IF T = {} THEN 0 ELSE First(T).vbytes + g[T \ {First(T)}]]
<1>1. MapThenSumSet(LAMBDA l : l.vbytes, legs) = (CHOOSE g : g = fold(g))[legs]
  BY Zenon DEF MapThenSumSet, MapThenFoldSet, First
<1>2. ASSUME NEW g PROVE g = fold(g) <=> Adds(g, f, legs)
  <2>1. ASSUME NEW T \in SUBSET legs, T # {} PROVE f[First(T)] = First(T).vbytes
    <3>1. First(T) \in legs
      BY <2>1 DEF First
    <3>2. QED
      BY <3>1 DEF Vbytes
  <2> HIDE DEF f
  <2>2. QED
    BY <2>1 DEF Adds
<1> HIDE DEF fold, f
<1>3. (CHOOSE g : g = fold(g)) = (CHOOSE g : Adds(g, f, legs))
  BY <1>2, Zenon
<1>4. QED
  BY <1>1, <1>3, SumFolds, Zenon DEF f

LEMMA WeightsSum ==
  ASSUME NEW legs
  PROVE  MapThenSumSet(LAMBDA l : IF MapThenSumSet(LAMBDA k : k.vbytes, legs) = 0 THEN 1 ELSE l.vbytes, legs)
           = SumOver(Weights(legs), legs)
<1> DEFINE f == Weights(legs)
           e == MapThenSumSet(LAMBDA k : k.vbytes, legs)
           fold(g) == [T \in SUBSET legs |-> IF T = {} THEN 0
              ELSE (IF e = 0 THEN 1 ELSE First(T).vbytes) + g[T \ {First(T)}]]
<1>1. MapThenSumSet(LAMBDA l : IF MapThenSumSet(LAMBDA k : k.vbytes, legs) = 0 THEN 1 ELSE l.vbytes, legs) = (CHOOSE g : g = fold(g))[legs]
  BY Zenon DEF MapThenSumSet, MapThenFoldSet, First
<1>0. e = SumOver(Vbytes(legs), legs)
  BY VbytesSum, Zenon
<1> HIDE DEF e
<1>2. ASSUME NEW g PROVE g = fold(g) <=> Adds(g, f, legs)
  <2>1. ASSUME NEW T \in SUBSET legs, T # {} PROVE f[First(T)] = IF e = 0 THEN 1 ELSE First(T).vbytes
    <3>1. First(T) \in legs
      BY <2>1 DEF First
    <3>2. QED
      BY <1>0, <3>1 DEF Weights
  <2> HIDE DEF f
  <2>2. QED
    BY <2>1 DEF Adds
<1> HIDE DEF fold, f
<1>3. (CHOOSE g : g = fold(g)) = (CHOOSE g : Adds(g, f, legs))
  BY <1>2, Zenon
<1>4. QED
  BY <1>1, <1>3, SumFolds, Zenon DEF f

\* The share of a leg, in those parts.
LEMMA SplitForm ==
  ASSUME NEW legs, NEW sat, NEW l \in legs
  PROVE  SplitFee(legs, sat)[l] =
           Floors(legs, sat)[l]
             + (IF Cardinality(Before(Rests(legs, sat), legs, l)) < sat - SumOver(Floors(legs, sat), legs)
                THEN 1 ELSE 0)
<1> DEFINE even      == MapThenSumSet(LAMBDA k : k.vbytes, legs) = 0
           weight(k) == IF even THEN 1 ELSE k.vbytes
           total     == MapThenSumSet(weight, legs)
           floor(k)  == (sat * weight(k)) \div total
           rest(k)   == (sat * weight(k)) % total
           before(k) == {m \in legs : \/ rest(m) > rest(k)
                                      \/ rest(m) = rest(k) /\ m.swap < k.swap}
           left      == sat - MapThenSumSet(floor, legs)
           fold(g) == [T \in SUBSET legs |-> IF T = {} THEN 0 ELSE floor(First(T)) + g[T \ {First(T)}]]
<1>1. SplitFee(legs, sat)[l] = floor(l) + (IF Cardinality(before(l)) < left THEN 1 ELSE 0)
  <2>1. SplitFee(legs, sat) = [k \in legs |-> floor(k) + (IF Cardinality(before(k)) < left THEN 1 ELSE 0)]
    BY Zenon DEF SplitFee
  <2> HIDE DEF floor, before, left
  <2>2. QED
    BY <2>1
<1>2. MapThenSumSet(floor, legs) = (CHOOSE g : g = fold(g))[legs]
  BY Zenon DEF MapThenSumSet, MapThenFoldSet, First
<1>3. total = Total(legs)
  BY WeightsSum, Zenon DEF Total
<1>4. ASSUME NEW k \in legs PROVE weight(k) = Weights(legs)[k]
  <2>1. even <=> SumOver(Vbytes(legs), legs) = 0
    BY VbytesSum, Zenon
  <2> HIDE DEF even
  <2>2. QED
    BY <2>1 DEF Weights
<1> HIDE DEF even, weight, total
<1>5. ASSUME NEW k \in legs PROVE floor(k) = Floors(legs, sat)[k] /\ rest(k) = Rests(legs, sat)[k]
  BY <1>3, <1>4 DEF Floors, Rests
<1> HIDE DEF floor, rest
<1> DEFINE f == Floors(legs, sat)
<1>6. ASSUME NEW g PROVE g = fold(g) <=> Adds(g, f, legs)
  <2>1. ASSUME NEW T \in SUBSET legs, T # {} PROVE f[First(T)] = floor(First(T))
    <3>1. First(T) \in legs
      BY <2>1 DEF First
    <3>2. QED
      BY <1>5, <3>1
  <2> HIDE DEF f
  <2>2. QED
    BY <2>1 DEF Adds
<1>7. before(l) = Before(Rests(legs, sat), legs, l)
  BY <1>5 DEF Before
<1> HIDE DEF fold, f, before
<1>8. (CHOOSE g : g = fold(g)) = (CHOOSE g : Adds(g, f, legs))
  BY <1>6, Zenon
<1>9. MapThenSumSet(floor, legs) = SumOver(f, legs)
  BY <1>2, <1>8, SumFolds, Zenon
<1>10. left = sat - SumOver(Floors(legs, sat), legs)
  BY <1>9, Zenon DEF f
<1> HIDE DEF left
<1>11. QED
  BY <1>1, <1>5, <1>7, <1>10, Zenon

\* Every element of a sum of naturals is at most the sum.
LEMMA SumNat ==
  ASSUME NEW S, IsFiniteSet(S), NEW f, \A x \in S : f[x] \in Nat
  PROVE  SumOver(f, S) \in Nat /\ \A x \in S : f[x] <= SumOver(f, S)
<1> DEFINE Good == {T \in SUBSET S : SumOver(f, T) \in Nat}
<1>1. \A T \in SUBSET S : IsFiniteSet(T)
  BY FS_Subset
<1>2. {} \in Good
  BY SumEmpty
<1>3. ASSUME NEW T \in SUBSET S, T # {}, \A x \in T : T \ {x} \in Good PROVE T \in Good
  <2>1. PICK c \in T : TRUE
    BY <1>3
  <2>2. SumOver(f, T) = f[c] + SumOver(f, T \ {c})
    BY <1>1, SumOut
  <2>3. f[c] \in Nat /\ SumOver(f, T \ {c}) \in Nat
    BY <1>3
  <2>4. QED
    BY <2>2, <2>3
<1>4. ASSUME NEW T \in SUBSET S PROVE SumOver(f, T) \in Nat
  <2>1. ASSUME NEW U \in SUBSET T, U # {}, \A x \in U : U \ {x} \in Good PROVE U \in Good
    BY <1>3, <2>1
  <2> HIDE DEF Good
  <2>2. T \in Good
    BY <1>1, <1>2, <2>1, SetInduction
  <2>3. QED
    BY <2>2 DEF Good
<1>5. ASSUME NEW x \in S PROVE f[x] <= SumOver(f, S)
  <2>1. SumOver(f, S) = f[x] + SumOver(f, S \ {x})
    BY SumOut
  <2>2. SumOver(f, S \ {x}) \in Nat /\ f[x] \in Nat
    BY <1>4
  <2>3. QED
    BY <2>1, <2>2
<1>6. QED
  BY <1>4, <1>5

\* A set is as large as a sum of ones.
LEMMA SumOnes ==
  ASSUME NEW S, IsFiniteSet(S), NEW f, \A x \in S : f[x] = 1
  PROVE  SumOver(f, S) = Cardinality(S)
<1> DEFINE Good == {T \in SUBSET S : SumOver(f, T) = Cardinality(T)}
<1>1. \A T \in SUBSET S : IsFiniteSet(T) /\ Cardinality(T) \in Nat
  BY FS_Subset, FS_CardinalityType
<1>2. {} \in Good
  BY SumEmpty, FS_EmptySet
<1>3. ASSUME NEW T \in SUBSET S, T # {}, \A x \in T : T \ {x} \in Good PROVE T \in Good
  <2>1. PICK c \in T : TRUE
    BY <1>3
  <2>2. SumOver(f, T) = f[c] + SumOver(f, T \ {c})
    BY <1>1, SumOut
  <2>3. SumOver(f, T \ {c}) = Cardinality(T) - 1
    BY <1>1, <1>3, FS_RemoveElement
  <2>4. f[c] = 1 /\ Cardinality(T) \in Nat
    BY <1>1
  <2>5. QED
    BY <2>2, <2>3, <2>4
<1> HIDE DEF Good
<1>4. S \in Good
  BY <1>2, <1>3, SetInduction
<1>5. QED
  BY <1>4 DEF Good

\* The leg that the remainder goes to first.
LEMMA FirstServed ==
  ASSUME NEW T, IsFiniteSet(T), T # {}, NEW r, \A x \in T : r[x] \in Int /\ x.swap \in Int,
         \A x, y \in T : x.swap = y.swap => x = y
  PROVE  \E c \in T : Before(r, T, c) = {}
<1> DEFINE Good == {U \in SUBSET T : U = {} \/ \E c \in U : Before(r, U, c) = {}}
<1>1. {} \in Good
  OBVIOUS
<1>2. ASSUME NEW U \in SUBSET T, U # {}, \A x \in U : U \ {x} \in Good PROVE U \in Good
  <2>1. PICK x \in U : TRUE
    BY <1>2
  <2>2. CASE U \ {x} = {}
    <3>1. Before(r, U, x) = {}
      BY <2>2 DEF Before
    <3>2. QED
      BY <3>1
  <2>3. CASE U \ {x} # {}
    <3>1. PICK m \in U \ {x} : Before(r, U \ {x}, m) = {}
      BY <1>2, <2>3
    <3>2. CASE x \in Before(r, U, m)
      <4>1. Before(r, U, x) = {}
        BY <3>1, <3>2 DEF Before
      <4>2. QED
        BY <4>1
    <3>3. CASE x \notin Before(r, U, m)
      <4>1. Before(r, U, m) = {}
        BY <3>1, <3>3 DEF Before
      <4>2. QED
        BY <4>1
    <3>4. QED
      BY <3>2, <3>3
  <2>4. QED
    BY <2>2, <2>3
<1> HIDE DEF Good
<1>3. T \in Good
  BY <1>1, <1>2, SetInduction
<1>4. QED
  BY <1>3 DEF Good

\* As many legs get one more as there are to get it.
Extra(r, T, k) == [l \in T |-> IF Cardinality(Before(r, T, l)) < k THEN 1 ELSE 0]

LEMMA ExtraShared ==
  ASSUME NEW S, IsFiniteSet(S), NEW r, \A x \in S : r[x] \in Int /\ x.swap \in Int,
         \A x, y \in S : x.swap = y.swap => x = y
  PROVE  \A k \in 0 .. Cardinality(S) : SumOver(Extra(r, S, k), S) = k
<1> DEFINE Good == {T \in SUBSET S : \A k \in 0 .. Cardinality(T) : SumOver(Extra(r, T, k), T) = k}
<1>1. \A T \in SUBSET S : IsFiniteSet(T) /\ Cardinality(T) \in Nat
  BY FS_Subset, FS_CardinalityType
<1>2. ASSUME NEW T \in SUBSET S, NEW l \in T
      PROVE  IsFiniteSet(Before(r, T, l)) /\ Cardinality(Before(r, T, l)) \in Nat
  <2>1. Before(r, T, l) \in SUBSET S
    BY DEF Before
  <2>2. QED
    BY <1>1, <2>1
<1>3. {} \in Good
  <2>1. Cardinality({}) = 0
    BY FS_EmptySet
  <2>2. \A k \in 0 .. Cardinality({}) : k = 0
    BY <2>1
  <2>3. QED
    BY <2>2, SumEmpty
<1>4. ASSUME NEW T \in SUBSET S, T # {}, \A x \in T : T \ {x} \in Good PROVE T \in Good
  <2> SUFFICES ASSUME NEW k \in 0 .. Cardinality(T) PROVE SumOver(Extra(r, T, k), T) = k
    OBVIOUS
  <2>1. PICK c \in T : Before(r, T, c) = {}
    BY <1>1, <1>4, FirstServed
  <2> DEFINE U == T \ {c}
             e == Extra(r, T, k)
             d == Extra(r, U, k - 1)
  <2>2. IsFiniteSet(T) /\ IsFiniteSet(U) /\ Cardinality(U) = Cardinality(T) - 1 /\ U \in SUBSET S
    BY <1>1, FS_RemoveElement
  <2>3. \A x \in T : e[x] \in Int
    BY DEF Extra
  <2>4. SumOver(e, T) = e[c] + SumOver(e, U)
    BY <2>2, <2>3, SumOut
  <2>5. Cardinality(Before(r, T, c)) = 0
    BY <2>1, FS_EmptySet
  <2>6. k \in Nat /\ k <= Cardinality(T) /\ Cardinality(T) \in Nat
    BY <1>1
  <2>7. CASE k = 0
    <3>1. ASSUME NEW x \in T PROVE e[x] = 0
      <4>1. Cardinality(Before(r, T, x)) \in Nat
        BY <1>2
      <4>2. QED
        BY <2>7, <4>1 DEF Extra
    <3> HIDE DEF e
    <3>2. SumOver(e, T) = 0 * SumOver(e, T)
      BY <2>2, <3>1, SumTimes
    <3>3. SumOver(e, T) \in Int
      BY <2>2, <3>1, SumWhole
    <3>4. QED
      BY <2>7, <3>2, <3>3 DEF e
  <2>8. CASE k # 0
    <3>1. e[c] = 1
      BY <2>5, <2>6, <2>8 DEF Extra
    <3>2. ASSUME NEW x \in U PROVE e[x] = d[x]
      <4>1. c \in Before(r, T, x)
        <5>1. c # x /\ c \in S /\ x \in S
          OBVIOUS
        <5>2. r[c] \in Int /\ r[x] \in Int /\ c.swap \in Int /\ x.swap \in Int /\ c.swap # x.swap
          BY <5>1
        <5>3. x \notin Before(r, T, c)
          BY <2>1
        <5>4. QED
          BY <5>2, <5>3 DEF Before
      <4>2. Before(r, U, x) = Before(r, T, x) \ {c}
        BY DEF Before
      <4>3. /\ IsFiniteSet(Before(r, T, x)) /\ Cardinality(Before(r, T, x)) \in Nat
            /\ Cardinality(Before(r, U, x)) = Cardinality(Before(r, T, x)) - 1
        <5> DEFINE W == Before(r, T, x)
        <5>1. IsFiniteSet(W) /\ Cardinality(W) \in Nat
          BY <1>2
        <5>2. c \in W
          BY <4>1
        <5> HIDE DEF W
        <5>3. Cardinality(W \ {c}) = Cardinality(W) - 1
          BY <5>1, <5>2, FS_RemoveElement
        <5>4. QED
          BY <4>2, <5>1, <5>3 DEF W
      <4>4. QED
        BY <2>6, <4>3 DEF Extra
    <3>3. SumOver(e, U) = SumOver(d, U)
      BY <2>2, <3>2, SumSame
    <3>4. k - 1 \in 0 .. Cardinality(U) /\ U \in Good
      BY <1>4, <2>2, <2>6, <2>8
    <3>5. SumOver(d, U) = k - 1
      BY <3>4
    <3> HIDE DEF e, d, U
    <3>6. SumOver(e, T) = k
      BY <2>4, <2>6, <3>1, <3>3, <3>5
    <3>7. QED
      BY <3>6 DEF e
  <2>9. QED
    BY <2>7, <2>8
<1> HIDE DEF Good
<1>5. S \in Good
  BY <1>3, <1>4, SetInduction
<1>6. QED
  BY <1>5 DEF Good

\* One sum is less than another if each of its terms is.
LEMMA SumLess ==
  ASSUME NEW S, IsFiniteSet(S), S # {}, NEW f, NEW g,
         \A x \in S : f[x] \in Int /\ g[x] \in Int /\ f[x] < g[x]
  PROVE  SumOver(f, S) < SumOver(g, S)
<1> DEFINE Good == {T \in SUBSET S : T # {} => SumOver(f, T) < SumOver(g, T)}
<1>1. \A T \in SUBSET S : IsFiniteSet(T) /\ SumOver(f, T) \in Int /\ SumOver(g, T) \in Int
  BY FS_Subset, SumWhole
<1>2. {} \in Good
  OBVIOUS
<1>3. ASSUME NEW T \in SUBSET S, T # {}, \A x \in T : T \ {x} \in Good PROVE T \in Good
  <2>1. PICK c \in T : TRUE
    BY <1>3
  <2>2. SumOver(f, T) = f[c] + SumOver(f, T \ {c}) /\ SumOver(g, T) = g[c] + SumOver(g, T \ {c})
    BY <1>1, SumOut
  <2>3. SumOver(f, T \ {c}) <= SumOver(g, T \ {c})
    <3>1. CASE T \ {c} = {}
      BY <3>1, SumEmpty
    <3>2. CASE T \ {c} # {}
      BY <1>1, <1>3, <3>2
    <3>3. QED
      BY <3>1, <3>2
  <2>4. /\ f[c] \in Int /\ g[c] \in Int /\ f[c] < g[c]
        /\ SumOver(f, T \ {c}) \in Int /\ SumOver(g, T \ {c}) \in Int
    BY <1>1
  <2> HIDE DEF Good
  <2>5. SumOver(f, T) < SumOver(g, T)
    BY <2>2, <2>3, <2>4
  <2>6. QED
    BY <2>5 DEF Good
<1> HIDE DEF Good
<1>4. S \in Good
  BY <1>2, <1>3, SetInduction
<1>5. QED
  BY <1>4 DEF Good

\* Division leaves a remainder less than what is divided by.
LEMMA Division ==
  ASSUME NEW a \in Nat, NEW d \in Nat, d > 0
  PROVE  a \div d \in Nat /\ a % d \in 0 .. d - 1 /\ a = d * (a \div d) + (a % d)
<1>1. a \div d \in Int /\ a \div d >= 0
  OBVIOUS
<1>2. a % d \in 0 .. (d - 1)
  OBVIOUS
<1>3. a = d * (a \div d) + (a % d)
  OBVIOUS
<1>4. QED
  BY <1>1, <1>2, <1>3

\* split_fee shares out the fee, no more and no less, and no share is negative.
LEMMA SplitWhole ==
  ASSUME NEW legs, IsFiniteSet(legs), legs # {}, NEW sat \in Nat,
         \A l \in legs : l.vbytes \in Nat /\ l.swap \in Int,
         \A l, k \in legs : l.swap = k.swap => l = k
  PROVE  /\ SumOver(SplitFee(legs, sat), legs) = sat
         /\ \A l \in legs : SplitFee(legs, sat)[l] \in 0 .. sat
<1> DEFINE w     == Weights(legs)
           total == Total(legs)
           fl    == Floors(legs, sat)
           rs    == Rests(legs, sat)
           F     == SumOver(fl, legs)
           R     == SumOver(rs, legs)
           n     == Cardinality(legs)
<1>1. \A l \in legs : w[l] \in Nat
  BY DEF Weights
<1>2. total \in Nat \ {0}
  <2>1. total \in Nat /\ \A l \in legs : w[l] <= total
    BY <1>1, SumNat DEF Total
  <2>2. CASE SumOver(Vbytes(legs), legs) = 0
    <3>1. PICK l \in legs : TRUE
      OBVIOUS
    <3>2. w[l] = 1
      BY <2>2 DEF Weights
    <3> HIDE DEF total, w
    <3>3. QED
      BY <2>1, <3>1, <3>2
  <2>3. CASE SumOver(Vbytes(legs), legs) # 0
    <3>1. \A l \in legs : w[l] = Vbytes(legs)[l]
      BY <2>3 DEF Weights, Vbytes
    <3>2. total = SumOver(Vbytes(legs), legs)
      BY <3>1, SumSame DEF Total
    <3>3. QED
      BY <2>1, <2>3, <3>2
  <2>4. QED
    BY <2>2, <2>3
<1>3. ASSUME NEW l \in legs
      PROVE  /\ fl[l] \in Nat /\ rs[l] \in 0 .. total - 1 /\ fl[l] = (sat * w[l]) \div total
             /\ sat * w[l] = total * fl[l] + rs[l]
  <2>1. \A a \in Nat : \A d \in Nat \ {0} :
          a \div d \in Nat /\ a % d \in 0 .. d - 1 /\ a = d * (a \div d) + (a % d)
    BY Division
  <2>2. \A a, b \in Nat : a * b \in Nat
    OBVIOUS
  <2>3. sat * w[l] \in Nat
    BY <1>1, <2>2
  <2>4. fl[l] = (sat * w[l]) \div total /\ rs[l] = (sat * w[l]) % total
    BY DEF Floors, Rests
  <2> HIDE DEF w, total, fl, rs
  <2>5. QED
    BY <1>2, <2>1, <2>3, <2>4
<1> HIDE DEF fl, rs, w, total
<1>4. F \in Nat /\ R \in Nat /\ n \in Nat
  BY <1>3, SumNat, FS_CardinalityType
<1>5. sat * total = total * F + R
  <2> DEFINE a == [l \in legs |-> sat * w[l]]
             b == [l \in legs |-> total * fl[l]]
  <2>1. SumOver(a, legs) = sat * SumOver(w, legs)
    BY <1>1, SumTimes
  <2>2. SumOver(b, legs) = total * F
    BY <1>2, <1>3, SumTimes
  <2>3. \A l \in legs : b[l] \in Int /\ rs[l] \in Int /\ a[l] = b[l] + rs[l]
    BY <1>2, <1>3
  <2> HIDE DEF a, b
  <2>4. SumOver(a, legs) = SumOver(b, legs) + R
    BY <2>3, SumPlus
  <2>5. SumOver(w, legs) = total
    BY DEF w, total, Total
  <2>6. QED
    BY <2>1, <2>2, <2>4, <2>5
<1>6. R < total * n
  <2> DEFINE one == [l \in legs |-> 1]
             c   == [l \in legs |-> total]
  <2>1. SumOver(one, legs) = n
    BY SumOnes
  <2>2. SumOver(c, legs) = total * SumOver(one, legs)
    BY <1>2, SumTimes
  <2>3. \A l \in legs : rs[l] \in Int /\ c[l] \in Int /\ rs[l] < c[l]
    BY <1>2, <1>3
  <2> HIDE DEF one, c
  <2>4. R < SumOver(c, legs)
    BY <2>3, SumLess
  <2>5. QED
    BY <2>1, <2>2, <2>4
<1> DEFINE left == sat - F
<1>7. left \in 0 .. n
  <2>1. total * left = R
    <3>1. total * (sat - F) = sat * total - total * F
      BY <1>2, <1>4
    <3>2. sat * total \in Int /\ total * F \in Int
      BY <1>2, <1>4
    <3> HIDE DEF F, R
    <3>3. QED
      BY <1>4, <1>5, <3>1, <3>2
  <2>2. left \in Int
    BY <1>4
  <2> HIDE DEF left, R, n
  <2>3. ASSUME left < 0 PROVE FALSE
    <3>1. total * left < 0
      BY <1>2, <2>2, <2>3
    <3>2. QED
      BY <1>4, <2>1, <3>1
  <2>4. ASSUME left > n PROVE FALSE
    <3>1. total * left >= total * n
      BY <1>2, <1>4, <2>2, <2>4
    <3>2. total * n \in Int
      BY <1>2, <1>4
    <3>3. QED
      BY <1>4, <1>6, <2>1, <3>1, <3>2
  <2>5. QED
    BY <1>4, <2>2, <2>3, <2>4
<1> DEFINE ex == Extra(rs, legs, left)
           sh == SplitFee(legs, sat)
<1>8. \A l \in legs : sh[l] = fl[l] + ex[l] /\ ex[l] \in {0, 1}
  BY SplitForm DEF Extra, fl, rs
<1>9. SumOver(ex, legs) = left
  BY <1>3, <1>7, ExtraShared
<1> HIDE DEF ex, sh
<1>10. SumOver(sh, legs) = F + left
  BY <1>3, <1>8, <1>9, SumPlus
<1>11. SumOver(sh, legs) = sat
  BY <1>4, <1>10
<1>12. \A l \in legs : sh[l] \in Nat
  BY <1>3, <1>8
<1>13. \A l \in legs : sh[l] <= sat
  BY <1>11, <1>12, SumNat
<1>14. QED
  BY <1>11, <1>12, <1>13 DEF sh

-----------------------------------------------------------------------------
(* What a transaction of ours was worth.                                   *)

\* The swaps of a transaction, and what each of them brought.
In(t) == {s \in Swaps : swaps[s].spending = t \/ swaps[s].funding = t}
Gross(t) == [s \in Swaps |-> IF swaps[s].spending = t THEN lockup[s] ELSE -swaps[s].onchain]

\* The two ends of a lockup are made transactions, and not the same; another's funding
\* is not in our history; and a transaction of ours gained what its swaps brought, less
\* its fee.
EndsInv ==
  \A s \in Swaps :
    /\ truth[s] = "none" => swaps[s].funding = 0 /\ swaps[s].spending = 0
    /\ swaps[s].funding # 0 => /\ height[swaps[s].funding] # "none"
                               /\ swaps[s].rev => swaps[s].funding \notin ours
    /\ swaps[s].spending # 0 => /\ height[swaps[s].spending] # "none"
                                /\ swaps[s].spending # swaps[s].funding
Whole(t) == In(t) # {} /\ delta[t] = SumOver(Gross(t), In(t)) - fee[t]
MoneyInv ==
  /\ lockup \in [Swaps -> Int] /\ fee \in [Txs -> Nat] /\ delta \in [Txs -> Int]
  /\ EndsInv
  /\ \A t \in ours : Whole(t)

\* At first there is no transaction.
LEMMA MoneyInit == Init => MoneyInv
<1>1. ASSUME Init, NEW s \in Swaps
      PROVE  truth[s] = "none" /\ swaps[s].funding = 0 /\ swaps[s].spending = 0
  BY <1>1 DEF Init, Blank, NewSwap
<1>2. ASSUME Init PROVE ours = {} /\ lockup \in [Swaps -> Int] /\ fee \in [Txs -> Nat] /\ delta \in [Txs -> Int]
  BY <1>2 DEF Init
<1>3. QED
  BY <1>1, <1>2 DEF MoneyInv, EndsInv

\* The swaps of a transaction can be summed over.
LEMMA InFinite == \A t : In(t) \in SUBSET Swaps /\ IsFiniteSet(In(t))
<1>1. IsFiniteSet(Swaps)
  BY FS_Interval, BoundAssumption DEF Swaps
<1>2. QED
  BY <1>1, FS_Subset DEF In

\* A step that leaves the swaps of a transaction what they are leaves it worth what it was.
Same(s, t) ==
  /\ swaps'[s].spending = t <=> swaps[s].spending = t
  /\ swaps'[s].funding = t <=> swaps[s].funding = t
  /\ s \in In(t) => /\ lockup'[s] = lockup[s] /\ swaps'[s].onchain = swaps[s].onchain
                    /\ swaps'[s].rev = swaps[s].rev
Steady ==
  \A t \in ours \cap ours' :
    delta'[t] = delta[t] /\ fee'[t] = fee[t] /\ \A s \in Swaps : Same(s, t)

LEMMA WholeStays ==
  ASSUME MoneyInv, Steady, NEW t \in ours \cap ours'
  PROVE  Whole(t)'
<1>1. In(t)' = In(t)
  BY DEF In, Same, Steady
<1>2. ASSUME NEW s \in In(t) PROVE Gross(t)'[s] = Gross(t)[s]
  <2>1. s \in Swaps /\ Same(s, t)
    BY DEF In, Steady
  <2>2. QED
    BY <2>1 DEF Gross, Same
<1>3. SumOver(Gross(t)', In(t)) = SumOver(Gross(t), In(t))
  BY <1>2, InFinite, SumSame
<1>4. Whole(t)
  BY DEF MoneyInv
<1>5. SumOver(Gross(t), In(t))' = SumOver(Gross(t)', In(t)')
  OBVIOUS
<1>6. QED
  BY <1>1, <1>3, <1>4, <1>5 DEF Whole, Steady

\* What every step amounts to: it keeps the types, and either leaves a transaction of
\* ours as it was, or makes it.
LEMMA MoneyStep ==
  ASSUME MoneyInv,
         lockup' \in [Swaps -> Int], fee' \in [Txs -> Nat], delta' \in [Txs -> Int], EndsInv',
         Steady, \A t \in ours' \ ours : Whole(t)'
  PROVE  MoneyInv'
<1>1. \A t \in ours' : Whole(t)'
  BY WholeStays
<1>2. QED
  BY <1>1 DEF MoneyInv

\* Creating a swap.
LEMMA CreateMoney ==
  ASSUME WalletInv, NamedInv, MoneyInv, Create
  PROVE  MoneyInv' /\ Steady
<1> USE DEF WalletInv
<1>1. PICK s \in Swaps : \E d : /\ truth[s] = "none" /\ d.funding = 0 /\ d.spending = 0
                               /\ swaps' = [swaps EXCEPT ![s] = d]
  BY DEF Create, CreateServed, CreateOwn, NewSwap
<1>2. PICK d : /\ truth[s] = "none" /\ d.funding = 0 /\ d.spending = 0
               /\ swaps' = [swaps EXCEPT ![s] = d]
  BY <1>1
<1>3. UNCHANGED <<lockup, height, ours, fee, delta>>
  BY DEF Create, CreateServed, CreateOwn, create
<1>4. \A x \in Swaps : swaps'[x] = IF x = s THEN d ELSE swaps[x]
  BY <1>2 DEF RoleInv
<1>5. \A x \in Swaps : truth'[x] = "none" => truth[x] = "none"
  BY DEF Create, CreateServed, CreateOwn, RoleInv
<1>6. swaps[s].funding = 0 /\ swaps[s].spending = 0
  BY <1>2 DEF MoneyInv, EndsInv
<1>7. EndsInv'
  BY <1>2, <1>3, <1>4, <1>5 DEF MoneyInv, EndsInv
<1>8. \A t \in ours : \A x \in Swaps : Same(x, t)
  <2>1. \A t \in ours : t # 0
    BY DEF Txs
  <2>2. QED
    BY <1>2, <1>3, <1>4, <1>6, <2>1 DEF Same, In
<1>9. QED
  BY <1>3, <1>7, <1>8, MoneyStep DEF MoneyInv, Steady

\* Paying, and forgetting a payment.
LEMMA PaymentMoney ==
  ASSUME WalletInv, NamedInv, MoneyInv, Payment
  PROVE  MoneyInv' /\ Steady
<1> USE DEF WalletInv
<1>1. UNCHANGED <<truth, lockup, height, ours, fee, delta>>
  BY DEF Payment, PayPrepay, PayMain, PaymentForgotten
<1>2. swaps' = swaps \/ \E s \in Swaps : swaps' = [swaps EXCEPT ![s].preimage = TRUE]
  BY DEF Payment, PayPrepay, PayMain, PaymentForgotten
<1>3. \A x \in Swaps : /\ swaps'[x].rev = swaps[x].rev /\ swaps'[x].onchain = swaps[x].onchain
                       /\ swaps'[x].funding = swaps[x].funding
                       /\ swaps'[x].spending = swaps[x].spending
  BY <1>2 DEF RoleInv, SwapData
<1>4. EndsInv'
  BY <1>1, <1>3 DEF MoneyInv, EndsInv
<1>5. \A t \in ours : \A x \in Swaps : Same(x, t)
  BY <1>1, <1>3 DEF Same
<1>6. QED
  BY <1>1, <1>4, <1>5, MoneyStep DEF MoneyInv, Steady

\* The other side funds: by a transaction that is new, and not ours.
LEMMA FundMoney ==
  ASSUME WalletInv, NamedInv, MoneyInv, NEW u \in Txs, NEW s \in Swaps, NEW over \in Overpayments,
         TheyFund(s, u, over)
  PROVE  MoneyInv' /\ Steady
<1> USE DEF WalletInv
<1>1. /\ s \in Stored /\ swaps[s].funding = 0 /\ height[u] = "none"
      /\ swaps' = [swaps EXCEPT ![s].funding = u]
      /\ lockup' = [lockup EXCEPT ![s] = swaps[s].onchain + over]
      /\ height' = [height EXCEPT ![u] = "mempool"]
      /\ UNCHANGED <<truth, ours, fee, delta>>
  BY DEF TheyFund, NextTx
<1>2. swaps[s].spending = 0
  BY <1>1 DEF SettledInv, Settled, Txs
<1>3. \A x \in Swaps : /\ swaps'[x].rev = swaps[x].rev /\ swaps'[x].onchain = swaps[x].onchain
                       /\ swaps'[x].funding = IF x = s THEN u ELSE swaps[x].funding
                       /\ swaps'[x].spending = swaps[x].spending
  BY <1>1 DEF RoleInv, SwapData
<1>4. lockup' \in [Swaps -> Int]
  <2>1. swaps[s].onchain \in Int /\ over \in Nat
    BY AmountAssumption DEF RoleInv, SwapData
  <2>2. swaps[s].onchain + over \in Int
    BY <2>1
  <2>3. QED
    BY <1>1, <2>2 DEF MoneyInv
<1>5. u \notin ours /\ truth[s] # "none" /\ u # 0
  BY <1>1 DEF NamedInv, Stored, Txs
<1>6. \A x \in Txs : height'[x] = "none" => height[x] = "none"
  BY <1>1 DEF SettledInv
<1>7. \A x \in Swaps : swaps[x].funding \in Txs \cup {0} /\ swaps[x].spending \in Txs \cup {0}
  BY BoundAssumption DEF RoleInv, SwapData, Txs
<1>8. height'[u] # "none"
  BY <1>1 DEF SettledInv
<1>9. EndsInv'
  BY <1>1, <1>2, <1>3, <1>5, <1>6, <1>7, <1>8 DEF MoneyInv, EndsInv
<1>10. \A t \in ours : \A x \in Swaps : Same(x, t)
  <2>1. \A t \in ours : t # 0 /\ t # u
    BY <1>5 DEF Txs
  <2>2. \A x \in Swaps : x # s => lockup'[x] = lockup[x]
    BY <1>1 DEF MoneyInv
  <2>3. QED
    BY <1>1, <1>2, <1>3, <2>1, <2>2 DEF Same, In
<1>11. QED
  BY <1>1, <1>4, <1>9, <1>10, MoneyStep DEF MoneyInv, Steady

\* What the code says is spent on fundings, as a sum of integers.
LEMMA OnchainSum ==
  ASSUME NEW L
  PROVE  MapThenSumSet(LAMBDA s : swaps[s].onchain, L) = SumOver([s \in L |-> swaps[s].onchain], L)
<1> DEFINE f == [s \in L |-> swaps[s].onchain]
           fold(g) == [T \in SUBSET L |-> IF T = {} THEN 0
                                          ELSE swaps[First(T)].onchain + g[T \ {First(T)}]]
<1>1. MapThenSumSet(LAMBDA s : swaps[s].onchain, L) = (CHOOSE g : g = fold(g))[L]
  BY Zenon DEF MapThenSumSet, MapThenFoldSet, First
<1>2. ASSUME NEW g PROVE g = fold(g) <=> Adds(g, f, L)
  <2>1. ASSUME NEW T \in SUBSET L, T # {} PROVE f[First(T)] = swaps[First(T)].onchain
    <3>1. First(T) \in L
      BY <2>1 DEF First
    <3>2. QED
      BY <3>1
  <2> HIDE DEF f
  <2>2. QED
    BY <2>1 DEF Adds
<1> HIDE DEF fold, f
<1>3. (CHOOSE g : g = fold(g)) = (CHOOSE g : Adds(g, f, L))
  BY <1>2, Zenon
<1>4. QED
  BY <1>1, <1>3, SumFolds, Zenon DEF f

\* The batcher makes a transaction of ours that is worth what it folds.
LEMMA MakeMoney ==
  ASSUME WalletInv, NamedInv, MoneyInv, NEW u \in Txs, NEW spent \in SUBSET Stored,
         NEW funded \in SUBSET Stored, NEW sat \in Fees, MakeTx(u, spent, funded, sat)
  PROVE  MoneyInv' /\ Steady
<1> USE DEF WalletInv
<1>1. /\ \A s \in spent : SettledFunding(s) /\ swaps[s].spending = 0
      /\ \A s \in funded : swaps[s].funding = 0 /\ ~swaps[s].rev
      /\ spent \cup funded # {} /\ height[u] = "none"
      /\ height' = [height EXCEPT ![u] = "local"]
      /\ lockup' = [s \in Swaps |-> IF s \in funded THEN swaps[s].onchain ELSE lockup[s]]
      /\ ours' = ours \cup {u} /\ fee' = [fee EXCEPT ![u] = sat]
      /\ delta' = [delta EXCEPT ![u] = MapThenSumSet(LAMBDA s : lockup[s], spent)
                                         - MapThenSumSet(LAMBDA s : swaps[s].onchain, funded) - sat]
      /\ truth' = truth
  BY DEF MakeTx, Claimable, Refundable, Unspent, Fundable, NextTx
<1>2. \A x \in Swaps : /\ swaps'[x].rev = swaps[x].rev /\ swaps'[x].onchain = swaps[x].onchain
                       /\ swaps'[x].funding = IF x \in funded THEN u ELSE swaps[x].funding
                       /\ swaps'[x].spending = IF x \in spent THEN u ELSE swaps[x].spending
  <2>1. swaps' = [x \in Swaps |->
          [swaps[x] EXCEPT !.spending = IF x \in spent THEN u ELSE @,
                           !.funding  = IF x \in funded THEN u ELSE @]]
    BY DEF MakeTx
  <2>2. QED
    BY <2>1 DEF RoleInv, SwapData
<1>3. spent \subseteq Swaps /\ funded \subseteq Swaps
      /\ \A x \in spent \cup funded : truth[x] # "none"
  BY DEF Stored
<1>4. \A x \in Swaps : /\ swaps[x].funding \in Txs \cup {0} /\ swaps[x].spending \in Txs \cup {0}
                       /\ swaps[x].onchain \in Int
  BY BoundAssumption DEF RoleInv, SwapData, Txs
<1>5. \A x \in spent : swaps[x].funding \in Txs /\ height[swaps[x].funding] = "confirmed"
  BY <1>1, <1>3, <1>4 DEF SettledFunding
<1>6. \A x \in funded : swaps[x].spending = 0 /\ x \notin spent
  BY <1>1, <1>3, <1>5 DEF SettledInv, Settled, Txs
<1>7. u \notin ours /\ u # 0 /\ 0 \notin Txs
  BY <1>1 DEF NamedInv, Txs
<1>8. \A x \in Swaps : swaps[x].funding # u /\ swaps[x].spending # u
  BY <1>1, <1>7 DEF MoneyInv, EndsInv
<1>9. height'[u] # "none" /\ \A x \in Txs : x # u => height'[x] = height[x]
  BY <1>1 DEF SettledInv
<1>10. EndsInv'
  <2>1. ASSUME NEW x \in Swaps
        PROVE  /\ truth[x] = "none" => swaps'[x].funding = 0 /\ swaps'[x].spending = 0
               /\ swaps'[x].funding # 0 => /\ height'[swaps'[x].funding] # "none"
                                           /\ swaps'[x].rev => swaps'[x].funding \notin ours'
               /\ swaps'[x].spending # 0 => /\ height'[swaps'[x].spending] # "none"
                                            /\ swaps'[x].spending # swaps'[x].funding
    <3>1. CASE x \in funded
      BY <1>1, <1>2, <1>3, <1>6, <1>9, <3>1
    <3>2. CASE x \in spent
      BY <1>1, <1>2, <1>3, <1>5, <1>6, <1>8, <1>9, <3>2 DEF MoneyInv, EndsInv
    <3>3. CASE x \notin spent /\ x \notin funded
      BY <1>1, <1>2, <1>4, <1>8, <1>9, <3>3 DEF MoneyInv, EndsInv
    <3>4. QED
      BY <3>1, <3>2, <3>3
  <2>2. QED
    BY <1>1, <2>1 DEF EndsInv
<1>11. ASSUME NEW t \in ours
       PROVE  delta'[t] = delta[t] /\ fee'[t] = fee[t] /\ \A x \in Swaps : Same(x, t)
  <2>1. t # u /\ t # 0 /\ t \in Txs
    BY <1>7
  <2>2. delta'[t] = delta[t] /\ fee'[t] = fee[t]
    BY <1>1, <2>1 DEF MoneyInv
  <2>3. ASSUME NEW x \in Swaps PROVE Same(x, t)
    BY <1>1, <1>2, <1>3, <1>6, <2>1 DEF Same, In
  <2>4. QED
    BY <2>2, <2>3
<1> DEFINE f == [x \in funded |-> swaps[x].onchain]
           g == Gross(u)'
<1>12. IsFiniteSet(spent) /\ IsFiniteSet(funded)
  <2>1. IsFiniteSet(Swaps)
    BY FS_Interval, BoundAssumption DEF Swaps
  <2>2. QED
    BY <1>3, <2>1, FS_Subset
<1>13. \A x \in spent : g[x] = lockup[x] /\ lockup[x] \in Int
  BY <1>1, <1>2, <1>3, <1>6 DEF Gross, MoneyInv
<1>14. \A x \in funded : g[x] = (-1) * f[x] /\ f[x] \in Int
  BY <1>1, <1>2, <1>3, <1>4, <1>6, <1>7 DEF Gross
<1>15. In(u)' = spent \cup funded
  BY <1>2, <1>3, <1>8 DEF In
<1> HIDE DEF f, g
<1>16. SumOver(g, spent) = SumOver(lockup, spent) /\ SumOver(lockup, spent) \in Int
  BY <1>12, <1>13, SumSame, SumWhole
<1>17. SumOver(g, funded) = (-1) * SumOver(f, funded) /\ SumOver(f, funded) \in Int
  BY <1>12, <1>14, SumTimes, SumWhole
<1>18. SumOver(g, spent \cup funded) = SumOver(g, spent) + SumOver(g, funded)
  <2>1. spent \cap funded = {}
    BY <1>6
  <2>2. \A x \in spent \cup funded : g[x] \in Int
    <3>1. \A x \in funded : g[x] \in Int
      BY <1>14
    <3>2. QED
      BY <1>13, <3>1
  <2>3. QED
    BY <1>12, <2>1, <2>2, SumJoin
<1>19. delta'[u] = SumOver(lockup, spent) - SumOver(f, funded) - sat /\ fee'[u] = sat
  <2>1. MapThenSumSet(LAMBDA s : lockup[s], spent) = SumOver(lockup, spent)
    BY Zenon DEF SumOver
  <2>2. MapThenSumSet(LAMBDA s : swaps[s].onchain, funded) = SumOver(f, funded)
    BY OnchainSum, Zenon DEF f
  <2>3. delta'[u] = MapThenSumSet(LAMBDA s : lockup[s], spent)
                      - MapThenSumSet(LAMBDA s : swaps[s].onchain, funded) - sat
    BY <1>1, Zenon DEF MoneyInv
  <2>4. QED
    BY <1>1, <2>1, <2>2, <2>3 DEF MoneyInv
<1>20. sat \in Nat
  BY AmountAssumption
<1>21. Whole(u)'
  <2>1. delta'[u] = SumOver(g, spent \cup funded) - fee'[u]
    BY <1>16, <1>17, <1>18, <1>19, <1>20
  <2>2. SumOver(Gross(u), In(u))' = SumOver(g, In(u)')
    BY DEF g
  <2>3. QED
    BY <1>1, <1>15, <2>1, <2>2 DEF Whole
<1>22. lockup' \in [Swaps -> Int] /\ fee' \in [Txs -> Nat] /\ delta' \in [Txs -> Int]
  <2>1. lockup' \in [Swaps -> Int] /\ fee' \in [Txs -> Nat]
    BY <1>1, <1>4, <1>20 DEF MoneyInv
  <2>2. delta'[u] \in Int
    BY <1>16, <1>17, <1>19, <1>20
  <2>3. \E d : delta' = [delta EXCEPT ![u] = d]
    BY <1>1
  <2>4. QED
    BY <2>1, <2>2, <2>3 DEF MoneyInv
<1>23. QED
  BY <1>1, <1>10, <1>11, <1>21, <1>22, MoneyStep DEF Steady

\* The other side spends a lockup: by a transaction that is new, and that may replace one
\* of ours, which then is ours no more.
LEMMA SpendMoney ==
  ASSUME WalletInv, NamedInv, MoneyInv, NEW u \in Txs, NEW s \in Swaps, TheySpend(s, u)
  PROVE  MoneyInv' /\ Steady
<1> USE DEF WalletInv
<1> DEFINE lost == {swaps[s].spending} \ {0}
<1>1. /\ height[u] = "none" /\ SettledFunding(s)
      /\ swaps[s].spending = 0 \/ /\ swaps[s].spending \in ours
                                  /\ \A x \in Stored \ {s} : /\ swaps[x].spending # swaps[s].spending
                                                             /\ swaps[x].funding # swaps[s].spending
      /\ height' = [x \in Txs |-> IF x = u THEN "mempool"
                                  ELSE IF x \in lost THEN "dropped" ELSE height[x]]
      /\ ours' = ours \ lost
      /\ delta' = [x \in Txs |-> IF x \in lost THEN 0 ELSE delta[x]]
      /\ UNCHANGED <<truth, lockup, fee>>
  BY DEF TheySpend, Unspent, Replaceable, NextTx
<1>2. \A x \in Swaps : /\ swaps'[x].rev = swaps[x].rev /\ swaps'[x].onchain = swaps[x].onchain
                       /\ swaps'[x].funding = swaps[x].funding
                       /\ swaps'[x].spending = IF x = s THEN u ELSE swaps[x].spending
  <2>1. swaps' = [swaps EXCEPT ![s].spending = u, ![s].preimage = @ \/ ~swaps[s].rev]
    BY DEF TheySpend
  <2>2. QED
    BY <2>1 DEF RoleInv, SwapData
<1>3. u \notin ours /\ u # 0 /\ 0 \notin Txs /\ truth[s] # "none"
  BY <1>1 DEF NamedInv, Txs, SettledFunding, Stored
<1>4. \A x \in Swaps : swaps[x].funding # u /\ swaps[x].spending # u
  BY <1>1, <1>3 DEF MoneyInv, EndsInv
<1>5. \A x \in Swaps : swaps[x].funding \in Txs \cup {0} /\ swaps[x].spending \in Txs \cup {0}
  BY BoundAssumption DEF RoleInv, SwapData, Txs
<1>6. \A x \in Txs : height'[x] = "none" => height[x] = "none" /\ x # u
  BY <1>1
<1>7. EndsInv'
  <2>1. ASSUME NEW x \in Swaps
        PROVE  /\ truth[x] = "none" => swaps'[x].funding = 0 /\ swaps'[x].spending = 0
               /\ swaps'[x].funding # 0 => /\ height'[swaps'[x].funding] # "none"
                                           /\ swaps'[x].rev => swaps'[x].funding \notin ours'
               /\ swaps'[x].spending # 0 => /\ height'[swaps'[x].spending] # "none"
                                            /\ swaps'[x].spending # swaps'[x].funding
    <3>1. swaps[x].funding \in Txs \cup {0} /\ swaps[x].spending \in Txs \cup {0}
      BY <1>5
    <3>2. /\ truth[x] = "none" => swaps[x].funding = 0 /\ swaps[x].spending = 0
          /\ swaps[x].funding # 0 => /\ height[swaps[x].funding] # "none"
                                     /\ swaps[x].rev => swaps[x].funding \notin ours
          /\ swaps[x].spending # 0 => /\ height[swaps[x].spending] # "none"
                                      /\ swaps[x].spending # swaps[x].funding
      BY DEF MoneyInv, EndsInv
    <3>3. ours' \subseteq ours
      BY <1>1
    <3>4. QED
      BY <1>2, <1>3, <1>4, <1>6, <3>1, <3>2, <3>3
  <2>2. QED
    BY <1>1, <2>1 DEF EndsInv
<1>8. ASSUME NEW t \in ours'
      PROVE  t \in ours /\ delta'[t] = delta[t] /\ fee'[t] = fee[t] /\ \A x \in Swaps : Same(x, t)
  <2>1. t \in ours /\ t \notin lost /\ t # u /\ t \in Txs /\ t # 0 /\ t # swaps[s].spending
    BY <1>1, <1>3
  <2>2. delta'[t] = delta[t]
    BY <1>1, <2>1
  <2>3. \A x \in Swaps : Same(x, t)
    BY <1>1, <1>2, <2>1 DEF Same
  <2>4. QED
    BY <1>1, <2>1, <2>2, <2>3
<1>9. delta' \in [Txs -> Int]
  BY <1>1 DEF MoneyInv
<1>10. QED
  BY <1>1, <1>7, <1>8, <1>9, MoneyStep DEF MoneyInv, Steady

\* No step makes a transaction worth anything else.
LEMMA MoneyKept ==
  ASSUME WalletInv, NamedInv, MoneyInv, [Next]_vars
  PROVE  MoneyInv' /\ Steady
<1>1. CASE UNCHANGED vars
  <2>1. EndsInv' /\ \A t \in ours : \A s \in Swaps : Same(s, t)
    BY <1>1 DEF vars, MoneyInv, EndsInv, Same
  <2>2. QED
    BY <1>1, <2>1, MoneyStep DEF vars, MoneyInv, Steady, WalletInv
<1>2. ASSUME NEW t \in Txs, Broadcast(t) \/ Confirm(t) PROVE MoneyInv' /\ Steady
  <2>1. /\ UNCHANGED <<truth, swaps, lockup, ours, fee, delta>>
        /\ \A x \in Txs : height[x] # "none" => height'[x] # "none"
    BY <1>2 DEF Broadcast, Confirm, WalletInv, SettledInv
  <2>2. \A x \in Swaps : swaps[x].funding \in Txs \cup {0} /\ swaps[x].spending \in Txs \cup {0}
    BY BoundAssumption DEF WalletInv, RoleInv, SwapData, Txs
  <2>3. EndsInv' /\ \A x \in ours : \A s \in Swaps : Same(s, x)
    BY <2>1, <2>2 DEF MoneyInv, EndsInv, Same
  <2>4. QED
    BY <2>1, <2>3, MoneyStep DEF MoneyInv, Steady, WalletInv
<1>3. CASE Transaction
  BY <1>2, <1>3, FundMoney, MakeMoney, SpendMoney DEF Transaction
<1>4. QED
  BY <1>1, <1>3, CreateMoney, PaymentMoney DEF Next

-----------------------------------------------------------------------------
(* The rows of a batch.                                                    *)

\* What the legs of a batch bring, as a sum of integers.
LEMMA NetSum ==
  ASSUME NEW L
  PROVE  MapThenSumSet(Net, L) = SumOver([l \in L |-> Net(l)], L)
<1> DEFINE f == [l \in L |-> Net(l)]
           fold(g) == [T \in SUBSET L |-> IF T = {} THEN 0 ELSE Net(First(T)) + g[T \ {First(T)}]]
<1>1. MapThenSumSet(Net, L) = (CHOOSE g : g = fold(g))[L]
  BY Zenon DEF MapThenSumSet, MapThenFoldSet, First
<1>2. ASSUME NEW g PROVE g = fold(g) <=> Adds(g, f, L)
  <2>1. ASSUME NEW T \in SUBSET L, T # {} PROVE f[First(T)] = Net(First(T))
    <3>1. First(T) \in L
      BY <2>1 DEF First
    <3>2. QED
      BY <3>1
  <2> HIDE DEF f
  <2>2. QED
    BY <2>1 DEF Adds
<1> HIDE DEF fold, f
<1>3. (CHOOSE g : g = fold(g)) = (CHOOSE g : Adds(g, f, L))
  BY <1>2, Zenon
<1>4. QED
  BY <1>1, <1>3, SumFolds, Zenon DEF f

\* The legs of a transaction of ours are those of its swaps, one each.
OneLeg(t) ==
  [s \in Swaps |->
     IF swaps[s].spending = t
     THEN Leg(s, t, IF swaps[s].rev THEN "claim" ELSE "refund", lockup[s], ClaimVbytes)
     ELSE Leg(s, t, "funding", -swaps[s].onchain, FundingVbytes)]

LEMMA LegsOne ==
  ASSUME WalletInv, NamedInv, MoneyInv, NEW t \in ours
  PROVE  LegsOf(t) = {OneLeg(t)[s] : s \in In(t)} /\ In(t) \subseteq Stored
<1> USE DEF WalletInv
<1>1. t # 0 /\ \A l : \A s, k, g, v : l = Leg(s, t, k, g, v) => l.tx = t
  BY DEF Txs, Leg
<1>2. In(t) \subseteq Stored
  BY <1>1 DEF In, Stored, MoneyInv, EndsInv
<1>3. ASSUME NEW s \in Swaps
      PROVE  {l \in OnchainLegs(s) : l.tx = t} = IF s \in In(t) THEN {OneLeg(t)[s]} ELSE {}
  <2> DEFINE d == swaps[s]
             c == Leg(s, d.spending, "claim", lockup[s], ClaimVbytes)
             f == Leg(s, d.funding, "funding", -d.onchain, FundingVbytes)
             r == Leg(s, d.spending, "refund", lockup[s], ClaimVbytes)
  <2>1. c.tx = d.spending /\ f.tx = d.funding /\ r.tx = d.spending
    BY DEF Leg
  <2>2. OnchainLegs(s) = {l \in IF d.rev THEN {c} ELSE {f} \cup (IF d.preimage THEN {} ELSE {r})
                            : l.tx \in ours}
    BY DEF OnchainLegs
  <2>3. d.rev \in BOOLEAN /\ d.preimage \in BOOLEAN
    BY DEF RoleInv, SwapData
  <2>4. d.spending # 0 => d.spending # d.funding
    BY DEF MoneyInv, EndsInv
  <2>5. OneLeg(t)[s] = IF d.spending = t THEN IF d.rev THEN c ELSE r ELSE Leg(s, t, "funding", -d.onchain, FundingVbytes)
    BY DEF OneLeg
  <2>6. s \in In(t) <=> d.spending = t \/ d.funding = t
    BY DEF In
  <2>7. d.rev => d.funding # t
    BY <1>1 DEF MoneyInv, EndsInv
  <2>8. ~d.rev /\ d.preimage => d.spending # t
    BY DEF NamedInv, Taken
  <2> HIDE DEF c, r
  <2>9. CASE d.rev
    BY <1>1, <2>1, <2>2, <2>5, <2>6, <2>7, <2>9
  <2>10. CASE ~d.rev
    <3>1. d.funding = t => OneLeg(t)[s] = f
      BY <1>1, <2>4, <2>5
    <3> HIDE DEF f
    <3>2. QED
      BY <1>1, <2>1, <2>2, <2>3, <2>4, <2>5, <2>6, <2>8, <2>10, <3>1
  <2>11. QED
    BY <2>3, <2>9, <2>10
<1>4. LegsOf(t) = UNION {{l \in OnchainLegs(s) : l.tx = t} : s \in Stored}
  BY DEF LegsOf
<1>5. QED
  BY <1>2, <1>3, <1>4 DEF Stored

\* They are finitely many, of different swaps, and of whole amounts.
LEMMA LegsFine ==
  ASSUME WalletInv, NamedInv, MoneyInv, NEW t \in ours
  PROVE  /\ IsFiniteSet(LegsOf(t)) /\ LegsOf(t) # {} /\ fee[t] \in Nat
         /\ \A l \in LegsOf(t) : /\ l.vbytes \in Nat /\ l.swap \in Int /\ l.gross \in Int
                                 /\ l.tx = t
         /\ \A l, k \in LegsOf(t) : l.swap = k.swap => l = k
         /\ SumOver([l \in LegsOf(t) |-> l.gross], LegsOf(t)) = SumOver(Gross(t), In(t))
<1> DEFINE m == OneLeg(t)
           L == LegsOf(t)
           f == [l \in L |-> l.gross]
<1>1. L = {m[s] : s \in In(t)} /\ In(t) \subseteq Swaps /\ IsFiniteSet(In(t)) /\ In(t) # {}
  BY LegsOne, InFinite DEF MoneyInv, Whole
<1>2. ASSUME NEW s \in In(t)
      PROVE  /\ m[s].swap = s /\ m[s].tx = t /\ m[s].gross = Gross(t)[s] /\ m[s].vbytes \in Nat
             /\ m[s].gross \in Int /\ s \in Int
  <2>1. s \in Swaps /\ s \in Int /\ lockup[s] \in Int /\ swaps[s].onchain \in Int
    BY <1>1 DEF Swaps, MoneyInv, WalletInv, RoleInv, SwapData
  <2>2. QED
    BY <2>1, AmountAssumption DEF OneLeg, Leg, Gross
<1> HIDE DEF m, L
<1>3. \A s \in In(t) : f[m[s]] \in Int /\ Gross(t)[s] = f[m[s]]
  BY <1>1, <1>2
<1>4. \A x, y \in In(t) : m[x] = m[y] => x = y
  BY <1>2
<1> HIDE DEF f
<1>5. IsFiniteSet(L) /\ SumOver(f, L) = SumOver(Gross(t), In(t))
  BY <1>1, <1>3, <1>4, SumImage
<1>6. fee[t] \in Nat
  BY DEF MoneyInv, WalletInv
<1>7. QED
  BY <1>1, <1>2, <1>5, <1>6 DEF L, f

\* The net legs of a transaction add up to what the wallet gained by it.
LEMMA NetLegs ==
  ASSUME WalletInv, NamedInv, MoneyInv, NEW t \in ours
  PROVE  /\ \A l \in LegsOf(t) : Net(l) \in Int /\ SplitFee(LegsOf(t), fee[t])[l] \in 0 .. fee[t]
         /\ SumOver([l \in LegsOf(t) |-> Net(l)], LegsOf(t)) = delta[t]
<1> DEFINE L == LegsOf(t)
           gr == [l \in L |-> l.gross]
           sh == SplitFee(L, fee[t])
           nt == [l \in L |-> Net(l)]
<1>1. /\ IsFiniteSet(L) /\ L # {} /\ fee[t] \in Nat
      /\ \A l \in L : l.vbytes \in Nat /\ l.swap \in Int /\ l.gross \in Int /\ l.tx = t
      /\ \A l, k \in L : l.swap = k.swap => l = k
      /\ SumOver(gr, L) = SumOver(Gross(t), In(t))
  BY LegsFine
<1>2. SumOver(sh, L) = fee[t] /\ \A l \in L : sh[l] \in 0 .. fee[t]
  <2> HIDE DEF L
  <2>1. QED
    BY <1>1, SplitWhole
<1>3. ASSUME NEW l \in L
      PROVE  nt[l] = gr[l] - sh[l] /\ gr[l] \in Int /\ sh[l] \in Int /\ nt[l] = Net(l)
  <2>1. Net(l) = l.gross - SplitFee(LegsOf(t), fee[t])[l]
    BY <1>1 DEF Net
  <2>2. sh[l] \in Int
    BY <1>1, <1>2
  <2>3. QED
    BY <1>1, <2>1, <2>2
<1> HIDE DEF L, gr, sh, nt
<1>4. SumOver(gr, L) = SumOver(nt, L) + SumOver(sh, L)
  <2>1. \A l \in L : nt[l] \in Int /\ sh[l] \in Int /\ gr[l] = nt[l] + sh[l]
    BY <1>3
  <2>2. QED
    BY <1>1, <2>1, SumPlus
<1>5. delta[t] = SumOver(Gross(t), In(t)) - fee[t]
  BY DEF MoneyInv, Whole
<1>6. SumOver(nt, L) \in Int /\ \A l \in L : Net(l) \in Int
  BY <1>1, <1>3, SumWhole
<1>7. SumOver(nt, L) = delta[t]
  <2>1. SumOver(gr, L) = SumOver(Gross(t), In(t)) /\ SumOver(sh, L) = fee[t] /\ fee[t] \in Nat
    BY <1>1, <1>2
  <2>2. QED
    BY <1>4, <1>5, <1>6, <2>1
<1>8. QED
  BY <1>2, <1>6, <1>7 DEF L, sh, nt

\* What the wallet gained by a transaction of ours is in its rows.
LEMMA BatchEnough ==
  ASSUME WalletInv, NamedInv, MoneyInv
  PROVE  BatchReconciles
<1>1. ASSUME NEW t \in ours PROVE MapThenSumSet(Net, LegsOf(t)) = delta[t]
  BY NetLegs, NetSum, Zenon
<1>2. QED
  BY <1>1, Zenon DEF BatchReconciles

\* The rows of a batch reconcile with the wallet to the satoshi, for any number of
\* swaps in it and whatever its fee (BatchReconciles): split_fee loses nothing.
THEOREM BatchExact == Spec => []BatchReconciles
<1>1. WalletInv /\ NamedInv /\ MoneyInv => BatchReconciles
  BY BatchEnough
<1>2. WalletInv /\ [Next]_vars => WalletInv'
  BY WalletKept
<1>3. WalletInv /\ NamedInv /\ [Next]_vars => NamedInv'
  BY NamedKept
<1>4. WalletInv /\ NamedInv /\ MoneyInv /\ [Next]_vars => MoneyInv'
  BY MoneyKept
<1>5. QED
  BY <1>1, <1>2, <1>3, <1>4, WalletInit, NamedInit, MoneyInit, PTL DEF Spec

\* Every variable has its type, and no leg pays a negative share of a fee, nor more than
\* the whole of it (TypeOK).
THEOREM Typed == Spec => []TypeOK
<1>1. WalletInv /\ NamedInv /\ MoneyInv => TypeOK
  <2> SUFFICES ASSUME WalletInv, NamedInv, MoneyInv PROVE TypeOK
    OBVIOUS
  <2>1. lnMade \subseteq Swaps \X Parts
    BY DEF NamedInv, Stored
  <2>2. ASSUME NEW t \in Txs, NEW l \in LegsOf(t) PROVE SplitFee(LegsOf(t), fee[t])[l] \in 0 .. fee[t]
    <3>1. t \in ours
      BY DEF LegsOf, OnchainLegs
    <3>2. QED
      BY <3>1, NetLegs
  <2>3. QED
    BY <2>1, <2>2 DEF TypeOK, WalletInv, RoleInv, SettledInv, MoneyInv
<1>2. WalletInv /\ [Next]_vars => WalletInv'
  BY WalletKept
<1>3. WalletInv /\ NamedInv /\ [Next]_vars => NamedInv'
  BY NamedKept
<1>4. WalletInv /\ NamedInv /\ MoneyInv /\ [Next]_vars => MoneyInv'
  BY MoneyKept
<1>5. QED
  BY <1>1, <1>2, <1>3, <1>4, WalletInit, NamedInit, MoneyInit, PTL DEF Spec

-----------------------------------------------------------------------------
(* A return is never revised.                                              *)

\* What a swap returned, as sums of integers.
LnWorth(s) == [p \in LnLegs(s) |-> LnValue(s, p)]
NetWorth(s) == [l \in OnchainLegs(s) |-> Net(l)]

LEMMA LnSum ==
  ASSUME NEW s
  PROVE  MapThenSumSet(LAMBDA p : LnValue(s, p), LnLegs(s)) = SumOver(LnWorth(s), LnLegs(s))
<1> DEFINE L == LnLegs(s)
           f == LnWorth(s)
           fold(g) == [T \in SUBSET L |-> IF T = {} THEN 0
                                          ELSE LnValue(s, First(T)) + g[T \ {First(T)}]]
<1>1. MapThenSumSet(LAMBDA p : LnValue(s, p), L) = (CHOOSE g : g = fold(g))[L]
  BY Zenon DEF MapThenSumSet, MapThenFoldSet, First
<1>2. \A x \in L : f[x] = LnValue(s, x)
  BY DEF LnWorth
<1> HIDE DEF L, f
<1>3. ASSUME NEW g PROVE g = fold(g) <=> Adds(g, f, L)
  <2>1. ASSUME NEW T \in SUBSET L, T # {} PROVE f[First(T)] = LnValue(s, First(T))
    <3>1. First(T) \in L
      BY <2>1 DEF First
    <3>2. QED
      BY <1>2, <3>1
  <2>2. QED
    BY <2>1 DEF Adds
<1> HIDE DEF fold
<1>4. (CHOOSE g : g = fold(g)) = (CHOOSE g : Adds(g, f, L))
  BY <1>3, Zenon
<1>5. QED
  BY <1>1, <1>4, SumFolds, Zenon DEF f, L

LEMMA ValueSum ==
  TRUE => \A s : Value(s) = SumOver(LnWorth(s), LnLegs(s)) + SumOver(NetWorth(s), OnchainLegs(s))
<1>1. ASSUME NEW s
      PROVE  Value(s) = SumOver(LnWorth(s), LnLegs(s)) + SumOver(NetWorth(s), OnchainLegs(s))
  <2>1. MapThenSumSet(Net, OnchainLegs(s)) = SumOver(NetWorth(s), OnchainLegs(s))
    BY NetSum, Zenon DEF NetWorth
  <2>2. QED
    BY <2>1, LnSum, Zenon DEF Value
<1>2. QED
  BY <1>1

\* And after a step.
LEMMA ValueSumNext ==
  TRUE => (\A s : Value(s) = SumOver(LnWorth(s), LnLegs(s)) + SumOver(NetWorth(s), OnchainLegs(s)))'
BY ValueSum, PTL

\* A finished swap stays what it is, and so does a confirmed transaction: it neither
\* enters the wallet's history nor leaves it.
Fixed(s) ==
  /\ swaps'[s].rev = swaps[s].rev /\ swaps'[s].prepay = swaps[s].prepay
  /\ swaps'[s].onchain = swaps[s].onchain /\ lockup'[s] = lockup[s]
  /\ swaps'[s].funding = swaps[s].funding /\ swaps'[s].spending = swaps[s].spending
  /\ ~swaps[s].rev => swaps'[s].preimage = swaps[s].preimage
HistoryStays == \A t \in Txs : height[t] = "confirmed" => (t \in ours' <=> t \in ours)

\* No step changes either.
LEMMA FinalFixed ==
  ASSUME WalletInv, NamedInv, MoneyInv, [Next]_vars, NEW s \in Stored,
         swaps[s].spending # 0, height[swaps[s].spending] = "confirmed"
  PROVE  Fixed(s) /\ HistoryStays
<1> USE DEF WalletInv
<1>1. s \in Swaps /\ truth[s] # "none" /\ swaps[s].funding # 0
  BY DEF Stored, SettledInv, Settled, Txs
<1>2. CASE UNCHANGED vars
  BY <1>2 DEF vars, Fixed, HistoryStays
<1>3. CASE Create
  <2>1. PICK x \in Swaps : truth[x] = "none" /\ \E d : swaps' = [swaps EXCEPT ![x] = d]
    BY <1>3 DEF Create, CreateServed, CreateOwn
  <2>2. swaps'[s] = swaps[s]
    BY <1>1, <2>1
  <2>3. QED
    BY <1>3, <2>2 DEF Create, CreateServed, CreateOwn, create, Fixed, HistoryStays
<1>4. CASE Payment
  <2>1. UNCHANGED <<lockup, ours>>
    BY <1>4 DEF Payment, PayPrepay, PayMain, PaymentForgotten
  <2>2. swaps' = swaps \/ \E x \in Swaps : /\ swaps' = [swaps EXCEPT ![x].preimage = TRUE]
                                           /\ swaps[x].rev \/ swaps[x].preimage
    BY <1>4 DEF Payment, PayPrepay, PayMain, PaymentForgotten
  <2>3. swaps[s].preimage \in BOOLEAN /\ swaps[s] \in SwapData
    BY <1>1 DEF RoleInv, SwapData
  <2>4. CASE swaps' = swaps
    BY <2>1, <2>4 DEF Fixed, HistoryStays
  <2>5. ASSUME NEW x \in Swaps, swaps' = [swaps EXCEPT ![x].preimage = TRUE],
               swaps[x].rev \/ swaps[x].preimage
        PROVE  Fixed(s) /\ HistoryStays
    BY <1>1, <2>1, <2>3, <2>5 DEF Fixed, HistoryStays, RoleInv, SwapData
  <2>6. QED
    BY <2>2, <2>4, <2>5
<1>5. ASSUME NEW u \in Txs, NEW x \in Swaps, NEW over, TheyFund(x, u, over)
      PROVE  Fixed(s) /\ HistoryStays
  <2>1. x # s /\ swaps' = [swaps EXCEPT ![x].funding = u] /\ ours' = ours
        /\ \E v : lockup' = [lockup EXCEPT ![x] = v]
    BY <1>1, <1>5 DEF TheyFund
  <2>2. swaps'[s] = swaps[s] /\ lockup'[s] = lockup[s]
    BY <1>1, <2>1 DEF RoleInv, MoneyInv
  <2>3. QED
    BY <2>1, <2>2 DEF Fixed, HistoryStays
<1>6. ASSUME NEW u \in Txs, NEW spent \in SUBSET Stored, NEW funded \in SUBSET Stored, NEW sat,
             MakeTx(u, spent, funded, sat)
      PROVE  Fixed(s) /\ HistoryStays
  <2>1. s \notin spent /\ s \notin funded /\ height[u] = "none" /\ ours' = ours \cup {u}
        /\ lockup' = [x \in Swaps |-> IF x \in funded THEN swaps[x].onchain ELSE lockup[x]]
        /\ swaps' = [x \in Swaps |->
             [swaps[x] EXCEPT !.spending = IF x \in spent THEN u ELSE @,
                              !.funding  = IF x \in funded THEN u ELSE @]]
    BY <1>1, <1>6 DEF MakeTx, Claimable, Refundable, Unspent, Fundable, NextTx
  <2>2. lockup'[s] = lockup[s] /\ HistoryStays
    BY <1>1, <2>1 DEF HistoryStays
  <2>3. /\ swaps'[s].rev = swaps[s].rev /\ swaps'[s].prepay = swaps[s].prepay
        /\ swaps'[s].onchain = swaps[s].onchain /\ swaps'[s].preimage = swaps[s].preimage
        /\ swaps'[s].funding = swaps[s].funding /\ swaps'[s].spending = swaps[s].spending
    BY <1>1, <2>1 DEF RoleInv, SwapData
  <2>4. QED
    BY <2>2, <2>3 DEF Fixed
<1>7. ASSUME NEW u \in Txs, NEW x \in Swaps, TheySpend(x, u)
      PROVE  Fixed(s) /\ HistoryStays
  <2> DEFINE lost == {swaps[x].spending} \ {0}
  <2>1. /\ x # s /\ \A t \in lost : height[t] # "confirmed"
        /\ lockup' = lockup /\ ours' = ours \ lost
        /\ swaps' = [swaps EXCEPT ![x].spending = u, ![x].preimage = @ \/ ~swaps[x].rev]
    BY <1>7 DEF TheySpend, Unspent, Replaceable
  <2> HIDE DEF lost
  <2>2. swaps'[s] = swaps[s]
    BY <1>1, <2>1 DEF RoleInv
  <2>3. QED
    BY <2>1, <2>2 DEF Fixed, HistoryStays
<1>8. ASSUME NEW u \in Txs, Broadcast(u) \/ Confirm(u) PROVE Fixed(s) /\ HistoryStays
  BY <1>8 DEF Broadcast, Confirm, Fixed, HistoryStays
<1>9. QED
  BY <1>2, <1>3, <1>4, <1>5, <1>6, <1>7, <1>8 DEF Next, Transaction

\* The legs of the next state.
LEMMA LegsOneNext ==
  TRUE => (WalletInv /\ NamedInv /\ MoneyInv =>
             \A t \in ours : LegsOf(t) = {OneLeg(t)[s] : s \in In(t)})'
<1>1. TRUE => (WalletInv /\ NamedInv /\ MoneyInv =>
                 \A t \in ours : LegsOf(t) = {OneLeg(t)[s] : s \in In(t)})
  BY LegsOne
<1>2. QED
  BY <1>1, PTL

\* A finished swap has the legs it had, and each of them the net it had, whatever other
\* swaps share its transactions.
LEMMA LegsStay ==
  ASSUME WalletInv, NamedInv, MoneyInv, WalletInv', NamedInv', MoneyInv', Steady,
         NEW s \in Stored, Fixed(s), HistoryStays,
         swaps[s].spending # 0, height[swaps[s].spending] = "confirmed"
  PROVE  OnchainLegs(s)' = OnchainLegs(s) /\ \A l \in OnchainLegs(s) : Net(l)' = Net(l)
<1>1. /\ swaps[s].spending \in Txs /\ height[swaps[s].funding] = "confirmed"
      /\ swaps[s].funding \in Txs /\ s \in Swaps /\ swaps[s].rev \in BOOLEAN
  BY BoundAssumption DEF WalletInv, SettledInv, Settled, RoleInv, SwapData, Txs, Stored
<1>2. OnchainLegs(s)' = OnchainLegs(s)
  <2> DEFINE made(d, l) ==
               IF d.rev THEN {Leg(s, d.spending, "claim", l, ClaimVbytes)}
               ELSE {Leg(s, d.funding, "funding", -d.onchain, FundingVbytes)}
                    \cup (IF d.preimage THEN {} ELSE {Leg(s, d.spending, "refund", l, ClaimVbytes)})
  <2>1. OnchainLegs(s) = {l \in made(swaps[s], lockup[s]) : l.tx \in ours}
    BY DEF OnchainLegs
  <2>2. OnchainLegs(s)' = {l \in made(swaps'[s], lockup'[s]) : l.tx \in ours'}
    BY DEF OnchainLegs
  <2>3. made(swaps'[s], lockup'[s]) = made(swaps[s], lockup[s])
    BY <1>1 DEF Fixed
  <2>4. \A l \in made(swaps[s], lockup[s]) : l.tx \in {swaps[s].spending, swaps[s].funding}
    BY DEF Leg
  <2> HIDE DEF made
  <2>5. QED
    BY <1>1, <2>1, <2>2, <2>3, <2>4 DEF HistoryStays
<1>3. \A l \in OnchainLegs(s) : l.tx \in ours \cap ours'
  <2>1. \A l \in OnchainLegs(s) : l.tx \in ours
    BY DEF OnchainLegs
  <2>2. \A l \in OnchainLegs(s)' : l.tx \in ours'
    BY DEF OnchainLegs
  <2>3. QED
    BY <1>2, <2>1, <2>2
<1>4. ASSUME NEW t \in ours \cap ours' PROVE LegsOf(t)' = LegsOf(t) /\ fee'[t] = fee[t]
  <2>1. \A x \in Swaps : Same(x, t)
    BY DEF Steady
  <2>2. In(t)' = In(t)
    BY <2>1 DEF In, Same
  <2>3. \A x \in In(t) : x \in Swaps /\ OneLeg(t)'[x] = OneLeg(t)[x]
    BY <2>1 DEF In, OneLeg, Same
  <2>4. LegsOf(t) = {OneLeg(t)[x] : x \in In(t)}
    BY LegsOne
  <2>5. LegsOf(t)' = {OneLeg(t)'[x] : x \in In(t)'}
    BY LegsOneNext
  <2>6. QED
    BY <2>2, <2>3, <2>4, <2>5 DEF Steady
<1>5. ASSUME NEW l \in OnchainLegs(s) PROVE Net(l)' = Net(l)
  BY <1>3, <1>4 DEF Net
<1>6. QED
  BY <1>2, <1>5

\* So it returns what it returned.
LEMMA ValueStays ==
  ASSUME WalletInv, NamedInv, MoneyInv, [Next]_vars, NEW s \in Swaps, Counts(s), Counts(s)'
  PROVE  Value(s)' = Value(s)
<1>1. /\ s \in Stored /\ Missing(s) = {} /\ Missing(s)' = {}
      /\ swaps[s].spending # 0 /\ height[swaps[s].spending] = "confirmed"
  BY DEF Counts, Rows, Status
<1>2. Fixed(s) /\ HistoryStays
  BY <1>1, FinalFixed
<1>3. OnchainLegs(s)' = OnchainLegs(s) /\ \A l \in OnchainLegs(s) : Net(l)' = Net(l)
  <2>1. WalletInv' /\ NamedInv' /\ MoneyInv' /\ Steady
    BY WalletKept, NamedKept, MoneyKept
  <2>2. QED
    BY <1>1, <1>2, <2>1, LegsStay
<1>4. LnLegs(s) = LnParts(s) /\ LnLegs(s)' = LnParts(s)'
  BY <1>1 DEF Missing, LnLegs
<1>5. LnLegs(s)' = LnLegs(s)
  BY <1>2, <1>4 DEF LnParts, Fixed
<1>6. \A p : LnValue(s, p)' = LnValue(s, p)
  BY <1>2 DEF LnValue, Fixed
<1>7. LnWorth(s)' = LnWorth(s)
  BY <1>5, <1>6 DEF LnWorth
<1>8. NetWorth(s)' = NetWorth(s)
  BY <1>3 DEF NetWorth
<1>9. Value(s)' = SumOver(LnWorth(s)', LnLegs(s)') + SumOver(NetWorth(s)', OnchainLegs(s)')
  BY ValueSumNext
<1>10. Value(s) = SumOver(LnWorth(s), LnLegs(s)) + SumOver(NetWorth(s), OnchainLegs(s))
  BY ValueSum
<1>11. QED
  BY <1>3, <1>5, <1>7, <1>8, <1>9, <1>10

\* A return that was reported stays that return for as long as it is reported, whatever
\* other swaps are made, settled or dropped (ReturnNeverRevised).
THEOREM NeverRevised == Spec => ReturnNeverRevised
<1>1. WalletInv /\ NamedInv /\ MoneyInv /\ [Next]_vars
        => [\A s \in Swaps : Counts(s) /\ Counts(s)' => Value(s)' = Value(s)]_vars
  BY ValueStays
<1>2. WalletInv /\ [Next]_vars => WalletInv'
  BY WalletKept
<1>3. WalletInv /\ NamedInv /\ [Next]_vars => NamedInv'
  BY NamedKept
<1>4. WalletInv /\ NamedInv /\ MoneyInv /\ [Next]_vars => MoneyInv'
  BY MoneyKept
<1>5. QED
  BY <1>1, <1>2, <1>3, <1>4, WalletInit, NamedInit, MoneyInit, PTL DEF Spec, ReturnNeverRevised

-----------------------------------------------------------------------------
(* The returns add up.                                                     *)

\* A sum over sets that have nothing in common, set by set.
LEMMA SumParts ==
  ASSUME NEW S, IsFiniteSet(S), NEW K, \A s \in S : IsFiniteSet(K[s]),
         \A s, r \in S : s # r => K[s] \cap K[r] = {},
         NEW f, \A s \in S : \A x \in K[s] : f[x] \in Int,
         NEW F, \A s \in S : F[s] = SumOver(f, K[s]), NEW W, W = UNION {K[s] : s \in S}
  PROVE  IsFiniteSet(W) /\ SumOver(f, W) = SumOver(F, S)
<1> DEFINE U(T) == UNION {K[s] : s \in T}
           Good == {T \in SUBSET S : IsFiniteSet(U(T)) /\ SumOver(f, U(T)) = SumOver(F, T)}
<1>1. \A T \in SUBSET S : IsFiniteSet(T)
  BY FS_Subset
<1>2. \A s \in S : F[s] \in Int
  BY SumWhole
<1>3. {} \in Good
  <2>1. U({}) = {}
    OBVIOUS
  <2>2. QED
    BY <2>1, SumEmpty, FS_EmptySet
<1>4. ASSUME NEW T \in SUBSET S, T # {}, \A x \in T : T \ {x} \in Good PROVE T \in Good
  <2>1. PICK c \in T : TRUE
    BY <1>4
  <2>2. U(T) = K[c] \cup U(T \ {c}) /\ K[c] \cap U(T \ {c}) = {}
    OBVIOUS
  <2>3. IsFiniteSet(U(T \ {c})) /\ SumOver(f, U(T \ {c})) = SumOver(F, T \ {c})
    BY <1>4
  <2>4. \A x \in K[c] \cup U(T \ {c}) : f[x] \in Int
    OBVIOUS
  <2> HIDE DEF U
  <2>5. IsFiniteSet(U(T)) /\ SumOver(f, U(T)) = SumOver(f, K[c]) + SumOver(f, U(T \ {c}))
    <3> DEFINE R == U(T \ {c})
    <3>1. IsFiniteSet(K[c]) /\ IsFiniteSet(R) /\ K[c] \cap R = {}
      BY <2>2, <2>3
    <3>2. \A x \in K[c] \cup R : f[x] \in Int
      BY <2>4
    <3> HIDE DEF R
    <3>3. IsFiniteSet(K[c] \cup R)
      BY <3>1, FS_Union
    <3>4. SumOver(f, K[c] \cup R) = SumOver(f, K[c]) + SumOver(f, R)
      BY <3>1, <3>2, SumJoin
    <3>5. QED
      BY <2>2, <3>3, <3>4 DEF R
  <2>6. SumOver(F, T) = F[c] + SumOver(F, T \ {c})
    BY <1>1, <1>2, SumOut
  <2>7. QED
    BY <2>3, <2>5, <2>6
<1> HIDE DEF Good
<1>5. S \in Good
  BY <1>3, <1>4, SetInduction
<1>6. QED
  BY <1>5 DEF Good

\* The sums of ReturnsAddUp, as sums of integers.
LEMMA ReturnSum ==
  ASSUME NEW L
  PROVE  MapThenSumSet(Value, L) = SumOver([s \in L |-> Value(s)], L)
<1> DEFINE f == [s \in L |-> Value(s)]
           fold(g) == [T \in SUBSET L |-> IF T = {} THEN 0 ELSE Value(First(T)) + g[T \ {First(T)}]]
<1>1. MapThenSumSet(Value, L) = (CHOOSE g : g = fold(g))[L]
  BY Zenon DEF MapThenSumSet, MapThenFoldSet, First
<1>2. ASSUME NEW g PROVE g = fold(g) <=> Adds(g, f, L)
  <2>1. ASSUME NEW T \in SUBSET L, T # {} PROVE f[First(T)] = Value(First(T))
    <3>1. First(T) \in L
      BY <2>1 DEF First
    <3>2. QED
      BY <3>1
  <2> HIDE DEF f
  <2>2. QED
    BY <2>1 DEF Adds
<1> HIDE DEF fold, f
<1>3. (CHOOSE g : g = fold(g)) = (CHOOSE g : Adds(g, f, L))
  BY <1>2, Zenon
<1>4. QED
  BY <1>1, <1>3, SumFolds, Zenon DEF f

\* What the payments made brought.
PaidWorth == [e \in lnMade |-> LnValue(e[1], e[2])]
LEMMA PaidSum ==
  MapThenSumSet(LAMBDA e : LnValue(e[1], e[2]), lnMade) = SumOver(PaidWorth, lnMade)
<1> DEFINE fold(g) == [T \in SUBSET lnMade |->
             IF T = {} THEN 0 ELSE LnValue(First(T)[1], First(T)[2]) + g[T \ {First(T)}]]
<1>1. MapThenSumSet(LAMBDA e : LnValue(e[1], e[2]), lnMade) = (CHOOSE g : g = fold(g))[lnMade]
  BY Zenon DEF MapThenSumSet, MapThenFoldSet, First
<1>2. ASSUME NEW g PROVE g = fold(g) <=> Adds(g, PaidWorth, lnMade)
  <2>1. ASSUME NEW T \in SUBSET lnMade, T # {}
        PROVE  PaidWorth[First(T)] = LnValue(First(T)[1], First(T)[2])
    <3>1. First(T) \in lnMade
      BY <2>1 DEF First
    <3>2. QED
      BY <3>1 DEF PaidWorth
  <2>2. QED
    BY <2>1 DEF Adds
<1> HIDE DEF fold
<1>3. (CHOOSE g : g = fold(g)) = (CHOOSE g : Adds(g, PaidWorth, lnMade))
  BY <1>2, Zenon
<1>4. QED
  BY <1>1, <1>3, SumFolds, Zenon

\* What the payments brought: those of every swap, when none of them is missing.
LEMMA PaidParts ==
  ASSUME WalletInv, NamedInv, \A s \in Stored : LnLegs(s) = LnParts(s), IsFiniteSet(Stored)
  PROVE  /\ \A s \in Stored : SumOver(LnWorth(s), LnLegs(s)) \in Int
         /\ SumOver(PaidWorth, lnMade) = SumOver([s \in Stored |-> SumOver(LnWorth(s), LnLegs(s))], Stored)
<1> USE DEF WalletInv
<1> DEFINE F == [s \in Stored |-> SumOver(LnWorth(s), LnLegs(s))]
           K == [s \in Stored |-> {<<s, p>> : p \in LnLegs(s)}]
<1>1. ASSUME NEW s \in Stored, NEW p \in LnLegs(s)
      PROVE  LnValue(s, p) \in Int /\ <<s, p>> \in lnMade
  <2>1. swaps[s].rev \in BOOLEAN /\ swaps[s].prepay \in BOOLEAN /\ p \in Parts /\ <<s, p>> \in lnMade
    BY DEF Stored, RoleInv, SwapData, LnLegs, LnParts, Parts, SettledInv
  <2>2. QED
    BY <2>1, AmountAssumption DEF LnValue, Parts
<1>2. ASSUME NEW s \in Stored
      PROVE  /\ IsFiniteSet(K[s]) /\ SumOver(PaidWorth, K[s]) = F[s] /\ F[s] \in Int
             /\ \A x \in K[s] : PaidWorth[x] \in Int
  <2> DEFINE m == [p \in LnLegs(s) |-> <<s, p>>]
             h == LnWorth(s)
  <2>1. IsFiniteSet(LnLegs(s))
    <3>1. IsFiniteSet(Parts)
      <4>1. IsFiniteSet({"main"})
        BY FS_Singleton
      <4>2. Parts = {"main"} \cup {"prepay"}
        BY DEF Parts
      <4>3. QED
        BY <4>1, <4>2, FS_AddElement
    <3>2. LnLegs(s) \in SUBSET Parts
      BY DEF LnLegs, LnParts, Parts
    <3>3. QED
      BY <3>1, <3>2, FS_Subset
  <2>2. ASSUME NEW p \in LnLegs(s) PROVE m[p] = <<s, p>> /\ PaidWorth[m[p]] \in Int /\ h[p] = PaidWorth[m[p]]
    <3>1. PaidWorth[<<s, p>>] = LnValue(s, p)
      BY <1>1 DEF PaidWorth
    <3>2. h[p] = LnValue(s, p)
      BY DEF LnWorth
    <3>3. QED
      BY <1>1, <3>1, <3>2
  <2>3. K[s] = {m[p] : p \in LnLegs(s)}
    OBVIOUS
  <2>4. \A p, q \in LnLegs(s) : m[p] = m[q] => p = q
    OBVIOUS
  <2>5. F[s] = SumOver(h, LnLegs(s))
    OBVIOUS
  <2> HIDE DEF m, h, K, F
  <2>6. IsFiniteSet(K[s]) /\ SumOver(PaidWorth, K[s]) = SumOver(h, LnLegs(s))
    BY <2>1, <2>2, <2>3, <2>4, SumImage
  <2>7. SumOver(h, LnLegs(s)) \in Int
    BY <2>1, <2>2, SumWhole
  <2>8. QED
    BY <2>2, <2>3, <2>5, <2>6, <2>7
<1>3. \A s, r \in Stored : s # r => K[s] \cap K[r] = {}
  OBVIOUS
<1>4. UNION {K[s] : s \in Stored} = lnMade
  <2>1. \A s \in Stored : K[s] \subseteq lnMade
    BY <1>1
  <2>2. ASSUME NEW e \in lnMade PROVE \E s \in Stored : e \in K[s]
    <3>1. PICK s \in Stored, p \in Parts : e = <<s, p>> /\ (p = "prepay" => swaps[s].prepay)
      BY DEF NamedInv
    <3>2. p \in LnLegs(s)
      BY <3>1 DEF LnParts, Parts
    <3>3. QED
      BY <3>1, <3>2
  <2> HIDE DEF K
  <2>3. QED
    BY <2>1, <2>2
<1>5. \A s \in Stored : F[s] = SumOver(LnWorth(s), LnLegs(s))
  OBVIOUS
<1> HIDE DEF K
<1>6. SumOver(PaidWorth, lnMade) = SumOver(F, Stored)
  <2> HIDE DEF F
  <2>1. QED
    BY <1>2, <1>3, <1>4, SumParts
<1>7. QED
  BY <1>2, <1>5, <1>6

\* What the transactions brought: the net legs of every swap.
LEMMA NetParts ==
  ASSUME WalletInv, NamedInv, MoneyInv, IsFiniteSet(Stored)
  PROVE  /\ \A s \in Stored : SumOver(NetWorth(s), OnchainLegs(s)) \in Int
         /\ SumOver(delta, ours) = SumOver([s \in Stored |-> SumOver(NetWorth(s), OnchainLegs(s))], Stored)
<1> DEFINE M == UNION {OnchainLegs(s) : s \in Stored}
           N == [l \in M |-> Net(l)]
           F == [s \in Stored |-> SumOver(NetWorth(s), OnchainLegs(s))]
           A == [s \in Stored |-> OnchainLegs(s)]
           B == [t \in ours |-> LegsOf(t)]
<1>1. \A s : \A l \in OnchainLegs(s) : l.swap = s /\ l.tx \in ours
  BY DEF OnchainLegs, Leg
<1>2. ASSUME NEW t \in ours
      PROVE  /\ IsFiniteSet(B[t]) /\ B[t] = {l \in M : l.tx = t} /\ \A l \in B[t] : N[l] \in Int
             /\ delta[t] = SumOver(N, B[t])
  <2>1. IsFiniteSet(LegsOf(t)) /\ LegsOf(t) = {l \in M : l.tx = t}
    BY LegsFine DEF LegsOf
  <2>2. \A l \in LegsOf(t) : Net(l) \in Int
    BY NetLegs
  <2>3. SumOver([l \in LegsOf(t) |-> Net(l)], LegsOf(t)) = delta[t]
    BY NetLegs
  <2> DEFINE h == [l \in LegsOf(t) |-> Net(l)]
  <2>4. \A l \in LegsOf(t) : h[l] = N[l] /\ N[l] = Net(l)
    BY <2>1
  <2> HIDE DEF N
  <2>5. SumOver(h, LegsOf(t)) = SumOver(N, LegsOf(t))
    <3> HIDE DEF h
    <3>1. QED
      BY <2>1, <2>4, SumSame
  <2>6. QED
    BY <2>1, <2>2, <2>3, <2>4, <2>5
<1>3. IsFiniteSet(ours)
  <2>1. IsFiniteSet(Txs)
    BY FS_Interval, BoundAssumption DEF Txs
  <2>2. QED
    BY <2>1, FS_Subset DEF WalletInv
<1>4. UNION {B[t] : t \in ours} = M
  <2>1. \A l \in M : l.tx \in ours
    BY <1>1
  <2>2. \A t \in ours : B[t] = {l \in M : l.tx = t}
    BY <1>2
  <2> HIDE DEF M, B
  <2>3. QED
    BY <2>1, <2>2
<1>5. IsFiniteSet(M) /\ SumOver(N, M) = SumOver(delta, ours)
  <2>1. \A t, u \in ours : t # u => B[t] \cap B[u] = {}
    BY <1>2
  <2>2. /\ \A t \in ours : IsFiniteSet(B[t]) /\ delta[t] = SumOver(N, B[t])
        /\ \A t \in ours : \A l \in B[t] : N[l] \in Int
    BY <1>2
  <2> HIDE DEF M, N, B
  <2>3. QED
    BY <1>3, <1>4, <2>1, <2>2, SumParts
<1>6. \A l \in M : N[l] \in Int /\ N[l] = Net(l)
  <2>1. \A l \in M : N[l] = Net(l)
    OBVIOUS
  <2> HIDE DEF M, N, B
  <2>2. QED
    BY <1>2, <1>4, <2>1
<1>7. ASSUME NEW s \in Stored
      PROVE  IsFiniteSet(A[s]) /\ A[s] \subseteq M /\ F[s] = SumOver(N, A[s]) /\ F[s] \in Int
  <2> DEFINE h == NetWorth(s)
  <2>1. OnchainLegs(s) \in SUBSET M
    OBVIOUS
  <2>2. IsFiniteSet(OnchainLegs(s))
    <3> HIDE DEF M
    <3>1. QED
      BY <1>5, <2>1, FS_Subset
  <2>3. \A l \in OnchainLegs(s) : h[l] = N[l] /\ N[l] \in Int
    <3> HIDE DEF M, N
    <3>1. QED
      BY <1>6, <2>1 DEF NetWorth
  <2> HIDE DEF h, N, M
  <2>4. SumOver(h, OnchainLegs(s)) = SumOver(N, OnchainLegs(s))
    BY <2>2, <2>3, SumSame
  <2>5. SumOver(N, OnchainLegs(s)) \in Int
    BY <2>2, <2>3, SumWhole
  <2>6. QED
    BY <2>1, <2>2, <2>4, <2>5 DEF h
<1>8. \A s, r \in Stored : s # r => A[s] \cap A[r] = {}
  BY <1>1
<1>9. UNION {A[s] : s \in Stored} = M
  OBVIOUS
<1>10. \A s \in Stored : F[s] = SumOver(NetWorth(s), OnchainLegs(s))
  OBVIOUS
<1>11. SumOver(N, M) = SumOver(F, Stored)
  <2> HIDE DEF M, N, A, F
  <2>1. \A s \in Stored : \A l \in A[s] : N[l] \in Int
    BY <1>6, <1>7
  <2>2. \A s \in Stored : IsFiniteSet(A[s]) /\ F[s] = SumOver(N, A[s])
    BY <1>7
  <2>3. QED
    BY <1>8, <1>9, <2>1, <2>2, SumParts
<1> HIDE DEF M, N, A, B
<1>12. QED
  BY <1>5, <1>7, <1>10, <1>11

\* The rows of both tables, and what they return: with every swap finished and nothing
\* missing, each swap is in one of them.
LEMMA AddUpEnough ==
  ASSUME WalletInv, NamedInv, MoneyInv
  PROVE  ReturnsAddUp
<1> DEFINE rest == {s \in Rows(TRUE, FALSE) : ~Counts(s)}
           final == {s \in Rows(FALSE, FALSE) : Status(s) = "final"}
           net == {s \in final : Missing(s) = {} /\ Role(s) = "served"}
           ln(s) == SumOver(LnWorth(s), LnLegs(s))
           on(s) == SumOver(NetWorth(s), OnchainLegs(s))
           V == [s \in Stored |-> Value(s)]
           P == [s \in Stored |-> ln(s)]
           Q == [s \in Stored |-> on(s)]
<1> SUFFICES ASSUME \A s \in Stored : Status(s) = "final" /\ Missing(s) = {}
             PROVE  MapThenSumSet(Value, net) + MapThenSumSet(Value, rest) = Balance
  BY Zenon DEF ReturnsAddUp, Summary
<1>1. IsFiniteSet(Stored)
  <2>1. IsFiniteSet(Swaps)
    BY FS_Interval, BoundAssumption DEF Swaps
  <2>2. QED
    BY <2>1, FS_Subset DEF Stored
<1>2. \A s \in Stored : LnLegs(s) = LnParts(s)
  BY DEF Missing, LnLegs
<1>3. net \cup rest = Stored /\ net \cap rest = {}
  <2>1. ASSUME NEW s \in Stored PROVE s \in Rows(TRUE, TRUE) /\ s \in Rows(TRUE, FALSE)
    <3>1. LnLegs(s) # {}
      BY <1>2 DEF LnParts, Parts
    <3>2. QED
      BY <3>1 DEF Rows, Dated
  <2>2. ASSUME NEW s \in Stored PROVE Counts(s) <=> Role(s) = "served"
    BY <2>1 DEF Counts
  <2>3. ASSUME NEW s \in Stored PROVE s \in net <=> Role(s) = "served"
    BY <2>1 DEF Rows
  <2>4. Rows(TRUE, FALSE) \subseteq Stored /\ Rows(FALSE, FALSE) \subseteq Stored
    BY DEF Rows
  <2>5. QED
    BY <2>1, <2>2, <2>3, <2>4
<1>4. /\ \A s \in Stored : ln(s) \in Int /\ on(s) \in Int
      /\ SumOver(PaidWorth, lnMade) = SumOver(P, Stored)
      /\ SumOver(delta, ours) = SumOver(Q, Stored)
  BY <1>1, <1>2, PaidParts, NetParts
<1>5. \A s \in Stored : P[s] \in Int /\ Q[s] \in Int /\ V[s] \in Int /\ V[s] = P[s] + Q[s] /\ V[s] = Value(s)
  BY <1>4, ValueSum
<1>6. Balance = SumOver(PaidWorth, lnMade) + SumOver(delta, ours)
  <2>1. MapThenSumSet(LAMBDA t : delta[t], ours) = SumOver(delta, ours)
    BY Zenon DEF SumOver
  <2>2. QED
    BY <2>1, PaidSum, Zenon DEF Balance
<1> HIDE DEF V, P, Q, net, rest, ln, on
<1>7. ASSUME NEW L \in SUBSET Stored PROVE MapThenSumSet(Value, L) = SumOver(V, L) /\ IsFiniteSet(L)
  <2> DEFINE h == [s \in L |-> Value(s)]
  <2>1. IsFiniteSet(L) /\ \A s \in L : h[s] = V[s]
    BY <1>1, <1>5, FS_Subset
  <2> HIDE DEF h
  <2>2. SumOver(h, L) = SumOver(V, L)
    BY <2>1, SumSame
  <2>3. MapThenSumSet(Value, L) = SumOver(h, L)
    BY ReturnSum, Zenon DEF h
  <2>4. QED
    BY <2>1, <2>2, <2>3, Zenon
<1>8. SumOver(V, Stored) = SumOver(V, net) + SumOver(V, rest)
  <2>1. net \in SUBSET Stored /\ rest \in SUBSET Stored
    BY <1>3
  <2>2. \A s \in net \cup rest : V[s] \in Int
    BY <1>3, <1>5
  <2>3. QED
    BY <1>3, <1>7, <2>1, <2>2, SumJoin
<1>9. SumOver(V, Stored) = SumOver(P, Stored) + SumOver(Q, Stored)
  BY <1>1, <1>5, SumPlus
<1>10. MapThenSumSet(Value, net) = SumOver(V, net) /\ MapThenSumSet(Value, rest) = SumOver(V, rest)
  BY <1>3, <1>7, Zenon
<1>11. SumOver(V, net) + SumOver(V, rest) = Balance
  BY <1>4, <1>6, <1>8, <1>9
<1>12. QED
  BY <1>10, <1>11, Zenon

\* Once all swaps are finished and none has a leg missing, the net return and the returns
\* of the rows it leaves out are what the wallet gained, for any swaps, batches, fees and
\* prepayments (ReturnsAddUp).
THEOREM ReturnsExact == Spec => []ReturnsAddUp
<1>1. WalletInv /\ NamedInv /\ MoneyInv => ReturnsAddUp
  BY AddUpEnough
<1>2. WalletInv /\ [Next]_vars => WalletInv'
  BY WalletKept
<1>3. WalletInv /\ NamedInv /\ [Next]_vars => NamedInv'
  BY NamedKept
<1>4. WalletInv /\ NamedInv /\ MoneyInv /\ [Next]_vars => MoneyInv'
  BY MoneyKept
<1>5. QED
  BY <1>1, <1>2, <1>3, <1>4, WalletInit, NamedInit, MoneyInit, PTL DEF Spec

-----------------------------------------------------------------------------
(* The export among the wallet's steps.                                    *)

\* A step of the export leaves the wallet alone.
LEMMA ExportSteps ==
  ASSUME [ExportNext]_<<vars, exportVars>>
  PROVE  /\ [Next]_vars
         /\ WalletStep \/ (UNCHANGED vars /\ (ExportStep \/ UNCHANGED exportVars))
<1>1. ASSUME ExportStep PROVE UNCHANGED vars
  BY <1>1 DEF ExportStep, Begin, ReadLedger, ReadHistory, ReadSwaps, ListTransactions,
     ReadTransactions, ReadRecords, RowsFail, RowSwaps, RowHistory, BuildRows, Read
<1>2. ASSUME WalletStep PROVE Next
  BY <1>2 DEF WalletStep
<1>3. QED
  BY <1>1, <1>2 DEF ExportNext

\* The document has all its sections, and what the rows' reads saw all its parts.
Shape ==
  /\ doc = [x \in Sections |-> doc[x]]
  /\ seen = [truth |-> seen.truth, ours |-> seen.ours, fee |-> seen.fee,
             lnItems |-> seen.lnItems, height |-> seen.height]

LEMMA ShapeInit == ExportInit => Shape
BY DEF ExportInit, Shape, NothingSeen

LEMMA ShapeKept == Shape /\ [ExportNext]_<<vars, exportVars>> => Shape'
<1> SUFFICES ASSUME Shape, [ExportNext]_<<vars, exportVars>> PROVE Shape'
  OBVIOUS
<1>1. doc' = [x \in Sections |-> doc'[x]]
  <2>1. ASSUME NEW k \in Sections, NEW v, doc' = [doc EXCEPT ![k] = v]
        PROVE  doc' = [x \in Sections |-> doc'[x]]
    BY <2>1 DEF Shape
  <2>2. ASSUME NEW read, NEW k \in Sections, NEW v, Read(read, k, v)
        PROVE  doc' = [x \in Sections |-> doc'[x]]
    BY <2>1, <2>2 DEF Read
  <2>3. /\ "ledger" \in Sections /\ "history" \in Sections /\ "swaps" \in Sections
        /\ "transactions" \in Sections /\ "records" \in Sections /\ "rows" \in Sections
    BY DEF Sections
  <2>4. ASSUME UNCHANGED doc PROVE doc' = [x \in Sections |-> doc'[x]]
    BY <2>4 DEF Shape
  <2>5. CASE ReadLedger \/ ReadHistory \/ ReadSwaps \/ ListTransactions \/ ReadTransactions
    BY <2>2, <2>3, <2>5 DEF ReadLedger, ReadHistory, ReadSwaps, ListTransactions, ReadTransactions
  <2>6. CASE ReadRecords
    BY <2>1, <2>3, <2>6 DEF ReadRecords
  <2>7. CASE RowsFail
    BY <2>1, <2>3, <2>7 DEF RowsFail
  <2>8. CASE BuildRows
    BY <2>1, <2>3, <2>8 DEF BuildRows
  <2>9. CASE Begin \/ RowSwaps \/ RowHistory \/ WalletStep \/ UNCHANGED exportVars
    BY <2>4, <2>9 DEF Begin, RowSwaps, RowHistory, WalletStep, exportVars
  <2>10. QED
    BY <2>5, <2>6, <2>7, <2>8, <2>9 DEF ExportNext, ExportStep, exportVars
<1>2. seen' = [truth |-> seen'.truth, ours |-> seen'.ours, fee |-> seen'.fee,
               lnItems |-> seen'.lnItems, height |-> seen'.height]
  <2>1. CASE RowSwaps
    BY <2>1 DEF RowSwaps, Shape
  <2>2. CASE RowHistory
    BY <2>2 DEF RowHistory, Shape
  <2>3. UNCHANGED seen \/ RowSwaps \/ RowHistory
    BY DEF ExportNext, ExportStep, exportVars, Begin, ReadLedger, ReadHistory, ReadSwaps,
       ListTransactions, ReadTransactions, ReadRecords, RowsFail, BuildRows, WalletStep
  <2>4. QED
    BY <2>1, <2>2, <2>3 DEF Shape
<1>3. QED
  BY <1>1, <1>2 DEF Shape

-----------------------------------------------------------------------------
(* Nothing is dropped.                                                     *)

\* What was held all along is listed, and in the file once it was read.
HeldInv ==
  /\ kept \subseteq ours
  /\ pc = "transactions" /\ "list" \notin failed => kept \subseteq doc.transactions
  /\ pc \in {"records", "row_swaps", "row_history", "rows", "done"}
     /\ failed \cap {"list", "transactions"} = {} =>
       \A t \in kept : \E r \in doc.transactions :
         r.tx = t /\ (height[t] # "confirmed" => r.raw)

LEMMA HeldInit == ExportInit => HeldInv
BY DEF ExportInit, HeldInv

LEMMA HeldKept ==
  ASSUME WalletInv, Shape, HeldInv, [ExportNext]_<<vars, exportVars>>
  PROVE  HeldInv'
<1>1. CASE WalletStep
  <2>1. /\ kept' = kept \cap ours' /\ UNCHANGED <<pc, doc, failed>> /\ [Next]_vars
    BY <1>1 DEF WalletStep
  <2>2. \A t \in kept : height'[t] # "confirmed" => height[t] # "confirmed"
    BY <2>1, WalletKept DEF ConfirmedStays, WalletInv, HeldInv
  <2>3. QED
    BY <2>1, <2>2 DEF HeldInv
<1>2. CASE UNCHANGED <<vars, exportVars>>
  BY <1>2 DEF HeldInv, vars, exportVars
<1>3. CASE Begin
  BY <1>3 DEF Begin, HeldInv, vars
<1>4. ASSUME NEW read \in {"ledger", "history", "swaps"}, NEW v, Read(read, read, v)
      PROVE  HeldInv'
  <2>1. pc = read /\ pc' \in {"history", "swaps", "list"} /\ UNCHANGED <<ours, kept>>
    BY <1>4 DEF Read, Following, vars
  <2>2. QED
    BY <2>1 DEF HeldInv
<1>5. CASE ListTransactions
  <2>1. /\ pc' = "transactions" /\ UNCHANGED <<ours, kept>>
        /\ \/ doc' = [doc EXCEPT !["transactions"] = ours]
           \/ failed' = failed \cup {"list"}
    BY <1>5 DEF ListTransactions, Read, Following, vars
  <2>2. QED
    BY <2>1 DEF HeldInv, Shape, Sections
<1>6. CASE ReadTransactions
  <2>1. /\ pc = "transactions" /\ pc' = "records" /\ UNCHANGED <<ours, kept, height>>
        /\ \/ /\ doc' = [doc EXCEPT !["transactions"] = {TransactionRecord(t) : t \in doc.transactions}]
              /\ UNCHANGED failed
           \/ failed' = failed \cup {"transactions"}
    BY <1>6 DEF ReadTransactions, Read, Following, vars
  <2>2. CASE failed' = failed \cup {"transactions"}
    BY <2>1, <2>2 DEF HeldInv
  <2>3. CASE UNCHANGED failed
            /\ doc' = [doc EXCEPT !["transactions"] = {TransactionRecord(t) : t \in doc.transactions}]
    <3>1. doc'.transactions = {TransactionRecord(t) : t \in doc.transactions}
      BY <2>3 DEF Shape, Sections
    <3>2. ASSUME "list" \notin failed, NEW t \in kept
          PROVE  \E r \in doc'.transactions : r.tx = t /\ (height'[t] # "confirmed" => r.raw)
      <4>1. t \in doc.transactions /\ t \in ours
        BY <2>1, <3>2 DEF HeldInv
      <4>2. TransactionRecord(t) \in doc'.transactions
        BY <3>1, <4>1
      <4>3. TransactionRecord(t).tx = t /\ (height[t] # "confirmed" => TransactionRecord(t).raw)
        BY <4>1 DEF TransactionRecord
      <4>4. QED
        BY <2>1, <4>2, <4>3
    <3>3. QED
      BY <2>1, <2>3, <3>2 DEF HeldInv
  <2>4. QED
    BY <2>1, <2>2, <2>3
<1>7. ASSUME pc \in {"records", "row_swaps", "row_history", "rows"},
             pc' \in {"row_swaps", "row_history", "rows", "done"},
             UNCHANGED <<ours, kept, height>>, failed \subseteq failed',
             doc'.transactions = doc.transactions
      PROVE  HeldInv'
  BY <1>7 DEF HeldInv
<1>8. CASE ReadRecords \/ RowsFail \/ RowSwaps \/ RowHistory \/ BuildRows
  <2>1. pc \in {"records", "row_swaps", "row_history", "rows"}
        /\ pc' \in {"row_swaps", "row_history", "rows", "done"}
    BY <1>8 DEF ReadRecords, RowsFail, RowSwaps, RowHistory, BuildRows, Following
  <2>2. UNCHANGED <<ours, kept, height>> /\ failed \subseteq failed'
    BY <1>8 DEF ReadRecords, RowsFail, RowSwaps, RowHistory, BuildRows, vars
  <2>3. doc'.transactions = doc.transactions
    BY <1>8 DEF ReadRecords, RowsFail, RowSwaps, RowHistory, BuildRows, Shape, Sections
  <2>4. QED
    BY <1>7, <2>1, <2>2, <2>3
<1>9. QED
  BY <1>1, <1>2, <1>3, <1>4, <1>5, <1>6, <1>8
     DEF ExportNext, ExportStep, ReadLedger, ReadHistory, ReadSwaps

\* A transaction that the wallet held while the export ran is in the file, with its
\* hex if it is not confirmed, for any wallet and however the export and the event
\* loop take turns (StuckIsExported).
THEOREM NothingDropped == ExportSpec => []StuckIsExported
<1>1. HeldInv => StuckIsExported
  BY DEF HeldInv, StuckIsExported, Done
<1>2. WalletInv /\ [ExportNext]_<<vars, exportVars>> => WalletInv'
  BY WalletKept, ExportSteps
<1>3. ExportInit => WalletInv
  BY WalletInit DEF ExportInit
<1>4. WalletInv /\ Shape /\ HeldInv /\ [ExportNext]_<<vars, exportVars>> => HeldInv'
  BY HeldKept
<1>5. QED
  BY <1>1, <1>2, <1>3, <1>4, HeldInit, ShapeInit, ShapeKept, PTL DEF ExportSpec

-----------------------------------------------------------------------------
(* The sections agree on a swap's side.                                    *)

Sided(R) == \A a \in R : a.swap \in Stored /\ a.role \in {truth[a.swap], "unknown"}

\* What each section holds once its read is past: the ledger, swaps we served; the
\* list of swaps, swaps there are; and both kinds of rows, no side but the true one.
SidesInv ==
  /\ pc \in {"idle", "ledger", "done"} \/ \A s \in doc.ledger : s \in Stored /\ truth[s] = "served"
  /\ pc \in {"list", "transactions", "records"} => doc.swaps \subseteq Stored
  /\ pc \in {"row_history", "rows"} => \A s \in Swaps : seen.truth[s] # "none" => s \in Stored
  /\ pc \in {"row_swaps", "row_history", "rows", "done"} => Sided(doc.records)
  /\ pc = "done" => Sided(doc.rows)

\* The role that the ledger of the beginning gives, if it names served swaps only.
LEMMA RoleAsRead ==
  ASSUME RoleInv, \A s \in doc.ledger : s \in Stored /\ truth[s] = "served", NEW s \in Stored
  PROVE  AsRead!Role(s) \in {truth[s], "unknown"}
<1> DEFINE d == swaps[s]
<1>1. s \in Swaps /\ truth[s] \in {"served", "own"} /\ d \in SwapData
  BY DEF Stored, RoleInv
<1>2. d.rev \in BOOLEAN /\ d.prepay \in BOOLEAN /\ d.claimTo \in BOOLEAN
      /\ d.onchain \in Int /\ Lightning \in Int
  BY <1>1, AmountAssumption DEF SwapData
<1>3. CASE truth[s] = "served"
  <2>1. ServedRecord(d)
    BY <1>1, <1>3 DEF RoleInv
  <2>2. QED
    BY <1>2, <1>3, <2>1 DEF AsRead!Role, AsRead!Margin, ServedRecord
<1>4. CASE truth[s] = "own"
  <2>1. OwnRecord(d) /\ s \notin doc.ledger
    BY <1>1, <1>4 DEF RoleInv
  <2>2. QED
    BY <1>2, <1>4, <2>1 DEF AsRead!Role, AsRead!Margin, OwnRecord
<1>5. QED
  BY <1>1, <1>3, <1>4

LEMMA SidesInit == ExportInit => SidesInv
BY DEF ExportInit, SidesInv

LEMMA SidesKept ==
  ASSUME WalletInv, Shape, SidesInv, [ExportNext]_<<vars, exportVars>>
  PROVE  SidesInv'
<1>1. CASE WalletStep
  <2>1. UNCHANGED <<pc, doc, seen>> /\ [Next]_vars
    BY <1>1 DEF WalletStep
  <2>2. \A s \in Stored : s \in Stored' /\ truth'[s] = truth[s]
    BY <2>1, WalletKept DEF SidesStay
  <2>3. ASSUME NEW R, Sided(R) PROVE \A a \in R : a.swap \in Stored' /\ a.role \in {truth'[a.swap], "unknown"}
    BY <2>2, <2>3 DEF Sided
  <2>4. QED
    BY <2>1, <2>2, <2>3 DEF SidesInv, Sided
<1>2. CASE UNCHANGED <<vars, exportVars>>
  BY <1>2 DEF SidesInv, Sided, Stored, vars, exportVars
<1>3. CASE Begin
  BY <1>3 DEF Begin, SidesInv
<1>4. ASSUME NEW read, NEW k \in Sections, NEW v, Read(read, k, v)
      PROVE  /\ pc = read /\ pc' = Following[read] /\ UNCHANGED truth /\ Stored' = Stored
             /\ doc'[k] = v \/ doc'[k] = {}
             /\ \A x \in Sections : x # k => doc'[x] = doc[x]
  BY <1>4 DEF Read, Default, Shape, vars, Stored
<1>5. CASE ReadLedger
  <2>1. pc' = "history" /\ UNCHANGED truth /\ Stored' = Stored /\ doc'.ledger \in {ledger, {}}
    BY <1>4, <1>5 DEF ReadLedger, Following, Sections
  <2>2. \A s \in doc'.ledger : s \in Stored /\ truth[s] = "served"
    BY <2>1 DEF WalletInv, RoleInv, Stored
  <2>3. QED
    BY <2>1, <2>2 DEF SidesInv
<1>6. CASE ReadHistory
  <2>1. pc = "history" /\ pc' = "swaps" /\ UNCHANGED truth /\ Stored' = Stored /\ doc'.ledger = doc.ledger
    BY <1>4, <1>6 DEF ReadHistory, Following, Sections
  <2>2. QED
    BY <2>1 DEF SidesInv
<1>7. CASE ReadSwaps
  <2>1. /\ pc = "swaps" /\ pc' = "list" /\ UNCHANGED truth /\ Stored' = Stored
        /\ doc'.ledger = doc.ledger /\ doc'.swaps \in {Stored, {}}
    BY <1>4, <1>7 DEF ReadSwaps, Following, Sections
  <2>2. QED
    BY <2>1 DEF SidesInv
<1>8. CASE ListTransactions \/ ReadTransactions
  <2>1. /\ pc \in {"list", "transactions"} /\ pc' \in {"transactions", "records"}
        /\ UNCHANGED truth /\ Stored' = Stored
        /\ doc'.ledger = doc.ledger /\ doc'.swaps = doc.swaps
    BY <1>4, <1>8 DEF ListTransactions, ReadTransactions, Following, Sections
  <2>2. QED
    BY <2>1 DEF SidesInv
<1>9. CASE ReadRecords
  <2>1. PICK bad \in SUBSET doc.swaps :
          doc' = [doc EXCEPT !.records =
            {IF s \in bad THEN [swap |-> s, role |-> "unknown", status |-> "null"]
             ELSE SwapRecord(s) : s \in doc.swaps}]
    BY <1>9 DEF ReadRecords
  <2>2. /\ pc = "records" /\ pc' = "row_swaps" /\ UNCHANGED truth /\ Stored' = Stored
    BY <1>9 DEF ReadRecords, Following, vars, Stored
  <2>3. /\ doc'.ledger = doc.ledger
        /\ doc'.records = {IF s \in bad THEN [swap |-> s, role |-> "unknown", status |-> "null"]
                           ELSE SwapRecord(s) : s \in doc.swaps}
    BY <2>1 DEF Shape, Sections
  <2>4. ASSUME NEW s \in doc.swaps
        PROVE  s \in Stored /\ AsRead!Role(s) \in {truth[s], "unknown"}
    BY <2>2, RoleAsRead DEF SidesInv, WalletInv
  <2>5. Sided(doc'.records)
    <3>1. ASSUME NEW a \in doc'.records PROVE a.swap \in Stored /\ a.role \in {truth[a.swap], "unknown"}
      <4>1. PICK s \in doc.swaps :
              a = IF s \in bad THEN [swap |-> s, role |-> "unknown", status |-> "null"]
                  ELSE SwapRecord(s)
        BY <2>3
      <4>2. a.swap = s /\ a.role \in {"unknown", AsRead!Role(s)}
        BY <4>1 DEF SwapRecord
      <4>3. QED
        BY <2>4, <4>2
    <3>2. QED
      BY <3>1 DEF Sided
  <2>6. QED
    BY <2>2, <2>3, <2>5 DEF SidesInv, Sided
<1>10. CASE RowsFail
  <2>1. /\ pc \in {"row_swaps", "row_history", "rows"} /\ pc' = "done" /\ UNCHANGED truth
        /\ Stored' = Stored /\ doc'.records = doc.records /\ doc'.rows = {}
    BY <1>10 DEF RowsFail, Default, Shape, Sections, vars, Stored
  <2>2. QED
    BY <2>1 DEF SidesInv, Sided
<1>11. CASE RowSwaps
  <2>1. /\ pc = "row_swaps" /\ pc' = "row_history" /\ UNCHANGED <<truth, doc>> /\ Stored' = Stored
        /\ seen'.truth = truth
    BY <1>11 DEF RowSwaps, Following, Shape, vars, Stored
  <2>2. QED
    BY <2>1 DEF SidesInv, Sided, Stored
<1>12. CASE RowHistory
  <2>1. /\ pc = "row_history" /\ pc' = "rows" /\ UNCHANGED <<truth, doc>> /\ Stored' = Stored
        /\ seen'.truth = seen.truth
    BY <1>12 DEF RowHistory, Following, Shape, vars, Stored
  <2>2. QED
    BY <2>1 DEF SidesInv, Sided
<1>13. CASE BuildRows
  <2>1. /\ pc = "rows" /\ pc' = "done" /\ UNCHANGED truth /\ Stored' = Stored
        /\ doc'.records = doc.records
        /\ doc'.rows = {Row(s) : s \in {x \in Seen!Stored : Seen!Dated(x) \/ Status(x) # "final"}}
    BY <1>13 DEF BuildRows, Following, Shape, Sections, vars, Stored
  <2>2. ASSUME NEW a \in doc'.rows PROVE a.swap \in Stored /\ a.role \in {truth[a.swap], "unknown"}
    <3>1. PICK s \in Seen!Stored : a = Row(s)
      BY <2>1
    <3>2. s \in Stored
      BY <2>1, <3>1 DEF Seen!Stored, Seen!Swaps, Swaps, SidesInv
    <3>3. Role(s) \in {truth[s], "unknown"}
      BY <3>2, RoleInvEnough DEF WalletInv, RoleHonest
    <3>4. a.swap = s /\ a.role = Role(s)
      BY <3>1 DEF Row
    <3>5. QED
      BY <3>2, <3>3, <3>4
  <2>3. QED
    BY <2>1, <2>2 DEF SidesInv, Sided
<1>14. QED
  BY <1>1, <1>2, <1>3, <1>5, <1>6, <1>7, <1>8, <1>9, <1>10, <1>11, <1>12, <1>13
     DEF ExportNext, ExportStep

\* The two sections of the file that name a swap's side never name the wrong one,
\* and never two, although they read the ledger at different moments while takers
\* go on creating swaps (SectionsAgree).
THEOREM SidesAgree == ExportSpec => []SectionsAgree
<1>1. SidesInv => SectionsAgree
  <2> SUFFICES ASSUME SidesInv, Done
               PROVE  \A a, b \in doc.records \cup doc.rows :
                        /\ a.role \in {truth[a.swap], "unknown"}
                        /\ a.swap = b.swap /\ "unknown" \notin {a.role, b.role} => a.role = b.role
    BY DEF SectionsAgree
  <2>1. \A a \in doc.records \cup doc.rows : a.role \in {truth[a.swap], "unknown"}
    BY DEF SidesInv, Sided, Done
  <2>2. QED
    BY <2>1
<1>2. WalletInv /\ [ExportNext]_<<vars, exportVars>> => WalletInv'
  BY WalletKept, ExportSteps
<1>3. ExportInit => WalletInv
  BY WalletInit DEF ExportInit
<1>4. WalletInv /\ Shape /\ SidesInv /\ [ExportNext]_<<vars, exportVars>> => SidesInv'
  BY SidesKept
<1>5. QED
  BY <1>1, <1>2, <1>3, <1>4, SidesInit, ShapeInit, ShapeKept, PTL DEF ExportSpec

-----------------------------------------------------------------------------
(* An exported row that counts is over.                                    *)

\* Of a row that is complete, served and final: we served the swap, every payment of
\* it was made, and its transactions have confirmed.
ExportedRowsOver ==
  Done => \A r \in doc.rows :
    r.missing = {} /\ r.role = "served" /\ r.status = "final" =>
      /\ truth[r.swap] = "served"
      /\ \A p \in LnParts(r.swap) : Paid(r.swap, p)
      /\ \A l \in OnchainLegs(r.swap) : height[l.tx] = "confirmed"

\* The payments that the rows were made from were made.
OverInv == (pc = "rows" => seen.lnItems \subseteq lnMade) /\ ExportedRowsOver

LEMMA OverInit == ExportInit => OverInv
BY DEF ExportInit, OverInv, ExportedRowsOver, Done

\* A payment that was made is never unmade.
LEMMA PaymentsStay ==
  ASSUME [Next]_vars
  PROVE  lnMade \subseteq lnMade'
<1>1. CASE Create
  BY <1>1 DEF Create, CreateServed, CreateOwn, create
<1>2. CASE Payment
  BY <1>2 DEF Payment, PayPrepay, PayMain, PaymentForgotten, Pay
<1>3. CASE Transaction
  BY <1>3 DEF Transaction, TheyFund, MakeTx, TheySpend, Broadcast, Confirm
<1>4. QED
  BY <1>1, <1>2, <1>3 DEF Next, vars

LEMMA OverKept ==
  ASSUME WalletInv, Shape, SidesInv, OverInv, [ExportNext]_<<vars, exportVars>>
  PROVE  OverInv'
<1>1. CASE WalletStep
  BY <1>1, PaymentsStay DEF WalletStep, OverInv, ExportedRowsOver, Done
<1>2. CASE UNCHANGED <<vars, exportVars>>
  BY <1>2 DEF OverInv, ExportedRowsOver, Done, LnParts, Paid, OnchainLegs, vars, exportVars
<1>3. CASE Begin
  BY <1>3 DEF Begin, OverInv, ExportedRowsOver, Done
<1>4. ASSUME NEW read \in {"ledger", "history", "swaps", "list", "transactions"},
             NEW k, NEW v, Read(read, k, v)
      PROVE  OverInv'
  BY <1>4 DEF Read, Following, OverInv, ExportedRowsOver, Done
<1>5. CASE ReadLedger \/ ReadHistory \/ ReadSwaps \/ ListTransactions \/ ReadTransactions
  BY <1>4, <1>5 DEF ReadLedger, ReadHistory, ReadSwaps, ListTransactions, ReadTransactions
<1>6. CASE ReadRecords \/ RowSwaps
  BY <1>6 DEF ReadRecords, RowSwaps, Following, OverInv, ExportedRowsOver, Done
<1>7. CASE RowHistory
  BY <1>7 DEF RowHistory, Following, Shape, WalletInv, SettledInv, OverInv, ExportedRowsOver, Done, vars
<1>8. CASE RowsFail
  BY <1>8 DEF RowsFail, Default, Shape, Sections, OverInv, ExportedRowsOver, Done
<1>9. CASE BuildRows
  <2>1. /\ pc = "rows" /\ pc' = "done" /\ UNCHANGED <<vars, truth, swaps, ledger, height, ours, lockup, lnMade>>
        /\ doc'.rows = {Row(s) : s \in {x \in Seen!Stored : Seen!Dated(x) \/ Status(x) # "final"}}
    BY <1>9 DEF BuildRows, Following, Shape, Sections, vars
  <2>2. ASSUME NEW r \in doc'.rows, r.missing = {}, r.role = "served", r.status = "final"
        PROVE  /\ truth[r.swap] = "served"
               /\ \A p \in LnParts(r.swap) : Paid(r.swap, p)
               /\ \A l \in OnchainLegs(r.swap) : height[l.tx] = "confirmed"
    <3>1. PICK s \in Seen!Stored : r = Row(s)
      BY <2>1
    <3>2. r.swap = s /\ Seen!Missing(s) = {} /\ Role(s) = "served" /\ Status(s) = "final"
      BY <2>2, <3>1 DEF Row
    <3>3. s \in Swaps
      BY <3>1 DEF Seen!Stored, Seen!Swaps, Swaps
    <3>4. truth[s] = "served"
      <4>1. s \in Stored
        BY <2>1, <3>1, <3>3 DEF Seen!Stored, SidesInv
      <4>2. QED
        BY <3>2, <4>1, RoleInvEnough DEF WalletInv, RoleHonest
    <3>5. \A p \in LnParts(s) : Paid(s, p)
      <4>1. Seen!LnParts(s) = LnParts(s)
        BY DEF Seen!LnParts, LnParts, Seen!Parts, Parts
      <4>2. \A p \in LnParts(s) : <<s, p>> \in seen.lnItems
        BY <3>2, <4>1 DEF Seen!Missing, Seen!LnLegs
      <4>3. QED
        BY <2>1, <4>2 DEF OverInv, Paid
    <3>6. \A l \in OnchainLegs(s) : height[l.tx] = "confirmed"
      <4>1. swaps[s].spending # 0 /\ height[swaps[s].spending] = "confirmed"
        BY <3>2 DEF Status
      <4>2. height[swaps[s].funding] = "confirmed"
        BY <3>3, <4>1 DEF WalletInv, SettledInv, Settled
      <4>3. \A l \in OnchainLegs(s) : l.tx \in {swaps[s].spending, swaps[s].funding}
        BY DEF OnchainLegs, Leg
      <4>4. QED
        BY <4>1, <4>2, <4>3
    <3>7. QED
      BY <3>2, <3>4, <3>5, <3>6
  <2>3. QED
    BY <2>1, <2>2 DEF OverInv, ExportedRowsOver, Done, LnParts, Paid, OnchainLegs
<1>10. QED
  BY <1>1, <1>2, <1>3, <1>5, <1>6, <1>7, <1>8, <1>9 DEF ExportNext, ExportStep

\* What the exported file counts is over, for any number of swaps, although the
\* statuses are read after the legs (the part of ExportedReturnStands that does not
\* depend on which swaps are created between the reads).
THEOREM RowsOver == ExportSpec => []ExportedRowsOver
<1>1. OverInv => ExportedRowsOver
  BY DEF OverInv
<1>2. WalletInv /\ [ExportNext]_<<vars, exportVars>> => WalletInv'
  BY WalletKept, ExportSteps
<1>3. ExportInit => WalletInv
  BY WalletInit DEF ExportInit
<1>4. WalletInv /\ Shape /\ SidesInv /\ OverInv /\ [ExportNext]_<<vars, exportVars>> => OverInv'
  BY OverKept
<1>5. WalletInv /\ Shape /\ SidesInv /\ [ExportNext]_<<vars, exportVars>> => SidesInv'
  BY SidesKept
<1>6. QED
  BY <1>1, <1>2, <1>3, <1>4, <1>5, OverInit, SidesInit, ShapeInit, ShapeKept, PTL DEF ExportSpec

-----------------------------------------------------------------------------
(* The return in an exported row.                                          *)

\* The main payment of a swap settles with its preimage.
PreimageInv == \A s \in Swaps : <<s, "main">> \in lnMade => swaps[s].preimage

LEMMA PreimageInit == Init => PreimageInv
BY DEF Init, PreimageInv

LEMMA PreimageKept ==
  ASSUME WalletInv, NamedInv, PreimageInv, [Next]_vars
  PROVE  PreimageInv'
<1>1. swaps \in [Swaps -> SwapData] /\ \A s \in Swaps : swaps[s].preimage \in BOOLEAN
  BY DEF WalletInv, RoleInv, SwapData
<1>2. CASE UNCHANGED vars
  BY <1>2 DEF vars, PreimageInv
<1>3. CASE Create
  <2>1. PICK x \in Swaps : truth[x] = "none" /\ \E d : swaps' = [swaps EXCEPT ![x] = d]
    BY <1>3 DEF Create, CreateServed, CreateOwn
  <2>2. lnMade' = lnMade /\ <<x, "main">> \notin lnMade
    BY <1>3, <2>1 DEF Create, CreateServed, CreateOwn, create, NamedInv, Stored
  <2>3. QED
    BY <1>1, <2>1, <2>2 DEF PreimageInv
<1>4. ASSUME NEW x \in Swaps, PayPrepay(x) PROVE PreimageInv'
  BY <1>4 DEF PayPrepay, Pay, PreimageInv
<1>5. ASSUME NEW x \in Swaps, PayMain(x) PROVE PreimageInv'
  <2>1. swaps' = [swaps EXCEPT ![x].preimage = TRUE] /\ lnMade' = lnMade \cup {<<x, "main">>}
    BY <1>5 DEF PayMain, Pay
  <2>2. \A s \in Swaps : swaps'[s].preimage = IF s = x THEN TRUE ELSE swaps[s].preimage
    BY <1>1, <2>1 DEF SwapData
  <2>3. QED
    BY <2>1, <2>2 DEF PreimageInv
<1>6. CASE Payment
  BY <1>4, <1>5, <1>6 DEF Payment, PaymentForgotten, PreimageInv
<1>7. CASE Transaction
  <2>1. lnMade' = lnMade
    BY <1>7 DEF Transaction, TheyFund, MakeTx, TheySpend, Broadcast, Confirm
  <2>2. \A s \in Swaps : swaps[s].preimage => swaps'[s].preimage
    <3>1. ASSUME NEW u \in Txs, NEW x \in Swaps, NEW over, TheyFund(x, u, over)
          PROVE  \A s \in Swaps : swaps[s].preimage => swaps'[s].preimage
      BY <1>1, <3>1 DEF TheyFund, SwapData
    <3>2. ASSUME NEW u \in Txs, NEW spent, NEW funded, NEW sat, MakeTx(u, spent, funded, sat)
          PROVE  \A s \in Swaps : swaps[s].preimage => swaps'[s].preimage
      BY <1>1, <3>2 DEF MakeTx, SwapData
    <3>3. ASSUME NEW u \in Txs, NEW x \in Swaps, TheySpend(x, u)
          PROVE  \A s \in Swaps : swaps[s].preimage => swaps'[s].preimage
      BY <1>1, <3>3 DEF TheySpend, SwapData
    <3>4. ASSUME NEW u \in Txs, Broadcast(u) \/ Confirm(u)
          PROVE  \A s \in Swaps : swaps[s].preimage => swaps'[s].preimage
      BY <3>4 DEF Broadcast, Confirm
    <3>5. QED
      BY <1>7, <3>1, <3>2, <3>3, <3>4 DEF Transaction
  <2>3. QED
    BY <2>1, <2>2 DEF PreimageInv
<1>8. QED
  BY <1>2, <1>3, <1>6, <1>7 DEF Next

\* What a step does to a transaction that was made: it stays ours with its fee, or it is
\* dropped for good.
LEMMA MadeStays ==
  ASSUME WalletInv, NamedInv, MoneyInv, [Next]_vars, NEW t \in Txs, height[t] # "none"
  PROVE  /\ height'[t] # "none" /\ (height[t] = "dropped" => height'[t] = "dropped")
         /\ t \in ours' => t \in ours
         /\ t \in ours \ ours' => height'[t] = "dropped"
         /\ fee'[t] = fee[t]
<1> DEFINE Goal == /\ height'[t] # "none" /\ (height[t] = "dropped" => height'[t] = "dropped")
                   /\ t \in ours' => t \in ours
                   /\ t \in ours \ ours' => height'[t] = "dropped"
                   /\ fee'[t] = fee[t]
<1>1. height \in [Txs -> Heights] /\ fee \in [Txs -> Nat]
  BY DEF WalletInv, SettledInv, MoneyInv
<1>2. CASE UNCHANGED vars \/ Create \/ Payment
  <2>1. UNCHANGED <<height, ours, fee>>
    BY <1>2 DEF vars, Create, CreateServed, CreateOwn, create, Payment, PayPrepay, PayMain,
       PaymentForgotten
  <2>2. QED
    BY <2>1
<1>3. ASSUME NEW u \in Txs, NEW x, NEW over, TheyFund(x, u, over) PROVE Goal
  BY <1>1, <1>3 DEF TheyFund, NextTx
<1>4. ASSUME NEW u \in Txs, NEW spent, NEW funded, NEW sat, MakeTx(u, spent, funded, sat)
      PROVE  Goal
  BY <1>1, <1>4 DEF MakeTx, NextTx
<1>5. ASSUME NEW u \in Txs, NEW x \in Swaps, TheySpend(x, u) PROVE Goal
  <2> DEFINE lost == {swaps[x].spending} \ {0}
  <2>1. /\ height[u] = "none" /\ ours' = ours \ lost /\ fee' = fee
        /\ height' = [v \in Txs |-> IF v = u THEN "mempool"
                                    ELSE IF v \in lost THEN "dropped" ELSE height[v]]
    BY <1>5 DEF TheySpend, NextTx
  <2> HIDE DEF lost
  <2>2. QED
    BY <2>1
<1>6. ASSUME NEW u \in Txs, Broadcast(u) \/ Confirm(u) PROVE Goal
  BY <1>1, <1>6 DEF Broadcast, Confirm
<1>7. QED
  BY <1>2, <1>3, <1>4, <1>5, <1>6 DEF Next, Transaction

\* Of the transactions that the rows have read: they were made; they are ours with the
\* fee that was read, or dropped.
FeesSeen ==
  pc = "rows" => \A t \in seen.ours :
    /\ t \in Txs /\ height[t] # "none"
    /\ IF t \in ours THEN seen.fee[t] = fee[t] ELSE height[t] = "dropped"

LEMMA FeesInit == ExportInit => FeesSeen
BY DEF ExportInit, FeesSeen

LEMMA FeesKept ==
  ASSUME WalletInv, NamedInv, MoneyInv, Shape, FeesSeen, [ExportNext]_<<vars, exportVars>>
  PROVE  FeesSeen'
<1>1. CASE WalletStep
  <2>1. [Next]_vars /\ pc' = pc /\ seen' = seen
    BY <1>1 DEF WalletStep
  <2>2. QED
    BY <2>1, MadeStays DEF FeesSeen
<1>2. CASE RowHistory
  <2>1. seen'.ours = ours /\ seen'.fee = fee /\ UNCHANGED <<ours, fee, height>>
    BY <1>2 DEF RowHistory, Shape, vars
  <2>2. \A t \in ours : t \in Txs /\ height[t] # "none"
    BY DEF NamedInv, WalletInv
  <2>3. QED
    BY <2>1, <2>2 DEF FeesSeen
<1>3. CASE ExportStep /\ ~RowHistory
  <2>1. pc' # "rows"
    BY <1>3 DEF ExportStep, Begin, ReadLedger, ReadHistory, ReadSwaps, ListTransactions,
       ReadTransactions, ReadRecords, RowsFail, RowSwaps, BuildRows, Read, Following
  <2>2. QED
    BY <2>1 DEF FeesSeen
<1>4. CASE UNCHANGED <<vars, exportVars>>
  BY <1>4 DEF vars, exportVars, FeesSeen
<1>5. QED
  BY <1>1, <1>2, <1>3, <1>4 DEF ExportNext

\* The legs that the rows know of a transaction we still hold are legs of it.
LEMMA SeenLegs ==
  ASSUME SidesInv, pc = "rows", NEW t \in ours
  PROVE  Seen!LegsOf(t) \subseteq LegsOf(t)
<1> SUFFICES ASSUME NEW l \in Seen!LegsOf(t) PROVE l \in LegsOf(t)
  OBVIOUS
<1>1. PICK s \in Seen!Stored : l \in Seen!OnchainLegs(s) /\ l.tx = t
  BY DEF Seen!LegsOf
<1>2. s \in Stored
  BY <1>1 DEF SidesInv, Seen!Stored, Seen!Swaps, Swaps
<1>3. l \in OnchainLegs(s)
  BY <1>1 DEF Seen!OnchainLegs, OnchainLegs, Seen!Leg, Leg
<1>4. QED
  BY <1>1, <1>2, <1>3 DEF LegsOf

\* The export splits a fee and sums up as the tables do.
LEMMA SameSplit ==
  ASSUME NEW legs, NEW sat
  PROVE  Seen!SplitFee(legs, sat) = SplitFee(legs, sat)
BY Zenon DEF SplitFee, Seen!SplitFee, MapThenSumSet, Seen!MapThenSumSet, MapThenFoldSet,
   Seen!MapThenFoldSet, Cardinality, Seen!Cardinality

LEMMA SeenNetSum ==
  ASSUME NEW L, \A l \in L : Seen!Net(l) = Net(l)
  PROVE  Seen!MapThenSumSet(Seen!Net, L) = SumOver([l \in L |-> Net(l)], L)
<1> DEFINE f == [l \in L |-> Net(l)]
           fold(g) == [T \in SUBSET L |-> IF T = {} THEN 0
                                          ELSE Seen!Net(First(T)) + g[T \ {First(T)}]]
<1>1. Seen!MapThenSumSet(Seen!Net, L) = (CHOOSE g : g = fold(g))[L]
  BY Zenon DEF Seen!MapThenSumSet, Seen!MapThenFoldSet, First
<1>2. ASSUME NEW g PROVE g = fold(g) <=> Adds(g, f, L)
  <2>1. ASSUME NEW T \in SUBSET L, T # {} PROVE f[First(T)] = Seen!Net(First(T))
    <3>1. First(T) \in L
      BY <2>1 DEF First
    <3>2. QED
      BY <3>1
  <2> HIDE DEF f
  <2>2. QED
    BY <2>1 DEF Adds
<1> HIDE DEF fold, f
<1>3. (CHOOSE g : g = fold(g)) = (CHOOSE g : Adds(g, f, L))
  BY <1>2, Zenon
<1>4. QED
  BY <1>1, <1>3, SumFolds, Zenon DEF f

LEMMA SeenLnSum ==
  ASSUME NEW s
  PROVE  Seen!MapThenSumSet(LAMBDA p : Seen!LnValue(s, p), Seen!LnLegs(s))
           = MapThenSumSet(LAMBDA p : LnValue(s, p), Seen!LnLegs(s))
BY Zenon DEF MapThenSumSet, Seen!MapThenSumSet, MapThenFoldSet, Seen!MapThenFoldSet,
   Seen!LnValue, LnValue

\* The legs that the rows know of a transaction are all of it, or none is known.
Accounted ==
  pc = "rows" => \A t \in seen.ours \cap ours :
    Seen!LegsOf(t) = {} \/ LegsOf(t) \subseteq Seen!LegsOf(t)

\* What the rows make of a swap that counts, with the legs as they were read and the swap
\* as it is now, is what it returned.
LEMMA SeenValue ==
  ASSUME WalletInv, NamedInv, MoneyInv, PreimageInv, SidesInv, FeesSeen, Accounted,
         pc = "rows",
         NEW s \in Swaps, s \in Seen!Stored, Seen!Missing(s) = {}, Counts(s)
  PROVE  Seen!Value(s) = Value(s)
<1> DEFINE d == swaps[s]
<1>1. /\ s \in Stored /\ Missing(s) = {} /\ d.spending # 0 /\ height[d.spending] = "confirmed"
  BY DEF Counts, Rows, Status
<1>2. /\ height[d.funding] = "confirmed" /\ d.funding # 0 /\ d.rev \in BOOLEAN
      /\ d.preimage \in BOOLEAN
  BY <1>1 DEF WalletInv, SettledInv, Settled, RoleInv, SwapData, Txs
<1>3. Seen!LnParts(s) = LnParts(s) /\ "main" \in LnParts(s)
  BY DEF Seen!LnParts, LnParts, Seen!Parts, Parts
<1>4. Seen!LnLegs(s) = LnLegs(s)
  <2>1. LnLegs(s) = LnParts(s)
    BY <1>1 DEF Missing, LnLegs
  <2>2. Seen!LnLegs(s) = Seen!LnParts(s)
    BY DEF Seen!Missing, Seen!LnLegs
  <2>3. QED
    BY <1>3, <2>1, <2>2
<1>5. d.preimage
  BY <1>3, <1>4, <1>1 DEF Missing, LnLegs, WalletInv, SettledInv, PreimageInv
<1>6. Seen!OnchainLegs(s) = OnchainLegs(s)
  <2> DEFINE leg == IF d.rev THEN Leg(s, d.spending, "claim", lockup[s], ClaimVbytes)
                    ELSE Leg(s, d.funding, "funding", -d.onchain, FundingVbytes)
  <2>1. OnchainLegs(s) = {l \in {leg} : l.tx \in ours}
    BY <1>2, <1>5 DEF OnchainLegs
  <2>2. Seen!OnchainLegs(s) = {l \in {leg} : l.tx \in seen.ours}
    BY <1>2, <1>5 DEF Seen!OnchainLegs, Seen!Leg, Leg
  <2>3. leg.tx \in {d.funding, d.spending}
    BY DEF Leg
  <2>4. leg.tx \in seen.ours => leg.tx \in ours
    BY <1>1, <1>2, <2>3 DEF FeesSeen
  <2>5. leg.tx \in seen.ours
    <3>1. CASE d.rev
      <4>1. "claim" \in {l.kind : l \in Seen!OnchainLegs(s)}
        BY <1>1, <3>1 DEF Seen!Missing
      <4> HIDE DEF leg
      <4>2. QED
        BY <2>2, <4>1
    <3>2. CASE ~d.rev
      <4>1. "funding" \in {l.kind : l \in Seen!OnchainLegs(s)}
        BY <1>2, <3>2 DEF Seen!Missing
      <4> HIDE DEF leg
      <4>2. QED
        BY <2>2, <4>1
    <3>3. QED
      BY <3>1, <3>2
  <2> HIDE DEF leg
  <2>6. QED
    BY <2>1, <2>2, <2>4, <2>5
<1>7. ASSUME NEW l \in OnchainLegs(s) PROVE Seen!Net(l) = Net(l)
  <2>1. l.tx \in ours
    BY DEF OnchainLegs
  <2>2. l \in Seen!OnchainLegs(s) /\ l.tx \in seen.ours
    BY <1>6 DEF Seen!OnchainLegs
  <2>3. l \in Seen!LegsOf(l.tx)
    BY <2>2 DEF Seen!LegsOf
  <2>4. Seen!LegsOf(l.tx) = LegsOf(l.tx)
    BY <2>1, <2>2, <2>3, SeenLegs DEF Accounted
  <2>5. seen.fee[l.tx] = fee[l.tx]
    BY <2>1, <2>2 DEF FeesSeen
  <2>6. QED
    BY <2>4, <2>5, SameSplit, Zenon DEF Net, Seen!Net
<1>8. Seen!MapThenSumSet(Seen!Net, OnchainLegs(s)) = MapThenSumSet(Net, OnchainLegs(s))
  BY <1>7, SeenNetSum, NetSum, Zenon
<1>9. Seen!Value(s) = Seen!MapThenSumSet(LAMBDA p : Seen!LnValue(s, p), Seen!LnLegs(s))
                        + Seen!MapThenSumSet(Seen!Net, Seen!OnchainLegs(s))
  BY Zenon DEF Seen!Value
<1>10. Value(s) = MapThenSumSet(LAMBDA p : LnValue(s, p), LnLegs(s))
                    + MapThenSumSet(Net, OnchainLegs(s))
  BY Zenon DEF Value
<1>11. QED
  BY <1>4, <1>6, <1>8, <1>9, <1>10, SeenLnSum, Zenon

\* An exported return is that of the tables.
ReturnInv ==
  Done => \A r \in doc.rows :
    r.missing = {} /\ r.role = "served" /\ r.status = "final" =>
      (Counts(r.swap) => r.value = Value(r.swap))

LEMMA ReturnInit == ExportInit => ReturnInv
BY DEF ExportInit, ReturnInv, Done

\* While the wallet stands still, what a row is worth does.
LEMMA CountsSame ==
  ASSUME WalletInv, NamedInv, MoneyInv, UNCHANGED vars, NEW s \in Swaps, Counts(s)'
  PROVE  Counts(s) /\ Value(s)' = Value(s)
<1>1. Counts(s)
  BY DEF vars, Counts, Rows, Stored, Role, LooksServerSide, Margin, Status, Dated, Missing,
     LnLegs, LnParts, OnchainLegs
<1>2. QED
  BY <1>1, ValueStays

\* The wallet moves no more once the file is done, and the last read finds its rows right.
LEMMA ReturnKept ==
  ASSUME WalletInv, NamedInv, MoneyInv, PreimageInv, Shape, SidesInv, FeesSeen, Accounted,
         ReturnInv, [ExportNext]_<<vars, exportVars>>
  PROVE  ReturnInv'
<1> SUFFICES ASSUME pc' = "done", NEW r \in doc'.rows,
                    r.missing = {}, r.role = "served", r.status = "final", Counts(r.swap)'
             PROVE  r.value = Value(r.swap)'
  BY DEF ReturnInv, Done
<1>1. UNCHANGED vars
  BY DEF ExportNext, ExportStep, WalletStep, Begin, ReadLedger, ReadHistory, ReadSwaps,
     ListTransactions, ReadTransactions, ReadRecords, RowsFail, RowSwaps, RowHistory, BuildRows,
     Read, exportVars
<1>2. r.swap \in Swaps
  BY DEF Counts, Rows, Stored, Swaps
<1>3. Counts(r.swap) /\ Value(r.swap)' = Value(r.swap)
  BY <1>1, <1>2, CountsSame
<1>4. CASE BuildRows
  <2>1. /\ pc = "rows"
        /\ doc'.rows = {Row(s) : s \in {x \in Seen!Stored : Seen!Dated(x) \/ Status(x) # "final"}}
    BY <1>4 DEF BuildRows, Shape, Sections
  <2>2. PICK s \in Seen!Stored : r = Row(s)
    BY <2>1
  <2>3. r.swap = s /\ Seen!Missing(s) = {} /\ r.value = Seen!Value(s)
    BY <2>2 DEF Row
  <2>4. QED
    BY <1>2, <1>3, <2>1, <2>3, SeenValue
<1>5. CASE RowsFail
  BY <1>5 DEF RowsFail, Default, Shape, Sections
<1>6. CASE ~BuildRows /\ ~RowsFail
  <2>1. pc = "done" /\ doc' = doc
    BY <1>6 DEF ExportNext, ExportStep, WalletStep, Begin, ReadLedger, ReadHistory, ReadSwaps,
       ListTransactions, ReadTransactions, ReadRecords, RowSwaps, RowHistory, Read, Following,
       exportVars
  <2>2. QED
    BY <1>3, <2>1 DEF ReturnInv, Done
<1>7. QED
  BY <1>4, <1>5, <1>6

\* What the steps of the export and of the wallet keep, whatever the rows have read.
FileInv ==
  /\ WalletInv /\ NamedInv /\ MoneyInv /\ PreimageInv
  /\ Shape /\ SidesInv /\ OverInv /\ FeesSeen

LEMMA FileInit == ExportInit => FileInv
BY WalletInit, NamedInit, MoneyInit, PreimageInit, ShapeInit, SidesInit, OverInit, FeesInit
   DEF ExportInit, FileInv

LEMMA FileKept ==
  ASSUME FileInv, [ExportNext]_<<vars, exportVars>>
  PROVE  FileInv' /\ [Next]_vars
<1> USE DEF FileInv
<1>1. [Next]_vars
  BY ExportSteps
<1>2. WalletInv'
  BY <1>1, WalletKept
<1>3. NamedInv' /\ MoneyInv' /\ PreimageInv'
  BY <1>1, NamedKept, MoneyKept, PreimageKept
<1>4. Shape' /\ SidesInv'
  BY ShapeKept, SidesKept
<1>5. OverInv' /\ FeesSeen'
  BY OverKept, FeesKept
<1>6. QED
  BY <1>1, <1>2, <1>3, <1>4, <1>5

\* The return of an exported row that counts is the one that the tab shows, if the legs
\* the rows know of each transaction are all of it, or none (ExportedReturnStands).
THEOREM ReturnExported == ExportSpec /\ []Accounted => []ExportedReturnStands
<1>1. FileInv /\ ReturnInv => ExportedReturnStands
  BY DEF FileInv, OverInv, ExportedRowsOver, ReturnInv, ExportedReturnStands
<1>2. FileInv /\ [ExportNext]_<<vars, exportVars>> => FileInv'
  BY FileKept
<1>3. FileInv /\ Accounted /\ ReturnInv /\ [ExportNext]_<<vars, exportVars>> => ReturnInv'
  BY ReturnKept DEF FileInv
<1>4. QED
  BY <1>1, <1>2, <1>3, FileInit, ReturnInit, PTL DEF ExportSpec

\* "the fee split is only correct if it accounts for all of them": it is then
\* (served_swaps.py:692).
THEOREM SplitSuffices == ExportSpec /\ []SplitAccountsForAll => []ExportedReturnStands
<1>1. SplitAccountsForAll => Accounted
  BY DEF SplitAccountsForAll, Accounted
<1>2. QED
  BY <1>1, ReturnExported, PTL

\* No swap is created between the read of the swaps and that of the history.
ReadTogether == pc = "row_history" => seen.truth = truth

\* A swap in a transaction that the rows have read is one they have read.
JoinedInv ==
  pc = "rows" => \A s \in Swaps, t \in seen.ours \cap ours :
    s \in In(t) => seen.truth[s] # "none"

LEMMA JoinedKept ==
  ASSUME FileInv, ReadTogether, JoinedInv, [ExportNext]_<<vars, exportVars>>
  PROVE  JoinedInv'
<1> USE DEF FileInv
<1>1. CASE WalletStep \/ UNCHANGED <<vars, exportVars>>
  <2>1. [Next]_vars /\ pc' = pc /\ seen' = seen
    BY <1>1 DEF WalletStep, vars, exportVars
  <2>2. Steady
    BY <2>1, MoneyKept
  <2>3. ASSUME pc = "rows", NEW s \in Swaps, NEW t \in seen.ours \cap ours', s \in In(t)'
        PROVE  seen.truth[s] # "none"
    <3>1. t \in ours
      BY <2>1, <2>3, MadeStays DEF FeesSeen
    <3>2. s \in In(t)
      BY <2>2, <2>3, <3>1 DEF Steady, Same, In
    <3>3. QED
      BY <2>3, <3>1, <3>2 DEF JoinedInv
  <2>4. QED
    BY <2>1, <2>3 DEF JoinedInv
<1>2. CASE RowHistory
  <2>1. /\ pc = "row_history" /\ seen'.truth = seen.truth
        /\ UNCHANGED <<truth, ours, swaps>>
    BY <1>2 DEF RowHistory, Shape, vars
  <2>2. \A t \in ours : In(t) \subseteq Stored /\ In(t)' = In(t)
    BY <2>1, LegsOne DEF In
  <2>3. QED
    BY <2>1, <2>2 DEF JoinedInv, ReadTogether, Stored
<1>3. CASE ExportStep /\ ~RowHistory
  <2>1. pc' # "rows"
    BY <1>3 DEF ExportStep, Begin, ReadLedger, ReadHistory, ReadSwaps, ListTransactions,
       ReadTransactions, ReadRecords, RowsFail, RowSwaps, BuildRows, Read, Following
  <2>2. QED
    BY <2>1 DEF JoinedInv
<1>4. QED
  BY <1>1, <1>2, <1>3 DEF ExportNext

\* The split goes wrong in no other way: if no swap is created between those two reads,
\* the legs the rows know of a transaction are all of it, whatever happens to the
\* wallet before and after (SplitAccountsForAll).
THEOREM SplitComplete == ExportSpec /\ []ReadTogether => []SplitAccountsForAll
<1>1. FileInv /\ JoinedInv => SplitAccountsForAll
  <2> SUFFICES ASSUME FileInv, JoinedInv, pc = "rows", NEW t \in seen.ours \cap ours,
                      NEW l \in LegsOf(t)
               PROVE  l \in Seen!LegsOf(t)
    BY DEF SplitAccountsForAll
  <2>1. PICK s \in Stored : l \in OnchainLegs(s) /\ l.tx = t
    BY DEF LegsOf
  <2>2. s \in Swaps /\ s \in In(t)
    BY <2>1 DEF OnchainLegs, Leg, In, Stored
  <2>3. s \in Seen!Stored
    BY <2>2 DEF JoinedInv, Seen!Stored, Seen!Swaps, Swaps
  <2>4. l \in Seen!OnchainLegs(s)
    BY <2>1 DEF Seen!OnchainLegs, OnchainLegs, Seen!Leg, Leg
  <2>5. QED
    BY <2>1, <2>3, <2>4 DEF Seen!LegsOf
<1>2. FileInv /\ [ExportNext]_<<vars, exportVars>> => FileInv'
  BY FileKept
<1>3. FileInv /\ ReadTogether /\ JoinedInv /\ [ExportNext]_<<vars, exportVars>> => JoinedInv'
  BY JoinedKept
<1>4. ExportInit => JoinedInv
  BY DEF ExportInit, JoinedInv
<1>5. QED
  BY <1>1, <1>2, <1>3, <1>4, FileInit, PTL DEF ExportSpec

==============================================================================
