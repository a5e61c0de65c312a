----------------------------- MODULE HistoryTab -----------------------------
(***************************************************************************)
(* The "History (Swaps)" tab over the wallets of ServedSwaps: Electrum's   *)
(* history with its groups, and relabel_swap_history_items, which writes   *)
(* on each swap's row which side of it we were on.  The two are functions  *)
(* of the wallet, and of whether the operator has typed a label for the    *)
(* row, so this module adds neither state nor steps.                       *)
(*                                                                         *)
(* An item of the history is a transaction or a payment; a group, and with *)
(* it a row, goes by the transaction it is anchored to; a text is the swap *)
(* whose role, direction and amount it gives.                              *)
(***************************************************************************)
EXTENDS ServedSwaps

Tx(t) == <<t, "tx">>

-----------------------------------------------------------------------------
(* The history, as Electrum builds it.                                     *)

\* What Electrum files a swap's history under (0: nothing yet).
GroupId(s) == IF swaps[s].rev THEN swaps[s].spending ELSE swaps[s].funding

\* The swaps that put a transaction into a group: the one it anchors, and the
\* one whose funding it takes back.
Grouping(t) ==
  {s \in Stored : /\ GroupId(s) # 0
                  /\ t = GroupId(s) \/ (~swaps[s].rev /\ t = swaps[s].spending)}

\* get_groups_for_onchain_history: a later swap overwrites what an earlier one
\* says of a transaction.
GroupOf(t) == IF Grouping(t) = {} THEN 0 ELSE GroupId(Max(Grouping(t)))

\* get_full_history: what is under the row of group g.
Members(g) == {Tx(t) : t \in {u \in ours : GroupOf(u) = g}} \cup {i \in lnItems : GroupId(i[1]) = g}

\* A group of one is replaced by its member.
HasChildren(g) == Cardinality(Members(g)) > 1

-----------------------------------------------------------------------------
(* relabel_swap_history_items.                                             *)

\* The transaction of ours that a swap is anchored to: "the same group id
\* upstream keys the swap's history group on".
Anchor(s) == IF swaps[s].rev THEN swaps[s].spending ELSE swaps[s].funding

\* _user_label of a row: asked for by transaction id, which a payment has not.
\* (typed: the operator has labelled whatever the row is.)
UserLabel(g, typed) == typed /\ \E t \in Txs : Members(g) = {Tx(t)}

\* Swap s writes on row g: its group's, or its anchor's if that is not in a group.
WritesOn(s, g) ==
  Anchor(s) = g /\ (Members(g) # {} \/ g \in {t \in ours : GroupOf(t) = 0})

Writers(g, typed) ==
  {s \in Stored : WritesOn(s, g) /\ (HasChildren(g) \/ ~UserLabel(g, typed))}

\* Mutant: only groups are rewritten, not a row that lost its group.
LabelGroupsOnly(g, typed) ==
  LET writers == {s \in Stored : WritesOn(s, g) /\ HasChildren(g)} IN
  IF writers = {} THEN 0 ELSE Max(writers)

\* The swap that row g tells of (0: the row has Electrum's label, or the
\* operator's): of several, the last one in the dictionary.
Label(g, typed) == IF Writers(g, typed) = {} THEN 0 ELSE Max(Writers(g, typed))

-----------------------------------------------------------------------------
(* Properties.                                                             *)

LegsIn(s) == {Tx(l.tx) : l \in OnchainLegs(s)} \cup {<<s, p>> : p \in LnLegs(s)}

\* s has a transaction in common with another swap.
Batched(s) ==
  \E x \in Stored \ {s} :
    ({swaps[s].funding, swaps[s].spending} \cap {swaps[x].funding, swaps[x].spending}) \ {0} # {}

\* "a swap the operator can see in the History tab is never missing from the
\* swap-centric view of the same history" (served_swaps.py:679): one leg in the
\* wallet is enough for a row there, whatever has become of the others.  And in the
\* history a swap whose transactions are its own has one row, with every leg of it
\* that is in the wallet and nothing else, and that row tells of it: also when it
\* is refunded, when a leg is missing, and when other swaps are batched around it.
\* Only the label that the operator gave to a row of one transaction takes
\* precedence.
EverySwapNamed ==
  \A s \in Stored : LegsIn(s) # {} =>
    /\ s \in Rows(TRUE, TRUE)
    /\ Anchor(s) # 0 /\ ~Batched(s) =>
         /\ Members(Anchor(s)) = LegsIn(s)
         /\ \A typed \in BOOLEAN :
              Label(Anchor(s), typed) = (IF UserLabel(Anchor(s), typed) THEN 0 ELSE s)

\* "Say which side of each swap we were on, in one copy of the history"
\* (served_swaps.py:978): the row of every swap says the side of that swap.
EverySideSaid ==
  \A s \in Stored :
    Anchor(s) # 0 /\ LegsIn(s) # {} => Role(Label(Anchor(s), FALSE)) = Role(s)
=============================================================================
