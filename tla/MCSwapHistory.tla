---------------------------- MODULE MCSwapHistory ----------------------------
(* Two small instances of the wallet of ServedSwaps, one for each value of   *)
(* scope: as the two tables show it, and as it is exported.                  *)
EXTENDS HistoryTab, HistoryExport

VARIABLE scope

allVars == <<vars, exportVars, scope>>

MCInit == ExportInit /\ raw = FALSE /\ scope \in {"tables", "export"}

Overpaid == \E s \in Swaps : lockup[s] \notin {0, swaps[s].onchain}

\* The fourth transaction is for the tables without an overpayment.  An export is
\* of one swap with three transactions, at any moment, and one read of it fails.
Within ==
  /\ scope = "export" \/ Overpaid => height[NumTxs] = "none"
  /\ scope = "export" => Cardinality(failed) <= 1 /\ ~Overpaid /\ Stored \subseteq {1}

MCNext ==
  /\ \/ scope = "tables" /\ Next /\ UNCHANGED exportVars
     \/ scope = "export" /\ ExportNext
  /\ UNCHANGED scope /\ Within'

MCSpec == MCInit /\ [][MCNext]_allVars
==============================================================================
