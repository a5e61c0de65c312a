---------------------------- MODULE HistoryExport ----------------------------
(***************************************************************************)
(* The diagnostics export (history_export.py) over the wallet of           *)
(* ServedSwaps.  It runs on the Qt thread and holds no lock: it reads the  *)
(* wallet section by section, and the swap rows in three reads of their    *)
(* own, while the event loop goes on changing it.  A read that raises      *)
(* costs what it was for, never the file.                                  *)
(*                                                                         *)
(* One export is modelled.  Sections that no property distinguishes from   *)
(* the others (channels, labels, the versions) are left out.               *)
(***************************************************************************)
EXTENDS ServedSwaps

VARIABLES
  pc,       \* the read that comes next
  raw,      \* include_raw_confirmed
  doc,      \* the document, as far as it is written
  seen,     \* what build_swap_rows has read: swaps and history
  failed,   \* history: the reads that raised
  kept      \* history: the transactions held ever since the export began

exportVars == <<pc, raw, doc, seen, failed, kept>>

\* The reads, in the order of build_history_export, and what follows each.
Reads == {"ledger", "history", "swaps", "list", "transactions", "records",
          "row_swaps", "row_history", "rows"}
Following ==
  [ledger |-> "history", history |-> "swaps", swaps |-> "list", list |-> "transactions",
   transactions |-> "records", records |-> "row_swaps", row_swaps |-> "row_history",
   row_history |-> "rows", rows |-> "done"]

\* A section that was not read, or not yet.
Null == {"null"}
Sections == {"ledger", "history", "swaps", "transactions", "records", "rows"}

\* What build_swap_rows makes of the wallet: whose legs there are, in which
\* transactions, is what it saw; the records of the swaps are the live ones.
Seen == INSTANCE ServedSwaps WITH
          truth <- seen.truth, ours <- seen.ours, fee <- seen.fee,
          lnItems <- seen.lnItems, height <- seen.height
NothingSeen ==
  [truth |-> [s \in Swaps |-> "none"], ours |-> {}, fee |-> [t \in Txs |-> 0],
   lnItems |-> {}, height |-> [t \in Txs |-> "none"]]

ExportInit ==
  /\ Init /\ pc = "idle" /\ raw \in BOOLEAN
  /\ doc = [x \in Sections |-> Null] /\ seen = NothingSeen /\ failed = {} /\ kept = {}

-----------------------------------------------------------------------------
(* The sections.                                                           *)

Begin ==
  /\ pc = "idle" /\ pc' = "ledger" /\ kept' = ours
  /\ UNCHANGED <<vars, raw, doc, seen, failed>>

\* The default that _safe puts in the place of a section that raised.
Default(section) == {}

\* One read and what it adds to the document.
Read(read, section, content) ==
  /\ pc = read /\ pc' = Following[read]
  /\ \/ doc' = [doc EXCEPT ![section] = content] /\ UNCHANGED failed
     \/ doc' = [doc EXCEPT ![section] = Default(section)] /\ failed' = failed \cup {read}
  /\ UNCHANGED <<vars, raw, kept>>

ReadLedger  == Read("ledger", "ledger", ledger) /\ UNCHANGED seen
ReadHistory == Read("history", "history", ours) /\ UNCHANGED seen
ReadSwaps   == Read("swaps", "swaps", Stored) /\ UNCHANGED seen

\* list_transactions: which ones; their records are made afterwards, one by one.
ListTransactions == Read("list", "transactions", ours) /\ UNCHANGED seen

\* Mutant: only a transaction that was never broadcast brings its hex.
LocalRecord(t) ==
  [tx |-> t, height |-> height[t], isLocal |-> height[t] = "local",
   raw |-> t \in ours /\ (raw \/ height[t] = "local")]

\* transaction_record: the hex comes with everything that is not confirmed, and
\* is null when the wallet has dropped the transaction since.
TransactionRecord(t) ==
  [tx |-> t, height |-> height[t], isLocal |-> height[t] = "local",
   raw |-> t \in ours /\ (raw \/ height[t] # "confirmed")]

ReadTransactions ==
  Read("transactions", "transactions", {TransactionRecord(t) : t \in doc.transactions})
    /\ UNCHANGED seen

\* swap_record: the role is what the ledger says that was read at the beginning,
\* the status is that of this moment; _safe is around each of them.
AsRead == INSTANCE ServedSwaps WITH ledger <- doc.ledger
SwapRecord(s) == [swap |-> s, role |-> AsRead!Role(s), status |-> Status(s)]

ReadRecords ==
  /\ pc = "records" /\ pc' = Following[pc]
  /\ \E bad \in SUBSET doc.swaps :
       doc' = [doc EXCEPT !.records =
         {IF s \in bad THEN [swap |-> s, role |-> "unknown", status |-> "null"]
          ELSE SwapRecord(s) : s \in doc.swaps}]
  /\ UNCHANGED <<vars, raw, seen, failed, kept>>

-----------------------------------------------------------------------------
(* build_swap_rows: the swaps, then the history, then the rows; an error in *)
(* any of them costs the section.                                          *)

RowsFail ==
  /\ pc \in {"row_swaps", "row_history", "rows"} /\ pc' = "done"
  /\ doc' = [doc EXCEPT !.rows = Default("rows")] /\ failed' = failed \cup {"rows"}
  /\ UNCHANGED <<vars, raw, seen, kept>>

RowSwaps ==
  /\ pc = "row_swaps" /\ pc' = Following[pc]
  /\ seen' = [seen EXCEPT !.truth = truth]
  /\ UNCHANGED <<vars, raw, doc, failed, kept>>

RowHistory ==
  /\ pc = "row_history" /\ pc' = Following[pc]
  /\ seen' = [seen EXCEPT !.ours = ours, !.fee = fee, !.height = height, !.lnItems = lnItems]
  /\ UNCHANGED <<vars, raw, doc, failed, kept>>

\* A row, with own and unsettled swaps included.  The ledger is the live one.
Row(s) ==
  [swap |-> s, role |-> Role(s), status |-> Status(s), missing |-> Seen!Missing(s),
   value |-> Seen!Value(s)]

BuildRows ==
  /\ pc = "rows" /\ pc' = Following[pc]
  /\ doc' = [doc EXCEPT !.rows =
       {Row(s) : s \in {x \in Seen!Stored : Seen!Dated(x) \/ Status(x) # "final"}}]
  /\ UNCHANGED <<vars, raw, seen, failed, kept>>

-----------------------------------------------------------------------------
ExportStep ==
  \/ Begin \/ ReadLedger \/ ReadHistory \/ ReadSwaps \/ ListTransactions
  \/ ReadTransactions \/ ReadRecords \/ RowsFail \/ RowSwaps \/ RowHistory \/ BuildRows

\* The wallet moves on; kept is what it still has.
WalletStep ==
  /\ pc # "done" /\ Next
  /\ kept' = kept \cap ours'
  /\ UNCHANGED <<pc, raw, doc, seen, failed>>

ExportNext == ExportStep \/ WalletStep
ExportSpec == ExportInit /\ [][ExportNext]_<<vars, exportVars>>

-----------------------------------------------------------------------------
(* Properties.                                                             *)

Done == pc = "done"

\* "Nothing is dropped here", and "the raw hex of anything not confirmed is always
\* included": a transaction that the wallet held from the beginning to the end is
\* in the file, and one that is not confirmed by then with its hex.
StuckIsExported ==
  Done /\ failed \cap {"list", "transactions"} = {} =>
    \A t \in kept : \E r \in doc.transactions :
      r.tx = t /\ (height[t] # "confirmed" => r.raw)

\* "so a disagreement between what the plugin says and what the wallet holds is
\* visible in one file": there is none that only comes from having read the ledger
\* twice; the two sections never put a swap on different sides, and neither puts
\* it on the wrong one.
SectionsAgree ==
  Done => \A a, b \in doc.records \cup doc.rows :
    /\ a.role \in {truth[a.swap], "unknown"}
    /\ a.swap = b.swap /\ "unknown" \notin {a.role, b.role} => a.role = b.role

\* A row of the file that counts is over, although its status was read after its
\* legs: the swap was served and paid, its transactions have confirmed, and its
\* return is the one that the tab shows.
ExportedReturnStands ==
  Done => \A r \in doc.rows :
    r.missing = {} /\ r.role = "served" /\ r.status = "final" =>
      /\ truth[r.swap] = "served"
      /\ \A p \in LnParts(r.swap) : Paid(r.swap, p)
      /\ \A l \in OnchainLegs(r.swap) : height[l.tx] = "confirmed"
      /\ Counts(r.swap) => r.value = Value(r.swap)

\* "the fee split is only correct if it accounts for all of them"
\* (served_swaps.py:692): the legs the rows know of a transaction are all of it.
SplitAccountsForAll ==
  pc = "rows" => \A t \in seen.ours \cap ours : LegsOf(t) \subseteq Seen!LegsOf(t)

\* "the ones that fail say null instead of taking the file with them"
\* (history_export.py:119): a section that could not be read is not an empty one.
FailureSaysNull ==
  \A x \in failed \cap Sections : doc[x] = Null
=============================================================================
