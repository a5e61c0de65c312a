---------------------------- MODULE MCSwapServer ----------------------------
(* Settings for the model-checking runs of SwapServer, and an instance of it  *)
(* for each configuration: the announce task through one run of the server    *)
(* and its supervision, with a wallet that can be locked; and the listener    *)
(* through two runs.                                                          *)
EXTENDS SwapServer

Nostr == [port |-> 0, relays |-> TRUE]
Http  == [port |-> 5455, relays |-> FALSE]
NostrOnly == {Nostr}
HttpOnly  == {Http}
Either    == {Nostr, Http}

\* MaxRuns runs, of which one is used up.
Later == INSTANCE SwapServer WITH runs <- runs - 1

HttpQuiet == ~\E w \in Wallets : locked[w] \/ nonceFor = w

MCInit ==
  \/ config = Http /\ Init /\ HttpQuiet
  \/ config = Nostr /\ runs = 1 /\ Later!Init

MCNext == Next /\ UNCHANGED config /\ (config = Http => HttpQuiet')

MCSpec == MCInit /\ [][MCNext]_vars /\ Fairness
=============================================================================
