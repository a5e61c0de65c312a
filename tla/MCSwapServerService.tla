------------------------- MODULE MCSwapServerService -------------------------
(* An instance of the lifecycle for each configuration: restarts of the       *)
(* announce task with one wallet, and of the listener with two wallets that   *)
(* are opened and closed around it.                                           *)
EXTENDS SwapServerService

CONSTANTS w1, w2

Nostr  == [port |-> 0, relays |-> TRUE]
Http   == [port |-> 5455, relays |-> FALSE]
Either == {Nostr, Http}
BothWallets == {w1, w2}

Opened == IF config = Nostr THEN BothWallets \ {w2} ELSE BothWallets
Within == {wallet, nonceFor} \cap BothWallets \subseteq Opened

\* What a transport that is being torn down still accepts (EverySwapRecorded) is
\* left out with nostr.
MCNext ==
  /\ Next /\ UNCHANGED config /\ Within'
  /\ config = Nostr => "leftover" \notin missed'

MCInit == Init /\ (Within)

MCSpec == MCInit /\ [][MCNext]_vars
==============================================================================
