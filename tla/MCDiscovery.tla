----------------------------- MODULE MCDiscovery -----------------------------
(* Three small instances of Discovery, one for each value of scope.          *)
EXTENDS Discovery

CONSTANTS r1, r2
VARIABLE scope

Announcement(v, n, p, c, b, t) ==
  [version |-> v, net |-> n, parses |-> p, complete |-> c, bits |-> b, created |-> t]

\* One offer for each rule it may break (Start = 2, Lookback = 1, target 2), at
\* either edge of each window, and what an older Electrum left there.
EveryKind ==
  { Announcement("v6", "main", TRUE,  TRUE,  2, 1), Announcement("v6", "main", TRUE,  TRUE,  3, 2),
    Announcement("v6", "main", TRUE,  TRUE,  2, 0), Announcement("v6", "main", TRUE,  TRUE,  2, 4),
    Announcement("v6", "test", TRUE,  TRUE,  2, 2), Announcement("v6", "main", FALSE, TRUE,  2, 2),
    Announcement("v6", "main", TRUE,  FALSE, 2, 2), Announcement("v6", "main", TRUE,  TRUE,  1, 2),
    Announcement("v5", "main", TRUE,  TRUE,  2, 1), Announcement("v5", "main", TRUE,  TRUE,  2, 0) }

\* One offer for each amount of work.
EveryWork == { Announcement("v6", "main", TRUE, TRUE, b, 2) : b \in 1 .. 4 }

\* One good offer.
OneOffer == { Announcement("v6", "main", TRUE, TRUE, 3, 2) }

EveryOffer == EveryKind \cup EveryWork

Empty(r) == held[r] = {} /\ ahead[r] = 0 /\ ~indexes[r] /\ silent[r]
Holds(r, O) == held[r] \subseteq O /\ (O # EveryKind => ahead[r] = 0)

\* "verdict": one check of one relay that may hold anything, among offers that come
\* and go.  "report": one check of two relays that hold our offer of any work, and
\* stand still, with the default target and a lower one.  "tabs": two tabs and two
\* checks of one relay that stands still.
MCInit ==
  /\ Init
  /\ \/ scope = "verdict" /\ Holds(r1, EveryKind) /\ Empty(r2)
     \/ scope = "report"  /\ Holds(r1, EveryWork) /\ Holds(r2, EveryWork)
     \/ scope = "tabs"    /\ Holds(r1, OneOffer) /\ Empty(r2)

\* No step that the threads owe (Fairness) is kept from happening.
Within ==
  /\ scope # "tabs" => tabs' <= 1 /\ phase'[2] = "none"
  /\ \A c \in Checks : asked'[c] \in {{}, IF scope = "report" THEN {r1, r2} ELSE {r1}}
  /\ \A c \in Checks : wanted'[c] \in {0, 2} \cup IF scope = "report" THEN {3} ELSE {}
  /\ IF scope = "verdict" THEN Empty(r2)' ELSE UNCHANGED relayVars

MCSpec == MCInit /\ [][Next /\ Within /\ UNCHANGED scope]_<<vars, scope>> /\ Fairness
==============================================================================
