--------------------------- MODULE AnnounceService ---------------------------
(***************************************************************************)
(* What enabling and disabling the swap server promises of its presence on *)
(* the relays.  One announcer at a time is in charge of the offer.  It is  *)
(* told to go whenever the server is disabled; until it has heard of that  *)
(* it may still announce, from then on it does not, and in the end it is   *)
(* gone.  Every announcer is a new one: none comes back.                   *)
(***************************************************************************)
CONSTANT Announcers

VARIABLES
  on,       \* the server is enabled
  stage,    \* stage[a]: where announcer a is in its life
  sending   \* those with an offer on its way to the relays

vars == <<on, stage, sending>>
Stages == {"unborn", "working", "told", "leaving", "over"}

Init == on = FALSE /\ stage = [a \in Announcers |-> "unborn"] /\ sending = {}

Move(a, from, to) == stage[a] \in from /\ stage' = [stage EXCEPT ![a] = to]

NobodyWorks == \A a \in Announcers : stage[a] # "working"

\* The server is enabled, or a dead announcer of an enabled one is replaced.
Appoint(a) == NobodyWorks /\ Move(a, {"unborn"}, "working") /\ on' = TRUE /\ UNCHANGED sending

\* Enabled without a relay to announce to.
EnableQuietly == on' = TRUE /\ ~on /\ NobodyWorks /\ UNCHANGED <<stage, sending>>

Disable == on' = FALSE /\ NobodyWorks /\ UNCHANGED <<stage, sending>>

Tell(a) == Move(a, {"working"}, "told") /\ UNCHANGED <<on, sending>>
Hear(a) == Move(a, {"told"}, "leaving") /\ UNCHANGED <<on, sending>>

Send(a) ==
  /\ stage[a] \in {"working", "told"}
  /\ sending' = sending \cup {a} /\ UNCHANGED <<on, stage>>

\* An offer was acknowledged, given up, or abandoned.
Sent(a) == sending' = sending \ {a} /\ UNCHANGED <<on, stage>>

\* Gone: because it was told to, or because it failed.
Leave(a) ==
  /\ Move(a, {"working", "told", "leaving"}, "over")
  /\ sending' = sending \ {a} /\ UNCHANGED on

Next ==
  \/ EnableQuietly \/ Disable
  \/ \E a \in Announcers :
       Appoint(a) \/ Tell(a) \/ Hear(a) \/ Send(a) \/ Sent(a) \/ Leave(a)

Spec == Init /\ [][Next]_vars
==============================================================================
