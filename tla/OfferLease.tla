----------------------------- MODULE OfferLease -----------------------------
(***************************************************************************)
(* What the announce loop promises to the operator: the offer the relays   *)
(* hold is a lease that is renewed before it expires, and lapses only when *)
(* something outside the loop stood in its way since the last renewal.     *)
(***************************************************************************)
EXTENDS Naturals

CONSTANT Expiry      \* lifetime of an offer

VARIABLES
  life,    \* what is left of the newest acknowledged offer's lifetime
  sound    \* nothing has stood in the way since it was acknowledged

Init == life = 0 /\ sound = FALSE

Renew == life' \in 1 .. Expiry /\ sound' \in BOOLEAN

\* A moment passes: the lease may not run out while all is well.
Pass ==
  /\ life > 0 /\ life' = life - 1
  /\ life' = 0 => ~sound
  /\ UNCHANGED sound

Trouble == sound' = FALSE /\ UNCHANGED life

Spec == Init /\ [][Renew \/ Pass \/ Trouble]_<<life, sound>>
=============================================================================
