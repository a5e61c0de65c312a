----------------------------- MODULE MCPowGrind -----------------------------
(* Settings for the model-checking runs of PowGrind. *)
EXTENDS PowGrind

CONSTANTS k1, k2

\* Two lanes of three nonces: hits at once and late, for one target or both.  The
\* first nonce of lane 1 is no hit (it is 0, which counts as no nonce).
Lane(a, b, c) == [o \in 0 .. 2 |-> CASE o = 0 -> a [] o = 1 -> b [] OTHER -> c]
DigestsHere ==
  {[k \in Keys |->
      IF k = k1 THEN [l \in 1 .. 2 |-> IF l = 1 THEN Lane(0, 2, 1) ELSE Lane(2, 1, 3)]
      ELSE [l \in 1 .. 2 |-> IF l = 1 THEN Lane(0, 3, 1) ELSE Lane(3, 1, 2)]]}

\* One lane whose very first nonce, the number 0, is a hit.
DigestsZero == {[k \in Keys |-> [l \in {1} |-> Lane(2, 1, 1)]]}
=============================================================================
