--------------------------- MODULE SettingsProofs ---------------------------
(***************************************************************************)
(* The settings for any ports, relays and targets: the types, what the     *)
(* running server uses, what it grinds for, and what the form shows.       *)
(***************************************************************************)
EXTENDS Settings, TLAPS

\* ServesStored and FoundIsKept need each other's types only: together they are
\* inductive.
IInv == TypeOK /\ ServesStored /\ FoundIsKept

LEMMA Numbers == Limit \in Nat /\ SpinMax \in Nat /\ SpinMax <= Limit /\ 0 \in Bits
BY SettingsAssumption DEF Bits

\* A spin box shows a target that it can show.
LEMMA ShownType ==
  ASSUME NEW c \in Setting PROVE Shown(c) \in Setting /\ Shown(c).target <= SpinMax
<1>1. c.target \in Bits
  BY DEF Setting
<1>2. CASE c.target > SpinMax
  <2>1. Shown(c) = [c EXCEPT !.target = SpinMax]
    BY <1>2 DEF Shown
  <2>2. SpinMax \in Bits
    BY Numbers DEF Bits
  <2>3. QED
    BY <2>1, <2>2, Numbers DEF Setting
<1>3. CASE ~(c.target > SpinMax)
  <2>1. Shown(c) = c
    BY <1>3 DEF Shown, Setting
  <2>2. QED
    BY <1>1, <1>3, <2>1, Numbers DEF Bits
<1>4. QED
  BY <1>2, <1>3

\* However many assignments a save made, the config holds settings.
LEMMA AssignedType ==
  ASSUME TypeOK, NEW k \in 0 .. 3 PROVE Assigned(k) \in Setting
BY DEF TypeOK, Assigned, Setting

LEMMA InitHolds == Init => IInv
<1> SUFFICES ASSUME Init PROVE IInv
  OBVIOUS
<1>1. TypeOK
  BY Numbers, ShownType DEF Init, TypeOK, Larger
<1>2. ServesStored /\ FoundIsKept
  BY DEF Init, ServesStored, FoundIsKept, Larger, Bits
<1>3. QED
  BY <1>1, <1>2 DEF IInv

LEMMA InvariantKept == IInv /\ [Next]_vars => IInv'
<1> SUFFICES ASSUME IInv, [Next]_vars PROVE IInv'
  OBVIOUS
<1> USE Numbers DEF IInv, serverVars
<1>1. CASE Toggle
  <2>1. TypeOK'
    BY <1>1, ShownType, AssignedType DEF Toggle, TypeOK, Setting, Bits, Start, Stop
  <2>2. ServesStored'
    BY <1>1, AssignedType DEF Toggle, ServesStored, TypeOK, Setting, Bits, Start, Stop, TransportChanged
  <2>3. FoundIsKept'
    BY <1>1 DEF Toggle, FoundIsKept, Start, Stop
  <2>4. QED
    BY <2>1, <2>2, <2>3
<1>2. CASE Relaunch
  <2>1. TypeOK'
    BY <1>2, ShownType, AssignedType DEF Relaunch, TypeOK, Setting, Bits, Start, Stop
  <2>2. ServesStored'
    BY <1>2, AssignedType DEF Relaunch, ServesStored, TypeOK, Setting, Bits, Start, Stop, TransportChanged
  <2>3. FoundIsKept'
    BY <1>2 DEF Relaunch, FoundIsKept, Start, Stop
  <2>4. QED
    BY <2>1, <2>2, <2>3
<1>3. CASE Edit
  <2>1. TypeOK'
    BY <1>3, ShownType, AssignedType DEF Edit, TypeOK, Setting, Bits, Start, Stop
  <2>2. ServesStored'
    BY <1>3, AssignedType DEF Edit, ServesStored, TypeOK, Setting, Bits, Start, Stop, TransportChanged
  <2>3. FoundIsKept'
    BY <1>3 DEF Edit, FoundIsKept, Start, Stop
  <2>4. QED
    BY <2>1, <2>2, <2>3
<1>4. CASE SaveFails
  <2> stored' \in Setting
    <3>1. PICK k \in 0 .. 2 : stored' = Assigned(k)
      BY <1>4 DEF SaveFails
    <3>2. k \in 0 .. 3
      OBVIOUS
    <3>3. QED
      BY <3>1, <3>2, AssignedType
  <2> form' \in Setting /\ form'.target <= SpinMax
    BY <1>4, ShownType DEF SaveFails
  <2>1. TypeOK'
    BY <1>4 DEF SaveFails, TypeOK
  <2>2. ServesStored'
    BY <1>4, AssignedType DEF SaveFails, ServesStored, TypeOK, Setting, Bits, Start, Stop, TransportChanged
  <2>3. FoundIsKept'
    BY <1>4 DEF SaveFails, FoundIsKept, Start, Stop
  <2>4. QED
    BY <2>1, <2>2, <2>3
<1>5. CASE SaveSucceeds
  <2> stored' \in Setting
    <3>1. 3 \in 0 .. 3
      OBVIOUS
    <3>2. QED
      BY <1>5, <3>1, AssignedType DEF SaveSucceeds
  <2> form' \in Setting /\ form'.target <= SpinMax
    BY <1>5, ShownType DEF SaveSucceeds
  <2> DEFINE bounced == on /\ TransportChanged(stored, stored')
  <2>1. TypeOK' /\ ServesStored'
    <3>1. CASE bounced /\ CanRun(stored')
      <4>1. Start(stored')
        BY <1>5, <3>1 DEF SaveSucceeds
      <4>2. TypeOK'
        BY <1>5, <4>1 DEF SaveSucceeds, TypeOK, Start, Setting
      <4>3. ServesStored'
        BY <4>1 DEF ServesStored, Start
      <4>4. QED
        BY <4>2, <4>3
    <3>2. CASE bounced /\ ~CanRun(stored')
      <4>1. Stop
        BY <1>5, <3>2 DEF SaveSucceeds
      <4>2. TypeOK'
        BY <1>5, <4>1 DEF SaveSucceeds, TypeOK, Stop
      <4>3. ServesStored'
        BY <4>1 DEF ServesStored, Stop
      <4>4. QED
        BY <4>2, <4>3
    <3>3. CASE ~bounced
      <4>1. UNCHANGED <<serverVars, torn, autostart, nonce, best>>
        BY <1>5, <3>3 DEF SaveSucceeds
      <4>2. TypeOK'
        BY <1>5, <4>1 DEF SaveSucceeds, TypeOK
      <4>3. ServesStored'
        <5>1. CASE ~on
          BY <4>1, <5>1 DEF ServesStored
        <5>2. CASE on
          <6>1. /\ stored'.port = stored.port /\ stored'.relays = stored.relays
                /\ ~(stored'.target > stored.target)
            BY <3>3, <5>2 DEF TransportChanged
          <6>2. stored'.target <= stored.target
            BY <6>1 DEF TypeOK, Setting, Bits
          <6>3. QED
            BY <4>1, <6>1, <6>2 DEF ServesStored, TypeOK, Setting, Bits
        <5>3. QED
          BY <5>1, <5>2
      <4>4. QED
        BY <4>2, <4>3
    <3>4. QED
      BY <3>1, <3>2, <3>3
  <2>3. FoundIsKept'
    BY <1>5 DEF SaveSucceeds, FoundIsKept, Start, Stop
  <2>4. QED
    BY <2>1, <2>3
<1>6. CASE EnsurePow
  <2>1. TypeOK'
    BY <1>6, ShownType, AssignedType DEF EnsurePow, TypeOK, Setting, Bits, Start, Stop
  <2>2. ServesStored'
    BY <1>6, AssignedType DEF EnsurePow, ServesStored, TypeOK, Setting, Bits, Start, Stop, TransportChanged
  <2>3. FoundIsKept'
    BY <1>6 DEF EnsurePow, FoundIsKept, Larger, TypeOK, Setting, Bits
  <2>4. QED
    BY <2>1, <2>2, <2>3
<1>7. CASE Improve
  <2>1. TypeOK'
    BY <1>7 DEF Improve, Larger, TypeOK, Bits
  <2>2. ServesStored'
    BY <1>7, AssignedType DEF Improve, ServesStored, TypeOK, Setting, Bits, Start, Stop, TransportChanged
  <2>3. FoundIsKept'
    BY <1>7 DEF Improve, FoundIsKept, Larger, TypeOK, Bits
  <2>4. QED
    BY <2>1, <2>2, <2>3
<1>8. CASE Found
  <2>1. TypeOK'
    BY <1>8 DEF Found, Larger, TypeOK, Bits
  <2>2. ServesStored'
    BY <1>8, AssignedType DEF Found, ServesStored, TypeOK, Setting, Bits, Start, Stop, TransportChanged
  <2>3. FoundIsKept'
    BY <1>8 DEF Found, FoundIsKept, Larger, TypeOK, Bits
  <2>4. QED
    BY <2>1, <2>2, <2>3
<1>9. CASE Dial
  <2>1. TypeOK'
    BY <1>9, ShownType, AssignedType DEF Dial, TypeOK, Setting, Bits, Start, Stop
  <2>2. ServesStored'
    BY <1>9, AssignedType DEF Dial, ServesStored, TypeOK, Setting, Bits, Start, Stop, TransportChanged
  <2>3. FoundIsKept'
    BY <1>9 DEF Dial, FoundIsKept, Start, Stop
  <2>4. QED
    BY <2>1, <2>2, <2>3
<1>10. CASE Redial
  <2>1. TypeOK'
    BY <1>10, ShownType, AssignedType DEF Redial, TypeOK, Setting, Bits, Start, Stop
  <2>2. ServesStored'
    BY <1>10, AssignedType DEF Redial, ServesStored, TypeOK, Setting, Bits, Start, Stop, TransportChanged
  <2>3. FoundIsKept'
    BY <1>10 DEF Redial, FoundIsKept, Start, Stop
  <2>4. QED
    BY <2>1, <2>2, <2>3
<1>11. CASE UNCHANGED vars
  BY <1>11 DEF vars, TypeOK, ServesStored, FoundIsKept
<1>12. QED
  BY <1>1, <1>2, <1>3, <1>4, <1>5, <1>6, <1>7, <1>8, <1>9, <1>10, <1>11 DEF Next

LEMMA Invariant == Spec => []IInv
<1>1. QED
  BY InitHolds, InvariantKept, PTL DEF Spec

\* Every variable has its type.
THEOREM TypeCorrect == Spec => []TypeOK
<1>1. IInv => TypeOK
  BY DEF IInv
<1>2. QED
  BY <1>1, Invariant, PTL

\* A running server uses the settings that are stored, as long as no save has
\* failed under it: on_save bounces it for every change that it does not read
\* live.
THEOREM StoredIsServed == Spec => []ServesStored
<1>1. IInv => ServesStored
  BY DEF IInv
<1>2. QED
  BY <1>1, Invariant, PTL

\* The best nonce that was ever found is at hand, through every save, failed save,
\* stop and relaunch, and nothing it reaches is ground for again.
THEOREM NothingFoundLost == Spec => []FoundIsKept
<1>1. IInv => FoundIsKept
  BY DEF IInv
<1>2. QED
  BY <1>1, Invariant, PTL

\* If the spin box could show every target, the form would show what is stored
\* until the operator touches it, after failed saves too.
THEOREM FormShowsStored == ASSUME SpinMax = Limit PROVE Spec => []FormHonest
<1>1. ASSUME NEW c \in Setting PROVE Shown(c) = c
  BY <1>1, Numbers DEF Shown, Setting, Bits
<1>2. Init => FormHonest
  BY <1>1 DEF Init, FormHonest
<1>3. IInv /\ FormHonest /\ [Next]_vars => FormHonest'
  <2> SUFFICES ASSUME IInv, FormHonest, [Next]_vars PROVE FormHonest'
    OBVIOUS
  <2> USE DEF FormHonest
  <2>1. CASE Relaunch
    BY <1>1, <2>1 DEF Relaunch, IInv, TypeOK
  <2>2. CASE SaveFails
    BY <1>1, <2>2, AssignedType DEF SaveFails, IInv
  <2>3. CASE SaveSucceeds
    BY <1>1, <2>3, AssignedType DEF SaveSucceeds, IInv
  <2>4. CASE UNCHANGED <<stored, form, edited>> \/ Edit
    BY <2>4 DEF Edit
  <2>5. QED
    BY <2>1, <2>2, <2>3, <2>4 DEF Next, vars, Toggle, EnsurePow, Improve, Found, Dial, Redial
<1>4. QED
  BY <1>2, <1>3, Invariant, PTL DEF Spec
=============================================================================
