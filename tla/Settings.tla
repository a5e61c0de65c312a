------------------------------ MODULE Settings ------------------------------
(***************************************************************************)
(* The settings form, the settings stored in Electrum's config, and what   *)
(* of them a running server uses: start_server takes the port with it, the *)
(* announce task reads the target when it starts and the relays whenever   *)
(* it builds a transport.  Saving writes the settings one by one, any      *)
(* write may fail, and only some changes bounce the server.                *)
(*                                                                         *)
(* stop_server and start_server are single steps (SwapServer has them in   *)
(* detail).  The fee is read on each request and left out.                 *)
(***************************************************************************)
EXTENDS Integers

CONSTANTS
  Ports,      \* HTTP ports, besides 0 (disabled)
  Relays,     \* relay URLs
  Limit,      \* no target or nonce has more bits
  SpinMax     \* the end of pow_spin's range

ASSUME SettingsAssumption ==
  /\ Limit \in Nat /\ SpinMax \in 0 .. Limit
  /\ Ports \subseteq Nat \ {0}

Bits == 0 .. Limit

VARIABLES
  stored,     \* the config: port, relays, target
  form,       \* what the widgets show
  edited,     \* the operator has touched them since they were loaded
  on, autostart,
  httpPort,   \* the port the running server was given
  task,       \* where the announce task is
  goal,       \* the target it grinds for
  dialled,    \* the relays its transport was built with
  nonce,      \* bits of SWAPSERVER_ANN_POW_NONCE
  best,       \* bits of the best nonce in SWAPSERVER_GUI_POW_STATE
  \* history
  torn,       \* a save failed since the server was started
  settled,    \* the last save, if any, succeeded
  reached     \* the most bits a nonce of this key was ever found to have

serverVars == <<on, httpPort, task, goal, dialled>>
vars == <<stored, form, edited, autostart, serverVars, nonce, best, torn, settled, reached>>

Setting == [port : Ports \cup {0}, relays : SUBSET Relays, target : Bits]

TypeOK ==
  /\ stored \in Setting /\ form \in Setting /\ form.target <= SpinMax
  /\ edited \in BOOLEAN /\ on \in BOOLEAN /\ autostart \in BOOLEAN
  /\ httpPort \in Ports \cup {0}
  /\ task \in {"none", "starting", "grinding", "dialling", "announcing"}
  /\ goal \in Bits /\ dialled \in SUBSET Relays
  /\ nonce \in Bits /\ best \in Bits
  /\ torn \in BOOLEAN /\ settled \in BOOLEAN /\ reached \in Bits

Larger(a, b) == IF a > b THEN a ELSE b

\* load_settings_into_widgets: a spin box shows the nearest value it can.
Shown(c) == [c EXCEPT !.target = IF @ > SpinMax THEN SpinMax ELSE @]

Init ==
  /\ stored \in Setting /\ form = Shown(stored) /\ edited = FALSE
  /\ on = FALSE /\ autostart = FALSE /\ httpPort = 0
  /\ task = "none" /\ goal = 0 /\ dialled = {}
  /\ nonce \in Bits /\ best \in Bits
  /\ torn = FALSE /\ settled = TRUE /\ reached = Larger(nonce, best)

-----------------------------------------------------------------------------
(* The server.                                                             *)

CanRun(c) == c.port # 0 \/ c.relays # {}

\* start_server.
Start(c) ==
  /\ on' = TRUE /\ httpPort' = c.port
  /\ task' = IF c.relays # {} THEN "starting" ELSE "none"
  /\ goal' = 0 /\ dialled' = {} /\ torn' = FALSE

\* stop_server: a grind that is cancelled has saved its progress.
Stop ==
  /\ on' = FALSE /\ httpPort' = 0 /\ task' = "none"
  /\ goal' = 0 /\ dialled' = {} /\ UNCHANGED torn

Toggle ==
  /\ \/ on /\ Stop /\ autostart' = FALSE
     \/ ~on /\ CanRun(stored) /\ Start(stored) /\ autostart' = TRUE
  /\ UNCHANGED <<stored, form, edited, nonce, best, settled, reached>>

\* Electrum is closed and opened again: the hook load_wallet makes a new tab and
\* starts the server if it was left enabled.
Relaunch ==
  /\ form' = Shown(stored) /\ edited' = FALSE /\ settled' = TRUE
  /\ IF autostart /\ CanRun(stored) THEN Start(stored) ELSE Stop
  /\ UNCHANGED <<stored, autostart, nonce, best, reached>>

\* Mutant: the best nonce of earlier searches is not looked at.
EnsurePowForgets ==
  /\ task = "starting"
  /\ IF nonce >= stored.target
     THEN task' = "dialling" /\ UNCHANGED goal
     ELSE task' = "grinding" /\ goal' = stored.target
  /\ UNCHANGED <<stored, form, edited, autostart, on, httpPort, dialled, nonce, best, torn,
                 settled, reached>>

\* ensure_pow_nonce up to the grind: the stored nonce will do, or the best one
\* that was ever found, or a new one has to be.
EnsurePow ==
  /\ task = "starting"
  /\ \/ /\ nonce >= stored.target
        /\ task' = "dialling" /\ UNCHANGED <<goal, nonce>>
     \/ /\ nonce < stored.target /\ best >= stored.target
        /\ nonce' = best /\ task' = "dialling" /\ UNCHANGED goal
     \/ /\ nonce < stored.target /\ best < stored.target
        /\ task' = "grinding" /\ goal' = stored.target /\ UNCHANGED nonce
  /\ UNCHANGED <<stored, form, edited, autostart, on, httpPort, dialled, best, torn, settled,
                 reached>>

\* The grind has a better nonce, though not a good one.
Improve ==
  /\ task = "grinding"
  /\ best' \in best + 1 .. goal - 1 /\ reached' = Larger(reached, best')
  /\ UNCHANGED <<stored, form, edited, autostart, serverVars, nonce, torn, settled>>

\* Mutant: the highest target is out of the grind's reach.
FoundShort ==
  /\ task = "grinding" /\ goal < Limit
  /\ nonce' \in goal .. Limit /\ best' = nonce' /\ task' = "dialling"
  /\ reached' = Larger(reached, nonce')
  /\ UNCHANGED <<stored, form, edited, autostart, on, httpPort, goal, dialled, torn, settled>>

\* The grind is done.
Found ==
  /\ task = "grinding"
  /\ nonce' \in goal .. Limit /\ best' = nonce' /\ task' = "dialling"
  /\ reached' = Larger(reached, nonce')
  /\ UNCHANGED <<stored, form, edited, autostart, on, httpPort, goal, dialled, torn, settled>>

\* A transport is built for the relays of the moment, and offers are sent.
Dial ==
  /\ task = "dialling" /\ stored.relays # {}
  /\ dialled' = stored.relays /\ task' = "announcing"
  /\ UNCHANGED <<stored, form, edited, autostart, on, httpPort, goal, nonce, best, torn, settled,
                 reached>>

\* The transport is recycled, or its relays are gone.
Redial ==
  /\ task = "announcing"
  /\ task' = "dialling" /\ dialled' = {}
  /\ UNCHANGED <<stored, form, edited, autostart, on, httpPort, goal, nonce, best, torn, settled,
                 reached>>

-----------------------------------------------------------------------------
(* The form.                                                               *)

Edit ==
  /\ form' \in {f \in Setting : f.target <= SpinMax} /\ edited' = TRUE
  /\ UNCHANGED <<stored, autostart, serverVars, nonce, best, torn, settled, reached>>

\* What is in the config when save_settings has made its first k assignments.
Assigned(k) ==
  [port   |-> IF k >= 1 THEN form.port   ELSE stored.port,
   target |-> IF k >= 2 THEN form.target ELSE stored.target,
   relays |-> IF k >= 3 THEN form.relays ELSE stored.relays]

\* Mutant: a failed save returns without reloading the form.
SaveFailsNoReload ==
  /\ \E k \in 0 .. 2 : stored' = Assigned(k)
  /\ torn' = TRUE /\ settled' = FALSE /\ edited' = FALSE
  /\ UNCHANGED <<form, autostart, serverVars, nonce, best, reached>>

\* on_save, when an assignment raises.
SaveFails ==
  /\ \E k \in 0 .. 2 : stored' = Assigned(k)
  /\ form' = Shown(stored') /\ edited' = FALSE
  /\ torn' = TRUE /\ settled' = FALSE
  /\ UNCHANGED <<autostart, serverVars, nonce, best, reached>>

\* Mutant: raising the target is taken for a change the server reads live.
TransportChangedNoTarget(old, new) == new.port # old.port \/ new.relays # old.relays

TransportChanged(old, new) ==
  new.port # old.port \/ new.relays # old.relays \/ new.target > old.target

\* on_save, when all is written.  Declining the question it may ask first leaves
\* everything as it was.
SaveSucceeds ==
  /\ stored' = Assigned(3) /\ form' = Shown(stored') /\ edited' = FALSE
  /\ settled' = TRUE
  /\ \/ /\ on /\ TransportChanged(stored, stored')
        /\ IF CanRun(stored') THEN Start(stored') ELSE Stop
     \/ /\ ~(on /\ TransportChanged(stored, stored'))
        /\ UNCHANGED <<serverVars, torn>>
  /\ UNCHANGED <<autostart, nonce, best, reached>>

Next ==
  \/ Toggle \/ Relaunch \/ Edit \/ SaveFails \/ SaveSucceeds
  \/ EnsurePow \/ Improve \/ Found \/ Dial \/ Redial

Spec == Init /\ [][Next]_vars

\* The loop runs the announce task, a grind comes to its end, and a relay answers.
FairSpec == Spec /\ WF_vars(EnsurePow) /\ WF_vars(Found) /\ WF_vars(Dial)

-----------------------------------------------------------------------------
(* Properties.                                                             *)

\* Until the operator touches it again, the form shows what is stored, also
\* after a save that failed half-way (on_save's except clause reloads it).
FormHonest == ~edited => form = stored

\* A server that runs uses the settings that are stored, whatever was edited,
\* saved and restarted in between, as long as no save has failed under it: the
\* port it listens on, the relays it talks to, and a nonce good enough for the
\* target, also while its announce task was only starting or grinding when the
\* settings changed (transport_changed in on_save decides who is bounced).
ServesStored ==
  on /\ ~torn =>
    /\ httpPort = stored.port
    /\ (task # "none") <=> (stored.relays # {})
    /\ task = "announcing" => dialled = stored.relays
    /\ task \in {"dialling", "announcing"} => nonce >= stored.target
    /\ task = "grinding" => goal >= stored.target

\* A nonce once found is not lost, whether it ended a search or was only the best
\* of one that was broken off, and whatever was saved and restarted since: its bits
\* are still at hand, and a target they reach is not searched for again
\* (ensure_pow_nonce looks at the announced nonce and at the best one).
FoundIsKept ==
  /\ reached <= Larger(nonce, best)
  /\ task = "grinding" => reached < goal

\* A server that was started for nostr comes to announce, or is stopped, unless
\* the operator keeps restarting it or a save failed under it (the pow gate, the
\* grind and the transport it passes on the way take their settings at different
\* times, and none of them may wait for one it was not given).
StartBearsFruit ==
  \/ []<><<SaveSucceeds \/ Relaunch>>_vars
  \/ task = "starting" ~> task \in {"announcing", "none"} \/ torn

\* "A port/relay change needs a server restart" (qt.py:806): after a save that
\* succeeded the running server listens on the stored port.  An earlier save that
\* failed after storing the port has left nothing for this one to compare with.
SavedPortServed == on /\ settled => httpPort = stored.port

\* "The fee is read live on each request, and lowering the target keeps the
\* existing nonce valid, so neither needs a bounce" (qt.py:808): no server keeps
\* grinding, and silent, with a nonce at hand that the stored target admits.
NoNeedlessGrind == settled /\ task = "grinding" => best < stored.target
=============================================================================
