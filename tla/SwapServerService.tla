-------------------------- MODULE SwapServerService --------------------------
(***************************************************************************)
(* The lifecycle of SwapServer keeps the promise of AnnounceService: the   *)
(* announcers are the tasks spawned with _nostr_startup.                   *)
(***************************************************************************)
EXTENDS SwapServer

Unfinished(t) == pc[N(t)] \notin Finished \cup {"none"}

\* The CancelledError is raised in task t at its next step, or is on its way
\* through __aexit__.
Heard(t) == cancelled[N(t)] /\ (mustCancel[N(t)] \/ dying[t])

Stage(t) ==
  IF pc[N(t)] = "none" THEN "unborn"
  ELSE IF pc[N(t)] \in Finished THEN "over"
  ELSE IF ~cancelled[N(t)] THEN "working"
  ELSE IF ~Heard(t) THEN "told" ELSE "leaving"

Service == INSTANCE AnnounceService WITH
             Announcers <- Spawns,
             on         <- running,
             stage      <- [t \in Spawns |-> Stage(t)],
             sending    <- {t \in Spawns : pc[N(t)] = "publish"}

\* start_server, stop_server, supervise and the cancellation of tasks, with the
\* Qt thread and the loop interleaved, implement the service: one announcer at a
\* time, none after it has heard that it must go, and none that comes back.
ServiceKept == Service!Spec
==============================================================================
