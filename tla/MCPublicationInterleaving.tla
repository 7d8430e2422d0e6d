---------------------- MODULE MCPublicationInterleaving ----------------------
(* Two instances of GamePublication in one run, told apart by whether the   *)
(* second game has begun.  Contention: it has, artifacts succeed, there are *)
(* no resumes, deadlines, recoveries or releases, and only a snapshot moves *)
(* the health fence.  Lifecycle: it rests, and one preparation goes through *)
(* every pause, resume, fence and deadline.                                 *)
EXTENDS MCGamePublication

WithinContention ==
  /\ expired' = {} /\ ~active_recovery' /\ ~active_release'
  /\ recovery_health' \in {"healthy", "blocked"}
  /\ recovery_health' = "blocked" => recovery_restore_guard' = "blocked"
  /\ \A p \in Preparations :
       /\ operation'[p].state \in {"preparing", "paused"} => operation'[p].generation = 0
       /\ publication'[p].generation = 0
       /\ artifacts'[p] \notin {"retry_paused", "failed"}

WithinLifecycle == operation'[p3].state = "absent"

WithinInstance == WithinContention \/ WithinLifecycle

=============================================================================
