---------------------- MODULE MCPublicationSuccession ----------------------
(* Two instances of GamePublication in one run, told apart by whether the   *)
(* second game has begun.  Succession: it rests, and preparations of one    *)
(* game, whose artifacts are never paused, follow each other through        *)
(* pauses, deadlines, snapshots and recoveries.  Acceptance: it has, and    *)
(* three preparations of two games find the same facts, so that one         *)
(* acceptance repeats another and shares its revision; nothing fails,       *)
(* expires or is fenced on the way.                                         *)
EXTENDS MCGamePublication

WithinSuccession ==
  /\ operation'[p3].state = "absent"
  /\ \A p \in Preparations : artifacts'[p] # "retry_paused"

WithinAcceptance ==
  /\ expired' = {} /\ RecoveryVerified'
  /\ \A p, q \in Preparations :
       None \in {candidate'[p].content, candidate'[q].content} \/ candidate'[p].content = candidate'[q].content
  /\ \A p \in Preparations :
       /\ operation'[p].state \notin {"paused", "failed", "abandoned"}
       /\ artifacts'[p] \notin {"retry_paused", "failed"} /\ exports'[p] # "failed"
  /\ \A r \in Runners : runner'[r].pc # "dead"

WithinInstance == WithinSuccession \/ WithinAcceptance

=============================================================================
