------------------------- MODULE MCCatalogueBackup --------------------------
(* Instances of CatalogueBackup. *)
EXTENDS CatalogueBackup, TLC

CONSTANTS a1, a2, r1, r2

Publication ==
  [requesters |-> {"publication"}, attempts |-> 1, writes |-> 2, points |-> Calls,
   crashes |-> 1, timeouts |-> 0, faults |-> 1]

(* One publication's backup whose tries overlap, with a recovery, and a     *)
(* crash or a failed call.  The removal of the index does not fail: the     *)
(* code then opens reads without an index.                                  *)
Overlap ==
  [Publication EXCEPT !.requesters = @ \cup {"recovery"}, !.timeouts = 1,
                      !.points = Calls \ {"drop"}]

(* Two attempts, one after or beside the other: of publications, the owner  *)
(* and their retries after a crash, while the catalogue is written ...      *)
Succession ==
  [Publication EXCEPT !.requesters = {"publication", "maintenance", "retry"},
                      !.attempts = 2, !.faults = 0]

(* ... and of publications and the owner around the calls whose failure is  *)
(* handled on the spot, while runs are ingested.                            *)
Ingestion ==
  [Publication EXCEPT !.requesters = {"publication", "maintenance", "ingestion"},
                      !.attempts = 2, !.writes = 0, !.crashes = 0,
                      !.points = {"fence", "dump", "rebuild", "verify"}]

SafetyPlans ==
  {[Overlap EXCEPT !.faults = 0], [Overlap EXCEPT !.crashes = 0], Succession, Ingestion}
FaultyPlans == {[Publication EXCEPT !.faults = 3]}
MaintenanceCrash ==
  {[Publication EXCEPT !.requesters = {"maintenance"}, !.writes = 0, !.faults = 0]}

RunnerSymmetry == Permutations({r1, r2})
BackupSymmetry == Permutations(Attempts) \cup Permutations({r1, r2})
=============================================================================
