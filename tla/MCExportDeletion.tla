-------------------------- MODULE MCExportDeletion --------------------------
(* Instances of ExportDeletion: the scenarios of its runs. *)
EXTENDS ExportDeletion, TLC

CONSTANTS c1, c2, c3, d1, d2, y1, y2

Behaviour(confirmations, keys, happens, troubles) ==
  [confirmations |-> confirmations, retries |-> keys, happens |-> happens, troubles |-> troubles]

(* Two plans for one export while revisions are published; a deletion and    *)
(* its retries with two failures, or with one beside publications, beside    *)
(* maintenance, or beside a snapshot that fences every row.                  *)
DeletionScenarios ==
  { Behaviour({d1, d2}, {}, {"publish"}, 0),
    Behaviour({d1}, {y1, y2}, {}, 2),
    Behaviour({d1}, {y1}, {"publish"}, 1),
    Behaviour({d1}, {y1}, {"expire", "maintenance"}, 1),
    Behaviour({d1}, {y1}, {"fence"}, 1) }

CallSymmetry == Permutations(Calls)
=============================================================================
