--------------------------- MODULE MCReclamation ---------------------------
(* Instances of EvidenceReclamation: the plans of its runs. *)
EXTENDS EvidenceReclamation

CONSTANTS p1, p2, p3

Staging(who, ends, keys, happens) ==
  [scope |-> "staging", owners |-> who, ends |-> ends, keys |-> keys, happens |-> happens]

Capture(who, ends, keys, happens) ==
  [scope |-> "capture", owners |-> who, ends |-> ends, keys |-> keys, happens |-> happens]

(* Two preparations of one object with lost bucket calls; a backup; the      *)
(* overlapping executions of one intent; an inventory of two keys.  Then the *)
(* same for source evidence, where a second run may reuse the first's, key 2 *)
(* is derived from a snapshot, and key 3 is a second raw body.               *)
ReclamationPlans ==
  { Staging({p1, p2}, {p1}, {1}, {"lose_put", "lose_delete"}),
    Staging({p1, p2}, {p1}, {1}, {"route"}),
    Staging({p1}, {p1}, {1}, {"backup", "snapshot"}),
    Staging({p1}, {p1}, {1}, {"lose_delete", "route", "lose_step"}),
    Staging({p1}, {p1}, {1}, {"lose_delete", "resume", "exhaust", "undispatched"}),
    Staging({p1}, {p1}, {1, 2}, {"lose_put"}),
    Capture({p1}, {p1}, {1}, {"lose_delete", "route"}),
    Capture({p1}, {p1}, {1}, {"lose_delete", "lose_step", "records", "pin"}),
    Capture({p1}, {p1}, {1}, {"lose_delete", "resume"}),
    Capture({p1}, {p1}, {1}, {"sweep", "discard", "pin"}),
    Capture({p1, p2}, {p1, p2}, {1}, {"share"}),
    Capture({p1}, {p1}, {1}, {"backup", "snapshot"}),
    Capture({p1}, {p1}, {1, 2}, {"derive", "pin", "retain", "lose_delete"}),
    Capture({p1}, {p1}, {1, 3}, {"depend", "retain", "pin"}),
    Capture({p1}, {p1}, {1, 3}, {"exhaust", "undispatched"}) }

(* Three preparations that share one object, and nothing that fails. *)
SharedObject == {Staging({p1, p2, p3}, {p1}, {1}, {})}
=============================================================================
