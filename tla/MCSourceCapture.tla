-------------------------- MODULE MCSourceCapture --------------------------
(* Instances of SourceCapture for TLC. *)
EXTENDS SourceCapture, TLC

CONSTANTS i1, i2, r1, r2

MCCaptures == Requests \X (1 .. MaxParents * AttemptsPerGeneration)
MCOwners == 1 .. maximumHostWorkflowIdentities
SmallBudgets == {[max_dispatches |-> 3, max_source_bytes |-> 5]}
Legacy == [generation |-> 0, max_dispatches |-> 0, max_source_bytes |-> 0]
Scarce == [generation |-> 1, max_dispatches |-> 2, max_source_bytes |-> 3]
Ample == [generation |-> 1, max_dispatches |-> 3, max_source_bytes |-> 4]
SmallPolicies == {Legacy, Scarce, Ample}

Plan(invocations, reqs, responses, losses, parents, happens, policies) ==
  [invocations |-> invocations, requests |-> reqs, responses |-> responses,
   losses |-> losses, parents |-> parents, happens |-> happens, policies |-> policies]

(* Every answer of a source with one callback; two callbacks on one request, *)
(* with a resume, and with a loss; two requests against one allowance; an    *)
(* owner who lets the deadline pass and extends the budget; a shard that     *)
(* loses attempt after attempt; and a parent that halts or is taken for dead.*)
CapturePlans ==
  { Plan({i1}, {r1}, {"rejected", "broken", "unmatched", "unchanged", "busy", "gone", "body"},
         1, 1, {"pause", "terminate"}, {Ample}),
    Plan({i1, i2}, {r1}, {"busy", "body", "unchanged"}, 0, 2, {"pause"}, {Ample}),
    Plan({i1, i2}, {r1}, {"body", "busy"}, 1, 2, {}, {Ample}),
    Plan({i1, i2}, {r1, r2}, {"body"}, 0, 1, {"pause"}, {Scarce}),
    Plan({i1}, {r1}, {"busy", "body"}, 1, 2, {"extend", "expire"}, {Legacy, Scarce}),
    Plan({i1}, {r1}, {"body"}, 3, 1, {}, {Ample}),
    Plan({i1}, {r1}, {"body", "busy"}, 1, 2, {"halt", "recover"}, {Ample}) }

RejectingPlans == {Plan({i1}, {r1}, {"rejected"}, 1, 2, {}, {Ample})}
=============================================================================
