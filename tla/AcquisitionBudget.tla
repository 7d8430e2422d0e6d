------------------------- MODULE AcquisitionBudget -------------------------
(***************************************************************************)
(* The acquisition budget of one Ingestion Run: the account that every     *)
(* Official Source request is charged to before it is sent, the policy     *)
(* generations that bound it, the dispatch reservations, and the object    *)
(* writers opened with them.                                               *)
(*                                                                         *)
(*   policy       the latest ingestion_acquisition_policies row;           *)
(*                generation 0 is a run with no account (a legacy run)     *)
(*   expired      dispatch_deadline <= now                                 *)
(*   account      ingestion_acquisition_accounts                           *)
(*   dispatches   source_dispatch_reservations in insertion order; a       *)
(*                random reservation id is its position                    *)
(*   writers      tokens of evidence_object_writers with no completed_at;  *)
(*                a raw writer's token is its reservation id               *)
(*                                                                         *)
(* Each operator is one atomic batch, with the WHERE clauses, triggers and *)
(* CHECKs of its statements as guards.  Spec is the account under an       *)
(* arbitrary client; SourceCapture is the client the program has.          *)
(***************************************************************************)
EXTENDS Integers, Sequences

CONSTANTS Captures,        \* capture operations
          Owners,          \* Workflow instances that dispatch
          Budgets,         \* limits an owner may ask for
          DispatchSizes,   \* adapter limits on one response
          Baselines,       \* retained raw bytes of a legacy run
          InitialPolicies  \* what a run may start with

ASSUME BudgetAssumption ==
  /\ Budgets \subseteq [max_dispatches : Nat \ {0}, max_source_bytes : Nat \ {0}]
  /\ DispatchSizes \subseteq Nat \ {0}
  /\ Baselines \subseteq Nat
  /\ InitialPolicies \subseteq [generation : {0, 1}, max_dispatches : Nat, max_source_bytes : Nat]

VARIABLES policy, expired, account, dispatches, writers

budgetVars == <<policy, expired, account, dispatches, writers>>

Null == -1   \* an unsettled reservation has no charge: the CHECK of 0042

DispatchRow == [capture : Captures, owner : Owners, generation : Nat,
                maximum : DispatchSizes, charged : Nat \cup {Null}]

Account(baseline, requestCount, charged, reserved) ==
  [baseline |-> baseline, charged_dispatches |-> requestCount,
   charged_source_bytes |-> charged, reserved_source_bytes |-> reserved]

BudgetTypeOK ==
  /\ policy \in [generation : Nat, max_dispatches : Nat, max_source_bytes : Nat]
  /\ expired \in BOOLEAN
  /\ account \in [baseline : Nat, charged_dispatches : Nat,
                  charged_source_bytes : Nat, reserved_source_bytes : Nat]
  /\ dispatches \in Seq(DispatchRow)
  /\ writers \subseteq DOMAIN dispatches

BudgetInit ==
  /\ policy \in InitialPolicies
  /\ expired = FALSE
  /\ account = Account(0, 0, 0, 0)
  /\ dispatches = <<>>
  /\ writers = {}

-----------------------------------------------------------------------------
Unsettled == {d \in DOMAIN dispatches : dispatches[d].charged = Null}

(* Mutant: the remaining allowance forgets what is only reserved. *)
RemainingBytesUnreserved == policy.max_source_bytes - account.charged_source_bytes

RemainingBytes ==
  policy.max_source_bytes - account.charged_source_bytes - account.reserved_source_bytes

(* An unsettled reservation, or an unfinished write of the key, means an     *)
(* earlier physical request may still be running.                            *)
OwnershipPending(capture) ==
  \/ \E d \in Unsettled : dispatches[d].capture = capture
  \/ \E w \in writers : dispatches[w].capture = capture

limitingDimension(maximum) ==
  IF policy.generation = 0 THEN "policy_missing"
  ELSE IF expired THEN "deadline"
  ELSE IF account.charged_dispatches >= policy.max_dispatches THEN "dispatches"
  ELSE IF maximum > RemainingBytes THEN "source_bytes"
  ELSE "none"

(* Mutant: a replayed reservation that looks at the budget alone. *)
AdmitsReplay(capture, maximum) == limitingDimension(maximum) = "none"

Admits(capture, maximum) ==
  limitingDimension(maximum) = "none" /\ ~OwnershipPending(capture)

(* The INSERT ... SELECT, the account update and the writer row. *)
ReserveSourceDispatch(capture, owner, maximum) ==
  /\ Admits(capture, maximum)
  /\ dispatches' = Append(dispatches,
       [capture |-> capture, owner |-> owner, generation |-> policy.generation,
        maximum |-> maximum, charged |-> Null])
  /\ account' = Account(account.baseline, account.charged_dispatches + 1,
                        account.charged_source_bytes,
                        account.reserved_source_bytes + maximum)
  /\ writers' = writers \cup {Len(dispatches) + 1}
  /\ UNCHANGED <<policy, expired>>

Settleable(d, bytes) ==
  /\ d \in Unsettled
  /\ bytes <= dispatches[d].maximum
  /\ account.reserved_source_bytes >= dispatches[d].maximum  \* CHECK of 0042

(* Mutant: a settlement that releases the reservation and charges nothing. *)
SettleWithoutCharge(d, bytes) ==
  /\ Settleable(d, bytes)
  /\ dispatches' = [dispatches EXCEPT ![d].charged = bytes]
  /\ account' = Account(account.baseline, account.charged_dispatches,
                        account.charged_source_bytes,
                        account.reserved_source_bytes - dispatches[d].maximum)
  /\ writers' = writers \ {d}
  /\ UNCHANGED <<policy, expired>>

(* Settling is the UPDATE that turns exposure into a charge; repeated, or    *)
(* for more bytes than were reserved, it changes no row.                     *)
SettleSourceDispatch(d, bytes) ==
  /\ Settleable(d, bytes)
  /\ dispatches' = [dispatches EXCEPT ![d].charged = bytes]
  /\ account' = Account(account.baseline, account.charged_dispatches,
                        account.charged_source_bytes + bytes,
                        account.reserved_source_bytes - dispatches[d].maximum)
  /\ writers' = writers \ {d}
  /\ UNCHANGED <<policy, expired>>

CompleteEvidenceObjectWrite(d) ==
  /\ writers' = writers \ {d}
  /\ UNCHANGED <<policy, expired, account, dispatches>>

PassDeadline ==
  /\ policy.generation > 0 /\ ~expired
  /\ expired' = TRUE
  /\ UNCHANGED <<policy, account, dispatches, writers>>

(* A new generation lowers nothing, raises something, and leaves a deadline  *)
(* in the future.                                                            *)
ExtendAcquisitionBudget(limits, laterDeadline) ==
  /\ policy.generation > 0
  /\ limits.max_dispatches >= policy.max_dispatches
  /\ limits.max_source_bytes >= policy.max_source_bytes
  /\ \/ laterDeadline
     \/ limits.max_dispatches > policy.max_dispatches
     \/ limits.max_source_bytes > policy.max_source_bytes
  /\ laterDeadline \/ ~expired
  /\ policy' = [generation |-> policy.generation + 1,
                max_dispatches |-> limits.max_dispatches,
                max_source_bytes |-> limits.max_source_bytes]
  /\ expired' = FALSE
  /\ UNCHANGED <<account, dispatches, writers>>

(* A legacy run opens its account with the verified bytes it already kept. *)
InitializeLegacyBudget(limits, baseline) ==
  /\ policy.generation = 0
  /\ writers = {}
  /\ baseline <= limits.max_source_bytes
  /\ policy' = [generation |-> 1, max_dispatches |-> limits.max_dispatches,
                max_source_bytes |-> limits.max_source_bytes]
  /\ account' = Account(baseline, 0, baseline, 0)
  /\ UNCHANGED <<expired, dispatches, writers>>

BudgetNext ==
  \/ \E c \in Captures, o \in Owners, m \in DispatchSizes : ReserveSourceDispatch(c, o, m)
  \/ \E d \in DOMAIN dispatches : \E bytes \in 0 .. dispatches[d].maximum : SettleSourceDispatch(d, bytes)
  \/ \E d \in DOMAIN dispatches : CompleteEvidenceObjectWrite(d)
  \/ PassDeadline
  \/ \E l \in Budgets, later \in BOOLEAN : ExtendAcquisitionBudget(l, later)
  \/ \E l \in Budgets, b \in Baselines : InitializeLegacyBudget(l, b)

BudgetSpec == BudgetInit /\ [][BudgetNext]_budgetVars

-----------------------------------------------------------------------------
(* However many shards dispatch at once, and whichever of them settle, what  *)
(* was charged and what is still exposed fit the latest allowance.           *)
(* (reserveSourceDispatch, settleSourceDispatch)                             *)
WithinAllowance ==
  policy.generation > 0 =>
    /\ account.charged_dispatches <= policy.max_dispatches
    /\ account.charged_source_bytes + account.reserved_source_bytes <= policy.max_source_bytes

(* A capture has at most one unsettled reservation and its key at most one   *)
(* unfinished writer, so a lost acknowledgement never buys a second permit.  *)
OneOwnerPerCapture ==
  /\ \A d, e \in Unsettled : dispatches[d].capture = dispatches[e].capture => d = e
  /\ \A v, w \in writers : dispatches[v].capture = dispatches[w].capture => v = w

(* The account is the ledger: every reservation ever made was charged once.  *)
ChargesCountReservations == account.charged_dispatches = Len(dispatches)

(* The sum of the first n amounts. *)
Total(amount, n) ==
  LET sum[k \in 0 .. n] == IF k = 0 THEN 0 ELSE sum[k - 1] + amount[k]
  IN sum[n]

(* What a reservation still exposes, and what it was charged. *)
Exposure == [d \in DOMAIN dispatches |-> IF d \in Unsettled THEN dispatches[d].maximum ELSE 0]
Charge == [d \in DOMAIN dispatches |-> IF d \in Unsettled THEN 0 ELSE dispatches[d].charged]

(* The account equals the sum of its reservations, settled and not, however  *)
(* invocations, recoveries and sweeps interleave.  (settleSourceDispatch)    *)
AccountMatchesLedger ==
  /\ account.reserved_source_bytes = Total(Exposure, Len(dispatches))
  /\ account.charged_source_bytes = account.baseline + Total(Charge, Len(dispatches))
=============================================================================
