---------------------- MODULE AcquisitionBudgetProofs ----------------------
(***************************************************************************)
(* Proofs about AcquisitionBudget: under any client, for any limits and    *)
(* any number of captures and owners, the account stays within the latest  *)
(* allowance, a capture never has two owners, and the account is the sum   *)
(* of its ledger.                                                          *)
(***************************************************************************)
EXTENDS AcquisitionBudget, WellFoundedInduction, TLAPS

(* The inductive invariant.  The count of reservations ties the ledger to    *)
(* the account, and a run without an account has an empty ledger.            *)
NothingSpent ==
  dispatches = <<>> /\ writers = {} /\ account = Account(0, 0, 0, 0)

BudgetInvariant ==
  /\ BudgetTypeOK
  /\ WithinAllowance
  /\ OneOwnerPerCapture
  /\ ChargesCountReservations
  /\ policy.generation = 0 => NothingSpent

(* A run that starts has spent nothing.  (initialAcquisitionStatements) *)
LEMMA InitEstablishes == BudgetInit => BudgetInvariant
<1> SUFFICES ASSUME BudgetInit PROVE BudgetInvariant
  OBVIOUS
<1>1. BudgetTypeOK
  <2>1. policy \in [generation : Nat, max_dispatches : Nat, max_source_bytes : Nat]
    BY BudgetAssumption DEF BudgetInit
  <2>2. expired \in BOOLEAN
    BY Zenon DEF BudgetInit
  <2>3. /\ account \in [baseline : Nat, charged_dispatches : Nat,
                         charged_source_bytes : Nat, reserved_source_bytes : Nat]
        /\ dispatches \in Seq(DispatchRow) /\ writers \subseteq DOMAIN dispatches
    BY DEF BudgetInit, Account
  <2> QED
    BY <2>1, <2>2, <2>3 DEF BudgetTypeOK
<1>2. WithinAllowance
  BY BudgetAssumption DEF BudgetInit, WithinAllowance, Account
<1>3. OneOwnerPerCapture
  BY DEF BudgetInit, OneOwnerPerCapture, Unsettled
<1>4. ChargesCountReservations
  BY DEF BudgetInit, ChargesCountReservations, Account
<1> QED
  BY <1>1, <1>2, <1>3, <1>4 DEF BudgetInvariant, BudgetInit, NothingSpent

(* Admission is what the WHERE clause of the reservation asks for. *)
LEMMA AdmissionMeans ==
  ASSUME BudgetTypeOK, NEW c, NEW m \in DispatchSizes, Admits(c, m)
  PROVE  /\ policy.generation > 0
         /\ account.charged_dispatches < policy.max_dispatches
         /\ m <= policy.max_source_bytes - account.charged_source_bytes - account.reserved_source_bytes
         /\ \A d \in Unsettled : dispatches[d].capture # c
         /\ \A w \in writers : dispatches[w].capture # c
<1> m \in Nat
  BY BudgetAssumption
<1> /\ policy.generation \in Nat /\ policy.max_dispatches \in Nat /\ policy.max_source_bytes \in Nat
    /\ account.charged_dispatches \in Nat /\ account.charged_source_bytes \in Nat
    /\ account.reserved_source_bytes \in Nat
  BY DEF BudgetTypeOK
<1>1. limitingDimension(m) = "none"
  BY DEF Admits
<1>2. /\ policy.generation # 0
      /\ ~(account.charged_dispatches >= policy.max_dispatches)
      /\ ~(m > RemainingBytes)
  BY <1>1 DEF limitingDimension
<1>3. ~OwnershipPending(c)
  BY DEF Admits
<1> QED
  BY <1>2, <1>3 DEF RemainingBytes, OwnershipPending

(* A reservation keeps the invariant: the allowance it takes was free, and   *)
(* the capture had neither an unsettled reservation nor an open writer.      *)
LEMMA ReservePreserves ==
  ASSUME BudgetInvariant, NEW c \in Captures, NEW o \in Owners, NEW m \in DispatchSizes,
         ReserveSourceDispatch(c, o, m)
  PROVE  BudgetInvariant'
<1> DEFINE n == Len(dispatches) + 1
           row == [capture |-> c, owner |-> o, generation |-> policy.generation,
                   maximum |-> m, charged |-> Null]
<1> USE DEF BudgetInvariant
<1>1. /\ BudgetTypeOK /\ m \in Nat /\ row \in DispatchRow
      /\ dispatches \in Seq(DispatchRow)
  BY BudgetAssumption DEF BudgetTypeOK, DispatchRow
<1>2. /\ dispatches' = Append(dispatches, row)
      /\ dispatches' \in Seq(DispatchRow)
      /\ Len(dispatches') = n /\ DOMAIN dispatches' = 1 .. n
      /\ DOMAIN dispatches = 1 .. Len(dispatches) /\ Len(dispatches) \in Nat
      /\ dispatches'[n] = row
      /\ \A d \in DOMAIN dispatches : dispatches'[d] = dispatches[d]
  BY <1>1 DEF ReserveSourceDispatch
<1>3. /\ policy.generation > 0
      /\ account.charged_dispatches < policy.max_dispatches
      /\ m <= policy.max_source_bytes - account.charged_source_bytes - account.reserved_source_bytes
      /\ \A d \in Unsettled : dispatches[d].capture # c
      /\ \A w \in writers : dispatches[w].capture # c
  BY <1>1, AdmissionMeans DEF ReserveSourceDispatch
<1>4. BudgetTypeOK'
  <2>1. writers' \subseteq DOMAIN dispatches'
    BY <1>1, <1>2, SMTT(30) DEF ReserveSourceDispatch, BudgetTypeOK
  <2>2. account' \in [baseline : Nat, charged_dispatches : Nat,
                      charged_source_bytes : Nat, reserved_source_bytes : Nat]
    BY <1>1, SMTT(30) DEF ReserveSourceDispatch, BudgetTypeOK, Account
  <2> QED
    BY <1>1, <1>2, <2>1, <2>2, SMTT(30) DEF ReserveSourceDispatch, BudgetTypeOK
<1>5. WithinAllowance'
  BY <1>1, <1>3, SMTT(30) DEF ReserveSourceDispatch, WithinAllowance, BudgetTypeOK, Account
<1>6. ChargesCountReservations'
  BY <1>1, <1>2 DEF ReserveSourceDispatch, ChargesCountReservations, BudgetTypeOK, Account
<1>7. Unsettled' = Unsettled \cup {n}
  BY <1>2 DEF Unsettled
<1>8. OneOwnerPerCapture'
  <2>1. \A d \in Unsettled : d \in DOMAIN dispatches
    BY DEF Unsettled
  <2>2. writers \subseteq DOMAIN dispatches /\ writers' = writers \cup {n}
    BY <1>1 DEF BudgetTypeOK, ReserveSourceDispatch
  <2>3. dispatches'[n].capture = c
    BY <1>2
  <2> QED
    BY <1>2, <1>3, <1>7, <2>1, <2>2, <2>3 DEF OneOwnerPerCapture
<1>9. policy'.generation # 0
  BY <1>3, <1>1 DEF ReserveSourceDispatch, BudgetTypeOK
<1> QED
  BY <1>4, <1>5, <1>6, <1>8, <1>9

(* Settling turns at most the reserved bytes into a charge. *)
LEMMA SettlePreserves ==
  ASSUME BudgetInvariant, NEW d \in DOMAIN dispatches, NEW b \in Nat,
         SettleSourceDispatch(d, b)
  PROVE  BudgetInvariant'
<1> USE DEF BudgetInvariant
<1>1. /\ d \in Unsettled /\ b <= dispatches[d].maximum
      /\ account.reserved_source_bytes >= dispatches[d].maximum
  BY DEF SettleSourceDispatch, Settleable
<1>2. /\ dispatches \in Seq(DispatchRow) /\ DOMAIN dispatches = 1 .. Len(dispatches)
      /\ Len(dispatches) \in Nat
      /\ dispatches[d] \in DispatchRow /\ dispatches[d].maximum \in Nat
  <2>1. dispatches \in Seq(DispatchRow)
    BY DEF BudgetTypeOK
  <2>2. /\ DOMAIN dispatches = 1 .. Len(dispatches) /\ Len(dispatches) \in Nat
        /\ dispatches[d] \in DispatchRow
    BY <2>1
  <2>3. dispatches[d].maximum \in Nat
    BY <2>2, BudgetAssumption, Zenon DEF DispatchRow
  <2> QED
    BY <2>1, <2>2, <2>3
<1> DEFINE row == [dispatches[d] EXCEPT !.charged = b]
<1>a. /\ dispatches' = [dispatches EXCEPT ![d] = row]
      /\ row \in DispatchRow /\ row.capture = dispatches[d].capture /\ row.charged = b
  BY <1>2, Zenon DEF SettleSourceDispatch, DispatchRow
<1> HIDE DEF row
<1>3. /\ DOMAIN dispatches' = DOMAIN dispatches /\ Len(dispatches') = Len(dispatches)
      /\ \A e \in DOMAIN dispatches : dispatches'[e].capture = dispatches[e].capture
      /\ \A e \in DOMAIN dispatches : e # d => dispatches'[e] = dispatches[e]
      /\ dispatches'[d].charged # Null
      /\ dispatches' \in Seq(DispatchRow)
  BY <1>2, <1>a DEF Null
<1>b. /\ account'.baseline = account.baseline
      /\ account'.charged_dispatches = account.charged_dispatches
      /\ account'.charged_source_bytes = account.charged_source_bytes + b
      /\ account'.reserved_source_bytes = account.reserved_source_bytes - dispatches[d].maximum
  BY Zenon DEF SettleSourceDispatch, Account
<1>c. account' = Account(account'.baseline, account'.charged_dispatches,
                         account'.charged_source_bytes, account'.reserved_source_bytes)
  BY Zenon DEF SettleSourceDispatch, Account
<1>d. dispatches[d].maximum \in Nat
  BY <1>2
<1>e. /\ account.baseline \in Nat /\ account.charged_dispatches \in Nat
      /\ account.charged_source_bytes \in Nat /\ account.reserved_source_bytes \in Nat
      /\ policy' = policy /\ policy.max_dispatches \in Nat /\ policy.max_source_bytes \in Nat
  BY DEF SettleSourceDispatch, BudgetTypeOK
<1>f. account'.charged_source_bytes \in Nat /\ account'.reserved_source_bytes \in Nat
  BY <1>1, <1>b, <1>e, <1>d
<1>4. BudgetTypeOK'
  <2>1. account' \in [baseline : Nat, charged_dispatches : Nat,
                      charged_source_bytes : Nat, reserved_source_bytes : Nat]
    BY <1>b, <1>e, <1>c, <1>f DEF Account
  <2>2. writers' \subseteq DOMAIN dispatches'
    BY <1>3 DEF SettleSourceDispatch, BudgetTypeOK
  <2> QED
    BY <1>3, <2>1, <2>2 DEF SettleSourceDispatch, BudgetTypeOK
<1>5. WithinAllowance'
  <2>1. account'.charged_source_bytes + account'.reserved_source_bytes
          <= account.charged_source_bytes + account.reserved_source_bytes
    BY <1>1, <1>b, <1>e, <1>d
  <2>2. CASE policy.generation > 0
    <3>1. /\ account'.charged_dispatches <= policy'.max_dispatches
          /\ account.charged_source_bytes + account.reserved_source_bytes <= policy'.max_source_bytes
      BY <1>b, <1>e, <2>2 DEF WithinAllowance
    <3>2. account'.charged_source_bytes + account'.reserved_source_bytes <= policy'.max_source_bytes
      BY <1>e, <1>f, <2>1, <3>1
    <3> QED
      BY <3>1, <3>2 DEF WithinAllowance
  <2> QED
    BY <1>e, <2>2 DEF WithinAllowance
<1>6. ChargesCountReservations'
  BY <1>3 DEF SettleSourceDispatch, ChargesCountReservations, BudgetTypeOK, Account
<1>7. Unsettled' = Unsettled \ {d}
  BY <1>1, <1>3 DEF Unsettled
<1>8. OneOwnerPerCapture'
  <2>1. Unsettled \subseteq DOMAIN dispatches /\ writers \subseteq DOMAIN dispatches
    BY DEF Unsettled, BudgetTypeOK
  <2>2. writers' \subseteq writers
    BY DEF SettleSourceDispatch
  <2> QED
    BY <1>3, <1>7, <2>1, <2>2 DEF OneOwnerPerCapture
<1>9. policy'.generation # 0
  BY <1>1, <1>2 DEF SettleSourceDispatch, NothingSpent, Unsettled
<1> QED
  BY <1>4, <1>5, <1>6, <1>8, <1>9

(* The remaining statements only close writers or raise limits. *)
LEMMA OtherStepsPreserve ==
  ASSUME BudgetInvariant,
         \/ \E d \in DOMAIN dispatches : CompleteEvidenceObjectWrite(d)
         \/ PassDeadline
         \/ \E l \in Budgets, later \in BOOLEAN : ExtendAcquisitionBudget(l, later)
         \/ \E l \in Budgets, b \in Baselines : InitializeLegacyBudget(l, b)
         \/ UNCHANGED budgetVars
  PROVE  BudgetInvariant'
<1> USE DEF BudgetInvariant
<1>1. CASE \E d \in DOMAIN dispatches : CompleteEvidenceObjectWrite(d)
  BY <1>1 DEF CompleteEvidenceObjectWrite, BudgetTypeOK, WithinAllowance, OneOwnerPerCapture,
    ChargesCountReservations, Unsettled, NothingSpent
<1>2. CASE PassDeadline
  BY <1>2 DEF PassDeadline, BudgetTypeOK, WithinAllowance, OneOwnerPerCapture,
    ChargesCountReservations, Unsettled, NothingSpent
<1>3. CASE \E l \in Budgets, later \in BOOLEAN : ExtendAcquisitionBudget(l, later)
  <2>1. PICK l \in Budgets, later \in BOOLEAN : ExtendAcquisitionBudget(l, later)
    BY <1>3
  <2>2. l.max_dispatches \in Nat /\ l.max_source_bytes \in Nat
    BY BudgetAssumption
  <2>a. /\ l.max_dispatches >= policy.max_dispatches
        /\ l.max_source_bytes >= policy.max_source_bytes
        /\ policy' = [generation |-> policy.generation + 1,
                      max_dispatches |-> l.max_dispatches,
                      max_source_bytes |-> l.max_source_bytes]
        /\ policy.generation > 0 /\ expired' = FALSE
        /\ UNCHANGED <<account, dispatches, writers>>
    BY <2>1 DEF ExtendAcquisitionBudget
  <2>b. BudgetTypeOK'
    <3>1. policy' \in [generation : Nat, max_dispatches : Nat, max_source_bytes : Nat]
      BY <2>a, <2>2, SMTT(30) DEF BudgetTypeOK
    <3>2. expired' \in BOOLEAN
      BY <2>a, Zenon
    <3> QED
      BY <2>a, <3>1, <3>2 DEF BudgetTypeOK
  <2>c. WithinAllowance'
    BY <2>a, <2>2, SMTT(30) DEF BudgetTypeOK, WithinAllowance
  <2>3. BudgetTypeOK' /\ WithinAllowance'
    BY <2>b, <2>c
  <2>4. OneOwnerPerCapture' /\ ChargesCountReservations'
    BY <2>1 DEF ExtendAcquisitionBudget, OneOwnerPerCapture, ChargesCountReservations, Unsettled
  <2>5. policy'.generation # 0
    BY <2>1 DEF ExtendAcquisitionBudget, BudgetTypeOK
  <2> QED
    BY <2>3, <2>4, <2>5
<1>4. CASE \E l \in Budgets, b \in Baselines : InitializeLegacyBudget(l, b)
  <2>1. PICK l \in Budgets, b \in Baselines : InitializeLegacyBudget(l, b)
    BY <1>4
  <2>2. l.max_dispatches \in Nat /\ l.max_source_bytes \in Nat /\ b \in Nat
    BY BudgetAssumption
  <2>3. NothingSpent
    BY <2>1 DEF InitializeLegacyBudget
  <2>4. account' = Account(b, 0, b, 0) /\ dispatches' = <<>> /\ writers' = {}
    BY <2>1, <2>3 DEF InitializeLegacyBudget, NothingSpent
  <2>5. BudgetTypeOK' /\ WithinAllowance'
    BY <2>1, <2>2, <2>4 DEF InitializeLegacyBudget, BudgetTypeOK, WithinAllowance, Account
  <2>6. OneOwnerPerCapture' /\ ChargesCountReservations'
    BY <2>4 DEF OneOwnerPerCapture, ChargesCountReservations, Unsettled, Account
  <2>7. policy'.generation # 0
    BY <2>1 DEF InitializeLegacyBudget
  <2> QED
    BY <2>5, <2>6, <2>7
<1>5. CASE UNCHANGED budgetVars
  BY <1>5 DEF budgetVars, BudgetTypeOK, WithinAllowance, OneOwnerPerCapture,
    ChargesCountReservations, Unsettled, NothingSpent
<1> QED
  BY <1>1, <1>2, <1>3, <1>4, <1>5

(* Every step of the account keeps it. *)
LEMMA BudgetStepPreserves ==
  ASSUME BudgetInvariant, [BudgetNext]_budgetVars PROVE BudgetInvariant'
<1>1. CASE \E c \in Captures, o \in Owners, m \in DispatchSizes : ReserveSourceDispatch(c, o, m)
  BY <1>1, ReservePreserves
<1>2. CASE \E d \in DOMAIN dispatches : \E bytes \in 0 .. dispatches[d].maximum :
             SettleSourceDispatch(d, bytes)
  <2>1. PICK d \in DOMAIN dispatches : \E bytes \in 0 .. dispatches[d].maximum :
               SettleSourceDispatch(d, bytes)
    BY <1>2
  <2>2. PICK bytes \in 0 .. dispatches[d].maximum : SettleSourceDispatch(d, bytes)
    BY <2>1
  <2>3. dispatches[d] \in DispatchRow
    BY DEF BudgetInvariant, BudgetTypeOK
  <2>4. bytes \in Nat
    BY <2>3, BudgetAssumption DEF DispatchRow
  <2> QED
    BY <2>2, <2>4, SettlePreserves
<1> QED
  BY <1>1, <1>2, OtherStepsPreserve DEF BudgetNext

(* The invariant holds in every behaviour of the account. *)
LEMMA BudgetInvariantHolds == BudgetSpec => []BudgetInvariant
  BY BudgetStepPreserves, InitEstablishes, PTL DEF BudgetSpec

(* Concurrent shards cannot overspend: whatever is charged or still exposed  *)
(* fits the latest allowance.  (reserveSourceDispatch, extendAcquisitionBudget) *)
THEOREM AllowanceIsKept == BudgetSpec => []WithinAllowance
<1>1. BudgetInvariant => WithinAllowance
  BY DEF BudgetInvariant
<1> QED
  BY <1>1, BudgetInvariantHolds, PTL

(* A capture never has two unsettled reservations or two open writers, so a  *)
(* retried reservation cannot buy a second request.  (reserveSourceDispatch) *)
THEOREM CaptureHasOneOwner == BudgetSpec => []OneOwnerPerCapture
<1>1. BudgetInvariant => OneOwnerPerCapture
  BY DEF BudgetInvariant
<1> QED
  BY <1>1, BudgetInvariantHolds, PTL

-----------------------------------------------------------------------------
(* The account is the sum of its ledger. *)

(* Induction over the ledger, as the least counterexample. *)
LEMMA LeastNatural ==
  ASSUME NEW T, T \subseteq Nat, T # {}
  PROVE  \E x \in T : \A y \in T : x <= y
<1>1. PICK x \in T : \A y \in T : ~(<<y, x>> \in OpToRel(<, Nat))
  BY WFMin, NatLessThanWellFounded, Zenon
<1>2. ASSUME NEW y \in T PROVE x <= y
  <2>1. SUFFICES ASSUME ~(x <= y) PROVE FALSE
    OBVIOUS
  <2> DEFINE p == <<y, x>>
  <2>2. p \in Nat \X Nat /\ p[1] < p[2]
    BY <2>1
  <2> HIDE DEF p
  <2>3. p \in OpToRel(<, Nat)
    BY <2>2, Zenon DEF OpToRel
  <2> QED
    BY <1>1, <2>3 DEF p
<1> QED
  BY <1>2

(* The partial sums of n amounts lead to t. *)
Adds(amount, n, t) ==
  \E F \in [0 .. n -> Int] :
    /\ F[0] = 0 /\ F[n] = t
    /\ \A k \in 1 .. n : F[k] = F[k - 1] + amount[k]

(* A running sum that adds up is the recursive Total. *)
LEMMA AddsIsTotal ==
  ASSUME NEW n \in Nat, NEW amount, NEW t, Adds(amount, n, t)
  PROVE  Total(amount, n) = t
<1>1. PICK F \in [0 .. n -> Int] :
        /\ F[0] = 0 /\ F[n] = t
        /\ \A k \in 1 .. n : F[k] = F[k - 1] + amount[k]
  BY DEF Adds
<1> DEFINE S == CHOOSE g : g = [k \in 0 .. n |-> IF k = 0 THEN 0 ELSE g[k - 1] + amount[k]]
<1>2. Total(amount, n) = S[n]
  BY DEF Total
<1>3. F = [k \in 0 .. n |-> IF k = 0 THEN 0 ELSE F[k - 1] + amount[k]]
  BY <1>1
<1>4. S = [k \in 0 .. n |-> IF k = 0 THEN 0 ELSE S[k - 1] + amount[k]]
  BY <1>3
<1> HIDE DEF S
<1> DEFINE T == {k \in 0 .. n : S[k] # F[k]}
<1>5. ASSUME T # {} PROVE FALSE
  <2>1. PICK x \in T : \A y \in T : x <= y
    <3>1. T \subseteq Nat
      OBVIOUS
    <3> HIDE DEF T
    <3> QED
      BY <1>5, <3>1, LeastNatural, Zenon
  <2>2. x \in 0 .. n /\ S[x] # F[x]
    OBVIOUS
  <2>3. CASE x = 0
    BY <1>1, <1>4, <2>2, <2>3
  <2>4. CASE x # 0
    <3>1. x - 1 \in 0 .. n /\ x \in 1 .. n /\ ~(x <= x - 1)
      BY <2>2, <2>4
    <3>2. S[x - 1] = F[x - 1]
      BY <2>1, <3>1
    <3> QED
      BY <1>1, <1>4, <2>2, <2>4, <3>1, <3>2
  <2> QED
    BY <2>3, <2>4
<1>6. S[n] = F[n]
  BY <1>5
<1> QED
  BY <1>1, <1>2, <1>6

(* A new row adds its amount. *)
LEMMA AddsOneMore ==
  ASSUME NEW n \in Nat, NEW f, NEW g, NEW t \in Int, NEW x \in Int, Adds(f, n, t),
         \A k \in 1 .. n : g[k] = f[k], g[n + 1] = x
  PROVE  Adds(g, n + 1, t + x)
<1>1. PICK F \in [0 .. n -> Int] :
        /\ F[0] = 0 /\ F[n] = t
        /\ \A k \in 1 .. n : F[k] = F[k - 1] + f[k]
  BY DEF Adds
<1> DEFINE G == [k \in 0 .. n + 1 |-> IF k = n + 1 THEN t + x ELSE F[k]]
<1>2. G \in [0 .. n + 1 -> Int] /\ G[0] = 0 /\ G[n + 1] = t + x
  BY <1>1
<1>3. ASSUME NEW k \in 1 .. n + 1 PROVE G[k] = G[k - 1] + g[k]
  <2>1. CASE k = n + 1
    BY <1>1, <2>1
  <2>2. CASE k # n + 1
    BY <1>1, <2>2
  <2> QED
    BY <2>1, <2>2
<1> HIDE DEF G
<1> QED
  BY <1>2, <1>3 DEF Adds

(* A changed row moves the sum by the change of its amount. *)
LEMMA AddsOneChanged ==
  ASSUME NEW n \in Nat, NEW d \in 1 .. n, NEW f, NEW g, NEW t \in Int, NEW x \in Int,
         Adds(f, n, t), \A k \in 1 .. n : f[k] \in Int,
         \A k \in 1 .. n : g[k] = IF k = d THEN f[k] + x ELSE f[k]
  PROVE  Adds(g, n, t + x)
<1>1. PICK F \in [0 .. n -> Int] :
        /\ F[0] = 0 /\ F[n] = t
        /\ \A k \in 1 .. n : F[k] = F[k - 1] + f[k]
  BY DEF Adds
<1> DEFINE G == [k \in 0 .. n |-> IF k < d THEN F[k] ELSE F[k] + x]
<1>2. G \in [0 .. n -> Int] /\ G[0] = 0 /\ G[n] = t + x
  BY <1>1
<1>3. ASSUME NEW k \in 1 .. n PROVE G[k] = G[k - 1] + g[k]
  <2>1. F[k] = F[k - 1] + f[k] /\ F[k] \in Int /\ F[k - 1] \in Int /\ f[k] \in Int
    BY <1>1
  <2>2. CASE k < d
    BY <2>1, <2>2
  <2>3. CASE k = d
    BY <2>1, <2>3
  <2>4. CASE k > d
    BY <2>1, <2>4
  <2> QED
    BY <2>2, <2>3, <2>4
<1> HIDE DEF G
<1> QED
  BY <1>2, <1>3 DEF Adds

LedgerAdds ==
  /\ Adds(Exposure, Len(dispatches), account.reserved_source_bytes)
  /\ Adds(Charge, Len(dispatches), account.charged_source_bytes - account.baseline)

(* The empty ledger adds up to nothing. *)
LEMMA LedgerStarts == ASSUME BudgetInit PROVE LedgerAdds
<1> DEFINE F == [k \in 0 .. 0 |-> 0]
<1>1. /\ Len(dispatches) = 0 /\ account.reserved_source_bytes = 0
      /\ account.charged_source_bytes - account.baseline = 0
  BY DEF BudgetInit, Account
<1>2. F \in [0 .. 0 -> Int] /\ F[0] = 0 /\ \A k \in 1 .. 0 : FALSE
  OBVIOUS
<1> HIDE DEF F
<1>3. ASSUME NEW f PROVE Adds(f, 0, 0)
  BY <1>2 DEF Adds
<1> QED
  BY <1>1, <1>3 DEF LedgerAdds

(* Reserving adds a row and its exposure; settling moves one row's exposure  *)
(* to its charge; no other batch touches a row or a sum.                     *)
LEMMA LedgerStep ==
  ASSUME BudgetInvariant, LedgerAdds, [BudgetNext]_budgetVars
  PROVE  LedgerAdds'
<1> DEFINE n == Len(dispatches)
<1>0. /\ n \in Nat /\ DOMAIN dispatches = 1 .. n /\ dispatches \in Seq(DispatchRow)
      /\ account.reserved_source_bytes \in Nat /\ account.charged_source_bytes \in Nat
      /\ account.baseline \in Nat /\ Null \notin Nat
  BY DEF BudgetInvariant, BudgetTypeOK, Null
<1>a. ASSUME NEW d \in 1 .. n
      PROVE  /\ dispatches[d] \in DispatchRow /\ dispatches[d].maximum \in Nat
             /\ Exposure[d] = (IF dispatches[d].charged = Null THEN dispatches[d].maximum ELSE 0)
             /\ Charge[d] = (IF dispatches[d].charged = Null THEN 0 ELSE dispatches[d].charged)
             /\ Exposure[d] \in Nat /\ Charge[d] \in Nat
  <2>1. dispatches[d] \in DispatchRow
    BY <1>0
  <2>2. dispatches[d].maximum \in Nat /\ (dispatches[d].charged = Null \/ dispatches[d].charged \in Nat)
    BY <2>1, BudgetAssumption DEF DispatchRow
  <2> QED
    BY <1>0, <2>1, <2>2 DEF Exposure, Charge, Unsettled
<1>1. CASE \E c \in Captures, o \in Owners, m \in DispatchSizes : ReserveSourceDispatch(c, o, m)
  <2>1. PICK c \in Captures, o \in Owners, m \in DispatchSizes : ReserveSourceDispatch(c, o, m)
    BY <1>1
  <2>2. m \in Nat
    BY BudgetAssumption
  <2> DEFINE row == [capture |-> c, owner |-> o, generation |-> policy.generation,
                     maximum |-> m, charged |-> Null]
  <2>3. /\ dispatches' = Append(dispatches, row) /\ row.maximum = m /\ row.charged = Null
        /\ account' = Account(account.baseline, account.charged_dispatches + 1,
                              account.charged_source_bytes, account.reserved_source_bytes + m)
    BY <2>1 DEF ReserveSourceDispatch
  <2> HIDE DEF row
  <2>4. /\ Len(dispatches') = n + 1 /\ DOMAIN dispatches' = 1 .. n + 1
        /\ dispatches'[n + 1] = row /\ \A k \in 1 .. n : dispatches'[k] = dispatches[k]
    BY <1>0, <2>3
  <2>5. /\ account'.reserved_source_bytes = account.reserved_source_bytes + m
        /\ account'.charged_source_bytes = account.charged_source_bytes
        /\ account'.baseline = account.baseline
    BY <2>3 DEF Account
  <2>6. /\ \A k \in 1 .. n : Exposure'[k] = Exposure[k] /\ Charge'[k] = Charge[k]
        /\ Exposure'[n + 1] = m /\ Charge'[n + 1] = 0
    BY <1>0, <2>3, <2>4 DEF Exposure, Charge, Unsettled
  <2>7. Adds(Exposure', n + 1, account.reserved_source_bytes + m)
    BY <1>0, <2>2, <2>6, AddsOneMore DEF LedgerAdds
  <2>8. Adds(Charge', n + 1, account.charged_source_bytes - account.baseline + 0)
    BY <1>0, <2>6, AddsOneMore DEF LedgerAdds
  <2>9. account.charged_source_bytes - account.baseline + 0
          = account'.charged_source_bytes - account'.baseline
    BY <1>0, <2>5
  <2> QED
    BY <2>4, <2>5, <2>7, <2>8, <2>9, Zenon DEF LedgerAdds
<1>2. CASE \E d \in DOMAIN dispatches : \E bytes \in 0 .. dispatches[d].maximum :
             SettleSourceDispatch(d, bytes)
  <2>1. PICK d \in 1 .. n : \E bytes \in 0 .. dispatches[d].maximum : SettleSourceDispatch(d, bytes)
    BY <1>0, <1>2
  <2>2. PICK b \in 0 .. dispatches[d].maximum : SettleSourceDispatch(d, b)
    BY <2>1
  <2> DEFINE x == dispatches[d].maximum
             row == [dispatches[d] EXCEPT !.charged = b]
  <2>3. /\ dispatches[d].charged = Null /\ dispatches[d] \in DispatchRow /\ x \in Nat /\ b \in Nat
        /\ b # Null
    BY <1>0, <1>a, <2>2 DEF SettleSourceDispatch, Settleable, Unsettled
  <2>4. /\ dispatches' = [dispatches EXCEPT ![d] = row] /\ row.maximum = x /\ row.charged = b
        /\ account' = Account(account.baseline, account.charged_dispatches,
                              account.charged_source_bytes + b, account.reserved_source_bytes - x)
    BY <2>2, <2>3 DEF SettleSourceDispatch, DispatchRow
  <2> HIDE DEF row
  <2>5. /\ Len(dispatches') = n /\ DOMAIN dispatches' = 1 .. n /\ dispatches'[d] = row
        /\ \A k \in 1 .. n : k # d => dispatches'[k] = dispatches[k]
    BY <1>0, <2>4
  <2>6. /\ account'.reserved_source_bytes = account.reserved_source_bytes + (0 - x)
        /\ account'.charged_source_bytes - account'.baseline
             = account.charged_source_bytes - account.baseline + b
    BY <1>0, <2>3, <2>4 DEF Account
  <2>7. /\ \A k \in 1 .. n : k # d => Exposure'[k] = Exposure[k] /\ Charge'[k] = Charge[k]
        /\ Exposure'[d] = 0 /\ Exposure[d] = x /\ Charge'[d] = b /\ Charge[d] = 0
    BY <1>0, <2>3, <2>4, <2>5 DEF Exposure, Charge, Unsettled
  <2>8. \A k \in 1 .. n : Exposure[k] \in Int /\ Charge[k] \in Int
    BY <1>a
  <2>9. Adds(Exposure', n, account.reserved_source_bytes + (0 - x))
    <3>1. \A k \in 1 .. n : Exposure'[k] = IF k = d THEN Exposure[k] + (0 - x) ELSE Exposure[k]
      BY <2>3, <2>7
    <3>2. 0 - x \in Int /\ account.reserved_source_bytes \in Int
      BY <1>0, <2>3
    <3>3. Adds(Exposure, n, account.reserved_source_bytes)
      BY DEF LedgerAdds
    <3> QED
      BY <1>0, <2>8, <3>1, <3>2, <3>3, AddsOneChanged, Zenon
  <2>10. Adds(Charge', n, account.charged_source_bytes - account.baseline + b)
    <3>1. \A k \in 1 .. n : Charge'[k] = IF k = d THEN Charge[k] + b ELSE Charge[k]
      BY <2>3, <2>7
    <3>2. b \in Int /\ account.charged_source_bytes - account.baseline \in Int
      BY <1>0, <2>3
    <3>3. Adds(Charge, n, account.charged_source_bytes - account.baseline)
      BY DEF LedgerAdds
    <3> QED
      BY <1>0, <2>8, <3>1, <3>2, <3>3, AddsOneChanged, Zenon
  <2> QED
    BY <2>5, <2>6, <2>9, <2>10, Zenon DEF LedgerAdds
<1>3. CASE \E l \in Budgets, b \in Baselines : InitializeLegacyBudget(l, b)
  <2>1. PICK l \in Budgets, b \in Baselines : InitializeLegacyBudget(l, b)
    BY <1>3
  <2>2. NothingSpent /\ b \in Nat
    BY <2>1, BudgetAssumption DEF InitializeLegacyBudget, BudgetInvariant
  <2>3. /\ dispatches' = dispatches /\ account.reserved_source_bytes = 0
        /\ account.charged_source_bytes - account.baseline = 0
        /\ account'.reserved_source_bytes = 0
        /\ account'.charged_source_bytes - account'.baseline = 0
    BY <2>1, <2>2 DEF InitializeLegacyBudget, NothingSpent, Account
  <2> QED
    <3>1. Exposure' = Exposure /\ Charge' = Charge
      BY <2>3, Zenon DEF Exposure, Charge, Unsettled
    <3> QED
      BY <2>3, <3>1, Zenon DEF LedgerAdds
<1>4. CASE UNCHANGED <<account, dispatches>>
  <2>1. Exposure' = Exposure /\ Charge' = Charge
    BY <1>4, Zenon DEF Exposure, Charge, Unsettled
  <2> QED
    BY <1>4, <2>1, Zenon DEF LedgerAdds
<1> QED
  BY <1>1, <1>2, <1>3, <1>4 DEF BudgetNext, CompleteEvidenceObjectWrite, PassDeadline,
     ExtendAcquisitionBudget, budgetVars

(* Whatever clients reserve, settle, extend or lose, the account is the sum  *)
(* of its ledger.  (reserveSourceDispatch, settleSourceDispatch)             *)
THEOREM AccountIsTheLedger == BudgetSpec => []AccountMatchesLedger
<1>1. BudgetInvariant /\ LedgerAdds => AccountMatchesLedger
  <2> SUFFICES ASSUME BudgetInvariant, LedgerAdds PROVE AccountMatchesLedger
    OBVIOUS
  <2>1. /\ Len(dispatches) \in Nat
        /\ account.charged_source_bytes \in Nat /\ account.baseline \in Nat
    BY DEF BudgetInvariant, BudgetTypeOK
  <2>2. /\ Total(Exposure, Len(dispatches)) = account.reserved_source_bytes
        /\ Total(Charge, Len(dispatches)) = account.charged_source_bytes - account.baseline
    BY <2>1, AddsIsTotal DEF LedgerAdds
  <2> QED
    BY <2>1, <2>2 DEF AccountMatchesLedger
<1>2. BudgetInit => LedgerAdds
  BY LedgerStarts
<1>3. BudgetInvariant /\ LedgerAdds /\ [BudgetNext]_budgetVars => LedgerAdds'
  BY LedgerStep
<1> QED
  BY <1>1, <1>2, <1>3, BudgetInvariantHolds, PTL DEF BudgetSpec
=============================================================================
