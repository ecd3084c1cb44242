----------------------- MODULE LightningInvoicesProofs -----------------------
(***************************************************************************)
(* Proofs about LightningInvoices for any number of vaults and invoices,   *)
(* any durations, batch size and number of faults.                         *)
(***************************************************************************)
EXTENDS LightningInvoices, FiniteSetTheorems, TLAPS

-----------------------------------------------------------------------------
(* The inductive invariant: the types, a row that exists belongs to a       *)
(* vault, what the poller holds is pending, and nobody has checked in later *)
(* than now.                                                                *)

RowsInv ==
    /\ \A i \in Invoices : invoice[i].status # "none" => invoice[i].vault \in Vaults
    /\ \A i \in batch : invoice[i].status = "pending"

ClockInv == \A v \in Vaults : vault[v].last <= now

Inv == TypeOK /\ RowsInv /\ ClockInv

LEMMA Instants ==
  /\ Never \in Int /\ Never \in Times /\ Never <= 0
  /\ \A t \in Nat : t \in Times /\ t + FreezePeriod \in Times /\ t + InvoiceLife \in Nat
                    /\ t + CheckinPeriod + GracePeriod \in Nat
  BY LengthsAssumption DEF Never, Times

(* The UPDATE statements on a vault write a row of the table. *)
LEMMA VaultUpdates ==
  ASSUME NEW r \in VaultRow, NEW t \in Nat
  PROVE  /\ ClockReset(r, t) \in VaultRow
         /\ Frozen(r, t) \in VaultRow
         /\ \A s \in Statuses : [r EXCEPT !.status = s] \in VaultRow
         /\ [r EXCEPT !.status = "ok", !.deadline = t + CheckinPeriod + GracePeriod] \in VaultRow
         /\ [r EXCEPT !.status = "alarmed", !.frozenUntil = Never] \in VaultRow
  BY Instants DEF ClockReset, Frozen, VaultRow, Statuses

(* What a batch is made of. *)
LEMMA BatchIsPending ==
  ASSUME NEW B, OldestFirst(B)
  PROVE  \A i \in B : i \in Invoices /\ invoice[i].status = "pending" /\ now < invoice[i].expires
  BY DEF OldestFirst, Pending

(* Instants are integers, so they can be compared. *)
LEMMA Clocks ==
  ASSUME TypeOK
  PROVE  /\ now \in Int
         /\ \A v \in Vaults : vault[v] \in VaultRow /\ vault[v].last \in Int
  BY DEF TypeOK, VaultRow, Times, Never

LEMMA InitInv == Init => Inv
<1>. SUFFICES ASSUME Init
              PROVE  Inv
  OBVIOUS
<1>1. vault \in [Vaults -> VaultRow] /\ paidAt \in [Invoices -> Times]
  BY LengthsAssumption, Instants DEF Init, VaultRow, Statuses
<1>2. invoice \in [Invoices -> InvoiceRow] /\ RowsInv
  BY DEF Init, InvoiceRow, NoRow, Kinds, RowsInv
<1>3. ClockInv
  BY Instants DEF Init, ClockInv
<1>. QED
  BY <1>1, <1>2, <1>3 DEF Init, Inv, TypeOK

(* The invoice's row after its turn. *)
LEMMA TurnInv ==
  ASSUME Inv, NEW i \in Invoices, NEW s \in {"pending", "paid", "failed"}, Turn(i, s)
  PROVE  /\ invoice' \in [Invoices -> InvoiceRow] /\ RowsInv'
         /\ batch' \subseteq Invoices /\ polled' \in BOOLEAN
<1>1. invoice[i] \in InvoiceRow /\ invoice[i].status = "pending" /\ i \in batch /\ now \in Nat
  BY DEF Inv, TypeOK, RowsInv, Turn
<1>2. CASE s = "pending"
  <2>1. invoice' = [invoice EXCEPT ![i] = [invoice[i] EXCEPT !.polled = now]]
    BY <1>2 DEF Turn, Stamped
  <2>2. [invoice[i] EXCEPT !.polled = now] \in InvoiceRow
    BY <1>1 DEF InvoiceRow
  <2>3. invoice' \in [Invoices -> InvoiceRow]
    BY <2>1, <2>2 DEF Inv, TypeOK
  <2>4. \A j \in Invoices : invoice'[j].vault = invoice[j].vault
                             /\ invoice'[j].status = invoice[j].status
    BY <1>1, <2>1 DEF Inv, TypeOK, InvoiceRow
  <2>. QED
    BY <2>3, <2>4 DEF Inv, TypeOK, RowsInv, Turn
<1>3. CASE s # "pending"
  <2>1. invoice' = [invoice EXCEPT ![i] = [invoice[i] EXCEPT !.status = s, !.polled = 0]]
    BY <1>3 DEF Turn
  <2>2. [invoice[i] EXCEPT !.status = s, !.polled = 0] \in InvoiceRow
    BY <1>1 DEF InvoiceRow
  <2>3. invoice' \in [Invoices -> InvoiceRow]
    BY <2>1, <2>2 DEF Inv, TypeOK
  <2>4. \A j \in Invoices : /\ invoice'[j].vault = invoice[j].vault
                            /\ j # i => invoice'[j].status = invoice[j].status
    BY <1>1, <2>1 DEF Inv, TypeOK, InvoiceRow
  <2>5. batch' = batch \ {i} /\ batch' \subseteq Invoices
    BY DEF Inv, TypeOK, Turn
  <2>6. invoice[i].vault \in Vaults
    BY <1>1 DEF Inv, RowsInv
  <2>7. \A j \in Invoices : invoice'[j].status # "none" => invoice'[j].vault \in Vaults
    BY <2>4, <2>6 DEF Inv, RowsInv
  <2>8. ASSUME NEW j \in batch'
        PROVE  invoice'[j].status = "pending"
    <3>1. j \in batch /\ j \in Invoices /\ j # i
      BY <2>5
    <3>2. invoice[j].status = "pending"
      BY <3>1 DEF Inv, RowsInv
    <3>. QED
      BY <2>4, <3>1, <3>2
  <2>9. polled' \in BOOLEAN
    BY Zenon DEF Turn
  <2>. QED
    BY <2>3, <2>5, <2>7, <2>8, <2>9 DEF RowsInv
<1>. QED
  BY <1>2, <1>3

(* A vault's status changed by another part of the server. *)
LEMMA TurnsInv ==
  ASSUME Inv, NEW v \in Vaults, NEW from, NEW to \in Statuses, Turns(v, from, to)
  PROVE  Inv'
  BY VaultUpdates DEF Inv, TypeOK, RowsInv, ClockInv, Turns, VaultRow, providerVars, pollerVars

LEMMA ElsewhereInv ==
  ASSUME Inv, NEW v \in Vaults, Elsewhere(v)
  PROVE  Inv'
<1>1. CASE Fund(v)
  <2>1. vault' \in [Vaults -> VaultRow]
    BY <1>1, VaultUpdates DEF Inv, TypeOK, Fund
  <2>2. \A w \in Vaults : vault'[w].last = vault[w].last
    BY <1>1 DEF Inv, TypeOK, VaultRow, Fund
  <2>. QED
    BY <1>1, <2>1, <2>2 DEF Inv, TypeOK, RowsInv, ClockInv, Fund, providerVars, pollerVars
<1>2. CASE Unfreeze(v)
  <2>1. vault' \in [Vaults -> VaultRow]
    BY <1>2, VaultUpdates, 0 \in Nat DEF Inv, TypeOK, Unfreeze
  <2>2. \A w \in Vaults : vault'[w].last = vault[w].last
    BY <1>2 DEF Inv, TypeOK, VaultRow, Unfreeze
  <2>. QED
    BY <1>2, <2>1, <2>2 DEF Inv, TypeOK, RowsInv, ClockInv, Unfreeze, providerVars, pollerVars
<1>3. CASE Drain(v) \/ Alarm(v) \/ StartClaim(v) \/ Claim(v)
  BY <1>3, TurnsInv DEF Drain, Alarm, StartClaim, Claim, Statuses
<1>. QED
  BY <1>1, <1>2, <1>3 DEF Elsewhere

(* Minting writes one row. *)
LEMMA MintInv ==
  ASSUME Inv, NEW i \in Invoices,
         \/ \E v \in Vaults : CheckinInvoice(i, v) \/ \E k \in Kinds : LnurlInvoice(i, v, k)
         \/ Insert(i) \/ MintFails(i)
  PROVE  Inv'
<1>1. CASE \E v \in Vaults, k \in Kinds : Mints(i, v, k)
  <2>1. PICK v \in Vaults, k \in Kinds : Mints(i, v, k)
    BY <1>1
  <2>2. invoice' = [invoice EXCEPT ![i] = [invoice[i] EXCEPT !.status = "minting", !.vault = v, !.kind = k]]
    BY <2>1 DEF Mints
  <2>3. invoice' \in [Invoices -> InvoiceRow] /\ RowsInv'
    BY <2>1, <2>2 DEF Inv, TypeOK, RowsInv, Mints, InvoiceRow, pollerVars
  <2>. QED
    BY <2>1, <2>3 DEF Inv, TypeOK, ClockInv, Mints, providerVars, pollerVars
<1>2. CASE Insert(i)
  <2>1. invoice[i] \in InvoiceRow /\ invoice[i].status = "minting" /\ now \in Nat
    BY <1>2 DEF Inv, TypeOK, Insert
  <2>2. invoice' = [invoice EXCEPT ![i] = [invoice[i] EXCEPT !.status = "pending",
                                                             !.expires = now + InvoiceLife,
                                                             !.polled = now]]
    BY <1>2 DEF Insert
  <2>3. now + InvoiceLife \in Nat
    BY <2>1, LengthsAssumption
  <2>4. [invoice[i] EXCEPT !.status = "pending", !.expires = now + InvoiceLife, !.polled = now]
           \in InvoiceRow
    BY <2>1, <2>3, "pending" \in {"none", "minting", "pending", "paid", "expired", "failed"}
    DEF InvoiceRow
  <2>5. invoice' \in [Invoices -> InvoiceRow]
    BY <2>2, <2>4 DEF Inv, TypeOK
  <2>6. \A j \in Invoices :
          /\ invoice'[j].vault = invoice[j].vault
          /\ j # i => invoice'[j] = invoice[j]
    BY <2>1, <2>2 DEF Inv, TypeOK, InvoiceRow
  <2>7. invoice'[i].status = "pending" /\ batch' = batch
    BY <1>2, <2>1, <2>2 DEF Inv, TypeOK, InvoiceRow, Insert, pollerVars
  <2>8. RowsInv'
    BY <2>1, <2>6, <2>7 DEF Inv, TypeOK, RowsInv
  <2>. QED
    BY <1>2, <2>5, <2>8 DEF Inv, TypeOK, ClockInv, Insert, providerVars, pollerVars
<1>3. CASE MintFails(i)
  BY <1>3 DEF Inv, TypeOK, RowsInv, ClockInv, MintFails, NoRow, Kinds, InvoiceRow, providerVars, pollerVars
<1>. QED
  BY <1>1, <1>2, <1>3 DEF CheckinInvoice, LnurlInvoice, Kinds

LEMMA PollStartInv ==
  ASSUME Inv, PollStart
  PROVE  Inv'
<1>1. invoice' \in [Invoices -> InvoiceRow]
  <2>. SUFFICES ASSUME NEW i \in Invoices
                PROVE  invoice'[i] \in InvoiceRow
    BY DEF PollStart
  <2>1. invoice[i] \in InvoiceRow
    BY DEF Inv, TypeOK
  <2>2. [invoice[i] EXCEPT !.status = "expired", !.polled = 0] \in InvoiceRow
    BY <2>1 DEF InvoiceRow
  <2>. QED
    BY <2>1, <2>2 DEF PollStart
<1>2. \A i \in Invoices : invoice'[i].vault = invoice[i].vault
                          /\ (invoice'[i].status = "none" <=> invoice[i].status = "none")
  BY DEF Inv, TypeOK, PollStart, InvoiceRow
<1>3. PICK B \in SUBSET Invoices : OldestFirst(B) /\ batch' = B
  BY DEF PollStart
<1>4. \A i \in B : invoice'[i].status = "pending"
  <2>. SUFFICES ASSUME NEW i \in B
                PROVE  invoice'[i].status = "pending"
    OBVIOUS
  <2>1. i \in Invoices /\ invoice[i].status = "pending" /\ now < invoice[i].expires
    BY <1>3, BatchIsPending
  <2>2. ~(invoice[i].expires <= now)
    BY <2>1 DEF Inv, TypeOK, InvoiceRow
  <2>. QED
    BY <2>1, <2>2 DEF PollStart
<1>. QED
  BY <1>1, <1>2, <1>3, <1>4 DEF Inv, TypeOK, RowsInv, ClockInv, PollStart, providerVars

(* A settled check-in resets rows of the table to the present. *)
LEMMA MarkPaidAndCheckinInv ==
  ASSUME Inv, NEW i \in Invoices, MarkPaidAndCheckin(i)
  PROVE  Inv'
<1>1. Turn(i, "paid")
  BY DEF MarkPaidAndCheckin
<1>2. vault' \in [Vaults -> VaultRow]
  BY VaultUpdates DEF Inv, TypeOK, MarkPaidAndCheckin
<1>3. \A v \in Vaults : vault'[v].last \in {vault[v].last, now}
  BY DEF Inv, TypeOK, VaultRow, MarkPaidAndCheckin, ClockReset
<1>4. now' = now /\ paidAt' = paidAt /\ broken' = broken /\ faults' = faults
  BY <1>1 DEF Turn, MarkPaidAndCheckin, providerVars
<1>5. ClockInv'
  BY <1>3, <1>4, Clocks DEF Inv, ClockInv
<1>. QED
  BY <1>1, <1>2, <1>4, <1>5, TurnInv DEF Inv, TypeOK

LEMMA MarkPanicPaidInv ==
  ASSUME Inv, NEW i \in Invoices, MarkPanicPaid(i)
  PROVE  Inv'
<1>1. Turn(i, "paid")
  BY DEF MarkPanicPaid
<1>2. vault' \in [Vaults -> VaultRow]
  BY VaultUpdates DEF Inv, TypeOK, MarkPanicPaid
<1>3. \A v \in Vaults : vault'[v].last = vault[v].last
  BY DEF Inv, TypeOK, VaultRow, MarkPanicPaid, Frozen
<1>4. now' = now /\ paidAt' = paidAt /\ broken' = broken /\ faults' = faults
  BY <1>1 DEF Turn, MarkPanicPaid, providerVars
<1>5. ClockInv'
  BY <1>3, <1>4 DEF Inv, ClockInv
<1>. QED
  BY <1>1, <1>2, <1>4, <1>5, TurnInv DEF Inv, TypeOK

LEMMA StepInv == Inv /\ [Next]_vars => Inv'
<1>. SUFFICES ASSUME Inv, [Next]_vars
              PROVE  Inv'
  OBVIOUS
<1>1. CASE Advance
  <2>1. ClockInv'
    BY <1>1, Clocks DEF Inv, ClockInv, Advance
  <2>2. now' \in Nat
    BY <1>1 DEF Inv, TypeOK, Advance
  <2>3. polled' \in BOOLEAN
    BY <1>1, Zenon DEF Advance
  <2>. QED
    <3>1. UNCHANGED <<vault, invoice, paidAt, broken, batch, faults>>
      BY <1>1 DEF Advance, providerVars
    <3>. QED
      BY <2>1, <2>2, <2>3, <3>1 DEF Inv, TypeOK, RowsInv
<1>2. CASE World
  <2>1. CASE \E v \in Vaults : Elsewhere(v)
    BY <2>1, ElsewhereInv
  <2>2. CASE \E i \in Invoices : Pay(i) \/ PaymentFails(i)
    BY <2>2, Instants DEF Inv, TypeOK, RowsInv, ClockInv, Pay, PaymentFails, pollerVars
  <2>. QED
    BY <1>2, <2>1, <2>2, MintInv DEF World
<1>3. CASE Poller
  <2>1. CASE \E i \in Invoices : MarkFailed(i) \/ StillPending(i) \/ PollError(i)
    <3>1. PICK i \in Invoices : MarkFailed(i) \/ StillPending(i) \/ PollError(i)
      BY <2>1
    <3>2. (Turn(i, "failed") \/ Turn(i, "pending")) /\ UNCHANGED vault /\ faults' \in Nat
      BY <3>1 DEF Inv, TypeOK, MarkFailed, StillPending, PollError
    <3>. QED
      BY <3>2, TurnInv DEF Inv, TypeOK, ClockInv, Turn, providerVars
  <2>. QED
    BY <1>3, <2>1, PollStartInv, MarkPaidAndCheckinInv, MarkPanicPaidInv DEF Poller
<1>4. CASE Restart
  BY <1>4 DEF Inv, TypeOK, RowsInv, ClockInv, Restart, InvoiceRow, NoRow, Kinds, providerVars
<1>5. CASE UNCHANGED vars
  BY <1>5 DEF Inv, TypeOK, RowsInv, ClockInv, vars, providerVars, pollerVars
<1>. QED
  BY <1>1, <1>2, <1>3, <1>4, <1>5 DEF Next

LEMMA Invariant == Spec => []Inv
  BY InitInv, StepInv, PTL DEF Spec

(* Every column keeps its domain, through restarts and lost answers. *)
THEOREM TypeCorrect == Spec => []TypeOK
  BY Invariant, PTL DEF Inv

-----------------------------------------------------------------------------
(* What a step does to row i while the clock stands. *)
Stays(i) == invoice'[i] = invoice[i]
Unlisted(i) ==
    invoice[i].status \in {"none", "minting"} /\ invoice'[i].status \in {"none", "minting"}
Listed(i) ==
    invoice[i].status = "minting" /\ invoice'[i].status = "pending" /\ invoice'[i].polled = now
Closed(i) ==
    /\ invoice[i].status = "pending" /\ invoice[i].expires <= now
    /\ invoice'[i].status = "expired" /\ invoice'[i].expires = invoice[i].expires
HadTurn(i) ==
    /\ i \in batch /\ invoice[i].status = "pending" /\ invoice'[i].expires = invoice[i].expires
    /\ \/ invoice'[i].status = "pending" /\ invoice'[i].polled = now
       \/ invoice'[i].status = "paid" /\ paidAt[i] # Never
       \/ invoice'[i].status = "failed" /\ i \in broken

RowStep(i) == Stays(i) \/ Unlisted(i) \/ Listed(i) \/ Closed(i) \/ HadTurn(i)

LEMMA TurnRows ==
  ASSUME Inv, NEW j \in Invoices, NEW s \in {"pending", "paid", "failed"}, Turn(j, s)
  PROVE  /\ j \in batch /\ invoice[j].status = "pending" /\ batch' = batch \ {j}
         /\ UNCHANGED <<now, paidAt, broken>>
         /\ \A i \in Invoices \ {j} : Stays(i)
         /\ invoice'[j].status = s /\ invoice'[j].expires = invoice[j].expires
         /\ s = "pending" => invoice'[j].polled = now
<1>1. /\ j \in batch /\ invoice[j].status = "pending" /\ batch' = batch \ {j}
      /\ UNCHANGED <<now, paidAt, broken>> /\ invoice[j] \in InvoiceRow
      /\ invoice \in [Invoices -> InvoiceRow]
  BY DEF Inv, TypeOK, RowsInv, Turn, providerVars
<1>2. CASE s = "pending"
  <2>1. invoice' = [invoice EXCEPT ![j] = [invoice[j] EXCEPT !.polled = now]]
    BY <1>2 DEF Turn, Stamped
  <2>. QED
    BY <1>1, <1>2, <2>1 DEF Stays, InvoiceRow
<1>3. CASE s # "pending"
  <2>1. invoice' = [invoice EXCEPT ![j] = [invoice[j] EXCEPT !.status = s, !.polled = 0]]
    BY <1>3 DEF Turn
  <2>. QED
    BY <1>1, <1>3, <2>1 DEF Stays, InvoiceRow
<1>. QED
  BY <1>2, <1>3

(* A row of the table after the door or the provider wrote it. *)
LEMMA DoorRows ==
  ASSUME Inv, NEW j \in Invoices,
         (\E v \in Vaults, k \in Kinds : Mints(j, v, k)) \/ Insert(j) \/ MintFails(j)
  PROVE  /\ UNCHANGED <<now, faults, paidAt, broken, batch, polled>>
         /\ \A i \in Invoices \ {j} : Stays(i)
         /\ Unlisted(j) \/ Listed(j)
<1>. invoice \in [Invoices -> InvoiceRow] /\ invoice[j] \in InvoiceRow
  BY DEF Inv, TypeOK
<1>1. CASE \E v \in Vaults, k \in Kinds : Mints(j, v, k)
  <2>1. PICK v \in Vaults, k \in Kinds : Mints(j, v, k)
    BY <1>1
  <2>2. invoice' = [invoice EXCEPT ![j] = [invoice[j] EXCEPT !.status = "minting", !.vault = v, !.kind = k]]
    BY <2>1 DEF Mints
  <2>3. invoice'[j].status = "minting" /\ \A i \in Invoices \ {j} : Stays(i)
    BY <2>2 DEF Stays, InvoiceRow
  <2>. QED
    BY <2>1, <2>3 DEF Mints, Unlisted, providerVars, pollerVars
<1>2. CASE Insert(j)
  <2>1. invoice' = [invoice EXCEPT ![j] = [invoice[j] EXCEPT !.status = "pending",
                                             !.expires = now + InvoiceLife, !.polled = now]]
    BY <1>2 DEF Insert
  <2>2. invoice'[j].status = "pending" /\ invoice'[j].polled = now /\ \A i \in Invoices \ {j} : Stays(i)
    BY <2>1 DEF Stays, InvoiceRow
  <2>. QED
    BY <1>2, <2>2 DEF Insert, Listed, providerVars, pollerVars
<1>3. CASE MintFails(j)
  BY <1>3 DEF MintFails, NoRow, Stays, Unlisted, providerVars, pollerVars
<1>. QED
  BY <1>1, <1>2, <1>3

(* The steps by what they do to the poller's queue. *)
Idle == UNCHANGED <<now, invoice, paidAt, broken, batch, polled, faults>>
Door(j) == (\E v \in Vaults, k \in Kinds : Mints(j, v, k)) \/ Insert(j) \/ MintFails(j)
Turned(j) == MarkPaidAndCheckin(j) \/ MarkPanicPaid(j) \/ MarkFailed(j) \/ StillPending(j) \/ PollError(j)

LEMMA StepKinds ==
  ASSUME Inv, [Next]_vars
  PROVE  \/ Advance \/ Idle \/ PollStart \/ Restart
         \/ \E j \in Invoices : Door(j) \/ Pay(j) \/ PaymentFails(j) \/ Turned(j)
<1>1. ASSUME NEW v \in Vaults, Elsewhere(v)
      PROVE  Idle
  BY <1>1 DEF Elsewhere, Fund, Unfreeze, Drain, Alarm, StartClaim, Claim, Turns, Idle, providerVars, pollerVars
<1>2. UNCHANGED vars => Idle
  BY DEF vars, Idle, providerVars, pollerVars
<1>3. ASSUME NEW i \in Invoices, NEW v \in Vaults, CheckinInvoice(i, v) \/ \E k \in Kinds : LnurlInvoice(i, v, k)
      PROVE  Door(i)
  BY <1>3 DEF CheckinInvoice, LnurlInvoice, Door, Kinds
<1>4. World => Idle \/ \E j \in Invoices : Door(j) \/ Pay(j) \/ PaymentFails(j)
  <2>1. \A i \in Invoices : Insert(i) \/ MintFails(i) => Door(i)
    BY DEF Door
  <2>. QED
    BY <1>1, <1>3, <2>1 DEF World
<1>5. Poller => PollStart \/ \E j \in Invoices : Turned(j)
  BY DEF Poller, Turned
<1>. QED
  BY <1>2, <1>4, <1>5 DEF Next

LEMMA TurnedRows ==
  ASSUME Inv, NEW j \in Invoices, Turned(j)
  PROVE  /\ HadTurn(j) /\ batch' = batch \ {j} /\ \A i \in Invoices \ {j} : Stays(i)
         /\ UNCHANGED <<now, paidAt, broken>> /\ faults' \in {faults, faults + 1}
         /\ invoice'[j].status = "pending" =>
              (paidAt[j] = Never /\ faults' = faults) \/ faults' = faults + 1
<1>1. CASE MarkPaidAndCheckin(j) \/ MarkPanicPaid(j)
  <2>1. Turn(j, "paid") /\ paidAt[j] # Never /\ faults' = faults
    BY <1>1 DEF MarkPaidAndCheckin, MarkPanicPaid
  <2>. QED
    BY <2>1, TurnRows DEF HadTurn
<1>2. CASE MarkFailed(j)
  BY <1>2, TurnRows DEF MarkFailed, HadTurn
<1>3. CASE StillPending(j)
  BY <1>3, TurnRows DEF StillPending, HadTurn
<1>4. CASE PollError(j)
  BY <1>4, TurnRows DEF PollError, HadTurn
<1>. QED
  BY <1>1, <1>2, <1>3, <1>4 DEF Turned

LEMMA RowSteps ==
  ASSUME Inv, [Next]_vars, ~Advance
  PROVE  /\ now' = now /\ faults' \in Nat /\ faults' >= faults
         /\ \A i \in Invoices : RowStep(i)
         /\ \A i \in Invoices : paidAt'[i] = paidAt[i] \/ (paidAt'[i] = now /\ Stays(i) /\ Payable(i))
         /\ broken \subseteq broken'
         /\ \A i \in broken' \ broken : paidAt'[i] = Never
<1>. faults \in Nat /\ invoice \in [Invoices -> InvoiceRow] /\ paidAt \in [Invoices -> Times]
  BY DEF Inv, TypeOK
<1>1. CASE Idle
  BY <1>1 DEF Idle, RowStep, Stays
<1>2. CASE PollStart
  <2>1. ASSUME NEW i \in Invoices
        PROVE  Stays(i) \/ Closed(i)
    <3>1. CASE invoice[i].status = "pending" /\ invoice[i].expires <= now
      <4>1. invoice'[i] = [invoice[i] EXCEPT !.status = "expired", !.polled = 0]
        BY <1>2, <3>1 DEF PollStart
      <4>. QED
        BY <3>1, <4>1 DEF Closed, InvoiceRow
    <3>2. CASE ~(invoice[i].status = "pending" /\ invoice[i].expires <= now)
      BY <1>2, <3>2 DEF PollStart, Stays
    <3>. QED
      BY <3>1, <3>2
  <2>2. UNCHANGED <<now, faults, paidAt, broken>>
    BY <1>2 DEF PollStart, providerVars
  <2>. QED
    BY <2>1, <2>2 DEF RowStep
<1>3. CASE Restart
  <2>1. ASSUME NEW i \in Invoices
        PROVE  Stays(i) \/ Unlisted(i)
    BY <1>3 DEF Restart, Stays, Unlisted, NoRow
  <2>2. UNCHANGED <<now, paidAt, broken>> /\ faults' = faults + 1
    BY <1>3 DEF Restart, providerVars
  <2>. QED
    BY <2>1, <2>2 DEF RowStep
<1>4. ASSUME NEW j \in Invoices, Door(j)
      PROVE  /\ UNCHANGED <<now, faults, paidAt, broken>>
             /\ \A i \in Invoices : RowStep(i)
  BY <1>4, DoorRows DEF RowStep, Door
<1>5. ASSUME NEW j \in Invoices, Pay(j)
      PROVE  /\ UNCHANGED <<now, faults, broken, invoice>>
             /\ \A i \in Invoices : paidAt'[i] = paidAt[i] \/ (paidAt'[i] = now /\ Payable(i))
  BY <1>5 DEF Pay, pollerVars
<1>6. ASSUME NEW j \in Invoices, PaymentFails(j)
      PROVE  /\ UNCHANGED <<now, faults, paidAt, invoice>>
             /\ broken' = broken \cup {j} /\ paidAt[j] = Never
  BY <1>6 DEF PaymentFails, Payable, pollerVars
<1>7. ASSUME NEW j \in Invoices, Turned(j)
      PROVE  /\ UNCHANGED <<now, paidAt, broken>> /\ faults' \in {faults, faults + 1}
             /\ \A i \in Invoices : RowStep(i)
  BY <1>7, TurnedRows DEF RowStep
<1>. QED
  <2>1. CASE \E j \in Invoices : Door(j) \/ Turned(j)
    BY <2>1, <1>4, <1>7
  <2>2. CASE \E j \in Invoices : Pay(j) \/ PaymentFails(j)
    BY <2>2, <1>5, <1>6 DEF RowStep, Stays
  <2>. QED
    BY <1>1, <1>2, <1>3, <2>1, <2>2, StepKinds

(* Only the two settlements close a row as paid. *)
LEMMA Settles ==
  ASSUME Inv, [Next]_vars, NEW i \in Invoices, ~Stays(i), invoice'[i].status = "paid"
  PROVE  /\ \/ invoice[i].kind = "checkin" /\ MarkPaidAndCheckin(i)
            \/ invoice[i].kind = "panic" /\ MarkPanicPaid(i)
         /\ invoice[i].status = "pending" /\ invoice[i].vault \in Vaults
         /\ invoice'[i].kind = invoice[i].kind /\ invoice'[i].vault = invoice[i].vault
<1>1. ~(Advance \/ Idle \/ \E j \in Invoices : Pay(j) \/ PaymentFails(j))
  BY DEF Advance, Idle, Pay, PaymentFails, Stays
<1>2. ~PollStart
  <2>1. SUFFICES ASSUME PollStart
                 PROVE  FALSE
    OBVIOUS
  <2>2. invoice'[i] = [invoice[i] EXCEPT !.status = "expired", !.polled = 0]
    BY <2>1 DEF PollStart, Stays
  <2>3. invoice[i] \in InvoiceRow
    BY DEF Inv, TypeOK
  <2>. QED
    BY <2>2, <2>3 DEF InvoiceRow
<1>3. ~Restart
  BY DEF Restart, Stays, NoRow
<1>4. Turned(i)
  <2>1. PICK j \in Invoices : Door(j) \/ Turned(j)
    BY <1>1, <1>2, <1>3, StepKinds
  <2>2. j = i
    BY <2>1, DoorRows, TurnedRows DEF Door
  <2>3. ~Door(i)
    BY DoorRows DEF Door, Unlisted, Listed
  <2>. QED
    BY <2>1, <2>2, <2>3
<1>5. /\ Turn(i, "failed") => invoice'[i].status = "failed"
      /\ Turn(i, "pending") => invoice'[i].status = "pending"
  BY TurnRows
<1>6. /\ \/ invoice[i].kind = "checkin" /\ MarkPaidAndCheckin(i)
         \/ invoice[i].kind = "panic" /\ MarkPanicPaid(i)
      /\ Turn(i, "paid")
  BY <1>4, <1>5 DEF Turned, MarkPaidAndCheckin, MarkPanicPaid, MarkFailed, StillPending, PollError
<1>7. invoice[i].status = "pending" /\ invoice[i].vault \in Vaults
  BY <1>6, TurnRows DEF Inv, RowsInv
<1>8. invoice'[i] = [invoice[i] EXCEPT !.status = "paid", !.polled = 0] /\ invoice[i] \in InvoiceRow
  BY <1>6 DEF Turn, Inv, TypeOK
<1>. QED
  BY <1>6, <1>7, <1>8 DEF InvoiceRow

-----------------------------------------------------------------------------
(* What a step may do to the vaults. *)

(* Steps outside Elsewhere and the two settlements leave every vault alone. *)
LEMMA WhoWrites ==
  ASSUME [Next]_vars
  PROVE  \/ UNCHANGED vault
         \/ \E v \in Vaults : Elsewhere(v)
         \/ \E i \in Invoices : MarkPaidAndCheckin(i) \/ MarkPanicPaid(i)
  BY DEF Next, Advance, World, CheckinInvoice, LnurlInvoice, Mints, Insert, MintFails, Pay,
         PaymentFails, Poller, PollStart, MarkFailed, StillPending, PollError, Restart, vars

(* What a settled check-in does to one vault. *)
LEMMA Heartbeat ==
  ASSUME Inv, NEW i \in Invoices, MarkPaidAndCheckin(i), NEW v \in Vaults
  PROVE  /\ v \in HeartbeatReaches(invoice[i].vault) => vault'[v] = ClockReset(vault[v], now)
         /\ v \notin HeartbeatReaches(invoice[i].vault) => vault'[v] = vault[v]
  BY DEF MarkPaidAndCheckin

(* A finished claim stays: no payment that lands late touches the row (reset_vault_clock and
   mark_panic_paid ask status != 'claimed', and no other writer starts from it). *)
THEOREM ClaimIsFinal == Spec => ClaimedUntouched
<1>1. ASSUME Inv, [Next]_vars, NEW v \in Vaults, vault[v].status = "claimed"
      PROVE  vault'[v] = vault[v]
  <2>. USE <1>1
  <2>1. CASE \E w \in Vaults : Elsewhere(w)
    <3>1. PICK w \in Vaults : Elsewhere(w)
      BY <2>1
    <3>2. vault[w].status # "claimed" /\ \A x \in Vaults \ {w} : vault'[x] = vault[x]
      BY <3>1 DEF Inv, TypeOK, Elsewhere, Fund, Unfreeze, Drain, Alarm, StartClaim, Claim, Turns
    <3>. QED
      BY <3>2
  <2>2. CASE \E i \in Invoices : MarkPaidAndCheckin(i)
    BY <2>2, Heartbeat DEF HeartbeatReaches, Final
  <2>3. CASE \E i \in Invoices : MarkPanicPaid(i)
    BY <2>3 DEF Inv, TypeOK, MarkPanicPaid, Final
  <2>. QED
    BY <2>1, <2>2, <2>3, WhoWrites
<1>2. Inv /\ [Next]_vars => [\A v \in Vaults : vault[v].status = "claimed" => vault'[v] = vault[v]]_vars
  BY <1>1
<1>. QED
  BY Invariant, <1>2, PTL DEF Spec, ClaimedUntouched

(* Two check-ins of one vault are a period apart, whoever's invoice was paid. *)
THEOREM PeriodsApart == Spec => OncePerPeriod
<1>1. ASSUME Inv, [Next]_vars, NEW v \in Vaults, vault'[v].last # vault[v].last
      PROVE  vault[v].last = Never \/ now >= vault[v].last + CheckinPeriod
  <2>. USE <1>1
  <2>1. CASE \E w \in Vaults : Elsewhere(w)
    BY <2>1 DEF Inv, TypeOK, VaultRow, Elsewhere, Fund, Unfreeze, Drain, Alarm, StartClaim, Claim, Turns
  <2>2. CASE \E i \in Invoices : MarkPaidAndCheckin(i)
    <3>1. PICK i \in Invoices : MarkPaidAndCheckin(i)
      BY <2>2
    <3>2. ~Inside(v)
      BY <3>1, Heartbeat DEF HeartbeatReaches
    <3>. QED
      BY <3>2, Clocks, LengthsAssumption DEF Inv, Inside
  <2>3. CASE \E i \in Invoices : MarkPanicPaid(i)
    BY <2>3 DEF Inv, TypeOK, VaultRow, MarkPanicPaid, Frozen
  <2>. QED
    BY <2>1, <2>2, <2>3, WhoWrites
<1>2. Inv /\ [Next]_vars => [\A v \in Vaults : vault'[v].last # vault[v].last
        => vault[v].last = Never \/ now >= vault[v].last + CheckinPeriod]_vars
  BY <1>1
<1>. QED
  BY Invariant, <1>2, PTL DEF Spec, OncePerPeriod

(* A freeze ends when its time is over, or by a check-in paid for that very vault. *)
THEOREM FreezeHolds == Spec => FreezeSurvives
<1>1. ASSUME Inv, [Next]_vars, NEW v \in Vaults, vault[v].status = "frozen", vault'[v].status # "frozen"
      PROVE  vault[v].frozenUntil <= now \/ SettlesCheckinOf(v)
  <2>. USE <1>1
  <2>1. CASE \E w \in Vaults : Elsewhere(w)
    <3>1. PICK w \in Vaults : Elsewhere(w)
      BY <2>1
    <3>2. w = v
      BY <3>1 DEF Inv, TypeOK, Elsewhere, Fund, Unfreeze, Drain, Alarm, StartClaim, Claim, Turns
    <3>. QED
      BY <3>1, <3>2 DEF Elsewhere, Fund, Unfreeze, Drain, Alarm, StartClaim, Claim, Turns
  <2>2. CASE \E i \in Invoices : MarkPaidAndCheckin(i)
    <3>1. PICK i \in Invoices : MarkPaidAndCheckin(i)
      BY <2>2
    <3>2. v \in HeartbeatReaches(invoice[i].vault)
      BY <3>1, Heartbeat
    <3>3. invoice[i].vault = v
      BY <3>2 DEF HeartbeatReaches, FanOut
    <3>4. invoice[i].status = "pending" /\ invoice'[i].status = "paid" /\ invoice[i].kind = "checkin"
      BY <3>1 DEF Inv, TypeOK, RowsInv, InvoiceRow, MarkPaidAndCheckin, Turn
    <3>. QED
      BY <3>3, <3>4 DEF SettlesCheckinOf
  <2>3. CASE \E i \in Invoices : MarkPanicPaid(i)
    BY <2>3 DEF Inv, TypeOK, VaultRow, MarkPanicPaid, Frozen
  <2>. QED
    BY <2>1, <2>2, <2>3, WhoWrites
<1>2. Inv /\ [Next]_vars => [\A v \in Vaults : (vault[v].status = "frozen" /\ vault'[v].status # "frozen")
        => vault[v].frozenUntil <= now \/ SettlesCheckinOf(v)]_vars
  BY <1>1
<1>. QED
  BY Invariant, <1>2, PTL DEF Spec, FreezeSurvives

(* When a check-in payment is settled, each live vault of the owner is inside its period. *)
THEOREM FamilyIsCovered == Spec => HeartbeatCoversFamily
<1>1. ASSUME Inv, [Next]_vars, NEW i \in Invoices,
             invoice[i].status # "paid", invoice'[i].status = "paid", invoice[i].kind = "checkin",
             NEW v \in Vaults, vault[v].status \in {"ok", "alarmed", "timelock_started"}
      PROVE  now < vault'[v].last + CheckinPeriod
  <2>. USE <1>1
  <2>1. MarkPaidAndCheckin(i)
    BY Settles DEF Stays
  <2>2. CASE v \in HeartbeatReaches(invoice[i].vault)
    <3>1. vault'[v].last = now
      BY <2>1, <2>2, Heartbeat, Clocks DEF Inv, VaultRow, ClockReset
    <3>. QED
      BY <3>1, Clocks, LengthsAssumption DEF Inv
  <2>3. CASE v \notin HeartbeatReaches(invoice[i].vault)
    <3>1. vault'[v] = vault[v] /\ Inside(v)
      BY <2>1, <2>3, Heartbeat DEF HeartbeatReaches, FanOut, Final
    <3>. QED
      BY <3>1 DEF Inside
  <2>. QED
    BY <2>2, <2>3
<1>2. Inv /\ [Next]_vars =>
        [\A i \in Invoices :
           (invoice[i].status # "paid" /\ invoice'[i].status = "paid" /\ invoice[i].kind = "checkin")
             => \A v \in Vaults : vault[v].status \in {"ok", "alarmed", "timelock_started"}
                                    => now < vault'[v].last + CheckinPeriod]_vars
  BY <1>1
<1>. QED
  BY Invariant, <1>2, PTL DEF Spec, HeartbeatCoversFamily

-----------------------------------------------------------------------------
(* A payment is seen.  The rows that may have their turn before row i are   *)
(* those stamped no later; each unit of time takes a batch of them, for     *)
(* what has had its turn is stamped later than i, unless a restart threw    *)
(* the batch away; and a turn of i itself that is lost starts it over.      *)

Ahead(i) == {j \in Pending : invoice[j].polled <= invoice[i].polled}

\* `e` faults happened before i was stamped, `c` restarts since.
Served(i, e, c) ==
    /\ e + c <= faults
    /\ paidAt[i] # Never => invoice[i].polled <= paidAt[i] + Rounds * e
    /\ Cardinality(Ahead(i)) + BatchSize * (now - invoice[i].polled - 1 - c)
         <= Cardinality(Invoices)
    /\ (polled \/ batch # {}) /\ i \notin batch =>
         Cardinality(Ahead(i) \ batch) + BatchSize * (now - invoice[i].polled - c)
           <= Cardinality(Invoices)

ServedInv == \A i \in Pending : \E e, c \in Nat : Served(i, e, c)

\* The table and the provider agree.
ProviderInv ==
    \A i \in Invoices :
      /\ invoice[i].status \in {"none", "minting"} => paidAt[i] = Never
      /\ i \in broken => paidAt[i] = Never
      /\ invoice[i].status = "failed" => i \in broken
      /\ invoice[i].status = "paid" => paidAt[i] # Never
      /\ invoice[i].status = "expired" => invoice[i].expires <= now
      /\ invoice[i].status = "pending" => invoice[i].polled <= now
      /\ paidAt[i] <= now

\* A row that expired unseen was paid too late.
LateInv ==
    \A i \in Invoices :
      (paidAt[i] # Never /\ invoice[i].status \in {"pending", "expired"} /\ invoice[i].expires <= now)
        => invoice[i].expires <= paidAt[i] + Patience

LEMMA Sizes ==
  /\ IsFiniteSet(Invoices) /\ Cardinality(Invoices) \in Nat
  /\ \A S \in SUBSET Invoices : /\ IsFiniteSet(S) /\ Cardinality(S) \in Nat
                                /\ Cardinality(S) <= Cardinality(Invoices)
                                /\ S # {} => Cardinality(S) >= 1
  /\ \A S, T \in SUBSET Invoices : T \subseteq S =>
       Cardinality(T) <= Cardinality(S) /\ Cardinality(S \ T) = Cardinality(S) - Cardinality(T)
<1>1. IsFiniteSet(Invoices) /\ Cardinality(Invoices) \in Nat
  BY FamilyAssumption, FS_CardinalityType
<1>2. ASSUME NEW S \in SUBSET Invoices
      PROVE  /\ IsFiniteSet(S) /\ Cardinality(S) \in Nat
             /\ Cardinality(S) <= Cardinality(Invoices)
             /\ S # {} => Cardinality(S) >= 1
  <2>1. IsFiniteSet(S) /\ Cardinality(S) <= Cardinality(Invoices)
    BY <1>1, FS_Subset
  <2>2. Cardinality(S) \in Nat /\ (Cardinality(S) = 0 <=> S = {})
    BY <2>1, FS_CardinalityType, FS_EmptySet
  <2>. QED
    BY <2>1, <2>2
<1>3. ASSUME NEW S \in SUBSET Invoices, NEW T \in SUBSET Invoices, T \subseteq S
      PROVE  Cardinality(T) <= Cardinality(S) /\ Cardinality(S \ T) = Cardinality(S) - Cardinality(T)
  <2>1. IsFiniteSet(S) /\ S \cap T = T
    BY <1>2, <1>3
  <2>2. Cardinality(T) <= Cardinality(S)
    BY <2>1, <1>3, FS_Subset
  <2>3. Cardinality(S \ T) = Cardinality(S) - Cardinality(S \cap T)
    BY <2>1, FS_Difference
  <2>. QED
    BY <2>1, <2>2, <2>3
<1>. QED
  BY <1>1, <1>2, <1>3

LEMMA Products ==
  /\ \A x \in Int : BatchSize * x \in Int /\ (x <= 0 => BatchSize * x <= 0)
  /\ \A x, y \in Int : BatchSize * x < BatchSize * y => x < y
<1>1. BatchSize \in Nat \ {0}
  BY PollerAssumption
<1>2. ASSUME NEW b \in Nat \ {0}, NEW x \in Int, x <= 0
      PROVE  b * x <= 0
  BY <1>2
<1>3. ASSUME NEW b \in Nat \ {0}, NEW x \in Int, NEW y \in Int, b * x < b * y
      PROVE  x < y
  <2>1. y <= x => b * y <= b * x
    OBVIOUS
  <2>. QED
    BY <1>3, <2>1
<1>. QED
  BY <1>1, <1>2, <1>3

\* Fewer batches than Rounds hold fewer rows than there are invoices.
LEMMA RoundsEnough ==
  /\ Rounds \in Nat
  /\ \A x \in Int : BatchSize * x < Cardinality(Invoices) => x < Rounds
<1>1. ASSUME NEW b \in Nat \ {0}, NEW n \in Nat
      PROVE  (n + b - 1) \div b \in Nat /\ n <= b * ((n + b - 1) \div b)
  <2>1. n + b - 1 \in Nat
    OBVIOUS
  <2>2. PICK m \in Nat : m = n + b - 1
    BY <2>1
  <2>3. m \div b \in Nat /\ m < b * (m \div b) + b
    OBVIOUS
  <2>. QED
    BY <2>2, <2>3
<1>2. Rounds \in Nat /\ Cardinality(Invoices) <= BatchSize * Rounds
  BY <1>1, Sizes, PollerAssumption DEF Rounds
<1>. QED
  BY <1>2, Products, Sizes

LEMMA TurnsAndFaults ==
  ASSUME NEW r \in Nat \ {0}, NEW e \in Nat, NEW c \in Nat, NEW f \in Nat, e + c <= f
  PROVE  r * e + r + c <= r * (1 + f)
<1>1. c <= r * c
  OBVIOUS
<1>2. r * (e + c) <= r * f
  OBVIOUS
<1>3. r * (e + c) = r * e + r * c /\ r * (1 + f) = r + r * f
  OBVIOUS
<1>. QED
  BY <1>1, <1>2, <1>3

LEMMA TableTypes ==
  ASSUME Inv
  PROVE  /\ now \in Nat /\ faults \in Nat /\ polled \in BOOLEAN /\ batch \subseteq Invoices
         /\ \A i \in Invoices :
              /\ invoice[i] \in InvoiceRow /\ invoice[i].polled \in Nat /\ invoice[i].expires \in Nat
              /\ paidAt[i] \in Int /\ (paidAt[i] # Never => paidAt[i] \in Nat)
         /\ Pending \subseteq Invoices /\ \A i \in Invoices : Ahead(i) \subseteq Pending
  BY DEF Inv, TypeOK, InvoiceRow, Times, Never, Pending, Ahead

\* A row is served before Patience has run out.
LEMMA TurnComes ==
  ASSUME Inv, NEW i \in Pending, NEW e \in Nat, NEW c \in Nat, Served(i, e, c)
  PROVE  /\ now <= invoice[i].polled + Rounds + c
         /\ paidAt[i] # Never => now <= paidAt[i] + Rounds * (1 + e + c) /\ now <= paidAt[i] + Patience
         /\ polled /\ batch = {} =>
              /\ now + 1 <= invoice[i].polled + Rounds + c
              /\ paidAt[i] # Never => now + 1 <= paidAt[i] + Patience
<1>1. /\ now \in Nat /\ faults \in Nat /\ i \in Invoices /\ invoice[i].polled \in Nat
      /\ paidAt[i] \in Int /\ Ahead(i) \subseteq Invoices
  BY TableTypes
<1>2. i \in Ahead(i)
  BY <1>1 DEF Ahead
<1>3. Cardinality(Ahead(i)) >= 1 /\ Cardinality(Ahead(i)) \in Nat /\ Cardinality(Invoices) \in Nat
  BY <1>1, <1>2, Sizes
<1>4. Rounds \in Nat \ {0}
  <2>1. BatchSize * 0 = 0
    BY PollerAssumption
  <2>2. 0 < Cardinality(Invoices)
    BY <1>1, <1>3, Sizes
  <2>. QED
    BY <2>1, <2>2, RoundsEnough
<1>5. now <= invoice[i].polled + Rounds + c
  <2>1. PICK x \in Int : x = now - invoice[i].polled - 1 - c
    BY <1>1
  <2>2. BatchSize * x < Cardinality(Invoices)
    BY <1>3, <2>1, Products DEF Served
  <2>3. x < Rounds
    BY <2>2, RoundsEnough
  <2>. QED
    BY <1>1, <1>4, <2>1, <2>3
<1>6. ASSUME polled, batch = {}
      PROVE  now + 1 <= invoice[i].polled + Rounds + c
  <2>1. PICK x \in Int : x = now - invoice[i].polled - c
    BY <1>1
  <2>2. Ahead(i) \ batch = Ahead(i) /\ i \notin batch
    BY <1>6
  <2>3. Cardinality(Ahead(i)) + BatchSize * x <= Cardinality(Invoices)
    BY <1>6, <2>1, <2>2 DEF Served
  <2>4. BatchSize * x < Cardinality(Invoices)
    BY <1>3, <2>3, Products
  <2>5. x < Rounds
    BY <2>4, RoundsEnough
  <2>. QED
    BY <1>1, <1>4, <2>1, <2>5
<1>7. ASSUME paidAt[i] # Never
      PROVE  /\ invoice[i].polled + Rounds + c <= paidAt[i] + Rounds * (1 + e + c)
             /\ invoice[i].polled + Rounds + c <= paidAt[i] + Patience
  <2>1. invoice[i].polled <= paidAt[i] + Rounds * e /\ e + c <= faults
    BY <1>7 DEF Served
  <2>2. Rounds * e + Rounds + c <= Rounds * (1 + faults)
    BY <1>1, <1>4, <2>1, TurnsAndFaults
  <2>3. Rounds * e + Rounds + c <= Rounds * (1 + (e + c))
    BY <1>4, TurnsAndFaults
  <2>4. Rounds * e \in Int /\ Rounds * (1 + faults) \in Int /\ Rounds * (1 + (e + c)) \in Int
        /\ 1 + (e + c) = 1 + e + c
    BY <1>1, <1>4
  <2>. QED
    BY <1>1, <1>4, <2>1, <2>2, <2>3, <2>4 DEF Patience
<1>8. Rounds * (1 + e + c) \in Int /\ Patience \in Int
  BY <1>1, <1>4 DEF Patience
<1>. QED
  BY <1>1, <1>4, <1>5, <1>6, <1>7, <1>8

LEMMA StepProviderInv ==
  ASSUME Inv, ProviderInv, [Next]_vars
  PROVE  ProviderInv'
<1>. now \in Nat /\ \A i \in Invoices : paidAt[i] \in Int
  BY TableTypes
<1>1. CASE Advance
  <2>1. UNCHANGED <<invoice, paidAt, broken>> /\ now' = now + 1
    BY <1>1 DEF Advance, providerVars
  <2>2. \A i \in Invoices : invoice[i].expires \in Nat /\ invoice[i].polled \in Nat
    BY TableTypes
  <2>. QED
    BY <2>1, <2>2 DEF ProviderInv
<1>2. CASE ~Advance
  <2>. SUFFICES ASSUME NEW i \in Invoices
                PROVE  /\ invoice'[i].status \in {"none", "minting"} => paidAt'[i] = Never
                       /\ i \in broken' => paidAt'[i] = Never
                       /\ invoice'[i].status = "failed" => i \in broken'
                       /\ invoice'[i].status = "paid" => paidAt'[i] # Never
                       /\ invoice'[i].status = "expired" => invoice'[i].expires <= now
                       /\ invoice'[i].status = "pending" => invoice'[i].polled <= now
                       /\ paidAt'[i] <= now
    BY <1>2, RowSteps DEF ProviderInv
  <2>1. /\ RowStep(i) /\ broken \subseteq broken' /\ (i \in broken' \ broken => paidAt'[i] = Never)
        /\ paidAt'[i] = paidAt[i] \/ (paidAt'[i] = now /\ Stays(i) /\ Payable(i))
    BY <1>2, RowSteps
  <2>2. CASE Stays(i)
    BY <2>1, <2>2 DEF Stays, Payable, ProviderInv, Never
  <2>3. CASE ~Stays(i)
    <3>1. paidAt'[i] = paidAt[i]
      BY <2>1, <2>3
    <3>. QED
      BY <2>1, <2>3, <3>1 DEF RowStep, Unlisted, Listed, Closed, HadTurn, ProviderInv
  <2>. QED
    BY <2>2, <2>3
<1>. QED
  BY <1>1, <1>2

(* A row that was just stamped has a full turn of the table before it. *)
LEMMA ServedFresh ==
  ASSUME Inv', NEW i \in Pending', invoice'[i].polled = now',
         NEW e \in Nat, NEW c \in Nat, e + c <= faults',
         paidAt'[i] # Never => now' <= paidAt'[i] + Rounds * e
  PROVE  Served(i, e, c)'
<1>1. now' \in Nat /\ Pending' \subseteq Invoices /\ Ahead(i)' \subseteq Invoices
  BY DEF Inv, TypeOK, Pending, Ahead
<1>2. /\ Cardinality(Ahead(i)') \in Nat /\ Cardinality(Ahead(i)' \ batch') \in Nat
      /\ Cardinality(Ahead(i)') <= Cardinality(Invoices)
      /\ Cardinality(Ahead(i)' \ batch') <= Cardinality(Invoices)
      /\ Cardinality(Invoices) \in Nat
  BY <1>1, Sizes
<1>3. /\ now' - invoice'[i].polled - 1 - c = -1 - c /\ now' - invoice'[i].polled - c = -c
      /\ -1 - c \in Int /\ -c \in Int /\ -1 - c <= 0 /\ -c <= 0
  <2>1. PICK t \in Nat : t = now' /\ t = invoice'[i].polled
    BY <1>1
  <2>2. t - t - 1 - c = -1 - c /\ t - t - c = -c
    BY <2>1
  <2>3. -1 - c \in Int /\ -c \in Int /\ -1 - c <= 0 /\ -c <= 0
    OBVIOUS
  <2>. QED
    BY <2>1, <2>2, <2>3
<1>4. BatchSize * (-1 - c) <= 0 /\ BatchSize * (-c) <= 0
      /\ BatchSize * (-1 - c) \in Int /\ BatchSize * (-c) \in Int
  BY <1>3, Products
<1>5. /\ Cardinality(Ahead(i)') + BatchSize * (-1 - c) <= Cardinality(Invoices)
      /\ Cardinality(Ahead(i)' \ batch') + BatchSize * (-c) <= Cardinality(Invoices)
  BY <1>2, <1>4
<1>. QED
  BY <1>3, <1>5 DEF Served

(* A row that waits loses no place, as long as the batch that others are in is finished. *)
LEMMA ServedKept ==
  ASSUME Inv, Inv', NEW i \in Pending, i \in Pending', now' = now, faults' >= faults, Stays(i),
         paidAt'[i] \in {paidAt[i], now}, invoice[i].polled <= now,
         Ahead(i)' \subseteq Ahead(i),
         (polled' \/ batch' # {}) /\ i \notin batch' =>
           (polled \/ batch # {}) /\ i \notin batch /\ Ahead(i)' \ batch' \subseteq Ahead(i) \ batch,
         NEW e \in Nat, NEW c \in Nat, Served(i, e, c)
  PROVE  Served(i, e, c)'
<1>1. /\ now \in Nat /\ faults \in Nat /\ faults' \in Nat /\ invoice[i].polled \in Nat /\ i \in Invoices
      /\ Ahead(i) \subseteq Invoices /\ Cardinality(Invoices) \in Nat
  BY TableTypes, Sizes DEF Inv, TypeOK
<1>2. invoice'[i].polled = invoice[i].polled /\ e + c <= faults'
  BY <1>1 DEF Stays, Served
<1>3. paidAt'[i] # Never => invoice'[i].polled <= paidAt'[i] + Rounds * e
  <2>1. CASE paidAt'[i] = paidAt[i]
    BY <1>2, <2>1 DEF Served
  <2>2. CASE paidAt'[i] = now
    <3>1. Rounds * e \in Nat
      BY RoundsEnough
    <3>. QED
      BY <1>1, <1>2, <2>2, <3>1
  <2>. QED
    BY <2>1, <2>2
<1>4. PICK x \in Int : x = BatchSize * (now - invoice[i].polled - 1 - c)
  BY <1>1, Products
<1>5. PICK y \in Int : y = BatchSize * (now - invoice[i].polled - c)
  BY <1>1, Products
<1>6. Cardinality(Ahead(i)') + x <= Cardinality(Invoices)
  <2>1. /\ Cardinality(Ahead(i)) \in Nat /\ Cardinality(Ahead(i)') \in Nat
        /\ Cardinality(Ahead(i)') <= Cardinality(Ahead(i))
    BY <1>1, Sizes
  <2>2. Cardinality(Ahead(i)) + x <= Cardinality(Invoices)
    BY <1>4 DEF Served
  <2>. QED
    BY <1>1, <2>1, <2>2
<1>7. ASSUME polled' \/ batch' # {}, i \notin batch'
      PROVE  Cardinality(Ahead(i)' \ batch') + y <= Cardinality(Invoices)
  <2>1. (polled \/ batch # {}) /\ i \notin batch /\ Ahead(i)' \ batch' \subseteq Ahead(i) \ batch
    BY <1>7
  <2>2. /\ Cardinality(Ahead(i) \ batch) \in Nat /\ Cardinality(Ahead(i)' \ batch') \in Nat
        /\ Cardinality(Ahead(i)' \ batch') <= Cardinality(Ahead(i) \ batch)
    BY <1>1, <2>1, Sizes
  <2>3. Cardinality(Ahead(i) \ batch) + y <= Cardinality(Invoices)
    BY <1>5, <2>1 DEF Served
  <2>. QED
    BY <1>1, <2>2, <2>3
<1>. QED
  BY <1>2, <1>3, <1>4, <1>5, <1>6, <1>7 DEF Served

(* A row that no step wrote keeps its place, or has the stamp of this instant. *)
LEMMA ServedStays ==
  ASSUME Inv, Inv', ServedInv, ProviderInv, [Next]_vars, ~Advance, ~PollStart, ~Restart,
         NEW i \in Pending', Stays(i)
  PROVE  \E e, c \in Nat : Served(i, e, c)'
<1>1. /\ now' = now /\ now \in Nat /\ faults' \in Nat /\ faults' >= faults /\ faults \in Nat
      /\ i \in Invoices /\ i \in Pending /\ invoice[i].polled \in Nat /\ invoice[i].polled <= now
      /\ paidAt'[i] \in {paidAt[i], now}
      /\ invoice[i].status = "pending"
  <2>1. now' = now /\ i \in Invoices /\ invoice'[i] = invoice[i] /\ i \in Pending
    BY RowSteps DEF Stays, Pending
  <2>. QED
    BY <2>1, RowSteps, TableTypes DEF Pending, ProviderInv
<1>2. PICK e \in Nat, c \in Nat : Served(i, e, c)
  BY <1>1 DEF ServedInv
<1>3. CASE invoice[i].polled = now
  <2>1. Rounds * e \in Nat
    BY RoundsEnough
  <2>2. paidAt'[i] # Never => now <= paidAt'[i] + Rounds * e
    BY <1>1, <1>2, <1>3, <2>1 DEF Served
  <2>3. e + c <= faults'
    BY <1>1, <1>2 DEF Served
  <2>4. Served(i, e, c)'
    BY <1>1, <1>3, <2>2, <2>3, ServedFresh DEF Stays
  <2>. QED
    BY <2>4
<1>4. CASE invoice[i].polled # now
  <2>1. ASSUME NEW j \in Ahead(i)'
        PROVE  Stays(j) /\ j \in Ahead(i)
    <3>1. /\ j \in Invoices /\ invoice'[j].status = "pending" /\ now < invoice'[j].expires
          /\ invoice'[j].polled <= invoice[i].polled /\ invoice'[j].polled \in Nat
      BY <1>1, TableTypes DEF Ahead, Pending, Stays, Inv, TypeOK, InvoiceRow
    <3>2. invoice'[j].polled # now
      BY <1>1, <1>4, <3>1
    <3>3. Stays(j)
      BY <3>1, <3>2, RowSteps DEF RowStep, Unlisted, Listed, Closed, HadTurn
    <3>. QED
      BY <3>1, <3>3 DEF Stays, Ahead, Pending
  <2>2. ASSUME polled' \/ batch' # {}, i \notin batch'
        PROVE  (polled \/ batch # {}) /\ i \notin batch /\ Ahead(i)' \ batch' \subseteq Ahead(i) \ batch
    <3>1. CASE Idle \/ \E j \in Invoices : Door(j) \/ Pay(j) \/ PaymentFails(j)
      <4>1. UNCHANGED <<batch, polled>>
        BY <3>1, DoorRows DEF Idle, Door, Pay, PaymentFails, pollerVars
      <4>. QED
        BY <2>1, <2>2, <4>1
    <3>2. CASE \E j \in Invoices : Turned(j)
      <4>1. PICK j \in Invoices : Turned(j)
        BY <3>2
      <4>2. HadTurn(j) /\ batch' = batch \ {j} /\ j \in batch
        BY <4>1, TurnedRows DEF HadTurn
      <4>3. j # i /\ j \notin Ahead(i)'
        <5>1. Stays(j) /\ HadTurn(j) => invoice[j].polled = now
          BY DEF Stays, HadTurn
        <5>2. j \in Ahead(i) => invoice[j].polled <= invoice[i].polled
          BY DEF Ahead
        <5>. QED
          BY <1>1, <1>4, <2>1, <4>2, <5>1, <5>2, TableTypes
      <4>. QED
        BY <2>1, <2>2, <4>2, <4>3
    <3>. QED
      BY <3>1, <3>2, StepKinds
  <2>3. Served(i, e, c)'
    BY <1>1, <1>2, <2>1, <2>2, ServedKept
  <2>. QED
    BY <2>3
<1>. QED
  BY <1>3, <1>4

(* When the poller takes a batch that row i is not in, the batch is full of rows before i. *)
LEMMA ServedPollStart ==
  ASSUME Inv, Inv', ServedInv, ProviderInv, PollStart, NEW i \in Pending'
  PROVE  \E e, c \in Nat : Served(i, e, c)'
<1>1. /\ now' = now /\ now \in Nat /\ faults' = faults /\ faults \in Nat /\ paidAt' = paidAt
      /\ batch = {}
  BY TableTypes DEF PollStart, providerVars
<1>2. Pending' = Pending /\ \A j \in Pending : invoice'[j] = invoice[j]
  <2>1. ASSUME NEW j \in Invoices
        PROVE  /\ j \in Pending <=> j \in Pending'
               /\ j \in Pending => invoice'[j] = invoice[j]
    <3>1. CASE invoice[j].status = "pending" /\ invoice[j].expires <= now
      <4>1. ~(now < invoice[j].expires)
        BY <3>1, TableTypes
      <4>2. invoice'[j] = [invoice[j] EXCEPT !.status = "expired", !.polled = 0]
        BY <3>1 DEF PollStart
      <4>3. invoice'[j].status # "pending"
        BY <4>2, TableTypes DEF InvoiceRow
      <4>. QED
        BY <4>1, <4>3 DEF Pending
    <3>2. CASE ~(invoice[j].status = "pending" /\ invoice[j].expires <= now)
      BY <1>1, <3>2 DEF PollStart, Pending
    <3>. QED
      BY <3>1, <3>2
  <2>. QED
    BY <2>1 DEF Pending
<1>3. /\ i \in Pending /\ i \in Invoices /\ Stays(i) /\ Ahead(i)' = Ahead(i)
      /\ invoice[i].polled \in Nat /\ invoice[i].polled <= now
  BY <1>2, TableTypes DEF Stays, Ahead, Pending, ProviderInv
<1>4. PICK e \in Nat, c \in Nat : Served(i, e, c)
  BY <1>3 DEF ServedInv
<1>5. PICK B \in SUBSET Invoices : OldestFirst(B) /\ batch' = B
  BY DEF PollStart
<1>6. /\ Ahead(i) \subseteq Invoices /\ B \subseteq Invoices /\ Pending \subseteq Invoices
      /\ Cardinality(Ahead(i)) \in Nat /\ Cardinality(Invoices) \in Nat
      /\ Cardinality(B) \in Nat /\ Cardinality(Pending) \in Nat
  <2>1. Ahead(i) \subseteq Invoices /\ Pending \subseteq Invoices
    BY <1>3, TableTypes
  <2>. QED
    BY <1>5, <2>1, Sizes
<1>7. ASSUME i \notin B
      PROVE  Cardinality(Ahead(i) \ B) = Cardinality(Ahead(i)) - BatchSize
  <2>1. B \subseteq Ahead(i)
    BY <1>3, <1>5, <1>7 DEF OldestFirst, Ahead
  <2>2. Cardinality(Ahead(i) \ B) = Cardinality(Ahead(i)) - Cardinality(B)
    BY <1>6, <2>1, Sizes
  <2>3. Cardinality(B) # Cardinality(Pending)
    <3>1. B \subseteq Pending /\ Pending \ B # {} /\ Pending \ B \subseteq Invoices
      BY <1>3, <1>5, <1>6, <1>7 DEF OldestFirst
    <3>2. Cardinality(Pending \ B) = Cardinality(Pending) - Cardinality(B)
      BY <1>6, <3>1, Sizes
    <3>3. Cardinality(Pending \ B) >= 1
      BY <3>1, Sizes
    <3>. QED
      BY <1>6, <3>2, <3>3
  <2>4. Cardinality(B) = BatchSize
    BY <1>5, <2>3 DEF OldestFirst
  <2>. QED
    BY <2>2, <2>4
<1>8. ASSUME i \notin B
      PROVE  Cardinality(Ahead(i) \ B) + BatchSize * (now - invoice[i].polled - c) <= Cardinality(Invoices)
  <2>1. PICK x \in Int : x = now - invoice[i].polled - 1 - c
    BY <1>1, <1>3
  <2>2. now - invoice[i].polled - c = x + 1
    BY <1>1, <1>3, <2>1
  <2>3. BatchSize * (x + 1) = BatchSize * x + BatchSize /\ BatchSize * x \in Int /\ BatchSize \in Int
    BY <2>1, PollerAssumption
  <2>4. Cardinality(Ahead(i)) + BatchSize * x <= Cardinality(Invoices)
    BY <1>4, <2>1 DEF Served
  <2>5. PICK z \in Int : z = BatchSize * x
    BY <2>3
  <2>. QED
    BY <1>6, <1>7, <1>8, <2>2, <2>3, <2>4, <2>5
<1>9. Served(i, e, c)'
  BY <1>1, <1>3, <1>4, <1>5, <1>8 DEF Served, Stays
<1>. QED
  BY <1>9

(* A restart throws a batch away, and no more than that. *)
LEMMA ServedRestart ==
  ASSUME Inv, Inv', ServedInv, Restart, NEW i \in Pending'
  PROVE  \E e, c \in Nat : Served(i, e, c)'
<1>1. /\ now' = now /\ now \in Nat /\ faults' = faults + 1 /\ faults \in Nat /\ paidAt' = paidAt
      /\ batch' = {}
  BY TableTypes DEF Restart, providerVars
<1>2. Pending' = Pending /\ \A j \in Pending : invoice'[j] = invoice[j]
  <2>1. ASSUME NEW j \in Invoices
        PROVE  invoice'[j] = IF invoice[j].status = "minting" THEN NoRow ELSE invoice[j]
    BY DEF Restart
  <2>. QED
    BY <1>1, <2>1 DEF Pending, NoRow
<1>3. /\ i \in Pending /\ i \in Invoices /\ invoice'[i] = invoice[i] /\ Ahead(i)' = Ahead(i)
      /\ invoice[i].polled \in Nat
  BY <1>2, TableTypes DEF Ahead, Pending
<1>4. PICK e \in Nat, c \in Nat : Served(i, e, c)
  BY <1>3 DEF ServedInv
<1>5. Cardinality(Ahead(i)) \in Nat /\ Cardinality(Invoices) \in Nat
  BY <1>3, TableTypes, Sizes
<1>6. PICK x \in Int : x = now - invoice[i].polled - 1 - c
  BY <1>1, <1>3
<1>7. now - invoice[i].polled - (c + 1) = x /\ now - invoice[i].polled - 1 - (c + 1) = x - 1
  BY <1>1, <1>3, <1>6
<1>8. Cardinality(Ahead(i)) + BatchSize * x <= Cardinality(Invoices)
  BY <1>4, <1>6 DEF Served
<1>9. Cardinality(Ahead(i)) + BatchSize * (x - 1) <= Cardinality(Invoices)
  <2>1. BatchSize * (x - 1) = BatchSize * x - BatchSize /\ BatchSize * x \in Int /\ BatchSize \in Nat
    BY <1>6, PollerAssumption
  <2>2. PICK z \in Int : z = BatchSize * x
    BY <2>1
  <2>. QED
    BY <1>5, <1>8, <2>1, <2>2
<1>10. e + (c + 1) <= faults' /\ c + 1 \in Nat
  BY <1>1, <1>4 DEF Served
<1>11. Ahead(i)' \ batch' = Ahead(i)
  BY <1>1, <1>3
<1>12. Served(i, e, c + 1)'
  BY <1>1, <1>3, <1>4, <1>7, <1>8, <1>9, <1>10, <1>11 DEF Served
<1>. QED
  BY <1>10, <1>12

LEMMA ServedAdvance ==
  ASSUME Inv, Inv', ServedInv, Advance, NEW i \in Pending'
  PROVE  \E e, c \in Nat : Served(i, e, c)'
<1>1. /\ now' = now + 1 /\ now \in Nat /\ faults' = faults /\ faults \in Nat /\ paidAt' = paidAt
      /\ invoice' = invoice /\ polled /\ batch = {} /\ batch' = {} /\ polled' = FALSE
  BY TableTypes DEF Advance, providerVars
<1>2. Pending' \subseteq Pending
  <2>1. ASSUME NEW j \in Pending'
        PROVE  j \in Pending
    <3>1. j \in Invoices /\ invoice[j].status = "pending" /\ now + 1 < invoice[j].expires
      BY <1>1 DEF Pending
    <3>2. now < invoice[j].expires
      BY <1>1, <3>1, TableTypes
    <3>. QED
      BY <3>1, <3>2 DEF Pending
  <2>. QED
    BY <2>1
<1>3. /\ i \in Pending /\ i \in Invoices /\ Ahead(i)' \subseteq Ahead(i) /\ Ahead(i) \subseteq Invoices
      /\ invoice[i].polled \in Nat
  BY <1>1, <1>2, TableTypes DEF Ahead, Pending
<1>4. PICK e \in Nat, c \in Nat : Served(i, e, c)
  BY <1>3 DEF ServedInv
<1>5. /\ Cardinality(Ahead(i)) \in Nat /\ Cardinality(Ahead(i)') \in Nat /\ Cardinality(Invoices) \in Nat
      /\ Cardinality(Ahead(i)') <= Cardinality(Ahead(i))
  BY <1>3, Sizes
<1>6. PICK x \in Int : x = now - invoice[i].polled - c
  BY <1>1, <1>3
<1>7. (now + 1) - invoice[i].polled - 1 - c = x
  BY <1>1, <1>3, <1>6
<1>8. Cardinality(Ahead(i)) + BatchSize * x <= Cardinality(Invoices)
  <2>1. Ahead(i) \ batch = Ahead(i)
    BY <1>1
  <2>. QED
    BY <1>1, <1>4, <1>6, <2>1 DEF Served
<1>9. PICK z \in Int : z = BatchSize * x
  BY <1>6, Products
<1>10. Cardinality(Ahead(i)') + BatchSize * x <= Cardinality(Invoices)
  BY <1>5, <1>8, <1>9
<1>11. Served(i, e, c)'
  BY <1>1, <1>4, <1>7, <1>10 DEF Served
<1>. QED
  BY <1>11

(* A row whose turn is lost starts over, one round later for each fault. *)
LEMMA ServedTurned ==
  ASSUME Inv, Inv', ServedInv, NEW i \in Pending', Turned(i)
  PROVE  \E e, c \in Nat : Served(i, e, c)'
<1>1. /\ now' = now /\ now \in Nat /\ faults \in Nat /\ paidAt' = paidAt /\ i \in Invoices
      /\ invoice'[i].status = "pending" /\ now < invoice'[i].expires /\ HadTurn(i)
  BY TurnedRows, TableTypes DEF Pending
<1>2. i \in Pending /\ invoice'[i].polled = now
  BY <1>1 DEF HadTurn, Pending
<1>3. CASE paidAt[i] = Never /\ faults' = faults
  <2>1. Served(i, 0, 0)'
    BY <1>1, <1>2, <1>3, ServedFresh
  <2>. QED
    BY <2>1
<1>4. CASE faults' = faults + 1
  <2>1. PICK e \in Nat, c \in Nat : Served(i, e, c)
    BY <1>2 DEF ServedInv
  <2>2. PICK d \in Nat : d = 1 + e + c
    OBVIOUS
  <2>3. d + 0 <= faults'
    BY <1>1, <1>4, <2>1, <2>2 DEF Served
  <2>4. paidAt[i] # Never => now <= paidAt[i] + Rounds * d
    BY <1>2, <2>1, <2>2, TurnComes
  <2>5. Served(i, d, 0)'
    BY <1>1, <1>2, <2>3, <2>4, ServedFresh
  <2>. QED
    BY <2>5
<1>. QED
  BY <1>1, <1>3, <1>4, TurnedRows

LEMMA StepServedInv ==
  ASSUME Inv, Inv', ServedInv, ProviderInv, [Next]_vars
  PROVE  ServedInv'
<1>. SUFFICES ASSUME NEW i \in Pending'
              PROVE  \E e, c \in Nat : Served(i, e, c)'
  BY DEF ServedInv
<1>1. CASE Advance
  BY <1>1, ServedAdvance
<1>2. CASE PollStart
  BY <1>2, ServedPollStart
<1>3. CASE Restart
  BY <1>3, ServedRestart
<1>4. CASE ~Advance /\ ~PollStart /\ ~Restart
  <2>1. CASE Stays(i)
    BY <1>4, <2>1, ServedStays
  <2>2. CASE ~Stays(i)
    <3>1. i \in Invoices /\ invoice'[i].status = "pending" /\ paidAt'[i] = paidAt[i] /\ now' = now
      BY <1>4, <2>2, RowSteps DEF Pending
    <3>2. PICK j \in Invoices : Door(j) \/ Turned(j)
      <4>1. Idle \/ (\E j \in Invoices : Pay(j) \/ PaymentFails(j)) => Stays(i)
        BY DEF Idle, Pay, PaymentFails, Stays
      <4>. QED
        BY <1>4, <2>2, <4>1, StepKinds
    <3>3. j = i
      BY <2>2, <3>1, <3>2, DoorRows, TurnedRows DEF Door
    <3>4. CASE Door(i)
      <4>1. Listed(i)
        BY <3>1, <3>4, DoorRows DEF Door, Unlisted
      <4>2. paidAt'[i] = Never /\ invoice'[i].polled = now'
        BY <3>1, <4>1 DEF Listed, ProviderInv
      <4>3. faults' \in Nat
        BY DEF Inv, TypeOK
      <4>4. Served(i, 0, 0)'
        BY <4>2, <4>3, ServedFresh
      <4>. QED
        BY <4>4
    <3>. QED
      BY <3>2, <3>3, <3>4, ServedTurned
  <2>. QED
    BY <2>1, <2>2
<1>. QED
  BY <1>1, <1>2, <1>3, <1>4

LEMMA PatienceGrows ==
  ASSUME Inv, Inv', faults' >= faults
  PROVE  Patience \in Nat /\ Patience' \in Nat /\ Patience <= Patience'
<1>1. PICK r \in Nat : r = Rounds
  BY RoundsEnough
<1>2. faults \in Nat /\ faults' \in Nat
  BY DEF Inv, TypeOK
<1>3. ASSUME NEW f \in Nat, NEW g \in Nat, f <= g
      PROVE  r * (1 + f) <= r * (1 + g) /\ r * (1 + f) \in Nat /\ r * (1 + g) \in Nat
  BY <1>1, <1>3
<1>4. r * (1 + faults) <= r * (1 + faults') /\ r * (1 + faults) \in Nat /\ r * (1 + faults') \in Nat
  BY <1>2, <1>3
<1>5. Rounds' = Rounds
  BY DEF Rounds
<1>. QED
  BY <1>1, <1>4, <1>5 DEF Patience

LEMMA StepLateInv ==
  ASSUME Inv, Inv', ServedInv, ProviderInv, LateInv, [Next]_vars
  PROVE  LateInv'
<1>. SUFFICES ASSUME NEW i \in Invoices, paidAt'[i] # Never,
                     invoice'[i].status \in {"pending", "expired"}, invoice'[i].expires <= now'
              PROVE  invoice'[i].expires <= paidAt'[i] + Patience'
  BY DEF LateInv
<1>0. /\ now \in Nat /\ paidAt[i] \in Int /\ invoice[i].expires \in Nat
  BY TableTypes
<1>1. CASE Advance
  <2>1. now' = now + 1 /\ invoice' = invoice /\ paidAt' = paidAt /\ faults' = faults /\ polled /\ batch = {}
    BY <1>1 DEF Advance, providerVars
  <2>2. Patience' = Patience /\ Patience \in Nat
    BY <2>1, PatienceGrows, TableTypes DEF Patience
  <2>3. CASE invoice[i].expires <= now
    BY <2>1, <2>2, <2>3 DEF LateInv
  <2>4. CASE ~(invoice[i].expires <= now)
    <3>1. i \in Pending /\ invoice[i].expires <= now + 1
      BY <1>0, <2>1, <2>4 DEF ProviderInv, Pending
    <3>2. PICK e \in Nat, c \in Nat : Served(i, e, c)
      BY <3>1 DEF ServedInv
    <3>3. now + 1 <= paidAt[i] + Patience
      BY <2>1, <3>1, <3>2, TurnComes
    <3>. QED
      BY <1>0, <2>1, <2>2, <3>1, <3>3
  <2>. QED
    BY <2>3, <2>4
<1>2. CASE ~Advance
  <2>1. now' = now /\ RowStep(i) /\ Patience \in Nat /\ Patience' \in Nat /\ Patience <= Patience'
    BY <1>2, RowSteps, PatienceGrows
  <2>2. CASE Payable(i) /\ Stays(i)
    BY <1>0, <2>1, <2>2 DEF Payable, Stays
  <2>3. CASE ~(Payable(i) /\ Stays(i))
    <3>1. paidAt'[i] = paidAt[i]
      BY <1>2, <2>3, RowSteps
    <3>2. invoice'[i].expires = invoice[i].expires /\ invoice[i].status \in {"pending", "expired"}
      BY <2>1, <3>1 DEF RowStep, Stays, Unlisted, Listed, Closed, HadTurn, ProviderInv
    <3>3. invoice[i].expires <= paidAt[i] + Patience
      BY <2>1, <3>1, <3>2 DEF LateInv
    <3>. QED
      BY <1>0, <2>1, <3>1, <3>2, <3>3
  <2>. QED
    BY <2>2, <2>3
<1>. QED
  BY <1>1, <1>2

QueueInv == Inv /\ ServedInv /\ ProviderInv /\ LateInv

LEMMA InitQueueInv == Init => QueueInv
<1>. SUFFICES ASSUME Init
              PROVE  QueueInv
  OBVIOUS
<1>1. \A i \in Invoices : invoice[i].status = "none" /\ paidAt[i] = Never
  BY DEF Init, NoRow
<1>2. ServedInv /\ LateInv
  BY <1>1 DEF ServedInv, Pending, LateInv
<1>3. ProviderInv
  BY <1>1 DEF Init, ProviderInv, Never
<1>. QED
  BY <1>2, <1>3, InitInv DEF QueueInv

LEMMA StepQueueInv == QueueInv /\ [Next]_vars => QueueInv'
  BY StepInv, StepServedInv, StepProviderInv, StepLateInv DEF QueueInv

LEMMA QueueIsServed == QueueInv => PaymentIsSeen
<1>. SUFFICES ASSUME QueueInv, NEW i \in Invoices, paidAt[i] # Never, paidAt[i] + Patience < now,
                     paidAt[i] + Patience < invoice[i].expires
              PROVE  invoice[i].status = "paid"
  BY DEF PaymentIsSeen
<1>1. /\ Inv /\ now \in Nat /\ paidAt[i] \in Nat /\ invoice[i].expires \in Nat /\ Patience \in Nat
      /\ invoice[i].status \in {"none", "minting", "pending", "paid", "expired", "failed"}
  <2>1. Inv /\ faults \in Nat /\ Rounds \in Nat
    BY TableTypes, RoundsEnough DEF QueueInv
  <2>2. Patience \in Nat
    BY <2>1 DEF Patience
  <2>. QED
    BY <2>1, <2>2, TableTypes DEF InvoiceRow
<1>2. invoice[i].status \notin {"none", "minting", "failed"}
  BY DEF QueueInv, ProviderInv
<1>3. ~(invoice[i].status \in {"pending", "expired"} /\ invoice[i].expires <= now)
  BY <1>1 DEF QueueInv, LateInv
<1>4. invoice[i].status # "expired"
  BY <1>3 DEF QueueInv, ProviderInv
<1>5. invoice[i].status # "pending"
  <2>1. SUFFICES ASSUME i \in Pending
                 PROVE  FALSE
    BY <1>1, <1>3 DEF Pending
  <2>2. PICK e \in Nat, c \in Nat : Served(i, e, c)
    BY <2>1 DEF QueueInv, ServedInv
  <2>3. now <= paidAt[i] + Patience
    BY <1>1, <2>1, <2>2, TurnComes
  <2>. QED
    BY <1>1, <2>3
<1>. QED
  BY <1>1, <1>2, <1>4, <1>5

(* A payment is seen: tick_once's order by last_polled_at, its LIMIT and the stamp bring every row's
   turn within Rounds polls, and a fault costs Rounds more. *)
THEOREM PaymentsAreSeen == Spec => []PaymentIsSeen
<1>1. Spec => []QueueInv
  BY InitQueueInv, StepQueueInv, PTL DEF Spec
<1>. QED
  BY <1>1, QueueIsServed, PTL

-----------------------------------------------------------------------------
(* What the owner bought: the deadline behind a paid row. *)

DeadlineInv ==
    \A v \in Vaults : vault[v].last # Never =>
      vault[v].deadline >= vault[v].last + CheckinPeriod + GracePeriod

BoughtInv ==
    \A i \in Invoices : (invoice[i].status = "paid" /\ invoice[i].kind = "checkin") =>
      Final(invoice[i].vault) \/ vault[invoice[i].vault].deadline >= paidAt[i] + GracePeriod

(* A claimed vault keeps its row; another one's clock is left alone or set from the present. *)
LEMMA VaultStep ==
  ASSUME Inv, [Next]_vars, NEW v \in Vaults
  PROVE  \/ vault'[v] = vault[v]
         \/ /\ ~Final(v)
            /\ \/ vault'[v].deadline = vault[v].deadline /\ vault'[v].last = vault[v].last
               \/ /\ vault'[v].deadline = now + CheckinPeriod + GracePeriod
                  /\ vault'[v].last \in {vault[v].last, now}
<1>. vault \in [Vaults -> VaultRow]
  BY DEF Inv, TypeOK
<1>1. ASSUME NEW w \in Vaults, Elsewhere(w)
      PROVE  /\ \A x \in Vaults \ {w} : vault'[x] = vault[x]
             /\ ~Final(w) /\ vault'[w].last = vault[w].last
             /\ vault'[w].deadline \in {vault[w].deadline, now + CheckinPeriod + GracePeriod}
  <2>1. CASE Fund(w)
    <3>1. vault' = [vault EXCEPT ![w] = [vault[w] EXCEPT !.status = "ok",
                                          !.deadline = now + CheckinPeriod + GracePeriod]]
      BY <2>1 DEF Fund
    <3>. QED
      BY <2>1, <3>1 DEF Fund, Final, VaultRow
  <2>2. CASE Unfreeze(w)
    <3>1. vault' = [vault EXCEPT ![w] = [vault[w] EXCEPT !.status = "alarmed", !.frozenUntil = Never]]
      BY <2>2 DEF Unfreeze
    <3>. QED
      BY <2>2, <3>1 DEF Unfreeze, Final, VaultRow
  <2>3. CASE Drain(w) \/ Alarm(w) \/ StartClaim(w) \/ Claim(w)
    <3>1. PICK to \in Statuses : vault' = [vault EXCEPT ![w].status = to] /\ ~Final(w)
      BY <2>3 DEF Drain, Alarm, StartClaim, Claim, Turns, Statuses, Final
    <3>. QED
      BY <3>1 DEF VaultRow
  <2>. QED
    BY <1>1, <2>1, <2>2, <2>3 DEF Elsewhere
<1>2. ASSUME NEW i \in Invoices, MarkPaidAndCheckin(i)
      PROVE  \/ vault'[v] = vault[v]
             \/ /\ ~Final(v) /\ vault'[v].last = now
                /\ vault'[v].deadline = now + CheckinPeriod + GracePeriod
  <2>1. CASE v \in HeartbeatReaches(invoice[i].vault)
    <3>1. vault'[v] = ClockReset(vault[v], now) /\ ~Final(v)
      BY <1>2, <2>1, Heartbeat DEF HeartbeatReaches
    <3>. QED
      BY <3>1 DEF ClockReset, VaultRow
  <2>. QED
    BY <1>2, <2>1, Heartbeat
<1>3. ASSUME NEW i \in Invoices, MarkPanicPaid(i)
      PROVE  \/ vault'[v] = vault[v]
             \/ /\ ~Final(v) /\ vault'[v].last = vault[v].last
                /\ vault'[v].deadline = vault[v].deadline
  <2>1. \/ vault' = vault
        \/ /\ ~Final(invoice[i].vault)
           /\ vault' = [vault EXCEPT ![invoice[i].vault] = Frozen(vault[invoice[i].vault], now)]
    BY <1>3 DEF MarkPanicPaid
  <2>2. CASE v = invoice[i].vault
    BY <2>1, <2>2 DEF Frozen, VaultRow
  <2>3. CASE v # invoice[i].vault
    BY <2>1, <2>3
  <2>. QED
    BY <2>2, <2>3
<1>4. (\E w \in Vaults : Elsewhere(w)) =>
        \/ vault'[v] = vault[v]
        \/ /\ ~Final(v) /\ vault'[v].last = vault[v].last
           /\ vault'[v].deadline \in {vault[v].deadline, now + CheckinPeriod + GracePeriod}
  BY <1>1
<1>. QED
  BY <1>2, <1>3, <1>4, WhoWrites

LEMMA StepDeadlineInv ==
  ASSUME Inv, DeadlineInv, [Next]_vars
  PROVE  DeadlineInv'
<1>. SUFFICES ASSUME NEW v \in Vaults, vault'[v].last # Never
              PROVE  vault'[v].deadline >= vault'[v].last + CheckinPeriod + GracePeriod
  BY DEF DeadlineInv
<1>1. vault[v].last <= now /\ vault[v].last \in Int /\ now \in Int
  BY Clocks DEF Inv, ClockInv
<1>. QED
  BY <1>1, VaultStep, LengthsAssumption DEF DeadlineInv

LEMMA StepBoughtInv ==
  ASSUME Inv, DeadlineInv, ProviderInv, BoughtInv, [Next]_vars
  PROVE  BoughtInv'
<1>. SUFFICES ASSUME NEW i \in Invoices, invoice'[i].status = "paid", invoice'[i].kind = "checkin"
              PROVE  \/ vault'[invoice'[i].vault].status = "claimed"
                     \/ vault'[invoice'[i].vault].deadline >= paidAt'[i] + GracePeriod
  BY DEF BoughtInv, Final
<1>1. now \in Nat /\ paidAt[i] \in Int /\ paidAt[i] <= now /\ GracePeriod \in Nat /\ CheckinPeriod \in Nat
  BY TableTypes, LengthsAssumption DEF ProviderInv
<1>2. paidAt'[i] = paidAt[i]
  <2>1. Advance => UNCHANGED <<invoice, paidAt>>
    BY DEF Advance, providerVars
  <2>2. ~Advance => \/ paidAt'[i] = paidAt[i]
                    \/ Stays(i) /\ Payable(i)
    BY RowSteps
  <2>3. Stays(i) => paidAt[i] # Never
    BY DEF Stays, ProviderInv
  <2>. QED
    BY <2>1, <2>2, <2>3 DEF Payable
<1>3. CASE Stays(i)
  <2>1. invoice[i].status = "paid" /\ invoice[i].kind = "checkin" /\ invoice[i].vault \in Vaults
        /\ invoice'[i].vault = invoice[i].vault
    BY <1>3 DEF Stays, Inv, RowsInv
  <2>2. PICK v \in Vaults : v = invoice[i].vault
    BY <2>1
  <2>3. Final(v) \/ vault[v].deadline >= paidAt[i] + GracePeriod
    BY <2>1, <2>2 DEF BoughtInv
  <2>4. vault'[v].status = "claimed" \/ vault'[v].deadline >= paidAt[i] + GracePeriod
    BY <1>1, <2>3, VaultStep DEF Final
  <2>. QED
    BY <1>2, <2>1, <2>2, <2>4
<1>4. CASE ~Stays(i)
  <2>1. MarkPaidAndCheckin(i) /\ invoice'[i].vault = invoice[i].vault /\ invoice[i].vault \in Vaults
    BY <1>4, Settles
  <2>2. PICK v \in Vaults : v = invoice[i].vault
    BY <2>1
  <2>3. vault[v] \in VaultRow /\ vault[v].last \in Int
    BY Clocks DEF Inv
  <2>4. CASE v \in HeartbeatReaches(v)
    <3>1. vault'[v] = ClockReset(vault[v], now)
      BY <2>1, <2>2, <2>4, Heartbeat
    <3>2. vault'[v].deadline = now + CheckinPeriod + GracePeriod
      BY <2>3, <3>1 DEF ClockReset, VaultRow
    <3>. QED
      BY <1>1, <1>2, <2>1, <2>2, <3>2
  <2>5. CASE v \notin HeartbeatReaches(v)
    <3>1. vault'[v] = vault[v] /\ (Final(v) \/ Inside(v))
      BY <2>1, <2>2, <2>5, Heartbeat DEF HeartbeatReaches
    <3>2. vault[v].deadline \in Int
      BY <2>3 DEF VaultRow
    <3>3. Inside(v) => vault[v].deadline >= paidAt[i] + GracePeriod
      BY <1>1, <2>3, <3>2 DEF Inside, DeadlineInv
    <3>. QED
      BY <1>2, <2>1, <2>2, <3>1, <3>3 DEF Final
  <2>. QED
    BY <2>4, <2>5
<1>. QED
  BY <1>3, <1>4

TimeInv == QueueInv /\ DeadlineInv /\ BoughtInv

LEMMA TimeInvariant == Spec => []TimeInv
<1>1. Init => TimeInv
  <2>. SUFFICES ASSUME Init
                PROVE  DeadlineInv /\ BoughtInv
    BY InitQueueInv DEF TimeInv
  <2>. QED
    BY DEF Init, NoRow, DeadlineInv, BoughtInv
<1>2. TimeInv /\ [Next]_vars => TimeInv'
  BY StepQueueInv, StepDeadlineInv, StepBoughtInv DEF TimeInv, QueueInv
<1>. QED
  BY <1>1, <1>2, PTL DEF Spec

(* A check-in paid in time keeps the heir out for two graces: the one the deadline ends with, and the
   one transition_alarmed_to_claimable waits after it. *)
THEOREM PaymentsBuyTime == Spec => PaymentBuysTime
<1>1. ASSUME TimeInv, [Next]_vars, NEW i \in Invoices, NEW v, v = invoice[i].vault,
             invoice[i].kind = "checkin", paidAt[i] # Never,
             paidAt[i] + Patience < invoice[i].expires, paidAt[i] + Patience < now,
             vault[v].status = "alarmed", vault'[v].status = "timelock_started"
      PROVE  now >= paidAt[i] + 2 * GracePeriod
  <2>. USE <1>1
  <2>1. Inv /\ invoice[i].status = "paid"
    BY QueueIsServed DEF TimeInv, QueueInv, PaymentIsSeen
  <2>2. v \in Vaults /\ vault \in [Vaults -> VaultRow]
    BY <2>1 DEF Inv, TypeOK, RowsInv
  <2>3. vault[v].deadline >= paidAt[i] + GracePeriod
    BY <2>1 DEF TimeInv, BoughtInv, Final
  <2>4. vault[v].deadline + GracePeriod <= now
    <3>1. CASE \E w \in Vaults : Elsewhere(w)
      <4>1. PICK w \in Vaults : Elsewhere(w)
        BY <3>1
      <4>2. w = v
        BY <2>2, <4>1 DEF Elsewhere, Fund, Unfreeze, Drain, Alarm, StartClaim, Claim, Turns
      <4>3. StartClaim(v)
        <5>1. ~Claim(v)
          BY DEF Claim, Turns
        <5>2. ~(Fund(v) \/ Unfreeze(v) \/ Alarm(v))
          BY DEF Fund, Unfreeze, Alarm, Turns
        <5>3. ~Drain(v)
          BY <2>2 DEF Drain, Turns, VaultRow
        <5>. QED
          BY <4>1, <4>2, <5>1, <5>2, <5>3 DEF Elsewhere
      <4>. QED
        BY <4>3 DEF StartClaim
    <3>2. CASE \E j \in Invoices : MarkPaidAndCheckin(j)
      BY <2>1, <2>2, <3>2, Heartbeat DEF ClockReset, VaultRow
    <3>3. CASE \E j \in Invoices : MarkPanicPaid(j)
      BY <2>2, <3>3 DEF MarkPanicPaid, Frozen, VaultRow
    <3>. QED
      BY <3>1, <3>2, <3>3, WhoWrites
  <2>5. now \in Nat /\ paidAt[i] \in Int /\ GracePeriod \in Nat /\ vault[v].deadline \in Nat
    BY <2>1, <2>2, TableTypes, LengthsAssumption DEF VaultRow
  <2>. QED
    BY <2>3, <2>4, <2>5
<1>2. TimeInv /\ [Next]_vars =>
        [\A i \in Invoices :
           LET v == invoice[i].vault
           IN  (/\ invoice[i].kind = "checkin" /\ paidAt[i] # Never
                /\ paidAt[i] + Patience < invoice[i].expires /\ paidAt[i] + Patience < now
                /\ vault[v].status = "alarmed" /\ vault'[v].status = "timelock_started")
                 => now >= paidAt[i] + 2 * GracePeriod]_vars
  BY <1>1
<1>. QED
  BY TimeInvariant, <1>2, PTL DEF Spec, PaymentBuysTime
=============================================================================
