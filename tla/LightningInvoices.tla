-------------------------- MODULE LightningInvoices --------------------------
(***************************************************************************)
(* Check-ins and panic stops paid over Lightning: the invoices of one      *)
(* owner, the two doors that mint them, the wallet that pays them, the     *)
(* poller that finds out, and what a payment does to the paid vault and to *)
(* its siblings (the other vaults with the same owner_email_hash).         *)
(*                                                                         *)
(* One unit of time is at least one poll interval: Advance waits until the *)
(* poller has gone through a batch, and for handlers under way.  What the  *)
(* scheduler, the heir and the chain do to a vault's status is reduced to  *)
(* one atomic action each; VaultLifecycle has their steps.                 *)
(***************************************************************************)
EXTENDS Integers, FiniteSets

CONSTANTS
    Vaults,          \* the vaults of one owner
    Nobody,          \* no vault
    Invoices,        \* the invoices that may be minted
    CheckinPeriod,   \* checkin_period_secs
    GracePeriod,     \* grace_period_secs
    FreezePeriod,    \* PANIC_FREEZE_DAYS
    InvoiceLife,     \* how long the provider keeps an invoice payable
    BatchSize,       \* the LIMIT of the poller's SELECT
    HeartbeatSat,    \* heartbeat_amount_sat()
    MaxTime, MaxFaults   \* bounds of the model

ASSUME LengthsAssumption ==
    /\ CheckinPeriod \in Nat \ {0} /\ GracePeriod \in Nat /\ FreezePeriod \in Nat
    /\ InvoiceLife \in Nat /\ HeartbeatSat \in Nat
ASSUME PollerAssumption == BatchSize \in Nat \ {0} /\ MaxTime \in Nat /\ MaxFaults \in Nat
ASSUME FamilyAssumption == IsFiniteSet(Invoices) /\ Nobody \notin Vaults

VARIABLES
    now,       \* the clock
    vault,     \* the columns of table vaults that Lightning reads or writes
    invoice,   \* table lightning_invoices
    paidAt,    \* provider: when the invoice was paid
    broken,    \* provider: the invoices whose payment failed
    batch,     \* the rows the poller's SELECT returned and it has not finished
    polled,    \* the poller has gone through a batch in this unit of time
    faults     \* provider errors and server restarts so far

providerVars == <<paidAt, broken>>
pollerVars == <<batch, polled>>
vars == <<now, vault, invoice, providerVars, pollerVars, faults>>

Never == -1
Times == Nat \cup {Never}

Statuses == {"unfunded", "ok", "alarmed", "timelock_started", "claiming", "claimed", "frozen"}
Kinds == {"checkin", "panic"}

VaultRow == [status : Statuses, last : Times, deadline : Nat, frozenUntil : Times]

\* "none" is no row; "minting" is a request that waits for the provider.  `polled` is
\* COALESCE(last_polled_at, created_at).
InvoiceRow == [status : {"none", "minting", "pending", "paid", "expired", "failed"},
               vault : Vaults \cup {Nobody}, kind : Kinds, expires : Nat, polled : Nat]

NoRow == [status |-> "none", vault |-> Nobody, kind |-> "checkin", expires |-> 0, polled |-> 0]

-----------------------------------------------------------------------------
(* Row updates.  The operators marked "mutant" are slips of the definition  *)
(* after them, for the mutation runs; no specification uses them.           *)

\* inside_current_period
Inside(v) == vault[v].last # Never /\ now < vault[v].last + CheckinPeriod

\* mutant: the deadline stays where it was
ClockResetKeepsDeadline(r, t) == [r EXCEPT !.status = "ok", !.last = t]

\* reset_vault_clock.  claim_eligible_at, not kept here, is one grace after the deadline.
ClockReset(r, t) ==
    [r EXCEPT !.status = "ok", !.last = t, !.deadline = t + CheckinPeriod + GracePeriod]

\* mark_panic_paid
Frozen(r, t) == [r EXCEPT !.status = "frozen", !.frozenUntil = t + FreezePeriod]

\* mutant: every sibling follows
FanOutToAll == Statuses

\* The states in which a sibling follows a payment.
FanOut == {"ok", "alarmed", "timelock_started"}

Final(v) == vault[v].status = "claimed"

\* mutants: the once-per-period guard is for the paid vault only; a payment inside the
\* paid vault's period returns early
SiblingsAlways(v) ==
    {w \in Vaults : ~Final(w) /\ IF w = v THEN ~Inside(w) ELSE vault[w].status \in FanOut}
ReturnsEarly(v) ==
    {w \in Vaults : ~Final(w) /\ ~Inside(w) /\ ~Inside(v) /\ (w = v \/ vault[w].status \in FanOut)}

\* The vaults a check-in paid for vault v resets.
HeartbeatReaches(v) ==
    {w \in Vaults : ~Final(w) /\ ~Inside(w) /\ (w = v \/ vault[w].status \in FanOut)}

-----------------------------------------------------------------------------
Init ==
    /\ now = 0
    /\ vault = [v \in Vaults |-> [status |-> "unfunded", last |-> Never,
                                  deadline |-> CheckinPeriod + GracePeriod, frozenUntil |-> Never]]
    /\ invoice = [i \in Invoices |-> NoRow]
    /\ paidAt = [i \in Invoices |-> Never]
    /\ broken = {} /\ batch = {} /\ polled = FALSE /\ faults = 0

Advance ==
    /\ now < MaxTime
    /\ polled /\ batch = {}
    /\ \A i \in Invoices : invoice[i].status # "minting"
    /\ now' = now + 1 /\ polled' = FALSE
    /\ UNCHANGED <<vault, invoice, providerVars, batch, faults>>

-----------------------------------------------------------------------------
(* The other writers of a vault's status.                                   *)

Turns(v, from, to) ==
    /\ vault[v].status \in from
    /\ vault' = [vault EXCEPT ![v].status = to]
    /\ UNCHANGED <<now, invoice, providerVars, pollerVars, faults>>

\* activate_funded_vaults
Fund(v) ==
    /\ vault[v].status = "unfunded"
    /\ vault' = [vault EXCEPT ![v].status = "ok", ![v].deadline = now + CheckinPeriod + GracePeriod]
    /\ UNCHANGED <<now, invoice, providerVars, pollerVars, faults>>

\* return_empty_vault_to_unfunded, from any of its callers
Drain(v) == Turns(v, {"ok", "alarmed"}, "unfunded")

\* transition_ok_to_alarmed
Alarm(v) == vault[v].deadline <= now /\ Turns(v, {"ok"}, "alarmed")

\* transition_alarmed_to_claimable
StartClaim(v) == vault[v].deadline + GracePeriod <= now /\ Turns(v, {"alarmed"}, "timelock_started")

\* broadcast_claim: token consumed, broadcast accepted or refused
Claim(v) ==
    \/ Turns(v, {"timelock_started"}, "claiming")
    \/ Turns(v, {"claiming"}, "claimed")
    \/ Turns(v, {"claiming"}, "timelock_started")

\* unfreeze_expired_panics
Unfreeze(v) ==
    /\ vault[v].status = "frozen" /\ vault[v].frozenUntil # Never /\ vault[v].frozenUntil <= now
    /\ vault' = [vault EXCEPT ![v].status = "alarmed", ![v].frozenUntil = Never]
    /\ UNCHANGED <<now, invoice, providerVars, pollerVars, faults>>

Elsewhere(v) ==
    Fund(v) \/ Drain(v) \/ Alarm(v) \/ StartClaim(v) \/ Claim(v) \/ Unfreeze(v)

-----------------------------------------------------------------------------
(* Minting.  Both doors read the vault, then wait for the provider, then    *)
(* insert the row; the payer has the invoice only after the insert.         *)

Mints(i, v, kind) ==
    /\ invoice[i].status = "none"
    /\ invoice' = [invoice EXCEPT ![i].status = "minting", ![i].vault = v, ![i].kind = kind]
    /\ UNCHANGED <<now, vault, providerVars, pollerVars, faults>>

\* create_checkin_invoice, for the owner's page and the one-tap link
CheckinInvoice(i, v) ==
    /\ vault[v].status # "unfunded" /\ ~Final(v)
    /\ ~Inside(v)
    /\ Mints(i, v, "checkin")

\* lnurlp_pay_request_inner: what the wallet is told to send, in millisats
AdvertisedMsat == HeartbeatSat * 1000

\* lnurlp_callback_inner, called by a wallet that sends what it was told.  A pending
\* invoice of the same kind is handed out again, which changes nothing.
AcceptedMsat == 1000
LnurlInvoice(i, v, kind) ==
    /\ ~Final(v)
    /\ AdvertisedMsat = AcceptedMsat
    /\ ~\E j \in Invoices : /\ invoice[j].status = "pending" /\ invoice[j].expires > now
                            /\ invoice[j].vault = v /\ invoice[j].kind = kind
    /\ Mints(i, v, kind)

\* insert_invoice
Insert(i) ==
    /\ invoice[i].status = "minting"
    /\ invoice' = [invoice EXCEPT ![i].status = "pending", ![i].expires = now + InvoiceLife,
                                  ![i].polled = now]
    /\ UNCHANGED <<now, vault, providerVars, pollerVars, faults>>

\* The provider refuses: no row is left.
MintFails(i) ==
    /\ invoice[i].status = "minting"
    /\ invoice' = [invoice EXCEPT ![i] = NoRow]
    /\ UNCHANGED <<now, vault, providerVars, pollerVars, faults>>

-----------------------------------------------------------------------------
(* The provider.                                                            *)

Payable(i) ==
    /\ invoice[i].status \notin {"none", "minting"} /\ now < invoice[i].expires
    /\ paidAt[i] = Never /\ i \notin broken

Pay(i) ==
    /\ Payable(i)
    /\ paidAt' = [paidAt EXCEPT ![i] = now]
    /\ UNCHANGED <<now, vault, invoice, broken, pollerVars, faults>>

PaymentFails(i) ==
    /\ Payable(i)
    /\ broken' = broken \cup {i}
    /\ UNCHANGED <<now, vault, invoice, paidAt, pollerVars, faults>>

-----------------------------------------------------------------------------
(* The poller: lightning::tick_once.                                        *)

Pending == {i \in Invoices : invoice[i].status = "pending" /\ now < invoice[i].expires}

\* The first BatchSize rows in the order of their last poll; equal stamps in any order.
OldestFirst(B) ==
    /\ B \subseteq Pending
    /\ Cardinality(B) = IF Cardinality(Pending) < BatchSize THEN Cardinality(Pending) ELSE BatchSize
    /\ \A i \in B, j \in Pending \ B : invoice[i].polled <= invoice[j].polled

\* The rows past their expiry are closed before anybody is asked about them.
PollStart ==
    /\ batch = {}
    /\ invoice' = [i \in Invoices |->
                     IF invoice[i].status = "pending" /\ invoice[i].expires <= now
                       THEN [invoice[i] EXCEPT !.status = "expired", !.polled = 0]
                       ELSE invoice[i]]
    /\ \E B \in SUBSET Invoices : OldestFirst(B) /\ batch' = B
    /\ polled' = (batch' = {})
    /\ UNCHANGED <<now, vault, providerVars, faults>>

\* mutant: last_polled_at stays NULL
Unstamped(r, t) == r

Stamped(r, t) == [r EXCEPT !.polled = t]

\* Row i has its turn: it is stamped, the provider asked, and its status becomes `status`.
\* An answer is final, so acting on it later is as asking later: one action.  Nothing
\* reads the stamp of a closed row, which is dropped.
Turn(i, status) ==
    /\ i \in batch
    /\ invoice' = [invoice EXCEPT ![i] = IF status = "pending" THEN Stamped(@, now)
                                        ELSE [@ EXCEPT !.status = status, !.polled = 0]]
    /\ batch' = batch \ {i} /\ polled' = (batch' = {})
    /\ UNCHANGED <<now, providerVars>>

\* mark_paid_and_checkin, one transaction
MarkPaidAndCheckin(i) ==
    /\ paidAt[i] # Never /\ invoice[i].kind = "checkin" /\ Turn(i, "paid")
    /\ vault' = [v \in Vaults |-> IF v \in HeartbeatReaches(invoice[i].vault)
                                    THEN ClockReset(vault[v], now) ELSE vault[v]]
    /\ UNCHANGED faults

\* mark_panic_paid, one transaction
MarkPanicPaid(i) ==
    /\ paidAt[i] # Never /\ invoice[i].kind = "panic" /\ Turn(i, "paid")
    /\ vault' = IF Final(invoice[i].vault) THEN vault
                ELSE [vault EXCEPT ![invoice[i].vault] = Frozen(@, now)]
    /\ UNCHANGED faults

MarkFailed(i) == i \in broken /\ Turn(i, "failed") /\ UNCHANGED <<vault, faults>>

StillPending(i) ==
    paidAt[i] = Never /\ i \notin broken /\ Turn(i, "pending") /\ UNCHANGED <<vault, faults>>

\* The provider does not answer: the row waits for its next turn.
PollError(i) ==
    /\ faults < MaxFaults /\ faults' = faults + 1
    /\ Turn(i, "pending") /\ UNCHANGED vault

\* The server stops: requests and the poller's batch are gone, the tables stay.
Restart ==
    /\ faults < MaxFaults /\ faults' = faults + 1
    /\ invoice' = [i \in Invoices |-> IF invoice[i].status = "minting"
                                          THEN NoRow ELSE invoice[i]]
    /\ batch' = {} /\ polled' = TRUE
    /\ UNCHANGED <<now, vault, providerVars>>

Poller ==
    PollStart \/ \E i \in Invoices : \/ MarkPaidAndCheckin(i) \/ MarkPanicPaid(i) \/ MarkFailed(i)
                                     \/ StillPending(i) \/ PollError(i)

World ==
    \/ \E v \in Vaults : Elsewhere(v)
    \/ \E i \in Invoices, v \in Vaults : CheckinInvoice(i, v) \/ \E k \in Kinds : LnurlInvoice(i, v, k)
    \/ \E i \in Invoices : Insert(i) \/ MintFails(i) \/ Pay(i) \/ PaymentFails(i)

Next == Advance \/ World \/ Poller \/ Restart

Spec == Init /\ [][Next]_vars

-----------------------------------------------------------------------------
(* Properties.                                                              *)

\* Every column keeps its domain.
TypeOK ==
    /\ now \in Nat /\ faults \in Nat /\ polled \in BOOLEAN
    /\ vault \in [Vaults -> VaultRow] /\ invoice \in [Invoices -> InvoiceRow]
    /\ paidAt \in [Invoices -> Times] /\ broken \subseteq Invoices
    /\ batch \subseteq Invoices

\* Rounds the poller needs to come back to a row, when `faults` of its turns are lost.
Rounds == (Cardinality(Invoices) + BatchSize - 1) \div BatchSize
Patience == Rounds * (1 + faults)

\* A payment is seen: however many invoices wait and whichever turns are lost to an
\* unreachable provider or a restart, a row paid more than Patience ago, with as much
\* of its life left, is `paid`.  The order by last_polled_at and the stamp carry this.
PaymentIsSeen ==
    \A i \in Invoices :
        (paidAt[i] # Never /\ paidAt[i] + Patience < now
           /\ paidAt[i] + Patience < invoice[i].expires) => invoice[i].status = "paid"

\* One payment covers the family: when a check-in payment is settled, each vault of the
\* owner that is not beyond a heartbeat is inside its current period, also when the paid
\* vault needed nothing (#231).
HeartbeatCoversFamily ==
    [][\A i \in Invoices :
         (invoice[i].status # "paid" /\ invoice'[i].status = "paid" /\ invoice[i].kind = "checkin")
           => \A v \in Vaults : vault[v].status \in {"ok", "alarmed", "timelock_started"}
                                  => now < vault'[v].last + CheckinPeriod]_vars

\* Once per period: two check-ins of one vault are a period apart, whichever vault's
\* invoice was paid and however many of them were.
OncePerPeriod ==
    [][\A v \in Vaults : vault'[v].last # vault[v].last
         => vault[v].last = Never \/ now >= vault[v].last + CheckinPeriod]_vars

\* A check-in invoice of vault v is settled in this step.
SettlesCheckinOf(v) ==
    \E i \in Invoices : /\ invoice[i].vault = v /\ invoice[i].kind = "checkin"
                       /\ invoice[i].status = "pending" /\ invoice'[i].status = "paid"

\* A freeze ends when its time is over, or by a check-in paid for that very vault:
\* never by a sibling's heartbeat, a drain, an alarm or a claim.
FreezeSurvives ==
    [][\A v \in Vaults : (vault[v].status = "frozen" /\ vault'[v].status # "frozen")
         => vault[v].frozenUntil <= now \/ SettlesCheckinOf(v)]_vars

\* A finished claim stays: no payment that lands late touches the row.
ClaimedUntouched ==
    [][\A v \in Vaults : vault[v].status = "claimed" => vault'[v] = vault[v]]_vars

\* What the owner bought: once a check-in payment was made in time and Patience has
\* passed, the heir is not let in for two graces after the payment.
PaymentBuysTime ==
    [][\A i \in Invoices :
         LET v == invoice[i].vault
         IN  (/\ invoice[i].kind = "checkin" /\ paidAt[i] # Never
              /\ paidAt[i] + Patience < invoice[i].expires /\ paidAt[i] + Patience < now
              /\ vault[v].status = "alarmed" /\ vault'[v].status = "timelock_started")
               => now >= paidAt[i] + 2 * GracePeriod]_vars
=============================================================================
