--------------------------- MODULE VaultLifecycle ---------------------------
(***************************************************************************)
(* One vault row of the GhostKey server and everybody who writes it: the   *)
(* owner's routes (check-in, manual claim issue, send), the Lightning      *)
(* poller (check-in and panic payments), the scheduler tick, and the claim *)
(* requests of the heir.  A handler that reads the row and writes it later *)
(* is two actions, so every interleaving at an `await` is a behaviour.     *)
(*                                                                         *)
(* Time is one clock whose unit is hours or days.  The database round      *)
(* trips of one HTTP request take no model time (Advance waits for them);  *)
(* a scheduler tick and a broadcast may take any amount of it.             *)
(***************************************************************************)
EXTENDS Integers

CONSTANTS
    Requests,         \* claim requests that may be in flight at once
    CheckinPeriod,    \* checkin_period_secs
    GracePeriod,      \* grace_period_secs
    ChallengeWindow,  \* claim_challenge_window_secs(), 0 disables it
    FreezePeriod,     \* PANIC_FREEZE_DAYS
    Timelock,         \* timelock_blocks, in clock units
    LastResort,       \* the final 24h in which the free check-in is open
    LightningOn,      \* the server has a Lightning provider
    PasswordVault,    \* the claim token was minted and kept at rest at creation
    OwnerActs,        \* what this owner ever does: a subset of AllOwnerActs
    Serial,           \* restrict to behaviours without overlapping handlers
    MaxTime, MaxTokens, MaxFaults, MaxDeposits   \* bounds of the model

AllOwnerActs == {"checkin", "lightning", "panic", "issue", "send", "sweep"}

ASSUME DurationsAssumption ==
    /\ CheckinPeriod \in Nat /\ GracePeriod \in Nat /\ ChallengeWindow \in Nat
    /\ FreezePeriod \in Nat /\ Timelock \in Nat /\ LastResort \in Nat
ASSUME SwitchesAssumption ==
    /\ LightningOn \in BOOLEAN /\ PasswordVault \in BOOLEAN /\ Serial \in BOOLEAN
    /\ OwnerActs \subseteq AllOwnerActs
ASSUME BoundsAssumption ==
    MaxTime \in Nat /\ MaxTokens \in Nat \ {0} /\ MaxFaults \in Nat /\ MaxDeposits \in Nat

VARIABLES
    now,          \* the clock
    vault,        \* the row of table vaults
    coins,        \* who holds the coins of the descriptor
    confirmedAt,  \* when the deposit confirmed: older(Timelock) counts from it
    deposits,     \* deposits made so far
    minted,       \* claim tokens minted so far; token n is the n-th
    heirLinks,    \* tokens the scheduler has mailed to the heir
    manualLinks,  \* tokens the owner got from issue_claim
    owner,        \* the owner's request in flight
    request,      \* the claim requests in flight
    phase,        \* the step the scheduler tick is at
    pick,         \* what that step's SELECT and scan found, and when
    tickAt,       \* the `now` captured when the tick started
    faults,       \* crashes, disconnects and lost answers so far
    clockFrom,    \* history: the instant the check-in clock last restarted from
    alertedAt,    \* history: the last "a claim has started" alert of this cycle
    frozenFor     \* history: until when the owner's panic should hold

chainVars == <<coins, confirmedAt, deposits>>
linkVars == <<minted, heirLinks, manualLinks>>
schedVars == <<phase, pick, tickAt>>
historyVars == <<clockFrom, alertedAt, frozenFor>>
vars == <<now, vault, chainVars, linkVars, owner, request, schedVars, faults, historyVars>>

Never == -1
NoToken == 0
Tokens == 1 .. MaxTokens
Times == Nat \cup {Never}

Statuses == {"unfunded", "ok", "alarmed", "timelock_started", "claiming", "claimed", "frozen"}

Row == [status : Statuses, lastCheckin : Times, deadline : Nat, eligible : Times,
        token : Tokens \cup {NoToken}, used : BOOLEAN, openedAt : Times,
        readySent : BOOLEAN, frozenUntil : Times]

Phases == {"idle", "unfreeze", "activate", "retire", "alarm", "claim", "ready"}

\* The order of the calls in scheduler::tick_once.
NextPhase == [unfreeze |-> "activate", activate |-> "retire", retire |-> "alarm",
              alarm |-> "claim", claim |-> "ready", ready |-> "idle"]

Findings == [verdict : {"none", "due", "empty"}, from : Statuses,
             token : Tokens \cup {NoToken}, at : Nat]
Calls == [pc : {"idle", "checkin", "sent"}, at : Nat]

Nothing == [verdict |-> "none", from |-> "ok", token |-> NoToken, at |-> 0]
NoCall == [pc |-> "idle", at |-> 0]

-----------------------------------------------------------------------------
(* Row updates: one operator per UPDATE statement.  The operators marked    *)
(* "mutant" are slips of the definition after them; no specification uses   *)
(* them, the mutation runs put them in its place.                           *)

Deadline(t) == t + CheckinPeriod + GracePeriod
Eligible(t) == Deadline(t) + GracePeriod

\* mutant: a column the UPDATE forgets
CheckedInKeepsToken(v, t) ==
    [v EXCEPT !.status = "ok", !.lastCheckin = t, !.deadline = Deadline(t),
              !.eligible = Eligible(t), !.openedAt = Never, !.readySent = FALSE]

\* routes::checkin
CheckedIn(v, t) ==
    [v EXCEPT !.status = "ok", !.lastCheckin = t, !.deadline = Deadline(t),
              !.eligible = Eligible(t), !.token = NoToken, !.used = FALSE,
              !.openedAt = Never, !.readySent = FALSE]

\* mutant: the claim gate stays where it was
ClockResetKeepsGate(v, t) ==
    [v EXCEPT !.status = "ok", !.lastCheckin = t, !.deadline = Deadline(t),
              !.token = NoToken, !.used = FALSE]

\* lightning::reset_vault_clock: leaves claim_opened_at and claim_ready_notified_at
ClockReset(v, t) ==
    [v EXCEPT !.status = "ok", !.lastCheckin = t, !.deadline = Deadline(t),
              !.eligible = Eligible(t), !.token = NoToken, !.used = FALSE]

\* mutant: no length
FrozenForNoTime(v, t) ==
    [v EXCEPT !.status = "frozen", !.frozenUntil = t, !.token = NoToken,
              !.used = FALSE, !.openedAt = Never, !.readySent = FALSE]

\* lightning::mark_panic_paid
Frozen(v, t) ==
    [v EXCEPT !.status = "frozen", !.frozenUntil = t + FreezePeriod, !.token = NoToken,
              !.used = FALSE, !.openedAt = Never, !.readySent = FALSE]

\* routes::issue_claim
Reissued(v, t) ==
    [v EXCEPT !.token = t, !.used = FALSE, !.openedAt = Never, !.readySent = FALSE]

\* scheduler::activate_funded_vaults
Activated(v, t) ==
    [v EXCEPT !.status = "ok", !.deadline = Deadline(t), !.eligible = Eligible(t)]

\* mutant: the other column is cleared
RetiredClearsDeadline(v) == [v EXCEPT !.status = "unfunded", !.deadline = Never]

\* scheduler::return_empty_vault_to_unfunded_inner, and owner_send's full drain
Retired(v) == [v EXCEPT !.status = "unfunded", !.eligible = Never]

\* scheduler::transition_alarmed_to_claimable
Started(v, t) == [v EXCEPT !.status = "timelock_started", !.token = t, !.used = FALSE]

InsideCurrentPeriod == vault.lastCheckin # Never /\ now < vault.lastCheckin + CheckinPeriod

\* mutant: the window has no length
WindowOverAtOnce == now >= vault.openedAt

WindowOver == now >= vault.openedAt + ChallengeWindow

-----------------------------------------------------------------------------
(* The chain. *)

Matured == coins = "held" /\ now >= confirmedAt + Timelock

\* heir_contact_gate: the coins unlock within the challenge window
WithinReach == coins = "held" /\ now + ChallengeWindow >= confirmedAt + Timelock

-----------------------------------------------------------------------------
(* Handlers between a read and the write that relies on it. *)

\* Between a read of the claim columns and the write that follows it.
Quick(r) == request[r] \in {"opening", "alerting", "loaded"}

\* A handler may start: with Serial, only while no other is half-way.
Free ==
    Serial => /\ owner.pc = "idle"
              /\ \A r \in Requests : request[r] = "idle"
              /\ pick.verdict = "none"

Init ==
    /\ now = 0
    /\ vault = [status |-> "unfunded", lastCheckin |-> Never, deadline |-> Deadline(0),
                eligible |-> Eligible(0), token |-> IF PasswordVault THEN 1 ELSE NoToken,
                used |-> FALSE, openedAt |-> Never, readySent |-> FALSE, frozenUntil |-> Never]
    /\ coins = "none" /\ confirmedAt = 0 /\ deposits = 0
    /\ minted = (IF PasswordVault THEN 1 ELSE 0)
    /\ heirLinks = {} /\ manualLinks = {}
    /\ owner = NoCall
    /\ request = [r \in Requests |-> "idle"]
    /\ phase = "idle" /\ pick = Nothing /\ tickAt = 0
    /\ faults = 0
    /\ clockFrom = 0 /\ alertedAt = Never /\ frozenFor = Never

-----------------------------------------------------------------------------
(* The environment: time, deposits, and a wallet the server never sees. *)

Advance ==
    /\ now < MaxTime
    /\ owner.pc = "idle" /\ \A r \in Requests : ~Quick(r)
    /\ now' = now + 1
    /\ UNCHANGED <<vault, chainVars, linkVars, owner, request, schedVars, faults, historyVars>>

Deposit ==
    /\ coins \in {"none", "owner"} /\ deposits < MaxDeposits
    /\ coins' = "held" /\ confirmedAt' = now /\ deposits' = deposits + 1
    /\ UNCHANGED <<now, vault, linkVars, owner, request, schedVars, faults, historyVars>>

OwnerSweep ==
    /\ "sweep" \in OwnerActs /\ coins = "held"
    /\ coins' = "owner"
    /\ UNCHANGED <<now, vault, confirmedAt, deposits, linkVars, owner, request,
                   schedVars, faults, historyVars>>

-----------------------------------------------------------------------------
(* The owner's routes. *)

\* The free check-in is open in the last resort window only when there is Lightning.
FreeCheckinOpen ==
    LightningOn => vault.eligible # Never /\ vault.eligible - now <= LastResort

\* mutant: without claim_is_final
CheckinAllowedAfterClaim ==
    vault.status # "unfunded" /\ ~InsideCurrentPeriod /\ FreeCheckinOpen

CheckinAllowed ==
    /\ vault.status \notin {"unfunded", "claimed"}
    /\ ~InsideCurrentPeriod
    /\ FreeCheckinOpen

OwnerCheckinRead ==
    /\ "checkin" \in OwnerActs /\ Free /\ owner.pc = "idle" /\ CheckinAllowed
    /\ owner' = [pc |-> "checkin", at |-> now]
    /\ UNCHANGED <<now, vault, chainVars, linkVars, request, schedVars, faults, historyVars>>

OwnerCheckinWrite ==
    /\ owner.pc = "checkin"
    /\ vault' = CheckedIn(vault, owner.at)
    /\ owner' = NoCall
    /\ clockFrom' = owner.at /\ alertedAt' = Never /\ frozenFor' = Never
    /\ UNCHANGED <<now, chainVars, linkVars, request, schedVars, faults>>

\* The poller sees a paid check-in invoice: the row's one transaction.
LightningCheckin ==
    /\ "lightning" \in OwnerActs /\ LightningOn /\ Free
    /\ ~InsideCurrentPeriod /\ vault.status # "claimed"
    /\ vault' = ClockReset(vault, now)
    /\ clockFrom' = now /\ alertedAt' = Never /\ frozenFor' = Never
    /\ UNCHANGED <<now, chainVars, linkVars, owner, request, schedVars, faults>>

\* The poller sees a paid panic invoice.
Panic ==
    /\ "panic" \in OwnerActs /\ LightningOn /\ Free
    /\ vault.status # "claimed"
    /\ vault' = Frozen(vault, now)
    /\ alertedAt' = Never /\ frozenFor' = now + FreezePeriod
    /\ UNCHANGED <<now, chainVars, linkVars, owner, request, schedVars, faults, clockFrom>>

\* A token the owner takes himself: a later claim is his own doing, so it ends frozenFor.
\* (The last token of the bound is left to the scheduler.)
IssueClaim ==
    /\ "issue" \in OwnerActs /\ Free /\ minted + 1 < MaxTokens
    /\ minted' = minted + 1
    /\ vault' = Reissued(vault, minted + 1)
    /\ manualLinks' = manualLinks \cup {minted + 1}
    /\ alertedAt' = Never /\ frozenFor' = Never
    /\ UNCHANGED <<now, chainVars, heirLinks, owner, request, schedVars, faults, clockFrom>>

\* owner_send of everything: the network first, the row afterwards.
OwnerSend ==
    /\ "send" \in OwnerActs /\ Free /\ owner.pc = "idle" /\ coins = "held"
    /\ coins' = "owner"
    /\ owner' = [pc |-> "sent", at |-> now]
    /\ UNCHANGED <<now, vault, confirmedAt, deposits, linkVars, request, schedVars,
                   faults, historyVars>>

OwnerSendNoted ==
    /\ owner.pc = "sent"
    /\ owner' = NoCall
    /\ IF vault.status \in {"ok", "alarmed", "frozen"}
         THEN vault' = Retired(vault) /\ frozenFor' = Never
         ELSE UNCHANGED <<vault, frozenFor>>
    /\ UNCHANGED <<now, chainVars, linkVars, request, schedVars, faults, clockFrom, alertedAt>>

-----------------------------------------------------------------------------
(* The scheduler: one tick runs its steps in order; each step selects the  *)
(* row, may scan the chain, and then writes.                               *)

TickStart ==
    /\ phase = "idle"
    /\ phase' = "unfreeze" /\ tickAt' = now
    /\ UNCHANGED <<now, vault, chainVars, linkVars, owner, request, pick, faults, historyVars>>

\* The WHERE clause of the SELECT of step p.
Selected(p) ==
    \/ /\ p = "unfreeze" /\ vault.status = "frozen"
       /\ vault.frozenUntil # Never /\ vault.frozenUntil <= tickAt
    \/ p = "activate" /\ vault.status = "unfunded"
    \/ p = "retire" /\ vault.status \in {"ok", "alarmed"}
    \/ p = "alarm" /\ vault.status = "ok" /\ vault.deadline <= tickAt
    \/ /\ p = "claim" /\ vault.status = "alarmed"
       /\ vault.eligible # Never /\ vault.eligible <= tickAt
       /\ vault.token = NoToken \/ PasswordVault
    \/ /\ p = "ready" /\ ChallengeWindow > 0
       /\ vault.openedAt # Never /\ ~vault.readySent
       /\ vault.token # NoToken /\ ~vault.used
       /\ WindowOver

\* "retire" is retire_drained_vaults and stand_down_never_funded_vaults: which of the two
\* an empty vault meets (only the second takes alarmed ones) depends on vault_deposits,
\* which knows the deposits somebody looked at; Skip covers the vault neither takes.

\* What the step concludes from the chain; "none" leaves the row alone.
Verdict(p) ==
    CASE p = "activate" -> IF coins = "held" THEN "due" ELSE "none"
      [] p = "retire"   -> IF coins # "held" THEN "empty" ELSE "none"
      [] p = "claim"    -> IF coins # "held" THEN "empty"
                           ELSE IF WithinReach THEN "due" ELSE "none"
      [] p = "ready"    -> IF Matured THEN "due" ELSE "none"
      [] OTHER          -> "due"

\* The token whose link is mailed: the one kept at rest, or a fresh one.
MailedToken == IF PasswordVault THEN 1 ELSE minted + 1

Pick(p) ==
    /\ phase = p /\ pick.verdict = "none" /\ Free
    /\ Selected(p) /\ Verdict(p) # "none"
    /\ p = "claim" => MailedToken <= MaxTokens
    /\ pick' = [verdict |-> Verdict(p), from |-> vault.status, token |-> vault.token,
                at |-> now]
    /\ UNCHANGED <<now, vault, chainVars, linkVars, owner, request, phase, tickAt,
                   faults, historyVars>>

\* On to the next step; the `now` of a tick is not used after it.
EndStep ==
    /\ phase' = NextPhase[phase]
    /\ tickAt' = IF phase = "ready" THEN 0 ELSE tickAt

\* A step that finds nothing, cannot read the chain, holds the activation for an
\* unconfirmed email, or is suppressed by the Lightning gate ends without a write.
Skip ==
    /\ phase # "idle" /\ pick.verdict = "none"
    /\ phase \in {"unfreeze", "alarm"} => ~Selected(phase)
    /\ EndStep
    /\ UNCHANGED <<now, vault, chainVars, linkVars, owner, request, pick, faults, historyVars>>

\* The write of step p: it ends the step and forgets what was picked.
Writes(p) ==
    /\ phase = p /\ pick.verdict # "none"
    /\ EndStep /\ pick' = Nothing
    /\ UNCHANGED <<now, chainVars, owner, request, faults>>

Unfreeze ==
    /\ Writes("unfreeze")
    /\ vault' = IF vault.status = "frozen"
                  THEN [vault EXCEPT !.status = "alarmed", !.frozenUntil = Never] ELSE vault
    /\ UNCHANGED <<linkVars, historyVars>>

Activate ==
    /\ Writes("activate")
    /\ IF vault.status = "unfunded"
         THEN vault' = Activated(vault, pick.at) /\ clockFrom' = pick.at
         ELSE UNCHANGED <<vault, clockFrom>>
    /\ UNCHANGED <<linkVars, alertedAt, frozenFor>>

Retire ==
    /\ Writes("retire")
    /\ vault' = IF vault.status = pick.from THEN Retired(vault) ELSE vault
    /\ UNCHANGED <<linkVars, historyVars>>

\* The UPDATE of transition_ok_to_alarmed has no condition on the status.
Alarm ==
    /\ Writes("alarm")
    /\ vault' = [vault EXCEPT !.status = "alarmed"]
    /\ UNCHANGED <<linkVars, historyVars>>

ClaimEmpty ==
    /\ Writes("claim") /\ pick.verdict = "empty"
    /\ vault' = IF vault.status = "alarmed" THEN Retired(vault) ELSE vault
    /\ UNCHANGED <<linkVars, historyVars>>

\* mutant: the hash is not derived again when a check-in wiped it
StoredTokenAsRead == pick.token

\* The token whose hash is stored: a password vault keeps the hash the SELECT saw.
StoredToken == IF PasswordVault /\ pick.token # NoToken THEN pick.token ELSE MailedToken

\* mutant: no WHERE clause but the id
AlwaysClaimable == TRUE

\* The WHERE clause of the UPDATE.
StillClaimable == vault.status = "alarmed" /\ (PasswordVault \/ vault.token = NoToken)

\* The link is enqueued whether or not the UPDATE found the row.
StartClaim ==
    /\ Writes("claim") /\ pick.verdict = "due"
    /\ vault' = IF StillClaimable THEN Started(vault, StoredToken) ELSE vault
    /\ minted' = (IF PasswordVault THEN minted ELSE minted + 1)
    /\ heirLinks' = heirLinks \cup {MailedToken}
    /\ UNCHANGED <<manualLinks, historyVars>>

ReadyNotice ==
    /\ Writes("ready")
    /\ vault' = [vault EXCEPT !.readySent = TRUE]
    /\ UNCHANGED <<linkVars, historyVars>>

Scheduler ==
    \/ TickStart \/ (\E p \in Phases \ {"idle"} : Pick(p)) \/ Skip \/ Unfreeze \/ Activate \/ Retire \/ Alarm
    \/ ClaimEmpty \/ StartClaim \/ ReadyNotice

-----------------------------------------------------------------------------
(* The heir's requests: load_vault_for_claim_token with ensure_claim_challenge, *)
(* then broadcast_claim or heir_claim.                                          *)

Goto(r, pc) == request' = [request EXCEPT ![r] = pc]

\* Somebody holding a link uses it: its hash is on the row, and it is unused.
Resolve(r) ==
    /\ request[r] = "idle" /\ Free
    /\ vault.token \in heirLinks \cup manualLinks /\ ~vault.used
    /\ Goto(r, IF ChallengeWindow = 0 THEN "loaded" ELSE "resolved")
    /\ UNCHANGED <<now, vault, chainVars, linkVars, owner, schedVars, faults, historyVars>>

\* The SELECT of claim_opened_at.
Challenge(r) ==
    /\ request[r] = "resolved"
    /\ Goto(r, IF vault.openedAt = Never THEN "opening"
               ELSE IF WindowOver THEN "loaded" ELSE "idle")
    /\ UNCHANGED <<now, vault, chainVars, linkVars, owner, schedVars, faults, historyVars>>

Open(r) ==
    /\ request[r] = "opening"
    /\ IF vault.openedAt = Never
         THEN vault' = [vault EXCEPT !.openedAt = now] /\ Goto(r, "alerting")
         ELSE Goto(r, "idle") /\ UNCHANGED vault
    /\ UNCHANGED <<now, chainVars, linkVars, owner, schedVars, faults, historyVars>>

Alert(r) ==
    /\ request[r] = "alerting"
    /\ alertedAt' = now /\ Goto(r, "idle")
    /\ UNCHANGED <<now, vault, chainVars, linkVars, owner, schedVars, faults,
                   clockFrom, frozenFor>>

\* mutant: `claimed` before the network agrees
ConsumedAsClaimed(v) == [v EXCEPT !.status = "claimed", !.used = TRUE]

Unused == ~vault.used
Consumed(v) == [v EXCEPT !.status = "claiming", !.used = TRUE]

\* The compare-and-swap on claim_token_used_at, by vault id.
ConsumeToken(r) ==
    /\ request[r] = "loaded"
    /\ IF Unused
         THEN vault' = Consumed(vault)
              /\ Goto(r, "broadcasting")
         ELSE Goto(r, "idle") /\ UNCHANGED vault
    /\ UNCHANGED <<now, chainVars, linkVars, owner, schedVars, faults, historyVars>>

Broadcast(r) ==
    /\ request[r] = "broadcasting" /\ Matured
    /\ coins' = "heir" /\ Goto(r, "accepted")
    /\ UNCHANGED <<now, vault, confirmedAt, deposits, linkVars, owner, schedVars,
                   faults, historyVars>>

Promote(r) ==
    /\ request[r] = "accepted"
    /\ vault' = [vault EXCEPT !.status = "claimed"] /\ Goto(r, "idle")
    /\ UNCHANGED <<now, chainVars, linkVars, owner, schedVars, faults, historyVars>>

\* mutant: the token stays consumed
ReleasedKeepsUsed(v) ==
    IF v.status = "claiming" THEN [v EXCEPT !.status = "timelock_started"] ELSE v

Released(v) ==
    IF v.status = "claiming" THEN [v EXCEPT !.status = "timelock_started", !.used = FALSE] ELSE v

\* The explorer refuses, or cannot be reached.
BroadcastFails(r) ==
    /\ request[r] = "broadcasting"
    /\ vault' = Released(vault) /\ Goto(r, "idle")
    /\ UNCHANGED <<now, chainVars, linkVars, owner, schedVars, faults, historyVars>>

-----------------------------------------------------------------------------
(* Failures, bounded by MaxFaults. *)

\* A broadcast whose task is already running lands with or without its handler.
MayLand(rs) ==
    \/ UNCHANGED coins
    \/ (\E r \in rs : request[r] = "broadcasting") /\ Matured /\ coins' = "heir"

\* Every explorer errs, one of them after it took the transaction.
AnswerLost(r) ==
    /\ request[r] = "broadcasting" /\ Matured /\ faults < MaxFaults
    /\ coins' = "heir" /\ faults' = faults + 1
    /\ vault' = Released(vault) /\ Goto(r, "idle")
    /\ UNCHANGED <<now, confirmedAt, deposits, linkVars, owner, schedVars, historyVars>>

\* The heir's client goes away and the handler is dropped at an await.
Disconnect(r) ==
    /\ request[r] # "idle" /\ faults < MaxFaults
    /\ faults' = faults + 1 /\ Goto(r, "idle") /\ MayLand({r})
    /\ UNCHANGED <<now, vault, confirmedAt, deposits, linkVars, owner, schedVars, historyVars>>

\* The process dies; the row is all that survives.
Crash ==
    /\ faults < MaxFaults
    /\ faults' = faults + 1 /\ MayLand(Requests)
    /\ owner' = NoCall
    /\ request' = [r \in Requests |-> "idle"]
    /\ phase' = "idle" /\ pick' = Nothing /\ tickAt' = 0
    /\ UNCHANGED <<now, vault, confirmedAt, deposits, linkVars, historyVars>>

-----------------------------------------------------------------------------
Owner ==
    \/ OwnerSweep \/ OwnerCheckinRead \/ OwnerCheckinWrite \/ LightningCheckin
    \/ Panic \/ IssueClaim \/ OwnerSend \/ OwnerSendNoted

Heir(r) ==
    \/ Resolve(r) \/ Challenge(r) \/ Open(r) \/ Alert(r) \/ ConsumeToken(r)
    \/ Broadcast(r) \/ Promote(r) \/ BroadcastFails(r) \/ AnswerLost(r) \/ Disconnect(r)

Next ==
    \/ Advance \/ Deposit \/ Owner \/ Scheduler \/ Crash
    \/ \E r \in Requests : Heir(r)

Spec == Init /\ [][Next]_vars

(* Fairness: tokio runs every task that can run and the scheduler loops for  *)
(* ever; an explorer that is asked again and again answers and takes a       *)
(* transaction in the end; an heir with a link keeps trying it.              *)
Fairness ==
    /\ SF_vars(Advance) /\ WF_vars(TickStart) /\ WF_vars(Skip)
    /\ WF_vars(OwnerCheckinWrite) /\ WF_vars(OwnerSendNoted)
    /\ \A p \in Phases \ {"idle"} : SF_vars(Pick(p))
    /\ WF_vars(Unfreeze \/ Activate \/ Retire \/ Alarm \/ ClaimEmpty \/ StartClaim \/ ReadyNotice)
    /\ \A r \in Requests :
          /\ SF_vars(Resolve(r)) /\ SF_vars(Broadcast(r))
          /\ WF_vars(Challenge(r) \/ Open(r) \/ Alert(r) \/ ConsumeToken(r) \/ Promote(r))

FairSpec == Spec /\ Fairness

-----------------------------------------------------------------------------
(* Properties. *)

\* Types of every variable: the columns keep their domains under every write.
TypeOK ==
    /\ now \in Nat /\ vault \in Row
    /\ coins \in {"none", "held", "owner", "heir"} /\ confirmedAt \in Nat /\ deposits \in Nat
    /\ minted \in 0 .. MaxTokens /\ heirLinks \subseteq Tokens /\ manualLinks \subseteq Tokens
    /\ owner \in Calls
    /\ request \in [Requests -> {"idle", "resolved", "opening", "alerting", "loaded",
                                 "broadcasting", "accepted"}]
    /\ phase \in Phases /\ tickAt \in Nat
    /\ pick \in Findings
    /\ faults \in Nat /\ clockFrom \in Nat /\ alertedAt \in Times /\ frozenFor \in Times

\* The step gives the vault to the heir (and is no release of a failed broadcast).
ClaimStarts ==
    /\ vault.status \notin {"timelock_started", "claiming"}
    /\ vault'.status = "timelock_started"

\* The scheduler moves a vault to the heir only after a whole period and both grace
\* periods since the clock last restarted, whatever raced with the tick
\* (transition_alarmed_to_claimable, whose SELECT is older than its UPDATE).
HeirContactAfterFullClock ==
    [][ClaimStarts => now >= Eligible(clockFrom)]_vars

\* A link mailed to the heir works only while the vault is being claimed: every way
\* back to the owner clears or replaces the token (checkin, reset_vault_clock,
\* mark_panic_paid, issue_claim).
HeirLinkOnlyDuringClaim ==
    vault.token \in heirLinks => vault.status \in {"timelock_started", "claiming", "claimed"}

\* When the claim starts, the link mailed to the heir is the one the row answers to.
MailedLinkResolves ==
    [][ClaimStarts => vault'.token \in heirLinks']_vars

\* `claimed` is written only for coins the heir has (broadcast_claim, last UPDATE).
ClaimedMeansPaid == vault.status = "claimed" => coins = "heir"

\* A panic keeps the vault frozen for the whole freeze, unless the owner acts
\* (PANIC_FREEZE_DAYS: "heirs cannot drain a vault for at least this many days").
PanicHolds == frozenFor # Never /\ now < frozenFor => vault.status = "frozen"

\* `claimed` is left only by a link the owner issued (issue_claim asks no status);
\* no check-in, payment or scheduler step leaves it (claim_is_final).
ClaimedIsFinal ==
    [][vault.status = "claimed" /\ vault'.status # "claimed"
         => vault.token \in manualLinks]_vars

\* A claim passes the challenge only a whole window after the owner was alerted.
ChallengeAlertsOwner ==
    \A r \in Requests :
        request[r] = "loaded" => alertedAt # Never /\ now >= alertedAt + ChallengeWindow

\* Without overlapping handlers the vault keeps the owner's whole promise.
Switch == INSTANCE DeadMansSwitch WITH
            Silence <- Eligible(0), since <- clockFrom, heldUntil <- frozenFor,
            released <- vault.token \in heirLinks, handed <- vault.token \in manualLinks,
            taken <- coins = "heir"
KeepsPromise == Switch!Spec

\* Something the claim waits for lies beyond the clock of the model.
OutOfTime ==
    \/ vault.eligible > MaxTime \/ confirmedAt + Timelock > MaxTime
    \/ vault.openedAt + ChallengeWindow > MaxTime

\* The heir of a silent owner is paid, and the row says so.
HeirIsPaid == coins = "held" ~> (coins = "heir" /\ vault.status = "claimed") \/ OutOfTime
=============================================================================
