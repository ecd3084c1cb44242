----------------------------- MODULE Notifications -----------------------------
(* The notification queue of one vault, its worker (notifier.rs), and the     *)
(* callbacks in which the providers say what became of a message              *)
(* (delivery.rs, behind the routes of delivery.rs and resend.rs).             *)
(*                                                                            *)
(* The worker is one task.  The callbacks are handled concurrently, each      *)
(* statement on its own: `hand[h]` is a handler between two statements.  The  *)
(* providers, outside the repository, take messages and call back until they  *)
(* are answered, in any order, and again when the answer is lost.             *)
EXTENDS Naturals, Sequences, FiniteSets, Functions

CONSTANTS
    N,             \* notification rows the vault may come to have
    Kinds,         \* what the scheduler and the routes enqueue: for the heir or not, by mail or phone
    MaxHandlers,   \* callbacks handled at a time
    MaxAttempts,   \* MAX_ATTEMPTS
    Batch,         \* LIMIT of one round
    MaxReports,    \* reports of the providers
    MaxFaults      \* restarts, failed statements, answers that are lost

ASSUME NAssumption == N \in Nat \ {0}
ASSUME AttemptsAssumption == MaxAttempts \in Nat \ {0} /\ Batch \in Nat \ {0}
ASSUME KindsAssumption == Kinds \subseteq [heir : BOOLEAN, mail : BOOLEAN]
ASSUME BoundsAssumption == MaxHandlers \in Nat /\ MaxReports \in Nat /\ MaxFaults \in Nat

VARIABLES
    note,       \* [Notes -> Note], the table
    due,        \* the pending rows whose time has come, in order of scheduled_at
    batch,      \* how many of them the round has fetched and not yet taken up
    at,         \* the rows the worker is sending: none or one
    taken,      \* the provider has taken the message, and has answered
    fate,       \* [Messages -> Fates], what became of it, at the provider
    calls,      \* callbacks that are not answered yet
    seen,       \* notification_delivery_events
    hand,       \* [Handlers -> Hand]
    verified, alerted,   \* heir_contact_verified_at, heir_unreachable_alerted_at
    faults

queueVars == <<note, due>>
workVars == <<batch, at, taken>>
providerVars == <<fate, calls>>
heirVars == <<verified, alerted>>
vars == <<queueVars, workVars, providerVars, seen, hand, heirVars, faults>>

-----------------------------------------------------------------------------
Handlers == 1 .. MaxHandlers
Notes == 1 .. N      \* their ids, in the order they were inserted

\* One hand-off of a row, by its number.
Messages == Notes \X (1 .. MaxAttempts)
Statuses == {"sent", "delivered", "bounced", "complained"}
Fates == {"none"} \cup Statuses
Calls == Messages \X Statuses

\* heir: the kind goes to the heir (claim_link, claim_ready, drill_invite); mail: by mail, not by
\* phone; id: the hand-off whose id is in provider_message_id.
Note == [status : {"none", "pending", "sending", "sent", "failed"}, heir : BOOLEAN,
         mail : BOOLEAN, attempts : 0 .. MaxAttempts, id : 0 .. MaxAttempts, verdict : Fates]
NoNote == [status |-> "none", heir |-> FALSE, mail |-> FALSE, attempts |-> 0, id |-> 0,
           verdict |-> "none"]

\* call: what is handled; row: the rows found for it, none or one; prev: its verdict when read.
Hand == [stage : {"idle", "claim", "write", "vault", "clear", "tell"}, call : Calls,
         row : SUBSET Notes, prev : Fates]

NoHand == [stage |-> "idle", call |-> << <<1, 1>>, "sent">>, row |-> {}, prev |-> "none"]

Init ==
    /\ note = [n \in Notes |-> NoNote] /\ due = <<>>
    /\ batch = 0 /\ at = {} /\ taken = FALSE
    /\ fate = [m \in Messages |-> "none"] /\ calls = {} /\ seen = {}
    /\ hand = [h \in Handlers |-> NoHand]
    /\ verified = FALSE /\ alerted = FALSE /\ faults = 0

Fault == faults < MaxFaults /\ faults' = faults + 1

-----------------------------------------------------------------------------
(* The table.                                                               *)

Vacant(n) == note[n].status = "none" /\ \A k \in Notes : k < n => note[k].status # "none"

Inserted(n, k) ==
    /\ Vacant(n)
    /\ note' = [note EXCEPT ![n] = [NoNote EXCEPT !.status = "pending",
                                      !.heir = k.heir, !.mail = k.mail]]
    /\ due' = Append(due, n)

\* enqueue, by the scheduler or a route.
Enqueue(n, k) ==
    /\ Inserted(n, k)
    /\ UNCHANGED <<workVars, providerVars, seen, hand, heirVars, faults>>

\* update_vault_heir: what was known of the old address is no claim about the new one.
ChangeAddress ==
    /\ verified' = FALSE /\ alerted' = FALSE
    /\ UNCHANGED <<queueVars, workVars, providerVars, seen, hand, faults>>

\* The time a rescheduled row was put off to.
Ripens(n) ==
    /\ note[n].status = "pending" /\ n \notin Range(due) /\ due' = Append(due, n)
    /\ UNCHANGED <<note, workVars, providerVars, seen, hand, heirVars, faults>>

-----------------------------------------------------------------------------
(* The worker: tick_once.                                                   *)

Round ==
    /\ batch = 0 /\ at = {} /\ due # <<>>
    /\ batch' = IF Len(due) < Batch THEN Len(due) ELSE Batch
    /\ UNCHANGED <<queueVars, at, taken, providerVars, seen, hand, heirVars, faults>>

\* The row is marked before it is sent.
TakeUp ==
    /\ batch # 0 /\ at = {} /\ batch' = batch - 1 /\ at' = {Head(due)} /\ due' = Tail(due)
    /\ note' = [note EXCEPT ![Head(due)].status = "sending"]
    /\ UNCHANGED <<taken, providerVars, seen, hand, heirVars, faults>>

\* What is left to do after the send: the row n becomes r.
Settles(n, r) ==
    /\ note' = [note EXCEPT ![n] = r] /\ at' = {} /\ taken' = FALSE
    /\ UNCHANGED <<due, batch, providerVars, seen, hand, heirVars>>

Failed(r) == [r EXCEPT !.status = "failed", !.attempts = @ + 1]

RescheduledOnceMore(r) ==
    IF r.attempts + 1 > MaxAttempts THEN Failed(r)
    ELSE [r EXCEPT !.status = "pending", !.attempts = @ + 1]
RescheduledForFree(r) ==
    IF r.attempts + 1 >= MaxAttempts THEN Failed(r) ELSE [r EXCEPT !.status = "pending"]
Rescheduled(r) ==
    IF r.attempts + 1 >= MaxAttempts THEN Failed(r)
    ELSE [r EXCEPT !.status = "pending", !.attempts = @ + 1]

\* A refusal for good, a channel without a backend, a payload that does not open.
Refused(n) == n \in at /\ ~taken /\ Settles(n, Failed(note[n])) /\ UNCHANGED faults

\* A send that fails and may be tried again.
Errs(n) == n \in at /\ ~taken /\ Settles(n, Rescheduled(note[n])) /\ UNCHANGED faults

\* The provider takes the message.
HandOff(n) ==
    /\ n \in at /\ ~taken /\ taken' = TRUE
    /\ fate' = [fate EXCEPT ![<<n, note[n].attempts + 1>>] = "sent"]
    /\ UNCHANGED <<queueVars, batch, at, calls, seen, hand, heirVars, faults>>

\* Only now can a callback be matched with the row.  Its answer may also be lost on the way.
Sent(n) ==
    /\ n \in at /\ taken /\ UNCHANGED faults
    /\ Settles(n, [note[n] EXCEPT !.status = "sent", !.attempts = @ + 1, !.id = note[n].attempts + 1])

AnswerLost(n) == n \in at /\ taken /\ Fault /\ Settles(n, Rescheduled(note[n]))

\* A statement fails and ends the round; the row stays as it was marked.
RoundFails ==
    /\ at # {} /\ Fault /\ batch' = 0 /\ at' = {} /\ taken' = FALSE
    /\ UNCHANGED <<queueVars, providerVars, seen, hand, heirVars>>

-----------------------------------------------------------------------------
(* The providers.                                                           *)

\* What becomes of a message, and that it is on its way.
Fare(m, s) ==
    /\ \/ fate[m] = "sent" /\ s \in {"delivered", "bounced"}
       \/ fate[m] = "delivered" /\ s = "complained"
       \/ fate[m] = "sent" /\ s = "sent" /\ <<m, s>> \notin seen
    /\ Cardinality(calls \cup seen) < MaxReports
    /\ fate' = [fate EXCEPT ![m] = s] /\ calls' = calls \cup {<<m, s>>}
    /\ UNCHANGED <<queueVars, workVars, seen, hand, heirVars, faults>>

-----------------------------------------------------------------------------
(* The callbacks: record_delivery, one statement at a time.                 *)

RankOf == [s \in Fates |-> IF s = "none" THEN 0 ELSE IF s = "sent" THEN 2
                           ELSE IF s = "delivered" THEN 3 ELSE 5]
Negative(s) == s \in {"bounced", "complained"}

\* The id of a mail is of our own making, the same for every hand-off of its row.
Carries(r, m) == r.status = "sent" /\ (r.mail \/ r.id = m[2])

Beyond(h, stage) == hand' = [hand EXCEPT ![h].stage = stage]
Ends(h) == hand' = [hand EXCEPT ![h] = NoHand]

\* 2xx; the provider may not get it, and call again.
Answered(h) ==
    /\ Ends(h)
    /\ \/ calls' = calls \ {hand[h].call} /\ UNCHANGED faults
       \/ Fault /\ UNCHANGED calls

\* The row is read first.  The provider may have called again before it was answered.
Read(h, c) ==
    /\ hand[h].stage = "idle" /\ \A g \in Handlers : g < h => hand[g].stage # "idle"
    /\ IF \E g \in Handlers : hand[g].stage # "idle" /\ hand[g].call = c THEN Fault
       ELSE UNCHANGED faults
    /\ LET row == {n \in {c[1][1]} : Carries(note[n], c[1])}
       IN  hand' = [hand EXCEPT ![h] = [stage |-> "claim", call |-> c, row |-> row,
             prev |-> IF row = {} THEN "none" ELSE note[c[1][1]].verdict]]
    /\ UNCHANGED <<queueVars, workVars, providerVars, seen, heirVars>>

ReachesBack(s, prev) == s # prev
Advances(s, prev) == RankOf[s] > RankOf[prev]

\* The event is claimed; it may have been before, be of no row, or be out of order.
Claim(h) ==
    /\ hand[h].stage = "claim" /\ seen' = seen \cup {hand[h].call}
    /\ IF hand[h].call \notin seen /\ hand[h].row # {} /\ Advances(hand[h].call[2], hand[h].prev)
         THEN Beyond(h, "write") /\ UNCHANGED <<calls, faults>>
         ELSE Answered(h)
    /\ UNCHANGED <<queueVars, workVars, fate, heirVars>>

Write(h) ==
    /\ hand[h].stage = "write"
    /\ note' = [n \in Notes |-> IF n \in hand[h].row THEN [note[n] EXCEPT !.verdict = hand[h].call[2]]
                                ELSE note[n]]
    /\ Beyond(h, "vault")
    /\ UNCHANGED <<due, workVars, providerVars, seen, heirVars, faults>>

AnySign(s) == ~Negative(s)
ProvesDelivery(s) == s = "delivered"

\* record_heir_reachable, or the first half of alert_owner_heir_unreachable.
Vault(h) ==
    /\ hand[h].stage = "vault"
    /\ LET s == hand[h].call[2]
           heir == \E n \in hand[h].row : note[n].heir
       IN  \/ /\ heir /\ Negative(s) /\ ~alerted /\ alerted' = TRUE
              /\ Beyond(h, "tell") /\ UNCHANGED <<verified, calls, faults>>
           \/ /\ heir /\ ProvesDelivery(s) /\ verified' = TRUE
              /\ Beyond(h, "clear") /\ UNCHANGED <<alerted, calls, faults>>
           \/ /\ ~(heir /\ ((Negative(s) /\ ~alerted) \/ ProvesDelivery(s)))
              /\ Answered(h) /\ UNCHANGED <<verified, alerted>>
    /\ UNCHANGED <<queueVars, workVars, fate, seen>>

\* The alarm is armed again.
Clear(h) ==
    /\ hand[h].stage = "clear" /\ alerted' = FALSE /\ Answered(h)
    /\ UNCHANGED <<queueVars, workVars, fate, seen, verified>>

OwnersMail == [heir |-> FALSE, mail |-> TRUE]

\* The owner's mail; an error here is logged, and a vault may have no mail of the owner.
Tell(h) ==
    /\ hand[h].stage = "tell" /\ Answered(h)
    /\ (\E n \in Notes : Inserted(n, OwnersMail)) \/ UNCHANGED queueVars
    /\ UNCHANGED <<workVars, fate, seen, heirVars>>

\* A statement fails: 500, and the provider calls again.
HandlerFails(h) ==
    /\ hand[h].stage # "idle" /\ Fault /\ Ends(h)
    /\ UNCHANGED <<queueVars, workVars, providerVars, seen, heirVars>>

\* The process ends and is started again.
Restart ==
    /\ Fault /\ batch' = 0 /\ at' = {} /\ taken' = FALSE
    /\ hand' = [h \in Handlers |-> NoHand]
    /\ UNCHANGED <<queueVars, providerVars, seen, heirVars>>

-----------------------------------------------------------------------------
Sending == \E n \in Notes : Refused(n) \/ Errs(n) \/ HandOff(n) \/ Sent(n) \/ AnswerLost(n)
Worker == Round \/ TakeUp \/ Sending \/ RoundFails
Handles(h) == Claim(h) \/ Write(h) \/ Vault(h) \/ Clear(h) \/ Tell(h)

Next ==
    \/ \E n \in Notes, k \in Kinds : Enqueue(n, k)
    \/ \E n \in Notes : Ripens(n)
    \/ ChangeAddress
    \/ Worker
    \/ \E m \in Messages, s \in Statuses : Fare(m, s)
    \/ \E h \in Handlers : Handles(h) \/ HandlerFails(h) \/ \E c \in calls : Read(h, c)
    \/ Restart

\* The worker loops, a send comes to an end, and time passes.
Fairness ==
    /\ WF_vars(Round) /\ WF_vars(TakeUp) /\ WF_vars(Sending)
    /\ \A n \in Notes : WF_vars(Ripens(n))

Spec == Init /\ [][Next]_vars /\ Fairness

-----------------------------------------------------------------------------
(* Properties.                                                              *)

\* Every variable holds a value of its type; the rows that are due, and so those that are
\* fetched, are pending, and the one the worker sends is marked.
TypeOK ==
    /\ note \in [Notes -> Note] /\ fate \in [Messages -> Fates]
    /\ calls \subseteq Calls /\ seen \subseteq Calls /\ hand \in [Handlers -> Hand]
    /\ at \subseteq Notes /\ taken \in BOOLEAN
    /\ verified \in BOOLEAN /\ alerted \in BOOLEAN
    /\ faults \in 0 .. MaxFaults
    /\ due \in Seq(Notes) /\ batch \in 0 .. Len(due)
    /\ \A n \in Range(due) : note[n].status = "pending"
    /\ \A n \in at : note[n].status = "sending"

\* Two callbacks of one row whose handlers overlap.
Overtaken(h) == hand[h].stage = "write" /\ \E n \in hand[h].row : note[n].verdict # hand[h].prev

\* "A verdict only moves forward (`delivery_rank`), so a late `sent` cannot overwrite a
\* `bounced`": neither order, repetition nor a failure takes a verdict back; only a handler that
\* had read the row before another one wrote it does, for nothing holds the two apart.
VerdictsMoveForward ==
    [][\A n \in Notes : RankOf[note'[n].verdict] < RankOf[note[n].verdict]
         => \E h \in Handlers : n \in hand[h].row /\ Overtaken(h)]_vars

\* The heir counts as reachable only when a provider has handed a message meant for an heir to
\* the mailbox it was sent to: not when one was merely sent, and not when the owner's own mail
\* arrived.
ConfirmedIsDelivered ==
    verified => \E m \in Messages : note[m[1]].heir /\ fate[m] \in {"delivered", "complained"}

\* Every row is sent, or failed for good, in the end, whatever the provider answers and however
\* the round it was fetched in ended; but one that was marked when the process died stays so.
Left(n) == note[n].status = "sending" /\ n \notin at
EachIsSettled ==
    \A n \in Notes : note[n].status = "pending" ~> note[n].status \in {"sent", "failed"} \/ Left(n)
=============================================================================
