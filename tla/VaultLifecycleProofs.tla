------------------------ MODULE VaultLifecycleProofs ------------------------
(***************************************************************************)
(* Proofs about VaultLifecycle for all durations, bounds, sets of requests *)
(* and owners, and for every interleaving of the handlers.                 *)
(***************************************************************************)
EXTENDS VaultLifecycle, TLAPS

-----------------------------------------------------------------------------
(* Types. *)

(* A column takes any value of its domain. *)
LEMMA ColumnUpdates ==
  /\ \A v \in Row, x \in Statuses : [v EXCEPT !.status = x] \in Row
  /\ \A v \in Row, x \in Times : [v EXCEPT !.lastCheckin = x] \in Row
  /\ \A v \in Row, x \in Nat : [v EXCEPT !.deadline = x] \in Row
  /\ \A v \in Row, x \in Times : [v EXCEPT !.eligible = x] \in Row
  /\ \A v \in Row, x \in Tokens \cup {NoToken} : [v EXCEPT !.token = x] \in Row
  /\ \A v \in Row, x \in BOOLEAN : [v EXCEPT !.used = x] \in Row
  /\ \A v \in Row, x \in Times : [v EXCEPT !.openedAt = x] \in Row
  /\ \A v \in Row, x \in BOOLEAN : [v EXCEPT !.readySent = x] \in Row
  /\ \A v \in Row, x \in Times : [v EXCEPT !.frozenUntil = x] \in Row
  BY DEF Row

LEMMA Instants ==
  /\ Never \in Times /\ NoToken \in Tokens \cup {NoToken}
  /\ \A t \in Nat : /\ t \in Times /\ t + FreezePeriod \in Times
                    /\ Deadline(t) \in Nat /\ Eligible(t) \in Nat /\ Eligible(t) \in Times
  BY DurationsAssumption DEF Never, Times, Deadline, Eligible

LEMMA StatusNames == {"unfunded", "ok", "alarmed", "timelock_started", "claiming", "claimed",
                      "frozen"} \subseteq Statuses
  BY DEF Statuses

(* The UPDATE statements that store an instant write a row of the table. *)
LEMMA TimedUpdates ==
  ASSUME NEW v \in Row, NEW t \in Nat
  PROVE  /\ CheckedIn(v, t) \in Row
         /\ ClockReset(v, t) \in Row
         /\ Frozen(v, t) \in Row
         /\ Activated(v, t) \in Row
         /\ [v EXCEPT !.openedAt = t] \in Row
<1>. USE ColumnUpdates, Instants, StatusNames
<1>1. CheckedIn(v, t) \in Row
  BY DEF CheckedIn
<1>2. ClockReset(v, t) \in Row
  BY DEF ClockReset
<1>3. Frozen(v, t) \in Row
  BY DEF Frozen
<1>4. Activated(v, t) \in Row
  BY DEF Activated
<1>5. [v EXCEPT !.openedAt = t] \in Row
  OBVIOUS
<1>. QED
  BY <1>1, <1>2, <1>3, <1>4, <1>5

(* So do those that store a token. *)
LEMMA TokenUpdates ==
  ASSUME NEW v \in Row, NEW t \in Tokens
  PROVE  /\ Reissued(v, t) \in Row
         /\ Started(v, t) \in Row
<1>. USE ColumnUpdates, Instants, StatusNames
<1>1. Reissued(v, t) \in Row
  BY DEF Reissued
<1>2. Started(v, t) \in Row
  BY DEF Started
<1>. QED
  BY <1>1, <1>2

(* And those that store neither. *)
LEMMA PlainUpdates ==
  ASSUME NEW v \in Row
  PROVE  /\ Retired(v) \in Row
         /\ Consumed(v) \in Row
         /\ Released(v) \in Row
         /\ [v EXCEPT !.status = "alarmed"] \in Row
         /\ [v EXCEPT !.status = "claimed"] \in Row
         /\ [v EXCEPT !.status = "alarmed", !.frozenUntil = Never] \in Row
         /\ [v EXCEPT !.readySent = TRUE] \in Row
<1>. USE ColumnUpdates, Instants, StatusNames
<1>1. Retired(v) \in Row
  BY DEF Retired
<1>2. Consumed(v) \in Row
  BY DEF Consumed
<1>3. Released(v) \in Row
  BY DEF Released
<1>4. [v EXCEPT !.status = "alarmed"] \in Row
  OBVIOUS
<1>5. [v EXCEPT !.status = "claimed"] \in Row
  OBVIOUS
<1>6. [v EXCEPT !.status = "alarmed", !.frozenUntil = Never] \in Row
  OBVIOUS
<1>7. [v EXCEPT !.readySent = TRUE] \in Row
  OBVIOUS
<1>. QED
  BY <1>1, <1>2, <1>3, <1>4, <1>5, <1>6, <1>7

(* The tick goes from step to step, with nothing picked in between. *)
LEMMA TickSteps ==
  /\ \A p \in Phases \ {"idle"} : NextPhase[p] \in Phases /\ NextPhase[p] # p
  /\ Nothing \in Findings /\ Nothing.verdict = "none"
  /\ NoCall \in Calls /\ NoCall.pc = "idle"
  BY DEF Phases, NextPhase, Nothing, Findings, NoCall, Calls, Statuses, NoToken

(* A claim that was picked can still be given a token. *)
TokenLeft == phase = "claim" /\ pick.verdict # "none" => MailedToken <= MaxTokens

TypeInv == TypeOK /\ TokenLeft

LEMMA TypeInit == Init => TypeInv
  BY DurationsAssumption, SwitchesAssumption, BoundsAssumption
  DEF Init, TypeInv, TypeOK, TokenLeft, Row, Statuses, Times, Tokens, Never, NoToken, Phases,
      Nothing, NoCall, Findings, Calls, Deadline, Eligible

(* Every action keeps the types; only the tick and issue_claim touch TokenLeft. *)
LEMMA TypeStep == TypeInv /\ [Next]_vars => TypeInv'
<1>. SUFFICES ASSUME TypeInv, [Next]_vars
              PROVE  TypeInv'
  OBVIOUS
<1>. USE DurationsAssumption, SwitchesAssumption, BoundsAssumption
<1>1. CASE Advance
  BY <1>1 DEF Advance, TypeInv, TypeOK, TokenLeft, chainVars, linkVars, schedVars,
       historyVars, MailedToken
<1>2. CASE Deposit
  BY <1>2 DEF Deposit, TypeInv, TypeOK, TokenLeft, chainVars, linkVars, schedVars,
       historyVars, MailedToken
<1>3. CASE OwnerSweep
  BY <1>3 DEF OwnerSweep, TypeInv, TypeOK, TokenLeft, chainVars, linkVars, schedVars,
       historyVars, MailedToken
<1>4. CASE OwnerCheckinRead
  BY <1>4 DEF OwnerCheckinRead, TypeInv, TypeOK, TokenLeft, chainVars, linkVars,
       schedVars, historyVars, Calls, MailedToken
<1>5. CASE OwnerCheckinWrite
  BY <1>5, TimedUpdates, TickSteps, Instants DEF OwnerCheckinWrite, TypeInv, TypeOK,
       TokenLeft, chainVars, linkVars, schedVars, historyVars, Calls, MailedToken
<1>6. CASE LightningCheckin
  BY <1>6, TimedUpdates, Instants DEF LightningCheckin, TypeInv, TypeOK, TokenLeft,
       chainVars, linkVars, schedVars, historyVars, MailedToken
<1>7. CASE Panic
  BY <1>7, TimedUpdates, Instants DEF Panic, TypeInv, TypeOK, TokenLeft, chainVars,
       linkVars, schedVars, historyVars, MailedToken
<1>8. CASE IssueClaim
  <2>1. minted' \in Nat /\ minted' <= MaxTokens /\ minted + 1 \in Tokens
    BY <1>8 DEF IssueClaim, TypeInv, TypeOK, Tokens
  <2>2. vault' \in Row
    BY <1>8, <2>1, TokenUpdates DEF IssueClaim, TypeInv, TypeOK
  <2>3. manualLinks' \subseteq Tokens
    BY <1>8, <2>1 DEF IssueClaim, TypeInv, TypeOK
  <2>4. TokenLeft'
    BY <1>8, <2>1 DEF IssueClaim, TypeInv, TypeOK, TokenLeft, schedVars, MailedToken
  <2>. QED
    BY <1>8, <2>1, <2>2, <2>3, <2>4, Instants
    DEF IssueClaim, TypeInv, TypeOK, chainVars, schedVars
<1>9. CASE OwnerSend
  BY <1>9 DEF OwnerSend, TypeInv, TypeOK, TokenLeft, chainVars, linkVars, schedVars,
       historyVars, Calls, MailedToken
<1>10. CASE OwnerSendNoted
  BY <1>10, PlainUpdates, TickSteps, Instants DEF OwnerSendNoted, TypeInv, TypeOK,
       TokenLeft, chainVars, linkVars, schedVars, historyVars, MailedToken
<1>11. CASE TickStart
  BY <1>11 DEF TickStart, TypeInv, TypeOK, TokenLeft, chainVars, linkVars, schedVars,
       historyVars, Phases, MailedToken
<1>12. ASSUME NEW p \in Phases \ {"idle"}, Pick(p)
      PROVE TypeInv'
  BY <1>12 DEF Pick, Verdict, Selected, MailedToken, WithinReach, Matured, WindowOver,
       TypeInv, TypeOK, TokenLeft, chainVars, linkVars, schedVars, historyVars, Phases,
       Findings, Row
<1>13. CASE Skip
  BY <1>13, TickSteps DEF Skip, EndStep, TypeInv, TypeOK, TokenLeft, chainVars, linkVars,
       schedVars, historyVars, Phases, MailedToken
<1>14. CASE Unfreeze
  BY <1>14, PlainUpdates, TickSteps DEF Unfreeze, Writes, EndStep, TypeInv, TypeOK,
       TokenLeft, chainVars, linkVars, schedVars, historyVars, Phases, MailedToken
<1>15. CASE Activate
  <2>1. pick.at \in Nat /\ Activated(vault, pick.at) \in Row
    BY <1>15, TimedUpdates DEF Activate, Writes, TypeInv, TypeOK, Findings
  <2>2. vault' \in Row /\ clockFrom' \in Nat
    BY <1>15, <2>1 DEF Activate, TypeInv, TypeOK
  <2>3. phase' \in Phases /\ pick' \in Findings /\ TokenLeft'
    BY <1>15, TickSteps DEF Activate, Writes, EndStep, TypeInv, TypeOK, TokenLeft, Phases
  <2>. QED
    BY <1>15, <2>2, <2>3 DEF Activate, Writes, EndStep, TypeInv, TypeOK, chainVars, linkVars
<1>16. CASE Retire
  BY <1>16, PlainUpdates, TickSteps DEF Retire, Writes, EndStep, TypeInv, TypeOK,
       TokenLeft, chainVars, linkVars, schedVars, historyVars, Phases, MailedToken
<1>17. CASE Alarm
  BY <1>17, PlainUpdates, TickSteps DEF Alarm, Writes, EndStep, TypeInv, TypeOK,
       TokenLeft, chainVars, linkVars, schedVars, historyVars, Phases, MailedToken
<1>18. CASE ClaimEmpty
  BY <1>18, PlainUpdates, TickSteps DEF ClaimEmpty, Writes, EndStep, TypeInv, TypeOK,
       TokenLeft, chainVars, linkVars, schedVars, historyVars, Phases, MailedToken
<1>19. CASE StartClaim
  BY <1>19, TokenUpdates, TickSteps DEF StartClaim, Writes, EndStep, MailedToken,
       StoredToken, StillClaimable, TypeInv, TypeOK, TokenLeft, chainVars, linkVars,
       schedVars, historyVars, Phases, Tokens, Findings
<1>20. CASE ReadyNotice
  BY <1>20, PlainUpdates, TickSteps DEF ReadyNotice, Writes, EndStep, TypeInv, TypeOK,
       TokenLeft, chainVars, linkVars, schedVars, historyVars, Phases, MailedToken
<1>21. ASSUME NEW r \in Requests, Resolve(r)
      PROVE TypeInv'
  BY <1>21 DEF Resolve, Goto, TypeInv, TypeOK, TokenLeft, chainVars, linkVars, schedVars,
       historyVars, MailedToken
<1>22. ASSUME NEW r \in Requests, Challenge(r)
      PROVE TypeInv'
  BY <1>22 DEF Challenge, Goto, WindowOver, TypeInv, TypeOK, TokenLeft, chainVars,
       linkVars, schedVars, historyVars, MailedToken
<1>23. ASSUME NEW r \in Requests, Open(r)
      PROVE TypeInv'
  BY <1>23, TimedUpdates DEF Open, Goto, TypeInv, TypeOK, TokenLeft, chainVars, linkVars,
       schedVars, historyVars, MailedToken
<1>24. ASSUME NEW r \in Requests, Alert(r)
      PROVE TypeInv'
  BY <1>24, Instants DEF Alert, Goto, TypeInv, TypeOK, TokenLeft, chainVars, linkVars,
       schedVars, historyVars, MailedToken
<1>25. ASSUME NEW r \in Requests, ConsumeToken(r)
      PROVE TypeInv'
  BY <1>25, PlainUpdates DEF ConsumeToken, Goto, Unused, TypeInv, TypeOK, TokenLeft,
       chainVars, linkVars, schedVars, historyVars, MailedToken
<1>26. ASSUME NEW r \in Requests, Broadcast(r)
      PROVE TypeInv'
  BY <1>26 DEF Broadcast, Goto, Matured, TypeInv, TypeOK, TokenLeft, chainVars, linkVars,
       schedVars, historyVars, MailedToken
<1>27. ASSUME NEW r \in Requests, Promote(r)
      PROVE TypeInv'
  BY <1>27, PlainUpdates DEF Promote, Goto, TypeInv, TypeOK, TokenLeft, chainVars,
       linkVars, schedVars, historyVars, MailedToken
<1>28. ASSUME NEW r \in Requests, BroadcastFails(r)
      PROVE TypeInv'
  BY <1>28, PlainUpdates DEF BroadcastFails, Goto, TypeInv, TypeOK, TokenLeft, chainVars,
       linkVars, schedVars, historyVars, MailedToken
<1>29. ASSUME NEW r \in Requests, AnswerLost(r)
       PROVE TypeInv'
  <2>1. vault' \in Row
    BY <1>29, PlainUpdates DEF AnswerLost, TypeInv, TypeOK
  <2>2. TokenLeft'
    BY <1>29 DEF AnswerLost, TypeInv, TokenLeft, MailedToken, schedVars, linkVars
  <2>3. faults' \in Nat
    BY <1>29 DEF AnswerLost, TypeInv, TypeOK
  <2>. QED
    BY <1>29, <2>1, <2>2, <2>3
    DEF AnswerLost, Goto, TypeInv, TypeOK, chainVars, linkVars, schedVars, historyVars
<1>30. ASSUME NEW r \in Requests, Disconnect(r)
      PROVE TypeInv'
  BY <1>30 DEF Disconnect, Goto, MayLand, Matured, TypeInv, TypeOK, TokenLeft, chainVars,
       linkVars, schedVars, historyVars, MailedToken
<1>31. CASE Crash
  BY <1>31, TickSteps DEF Crash, MayLand, Matured, TypeInv, TypeOK, TokenLeft, chainVars,
       linkVars, schedVars, historyVars, Phases, MailedToken
<1>32. CASE UNCHANGED vars
  BY <1>32 DEF vars, TypeInv, TypeOK, TokenLeft, chainVars, linkVars, schedVars,
       historyVars, MailedToken
<1>. QED
  BY <1>1, <1>2, <1>3, <1>4, <1>5, <1>6, <1>7, <1>8, <1>9, <1>10, <1>11, <1>12, <1>13,
       <1>14, <1>15, <1>16, <1>17, <1>18, <1>19, <1>20, <1>21, <1>22, <1>23, <1>24, <1>25,
       <1>26, <1>27, <1>28, <1>29, <1>30, <1>31, <1>32 DEF Next, Owner, Scheduler, Heir

(* The types hold in every reachable state of every instance. *)
THEOREM TypeCorrect == Spec => []TypeOK
<1>1. TypeInv => TypeOK
  BY DEF TypeInv
<1>. QED
  BY TypeInit, TypeStep, <1>1, PTL DEF Spec

-----------------------------------------------------------------------------
(* The claim gate: nothing that runs beside the tick brings the claim forward. *)

(* The gate column counts from the last restart of the clock, and a claim picked for a
     vault *)
(* that is still alarmed was due when it was picked.
     *)
GateInv ==
  /\ vault.eligible # Never => vault.eligible = Eligible(clockFrom)
  /\ phase # "idle" => tickAt <= now
  /\ (phase = "claim" /\ pick.verdict = "due" /\ vault.status = "alarmed")
        => vault.eligible # Never /\ vault.eligible <= now

LEMMA GateInit == Init => GateInv
  BY DEF Init, GateInv, Nothing

LEMMA GateStep == TypeInv /\ GateInv /\ [Next]_vars => GateInv'
<1>. SUFFICES ASSUME TypeInv, GateInv, [Next]_vars
              PROVE  GateInv'
  OBVIOUS
<1>0. vault \in Row /\ now \in Nat /\ tickAt \in Nat /\ clockFrom \in Nat
  BY DEF TypeInv, TypeOK
<1>1. CASE Advance
  BY <1>0, <1>1 DEF Advance, GateInv, schedVars, historyVars, Row, Times, Never
<1>2. CASE Deposit
  BY <1>0, <1>2 DEF Deposit, GateInv, schedVars, historyVars
<1>3. CASE OwnerSweep
  BY <1>0, <1>3 DEF OwnerSweep, GateInv, schedVars, historyVars
<1>4. CASE OwnerCheckinRead
  BY <1>0, <1>4 DEF OwnerCheckinRead, GateInv, schedVars, historyVars
<1>5. CASE OwnerCheckinWrite
  BY <1>0, <1>5, Instants DEF OwnerCheckinWrite, CheckedIn, GateInv, Row, Statuses,
       Times, schedVars, historyVars
<1>6. CASE LightningCheckin
  BY <1>0, <1>6, Instants DEF LightningCheckin, ClockReset, GateInv, Row, Statuses,
       Times, schedVars, historyVars
<1>7. CASE Panic
  BY <1>0, <1>7 DEF Panic, Frozen, GateInv, Row, Statuses, Times, schedVars, historyVars
<1>8. CASE IssueClaim
  BY <1>0, <1>8 DEF IssueClaim, Reissued, GateInv, Row, Statuses, Times, schedVars,
       historyVars
<1>9. CASE OwnerSend
  BY <1>0, <1>9 DEF OwnerSend, GateInv, schedVars, historyVars
<1>10. CASE OwnerSendNoted
  BY <1>0, <1>10 DEF OwnerSendNoted, Retired, GateInv, Row, Statuses, Times, schedVars,
       historyVars
<1>11. CASE TickStart
  BY <1>0, <1>11 DEF TickStart, GateInv, NextPhase, historyVars
<1>12. ASSUME NEW p \in Phases \ {"idle"}, Pick(p)
      PROVE GateInv'
  BY <1>0, <1>12 DEF Pick, Selected, GateInv, historyVars, Row, Times, Never, Phases
<1>13. CASE Skip
  BY <1>0, <1>13 DEF Skip, EndStep, GateInv, NextPhase, Phases, historyVars
<1>14. CASE Unfreeze
  BY <1>0, <1>14 DEF Unfreeze, Writes, EndStep, GateInv, Row, Statuses, Times, NextPhase,
       Nothing, historyVars
<1>15. CASE Activate
  <2>1. pick' = Nothing /\ phase' # "claim" /\ tickAt' = tickAt /\ now' = now /\ phase = "activate"
    BY <1>15 DEF Activate, Writes, EndStep, NextPhase
  <2>2. vault'.eligible # Never => vault'.eligible = Eligible(clockFrom')
    <3>1. CASE vault.status = "unfunded"
      BY <1>0, <1>15, <3>1 DEF Activate, Activated, Eligible, TypeInv, TypeOK, Row
    <3>2. CASE vault.status # "unfunded"
      BY <1>0, <1>15, <3>2 DEF Activate, GateInv, Eligible
    <3>. QED
      BY <3>1, <3>2
  <2>. QED
    BY <1>0, <2>1, <2>2 DEF GateInv
<1>16. CASE Retire
  BY <1>0, <1>16 DEF Retire, Retired, Writes, EndStep, GateInv, Row, Statuses, Times,
       NextPhase, Nothing, historyVars
<1>17. CASE Alarm
  BY <1>0, <1>17 DEF Alarm, Writes, EndStep, GateInv, Row, Statuses, Times, NextPhase,
       Nothing, historyVars
<1>18. CASE ClaimEmpty
  BY <1>0, <1>18 DEF ClaimEmpty, Retired, Writes, EndStep, GateInv, Row, Statuses, Times,
       NextPhase, Nothing, historyVars
<1>19. CASE StartClaim
  BY <1>0, <1>19 DEF StartClaim, Started, Writes, EndStep, GateInv, Row, Statuses, Times,
       NextPhase, Nothing, historyVars
<1>20. CASE ReadyNotice
  BY <1>0, <1>20 DEF ReadyNotice, Writes, EndStep, GateInv, Row, Statuses, Times,
       NextPhase, Nothing, historyVars
<1>21. ASSUME NEW r \in Requests, Resolve(r)
      PROVE GateInv'
  BY <1>0, <1>21 DEF Resolve, GateInv, schedVars, historyVars
<1>22. ASSUME NEW r \in Requests, Challenge(r)
      PROVE GateInv'
  BY <1>0, <1>22 DEF Challenge, WindowOver, GateInv, schedVars, historyVars
<1>23. ASSUME NEW r \in Requests, Open(r)
      PROVE GateInv'
  BY <1>0, <1>23 DEF Open, GateInv, Row, Statuses, Times, schedVars, historyVars
<1>24. ASSUME NEW r \in Requests, Alert(r)
      PROVE GateInv'
  BY <1>0, <1>24 DEF Alert, GateInv, schedVars, historyVars
<1>25. ASSUME NEW r \in Requests, ConsumeToken(r)
      PROVE GateInv'
  BY <1>0, <1>25 DEF ConsumeToken, Consumed, Unused, GateInv, Row, Statuses, Times,
       schedVars, historyVars
<1>26. ASSUME NEW r \in Requests, Broadcast(r)
      PROVE GateInv'
  BY <1>0, <1>26 DEF Broadcast, GateInv, schedVars, historyVars
<1>27. ASSUME NEW r \in Requests, Promote(r)
      PROVE GateInv'
  BY <1>0, <1>27 DEF Promote, GateInv, Row, Statuses, Times, schedVars, historyVars
<1>28. ASSUME NEW r \in Requests, BroadcastFails(r)
      PROVE GateInv'
  BY <1>0, <1>28 DEF BroadcastFails, Released, GateInv, Row, Statuses, Times, schedVars,
       historyVars
<1>29. ASSUME NEW r \in Requests, AnswerLost(r)
      PROVE GateInv'
  BY <1>0, <1>29 DEF AnswerLost, Released, GateInv, Row, Statuses, Times, schedVars,
       historyVars
<1>30. ASSUME NEW r \in Requests, Disconnect(r)
      PROVE GateInv'
  BY <1>0, <1>30 DEF Disconnect, GateInv, schedVars, historyVars
<1>31. CASE Crash
  BY <1>0, <1>31 DEF Crash, GateInv, Nothing, historyVars
<1>32. CASE UNCHANGED vars
  BY <1>32 DEF vars, GateInv, schedVars, historyVars
<1>. QED
  BY <1>1, <1>2, <1>3, <1>4, <1>5, <1>6, <1>7, <1>8, <1>9, <1>10, <1>11, <1>12, <1>13,
       <1>14, <1>15, <1>16, <1>17, <1>18, <1>19, <1>20, <1>21, <1>22, <1>23, <1>24, <1>25,
       <1>26, <1>27, <1>28, <1>29, <1>30, <1>31, <1>32 DEF Next, Owner, Scheduler, Heir

(* The step that starts a claim is the scheduler's write, on a vault still alarmed. *)
LEMMA ClaimStartsInTick ==
  ASSUME TypeInv, [Next]_vars, ClaimStarts
  PROVE  StartClaim /\ StillClaimable
<1>0. vault \in Row
  BY DEF TypeInv, TypeOK
<1>. USE <1>0 DEF ClaimStarts, Row
<1>1. ~(UNCHANGED vault)
  OBVIOUS
<1>2. ~(Advance \/ Deposit \/ Owner \/ Crash)
  BY <1>1 DEF Advance, Deposit, Owner, OwnerSweep, OwnerCheckinRead, OwnerCheckinWrite,
     LightningCheckin, Panic, IssueClaim, OwnerSend, OwnerSendNoted, Crash,
     CheckedIn, ClockReset, Frozen, Reissued, Retired
<1>3. ASSUME NEW r \in Requests, Heir(r)
      PROVE  FALSE
  BY <1>1, <1>3 DEF Heir, Resolve, Challenge, Open, Alert, ConsumeToken, Broadcast, Promote,
     BroadcastFails, AnswerLost, Disconnect, Released, Consumed
<1>4. Scheduler
  BY <1>1, <1>2, <1>3 DEF Next, vars
<1>5. StartClaim
  BY <1>1, <1>4 DEF Scheduler, TickStart, Pick, Skip, Unfreeze, Activate, Retire, Alarm,
     ClaimEmpty, ReadyNotice, Activated, Retired
<1>. QED
  BY <1>1, <1>5 DEF StartClaim

(* The heir gets the vault only after the owner was silent for a whole period and both   *)
(* grace periods: transition_alarmed_to_claimable against every handler that can write   *)
(* the row between its SELECT and its UPDATE.                                            *)
THEOREM ClaimGate == Spec => HeirContactAfterFullClock
<1>1. TypeInv /\ GateInv /\ [Next]_vars => [ClaimStarts => now >= Eligible(clockFrom)]_vars
  BY ClaimStartsInTick DEF StartClaim, StillClaimable, Writes, GateInv
<1>. QED
  BY TypeInit, TypeStep, GateInit, GateStep, <1>1, PTL DEF Spec, HeirContactAfterFullClock

-----------------------------------------------------------------------------
(* Receipts. *)

(* An accepted broadcast is the only way to `claimed`, and coins the heir has stay his. *)
PaidInv ==
  /\ vault.status = "claimed" => coins = "heir"
  /\ \A r \in Requests : request[r] = "accepted" => coins = "heir"

LEMMA PaidInit == Init => PaidInv
  BY DEF Init, PaidInv

LEMMA PaidStep == TypeInv /\ PaidInv /\ [Next]_vars => PaidInv'
<1>. SUFFICES ASSUME TypeInv, PaidInv, [Next]_vars
              PROVE  PaidInv'
  OBVIOUS
<1>0. vault \in Row /\ request \in [Requests -> {"idle", "resolved", "opening", "alerting",
                                   "loaded", "broadcasting", "accepted"}]
  BY DEF TypeInv, TypeOK
<1>1. CASE Advance
  BY <1>0, <1>1 DEF Advance, PaidInv, chainVars
<1>2. CASE Deposit
  BY <1>0, <1>2 DEF Deposit, PaidInv, chainVars
<1>3. CASE OwnerSweep
  BY <1>0, <1>3 DEF OwnerSweep, PaidInv, chainVars
<1>4. CASE OwnerCheckinRead
  BY <1>0, <1>4 DEF OwnerCheckinRead, PaidInv, chainVars
<1>5. CASE OwnerCheckinWrite
  BY <1>0, <1>5 DEF OwnerCheckinWrite, CheckedIn, PaidInv, Row, chainVars
<1>6. CASE LightningCheckin
  BY <1>0, <1>6 DEF LightningCheckin, ClockReset, PaidInv, Row, chainVars
<1>7. CASE Panic
  BY <1>0, <1>7 DEF Panic, Frozen, PaidInv, Row, chainVars
<1>8. CASE IssueClaim
  BY <1>0, <1>8 DEF IssueClaim, Reissued, PaidInv, Row, chainVars
<1>9. CASE OwnerSend
  BY <1>0, <1>9 DEF OwnerSend, PaidInv, chainVars
<1>10. CASE OwnerSendNoted
  BY <1>0, <1>10 DEF OwnerSendNoted, Retired, PaidInv, Row, chainVars
<1>11. CASE TickStart
  BY <1>0, <1>11 DEF TickStart, PaidInv, chainVars
<1>12. ASSUME NEW p \in Phases \ {"idle"}, Pick(p)
      PROVE PaidInv'
  BY <1>0, <1>12 DEF Pick, PaidInv, chainVars
<1>13. CASE Skip
  BY <1>0, <1>13 DEF Skip, PaidInv, chainVars
<1>14. CASE Unfreeze
  BY <1>0, <1>14 DEF Unfreeze, PaidInv, Writes, Row, chainVars
<1>15. CASE Activate
  BY <1>0, <1>15 DEF Activate, Activated, PaidInv, Writes, Row, chainVars
<1>16. CASE Retire
  BY <1>0, <1>16 DEF Retire, Retired, PaidInv, Writes, Row, chainVars
<1>17. CASE Alarm
  BY <1>0, <1>17 DEF Alarm, PaidInv, Writes, Row, chainVars
<1>18. CASE ClaimEmpty
  BY <1>0, <1>18 DEF ClaimEmpty, Retired, PaidInv, Writes, Row, chainVars
<1>19. CASE StartClaim
  BY <1>0, <1>19 DEF StartClaim, Started, PaidInv, Writes, Row, chainVars
<1>20. CASE ReadyNotice
  BY <1>0, <1>20 DEF ReadyNotice, PaidInv, Writes, Row, chainVars
<1>21. ASSUME NEW r \in Requests, Resolve(r)
      PROVE PaidInv'
  BY <1>0, <1>21 DEF Resolve, PaidInv, Goto, chainVars
<1>22. ASSUME NEW r \in Requests, Challenge(r)
      PROVE PaidInv'
  BY <1>0, <1>22 DEF Challenge, PaidInv, Goto, chainVars
<1>23. ASSUME NEW r \in Requests, Open(r)
      PROVE PaidInv'
  BY <1>0, <1>23 DEF Open, PaidInv, Row, Goto, chainVars
<1>24. ASSUME NEW r \in Requests, Alert(r)
      PROVE PaidInv'
  BY <1>0, <1>24 DEF Alert, PaidInv, Goto, chainVars
<1>25. ASSUME NEW r \in Requests, ConsumeToken(r)
      PROVE PaidInv'
  BY <1>0, <1>25 DEF ConsumeToken, Consumed, PaidInv, Row, Goto, chainVars
<1>26. ASSUME NEW r \in Requests, Broadcast(r)
      PROVE PaidInv'
  BY <1>0, <1>26 DEF Broadcast, PaidInv, Goto, Matured, chainVars
<1>27. ASSUME NEW r \in Requests, Promote(r)
      PROVE PaidInv'
  BY <1>0, <1>27 DEF Promote, PaidInv, Row, Goto, chainVars
<1>28. ASSUME NEW r \in Requests, BroadcastFails(r)
      PROVE PaidInv'
  BY <1>0, <1>28 DEF BroadcastFails, Released, PaidInv, Row, Goto, chainVars
<1>29. ASSUME NEW r \in Requests, AnswerLost(r)
      PROVE PaidInv'
  BY <1>0, <1>29 DEF AnswerLost, Released, PaidInv, Row, Goto, Matured, chainVars
<1>30. ASSUME NEW r \in Requests, Disconnect(r)
      PROVE PaidInv'
  BY <1>0, <1>30 DEF Disconnect, PaidInv, Goto, MayLand, Matured, chainVars
<1>31. CASE Crash
  BY <1>0, <1>31 DEF Crash, PaidInv, MayLand, Matured, chainVars
<1>32. CASE UNCHANGED vars
  BY <1>32 DEF vars, PaidInv, chainVars
<1>. QED
  BY <1>1, <1>2, <1>3, <1>4, <1>5, <1>6, <1>7, <1>8, <1>9, <1>10, <1>11, <1>12, <1>13,
       <1>14, <1>15, <1>16, <1>17, <1>18, <1>19, <1>20, <1>21, <1>22, <1>23, <1>24, <1>25,
       <1>26, <1>27, <1>28, <1>29, <1>30, <1>31, <1>32 DEF Next, Owner, Scheduler, Heir

(* `claimed` is a receipt: whatever the owner, the scheduler, crashes and other requests   *)
(* do between the broadcast and the last UPDATE, it is only written for coins the heir has. *)
THEOREM ReceiptsAreTrue == Spec => []ClaimedMeansPaid
<1>1. PaidInv => ClaimedMeansPaid
  BY DEF PaidInv, ClaimedMeansPaid
<1>. QED
  BY TypeInit, TypeStep, PaidInit, PaidStep, <1>1, PTL DEF Spec

-----------------------------------------------------------------------------
(* Links.  A vault without a token at rest: each claim mints its own token. *)

Live == {"timelock_started", "claiming", "claimed"}

(* A mailed token that is on the row is that of a live claim; tokens are minted once; and  *)
(* the UPDATE of transition_ok_to_alarmed, which has no condition, cannot catch a live one. *)
LinkInv ==
  /\ vault.token \in heirLinks => vault.status \in Live
  /\ heirLinks \subseteq 1 .. minted /\ vault.token <= minted
  /\ phase = "alarm" /\ pick.verdict # "none" => vault.token \notin heirLinks
  /\ phase = "retire" /\ pick.verdict # "none" => pick.from \in {"ok", "alarmed"}

LEMMA LinkInit == Init => LinkInv
  BY DEF Init, LinkInv, Nothing, NoToken

LEMMA LinkStep ==
  ASSUME ~PasswordVault
  PROVE  TypeInv /\ LinkInv /\ [Next]_vars => LinkInv'
<1>. SUFFICES ASSUME TypeInv, LinkInv, [Next]_vars
              PROVE  LinkInv'
  OBVIOUS
<1>0. vault \in Row /\ minted \in Nat /\ heirLinks \subseteq Tokens
  BY BoundsAssumption DEF TypeInv, TypeOK
<1>. USE DEF Live
<1>1. CASE Advance
  BY <1>0, <1>1 DEF Advance, LinkInv, schedVars, linkVars
<1>2. CASE Deposit
  BY <1>0, <1>2 DEF Deposit, LinkInv, schedVars, linkVars
<1>3. CASE OwnerSweep
  BY <1>0, <1>3 DEF OwnerSweep, LinkInv, schedVars, linkVars
<1>4. CASE OwnerCheckinRead
  BY <1>0, <1>4 DEF OwnerCheckinRead, LinkInv, schedVars, linkVars
<1>5. CASE OwnerCheckinWrite
  BY <1>0, <1>5 DEF OwnerCheckinWrite, CheckedIn, LinkInv, Tokens, NoToken, Row,
       schedVars, linkVars
<1>6. CASE LightningCheckin
  BY <1>0, <1>6 DEF LightningCheckin, ClockReset, LinkInv, Tokens, NoToken, Row,
       schedVars, linkVars
<1>7. CASE Panic
  BY <1>0, <1>7 DEF Panic, Frozen, LinkInv, Tokens, NoToken, Row, schedVars, linkVars
<1>8. CASE IssueClaim
  BY <1>0, <1>8 DEF IssueClaim, Reissued, LinkInv, Tokens, NoToken, Row, schedVars, linkVars
<1>9. CASE OwnerSend
  BY <1>0, <1>9 DEF OwnerSend, LinkInv, schedVars, linkVars
<1>10. CASE OwnerSendNoted
  BY <1>0, <1>10 DEF OwnerSendNoted, Retired, LinkInv, Row, schedVars, linkVars
<1>11. CASE TickStart
  BY <1>0, <1>11 DEF TickStart, LinkInv, schedVars, linkVars
<1>12. ASSUME NEW p \in Phases \ {"idle"}, Pick(p)
      PROVE LinkInv'
  BY <1>0, <1>12 DEF Pick, LinkInv, Selected, Phases, schedVars, linkVars
<1>13. CASE Skip
  BY <1>0, <1>13 DEF Skip, LinkInv, EndStep, NextPhase, Phases, schedVars, linkVars
<1>14. CASE Unfreeze
  BY <1>0, <1>14 DEF Unfreeze, LinkInv, Writes, EndStep, NextPhase, Nothing, Row,
       schedVars, linkVars
<1>15. CASE Activate
  BY <1>0, <1>15 DEF Activate, Activated, LinkInv, Writes, EndStep, NextPhase, Nothing,
       Row, schedVars, linkVars
<1>16. CASE Retire
  BY <1>0, <1>16 DEF Retire, Retired, LinkInv, Writes, EndStep, NextPhase, Nothing, Row,
       schedVars, linkVars
<1>17. CASE Alarm
  BY <1>0, <1>17 DEF Alarm, LinkInv, Writes, EndStep, NextPhase, Nothing, Row, schedVars,
       linkVars
<1>18. CASE ClaimEmpty
  BY <1>0, <1>18 DEF ClaimEmpty, Retired, LinkInv, Writes, EndStep, NextPhase, Nothing,
       Row, schedVars, linkVars
<1>19. CASE StartClaim
  BY <1>0, <1>19 DEF StartClaim, Started, LinkInv, Writes, EndStep, NextPhase, Nothing,
       StillClaimable, StoredToken, MailedToken, Tokens, NoToken, Row, schedVars, linkVars
<1>20. CASE ReadyNotice
  BY <1>0, <1>20 DEF ReadyNotice, LinkInv, Writes, EndStep, NextPhase, Nothing, Row,
       schedVars, linkVars
<1>21. ASSUME NEW r \in Requests, Resolve(r)
      PROVE LinkInv'
  BY <1>0, <1>21 DEF Resolve, LinkInv, schedVars, linkVars
<1>22. ASSUME NEW r \in Requests, Challenge(r)
      PROVE LinkInv'
  BY <1>0, <1>22 DEF Challenge, LinkInv, schedVars, linkVars
<1>23. ASSUME NEW r \in Requests, Open(r)
      PROVE LinkInv'
  BY <1>0, <1>23 DEF Open, LinkInv, Row, schedVars, linkVars
<1>24. ASSUME NEW r \in Requests, Alert(r)
      PROVE LinkInv'
  BY <1>0, <1>24 DEF Alert, LinkInv, schedVars, linkVars
<1>25. ASSUME NEW r \in Requests, ConsumeToken(r)
      PROVE LinkInv'
  BY <1>0, <1>25 DEF ConsumeToken, Consumed, LinkInv, Row, schedVars, linkVars
<1>26. ASSUME NEW r \in Requests, Broadcast(r)
      PROVE LinkInv'
  BY <1>0, <1>26 DEF Broadcast, LinkInv, schedVars, linkVars
<1>27. ASSUME NEW r \in Requests, Promote(r)
      PROVE LinkInv'
  BY <1>0, <1>27 DEF Promote, LinkInv, Row, schedVars, linkVars
<1>28. ASSUME NEW r \in Requests, BroadcastFails(r)
      PROVE LinkInv'
  BY <1>0, <1>28 DEF BroadcastFails, Released, LinkInv, Row, schedVars, linkVars
<1>29. ASSUME NEW r \in Requests, AnswerLost(r)
      PROVE LinkInv'
  BY <1>0, <1>29 DEF AnswerLost, Released, LinkInv, Row, schedVars, linkVars
<1>30. ASSUME NEW r \in Requests, Disconnect(r)
      PROVE LinkInv'
  BY <1>0, <1>30 DEF Disconnect, LinkInv, schedVars, linkVars
<1>31. CASE Crash
  BY <1>0, <1>31 DEF Crash, LinkInv, Nothing, schedVars, linkVars
<1>32. CASE UNCHANGED vars
  BY <1>32 DEF vars, LinkInv, schedVars, linkVars
<1>. QED
  BY <1>1, <1>2, <1>3, <1>4, <1>5, <1>6, <1>7, <1>8, <1>9, <1>10, <1>11, <1>12, <1>13,
       <1>14, <1>15, <1>16, <1>17, <1>18, <1>19, <1>20, <1>21, <1>22, <1>23, <1>24, <1>25,
       <1>26, <1>27, <1>28, <1>29, <1>30, <1>31, <1>32 DEF Next, Owner, Scheduler, Heir

(* No proof of life leaves the heir a link that works: in every interleaving of check-ins, *)
(* payments, panics, sends and ticks, a mailed link resolves only while a claim is live.   *)
THEOREM LinksOnlyDuringClaims ==
  ASSUME ~PasswordVault
  PROVE  Spec => []HeirLinkOnlyDuringClaim
<1>1. LinkInv => HeirLinkOnlyDuringClaim
  BY DEF LinkInv, Live, HeirLinkOnlyDuringClaim
<1>. QED
  BY TypeInit, TypeStep, LinkInit, LinkStep, <1>1, PTL DEF Spec

(* And the claim that starts answers to the link that was mailed for it. *)
THEOREM MailedLinksResolve ==
  ASSUME ~PasswordVault
  PROVE  Spec => MailedLinkResolves
<1>1. TypeInv /\ [Next]_vars => [ClaimStarts => vault'.token \in heirLinks']_vars
  BY ClaimStartsInTick
  DEF StartClaim, StillClaimable, StoredToken, MailedToken, Started, TypeInv, TypeOK, Row
<1>. QED
  BY TypeInit, TypeStep, <1>1, PTL DEF Spec, MailedLinkResolves
=============================================================================
