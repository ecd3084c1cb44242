-------------------------- MODULE VaultSerialProofs --------------------------
(***************************************************************************)
(* Proofs about VaultLifecycle when no handler starts while another is     *)
(* half-way (Serial): a panic holds for its whole freeze, `claimed` is     *)
(* final, and the vault implements the promise of DeadMansSwitch.          *)
(* VaultLifecycleProofs has what holds for every interleaving.             *)
(***************************************************************************)
EXTENDS VaultLifecycleProofs

(* At most one handler is half-way: the owner's, the tick's, or one claim request. *)
Alone ==
  /\ owner.pc # "idle" => pick.verdict = "none"
  /\ \A r \in Requests : request[r] # "idle" =>
       /\ owner.pc = "idle" /\ pick.verdict = "none"
       /\ \A s \in Requests \ {r} : request[s] = "idle"

Picked(p) == phase = p /\ pick.verdict # "none"

(* So what a handler has read is still so when it writes. *)
InHand ==
  /\ owner.pc = "checkin" => owner.at <= now /\ vault.status # "claimed"
  /\ pick.verdict # "none" => phase # "idle" /\ pick.at <= now
  /\ Picked("unfreeze") => vault.frozenUntil # Never /\ vault.frozenUntil <= now
  /\ Picked("retire") => pick.from \in {"ok", "alarmed"}
  /\ Picked("alarm") => vault.status = "ok"
  /\ Picked("claim") => /\ vault.status = "alarmed" /\ pick.token = vault.token
                        /\ vault.token = NoToken \/ PasswordVault
  /\ \A r \in Requests :
       /\ request[r] # "idle" => vault.token \in heirLinks \cup manualLinks
       /\ request[r] \in {"broadcasting", "accepted"} => vault.used

Held == frozenFor # Never /\ now < frozenFor

(* And the row keeps the freeze, the receipt and the links. *)
FreezeKept == Held => /\ vault.status = "frozen" /\ vault.frozenUntil = frozenFor
                      /\ vault.token = NoToken

LinksKept ==
  /\ vault.status = "claimed" => vault.used \/ vault.token \in manualLinks
  /\ vault.token \in heirLinks => vault.status \in Live
  /\ heirLinks \cup manualLinks \subseteq 1 .. minted /\ vault.token <= minted
  /\ PasswordVault => minted >= 1 /\ 1 \notin manualLinks /\ heirLinks \subseteq {1}

SerialInv == Alone /\ InHand /\ FreezeKept /\ LinksKept

(* A handler starts only when no other is half-way. *)
LEMMA AloneStep ==
  ASSUME Serial
  PROVE  TypeInv /\ Alone /\ [Next]_vars => Alone'
<1>. SUFFICES ASSUME TypeInv, Alone, [Next]_vars
              PROVE  Alone'
  OBVIOUS
<1>0. request \in [Requests -> {"idle", "resolved", "opening", "alerting", "loaded",
                                "broadcasting", "accepted"}]
  BY DEF TypeInv, TypeOK
<1>1. CASE Advance
  BY <1>0, <1>1 DEF Advance, Alone, schedVars
<1>2. CASE Deposit
  BY <1>0, <1>2 DEF Deposit, Alone, schedVars
<1>3. CASE OwnerSweep
  BY <1>0, <1>3 DEF OwnerSweep, Alone, schedVars
<1>4. CASE OwnerCheckinRead
  BY <1>0, <1>4 DEF OwnerCheckinRead, Free, Alone, schedVars
<1>5. CASE OwnerCheckinWrite
  BY <1>0, <1>5 DEF OwnerCheckinWrite, NoCall, Alone, schedVars
<1>6. CASE LightningCheckin
  BY <1>0, <1>6 DEF LightningCheckin, Free, Alone, schedVars
<1>7. CASE Panic
  BY <1>0, <1>7 DEF Panic, Free, Alone, schedVars
<1>8. CASE IssueClaim
  BY <1>0, <1>8 DEF IssueClaim, Free, Alone, schedVars
<1>9. CASE OwnerSend
  BY <1>0, <1>9 DEF OwnerSend, Free, Alone, schedVars
<1>10. CASE OwnerSendNoted
  BY <1>0, <1>10 DEF OwnerSendNoted, NoCall, Alone, schedVars
<1>11. CASE TickStart
  BY <1>0, <1>11 DEF TickStart, Alone, schedVars
<1>12. ASSUME NEW p \in Phases \ {"idle"}, Pick(p)
       PROVE  Alone'
  BY <1>0, <1>12 DEF Pick, Free, Alone, schedVars
<1>13. CASE Skip
  BY <1>0, <1>13 DEF Skip, EndStep, Alone, schedVars
<1>14. CASE Unfreeze
  BY <1>0, <1>14 DEF Unfreeze, Writes, EndStep, Nothing, Alone, schedVars
<1>15. CASE Activate
  BY <1>0, <1>15 DEF Activate, Writes, EndStep, Nothing, Alone, schedVars
<1>16. CASE Retire
  BY <1>0, <1>16 DEF Retire, Writes, EndStep, Nothing, Alone, schedVars
<1>17. CASE Alarm
  BY <1>0, <1>17 DEF Alarm, Writes, EndStep, Nothing, Alone, schedVars
<1>18. CASE ClaimEmpty
  BY <1>0, <1>18 DEF ClaimEmpty, Writes, EndStep, Nothing, Alone, schedVars
<1>19. CASE StartClaim
  BY <1>0, <1>19 DEF StartClaim, Writes, EndStep, Nothing, Alone, schedVars
<1>20. CASE ReadyNotice
  BY <1>0, <1>20 DEF ReadyNotice, Writes, EndStep, Nothing, Alone, schedVars
<1>21. ASSUME NEW r \in Requests, Resolve(r)
       PROVE  Alone'
  BY <1>0, <1>21 DEF Resolve, Goto, Free, Alone, schedVars
<1>22. ASSUME NEW r \in Requests, Challenge(r)
       PROVE  Alone'
  BY <1>0, <1>22 DEF Challenge, Goto, Alone, schedVars
<1>23. ASSUME NEW r \in Requests, Open(r)
       PROVE  Alone'
  BY <1>0, <1>23 DEF Open, Goto, Alone, schedVars
<1>24. ASSUME NEW r \in Requests, Alert(r)
       PROVE  Alone'
  BY <1>0, <1>24 DEF Alert, Goto, Alone, schedVars
<1>25. ASSUME NEW r \in Requests, ConsumeToken(r)
       PROVE  Alone'
  BY <1>0, <1>25 DEF ConsumeToken, Goto, Alone, schedVars
<1>26. ASSUME NEW r \in Requests, Broadcast(r)
       PROVE  Alone'
  BY <1>0, <1>26 DEF Broadcast, Goto, Alone, schedVars
<1>27. ASSUME NEW r \in Requests, Promote(r)
       PROVE  Alone'
  BY <1>0, <1>27 DEF Promote, Goto, Alone, schedVars
<1>28. ASSUME NEW r \in Requests, BroadcastFails(r)
       PROVE  Alone'
  BY <1>0, <1>28 DEF BroadcastFails, Goto, Alone, schedVars
<1>29. ASSUME NEW r \in Requests, AnswerLost(r)
       PROVE  Alone'
  BY <1>0, <1>29 DEF AnswerLost, Goto, Alone, schedVars
<1>30. ASSUME NEW r \in Requests, Disconnect(r)
       PROVE  Alone'
  BY <1>0, <1>30 DEF Disconnect, Goto, Alone, schedVars
<1>31. CASE Crash
  BY <1>0, <1>31 DEF Crash, NoCall, Nothing, Alone, schedVars
<1>32. CASE UNCHANGED vars
  BY <1>0, <1>32 DEF vars, Alone, schedVars
<1>. QED
  BY <1>1, <1>2, <1>3, <1>4, <1>5, <1>6, <1>7, <1>8, <1>9, <1>10, <1>11, <1>12, <1>13, <1>14,
     <1>15, <1>16, <1>17, <1>18, <1>19, <1>20, <1>21, <1>22, <1>23, <1>24, <1>25, <1>26, <1>27,
     <1>28, <1>29, <1>30, <1>31, <1>32 DEF Next, Owner, Scheduler, Heir

(* What was read when the handler started is still so. *)
LEMMA InHandStep ==
  ASSUME Serial
  PROVE  TypeInv /\ GateInv /\ Alone /\ LinksKept /\ InHand /\ [Next]_vars => InHand'
<1>. SUFFICES ASSUME TypeInv, GateInv, Alone, LinksKept, InHand, [Next]_vars
              PROVE  InHand'
  OBVIOUS
<1>0. /\ vault \in Row /\ now \in Nat /\ tickAt \in Nat /\ owner \in Calls /\ pick \in Findings
      /\ request \in [Requests -> {"idle", "resolved", "opening", "alerting", "loaded",
                                   "broadcasting", "accepted"}]
      /\ phase # "idle" => tickAt <= now
  BY DEF TypeInv, TypeOK, GateInv
<1>1. CASE Advance
  <2>1. /\ now' = now + 1 /\ owner.pc = "idle"
        /\ UNCHANGED <<vault, owner, request, phase, pick, heirLinks, manualLinks>>
    BY <1>1 DEF Advance, schedVars, linkVars
  <2>2. pick.at \in Nat /\ vault.frozenUntil \in Times
    BY <1>0 DEF Findings, Row
  <2>. QED
    BY <1>0, <2>1, <2>2 DEF InHand, Picked, Times, Never
<1>2. CASE Deposit
  BY <1>0, <1>2 DEF Deposit, Alone, InHand, Picked, Row, NoToken, Never, schedVars, linkVars
<1>3. CASE OwnerSweep
  BY <1>0, <1>3 DEF OwnerSweep, Alone, InHand, Picked, Row, NoToken, Never, schedVars, linkVars
<1>4. CASE OwnerCheckinRead
  BY <1>0, <1>4 DEF OwnerCheckinRead, Free, CheckinAllowed, Alone, InHand, Picked, Row, NoToken,
     Never, schedVars, linkVars
<1>5. CASE OwnerCheckinWrite
  BY <1>0, <1>5 DEF OwnerCheckinWrite, CheckedIn, NoCall, Alone, InHand, Picked, Row, NoToken,
     Never, schedVars, linkVars
<1>6. CASE LightningCheckin
  BY <1>0, <1>6 DEF LightningCheckin, ClockReset, Free, Alone, InHand, Picked, Row, NoToken,
     Never, schedVars, linkVars
<1>7. CASE Panic
  BY <1>0, <1>7 DEF Panic, Frozen, Free, Alone, InHand, Picked, Row, NoToken, Never, schedVars,
     linkVars
<1>8. CASE IssueClaim
  BY <1>0, <1>8 DEF IssueClaim, Reissued, Free, Alone, InHand, Picked, Row, NoToken, Never,
     schedVars, linkVars
<1>9. CASE OwnerSend
  BY <1>0, <1>9 DEF OwnerSend, Free, Alone, InHand, Picked, Row, NoToken, Never, schedVars,
     linkVars
<1>10. CASE OwnerSendNoted
  BY <1>0, <1>10 DEF OwnerSendNoted, Retired, NoCall, Alone, InHand, Picked, Row, NoToken,
     Never, schedVars, linkVars
<1>11. CASE TickStart
  BY <1>0, <1>11 DEF TickStart, Alone, InHand, Picked, Row, NoToken, Never, schedVars, linkVars
<1>12. ASSUME NEW p \in Phases \ {"idle"}, Pick(p)
       PROVE  InHand'
  <2>1. /\ phase = p /\ phase' = p /\ p # "idle" /\ Selected(p) /\ owner.pc = "idle"
        /\ \A r \in Requests : request[r] = "idle"
        /\ UNCHANGED <<now, vault, owner, request, heirLinks, manualLinks>>
        /\ pick'.from = vault.status /\ pick'.token = vault.token /\ pick'.at = now
    BY <1>12 DEF Pick, Free, linkVars
  <2>2. tickAt <= now /\ vault.frozenUntil \in Times
    BY <1>0, <2>1 DEF Row
  <2>3. p = "unfreeze" => vault.frozenUntil # Never /\ vault.frozenUntil <= now
    BY <1>0, <2>1, <2>2 DEF Selected, Times, Never
  <2>4. p = "retire" => vault.status \in {"ok", "alarmed"}
    BY <2>1 DEF Selected
  <2>5. p = "alarm" => vault.status = "ok"
    BY <2>1 DEF Selected
  <2>6. p = "claim" => vault.status = "alarmed" /\ (vault.token = NoToken \/ PasswordVault)
    BY <2>1 DEF Selected
  <2>. QED
    BY <1>0, <2>1, <2>3, <2>4, <2>5, <2>6 DEF InHand, Picked
<1>13. CASE Skip
  BY <1>0, <1>13 DEF Skip, EndStep, NextPhase, Alone, InHand, Picked, Row, NoToken, Never,
     schedVars, linkVars
<1>14. CASE Unfreeze
  BY <1>0, <1>14 DEF Unfreeze, Writes, EndStep, Nothing, NextPhase, Alone, InHand, Picked, Row,
     NoToken, Never, schedVars, linkVars
<1>15. CASE Activate
  BY <1>0, <1>15 DEF Activate, Activated, Writes, EndStep, Nothing, NextPhase, Alone, InHand,
     Picked, Row, NoToken, Never, schedVars, linkVars
<1>16. CASE Retire
  BY <1>0, <1>16 DEF Retire, Retired, Writes, EndStep, Nothing, NextPhase, Alone, InHand,
     Picked, Row, NoToken, Never, schedVars, linkVars
<1>17. CASE Alarm
  BY <1>0, <1>17 DEF Alarm, Writes, EndStep, Nothing, NextPhase, Alone, InHand, Picked, Row,
     NoToken, Never, schedVars, linkVars
<1>18. CASE ClaimEmpty
  BY <1>0, <1>18 DEF ClaimEmpty, Retired, Writes, EndStep, Nothing, NextPhase, Alone, InHand,
     Picked, Row, NoToken, Never, schedVars, linkVars
<1>19. CASE StartClaim
  BY <1>0, <1>19 DEF StartClaim, Started, Writes, EndStep, Nothing, StillClaimable, StoredToken,
     MailedToken, NextPhase, Alone, InHand, Picked, Row, NoToken, Never, schedVars, linkVars
<1>20. CASE ReadyNotice
  BY <1>0, <1>20 DEF ReadyNotice, Writes, EndStep, Nothing, NextPhase, Alone, InHand, Picked,
     Row, NoToken, Never, schedVars, linkVars
<1>21. ASSUME NEW r \in Requests, Resolve(r)
       PROVE  InHand'
  BY <1>0, <1>21 DEF Resolve, Goto, Free, Alone, InHand, Picked, Row, NoToken, Never, schedVars,
     linkVars
<1>22. ASSUME NEW r \in Requests, Challenge(r)
       PROVE  InHand'
  BY <1>0, <1>22 DEF Challenge, Goto, WindowOver, Alone, InHand, Picked, Row, NoToken, Never,
     schedVars, linkVars
<1>23. ASSUME NEW r \in Requests, Open(r)
       PROVE  InHand'
  BY <1>0, <1>23 DEF Open, Goto, Alone, InHand, Picked, Row, NoToken, Never, schedVars, linkVars
<1>24. ASSUME NEW r \in Requests, Alert(r)
       PROVE  InHand'
  BY <1>0, <1>24 DEF Alert, Goto, Alone, InHand, Picked, Row, NoToken, Never, schedVars,
     linkVars
<1>25. ASSUME NEW r \in Requests, ConsumeToken(r)
       PROVE  InHand'
  BY <1>0, <1>25 DEF ConsumeToken, Goto, Consumed, Unused, Alone, InHand, Picked, Row, NoToken,
     Never, schedVars, linkVars
<1>26. ASSUME NEW r \in Requests, Broadcast(r)
       PROVE  InHand'
  BY <1>0, <1>26 DEF Broadcast, Goto, Matured, Alone, InHand, Picked, Row, NoToken, Never,
     schedVars, linkVars
<1>27. ASSUME NEW r \in Requests, Promote(r)
       PROVE  InHand'
  BY <1>0, <1>27 DEF Promote, Goto, Alone, InHand, Picked, Row, NoToken, Never, schedVars,
     linkVars
<1>28. ASSUME NEW r \in Requests, BroadcastFails(r)
       PROVE  InHand'
  BY <1>0, <1>28 DEF BroadcastFails, Goto, Released, Alone, InHand, Picked, Row, NoToken, Never,
     schedVars, linkVars
<1>29. ASSUME NEW r \in Requests, AnswerLost(r)
       PROVE  InHand'
  BY <1>0, <1>29 DEF AnswerLost, Goto, Released, Matured, Alone, InHand, Picked, Row, NoToken,
     Never, schedVars, linkVars
<1>30. ASSUME NEW r \in Requests, Disconnect(r)
       PROVE  InHand'
  BY <1>0, <1>30 DEF Disconnect, Goto, MayLand, Matured, Alone, InHand, Picked, Row, NoToken,
     Never, schedVars, linkVars
<1>31. CASE Crash
  BY <1>0, <1>31 DEF Crash, NoCall, Nothing, MayLand, Matured, Alone, InHand, Picked, Row,
     NoToken, Never, schedVars, linkVars
<1>32. CASE UNCHANGED vars
  BY <1>0, <1>32 DEF vars, Alone, InHand, Picked, Row, NoToken, Never, schedVars, linkVars
<1>. QED
  BY <1>1, <1>2, <1>3, <1>4, <1>5, <1>6, <1>7, <1>8, <1>9, <1>10, <1>11, <1>12, <1>13, <1>14,
     <1>15, <1>16, <1>17, <1>18, <1>19, <1>20, <1>21, <1>22, <1>23, <1>24, <1>25, <1>26, <1>27,
     <1>28, <1>29, <1>30, <1>31, <1>32 DEF Next, Owner, Scheduler, Heir

(* A freeze is lifted by the owner, or when its time is over. *)
LEMMA FreezeStep ==
  ASSUME Serial
  PROVE  TypeInv /\ Alone /\ InHand /\ LinksKept /\ FreezeKept /\ [Next]_vars => FreezeKept'
<1>. SUFFICES ASSUME TypeInv, Alone, InHand, LinksKept, FreezeKept, [Next]_vars
              PROVE  FreezeKept'
  OBVIOUS
<1>0. /\ vault \in Row /\ now \in Nat /\ frozenFor \in Times
      /\ request \in [Requests -> {"idle", "resolved", "opening", "alerting", "loaded",
                                   "broadcasting", "accepted"}]
      /\ NoToken \notin heirLinks \cup manualLinks
  BY DEF TypeInv, TypeOK, LinksKept, NoToken
<1>1. CASE Advance
  BY <1>0, <1>1 DEF Advance, FreezeKept, Held, InHand, Picked, Row, Times, Never, historyVars
<1>2. CASE Deposit
  BY <1>0, <1>2 DEF Deposit, FreezeKept, Held, InHand, Picked, Row, Times, Never, historyVars
<1>3. CASE OwnerSweep
  BY <1>0, <1>3 DEF OwnerSweep, FreezeKept, Held, InHand, Picked, Row, Times, Never, historyVars
<1>4. CASE OwnerCheckinRead
  BY <1>0, <1>4 DEF OwnerCheckinRead, FreezeKept, Held, InHand, Picked, Row, Times, Never,
     historyVars
<1>5. CASE OwnerCheckinWrite
  BY <1>0, <1>5 DEF OwnerCheckinWrite, CheckedIn, FreezeKept, Held, InHand, Picked, Row, Times,
     Never, historyVars
<1>6. CASE LightningCheckin
  BY <1>0, <1>6 DEF LightningCheckin, ClockReset, FreezeKept, Held, InHand, Picked, Row, Times,
     Never, historyVars
<1>7. CASE Panic
  BY <1>0, <1>7 DEF Panic, Frozen, FreezeKept, Held, InHand, Picked, Row, Times, Never,
     historyVars
<1>8. CASE IssueClaim
  BY <1>0, <1>8 DEF IssueClaim, Reissued, FreezeKept, Held, InHand, Picked, Row, Times, Never,
     historyVars
<1>9. CASE OwnerSend
  BY <1>0, <1>9 DEF OwnerSend, FreezeKept, Held, InHand, Picked, Row, Times, Never, historyVars
<1>10. CASE OwnerSendNoted
  BY <1>0, <1>10 DEF OwnerSendNoted, Retired, FreezeKept, Held, InHand, Picked, Row, Times,
     Never, historyVars
<1>11. CASE TickStart
  BY <1>0, <1>11 DEF TickStart, FreezeKept, Held, InHand, Picked, Row, Times, Never, historyVars
<1>12. ASSUME NEW p \in Phases \ {"idle"}, Pick(p)
       PROVE  FreezeKept'
  BY <1>0, <1>12 DEF Pick, FreezeKept, Held, InHand, Picked, Row, Times, Never, historyVars
<1>13. CASE Skip
  BY <1>0, <1>13 DEF Skip, FreezeKept, Held, InHand, Picked, Row, Times, Never, historyVars
<1>14. CASE Unfreeze
  BY <1>0, <1>14 DEF Unfreeze, Writes, FreezeKept, Held, InHand, Picked, Row, Times, Never,
     historyVars
<1>15. CASE Activate
  BY <1>0, <1>15 DEF Activate, Activated, Writes, FreezeKept, Held, InHand, Picked, Row, Times,
     Never, historyVars
<1>16. CASE Retire
  BY <1>0, <1>16 DEF Retire, Retired, Writes, FreezeKept, Held, InHand, Picked, Row, Times,
     Never, historyVars
<1>17. CASE Alarm
  BY <1>0, <1>17 DEF Alarm, Writes, FreezeKept, Held, InHand, Picked, Row, Times, Never,
     historyVars
<1>18. CASE ClaimEmpty
  BY <1>0, <1>18 DEF ClaimEmpty, Retired, Writes, FreezeKept, Held, InHand, Picked, Row, Times,
     Never, historyVars
<1>19. CASE StartClaim
  BY <1>0, <1>19 DEF StartClaim, Started, Writes, StillClaimable, FreezeKept, Held, InHand,
     Picked, Row, Times, Never, historyVars
<1>20. CASE ReadyNotice
  BY <1>0, <1>20 DEF ReadyNotice, Writes, FreezeKept, Held, InHand, Picked, Row, Times, Never,
     historyVars
<1>21. ASSUME NEW r \in Requests, Resolve(r)
       PROVE  FreezeKept'
  BY <1>0, <1>21 DEF Resolve, FreezeKept, Held, InHand, Picked, Row, Times, Never, historyVars
<1>22. ASSUME NEW r \in Requests, Challenge(r)
       PROVE  FreezeKept'
  BY <1>0, <1>22 DEF Challenge, FreezeKept, Held, InHand, Picked, Row, Times, Never, historyVars
<1>23. ASSUME NEW r \in Requests, Open(r)
       PROVE  FreezeKept'
  BY <1>0, <1>23 DEF Open, FreezeKept, Held, InHand, Picked, Row, Times, Never, historyVars
<1>24. ASSUME NEW r \in Requests, Alert(r)
       PROVE  FreezeKept'
  BY <1>0, <1>24 DEF Alert, FreezeKept, Held, InHand, Picked, Row, Times, Never, historyVars
<1>25. ASSUME NEW r \in Requests, ConsumeToken(r)
       PROVE  FreezeKept'
  BY <1>0, <1>25 DEF ConsumeToken, Consumed, FreezeKept, Held, InHand, Picked, Row, Times,
     Never, historyVars
<1>26. ASSUME NEW r \in Requests, Broadcast(r)
       PROVE  FreezeKept'
  BY <1>0, <1>26 DEF Broadcast, FreezeKept, Held, InHand, Picked, Row, Times, Never, historyVars
<1>27. ASSUME NEW r \in Requests, Promote(r)
       PROVE  FreezeKept'
  BY <1>0, <1>27 DEF Promote, FreezeKept, Held, InHand, Picked, Row, Times, Never, historyVars
<1>28. ASSUME NEW r \in Requests, BroadcastFails(r)
       PROVE  FreezeKept'
  BY <1>0, <1>28 DEF BroadcastFails, Released, FreezeKept, Held, InHand, Picked, Row, Times,
     Never, historyVars
<1>29. ASSUME NEW r \in Requests, AnswerLost(r)
       PROVE  FreezeKept'
  BY <1>0, <1>29 DEF AnswerLost, Released, FreezeKept, Held, InHand, Picked, Row, Times, Never,
     historyVars
<1>30. ASSUME NEW r \in Requests, Disconnect(r)
       PROVE  FreezeKept'
  BY <1>0, <1>30 DEF Disconnect, FreezeKept, Held, InHand, Picked, Row, Times, Never,
     historyVars
<1>31. CASE Crash
  BY <1>0, <1>31 DEF Crash, FreezeKept, Held, InHand, Picked, Row, Times, Never, historyVars
<1>32. CASE UNCHANGED vars
  BY <1>0, <1>32 DEF vars, FreezeKept, Held, InHand, Picked, Row, Times, Never, historyVars
<1>. QED
  BY <1>1, <1>2, <1>3, <1>4, <1>5, <1>6, <1>7, <1>8, <1>9, <1>10, <1>11, <1>12, <1>13, <1>14,
     <1>15, <1>16, <1>17, <1>18, <1>19, <1>20, <1>21, <1>22, <1>23, <1>24, <1>25, <1>26, <1>27,
     <1>28, <1>29, <1>30, <1>31, <1>32 DEF Next, Owner, Scheduler, Heir

(* A mailed link works only while its claim is live, and a receipt is not taken back. *)
LEMMA LinksStep ==
  ASSUME Serial
  PROVE  TypeInv /\ Alone /\ InHand /\ LinksKept /\ [Next]_vars => LinksKept'
<1>. SUFFICES ASSUME TypeInv, Alone, InHand, LinksKept, [Next]_vars
              PROVE  LinksKept'
  OBVIOUS
<1>0. /\ vault \in Row /\ minted \in Nat
      /\ request \in [Requests -> {"idle", "resolved", "opening", "alerting", "loaded",
                                   "broadcasting", "accepted"}]
  BY BoundsAssumption DEF TypeInv, TypeOK
<1>1. CASE Advance
  BY <1>0, <1>1 DEF Advance, LinksKept, Live, InHand, Picked, Row, Tokens, NoToken, linkVars
<1>2. CASE Deposit
  BY <1>0, <1>2 DEF Deposit, LinksKept, Live, InHand, Picked, Row, Tokens, NoToken, linkVars
<1>3. CASE OwnerSweep
  BY <1>0, <1>3 DEF OwnerSweep, LinksKept, Live, InHand, Picked, Row, Tokens, NoToken, linkVars
<1>4. CASE OwnerCheckinRead
  BY <1>0, <1>4 DEF OwnerCheckinRead, LinksKept, Live, InHand, Picked, Row, Tokens, NoToken,
     linkVars
<1>5. CASE OwnerCheckinWrite
  BY <1>0, <1>5 DEF OwnerCheckinWrite, CheckedIn, LinksKept, Live, InHand, Picked, Row, Tokens,
     NoToken, linkVars
<1>6. CASE LightningCheckin
  BY <1>0, <1>6 DEF LightningCheckin, ClockReset, LinksKept, Live, InHand, Picked, Row, Tokens,
     NoToken, linkVars
<1>7. CASE Panic
  BY <1>0, <1>7 DEF Panic, Frozen, LinksKept, Live, InHand, Picked, Row, Tokens, NoToken,
     linkVars
<1>8. CASE IssueClaim
  BY <1>0, <1>8 DEF IssueClaim, Reissued, LinksKept, Live, InHand, Picked, Row, Tokens, NoToken,
     linkVars
<1>9. CASE OwnerSend
  BY <1>0, <1>9 DEF OwnerSend, LinksKept, Live, InHand, Picked, Row, Tokens, NoToken, linkVars
<1>10. CASE OwnerSendNoted
  BY <1>0, <1>10 DEF OwnerSendNoted, Retired, LinksKept, Live, InHand, Picked, Row, Tokens,
     NoToken, linkVars
<1>11. CASE TickStart
  BY <1>0, <1>11 DEF TickStart, LinksKept, Live, InHand, Picked, Row, Tokens, NoToken, linkVars
<1>12. ASSUME NEW p \in Phases \ {"idle"}, Pick(p)
       PROVE  LinksKept'
  BY <1>0, <1>12 DEF Pick, LinksKept, Live, InHand, Picked, Row, Tokens, NoToken, linkVars
<1>13. CASE Skip
  BY <1>0, <1>13 DEF Skip, LinksKept, Live, InHand, Picked, Row, Tokens, NoToken, linkVars
<1>14. CASE Unfreeze
  BY <1>0, <1>14 DEF Unfreeze, Writes, LinksKept, Live, InHand, Picked, Row, Tokens, NoToken,
     linkVars
<1>15. CASE Activate
  BY <1>0, <1>15 DEF Activate, Activated, Writes, LinksKept, Live, InHand, Picked, Row, Tokens,
     NoToken, linkVars
<1>16. CASE Retire
  BY <1>0, <1>16 DEF Retire, Retired, Writes, LinksKept, Live, InHand, Picked, Row, Tokens,
     NoToken, linkVars
<1>17. CASE Alarm
  BY <1>0, <1>17 DEF Alarm, Writes, LinksKept, Live, InHand, Picked, Row, Tokens, NoToken,
     linkVars
<1>18. CASE ClaimEmpty
  BY <1>0, <1>18 DEF ClaimEmpty, Retired, Writes, LinksKept, Live, InHand, Picked, Row, Tokens,
     NoToken, linkVars
<1>19. CASE StartClaim
  BY <1>0, <1>19 DEF StartClaim, Started, Writes, StillClaimable, StoredToken, MailedToken,
     LinksKept, Live, InHand, Picked, Row, Tokens, NoToken, linkVars
<1>20. CASE ReadyNotice
  BY <1>0, <1>20 DEF ReadyNotice, Writes, LinksKept, Live, InHand, Picked, Row, Tokens, NoToken,
     linkVars
<1>21. ASSUME NEW r \in Requests, Resolve(r)
       PROVE  LinksKept'
  BY <1>0, <1>21 DEF Resolve, LinksKept, Live, InHand, Picked, Row, Tokens, NoToken, linkVars
<1>22. ASSUME NEW r \in Requests, Challenge(r)
       PROVE  LinksKept'
  BY <1>0, <1>22 DEF Challenge, LinksKept, Live, InHand, Picked, Row, Tokens, NoToken, linkVars
<1>23. ASSUME NEW r \in Requests, Open(r)
       PROVE  LinksKept'
  BY <1>0, <1>23 DEF Open, LinksKept, Live, InHand, Picked, Row, Tokens, NoToken, linkVars
<1>24. ASSUME NEW r \in Requests, Alert(r)
       PROVE  LinksKept'
  BY <1>0, <1>24 DEF Alert, LinksKept, Live, InHand, Picked, Row, Tokens, NoToken, linkVars
<1>25. ASSUME NEW r \in Requests, ConsumeToken(r)
       PROVE  LinksKept'
  BY <1>0, <1>25 DEF ConsumeToken, Consumed, Unused, LinksKept, Live, InHand, Picked, Row,
     Tokens, NoToken, linkVars
<1>26. ASSUME NEW r \in Requests, Broadcast(r)
       PROVE  LinksKept'
  BY <1>0, <1>26 DEF Broadcast, LinksKept, Live, InHand, Picked, Row, Tokens, NoToken, linkVars
<1>27. ASSUME NEW r \in Requests, Promote(r)
       PROVE  LinksKept'
  BY <1>0, <1>27 DEF Promote, LinksKept, Live, InHand, Picked, Row, Tokens, NoToken, linkVars
<1>28. ASSUME NEW r \in Requests, BroadcastFails(r)
       PROVE  LinksKept'
  BY <1>0, <1>28 DEF BroadcastFails, Released, LinksKept, Live, InHand, Picked, Row, Tokens,
     NoToken, linkVars
<1>29. ASSUME NEW r \in Requests, AnswerLost(r)
       PROVE  LinksKept'
  BY <1>0, <1>29 DEF AnswerLost, Released, LinksKept, Live, InHand, Picked, Row, Tokens,
     NoToken, linkVars
<1>30. ASSUME NEW r \in Requests, Disconnect(r)
       PROVE  LinksKept'
  BY <1>0, <1>30 DEF Disconnect, LinksKept, Live, InHand, Picked, Row, Tokens, NoToken, linkVars
<1>31. CASE Crash
  BY <1>0, <1>31 DEF Crash, LinksKept, Live, InHand, Picked, Row, Tokens, NoToken, linkVars
<1>32. CASE UNCHANGED vars
  BY <1>0, <1>32 DEF vars, LinksKept, Live, InHand, Picked, Row, Tokens, NoToken, linkVars
<1>. QED
  BY <1>1, <1>2, <1>3, <1>4, <1>5, <1>6, <1>7, <1>8, <1>9, <1>10, <1>11, <1>12, <1>13, <1>14,
     <1>15, <1>16, <1>17, <1>18, <1>19, <1>20, <1>21, <1>22, <1>23, <1>24, <1>25, <1>26, <1>27,
     <1>28, <1>29, <1>30, <1>31, <1>32 DEF Next, Owner, Scheduler, Heir

-----------------------------------------------------------------------------
(* The promise, step by step.  A working link is one whose token is on the row. *)

LEMMA SwitchStutters ==
  ASSUME UNCHANGED <<now, clockFrom, frozenFor>>,
         vault'.token \in heirLinks' <=> vault.token \in heirLinks,
         vault'.token \in manualLinks' <=> vault.token \in manualLinks,
         coins' = "heir" <=> coins = "heir"
  PROVE  UNCHANGED Switch!vars
  BY DEF Switch!vars

LEMMA SwitchTicks ==
  ASSUME now' = now + 1, UNCHANGED <<clockFrom, frozenFor>>,
         vault'.token \in heirLinks' <=> vault.token \in heirLinks,
         vault'.token \in manualLinks' <=> vault.token \in manualLinks,
         coins' = "heir" <=> coins = "heir"
  PROVE  Switch!Next
  BY DEF Switch!Next, Switch!Tick

LEMMA SwitchRestarts ==
  ASSUME UNCHANGED now, clockFrom' \in 0 .. now, frozenFor' = Never,
         vault'.token \notin heirLinks', vault'.token \notin manualLinks',
         coins' = "heir" <=> coins = "heir"
  PROVE  Switch!Next
  BY DEF Switch!Next, Switch!Restart, Never

LEMMA SwitchFreezes ==
  ASSUME UNCHANGED <<now, clockFrom>>, frozenFor' >= now,
         vault'.token \notin heirLinks', vault'.token \notin manualLinks',
         coins' = "heir" <=> coins = "heir"
  PROVE  Switch!Next
  BY DEF Switch!Next, Switch!Freeze

LEMMA SwitchRearms ==
  ASSUME UNCHANGED <<now, frozenFor>>, clockFrom' \in 0 .. now,
         vault.token \notin heirLinks, vault'.token \notin heirLinks',
         vault'.token \in manualLinks' <=> vault.token \in manualLinks,
         coins' = "heir" <=> coins = "heir"
  PROVE  Switch!Next
  BY DEF Switch!Next, Switch!Rearm

LEMMA SwitchLifts ==
  ASSUME UNCHANGED <<now, clockFrom>>, frozenFor' = Never,
         vault'.token \in heirLinks' <=> vault.token \in heirLinks,
         vault'.token \in manualLinks' <=> vault.token \in manualLinks,
         coins' = "heir" <=> coins = "heir"
  PROVE  Switch!Next
  BY DEF Switch!Next, Switch!Lift, Never

LEMMA SwitchHandsOver ==
  ASSUME UNCHANGED <<now, clockFrom>>, frozenFor' = Never,
         vault'.token \notin heirLinks', vault'.token \in manualLinks',
         coins' = "heir" <=> coins = "heir"
  PROVE  Switch!Next
  BY DEF Switch!Next, Switch!HandOver, Never

LEMMA SwitchReleases ==
  ASSUME UNCHANGED <<now, clockFrom, frozenFor>>,
         vault.token \notin heirLinks, vault'.token \in heirLinks',
         vault'.token \in manualLinks' <=> vault.token \in manualLinks,
         now >= clockFrom + Eligible(0), now >= frozenFor,
         coins' = "heir" <=> coins = "heir"
  PROVE  Switch!Next
  BY DEF Switch!Next, Switch!Release

LEMMA SwitchTakes ==
  ASSUME UNCHANGED <<now, clockFrom, frozenFor>>,
         vault'.token \in heirLinks' <=> vault.token \in heirLinks,
         vault'.token \in manualLinks' <=> vault.token \in manualLinks,
         vault.token \in heirLinks \cup manualLinks,
         coins # "heir", coins' = "heir"
  PROVE  Switch!Next
  BY DEF Switch!Next, Switch!Take

(* Every step of the vault is a step of the promise, or none of its business. *)
LEMMA PromiseStep ==
  ASSUME Serial
  PROVE  TypeInv /\ GateInv /\ SerialInv /\ [Next]_vars => [Switch!Next]_Switch!vars
<1>. SUFFICES ASSUME TypeInv, GateInv, SerialInv, [Next]_vars
              PROVE  Switch!Next \/ UNCHANGED Switch!vars
  OBVIOUS
<1>0. /\ vault \in Row /\ now \in Nat /\ clockFrom \in Nat /\ minted \in Nat
      /\ frozenFor \in Times /\ owner \in Calls /\ pick \in Findings
      /\ Alone /\ InHand /\ FreezeKept /\ LinksKept
      /\ NoToken \notin heirLinks \cup manualLinks
  BY BoundsAssumption DEF TypeInv, TypeOK, SerialInv, LinksKept, NoToken
<1>1. CASE Advance
  BY <1>1, SwitchTicks DEF Advance, chainVars, linkVars, historyVars
<1>2. CASE Deposit
  BY <1>0, <1>2, SwitchStutters DEF Deposit, Row, chainVars, linkVars, historyVars
<1>3. CASE OwnerSweep
  BY <1>0, <1>3, SwitchStutters DEF OwnerSweep, Row, chainVars, linkVars, historyVars
<1>4. CASE OwnerCheckinRead
  BY <1>0, <1>4, SwitchStutters DEF OwnerCheckinRead, Row, chainVars, linkVars, historyVars
<1>5. CASE OwnerCheckinWrite
  <2>1. owner.at \in 0 .. now /\ vault'.token = NoToken
    BY <1>0, <1>5 DEF OwnerCheckinWrite, InHand, Calls, CheckedIn, Row
  <2>. QED
    BY <1>0, <1>5, <2>1, SwitchRestarts DEF OwnerCheckinWrite, chainVars, linkVars
<1>6. CASE LightningCheckin
  <2>1. now \in 0 .. now /\ vault'.token = NoToken
    BY <1>0, <1>6 DEF LightningCheckin, ClockReset, Row
  <2>. QED
    BY <1>0, <1>6, <2>1, SwitchRestarts DEF LightningCheckin, chainVars, linkVars
<1>7. CASE Panic
  <2>1. frozenFor' >= now /\ vault'.token = NoToken
    BY <1>0, <1>7, DurationsAssumption DEF Panic, Frozen, Row
  <2>. QED
    BY <1>0, <1>7, <2>1, SwitchFreezes DEF Panic, chainVars, linkVars
<1>8. CASE IssueClaim
  <2>1. vault'.token = minted + 1 /\ minted + 1 \notin heirLinks
    BY <1>0, <1>8 DEF IssueClaim, Reissued, Row, LinksKept
  <2>. QED
    BY <1>0, <1>8, <2>1, SwitchHandsOver DEF IssueClaim, chainVars
<1>9. CASE OwnerSend
  BY <1>0, <1>9, SwitchStutters DEF OwnerSend, Row, chainVars, linkVars, historyVars
<1>10. CASE OwnerSendNoted
  <2>1. vault'.token = vault.token /\ (frozenFor' = Never \/ frozenFor' = frozenFor)
    BY <1>0, <1>10 DEF OwnerSendNoted, Retired, Row
  <2>. QED
    BY <1>10, <2>1, SwitchLifts, SwitchStutters DEF OwnerSendNoted, chainVars, linkVars
<1>11. CASE TickStart
  BY <1>0, <1>11, SwitchStutters DEF TickStart, Row, chainVars, linkVars, historyVars
<1>12. ASSUME NEW p \in Phases \ {"idle"}, Pick(p)
       PROVE  Switch!Next \/ UNCHANGED Switch!vars
  BY <1>12, SwitchStutters DEF Pick, chainVars, linkVars, historyVars
<1>13. CASE Skip
  BY <1>0, <1>13, SwitchStutters DEF Skip, Row, chainVars, linkVars, historyVars
<1>14. CASE Unfreeze
  BY <1>0, <1>14, SwitchStutters DEF Unfreeze, Writes, Row, chainVars, linkVars, historyVars
<1>15. CASE Activate
  <2>1. CASE vault.status = "unfunded"
    <3>1. pick.at \in 0 .. now
      <4>1. pick.at <= now
        BY <1>0, <1>15 DEF Activate, Writes, InHand
      <4>. QED
        BY <1>0, <4>1 DEF Findings
    <3>2. vault'.token = vault.token /\ clockFrom' = pick.at
      BY <1>0, <1>15, <2>1 DEF Activate, Activated, Row
    <3>3. vault.token \notin heirLinks
      BY <1>0, <2>1 DEF LinksKept, Live
    <3>. QED
      BY <1>15, <3>1, <3>2, <3>3, SwitchRearms DEF Activate, Writes, chainVars, linkVars
  <2>2. CASE vault.status # "unfunded"
    BY <1>15, <2>2, SwitchStutters DEF Activate, Writes, chainVars, linkVars
  <2>. QED
    BY <2>1, <2>2
<1>16. CASE Retire
  BY <1>0, <1>16, SwitchStutters DEF Retire, Retired, Writes, Row, chainVars, linkVars,
     historyVars
<1>17. CASE Alarm
  BY <1>0, <1>17, SwitchStutters DEF Alarm, Writes, Row, chainVars, linkVars, historyVars
<1>18. CASE ClaimEmpty
  BY <1>0, <1>18, SwitchStutters DEF ClaimEmpty, Retired, Writes, Row, chainVars, linkVars,
     historyVars
<1>19. CASE StartClaim
  <2>1. /\ vault.status = "alarmed" /\ pick.token = vault.token
        /\ vault.token = NoToken \/ PasswordVault
        /\ vault.eligible # Never
        /\ vault.eligible <= now
    BY <1>0, <1>19 DEF StartClaim, Writes, InHand, Picked, GateInv
  <2>2. /\ vault'.token = StoredToken /\ heirLinks' = heirLinks \cup {MailedToken}
        /\ UNCHANGED <<now, coins, manualLinks, clockFrom, frozenFor>>
    BY <1>0, <1>19, <2>1 DEF StartClaim, StillClaimable, Started, Writes, Row, chainVars,
       historyVars
  <2>3. vault.token \notin heirLinks
    BY <1>0, <2>1 DEF LinksKept, Live
  <2>4. now >= clockFrom + Eligible(0) /\ now >= frozenFor
    <3>1. now >= Eligible(clockFrom)
      BY <1>0, <2>1 DEF GateInv, Row, Times
    <3>2. Eligible(clockFrom) = clockFrom + Eligible(0)
      BY <1>0, DurationsAssumption DEF Eligible, Deadline
    <3>3. now >= frozenFor
      BY <1>0, <2>1 DEF FreezeKept, Held, Times, Never
    <3>. QED
      BY <3>1, <3>2, <3>3
  <2>5. CASE vault.token = NoToken
    <3>1. /\ StoredToken = MailedToken /\ MailedToken \notin manualLinks
          /\ NoToken \notin manualLinks
      BY <1>0, <2>1, <2>5 DEF StoredToken, MailedToken, LinksKept
    <3>. QED
      BY <2>2, <2>3, <2>4, <2>5, <3>1, SwitchReleases
  <2>6. CASE vault.token # NoToken
    <3>1. PasswordVault /\ StoredToken = vault.token
      BY <2>1, <2>6 DEF StoredToken
    <3>2. CASE vault.token = MailedToken
      BY <2>2, <2>3, <2>4, <3>1, <3>2, SwitchReleases
    <3>3. CASE vault.token # MailedToken
      BY <2>2, <2>3, <3>1, <3>3, SwitchStutters
    <3>. QED
      BY <3>2, <3>3
  <2>. QED
    BY <2>5, <2>6
<1>20. CASE ReadyNotice
  BY <1>0, <1>20, SwitchStutters DEF ReadyNotice, Writes, Row, chainVars, linkVars, historyVars
<1>21. ASSUME NEW r \in Requests, Resolve(r)
       PROVE  Switch!Next \/ UNCHANGED Switch!vars
  BY <1>0, <1>21, SwitchStutters DEF Resolve, Row, chainVars, linkVars, historyVars
<1>22. ASSUME NEW r \in Requests, Challenge(r)
       PROVE  Switch!Next \/ UNCHANGED Switch!vars
  BY <1>0, <1>22, SwitchStutters DEF Challenge, Row, chainVars, linkVars, historyVars
<1>23. ASSUME NEW r \in Requests, Open(r)
       PROVE  Switch!Next \/ UNCHANGED Switch!vars
  BY <1>0, <1>23, SwitchStutters DEF Open, Row, chainVars, linkVars, historyVars
<1>24. ASSUME NEW r \in Requests, Alert(r)
       PROVE  Switch!Next \/ UNCHANGED Switch!vars
  BY <1>0, <1>24, SwitchStutters DEF Alert, Row, chainVars, linkVars, historyVars
<1>25. ASSUME NEW r \in Requests, ConsumeToken(r)
       PROVE  Switch!Next \/ UNCHANGED Switch!vars
  BY <1>0, <1>25, SwitchStutters DEF ConsumeToken, Consumed, Unused, Row, chainVars, linkVars,
     historyVars
<1>26. ASSUME NEW r \in Requests, Broadcast(r)
       PROVE  Switch!Next \/ UNCHANGED Switch!vars
  <2>1. /\ vault.token \in heirLinks \cup manualLinks /\ coins = "held" /\ coins' = "heir"
        /\ vault'.token = vault.token
        /\ UNCHANGED <<now, heirLinks, manualLinks, clockFrom, frozenFor>>
    BY <1>0, <1>26 DEF Broadcast, Matured, InHand, linkVars, historyVars
  <2>. QED
    BY <2>1, SwitchTakes
<1>27. ASSUME NEW r \in Requests, Promote(r)
       PROVE  Switch!Next \/ UNCHANGED Switch!vars
  BY <1>0, <1>27, SwitchStutters DEF Promote, Row, chainVars, linkVars, historyVars
<1>28. ASSUME NEW r \in Requests, BroadcastFails(r)
       PROVE  Switch!Next \/ UNCHANGED Switch!vars
  BY <1>0, <1>28, SwitchStutters DEF BroadcastFails, Released, Row, chainVars, linkVars,
     historyVars
<1>29. ASSUME NEW r \in Requests, AnswerLost(r)
       PROVE  Switch!Next \/ UNCHANGED Switch!vars
  <2>1. /\ vault.token \in heirLinks \cup manualLinks /\ coins = "held" /\ coins' = "heir"
        /\ vault'.token = vault.token
        /\ UNCHANGED <<now, heirLinks, manualLinks, clockFrom, frozenFor>>
    BY <1>0, <1>29 DEF AnswerLost, Matured, InHand, linkVars, historyVars, Released, Row
  <2>. QED
    BY <2>1, SwitchTakes
<1>30. ASSUME NEW r \in Requests, Disconnect(r)
       PROVE  Switch!Next \/ UNCHANGED Switch!vars
  <2>1. UNCHANGED <<now, vault, heirLinks, manualLinks, clockFrom, frozenFor>>
    BY <1>30 DEF Disconnect, linkVars, historyVars
  <2>2. CASE UNCHANGED coins
    BY <2>1, <2>2, SwitchStutters
  <2>3. CASE ~UNCHANGED coins
    <3>1. /\ vault.token \in heirLinks \cup manualLinks /\ coins = "held" /\ coins' = "heir"
      BY <1>0, <1>30, <2>3 DEF Disconnect, MayLand, Matured, InHand
    <3>. QED
      BY <2>1, <3>1, SwitchTakes
  <2>. QED
    BY <2>2, <2>3
<1>31. CASE Crash
  <2>1. UNCHANGED <<now, vault, heirLinks, manualLinks, clockFrom, frozenFor>>
    BY <1>31 DEF Crash, linkVars, historyVars
  <2>2. CASE UNCHANGED coins
    BY <2>1, <2>2, SwitchStutters
  <2>3. CASE ~UNCHANGED coins
    <3>1. /\ vault.token \in heirLinks \cup manualLinks /\ coins = "held" /\ coins' = "heir"
      BY <1>0, <1>31, <2>3 DEF Crash, MayLand, Matured, InHand
    <3>. QED
      BY <2>1, <3>1, SwitchTakes
  <2>. QED
    BY <2>2, <2>3
<1>32. CASE UNCHANGED vars
  BY <1>32, SwitchStutters DEF vars, chainVars, linkVars, historyVars
<1>. QED
  BY <1>1, <1>2, <1>3, <1>4, <1>5, <1>6, <1>7, <1>8, <1>9, <1>10, <1>11, <1>12, <1>13, <1>14,
     <1>15, <1>16, <1>17, <1>18, <1>19, <1>20, <1>21, <1>22, <1>23, <1>24, <1>25, <1>26, <1>27,
     <1>28, <1>29, <1>30, <1>31, <1>32 DEF Next, Owner, Scheduler, Heir

(* What leaves `claimed` is a link the owner took himself. *)
LEMMA FinalStep ==
  ASSUME Serial
  PROVE  TypeInv /\ SerialInv /\ [Next]_vars =>
           [vault.status = "claimed" /\ vault'.status # "claimed"
              => vault.token \in manualLinks]_vars
<1>. SUFFICES ASSUME TypeInv, SerialInv, [Next]_vars,
                     vault.status = "claimed", vault'.status # "claimed"
              PROVE  vault.token \in manualLinks
  OBVIOUS
<1>0. vault \in Row /\ InHand /\ LinksKept
  BY DEF TypeInv, TypeOK, SerialInv
<1>1. CASE Advance
  BY <1>0, <1>1 DEF Advance, InHand, Picked, LinksKept, Row
<1>2. CASE Deposit
  BY <1>0, <1>2 DEF Deposit, InHand, Picked, LinksKept, Row
<1>3. CASE OwnerSweep
  BY <1>0, <1>3 DEF OwnerSweep, InHand, Picked, LinksKept, Row
<1>4. CASE OwnerCheckinRead
  BY <1>0, <1>4 DEF OwnerCheckinRead, InHand, Picked, LinksKept, Row
<1>5. CASE OwnerCheckinWrite
  BY <1>0, <1>5 DEF OwnerCheckinWrite, CheckedIn, InHand, Picked, LinksKept, Row
<1>6. CASE LightningCheckin
  BY <1>0, <1>6 DEF LightningCheckin, ClockReset, InHand, Picked, LinksKept, Row
<1>7. CASE Panic
  BY <1>0, <1>7 DEF Panic, Frozen, InHand, Picked, LinksKept, Row
<1>8. CASE IssueClaim
  BY <1>0, <1>8 DEF IssueClaim, Reissued, InHand, Picked, LinksKept, Row
<1>9. CASE OwnerSend
  BY <1>0, <1>9 DEF OwnerSend, InHand, Picked, LinksKept, Row
<1>10. CASE OwnerSendNoted
  BY <1>0, <1>10 DEF OwnerSendNoted, Retired, InHand, Picked, LinksKept, Row
<1>11. CASE TickStart
  BY <1>0, <1>11 DEF TickStart, InHand, Picked, LinksKept, Row
<1>12. ASSUME NEW p \in Phases \ {"idle"}, Pick(p)
       PROVE  vault.token \in manualLinks
  BY <1>0, <1>12 DEF Pick, InHand, Picked, LinksKept, Row
<1>13. CASE Skip
  BY <1>0, <1>13 DEF Skip, InHand, Picked, LinksKept, Row
<1>14. CASE Unfreeze
  BY <1>0, <1>14 DEF Unfreeze, Writes, InHand, Picked, LinksKept, Row
<1>15. CASE Activate
  BY <1>0, <1>15 DEF Activate, Activated, Writes, InHand, Picked, LinksKept, Row
<1>16. CASE Retire
  BY <1>0, <1>16 DEF Retire, Retired, Writes, InHand, Picked, LinksKept, Row
<1>17. CASE Alarm
  BY <1>0, <1>17 DEF Alarm, Writes, InHand, Picked, LinksKept, Row
<1>18. CASE ClaimEmpty
  BY <1>0, <1>18 DEF ClaimEmpty, Retired, Writes, InHand, Picked, LinksKept, Row
<1>19. CASE StartClaim
  BY <1>0, <1>19 DEF StartClaim, Started, Writes, StillClaimable, InHand, Picked, LinksKept, Row
<1>20. CASE ReadyNotice
  BY <1>0, <1>20 DEF ReadyNotice, Writes, InHand, Picked, LinksKept, Row
<1>21. ASSUME NEW r \in Requests, Resolve(r)
       PROVE  vault.token \in manualLinks
  BY <1>0, <1>21 DEF Resolve, InHand, Picked, LinksKept, Row
<1>22. ASSUME NEW r \in Requests, Challenge(r)
       PROVE  vault.token \in manualLinks
  BY <1>0, <1>22 DEF Challenge, InHand, Picked, LinksKept, Row
<1>23. ASSUME NEW r \in Requests, Open(r)
       PROVE  vault.token \in manualLinks
  BY <1>0, <1>23 DEF Open, InHand, Picked, LinksKept, Row
<1>24. ASSUME NEW r \in Requests, Alert(r)
       PROVE  vault.token \in manualLinks
  BY <1>0, <1>24 DEF Alert, InHand, Picked, LinksKept, Row
<1>25. ASSUME NEW r \in Requests, ConsumeToken(r)
       PROVE  vault.token \in manualLinks
  BY <1>0, <1>25 DEF ConsumeToken, Consumed, Unused, InHand, Picked, LinksKept, Row
<1>26. ASSUME NEW r \in Requests, Broadcast(r)
       PROVE  vault.token \in manualLinks
  BY <1>0, <1>26 DEF Broadcast, InHand, Picked, LinksKept, Row
<1>27. ASSUME NEW r \in Requests, Promote(r)
       PROVE  vault.token \in manualLinks
  BY <1>0, <1>27 DEF Promote, InHand, Picked, LinksKept, Row
<1>28. ASSUME NEW r \in Requests, BroadcastFails(r)
       PROVE  vault.token \in manualLinks
  BY <1>0, <1>28 DEF BroadcastFails, Released, InHand, Picked, LinksKept, Row
<1>29. ASSUME NEW r \in Requests, AnswerLost(r)
       PROVE  vault.token \in manualLinks
  BY <1>0, <1>29 DEF AnswerLost, Released, InHand, Picked, LinksKept, Row
<1>30. ASSUME NEW r \in Requests, Disconnect(r)
       PROVE  vault.token \in manualLinks
  BY <1>0, <1>30 DEF Disconnect, InHand, Picked, LinksKept, Row
<1>31. CASE Crash
  BY <1>0, <1>31 DEF Crash, InHand, Picked, LinksKept, Row
<1>32. CASE UNCHANGED vars
  BY <1>0, <1>32 DEF vars, InHand, Picked, LinksKept, Row
<1>. QED
  BY <1>1, <1>2, <1>3, <1>4, <1>5, <1>6, <1>7, <1>8, <1>9, <1>10, <1>11, <1>12, <1>13, <1>14,
     <1>15, <1>16, <1>17, <1>18, <1>19, <1>20, <1>21, <1>22, <1>23, <1>24, <1>25, <1>26, <1>27,
     <1>28, <1>29, <1>30, <1>31, <1>32 DEF Next, Owner, Scheduler, Heir

-----------------------------------------------------------------------------
(* The theorems.                                                              *)

LEMMA SerialInit == Init => SerialInv
<1>. SUFFICES ASSUME Init PROVE SerialInv
  OBVIOUS
<1>1. Alone
  BY DEF Init, Alone, NoCall, Nothing
<1>2. InHand
  BY DEF Init, InHand, Picked, NoCall, Nothing
<1>3. FreezeKept
  BY DEF Init, FreezeKept, Held, Never
<1>4. LinksKept
  BY SwitchesAssumption DEF Init, LinksKept, NoToken
<1>. QED
  BY <1>1, <1>2, <1>3, <1>4 DEF SerialInv

LEMMA SerialStep ==
  ASSUME Serial
  PROVE  TypeInv /\ GateInv /\ SerialInv /\ [Next]_vars => SerialInv'
  BY AloneStep, InHandStep, FreezeStep, LinksStep DEF SerialInv

LEMMA AlwaysSerialInv ==
  ASSUME Serial
  PROVE  Spec => [](TypeInv /\ GateInv /\ SerialInv)
<1>1. TypeInv /\ GateInv /\ SerialInv /\ [Next]_vars => (TypeInv /\ GateInv /\ SerialInv)'
  BY TypeStep, GateStep, SerialStep
<1>2. Init => TypeInv /\ GateInv /\ SerialInv
  BY TypeInit, GateInit, SerialInit
<1>. QED
  BY <1>1, <1>2, PTL DEF Spec

(* The owner's panic keeps the vault frozen to the last hour of the freeze, through ticks, *)
(* crashes, deposits and the claims that were waiting (mark_panic_paid, unfreeze).         *)
THEOREM PanicsHold ==
  ASSUME Serial
  PROVE  Spec => []PanicHolds
<1>1. SerialInv => PanicHolds
  BY DEF SerialInv, FreezeKept, Held, PanicHolds
<1>. QED
  BY <1>1, AlwaysSerialInv, PTL

(* A link mailed to the heir works only during its claim, for vaults that keep their claim *)
(* token at rest as well, whose token is mailed again in every claim.                      *)
THEOREM SerialLinks ==
  ASSUME Serial
  PROVE  Spec => []HeirLinkOnlyDuringClaim
<1>1. SerialInv => HeirLinkOnlyDuringClaim
  BY DEF SerialInv, LinksKept, Live, HeirLinkOnlyDuringClaim
<1>. QED
  BY <1>1, AlwaysSerialInv, PTL

(* `claimed` is left only through a link the owner took himself (claim_is_final). *)
THEOREM ReceiptsAreFinal ==
  ASSUME Serial
  PROVE  Spec => ClaimedIsFinal
<1>1. TypeInv /\ GateInv /\ SerialInv /\ [Next]_vars =>
        [vault.status = "claimed" /\ vault'.status # "claimed"
           => vault.token \in manualLinks]_vars
  BY FinalStep
<1>. QED
  BY <1>1, AlwaysSerialInv, PTL DEF Spec, ClaimedIsFinal

(* The vault implements DeadMansSwitch: the heir is let in after a full silence and never  *)
(* during a freeze, every proof of life shuts him out, and coins are taken only by links.  *)
THEOREM VaultKeepsPromise ==
  ASSUME Serial
  PROVE  Spec => KeepsPromise
<1>1. Init => Switch!Init
  <2>. SUFFICES ASSUME Init PROVE Switch!Init
    OBVIOUS
  <2>1. /\ now = 0 /\ clockFrom = 0 /\ frozenFor = -1 /\ coins = "none"
        /\ heirLinks = {} /\ manualLinks = {}
    BY DEF Init, Never
  <2>. QED
    BY <2>1 DEF Switch!Init
<1>2. TypeInv /\ GateInv /\ SerialInv /\ [Next]_vars => [Switch!Next]_Switch!vars
  BY PromiseStep
<1>. QED
  BY <1>1, <1>2, AlwaysSerialInv, PTL DEF Spec, KeepsPromise, Switch!Spec
-----------------------------------------------------------------------------
(* The challenge.  A claim may pass the window unannounced when an answer or the server is  *)
(* lost between ensure_claim_challenge's UPDATE and its alert, when reset_vault_clock keeps *)
(* claim_opened_at, or when the owner's handler restarts the cycle under a claim.           *)
Undisturbed ==
  /\ ChallengeWindow > 0 /\ MaxFaults = 0 /\ "lightning" \notin OwnerActs
  /\ Serial \/ OwnerActs \cap {"checkin", "panic", "issue"} = {}

(* The window opens with its alert, and only what waited for it is loaded. *)
AlertInv ==
  /\ owner.pc = "checkin" => "checkin" \in OwnerActs
  /\ vault.openedAt # Never =>
       alertedAt = vault.openedAt \/ \E r \in Requests : request[r] = "alerting"
  /\ \A r \in Requests : request[r] = "alerting" => vault.openedAt = now
  /\ \A r \in Requests : request[r] = "loaded" =>
       /\ vault.openedAt # Never /\ alertedAt = vault.openedAt
       /\ now >= vault.openedAt + ChallengeWindow

LEMMA AlertStep ==
  ASSUME Undisturbed
  PROVE  TypeInv /\ (Serial => Alone) /\ AlertInv /\ [Next]_vars => AlertInv'
<1>. SUFFICES ASSUME TypeInv, Serial => Alone, AlertInv, [Next]_vars
              PROVE  AlertInv'
  OBVIOUS
<1>0. /\ vault \in Row /\ now \in Nat /\ alertedAt \in Times /\ vault.openedAt \in Times
      /\ request \in [Requests -> {"idle", "resolved", "opening", "alerting", "loaded",
                                   "broadcasting", "accepted"}]
      /\ ChallengeWindow \in Nat \ {0} /\ ~(faults < MaxFaults) /\ "lightning" \notin OwnerActs
  BY DurationsAssumption DEF TypeInv, TypeOK, Undisturbed, Row
(* An owner's handler that restarts the cycle runs beside no claim. *)
<1>idle. ASSUME Free, OwnerActs \cap {"checkin", "panic", "issue"} # {}
      PROVE  \A r \in Requests : request[r] = "idle"
  BY <1>idle DEF Undisturbed, Free
<1>1. CASE Advance
  BY <1>0, <1>1 DEF Advance, Quick, AlertInv, Row, Never, Times, historyVars
<1>2. CASE Deposit
  BY <1>0, <1>2 DEF Deposit, AlertInv, Row, Never, Times, historyVars
<1>3. CASE OwnerSweep
  BY <1>0, <1>3 DEF OwnerSweep, AlertInv, Row, Never, Times, historyVars
<1>4. CASE OwnerCheckinRead
  BY <1>0, <1>4 DEF OwnerCheckinRead, AlertInv, Row, Never, Times, historyVars
<1>5. CASE OwnerCheckinWrite
  <2>1. \A r \in Requests : request[r] = "idle"
    BY <1>5 DEF OwnerCheckinWrite, Undisturbed, AlertInv, Alone
  <2>. QED
    BY <1>0, <1>5, <2>1 DEF OwnerCheckinWrite, CheckedIn, NoCall, AlertInv, Row, Never
<1>6. CASE LightningCheckin
  BY <1>0, <1>6 DEF LightningCheckin, ClockReset, AlertInv, Row, Never, Times, historyVars
<1>7. CASE Panic
  BY <1>0, <1>idle, <1>7 DEF Panic, Frozen, AlertInv, Row, Never
<1>8. CASE IssueClaim
  BY <1>0, <1>idle, <1>8 DEF IssueClaim, Reissued, AlertInv, Row, Never
<1>9. CASE OwnerSend
  BY <1>0, <1>9 DEF OwnerSend, AlertInv, Row, Never, Times, historyVars
<1>10. CASE OwnerSendNoted
  BY <1>0, <1>10 DEF OwnerSendNoted, Retired, NoCall, AlertInv, Row, Never, Times, historyVars
<1>11. CASE TickStart
  BY <1>0, <1>11 DEF TickStart, AlertInv, Row, Never, Times, historyVars
<1>12. ASSUME NEW p \in Phases \ {"idle"}, Pick(p)
       PROVE  AlertInv'
  BY <1>0, <1>12 DEF Pick, AlertInv, Row, Never, Times, historyVars
<1>13. CASE Skip
  BY <1>0, <1>13 DEF Skip, AlertInv, Row, Never, Times, historyVars
<1>14. CASE Unfreeze
  BY <1>0, <1>14 DEF Unfreeze, Writes, AlertInv, Row, Never, Times, historyVars
<1>15. CASE Activate
  BY <1>0, <1>15 DEF Activate, Activated, Writes, AlertInv, Row, Never, Times, historyVars
<1>16. CASE Retire
  BY <1>0, <1>16 DEF Retire, Retired, Writes, AlertInv, Row, Never, Times, historyVars
<1>17. CASE Alarm
  BY <1>0, <1>17 DEF Alarm, Writes, AlertInv, Row, Never, Times, historyVars
<1>18. CASE ClaimEmpty
  BY <1>0, <1>18 DEF ClaimEmpty, Retired, Writes, AlertInv, Row, Never, Times, historyVars
<1>19. CASE StartClaim
  BY <1>0, <1>19 DEF StartClaim, Started, Writes, AlertInv, Row, Never, Times, historyVars
<1>20. CASE ReadyNotice
  BY <1>0, <1>20 DEF ReadyNotice, Writes, AlertInv, Row, Never, Times, historyVars
<1>21. ASSUME NEW r \in Requests, Resolve(r)
       PROVE  AlertInv'
  BY <1>0, <1>21 DEF Resolve, Goto, AlertInv, Row, Never, Times, historyVars
<1>22. ASSUME NEW r \in Requests, Challenge(r)
       PROVE  AlertInv'
  BY <1>0, <1>22 DEF Challenge, Goto, WindowOver, AlertInv, Row, Never, Times, historyVars
<1>23. ASSUME NEW r \in Requests, Open(r)
       PROVE  AlertInv'
  BY <1>0, <1>23 DEF Open, Goto, AlertInv, Row, Never, Times, historyVars
<1>24. ASSUME NEW r \in Requests, Alert(r)
       PROVE  AlertInv'
  BY <1>0, <1>24 DEF Alert, Goto, AlertInv, Row, Never, Times, historyVars
<1>25. ASSUME NEW r \in Requests, ConsumeToken(r)
       PROVE  AlertInv'
  BY <1>0, <1>25 DEF ConsumeToken, Goto, Consumed, AlertInv, Row, Never, Times, historyVars
<1>26. ASSUME NEW r \in Requests, Broadcast(r)
       PROVE  AlertInv'
  BY <1>0, <1>26 DEF Broadcast, Goto, AlertInv, Row, Never, Times, historyVars
<1>27. ASSUME NEW r \in Requests, Promote(r)
       PROVE  AlertInv'
  BY <1>0, <1>27 DEF Promote, Goto, AlertInv, Row, Never, Times, historyVars
<1>28. ASSUME NEW r \in Requests, BroadcastFails(r)
       PROVE  AlertInv'
  BY <1>0, <1>28 DEF BroadcastFails, Goto, Released, AlertInv, Row, Never, Times, historyVars
<1>29. ASSUME NEW r \in Requests, AnswerLost(r)
       PROVE  AlertInv'
  BY <1>0, <1>29 DEF AnswerLost, Goto, Released, AlertInv, Row, Never, Times, historyVars
<1>30. ASSUME NEW r \in Requests, Disconnect(r)
       PROVE  AlertInv'
  BY <1>0, <1>30 DEF Disconnect, Goto, AlertInv, Row, Never, Times, historyVars
<1>31. CASE Crash
  BY <1>0, <1>31 DEF Crash, NoCall, AlertInv, Row, Never, Times, historyVars
<1>32. CASE UNCHANGED vars
  BY <1>0, <1>32 DEF vars, AlertInv, Row, Never, Times, historyVars
<1>. QED
  BY <1>1, <1>2, <1>3, <1>4, <1>5, <1>6, <1>7, <1>8, <1>9, <1>10, <1>11, <1>12, <1>13, <1>14,
     <1>15, <1>16, <1>17, <1>18, <1>19, <1>20, <1>21, <1>22, <1>23, <1>24, <1>25, <1>26, <1>27,
     <1>28, <1>29, <1>30, <1>31, <1>32 DEF Next, Owner, Scheduler, Heir

(* Where nothing fails or overlaps, a claim passes the challenge only a whole window after  *)
(* the owner was alerted of it (ensure_claim_challenge), however many links and requests    *)
(* are used at once.                                                                        *)
THEOREM ClaimsAreAnnounced ==
  ASSUME Undisturbed
  PROVE  Spec => []ChallengeAlertsOwner
<1>1. AlertInv => ChallengeAlertsOwner
  BY DEF AlertInv, ChallengeAlertsOwner
<1>2. Init => AlertInv
  BY DEF Init, AlertInv, NoCall
<1>3. Init => (Serial => Alone)
  BY SerialInit DEF SerialInv
<1>4. TypeInv /\ (Serial => Alone) /\ [Next]_vars => (Serial => Alone)'
  BY AloneStep
<1>. QED
  BY TypeInit, TypeStep, AlertStep, <1>1, <1>2, <1>3, <1>4, PTL DEF Spec
=============================================================================
