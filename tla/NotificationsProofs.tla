-------------------------- MODULE NotificationsProofs --------------------------
(* Theorems about Notifications, for every number of rows, attempts, reports, *)
(* handlers and faults: the types, the order of the verdicts, and that the    *)
(* heir is not taken for reachable without a delivery.                        *)
EXTENDS Notifications, TLAPS

Arrived(m) == fate[m] \in {"delivered", "complained"}

\* A row that is not there yet is blank, and one that may be sent has an attempt left.
RowsOK ==
    \A n \in Notes : /\ note[n].status = "none" => note[n] = NoNote
                     /\ note[n].status \in {"pending", "sending"} => note[n].attempts < MaxAttempts

\* No row is due twice, so that the others stay pending when one is taken up.
DueOK == \A i, j \in 1 .. Len(due) : due[i] = due[j] => i = j

\* The hand-off that is to come has no fate yet.
FreshOK ==
    /\ at = {} => ~taken
    /\ \A m \in Messages : fate[m] # "none" =>
         /\ note[m[1]].status # "none"
         /\ note[m[1]].status = "pending" \/ (m[1] \in at /\ ~taken) => m[2] =< note[m[1]].attempts
         /\ m[1] \in at => m[2] =< note[m[1]].attempts + 1

\* What the providers report is so, and a handler writes only what is beyond what it read.
CallsOK == \A c \in calls : c[2] = "delivered" => Arrived(c[1])

HandsOK ==
    \A h \in Handlers : hand[h].stage # "idle" =>
      /\ hand[h].row \subseteq {hand[h].call[1][1]}
      /\ hand[h].call[2] = "delivered" => Arrived(hand[h].call[1])
      /\ hand[h].stage = "write" => Advances(hand[h].call[2], hand[h].prev)

\* A row that a handler has found is there.
HeldOK == \A h \in Handlers : \A n \in hand[h].row : note[n].status # "none"

Inv ==
    /\ TypeOK /\ RowsOK /\ DueOK /\ FreshOK /\ CallsOK /\ HandsOK /\ HeldOK
    /\ ConfirmedIsDelivered

-----------------------------------------------------------------------------
LEMMA Constants ==
  /\ N \in Nat /\ N >= 1 /\ MaxAttempts \in Nat /\ MaxAttempts >= 1 /\ Batch \in Nat /\ Batch >= 1
  /\ MaxFaults \in Nat /\ 1 \in Notes /\ Notes \subseteq Nat
  /\ <<1, 1>> \in Messages /\ NoNote \in Note /\ NoHand \in Hand
<1>1. /\ N \in Nat /\ N >= 1 /\ MaxAttempts \in Nat /\ MaxAttempts >= 1 /\ Batch \in Nat /\ Batch >= 1
      /\ MaxFaults \in Nat /\ 1 \in Notes /\ Notes \subseteq Nat
  BY NAssumption, AttemptsAssumption, BoundsAssumption DEF Notes
<1>2. <<1, 1>> \in Messages
  BY <1>1 DEF Messages
<1>3. NoNote \in Note
  BY <1>1 DEF NoNote, Note, Fates
<1>4. NoHand \in Hand
  BY <1>2 DEF NoHand, Hand, Calls, Statuses, Fates
<1>. QED
  BY <1>1, <1>2, <1>3, <1>4

\* A fault is counted, or there was none.
LEMMA FaultsType ==
  ASSUME TypeOK, Fault \/ UNCHANGED faults
  PROVE  faults' \in 0 .. MaxFaults
  BY Constants DEF TypeOK, Fault

\* What arrived has arrived.
LEMMA FaresOn ==
  ASSUME Inv, NEW m \in Messages, NEW s \in Statuses, Fare(m, s)
  PROVE  Inv'
<1>1. /\ fate' = [fate EXCEPT ![m] = s] /\ calls' = calls \cup {<<m, s>>}
      /\ UNCHANGED <<note, due, batch, at, taken, seen, hand, verified, alerted, faults>>
      /\ fate[m] # "none" /\ s # "none" /\ (Arrived(m) => s = "complained")
      /\ fate \in [Messages -> Fates] /\ s \in Fates
  BY DEF Fare, queueVars, workVars, heirVars, Arrived, Inv, TypeOK, Fates, Statuses
<1>2. fate' \in [Messages -> Fates] /\ \A k \in Messages : Arrived(k) => Arrived(k)'
  BY <1>1 DEF Arrived
<1>3. s = "delivered" => Arrived(m)'
  BY <1>1 DEF Arrived
<1>4. calls' \subseteq Calls
  BY <1>1 DEF Calls, Inv, TypeOK
<1>5. TypeOK'
  BY <1>1, <1>2, <1>4 DEF Inv, TypeOK
<1>6. RowsOK' /\ DueOK' /\ FreshOK'
  BY <1>1 DEF Inv, RowsOK, DueOK, FreshOK
<1>7. CallsOK'
  BY <1>1, <1>2, <1>3 DEF Inv, TypeOK, Calls, CallsOK
<1>8. HandsOK'
  BY <1>1, <1>2 DEF Inv, TypeOK, HandsOK, Hand, Calls
<1>9. ConfirmedIsDelivered'
  BY <1>1, <1>2 DEF Inv, ConfirmedIsDelivered, Arrived
<1>10. HeldOK'
  BY <1>1 DEF Inv, HeldOK
<1>. QED
  BY <1>5, <1>6, <1>7, <1>8, <1>9, <1>10 DEF Inv

\* A row is appended to those that are due.
LEMMA Appended ==
  ASSUME Inv, NEW n \in Notes, n \notin Range(due), due' = Append(due, n)
  PROVE  /\ due' \in Seq(Notes) /\ Len(due') = Len(due) + 1 /\ Len(due) \in Nat
         /\ Range(due') = Range(due) \cup {n} /\ DueOK'
<1>1. due \in Seq(Notes) /\ Len(due) \in Nat
  BY DEF Inv, TypeOK
<1>2. /\ due' \in Seq(Notes) /\ Len(due') = Len(due) + 1
      /\ \A i \in 1 .. Len(due) : due'[i] = due[i]
      /\ due'[Len(due) + 1] = n
  BY <1>1
<1>3. \A i \in 1 .. Len(due) : due[i] # n
  BY <1>1 DEF Range
<1>4. Range(due') = Range(due) \cup {n}
  BY <1>1, <1>2 DEF Range
<1>5. DueOK'
  BY <1>1, <1>2, <1>3 DEF Inv, DueOK
<1>. QED
  BY <1>1, <1>2, <1>4, <1>5

\* A new row is blank, so nothing that was handed off is its own.
LEMMA InsertedIsOK ==
  ASSUME Inv, NEW n \in Notes, NEW k \in [heir : BOOLEAN, mail : BOOLEAN], Inserted(n, k)
  PROVE  /\ note' \in [Notes -> Note] /\ due' \in Seq(Notes) /\ Len(due') = Len(due) + 1
         /\ Len(due) \in Nat
         /\ \A i \in Range(due') : note'[i].status = "pending"
         /\ \A i \in at : note'[i].status = "sending"
         /\ RowsOK' /\ DueOK'
         /\ \A m \in Messages : fate[m] # "none" => note'[m[1]] = note[m[1]]
         /\ \A i \in Notes : note'[i] = note[i] \/ note[i] = NoNote
         /\ \A i \in Notes : note'[i].verdict = note[i].verdict
<1> DEFINE r == [NoNote EXCEPT !.status = "pending", !.heir = k.heir, !.mail = k.mail]
<1>1. note' = [note EXCEPT ![n] = r] /\ due' = Append(due, n) /\ note[n].status = "none"
  BY DEF Inserted, Vacant
<1>2. r \in Note /\ r.status = "pending" /\ r.attempts = 0 /\ r.verdict = "none"
  BY Constants DEF Note, NoNote
<1>3. note \in [Notes -> Note] /\ note[n] = NoNote /\ NoNote.verdict = "none"
  BY <1>1 DEF Inv, TypeOK, RowsOK, NoNote
<1>4. n \notin Range(due)
  BY <1>1 DEF Inv, TypeOK
<1>5. /\ due' \in Seq(Notes) /\ Len(due') = Len(due) + 1 /\ Len(due) \in Nat
      /\ Range(due') = Range(due) \cup {n} /\ DueOK'
  BY <1>1, <1>4, Appended
<1> HIDE DEF r
<1>6. note' \in [Notes -> Note] /\ note'[n] = r /\ \A i \in Notes : i # n => note'[i] = note[i]
  BY <1>1, <1>2, <1>3
<1>7. Range(due) \subseteq Notes
  BY DEF Range, Inv, TypeOK
<1>8. \A i \in Range(due') : note'[i].status = "pending"
  BY <1>2, <1>5, <1>6, <1>7 DEF Inv, TypeOK
<1>9. n \notin at /\ at \subseteq Notes
  BY <1>1 DEF Inv, TypeOK
<1>10. \A i \in at : note'[i].status = "sending"
  BY <1>6, <1>9 DEF Inv, TypeOK
<1>11. RowsOK'
  BY <1>2, <1>6, Constants DEF Inv, RowsOK
<1>12. \A m \in Messages : fate[m] # "none" => note'[m[1]] = note[m[1]]
  <2>. SUFFICES ASSUME NEW m \in Messages, fate[m] # "none" PROVE note'[m[1]] = note[m[1]]
    OBVIOUS
  <2>1. m[1] \in Notes /\ m[1] # n
    BY <1>1 DEF Inv, FreshOK, Messages
  <2>. QED
    BY <1>6, <2>1
<1>. QED
  BY <1>2, <1>3, <1>5, <1>6, <1>8, <1>10, <1>11, <1>12

\* What a new row leaves as it is.
LEMMA FreshWithNew ==
  ASSUME Inv, at' = at, taken' = taken, fate' = fate,
         \A m \in Messages : fate[m] # "none" => note'[m[1]] = note[m[1]]
  PROVE  FreshOK' /\ (ConfirmedIsDelivered' \/ verified' # verified)
<1>1. FreshOK'
  BY DEF Inv, FreshOK
<1>2. ASSUME verified' = verified
      PROVE  ConfirmedIsDelivered'
  <2>. SUFFICES ASSUME verified PROVE \E m \in Messages : note'[m[1]].heir /\ fate'[m] \in {"delivered", "complained"}
    BY <1>2 DEF ConfirmedIsDelivered
  <2>1. PICK m \in Messages : note[m[1]].heir /\ fate[m] \in {"delivered", "complained"}
    BY DEF Inv, ConfirmedIsDelivered
  <2>. QED
    BY <2>1
<1>. QED
  BY <1>1, <1>2

\* No row goes away.
LEMMA HeldOn ==
  ASSUME Inv, hand' = hand, \A i \in Notes : note[i].status # "none" => note'[i].status # "none"
  PROVE  HeldOK'
<1>1. \A h \in Handlers : hand[h].row \subseteq Notes
  BY DEF Inv, TypeOK, Hand
<1>. QED
  BY <1>1 DEF Inv, HeldOK

LEMMA TableActions ==
  ASSUME Inv, \/ \E n \in Notes, k \in Kinds : Enqueue(n, k)
              \/ \E n \in Notes : Ripens(n)
              \/ ChangeAddress \/ Round
  PROVE  Inv' /\ \A i \in Notes : note'[i].verdict = note[i].verdict
<1>1. ASSUME NEW n \in Notes, NEW k \in Kinds, Enqueue(n, k)
      PROVE  Inv' /\ \A i \in Notes : note'[i].verdict = note[i].verdict
  <2>1. Inserted(n, k) /\ UNCHANGED <<batch, at, taken, fate, calls, seen, hand, verified, alerted, faults>>
    BY <1>1 DEF Enqueue, workVars, providerVars, heirVars
  <2>2. k \in [heir : BOOLEAN, mail : BOOLEAN]
    BY KindsAssumption
  <2>3. TypeOK' /\ RowsOK' /\ DueOK' /\ \A i \in Notes : note'[i].verdict = note[i].verdict
    BY <2>1, <2>2, InsertedIsOK DEF Inv, TypeOK
  <2>4. FreshOK' /\ ConfirmedIsDelivered'
    BY <2>1, <2>2, InsertedIsOK, FreshWithNew
  <2>5. CallsOK' /\ HandsOK'
    BY <2>1 DEF Inv, CallsOK, HandsOK, Arrived
  <2>6. \A i \in Notes : note'[i] = note[i] \/ note[i] = NoNote
    BY <2>1, <2>2, InsertedIsOK
  <2>7. HeldOK'
    BY <2>1, <2>6, HeldOn DEF NoNote
  <2>. QED
    BY <2>3, <2>4, <2>5, <2>7 DEF Inv
<1>2. ASSUME NEW n \in Notes, Ripens(n)
      PROVE  Inv' /\ \A i \in Notes : note'[i].verdict = note[i].verdict
  <2>1. /\ note[n].status = "pending" /\ n \notin Range(due) /\ due' = Append(due, n)
        /\ UNCHANGED <<note, batch, at, taken, fate, calls, seen, hand, verified, alerted, faults>>
    BY <1>2 DEF Ripens, workVars, providerVars, heirVars
  <2>2. TypeOK' /\ DueOK'
    BY <2>1, Appended DEF Inv, TypeOK
  <2>3. RowsOK' /\ FreshOK' /\ CallsOK' /\ HandsOK' /\ HeldOK' /\ ConfirmedIsDelivered'
    BY <2>1 DEF Inv, RowsOK, FreshOK, CallsOK, HandsOK, HeldOK, ConfirmedIsDelivered, Arrived
  <2>. QED
    BY <2>1, <2>2, <2>3 DEF Inv
<1>3. CASE ChangeAddress
  BY <1>3 DEF ChangeAddress, Inv, TypeOK, RowsOK, DueOK, FreshOK, CallsOK, HandsOK, HeldOK,
              ConfirmedIsDelivered, Arrived, queueVars, workVars, providerVars
<1>4. CASE Round
  <2>1. /\ due \in Seq(Notes) /\ Len(due) \in Nat /\ batch' \in 0 .. Len(due)
        /\ UNCHANGED <<note, due, at, taken, fate, calls, seen, hand, verified, alerted, faults>>
    BY <1>4, Constants DEF Round, queueVars, providerVars, heirVars, Inv, TypeOK
  <2>. QED
    BY <2>1 DEF Inv, TypeOK, RowsOK, DueOK, FreshOK, CallsOK, HandsOK, HeldOK,
                     ConfirmedIsDelivered, Arrived
<1>. QED
  BY <1>1, <1>2, <1>3, <1>4

\* The row that is taken up is the only one of the due rows that is no longer pending.
LEMMA TakeUpIsOK ==
  ASSUME Inv, TakeUp
  PROVE  Inv' /\ \A i \in Notes : note'[i].verdict = note[i].verdict
<1> DEFINE b == Head(due)
<1>1. /\ batch # 0 /\ at = {} /\ batch' = batch - 1 /\ at' = {b} /\ due' = Tail(due)
      /\ note' = [note EXCEPT ![b].status = "sending"]
      /\ UNCHANGED <<taken, fate, calls, seen, hand, verified, alerted, faults>>
  BY DEF TakeUp, providerVars, heirVars
<1>2. due \in Seq(Notes) /\ Len(due) \in Nat /\ batch \in 0 .. Len(due)
  BY DEF Inv, TypeOK
<1>3. due # <<>> /\ b = due[1] /\ b \in Notes
  <2>1. 1 \in 1 .. Len(due)
    BY <1>1, <1>2
  <2>2. due[1] \in Notes
    BY <1>2, <2>1
  <2>3. due # <<>> /\ Head(due) = due[1]
    BY <1>2, <2>1
  <2>. QED
    BY <2>2, <2>3
<1>4. /\ due' \in Seq(Notes) /\ Len(due') = Len(due) - 1
      /\ \A i \in 1 .. Len(due') : due'[i] = due[i + 1]
  BY <1>1, <1>2, <1>3
<1>5. batch' \in 0 .. Len(due')
  BY <1>1, <1>2, <1>4
<1>6. \A i \in 1 .. Len(due) : note[due[i]].status = "pending"
  BY DEF Inv, TypeOK, Range
<1>7. note[b].status = "pending"
  BY <1>2, <1>3, <1>6
<1> HIDE DEF b
<1>8. /\ note' \in [Notes -> Note] /\ note'[b] = [note[b] EXCEPT !.status = "sending"]
      /\ note'[b].status = "sending" /\ note'[b].attempts = note[b].attempts
      /\ note'[b].heir = note[b].heir /\ note'[b].verdict = note[b].verdict
      /\ \A i \in Notes : i # b => note'[i] = note[i]
  <2>1. note \in [Notes -> Note] /\ note[b] \in Note
    BY <1>3 DEF Inv, TypeOK
  <2>2. [note[b] EXCEPT !.status = "sending"] \in Note
    BY <2>1 DEF Note
  <2>3. /\ note'[b] = [note[b] EXCEPT !.status = "sending"]
        /\ \A i \in Notes : i # b => note'[i] = note[i]
    BY <1>1, <1>3, <2>1
  <2>4. note' \in [Notes -> Note]
    BY <1>1, <1>3, <2>1, <2>2
  <2>. QED
    BY <2>1, <2>3, <2>4 DEF Note
<1>9. \A i \in 1 .. Len(due') : note'[due'[i]].status = "pending"
  <2>. SUFFICES ASSUME NEW i \in 1 .. Len(due') PROVE note'[due'[i]].status = "pending"
    OBVIOUS
  <2>1. i + 1 \in 1 .. Len(due) /\ 1 \in 1 .. Len(due) /\ i + 1 # 1 /\ due'[i] = due[i + 1]
    BY <1>2, <1>4
  <2>2. due[i + 1] # b /\ due[i + 1] \in Notes
    BY <2>1, <1>2, <1>3 DEF Inv, DueOK
  <2>. QED
    BY <2>1, <2>2, <1>6, <1>8
<1>10. TypeOK'
  <2>1. \A i \in Range(due') : note'[i].status = "pending"
    BY <1>9, <1>4 DEF Range
  <2>. QED
    BY <1>1, <1>3, <1>4, <1>5, <1>8, <2>1 DEF Inv, TypeOK
<1>11. RowsOK'
  BY <1>7, <1>8 DEF Inv, RowsOK
<1>12. DueOK'
  <2>. SUFFICES ASSUME NEW i \in 1 .. Len(due'), NEW j \in 1 .. Len(due'), due'[i] = due'[j]
                PROVE  i = j
    BY DEF DueOK
  <2>1. /\ i + 1 \in 1 .. Len(due) /\ j + 1 \in 1 .. Len(due)
        /\ due[i + 1] = due[j + 1]
    BY <1>2, <1>4
  <2>2. i + 1 = j + 1
    BY <2>1 DEF Inv, DueOK
  <2>. QED
    BY <2>2
<1>13. FreshOK'
  <2>. SUFFICES ASSUME NEW m \in Messages, fate[m] # "none"
                PROVE  /\ note'[m[1]].status # "none"
                       /\ note'[m[1]].status = "pending" \/ (m[1] \in at' /\ ~taken')
                            => m[2] =< note'[m[1]].attempts
                       /\ m[1] \in at' => m[2] =< note'[m[1]].attempts + 1
    BY <1>1 DEF FreshOK
  <2>1. /\ m[1] \in Notes /\ m[2] \in Nat /\ note[m[1]].status # "none"
        /\ note[m[1]].status = "pending" => m[2] =< note[m[1]].attempts
    BY DEF Inv, FreshOK, Messages
  <2>2. note[b].attempts \in Nat
    BY <1>3 DEF Inv, TypeOK, Note
  <2>3. CASE m[1] = b
    BY <2>1, <2>2, <2>3, <1>7, <1>8
  <2>4. CASE m[1] # b
    BY <2>1, <2>4, <1>1, <1>8
  <2>. QED
    BY <2>3, <2>4
<1>14. CallsOK' /\ HandsOK'
  BY <1>1 DEF Inv, CallsOK, HandsOK, Arrived
<1>15. \A i \in Notes : note'[i].heir = note[i].heir /\ note'[i].verdict = note[i].verdict
  BY <1>8
<1>16. ConfirmedIsDelivered'
  BY <1>1, <1>15 DEF Inv, ConfirmedIsDelivered, Messages
<1>17. HeldOK'
  BY <1>1, <1>8, HeldOn
<1>. QED
  BY <1>10, <1>11, <1>12, <1>13, <1>14, <1>15, <1>16, <1>17 DEF Inv

\* The end of a send: a row that is pending again has used up the attempt.
LEMMA Settled ==
  ASSUME Inv, NEW n \in at, NEW r \in Note, Settles(n, r), Fault \/ UNCHANGED faults,
         r.heir = note[n].heir, r.verdict = note[n].verdict,
         r.status \in {"pending", "sent", "failed"},
         r.status = "pending" => r.attempts = note[n].attempts + 1 /\ r.attempts < MaxAttempts
  PROVE  Inv' /\ \A i \in Notes : note'[i].verdict = note[i].verdict
<1>1. /\ note' = [note EXCEPT ![n] = r] /\ at' = {} /\ taken' = FALSE
      /\ UNCHANGED <<due, batch, fate, calls, seen, hand, verified, alerted>>
  BY DEF Settles, providerVars, heirVars
<1>2. n \in Notes /\ note[n].status = "sending" /\ note \in [Notes -> Note]
  BY DEF Inv, TypeOK
<1>3. /\ note' \in [Notes -> Note] /\ note'[n] = r
      /\ \A i \in Notes : i # n => note'[i] = note[i]
  BY <1>1, <1>2
<1>4. Range(due) \subseteq Notes /\ n \notin Range(due)
  BY <1>2 DEF Range, Inv, TypeOK
<1>5. TypeOK'
  <2>1. \A i \in Range(due') : note'[i].status = "pending"
    BY <1>1, <1>3, <1>4 DEF Inv, TypeOK
  <2>. QED
    BY <1>1, <1>3, <2>1, FaultsType DEF Inv, TypeOK
<1>6. RowsOK'
  BY <1>3 DEF Inv, RowsOK
<1>7. DueOK' /\ CallsOK' /\ HandsOK'
  BY <1>1 DEF Inv, DueOK, CallsOK, HandsOK, Arrived
<1>8. FreshOK'
  <2>. SUFFICES ASSUME NEW m \in Messages, fate[m] # "none"
                PROVE  /\ note'[m[1]].status # "none"
                       /\ note'[m[1]].status = "pending" => m[2] =< note'[m[1]].attempts
    BY <1>1 DEF FreshOK
  <2>1. /\ m[1] \in Notes /\ note[m[1]].status # "none"
        /\ note[m[1]].status = "pending" => m[2] =< note[m[1]].attempts
        /\ m[1] \in at => m[2] =< note[m[1]].attempts + 1
    BY DEF Inv, FreshOK, Messages
  <2>2. CASE m[1] = n
    BY <2>1, <2>2, <1>3
  <2>3. CASE m[1] # n
    BY <2>1, <2>3, <1>3
  <2>. QED
    BY <2>2, <2>3
<1>9. \A i \in Notes : note'[i].heir = note[i].heir /\ note'[i].verdict = note[i].verdict
  BY <1>3
<1>10. ConfirmedIsDelivered'
  BY <1>1, <1>9 DEF Inv, ConfirmedIsDelivered, Messages
<1>11. HeldOK'
  BY <1>1, <1>3, HeldOn
<1>. QED
  BY <1>5, <1>6, <1>7, <1>8, <1>9, <1>10, <1>11 DEF Inv

\* The rows that a failure, for good or for now, and a success make of the row that is sent.
LEMMA Outcomes ==
  ASSUME Inv, NEW n \in at
  PROVE  /\ Failed(note[n]) \in Note /\ Failed(note[n]).status = "failed"
         /\ Failed(note[n]).heir = note[n].heir /\ Failed(note[n]).verdict = note[n].verdict
         /\ Rescheduled(note[n]) \in Note /\ Rescheduled(note[n]).status \in {"pending", "failed"}
         /\ Rescheduled(note[n]).heir = note[n].heir
         /\ Rescheduled(note[n]).verdict = note[n].verdict
         /\ Rescheduled(note[n]).status = "pending"
              => /\ Rescheduled(note[n]).attempts = note[n].attempts + 1
                 /\ Rescheduled(note[n]).attempts < MaxAttempts
<1>1. n \in Notes /\ note[n] \in Note /\ note[n].attempts < MaxAttempts /\ note[n].attempts \in Nat
  BY DEF Inv, TypeOK, RowsOK, Note
<1>2. note[n].attempts + 1 \in 0 .. MaxAttempts
  BY <1>1, Constants
<1>3. /\ Failed(note[n]) \in Note /\ Failed(note[n]).status = "failed"
      /\ Failed(note[n]).heir = note[n].heir /\ Failed(note[n]).verdict = note[n].verdict
  BY <1>1, <1>2 DEF Failed, Note
<1>4. CASE note[n].attempts + 1 >= MaxAttempts
  BY <1>3, <1>4 DEF Rescheduled
<1>5. CASE ~(note[n].attempts + 1 >= MaxAttempts)
  <2>1. Rescheduled(note[n]) = [note[n] EXCEPT !.status = "pending", !.attempts = @ + 1]
    BY <1>5 DEF Rescheduled
  <2>2. note[n].attempts + 1 < MaxAttempts
    BY <1>1, <1>5, Constants
  <2>3. /\ Rescheduled(note[n]) \in Note /\ Rescheduled(note[n]).status = "pending"
        /\ Rescheduled(note[n]).attempts = note[n].attempts + 1
        /\ Rescheduled(note[n]).heir = note[n].heir
        /\ Rescheduled(note[n]).verdict = note[n].verdict
    BY <1>1, <1>2, <2>1 DEF Note
  <2>. QED
    BY <1>3, <2>2, <2>3
<1>. QED
  BY <1>3, <1>4, <1>5

LEMMA SendingIsOK ==
  ASSUME Inv, Sending \/ RoundFails
  PROVE  Inv' /\ \A i \in Notes : note'[i].verdict = note[i].verdict
<1>1. ASSUME NEW n \in Notes, Refused(n) \/ Errs(n) \/ AnswerLost(n)
      PROVE  Inv' /\ \A i \in Notes : note'[i].verdict = note[i].verdict
  BY <1>1, Outcomes, Settled DEF Refused, Errs, AnswerLost
<1>2. ASSUME NEW n \in Notes, Sent(n)
      PROVE  Inv' /\ \A i \in Notes : note'[i].verdict = note[i].verdict
  <2> DEFINE r == [note[n] EXCEPT !.status = "sent", !.attempts = @ + 1, !.id = note[n].attempts + 1]
  <2>1. n \in at /\ Settles(n, r) /\ UNCHANGED faults
    BY <1>2 DEF Sent
  <2>2. note[n] \in Note /\ note[n].attempts < MaxAttempts /\ note[n].attempts \in Nat
    BY <2>1 DEF Inv, TypeOK, RowsOK, Note
  <2>3. note[n].attempts + 1 \in 0 .. MaxAttempts
    BY <2>2, Constants
  <2>4. r \in Note /\ r.status = "sent" /\ r.heir = note[n].heir /\ r.verdict = note[n].verdict
    BY <2>2, <2>3 DEF Note
  <2> HIDE DEF r
  <2>. QED
    BY <2>1, <2>4, Settled
<1>3. ASSUME NEW n \in Notes, HandOff(n)
      PROVE  Inv' /\ \A i \in Notes : note'[i].verdict = note[i].verdict
  <2> DEFINE k == <<n, note[n].attempts + 1>>
  <2>1. /\ n \in at /\ ~taken /\ taken' = TRUE /\ fate' = [fate EXCEPT ![k] = "sent"]
        /\ UNCHANGED <<note, due, batch, at, calls, seen, hand, verified, alerted, faults>>
    BY <1>3 DEF HandOff, queueVars, heirVars
  <2>2. /\ note[n] \in Note /\ note[n].attempts < MaxAttempts /\ note[n].attempts \in Nat
        /\ note[n].status = "sending"
    BY <2>1 DEF Inv, TypeOK, RowsOK, Note
  <2>3. k \in Messages /\ k[1] = n /\ k[2] = note[n].attempts + 1
    BY <2>2, Constants DEF Messages
  <2>4. fate[k] = "none"
    BY <2>1, <2>2, <2>3 DEF Inv, FreshOK
  <2> HIDE DEF k
  <2>5. /\ fate' \in [Messages -> Fates] /\ \A m \in Messages : m # k => fate'[m] = fate[m]
        /\ fate'[k] = "sent" /\ fate \in [Messages -> Fates]
    BY <2>1, <2>3 DEF Inv, TypeOK, Fates, Statuses
  <2>6. \A m \in Messages : Arrived(m)' <=> Arrived(m)
    BY <2>4, <2>5 DEF Arrived
  <2>7. TypeOK' /\ RowsOK' /\ DueOK'
    BY <2>1, <2>5 DEF Inv, TypeOK, RowsOK, DueOK
  <2>8. FreshOK'
    <3>. SUFFICES ASSUME NEW m \in Messages, fate'[m] # "none"
                  PROVE  /\ note[m[1]].status # "none"
                         /\ note[m[1]].status = "pending" => m[2] =< note[m[1]].attempts
                         /\ m[1] \in at => m[2] =< note[m[1]].attempts + 1
      BY <2>1 DEF FreshOK
    <3>1. CASE m = k
      BY <2>2, <2>3, <3>1
    <3>2. CASE m # k
      BY <2>5, <3>2 DEF Inv, FreshOK
    <3>. QED
      BY <3>1, <3>2
  <2>9. CallsOK'
    BY <2>1, <2>6 DEF Inv, TypeOK, Calls, CallsOK
  <2>10. HandsOK'
    BY <2>1, <2>6 DEF Inv, TypeOK, HandsOK, Hand, Calls
  <2>11. ConfirmedIsDelivered'
    BY <2>1, <2>6 DEF Inv, ConfirmedIsDelivered, Arrived
  <2>12. HeldOK'
    BY <2>1 DEF Inv, HeldOK
  <2>. QED
    BY <2>1, <2>7, <2>8, <2>9, <2>10, <2>11, <2>12 DEF Inv
<1>4. CASE RoundFails
  <2>1. /\ batch' = 0 /\ at' = {} /\ taken' = FALSE /\ Fault
        /\ UNCHANGED <<note, due, fate, calls, seen, hand, verified, alerted>>
    BY <1>4 DEF RoundFails, queueVars, providerVars, heirVars
  <2>2. faults' \in 0 .. MaxFaults /\ batch' \in 0 .. Len(due)
    BY <2>1, FaultsType DEF Inv, TypeOK
  <2>3. TypeOK'
    BY <2>1, <2>2 DEF Inv, TypeOK
  <2>. QED
    BY <2>1, <2>3 DEF Inv, RowsOK, DueOK, FreshOK, CallsOK, HandsOK, HeldOK, ConfirmedIsDelivered,
                      Arrived
<1>. QED
  BY <1>1, <1>2, <1>3, <1>4 DEF Sending

-----------------------------------------------------------------------------
\* A handler ends, or goes on to its next statement.
LEMMA HandMoves ==
  ASSUME Inv, NEW h \in Handlers, fate' = fate, note' = note,
         \/ Ends(h)
         \/ /\ hand[h].stage # "idle"
            /\ \E s \in {"vault", "clear", "tell"} : Beyond(h, s)
         \/ /\ hand[h].stage # "idle" /\ Advances(hand[h].call[2], hand[h].prev)
            /\ Beyond(h, "write")
  PROVE  hand' \in [Handlers -> Hand] /\ HandsOK' /\ HeldOK'
<1>1. hand \in [Handlers -> Hand] /\ hand[h] \in Hand
  BY DEF Inv, TypeOK
<1>2. ASSUME Ends(h)
      PROVE  hand' \in [Handlers -> Hand] /\ HandsOK' /\ HeldOK'
  <2>1. /\ hand' \in [Handlers -> Hand] /\ hand'[h] = NoHand
        /\ \A g \in Handlers : g # h => hand'[g] = hand[g]
    BY <1>1, <1>2, Constants DEF Ends
  <2>2. NoHand.stage = "idle" /\ NoHand.row = {}
    BY DEF NoHand
  <2>3. HandsOK'
    BY <2>1, <2>2 DEF Inv, HandsOK, Arrived
  <2>4. HeldOK'
    BY <2>1, <2>2 DEF Inv, HeldOK
  <2>. QED
    BY <2>1, <2>3, <2>4
<1>3. ASSUME NEW s \in {"write", "vault", "clear", "tell"}, Beyond(h, s), hand[h].stage # "idle",
             s = "write" => Advances(hand[h].call[2], hand[h].prev)
      PROVE  hand' \in [Handlers -> Hand] /\ HandsOK' /\ HeldOK'
  <2>1. /\ hand' \in [Handlers -> Hand] /\ hand'[h].stage = s
        /\ hand'[h].call = hand[h].call /\ hand'[h].row = hand[h].row
        /\ hand'[h].prev = hand[h].prev
        /\ \A g \in Handlers : g # h => hand'[g] = hand[g]
    BY <1>1, <1>3 DEF Beyond, Hand
  <2>2. HandsOK'
    <3>. SUFFICES ASSUME NEW g \in Handlers, hand'[g].stage # "idle"
                  PROVE  /\ hand'[g].row \subseteq {hand'[g].call[1][1]}
                         /\ hand'[g].call[2] = "delivered" => Arrived(hand'[g].call[1])
                         /\ hand'[g].stage = "write" => Advances(hand'[g].call[2], hand'[g].prev)
      BY DEF HandsOK, Arrived, Advances
    <3>1. CASE g = h
      BY <3>1, <2>1, <1>3 DEF Inv, HandsOK
    <3>2. CASE g # h
      BY <3>2, <2>1 DEF Inv, HandsOK
    <3>. QED
      BY <3>1, <3>2
  <2>3. HeldOK'
    BY <2>1 DEF Inv, HeldOK
  <2>. QED
    BY <2>1, <2>2, <2>3
<1>. QED
  BY <1>2, <1>3

\* A call that is answered goes away, or comes again.
LEMMA AnsweredIsOK ==
  ASSUME Inv, NEW h \in Handlers, Answered(h), fate' = fate
  PROVE  calls' \subseteq Calls /\ CallsOK' /\ faults' \in 0 .. MaxFaults /\ Ends(h)
<1>1. Ends(h) /\ calls' \subseteq calls /\ (Fault \/ UNCHANGED faults)
  BY DEF Answered
<1>. QED
  BY <1>1, FaultsType DEF Inv, TypeOK, CallsOK, Arrived

LEMMA ReadIsOK ==
  ASSUME Inv, NEW h \in Handlers, NEW c \in calls, Read(h, c)
  PROVE  Inv' /\ note' = note
<1> DEFINE row == {n \in {c[1][1]} : Carries(note[n], c[1])}
           prev == IF row = {} THEN "none" ELSE note[c[1][1]].verdict
           w == [stage |-> "claim", call |-> c, row |-> row, prev |-> prev]
<1>1. /\ hand' = [hand EXCEPT ![h] = w] /\ (Fault \/ UNCHANGED faults)
      /\ UNCHANGED <<note, due, batch, at, taken, fate, calls, seen, verified, alerted>>
  BY DEF Read, queueVars, workVars, providerVars, heirVars
<1>2. c \in Calls /\ c[1] \in Messages /\ c[1][1] \in Notes
  BY DEF Inv, TypeOK, Calls, Messages
<1>3. row \subseteq {c[1][1]} /\ row \subseteq Notes /\ \A n \in row : note[n].status = "sent"
  BY <1>2 DEF Carries
<1> HIDE DEF row
<1>4. note[c[1][1]].verdict \in Fates
  BY <1>2 DEF Inv, TypeOK, Note
<1>5. prev \in Fates
  BY <1>4 DEF Fates
<1> HIDE DEF prev
<1>6. w \in Hand /\ w.stage = "claim" /\ w.call = c /\ w.row = row
  BY <1>2, <1>3, <1>5 DEF Hand
<1> HIDE DEF w
<1>7. /\ hand' \in [Handlers -> Hand] /\ hand'[h] = w
      /\ \A g \in Handlers : g # h => hand'[g] = hand[g]
  BY <1>1, <1>6 DEF Inv, TypeOK
<1>8. TypeOK'
  <2>1. faults' \in 0 .. MaxFaults
    BY <1>1, FaultsType DEF Inv
  <2>. QED
    BY <1>1, <1>7, <2>1 DEF Inv, TypeOK
<1>9. HandsOK'
  <2>. SUFFICES ASSUME NEW g \in Handlers, hand'[g].stage # "idle"
                PROVE  /\ hand'[g].row \subseteq {hand'[g].call[1][1]}
                       /\ hand'[g].call[2] = "delivered" => Arrived(hand'[g].call[1])
                       /\ hand'[g].stage = "write" => Advances(hand'[g].call[2], hand'[g].prev)
    BY <1>1 DEF HandsOK, Arrived, Advances
  <2>1. CASE g = h
    BY <2>1, <1>3, <1>6, <1>7 DEF Inv, CallsOK
  <2>2. CASE g # h
    BY <2>2, <1>7 DEF Inv, HandsOK
  <2>. QED
    BY <2>1, <2>2
<1>10. HeldOK'
  <2>. SUFFICES ASSUME NEW g \in Handlers, NEW n \in hand'[g].row PROVE note[n].status # "none"
    BY <1>1 DEF HeldOK
  <2>1. CASE g = h
    BY <2>1, <1>3, <1>6, <1>7
  <2>2. CASE g # h
    BY <2>2, <1>7 DEF Inv, HeldOK
  <2>. QED
    BY <2>1, <2>2
<1>11. RowsOK' /\ DueOK' /\ FreshOK' /\ CallsOK' /\ ConfirmedIsDelivered'
  BY <1>1 DEF Inv, RowsOK, DueOK, FreshOK, CallsOK, ConfirmedIsDelivered, Arrived
<1>. QED
  BY <1>1, <1>8, <1>9, <1>10, <1>11 DEF Inv

LEMMA ClaimIsOK ==
  ASSUME Inv, NEW h \in Handlers, Claim(h)
  PROVE  Inv' /\ note' = note
<1>1. /\ hand[h].stage = "claim" /\ seen' = seen \cup {hand[h].call}
      /\ UNCHANGED <<note, due, batch, at, taken, fate, verified, alerted>>
  BY DEF Claim, queueVars, workVars, heirVars
<1>2. hand[h].call \in Calls
  BY DEF Inv, TypeOK, Hand
<1>3. /\ hand' \in [Handlers -> Hand] /\ HandsOK' /\ HeldOK'
      /\ calls' \subseteq Calls /\ CallsOK' /\ faults' \in 0 .. MaxFaults
  <2>1. CASE Advances(hand[h].call[2], hand[h].prev) /\ Beyond(h, "write") /\ UNCHANGED <<calls, faults>>
    BY <2>1, <1>1, HandMoves DEF Inv, TypeOK, CallsOK, Arrived
  <2>2. CASE Answered(h)
    BY <2>2, <1>1, AnsweredIsOK, HandMoves
  <2>. QED
    BY <2>1, <2>2 DEF Claim
<1>4. TypeOK'
  BY <1>1, <1>2, <1>3 DEF Inv, TypeOK
<1>5. RowsOK' /\ DueOK' /\ FreshOK' /\ ConfirmedIsDelivered'
  BY <1>1 DEF Inv, RowsOK, DueOK, FreshOK, ConfirmedIsDelivered
<1>. QED
  BY <1>1, <1>3, <1>4, <1>5 DEF Inv

\* Of the rows, only the verdict of the one that was found changes; and where it loses rank,
\* another handler has written it since.
LEMMA WriteIsOK ==
  ASSUME Inv, NEW h \in Handlers, Write(h)
  PROVE  /\ Inv'
         /\ \A n \in Notes : RankOf[note'[n].verdict] < RankOf[note[n].verdict]
              => n \in hand[h].row /\ Overtaken(h)
<1> DEFINE s == hand[h].call[2]
<1>1. /\ hand[h].stage = "write" /\ Beyond(h, "vault")
      /\ note' = [n \in Notes |-> IF n \in hand[h].row THEN [note[n] EXCEPT !.verdict = s] ELSE note[n]]
      /\ UNCHANGED <<due, batch, at, taken, fate, calls, seen, verified, alerted, faults>>
  BY DEF Write, workVars, providerVars, heirVars
<1>2. hand[h] \in Hand /\ hand \in [Handlers -> Hand] /\ s \in Fates /\ note \in [Notes -> Note]
  BY DEF Inv, TypeOK, Hand, Calls, Fates
<1> HIDE DEF s
<1>3. /\ note' \in [Notes -> Note]
      /\ \A n \in Notes : /\ note'[n].status = note[n].status /\ note'[n].heir = note[n].heir
                          /\ note'[n].attempts = note[n].attempts
                          /\ n \in hand[h].row => note'[n].verdict = s
                          /\ n \notin hand[h].row => note'[n] = note[n]
  BY <1>1, <1>2 DEF Note
<1>4. /\ hand' \in [Handlers -> Hand]
      /\ hand'[h].stage = "vault" /\ hand'[h].call = hand[h].call /\ hand'[h].row = hand[h].row
      /\ \A g \in Handlers : g # h => hand'[g] = hand[g]
  BY <1>1, <1>2 DEF Beyond, Hand
<1>5. TypeOK'
  <2>1. \A n \in Range(due) : n \in Notes
    BY DEF Range, Inv, TypeOK
  <2>. QED
    BY <1>1, <1>3, <1>4, <2>1 DEF Inv, TypeOK
<1>6. RowsOK'
  BY <1>3 DEF Inv, RowsOK, HeldOK
<1>7. FreshOK'
  BY <1>1, <1>3 DEF Inv, FreshOK, Messages
<1>8. DueOK' /\ CallsOK'
  BY <1>1 DEF Inv, DueOK, CallsOK, Arrived
<1>9. HandsOK'
  <2>. SUFFICES ASSUME NEW g \in Handlers, hand'[g].stage # "idle"
                PROVE  /\ hand'[g].row \subseteq {hand'[g].call[1][1]}
                       /\ hand'[g].call[2] = "delivered" => Arrived(hand'[g].call[1])
                       /\ hand'[g].stage = "write" => Advances(hand'[g].call[2], hand'[g].prev)
    BY <1>1 DEF HandsOK, Arrived, Advances
  <2>1. CASE g = h
    BY <2>1, <1>1, <1>4 DEF Inv, HandsOK
  <2>2. CASE g # h
    BY <2>2, <1>4 DEF Inv, HandsOK
  <2>. QED
    BY <2>1, <2>2
<1>10. HeldOK'
  <2>. SUFFICES ASSUME NEW g \in Handlers, NEW n \in hand'[g].row PROVE note'[n].status # "none"
    BY DEF HeldOK
  <2>1. n \in hand[g].row
    BY <1>4
  <2>2. n \in Notes
    BY <1>4 DEF Hand
  <2>. QED
    BY <2>1, <2>2, <1>3 DEF Inv, HeldOK
<1>11. ConfirmedIsDelivered'
  BY <1>1, <1>3 DEF Inv, ConfirmedIsDelivered, Messages
<1>12. ASSUME NEW n \in Notes, RankOf[note'[n].verdict] < RankOf[note[n].verdict]
       PROVE  n \in hand[h].row /\ Overtaken(h)
  <2>1. \A v \in Fates : RankOf[v] \in Nat
    BY DEF RankOf
  <2>2. note[n].verdict \in Fates
    BY <1>2 DEF Note
  <2>3. n \in hand[h].row
    BY <1>3, <1>12, <2>1, <2>2
  <2>4. RankOf[s] > RankOf[hand[h].prev]
    BY <1>1 DEF Inv, HandsOK, Advances, s
  <2>5. RankOf[s] < RankOf[note[n].verdict]
    BY <1>3, <1>12, <2>3
  <2>6. hand[h].prev \in Fates
    BY <1>2 DEF Hand
  <2>7. note[n].verdict # hand[h].prev
    BY <2>1, <2>2, <2>4, <2>5, <2>6, <1>2
  <2>. QED
    BY <1>1, <2>3, <2>7 DEF Overtaken
<1>. QED
  BY <1>5, <1>6, <1>7, <1>8, <1>9, <1>10, <1>11, <1>12 DEF Inv

\* The heir is confirmed by a message of the heir's that has arrived.
LEMMA VaultIsOK ==
  ASSUME Inv, NEW h \in Handlers, Vault(h)
  PROVE  Inv' /\ note' = note
<1>1. hand[h].stage = "vault" /\ UNCHANGED <<note, due, batch, at, taken, fate, seen>>
  BY DEF Vault, queueVars, workVars
<1>2. /\ verified' = verified \/ (/\ verified' = TRUE /\ hand[h].call[2] = "delivered"
                                  /\ \E n \in hand[h].row : note[n].heir)
      /\ alerted' \in BOOLEAN
  BY DEF Vault, ProvesDelivery, Inv, TypeOK
<1>3. \/ (\E s \in {"tell", "clear"} : Beyond(h, s)) /\ UNCHANGED <<calls, faults>>
      \/ Answered(h)
  BY DEF Vault
<1>4. /\ hand' \in [Handlers -> Hand] /\ HandsOK' /\ HeldOK'
      /\ calls' \subseteq Calls /\ CallsOK' /\ faults' \in 0 .. MaxFaults
  <2>1. CASE (\E s \in {"tell", "clear"} : Beyond(h, s)) /\ UNCHANGED <<calls, faults>>
    BY <2>1, <1>1, HandMoves DEF Inv, TypeOK, CallsOK, Arrived
  <2>2. CASE Answered(h)
    BY <2>2, <1>1, AnsweredIsOK, HandMoves
  <2>. QED
    BY <2>1, <2>2, <1>3
<1>5. TypeOK'
  BY <1>1, <1>2, <1>4 DEF Inv, TypeOK
<1>6. RowsOK' /\ DueOK' /\ FreshOK'
  BY <1>1 DEF Inv, RowsOK, DueOK, FreshOK
<1>7. ConfirmedIsDelivered'
  <2>1. CASE verified' = verified
    BY <2>1, <1>1 DEF Inv, ConfirmedIsDelivered
  <2>2. CASE /\ verified' = TRUE /\ hand[h].call[2] = "delivered"
             /\ \E n \in hand[h].row : note[n].heir
    <3> DEFINE m == hand[h].call[1]
    <3>1. m \in Messages
      BY DEF Inv, TypeOK, Hand, Calls
    <3>2. note[m[1]].heir /\ Arrived(m)
      BY <2>2, <1>1 DEF Inv, HandsOK
    <3> HIDE DEF m
    <3>. QED
      BY <3>1, <3>2, <1>1 DEF ConfirmedIsDelivered, Arrived
  <2>. QED
    BY <1>2, <2>1, <2>2
<1>. QED
  BY <1>1, <1>4, <1>5, <1>6, <1>7 DEF Inv

LEMMA TellIsOK ==
  ASSUME Inv, NEW h \in Handlers, Tell(h)
  PROVE  Inv' /\ \A i \in Notes : note'[i].verdict = note[i].verdict
<1>1. Answered(h) /\ UNCHANGED <<batch, at, taken, fate, seen, verified, alerted>>
  BY DEF Tell, workVars, heirVars
<1>2. /\ calls' \subseteq Calls /\ CallsOK' /\ faults' \in 0 .. MaxFaults
  BY <1>1, AnsweredIsOK
<1>3. hand' = [hand EXCEPT ![h] = NoHand] /\ NoHand.row = {} /\ NoHand.stage = "idle"
  BY <1>1 DEF Answered, Ends, NoHand
<1>4. /\ hand' \in [Handlers -> Hand] /\ hand'[h] = NoHand
      /\ \A g \in Handlers : g # h => hand'[g] = hand[g]
  BY <1>3, Constants DEF Inv, TypeOK
<1>5. HandsOK'
  BY <1>1, <1>3, <1>4 DEF Inv, HandsOK, Arrived
<1>6. ASSUME \A i \in Notes : note[i].status # "none" => note'[i].status # "none"
      PROVE  HeldOK'
  <2>1. \A g \in Handlers : hand[g].row \subseteq Notes
    BY DEF Inv, TypeOK, Hand
  <2>. QED
    BY <1>3, <1>4, <1>6, <2>1 DEF Inv, HeldOK
<1>7. CASE UNCHANGED queueVars
  <2>1. note' = note /\ due' = due
    BY <1>7 DEF queueVars
  <2>2. TypeOK' /\ RowsOK' /\ DueOK' /\ FreshOK' /\ ConfirmedIsDelivered'
    BY <1>1, <1>2, <1>4, <2>1 DEF Inv, TypeOK, RowsOK, DueOK, FreshOK, ConfirmedIsDelivered
  <2>. QED
    BY <1>2, <1>5, <1>6, <2>1, <2>2 DEF Inv
<1>8. ASSUME NEW n \in Notes, Inserted(n, OwnersMail)
      PROVE  Inv' /\ \A i \in Notes : note'[i].verdict = note[i].verdict
  <2>1. OwnersMail \in [heir : BOOLEAN, mail : BOOLEAN]
    BY DEF OwnersMail
  <2>2. /\ TypeOK' /\ RowsOK' /\ DueOK' /\ \A i \in Notes : note'[i].verdict = note[i].verdict
        /\ \A i \in Notes : note'[i] = note[i] \/ note[i] = NoNote
    BY <1>1, <1>2, <1>4, <1>8, <2>1, InsertedIsOK DEF Inv, TypeOK
  <2>3. FreshOK' /\ ConfirmedIsDelivered'
    BY <1>1, <1>8, <2>1, InsertedIsOK, FreshWithNew
  <2>4. HeldOK'
    BY <1>6, <2>2 DEF NoNote
  <2>. QED
    BY <1>2, <1>5, <2>2, <2>3, <2>4 DEF Inv
<1>. QED
  BY <1>7, <1>8 DEF Tell

\* Nothing is lost by a statement that fails or a process that ends but the place in the work.
LEMMA EndsAreOK ==
  ASSUME Inv, Restart \/ \E h \in Handlers : Clear(h) \/ HandlerFails(h)
  PROVE  Inv' /\ note' = note
<1>1. ASSUME NEW h \in Handlers, Clear(h)
      PROVE  Inv' /\ note' = note
  <2>1. /\ Answered(h) /\ alerted' = FALSE
        /\ UNCHANGED <<note, due, batch, at, taken, fate, seen, verified>>
    BY <1>1 DEF Clear, queueVars, workVars
  <2>2. /\ hand' \in [Handlers -> Hand] /\ HandsOK' /\ HeldOK'
        /\ calls' \subseteq Calls /\ CallsOK' /\ faults' \in 0 .. MaxFaults
    BY <2>1, AnsweredIsOK, HandMoves
  <2>3. TypeOK'
    BY <2>1, <2>2 DEF Inv, TypeOK
  <2>. QED
    BY <2>1, <2>2, <2>3 DEF Inv, RowsOK, DueOK, FreshOK, ConfirmedIsDelivered
<1>2. ASSUME NEW h \in Handlers, HandlerFails(h)
      PROVE  Inv' /\ note' = note
  <2>1. /\ Fault /\ Ends(h)
        /\ UNCHANGED <<note, due, batch, at, taken, fate, calls, seen, verified, alerted>>
    BY <1>2 DEF HandlerFails, queueVars, workVars, providerVars, heirVars
  <2>2. hand' \in [Handlers -> Hand] /\ HandsOK' /\ HeldOK' /\ faults' \in 0 .. MaxFaults
    BY <2>1, HandMoves, FaultsType DEF Inv
  <2>3. TypeOK'
    BY <2>1, <2>2 DEF Inv, TypeOK
  <2>. QED
    BY <2>1, <2>2, <2>3 DEF Inv, RowsOK, DueOK, FreshOK, CallsOK, ConfirmedIsDelivered, Arrived
<1>3. CASE Restart
  <2>1. /\ Fault /\ batch' = 0 /\ at' = {} /\ taken' = FALSE /\ hand' = [h \in Handlers |-> NoHand]
        /\ UNCHANGED <<note, due, fate, calls, seen, verified, alerted>>
    BY <1>3 DEF Restart, queueVars, providerVars, heirVars
  <2>2. NoHand.stage = "idle" /\ NoHand.row = {}
    BY DEF NoHand
  <2>3. hand' \in [Handlers -> Hand] /\ HandsOK' /\ HeldOK'
    BY <2>1, <2>2, Constants DEF HandsOK, HeldOK
  <2>4. faults' \in 0 .. MaxFaults /\ batch' \in 0 .. Len(due)
    BY <2>1, FaultsType DEF Inv, TypeOK
  <2>5. TypeOK'
    BY <2>1, <2>3, <2>4 DEF Inv, TypeOK
  <2>. QED
    BY <2>1, <2>3, <2>5 DEF Inv, RowsOK, DueOK, FreshOK, CallsOK, ConfirmedIsDelivered, Arrived
<1>. QED
  BY <1>1, <1>2, <1>3

-----------------------------------------------------------------------------
LEMMA InvInit ==
  ASSUME Init
  PROVE  Inv
<1>1. NoHand.stage = "idle" /\ NoHand.row = {} /\ NoNote.status = "none"
  BY DEF NoHand, NoNote
<1>2. TypeOK
  <2>1. due \in Seq(Notes) /\ Len(due) = 0 /\ Range(due) = {}
    BY DEF Init, Range
  <2>2. note \in [Notes -> Note] /\ hand \in [Handlers -> Hand]
    BY Constants DEF Init
  <2>3. fate \in [Messages -> Fates]
    BY DEF Init, Fates
  <2>4. batch \in 0 .. Len(due) /\ faults \in 0 .. MaxFaults
    BY <2>1, Constants DEF Init
  <2>5. \A n \in Range(due) : note[n].status = "pending"
    BY <2>1
  <2>. QED
    BY <2>1, <2>2, <2>3, <2>4, <2>5 DEF Init, TypeOK
<1>3. RowsOK /\ DueOK /\ HandsOK /\ HeldOK
  BY <1>1, Constants DEF Init, RowsOK, DueOK, HandsOK, HeldOK
<1>4. FreshOK /\ CallsOK /\ ConfirmedIsDelivered
  BY DEF Init, FreshOK, CallsOK, ConfirmedIsDelivered
<1>. QED
  BY <1>2, <1>3, <1>4 DEF Inv

\* A step keeps the invariant, and a verdict loses rank only to a handler that was overtaken.
LEMMA StepIsOK ==
  ASSUME Inv, [Next]_vars
  PROVE  /\ Inv'
         /\ \A n \in Notes : RankOf[note'[n].verdict] < RankOf[note[n].verdict]
              => \E h \in Handlers : n \in hand[h].row /\ Overtaken(h)
<1>1. \A n \in Notes : RankOf[note[n].verdict] \in Nat
  BY DEF Inv, TypeOK, Note, RankOf
<1>2. ASSUME \A n \in Notes : note'[n].verdict = note[n].verdict
      PROVE  \A n \in Notes : ~(RankOf[note'[n].verdict] < RankOf[note[n].verdict])
  BY <1>1, <1>2
<1>3. CASE \/ \E n \in Notes, k \in Kinds : Enqueue(n, k)
           \/ \E n \in Notes : Ripens(n)
           \/ ChangeAddress \/ Round
  BY <1>2, <1>3, TableActions
<1>4. CASE TakeUp \/ Sending \/ RoundFails
  BY <1>2, <1>4, TakeUpIsOK, SendingIsOK
<1>5. ASSUME NEW m \in Messages, NEW s \in Statuses, Fare(m, s)
      PROVE  Inv' /\ note' = note
  BY <1>5, FaresOn DEF Fare, queueVars
<1>6. CASE \E m \in Messages, s \in Statuses : Fare(m, s)
  BY <1>2, <1>5, <1>6
<1>7. ASSUME NEW h \in Handlers, Write(h)
      PROVE  /\ Inv'
             /\ \A n \in Notes : RankOf[note'[n].verdict] < RankOf[note[n].verdict]
                  => n \in hand[h].row /\ Overtaken(h)
  BY <1>7, WriteIsOK
<1>8. CASE \E h \in Handlers : Tell(h)
  BY <1>2, <1>8, TellIsOK
<1>9. CASE Restart \/ \E h \in Handlers : \/ Claim(h) \/ Vault(h) \/ Clear(h) \/ HandlerFails(h)
                                          \/ \E c \in calls : Read(h, c)
  BY <1>2, <1>9, ClaimIsOK, VaultIsOK, EndsAreOK, ReadIsOK
<1>10. CASE UNCHANGED vars
  <2>1. UNCHANGED <<note, due, batch, at, taken, fate, calls, seen, hand, verified, alerted, faults>>
    BY <1>10 DEF vars, queueVars, workVars, providerVars, heirVars
  <2>2. Inv'
    BY <2>1 DEF Inv, TypeOK, RowsOK, DueOK, FreshOK, CallsOK, HandsOK, HeldOK,
                ConfirmedIsDelivered, Arrived
  <2>. QED
    BY <1>2, <2>1, <2>2
<1>. QED
  BY <1>3, <1>4, <1>6, <1>7, <1>8, <1>9, <1>10 DEF Next, Worker, Handles

LEMMA InvAlways == Spec => []Inv
<1>1. Inv /\ [Next]_vars => Inv'
  BY StepIsOK
<1>. QED
  BY InvInit, <1>1, PTL DEF Spec

\* In every state every variable holds a value of its type, and the rows the worker has fetched or
\* sends are marked as such: the claims of tick_once, one restart or failed statement after
\* another.
THEOREM TypesAreKept == Spec => []TypeOK
<1>1. Inv => TypeOK
  BY DEF Inv
<1>. QED
  BY <1>1, InvAlways, PTL

\* The heir counts as reachable only after a delivery of a message of the heir's: what
\* record_delivery makes of the callbacks, whatever their number, order and repetition.
THEOREM ReachedIsDelivered == Spec => []ConfirmedIsDelivered
<1>1. Inv => ConfirmedIsDelivered
  BY DEF Inv
<1>. QED
  BY <1>1, InvAlways, PTL

\* The verdict of a row moves forward, and one is taken back only by a handler of record_delivery
\* that had read the row before another one wrote it.
THEOREM VerdictsAreKept == Spec => VerdictsMoveForward
<1>1. Inv /\ [Next]_vars
        => [\A n \in Notes : RankOf[note'[n].verdict] < RankOf[note[n].verdict]
              => \E h \in Handlers : n \in hand[h].row /\ Overtaken(h)]_vars
  BY StepIsOK
<1>. QED
  BY <1>1, InvAlways, PTL DEF Spec, VerdictsMoveForward
=============================================================================
