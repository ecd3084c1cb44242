---------------------------- MODULE OwnerAppProofs ----------------------------
(* Theorems about OwnerApp, for every number of tabs, vaults, forms and       *)
(* faults: the types, that what is in the session is sealed, that only the    *)
(* group sign-in can lose a key, and what becomes of rows, sessions and the   *)
(* check-in of a group.                                                       *)
EXTENDS OwnerApp, WellFoundedInduction, FiniteSetTheorems, TLAPS

(* What holds of each part of the state, as a function of the server's rows   *)
(* S: whatever claims that a token is sealed, tells the truth.                *)
ServerOK(S) ==
    /\ S \in [Vaults -> Server]
    /\ \A v \in Vaults : S[v].row = "none" => S[v].blob = "none"

RowsOK(S, d) ==
    /\ d \in [Vaults -> Row]
    /\ \A v \in Vaults : d[v].lock = "real" \/ d[v].valid => S[v].blob = "real"

TabOK(S, tb) == tb \in Tab /\ \A v \in tb.live : S[v].blob = "real"

LoopOK(S, l) == l \in Loop /\ RowsOK(S, l.rows)

\* The stages belong to their functions, and no loop goes on over nothing.
StageOK(j) ==
    /\ j.stage \in {"seed", "repair"} => j.kind = "unlock"
    /\ j.stage \in {"post", "seal", "save", "done"} => j.kind = "create"
    /\ j.stage \in {"ok", "refused"} => j.kind = "delete"
    /\ j.kind \in {"unlock", "signin", "delete"} \/ j.stage = "sent" => j.todo # {}
    /\ j.stage \in {"post", "seal", "save"} => j.left # 0
    /\ j.stage \in {"seal", "save"} => j.at # 0

JobOK(S, j) ==
    /\ j \in Job /\ StageOK(j)
    /\ j.kind = "signin" => j.todo \subseteq Bundles(j)
    /\ \A v \in Vaults : j.snap[v] = "real" => S[v].blob = "real"
    /\ j.kind = "unlock" => \A v \in j.got : S[v].blob = "real"
    /\ j.stage = "save" /\ j.ok => S[j.at].blob = "real"
    /\ j.stage = "ok" => S[First(j.todo)].row = "gone"

Inv ==
    /\ ServerOK(server) /\ RowsOK(server, disk)
    /\ active \in 0 .. N /\ expired \in BOOLEAN
    /\ tab \in [Tabs -> Tab] /\ loop \in [Tabs -> Loop] /\ job \in [Tabs -> Job]
    /\ \A t \in Tabs : TabOK(server, tab[t]) /\ LoopOK(server, loop[t]) /\ JobOK(server, job[t])
    /\ jobs \in 0 .. MaxJobs /\ faults \in 0 .. MaxFaults

\* What a step keeps: a token in clear on the disk of a vault that exists and is not sealed.
KeepsTokens(d, S2, d2) ==
    \A v \in Vaults : d[v].token /\ S2[v].blob # "real" /\ S2[v].row # "gone" => d2[v].token

Grows(S, S2) ==
    /\ ServerOK(S2)
    /\ \A v \in Vaults : /\ S[v].blob = "real" => S2[v].blob = "real"
                         /\ S[v].row = "gone" => S2[v].row = "gone"

-----------------------------------------------------------------------------
(* Lemmas about the operators.                                              *)

Before == {p \in Nat \X Nat : p[1] < p[2]}

LEMMA BeforeIsWellFounded == IsWellFoundedOn(Before, Nat)
  BY NatLessThanWellFounded DEF OpToRel, Before

LEMMA FirstIsIn ==
  ASSUME NEW S \in SUBSET Vaults, S # {}
  PROVE  First(S) \in S /\ \A v \in S : First(S) =< v
<1>1. S \subseteq Nat
  BY NAssumption DEF Vaults
<1>2. \A a, b \in Nat : a < b => <<a, b>> \in Before
  BY DEF Before
<1>3. PICK x \in S : \A y \in S : ~ (<<y, x>> \in Before)
  BY <1>1, BeforeIsWellFounded, WFMin
<1>4. \A y \in S : ~ (y < x)
  BY <1>1, <1>2, <1>3
<1>5. \A y \in S : x =< y
  BY <1>1, <1>4
<1>. QED
  BY <1>5 DEF First

LEMMA Constants ==
  /\ N \in Nat /\ N >= 1 /\ Vaults \subseteq Nat /\ Vaults \subseteq 1 .. N /\ 0 \notin Vaults
  /\ Vaults \subseteq 0 .. N /\ 0 .. N \subseteq 0 .. N + 1 /\ N + 1 \in 0 .. N + 1
  /\ \A v \in 0 .. N : v # 0 => v \in Vaults
  BY NAssumption DEF Vaults

LEMMA Carried ==
  ASSUME NEW S, NEW S2, Grows(S, S2)
  PROVE  /\ \A d : RowsOK(S, d) => RowsOK(S2, d)
         /\ \A tb : TabOK(S, tb) => TabOK(S2, tb)
         /\ \A l : LoopOK(S, l) => LoopOK(S2, l)
         /\ \A j : JobOK(S, j) => JobOK(S2, j)
<1>1. \A d : RowsOK(S, d) => RowsOK(S2, d)
  BY DEF Grows, RowsOK
<1>2. \A tb : TabOK(S, tb) => TabOK(S2, tb)
  BY DEF Grows, TabOK, Tab
<1>3. \A l : LoopOK(S, l) => LoopOK(S2, l)
  BY <1>1 DEF LoopOK
<1>4. ASSUME NEW j, JobOK(S, j)
      PROVE  JobOK(S2, j)
  <2>1. j \in Job /\ StageOK(j) /\ j.todo \subseteq Vaults /\ j.got \subseteq Vaults /\ j.at \in 0 .. N
    BY <1>4 DEF JobOK, Job
  <2>2. j.stage = "ok" => S2[First(j.todo)].row = "gone"
    <3>. HAVE j.stage = "ok"
    <3>1. j.todo # {}
      BY <2>1 DEF StageOK
    <3>. QED
      BY <1>4, <2>1, <3>1, FirstIsIn DEF JobOK, Grows
  <2>3. j.stage = "save" /\ j.ok => S2[j.at].blob = "real"
    BY <1>4, <2>1, Constants DEF JobOK, Grows, StageOK
  <2>. QED
    BY <1>4, <2>1, <2>2, <2>3 DEF JobOK, Grows
<1>. QED
  BY <1>1, <1>2, <1>3, <1>4

(* The pages of a tab.                                                      *)

LEMMA SiblingsType ==
  ASSUME NEW d, NEW v \in Vaults
  PROVE  Siblings(d, v) \subseteq Vaults
  BY DEF Siblings, Rows

LEMMA TabSteps ==
  ASSUME NEW S, NEW tb, TabOK(S, tb), NEW d, NEW a \in 0 .. N
  PROVE  /\ TabOK(S, Unmounted(tb))
         /\ TabOK(S, Mounted(tb, d, a))
         /\ \A b \in BOOLEAN : TabOK(S, [tb EXCEPT !.locked = b])
         /\ \A w \in {"closed", "public", "owner"} : TabOK(S, [tb EXCEPT !.at = w])
         /\ TabOK(S, [tb EXCEPT !.form = TRUE])
         /\ \A X : TabOK(S, [tb EXCEPT !.live = @ \ X])
         /\ \A X \in SUBSET Vaults : (\A v \in X : S[v].blob = "real")
                                     => TabOK(S, [tb EXCEPT !.live = @ \cup X])
<1>1. tb \in Tab
  BY DEF TabOK
<1>2. TabOK(S, Unmounted(tb))
  <2>1. 0 \in 0 .. N
    BY Constants
  <2>. QED
    BY <1>1, <2>1 DEF Unmounted, Tab, TabOK
<1>3. TabOK(S, Mounted(tb, d, a))
  <2> DEFINE v == IF tb.at = "owner" /\ ~tb.locked /\ a # 0 /\ d[a].held = "yes" THEN a ELSE 0
             g == IF v = 0 THEN {} ELSE Siblings(d, v)
  <2>1. v \in 0 .. N
    BY Constants
  <2>2. g \subseteq Vaults
    BY <2>1, Constants, SiblingsType
  <2>3. Mounted(tb, d, a) = [tb EXCEPT !.shown = v, !.group = g, !.form = FALSE]
    BY DEF Mounted
  <2> HIDE DEF v, g
  <2>. QED
    BY <1>1, <2>1, <2>2, <2>3 DEF Tab, TabOK
<1>4. \A b \in BOOLEAN : TabOK(S, [tb EXCEPT !.locked = b])
  BY <1>1 DEF Tab, TabOK
<1>5. \A w \in {"closed", "public", "owner"} : TabOK(S, [tb EXCEPT !.at = w])
  BY <1>1 DEF Tab, TabOK
<1>6. TabOK(S, [tb EXCEPT !.form = TRUE])
  BY <1>1 DEF Tab, TabOK
<1>7. \A X : TabOK(S, [tb EXCEPT !.live = @ \ X])
  BY <1>1 DEF Tab, TabOK
<1>8. ASSUME NEW X \in SUBSET Vaults, \A v \in X : S[v].blob = "real"
      PROVE  TabOK(S, [tb EXCEPT !.live = @ \cup X])
  BY <1>1, <1>8 DEF Tab, TabOK
<1>. QED
  BY <1>2, <1>3, <1>4, <1>5, <1>6, <1>7, <1>8

LEMMA BootedIsOK ==
  ASSUME NEW S, NEW tb, TabOK(S, tb), NEW d, NEW a \in 0 .. N,
         NEW where \in {"closed", "public", "owner"}
  PROVE  TabOK(S, Booted(tb, where, d, a))
<1> DEFINE b == Hidden(d, tb, a) \/ (expired /\ HasLock(d, a))
           tb2 == [tb EXCEPT !.at = where]
           tb3 == [tb2 EXCEPT !.locked = b]
<1>1. b \in BOOLEAN
  BY DEF Hidden, HasLock, Usable
<1>2. TabOK(S, tb2)
  BY TabSteps
<1> HIDE DEF b
<1>3. TabOK(S, tb3)
  BY <1>1, <1>2, TabSteps
<1>4. tb3 = [tb EXCEPT !.at = where, !.locked = b]
  BY DEF TabOK, Tab
<1> HIDE DEF tb2, tb3
<1>. QED
  BY <1>3, <1>4, TabSteps DEF Booted, b

\* What the other tabs make of a storage event.
LEMMA WritesKeepsTabs ==
  ASSUME NEW S, \A u \in Tabs : TabOK(S, tab[u]), NEW t \in Tabs, NEW tb, TabOK(S, tb),
         NEW d, NEW a \in 0 .. N, Writes(t, tb, d, a)
  PROVE  /\ disk' = d /\ active' = a
         /\ tab' \in [Tabs -> Tab] /\ \A u \in Tabs : TabOK(S, tab'[u])
<1>1. ASSUME NEW u \in Tabs
      PROVE  TabOK(S, Hears(tab[u], d, a))
  <2> DEFINE tb2 == [tab[u] EXCEPT !.locked = TRUE]
  <2>1. TabOK(S, tb2) /\ TabOK(S, tab[u])
    BY TabSteps
  <2> HIDE DEF tb2
  <2>2. TabOK(S, Unmounted(tb2))
    BY <2>1, TabSteps
  <2>. QED
    BY <2>1, <2>2 DEF Hears, tb2
<1>2. \A u \in Tabs : TabOK(S, tab'[u])
  BY <1>1 DEF Writes
<1>. QED
  BY <1>2 DEF Writes, TabOK

(* The rows.                                                                *)

LEMMA RowSteps ==
  ASSUME ServerOK(server), NEW d, RowsOK(server, d), NEW v \in Vaults
  PROVE  /\ RowsOK(server, Cached(d, v)) /\ KeepsTokens(d, server, Cached(d, v))
         /\ \A r \in Row : (r.lock = "real" \/ r.valid => server[v].blob = "real")
                           => RowsOK(server, [d EXCEPT ![v] = r])
         /\ NoRow \in Row /\ NoRow.lock # "real" /\ ~NoRow.valid
<1>1. d \in [Vaults -> Row] /\ server \in [Vaults -> Server]
  BY DEF RowsOK, ServerOK
<1>2. ASSUME NEW r \in Row, r.lock = "real" \/ r.valid => server[v].blob = "real"
      PROVE  RowsOK(server, [d EXCEPT ![v] = r])
  BY <1>1, <1>2 DEF RowsOK
<1>3. RowsOK(server, Cached(d, v)) /\ KeepsTokens(d, server, Cached(d, v))
  <2> DEFINE r == [d[v] EXCEPT !.lock = server[v].blob, !.valid = FALSE]
  <2>1. r \in Row /\ (r.lock = "real" \/ r.valid => server[v].blob = "real") /\ r.token = d[v].token
    BY <1>1 DEF Row, Server
  <2>2. [d EXCEPT ![v].lock = server[v].blob, ![v].valid = FALSE] = [d EXCEPT ![v] = r]
    BY <1>1
  <2> HIDE DEF r
  <2>. QED
    BY <1>1, <1>2, <2>1, <2>2 DEF Cached, KeepsTokens
<1>4. NoRow \in Row /\ NoRow.lock # "real" /\ ~NoRow.valid
  <2>1. 0 \in 0 .. N + 1
    BY Constants
  <2>. QED
    BY <2>1 DEF NoRow, Row, Blobs
<1>. QED
  BY <1>2, <1>3, <1>4

LEMMA DroppedIsOK ==
  ASSUME ServerOK(server), RowsOK(server, disk), active \in 0 .. N, NEW v \in Vaults
  PROVE  /\ RowsOK(server, Dropped(v)) /\ Repointed(v) \in 0 .. N
         /\ \A w \in Vaults : w # v => Dropped(v)[w] = disk[w]
         /\ \A tb : TabOK(server, tb) => TabOK(server, Forgotten(tb, v))
<1>1. RowsOK(server, Dropped(v))
  BY RowSteps DEF Dropped
<1>2. Repointed(v) \in 0 .. N
  <2>1. Rows(Dropped(v)) \subseteq Vaults
    BY DEF Rows
  <2>2. Rows(Dropped(v)) # {} => First(Rows(Dropped(v))) \in 0 .. N
    BY <2>1, FirstIsIn, Constants
  <2>3. 0 \in 0 .. N
    BY Constants
  <2>. QED
    BY <2>2, <2>3 DEF Repointed
<1>3. \A w \in Vaults : w # v => Dropped(v)[w] = disk[w]
  BY DEF Dropped, RowsOK
<1>4. ASSUME NEW tb, TabOK(server, tb)
      PROVE  TabOK(server, Forgotten(tb, v))
  BY <1>4, TabSteps, Constants DEF Forgotten
<1>. QED
  BY <1>1, <1>2, <1>3, <1>4

-----------------------------------------------------------------------------
(* The lock loop.                                                           *)

LEMMA SealedAwayIsOK ==
  ASSUME NEW row \in Row, NEW old \in Row
  PROVE  /\ SealedAway(row, old) \in Row
  BY DEF SealedAway, Row

LEMMA LockRunIsOK ==
  ASSUME Inv, NEW t \in Tabs, NEW d, RowsOK(server, d), NEW from \in 1 .. N + 1,
         NEW act \in 0 .. N, NEW rows, RowsOK(server, rows), LockRun(t, d, from, act, rows)
  PROVE  /\ RowsOK(server, disk') /\ KeepsTokens(d, server, disk')
         /\ active' \in 0 .. N /\ expired' \in BOOLEAN
         /\ tab' \in [Tabs -> Tab] /\ loop' \in [Tabs -> Loop]
         /\ \A u \in Tabs : TabOK(server, tab'[u]) /\ LoopOK(server, loop'[u])
<1> DEFINE mine == {v \in Vaults : /\ v >= from /\ rows[v].held # "no"
                                   /\ Usable(d, tab[t], v) /\ Password(v)}
           waits == {v \in mine : ~HasLock(rows, v)}
           stop == IF waits = {} THEN N + 1 ELSE First(waits)
           swept == {v \in mine : v < stop /\ Sweeps(rows[v])}
           d2 == [v \in Vaults |-> IF v \in swept THEN SealedAway(d[v], rows[v]) ELSE d[v]]
           tb == [tab[t] EXCEPT !.live = @ \ swept]
           locks == stop = N + 1 /\ LocksWith(d2, act)
           tb2 == IF locks THEN Unmounted([tb EXCEPT !.locked = TRUE]) ELSE tb
           l == IF stop = N + 1 THEN NoLoop ELSE [at |-> stop, act |-> act, rows |-> rows]
<1>1. /\ loop' = [loop EXCEPT ![t] = l] /\ Writes(t, tb2, d2, active)
      /\ expired' = (expired /\ (locks \/ stop # N + 1))
  BY DEF LockRun
<1>2. waits \subseteq Vaults /\ swept \subseteq Vaults
  OBVIOUS
<1>3. \A v \in swept : rows[v].valid
  BY DEF Sweeps
<1>4. stop # N + 1 => stop \in 0 .. N
  BY <1>2, FirstIsIn, Constants
<1> HIDE DEF mine, waits, stop, swept
<1>5. RowsOK(server, d2) /\ KeepsTokens(d, server, d2)
  <2>1. d \in [Vaults -> Row] /\ rows \in [Vaults -> Row]
    BY DEF RowsOK
  <2>2. ASSUME NEW v \in Vaults
        PROVE  /\ d2[v] \in Row /\ (d2[v].lock = "real" \/ d2[v].valid => server[v].blob = "real")
               /\ d[v].token /\ server[v].blob # "real" => d2[v].token
    <3>1. CASE v \in swept
      BY <1>3, <2>1, <3>1, SealedAwayIsOK DEF RowsOK
    <3>2. CASE v \notin swept
      BY <2>1, <3>2 DEF RowsOK
    <3>. QED
      BY <3>1, <3>2
  <2>. QED
    BY <2>2 DEF RowsOK, KeepsTokens
<1>6. TabOK(server, tb2)
  <2>1. TabOK(server, tab[t]) /\ active \in 0 .. N
    BY DEF Inv
  <2>2. TabOK(server, tb)
    BY <2>1, TabSteps
  <2> HIDE DEF tb
  <2>3. TabOK(server, [tb EXCEPT !.locked = TRUE])
    BY <2>1, <2>2, TabSteps
  <2>. QED
    BY <2>1, <2>2, <2>3, TabSteps
<1>7. LoopOK(server, l)
  <2>1. NoLoop \in Loop /\ RowsOK(server, NoLoop.rows)
    <3>1. NoRow \in Row /\ NoRow.lock # "real" /\ ~NoRow.valid
      BY RowSteps, Constants DEF NoRow, Row, Blobs
    <3>2. 0 \in 0 .. N
      BY Constants
    <3>. QED
      BY <3>1, <3>2 DEF NoLoop, Loop, RowsOK
  <2>2. CASE stop # N + 1
    BY <1>4, <2>2 DEF LoopOK, Loop, RowsOK
  <2>. QED
    BY <2>1, <2>2 DEF LoopOK
<1> HIDE DEF d2, tb, locks, tb2, l
<1>8. disk' = d2 /\ active' = active /\ tab' \in [Tabs -> Tab]
      /\ \A u \in Tabs : TabOK(server, tab'[u])
  BY <1>1, <1>5, <1>6, WritesKeepsTabs DEF Inv
<1>. QED
  BY <1>1, <1>5, <1>7, <1>8 DEF Inv, LoopOK

-----------------------------------------------------------------------------
(* Steps that leave the server and the rows alone.                          *)

LEMMA NothingRuns ==
  ASSUME NEW S, ServerOK(S)
  PROVE  JobOK(S, NoJob) /\ LoopOK(S, NoLoop)
<1>1. 0 \in 0 .. N /\ 0 \in 0 .. N + 1
  BY Constants
<1>2. NoRow \in Row /\ NoRow.lock # "real" /\ ~NoRow.valid
  BY <1>1 DEF NoRow, Row, Blobs
<1>3. NoJob \in Job
  BY <1>1 DEF NoJob, Job, NoSnap, Blobs
<1>4. JobOK(S, NoJob)
  BY <1>3 DEF JobOK, StageOK, NoJob, NoSnap
<1>. QED
  BY <1>1, <1>2, <1>4 DEF NoLoop, LoopOK, Loop, RowsOK

LEMMA ReloadedIsOK ==
  ASSUME Inv, NEW t \in Tabs, NEW tb, TabOK(server, tb), Reloaded(t, tb), server' = server
  PROVE  /\ job' \in [Tabs -> Job] /\ loop' \in [Tabs -> Loop] /\ tab' \in [Tabs -> Tab]
         /\ \A u \in Tabs : /\ TabOK(server', tab'[u]) /\ LoopOK(server', loop'[u])
                            /\ JobOK(server', job'[u])
  BY NothingRuns DEF Inv, Reloaded, TabOK, LoopOK, JobOK

LEMMA TabActions ==
  ASSUME Inv, Expire \/ \E t \in Tabs : Opening(t) \/ Close(t)
  PROVE  Inv' /\ disk' = disk
<1>1. CASE Expire
  BY <1>1 DEF Inv, Expire
<1>2. ASSUME NEW t \in Tabs, NEW where \in {"public", "owner"}, Boot(t, where)
      PROVE  Inv' /\ disk' = disk
  <2>1. TabOK(server, Booted(tab[t], where, disk, active))
    BY BootedIsOK DEF Inv
  <2>. QED
    BY <1>2, <2>1, ReloadedIsOK DEF Inv, Boot, storeVars
<1>3. ASSUME NEW t \in Tabs, NEW where \in {"public", "owner"}, Go(t, where)
      PROVE  Inv' /\ disk' = disk
  <2> DEFINE tb == [tab[t] EXCEPT !.at = where]
  <2>1. TabOK(server, tb) /\ active \in 0 .. N
    BY TabSteps DEF Inv
  <2> HIDE DEF tb
  <2>2. TabOK(server, Mounted(tb, disk, active))
    BY <2>1, TabSteps
  <2>3. tab' = [tab EXCEPT ![t] = Mounted(tb, disk, active)]
    BY <1>3 DEF Go, tb
  <2>. QED
    BY <1>3, <2>2, <2>3 DEF Inv, Go, storeVars, TabOK
<1>4. ASSUME NEW t \in Tabs, Close(t)
      PROVE  Inv' /\ disk' = disk
  <2> DEFINE tb == [Unmounted(tab[t]) EXCEPT !.at = "closed", !.live = {}, !.locked = FALSE]
  <2>1. TabOK(server, Unmounted(tab[t]))
    BY TabSteps, Constants DEF Inv
  <2>2. TabOK(server, tb)
    BY <2>1 DEF TabOK, Tab
  <2>. QED
    BY <1>4, <2>2, ReloadedIsOK DEF Inv, Close, storeVars
<1>. QED
  BY <1>1, <1>2, <1>3, <1>4 DEF Opening

LEMMA LockActions ==
  ASSUME Inv, NEW t \in Tabs, Locking(t)
  PROVE  Inv' /\ KeepsTokens(disk, server', disk')
<1>1. CASE LockStart(t)
  <2>1. CASE Sortable(disk)
    <3>1. LockRun(t, disk, 1, active, disk)
      BY <1>1, <2>1 DEF LockStart
    <3>2. 1 \in 1 .. N + 1
      BY Constants
    <3>. QED
      BY <1>1, <3>1, <3>2, LockRunIsOK DEF LockStart, Inv
  <2>2. CASE ~Sortable(disk)
    BY <1>1, <2>2 DEF LockStart, Inv, KeepsTokens
  <2>. QED
    BY <2>1, <2>2
<1>2. CASE LockAnswered(t)
  <2> DEFINE v == loop[t].at
             d == Cached(disk, v)
  <2>1. v \in Vaults /\ v + 1 \in 1 .. N + 1 /\ loop[t].act \in 0 .. N /\ RowsOK(server, loop[t].rows)
    BY <1>2, Constants DEF LockAnswered, Inv, LoopOK, Loop, Vaults
  <2>2. RowsOK(server, d) /\ KeepsTokens(disk, server, d)
    BY <2>1, RowSteps DEF Inv
  <2>3. LockRun(t, d, v + 1, loop[t].act, loop[t].rows) \/ LockRun(t, disk, v + 1, loop[t].act, loop[t].rows)
    BY <1>2 DEF LockAnswered
  <2>4. /\ RowsOK(server, disk') /\ KeepsTokens(disk, server, disk')
        /\ active' \in 0 .. N /\ expired' \in BOOLEAN
        /\ tab' \in [Tabs -> Tab] /\ loop' \in [Tabs -> Loop]
        /\ \A u \in Tabs : TabOK(server, tab'[u]) /\ LoopOK(server, loop'[u])
    <3>1. CASE LockRun(t, d, v + 1, loop[t].act, loop[t].rows)
      <4> HIDE DEF d
      <4>1. KeepsTokens(d, server, disk')
        BY <2>1, <2>2, <3>1, LockRunIsOK
      <4>. QED
        BY <2>1, <2>2, <3>1, <4>1, LockRunIsOK DEF KeepsTokens
    <3>2. CASE LockRun(t, disk, v + 1, loop[t].act, loop[t].rows)
      BY <2>1, <3>2, LockRunIsOK DEF Inv
    <3>. QED
      BY <2>3, <3>1, <3>2
  <2>5. faults' \in 0 .. MaxFaults
    BY <1>2, BoundsAssumption DEF LockAnswered, Fault, Inv
  <2>. QED
    BY <1>2, <2>4, <2>5 DEF LockAnswered, Inv
<1>. QED
  BY <1>1, <1>2 DEF Locking

-----------------------------------------------------------------------------
(* Signing in.                                                              *)

LEMMA JobStarts ==
  ASSUME Inv, NEW t \in Tabs, NEW S, Grows(server, S), NEW j, JobOK(S, j),
         Submits(t, j) \/ Continues(t, j)
  PROVE  /\ job' \in [Tabs -> Job] /\ jobs' \in 0 .. MaxJobs
         /\ \A u \in Tabs : JobOK(S, job'[u])
<1>1. job' = [job EXCEPT ![t] = j] /\ (jobs' = jobs \/ (jobs < MaxJobs /\ jobs' = jobs + 1))
  BY DEF Submits, Continues
<1>2. \A u \in Tabs : JobOK(S, job[u])
  BY Carried DEF Inv
<1>3. jobs' \in 0 .. MaxJobs
  BY <1>1, BoundsAssumption DEF Inv
<1>. QED
  BY <1>1, <1>2, <1>3 DEF Inv, JobOK

LEMMA GrowsSame == ASSUME Inv PROVE Grows(server, server)
  BY DEF Inv, Grows

\* The Job of an unlock whose seeding has come to its end, or goes on.
LEMMA SeededIsOK ==
  ASSUME Inv, NEW j \in Job, j.kind = "unlock", j.stage = "seed",
         \A v \in Vaults : j.snap[v] = "real" => server[v].blob = "real",
         \A v \in j.got : server[v].blob = "real", NEW d, RowsOK(server, d)
  PROVE  JobOK(server, Seeded(j, d))
<1>1. CASE j.todo # {}
  BY <1>1 DEF Seeded, JobOK, StageOK
<1>2. CASE j.todo = {} /\ (~HasLock(d, j.at) \/ ~Sortable(d))
  BY <1>2, NothingRuns DEF Seeded, Inv
<1>3. CASE j.todo = {} /\ HasLock(d, j.at) /\ Sortable(d)
  <2> DEFINE snap == [v \in Vaults |-> d[v].lock]
             todo == {v \in Vaults : HasLock(d, v)}
  <2>1. Seeded(j, d) = [j EXCEPT !.stage = "open", !.snap = snap, !.todo = todo]
    BY <1>3 DEF Seeded
  <2>2. j.at \in Vaults /\ j.at \in todo
    BY <1>3, Constants DEF HasLock, Job
  <2>3. snap \in [Vaults -> Blobs] /\ \A v \in Vaults : snap[v] = "real" => server[v].blob = "real"
    BY DEF RowsOK, Row
  <2>4. todo \subseteq Vaults
    OBVIOUS
  <2> HIDE DEF snap, todo
  <2> DEFINE k == Seeded(j, d)
  <2>5. /\ k \in Job /\ k.kind = "unlock" /\ k.stage = "open" /\ k.todo = todo /\ k.snap = snap
        /\ k.got = j.got
    BY <2>1, <2>3, <2>4 DEF Job
  <2> HIDE DEF k
  <2>6. StageOK(k)
    BY <2>2, <2>5 DEF StageOK
  <2>7. JobOK(server, k)
    BY <2>3, <2>5, <2>6 DEF JobOK
  <2>. QED
    BY <2>7 DEF k
<1>. QED
  BY <1>1, <1>2, <1>3

LEMMA TrustedType ==
  ASSUME Inv, NEW t \in Tabs
  PROVE  Trusted(disk, tab[t]) \in 0 .. N
<1> DEFINE S == {v \in Vaults : CanUnlock(disk, tab[t], v)}
<1>1. S # {} => First(S) \in Vaults
  BY FirstIsIn
<1>2. 0 \in 0 .. N /\ active \in 0 .. N
  BY Constants DEF Inv
<1>3. (\E v \in Vaults : CanUnlock(disk, tab[t], v)) => S # {}
  OBVIOUS
<1> HIDE DEF S
<1>4. Trusted(disk, tab[t]) \in {0, active} \/ ((\E v \in Vaults : CanUnlock(disk, tab[t], v))
                                                /\ Trusted(disk, tab[t]) = First(S))
  BY DEF Trusted, S
<1>. QED
  BY <1>1, <1>2, <1>3, <1>4, Constants

LEMMA AdmittedIsOK ==
  ASSUME Inv, NEW S, Grows(server, S), server' = S, NEW t \in Tabs, NEW live \in SUBSET Vaults,
         \A v \in live : S[v].blob = "real", NEW d, RowsOK(S, d), NEW a \in 0 .. N,
         Admitted(t, live, d, a)
  PROVE  /\ disk' = d /\ active' \in 0 .. N /\ expired' \in BOOLEAN
         /\ tab' \in [Tabs -> Tab] /\ \A u \in Tabs : TabOK(S, tab'[u])
<1> DEFINE tb1 == [tab[t] EXCEPT !.live = @ \cup live]
           tb2 == [tb1 EXCEPT !.locked = FALSE]
           tb3 == [tb2 EXCEPT !.at = IF job[t].ok THEN "owner" ELSE @]
<1>1. \A u \in Tabs : TabOK(S, tab[u])
  BY Carried DEF Inv
<1>2. TabOK(S, tb1)
  BY <1>1, TabSteps
<1> HIDE DEF tb1
<1>3. TabOK(S, tb2)
  BY <1>2, TabSteps
<1> HIDE DEF tb2
<1>4. TabOK(S, tb3)
  BY <1>3 DEF TabOK, Tab
<1>5. tb3 = [tab[t] EXCEPT !.live = @ \cup live, !.locked = FALSE,
                           !.at = IF job[t].ok THEN "owner" ELSE @]
  BY <1>1 DEF tb1, tb2, TabOK, Tab
<1> HIDE DEF tb3
<1>6. TabOK(S, Mounted(tb3, d, a))
  BY <1>4, TabSteps
<1>. QED
  BY <1>1, <1>5, <1>6, WritesKeepsTabs DEF Admitted

\* What remains of an unlock after a vault: the next one, or its end.
LEMMA OpensIsOK ==
  ASSUME Inv, NEW S, Grows(server, S), server' = S, NEW t \in Tabs, NEW j \in Job,
         j.kind = "unlock", j.stage = "open", \A v \in j.got : S[v].blob = "real",
         \A v \in Vaults : j.snap[v] = "real" => S[v].blob = "real",
         NEW d, RowsOK(S, d), Opens(t, j, d)
  PROVE  /\ RowsOK(S, disk') /\ KeepsTokens(d, S, disk')
         /\ active' \in 0 .. N /\ expired' \in BOOLEAN
         /\ tab' \in [Tabs -> Tab] /\ \A u \in Tabs : TabOK(S, tab'[u])
         /\ job' \in [Tabs -> Job] /\ jobs' \in 0 .. MaxJobs
         /\ \A u \in Tabs : JobOK(S, job'[u])
<1>1. \A u \in Tabs : TabOK(S, tab[u])
  BY Carried DEF Inv
<1>2. JobOK(S, NoJob)
  BY NothingRuns DEF Grows
<1>3. CASE j.todo # {}
  <2>1. JobOK(S, j)
    BY <1>3 DEF JobOK, StageOK
  <2>2. Continues(t, j) /\ Writes(t, tab[t], d, active) /\ expired' = expired
    BY <1>3 DEF Opens
  <2>. QED
    BY <1>1, <2>1, <2>2, JobStarts, WritesKeepsTabs DEF Inv, KeepsTokens
<1>4. CASE j.todo = {}
  <2>1. Continues(t, NoJob) /\ Restores(t, j, d)
    BY <1>4 DEF Opens
  <2>2. CASE ~(j.at \in j.got /\ \A v \in j.got : HasLock(d, v))
    <3>1. Writes(t, tab[t], d, active) /\ expired' = expired
      BY <2>1, <2>2 DEF Restores
    <3>. QED
      BY <1>1, <1>2, <2>1, <3>1, JobStarts, WritesKeepsTabs DEF Inv, KeepsTokens
  <2>3. CASE j.at \in j.got /\ \A v \in j.got : HasLock(d, v)
    <3> DEFINE d2 == [v \in Vaults |-> IF v \in j.got THEN [d[v] EXCEPT !.token = FALSE, !.valid = TRUE]
                                       ELSE d[v]]
    <3>1. Admitted(t, j.got, d2, active)
      BY <2>1, <2>3 DEF Restores
    <3>2. RowsOK(S, d2) /\ KeepsTokens(d, S, d2)
      <4>1. ASSUME NEW v \in Vaults
            PROVE  /\ d2[v] \in Row /\ (d2[v].lock = "real" \/ d2[v].valid => S[v].blob = "real")
                   /\ d[v].token /\ S[v].blob # "real" => d2[v].token
        BY DEF RowsOK, Row
      <4>. QED
        BY <4>1 DEF RowsOK, KeepsTokens
    <3> HIDE DEF d2
    <3>3. j.got \subseteq Vaults
      BY DEF Job
    <3>4. active \in 0 .. N
      BY DEF Inv
    <3>. QED
      BY <1>2, <2>1, <3>1, <3>2, <3>3, <3>4, JobStarts, AdmittedIsOK
  <2>. QED
    BY <2>2, <2>3
<1>. QED
  BY <1>3, <1>4

LEMMA UnlockActions ==
  ASSUME Inv, NEW t \in Tabs,
         UnlockTrustedDevice(t) \/ UnlockSeeds(t) \/ UnlockOpens(t) \/ UnlockRepairs(t)
  PROVE  Inv' /\ KeepsTokens(disk, server', disk')
<1>. Grows(server, server) /\ RowsOK(server, disk) /\ JobOK(server, job[t]) /\ job[t] \in Job
  BY GrowsSame DEF Inv
<1>1. CASE UnlockTrustedDevice(t)
  <2> DEFINE todo == {v \in Vaults : /\ disk[v].held = "yes" /\ ~HasLock(disk, v)
                                     /\ Usable(disk, tab[t], v) /\ Password(v)}
             j == [NoJob EXCEPT !.kind = "unlock", !.stage = "seed", !.at = Trusted(disk, tab[t]),
                                !.ok = tab[t].at = "public", !.todo = todo]
  <2>1. Submits(t, Seeded(j, disk))
    BY <1>1 DEF UnlockTrustedDevice
  <2>2. NoJob \in Job /\ NoJob.got = {} /\ \A v \in Vaults : NoJob.snap[v] # "real"
    BY NothingRuns DEF Inv, JobOK, NoJob, NoSnap
  <2>3. todo \subseteq Vaults
    OBVIOUS
  <2> HIDE DEF todo
  <2>4. /\ j \in Job /\ j.kind = "unlock" /\ j.stage = "seed" /\ j.got = {}
        /\ \A v \in Vaults : j.snap[v] # "real"
    BY <2>2, <2>3, TrustedType DEF Job
  <2> HIDE DEF j
  <2>5. JobOK(server, Seeded(j, disk))
    BY <2>4, SeededIsOK
  <2>. QED
    BY <1>1, <2>1, <2>5, JobStarts DEF UnlockTrustedDevice, Inv, storeVars, KeepsTokens
<1>2. CASE UnlockSeeds(t)
  <2> DEFINE v == First(job[t].todo)
             j == [job[t] EXCEPT !.todo = @ \ {v}]
  <2>1. job[t].todo # {} /\ v \in Vaults
    BY <1>2, FirstIsIn DEF UnlockSeeds, JobOK, StageOK, Job
  <2>2. PICK d \in {disk, Cached(disk, v)} :
           Continues(t, Seeded(j, d)) /\ Writes(t, tab[t], d, active)
    BY <1>2 DEF UnlockSeeds
  <2>3. RowsOK(server, d) /\ KeepsTokens(disk, server, d)
    BY <2>1, <2>2, RowSteps DEF Inv, KeepsTokens
  <2>4. JobOK(server, Seeded(j, d))
    <3>1. /\ j \in Job /\ j.kind = "unlock" /\ j.stage = "seed"
          /\ j.got = job[t].got /\ j.snap = job[t].snap
      BY <1>2 DEF UnlockSeeds, Job
    <3> HIDE DEF j
    <3>. QED
      BY <2>3, <3>1, <1>2, SeededIsOK DEF JobOK, UnlockSeeds
  <2>5. faults' \in 0 .. MaxFaults
    BY <1>2, BoundsAssumption DEF UnlockSeeds, Fault, Inv
  <2>. QED
    BY <1>2, <2>2, <2>3, <2>4, <2>5, JobStarts, WritesKeepsTabs DEF UnlockSeeds, Inv
<1>3. CASE UnlockOpens(t)
  <2> DEFINE v == Turn(job[t])
             passed == [job[t] EXCEPT !.todo = @ \ {v}]
             opened == [passed EXCEPT !.got = @ \cup {v}]
             repair == [job[t] EXCEPT !.stage = "repair"]
  <2>1. job[t].todo # {} /\ v \in Vaults /\ job[t].kind = "unlock" /\ job[t].stage = "open"
    BY <1>3, FirstIsIn DEF UnlockOpens, JobOK, StageOK, Job, Turn
  <2>2. \/ job[t].snap[v] = "real" /\ Opens(t, opened, disk)
        \/ Continues(t, repair) /\ UNCHANGED <<storeVars, tab>>
        \/ Opens(t, passed, disk)
    BY <1>3 DEF UnlockOpens, OpensToToken
  <2>3. server' = server /\ loop' = loop /\ faults' = faults
    BY <1>3 DEF UnlockOpens
  <2>4. CASE \/ job[t].snap[v] = "real" /\ Opens(t, opened, disk)
             \/ Opens(t, passed, disk)
    <3>1. PICK j \in Job : /\ Opens(t, j, disk) /\ j.kind = "unlock" /\ j.stage = "open"
                           /\ j.snap = job[t].snap /\ \A w \in j.got : server[w].blob = "real"
      <4>1. /\ passed \in Job /\ passed.kind = "unlock" /\ passed.stage = "open"
            /\ passed.snap = job[t].snap /\ \A w \in passed.got : server[w].blob = "real"
        BY <2>1 DEF Job, JobOK
      <4>2. job[t].snap[v] = "real" =>
              /\ opened \in Job /\ opened.kind = "unlock" /\ opened.stage = "open"
              /\ opened.snap = job[t].snap /\ \A w \in opened.got : server[w].blob = "real"
        BY <2>1 DEF Job, JobOK
      <4>. QED
        BY <2>4, <4>1, <4>2
    <3>. QED
      BY <2>3, <3>1, OpensIsOK DEF Inv, JobOK
  <2>5. CASE Continues(t, repair) /\ UNCHANGED <<storeVars, tab>>
    <3>1. JobOK(server, repair)
      <4>1. repair \in Job /\ StageOK(repair)
        BY <2>1 DEF JobOK, StageOK, Job
      <4>. QED
        BY <2>1, <4>1 DEF JobOK, Job
    <3> HIDE DEF repair
    <3>. QED
      BY <2>3, <2>5, <3>1, JobStarts DEF Inv, storeVars, KeepsTokens
  <2>. QED
    BY <2>2, <2>4, <2>5
<1>4. CASE UnlockRepairs(t)
  <2> DEFINE v == Turn(job[t])
             S == [server EXCEPT ![v].blob = "real"]
             r == [disk[v] EXCEPT !.lock = "real", !.valid = TRUE]
             d == IF disk[v].token THEN [disk EXCEPT ![v] = r] ELSE disk
             j == [job[t] EXCEPT !.stage = "open", !.todo = @ \ {v}, !.got = @ \cup {v}]
  <2>1. job[t].todo # {} /\ v \in Vaults /\ job[t].kind = "unlock"
    BY <1>4, FirstIsIn DEF UnlockRepairs, JobOK, StageOK, Job, Turn
  <2>2. Exists(v) => Grows(server, S) /\ S[v].blob = "real"
    BY <2>1 DEF Inv, Grows, ServerOK, Server, Blobs, Exists
  <2>3. \/ Exists(v) /\ server' = S /\ faults' = faults /\ Opens(t, j, d)
        \/ /\ server' = server \/ (Exists(v) /\ server' = S)
           /\ Continues(t, NoJob) /\ UNCHANGED <<storeVars, tab>> /\ (faults' = faults \/ Fault)
    <3>1. d = IF disk[v].token THEN [disk EXCEPT ![v].lock = "real", ![v].valid = TRUE] ELSE disk
      BY <2>1 DEF RowsOK
    <3>. QED
      BY <1>4, <3>1 DEF UnlockRepairs
  <2>4. faults' \in 0 .. MaxFaults /\ loop' = loop
    BY <1>4, <2>3, BoundsAssumption DEF Fault, Inv, UnlockRepairs
  <2>5. CASE Exists(v) /\ server' = S /\ faults' = faults /\ Opens(t, j, d)
    <3> HIDE DEF S
    <3>1. RowsOK(S, d) /\ KeepsTokens(disk, S, d)
      <4>1. RowsOK(S, disk) /\ disk \in [Vaults -> Row]
        BY <2>2, <2>5, Carried DEF RowsOK
      <4>2. r \in Row /\ r.token = disk[v].token
        BY <2>1, <4>1 DEF Row, Blobs
      <4>. QED
        BY <2>1, <2>2, <2>5, <4>1, <4>2 DEF RowsOK, KeepsTokens
    <3>2. /\ j \in Job /\ j.kind = "unlock" /\ j.stage = "open" /\ j.snap = job[t].snap
          /\ j.got = job[t].got \cup {v}
      BY <2>1 DEF Job
    <3>3. JobOK(S, job[t])
      BY <2>2, <2>5, Carried
    <3> HIDE DEF j, d, v
    <3>4. /\ \A w \in j.got : S[w].blob = "real"
          /\ \A w \in Vaults : j.snap[w] = "real" => S[w].blob = "real"
      BY <2>1, <2>2, <2>5, <3>2, <3>3 DEF JobOK
    <3>5. /\ RowsOK(S, disk') /\ KeepsTokens(d, S, disk')
          /\ active' \in 0 .. N /\ expired' \in BOOLEAN
          /\ tab' \in [Tabs -> Tab] /\ \A u \in Tabs : TabOK(S, tab'[u])
          /\ job' \in [Tabs -> Job] /\ jobs' \in 0 .. MaxJobs
          /\ \A u \in Tabs : JobOK(S, job'[u])
      BY <2>2, <2>5, <3>1, <3>2, <3>4, OpensIsOK
    <3>6. KeepsTokens(disk, S, disk')
      BY <3>1, <3>5 DEF KeepsTokens
    <3>7. ServerOK(S) /\ \A u \in Tabs : LoopOK(S, loop[u])
      BY <2>2, <2>5, Carried DEF Grows, Inv
    <3>. QED
      BY <2>4, <2>5, <3>5, <3>6, <3>7 DEF Inv
  <2>6. CASE /\ server' = server \/ (Exists(v) /\ server' = S)
             /\ Continues(t, NoJob) /\ UNCHANGED <<storeVars, tab>>
    <3> HIDE DEF S
    <3>1. Grows(server, server')
      BY <2>2, <2>6
    <3>2. JobOK(server', NoJob)
      BY <3>1, NothingRuns DEF Grows
    <3>. QED
      BY <2>4, <2>6, <3>1, <3>2, JobStarts, Carried DEF Inv, storeVars, Grows, KeepsTokens
  <2>. QED
    BY <2>3, <2>5, <2>6
<1>. QED
  BY <1>1, <1>2, <1>3, <1>4

LEMMA MoreThanOne ==
  ASSUME NEW S \in SUBSET Vaults, S # {}, Cardinality(S) # 1
  PROVE  Cardinality(S) > 1
<1>1. IsFiniteSet(Vaults)
  BY NAssumption, FS_Interval DEF Vaults
<1>2. IsFiniteSet(S)
  BY <1>1, FS_Subset
<1>3. Cardinality(S) \in Nat /\ Cardinality(S) # 0
  BY <1>2, FS_CardinalityType, FS_EmptySet
<1>. QED
  BY <1>3

LEMMA LinkActions ==
  ASSUME Inv, NEW t \in Tabs, LinkOpened(t) \/ SignInOpens(t) \/ WrongPassword(t)
  PROVE  /\ Inv'
         /\ \A v \in Vaults : disk[v].token /\ server'[v].blob # "real" /\ ~disk'[v].token
                              => OverwritesKey(v)
<1>. Grows(server, server) /\ RowsOK(server, disk) /\ JobOK(server, job[t]) /\ job[t] \in Job
  BY GrowsSame DEF Inv
<1>0. JobOK(server, NoJob)
  BY NothingRuns DEF Inv
<1>1. CASE LinkOpened(t)
  <2> DEFINE bundles == {v \in Vaults : Exists(v) /\ Password(v)}
             got == {v \in bundles : server[v].row = "live"}
             snap == [v \in Vaults |-> IF v \in bundles THEN server[v].blob ELSE "none"]
             j == [NoJob EXCEPT !.kind = "signin", !.stage = "open", !.ok = TRUE, !.todo = bundles,
                                !.got = got, !.snap = snap]
  <2>1. bundles # {} /\ Submits(t, j) /\ UNCHANGED <<server, storeVars, tab, loop, faults>>
    BY <1>1 DEF LinkOpened
  <2>2. /\ bundles \subseteq Vaults /\ got \subseteq Vaults /\ snap \in [Vaults -> Blobs]
        /\ \A v \in Vaults : snap[v] = "real" => server[v].blob = "real"
        /\ \A v \in bundles : snap[v] # "none"
    BY DEF Inv, ServerOK, Server, Blobs, Password
  <2> HIDE DEF bundles, got, snap
  <2>3. /\ j \in Job /\ j.kind = "signin" /\ j.stage = "open" /\ j.todo = bundles /\ j.snap = snap
    BY <1>0, <2>2 DEF JobOK, Job
  <2> HIDE DEF j
  <2>4. JobOK(server, j)
    BY <2>1, <2>2, <2>3 DEF JobOK, StageOK, Bundles
  <2>5. Inv'
    BY <2>1, <2>4, JobStarts DEF Inv, storeVars
  <2>. QED
    BY <2>1, <2>5 DEF storeVars
<1>2. CASE SignInOpens(t)
  <2> DEFINE j == job[t]
             v == First(j.todo)
             alone == Cardinality(Bundles(j)) = 1
             row == Recovered(j.snap[v], IF alone THEN 0 ELSE N + 1)
             d == [disk EXCEPT ![v] = AtRest(row)]
             live == IF ToSession(row) THEN {v} ELSE {}
             landing == First(IF j.got # {} THEN j.got ELSE Bundles(j))
             next == [j EXCEPT !.todo = @ \ {v}]
             tb == [tab[t] EXCEPT !.live = @ \cup live]
  <2>1. /\ j.kind = "signin" /\ UNCHANGED <<server, loop, faults>>
        /\ IF alone /\ live = {} THEN Continues(t, NoJob) /\ UNCHANGED <<storeVars, tab>>
           ELSE IF j.todo = {v} THEN Continues(t, NoJob) /\ Admitted(t, live, d, landing)
           ELSE Continues(t, next) /\ Writes(t, tb, d, v) /\ UNCHANGED expired
    BY <1>2 DEF SignInOpens
  <2>2. v \in j.todo /\ v \in Vaults /\ v \in Bundles(j) /\ j.snap[v] \in {"placeholder", "real"}
    BY <2>1, FirstIsIn DEF JobOK, StageOK, Job, Bundles, Blobs
  <2>3. landing \in 0 .. N
    <3> DEFINE X == IF j.got # {} THEN j.got ELSE Bundles(j)
    <3>1. X # {} /\ X \subseteq Vaults
      BY <2>2 DEF Job, Bundles
    <3> HIDE DEF X
    <3>2. First(X) \in Vaults
      BY <3>1, FirstIsIn
    <3>. QED
      BY <3>2, Constants DEF X
  <2>4. /\ AtRest(row) \in Row
        /\ AtRest(row).lock = "real" \/ AtRest(row).valid => server[v].blob = "real"
        /\ \A w \in live : w \in Vaults /\ server[w].blob = "real"
    <3>1. row \in Row /\ row.valid = (j.snap[v] = "real") /\ row.lock # "placeholder"
          /\ (row.lock = "real" => row.valid)
      <4>1. 0 \in 0 .. N + 1 /\ N + 1 \in 0 .. N + 1
        BY Constants
      <4>. QED
        BY <2>2, <4>1 DEF Recovered, Row, Blobs
    <3>2. row.valid => server[v].blob = "real"
      BY <2>2, <3>1 DEF JobOK
    <3> HIDE DEF row, j, v
    <3>. QED
      BY <2>2, <3>1, <3>2 DEF AtRest, ToSession, Row
  <2> HIDE DEF landing, row
  <2>5. RowsOK(server, d)
    BY <2>2, <2>4, RowSteps DEF Inv
  <2>6. ASSUME NEW w \in Vaults, disk[w].token, server'[w].blob # "real", ~disk'[w].token
        PROVE  OverwritesKey(w)
    <3>1. disk' = d /\ ~(alone /\ live = {})
      BY <2>1, <2>6 DEF storeVars, Admitted, Writes
    <3>2. w = v
      BY <2>2, <2>6, <3>1 DEF RowsOK
    <3>3. j.snap[v] = "placeholder"
      BY <2>1, <2>2, <2>6, <3>2 DEF JobOK
    <3>4. live = {}
      BY <3>3 DEF row, Recovered, ToSession
    <3>5. Cardinality(Bundles(j)) > 1
      BY <2>2, <3>1, <3>4, MoreThanOne DEF Bundles
    <3>6. job'[t] # job[t]
      <4>1. job'[t] = NoJob \/ job'[t] = next
        BY <2>1 DEF Continues, Inv
      <4>2. NoJob.kind # job[t].kind
        BY <2>1 DEF NoJob
      <4>3. next.todo # job[t].todo
        BY <2>2 DEF Job
      <4>. QED
        BY <4>1, <4>2, <4>3
    <3>. QED
      BY <2>1, <2>2, <3>2, <3>3, <3>5, <3>6 DEF OverwritesKey
  <2>7. CASE alone /\ live = {}
    <3>1. Continues(t, NoJob) /\ UNCHANGED <<storeVars, tab>>
      BY <2>1, <2>7
    <3>2. Inv'
      BY <1>0, <2>1, <3>1, JobStarts DEF Inv, storeVars
    <3>. QED
      BY <2>6, <3>2
  <2>8. CASE ~(alone /\ live = {}) /\ j.todo = {v}
    <3>1. Continues(t, NoJob) /\ Admitted(t, live, d, landing)
      BY <2>1, <2>8
    <3> HIDE DEF live, d, v, j
    <3>2. /\ disk' = d /\ active' \in 0 .. N /\ expired' \in BOOLEAN
          /\ tab' \in [Tabs -> Tab] /\ \A u \in Tabs : TabOK(server, tab'[u])
      BY <2>1, <2>3, <2>4, <2>5, <3>1, AdmittedIsOK
    <3>3. Inv'
      BY <1>0, <2>1, <2>5, <3>1, <3>2, JobStarts DEF Inv
    <3>. QED
      BY <2>6, <3>3
  <2>9. CASE ~(alone /\ live = {}) /\ j.todo # {v}
    <3>1. Continues(t, next) /\ Writes(t, tb, d, v) /\ UNCHANGED expired
      BY <2>1, <2>9
    <3>2. JobOK(server, next)
      <4>1. /\ next \in Job /\ next.todo = j.todo \ {v} /\ next.kind = j.kind /\ next.stage = j.stage
            /\ next.snap = j.snap /\ next.at = j.at /\ next.ok = j.ok /\ next.left = j.left
            /\ next.got = j.got
        BY DEF Job
      <4>2. next.todo # {}
        BY <2>2, <2>9, <4>1
      <4>. QED
        BY <2>1, <4>1, <4>2 DEF JobOK, StageOK, Bundles
    <3>3. TabOK(server, tb)
      BY <2>4, TabSteps, Constants DEF Inv
    <3>4. v \in 0 .. N
      BY <2>2, Constants
    <3> HIDE DEF next, tb, live, d, v, j
    <3>5. /\ disk' = d /\ active' = v
          /\ tab' \in [Tabs -> Tab] /\ \A u \in Tabs : TabOK(server, tab'[u])
      BY <3>1, <3>3, <3>4, WritesKeepsTabs DEF Inv
    <3>6. Inv'
      BY <2>1, <2>5, <3>1, <3>2, <3>4, <3>5, JobStarts DEF Inv
    <3>. QED
      BY <2>6, <3>6
  <2>. QED
    BY <2>7, <2>8, <2>9
<1>3. CASE WrongPassword(t)
  <2>1. Inv'
    BY <1>0, <1>3, JobStarts DEF WrongPassword, Inv, storeVars
  <2>. QED
    BY <1>3, <2>1 DEF WrongPassword, storeVars
<1>. QED
  BY <1>1, <1>2, <1>3

-----------------------------------------------------------------------------
(* Making vaults.                                                           *)

LEMMA FirstNew ==
  ASSUME Inv, New # {}, NEW b \in {"none", "placeholder"}
  PROVE  /\ First(New) \in Vaults /\ server[First(New)].row = "none"
         /\ Grows(server, Made(First(New), b)) /\ Made(First(New), b)[First(New)].row = "live"
<1>1. First(New) \in New /\ First(New) \in Vaults /\ server[First(New)].row = "none"
  BY FirstIsIn DEF New
<1> DEFINE v == First(New)
<1> HIDE DEF v
<1>2. v \in Vaults /\ server[v].row = "none" => Grows(server, Made(v, b)) /\ Made(v, b)[v].row = "live"
  BY DEF Inv, Grows, ServerOK, Server, Blobs, Made
<1>. QED
  BY <1>1, <1>2 DEF v

LEMMA FormActions ==
  ASSUME Inv, NEW t \in Tabs, (\E heirs \in 1 .. N : Activate(t, heirs)) \/ AddHeir(t) \/ Done(t)
  PROVE  Inv' /\ disk' = disk /\ server' = server
<1>. Grows(server, server)
  BY GrowsSame
<1>0. NoJob \in Job /\ JobOK(server, NoJob) /\ NoJob.todo = {}
  BY NothingRuns DEF Inv, JobOK, NoJob
<1>1. ASSUME NEW heirs \in 1 .. N, Activate(t, heirs)
      PROVE  Inv' /\ disk' = disk /\ server' = server
  <2> DEFINE j == [NoJob EXCEPT !.kind = "create", !.stage = "post", !.left = heirs, !.gid = First(New)]
  <2>1. Submits(t, j) /\ UNCHANGED <<server, storeVars, tab, loop, faults>> /\ heirs =< Cardinality(New)
    BY <1>1 DEF Activate
  <2>2. New # {}
    <3>1. Cardinality({}) = 0
      BY FS_EmptySet
    <3>. QED
      BY <2>1, <3>1
  <2>3. First(New) \in 0 .. N + 1 /\ heirs \in 0 .. N /\ heirs # 0
    <3>1. First(New) \in Vaults
      BY <2>2, FirstIsIn DEF New
    <3>2. heirs \in 0 .. N /\ heirs # 0
      BY NAssumption
    <3>. QED
      BY <3>1, <3>2, Constants
  <2>4. JobOK(server, j)
    <3>1. j \in Job /\ j.kind = "create" /\ j.stage = "post" /\ j.left = heirs /\ j.snap = NoJob.snap
      BY <1>0, <2>3 DEF Job
    <3>. QED
      BY <1>0, <2>3, <3>1 DEF JobOK, StageOK
  <2> HIDE DEF j
  <2>. QED
    BY <2>1, <2>4, JobStarts DEF Inv, storeVars
<1>2. CASE AddHeir(t)
  <2> DEFINE s == tab[t].shown
             gid == IF disk[s].group # 0 THEN disk[s].group ELSE s
             todo == IF disk[s].group # 0 THEN {} ELSE {s}
             j == [NoJob EXCEPT !.kind = "create", !.stage = "post", !.left = 1, !.gid = gid,
                                !.todo = todo]
  <2>1. /\ Submits(t, j) /\ tab' = [tab EXCEPT ![t].form = TRUE] /\ s # 0
        /\ UNCHANGED <<server, storeVars, loop, faults>>
    BY <1>2 DEF AddHeir
  <2>2. s \in Vaults /\ gid \in 0 .. N + 1 /\ todo \subseteq Vaults /\ 1 \in 0 .. N
    BY <2>1, Constants DEF Inv, TabOK, Tab, RowsOK, Row
  <2> HIDE DEF gid, todo
  <2>3. JobOK(server, j)
    <3>1. j \in Job /\ j.kind = "create" /\ j.stage = "post" /\ j.left = 1 /\ j.snap = NoJob.snap
      BY <1>0, <2>2 DEF Job
    <3>. QED
      BY <1>0, <3>1 DEF JobOK, StageOK
  <2>4. TabOK(server, [tab[t] EXCEPT !.form = TRUE])
    BY TabSteps, Constants DEF Inv
  <2>5. tab' \in [Tabs -> Tab] /\ \A u \in Tabs : TabOK(server, tab'[u])
    BY <2>1, <2>4 DEF Inv, TabOK
  <2> HIDE DEF j
  <2>. QED
    BY <2>1, <2>3, <2>5, JobStarts DEF Inv, storeVars
<1>3. CASE Done(t)
  <2>1. CASE tab[t].form
    <3>1. TabOK(server, Booted(tab[t], tab[t].at, disk, active))
      BY BootedIsOK DEF Inv, TabOK, Tab
    <3>. QED
      BY <1>3, <2>1, <3>1, ReloadedIsOK DEF Done, Inv, storeVars
  <2>2. CASE ~tab[t].form
    BY <1>0, <1>3, <2>2, JobStarts DEF Done, Inv, storeVars
  <2>. QED
    BY <2>1, <2>2
<1>. QED
  BY <1>1, <1>2, <1>3

LEMMA MakingActions ==
  ASSUME Inv, NEW t \in Tabs, Posts(t) \/ Reseals(t) \/ Saves(t) \/ SetupLegacy(t)
  PROVE  Inv' /\ KeepsTokens(disk, server', disk')
<1>. JobOK(server, job[t]) /\ job[t] \in Job
  BY DEF Inv
<1>0. \A S : Grows(server, S) => ServerOK(S) /\ JobOK(S, NoJob) /\ RowsOK(S, disk)
                                 /\ \A u \in Tabs : TabOK(S, tab[u]) /\ LoopOK(S, loop[u])
  BY NothingRuns, Carried DEF Inv, Grows
<1>1. CASE Posts(t)
  <2> DEFINE v == First(New)
             S == Made(v, "placeholder")
             j == [job[t] EXCEPT !.stage = "seal", !.at = v]
  <2>1. /\ job[t].stage = "post" /\ UNCHANGED <<storeVars, tab, loop>>
        /\ \/ New # {} /\ server' = S /\ UNCHANGED faults /\ Continues(t, j)
           \/ Continues(t, NoJob) /\ UNCHANGED <<server, faults>>
           \/ New # {} /\ Fault /\ Continues(t, NoJob) /\ server' = S
    BY <1>1 DEF Posts
  <2>2. New # {} => v \in Vaults /\ Grows(server, S)
    BY FirstNew
  <2>3. Grows(server, server')
    BY <2>1, <2>2, GrowsSame
  <2>4. faults' \in 0 .. MaxFaults
    BY <2>1, BoundsAssumption DEF Fault, Inv
  <2>5. New # {} => JobOK(server', j)
    <3>. HAVE New # {}
    <3>1. /\ j \in Job /\ j.kind = "create" /\ j.stage = "seal" /\ j.at = v /\ j.left = job[t].left
          /\ j.snap = job[t].snap
      BY <2>1, <2>2, Constants DEF JobOK, StageOK, Job
    <3>2. JobOK(server', job[t])
      BY <2>3, Carried
    <3>3. j.left # 0 /\ j.at # 0
      BY <2>1, <2>2, <3>1, Constants DEF JobOK, StageOK
    <3> HIDE DEF j
    <3>. QED
      BY <3>1, <3>2, <3>3 DEF JobOK, StageOK
  <2> HIDE DEF j, S
  <2>6. (Continues(t, j) /\ New # {}) \/ Continues(t, NoJob)
    BY <2>1
  <2>7. /\ job' \in [Tabs -> Job] /\ jobs' \in 0 .. MaxJobs
        /\ \A u \in Tabs : JobOK(server', job'[u])
    BY <1>0, <2>3, <2>5, <2>6, JobStarts
  <2>. QED
    BY <1>0, <2>1, <2>3, <2>4, <2>7 DEF Inv, storeVars, KeepsTokens
<1>2. CASE Reseals(t)
  <2> DEFINE v == job[t].at
             S == [server EXCEPT ![v].blob = "real"]
             On(ok) == [job[t] EXCEPT !.stage = "save", !.ok = ok]
  <2>1. /\ job[t].stage = "seal" /\ UNCHANGED <<storeVars, tab, loop>>
        /\ \/ Exists(v) /\ server' = S /\ Continues(t, On(TRUE)) /\ UNCHANGED faults
           \/ /\ Continues(t, On(FALSE)) /\ (UNCHANGED faults \/ Fault)
              /\ server' = server \/ (Exists(v) /\ server' = S)
    BY <1>2 DEF Reseals
  <2>2. v \in Vaults
    BY <2>1, Constants DEF JobOK, StageOK, Job
  <2>3. Exists(v) => Grows(server, S) /\ S[v].blob = "real"
    BY <2>2 DEF Inv, Grows, ServerOK, Server, Blobs, Exists
  <2>4. Grows(server, server')
    BY <2>1, <2>3, GrowsSame
  <2>5. faults' \in 0 .. MaxFaults
    BY <2>1, BoundsAssumption DEF Fault, Inv
  <2>6. \A ok \in BOOLEAN : (ok => server'[v].blob = "real") => JobOK(server', On(ok))
    <3>. TAKE ok \in BOOLEAN
    <3>. HAVE ok => server'[v].blob = "real"
    <3> DEFINE j == On(ok)
    <3>1. /\ j \in Job /\ j.kind = job[t].kind /\ j.stage = "save" /\ j.at = v /\ j.left = job[t].left
          /\ j.snap = job[t].snap /\ j.ok = ok
      BY DEF Job
    <3>2. JobOK(server', job[t])
      BY <2>4, Carried
    <3>3. j.kind = "create" /\ j.left # 0 /\ j.at # 0
      BY <2>1, <2>2, <3>1, Constants DEF JobOK, StageOK
    <3> HIDE DEF j
    <3>4. JobOK(server', j)
      BY <3>1, <3>2, <3>3 DEF JobOK, StageOK
    <3>. QED
      BY <3>4 DEF j
  <2>7. PICK ok \in BOOLEAN : Continues(t, On(ok)) /\ (ok => server'[v].blob = "real")
    BY <2>1, <2>3
  <2>8. JobOK(server', On(ok))
    BY <2>6, <2>7
  <2> HIDE DEF On, S
  <2>9. /\ job' \in [Tabs -> Job] /\ jobs' \in 0 .. MaxJobs
        /\ \A u \in Tabs : JobOK(server', job'[u])
    BY <2>4, <2>7, <2>8, JobStarts
  <2>. QED
    BY <1>0, <2>1, <2>4, <2>5, <2>9 DEF Inv, storeVars, KeepsTokens
<1>3. CASE Saves(t)
  <2> DEFINE j == job[t]
             made == [held |-> "yes", token |-> TRUE, lock |-> IF j.ok THEN "real" ELSE "none",
                      valid |-> j.ok, group |-> j.gid]
             saved == {v \in j.todo : disk[v].held = "yes"} \cup {j.at}
             row == [v \in Vaults |-> IF v = j.at THEN made ELSE [disk[v] EXCEPT !.group = j.gid]]
             d == [v \in Vaults |-> IF v \in saved THEN AtRest(row[v]) ELSE disk[v]]
             live == {v \in saved : ToSession(row[v])}
             tb == [tab[t] EXCEPT !.live = @ \cup live]
             shows == [NoJob EXCEPT !.kind = "create", !.stage = "done"]
             next == [j EXCEPT !.stage = "post", !.left = @ - 1]
  <2>1. /\ j.stage = "save" /\ Writes(t, tb, d, j.at) /\ UNCHANGED <<server, expired, loop, faults>>
        /\ Continues(t, IF tb.form THEN shows ELSE IF LastHeir(j) THEN NoJob ELSE next)
    BY <1>3 DEF Saves
  <2>2. j.at \in Vaults /\ j.at \in 0 .. N /\ (j.ok => server[j.at].blob = "real") /\ saved \subseteq Vaults
    BY <2>1, Constants DEF JobOK, StageOK, Job
  <2>3. made \in Row
    BY DEF Job, Row, Blobs
  <2>4. ASSUME NEW v \in Vaults
        PROVE  /\ row[v] \in Row
               /\ (row[v].lock = "real" \/ row[v].valid) => server[v].blob = "real"
               /\ disk[v].token => row[v].token
    BY <2>2, <2>3 DEF Inv, RowsOK, Row, Job
  <2> HIDE DEF made, row, saved
  <2>5. ASSUME NEW v \in Vaults
        PROVE  /\ d[v] \in Row
               /\ (d[v].lock = "real" \/ d[v].valid) => server[v].blob = "real"
               /\ disk[v].token /\ server[v].blob # "real" => d[v].token
    <3>1. CASE v \in saved
      <4>1. d[v] = AtRest(row[v])
        BY <3>1
      <4>. QED
        BY <2>4, <4>1 DEF AtRest, ToSession, Row
    <3>2. CASE v \notin saved
      BY <3>2 DEF Inv, RowsOK
    <3>. QED
      BY <3>1, <3>2
  <2>6. RowsOK(server, d) /\ KeepsTokens(disk, server, d)
    BY <2>5 DEF RowsOK, KeepsTokens
  <2>7. live \subseteq Vaults /\ \A v \in live : server[v].blob = "real"
    BY <2>2, <2>4 DEF ToSession
  <2>8. TabOK(server, tb)
    <3> HIDE DEF live
    <3>. QED
      BY <2>7, TabSteps, Constants DEF Inv
  <2>9. ASSUME ~LastHeir(j)
        PROVE  JobOK(server, next)
    <3>1. j.left \in 0 .. N /\ j.left # 0 /\ j.left # 1 /\ j.kind = "create"
      BY <2>1, <2>9 DEF LastHeir, JobOK, StageOK, Job
    <3>2. j.left - 1 \in 0 .. N /\ j.left - 1 # 0
      BY <3>1, Constants
    <3>3. next \in Job /\ next.kind = "create" /\ next.stage = "post" /\ next.left = j.left - 1
          /\ next.snap = j.snap
      BY <3>1, <3>2 DEF Job
    <3> HIDE DEF next
    <3>. QED
      BY <3>2, <3>3 DEF JobOK, StageOK
  <2>10. JobOK(server, shows) /\ JobOK(server, NoJob)
    <3>1. JobOK(server, NoJob) /\ NoJob \in Job
      BY NothingRuns DEF Inv, JobOK
    <3>2. shows \in Job /\ shows.kind = "create" /\ shows.stage = "done" /\ shows.snap = NoJob.snap
      BY <3>1 DEF Job
    <3>. QED
      BY <3>1, <3>2 DEF JobOK, StageOK
  <2> HIDE DEF next, shows, tb, d, live, j
  <2>11. PICK k : JobOK(server, k) /\ Continues(t, k)
    BY <2>1, <2>9, <2>10
  <2>12. /\ disk' = d /\ active' = j.at
         /\ tab' \in [Tabs -> Tab] /\ \A u \in Tabs : TabOK(server, tab'[u])
    BY <2>1, <2>2, <2>8, WritesKeepsTabs DEF Inv
  <2>. QED
    BY <2>1, <2>2, <2>6, <2>11, <2>12, GrowsSame, JobStarts DEF Inv
<1>4. CASE SetupLegacy(t)
  <2> DEFINE v == First(New)
             S == Made(v, "none")
             r == [NoRow EXCEPT !.held = "yes", !.token = TRUE]
             d == [disk EXCEPT ![v] = r]
  <2>1. /\ New # {} /\ Submits(t, NoJob) /\ server' = S /\ UNCHANGED <<expired, loop>>
        /\ (faults' = faults /\ Writes(t, tab[t], d, v)) \/ (Fault /\ UNCHANGED <<disk, active, tab>>)
    BY <1>4 DEF SetupLegacy
  <2>2. v \in Vaults /\ v \in 0 .. N /\ Grows(server, S)
    BY <2>1, FirstNew, Constants
  <2>3. faults' \in 0 .. MaxFaults
    BY <2>1, BoundsAssumption DEF Fault, Inv
  <2> HIDE DEF S
  <2>4. RowsOK(S, d) /\ KeepsTokens(disk, S, d)
    <3>1. NoRow \in Row /\ NoRow.lock # "real" /\ ~NoRow.valid
      BY <2>2, RowSteps DEF Inv
    <3>2. r \in Row /\ r.lock # "real" /\ ~r.valid /\ r.token
      BY <3>1 DEF Row
    <3> HIDE DEF r
    <3>3. RowsOK(S, disk)
      BY <1>0, <2>2
    <3>. QED
      BY <2>2, <3>2, <3>3 DEF RowsOK, KeepsTokens
  <2> HIDE DEF d, v
  <2>5. /\ job' \in [Tabs -> Job] /\ jobs' \in 0 .. MaxJobs
        /\ \A u \in Tabs : JobOK(S, job'[u])
    BY <1>0, <2>1, <2>2, JobStarts
  <2>6. /\ disk' \in {d, disk} /\ active' \in 0 .. N
        /\ tab' \in [Tabs -> Tab] /\ \A u \in Tabs : TabOK(S, tab'[u])
    BY <1>0, <2>1, <2>2, WritesKeepsTabs DEF Inv
  <2>. QED
    BY <1>0, <2>1, <2>2, <2>3, <2>4, <2>5, <2>6 DEF Inv, KeepsTokens
<1>. QED
  BY <1>1, <1>2, <1>3, <1>4

-----------------------------------------------------------------------------
(* Dropping vaults.                                                         *)

\* A row is taken off the device when the server has deleted its vault.
LEMMA RemovalIsOK ==
  ASSUME Inv, NEW S, Grows(server, S), server' = S, NEW t \in Tabs, NEW v \in Vaults, S[v].row = "gone",
         NEW tb, TabOK(S, tb), NEW a \in 0 .. N, Writes(t, tb, Dropped(v), a)
  PROVE  /\ RowsOK(S, disk') /\ KeepsTokens(disk, S, disk') /\ active' \in 0 .. N
         /\ tab' \in [Tabs -> Tab] /\ \A u \in Tabs : TabOK(S, tab'[u])
<1>1. RowsOK(S, Dropped(v)) /\ \A w \in Vaults : w # v => Dropped(v)[w] = disk[w]
  BY DroppedIsOK, Carried DEF Inv
<1>2. \A u \in Tabs : TabOK(S, tab[u])
  BY Carried DEF Inv
<1>3. /\ disk' = Dropped(v) /\ active' = a
      /\ tab' \in [Tabs -> Tab] /\ \A u \in Tabs : TabOK(S, tab'[u])
  BY <1>2, WritesKeepsTabs
<1>. QED
  BY <1>1, <1>3 DEF KeepsTokens

LEMMA RefreshedIsOK ==
  ASSUME Inv, server' = server, NEW t \in Tabs, Refreshed(t)
  PROVE  /\ RowsOK(server, disk') /\ KeepsTokens(disk, server, disk') /\ active' \in 0 .. N
         /\ tab' \in [Tabs -> Tab] /\ \A u \in Tabs : TabOK(server, tab'[u])
<1> DEFINE v == tab[t].shown
           tb == Forgotten(tab[t], v)
<1>1. CASE v # 0 /\ server[v].row = "gone"
  <2>1. v \in Vaults
    BY <1>1, Constants DEF Inv, TabOK, Tab
  <2>2. TabOK(server, tb) /\ Repointed(v) \in 0 .. N
    BY <2>1, DroppedIsOK DEF Inv
  <2> HIDE DEF tb
  <2>3. TabOK(server, Unmounted(tb))
    BY <2>2, TabSteps
  <2>4. Writes(t, Unmounted(tb), Dropped(v), Repointed(v))
    BY <1>1 DEF Refreshed, tb
  <2>. QED
    BY <1>1, <2>1, <2>2, <2>3, <2>4, GrowsSame, RemovalIsOK
<1>2. CASE ~(v # 0 /\ server[v].row = "gone")
  BY <1>2 DEF Refreshed, Inv, KeepsTokens
<1>. QED
  BY <1>1, <1>2

LEMMA AskingActions ==
  ASSUME Inv, NEW t \in Tabs,
         \/ \E v \in Vaults : RemoveHeir(t, v) \/ Select(t, v)
         \/ CloseVault(t) \/ Checkin(t) \/ Attempts(t)
  PROVE  Inv' /\ disk' = disk /\ server' = server
<1>. Grows(server, server) /\ JobOK(server, job[t]) /\ job[t] \in Job /\ tab[t].group \subseteq Vaults
  BY GrowsSame DEF Inv, TabOK, Tab
<1>0. NoJob \in Job /\ JobOK(server, NoJob)
  BY NothingRuns DEF Inv, JobOK
<1>1. ASSUME NEW kind \in {"delete", "checkin"}, NEW todo \in SUBSET Vaults, todo # {},
             NEW got \in SUBSET Vaults
      PROVE  JobOK(server, [NoJob EXCEPT !.kind = kind, !.stage = "sent", !.todo = todo, !.got = got])
  <2> DEFINE j == [NoJob EXCEPT !.kind = kind, !.stage = "sent", !.todo = todo, !.got = got]
  <2>1. j \in Job /\ j.kind = kind /\ j.stage = "sent" /\ j.todo = todo /\ j.snap = NoJob.snap
    BY <1>0 DEF Job
  <2> HIDE DEF j
  <2>2. JobOK(server, j)
    BY <1>0, <1>1, <2>1 DEF JobOK, StageOK
  <2>. QED
    BY <2>2 DEF j
<1>2. NoJob.got = {}
  BY DEF NoJob
<1>3. ASSUME NEW kind \in {"delete", "checkin"}, NEW todo \in SUBSET Vaults, todo # {}
      PROVE  JobOK(server, [NoJob EXCEPT !.kind = kind, !.stage = "sent", !.todo = todo])
  <2>1. [NoJob EXCEPT !.kind = kind, !.stage = "sent", !.todo = todo, !.got = {}]
          = [NoJob EXCEPT !.kind = kind, !.stage = "sent", !.todo = todo]
    BY <1>0, <1>2 DEF Job
  <2>. QED
    BY <1>1, <1>3, <2>1
<1>4. ASSUME NEW v \in Vaults, RemoveHeir(t, v)
      PROVE  Inv' /\ disk' = disk /\ server' = server
  <2> DEFINE j == [NoJob EXCEPT !.kind = "delete", !.stage = "sent", !.todo = {v}, !.got = tab[t].group \ {v}]
  <2>1. JobOK(server, j)
    BY <1>1
  <2> HIDE DEF j
  <2>2. Submits(t, j) /\ UNCHANGED <<server, storeVars, tab, loop, faults>>
    BY <1>4 DEF RemoveHeir, j
  <2>. QED
    BY <2>1, <2>2, JobStarts DEF Inv, storeVars
<1>5. ASSUME NEW v \in Vaults, Select(t, v)
      PROVE  Inv' /\ disk' = disk /\ server' = server
  <2>1. TabOK(server, Booted(tab[t], "owner", disk, v)) /\ v \in 0 .. N
    BY BootedIsOK, Constants DEF Inv
  <2>. QED
    BY <1>5, <2>1, ReloadedIsOK DEF Select, Inv
<1>6. CASE CloseVault(t)
  <2> DEFINE j == [NoJob EXCEPT !.kind = "delete", !.stage = "sent", !.todo = tab[t].group]
  <2>1. JobOK(server, j)
    BY <1>3, <1>6 DEF CloseVault
  <2> HIDE DEF j
  <2>2. Submits(t, j) /\ UNCHANGED <<server, storeVars, tab, loop, faults>>
    BY <1>6 DEF CloseVault, j
  <2>. QED
    BY <2>1, <2>2, JobStarts DEF Inv, storeVars
<1>7. CASE Checkin(t)
  <2> DEFINE j == [NoJob EXCEPT !.kind = "checkin", !.stage = "sent", !.todo = tab[t].group]
  <2>1. JobOK(server, j)
    BY <1>3, <1>7 DEF Checkin
  <2> HIDE DEF j
  <2>2. Submits(t, j) /\ UNCHANGED <<server, storeVars, tab, loop, faults>>
    BY <1>7 DEF Checkin, j
  <2>. QED
    BY <2>1, <2>2, JobStarts DEF Inv, storeVars
<1>8. CASE Attempts(t)
  <2> DEFINE v == First(job[t].todo)
             stage == IF job[t].todo = {v} THEN "refresh" ELSE "sent"
             j == [job[t] EXCEPT !.todo = @ \ {v}, !.got = @ \cup {v}, !.stage = stage]
  <2>1. /\ job[t].kind = "checkin" /\ Continues(t, j)
        /\ UNCHANGED <<server, storeVars, tab, loop, faults>> /\ job[t].stage = "sent"
    BY <1>8 DEF Attempts
  <2>2. v \in job[t].todo /\ v \in Vaults
    BY <2>1, FirstIsIn DEF JobOK, StageOK, Job
  <2>3. /\ j \in Job /\ j.kind = "checkin" /\ j.todo = job[t].todo \ {v} /\ j.snap = job[t].snap
        /\ j.stage = stage /\ j.stage \in {"refresh", "sent"}
    BY <2>1, <2>2 DEF Job
  <2>4. j.stage = "sent" => j.todo # {}
    BY <2>2, <2>3
  <2> HIDE DEF j
  <2>5. StageOK(j)
    BY <2>3, <2>4 DEF StageOK
  <2>6. JobOK(server, j)
    BY <2>3, <2>5 DEF JobOK
  <2>. QED
    BY <2>1, <2>6, JobStarts DEF Inv, storeVars
<1>. QED
  BY <1>4, <1>5, <1>6, <1>7, <1>8

LEMMA AnsweredActions ==
  ASSUME Inv, NEW t \in Tabs, DeleteServed(t) \/ DeleteHeard(t) \/ Refresh(t) \/ CheckinEnds(t)
  PROVE  Inv' /\ KeepsTokens(disk, server', disk')
<1>. Grows(server, server) /\ JobOK(server, job[t]) /\ job[t] \in Job
  BY GrowsSame DEF Inv
<1>0. NoJob \in Job /\ JobOK(server, NoJob)
  BY NothingRuns DEF Inv, JobOK
<1>1. CASE DeleteServed(t)
  <2> DEFINE v == First(job[t].todo)
             S == [server EXCEPT ![v].row = "gone"]
             Says(answer) == [job[t] EXCEPT !.stage = answer]
  <2>1. /\ job[t].kind = "delete" /\ UNCHANGED <<storeVars, tab, loop>>
        /\ \/ server' = S /\ Continues(t, Says("ok")) /\ UNCHANGED faults
           \/ server' \in {server, S} /\ Continues(t, Says("refused")) /\ (UNCHANGED faults \/ Fault)
    BY <1>1 DEF DeleteServed
  <2>2. v \in Vaults
    BY <2>1, FirstIsIn DEF JobOK, StageOK, Job
  <2>3. Grows(server, S) /\ S[v].row = "gone"
    BY <2>2 DEF Inv, Grows, ServerOK, Server
  <2>4. Grows(server, server')
    BY <2>1, <2>3
  <2>5. faults' \in 0 .. MaxFaults
    BY <2>1, BoundsAssumption DEF Fault, Inv
  <2>6. ASSUME NEW a \in {"ok", "refused"}, a = "ok" => server' = S
        PROVE  JobOK(server', Says(a))
    <3> DEFINE j == Says(a)
    <3>1. /\ j \in Job /\ j.kind = "delete" /\ j.stage = a /\ j.todo = job[t].todo /\ j.snap = job[t].snap
      BY <2>1 DEF Job
    <3>2. JobOK(server', job[t])
      BY <2>4, Carried
    <3>3. a = "ok" => server'[First(j.todo)].row = "gone"
      BY <2>3, <2>6, <3>1
    <3> HIDE DEF j
    <3>4. JobOK(server', j)
      BY <2>1, <3>1, <3>2, <3>3 DEF JobOK, StageOK
    <3>. QED
      BY <3>4 DEF j
  <2>7. PICK a \in {"ok", "refused"} : Continues(t, Says(a)) /\ (a = "ok" => server' = S)
    BY <2>1
  <2>8. JobOK(server', Says(a))
    BY <2>6, <2>7
  <2> HIDE DEF Says, S
  <2>9. /\ job' \in [Tabs -> Job] /\ jobs' \in 0 .. MaxJobs
        /\ \A u \in Tabs : JobOK(server', job'[u])
    BY <2>4, <2>7, <2>8, JobStarts
  <2>. QED
    BY <2>1, <2>4, <2>5, <2>9, Carried DEF Inv, storeVars, Grows, KeepsTokens
<1>2. CASE DeleteHeard(t)
  <2> DEFINE j == job[t]
             v == First(j.todo)
             d == Dropped(v)
             tb == Forgotten(tab[t], v)
             next == [j EXCEPT !.todo = @ \ {v}, !.stage = "sent"]
  <2>1. j.stage \in {"ok", "refused"} /\ UNCHANGED <<server, expired, faults>>
    BY <1>2 DEF DeleteHeard
  <2>2. CASE j.stage = "refused"
    BY <1>0, <1>2, <2>1, <2>2, JobStarts DEF DeleteHeard, Stands, Inv, KeepsTokens
  <2>3. CASE j.stage = "ok"
    <3>1. j.kind = "delete" /\ j.todo # {} /\ v \in j.todo /\ v \in Vaults /\ server[v].row = "gone"
      BY <2>3, FirstIsIn DEF JobOK, StageOK, Job
    <3>2. TabOK(server, tb) /\ Repointed(v) \in 0 .. N
      BY <3>1, DroppedIsOK DEF Inv
    <3>3. tb.at \in {"closed", "public", "owner"} /\ tab[t].at \in {"closed", "public", "owner"}
      BY <3>2 DEF TabOK, Tab, Inv
    <3>4. \A a \in 0 .. N : TabOK(server, Booted(tb, tab[t].at, d, a))
      BY <3>2, <3>3, BootedIsOK
    <3>5. TabOK(server, Unmounted(tb))
      BY <3>2, TabSteps
    <3>6. j.got # {} => First(j.got) \in 0 .. N
      BY FirstIsIn, Constants DEF Job
    <3>7. Rows(d) # {} => First(Rows(d)) \in 0 .. N
      <4>1. Rows(d) \subseteq Vaults
        BY DEF Rows
      <4> HIDE DEF d
      <4>. QED
        BY <4>1, FirstIsIn, Constants
    <3>8. JobOK(server, next) \/ j.todo = {v}
      <4>. SUFFICES ASSUME j.todo # {v} PROVE JobOK(server, next)
        OBVIOUS
      <4>1. next \in Job /\ next.kind = "delete" /\ next.stage = "sent" /\ next.todo = j.todo \ {v}
            /\ next.snap = j.snap
        BY <3>1 DEF Job
      <4>2. next.todo # {}
        BY <3>1, <4>1
      <4> HIDE DEF next
      <4>. QED
        BY <4>1, <4>2 DEF JobOK, StageOK
    <3>9. /\ LoopOK(server, NoLoop) /\ LoopOK(server, loop[t]) /\ NoLoop \in Loop
          /\ loop = [loop EXCEPT ![t] = loop[t]] /\ loop[t] \in Loop
      BY NothingRuns DEF Inv, LoopOK
    <3>10. ASSUME NEW w, TabOK(server, w), NEW a \in 0 .. N, Writes(t, w, d, a),
                  NEW k, JobOK(server, k), Continues(t, k),
                  NEW l, LoopOK(server, l), loop' = [loop EXCEPT ![t] = l]
           PROVE  Inv' /\ KeepsTokens(disk, server', disk')
      <4>1. /\ RowsOK(server, disk') /\ KeepsTokens(disk, server, disk') /\ active' \in 0 .. N
            /\ tab' \in [Tabs -> Tab] /\ \A u \in Tabs : TabOK(server, tab'[u])
        BY <2>1, <3>1, <3>10, RemovalIsOK
      <4>2. /\ job' \in [Tabs -> Job] /\ jobs' \in 0 .. MaxJobs
            /\ \A u \in Tabs : JobOK(server, job'[u])
        BY <3>10, JobStarts
      <4>3. loop' \in [Tabs -> Loop] /\ \A u \in Tabs : LoopOK(server, loop'[u])
        BY <3>10 DEF Inv, LoopOK
      <4>. QED
        BY <2>1, <4>1, <4>2, <4>3 DEF Inv
    <3>11. CASE j.todo # {v}
      <4>1. Writes(t, tb, d, Repointed(v)) /\ loop' = loop /\ Continues(t, next)
        BY <1>2, <2>3, <3>11 DEF DeleteHeard, Stands
      <4> HIDE DEF tb, next, d
      <4>. QED
        BY <3>2, <3>8, <3>9, <3>10, <3>11, <4>1
    <3>12. ASSUME NEW a \in 0 .. N, Reopens(t, d, a)
           PROVE  Inv' /\ KeepsTokens(disk, server', disk')
      <4>1. /\ Writes(t, Booted(tb, tab[t].at, d, a), d, a) /\ Continues(t, NoJob)
            /\ loop' = [loop EXCEPT ![t] = NoLoop]
        BY <3>12 DEF Reopens
      <4> HIDE DEF tb, d
      <4>. QED
        BY <1>0, <3>4, <3>9, <3>10, <4>1
    <3>13. CASE /\ j.todo = {v}
                /\ Writes(t, Unmounted(tb), d, Repointed(v)) /\ loop' = loop /\ Continues(t, NoJob)
      <4> HIDE DEF tb, d
      <4>. QED
        BY <1>0, <3>2, <3>5, <3>9, <3>10, <3>13
    <3>14. \/ j.todo # {v}
           \/ j.got # {} /\ Reopens(t, d, First(j.got))
           \/ Rows(d) # {} /\ Reopens(t, d, First(Rows(d)))
           \/ /\ j.todo = {v}
              /\ Writes(t, Unmounted(tb), d, Repointed(v)) /\ loop' = loop /\ Continues(t, NoJob)
      BY <1>2, <2>3 DEF DeleteHeard, Stands
    <3> HIDE DEF tb, d, next
    <3>. QED
      BY <3>6, <3>7, <3>11, <3>12, <3>13, <3>14
  <2>. QED
    BY <2>1, <2>2, <2>3
<1>3. CASE Refresh(t)
  BY <1>3, RefreshedIsOK DEF Refresh, Inv
<1>4. CASE CheckinEnds(t)
  BY <1>0, <1>4, RefreshedIsOK, JobStarts DEF CheckinEnds, Inv
<1>. QED
  BY <1>1, <1>2, <1>3, <1>4
-----------------------------------------------------------------------------
(* The steps together.                                                      *)

LEMMA WorldActions ==
  ASSUME Inv, World
  PROVE  Inv' /\ KeepsTokens(disk, server', disk')
<1>1. PICK v \in Vaults : Claimed(v) \/ DropsElsewhere(v)
  BY DEF World
<1>2. UNCHANGED <<storeVars, tab, loop, job, jobs, faults>>
  BY <1>1 DEF Claimed, DropsElsewhere
<1>3. Grows(server, server')
  BY <1>1 DEF Claimed, DropsElsewhere, Exists, Inv, Grows, ServerOK, Server
<1>. QED
  BY <1>2, <1>3, Carried DEF Inv, storeVars, Grows, KeepsTokens

\* A vault that is sealed stays sealed, and one that has a password keeps it.
LEMMA SealsStay ==
  ASSUME Inv, [Next]_vars, NEW v \in Vaults, server[v].blob # "none"
  PROVE  server'[v].blob \in {server[v].blob, "real"}
<1>. server \in [Vaults -> Server] /\ ServerOK(server)
  BY DEF Inv, ServerOK
<1>1. CASE World
  <2>1. \E w \in Vaults, r \in {"claimed", "gone"} : server' = [server EXCEPT ![w].row = r]
    BY <1>1 DEF World, Claimed, DropsElsewhere
  <2>. QED
    BY <2>1 DEF Server
<1>2. ASSUME NEW t \in Tabs, Posts(t) \/ SetupLegacy(t)
      PROVE  server'[v].blob \in {server[v].blob, "real"}
  <2> DEFINE w == First(New)
  <2>1. server' = server \/ (New # {} /\ \E b : server' = Made(w, b))
    BY <1>2 DEF Posts, SetupLegacy
  <2>2. CASE New # {}
    <3>1. w \in New
      BY <2>2, FirstIsIn DEF New
    <3>2. v # w
      BY <3>1 DEF New, ServerOK
    <3> HIDE DEF w
    <3>. QED
      BY <2>1, <3>2 DEF Made
  <2>. QED
    BY <2>1, <2>2
<1>3. ASSUME NEW t \in Tabs, Reseals(t) \/ UnlockRepairs(t) \/ DeleteServed(t)
      PROVE  server'[v].blob \in {server[v].blob, "real"}
  <2>1. \E w : \/ server' \in {server, [server EXCEPT ![w].blob = "real"]}
               \/ server' \in {server, [server EXCEPT ![w].row = "gone"]}
    BY <1>3 DEF Reseals, UnlockRepairs, DeleteServed
  <2>. QED
    BY <2>1 DEF Server
<1>4. CASE \/ Expire \/ UNCHANGED vars
           \/ \E t \in Tabs : \/ Opening(t) \/ Close(t) \/ Locking(t)
                              \/ UnlockTrustedDevice(t) \/ UnlockSeeds(t) \/ UnlockOpens(t)
                              \/ LinkOpened(t) \/ SignInOpens(t) \/ WrongPassword(t)
                              \/ \E heirs \in 1 .. N : Activate(t, heirs)
                              \/ AddHeir(t) \/ Saves(t) \/ Done(t) \/ CheckingIn(t)
                              \/ \E w \in Vaults : RemoveHeir(t, w) \/ Select(t, w)
                              \/ CloseVault(t) \/ DeleteHeard(t) \/ Refresh(t)
  <2>1. server' = server
    BY <1>4 DEF Expire, vars, Opening, Boot, Go, Close, Locking, LockStart, LockAnswered,
                UnlockTrustedDevice, UnlockSeeds, UnlockOpens, LinkOpened, SignInOpens,
                WrongPassword, Activate, AddHeir, Saves, Done, CheckingIn, Checkin, Attempts,
                CheckinEnds, RemoveHeir, Select, CloseVault, DeleteHeard, Refresh
  <2>. QED
    BY <2>1
<1>. QED
  BY <1>1, <1>2, <1>3, <1>4 DEF Next, Device, SigningIn, Making, Dropping

\* The inductive step, and what every step keeps but the group sign-in.
LEMMA EveryStep ==
  ASSUME Inv, [Next]_vars
  PROVE  /\ Inv'
         /\ \A v \in Vaults : disk[v].token /\ server'[v].blob # "real" /\ server'[v].row # "gone"
                              /\ ~disk'[v].token => OverwritesKey(v)
<1>1. CASE Inv' /\ KeepsTokens(disk, server', disk')
  BY <1>1 DEF KeepsTokens
<1>2. CASE Inv' /\ disk' = disk
  BY <1>2
<1>3. CASE UNCHANGED vars
  BY <1>2, <1>3 DEF vars, storeVars, Inv
<1>4. CASE World
  BY <1>1, <1>4, WorldActions
<1>5. CASE Expire \/ \E t \in Tabs : Opening(t) \/ Close(t)
  BY <1>2, <1>5, TabActions
<1>6. ASSUME NEW t \in Tabs, Locking(t)
      PROVE  Inv' /\ KeepsTokens(disk, server', disk')
  BY <1>6, LockActions
<1>7. ASSUME NEW t \in Tabs, SigningIn(t)
      PROVE  /\ Inv'
             /\ \A v \in Vaults : disk[v].token /\ server'[v].blob # "real" /\ server'[v].row # "gone"
                                  /\ ~disk'[v].token => OverwritesKey(v)
  BY <1>1, <1>7, UnlockActions, LinkActions DEF SigningIn
<1>8. ASSUME NEW t \in Tabs, Making(t)
      PROVE  (Inv' /\ KeepsTokens(disk, server', disk')) \/ (Inv' /\ disk' = disk)
  BY <1>8, FormActions, MakingActions DEF Making
<1>9. ASSUME NEW t \in Tabs, Dropping(t) \/ CheckingIn(t)
      PROVE  (Inv' /\ KeepsTokens(disk, server', disk')) \/ (Inv' /\ disk' = disk)
  BY <1>9, AskingActions, AnsweredActions DEF Dropping, CheckingIn
<1>. QED
  BY <1>1, <1>2, <1>3, <1>4, <1>5, <1>6, <1>7, <1>8, <1>9 DEF Next, Device

LEMMA InvInit == Init => Inv
<1>. SUFFICES ASSUME Init PROVE Inv
  OBVIOUS
<1>1. PICK e \in 0 .. N, here \in BOOLEAN, blob \in [Vaults -> {"placeholder", "real"}], gid \in {0, 1} :
        /\ server = [v \in Vaults |-> IF v > e THEN [row |-> "none", blob |-> "none"]
                                      ELSE [row |-> "live", blob |-> blob[v]]]
        /\ disk = [v \in Vaults |-> IF v > e \/ ~here THEN NoRow
                     ELSE [NoRow EXCEPT !.held = "yes", !.token = TRUE, !.group = gid]]
        /\ active = IF here /\ e > 0 THEN 1 ELSE 0
  BY DEF Init
<1>2. ServerOK(server)
  BY <1>1 DEF ServerOK, Server, Blobs
<1>3. 0 \in 0 .. N /\ 1 \in 0 .. N /\ 0 \in 0 .. N + 1 /\ 1 \in 0 .. N + 1
  BY Constants
<1>4. NoRow \in Row /\ NoRow.lock # "real" /\ ~NoRow.valid
  BY <1>3 DEF NoRow, Row, Blobs
<1>5. ASSUME NEW g \in {0, 1}
      PROVE  /\ [NoRow EXCEPT !.held = "yes", !.token = TRUE, !.group = g] \in Row
             /\ [NoRow EXCEPT !.held = "yes", !.token = TRUE, !.group = g].lock # "real"
             /\ ~[NoRow EXCEPT !.held = "yes", !.token = TRUE, !.group = g].valid
  BY <1>3, <1>4 DEF Row
<1>6. RowsOK(server, disk)
  BY <1>1, <1>4, <1>5 DEF RowsOK
<1>7. active \in 0 .. N
  BY <1>1, <1>3
<1>8. [at |-> "closed", locked |-> FALSE, live |-> {}, shown |-> 0, group |-> {}, form |-> FALSE] \in Tab
  BY <1>3 DEF Tab
<1>9. tab \in [Tabs -> Tab] /\ \A t \in Tabs : TabOK(server, tab[t])
  BY <1>8 DEF Init, TabOK
<1>10. loop \in [Tabs -> Loop] /\ \A t \in Tabs : LoopOK(server, loop[t])
  BY <1>2, NothingRuns DEF Init, LoopOK
<1>11. job \in [Tabs -> Job] /\ \A t \in Tabs : JobOK(server, job[t])
  <2>1. JobOK(server, NoJob)
    BY <1>2, NothingRuns
  <2>2. NoJob \in Job
    BY <2>1 DEF JobOK
  <2>3. job = [t \in Tabs |-> NoJob]
    BY DEF Init
  <2>. QED
    BY <2>1, <2>2, <2>3
<1>12. expired \in BOOLEAN /\ jobs \in 0 .. MaxJobs /\ faults \in 0 .. MaxFaults
  <2>1. expired \in BOOLEAN
    BY DEF Init
  <2>2. jobs = 0 /\ faults = 0
    BY DEF Init
  <2>3. 0 \in 0 .. MaxJobs /\ 0 \in 0 .. MaxFaults
    BY BoundsAssumption
  <2>. QED
    BY <2>1, <2>2, <2>3
<1>. QED
  BY <1>2, <1>6, <1>7, <1>9, <1>10, <1>11, <1>12 DEF Inv

LEMMA InvAlways == Spec => []Inv
<1>1. Inv /\ [Next]_vars => Inv'
  BY EveryStep
<1>. QED
  BY <1>1, InvInit, PTL DEF Spec

-----------------------------------------------------------------------------
(* The theorems.                                                            *)

\* Every variable keeps its type, and jobs and faults their bounds, for every number of tabs,
\* vaults, forms and faults.
THEOREM TypesAreKept == Spec => []TypeOK
<1>1. Inv => TypeOK
  BY DEF Inv, TypeOK, ServerOK, RowsOK
<1>. QED
  BY <1>1, InvAlways, PTL

\* A token that lives in a session, which dies with its tab, is sealed at the server under the
\* password, so closing the tab loses nothing.
THEOREM SessionsAreSealed == Spec => []LiveIsSealed
<1>1. Inv => LiveIsSealed
  BY DEF Inv, LiveIsSealed, TabOK
<1>. QED
  BY <1>1, InvAlways, PTL

\* Nothing but the group sign-in throws away the only copy of the key to a vault that exists,
\* however the tabs, the lock loops, the forms and the failures of their calls interleave.
THEOREM OnlySignInLosesKeys == Spec => KeysAreKept
<1>1. ASSUME Inv, [Next]_vars
      PROVE  [\A v \in Vaults : Recoverable(v) /\ server'[v].row # "gone" /\ ~OverwritesKey(v)
                                => Recoverable(v)']_vars
  <2>. SUFFICES ASSUME NEW v \in Vaults, Recoverable(v), server'[v].row # "gone", ~OverwritesKey(v)
                PROVE  Recoverable(v)'
    OBVIOUS
  <2>1. CASE disk[v].token /\ server[v].blob # "real"
    BY <1>1, <2>1, EveryStep DEF Recoverable
  <2>2. CASE server[v].blob = "real"
    BY <1>1, <2>2, SealsStay DEF Recoverable
  <2>3. CASE \E t \in Tabs : v \in tab[t].live
    BY <1>1, <2>2, <2>3 DEF Inv, TabOK
  <2>. QED
    BY <2>1, <2>2, <2>3 DEF Recoverable
<1>. QED
  BY <1>1, InvAlways, PTL DEF Spec, KeysAreKept
-----------------------------------------------------------------------------
(* What becomes of a row: it leaves the browser after the server, and what is *)
(* said of its lock is said of a lock that is there.                          *)

ValidLocked(d) == \A v \in Vaults : d[v].valid => d[v].lock # "none"

\* A lock loop waits for the blobs of a vault that has them.
LoopLocked(l) == ValidLocked(l.rows) /\ (l.at # 0 => l.act # 0 /\ Password(l.at))

LockInv == ValidLocked(disk) /\ \A t \in Tabs : LoopLocked(loop[t])

\* A step that only dropped vaults the server has none of, and keeps what is said of locks.
HoldsRows(d, d2) ==
    /\ \A v \in Vaults : d[v].held = "yes" /\ d2[v].held # "yes" => server[v].row = "gone"
    /\ ValidLocked(d2)

LEMMA CachedHolds ==
  ASSUME Inv, ValidLocked(disk), NEW v \in Vaults
  PROVE  /\ HoldsRows(disk, Cached(disk, v)) /\ Cached(disk, v) \in [Vaults -> Row]
         /\ \A w \in Vaults : Cached(disk, v)[w].held = disk[w].held
         /\ Password(v) => \A w \in Vaults : disk[w].lock # "none" => Cached(disk, v)[w].lock # "none"
<1>. disk \in [Vaults -> Row] /\ server[v].blob \in Blobs
  BY DEF Inv, RowsOK, ServerOK, Server
<1>1. CASE disk[v].token
  <2> DEFINE r == [disk[v] EXCEPT !.lock = server[v].blob, !.valid = FALSE]
  <2>1. Cached(disk, v) = [disk EXCEPT ![v] = r]
    BY <1>1 DEF Cached
  <2>2. r \in Row /\ r.held = disk[v].held /\ r.lock = server[v].blob /\ ~r.valid
    BY DEF Row
  <2> HIDE DEF r
  <2>3. /\ Cached(disk, v) \in [Vaults -> Row] /\ Cached(disk, v)[v] = r
        /\ \A w \in Vaults : w # v => Cached(disk, v)[w] = disk[w]
    BY <2>1, <2>2
  <2>4. \A w \in Vaults : Cached(disk, v)[w].held = disk[w].held
    BY <2>2, <2>3
  <2>5. ValidLocked(Cached(disk, v))
    BY <2>2, <2>3 DEF ValidLocked
  <2>. QED
    BY <2>2, <2>3, <2>4, <2>5 DEF HoldsRows, Password
<1>2. CASE ~disk[v].token
  BY <1>2 DEF Cached, HoldsRows
<1>. QED
  BY <1>1, <1>2

Waits(l, act, rows) == Password(l.at) /\ l.act = act /\ l.rows = rows

LEMMA LockRunHolds ==
  ASSUME NEW t \in Tabs, NEW d \in [Vaults -> Row], NEW rows \in [Vaults -> Row], NEW from, NEW act,
         ValidLocked(d), ValidLocked(rows), loop \in [Tabs -> Loop], LockRun(t, d, from, act, rows)
  PROVE  /\ HoldsRows(d, disk')
         /\ \A u \in Tabs : u # t => loop'[u] = loop[u]
         /\ \/ loop'[t] = NoLoop
            \/ Waits(loop'[t], act, rows)
         /\ expired /\ ~expired' => ~HasLock(disk', act)
         /\ \A v \in Vaults : d[v].lock # "none" => disk'[v].lock # "none"
<1> DEFINE mine == {v \in Vaults : /\ v >= from /\ rows[v].held # "no"
                                   /\ Usable(d, tab[t], v) /\ Password(v)}
           waits == {v \in mine : ~HasLock(rows, v)}
           stop == IF waits = {} THEN N + 1 ELSE First(waits)
           swept == {v \in mine : v < stop /\ Sweeps(rows[v])}
           d2 == [v \in Vaults |-> IF v \in swept THEN SealedAway(d[v], rows[v]) ELSE d[v]]
           tb == [tab[t] EXCEPT !.live = @ \ swept]
           locks == stop = N + 1 /\ LocksWith(d2, act)
           tb2 == IF locks THEN Unmounted([tb EXCEPT !.locked = TRUE]) ELSE tb
           l == IF stop = N + 1 THEN NoLoop ELSE [at |-> stop, act |-> act, rows |-> rows]
<1>1. /\ loop' = [loop EXCEPT ![t] = l] /\ Writes(t, tb2, d2, active)
      /\ expired' = (expired /\ (locks \/ stop # N + 1))
  BY DEF LockRun
<1>2. disk' = d2
  BY <1>1 DEF Writes
<1>3. stop # N + 1 => stop \in Vaults /\ Password(stop)
  <2>1. waits \subseteq mine /\ mine \subseteq Vaults
    OBVIOUS
  <2>2. waits # {} => First(waits) \in mine
    BY <2>1, FirstIsIn
  <2>. QED
    BY <2>2
<1>4. \A v \in Vaults : v \in swept => rows[v].valid
  BY DEF Sweeps
<1> HIDE DEF mine, waits, stop, swept
<1>5. ASSUME NEW v \in Vaults
      PROVE  /\ d[v].held = "yes" => d2[v].held = "yes"
             /\ d2[v].valid => d2[v].lock # "none"
             /\ d[v].lock # "none" => d2[v].lock # "none"
  <2>1. CASE v \in swept
    BY <1>4, <2>1 DEF SealedAway, ValidLocked
  <2>2. CASE v \notin swept
    BY <2>2 DEF ValidLocked
  <2>. QED
    BY <2>1, <2>2
<1>6. expired /\ ~expired' => ~HasLock(d2, act)
  BY <1>1 DEF LocksWith
<1> HIDE DEF d2, tb2, locks, tb
<1>7. HoldsRows(d, disk')
  BY <1>2, <1>5 DEF HoldsRows, ValidLocked
<1>8. loop'[t] = NoLoop \/ Waits(loop'[t], act, rows)
  BY <1>1, <1>3 DEF Waits
<1>. QED
  BY <1>1, <1>2, <1>5, <1>6, <1>7, <1>8

LEMMA LoopWaits ==
  ASSUME NEW l, NEW act, NEW rows, act # 0, ValidLocked(rows), l = NoLoop \/ Waits(l, act, rows)
  PROVE  LoopLocked(l)
<1>1. CASE l = NoLoop
  BY <1>1 DEF NoLoop, NoRow, LoopLocked, ValidLocked
<1>2. CASE Waits(l, act, rows)
  BY <1>2 DEF Waits, LoopLocked
<1>. QED
  BY <1>1, <1>2

\* The lock loop.
LEMMA LockingHolds ==
  ASSUME Inv, LockInv, NEW t \in Tabs, Locking(t)
  PROVE  /\ HoldsRows(disk, disk') /\ \A u \in Tabs : LoopLocked(loop'[u])
         /\ expired /\ ~expired' /\ HasLock(disk, active) /\ Sortable(disk) => loop[t].act \notin {0, active}
<1>. /\ disk \in [Vaults -> Row] /\ loop \in [Tabs -> Loop] /\ active \in 0 .. N
     /\ ValidLocked(disk) /\ \A u \in Tabs : LoopLocked(loop[u]) /\ LoopOK(server, loop[u])
  BY DEF Inv, LockInv, RowsOK
<1>1. CASE LockStart(t)
  <2>1. CASE Sortable(disk)
    <3>1. LockRun(t, disk, 1, active, disk) /\ active # 0
      BY <1>1, <2>1 DEF LockStart
    <3>2. /\ HoldsRows(disk, disk') /\ \A u \in Tabs : u # t => loop'[u] = loop[u]
          /\ \/ loop'[t] = NoLoop
             \/ Waits(loop'[t], active, disk)
          /\ expired /\ ~expired' => ~HasLock(disk', active)
          /\ \A v \in Vaults : disk[v].lock # "none" => disk'[v].lock # "none"
      BY <3>1, LockRunHolds
    <3>3. LoopLocked(loop'[t])
      BY <3>1, <3>2, LoopWaits
    <3>4. ~(expired /\ ~expired' /\ HasLock(disk, active))
      BY <3>2, Constants DEF HasLock
    <3>. QED
      BY <3>2, <3>3, <3>4
  <2>2. CASE ~Sortable(disk)
    BY <1>1, <2>2 DEF LockStart, HoldsRows
  <2>. QED
    BY <2>1, <2>2
<1>2. CASE LockAnswered(t)
  <2> DEFINE v == loop[t].at
             act == loop[t].act
             rows == loop[t].rows
  <2>1. v \in Vaults /\ rows \in [Vaults -> Row] /\ ValidLocked(rows) /\ act # 0 /\ Password(v)
    BY <1>2, Constants DEF LockAnswered, LoopOK, Loop, RowsOK, LoopLocked
  <2>2. \E d \in {disk, Cached(disk, v)} : LockRun(t, d, v + 1, act, rows)
    BY <1>2 DEF LockAnswered
  <2>3. PICK d, from : d \in {disk, Cached(disk, v)} /\ LockRun(t, d, from, act, rows)
    BY <2>2
  <2>4. /\ d \in [Vaults -> Row] /\ HoldsRows(disk, d) /\ ValidLocked(d)
        /\ \A w \in Vaults : d[w].held = disk[w].held
        /\ \A w \in Vaults : disk[w].lock # "none" => d[w].lock # "none"
    BY <2>1, <2>3, CachedHolds DEF HoldsRows
  <2> HIDE DEF v, act, rows
  <2>5. /\ HoldsRows(d, disk') /\ \A u \in Tabs : u # t => loop'[u] = loop[u]
        /\ \/ loop'[t] = NoLoop
           \/ Waits(loop'[t], act, rows)
        /\ expired /\ ~expired' => ~HasLock(disk', act)
        /\ \A w \in Vaults : d[w].lock # "none" => disk'[w].lock # "none"
    BY <2>1, <2>3, <2>4, LockRunHolds
  <2>6. LoopLocked(loop'[t])
    BY <2>1, <2>5, LoopWaits
  <2>7. HoldsRows(disk, disk')
    BY <2>4, <2>5 DEF HoldsRows
  <2>8. expired /\ ~expired' /\ HasLock(disk, active) => loop[t].act \notin {0, active}
    <3>1. HasLock(disk, active) => HasLock(disk', active)
      BY <2>4, <2>5, Constants DEF HasLock
    <3>. QED
      BY <2>1, <2>5, <3>1 DEF act
  <2>. QED
    BY <2>5, <2>6, <2>7, <2>8
<1>. QED
  BY <1>1, <1>2 DEF Locking

LEMMA RowHolds ==
  ASSUME disk \in [Vaults -> Row], ValidLocked(disk), NEW v \in Vaults, NEW r \in Row,
         r.valid => r.lock # "none", r.held = "yes" \/ server[v].row = "gone"
  PROVE  HoldsRows(disk, [disk EXCEPT ![v] = r])
  BY DEF HoldsRows, ValidLocked

\* The last lock of an unlock: the tokens are restored where there is a lock.
LEMMA OpensHolds ==
  ASSUME NEW t \in Tabs, job \in [Tabs -> Job], NEW j, NEW d \in [Vaults -> Row], ValidLocked(d),
         Opens(t, j, d)
  PROVE  HoldsRows(d, disk') /\ (expired' # expired => job'[t] = NoJob)
<1>1. CASE disk' = d /\ expired' = expired
  BY <1>1 DEF HoldsRows
<1>2. CASE j.todo # {}
  BY <1>1, <1>2 DEF Opens, Writes
<1>3. CASE j.todo = {}
  <2>1. job'[t] = NoJob /\ Restores(t, j, d)
    BY <1>3 DEF Opens, Continues
  <2>2. CASE \A v \in j.got : HasLock(d, v)
    <3> DEFINE d2 == [v \in Vaults |->
                        IF v \in j.got THEN [d[v] EXCEPT !.token = FALSE, !.valid = TRUE] ELSE d[v]]
    <3>1. disk' = d2 \/ (disk' = d /\ expired' = expired)
      BY <2>1 DEF Restores, Admitted, Writes
    <3>2. \A v \in Vaults : d2[v].held = d[v].held /\ (d2[v].valid => d2[v].lock # "none")
      BY <2>2 DEF HasLock, ValidLocked, Row
    <3> HIDE DEF d2
    <3>3. HoldsRows(d, d2)
      BY <3>2 DEF HoldsRows, ValidLocked
    <3>. QED
      BY <1>1, <2>1, <3>1, <3>3
  <2>3. CASE ~ \A v \in j.got : HasLock(d, v)
    BY <1>1, <2>1, <2>3 DEF Restores, Writes
  <2>. QED
    BY <2>2, <2>3
<1>. QED
  BY <1>2, <1>3

\* The sign-in page and the lock screen.
LEMMA SigningHolds ==
  ASSUME Inv, LockInv, NEW t \in Tabs, SigningIn(t)
  PROVE  HoldsRows(disk, disk') /\ loop' = loop /\ (expired /\ ~expired' => Opened(t))
<1>. /\ disk \in [Vaults -> Row] /\ ValidLocked(disk) /\ HoldsRows(disk, disk)
     /\ job \in [Tabs -> Job] /\ job[t] \in Job /\ JobOK(server, job[t])
  BY DEF Inv, LockInv, RowsOK, HoldsRows
<1>1. CASE UnlockTrustedDevice(t) \/ LinkOpened(t) \/ WrongPassword(t)
  BY <1>1 DEF UnlockTrustedDevice, LinkOpened, WrongPassword, storeVars
<1>2. CASE UnlockSeeds(t)
  <2> DEFINE v == First(job[t].todo)
  <2>1. v \in Vaults
    BY <1>2, FirstIsIn DEF UnlockSeeds, JobOK, StageOK, Job
  <2>2. disk' \in {disk, Cached(disk, v)} /\ expired' = expired /\ loop' = loop
    BY <1>2 DEF UnlockSeeds, Writes
  <2> HIDE DEF v
  <2>3. HoldsRows(disk, Cached(disk, v))
    BY <2>1, CachedHolds
  <2>. QED
    BY <2>2, <2>3
<1>3. CASE UnlockOpens(t)
  <2>1. /\ \/ \E j : Opens(t, j, disk)
           \/ UNCHANGED storeVars
        /\ loop' = loop /\ job[t].kind = "unlock"
    BY <1>3 DEF UnlockOpens
  <2>2. CASE \E j : Opens(t, j, disk)
    BY <2>1, <2>2, OpensHolds DEF Opened
  <2>3. CASE UNCHANGED storeVars
    BY <2>1, <2>3 DEF storeVars
  <2>. QED
    BY <2>1, <2>2, <2>3
<1>4. CASE UnlockRepairs(t)
  <2> DEFINE v == Turn(job[t])
             r == [disk[v] EXCEPT !.lock = "real", !.valid = TRUE]
             d == IF disk[v].token THEN [disk EXCEPT ![v] = r] ELSE disk
  <2>1. v \in Vaults /\ job[t].kind = "unlock"
    BY <1>4, FirstIsIn DEF UnlockRepairs, JobOK, StageOK, Job, Turn
  <2>2. d = IF disk[v].token THEN [disk EXCEPT ![v].lock = "real", ![v].valid = TRUE] ELSE disk
    BY <2>1
  <2>3. /\ \/ \E j : Opens(t, j, d)
           \/ UNCHANGED storeVars
        /\ loop' = loop
    BY <1>4, <2>2 DEF UnlockRepairs
  <2>4. r \in Row /\ r.lock = "real" /\ r.held = disk[v].held
    BY <2>1 DEF Row, Blobs
  <2>5. /\ d \in [Vaults -> Row] /\ ValidLocked(d) /\ \A w \in Vaults : d[w].held = disk[w].held
    <3> HIDE DEF r, v
    <3>1. CASE disk[v].token
      <4>1. d = [disk EXCEPT ![v] = r]
        BY <3>1
      <4> HIDE DEF d
      <4>. QED
        BY <2>1, <2>4, <4>1 DEF ValidLocked
    <3>2. CASE ~disk[v].token
      BY <3>2
    <3>. QED
      BY <3>1, <3>2
  <2> HIDE DEF d
  <2>6. CASE \E j : Opens(t, j, d)
    <3>1. HoldsRows(d, disk') /\ (expired' # expired => job'[t] = NoJob)
      BY <2>5, <2>6, OpensHolds
    <3>2. HoldsRows(disk, disk')
      BY <2>5, <3>1 DEF HoldsRows
    <3>. QED
      BY <2>1, <2>3, <3>1, <3>2 DEF Opened
  <2>7. CASE UNCHANGED storeVars
    BY <2>3, <2>7 DEF storeVars
  <2>. QED
    BY <2>3, <2>6, <2>7
<1>5. CASE SignInOpens(t)
  <2> DEFINE j == job[t]
             v == First(j.todo)
             row == Recovered(j.snap[v], IF Cardinality(Bundles(j)) = 1 THEN 0 ELSE N + 1)
             d == [disk EXCEPT ![v] = AtRest(row)]
  <2>1. /\ j.kind = "signin" /\ loop' = loop
        /\ disk' = disk \/ disk' = d
        /\ expired' = expired \/ job'[t] = NoJob
    BY <1>5 DEF SignInOpens, Admitted, Writes, Continues, storeVars
  <2>2. v \in j.todo /\ v \in Vaults /\ j.snap[v] \in Blobs
    BY <2>1, FirstIsIn DEF JobOK, StageOK, Job
  <2>3. row \in Row /\ row.held = "yes" /\ (row.valid => row.lock # "none")
    <3>1. 0 \in 0 .. N + 1 /\ N + 1 \in 0 .. N + 1
      BY Constants
    <3>. QED
      BY <2>2, <3>1 DEF Recovered, Row, Blobs
  <2> HIDE DEF row, v, j
  <2>4. AtRest(row) \in Row /\ AtRest(row).held = "yes" /\ (AtRest(row).valid => AtRest(row).lock # "none")
    BY <2>3 DEF AtRest, Row
  <2>5. HoldsRows(disk, d)
    BY <2>2, <2>4, RowHolds
  <2> HIDE DEF d
  <2>. QED
    BY <2>1, <2>5 DEF Opened, j
<1>. QED
  BY <1>1, <1>2, <1>3, <1>4, <1>5 DEF SigningIn

\* A loop goes on, or its page is gone.
LoopsGoOn == \A u \in Tabs : loop'[u] \in {loop[u], NoLoop}

\* The setup wizard and Add Heir.
LEMMA MakingHolds ==
  ASSUME Inv, LockInv, NEW t \in Tabs, Making(t)
  PROVE  HoldsRows(disk, disk') /\ LoopsGoOn /\ expired' = expired
<1>. /\ disk \in [Vaults -> Row] /\ ValidLocked(disk) /\ HoldsRows(disk, disk)
     /\ job[t] \in Job /\ JobOK(server, job[t]) /\ loop \in [Tabs -> Loop]
  BY DEF Inv, LockInv, RowsOK, HoldsRows
<1>1. CASE (\E heirs \in 1 .. N : Activate(t, heirs)) \/ AddHeir(t) \/ Posts(t) \/ Reseals(t)
  BY <1>1 DEF Activate, AddHeir, Posts, Reseals, storeVars, LoopsGoOn
<1>2. CASE Done(t)
  BY <1>2 DEF Done, Reloaded, storeVars, LoopsGoOn
<1>3. CASE Saves(t)
  <2> DEFINE j == job[t]
             made == [held |-> "yes", token |-> TRUE, lock |-> IF j.ok THEN "real" ELSE "none",
                      valid |-> j.ok, group |-> j.gid]
             saved == {v \in j.todo : disk[v].held = "yes"} \cup {j.at}
             row == [v \in Vaults |-> IF v = j.at THEN made ELSE [disk[v] EXCEPT !.group = j.gid]]
             d == [v \in Vaults |-> IF v \in saved THEN AtRest(row[v]) ELSE disk[v]]
  <2>1. disk' = d /\ loop' = loop /\ expired' = expired
    BY <1>3 DEF Saves, Writes
  <2>2. made \in Row
    BY DEF Job, Row, Blobs
  <2>3. ASSUME NEW v \in Vaults
        PROVE  /\ row[v] \in Row /\ (disk[v].held = "yes" => row[v].held = "yes")
               /\ row[v].valid => row[v].lock # "none"
    <3>1. CASE v = j.at
      BY <2>2, <3>1
    <3>2. CASE v # j.at
      BY <3>2 DEF Row, Job, ValidLocked
    <3>. QED
      BY <3>1, <3>2
  <2> HIDE DEF row, saved
  <2>4. ASSUME NEW v \in Vaults
        PROVE  /\ disk[v].held = "yes" => d[v].held = "yes"
               /\ d[v].valid => d[v].lock # "none"
    <3>1. CASE v \in saved
      BY <2>3, <3>1 DEF AtRest, Row
    <3>2. CASE v \notin saved
      BY <3>2 DEF ValidLocked
    <3>. QED
      BY <3>1, <3>2
  <2> HIDE DEF d
  <2>. QED
    BY <2>1, <2>4 DEF HoldsRows, ValidLocked, LoopsGoOn
<1>4. CASE SetupLegacy(t)
  <2> DEFINE v == First(New)
             r == [NoRow EXCEPT !.held = "yes", !.token = TRUE]
  <2>1. v \in Vaults
    BY <1>4, FirstIsIn DEF SetupLegacy, New
  <2>2. disk' \in {disk, [disk EXCEPT ![v] = r]} /\ loop' = loop /\ expired' = expired
    BY <1>4 DEF SetupLegacy, Writes
  <2>3. r \in Row /\ ~r.valid /\ r.held = "yes"
    <3>1. 0 \in 0 .. N + 1
      BY Constants
    <3>2. NoRow \in Row /\ ~NoRow.valid
      BY <3>1 DEF NoRow, Row, Blobs
    <3>. QED
      BY <3>2 DEF Row
  <2> HIDE DEF r, v
  <2>4. HoldsRows(disk, [disk EXCEPT ![v] = r])
    BY <2>1, <2>3, RowHolds
  <2>5. HoldsRows(disk, disk')
    BY <2>2, <2>4
  <2>. QED
    BY <2>2, <2>5 DEF LoopsGoOn
<1>. QED
  BY <1>1, <1>2, <1>3, <1>4 DEF Making

LEMMA DroppedHolds ==
  ASSUME disk \in [Vaults -> Row], ValidLocked(disk), NEW v \in Vaults, server[v].row = "gone"
  PROVE  HoldsRows(disk, Dropped(v))
<1>1. NoRow \in Row /\ ~NoRow.valid
  BY Constants DEF NoRow, Row, Blobs
<1>. QED
  BY <1>1, RowHolds DEF Dropped

\* The dashboard.
LEMMA DroppingHolds ==
  ASSUME Inv, LockInv, NEW t \in Tabs, Dropping(t) \/ CheckingIn(t)
  PROVE  HoldsRows(disk, disk') /\ LoopsGoOn /\ expired' = expired
<1>. /\ disk \in [Vaults -> Row] /\ ValidLocked(disk) /\ HoldsRows(disk, disk)
     /\ job[t] \in Job /\ JobOK(server, job[t]) /\ loop \in [Tabs -> Loop]
  BY DEF Inv, LockInv, RowsOK, HoldsRows
<1>1. CASE \/ \E v \in Vaults : RemoveHeir(t, v) \/ Select(t, v)
           \/ CloseVault(t) \/ DeleteServed(t) \/ Checkin(t) \/ Attempts(t)
  BY <1>1 DEF RemoveHeir, Select, Reloaded, CloseVault, DeleteServed, Checkin, Attempts,
              storeVars, LoopsGoOn
<1>2. CASE DeleteHeard(t)
  <2> DEFINE v == First(job[t].todo)
  <2>1. /\ (job[t].stage = "ok" /\ disk' = Dropped(v)) \/ disk' = disk
        /\ LoopsGoOn /\ expired' = expired
    BY <1>2 DEF DeleteHeard, Stands, Reopens, Writes, LoopsGoOn
  <2>2. job[t].stage = "ok" => v \in Vaults /\ server[v].row = "gone"
    BY FirstIsIn DEF JobOK, StageOK, Job
  <2> HIDE DEF v
  <2>. QED
    BY <2>1, <2>2, DroppedHolds
<1>3. CASE Refresh(t) \/ CheckinEnds(t)
  <2> DEFINE v == tab[t].shown
  <2>1. /\ disk' = disk \/ (v # 0 /\ server[v].row = "gone" /\ disk' = Dropped(v))
        /\ loop' = loop /\ expired' = expired
    BY <1>3 DEF Refresh, CheckinEnds, Refreshed, Writes
  <2>2. v # 0 => v \in Vaults
    BY Constants DEF Inv, TabOK, Tab
  <2> HIDE DEF v
  <2>. QED
    BY <2>1, <2>2, DroppedHolds DEF LoopsGoOn
<1>. QED
  BY <1>1, <1>2, <1>3 DEF Dropping, CheckingIn

\* Every step: no row is lost but a deleted vault's, and the session of a vault that can be
\* locked is renewed by the password, or by a loop that began under another vault.
LEMMA StepHolds ==
  ASSUME Inv, LockInv, [Next]_vars
  PROVE  /\ HoldsRows(disk, disk') /\ LockInv'
         /\ expired /\ ~expired' /\ HasLock(disk, active) /\ Sortable(disk) =>
              \E t \in Tabs : Opened(t) \/ (loop[t].act \notin {0, active})
<1> DEFINE Renews == expired /\ ~expired' /\ HasLock(disk, active) /\ Sortable(disk) =>
                       \E t \in Tabs : Opened(t) \/ (loop[t].act \notin {0, active})
<1>. /\ ValidLocked(disk) /\ HoldsRows(disk, disk) /\ loop \in [Tabs -> Loop]
     /\ \A u \in Tabs : LoopLocked(loop[u])
  BY DEF Inv, LockInv, HoldsRows
<1>0. LoopLocked(NoLoop)
  BY DEF NoLoop, NoRow, LoopLocked, ValidLocked
<1>1. LoopsGoOn => \A u \in Tabs : LoopLocked(loop'[u])
  BY <1>0 DEF LoopsGoOn
<1>2. HoldsRows(disk, disk') /\ (\A u \in Tabs : LoopLocked(loop'[u])) /\ Renews
  <2>1. CASE \/ World \/ Expire \/ UNCHANGED vars
             \/ \E t \in Tabs : Opening(t) \/ Close(t)
    <3>1. disk' = disk /\ LoopsGoOn /\ (expired' = expired \/ expired')
      BY <2>1 DEF World, Claimed, DropsElsewhere, Expire, Opening, Boot, Go, Close, Reloaded,
                  LoopsGoOn, storeVars, vars
    <3>. QED
      BY <1>1, <3>1
  <2>2. ASSUME NEW t \in Tabs, Locking(t)
        PROVE  HoldsRows(disk, disk') /\ (\A u \in Tabs : LoopLocked(loop'[u])) /\ Renews
    BY <2>2, LockingHolds
  <2>3. ASSUME NEW t \in Tabs, SigningIn(t)
        PROVE  HoldsRows(disk, disk') /\ (\A u \in Tabs : LoopLocked(loop'[u])) /\ Renews
    BY <2>3, SigningHolds
  <2>4. ASSUME NEW t \in Tabs, Making(t) \/ Dropping(t) \/ CheckingIn(t)
        PROVE  HoldsRows(disk, disk') /\ (\A u \in Tabs : LoopLocked(loop'[u])) /\ Renews
    BY <1>1, <2>4, MakingHolds, DroppingHolds
  <2> HIDE DEF Renews
  <2>. QED
    BY <2>1, <2>2, <2>3, <2>4 DEF Next, Device
<1>3. ASSUME NEW u \in Tabs
      PROVE  LoopLocked(loop[u])'
  <2>1. ValidLocked(loop'[u].rows) /\ (loop'[u].at # 0 => loop'[u].act # 0 /\ Password(loop'[u].at))
    BY <1>2 DEF LoopLocked
  <2>2. loop'[u].at # 0 => loop'[u].at \in Vaults
    BY EveryStep, Constants DEF Inv, Loop
  <2>3. loop'[u].at # 0 => Password(loop[u].at)'
    BY <2>1, <2>2, SealsStay DEF Password
  <2>. QED
    BY <2>1, <2>3 DEF LoopLocked, ValidLocked
<1>. QED
  BY <1>2, <1>3 DEF LockInv, HoldsRows, ValidLocked

LEMMA LockInvAlways == Spec => [](Inv /\ LockInv)
<1>1. Init => LockInv
  <2>. SUFFICES ASSUME Init PROVE LockInv
    OBVIOUS
  <2>1. loop = [t \in Tabs |-> NoLoop]
    BY DEF Init
  <2>2. \A t \in Tabs : LoopLocked(loop[t])
    BY <2>1 DEF NoLoop, NoRow, LoopLocked, ValidLocked
  <2>3. \A v \in Vaults : ~disk[v].valid
    BY DEF Init, NoRow
  <2>. QED
    BY <2>2, <2>3 DEF LockInv, ValidLocked
<1>2. Inv /\ LockInv /\ [Next]_vars => (Inv /\ LockInv)'
  BY EveryStep, StepHolds
<1>. QED
  BY <1>1, <1>2, InvInit, PTL DEF Spec

-----------------------------------------------------------------------------
(* The check-in of a group.                                                 *)

\* The round is over when every share had its attempt.
RoundInv == \A t \in Tabs : job[t].kind = "checkin" /\ job[t].stage = "refresh" => job[t].todo = {}

\* What a step makes of a tab's job: it stays, it ends, the round goes on, or it was none.
RoundStep(t) ==
    \/ job'[t] \in {job[t], NoJob} \/ Attempts(t)
    \/ job[t].kind # "checkin" /\ (job'[t].kind = "checkin" => job'[t].stage = "sent")

LEMMA JobMoves ==
  ASSUME job \in [Tabs -> Job], NEW u \in Tabs, NEW j, job' = [job EXCEPT ![u] = j],
         j = NoJob \/ (job[u].kind # "checkin" /\ (j.kind = "checkin" => j.stage = "sent"))
  PROVE  \A t \in Tabs : RoundStep(t)
  BY DEF RoundStep

LEMMA SeededKind ==
  ASSUME NEW j \in Job, NEW d
  PROVE  Seeded(j, d) = NoJob \/ Seeded(j, d).kind = j.kind
<1> DEFINE snap == [v \in Vaults |-> d[v].lock]
           todo == {v \in Vaults : HasLock(d, v)}
           k == [j EXCEPT !.stage = "open", !.snap = snap, !.todo = todo]
<1>1. k.kind = j.kind
  BY DEF Job
<1>2. Seeded(j, d) \in {j, NoJob, k}
  BY DEF Seeded
<1>. QED
  BY <1>1, <1>2

LEMMA RoundSteps ==
  ASSUME Inv, [Next]_vars
  PROVE  \A t \in Tabs : RoundStep(t)
<1>. job \in [Tabs -> Job] /\ \A t \in Tabs : job[t] \in Job /\ JobOK(server, job[t])
  BY DEF Inv
<1>0. NoJob \in Job /\ NoJob.kind = "none"
  BY NothingRuns DEF Inv, JobOK, NoJob
<1>1. CASE \/ World \/ Expire \/ UNCHANGED vars
           \/ \E t \in Tabs, where \in {"public", "owner"} : Go(t, where)
           \/ \E t \in Tabs : Locking(t) \/ Refresh(t)
  <2>1. job' = job
    BY <1>1 DEF World, Claimed, DropsElsewhere, Expire, vars, Go, Locking, LockStart,
                LockAnswered, Refresh
  <2>. QED
    BY <2>1 DEF RoundStep
<1>2. ASSUME NEW t \in Tabs,
             \/ \E where \in {"public", "owner"} : Boot(t, where)
             \/ \E v \in Vaults : Select(t, v)
             \/ Close(t) \/ Done(t) \/ WrongPassword(t) \/ SetupLegacy(t) \/ CheckinEnds(t)
      PROVE  \A u \in Tabs : RoundStep(u)
  <2>1. job' = [job EXCEPT ![t] = NoJob]
    BY <1>2 DEF Boot, Select, Close, Reloaded, Done, WrongPassword, SetupLegacy, CheckinEnds,
                Continues, Submits
  <2>. QED
    BY <2>1, JobMoves
<1>3. ASSUME NEW t \in Tabs,
             \/ UnlockTrustedDevice(t) \/ LinkOpened(t) \/ AddHeir(t) \/ CloseVault(t) \/ Checkin(t)
             \/ \E heirs \in 1 .. N : Activate(t, heirs)
             \/ \E v \in Vaults : RemoveHeir(t, v)
      PROVE  \A u \in Tabs : RoundStep(u)
  <2>1. job[t].kind = "none"
    BY <1>0, <1>3 DEF Idle, UnlockTrustedDevice, LinkOpened, AddHeir, CloseVault, Checkin,
                      Activate, RemoveHeir
  <2>2. \E j : /\ job' = [job EXCEPT ![t] = j]
               /\ j.kind = "checkin" => j.stage = "sent"
    <3>1. CASE UnlockTrustedDevice(t)
      <4> DEFINE at == Trusted(disk, tab[t])
                 ok == tab[t].at = "public"
                 todo == {v \in Vaults : /\ disk[v].held = "yes" /\ ~HasLock(disk, v)
                                         /\ Usable(disk, tab[t], v) /\ Password(v)}
                 j == [NoJob EXCEPT !.kind = "unlock", !.stage = "seed", !.at = at, !.ok = ok,
                                    !.todo = todo]
      <4>1. job' = [job EXCEPT ![t] = Seeded(j, disk)]
        BY <3>1 DEF UnlockTrustedDevice, Submits
      <4>2. j \in Job /\ j.kind = "unlock"
        <5>1. at \in 0 .. N
          BY TrustedType DEF Inv
        <5>2. ok \in BOOLEAN /\ todo \subseteq Vaults
          OBVIOUS
        <5> HIDE DEF at, ok, todo
        <5>. QED
          BY <1>0, <5>1, <5>2 DEF Job
      <4> HIDE DEF j
      <4>. QED
        BY <1>0, <4>1, <4>2, SeededKind
    <3>2. CASE LinkOpened(t)
      <4>1. PICK todo, got, snap :
              job' = [job EXCEPT ![t] = [NoJob EXCEPT !.kind = "signin", !.stage = "open", !.ok = TRUE,
                                                      !.todo = todo, !.got = got, !.snap = snap]]
        BY <3>2 DEF LinkOpened, Submits
      <4> DEFINE j == [NoJob EXCEPT !.kind = "signin", !.stage = "open", !.ok = TRUE,
                                    !.todo = todo, !.got = got, !.snap = snap]
      <4>2. j.kind = "signin"
        BY <1>0 DEF Job
      <4> HIDE DEF j
      <4>. QED
        BY <4>1, <4>2 DEF j
    <3>3. CASE AddHeir(t)
      <4>1. PICK gid, todo :
              job' = [job EXCEPT ![t] = [NoJob EXCEPT !.kind = "create", !.stage = "post", !.left = 1,
                                                      !.gid = gid, !.todo = todo]]
        BY <3>3 DEF AddHeir, Submits
      <4> DEFINE j == [NoJob EXCEPT !.kind = "create", !.stage = "post", !.left = 1,
                                    !.gid = gid, !.todo = todo]
      <4>2. j.kind = "create"
        BY <1>0 DEF Job
      <4>. QED
        BY <4>1, <4>2
    <3>4. CASE CloseVault(t) \/ Checkin(t)
      <4>1. PICK kind, todo :
              job' = [job EXCEPT ![t] = [NoJob EXCEPT !.kind = kind, !.stage = "sent", !.todo = todo]]
        BY <3>4 DEF CloseVault, Checkin, Submits
      <4> DEFINE j == [NoJob EXCEPT !.kind = kind, !.stage = "sent", !.todo = todo]
      <4>2. j.stage = "sent"
        BY <1>0 DEF Job
      <4>. QED
        BY <4>1, <4>2
    <3>5. CASE \E heirs \in 1 .. N : Activate(t, heirs)
      <4>1. PICK heirs, gid :
              job' = [job EXCEPT ![t] = [NoJob EXCEPT !.kind = "create", !.stage = "post", !.left = heirs,
                                                      !.gid = gid]]
        BY <3>5 DEF Activate, Submits
      <4> DEFINE j == [NoJob EXCEPT !.kind = "create", !.stage = "post", !.left = heirs, !.gid = gid]
      <4>2. j.kind = "create"
        BY <1>0 DEF Job
      <4>. QED
        BY <4>1, <4>2
    <3>6. CASE \E v \in Vaults : RemoveHeir(t, v)
      <4>1. PICK todo, got :
              job' = [job EXCEPT ![t] = [NoJob EXCEPT !.kind = "delete", !.stage = "sent",
                                                      !.todo = todo, !.got = got]]
        BY <3>6 DEF RemoveHeir, Submits
      <4> DEFINE j == [NoJob EXCEPT !.kind = "delete", !.stage = "sent", !.todo = todo, !.got = got]
      <4>2. j.kind = "delete"
        BY <1>0 DEF Job
      <4>. QED
        BY <4>1, <4>2
    <3>. QED
      BY <1>3, <3>1, <3>2, <3>3, <3>4, <3>5, <3>6
  <2>. QED
    BY <2>1, <2>2, JobMoves
<1>4. ASSUME NEW t \in Tabs,
             \/ UnlockSeeds(t) \/ UnlockOpens(t) \/ UnlockRepairs(t) \/ SignInOpens(t)
             \/ Posts(t) \/ Reseals(t) \/ Saves(t) \/ DeleteServed(t) \/ DeleteHeard(t)
      PROVE  \A u \in Tabs : RoundStep(u)
  <2>1. job[t].kind # "checkin"
    BY <1>4 DEF UnlockSeeds, UnlockOpens, UnlockRepairs, SignInOpens, Posts, Reseals, Saves,
                DeleteServed, DeleteHeard, JobOK, StageOK
  <2>2. \E j : /\ job' = [job EXCEPT ![t] = j]
               /\ j = NoJob \/ j.kind # "checkin"
    <3>1. CASE UnlockSeeds(t)
      <4> DEFINE v == First(job[t].todo)
                 k == [job[t] EXCEPT !.todo = @ \ {v}]
      <4>1. \E d : job' = [job EXCEPT ![t] = Seeded(k, d)]
        BY <3>1 DEF UnlockSeeds, Continues
      <4>2. k \in Job /\ k.kind = job[t].kind
        BY DEF Job
      <4> HIDE DEF k
      <4>3. PICK d : job' = [job EXCEPT ![t] = Seeded(k, d)]
        BY <4>1
      <4>4. Seeded(k, d) = NoJob \/ Seeded(k, d).kind = k.kind
        BY <4>2, SeededKind
      <4>. QED
        BY <2>1, <4>2, <4>3, <4>4
    <3>2. CASE UnlockOpens(t)
      <4> DEFINE v == Turn(job[t])
                 passed == [job[t] EXCEPT !.todo = @ \ {v}]
                 opened == [passed EXCEPT !.got = @ \cup {v}]
                 repair == [job[t] EXCEPT !.stage = "repair"]
      <4>1. \E j \in {passed, opened, repair, NoJob} : job' = [job EXCEPT ![t] = j]
        BY <3>2 DEF UnlockOpens, Opens, Continues
      <4>2. passed.kind = job[t].kind /\ repair.kind = job[t].kind
        BY DEF Job
      <4>3. opened = [job[t] EXCEPT !.todo = @ \ {v}, !.got = @ \cup {v}]
        BY DEF Job
      <4>4. opened.kind = job[t].kind
        BY <4>3 DEF Job
      <4> HIDE DEF passed, opened, repair
      <4>. QED
        BY <2>1, <4>1, <4>2, <4>4
    <3>3. CASE UnlockRepairs(t)
      <4> DEFINE v == Turn(job[t])
                 k == [job[t] EXCEPT !.stage = "open", !.todo = @ \ {v}, !.got = @ \cup {v}]
      <4>1. \E j \in {k, NoJob} : job' = [job EXCEPT ![t] = j]
        BY <3>3 DEF UnlockRepairs, Opens, Continues
      <4>2. k.kind = job[t].kind
        BY DEF Job
      <4> HIDE DEF k
      <4>. QED
        BY <2>1, <4>1, <4>2
    <3>4. CASE SignInOpens(t)
      <4> DEFINE v == First(job[t].todo)
                 k == [job[t] EXCEPT !.todo = @ \ {v}]
      <4>1. \E j \in {k, NoJob} : job' = [job EXCEPT ![t] = j]
        BY <3>4 DEF SignInOpens, Continues
      <4>2. k.kind = job[t].kind
        BY DEF Job
      <4> HIDE DEF k
      <4>. QED
        BY <2>1, <4>1, <4>2
    <3>5. CASE Posts(t)
      <4> DEFINE k == [job[t] EXCEPT !.stage = "seal", !.at = First(New)]
      <4>1. \E j \in {k, NoJob} : job' = [job EXCEPT ![t] = j]
        BY <3>5 DEF Posts, Continues
      <4>2. k.kind = job[t].kind
        BY DEF Job
      <4> HIDE DEF k
      <4>. QED
        BY <2>1, <4>1, <4>2
    <3>6. CASE Reseals(t)
      <4> DEFINE k(ok) == [job[t] EXCEPT !.stage = "save", !.ok = ok]
      <4>1. \E ok \in BOOLEAN : job' = [job EXCEPT ![t] = k(ok)]
        BY <3>6 DEF Reseals, Continues
      <4>2. \A ok : k(ok).kind = job[t].kind
        BY DEF Job
      <4> HIDE DEF k
      <4>. QED
        BY <2>1, <4>1, <4>2
    <3>7. CASE Saves(t)
      <4> DEFINE k == [job[t] EXCEPT !.stage = "post", !.left = @ - 1]
                 shows == [NoJob EXCEPT !.kind = "create", !.stage = "done"]
      <4>1. \E j \in {k, shows, NoJob} : job' = [job EXCEPT ![t] = j]
        BY <3>7 DEF Saves, Continues
      <4>2. k.kind = job[t].kind /\ shows.kind = "create"
        BY <1>0 DEF Job
      <4> HIDE DEF k, shows
      <4>. QED
        BY <2>1, <4>1, <4>2
    <3>8. CASE DeleteServed(t)
      <4> DEFINE k(a) == [job[t] EXCEPT !.stage = a]
      <4>1. \E a \in {"ok", "refused"} : job' = [job EXCEPT ![t] = k(a)]
        BY <3>8 DEF DeleteServed, Continues
      <4>2. \A a : k(a).kind = job[t].kind
        BY DEF Job
      <4> HIDE DEF k
      <4>. QED
        BY <2>1, <4>1, <4>2
    <3>9. CASE DeleteHeard(t)
      <4> DEFINE v == First(job[t].todo)
                 k == [job[t] EXCEPT !.todo = @ \ {v}, !.stage = "sent"]
      <4>1. \E j \in {k, NoJob} : job' = [job EXCEPT ![t] = j]
        BY <3>9 DEF DeleteHeard, Reopens, Continues
      <4>2. k.kind = job[t].kind
        BY DEF Job
      <4> HIDE DEF k
      <4>. QED
        BY <2>1, <4>1, <4>2
    <3>. QED
      BY <1>4, <3>1, <3>2, <3>3, <3>4, <3>5, <3>6, <3>7, <3>8, <3>9
  <2>. QED
    BY <2>1, <2>2, JobMoves
<1>5. ASSUME NEW t \in Tabs, Attempts(t)
      PROVE  \A u \in Tabs : RoundStep(u)
  BY <1>5 DEF Attempts, Continues, RoundStep
<1>. QED
  BY <1>1, <1>2, <1>3, <1>4, <1>5
     DEF Next, Device, Opening, SigningIn, Making, Dropping, CheckingIn

\* An attempt takes one share off the round, and the last one ends it.
LEMMA AttemptTurns ==
  ASSUME Inv, NEW t \in Tabs, Attempts(t)
  PROVE  /\ job'[t].todo \cup job'[t].got = job[t].todo \cup job[t].got
         /\ job'[t].stage = "refresh" => job'[t].todo = {}
<1> DEFINE v == First(job[t].todo)
           stage == IF job[t].todo = {v} THEN "refresh" ELSE "sent"
           j == [job[t] EXCEPT !.todo = @ \ {v}, !.got = @ \cup {v}, !.stage = stage]
<1>1. job \in [Tabs -> Job] /\ job[t] \in Job /\ job'[t] = j
  BY DEF Inv, Attempts, Continues
<1>2. v \in job[t].todo
  BY FirstIsIn DEF Inv, Attempts, JobOK, StageOK, Job
<1>3. j.todo = job[t].todo \ {v} /\ j.got = job[t].got \cup {v} /\ j.stage = stage
  BY <1>1 DEF Job
<1> HIDE DEF j
<1>. QED
  BY <1>1, <1>2, <1>3

LEMMA RoundInvAlways == Spec => [](Inv /\ RoundInv)
<1>1. Init => RoundInv
  <2>1. NoJob.kind = "none"
    BY DEF NoJob
  <2>2. Init => job = [t \in Tabs |-> NoJob]
    BY DEF Init
  <2>. QED
    BY <2>1, <2>2 DEF RoundInv
<1>2. ASSUME Inv, RoundInv, [Next]_vars
      PROVE  RoundInv'
  <2>1. ASSUME NEW t \in Tabs, job'[t].kind = "checkin", job'[t].stage = "refresh"
        PROVE  job'[t].todo = {}
    <3>0. RoundStep(t) /\ NoJob.kind = "none"
      BY <1>2, RoundSteps DEF NoJob
    <3>1. job'[t] = job[t] \/ Attempts(t)
      BY <2>1, <3>0 DEF RoundStep
    <3>2. Attempts(t) => job'[t].todo = {}
      BY <1>2, <2>1, AttemptTurns
    <3>3. job'[t] = job[t] => job'[t].todo = {}
      BY <1>2, <2>1 DEF RoundInv
    <3>. QED
      BY <3>1, <3>2, <3>3
  <2>. QED
    BY <2>1 DEF RoundInv
<1>. QED
  BY <1>1, <1>2, EveryStep, InvInit, PTL DEF Spec

-----------------------------------------------------------------------------
(* The theorems about the rows, the session and the round.                  *)

\* A row leaves the browser only after its vault has left the server: not through a refused or
\* unanswered delete, a stale dashboard, or another tab's loop.
THEOREM RowsOutliveVaults == Spec => ForgetsOnlyTheDeleted
<1>1. ASSUME Inv, LockInv, [Next]_vars
      PROVE  [\A v \in Vaults : disk[v].held = "yes" /\ disk'[v].held # "yes"
                                => server[v].row = "gone"]_vars
  BY <1>1, StepHolds DEF HoldsRows
<1>. QED
  BY <1>1, LockInvAlways, PTL DEF Spec, ForgetsOnlyTheDeleted

\* An expired session is renewed by the password alone, whatever the lock loops of the tabs read
\* before their awaits and find after them.
THEOREM ExpiredStaysExpired == Spec => OnlyThePasswordRenews
<1>1. ASSUME Inv, LockInv, [Next]_vars
      PROVE  [expired /\ ~expired' /\ HasLock(disk, active) /\ Sortable(disk)
                /\ (\A t \in Tabs : loop[t].act \in {0, active}) => \E t \in Tabs : Opened(t)]_vars
  BY <1>1, StepHolds
<1>. QED
  BY <1>1, LockInvAlways, PTL DEF Spec, OnlyThePasswordRenews

\* The check-in of a group leaves out no share, for every group and every outcome.
THEOREM EveryShareIsTried == Spec => CheckinGoesRound
<1>1. ASSUME Inv, RoundInv, [Next]_vars
      PROVE  [\A t \in Tabs : job[t].kind = "checkin" /\ job'[t].kind = "checkin" =>
                /\ job'[t].todo \cup job'[t].got = job[t].todo \cup job[t].got
                /\ job'[t].stage = "refresh" => job'[t].todo = {}]_vars
  <2>. SUFFICES ASSUME NEW t \in Tabs, job[t].kind = "checkin", job'[t].kind = "checkin"
                PROVE  /\ job'[t].todo \cup job'[t].got = job[t].todo \cup job[t].got
                       /\ job'[t].stage = "refresh" => job'[t].todo = {}
    OBVIOUS
  <2>0. RoundStep(t) /\ NoJob.kind = "none"
    BY <1>1, RoundSteps DEF NoJob
  <2>1. job'[t] = job[t] \/ Attempts(t)
    BY <2>0 DEF RoundStep
  <2>2. CASE job'[t] = job[t]
    BY <1>1, <2>2 DEF RoundInv
  <2>3. CASE Attempts(t)
    BY <1>1, <2>3, AttemptTurns
  <2>. QED
    BY <2>1, <2>2, <2>3
<1>. QED
  BY <1>1, RoundInvAlways, PTL DEF Spec, CheckinGoesRound
=============================================================================
