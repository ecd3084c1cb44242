----------------------------- MODULE OwnerDevice -----------------------------
(* The owner's browser (ghostkey-web/src: vaultStore.ts, App.tsx,             *)
(* SignInPortal.tsx): which keys to her vaults it holds, where, and how it    *)
(* locks and unlocks them.                                                    *)
(*                                                                            *)
(* A vault's key is its owner token.  localStorage (`disk`, `active`,         *)
(* `expired`) is shared by the tabs; sessionStorage (`tab[t].live`) is a      *)
(* tab's own.  Between two awaits JavaScript is atomic, so an async function  *)
(* is one step per await: `loop[t]` is App's lock loop, `job[t]` the one      *)
(* async function the page runs.  A job outlives its page, not its tab.       *)
EXTENDS Naturals, FiniteSets

CONSTANTS
    Tabs,        \* tabs of the browser
    N,           \* vaults the owner may come to have
    MaxJobs,     \* forms submitted
    MaxFaults    \* calls that fail or whose answer is lost

ASSUME NAssumption == N \in Nat \ {0}
ASSUME BoundsAssumption == MaxJobs \in Nat /\ MaxFaults \in Nat

Vaults == 1 .. N        \* numbered in the order they were created

VARIABLES
    server,   \* [Vaults -> Server], the vault row and the token blob sealed under the password
    disk,     \* [Vaults -> Row], gk:vaults
    active,   \* gk:activeVaultId, 0 when there is none
    expired,  \* gk:lastActivityAt is ten minutes old
    tab,      \* [Tabs -> Tab]
    loop,     \* [Tabs -> Loop], lockIfPasswordVault between two awaits
    job,      \* [Tabs -> Job]
    jobs, faults

storeVars == <<disk, active, expired>>
vars == <<server, storeVars, tab, loop, job, jobs, faults>>

-----------------------------------------------------------------------------
(* What is stored.                                                          *)

\* What a sealed blob opens to.  A vault made with the owner's own wallet has none.
Blobs == {"none", "placeholder", "real"}

Server == [row : {"none", "live", "claimed", "gone"}, blob : Blobs]

\* lock, valid: ownerTokenLock and its `validated`.  A ghost has a lock and nothing else.
Row == [held : {"no", "yes", "ghost"}, token : BOOLEAN, lock : Blobs, valid : BOOLEAN,
        group : 0 .. N + 1]
NoRow == [held |-> "no", token |-> FALSE, lock |-> "none", valid |-> FALSE, group |-> 0]

\* shown, group: the active vault and its siblings as the mounted dashboard remembers them;
\* form: its Add Heir dialog is up.
Tab == [at : {"closed", "public", "owner"}, locked : BOOLEAN, live : SUBSET Vaults,
        shown : 0 .. N, group : SUBSET Vaults, form : BOOLEAN]

\* at: the vault whose blobs are awaited; act, rows: the pointer and the rows read at the start.
Loop == [at : 0 .. N, act : 0 .. N, rows : [Vaults -> Row]]
NoLoop == [at |-> 0, act |-> 0, rows |-> [v \in Vaults |-> NoRow]]

\* todo, got: vaults to be done and done; snap: blobs read at the start; at, gid: a vault, a
\* group; left: vaults to be made; ok: where an unlock was asked for, or what a re-seal came to.
Job == [kind : {"none", "unlock", "signin", "create", "delete", "checkin"},
        stage : {"", "seed", "open", "repair", "post", "seal", "save", "done",
                 "sent", "ok", "refused", "refresh"},
        todo : SUBSET Vaults, got : SUBSET Vaults, snap : [Vaults -> Blobs],
        at : 0 .. N, gid : 0 .. N + 1, left : 0 .. N, ok : BOOLEAN]
NoSnap == [v \in Vaults |-> "none"]
NoJob == [kind |-> "none", stage |-> "", todo |-> {}, got |-> {}, snap |-> NoSnap,
          at |-> 0, gid |-> 0, left |-> 0, ok |-> FALSE]

First(S) == CHOOSE v \in S : \A w \in S : v =< w

Exists(v) == server[v].row \in {"live", "claimed"}
Password(v) == server[v].blob # "none"

\* getVaultOwnerToken, hasVaultCredentialLock, hasLockedVaultCredential.
Usable(d, tb, v) == v \in tb.live \/ d[v].token
HasLock(d, v) == v # 0 /\ d[v].lock # "none"
Hidden(d, tb, v) == HasLock(d, v) /\ ~Usable(d, tb, v)

\* getAllVaultMetas compares createdAt, which a ghost has not.
Rows(d) == {v \in Vaults : d[v].held # "no"}
Sortable(d) == (\A v \in Rows(d) : d[v].held = "yes") \/ Cardinality(Rows(d)) =< 1

\* getVaultsByGroup; a row without a group stands alone.
Siblings(d, v) == IF d[v].group = 0 THEN {v} ELSE {w \in Rows(d) : d[w].group = d[v].group}

\* canLocalUnlock, getTrustedVaultId.
CanUnlock(d, tb, v) == /\ v # 0 /\ d[v].held = "yes"
                       /\ HasLock(d, v) \/ (Usable(d, tb, v) /\ Password(v))
Trusted(d, tb) ==
    IF active # 0 /\ d[active].held = "ghost" THEN 0
    ELSE IF CanUnlock(d, tb, active) THEN active
    ELSE IF \E v \in Vaults : CanUnlock(d, tb, v) /\ Sortable(d)
           THEN First({v \in Vaults : CanUnlock(d, tb, v)}) ELSE 0

\* saveVaultMeta: a token goes to the session when a validated lock is stored with it.
ToSession(row) == row.token /\ row.valid
AtRest(row) == IF ToSession(row) THEN [row EXCEPT !.token = FALSE] ELSE row

\* removeVaultMeta on the shared rows, the session and the pointer.
Dropped(v) == [disk EXCEPT ![v] = NoRow]
Forgotten(tb, v) == IF disk[v].held = "no" THEN tb ELSE [tb EXCEPT !.live = @ \ {v}]
Repointed(v) == IF active # v \/ disk[v].held = "no" THEN active
                ELSE IF Rows(Dropped(v)) = {} THEN 0 ELSE First(Rows(Dropped(v)))

-----------------------------------------------------------------------------
(* App: tabs, the storage event, the route.                                 *)

\* An owner route mounts its page, the lock screen stands before it.
Mounted(tb, d, a) ==
    LET v == IF tb.at = "owner" /\ ~tb.locked /\ a # 0 /\ d[a].held = "yes" THEN a ELSE 0
    IN  [tb EXCEPT !.shown = v, !.group = IF v = 0 THEN {} ELSE Siblings(d, v), !.form = FALSE]

Unmounted(tb) == [tb EXCEPT !.shown = 0, !.group = {}, !.form = FALSE]

\* A storage event locks a tab in which the active vault has a lock and no usable token.
Hears(tb, d, a) ==
    IF d # disk /\ tb.at # "closed" /\ Hidden(d, tb, a)
      THEN Unmounted([tb EXCEPT !.locked = TRUE]) ELSE tb

\* Tab t becomes tb and writes the rows and the pointer; the other tabs hear of it.
Writes(t, tb, d, a) ==
    /\ disk' = d /\ active' = a
    /\ tab' = [u \in Tabs |-> IF u = t THEN tb ELSE Hears(tab[u], d, a)]

Fault == faults < MaxFaults /\ faults' = faults + 1

\* A tab is opened, reloaded or sent to a page; what it ran is gone.
Reloaded(t, tb) ==
    /\ job' = [job EXCEPT ![t] = NoJob] /\ loop' = [loop EXCEPT ![t] = NoLoop]
    /\ tab' = [tab EXCEPT ![t] = tb]

Booted(tb, where, d, a) ==
    Mounted([tb EXCEPT !.at = where,
                       !.locked = Hidden(d, tb, a) \/ (expired /\ HasLock(d, a))], d, a)

Boot(t, where) ==
    /\ Reloaded(t, Booted(tab[t], where, disk, active))
    /\ UNCHANGED <<server, storeVars, jobs, faults>>

Close(t) ==
    /\ tab[t].at # "closed"
    /\ Reloaded(t, [Unmounted(tab[t]) EXCEPT !.at = "closed", !.live = {}, !.locked = FALSE])
    /\ UNCHANGED <<server, storeVars, jobs, faults>>

\* setRoute: another page of the same tab.
Go(t, where) ==
    /\ tab[t].at \in {"public", "owner"} \ {where}
    /\ tab' = [tab EXCEPT ![t] = Mounted([tab[t] EXCEPT !.at = where], disk, active)]
    /\ UNCHANGED <<server, storeVars, loop, job, jobs, faults>>

\* Ten minutes without a touch in any tab.
Expire ==
    /\ ~expired /\ active # 0 /\ expired' = TRUE
    /\ UNCHANGED <<server, disk, active, tab, loop, job, jobs, faults>>

-----------------------------------------------------------------------------
(* lockIfPasswordVault.                                                     *)

\* The rows whose token may go: the password has opened their lock once.
SweepsAnyLock(row) == row.lock # "none"
Sweeps(row) == row.valid

\* The page locks itself when the vault that was active has a lock now.
LocksIfValid(d, act) == act # 0 /\ d[act].valid
LocksWith(d, act) == HasLock(d, act)

\* The tabs that look at the clock.
WatchesOwnerPages(tb) == tb.at = "owner" /\ ~tb.locked
Watches(tb) == tb.at # "closed" /\ ~tb.locked

\* lockVaultCredential with the row the loop remembers; a row that is gone comes back as a ghost.
SealedAway(row, old) ==
    [held |-> IF row.held = "no" THEN "ghost" ELSE row.held, token |-> FALSE, lock |-> old.lock,
     valid |-> TRUE, group |-> row.group]

\* saveVaultCredentialLock of what getSealedBlobs answers: it needs a token on disk.
Cached(d, v) == IF d[v].token THEN [d EXCEPT ![v].lock = server[v].blob, ![v].valid = FALSE] ELSE d

\* The loop over the remembered rows, from vault `from` to the next await or to its end.
LockRun(t, d, from, act, rows) ==
    LET mine == {v \in Vaults : /\ v >= from /\ rows[v].held # "no"
                                /\ Usable(d, tab[t], v) /\ Password(v)}
        waits == {v \in mine : ~HasLock(rows, v)}
        stop == IF waits = {} THEN N + 1 ELSE First(waits)
        swept == {v \in mine : v < stop /\ Sweeps(rows[v])}
        d2 == [v \in Vaults |-> IF v \in swept THEN SealedAway(d[v], rows[v]) ELSE d[v]]
        tb == [tab[t] EXCEPT !.live = @ \ swept]
        locks == stop = N + 1 /\ LocksWith(d2, act)
    IN  /\ loop' = [loop EXCEPT ![t] =
                      IF stop = N + 1 THEN NoLoop ELSE [at |-> stop, act |-> act, rows |-> rows]]
        /\ Writes(t, IF locks THEN Unmounted([tb EXCEPT !.locked = TRUE]) ELSE tb, d2, active)
        /\ expired' = (expired /\ (locks \/ stop # N + 1))

\* Every thirty seconds, and when the tab is looked at.  Rows that cannot be sorted end it.
LockStart(t) ==
    /\ Watches(tab[t]) /\ loop[t] = NoLoop /\ expired /\ active # 0
    /\ IF Sortable(disk) THEN LockRun(t, disk, 1, active, disk)
       ELSE expired' = FALSE /\ UNCHANGED <<disk, active, tab, loop>>
    /\ UNCHANGED <<server, job, jobs, faults>>

LockAnswered(t) ==
    /\ loop[t].at # 0
    /\ LET v == loop[t].at
           Resumes(d) == LockRun(t, d, v + 1, loop[t].act, loop[t].rows)
       IN  \/ Exists(v) /\ Resumes(Cached(disk, v)) /\ UNCHANGED faults
           \/ ~Exists(v) /\ Resumes(disk) /\ UNCHANGED faults
           \/ Fault /\ Resumes(disk)
    /\ UNCHANGED <<server, job, jobs>>

-----------------------------------------------------------------------------
(* SignInPortal: the password on a known device.                            *)

Idle(t) == tab[t].at # "closed" /\ job[t] = NoJob
Submits(t, j) == jobs < MaxJobs /\ jobs' = jobs + 1 /\ job' = [job EXCEPT ![t] = j]
Continues(t, j) == job' = [job EXCEPT ![t] = j] /\ UNCHANGED jobs

\* Where the form is: the lock screen, or the sign-in page.
AtSignIn(t) == (tab[t].at = "owner" /\ tab[t].locked) \/ tab[t].at = "public"

\* Once every row has its lock cached, all locks are opened, the trusted vault's first.
Seeded(j, d) ==
    IF j.todo # {} THEN j
    ELSE IF ~HasLock(d, j.at) \/ ~Sortable(d) THEN NoJob
    ELSE [j EXCEPT !.stage = "open", !.snap = [v \in Vaults |-> d[v].lock],
                   !.todo = {v \in Vaults : HasLock(d, v)}]

UnlockTrustedDevice(t) ==
    /\ Idle(t) /\ AtSignIn(t) /\ Trusted(disk, tab[t]) # 0 /\ Sortable(disk)
    /\ Submits(t, Seeded([NoJob EXCEPT
            !.kind = "unlock", !.stage = "seed", !.at = Trusted(disk, tab[t]),
            !.ok = tab[t].at = "public",
            !.todo = {v \in Vaults : /\ disk[v].held = "yes" /\ ~HasLock(disk, v)
                                  /\ Usable(disk, tab[t], v) /\ Password(v)}], disk))
    /\ UNCHANGED <<server, storeVars, tab, loop, faults>>

\* The server's blob of a vault without a lock is cached, if the server answers.
UnlockSeeds(t) ==
    /\ job[t].kind = "unlock" /\ job[t].stage = "seed"
    /\ LET v == First(job[t].todo)
           Next1(d) == /\ Continues(t, Seeded([job[t] EXCEPT !.todo = @ \ {v}], d))
                       /\ Writes(t, tab[t], d, active)
       IN  \/ Exists(v) /\ Next1(Cached(disk, v)) /\ UNCHANGED faults
           \/ ~Exists(v) /\ Next1(disk) /\ UNCHANGED faults
           \/ Fault /\ Next1(disk)
    /\ UNCHANGED <<server, expired, loop>>

WrongPassword(t) ==
    /\ \/ job[t].kind = "unlock" /\ job[t].stage = "open" /\ job[t].at \in job[t].todo
       \/ job[t].kind = "signin"
    /\ Continues(t, NoJob)
    /\ UNCHANGED <<server, storeVars, tab, loop, faults>>

\* onUnlock: touchSession, and the owner's pages again; the sign-in page goes to the dashboard.
Admitted(t, live, d, a) ==
    /\ Writes(t, Mounted([tab[t] EXCEPT !.live = @ \cup live, !.locked = FALSE,
                                        !.at = IF job[t].ok THEN "owner" ELSE @], d, a), d, a)
    /\ expired' = FALSE

\* unlockVaultCredentials: all the tokens or none, and it wants a lock on each row.
Restores(t, j, d) ==
    IF j.at \in j.got /\ \A v \in j.got : HasLock(d, v)
      THEN Admitted(t, j.got, [v \in Vaults |->
             IF v \in j.got THEN [d[v] EXCEPT !.token = FALSE, !.valid = TRUE] ELSE d[v]], active)
      ELSE Writes(t, tab[t], d, active) /\ UNCHANGED expired

\* One lock is done; after the last one the tokens are restored.
Opens(t, j, d) ==
    IF j.todo # {} THEN Continues(t, j) /\ Writes(t, tab[t], d, active) /\ UNCHANGED expired
    ELSE Continues(t, NoJob) /\ Restores(t, j, d)

Turn(j) == IF j.at \in j.todo THEN j.at ELSE First(j.todo)

OpensToAny(b) == b # "none"
OpensToToken(b) == b = "real"

\* A blob that holds the placeholder is skipped, unless the token is still here to repair it;
\* another vault may also have another password.
UnlockOpens(t) ==
    /\ job[t].kind = "unlock" /\ job[t].stage = "open"
    /\ LET v == Turn(job[t])
           passed == [job[t] EXCEPT !.todo = @ \ {v}]
           opens == OpensToToken(job[t].snap[v])
       IN  \/ opens /\ Opens(t, [passed EXCEPT !.got = @ \cup {v}], disk)
           \/ /\ ~opens /\ Usable(disk, tab[t], v)
              /\ Continues(t, [job[t] EXCEPT !.stage = "repair"]) /\ UNCHANGED <<storeVars, tab>>
           \/ /\ v # job[t].at \/ (~opens /\ ~Usable(disk, tab[t], v))
              /\ Opens(t, passed, disk)
    /\ UNCHANGED <<server, loop, faults>>

\* sealOwnerToken, then saveVaultCredentialLock; when the call fails the whole unlock does.
UnlockRepairs(t) ==
    /\ job[t].stage = "repair"
    /\ LET v == Turn(job[t])
           repaired == [server EXCEPT ![v].blob = "real"]
           d == IF disk[v].token THEN [disk EXCEPT ![v].lock = "real", ![v].valid = TRUE] ELSE disk
       IN  \/ /\ Exists(v) /\ server' = repaired /\ UNCHANGED faults
              /\ Opens(t, [job[t] EXCEPT !.stage = "open", !.todo = @ \ {v}, !.got = @ \cup {v}], d)
           \/ /\ ~Exists(v) /\ Continues(t, NoJob) /\ UNCHANGED <<server, storeVars, tab, faults>>
           \/ /\ Fault /\ Continues(t, NoJob) /\ UNCHANGED <<storeVars, tab>>
              /\ UNCHANGED server \/ (Exists(v) /\ server' = repaired)
    /\ UNCHANGED loop

-----------------------------------------------------------------------------
(* SignInPortal: a link from the mail on a device that may be new.          *)

\* exchangeOwnerRecovery: every vault of the owner that has a password, with its blobs.
LinkOpened(t) ==
    /\ Idle(t) /\ tab[t].at = "public"
    /\ LET bundles == {v \in Vaults : Exists(v) /\ Password(v)}
       IN  /\ bundles # {}
           /\ Submits(t, [NoJob EXCEPT
                !.kind = "signin", !.stage = "open", !.ok = TRUE, !.todo = bundles,
                !.got = {v \in bundles : server[v].row = "live"},
                !.snap = [v \in Vaults |-> IF v \in bundles THEN server[v].blob ELSE "none"]])
    /\ UNCHANGED <<server, storeVars, tab, loop, faults>>

Bundles(j) == {v \in Vaults : j.snap[v] # "none"}

\* openVault, openGroup: what is saved for a vault that opened to blob b.
Recovered(b, gid) ==
    [held |-> "yes", token |-> b = "real", lock |-> IF b = "real" THEN "real" ELSE "none",
     valid |-> b = "real", group |-> gid]

\* One vault is opened and saved; a lone one must have a token, a group lands on a live one.
SignInOpens(t) ==
    /\ job[t].kind = "signin"
    /\ LET j == job[t]
           v == First(j.todo)
           alone == Cardinality(Bundles(j)) = 1
           row == Recovered(j.snap[v], IF alone THEN 0 ELSE N + 1)
           d == [disk EXCEPT ![v] = AtRest(row)]
           live == IF ToSession(row) THEN {v} ELSE {}
           landing == First(IF j.got # {} THEN j.got ELSE Bundles(j))
       IN  IF alone /\ live = {} THEN Continues(t, NoJob) /\ UNCHANGED <<storeVars, tab>>
           ELSE IF j.todo = {v} THEN Continues(t, NoJob) /\ Admitted(t, live, d, landing)
           ELSE /\ Continues(t, [j EXCEPT !.todo = @ \ {v}])
                /\ Writes(t, [tab[t] EXCEPT !.live = @ \cup live], d, v) /\ UNCHANGED expired
    /\ UNCHANGED <<server, loop, faults>>

-----------------------------------------------------------------------------
Opening(t) == \E where \in {"public", "owner"} : Boot(t, where) \/ Go(t, where)
Locking(t) == LockStart(t) \/ LockAnswered(t)
SigningIn(t) == \/ UnlockTrustedDevice(t) \/ UnlockSeeds(t) \/ UnlockOpens(t) \/ UnlockRepairs(t)
                \/ LinkOpened(t) \/ SignInOpens(t) \/ WrongPassword(t)

Device == Expire \/ \E t \in Tabs : Opening(t) \/ Close(t) \/ Locking(t) \/ SigningIn(t)
=============================================================================
