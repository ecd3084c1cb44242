------------------------------- MODULE OwnerApp -------------------------------
(* The owner's pages over OwnerDevice: the setup wizard and Add Heir, which   *)
(* make vaults and put their keys on the device (PasswordSetupPortal.tsx,     *)
(* AddHeirPortal.tsx, SetupPortal.tsx), and the dashboard, which checks in    *)
(* for all heirs at once and drops vaults (Dashboard.tsx).                    *)
EXTENDS OwnerDevice

\* What the device starts with: vaults 1..e of an earlier version of the app (their tokens on
\* disk, no lock), or vaults made elsewhere; some re-seals never landed.
Init ==
    /\ \E e \in 0 .. N, here \in BOOLEAN, blob \in [Vaults -> {"placeholder", "real"}],
          gid \in {0, 1} :
         /\ server = [v \in Vaults |-> IF v > e THEN [row |-> "none", blob |-> "none"]
                                       ELSE [row |-> "live", blob |-> blob[v]]]
         /\ disk = [v \in Vaults |-> IF v > e \/ ~here THEN NoRow
                      ELSE [NoRow EXCEPT !.held = "yes", !.token = TRUE, !.group = gid]]
         /\ active = IF here /\ e > 0 THEN 1 ELSE 0
    /\ expired = FALSE
    /\ tab = [t \in Tabs |-> [at |-> "closed", locked |-> FALSE, live |-> {}, shown |-> 0,
                              group |-> {}, form |-> FALSE]]
    /\ loop = [t \in Tabs |-> NoLoop] /\ job = [t \in Tabs |-> NoJob]
    /\ jobs = 0 /\ faults = 0

-----------------------------------------------------------------------------
(* Making vaults.                                                           *)

New == {v \in Vaults : server[v].row = "none"}

\* activate: one vault per heir, all in a group of their own.
Activate(t, heirs) ==
    /\ Idle(t) /\ tab[t].at = "public" /\ heirs =< Cardinality(New)
    /\ Submits(t, [NoJob EXCEPT !.kind = "create", !.stage = "post", !.left = heirs,
                                !.gid = First(New)])
    /\ UNCHANGED <<server, storeVars, tab, loop, faults>>

\* Add Heir: the sibling's blobs are unsealed first, which takes its token; a sibling without a
\* group gets the new one when the heir is saved.
AddHeir(t) ==
    /\ Idle(t) /\ tab[t].shown # 0 /\ New # {} /\ Usable(disk, tab[t], tab[t].shown)
    /\ Password(tab[t].shown) /\ Exists(tab[t].shown)
    /\ LET s == tab[t].shown
           grouped == disk[s].group # 0
       IN  Submits(t, [NoJob EXCEPT !.kind = "create", !.stage = "post", !.left = 1,
                         !.gid = IF grouped THEN disk[s].group ELSE s,
                         !.todo = IF grouped THEN {} ELSE {s}])
    /\ tab' = [tab EXCEPT ![t].form = TRUE]
    /\ UNCHANGED <<server, storeVars, loop, faults>>

Made(v, blob) == [server EXCEPT ![v] = [row |-> "live", blob |-> blob]]

\* createVaultFromXpub: the blob holds a placeholder, for the token is in the answer.
Posts(t) ==
    /\ job[t].stage = "post"
    /\ \/ /\ New # {} /\ server' = Made(First(New), "placeholder") /\ UNCHANGED faults
          /\ Continues(t, [job[t] EXCEPT !.stage = "seal", !.at = First(New)])
       \/ Continues(t, NoJob) /\ UNCHANGED <<server, faults>>
       \/ New # {} /\ Fault /\ Continues(t, NoJob) /\ server' = Made(First(New), "placeholder")
    /\ UNCHANGED <<storeVars, tab, loop>>

\* sealOwnerToken, best effort; the video may be uploaded after it.
Reseals(t) ==
    /\ job[t].stage = "seal"
    /\ LET sealed == [server EXCEPT ![job[t].at].blob = "real"]
           On(ok) == Continues(t, [job[t] EXCEPT !.stage = "save", !.ok = ok])
       IN  \/ Exists(job[t].at) /\ server' = sealed /\ On(TRUE) /\ UNCHANGED faults
           \/ ~Exists(job[t].at) /\ UNCHANGED <<server, faults>> /\ On(FALSE)
           \/ Fault /\ On(FALSE) /\ (UNCHANGED server \/ (Exists(job[t].at) /\ server' = sealed))
    /\ UNCHANGED <<storeVars, tab, loop>>

LastButOne(j) == j.left = 2
LastHeir(j) == j.left = 1

\* The row is saved and the vault made active; the dialog of Add Heir then shows the address.
Saves(t) ==
    /\ job[t].stage = "save"
    /\ LET j == job[t]
           made == [held |-> "yes", token |-> TRUE, lock |-> IF j.ok THEN "real" ELSE "none",
                    valid |-> j.ok, group |-> j.gid]
           saved == {v \in j.todo : disk[v].held = "yes"} \cup {j.at}
           row == [v \in Vaults |-> IF v = j.at THEN made ELSE [disk[v] EXCEPT !.group = j.gid]]
           d == [v \in Vaults |-> IF v \in saved THEN AtRest(row[v]) ELSE disk[v]]
           tb == [tab[t] EXCEPT !.live = @ \cup {v \in saved : ToSession(row[v])}]
       IN  /\ Writes(t, tb, d, j.at)
           /\ Continues(t, IF tb.form THEN [NoJob EXCEPT !.kind = "create", !.stage = "done"]
                           ELSE IF LastHeir(j) THEN NoJob
                           ELSE [j EXCEPT !.stage = "post", !.left = @ - 1])
    /\ UNCHANGED <<server, expired, loop, faults>>

\* onAdded: the page is loaded again, for it does not know the new heir.
Done(t) ==
    /\ job[t].stage = "done"
    /\ IF tab[t].form THEN Reloaded(t, Booted(tab[t], tab[t].at, disk, active)) /\ UNCHANGED jobs
       ELSE Continues(t, NoJob) /\ UNCHANGED <<tab, loop>>
    /\ UNCHANGED <<server, storeVars, jobs, faults>>

\* SetupPortal: the owner brings her own wallet; there is no password and no blob.
SetupLegacy(t) ==
    /\ Idle(t) /\ tab[t].at = "public" /\ New # {}
    /\ Submits(t, NoJob) /\ server' = Made(First(New), "none")
    /\ \/ /\ UNCHANGED faults
          /\ Writes(t, tab[t], [disk EXCEPT ![First(New)] =
                                 [NoRow EXCEPT !.held = "yes", !.token = TRUE]], First(New))
       \/ Fault /\ UNCHANGED <<disk, active, tab>>
    /\ UNCHANGED <<expired, loop>>

-----------------------------------------------------------------------------
(* Dropping vaults.                                                         *)

\* An heir claims; the owner closes a vault on another device.
Claimed(v) ==
    /\ server[v].row = "live" /\ server' = [server EXCEPT ![v].row = "claimed"]
    /\ UNCHANGED <<storeVars, tab, loop, job, jobs, faults>>

DropsElsewhere(v) ==
    /\ Exists(v) /\ server' = [server EXCEPT ![v].row = "gone"]
    /\ UNCHANGED <<storeVars, tab, loop, job, jobs, faults>>

\* onRemoveHeir: one of several.
RemoveHeir(t, v) ==
    /\ Idle(t) /\ tab[t].group \ {v} # {} /\ v \in tab[t].group /\ Usable(disk, tab[t], v)
    /\ Submits(t, [NoJob EXCEPT !.kind = "delete", !.stage = "sent", !.todo = {v},
                                !.got = tab[t].group \ {v}])
    /\ UNCHANGED <<server, storeVars, tab, loop, faults>>

\* onCloseVault, which is offered for the last share, or once every heir has claimed.
CloseVault(t) ==
    /\ Idle(t) /\ tab[t].group # {} /\ \A v \in tab[t].group : Usable(disk, tab[t], v)
    /\ Cardinality(tab[t].group) = 1 \/ \A v \in tab[t].group : server[v].row = "claimed"
    /\ Submits(t, [NoJob EXCEPT !.kind = "delete", !.stage = "sent", !.todo = tab[t].group])
    /\ UNCHANGED <<server, storeVars, tab, loop, faults>>

\* delete_vault: gone before is as good; refused when a claim is under way, or it fails.
DeleteServed(t) ==
    /\ job[t].kind = "delete" /\ job[t].stage = "sent"
    /\ LET v == First(job[t].todo)
           gone == [server EXCEPT ![v].row = "gone"]
           Says(answer) == Continues(t, [job[t] EXCEPT !.stage = answer])
       IN  \/ server' = gone /\ Says("ok") /\ UNCHANGED faults
           \/ server[v].row = "live" /\ Says("refused") /\ UNCHANGED <<server, faults>>
           \/ Fault /\ Says("refused") /\ server' \in {server, gone}
    /\ UNCHANGED <<storeVars, tab, loop>>

TakesRefusalForGone(j) == FALSE
Stands(j) == j.stage = "refused"

\* The page is loaded again on another vault.
Reopens(t, d, a) ==
    /\ Writes(t, Booted(Forgotten(tab[t], First(job[t].todo)), tab[t].at, d, a), d, a)
    /\ loop' = [loop EXCEPT ![t] = NoLoop] /\ Continues(t, NoJob)

\* removeVaultMeta, then the next share; at the end the first vault that is left, or the page
\* says that there is none.
DeleteHeard(t) ==
    /\ job[t].stage \in {"ok", "refused"}
    /\ LET j == job[t]
           v == First(j.todo)
           d == Dropped(v)
       IN  IF Stands(j) THEN Continues(t, NoJob) /\ UNCHANGED <<disk, active, tab, loop>>
           ELSE IF j.todo # {v}
             THEN /\ Writes(t, Forgotten(tab[t], v), d, Repointed(v)) /\ UNCHANGED loop
                  /\ Continues(t, [j EXCEPT !.todo = @ \ {v}, !.stage = "sent"])
           ELSE IF j.got # {} THEN Reopens(t, d, First(j.got))
           ELSE IF Rows(d) # {} /\ Sortable(d) THEN Reopens(t, d, First(Rows(d)))
           ELSE /\ Writes(t, Unmounted(Forgotten(tab[t], v)), d, Repointed(v)) /\ UNCHANGED loop
                /\ Continues(t, NoJob)
    /\ UNCHANGED <<server, expired, faults>>

\* refresh: a vault the server no longer has is dropped here too, and the page says so.
Refreshed(t) ==
    LET v == tab[t].shown
    IN  IF v # 0 /\ server[v].row = "gone"
          THEN Writes(t, Unmounted(Forgotten(tab[t], v)), Dropped(v), Repointed(v))
          ELSE UNCHANGED <<disk, active, tab>>

Refresh(t) ==
    /\ tab[t].shown # 0 /\ server[tab[t].shown].row = "gone" /\ Refreshed(t)
    /\ UNCHANGED <<server, expired, loop, job, jobs, faults>>

\* HeirGroupList: another share of the group, which the page remembers.
Select(t, v) ==
    /\ v \in tab[t].group \ {tab[t].shown}
    /\ active' = v /\ Reloaded(t, Booted(tab[t], "owner", disk, v))
    /\ UNCHANGED <<server, disk, expired, jobs, faults>>

-----------------------------------------------------------------------------
(* Checking in for every heir.                                              *)

Checkin(t) ==
    /\ Idle(t) /\ tab[t].group # {}
    /\ Submits(t, [NoJob EXCEPT !.kind = "checkin", !.stage = "sent", !.todo = tab[t].group])
    /\ UNCHANGED <<server, storeVars, tab, loop, faults>>

AttemptsUntilRefused(t) ==
    /\ job[t].kind = "checkin" /\ job[t].stage = "sent"
    /\ LET v == First(job[t].todo)
       IN  \E refused \in BOOLEAN :
             Continues(t, [job[t] EXCEPT !.todo = @ \ {v}, !.got = @ \cup {v},
               !.stage = IF refused \/ job[t].todo = {v} THEN "refresh" ELSE "sent"])
    /\ UNCHANGED <<server, storeVars, tab, loop, faults>>

\* fanOutCheckin: each share in turn, whatever became of the one before; then the page refreshes.
\* What a check-in does to the vault's clock is VaultLifecycle's.
Attempts(t) ==
    /\ job[t].kind = "checkin" /\ job[t].stage = "sent"
    /\ LET v == First(job[t].todo)
       IN  Continues(t, [job[t] EXCEPT !.todo = @ \ {v}, !.got = @ \cup {v},
                                       !.stage = IF job[t].todo = {v} THEN "refresh" ELSE "sent"])
    /\ UNCHANGED <<server, storeVars, tab, loop, faults>>

CheckinEnds(t) ==
    /\ job[t].stage = "refresh" /\ Continues(t, NoJob) /\ Refreshed(t)
    /\ UNCHANGED <<server, expired, loop, faults>>

-----------------------------------------------------------------------------
World == \E v \in Vaults : Claimed(v) \/ DropsElsewhere(v)

Making(t) == \/ \E heirs \in 1 .. N : Activate(t, heirs)
             \/ AddHeir(t) \/ Posts(t) \/ Reseals(t) \/ Saves(t) \/ Done(t) \/ SetupLegacy(t)

Dropping(t) == \/ \E v \in Vaults : RemoveHeir(t, v) \/ Select(t, v)
               \/ CloseVault(t) \/ DeleteServed(t) \/ DeleteHeard(t) \/ Refresh(t)

CheckingIn(t) == Checkin(t) \/ Attempts(t) \/ CheckinEnds(t)

Next == World \/ Device \/ \E t \in Tabs : Making(t) \/ Dropping(t) \/ CheckingIn(t)

\* The timer of an open tab fires, and fetch answers or fails.  Nothing else is owed: the owner
\* may leave any form, and does what she likes.
Fairness == \A t \in Tabs : WF_vars(LockStart(t)) /\ WF_vars(LockAnswered(t))

Spec == Init /\ [][Next]_vars /\ Fairness

-----------------------------------------------------------------------------
(* Properties.                                                              *)

\* Every variable holds a value of its type, and the bounded counters keep their bounds.
TypeOK ==
    /\ server \in [Vaults -> Server] /\ disk \in [Vaults -> Row]
    /\ active \in 0 .. N /\ expired \in BOOLEAN
    /\ tab \in [Tabs -> Tab] /\ loop \in [Tabs -> Loop] /\ job \in [Tabs -> Job]
    /\ jobs \in 0 .. MaxJobs /\ faults \in 0 .. MaxFaults

\* Some copy of the vault's owner token can still be got at: in clear on the disk, sealed under
\* the password at the server, or in the session of an open tab.
Recoverable(v) == disk[v].token \/ server[v].blob = "real" \/ \E t \in Tabs : v \in tab[t].live

\* openGroup saves a row without a token over the one that is there, when the server's blob
\* still holds the placeholder.
OverwritesKey(v) ==
    \E t \in Tabs : /\ job[t].kind = "signin" /\ job[t].snap[v] = "placeholder"
                    /\ Cardinality(Bundles(job[t])) > 1 /\ v \in job[t].todo /\ job'[t] # job[t]

\* That group sign-in is the only way to lose a key: no other interleaving of locking, unlocking,
\* making, removing and closing, with calls that fail or whose answer is lost, does.
KeysAreKept ==
    [][\A v \in Vaults : Recoverable(v) /\ server'[v].row # "gone" /\ ~OverwritesKey(v)
                         => Recoverable(v)']_vars

\* A token is moved to the session, which dies with its tab, only when the server has it sealed
\* under the password; and the placeholder is never taken for a token.
LiveIsSealed == \A t \in Tabs : \A v \in tab[t].live : server[v].blob = "real"

\* The browser forgets a vault only when the server has deleted it: a refused delete, an answer
\* that never came, and a dashboard that is out of date leave the row where it is.
ForgetsOnlyTheDeleted ==
    [][\A v \in Vaults : disk[v].held = "yes" /\ disk'[v].held # "yes" => server[v].row = "gone"]_vars

\* fanOutCheckin: the check-in of a group ends only when every share had its attempt, whatever
\* became of the shares before it, and of the page.
CheckinGoesRound ==
    [][\A t \in Tabs : job[t].kind = "checkin" /\ job'[t].kind = "checkin" =>
         /\ job'[t].todo \cup job'[t].got = job[t].todo \cup job[t].got
         /\ job'[t].stage = "refresh" => job'[t].todo = {}]_vars

\* The session of a vault that can be locked is prolonged, once it has expired, by nothing but
\* the password: a lock loop whose calls fail, or whose rows have changed under it, does not
\* count as activity.  (One that began under another active vault may, and one that finds a
\* ghost among the rows; see the README.)
Opened(t) == job[t].kind \in {"unlock", "signin"} /\ job'[t] = NoJob
OnlyThePasswordRenews ==
    [][expired /\ ~expired' /\ HasLock(disk, active) /\ Sortable(disk)
         /\ (\A t \in Tabs : loop[t].act \in {0, active}) => \E t \in Tabs : Opened(t)]_vars

\* An open tab whose owner is idle comes to lock, also on a page that is not hers to lock, and
\* also when the server does not answer the loop.
Idles(t) == tab[t].at # "closed" /\ expired /\ HasLock(disk, active)
IdleTabLocks == \A t \in Tabs :
    Idles(t) ~> tab[t].locked \/ tab[t].at = "closed" \/ ~expired \/ ~HasLock(disk, active)
=============================================================================
