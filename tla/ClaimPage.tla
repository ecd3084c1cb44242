------------------------------ MODULE ClaimPage ------------------------------
(* The heir's page of the web app (ghostkey-web/src/ClaimPage.tsx): a claim   *)
(* link is opened in one or more tabs, the page waits for Bitcoin and for the *)
(* challenge window, finds out how the vault is claimed, and sends the coins. *)
(*                                                                            *)
(* A tab is a React tree: `page[t]` is its state, and a component that is     *)
(* unmounted loses what it held.  Calls to the server are split where the     *)
(* answer can be late: the server acts in one step, the tab hears of it in    *)
(* another, or never.  The server's side is VaultLifecycle's, reduced to what *)
(* a tab can tell apart.                                                      *)
EXTENDS Naturals, FiniteSets

CONSTANTS
    Tabs,            \* tabs the link is opened in
    Kinds,           \* how vaults are claimed: a subset of VaultKinds
    Addresses,       \* addresses of the vault's network
    Slips,           \* inputs that are no such address, or come with a bad fee
    None,            \* nothing typed, nothing built
    MaxFaults        \* calls that fail or whose answer is lost

VaultKinds == {"password", "derived", "manual", "guardian", "drill"}

ASSUME KindsAssumption == Kinds \subseteq VaultKinds
ASSUME InputsAssumption ==
    Addresses \cap Slips = {} /\ None \notin Addresses \cup Slips /\ "vault" \notin Addresses
ASSUME FaultsAssumption == MaxFaults \in Nat

VARIABLES
    kind,     \* the vault's kind; "drill" is a practice link
    role,     \* [Tabs -> {"heir", "guardian"}], whose link the tab was opened by
    vault,    \* status, token (claim_token_used_at and _hash), opened, windowOver
    chain,    \* whether the timelock has matured, and where the coins are
    page,     \* [Tabs -> Page], the state of the tab's components
    post,     \* [Tabs -> Post], the claim the tab has sent and waits for
    orphans,  \* destinations of claims under way whose tab no longer listens
    practised, \* the server recorded a finished practice run
    faults

vars == <<kind, role, vault, chain, page, post, orphans, practised, faults>>
serverVars == <<kind, role, vault, chain, practised>>
callVars == <<post, orphans>>

Inputs == Addresses \cup Slips

Vault == [status : {"ok", "timelock_started", "claimed"}, token : {"live", "used", "gone"},
          opened : BOOLEAN, windowOver : BOOLEAN]
Chain == [matured : BOOLEAN, coins : {"vault"} \cup Addresses]
Links == {"heir", "guardian", "otherVault", "garbage"}

\* at: ClaimPage's state; view: what resolve answered; waited: the challenge window is over by the
\* tab's clock; est, asking, failed: MaturityGate; flow: HeirClaimable's; step, typed, reviewed,
\* error: the form of the flow; other: the second link of a guardian vault.
Page == [at : {"closed", "loading", "ok", "not-found", "used", "error"},
         view : {"none", "early", "open", "receipt", "drill"},
         waited : BOOLEAN,
         est : {"none", "young", "matured"},
         asking : {"no", "asked", "scanning", "young", "matured", "refused"},
         failed : BOOLEAN,
         flow : {"none", "probing", "password", "derived", "manual", "guardian", "probe-error"},
         step : {"typing", "review", "sending", "building", "built", "done"},
         typed : Inputs \cup {None}, reviewed : Addresses \cup {None},
         other : Links \cup {"none"}, error : BOOLEAN]
Post == [state : {"none", "flying", "taken", "refused"}, to : Addresses \cup {None}]

NoForm(p) == [p EXCEPT !.flow = "none", !.step = "typing", !.typed = None, !.reviewed = None,
                       !.other = "none", !.error = FALSE]

Closed == [at |-> "closed", view |-> "none", waited |-> FALSE, est |-> "none", asking |-> "no",
           failed |-> FALSE, flow |-> "none", step |-> "typing", typed |-> None,
           reviewed |-> None, other |-> "none", error |-> FALSE]
NoPost == [state |-> "none", to |-> None]

Init ==
    /\ kind \in Kinds
    /\ role \in [Tabs -> IF kind = "guardian" THEN {"heir", "guardian"} ELSE {"heir"}]
    /\ vault \in [status : {"ok", "timelock_started"}, token : {"live"}, opened : {FALSE},
                  windowOver : {FALSE}]
    /\ chain = [matured |-> FALSE, coins |-> "vault"]
    /\ page = [t \in Tabs |-> Closed]
    /\ post = [t \in Tabs |-> NoPost]
    /\ orphans = {} /\ practised = FALSE /\ faults = 0

Fault == faults < MaxFaults /\ faults' = faults + 1

-----------------------------------------------------------------------------
(* The server and the world.                                                *)

Mature ==
    /\ ~chain.matured /\ chain' = [chain EXCEPT !.matured = TRUE]
    /\ UNCHANGED <<kind, role, vault, page, post, orphans, practised, faults>>

WindowEnds ==
    /\ vault.opened /\ ~vault.windowOver /\ vault' = [vault EXCEPT !.windowOver = TRUE]
    /\ UNCHANGED <<kind, role, chain, page, post, orphans, practised, faults>>

\* The scheduler opens the claim of a vault whose link was issued early.
ClaimOpens ==
    /\ vault.status = "ok" /\ vault.token = "live"
    /\ vault' = [vault EXCEPT !.status = "timelock_started"]
    /\ UNCHANGED <<kind, role, chain, page, post, orphans, practised, faults>>

\* A check-in takes the token back, unless a claim has consumed it.
OwnerReturns ==
    /\ vault.token = "live" /\ kind # "drill"
    /\ vault' = [vault EXCEPT !.status = "ok", !.token = "gone", !.opened = FALSE,
                              !.windowOver = FALSE]
    /\ UNCHANGED <<kind, role, chain, page, post, orphans, practised, faults>>

\* heir_claim, guardian_claim, broadcast_claim: the claim for `to` goes through.
Claimable == /\ vault.token = "live" /\ vault.opened /\ vault.windowOver
             /\ chain.matured /\ chain.coins = "vault" /\ kind # "drill"

Pays(to) ==
    /\ Claimable
    /\ chain' = [chain EXCEPT !.coins = to]
    /\ vault' = [vault EXCEPT !.token = "used", !.status = "claimed"]

-----------------------------------------------------------------------------
(* ClaimPage: resolve the link.                                             *)

\* mutant: what is left of the old form still listens
KeepsListening(t) == UNCHANGED callVars

\* What a tab loses when it goes: the claim under way goes on at the server.
Drops(t) ==
    /\ post' = [post EXCEPT ![t] = NoPost]
    /\ orphans' = IF post[t].state = "flying" THEN orphans \cup {post[t].to} ELSE orphans

\* The link is opened, or the tab reloaded, or "try again" pressed on the error page: load().
Load(t) ==
    /\ page[t].at # "loading"
    /\ page' = [page EXCEPT ![t] = [Closed EXCEPT !.at = "loading"]]
    /\ Drops(t) /\ UNCHANGED <<serverVars, faults>>

\* mutant: a consumed token is always a 409
UsedIsUsed == "used"

\* A consumed token resolves to the receipt of the claim it paid for.
UsedLink == IF vault.status = "claimed" THEN "receipt" ELSE "used"

\* What GET /claim/:token answers.
Resolves == IF kind = "drill" THEN "drill"
            ELSE CASE vault.token = "gone" -> "not-found"
                   [] vault.token = "used" -> UsedLink
                   [] OTHER -> IF vault.status = "ok" THEN "early" ELSE "open"

\* MaturityGate asks for the estimate when it mounts and at every tick; the answer to an
\* earlier call is ignored from then on.
Asks(p) == [p EXCEPT !.asking = "asked", !.failed = FALSE]

Resolved(t, answer) ==
    CASE answer \in {"not-found", "used"} -> [page[t] EXCEPT !.at = answer]
      [] answer = "open" ->
           Asks([page[t] EXCEPT !.at = "ok", !.view = "open", !.waited = vault.windowOver])
      [] OTHER -> [page[t] EXCEPT !.at = "ok", !.view = answer]

\* A first resolve of a live token opens the challenge window (ensure_claim_challenge).
LoadAnswered(t) ==
    /\ page[t].at = "loading"
    /\ page' = [page EXCEPT ![t] = Resolved(t, Resolves)]
    /\ vault' = IF Resolves \in {"early", "open"} THEN [vault EXCEPT !.opened = TRUE] ELSE vault
    /\ UNCHANGED <<kind, role, chain, practised, callVars, faults>>

LoadFails(t) ==
    /\ page[t].at = "loading" /\ Fault
    /\ page' = [page EXCEPT ![t].at = "error"]
    /\ UNCHANGED <<serverVars, callVars>>

\* The practice run: intro, walkthrough, done; finishing it is all it can write.
DrillFinish(t) ==
    /\ page[t].view = "drill" /\ page[t].step = "typing"
    /\ \/ page' = [page EXCEPT ![t].step = "done"] /\ practised' = TRUE /\ UNCHANGED faults
       \/ Fault /\ page' = [page EXCEPT ![t].error = TRUE] /\ UNCHANGED practised
    /\ UNCHANGED <<kind, role, vault, chain, callVars>>

-----------------------------------------------------------------------------
(* MaturityGate: Bitcoin's own wait, then the challenge window.             *)

\* The claim form is on the screen.
GateOpen(p) == p.at = "ok" /\ p.view = "open" /\ p.est = "matured" /\ p.waited

\* The first screen of HeirClaimable or GuardianClaim when the gate opens; what the form held
\* is lost when it closes again.
Regated(p) ==
    IF ~GateOpen(p) THEN NoForm(p)
    ELSE IF p.flow # "none" THEN p
    ELSE [p EXCEPT !.flow = IF kind = "guardian" THEN "guardian" ELSE "probing"]

\* A tab's component tree changes; a claim it waited for is no longer listened to when the
\* form is gone.
Becomes(t, p) ==
    /\ page' = [page EXCEPT ![t] = p]
    /\ IF GateOpen(page[t]) /\ ~GateOpen(p) THEN Drops(t) ELSE UNCHANGED callVars

\* GET /claim/:token/unlock-estimate: the token is looked up first, the chain scanned after.  Only
\* the heir's token is looked up.
EstimateLooksUp(t) ==
    /\ page[t].asking = "asked"
    /\ page' = [page EXCEPT ![t].asking =
                  IF vault.token = "live" /\ role[t] = "heir" THEN "scanning" ELSE "refused"]
    /\ UNCHANGED <<serverVars, callVars, faults>>

\* Coins that have left the vault anchor no timelock.
EstimateScans(t) ==
    /\ page[t].asking = "scanning"
    /\ page' = [page EXCEPT ![t].asking =
                  IF chain.matured /\ chain.coins = "vault" THEN "matured" ELSE "young"]
    /\ UNCHANGED <<serverVars, callVars, faults>>

EstimateFails(t) ==
    /\ page[t].asking \in {"asked", "scanning"} /\ Fault
    /\ page' = [page EXCEPT ![t].asking = "refused"]
    /\ UNCHANGED <<serverVars, callVars>>

\* The answer arrives.  A failure leaves the estimate that is there.
EstimateArrives(t) ==
    /\ page[t].asking \in {"young", "matured", "refused"}
    /\ LET heard == [page[t] EXCEPT !.asking = "no"]
       IN  Becomes(t, IF page[t].asking = "refused" THEN [heard EXCEPT !.failed = TRUE]
                      ELSE Regated([heard EXCEPT !.est = page[t].asking]))
    /\ UNCHANGED <<serverVars, faults>>

\* mutant: the time is read once
ReadsTimeOnce(p) == p

\* useTicker: the time the countdowns use is read again.
ReadsTime(p) == [p EXCEPT !.waited = @ \/ vault.windowOver]

\* Every minute and when the tab comes back to the front.
Tick(t) ==
    /\ page[t].at = "ok" /\ page[t].view = "open"
    /\ Becomes(t, Regated(Asks(ReadsTime(page[t]))))
    /\ UNCHANGED <<serverVars, faults>>

-----------------------------------------------------------------------------
(* HeirClaimable: which flow the vault takes.                               *)

\* heir-derivation-params, then sealed-heir; "wrong shape" sends the page on to the next.
Flow == CASE kind = "derived" -> "derived"
          [] kind = "password" -> "password"
          [] OTHER -> "manual"

Probe(t) ==
    /\ page[t].flow = "probing"
    /\ page' = [page EXCEPT ![t].flow =
                  IF vault.token = "live" /\ chain.matured THEN Flow ELSE "probe-error"]
    /\ UNCHANGED <<serverVars, callVars, faults>>

ProbeFails(t) ==
    /\ page[t].flow = "probing" /\ Fault
    /\ page' = [page EXCEPT ![t].flow = "probe-error"]
    /\ UNCHANGED <<serverVars, callVars>>

\* mutant: any claim link will do
AnyLink(t, link) == link \in {"heir", "guardian", "otherVault"}

\* The other link must be one of this vault, and the role this tab has not.
Completes(t, link) == link = IF role[t] = "heir" THEN "guardian" ELSE "heir"

\* checkOtherLink: the pasted link is resolved (which is a resolve as any other); the box is
\* gone once a link was accepted.
CheckOtherLink(t, link) ==
    /\ page[t].flow = "guardian" /\ page[t].other = "none"
    /\ page' = [page EXCEPT ![t].other =
                  IF Completes(t, link) /\ vault.token = "live" THEN link ELSE "none"]
    /\ vault' = IF link \in {"heir", "guardian"} /\ vault.token = "live"
                  THEN [vault EXCEPT !.opened = TRUE] ELSE vault
    /\ UNCHANGED <<kind, role, chain, practised, callVars, faults>>

-----------------------------------------------------------------------------
(* The form: an address, a second look, one tap.                            *)

OneShot(p) == p.flow \in {"password", "derived"} \/ (p.flow = "guardian" /\ p.other # "none")

\* mutant: the field is not disabled by the confirmation panel
TypesAtAnyTime(p) == p.step # "sending"

\* disabled={submitting || confirming}, disabled={build !== null || building}
MayType(p) == p.step = "typing"

TypeIn(t, input) ==
    /\ OneShot(page[t]) \/ page[t].flow = "manual"
    /\ MayType(page[t]) /\ page[t].step # "done" /\ page[t].typed # input
    /\ page' = [page EXCEPT ![t].typed = input]
    /\ UNCHANGED <<serverVars, callVars, faults>>

\* looksLikeBitcoinAddress, addressMatchesNetwork, parseFeeRate; destinationHint says what is wrong.
Acceptable(input) == input \in Addresses

Review(t) ==
    /\ OneShot(page[t]) /\ page[t].step = "typing" /\ Acceptable(page[t].typed)
    /\ page' = [page EXCEPT ![t].step = "review", ![t].reviewed = page[t].typed]
    /\ UNCHANGED <<serverVars, callVars, faults>>

GoBack(t) ==
    /\ page[t].step = "review"
    /\ page' = [page EXCEPT ![t].step = "typing"]
    /\ UNCHANGED <<serverVars, callVars, faults>>

\* onSubmit: the key is unsealed and the claim posted with what the field holds.
Submit(t) ==
    /\ OneShot(page[t]) /\ page[t].step = "review" /\ page[t].typed \in Addresses
    /\ page' = [page EXCEPT ![t].step = "sending", ![t].error = FALSE]
    /\ post' = [post EXCEPT ![t] = [state |-> "flying", to |-> page[t].typed]]
    /\ UNCHANGED <<serverVars, orphans, faults>>

\* ManualPsbtClaim: the server builds an unsigned transaction for the address...
Build(t) ==
    /\ page[t].flow = "manual" /\ page[t].step = "typing" /\ Acceptable(page[t].typed)
    /\ page' = [page EXCEPT ![t].step = "building", ![t].reviewed = page[t].typed,
                            ![t].error = FALSE]
    /\ UNCHANGED <<serverVars, callVars, faults>>

BuildAnswered(t) ==
    /\ page[t].step = "building"
    /\ \/ Claimable /\ page' = [page EXCEPT ![t].step = "built"] /\ UNCHANGED faults
       \/ ~Claimable /\ UNCHANGED faults
          /\ page' = [page EXCEPT ![t].step = "typing", ![t].error = TRUE]
       \/ Fault /\ page' = [page EXCEPT ![t].step = "typing", ![t].error = TRUE]
    /\ UNCHANGED <<serverVars, callVars>>

\* ... the heir signs it elsewhere and hands it back.  The page shows what was built.
BroadcastSigned(t) ==
    /\ page[t].flow = "manual" /\ page[t].step = "built"
    /\ page' = [page EXCEPT ![t].step = "sending", ![t].error = FALSE]
    /\ post' = [post EXCEPT ![t] = [state |-> "flying", to |-> page[t].reviewed]]
    /\ UNCHANGED <<serverVars, orphans, faults>>

\* The server takes the claim, or refuses it; its answer travels back.
Serve(t) ==
    /\ post[t].state = "flying"
    /\ \/ Pays(post[t].to) /\ post' = [post EXCEPT ![t].state = "taken"] /\ UNCHANGED faults
       \/ /\ ~Claimable /\ UNCHANGED <<chain, vault, faults>>
          /\ post' = [post EXCEPT ![t].state = "refused"]
       \/ /\ Fault /\ UNCHANGED <<chain, vault>>
          /\ post' = [post EXCEPT ![t].state = "refused"]
    /\ UNCHANGED <<kind, role, page, orphans, practised>>

ServeOrphan(to) ==
    /\ to \in orphans /\ orphans' = orphans \ {to}
    /\ Pays(to) \/ (~Claimable /\ UNCHANGED <<chain, vault>>)
    /\ UNCHANGED <<kind, role, page, post, practised, faults>>

\* The answer reaches the tab: the receipt, or the error and the panel again (which retries).
Retry(t) == [page[t] EXCEPT !.step = IF @ = "sending" /\ page[t].flow = "manual" THEN "built"
                                     ELSE "review", !.error = TRUE]

Answered(t) ==
    /\ post[t].state \in {"taken", "refused"}
    /\ page' = [page EXCEPT ![t] = IF post[t].state = "taken" THEN [@ EXCEPT !.step = "done"]
                                   ELSE Retry(t)]
    /\ post' = [post EXCEPT ![t] = NoPost]
    /\ UNCHANGED <<serverVars, orphans, faults>>

\* The answer is lost: the tab sees an error although the coins may have moved.
AnswerLost(t) ==
    /\ post[t].state = "taken" /\ Fault
    /\ page' = [page EXCEPT ![t] = Retry(t)] /\ post' = [post EXCEPT ![t] = NoPost]
    /\ UNCHANGED <<serverVars, orphans>>

-----------------------------------------------------------------------------
World == Mature \/ WindowEnds \/ ClaimOpens \/ OwnerReturns
         \/ \E to \in Addresses : ServeOrphan(to)

Opening(t) == Load(t) \/ LoadAnswered(t) \/ LoadFails(t) \/ DrillFinish(t)

Gate(t) == \/ EstimateLooksUp(t) \/ EstimateScans(t) \/ EstimateFails(t) \/ EstimateArrives(t)
           \/ Tick(t) \/ Probe(t) \/ ProbeFails(t)

Form(t) == \/ \E link \in Links : CheckOtherLink(t, link)
           \/ \E input \in Inputs : TypeIn(t, input)
           \/ Review(t) \/ GoBack(t) \/ Submit(t)
           \/ Build(t) \/ BuildAnswered(t) \/ BroadcastSigned(t)

Calls(t) == Serve(t) \/ Answered(t) \/ AnswerLost(t)

Next == World \/ \E t \in Tabs : Opening(t) \/ Gate(t) \/ Form(t) \/ Calls(t)

Spec == Init /\ [][Next]_vars

\* The page tells the heir that something went wrong, or to come back later.
Unhappy(p) == \/ p.at = "error" \/ p.error \/ p.flow = "probe-error"
              \/ p.est = "young" \/ (p.failed /\ p.est = "none")

\* The browser goes on with what it has started, a server that is asked again and again answers
\* before the next tick or reload cancels the call, and a heir on an unhappy page loads it again.
Fairness ==
    \A t \in Tabs :
      /\ WF_vars(LoadAnswered(t)) /\ WF_vars(Tick(t))
      /\ WF_vars(BuildAnswered(t)) /\ WF_vars(Serve(t)) /\ WF_vars(Answered(t))
      /\ SF_vars(EstimateLooksUp(t)) /\ SF_vars(EstimateScans(t)) /\ SF_vars(EstimateArrives(t))
      /\ SF_vars(Unhappy(page[t]) /\ Load(t))

FairSpec == Spec /\ Fairness

-----------------------------------------------------------------------------
(* Properties.                                                              *)

\* Every component keeps to its states.
TypeOK ==
    /\ kind \in Kinds /\ role \in [Tabs -> {"heir", "guardian"}]
    /\ vault \in Vault /\ chain \in Chain
    /\ page \in [Tabs -> Page] /\ post \in [Tabs -> Post]
    /\ orphans \subseteq Addresses /\ practised \in BOOLEAN /\ faults \in 0 .. MaxFaults

\* Coins never go to an address that no review panel showed: a claim under way carries what its
\* heir has looked at twice (typed, reviewed, confirmed; the field may be edited in between).
PaysWhatWasReviewed == \A t \in Tabs : post[t].state # "none" => post[t].to = page[t].reviewed

\* A tab that says "it's on the network" is right, about the address it shows, whatever answers
\* arrived late, were lost or belonged to a form that is gone.
ReceiptIsTrue ==
    \A t \in Tabs :
      /\ page[t].step = "done" /\ kind # "drill" =>
           vault.token = "used" /\ chain.coins = page[t].reviewed
      /\ page[t].view = "receipt" => chain.coins # "vault"

\* A heir who was told of an error, or to wait, although the claim went through (its answer was
\* lost, its form gone) gets to see the receipt.
ReceiptIsReached ==
    \A t \in Tabs : vault.status = "claimed" /\ Unhappy(page[t]) ~> page[t].view = "receipt"

\* An heir on the waiting screens gets to the form, unless the claim is over before: neither a
\* failed estimate nor one that each minute's tick cancels holds him there.
WaitingHeir(t) == role[t] = "heir" /\ page[t].view = "open" /\ chain.matured /\ vault.windowOver
GateOpens == \A t \in Tabs : WaitingHeir(t) ~> GateOpen(page[t]) \/ vault.token # "live"
=============================================================================
