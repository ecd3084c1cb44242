----------------------------- MODULE SetupWizard -----------------------------
(* The two wizards that make vaults: the password wizard, one vault per heir  *)
(* or one with two guardians (PasswordSetupPortal.tsx, setupGates.ts), and    *)
(* the wallet wizard, where the owner pastes keys (SetupPortal.tsx). Here is  *)
(* what the vaults are to be; how their tokens get to the device is OwnerApp. *)
EXTENDS Integers, Sequences, SequencesExt

CONSTANTS Passwords,     \* passwords long enough to be scored
          Acceptable,    \* those the strength checker accepts
          WalletKeys,    \* account keys of wallets
          None,
          Demo,          \* whether the server is a demo, whose clocks run in seconds
          Picks,         \* cadences of a real server besides the default (bound: one of a demo)
          MaxHeirs,      \* bound: MAX_HEIRS, the most heirs of a plan
          MaxTries,      \* bound: presses of Create vault or Activate vault
          MaxFaults      \* bound: requests that fail or whose answer is lost

ASSUME WizardConstants ==
    /\ Acceptable \subseteq Passwords /\ None \notin Passwords \cup WalletKeys /\ Demo \in BOOLEAN
    /\ MaxHeirs \in Nat \ {0} /\ MaxTries \in Nat /\ MaxFaults \in Nat

VARIABLES page,     \* the wizard that is open: step, /health, what creation left on the screen
          plan,     \* Draft of the password wizard, with the recorded clip
          form,     \* Draft of the wallet wizard
          check,    \* strength: the verdict shown and the check that is under way
          job,      \* activate(), running on the draft it closed over
          done,     \* created: what the funding screen lists
          vaults,   \* the vaults at the server, in the order they were made
          verified, \* the tries with a vault whose owner's address is confirmed
          tries, faults

vars == <<page, plan, form, check, job, done, vaults, verified, tries, faults>>

People == 0 .. MaxHeirs     \* 0: no name and contact yet
Doors == {"ours", "own", "untagged"}    \* whose key; untagged: own, but a key that is refused
Cadences == {"usual", "quick"} \cup Picks   \* usual: the default; quick: the demo server's
Heir == [who : People, door : Doors]
EmptyHeir == [who |-> 0, door |-> "ours"]
Views == [demo : BOOLEAN, network : {"bitcoin", "testnet"}]
Terms == [network : {"bitcoin", "testnet"}, wait : {"months", "seconds"}, cadence : Cadences]
Vault == [try : 1 .. MaxTries, by : {"standard", "guardian", "wallet"}, who : People,
          door : {"ours", "own"}, secret : BOOLEAN, video : BOOLEAN, stored : BOOLEAN,
          pw : Passwords \cup {None}, terms : Terms]
Entry == [id : Nat \ {0}, address : BOOLEAN, envelope : BOOLEAN]

EmptyPlan == [kind |-> "standard", heirs |-> <<EmptyHeir>>, helpers |-> FALSE,
              cadence |-> "usual", pw |-> None, clip |-> FALSE]
EmptyForm == [pair |-> FALSE, mine |-> None, who |-> 0, theirs |-> None, cadence |-> "usual"]
NoCheck == [verdict |-> None, flying |-> None]
NoJob == [stage |-> "none"]
Host == [demo |-> Demo, network |-> IF Demo THEN "testnet" ELSE "bitcoin"]  \* demo.rs: no coins
Guess == [demo |-> FALSE, network |-> "testnet"]
Away == [at |-> "away", step |-> 0, asked |-> FALSE, known |-> Guess, warned |-> FALSE,
         taken |-> FALSE]

Init ==
    /\ page = Away /\ plan = EmptyPlan /\ form = EmptyForm /\ check = NoCheck
    /\ job = NoJob /\ done = None
    /\ vaults = <<>> /\ verified = {} /\ tries = 0 /\ faults = 0

Fault == faults < MaxFaults /\ faults' = faults + 1
Busy == job.stage # "none"
MoreTries == tries < MaxTries \/ Busy     \* bound: nothing is edited that cannot be submitted

-----------------------------------------------------------------------------
(* The page comes, goes, and learns of the server.                          *)

\* Bound: the tries are made in one wizard, on one page.
Open(wizard) ==
    /\ page.at = "away" /\ tries = 0
    /\ page' = [Away EXCEPT !.at = wizard, !.asked = TRUE]
    /\ UNCHANGED <<plan, form, check, job, done, vaults, verified, tries, faults>>

Gone == /\ page' = Away /\ done' = None
        /\ plan' = EmptyPlan /\ form' = EmptyForm /\ check' = NoCheck

\* Cancel, Done, the navigation bar, Back of the browser: activate() goes on behind it.
Leave ==
    /\ page.at # "away" /\ Gone
    /\ UNCHANGED <<job, vaults, verified, tries, faults>>

\* The tab is closed: what activate() had not done is not done.
CloseTab ==
    /\ page.at # "away" \/ Busy
    /\ Gone /\ job' = NoJob
    /\ UNCHANGED <<vaults, verified, tries, faults>>

DefaultCadence(demo) == IF demo THEN "quick" ELSE "usual"
CadencePresets(demo) == {DefaultCadence(demo)} \cup (IF demo THEN {} ELSE Picks)
Untouched(draft) == draft.cadence = "usual"
Preset(draft, demo) == IF Untouched(draft) THEN [draft EXCEPT !.cadence = DefaultCadence(demo)]
                       ELSE draft

HealthAnswers ==
    /\ page.asked
    /\ page' = [page EXCEPT !.asked = FALSE, !.known = Host]
    /\ plan' = Preset(plan, Demo) /\ form' = Preset(form, Demo)
    /\ UNCHANGED <<check, job, done, vaults, verified, tries, faults>>

HealthFails ==
    /\ page.asked /\ page' = [page EXCEPT !.asked = FALSE]
    /\ UNCHANGED <<plan, form, check, job, done, vaults, verified, tries, faults>>

-----------------------------------------------------------------------------
(* Password wizard, step 1: the heirs, the guardians and the timing.        *)

On(wizard, s) == page.at = wizard /\ page.step = s

\* The strength of the password is scored again when the heirs change, for their names count.
Recheck(draft) == check' = [check EXCEPT !.flying = draft.pw,
                                         !.verdict = IF draft.pw = None THEN None ELSE @]

\* Bound: with two heirs the cadence is a default, which /health may change, or not.
FewTimings(draft) == draft.cadence \in Picks => Len(draft.heirs) = 1

Drafts(draft) ==
    /\ MoreTries /\ FewTimings(draft) /\ plan' = draft /\ plan' # plan
    /\ UNCHANGED <<page, form, job, done, vaults, verified, tries, faults>>

\* Bound: a key that is refused is pasted for the first heir, before the first try.
KeysTried(i) == IF i = 1 /\ tries = 0 THEN Doors ELSE Doors \ {"untagged"}

EditHeir(i) ==
    /\ On("password", 0) /\ i \in DOMAIN plan.heirs
    /\ \/ \E w \in 1 .. i : Drafts([plan EXCEPT !.heirs[i].who = w])
       \/ plan.kind = "standard" /\ \E d \in KeysTried(i) : Drafts([plan EXCEPT !.heirs[i].door = d])
    /\ Recheck(plan)

\* mutant: off by one
RoomForOneMore == Len(plan.heirs) =< MaxHeirs
Room == Len(plan.heirs) < MaxHeirs

AddHeir ==
    /\ On("password", 0) /\ plan.kind = "standard" /\ Room
    /\ Drafts([plan EXCEPT !.heirs = Append(@, EmptyHeir)]) /\ Recheck(plan)

RemoveHeir(i) ==
    /\ On("password", 0) /\ i \in DOMAIN plan.heirs /\ Len(plan.heirs) > 1
    /\ plan.kind = "standard"
    /\ Drafts([plan EXCEPT !.heirs = RemoveAt(@, i)]) /\ Recheck(plan)

\* A plan with guardians has one heir, whose key is made here.
Guarded(draft) == [draft EXCEPT !.kind = "guardian", !.heirs = <<[@[1] EXCEPT !.door = "ours"]>>]

SetVaultKind ==
    /\ On("password", 0)
    /\ Drafts(IF plan.kind = "standard" THEN Guarded(plan) ELSE [plan EXCEPT !.kind = "standard"])
    /\ IF plan.kind = "standard" THEN Recheck(plan) ELSE UNCHANGED check

\* helpers: both guardians are named, and share no contact with each other or the heir.
EditHelpers ==
    /\ On("password", 0) /\ plan.kind = "guardian"
    /\ Drafts([plan EXCEPT !.helpers = ~@]) /\ UNCHANGED check

\* Bound: a cadence is picked before the first try.
PickCadence ==
    /\ On("password", 0) /\ tries = 0
    /\ \E c \in CadencePresets(page.known.demo) : Drafts([plan EXCEPT !.cadence = c])
    /\ UNCHANGED check

\* validate(0)
HeirsValid(draft) ==
    /\ \A h \in ToSet(draft.heirs) : h.who # 0
    /\ \A i, k \in DOMAIN draft.heirs : draft.heirs[i].who = draft.heirs[k].who => i = k
    /\ draft.kind = "guardian" => draft.helpers

Steps(s) == /\ page' = [page EXCEPT !.step = s]
            /\ UNCHANGED <<plan, form, check, job, done, vaults, verified, tries, faults>>

Next0 == On("password", 0) /\ HeirsValid(plan) /\ Steps(1)

Back1 == On("password", 1) /\ ~Busy /\ done = None /\ Steps(0)

-----------------------------------------------------------------------------
(* Step 2: the password and the clip.                                       *)

\* The password is typed in both fields, and the box under them ticked.
TypePassword(p) ==
    /\ On("password", 1) /\ ~Busy /\ Drafts([plan EXCEPT !.pw = p])
    /\ check' = [flying |-> p, verdict |-> IF p = None THEN None ELSE check.verdict]

\* VideoMessageRecorder's onChange: a recording may end, by its clock, while activate() runs.
Clip(kept) ==
    /\ On("password", 1) /\ (kept \/ ~Busy)
    /\ Drafts([plan EXCEPT !.clip = kept]) /\ UNCHANGED check

\* checkPassword: the debounce is over and the checker has answered, for the latest text.
Scored == check' = [verdict |-> check.flying, flying |-> None]
StrengthAnswers ==
    /\ page.at # "away" /\ check.flying # None /\ Scored
    /\ UNCHANGED <<page, plan, form, job, done, vaults, verified, tries, faults>>

\* passwordStepError: the verdict that is shown is the one that counts.
GateOpen == plan.pw # None /\ check.verdict # None /\ check.verdict \in Acceptable

-----------------------------------------------------------------------------
(* activate() of the password wizard.                                       *)

TermsSeen(wizard, cadence) ==
    [network |-> page.known.network, cadence |-> cadence,
     wait |-> IF page.known.demo /\ wizard = "password" THEN "seconds" ELSE "months"]

\* mutant: no second look at the keys
DoorsUnseen == TRUE
DoorsValid == \A h \in ToSet(plan.heirs) : h.door # "untagged"

Submits(wizard, by, cadence) ==
    /\ tries < MaxTries /\ tries' = tries + 1
    /\ job' = [stage |-> "post", by |-> by, at |-> 1, id |-> 0, plan |-> plan, form |-> form,
               terms |-> TermsSeen(wizard, cadence), address |-> FALSE, made |-> <<>>]
    /\ page' = [page EXCEPT !.taken = FALSE]
    /\ UNCHANGED <<plan, form, check, done, vaults, verified, faults>>

Activate ==
    /\ On("password", 1) /\ ~Busy /\ done = None
    /\ GateOpen /\ HeirsValid(plan) /\ DoorsValid
    /\ Submits("password", plan.kind, plan.cadence)

HeirNow(j) == j.plan.heirs[j.at]
OwnKey(h) == h.door = "own"     \* doorB: own key, and one that parses
\* mutant: what the page knows by now
TermsNow(j) == [j.terms EXCEPT !.network = page.known.network,
                               !.wait = IF page.known.demo THEN "seconds" ELSE "months"]
TermsOf(j) == j.terms

\* createVaultFromXpub, createVaultGuardian: the vault the request describes.
Described(j) ==
    IF j.by = "wallet"
    THEN [try |-> tries, by |-> "wallet", who |-> j.form.who, door |-> "own", secret |-> FALSE,
          video |-> FALSE, stored |-> FALSE, pw |-> None, terms |-> TermsOf(j)]
    ELSE [try |-> tries, by |-> j.by, who |-> HeirNow(j).who,
          door |-> IF OwnKey(HeirNow(j)) THEN "own" ELSE "ours", secret |-> ~OwnKey(HeirNow(j)),
          video |-> FALSE, stored |-> FALSE, pw |-> j.plan.pw, terms |-> TermsOf(j)]

\* mutant: only success leaves the busy state
StillBusy == UNCHANGED job
\* finally: the form is usable again, with or without an error.
Ends == job' = NoJob

\* reject_conflicting_owner_email: a confirmed vault of this address under another key, which is
\* looked for when the owner's side is sealed, as the wallet wizard does not do.
Refused == job.by # "wallet" /\ verified \ {tries} # {}

AfterPost(j) == IF j.by # "wallet" /\ j.plan.clip /\ ~OwnKey(HeirNow(j)) THEN "video" ELSE "save"

Post ==
    /\ job.stage = "post"
    /\ \/ /\ ~Refused /\ vaults' = Append(vaults, Described(job))
          /\ job' = [job EXCEPT !.stage = AfterPost(job), !.id = Len(vaults) + 1]
          /\ UNCHANGED <<page, faults>>
       \/ /\ Refused /\ Ends /\ UNCHANGED <<vaults, faults>>
          /\ page' = [page EXCEPT !.taken = page.at # "away"]
       \/ /\ Fault /\ Ends /\ UNCHANGED page
          /\ UNCHANGED vaults \/ (~Refused /\ vaults' = Append(vaults, Described(job)))
    /\ UNCHANGED <<plan, form, check, done, verified, tries>>

\* uploadVideo, best effort: an upload that fails is told on the funding screen.
\* mutant: a warning in the console only
Untold == UNCHANGED page
Told == page' = [page EXCEPT !.warned = page.at # "away"]

Upload ==
    /\ job.stage = "video" /\ job' = [job EXCEPT !.stage = "save"]
    /\ \/ vaults' = [vaults EXCEPT ![job.id].video = TRUE] /\ UNCHANGED <<page, faults>>
       \/ Fault /\ Told /\ UNCHANGED vaults
    /\ UNCHANGED <<plan, form, check, done, verified, tries>>

\* saveVaultMeta; the wallet wizard is over with it, and the success page opens.
Save ==
    /\ job.stage = "save"
    /\ vaults' = [vaults EXCEPT ![job.id].stored = TRUE]
    /\ IF job.by = "wallet" THEN Ends /\ Gone
       ELSE job' = [job EXCEPT !.stage = "address"] /\ UNCHANGED <<page, plan, form, check, done>>
    /\ UNCHANGED <<verified, tries, faults>>

\* getVaultAddress, best effort.
Address ==
    /\ job.stage = "address"
    /\ \/ job' = [job EXCEPT !.stage = "envelope", !.address = TRUE] /\ UNCHANGED faults
       \/ job' = [job EXCEPT !.stage = "envelope", !.address = FALSE] /\ Fault
    /\ UNCHANGED <<page, plan, form, check, done, vaults, verified, tries>>

\* After the last heir the funding screen opens, unless the wizard was left.
LastHeir(j) == j.at = Len(j.plan.heirs)
Finishes(entries) ==
    /\ Ends
    /\ IF page.at = "away" THEN UNCHANGED <<page, done>>
       ELSE /\ done' = [clip |-> job.plan.clip, vaults |-> entries]
            /\ page' = [page EXCEPT !.step = 2]

\* buildHeirEnvelope, best effort, when the heir's key was made here; then the next heir's vault.
Envelope ==
    /\ job.stage = "envelope"
    /\ \E built \in {~OwnKey(HeirNow(job)), FALSE} :
         LET entries == Append(job.made, [id |-> job.id, address |-> job.address,
                                          envelope |-> built])
         IN  /\ built # ~OwnKey(HeirNow(job)) => Fault
             /\ built = ~OwnKey(HeirNow(job)) => UNCHANGED faults
             /\ IF LastHeir(job) THEN Finishes(entries)
                ELSE /\ job' = [job EXCEPT !.stage = "post", !.at = @ + 1, !.made = entries]
                     /\ UNCHANGED <<page, done>>
    /\ UNCHANGED <<plan, form, check, vaults, verified, tries>>

\* The owner opens the confirmation mail of a vault.
Verify ==
    /\ \E i \in DOMAIN vaults :
         vaults[i].by # "wallet" /\ verified' = verified \cup {vaults[i].try}
    /\ verified' # verified
    /\ UNCHANGED <<page, plan, form, check, job, done, vaults, tries, faults>>

-----------------------------------------------------------------------------
(* The wallet wizard: wallet, heir, timing, review.                         *)

Fills(filled) ==
    /\ MoreTries /\ form' = filled /\ form' # form
    /\ UNCHANGED <<page, plan, check, job, done, vaults, verified, tries, faults>>

EditWallet ==
    /\ On("wallet", 0)
    /\ \/ Fills([form EXCEPT !.pair = ~@])
       \/ \E k \in WalletKeys \cup {None} : Fills([form EXCEPT !.mine = k])

EditWalletHeir ==
    /\ On("wallet", 1)
    /\ \/ \E w \in 0 .. 1 : Fills([form EXCEPT !.who = w])
       \/ \E k \in WalletKeys \cup {None} : Fills([form EXCEPT !.theirs = k])

EditTiming ==
    /\ On("wallet", 2) /\ tries = 0
    /\ \E c \in CadencePresets(page.known.demo) : Fills([form EXCEPT !.cadence = c])

\* mutant: the keys are not compared
WalletFilled(s) ==
    CASE s = 0 -> form.pair \/ form.mine # None
      [] s = 1 -> form.who # 0 /\ (form.pair \/ form.theirs # None)
      [] OTHER -> TRUE

\* validate: with a pair of descriptors no key is asked for.
WalletValid(s) ==
    CASE s = 0 -> form.pair \/ form.mine # None
      [] s = 1 -> form.who # 0 /\ (form.pair \/ (form.theirs # None /\ form.theirs # form.mine))
      [] OTHER -> TRUE

WalletNext == \E s \in 0 .. 2 : On("wallet", s) /\ WalletValid(s) /\ Steps(s + 1)
WalletBack == \E s \in 1 .. 3 : On("wallet", s) /\ ~Busy /\ Steps(s - 1)

ActivateWallet ==
    /\ On("wallet", 3) /\ ~Busy /\ Submits("wallet", "wallet", form.cadence)

-----------------------------------------------------------------------------

Owner ==
    \/ \E w \in {"password", "wallet"} : Open(w)
    \/ Leave \/ CloseTab \/ Verify
    \/ \E i \in 1 .. MaxHeirs : EditHeir(i) \/ RemoveHeir(i)
    \/ AddHeir \/ SetVaultKind \/ EditHelpers \/ PickCadence \/ Next0 \/ Back1
    \/ \E p \in Passwords \cup {None} : TypePassword(p)
    \/ \E kept \in BOOLEAN : Clip(kept)
    \/ Activate
    \/ EditWallet \/ EditWalletHeir \/ EditTiming \/ WalletNext \/ WalletBack \/ ActivateWallet

Works == Post \/ Upload \/ Save \/ Address \/ Envelope
Next == Owner \/ HealthAnswers \/ HealthFails \/ StrengthAnswers \/ Works

Spec == Init /\ [][Next]_vars
\* A request answers or fails, and the browser goes on after it.
FairSpec == Spec /\ WF_vars(Works)
-----------------------------------------------------------------------------
(* Properties.                                                              *)

\* Every variable has its type.
TypeOK ==
    /\ tries \in 0 .. MaxTries /\ faults \in 0 .. MaxFaults
    /\ page \in [at : {"away", "password", "wallet"}, step : 0 .. 3, asked : BOOLEAN,
                 known : Views, warned : BOOLEAN, taken : BOOLEAN]
    /\ plan.kind \in {"standard", "guardian"} /\ plan.cadence \in Cadences
    /\ plan.heirs # <<>> /\ Len(plan.heirs) =< MaxHeirs /\ ToSet(plan.heirs) \subseteq Heir
    /\ {plan.pw, check.verdict, check.flying} \subseteq Passwords \cup {None}
    /\ form.cadence \in Cadences /\ {form.mine, form.theirs} \subseteq WalletKeys \cup {None}
    /\ job.stage \in {"none", "post", "video", "save", "address", "envelope"}
    /\ done = None \/ ToSet(done.vaults) \subseteq Entry
    /\ ToSet(vaults) \subseteq Vault /\ verified \subseteq 1 .. MaxTries

\* No key of an heir who has their own is held, nor a clip that only a link made here could open.
OwnKeyIsOwn(v) == /\ v.door = "own" => ~v.secret /\ ~v.video /\ v.by # "guardian"
                  /\ v.door = "ours" => v.secret

\* When the funding screen opens, it lists one vault for each heir of the plan, made for that
\* heir, with the key the owner asked for, under the password that was scored, and known to this
\* browser: activate() ran on a draft it closed over, the owner may have gone back and forth and
\* changed heirs and kind before, and an earlier try may have failed half way. And no vault ever
\* holds a key whose heir has their own (PasswordSetupPortal.tsx, activate).
PlanIsKept ==
    /\ \A v \in ToSet(vaults) : OwnKeyIsOwn(v)
    /\ done # None =>
         /\ Len(done.vaults) = Len(plan.heirs)
         /\ \A i \in DOMAIN done.vaults :
              LET v == vaults[done.vaults[i].id]
              IN  /\ v.who = plan.heirs[i].who /\ v.door = plan.heirs[i].door
                  /\ v.pw = plan.pw /\ v.stored /\ v.by = plan.kind

\* The vaults of one try are one plan: the network, the waiting period and the cadence are those
\* of the moment Create vault was pressed, although /health may answer between two of them.
OneGroupOnePlan ==
    \A v, w \in ToSet(vaults) : v.try = w.try => v.terms = w.terms /\ v.by = w.by

\* The clip at hand when Create vault was pressed is in every vault that can hand it over, or the
\* funding screen says that it was not saved.
ClipIsSentOrTold ==
    done # None /\ done.clip =>
        page.warned \/ \A e \in ToSet(done.vaults) :
                          LET v == vaults[e.id] IN v.door = "ours" => v.video

\* The wallet wizard asks for no key twice: activate() checks nothing, and yet no vault is made
\* with one key for both, or none, whatever the owner changed going back and forth.
\* (Checked on the form a running activate() closed over.)
WalletIsTwoKeys ==
    Busy /\ job.by = "wallet" =>
        /\ job.form.who # 0
        /\ job.form.pair \/ (job.form.mine # None /\ job.form.theirs \notin {None, job.form.mine})

\* Create vault always comes back: the form can be used again, or the funding screen is open.
CreateEnds == Busy ~> ~Busy
=============================================================================
