-------------------------- MODULE SetupWizardProofs --------------------------
(* Theorems about SetupWizard, for every number of heirs, tries and faults:   *)
(* what the wizards make is what the owner asked for.                         *)
EXTENDS SetupWizard, SequenceTheorems, TLAPS

Plans == [kind : {"standard", "guardian"}, heirs : Seq(Heir), helpers : BOOLEAN,
          cadence : Cadences, pw : Passwords \cup {None}, clip : BOOLEAN]
Forms == [pair : BOOLEAN, mine : WalletKeys \cup {None}, who : People,
          theirs : WalletKeys \cup {None}, cadence : Cadences]
Pages == [at : {"away", "password", "wallet"}, step : 0 .. 3, asked : BOOLEAN,
          known : Views, warned : BOOLEAN, taken : BOOLEAN]
Checks == [verdict : Passwords \cup {None}, flying : Passwords \cup {None}]
Jobs == [stage : {"post", "video", "save", "address", "envelope"},
         by : {"standard", "guardian", "wallet"}, at : Nat \ {0}, id : Nat, plan : Plans,
         form : Forms, terms : Terms, address : BOOLEAN, made : Seq(Entry)]

\* A plan has heirs, and with guardians their keys are made here.
PlanOK(p) ==
    /\ p \in Plans /\ p.heirs # <<>> /\ Len(p.heirs) =< MaxHeirs
    /\ p.kind = "guardian" => \A i \in DOMAIN p.heirs : p.heirs[i].door = "ours"

\* The wizards and the server keep to their types, in the form the proofs need.
Typed ==
    /\ tries \in 0 .. MaxTries /\ faults \in 0 .. MaxFaults
    /\ page \in Pages /\ PlanOK(plan) /\ form \in Forms /\ check \in Checks
    /\ job = NoJob \/ (job \in Jobs /\ PlanOK(job.plan) /\ tries >= 1)
    /\ done = None \/ done \in [clip : BOOLEAN, vaults : Seq(Entry)]
    /\ vaults \in Seq(Vault) /\ verified \subseteq 1 .. MaxTries

\* Where the wizards are: the wallet's steps were gone through, and under a running activate()
\* and on the funding screen nothing of the plan is edited that it depends on.
Screen ==
    /\ page.at = "wallet" => /\ page.step >= 1 => WalletValid(0)
                             /\ page.step >= 2 => WalletValid(1)
    /\ done # None => page.at = "password" /\ page.step = 2 /\ ~Busy
    /\ Busy /\ page.at = "wallet" => job.by = "wallet"
    /\ Busy /\ page.at = "password" =>
         /\ job.by # "wallet" /\ page.step = 1 /\ plan.heirs = job.plan.heirs
         /\ plan.pw = job.plan.pw /\ plan.kind = job.plan.kind

\* The i-th vault of a plan.
VaultFor(v, p, i) ==
    v.who = p.heirs[i].who /\ v.door = p.heirs[i].door /\ v.pw = p.pw /\ v.by = p.kind

\* The clip is in the vault, or the screen warns.
ClipIn(v) == job.plan.clip /\ page.at # "away" => page.warned \/ (v.door = "ours" => v.video)

\* What activate() has made so far.
Made ==
    Busy /\ job.by # "wallet" =>
      /\ job.by = job.plan.kind /\ job.at =< Len(job.plan.heirs) /\ Len(job.made) = job.at - 1
      /\ \A i \in DOMAIN job.plan.heirs : job.plan.heirs[i].door # "untagged"
      /\ \A i \in 1 .. job.at - 1 :
           /\ job.made[i].id \in DOMAIN vaults
           /\ VaultFor(vaults[job.made[i].id], job.plan, i) /\ vaults[job.made[i].id].stored
           /\ ClipIn(vaults[job.made[i].id])

\* And the vault it is at.
AtHand ==
    /\ Busy /\ job.stage # "post" => job.id \in DOMAIN vaults
    /\ Busy /\ job.by = "wallet" => job.stage \in {"post", "save"}
    /\ Busy /\ job.by # "wallet" /\ job.stage # "post" =>
         /\ VaultFor(vaults[job.id], job.plan, job.at)
         /\ job.stage = "video" => vaults[job.id].door = "ours"
         /\ job.stage # "video" => ClipIn(vaults[job.id])
         /\ job.stage \in {"address", "envelope"} => vaults[job.id].stored

\* The vaults of a try are those of its activate().
Groups ==
    /\ \A i \in DOMAIN vaults : vaults[i].try =< tries /\ OwnKeyIsOwn(vaults[i])
    /\ Busy => \A i \in DOMAIN vaults :
                 vaults[i].try = tries => vaults[i].terms = job.terms /\ vaults[i].by = job.by
    /\ \A i, k \in DOMAIN vaults : vaults[i].try = vaults[k].try =>
         vaults[i].terms = vaults[k].terms /\ vaults[i].by = vaults[k].by

Listed ==
    done # None =>
      /\ Len(done.vaults) = Len(plan.heirs)
      /\ \A i \in DOMAIN done.vaults :
           LET v == vaults[done.vaults[i].id]
           IN  /\ v.who = plan.heirs[i].who /\ v.door = plan.heirs[i].door
               /\ v.pw = plan.pw /\ v.stored /\ v.by = plan.kind
               /\ done.clip => page.warned \/ (v.door = "ours" => v.video)

Inv == Typed /\ Screen /\ Made /\ AtHand /\ Groups /\ Listed /\ WalletIsTwoKeys

-----------------------------------------------------------------------------
(* What is edited keeps its type.                                           *)

LEMMA Constants ==
  /\ MaxHeirs \in Nat \ {0} /\ MaxTries \in Nat /\ MaxFaults \in Nat /\ Demo \in BOOLEAN
  /\ 0 \in People /\ 1 \in People /\ EmptyHeir \in Heir
  /\ {"usual", "quick"} \subseteq Cadences
  /\ \A demo \in BOOLEAN : DefaultCadence(demo) \in Cadences /\ CadencePresets(demo) \subseteq Cadences
  BY WizardConstants DEF People, EmptyHeir, Heir, Doors, Cadences, DefaultCadence, CadencePresets

\* A plan with other heirs.
LEMMA HeirsEdited ==
  ASSUME NEW p, PlanOK(p), NEW hs \in Seq(Heir), hs # <<>>, Len(hs) =< MaxHeirs,
         p.kind = "guardian" => \A i \in DOMAIN hs : hs[i].door = "ours"
  PROVE  PlanOK([p EXCEPT !.heirs = hs])
  BY DEF PlanOK, Plans

\* A plan with another value of a field.
LEMMA PlanEdited ==
  ASSUME NEW p, PlanOK(p)
  PROVE  /\ \A x \in BOOLEAN : PlanOK([p EXCEPT !.helpers = x])
         /\ \A x \in Cadences : PlanOK([p EXCEPT !.cadence = x])
         /\ \A x \in Passwords \cup {None} : PlanOK([p EXCEPT !.pw = x])
         /\ \A x \in BOOLEAN : PlanOK([p EXCEPT !.clip = x])
         /\ PlanOK([p EXCEPT !.kind = "standard"])
  BY DEF PlanOK, Plans

\* A plan whose i-th heir is another one.
LEMMA HeirEdited ==
  ASSUME NEW p, PlanOK(p), NEW i \in DOMAIN p.heirs, NEW h \in Heir,
         p.kind = "guardian" => h.door = "ours"
  PROVE  PlanOK([p EXCEPT !.heirs = [p.heirs EXCEPT ![i] = h]])
<1> DEFINE hs == [p.heirs EXCEPT ![i] = h]
<1>1. p.heirs \in Seq(Heir) /\ Len(p.heirs) \in Nat /\ DOMAIN p.heirs = 1 .. Len(p.heirs)
      /\ p.heirs # <<>> /\ Len(p.heirs) =< MaxHeirs
  BY DEF PlanOK, Plans
<1>2. /\ hs \in Seq(Heir) /\ Len(hs) = Len(p.heirs)
      /\ \A j \in 1 .. Len(p.heirs) : hs[j] = IF j = i THEN h ELSE p.heirs[j]
  BY <1>1, ExceptSeq
<1>3. DOMAIN hs = 1 .. Len(p.heirs)
  BY <1>1
<1>4. hs # <<>>
  BY <1>1, <1>2, EmptySeq
<1>5. p.kind = "guardian" => \A j \in DOMAIN hs : hs[j].door = "ours"
  BY <1>1, <1>2, <1>3 DEF PlanOK
<1> HIDE DEF hs
<1>. QED
  BY <1>1, <1>2, <1>4, <1>5, HeirsEdited

LEMMA WhoEdited ==
  ASSUME NEW p, PlanOK(p), NEW i \in DOMAIN p.heirs, NEW w \in 1 .. i
  PROVE  PlanOK([p EXCEPT !.heirs[i].who = w])
<1> DEFINE h == [p.heirs[i] EXCEPT !.who = w]
<1>1. p.heirs \in Seq(Heir) /\ DOMAIN p.heirs = 1 .. Len(p.heirs) /\ Len(p.heirs) =< MaxHeirs
      /\ p.heirs[i] \in Heir
  BY DEF PlanOK, Plans
<1>2. w \in People
  BY <1>1, Constants DEF People
<1>3. h \in Heir /\ h.door = p.heirs[i].door
  BY <1>1, <1>2 DEF Heir
<1>4. [p EXCEPT !.heirs[i].who = w] = [p EXCEPT !.heirs = [p.heirs EXCEPT ![i] = h]]
  BY <1>1 DEF PlanOK, Plans
<1> HIDE DEF h
<1>. QED
  BY <1>3, <1>4, HeirEdited DEF PlanOK

LEMMA DoorEdited ==
  ASSUME NEW p, PlanOK(p), p.kind = "standard", NEW i \in DOMAIN p.heirs, NEW d \in Doors
  PROVE  PlanOK([p EXCEPT !.heirs[i].door = d])
<1> DEFINE h == [p.heirs[i] EXCEPT !.door = d]
<1>1. p.heirs \in Seq(Heir) /\ DOMAIN p.heirs = 1 .. Len(p.heirs) /\ p.heirs[i] \in Heir
  BY DEF PlanOK, Plans
<1>2. h \in Heir
  BY <1>1 DEF Heir
<1>3. [p EXCEPT !.heirs[i].door = d] = [p EXCEPT !.heirs = [p.heirs EXCEPT ![i] = h]]
  BY <1>1 DEF PlanOK, Plans
<1> HIDE DEF h
<1>. QED
  BY <1>2, <1>3, HeirEdited

LEMMA HeirAdded ==
  ASSUME NEW p, PlanOK(p), p.kind = "standard", Len(p.heirs) < MaxHeirs
  PROVE  PlanOK([p EXCEPT !.heirs = Append(@, EmptyHeir)])
<1> DEFINE hs == Append(p.heirs, EmptyHeir)
<1>1. p.heirs \in Seq(Heir) /\ Len(p.heirs) \in Nat
  BY DEF PlanOK, Plans
<1>2. hs \in Seq(Heir) /\ Len(hs) = Len(p.heirs) + 1
  BY <1>1, Constants, AppendProperties
<1>3. hs # <<>> /\ Len(hs) =< MaxHeirs
  BY <1>1, <1>2, Constants, EmptySeq
<1>4. [p EXCEPT !.heirs = Append(@, EmptyHeir)] = [p EXCEPT !.heirs = hs]
  OBVIOUS
<1> HIDE DEF hs
<1>. QED
  BY <1>2, <1>3, <1>4, HeirsEdited

LEMMA HeirRemoved ==
  ASSUME NEW p, PlanOK(p), p.kind = "standard", NEW i \in DOMAIN p.heirs, Len(p.heirs) > 1
  PROVE  PlanOK([p EXCEPT !.heirs = RemoveAt(@, i)])
<1> DEFINE hs == RemoveAt(p.heirs, i)
           before == SubSeq(p.heirs, 1, i - 1)
           after == SubSeq(p.heirs, i + 1, Len(p.heirs))
<1>1. p.heirs \in Seq(Heir) /\ Len(p.heirs) \in Nat /\ DOMAIN p.heirs = 1 .. Len(p.heirs)
      /\ i \in 1 .. Len(p.heirs) /\ Len(p.heirs) =< MaxHeirs
  BY DEF PlanOK, Plans
<1>2. before \in Seq(Heir) /\ Len(before) = i - 1
  <2>1. \A j \in 1 .. i - 1 : p.heirs[j] \in Heir
    BY <1>1, ElementOfSeq
  <2>. QED
    BY <1>1, <2>1, SubSeqProperties
<1>3. after \in Seq(Heir) /\ Len(after) = Len(p.heirs) - i
  <2>1. \A j \in i + 1 .. Len(p.heirs) : p.heirs[j] \in Heir
    BY <1>1, ElementOfSeq
  <2>. QED
    BY <1>1, <2>1, SubSeqProperties
<1>4. hs \in Seq(Heir) /\ Len(hs) = Len(p.heirs) - 1
  <2>1. hs = before \o after
    BY DEF RemoveAt
  <2> HIDE DEF before, after, hs
  <2>2. Len(before \o after) = Len(before) + Len(after) /\ before \o after \in Seq(Heir)
    BY <1>2, <1>3, ConcatProperties
  <2>. QED
    BY <1>1, <1>2, <1>3, <2>1, <2>2
<1>5. hs # <<>> /\ Len(hs) =< MaxHeirs
  BY <1>1, <1>4, EmptySeq, Constants
<1>6. [p EXCEPT !.heirs = RemoveAt(@, i)] = [p EXCEPT !.heirs = hs]
  OBVIOUS
<1> HIDE DEF hs
<1>. QED
  BY <1>4, <1>5, <1>6, HeirsEdited

LEMMA PlanGuarded ==
  ASSUME NEW p, PlanOK(p)
  PROVE  PlanOK(Guarded(p))
<1> DEFINE h == [p.heirs[1] EXCEPT !.door = "ours"]
<1>1. p.heirs \in Seq(Heir) /\ p.heirs # <<>>
  BY DEF PlanOK, Plans
<1>2. p.heirs[1] \in Heir
  BY <1>1, EmptySeq, ElementOfSeq
<1>3. h \in Heir /\ h.door = "ours"
  BY <1>2 DEF Heir, Doors
<1>4. Guarded(p) = [p EXCEPT !.kind = "guardian", !.heirs = <<h>>]
  BY DEF Guarded, PlanOK, Plans
<1> HIDE DEF h
<1>5. <<h>> \in Seq(Heir) /\ Len(<<h>>) = 1 /\ <<h>> # <<>> /\ \A i \in DOMAIN <<h>> : <<h>>[i] = h
  BY <1>3
<1>6. PICK hs \in Seq(Heir) : hs = <<h>>
  BY <1>5
<1>7. [p EXCEPT !.kind = "guardian", !.heirs = hs] \in Plans
  BY DEF PlanOK, Plans
<1>8. /\ [p EXCEPT !.kind = "guardian", !.heirs = hs].heirs = hs
      /\ [p EXCEPT !.kind = "guardian", !.heirs = hs].kind = "guardian"
  BY DEF PlanOK, Plans
<1>. QED
  BY <1>3, <1>4, <1>5, <1>6, <1>7, <1>8, Constants DEF PlanOK

LEMMA FormEdited ==
  ASSUME NEW f \in Forms
  PROVE  /\ \A x \in BOOLEAN : [f EXCEPT !.pair = x] \in Forms
         /\ \A x \in WalletKeys \cup {None} : [f EXCEPT !.mine = x] \in Forms
         /\ \A x \in People : [f EXCEPT !.who = x] \in Forms
         /\ \A x \in WalletKeys \cup {None} : [f EXCEPT !.theirs = x] \in Forms
         /\ \A x \in Cadences : [f EXCEPT !.cadence = x] \in Forms
  BY DEF Forms

LEMMA EmptyDrafts == PlanOK(EmptyPlan) /\ EmptyForm \in Forms /\ NoCheck \in Checks /\ Away \in Pages
<1>1. <<EmptyHeir>> \in Seq(Heir) /\ Len(<<EmptyHeir>>) = 1 /\ <<EmptyHeir>> # <<>>
  BY Constants
<1>2. PlanOK(EmptyPlan)
  BY <1>1, Constants DEF PlanOK, Plans, EmptyPlan
<1>. QED
  BY <1>2, Constants DEF EmptyForm, Forms, NoCheck, Checks, Away, Pages, Guess, Views

-----------------------------------------------------------------------------
(* The screens.                                                             *)

LEMMA VaultsTyped == ASSUME Typed PROVE \A i \in DOMAIN vaults : vaults[i] \in Vault
<1>1. vaults \in Seq(Vault) /\ DOMAIN vaults = 1 .. Len(vaults)
  BY DEF Typed
<1>. QED
  BY <1>1, ElementOfSeq

LEMMA BusyIsJob == ASSUME Typed PROVE Busy <=> job \in Jobs
  BY DEF Typed, Busy, NoJob, Jobs

\* A running activate() does not see the screen, but for the warning it left there.
LEMMA JobKept ==
  ASSUME Inv, UNCHANGED <<job, vaults, tries>>,
         ~Busy \/ page'.at = "away" \/ (page'.at = page.at /\ page'.warned = page.warned)
  PROVE  Made' /\ AtHand' /\ Groups' /\ WalletIsTwoKeys'
<1>1. Busy' <=> Busy
  BY DEF Busy
<1>2. CASE ~Busy
  BY <1>1, <1>2 DEF Inv, Made, AtHand, Groups, WalletIsTwoKeys, OwnKeyIsOwn
<1>3. CASE page'.at = "away" \/ (page'.at = page.at /\ page'.warned = page.warned)
  BY <1>1, <1>3 DEF Inv, Made, AtHand, Groups, WalletIsTwoKeys, OwnKeyIsOwn, ClipIn, VaultFor
<1>. QED
  BY <1>2, <1>3

\* A step on the screen of the wizard that is open.
LEMMA ScreenMoves ==
  ASSUME Inv, UNCHANGED <<job, done, vaults, verified, tries, faults>>,
         page' \in Pages, PlanOK(plan'), form' \in Forms, check' \in Checks,
         page'.at = page.at, page'.warned = page.warned,
         page.at = "wallet" /\ page'.step >= 1 => WalletValid(0)',
         page.at = "wallet" /\ page'.step >= 2 => WalletValid(1)',
         page.at = "password" /\ (Busy \/ done # None) =>
           /\ page'.step = page.step /\ plan'.heirs = plan.heirs
           /\ plan'.pw = plan.pw /\ plan'.kind = plan.kind
  PROVE  Inv'
<1>1. Typed' /\ (Busy' <=> Busy)
  BY DEF Inv, Typed, Busy, PlanOK, Plans
<1>2. Screen'
  BY <1>1 DEF Inv, Screen
<1>3. Listed'
  BY DEF Inv, Listed, Screen
<1>. QED
  BY <1>1, <1>2, <1>3, JobKept DEF Inv

\* A step on the screen that only the plan and the check of its password know of.
LEMMA PlanMoves ==
  ASSUME Inv, UNCHANGED <<page, form, job, done, vaults, verified, tries, faults>>,
         page.at = "password", PlanOK(plan'), check' \in Checks,
         \/ page.step = 0 \/ (~Busy /\ page.step = 1)
         \/ plan'.heirs = plan.heirs /\ plan'.pw = plan.pw /\ plan'.kind = plan.kind
  PROVE  Inv'
<1>1. page' \in Pages /\ form' \in Forms
  BY DEF Inv, Typed
<1>2. page.step = 0 \/ (~Busy /\ page.step = 1) => ~Busy /\ done = None
  BY DEF Inv, Screen
<1>. QED
  BY <1>1, <1>2, ScreenMoves

\* And one that only the wallet's form knows of.
LEMMA FormMoves ==
  ASSUME Inv, UNCHANGED <<page, plan, check, job, done, vaults, verified, tries, faults>>,
         page.at = "wallet", form' \in Forms,
         page.step >= 1 => form'.pair = form.pair /\ form'.mine = form.mine,
         page.step >= 2 => form'.who = form.who /\ form'.theirs = form.theirs
  PROVE  Inv'
<1>1. page' \in Pages /\ PlanOK(plan') /\ check' \in Checks /\ page.step \in 0 .. 3
  BY DEF Inv, Typed, Pages
<1>2. /\ page.step >= 1 => WalletValid(0)'
      /\ page.step >= 2 => WalletValid(1)'
  BY <1>1 DEF Inv, Screen, WalletValid
<1>. QED
  BY <1>1, <1>2, ScreenMoves

\* A step to another page of the wizard.
LEMMA PageTurns ==
  ASSUME Inv, NEW s \in 0 .. 3, Steps(s),
         page.at = "wallet" /\ s >= 1 => WalletValid(0),
         page.at = "wallet" /\ s >= 2 => WalletValid(1),
         page.at = "password" => ~Busy /\ done = None
  PROVE  Inv'
<1>1. page \in Pages /\ PlanOK(plan) /\ form \in Forms /\ check \in Checks
  BY DEF Inv, Typed
<1>2. /\ page' \in Pages /\ page'.at = page.at /\ page'.warned = page.warned /\ page'.step = s
      /\ UNCHANGED <<plan, form, check, job, done, vaults, verified, tries, faults>>
  BY <1>1 DEF Steps, Pages
<1>3. (WalletValid(0)' <=> WalletValid(0)) /\ (WalletValid(1)' <=> WalletValid(1))
  BY <1>2 DEF WalletValid
<1>4. PlanOK(plan') /\ form' \in Forms /\ check' \in Checks
  BY <1>1, <1>2
<1>. QED
  BY <1>2, <1>3, <1>4, ScreenMoves

\* The page is gone, with what was on it.
LEMMA PageGone ==
  ASSUME Inv, Gone, job' = job \/ job' = NoJob, UNCHANGED <<vaults, verified, tries, faults>>
  PROVE  Inv'
<1>1. /\ page' = Away /\ page'.at = "away" /\ done' = None
      /\ PlanOK(plan') /\ form' \in Forms /\ check' \in Checks /\ page' \in Pages
  BY EmptyDrafts DEF Gone, Away
<1>2. Typed' /\ Screen' /\ Listed'
  BY <1>1 DEF Inv, Typed, Screen, Listed, Busy, NoJob
<1>3. Made' /\ AtHand' /\ Groups' /\ WalletIsTwoKeys'
  <2>1. CASE job' = job
    BY <1>1, <2>1, JobKept
  <2>2. CASE job' = NoJob
    <3>1. ~Busy'
      BY <2>2 DEF Busy, NoJob
    <3>. QED
      BY <3>1 DEF Inv, Made, AtHand, Groups, WalletIsTwoKeys, OwnKeyIsOwn
  <2>. QED
    BY <2>1, <2>2
<1>. QED
  BY <1>2, <1>3 DEF Inv

LEMMA InvInit == Init => Inv
<1>. SUFFICES ASSUME Init PROVE Inv
  OBVIOUS
<1>1. /\ page = Away /\ plan = EmptyPlan /\ form = EmptyForm /\ check = NoCheck /\ job = NoJob
      /\ done = None /\ vaults = <<>> /\ verified = {} /\ tries = 0 /\ faults = 0
  BY DEF Init
<1>2. ~Busy /\ page.at = "away"
  BY <1>1 DEF Busy, NoJob, Away
<1>3. Typed
  BY <1>1, EmptyDrafts, Constants DEF Typed
<1>4. Screen /\ Listed /\ Made /\ AtHand /\ WalletIsTwoKeys
  BY <1>1, <1>2 DEF Screen, Listed, Made, AtHand, WalletIsTwoKeys
<1>5. DOMAIN vaults = {}
  BY <1>1
<1>6. Groups
  BY <1>2, <1>5 DEF Groups
<1>. QED
  BY <1>3, <1>4, <1>6 DEF Inv

LEMMA ChecksKept ==
  ASSUME Typed, Recheck(plan) \/ Scored \/ UNCHANGED check
  PROVE  check' \in Checks
<1>1. check \in Checks /\ plan.pw \in Passwords \cup {None}
  BY DEF Typed, PlanOK, Plans
<1>2. CASE Recheck(plan)
  BY <1>1, <1>2 DEF Recheck, Checks
<1>3. CASE Scored
  BY <1>1, <1>3 DEF Scored, Checks
<1>. QED
  BY <1>1, <1>2, <1>3

\* The password wizard: heirs, guardians, timing, password and clip.
PlanEdits ==
    \/ \E i \in 1 .. MaxHeirs : EditHeir(i) \/ RemoveHeir(i)
    \/ AddHeir \/ SetVaultKind \/ EditHelpers \/ PickCadence
    \/ \E p \in Passwords \cup {None} : TypePassword(p)
    \/ \E kept \in BOOLEAN : Clip(kept)

LEMMA PlanStep == Inv /\ PlanEdits => Inv'
<1>. SUFFICES ASSUME Inv, PlanEdits PROVE Inv'
  OBVIOUS
<1>0. Typed /\ PlanOK(plan) /\ page \in Pages /\ check \in Checks
  BY DEF Inv, Typed
\* On the first step of the wizard nothing runs that depends on the plan.
<1>1. ASSUME NEW draft, PlanOK(draft), Drafts(draft), On("password", 0),
             Recheck(plan) \/ UNCHANGED check
      PROVE  Inv'
  BY <1>0, <1>1, ChecksKept, PlanMoves DEF Drafts, On
<1>2. ASSUME NEW i \in 1 .. MaxHeirs, EditHeir(i)
      PROVE  Inv'
  <2>1. On("password", 0) /\ i \in DOMAIN plan.heirs /\ Recheck(plan)
    BY <1>2 DEF EditHeir
  <2>2. ASSUME NEW w \in 1 .. i, Drafts([plan EXCEPT !.heirs[i].who = w])
        PROVE  Inv'
    BY <1>0, <1>1, <2>1, <2>2, WhoEdited
  <2>3. ASSUME plan.kind = "standard", NEW d \in KeysTried(i),
               Drafts([plan EXCEPT !.heirs[i].door = d])
        PROVE  Inv'
    <3>1. d \in Doors
      BY <2>3 DEF KeysTried
    <3>. QED
      BY <1>0, <1>1, <2>1, <2>3, <3>1, DoorEdited
  <2>. QED
    BY <1>2, <2>2, <2>3 DEF EditHeir
<1>3. ASSUME NEW i \in 1 .. MaxHeirs, RemoveHeir(i)
      PROVE  Inv'
  <2>1. /\ On("password", 0) /\ i \in DOMAIN plan.heirs /\ Recheck(plan)
        /\ plan.kind = "standard" /\ Len(plan.heirs) > 1
        /\ Drafts([plan EXCEPT !.heirs = RemoveAt(@, i)])
    BY <1>3 DEF RemoveHeir
  <2>. QED
    BY <1>0, <1>1, <2>1, HeirRemoved
<1>4. CASE AddHeir
  <2>1. /\ On("password", 0) /\ Recheck(plan) /\ plan.kind = "standard"
        /\ Len(plan.heirs) < MaxHeirs
        /\ Drafts([plan EXCEPT !.heirs = Append(@, EmptyHeir)])
    BY <1>4 DEF AddHeir, Room
  <2>. QED
    BY <1>0, <1>1, <2>1, HeirAdded
<1>5. CASE SetVaultKind
  <2>1. On("password", 0) /\ (Recheck(plan) \/ UNCHANGED check)
    BY <1>5 DEF SetVaultKind
  <2>2. CASE plan.kind = "standard"
    BY <1>0, <1>1, <1>5, <2>1, <2>2, PlanGuarded DEF SetVaultKind
  <2>3. CASE plan.kind # "standard"
    BY <1>0, <1>1, <1>5, <2>1, <2>3, PlanEdited DEF SetVaultKind
  <2>. QED
    BY <2>2, <2>3
<1>6. CASE EditHelpers
  <2>1. On("password", 0) /\ UNCHANGED check /\ Drafts([plan EXCEPT !.helpers = ~plan.helpers])
    BY <1>6 DEF EditHelpers
  <2>2. (~plan.helpers) \in BOOLEAN
    BY <1>0 DEF PlanOK, Plans
  <2>3. PlanOK([plan EXCEPT !.helpers = ~plan.helpers])
    BY <1>0, <2>2, PlanEdited
  <2>. QED
    BY <1>1, <2>1, <2>3
<1>7. CASE PickCadence
  <2>1. PICK c \in CadencePresets(page.known.demo) : Drafts([plan EXCEPT !.cadence = c])
    BY <1>7 DEF PickCadence
  <2>2. page.known.demo \in BOOLEAN
    BY <1>0 DEF Pages, Views
  <2>3. PlanOK([plan EXCEPT !.cadence = c])
    BY <1>0, <2>1, <2>2, Constants, PlanEdited
  <2>. QED
    BY <1>1, <1>7, <2>1, <2>3 DEF PickCadence
<1>8. ASSUME NEW p \in Passwords \cup {None}, TypePassword(p)
      PROVE  Inv'
  <2>1. PlanOK([plan EXCEPT !.pw = p])
    BY <1>0, PlanEdited
  <2>2. check' \in Checks
    BY <1>0, <1>8 DEF TypePassword, Checks
  <2>. QED
    BY <1>8, <2>1, <2>2, PlanMoves DEF TypePassword, Drafts, On
<1>9. ASSUME NEW kept \in BOOLEAN, Clip(kept)
      PROVE  Inv'
  <2>1. PlanOK([plan EXCEPT !.clip = kept])
    BY <1>0, PlanEdited
  <2>2. plan' = [plan EXCEPT !.clip = kept] /\ UNCHANGED check
    BY <1>9 DEF Clip, Drafts
  <2>3. plan'.heirs = plan.heirs /\ plan'.pw = plan.pw /\ plan'.kind = plan.kind
    BY <1>0, <2>2 DEF PlanOK, Plans
  <2>. QED
    BY <1>0, <1>9, <2>1, <2>2, <2>3, PlanMoves DEF Clip, Drafts, On
<1>. QED
  BY <1>2, <1>3, <1>4, <1>5, <1>6, <1>7, <1>8, <1>9 DEF PlanEdits

\* The wallet wizard: wallet, heir and timing.
LEMMA FormStep == Inv /\ (EditWallet \/ EditWalletHeir \/ EditTiming) => Inv'
<1>. SUFFICES ASSUME Inv, EditWallet \/ EditWalletHeir \/ EditTiming PROVE Inv'
  OBVIOUS
<1>0. form \in Forms /\ page \in Pages /\ page.step \in 0 .. 3
  BY DEF Inv, Typed, Pages
<1>1. ASSUME NEW filled \in Forms, Fills(filled), NEW s \in 0 .. 2, On("wallet", s),
             s >= 1 => filled.pair = form.pair /\ filled.mine = form.mine,
             s >= 2 => filled.who = form.who /\ filled.theirs = form.theirs
      PROVE  Inv'
  BY <1>1, FormMoves DEF Fills, On
<1>2. CASE EditWallet
  <2>1. CASE Fills([form EXCEPT !.pair = ~@])
    <3>1. (~form.pair) \in BOOLEAN
      BY <1>0 DEF Forms
    <3>2. [form EXCEPT !.pair = ~@] \in Forms
      BY <1>0, <3>1, FormEdited
    <3>. QED
      BY <1>1, <1>2, <2>1, <3>2 DEF EditWallet
  <2>2. ASSUME NEW k \in WalletKeys \cup {None}, Fills([form EXCEPT !.mine = k])
        PROVE  Inv'
    <3>1. [form EXCEPT !.mine = k] \in Forms
      BY <1>0, FormEdited
    <3>. QED
      BY <1>1, <1>2, <2>2, <3>1 DEF EditWallet
  <2>. QED
    BY <1>2, <2>1, <2>2 DEF EditWallet
<1>3. CASE EditWalletHeir
  <2>1. ASSUME NEW f \in Forms, Fills(f), f.pair = form.pair, f.mine = form.mine
        PROVE  Inv'
    BY <1>1, <1>3, <2>1 DEF EditWalletHeir
  <2>2. ASSUME NEW w \in 0 .. 1, Fills([form EXCEPT !.who = w])
        PROVE  Inv'
    <3>1. w \in People
      BY Constants
    <3>2. [form EXCEPT !.who = w] \in Forms
      BY <1>0, <3>1, FormEdited
    <3>3. [form EXCEPT !.who = w].pair = form.pair /\ [form EXCEPT !.who = w].mine = form.mine
      BY <1>0 DEF Forms
    <3>. QED
      BY <2>1, <2>2, <3>2, <3>3
  <2>3. ASSUME NEW k \in WalletKeys \cup {None}, Fills([form EXCEPT !.theirs = k])
        PROVE  Inv'
    <3>1. [form EXCEPT !.theirs = k] \in Forms
      BY <1>0, FormEdited
    <3>2. [form EXCEPT !.theirs = k].pair = form.pair /\ [form EXCEPT !.theirs = k].mine = form.mine
      BY <1>0 DEF Forms
    <3>. QED
      BY <2>1, <2>3, <3>1, <3>2
  <2>. QED
    BY <1>3, <2>2, <2>3 DEF EditWalletHeir
<1>4. CASE EditTiming
  <2>1. PICK c \in CadencePresets(page.known.demo) : Fills([form EXCEPT !.cadence = c])
    BY <1>4 DEF EditTiming
  <2>2. c \in Cadences
    BY <1>0, <2>1, Constants DEF Pages, Views
  <2> DEFINE f == [form EXCEPT !.cadence = c]
  <2>3. f \in Forms
    BY <1>0, <2>2, FormEdited
  <2>4. /\ f.pair = form.pair /\ f.mine = form.mine
        /\ f.who = form.who /\ f.theirs = form.theirs
    BY <1>0 DEF Forms
  <2>5. Fills(f) /\ On("wallet", 2)
    BY <1>4, <2>1 DEF EditTiming
  <2> HIDE DEF f
  <2>. QED
    BY <1>1, <2>3, <2>4, <2>5
<1>. QED
  BY <1>2, <1>3, <1>4

\* The wizards open, turn their pages and go; /health, the checker and a mail are heard of.
PageTurn ==
    \/ \E w \in {"password", "wallet"} : Open(w)
    \/ Leave \/ CloseTab \/ Verify \/ Next0 \/ Back1 \/ WalletNext \/ WalletBack
    \/ HealthAnswers \/ HealthFails \/ StrengthAnswers

LEMMA PageStep == Inv /\ PageTurn => Inv'
<1>. SUFFICES ASSUME Inv, PageTurn PROVE Inv'
  OBVIOUS
<1>0. /\ Typed /\ page \in Pages /\ PlanOK(plan) /\ form \in Forms /\ check \in Checks
      /\ page.step \in 0 .. 3
  BY DEF Inv, Typed, Pages
<1>1. ASSUME NEW w \in {"password", "wallet"}, Open(w)
      PROVE  Inv'
  <2>1. /\ page' \in Pages /\ page'.at = w /\ page'.step = 0 /\ tries = 0 /\ page.at = "away"
        /\ UNCHANGED <<plan, form, check, job, done, vaults, verified, tries, faults>>
    BY <1>1, EmptyDrafts DEF Open, Away, Pages
  <2>2. ~Busy /\ done = None
    BY <2>1, BusyIsJob DEF Inv, Typed, Screen, Busy, NoJob
  <2>3. Typed' /\ ~Busy'
    BY <1>0, <2>1, <2>2 DEF Typed, Busy
  <2>4. Screen' /\ Listed'
    BY <2>1, <2>2, <2>3 DEF Screen, Listed
  <2>5. Made' /\ AtHand' /\ Groups' /\ WalletIsTwoKeys'
    BY <2>1, <2>2, JobKept
  <2>. QED
    BY <2>3, <2>4, <2>5 DEF Inv
<1>2. CASE Leave \/ CloseTab
  BY <1>2, PageGone DEF Leave, CloseTab
<1>3. CASE Verify
  <2>1. PICK i \in DOMAIN vaults : verified' = verified \cup {vaults[i].try}
    BY <1>3 DEF Verify
  <2>2. vaults[i].try \in 1 .. MaxTries
    BY <1>0, <2>1, VaultsTyped DEF Vault
  <2>3. UNCHANGED <<page, plan, form, check, job, done, vaults, tries, faults>>
    BY <1>3 DEF Verify
  <2>4. Typed'
    BY <1>0, <2>1, <2>2, <2>3 DEF Typed
  <2>5. Screen' /\ Listed'
    BY <2>3 DEF Inv, Screen, Listed, Busy, WalletValid
  <2>6. Made' /\ AtHand' /\ Groups' /\ WalletIsTwoKeys'
    BY <2>3, JobKept
  <2>. QED
    BY <2>4, <2>5, <2>6 DEF Inv
<1>4. CASE Next0
  BY <1>4, PageTurns DEF Next0, On, Inv, Screen
<1>5. CASE Back1
  BY <1>5, PageTurns DEF Back1, On
<1>6. CASE WalletNext
  <2>1. PICK s \in 0 .. 2 : On("wallet", s) /\ WalletValid(s) /\ Steps(s + 1)
    BY <1>6 DEF WalletNext
  <2>2. s + 1 \in 0 .. 3 /\ page.at = "wallet" /\ page.step = s
    BY <2>1 DEF On
  <2>3. /\ WalletValid(0)
        /\ s + 1 >= 2 => WalletValid(1)
    BY <2>1, <2>2 DEF Inv, Screen
  <2>. QED
    BY <2>1, <2>2, <2>3, PageTurns
<1>7. CASE WalletBack
  <2>1. PICK s \in 1 .. 3 : On("wallet", s) /\ Steps(s - 1)
    BY <1>7 DEF WalletBack
  <2>2. s - 1 \in 0 .. 3 /\ page.at = "wallet" /\ page.step = s
    BY <2>1 DEF On
  <2>3. /\ s - 1 >= 1 => WalletValid(0)
        /\ s - 1 >= 2 => WalletValid(1)
    BY <2>2 DEF Inv, Screen
  <2>. QED
    BY <2>1, <2>2, <2>3, PageTurns
<1>8. CASE HealthAnswers
  <2>1. /\ plan' = Preset(plan, Demo) /\ form' = Preset(form, Demo)
        /\ page' = [page EXCEPT !.asked = FALSE, !.known = Host]
        /\ UNCHANGED <<check, job, done, vaults, verified, tries, faults>>
    BY <1>8 DEF HealthAnswers
  <2>2. /\ PlanOK(plan') /\ plan'.heirs = plan.heirs /\ plan'.pw = plan.pw
        /\ plan'.kind = plan.kind
    <3>1. PlanOK(plan')
      BY <1>0, <2>1, Constants, PlanEdited DEF Preset
    <3>. QED
      BY <1>0, <2>1, <3>1 DEF Preset, PlanOK, Plans
  <2>3. /\ form' \in Forms /\ form'.pair = form.pair /\ form'.mine = form.mine
        /\ form'.who = form.who /\ form'.theirs = form.theirs
    <3>1. form' \in Forms
      BY <1>0, <2>1, Constants, FormEdited DEF Preset
    <3>. QED
      BY <1>0, <2>1, <3>1 DEF Preset, Forms
  <2>4. /\ page' \in Pages /\ page'.at = page.at /\ page'.step = page.step
        /\ page'.warned = page.warned
    BY <1>0, <2>1, Constants DEF Pages, Host, Views
  <2>5. /\ page.at = "wallet" /\ page'.step >= 1 => WalletValid(0)'
        /\ page.at = "wallet" /\ page'.step >= 2 => WalletValid(1)'
    BY <2>3, <2>4 DEF Inv, Screen, WalletValid
  <2>6. check' \in Checks
    BY <1>0, <2>1
  <2>. QED
    BY <2>1, <2>2, <2>3, <2>4, <2>5, <2>6, ScreenMoves
<1>9. CASE HealthFails \/ StrengthAnswers
  <2>1. /\ page' \in Pages /\ page'.at = page.at /\ page'.step = page.step
        /\ page'.warned = page.warned /\ check' \in Checks
        /\ UNCHANGED <<plan, form, job, done, vaults, verified, tries, faults>>
    BY <1>0, <1>9, ChecksKept DEF HealthFails, StrengthAnswers, Pages
  <2>2. /\ page.at = "wallet" /\ page'.step >= 1 => WalletValid(0)'
        /\ page.at = "wallet" /\ page'.step >= 2 => WalletValid(1)'
    BY <2>1 DEF Inv, Screen, WalletValid
  <2>3. PlanOK(plan') /\ form' \in Forms
    BY <1>0, <2>1
  <2>. QED
    BY <2>1, <2>2, <2>3, ScreenMoves
<1>. QED
  BY <1>1, <1>2, <1>3, <1>4, <1>5, <1>6, <1>7, <1>8, <1>9 DEF PageTurn

\* Create vault, Activate vault: the draft is closed over, and its vaults are a group of their own.
LEMMA SubmitStep == Inv /\ (Activate \/ ActivateWallet) => Inv'
<1>. SUFFICES ASSUME Inv, Activate \/ ActivateWallet PROVE Inv'
  OBVIOUS
<1>0. /\ Typed /\ page \in Pages /\ PlanOK(plan) /\ form \in Forms /\ tries \in 0 .. MaxTries
      /\ MaxTries \in Nat /\ vaults \in Seq(Vault)
  BY Constants DEF Inv, Typed
<1>1. done = None
  BY DEF Activate, ActivateWallet, On, Inv, Screen
<1>2. ASSUME NEW wizard \in {"password", "wallet"}, NEW by \in {"standard", "guardian", "wallet"},
             NEW cadence \in Cadences, Submits(wizard, by, cadence), page.at = wizard,
             wizard = "wallet" <=> by = "wallet",
             wizard = "password" => by = plan.kind /\ page.step = 1 /\ DoorsValid,
             wizard = "wallet" => WalletValid(0) /\ WalletValid(1)
      PROVE  Inv'
  <2>1. /\ tries < MaxTries /\ tries' = tries + 1
        /\ UNCHANGED <<plan, form, check, done, vaults, verified, faults>>
        /\ page' = [page EXCEPT !.taken = FALSE]
        /\ job' = [stage |-> "post", by |-> by, at |-> 1, id |-> 0, plan |-> plan, form |-> form,
                   terms |-> TermsSeen(wizard, cadence), address |-> FALSE, made |-> <<>>]
    BY <1>2 DEF Submits
  <2>2. TermsSeen(wizard, cadence) \in Terms
    BY <1>0, <1>2 DEF TermsSeen, Terms, Pages, Views
  <2>3. job' \in Jobs
    <3>1. plan \in Plans /\ <<>> \in Seq(Entry)
      BY <1>0 DEF PlanOK
    <3>. QED
      BY <1>0, <2>1, <2>2, <3>1 DEF Jobs
  <2>4. /\ job'.stage = "post" /\ job'.by = by /\ job'.at = 1 /\ job'.plan = plan
        /\ job'.form = form /\ job'.made = <<>> /\ Busy'
    BY <2>1 DEF Busy
  <2>5. page' \in Pages /\ page'.at = wizard /\ page'.step = page.step
    BY <1>0, <1>2, <2>1 DEF Pages
  <2>6. Typed'
    BY <1>0, <2>1, <2>3, <2>4, <2>5 DEF Typed, PlanOK
  <2>7. Screen'
    BY <1>1, <1>2, <2>1, <2>4, <2>5 DEF Screen, WalletValid
  <2>8. Listed'
    BY <1>1, <2>1 DEF Listed
  <2>9. Made'
    <3>1. plan.heirs \in Seq(Heir) /\ plan.heirs # <<>>
      BY <1>0 DEF PlanOK, Plans
    <3>2. Len(plan.heirs) >= 1
      BY <3>1, EmptySeq
    <3>3. by # "wallet" => \A i \in DOMAIN plan.heirs : plan.heirs[i].door # "untagged"
      BY <1>2 DEF DoorsValid, ToSet
    <3>4. by # "wallet" => by = plan.kind
      BY <1>2
    <3>. QED
      BY <2>4, <3>2, <3>3, <3>4 DEF Made
  <2>10. AtHand' /\ WalletIsTwoKeys'
    BY <1>2, <2>4 DEF AtHand, WalletIsTwoKeys, WalletValid
  <2>11. Groups'
    <3>1. \A i \in DOMAIN vaults : vaults[i].try \in Nat
      BY <1>0, VaultsTyped DEF Vault
    <3>. QED
      BY <1>0, <2>1, <3>1 DEF Inv, Groups, OwnKeyIsOwn
  <2>. QED
    BY <2>6, <2>7, <2>8, <2>9, <2>10, <2>11 DEF Inv
<1>3. CASE Activate
  <2>1. plan.kind \in {"standard", "guardian"} /\ plan.cadence \in Cadences
    BY <1>0 DEF PlanOK, Plans
  <2>. QED
    BY <1>2, <1>3, <2>1 DEF Activate, On
<1>4. CASE ActivateWallet
  <2>1. form.cadence \in Cadences
    BY <1>0 DEF Forms
  <2>. QED
    BY <1>2, <1>4, <2>1 DEF ActivateWallet, On, Inv, Screen
<1>. QED
  BY <1>3, <1>4

-----------------------------------------------------------------------------
(* activate() at work.                                                      *)

\* A vault at the server keeps what it was made with; it is stored, and gets its clip.
Kept(v, w) ==
    /\ w.try = v.try /\ w.by = v.by /\ w.who = v.who /\ w.door = v.door /\ w.secret = v.secret
    /\ w.pw = v.pw /\ w.terms = v.terms /\ (v.stored => w.stored) /\ (v.video => w.video)

Grown == \A i \in DOMAIN vaults : i \in DOMAIN vaults' /\ Kept(vaults[i], vaults'[i])

\* The wizard is where it was, unless it was left.
PageHolds ==
    page'.at = "away" \/ (page'.at = page.at /\ page'.step = page.step /\ (page.warned => page'.warned))

LEMMA Running ==
  ASSUME Inv, Busy
  PROVE  /\ job \in Jobs /\ PlanOK(job.plan) /\ tries \in 1 .. MaxTries /\ done = None
         /\ job.form \in Forms /\ job.terms \in Terms
  BY Constants DEF Inv, Typed, Screen, Busy, NoJob, Jobs

\* The vault a request describes is the one the plan asks for.
LEMMA DescribedFits ==
  ASSUME Inv, job.stage = "post"
  PROVE  /\ Described(job) \in Vault /\ OwnKeyIsOwn(Described(job))
         /\ Described(job).try = tries /\ Described(job).terms = job.terms
         /\ Described(job).by = job.by
         /\ job.by # "wallet" => VaultFor(Described(job), job.plan, job.at)
         /\ AfterPost(job) = "video" => job.by # "wallet" /\ job.plan.clip
                                        /\ Described(job).door = "ours"
         /\ AfterPost(job) # "video" /\ job.by # "wallet" /\ job.plan.clip =>
              Described(job).door = "own"
<1>1. Busy
  BY DEF Busy
<1>2. /\ job \in Jobs /\ PlanOK(job.plan) /\ tries \in 1 .. MaxTries
      /\ job.form \in Forms /\ job.terms \in Terms
  BY <1>1, Running
<1>3. CASE job.by = "wallet"
  <2>1. Described(job) = [try |-> tries, by |-> "wallet", who |-> job.form.who, door |-> "own",
                          secret |-> FALSE, video |-> FALSE, stored |-> FALSE, pw |-> None,
                          terms |-> job.terms]
    BY <1>3 DEF Described, TermsOf
  <2>2. job.form.who \in People
    BY <1>2 DEF Forms
  <2>. QED
    BY <1>2, <1>3, <2>1, <2>2 DEF Vault, OwnKeyIsOwn, AfterPost
<1>4. CASE job.by # "wallet"
  <2> DEFINE h == job.plan.heirs[job.at]
  <2>1. /\ job.by = job.plan.kind /\ job.at =< Len(job.plan.heirs) /\ job.at \in Nat \ {0}
        /\ \A i \in DOMAIN job.plan.heirs : job.plan.heirs[i].door # "untagged"
    BY <1>1, <1>2, <1>4 DEF Inv, Made, Jobs
  <2>2. job.plan.heirs \in Seq(Heir) /\ DOMAIN job.plan.heirs = 1 .. Len(job.plan.heirs)
        /\ Len(job.plan.heirs) \in Nat
    BY <1>2 DEF PlanOK, Plans
  <2>3. job.at \in 1 .. Len(job.plan.heirs)
    BY <2>1, <2>2
  <2>4. h \in Heir
    BY <2>2, <2>3, ElementOfSeq
  <2>5. /\ h.who \in People /\ h.door \in {"ours", "own"}
        /\ job.by = "guardian" => h.door = "ours"
    BY <1>2, <2>1, <2>2, <2>3, <2>4 DEF Heir, Doors, PlanOK
  <2>6. job.by \in {"standard", "guardian"} /\ job.plan.pw \in Passwords \cup {None}
    BY <1>2, <1>4 DEF Jobs, Plans
  <2>7. Described(job) = [try |-> tries, by |-> job.by, who |-> h.who, door |-> h.door,
                          secret |-> h.door # "own", video |-> FALSE, stored |-> FALSE,
                          pw |-> job.plan.pw, terms |-> job.terms]
    BY <1>4, <2>5 DEF Described, HeirNow, OwnKey, TermsOf
  <2>8. AfterPost(job) = IF job.plan.clip /\ h.door # "own" THEN "video" ELSE "save"
    BY <1>4 DEF AfterPost, HeirNow, OwnKey
  <2>9. /\ Described(job).who = h.who /\ Described(job).door = h.door
        /\ Described(job).by = job.by /\ Described(job).pw = job.plan.pw
        /\ Described(job).try = tries /\ Described(job).terms = job.terms
    BY <2>7
  <2>11. OwnKeyIsOwn(Described(job))
    <3> DEFINE r(b) == [try |-> tries, by |-> job.by, who |-> h.who, door |-> h.door, secret |-> b,
                        video |-> FALSE, stored |-> FALSE, pw |-> job.plan.pw,
                        terms |-> job.terms]
    <3>1. CASE h.door = "own"
      <4>1. (h.door # "own") = FALSE
        BY <3>1
      <4>2. Described(job) = r(FALSE)
        BY <2>7, <4>1
      <4>. QED
        BY <2>5, <3>1, <4>2 DEF OwnKeyIsOwn
    <3>2. CASE h.door # "own"
      <4>1. (h.door # "own") = TRUE
        BY <3>2
      <4>2. Described(job) = r(TRUE)
        BY <2>7, <4>1
      <4>. QED
        BY <2>5, <3>2, <4>2 DEF OwnKeyIsOwn
    <3>. QED
      BY <3>1, <3>2
  <2>10. Described(job) \in Vault
    BY <1>2, <2>5, <2>6, <2>7 DEF Vault
  <2>. QED
    BY <1>4, <2>1, <2>5, <2>8, <2>9, <2>10, <2>11 DEF VaultFor
<1>. QED
  BY <1>3, <1>4

\* One more vault at the server.
LEMMA VaultAdded ==
  ASSUME Inv, job.stage = "post", vaults' = Append(vaults, Described(job))
  PROVE  /\ vaults' \in Seq(Vault) /\ Len(vaults) + 1 \in DOMAIN vaults' /\ Grown
         /\ vaults'[Len(vaults) + 1] = Described(job)
         /\ \A i \in DOMAIN vaults' : i \in DOMAIN vaults \/ vaults'[i] = Described(job)
         /\ \A i \in DOMAIN vaults : vaults'[i] = vaults[i]
<1>1. vaults \in Seq(Vault) /\ Len(vaults) \in Nat /\ DOMAIN vaults = 1 .. Len(vaults)
  BY DEF Inv, Typed
<1>2. Described(job) \in Vault
  BY DescribedFits
<1>3. /\ vaults' \in Seq(Vault) /\ Len(vaults') = Len(vaults) + 1
      /\ \A i \in 1 .. Len(vaults) : vaults'[i] = vaults[i]
      /\ vaults'[Len(vaults) + 1] = Described(job)
  BY <1>1, <1>2, AppendProperties
<1>4. DOMAIN vaults' = 1 .. Len(vaults) + 1
  BY <1>3
<1>. QED
  BY <1>1, <1>3, <1>4 DEF Grown, Kept

\* A vault at the server is marked.
LEMMA VaultMarked ==
  ASSUME Inv, NEW i \in DOMAIN vaults, NEW w \in Vault, Kept(vaults[i], w),
         vaults' = [vaults EXCEPT ![i] = w]
  PROVE  /\ vaults' \in Seq(Vault) /\ DOMAIN vaults' = DOMAIN vaults /\ Grown /\ vaults'[i] = w
         /\ \A k \in DOMAIN vaults : k # i => vaults'[k] = vaults[k]
<1>1. vaults \in Seq(Vault) /\ Len(vaults) \in Nat /\ DOMAIN vaults = 1 .. Len(vaults)
  BY DEF Inv, Typed
<1>2. /\ vaults' \in Seq(Vault) /\ Len(vaults') = Len(vaults)
      /\ \A k \in 1 .. Len(vaults) : vaults'[k] = IF k = i THEN w ELSE vaults[k]
  BY <1>1, ExceptSeq
<1>. QED
  BY <1>1, <1>2 DEF Grown, Kept

\* What is true of a vault of the plan stays so.
LEMMA VaultsServe ==
  ASSUME Grown, PageHolds, job'.plan = job.plan, NEW i \in DOMAIN vaults
  PROVE  /\ i \in DOMAIN vaults'
         /\ \A k : VaultFor(vaults[i], job.plan, k) => VaultFor(vaults'[i], job.plan, k)
         /\ vaults[i].stored => vaults'[i].stored
         /\ vaults'[i].door = vaults[i].door
         /\ ClipIn(vaults[i]) => ClipIn(vaults[i])'
  BY DEF Grown, Kept, PageHolds, VaultFor, ClipIn

\* The vaults of a try stay those of one plan.
LEMMA GroupsGrow ==
  ASSUME Inv, Busy, tries' = tries, Grown,
         job' = NoJob \/ (job'.terms = job.terms /\ job'.by = job.by),
         \A i \in DOMAIN vaults' : OwnKeyIsOwn(vaults'[i]),
         \A i \in DOMAIN vaults' : i \in DOMAIN vaults \/
           (vaults'[i].try = tries /\ vaults'[i].terms = job.terms /\ vaults'[i].by = job.by)
  PROVE  Groups'
<1>1. \A i \in DOMAIN vaults' :
        /\ vaults'[i].try =< tries
        /\ vaults'[i].try = tries => vaults'[i].terms = job.terms /\ vaults'[i].by = job.by
  BY Running DEF Inv, Groups, Grown, Kept
<1>2. \A i, k \in DOMAIN vaults' : vaults'[i].try = vaults'[k].try =>
        vaults'[i].terms = vaults'[k].terms /\ vaults'[i].by = vaults'[k].by
  BY <1>1 DEF Inv, Groups, Grown, Kept
<1>3. Busy' => job'.terms = job.terms /\ job'.by = job.by
  BY DEF Busy, NoJob
<1>. QED
  BY <1>1, <1>2, <1>3 DEF Groups, OwnKeyIsOwn

\* activate() goes on, under the screen it was started on or with that screen gone.
LEMMA WorkGoesOn ==
  ASSUME Inv, Busy, job' \in Jobs, PageHolds, page' \in Pages, faults' \in 0 .. MaxFaults,
         vaults' \in Seq(Vault), UNCHANGED <<plan, form, check, done, verified, tries>>,
         job'.by = job.by, job'.plan = job.plan, job'.form = job.form
  PROVE  Typed' /\ Screen' /\ Listed' /\ WalletIsTwoKeys' /\ Busy'
<1>1. Busy' /\ done' = None /\ job'.stage # "none"
  BY Running DEF Busy, Jobs
<1>2. Typed'
  BY <1>1, Running DEF Inv, Typed, PlanOK
<1>3. Listed' /\ WalletIsTwoKeys'
  BY <1>1 DEF Listed, Inv, WalletIsTwoKeys
<1>4. Screen'
  BY <1>1 DEF Inv, Screen, PageHolds, WalletValid
<1>. QED
  BY <1>1, <1>2, <1>3, <1>4

\* activate() is over, with an error.
LEMMA WorkFails ==
  ASSUME Inv, Busy, job' = NoJob, page' \in Pages, page'.at = page.at, page'.step = page.step,
         faults' \in 0 .. MaxFaults, vaults' \in Seq(Vault), Groups',
         UNCHANGED <<plan, form, check, done, verified, tries>>
  PROVE  Inv'
<1>1. ~Busy' /\ done' = None
  BY Running DEF Busy, NoJob
<1>2. Typed'
  BY Running DEF Inv, Typed, PlanOK
<1>3. Listed' /\ WalletIsTwoKeys' /\ Made' /\ AtHand'
  BY <1>1 DEF Listed, WalletIsTwoKeys, Made, AtHand
<1>4. Screen'
  BY <1>1 DEF Inv, Screen, WalletValid
<1>. QED
  BY <1>2, <1>3, <1>4 DEF Inv

LEMMA FaultCounted == Typed /\ (Fault \/ UNCHANGED faults) => faults' \in 0 .. MaxFaults
  BY Constants DEF Typed, Fault

LEMMA VaultStored ==
  ASSUME Inv, NEW i \in DOMAIN vaults
  PROVE  LET w == [vaults[i] EXCEPT !.stored = TRUE]
         IN  w \in Vault /\ Kept(vaults[i], w) /\ OwnKeyIsOwn(w) /\ w.stored
<1>1. vaults[i] \in Vault /\ OwnKeyIsOwn(vaults[i])
  BY VaultsTyped DEF Inv, Groups
<1>. QED
  BY <1>1 DEF Vault, Kept, OwnKeyIsOwn

LEMMA VaultFilmed ==
  ASSUME Inv, NEW i \in DOMAIN vaults, vaults[i].door = "ours"
  PROVE  LET w == [vaults[i] EXCEPT !.video = TRUE]
         IN  w \in Vault /\ Kept(vaults[i], w) /\ OwnKeyIsOwn(w) /\ w.video
<1>1. vaults[i] \in Vault /\ OwnKeyIsOwn(vaults[i])
  BY VaultsTyped DEF Inv, Groups
<1>. QED
  BY <1>1 DEF Vault, Kept, OwnKeyIsOwn

\* What activate() has made stays made.
LEMMA MadeKept ==
  ASSUME Inv, Busy, job.by # "wallet", Grown, PageHolds, job'.plan = job.plan,
         NEW i \in 1 .. job.at - 1, NEW e, e = job.made[i].id
  PROVE  /\ e \in DOMAIN vaults' /\ VaultFor(vaults'[e], job.plan, i) /\ vaults'[e].stored
         /\ ClipIn(vaults[e])'
<1>1. e \in DOMAIN vaults /\ VaultFor(vaults[e], job.plan, i) /\ vaults[e].stored
      /\ ClipIn(vaults[e])
  BY DEF Inv, Made
<1>. QED
  BY <1>1, VaultsServe

LEMMA MadeGoesOn ==
  ASSUME Inv, Busy, Grown, PageHolds,
         job'.plan = job.plan, job'.by = job.by, job'.at = job.at, job'.made = job.made
  PROVE  Made'
<1>. SUFFICES ASSUME job.by # "wallet" PROVE Made'
  BY DEF Made
<1>1. /\ job.by = job.plan.kind /\ job.at =< Len(job.plan.heirs) /\ Len(job.made) = job.at - 1
      /\ \A i \in DOMAIN job.plan.heirs : job.plan.heirs[i].door # "untagged"
  BY DEF Inv, Made
<1>2. ASSUME NEW i \in 1 .. job.at - 1
      PROVE  /\ job.made[i].id \in DOMAIN vaults'
             /\ VaultFor(vaults'[job.made[i].id], job.plan, i) /\ vaults'[job.made[i].id].stored
             /\ job.plan.clip /\ page'.at # "away" =>
                  page'.warned \/ (vaults'[job.made[i].id].door = "ours" =>
                                   vaults'[job.made[i].id].video)
  <2>1. PICK e : e = job.made[i].id
    OBVIOUS
  <2>2. /\ e \in DOMAIN vaults' /\ VaultFor(vaults'[e], job.plan, i) /\ vaults'[e].stored
        /\ ClipIn(vaults[e])'
    BY <2>1, MadeKept
  <2>3. job.plan.clip /\ page'.at # "away" =>
          page'.warned \/ (vaults'[e].door = "ours" => vaults'[e].video)
    BY <2>2 DEF ClipIn
  <2>. QED
    BY <2>1, <2>2, <2>3
<1>. QED
  BY <1>1, <1>2 DEF Made, VaultFor, ClipIn

LEMMA PostStep == Inv /\ Post => Inv'
<1>. SUFFICES ASSUME Inv, Post PROVE Inv'
  OBVIOUS
<1>0. /\ job.stage = "post" /\ Busy /\ UNCHANGED <<plan, form, check, done, verified, tries>>
      /\ job \in Jobs /\ page \in Pages /\ vaults \in Seq(Vault) /\ Len(vaults) \in Nat
      /\ faults \in 0 .. MaxFaults
  BY Running DEF Post, Busy, Inv, Typed
\* The server made the vault.
<1>1. ASSUME vaults' = Append(vaults, Described(job)), job' = NoJob \/ job'.terms = job.terms,
             job' = NoJob \/ job'.by = job.by
      PROVE  /\ vaults' \in Seq(Vault) /\ Grown /\ Groups' /\ Len(vaults) + 1 \in DOMAIN vaults'
             /\ vaults'[Len(vaults) + 1] = Described(job)
  <2>1. /\ vaults' \in Seq(Vault) /\ Grown /\ Len(vaults) + 1 \in DOMAIN vaults'
        /\ vaults'[Len(vaults) + 1] = Described(job)
        /\ \A i \in DOMAIN vaults' : i \in DOMAIN vaults \/ vaults'[i] = Described(job)
        /\ \A i \in DOMAIN vaults : vaults'[i] = vaults[i]
    BY <1>0, <1>1, VaultAdded
  <2>2. \A i \in DOMAIN vaults' : OwnKeyIsOwn(vaults'[i])
    BY <1>0, <2>1, DescribedFits DEF Inv, Groups
  <2>3. \A i \in DOMAIN vaults' : i \in DOMAIN vaults \/
          (vaults'[i].try = tries /\ vaults'[i].terms = job.terms /\ vaults'[i].by = job.by)
    BY <1>0, <2>1, DescribedFits
  <2>4. Groups'
    BY <1>0, <1>1, <2>1, <2>2, <2>3, GroupsGrow
  <2>. QED
    BY <2>1, <2>4
<1>2. ASSUME job' = NoJob, UNCHANGED vaults
      PROVE  Groups' /\ vaults' \in Seq(Vault)
  <2>1. ~Busy'
    BY <1>2 DEF Busy, NoJob
  <2>. QED
    BY <1>0, <1>2, <2>1 DEF Inv, Groups, OwnKeyIsOwn
<1>3. CASE /\ vaults' = Append(vaults, Described(job)) /\ UNCHANGED <<page, faults>>
           /\ job' = [job EXCEPT !.stage = AfterPost(job), !.id = Len(vaults) + 1]
  <2>1. AfterPost(job) \in {"video", "save"}
    BY DEF AfterPost
  <2>2. /\ job' \in Jobs /\ job'.stage = AfterPost(job) /\ job'.id = Len(vaults) + 1
        /\ job'.by = job.by /\ job'.plan = job.plan /\ job'.form = job.form /\ job'.at = job.at
        /\ job'.made = job.made /\ job'.terms = job.terms
    <3>1. PICK s \in {"video", "save"} : s = AfterPost(job)
      BY <2>1
    <3>2. PICK n \in Nat : n = Len(vaults) + 1
      BY <1>0
    <3>3. job' = [job EXCEPT !.stage = s, !.id = n]
      BY <1>3, <3>1, <3>2
    <3>4. job' \in Jobs
      BY <1>0, <3>3 DEF Jobs
    <3>. QED
      BY <1>0, <3>1, <3>2, <3>3, <3>4 DEF Jobs
  <2>3. PageHolds /\ page' \in Pages /\ faults' \in 0 .. MaxFaults
    BY <1>0, <1>3 DEF PageHolds
  <2>4. /\ vaults' \in Seq(Vault) /\ Grown /\ Groups' /\ Len(vaults) + 1 \in DOMAIN vaults'
        /\ vaults'[Len(vaults) + 1] = Described(job)
    BY <1>1, <1>3, <2>2
  <2>5. Typed' /\ Screen' /\ Listed' /\ WalletIsTwoKeys' /\ Busy'
    BY <1>0, <2>2, <2>3, <2>4, WorkGoesOn
  <2>6. Made'
    BY <1>0, <2>2, <2>3, <2>4, MadeGoesOn
  <2>7. vaults'[job'.id] = Described(job) /\ job'.id \in DOMAIN vaults'
    BY <2>2, <2>4
  <2>8. job.by # "wallet" => VaultFor(vaults'[job'.id], job.plan, job.at)
    BY <1>0, <2>7, DescribedFits
  <2>9. job'.stage = "video" => job.by # "wallet" /\ vaults'[job'.id].door = "ours"
    BY <1>0, <2>2, <2>7, DescribedFits
  <2>10. job'.stage # "video" /\ job.by # "wallet" /\ job.plan.clip =>
           vaults'[job'.id].door = "own"
    BY <1>0, <2>2, <2>7, DescribedFits
  <2>11. AtHand'
    BY <2>1, <2>2, <2>7, <2>8, <2>9, <2>10 DEF AtHand, VaultFor, ClipIn
  <2>. QED
    BY <2>4, <2>5, <2>6, <2>11 DEF Inv
<1>4. CASE /\ job' = NoJob /\ UNCHANGED <<vaults, faults>>
           /\ page' = [page EXCEPT !.taken = page.at # "away"]
  <2>1. (page.at # "away") \in BOOLEAN
    OBVIOUS
  <2>2. page' \in Pages /\ page'.at = page.at /\ page'.step = page.step
    BY <1>0, <1>4, <2>1 DEF Pages
  <2>. QED
    BY <1>0, <1>2, <1>4, <2>2, WorkFails
<1>5. CASE /\ Fault /\ job' = NoJob /\ UNCHANGED page
           /\ UNCHANGED vaults \/ vaults' = Append(vaults, Described(job))
  <2>1. Groups' /\ vaults' \in Seq(Vault)
    BY <1>1, <1>2, <1>5
  <2>2. faults' \in 0 .. MaxFaults
    BY <1>5, FaultCounted DEF Inv
  <2>. QED
    BY <1>0, <1>5, <2>1, <2>2, WorkFails
<1>. QED
  BY <1>3, <1>4, <1>5 DEF Post, Ends

\* The stage of activate() changes.
LEMMA StageMoves ==
  ASSUME NEW j \in Jobs, NEW s \in {"post", "video", "save", "address", "envelope"}
  PROVE  LET k == [j EXCEPT !.stage = s]
         IN  /\ k \in Jobs /\ k.stage = s /\ k.id = j.id /\ k.at = j.at /\ k.made = j.made
             /\ k.by = j.by /\ k.plan = j.plan /\ k.form = j.form /\ k.terms = j.terms
<1>1. [j EXCEPT !.stage = s] \in Jobs
  BY DEF Jobs
<1>. QED
  BY <1>1 DEF Jobs

\* The vault at hand keeps what it has.
LEMMA AtHandKept ==
  ASSUME Inv, Busy, job.stage # "post", Grown, PageHolds, job'.plan = job.plan
  PROVE  /\ job.id \in DOMAIN vaults'
         /\ job.by # "wallet" =>
              /\ VaultFor(vaults'[job.id], job.plan, job.at)
              /\ vaults[job.id].stored => vaults'[job.id].stored
              /\ ClipIn(vaults[job.id]) =>
                   (job.plan.clip /\ page'.at # "away" =>
                      page'.warned \/ (vaults'[job.id].door = "ours" => vaults'[job.id].video))
<1>1. job.id \in DOMAIN vaults
      /\ (job.by # "wallet" => VaultFor(vaults[job.id], job.plan, job.at))
  BY DEF Inv, AtHand
<1>2. PICK e : e = job.id
  OBVIOUS
<1>3. /\ e \in DOMAIN vaults'
      /\ \A k : VaultFor(vaults[e], job.plan, k) => VaultFor(vaults'[e], job.plan, k)
      /\ vaults[e].stored => vaults'[e].stored
      /\ ClipIn(vaults[e]) => ClipIn(vaults[e])'
  BY <1>1, <1>2, VaultsServe
<1>. QED
  BY <1>1, <1>2, <1>3 DEF ClipIn

LEMMA UploadStep == Inv /\ Upload => Inv'
<1>. SUFFICES ASSUME Inv, Upload PROVE Inv'
  OBVIOUS
<1>0. /\ job.stage = "video" /\ Busy /\ UNCHANGED <<plan, form, check, done, verified, tries>>
      /\ job \in Jobs /\ page \in Pages /\ vaults \in Seq(Vault) /\ faults \in 0 .. MaxFaults
      /\ job' = [job EXCEPT !.stage = "save"]
  BY Running DEF Upload, Busy, Inv, Typed
<1>1. /\ job' \in Jobs /\ job'.stage = "save" /\ job'.id = job.id /\ job'.at = job.at
      /\ job'.made = job.made /\ job'.by = job.by /\ job'.plan = job.plan
      /\ job'.form = job.form /\ job'.terms = job.terms
  BY <1>0, StageMoves
<1>2. /\ job.by # "wallet" /\ job.id \in DOMAIN vaults /\ vaults[job.id].door = "ours"
  BY <1>0 DEF Inv, AtHand
<1>3. ASSUME vaults' \in Seq(Vault), Grown, DOMAIN vaults' = DOMAIN vaults, PageHolds,
             page' \in Pages, faults' \in 0 .. MaxFaults,
             \A i \in DOMAIN vaults' : OwnKeyIsOwn(vaults'[i]),
             page'.at # "away" => page'.warned \/ vaults'[job.id].video
      PROVE  Inv'
  <2>1. Typed' /\ Screen' /\ Listed' /\ WalletIsTwoKeys' /\ Busy'
    BY <1>0, <1>1, <1>3, WorkGoesOn
  <2>2. Groups'
    BY <1>0, <1>1, <1>3, GroupsGrow
  <2>3. Made'
    BY <1>0, <1>1, <1>3, MadeGoesOn
  <2>4. AtHand'
    BY <1>0, <1>1, <1>2, <1>3, AtHandKept DEF AtHand, ClipIn, VaultFor
  <2>. QED
    BY <2>1, <2>2, <2>3, <2>4 DEF Inv
<1>4. CASE vaults' = [vaults EXCEPT ![job.id].video = TRUE] /\ UNCHANGED <<page, faults>>
  <2> DEFINE w == [vaults[job.id] EXCEPT !.video = TRUE]
  <2>1. w \in Vault /\ Kept(vaults[job.id], w) /\ OwnKeyIsOwn(w) /\ w.video
    BY <1>2, VaultFilmed
  <2>2. vaults' = [vaults EXCEPT ![job.id] = w]
    BY <1>4
  <2> HIDE DEF w
  <2>3. /\ vaults' \in Seq(Vault) /\ DOMAIN vaults' = DOMAIN vaults /\ Grown
        /\ vaults'[job.id] = w
        /\ \A k \in DOMAIN vaults : k # job.id => vaults'[k] = vaults[k]
    BY <1>2, <2>1, <2>2, VaultMarked
  <2>4. \A i \in DOMAIN vaults' : OwnKeyIsOwn(vaults'[i])
    BY <2>1, <2>3 DEF Inv, Groups
  <2>5. PageHolds /\ page' \in Pages /\ faults' \in 0 .. MaxFaults
    BY <1>0, <1>4 DEF PageHolds
  <2>. QED
    BY <1>3, <2>1, <2>3, <2>4, <2>5
<1>5. CASE Fault /\ Told /\ UNCHANGED vaults
  <2>1. (page.at # "away") \in BOOLEAN
    OBVIOUS
  <2>2. PICK b \in BOOLEAN : b = (page.at # "away")
    BY <2>1
  <2>3. page' = [page EXCEPT !.warned = b]
    BY <1>5, <2>2 DEF Told
  <2>4. /\ page' \in Pages /\ page'.at = page.at /\ page'.step = page.step /\ page'.warned = b
    BY <1>0, <2>3 DEF Pages
  <2>5. page'.at # "away" => page'.warned
    BY <2>2, <2>4
  <2>6. PageHolds
    BY <2>4, <2>5 DEF PageHolds
  <2>7. Grown /\ \A i \in DOMAIN vaults' : OwnKeyIsOwn(vaults'[i])
    BY <1>5 DEF Grown, Kept, Inv, Groups
  <2>8. faults' \in 0 .. MaxFaults
    BY <1>5, FaultCounted DEF Inv
  <2>. QED
    BY <1>0, <1>3, <1>5, <2>4, <2>5, <2>6, <2>7, <2>8
<1>. QED
  BY <1>4, <1>5 DEF Upload

LEMMA SaveStep == Inv /\ Save => Inv'
<1>. SUFFICES ASSUME Inv, Save PROVE Inv'
  OBVIOUS
<1>0. /\ job.stage = "save" /\ Busy /\ UNCHANGED <<verified, tries, faults>>
      /\ job \in Jobs /\ page \in Pages /\ vaults \in Seq(Vault) /\ faults \in 0 .. MaxFaults
      /\ vaults' = [vaults EXCEPT ![job.id].stored = TRUE]
  BY Running DEF Save, Busy, Inv, Typed
<1>1. job.id \in DOMAIN vaults
  BY <1>0 DEF Inv, AtHand
<1>2. /\ vaults' \in Seq(Vault) /\ Grown /\ \A i \in DOMAIN vaults' : OwnKeyIsOwn(vaults'[i])
      /\ DOMAIN vaults' = DOMAIN vaults /\ vaults'[job.id].stored
  <2> DEFINE w == [vaults[job.id] EXCEPT !.stored = TRUE]
  <2>1. w \in Vault /\ Kept(vaults[job.id], w) /\ OwnKeyIsOwn(w) /\ w.stored
    BY <1>1, VaultStored
  <2>2. vaults' = [vaults EXCEPT ![job.id] = w]
    BY <1>0
  <2> HIDE DEF w
  <2>3. /\ vaults' \in Seq(Vault) /\ DOMAIN vaults' = DOMAIN vaults /\ Grown
        /\ vaults'[job.id] = w
        /\ \A k \in DOMAIN vaults : k # job.id => vaults'[k] = vaults[k]
    BY <1>1, <2>1, <2>2, VaultMarked
  <2>4. \A i \in DOMAIN vaults' : OwnKeyIsOwn(vaults'[i])
    BY <2>1, <2>3 DEF Inv, Groups
  <2>. QED
    BY <2>1, <2>3, <2>4
<1>3. CASE job.by = "wallet"
  <2>1. job' = NoJob /\ Gone
    BY <1>3 DEF Save, Ends
  <2>2. ~Busy' /\ done' = None /\ page'.at = "away"
    BY <2>1 DEF Busy, NoJob, Gone, Away
  <2>3. Typed'
    BY <1>0, <1>2, <2>1, EmptyDrafts DEF Gone, Inv, Typed
  <2>4. Screen' /\ Listed' /\ Made' /\ AtHand' /\ WalletIsTwoKeys'
    BY <2>2 DEF Screen, Listed, Made, AtHand, WalletIsTwoKeys
  <2>5. Groups'
    BY <1>0, <1>2, <2>1, GroupsGrow
  <2>. QED
    BY <2>3, <2>4, <2>5 DEF Inv
<1>4. CASE job.by # "wallet"
  <2>1. job' = [job EXCEPT !.stage = "address"] /\ UNCHANGED <<page, plan, form, check, done>>
    BY <1>4 DEF Save
  <2>2. /\ job' \in Jobs /\ job'.stage = "address" /\ job'.id = job.id /\ job'.at = job.at
        /\ job'.made = job.made /\ job'.by = job.by /\ job'.plan = job.plan
        /\ job'.form = job.form /\ job'.terms = job.terms
    BY <1>0, <2>1, StageMoves
  <2>3. PageHolds /\ page' \in Pages
    BY <1>0, <2>1 DEF PageHolds
  <2>4. Typed' /\ Screen' /\ Listed' /\ WalletIsTwoKeys' /\ Busy'
    BY <1>0, <1>2, <2>1, <2>2, <2>3, WorkGoesOn
  <2>5. Groups'
    BY <1>0, <1>2, <2>2, GroupsGrow
  <2>6. Made'
    BY <1>0, <1>2, <2>2, <2>3, MadeGoesOn
  <2>7. ClipIn(vaults[job.id])
    BY <1>0, <1>4 DEF Inv, AtHand
  <2>8. /\ job.id \in DOMAIN vaults' /\ VaultFor(vaults'[job.id], job.plan, job.at)
        /\ job.plan.clip /\ page'.at # "away" =>
             page'.warned \/ (vaults'[job.id].door = "ours" => vaults'[job.id].video)
    BY <1>0, <1>2, <1>4, <2>2, <2>3, <2>7, AtHandKept
  <2>9. AtHand'
    BY <1>2, <1>4, <2>2, <2>8 DEF AtHand, VaultFor, ClipIn
  <2>. QED
    BY <2>4, <2>5, <2>6, <2>9 DEF Inv
<1>. QED
  BY <1>3, <1>4

\* A step of activate() that leaves the server and the screen alone.
LEMMA WorkUnseen ==
  ASSUME Inv, Busy, UNCHANGED <<page, plan, form, check, done, vaults, verified, tries>>,
         faults' \in 0 .. MaxFaults, job' \in Jobs, job'.by = job.by, job'.plan = job.plan,
         job'.form = job.form, job'.terms = job.terms
  PROVE  Typed' /\ Screen' /\ Listed' /\ WalletIsTwoKeys' /\ Busy' /\ Groups' /\ Grown /\ PageHolds
<1>1. PageHolds /\ Grown /\ vaults' \in Seq(Vault) /\ page' \in Pages
  BY DEF PageHolds, Grown, Kept, Inv, Typed
<1>2. \A i \in DOMAIN vaults' : OwnKeyIsOwn(vaults'[i])
  BY DEF Inv, Groups
<1>. QED
  BY <1>1, <1>2, WorkGoesOn, GroupsGrow

LEMMA AddressStep == Inv /\ Address => Inv'
<1>. SUFFICES ASSUME Inv, Address PROVE Inv'
  OBVIOUS
<1>0. /\ job.stage = "address" /\ Busy
      /\ UNCHANGED <<page, plan, form, check, done, vaults, verified, tries>>
      /\ job \in Jobs /\ faults' \in 0 .. MaxFaults
  BY Running, FaultCounted DEF Address, Busy, Inv
<1>1. PICK b \in BOOLEAN : job' = [job EXCEPT !.stage = "envelope", !.address = b]
  BY DEF Address
<1>2. /\ job' \in Jobs /\ job'.stage = "envelope" /\ job'.id = job.id /\ job'.at = job.at
      /\ job'.made = job.made /\ job'.by = job.by /\ job'.plan = job.plan
      /\ job'.form = job.form /\ job'.terms = job.terms
  <2>1. job' \in Jobs
    BY <1>0, <1>1 DEF Jobs
  <2>. QED
    BY <1>0, <1>1, <2>1 DEF Jobs
<1>3. Typed' /\ Screen' /\ Listed' /\ WalletIsTwoKeys' /\ Busy' /\ Groups' /\ Grown /\ PageHolds
  BY <1>0, <1>2, WorkUnseen
<1>4. Made'
  BY <1>0, <1>2, <1>3, MadeGoesOn
<1>5. AtHand'
  BY <1>0, <1>2, <1>3 DEF Inv, AtHand, VaultFor, ClipIn
<1>. QED
  BY <1>3, <1>4, <1>5 DEF Inv

\* With the vault at hand done, the plan is made up to there.
LEMMA EntryAdded ==
  ASSUME Inv, job.stage = "envelope", NEW built \in BOOLEAN, NEW entries,
         entries = Append(job.made, [id |-> job.id, address |-> job.address, envelope |-> built])
  PROVE  /\ job.by # "wallet" /\ entries \in Seq(Entry) /\ Len(entries) = job.at
         /\ \A i \in 1 .. job.at :
              /\ entries[i].id \in DOMAIN vaults
              /\ VaultFor(vaults[entries[i].id], job.plan, i) /\ vaults[entries[i].id].stored
              /\ ClipIn(vaults[entries[i].id])
<1> DEFINE e == [id |-> job.id, address |-> job.address, envelope |-> built]
<1>0. Busy /\ job \in Jobs /\ job.at \in Nat \ {0} /\ job.made \in Seq(Entry)
  BY Running DEF Busy, Jobs
<1>1. /\ job.by # "wallet" /\ job.id \in DOMAIN vaults
      /\ VaultFor(vaults[job.id], job.plan, job.at) /\ ClipIn(vaults[job.id])
      /\ vaults[job.id].stored
  BY <1>0 DEF Inv, AtHand
<1>2. job.id \in Nat \ {0}
  <2>1. DOMAIN vaults = 1 .. Len(vaults) /\ Len(vaults) \in Nat
    BY DEF Inv, Typed
  <2>. QED
    BY <1>1, <2>1
<1>3. e \in Entry /\ e.id = job.id
  BY <1>0, <1>2 DEF Entry, Jobs
<1>4. entries = Append(job.made, e)
  OBVIOUS
<1> HIDE DEF e
<1>5. Len(job.made) = job.at - 1
  BY <1>0, <1>1 DEF Inv, Made
<1>6. /\ entries \in Seq(Entry) /\ Len(entries) = job.at
      /\ \A i \in 1 .. job.at - 1 : entries[i] = job.made[i]
      /\ entries[job.at] = e
  BY <1>0, <1>3, <1>4, <1>5, AppendProperties
<1>7. ASSUME NEW i \in 1 .. job.at - 1
      PROVE  /\ entries[i].id \in DOMAIN vaults
             /\ VaultFor(vaults[entries[i].id], job.plan, i) /\ vaults[entries[i].id].stored
             /\ ClipIn(vaults[entries[i].id])
  BY <1>0, <1>1, <1>6 DEF Inv, Made
<1>. QED
  BY <1>0, <1>1, <1>3, <1>6, <1>7

LEMMA EnvelopeStep == Inv /\ Envelope => Inv'
<1>. SUFFICES ASSUME Inv, Envelope PROVE Inv'
  OBVIOUS
<1>0. /\ job.stage = "envelope" /\ Busy /\ done = None
      /\ UNCHANGED <<plan, form, check, vaults, verified, tries>>
      /\ job \in Jobs /\ PlanOK(job.plan) /\ job.at \in Nat \ {0}
      /\ page \in Pages /\ vaults \in Seq(Vault)
  BY Running DEF Envelope, Busy, Inv, Typed, Jobs
<1>b. PICK built \in BOOLEAN :
        LET entries == Append(job.made, [id |-> job.id, address |-> job.address,
                                         envelope |-> built])
        IN  /\ Fault \/ UNCHANGED faults
            /\ IF LastHeir(job) THEN Finishes(entries)
               ELSE /\ job' = [job EXCEPT !.stage = "post", !.at = @ + 1, !.made = entries]
                    /\ UNCHANGED <<page, done>>
  <2>1. PICK built \in {~OwnKey(HeirNow(job)), FALSE} :
          LET entries == Append(job.made, [id |-> job.id, address |-> job.address,
                                           envelope |-> built])
          IN  /\ built # ~OwnKey(HeirNow(job)) => Fault
              /\ built = ~OwnKey(HeirNow(job)) => UNCHANGED faults
              /\ IF LastHeir(job) THEN Finishes(entries)
                 ELSE /\ job' = [job EXCEPT !.stage = "post", !.at = @ + 1, !.made = entries]
                      /\ UNCHANGED <<page, done>>
    BY DEF Envelope
  <2>2. (~OwnKey(HeirNow(job))) \in BOOLEAN
    OBVIOUS
  <2>3. built \in BOOLEAN
    BY <2>1, <2>2
  <2>. QED
    BY <2>1, <2>3
<1>1. PICK entries :
        /\ entries = Append(job.made, [id |-> job.id, address |-> job.address, envelope |-> built])
        /\ Fault \/ UNCHANGED faults
        /\ IF LastHeir(job) THEN Finishes(entries)
           ELSE /\ job' = [job EXCEPT !.stage = "post", !.at = @ + 1, !.made = entries]
                /\ UNCHANGED <<page, done>>
  BY <1>b
<1>2. /\ job.by # "wallet" /\ entries \in Seq(Entry) /\ Len(entries) = job.at
      /\ \A i \in 1 .. job.at :
           /\ entries[i].id \in DOMAIN vaults
           /\ VaultFor(vaults[entries[i].id], job.plan, i) /\ vaults[entries[i].id].stored
           /\ ClipIn(vaults[entries[i].id])
  BY <1>0, <1>1, EntryAdded
<1>3. faults' \in 0 .. MaxFaults
  BY <1>1, FaultCounted DEF Inv
<1>4. /\ job.by = job.plan.kind /\ job.at =< Len(job.plan.heirs)
      /\ \A i \in DOMAIN job.plan.heirs : job.plan.heirs[i].door # "untagged"
  BY <1>0, <1>2 DEF Inv, Made
<1>5. job.plan.heirs \in Seq(Heir) /\ Len(job.plan.heirs) \in Nat
  BY <1>0 DEF PlanOK, Plans
<1>6. CASE ~LastHeir(job)
  <2>1. /\ UNCHANGED <<page, done>>
        /\ job' = [job EXCEPT !.stage = "post", !.at = job.at + 1, !.made = entries]
    BY <1>1, <1>6
  <2>2. PICK n \in Nat \ {0} : n = job.at + 1
    BY <1>0
  <2>3. job' = [job EXCEPT !.stage = "post", !.at = n, !.made = entries]
    BY <2>1, <2>2
  <2>4. job' \in Jobs
    BY <1>0, <1>2, <2>3 DEF Jobs
  <2>5. /\ job'.stage = "post" /\ job'.at = n /\ job'.made = entries /\ job'.by = job.by
        /\ job'.plan = job.plan /\ job'.form = job.form /\ job'.terms = job.terms
    BY <1>0, <2>3 DEF Jobs
  <2>6. Typed' /\ Screen' /\ Listed' /\ WalletIsTwoKeys' /\ Busy' /\ Groups'
    BY <1>0, <1>3, <2>1, <2>4, <2>5, WorkUnseen
  <2>7. AtHand'
    BY <1>2, <2>5 DEF AtHand
  <2>8. n =< Len(job.plan.heirs) /\ n - 1 = job.at
    BY <1>0, <1>4, <1>5, <1>6, <2>2 DEF LastHeir
  <2>9. Made'
    BY <1>0, <1>2, <1>4, <2>1, <2>5, <2>8 DEF Made, VaultFor, ClipIn
  <2>. QED
    BY <2>6, <2>7, <2>9 DEF Inv
<1>7. ASSUME job' = NoJob
      PROVE  ~Busy' /\ Groups'
  <2>1. ~Busy'
    BY <1>7 DEF Busy, NoJob
  <2>. QED
    BY <1>0, <2>1 DEF Inv, Groups, OwnKeyIsOwn
<1>8. CASE LastHeir(job) /\ page.at = "away"
  <2>1. job' = NoJob /\ UNCHANGED <<page, done>>
    BY <1>1, <1>8 DEF Finishes, Ends
  <2>. QED
    BY <1>0, <1>3, <1>7, <2>1, WorkFails
<1>9. CASE LastHeir(job) /\ page.at # "away"
  <2>1. /\ job' = NoJob /\ done' = [clip |-> job.plan.clip, vaults |-> entries]
        /\ page' = [page EXCEPT !.step = 2]
    BY <1>1, <1>9 DEF Finishes, Ends
  <2>2. /\ page.at = "password" /\ plan.heirs = job.plan.heirs /\ plan.pw = job.plan.pw
        /\ plan.kind = job.plan.kind
    BY <1>0, <1>2, <1>9 DEF Inv, Screen, Typed, Pages
  <2>3. /\ page' \in Pages /\ page'.at = "password" /\ page'.step = 2
        /\ page'.warned = page.warned
    BY <1>0, <2>1, <2>2 DEF Pages
  <2>4. ~Busy' /\ Groups'
    BY <1>7, <2>1
  <2>5. done' \in [clip : BOOLEAN, vaults : Seq(Entry)] /\ done'.clip = job.plan.clip
        /\ done'.vaults = entries
    BY <1>0, <1>2, <2>1 DEF PlanOK, Plans
  <2>6. Typed'
    <3>1. plan' \in Plans /\ PlanOK(plan')
      BY <1>0 DEF Inv, Typed, PlanOK
    <3>. QED
      BY <1>0, <1>3, <2>1, <2>3, <2>5, <3>1 DEF Inv, Typed
  <2>7. Screen' /\ Made' /\ AtHand' /\ WalletIsTwoKeys'
    BY <2>3, <2>4 DEF Screen, Made, AtHand, WalletIsTwoKeys
  <2>8. Listed'
    <3>1. Len(entries) = Len(plan.heirs) /\ DOMAIN entries = 1 .. job.at
      BY <1>2, <1>9, <2>2 DEF LastHeir
    <3>2. ASSUME NEW i \in DOMAIN entries
          PROVE  /\ vaults[entries[i].id].who = plan.heirs[i].who
                 /\ vaults[entries[i].id].door = plan.heirs[i].door
                 /\ vaults[entries[i].id].pw = plan.pw /\ vaults[entries[i].id].stored
                 /\ vaults[entries[i].id].by = plan.kind
                 /\ job.plan.clip => page.warned \/
                      (vaults[entries[i].id].door = "ours" => vaults[entries[i].id].video)
      BY <1>2, <1>9, <2>2, <3>1 DEF VaultFor, ClipIn
    <3>. QED
      BY <1>0, <2>3, <2>5, <3>1, <3>2 DEF Listed
  <2>. QED
    BY <2>4, <2>6, <2>7, <2>8 DEF Inv
<1>. QED
  BY <1>6, <1>8, <1>9

-----------------------------------------------------------------------------
(* The theorems.                                                            *)

LEMMA InvStep == Inv /\ [Next]_vars => Inv'
<1>. SUFFICES ASSUME Inv, [Next]_vars PROVE Inv'
  OBVIOUS
<1>1. CASE Owner
  BY <1>1, PlanStep, PageStep, SubmitStep, FormStep DEF Owner, PlanEdits, PageTurn
<1>2. CASE HealthAnswers \/ HealthFails \/ StrengthAnswers
  BY <1>2, PageStep DEF PageTurn
<1>3. CASE Works
  BY <1>3, PostStep, UploadStep, SaveStep, AddressStep, EnvelopeStep DEF Works
<1>4. CASE UNCHANGED vars
  <2>1. UNCHANGED <<page, plan, form, check, job, done, vaults, verified, tries, faults>>
    BY <1>4 DEF vars
  <2>2. Typed' /\ Screen' /\ Listed'
    BY <2>1 DEF Inv, Typed, PlanOK, Screen, Listed, Busy, WalletValid
  <2>. QED
    BY <2>1, <2>2, JobKept DEF Inv
<1>. QED
  BY <1>1, <1>2, <1>3, <1>4 DEF Next

LEMMA AlwaysInv == Spec => []Inv
BY InvInit, InvStep, PTL DEF Spec

\* The wizards keep to their types, and the vaults at the server are vaults.
THEOREM TypesAreKept == Spec => []TypeOK
<1>1. Inv => TypeOK
  <2>. SUFFICES ASSUME Inv PROVE TypeOK
    OBVIOUS
  <2>1. Typed
    BY DEF Inv
  <2>2. /\ tries \in 0 .. MaxTries /\ faults \in 0 .. MaxFaults /\ verified \subseteq 1 .. MaxTries
        /\ page \in [at : {"away", "password", "wallet"}, step : 0 .. 3, asked : BOOLEAN,
                     known : Views, warned : BOOLEAN, taken : BOOLEAN]
    BY <2>1 DEF Typed, Pages
  <2>3. /\ plan.kind \in {"standard", "guardian"} /\ plan.cadence \in Cadences
        /\ plan.heirs # <<>> /\ Len(plan.heirs) =< MaxHeirs
        /\ plan.pw \in Passwords \cup {None} /\ plan.heirs \in Seq(Heir)
    BY <2>1 DEF Typed, PlanOK, Plans
  <2>4. {check.verdict, check.flying} \subseteq Passwords \cup {None}
    BY <2>1 DEF Typed, Checks
  <2>5. form.cadence \in Cadences /\ {form.mine, form.theirs} \subseteq WalletKeys \cup {None}
    BY <2>1 DEF Typed, Forms
  <2>6. job.stage \in {"none", "post", "video", "save", "address", "envelope"}
    BY <2>1 DEF Typed, Jobs, NoJob
  <2>7. ASSUME NEW S, NEW s \in Seq(S)
        PROVE  ToSet(s) \subseteq S
    BY <2>7, ElementOfSeq, LenProperties DEF ToSet
  <2>8. ToSet(plan.heirs) \subseteq Heir
    BY <2>3, <2>7
  <2>9. ToSet(vaults) \subseteq Vault
    BY <2>1, <2>7 DEF Typed
  <2>10. done = None \/ ToSet(done.vaults) \subseteq Entry
    BY <2>1, <2>7 DEF Typed
  <2>. QED
    BY <2>2, <2>3, <2>4, <2>5, <2>6, <2>8, <2>9, <2>10 DEF TypeOK
<1>. QED
  BY <1>1, AlwaysInv, PTL

\* When the funding screen opens it lists the vaults the owner asked for, heir by heir, whatever
\* was edited before and while activate() ran, and no vault holds an heir's own key.
THEOREM PlansAreKept == Spec => []PlanIsKept
<1>1. Inv => PlanIsKept
  BY DEF Inv, Groups, Listed, PlanIsKept, ToSet, OwnKeyIsOwn
<1>. QED
  BY <1>1, AlwaysInv, PTL

\* The vaults of a try have one network, one waiting period and one cadence, although /health
\* may answer between two of them.
THEOREM GroupsAreOnePlan == Spec => []OneGroupOnePlan
<1>1. Inv => OneGroupOnePlan
  BY DEF Inv, Groups, OneGroupOnePlan, ToSet
<1>. QED
  BY <1>1, AlwaysInv, PTL

\* The clip is in every vault that can hand it over, or the funding screen says it was not saved.
THEOREM ClipsAreSentOrTold == Spec => []ClipIsSentOrTold
<1>1. Inv => ClipIsSentOrTold
  BY DEF Inv, Listed, ClipIsSentOrTold, ToSet
<1>. QED
  BY <1>1, AlwaysInv, PTL

\* No wallet vault is asked for with one key twice, or without an heir.
THEOREM WalletsAreTwoKeys == Spec => []WalletIsTwoKeys
<1>1. Inv => WalletIsTwoKeys
  BY DEF Inv
<1>. QED
  BY <1>1, AlwaysInv, PTL
=============================================================================
