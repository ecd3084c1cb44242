---------------------------- MODULE ClaimPageProofs ----------------------------
(* Theorems about ClaimPage, for every number of tabs, addresses and faults:  *)
(* the types, that coins go where the heir has looked twice, and that a tab   *)
(* that shows a receipt is right.                                             *)
EXTENDS ClaimPage, TLAPS

\* Behind a closed gate there is no form, and a form that is past typing holds what was reviewed.
FormOK(p) ==
    /\ GateOpen(p) \/ /\ p.flow = "none" /\ p.typed = None /\ p.reviewed = None
                      /\ p.step = "typing" \/ p.view = "drill"
    /\ p.at # "ok" => p.view = "none" /\ p.step = "typing"
    /\ p.step # "typing" => p.typed = p.reviewed
    /\ p.step \notin {"typing", "done"} => p.reviewed \in Addresses

\* What a tab shows is so.
Shown(p) ==
    /\ FormOK(p)
    /\ p.view = "drill" => kind = "drill"
    /\ p.step = "done" /\ kind # "drill" => vault.token = "used" /\ chain.coins = p.reviewed
    /\ p.view = "receipt" => chain.coins # "vault"

\* A claim under way belongs to the form on the screen, which waits for it; one that went through
\* has moved the coins to its address.
Listens(p, c) ==
    c.state # "none" =>
      /\ GateOpen(p) /\ p.step = "sending" /\ c.to = p.reviewed /\ c.to \in Addresses
      /\ c.state = "taken" => vault.token = "used" /\ chain.coins = c.to

TabsOK == \A t \in Tabs : Shown(page[t]) /\ Listens(page[t], post[t])
UsedIsPaid == vault.token = "used" => chain.coins # "vault"

Inv == TypeOK /\ TabsOK /\ UsedIsPaid

\* Coins move once, and a consumed token stays consumed.
MovesOn ==
    /\ kind' = kind
    /\ vault.token = "used" => vault'.token = "used"
    /\ chain.coins # "vault" => chain'.coins = chain.coins

-----------------------------------------------------------------------------
LEMMA ClosedIsPage ==
  /\ Closed \in Page /\ [Closed EXCEPT !.at = "loading"] \in Page /\ NoPost \in Post
  /\ NoPost.state = "none"
  BY DEF Closed, Page, NoPost, Post, Inputs, Links

\* A field takes any value of its domain.
LEMMA FieldUpdates ==
  /\ \A p \in Page, x \in {"closed", "loading", "ok", "not-found", "used", "error"} :
       [p EXCEPT !.at = x] \in Page
  /\ \A p \in Page, x \in {"none", "early", "open", "receipt", "drill"} :
       [p EXCEPT !.view = x] \in Page
  /\ \A p \in Page, x \in BOOLEAN : [p EXCEPT !.waited = x] \in Page
  /\ \A p \in Page, x \in {"none", "young", "matured"} : [p EXCEPT !.est = x] \in Page
  /\ \A p \in Page, x \in {"no", "asked", "scanning", "young", "matured", "refused"} :
       [p EXCEPT !.asking = x] \in Page
  /\ \A p \in Page, x \in BOOLEAN : [p EXCEPT !.failed = x] \in Page
  /\ \A p \in Page, x \in {"none", "probing", "password", "derived", "manual", "guardian",
                           "probe-error"} : [p EXCEPT !.flow = x] \in Page
  /\ \A p \in Page, x \in {"typing", "review", "sending", "building", "built", "done"} :
       [p EXCEPT !.step = x] \in Page
  /\ \A p \in Page, x \in Inputs \cup {None} : [p EXCEPT !.typed = x] \in Page
  /\ \A p \in Page, x \in Addresses \cup {None} : [p EXCEPT !.reviewed = x] \in Page
  /\ \A p \in Page, x \in Links \cup {"none"} : [p EXCEPT !.other = x] \in Page
  /\ \A p \in Page, x \in BOOLEAN : [p EXCEPT !.error = x] \in Page
  BY DEF Page

LEMMA FormsArePages ==
  ASSUME NEW p \in Page
  PROVE  NoForm(p) \in Page
<1> DEFINE p1 == [p EXCEPT !.flow = "none"]
           p2 == [p1 EXCEPT !.step = "typing"]
           p3 == [p2 EXCEPT !.typed = None]
           p4 == [p3 EXCEPT !.reviewed = None]
           p5 == [p4 EXCEPT !.other = "none"]
<1>1. p1 \in Page
  BY FieldUpdates
<1>2. p2 \in Page
  BY <1>1, FieldUpdates
<1>3. p3 \in Page
  BY <1>2, FieldUpdates
<1>4. p4 \in Page
  BY <1>3, FieldUpdates
<1>5. p5 \in Page
  BY <1>4, FieldUpdates
<1>6. [p5 EXCEPT !.error = FALSE] \in Page
  BY <1>5, FieldUpdates
<1>. QED
  BY <1>6 DEF NoForm

\* What a tab shows and waits for stays true whatever the server does.
LEMMA StaysTrue ==
  ASSUME Inv, MovesOn
  PROVE  /\ \A p \in Page : Shown(p) => Shown(p)'
         /\ \A p \in Page, c \in Post : Listens(p, c) => Listens(p, c)'
  BY DEF Inv, UsedIsPaid, MovesOn, Shown, Listens, FormOK, GateOpen

\* A step of the server.
LEMMA ServerMoves ==
  ASSUME Inv, MovesOn, vault' \in Vault, chain' \in Chain, UsedIsPaid',
         UNCHANGED <<role, page, post, practised>>, orphans' \subseteq Addresses,
         faults' \in 0 .. MaxFaults
  PROVE  Inv'
<1>1. TypeOK'
  BY DEF Inv, TypeOK, MovesOn
<1>2. TabsOK'
  BY StaysTrue DEF Inv, TypeOK, TabsOK
<1>. QED
  BY <1>1, <1>2 DEF Inv

\* A step of one tab, in which the server may act too.
LEMMA TabMoves ==
  ASSUME Inv, MovesOn, vault' \in Vault, chain' \in Chain, UsedIsPaid',
         UNCHANGED role, practised' \in BOOLEAN, orphans' \subseteq Addresses,
         faults' \in 0 .. MaxFaults,
         NEW t \in Tabs, NEW q \in Page, NEW c \in Post,
         page' = [page EXCEPT ![t] = q], post' = [post EXCEPT ![t] = c],
         Shown(q)', Listens(q, c)'
  PROVE  Inv'
<1>0. page \in [Tabs -> Page] /\ post \in [Tabs -> Post]
  BY DEF Inv, TypeOK
<1>1. page' \in [Tabs -> Page] /\ post' \in [Tabs -> Post]
  BY <1>0
<1>2. TypeOK'
  BY <1>1 DEF Inv, TypeOK, MovesOn
<1>3. /\ page'[t] = q /\ post'[t] = c
      /\ \A u \in Tabs : u # t => page'[u] = page[u] /\ post'[u] = post[u]
  BY <1>0
<1>4. ASSUME NEW u \in Tabs PROVE (Shown(page[u]) /\ Listens(page[u], post[u]))'
  <2>1. CASE u = t
    BY <1>3, <2>1 DEF Shown, Listens
  <2>2. CASE u # t
    <3>1. page[u] \in Page /\ post[u] \in Post /\ page'[u] = page[u] /\ post'[u] = post[u]
      BY <1>0, <1>3, <2>2
    <3>2. Shown(page[u]) /\ Listens(page[u], post[u])
      BY DEF Inv, TabsOK
    <3>. QED
      BY <3>1, <3>2, StaysTrue DEF Shown, Listens, MovesOn, Inv, UsedIsPaid
  <2>. QED
    BY <2>1, <2>2
<1>. QED
  BY <1>2, <1>4 DEF Inv, TabsOK

\* A step of one tab that the server has no part in.
LEMMA PageMoves ==
  ASSUME Inv, UNCHANGED <<kind, role, vault, chain>>, practised' \in BOOLEAN,
         faults' \in 0 .. MaxFaults, orphans' \subseteq Addresses,
         NEW t \in Tabs, NEW q \in Page, NEW c \in Post,
         page' = [page EXCEPT ![t] = q], post' = [post EXCEPT ![t] = c],
         Shown(q), Listens(q, c)
  PROVE  Inv'
<1>1. MovesOn /\ vault' \in Vault /\ chain' \in Chain /\ UsedIsPaid'
  BY DEF MovesOn, Inv, TypeOK, UsedIsPaid
<1>2. Shown(q)' /\ Listens(q, c)'
  BY <1>1, StaysTrue
<1>. QED
  BY <1>1, <1>2, TabMoves

\* Nothing is waited for but by a form that is sending.
LEMMA NothingSent ==
  ASSUME Inv, NEW t \in Tabs, page[t].step # "sending" \/ ~GateOpen(page[t])
  PROVE  post[t].state = "none"
  BY DEF Inv, TabsOK, Listens

LEMMA FaultsType ==
  ASSUME TypeOK, Fault \/ UNCHANGED faults
  PROVE  faults' \in 0 .. MaxFaults
  BY FaultsAssumption DEF TypeOK, Fault

\* A tab that goes drops what it waited for.
LEMMA DropsType ==
  ASSUME Inv, NEW t \in Tabs, Drops(t)
  PROVE  orphans' \subseteq Addresses /\ post' = [post EXCEPT ![t] = NoPost]
  BY DEF Inv, TypeOK, TabsOK, Listens, Drops

-----------------------------------------------------------------------------
\* The gate opens and closes: the form comes empty, and goes with what it held and waited for.
LEMMA GateMoves ==
  ASSUME Inv, NEW t \in Tabs, NEW p \in Page, Becomes(t, Regated(p)),
         UNCHANGED <<serverVars, faults>>,
         \A f \in {"at", "view", "flow", "step", "typed", "reviewed", "other", "error"} :
           p[f] = page[t][f]
  PROVE  Inv'
<1> DEFINE old == page[t]
           q   == Regated(p)
<1>0. old \in Page /\ post[t] \in Post /\ Shown(old) /\ Listens(old, post[t])
  BY DEF Inv, TypeOK, TabsOK
<1>1. /\ p.at = old.at /\ p.view = old.view /\ p.flow = old.flow /\ p.step = old.step
      /\ p.typed = old.typed /\ p.reviewed = old.reviewed
  OBVIOUS
<1>2. q \in Page
  <2>1. NoForm(p) \in Page
    BY FormsArePages
  <2>2. [p EXCEPT !.flow = "guardian"] \in Page /\ [p EXCEPT !.flow = "probing"] \in Page
    BY DEF Page
  <2>. QED
    BY <2>1, <2>2 DEF Regated
<1>3. /\ q.at = p.at /\ q.view = p.view /\ (GateOpen(q) <=> GateOpen(p))
      /\ ~GateOpen(p) => /\ q.flow = "none" /\ q.step = "typing"
                         /\ q.typed = None /\ q.reviewed = None
      /\ GateOpen(p) => /\ q.step = p.step /\ q.typed = p.typed /\ q.reviewed = p.reviewed
  BY DEF Regated, NoForm, Page, GateOpen
<1>4. Shown(q)
  BY <1>0, <1>1, <1>3 DEF Shown, FormOK, GateOpen
<1>5. page' = [page EXCEPT ![t] = q]
  BY DEF Becomes
<1>6. CASE GateOpen(old) /\ ~GateOpen(q)
  <2>1. Drops(t)
    BY <1>6 DEF Becomes
  <2>2. Listens(q, NoPost)
    BY ClosedIsPage DEF Listens
  <2>3. /\ UNCHANGED <<kind, role, vault, chain, practised, faults>>
        /\ practised' \in BOOLEAN /\ faults' \in 0 .. MaxFaults
    BY DEF serverVars, Inv, TypeOK
  <2>. QED
    BY <1>2, <1>4, <1>5, <2>1, <2>2, <2>3, DropsType, ClosedIsPage, PageMoves
<1>7. CASE ~(GateOpen(old) /\ ~GateOpen(q))
  <2>1. UNCHANGED callVars
    BY <1>7 DEF Becomes
  <2>2. post' = [post EXCEPT ![t] = post[t]] /\ orphans' \subseteq Addresses
    BY <2>1 DEF callVars, Inv, TypeOK
  <2>3. Listens(q, post[t])
    BY <1>0, <1>1, <1>3, <1>7 DEF Listens
  <2>4. /\ UNCHANGED <<kind, role, vault, chain, practised, faults>>
        /\ practised' \in BOOLEAN /\ faults' \in 0 .. MaxFaults
    BY DEF serverVars, Inv, TypeOK
  <2>. QED
    BY <1>0, <1>2, <1>4, <1>5, <2>2, <2>3, <2>4, PageMoves
<1>. QED
  BY <1>6, <1>7

\* A tab's page changes, nothing is waited for, and the server has no part in it.
LEMMA QuietMoves ==
  ASSUME Inv, UNCHANGED <<kind, role, vault, chain>>, practised' \in BOOLEAN,
         UNCHANGED callVars, Fault \/ UNCHANGED faults,
         NEW t \in Tabs, NEW q \in Page, page' = [page EXCEPT ![t] = q], Shown(q),
         \/ post[t].state = "none"
         \/ GateOpen(q) /\ q.step = page[t].step /\ q.reviewed = page[t].reviewed
  PROVE  Inv'
<1>1. /\ post' = [post EXCEPT ![t] = post[t]] /\ orphans' \subseteq Addresses
      /\ post[t] \in Post
  BY DEF callVars, Inv, TypeOK
<1>2. Listens(q, post[t])
  BY DEF Inv, TabsOK, Listens
<1>3. faults' \in 0 .. MaxFaults
  BY FaultsType DEF Inv
<1>. QED
  BY <1>1, <1>2, <1>3, PageMoves

LEMMA InvInit == Init => Inv
<1>. SUFFICES ASSUME Init PROVE Inv
  OBVIOUS
<1>1. /\ kind \in Kinds /\ role \in [Tabs -> {"heir", "guardian"}]
      /\ vault \in Vault /\ chain \in Chain
  BY DEF Init, Vault, Chain
<1>2. page = [t \in Tabs |-> Closed] /\ post = [t \in Tabs |-> NoPost]
  BY DEF Init
<1>3. page \in [Tabs -> Page] /\ post \in [Tabs -> Post]
  BY <1>2, ClosedIsPage
<1>7. TypeOK
  <2>1. orphans = {} /\ practised = FALSE /\ faults = 0
    BY DEF Init
  <2>2. orphans \subseteq Addresses /\ faults \in 0 .. MaxFaults
    BY <2>1, FaultsAssumption
  <2>3. practised \in BOOLEAN
    BY <2>1
  <2>. QED
    BY <1>1, <1>3, <2>2, <2>3 DEF TypeOK
<1>4. Shown(Closed) /\ Listens(Closed, NoPost)
  BY ClosedIsPage DEF Shown, FormOK, Closed, Listens
<1>5. TabsOK
  BY <1>2, <1>4 DEF TabsOK
<1>6. UsedIsPaid
  BY DEF Init, UsedIsPaid
<1>. QED
  BY <1>5, <1>6, <1>7 DEF Inv

\* The server pays a claim once, to the address of the claim.
LEMMA PaysOnce ==
  ASSUME Inv, NEW to \in Addresses, Pays(to), kind' = kind
  PROVE  /\ MovesOn /\ UsedIsPaid' /\ vault' \in Vault /\ chain' \in Chain
         /\ vault'.token = "used" /\ chain'.coins = to
<1>1. /\ vault \in Vault /\ chain \in Chain /\ vault.token = "live" /\ chain.coins = "vault"
      /\ chain' = [chain EXCEPT !.coins = to]
      /\ vault' = [vault EXCEPT !.token = "used", !.status = "claimed"]
  BY DEF Inv, TypeOK, Pays, Claimable
<1>2. to # "vault"
  BY InputsAssumption
<1>3. vault' \in Vault /\ chain' \in Chain /\ vault'.token = "used" /\ chain'.coins = to
  BY <1>1 DEF Vault, Chain
<1>. QED
  BY <1>1, <1>2, <1>3 DEF MovesOn, UsedIsPaid

LEMMA WorldStep == Inv /\ World => Inv'
<1>. SUFFICES ASSUME Inv, World PROVE Inv'
  OBVIOUS
<1>0. /\ vault \in Vault /\ chain \in Chain /\ orphans \subseteq Addresses
      /\ faults \in 0 .. MaxFaults /\ UsedIsPaid
  BY DEF Inv, TypeOK
<1>1. CASE Mature
  <2>1. chain' \in Chain /\ chain'.coins = chain.coins
    BY <1>0, <1>1 DEF Mature, Chain
  <2>. QED
    BY <1>0, <1>1, <2>1, ServerMoves DEF Mature, MovesOn, UsedIsPaid
<1>2. CASE WindowEnds
  <2>1. vault' \in Vault /\ vault'.token = vault.token
    BY <1>0, <1>2 DEF WindowEnds, Vault
  <2>. QED
    BY <1>0, <1>2, <2>1, ServerMoves DEF WindowEnds, MovesOn, UsedIsPaid
<1>3. CASE ClaimOpens
  <2>1. vault' \in Vault /\ vault'.token = vault.token
    BY <1>0, <1>3 DEF ClaimOpens, Vault
  <2>. QED
    BY <1>0, <1>3, <2>1, ServerMoves DEF ClaimOpens, MovesOn, UsedIsPaid
<1>4. CASE OwnerReturns
  <2>1. vault' \in Vault /\ vault'.token = "gone" /\ vault.token = "live"
    BY <1>0, <1>4 DEF OwnerReturns, Vault
  <2>. QED
    BY <1>0, <1>4, <2>1, ServerMoves DEF OwnerReturns, MovesOn, UsedIsPaid
<1>5. ASSUME NEW to \in Addresses, ServeOrphan(to)
      PROVE  Inv'
  <2>1. /\ UNCHANGED <<kind, role, page, post, practised, faults>>
        /\ orphans' \subseteq Addresses
        /\ Pays(to) \/ UNCHANGED <<chain, vault>>
    BY <1>0, <1>5 DEF ServeOrphan
  <2>2. /\ MovesOn /\ UsedIsPaid' /\ vault' \in Vault /\ chain' \in Chain
    BY <1>0, <2>1, PaysOnce DEF MovesOn, UsedIsPaid
  <2>. QED
    BY <1>0, <2>1, <2>2, ServerMoves
<1>. QED
  BY <1>1, <1>2, <1>3, <1>4, <1>5 DEF World

-----------------------------------------------------------------------------
\* The link is resolved.
LEMMA OpeningStep == ASSUME NEW t \in Tabs PROVE Inv /\ Opening(t) => Inv'
<1>. SUFFICES ASSUME Inv, Opening(t) PROVE Inv'
  OBVIOUS
<1> DEFINE old == page[t]
<1>0. /\ old \in Page /\ Shown(old) /\ post[t] \in Post /\ page \in [Tabs -> Page]
      /\ vault \in Vault /\ chain \in Chain /\ practised \in BOOLEAN
      /\ orphans \subseteq Addresses /\ faults \in 0 .. MaxFaults /\ UsedIsPaid
  BY DEF Inv, TypeOK, TabsOK
<1>1. CASE Load(t)
  <2> DEFINE q == [Closed EXCEPT !.at = "loading"]
  <2>1. q \in Page /\ q.at = "loading" /\ q.view = "none" /\ q.flow = "none" /\ q.step = "typing"
        /\ q.typed = None /\ q.reviewed = None
    BY ClosedIsPage DEF Closed
  <2>2. page' = [page EXCEPT ![t] = q] /\ Drops(t) /\ UNCHANGED <<serverVars, faults>>
    BY <1>1 DEF Load
  <2> HIDE DEF q
  <2>3. Shown(q) /\ Listens(q, NoPost)
    BY <2>1, ClosedIsPage DEF Shown, FormOK, GateOpen, Listens
  <2>4. UNCHANGED <<kind, role, vault, chain, practised, faults>>
    BY <2>2 DEF serverVars
  <2>. QED
    BY <1>0, <2>1, <2>2, <2>3, <2>4, DropsType, ClosedIsPage, PageMoves
<1>2. CASE LoadAnswered(t)
  <2> DEFINE q == Resolved(t, Resolves)
  <2>1. /\ old.at = "loading" /\ old.view = "none" /\ old.step = "typing" /\ old.flow = "none"
        /\ old.typed = None /\ old.reviewed = None /\ post[t].state = "none"
    BY <1>0, <1>2, NothingSent DEF LoadAnswered, Shown, FormOK, GateOpen
  <2>2. /\ Resolves \in {"drill", "not-found", "receipt", "used", "early", "open"}
        /\ Resolves = "drill" => kind = "drill"
        /\ Resolves = "receipt" => vault.token = "used"
    BY DEF Resolves, UsedLink
  <2>3. /\ q \in Page /\ q.step = "typing" /\ q.flow = "none"
        /\ q.typed = None /\ q.reviewed = None
        /\ q.at # "ok" => q.view = "none"
        /\ q.view \in {"drill", "receipt"} => Resolves = q.view
    <3>1. CASE Resolves \in {"not-found", "used"}
      <4>1. q = [old EXCEPT !.at = Resolves]
        BY <3>1 DEF Resolved
      <4>2. [old EXCEPT !.at = Resolves] \in Page
        BY <1>0, <3>1, FieldUpdates
      <4>. QED
        BY <1>0, <2>1, <3>1, <4>1, <4>2 DEF Page
    <3>2. CASE Resolves = "open"
      <4> DEFINE p1 == [old EXCEPT !.at = "ok"]
                 p2 == [p1 EXCEPT !.view = "open"]
                 p3 == [p2 EXCEPT !.waited = vault.windowOver]
                 p4 == [p3 EXCEPT !.asking = "asked"]
      <4>1. q = [p4 EXCEPT !.failed = FALSE]
        BY <3>2 DEF Resolved, Asks
      <4>2. p2 \in Page /\ vault.windowOver \in BOOLEAN
        BY <1>0, FieldUpdates DEF Vault
      <4>3. p4 \in Page
        BY <4>2, FieldUpdates
      <4>4. q \in Page
        BY <4>1, <4>3, FieldUpdates
      <4>5. /\ q.at = "ok" /\ q.view = "open" /\ q.step = old.step /\ q.flow = old.flow
            /\ q.typed = old.typed /\ q.reviewed = old.reviewed
        BY <1>0, <4>1 DEF Page
      <4>. QED
        BY <2>1, <4>4, <4>5
    <3>3. CASE Resolves \in {"drill", "receipt", "early"}
      <4> DEFINE p1 == [old EXCEPT !.at = "ok"]
      <4>1. q = [p1 EXCEPT !.view = Resolves]
        BY <3>3 DEF Resolved
      <4>2. p1 \in Page
        BY <1>0, FieldUpdates
      <4>5. [p1 EXCEPT !.view = Resolves] \in Page
        <5> HIDE DEF p1
        <5>. QED
          BY <3>3, <4>2, FieldUpdates
      <4>3. q \in Page
        BY <4>1, <4>5
      <4>4. /\ q.at = "ok" /\ q.view = Resolves /\ q.step = old.step /\ q.flow = old.flow
            /\ q.typed = old.typed /\ q.reviewed = old.reviewed
        BY <1>0, <4>1 DEF Page
      <4>. QED
        BY <2>1, <4>3, <4>4
    <3>. QED
      BY <2>2, <3>1, <3>2, <3>3
  <2>4. /\ page' = [page EXCEPT ![t] = q]
        /\ vault' = vault \/ vault' = [vault EXCEPT !.opened = TRUE]
        /\ UNCHANGED <<kind, role, chain, practised, callVars, faults>>
    BY <1>2 DEF LoadAnswered
  <2> HIDE DEF q
  <2>5. vault' \in Vault /\ vault'.token = vault.token
    BY <1>0, <2>4 DEF Vault
  <2>6. PICK r \in Page, c \in Post : r = q /\ c = post[t]
    BY <1>0, <2>3
  <2>7. Shown(r)'
    BY <1>0, <2>2, <2>3, <2>4, <2>5, <2>6 DEF Shown, FormOK, GateOpen, UsedIsPaid
  <2>8. Listens(r, c)'
    BY <2>1, <2>6 DEF Listens
  <2>9. MovesOn /\ UsedIsPaid' /\ post' = [post EXCEPT ![t] = c] /\ UNCHANGED orphans
    BY <1>0, <2>4, <2>5, <2>6 DEF MovesOn, UsedIsPaid, callVars, Inv, TypeOK
  <2>. QED
    BY <1>0, <2>4, <2>5, <2>6, <2>7, <2>8, <2>9, TabMoves
<1>3. CASE LoadFails(t)
  <2> DEFINE q == [old EXCEPT !.at = "error"]
  <2>1. /\ old.at = "loading" /\ Fault /\ UNCHANGED <<serverVars, callVars>>
        /\ page' = [page EXCEPT ![t] = q]
    BY <1>0, <1>3 DEF LoadFails
  <2>2. q \in Page
    BY <1>0, FieldUpdates
  <2>3. /\ q.at = "error" /\ q.view = old.view /\ q.flow = old.flow /\ q.step = old.step
        /\ q.typed = old.typed /\ q.reviewed = old.reviewed
    BY <1>0 DEF Page
  <2> HIDE DEF q
  <2>4. Shown(q) /\ post[t].state = "none"
    BY <1>0, <2>1, <2>3, NothingSent DEF Shown, FormOK, GateOpen
  <2>. QED
    BY <1>0, <2>1, <2>2, <2>4, QuietMoves DEF serverVars
<1>4. CASE DrillFinish(t)
  <2>1. old.view = "drill" /\ kind = "drill" /\ post[t].state = "none"
    BY <1>0, <1>4, NothingSent DEF DrillFinish, Shown, GateOpen
  <2>2. UNCHANGED <<kind, role, vault, chain, callVars>> /\ practised' \in BOOLEAN
        /\ (Fault \/ UNCHANGED faults)
    BY <1>0, <1>4 DEF DrillFinish
  <2>3. old.at = "ok"
    BY <1>0, <2>1 DEF Shown, FormOK
  <2>4. ASSUME NEW q \in Page, q.at = old.at, q.view = old.view, q.flow = old.flow,
               q.typed = old.typed, q.reviewed = old.reviewed, q.step \in {"typing", "done"},
               page' = [page EXCEPT ![t] = q]
        PROVE  Inv'
    <3>1. Shown(q)
      BY <1>0, <2>1, <2>3, <2>4 DEF Shown, FormOK, GateOpen
    <3>. QED
      BY <2>1, <2>2, <2>4, <3>1, QuietMoves
  <2>5. CASE page' = [page EXCEPT ![t].step = "done"]
    <3> DEFINE q == [old EXCEPT !.step = "done"]
    <3>1. q \in Page
      BY <1>0, FieldUpdates
    <3>2. page' = [page EXCEPT ![t] = q]
      BY <1>0, <2>5
    <3>3. /\ q.at = old.at /\ q.view = old.view /\ q.flow = old.flow
          /\ q.typed = old.typed /\ q.reviewed = old.reviewed /\ q.step = "done"
      BY <1>0 DEF Page
    <3> HIDE DEF q
    <3>. QED
      BY <2>4, <3>1, <3>2, <3>3
  <2>6. CASE page' = [page EXCEPT ![t].error = TRUE]
    <3> DEFINE q == [old EXCEPT !.error = TRUE]
    <3>1. q \in Page
      BY <1>0, FieldUpdates
    <3>2. page' = [page EXCEPT ![t] = q]
      BY <1>0, <2>6
    <3>3. /\ q.at = old.at /\ q.view = old.view /\ q.flow = old.flow
          /\ q.typed = old.typed /\ q.reviewed = old.reviewed /\ q.step = "typing"
      BY <1>0, <1>4 DEF Page, DrillFinish
    <3> HIDE DEF q
    <3>. QED
      BY <2>4, <3>1, <3>2, <3>3
  <2>. QED
    BY <1>4, <2>5, <2>6 DEF DrillFinish
<1>. QED
  BY <1>1, <1>2, <1>3, <1>4 DEF Opening

\* The gate: the estimate is asked for, looked up, scanned and heard of, or fails; the clock ticks.
LEMMA GateStep == ASSUME NEW t \in Tabs PROVE Inv /\ Gate(t) => Inv'
<1>. SUFFICES ASSUME Inv, Gate(t) PROVE Inv'
  OBVIOUS
<1> DEFINE old == page[t]
<1>0. /\ old \in Page /\ Shown(old) /\ Listens(old, post[t]) /\ page \in [Tabs -> Page]
      /\ vault \in Vault /\ practised \in BOOLEAN
  BY DEF Inv, TypeOK, TabsOK
\* A field that no form reads.
<1>1. ASSUME NEW q \in Page, page' = [page EXCEPT ![t] = q],
             UNCHANGED <<serverVars, callVars>>, Fault \/ UNCHANGED faults,
             q.at = old.at, q.view = old.view, q.waited = old.waited, q.est = old.est,
             q.step = old.step, q.typed = old.typed, q.reviewed = old.reviewed,
             q.flow = old.flow \/ GateOpen(old)
      PROVE  Inv'
  <2>1. GateOpen(q) <=> GateOpen(old)
    BY <1>1 DEF GateOpen
  <2>2. Shown(q)
    BY <1>0, <1>1, <2>1 DEF Shown, FormOK
  <2>3. post[t].state = "none" \/ (GateOpen(q) /\ q.step = old.step /\ q.reviewed = old.reviewed)
    BY <1>0, <1>1, <2>1 DEF Listens
  <2>. QED
    BY <1>0, <1>1, <2>2, <2>3, QuietMoves DEF serverVars
<1>2. ASSUME NEW x \in {"scanning", "refused", "matured", "young"},
             page' = [page EXCEPT ![t].asking = x],
             UNCHANGED <<serverVars, callVars>>, Fault \/ UNCHANGED faults
      PROVE  Inv'
  <2> DEFINE q == [old EXCEPT !.asking = x]
  <2>1. q \in Page /\ page' = [page EXCEPT ![t] = q]
    BY <1>0, <1>2, FieldUpdates
  <2>2. /\ q.at = old.at /\ q.view = old.view /\ q.waited = old.waited /\ q.est = old.est
        /\ q.step = old.step /\ q.typed = old.typed /\ q.reviewed = old.reviewed
        /\ q.flow = old.flow
    BY <1>0 DEF Page
  <2> HIDE DEF q
  <2>. QED
    BY <1>1, <1>2, <2>1, <2>2
<1>3. ASSUME NEW x \in {"probe-error", "password", "derived", "manual"}, old.flow = "probing",
             page' = [page EXCEPT ![t].flow = x],
             UNCHANGED <<serverVars, callVars>>, Fault \/ UNCHANGED faults
      PROVE  Inv'
  <2> DEFINE q == [old EXCEPT !.flow = x]
  <2>1. q \in Page /\ page' = [page EXCEPT ![t] = q]
    BY <1>0, <1>3, FieldUpdates
  <2>2. /\ q.at = old.at /\ q.view = old.view /\ q.waited = old.waited /\ q.est = old.est
        /\ q.step = old.step /\ q.typed = old.typed /\ q.reviewed = old.reviewed
    BY <1>0 DEF Page
  <2>3. GateOpen(old)
    BY <1>0, <1>3 DEF Shown, FormOK
  <2> HIDE DEF q
  <2>. QED
    BY <1>1, <1>3, <2>1, <2>2, <2>3
<1>4. CASE EstimateLooksUp(t)
  BY <1>2, <1>4 DEF EstimateLooksUp
<1>5. CASE EstimateScans(t)
  BY <1>2, <1>5 DEF EstimateScans
<1>6. CASE EstimateFails(t)
  BY <1>2, <1>6 DEF EstimateFails
<1>7. CASE EstimateArrives(t)
  <2> DEFINE heard == [old EXCEPT !.asking = "no"]
  <2>1. heard \in Page
    BY <1>0, FieldUpdates
  <2>2. \A f \in {"at", "view", "flow", "step", "typed", "reviewed", "other", "error"} :
          heard[f] = old[f]
    BY <1>0 DEF Page
  <2>3. heard.est = old.est /\ heard.waited = old.waited
    BY <1>0 DEF Page
  <2>4. old.asking \in {"young", "matured", "refused"} /\ UNCHANGED <<serverVars, faults>>
    BY <1>7 DEF EstimateArrives
  <2>5. CASE old.asking = "refused"
    <3> DEFINE q == [heard EXCEPT !.failed = TRUE]
    <3>1. Becomes(t, q)
      BY <1>7, <2>5 DEF EstimateArrives
    <3> HIDE DEF heard
    <3>2. q \in Page
      BY <2>1, FieldUpdates
    <3>3. /\ q.at = old.at /\ q.view = old.view /\ q.waited = old.waited /\ q.est = old.est
          /\ q.step = old.step /\ q.typed = old.typed /\ q.reviewed = old.reviewed
          /\ q.flow = old.flow
      BY <2>1, <2>2, <2>3 DEF Page
    <3> HIDE DEF q
    <3>4. GateOpen(q) <=> GateOpen(old)
      BY <3>3 DEF GateOpen
    <3>5. page' = [page EXCEPT ![t] = q] /\ UNCHANGED callVars
      BY <3>1, <3>4 DEF Becomes
    <3>. QED
      BY <1>1, <2>4, <3>2, <3>3, <3>5
  <2>6. CASE old.asking # "refused"
    <3> DEFINE q == [heard EXCEPT !.est = old.asking]
    <3>1. Becomes(t, Regated(q))
      BY <1>7, <2>6 DEF EstimateArrives
    <3> HIDE DEF heard
    <3>2. q \in Page
      BY <2>1, <2>4, <2>6, FieldUpdates
    <3>3. \A f \in {"at", "view", "flow", "step", "typed", "reviewed", "other", "error"} :
            q[f] = old[f]
      BY <2>1, <2>2 DEF Page
    <3> HIDE DEF q
    <3>. QED
      BY <2>4, <3>1, <3>2, <3>3, GateMoves
  <2>. QED
    BY <2>5, <2>6
<1>8. CASE Tick(t)
  <2> DEFINE p1 == [old EXCEPT !.waited = @ \/ vault.windowOver]
             p2 == [p1 EXCEPT !.asking = "asked"]
             p3 == [p2 EXCEPT !.failed = FALSE]
  <2>1. Becomes(t, Regated(p3)) /\ UNCHANGED <<serverVars, faults>>
    BY <1>8 DEF Tick, Asks, ReadsTime
  <2>2. p1 \in Page
    <3>1. (old.waited \/ vault.windowOver) \in BOOLEAN
      OBVIOUS
    <3>. QED
      BY <1>0, <3>1, FieldUpdates
  <2>3. \A f \in {"at", "view", "flow", "step", "typed", "reviewed", "other", "error"} :
          p1[f] = old[f]
    BY <1>0 DEF Page
  <2> HIDE DEF p1
  <2>4. p2 \in Page /\ p3 \in Page
    BY <2>2, FieldUpdates
  <2>5. \A f \in {"at", "view", "flow", "step", "typed", "reviewed", "other", "error"} :
          p3[f] = old[f]
    BY <2>2, <2>3 DEF Page
  <2> HIDE DEF p3
  <2>. QED
    BY <2>1, <2>4, <2>5, GateMoves
<1>9. CASE Probe(t)
  BY <1>3, <1>9 DEF Probe, Flow
<1>10. CASE ProbeFails(t)
  BY <1>3, <1>10 DEF ProbeFails
<1>. QED
  BY <1>4, <1>5, <1>6, <1>7, <1>8, <1>9, <1>10 DEF Gate

\* The form: what is typed, looked at again, taken back and sent.
LEMMA FormStep == ASSUME NEW t \in Tabs PROVE Inv /\ Form(t) => Inv'
<1>. SUFFICES ASSUME Inv, Form(t) PROVE Inv'
  OBVIOUS
<1> DEFINE old == page[t]
<1>0. /\ old \in Page /\ Shown(old) /\ Listens(old, post[t]) /\ page \in [Tabs -> Page]
      /\ vault \in Vault /\ chain \in Chain /\ practised \in BOOLEAN /\ post \in [Tabs -> Post]
      /\ orphans \subseteq Addresses /\ faults \in 0 .. MaxFaults /\ UsedIsPaid
  BY DEF Inv, TypeOK, TabsOK
<1>1. OneShot(old) \/ old.flow = "manual" \/ old.flow = "guardian" => GateOpen(old)
  BY <1>0 DEF OneShot, Shown, FormOK
\* A step that sends nothing.
<1>2. ASSUME NEW q \in Page, page' = [page EXCEPT ![t] = q],
             UNCHANGED <<serverVars, callVars>>, Fault \/ UNCHANGED faults,
             q.at = old.at, q.view = old.view, q.waited = old.waited, q.est = old.est,
             q.flow = old.flow, old.step # "sending", q.step # "done",
             q.step # "typing" => q.typed = q.reviewed /\ q.reviewed \in Addresses,
             GateOpen(old) \/ (old.step # "typing" /\ q.typed = old.typed
                                                   /\ q.reviewed = old.reviewed)
      PROVE  Inv'
  <2>1. GateOpen(q) <=> GateOpen(old)
    BY <1>2 DEF GateOpen
  <2>2. old.at = "ok"
    BY <1>0, <1>2 DEF Shown, FormOK, GateOpen
  <2>3. Shown(q)
    BY <1>0, <1>2, <2>1, <2>2 DEF Shown, FormOK
  <2>4. post[t].state = "none"
    BY <1>2, NothingSent
  <2>. QED
    BY <1>2, <2>3, <2>4, <1>0, QuietMoves DEF serverVars
\* A claim is sent for what was reviewed.
<1>3. ASSUME NEW to \in Addresses, GateOpen(old), old.step # "typing", to = old.reviewed,
             page' = [page EXCEPT ![t].step = "sending", ![t].error = FALSE],
             post' = [post EXCEPT ![t] = [state |-> "flying", to |-> to]],
             UNCHANGED <<serverVars, orphans, faults>>
      PROVE  Inv'
  <2> DEFINE p1 == [old EXCEPT !.step = "sending"]
             q  == [p1 EXCEPT !.error = FALSE]
             c  == [state |-> "flying", to |-> to]
  <2>1. p1 \in Page /\ q \in Page
    BY <1>0, FieldUpdates
  <2>2. page' = [page EXCEPT ![t] = q]
    BY <1>0, <1>3
  <2>3. /\ q.at = old.at /\ q.view = old.view /\ q.waited = old.waited /\ q.est = old.est
        /\ q.flow = old.flow /\ q.step = "sending" /\ q.typed = old.typed
        /\ q.reviewed = old.reviewed
    BY <1>0 DEF Page
  <2>4. c \in Post /\ c.state = "flying" /\ c.to = to /\ post' = [post EXCEPT ![t] = c]
    BY <1>3 DEF Post
  <2> HIDE DEF q, c
  <2>5. Shown(q)
    BY <1>0, <1>3, <2>3 DEF Shown, FormOK, GateOpen
  <2>6. Listens(q, c)
    BY <1>3, <2>3, <2>4 DEF Listens, GateOpen
  <2>7. UNCHANGED <<kind, role, vault, chain, practised, faults, orphans>>
    BY <1>3 DEF serverVars
  <2>. QED
    BY <1>0, <2>1, <2>2, <2>4, <2>5, <2>6, <2>7, PageMoves
<1>4. ASSUME NEW link \in Links, CheckOtherLink(t, link)
      PROVE  Inv'
  <2> DEFINE x == IF Completes(t, link) /\ vault.token = "live" THEN link ELSE "none"
             q == [old EXCEPT !.other = x]
  <2>1. /\ page' = [page EXCEPT ![t] = q]
        /\ vault' = vault \/ vault' = [vault EXCEPT !.opened = TRUE]
        /\ UNCHANGED <<kind, role, chain, practised, callVars, faults>>
    BY <1>0, <1>4 DEF CheckOtherLink
  <2>2. x \in Links \cup {"none"}
    OBVIOUS
  <2> HIDE DEF x
  <2>3. q \in Page
    BY <1>0, <2>2, FieldUpdates
  <2>4. /\ q.at = old.at /\ q.view = old.view /\ q.waited = old.waited /\ q.est = old.est
        /\ q.flow = old.flow /\ q.step = old.step /\ q.typed = old.typed
        /\ q.reviewed = old.reviewed
    BY <1>0 DEF Page
  <2> HIDE DEF q
  <2>5. Shown(q) /\ Listens(q, post[t])
    BY <1>0, <2>4 DEF Shown, FormOK, GateOpen, Listens
  <2>6. vault' \in Vault /\ vault'.token = vault.token
    BY <1>0, <2>1 DEF Vault
  <2>7. MovesOn /\ UsedIsPaid' /\ post' = [post EXCEPT ![t] = post[t]] /\ UNCHANGED orphans
    BY <1>0, <2>1, <2>6 DEF MovesOn, UsedIsPaid, callVars
  <2>8. PICK r \in Page, c \in Post : r = q /\ c = post[t]
    BY <1>0, <2>3
  <2>9. Shown(r)' /\ Listens(r, c)'
    BY <2>5, <2>7, <2>8, StaysTrue
  <2>. QED
    BY <1>0, <2>1, <2>6, <2>7, <2>8, <2>9, TabMoves
<1>5. ASSUME NEW input \in Inputs, TypeIn(t, input)
      PROVE  Inv'
  <2> DEFINE q == [old EXCEPT !.typed = input]
  <2>1. /\ q \in Page /\ page' = [page EXCEPT ![t] = q] /\ old.step = "typing"
        /\ UNCHANGED <<serverVars, callVars, faults>> /\ GateOpen(old)
    BY <1>0, <1>1, <1>5, FieldUpdates DEF TypeIn, MayType
  <2>2. /\ q.at = old.at /\ q.view = old.view /\ q.waited = old.waited /\ q.est = old.est
        /\ q.flow = old.flow /\ q.step = old.step
    BY <1>0 DEF Page
  <2> HIDE DEF q
  <2>. QED
    BY <1>2, <2>1, <2>2
<1>6. CASE Review(t)
  <2> DEFINE p1 == [old EXCEPT !.step = "review"]
             q  == [p1 EXCEPT !.reviewed = old.typed]
  <2>1. /\ old.typed \in Addresses /\ old.step = "typing" /\ GateOpen(old)
        /\ UNCHANGED <<serverVars, callVars, faults>> /\ page' = [page EXCEPT ![t] = q]
    BY <1>0, <1>1, <1>6 DEF Review, Acceptable
  <2>2. p1 \in Page
    BY <1>0, FieldUpdates
  <2>3. /\ q.at = old.at /\ q.view = old.view /\ q.waited = old.waited /\ q.est = old.est
        /\ q.flow = old.flow /\ q.step = "review" /\ q.typed = old.typed
        /\ q.reviewed = old.typed
    BY <1>0 DEF Page
  <2>4. q \in Page
    <3> HIDE DEF p1
    <3>. QED
      BY <2>1, <2>2, FieldUpdates
  <2> HIDE DEF q
  <2>. QED
    BY <1>2, <2>1, <2>3, <2>4
<1>7. CASE GoBack(t)
  <2> DEFINE q == [old EXCEPT !.step = "typing"]
  <2>1. /\ q \in Page /\ page' = [page EXCEPT ![t] = q] /\ old.step = "review"
        /\ UNCHANGED <<serverVars, callVars, faults>>
    BY <1>0, <1>7, FieldUpdates DEF GoBack
  <2>2. /\ q.at = old.at /\ q.view = old.view /\ q.waited = old.waited /\ q.est = old.est
        /\ q.flow = old.flow /\ q.step = "typing" /\ q.typed = old.typed
        /\ q.reviewed = old.reviewed
    BY <1>0 DEF Page
  <2> HIDE DEF q
  <2>. QED
    BY <1>2, <2>1, <2>2
<1>8. CASE Submit(t)
  <2>1. GateOpen(old) /\ old.step = "review" /\ old.typed \in Addresses
    BY <1>1, <1>8 DEF Submit
  <2>2. old.typed = old.reviewed
    BY <1>0, <2>1 DEF Shown, FormOK
  <2>. QED
    BY <1>3, <1>8, <2>1, <2>2 DEF Submit
<1>9. CASE Build(t)
  <2> DEFINE p1 == [old EXCEPT !.step = "building"]
             p2 == [p1 EXCEPT !.reviewed = old.typed]
             q  == [p2 EXCEPT !.error = FALSE]
  <2>1. /\ old.typed \in Addresses /\ old.step = "typing" /\ GateOpen(old)
        /\ UNCHANGED <<serverVars, callVars, faults>> /\ page' = [page EXCEPT ![t] = q]
    BY <1>0, <1>1, <1>9 DEF Build, Acceptable
  <2>2. p1 \in Page
    BY <1>0, FieldUpdates
  <2>3. /\ q.at = old.at /\ q.view = old.view /\ q.waited = old.waited /\ q.est = old.est
        /\ q.flow = old.flow /\ q.step = "building" /\ q.typed = old.typed
        /\ q.reviewed = old.typed
    BY <1>0 DEF Page
  <2>4. p2 \in Page
    <3> HIDE DEF p1
    <3>. QED
      BY <2>1, <2>2, FieldUpdates
  <2>5. q \in Page
    BY <2>4, FieldUpdates
  <2> HIDE DEF q
  <2>. QED
    BY <1>2, <2>1, <2>3, <2>5
<1>10. CASE BuildAnswered(t)
  <2>1. /\ old.step = "building" /\ UNCHANGED <<serverVars, callVars>>
        /\ Fault \/ UNCHANGED faults
    BY <1>10 DEF BuildAnswered
  <2>2. old.typed = old.reviewed /\ old.reviewed \in Addresses
    BY <1>0, <2>1 DEF Shown, FormOK
  <2>3. CASE page' = [page EXCEPT ![t].step = "built"]
    <3> DEFINE q == [old EXCEPT !.step = "built"]
    <3>1. q \in Page /\ page' = [page EXCEPT ![t] = q]
      BY <1>0, <2>3, FieldUpdates
    <3>2. /\ q.at = old.at /\ q.view = old.view /\ q.waited = old.waited /\ q.est = old.est
          /\ q.flow = old.flow /\ q.step = "built" /\ q.typed = old.typed
          /\ q.reviewed = old.reviewed
      BY <1>0 DEF Page
    <3> HIDE DEF q
    <3>. QED
      BY <1>2, <2>1, <2>2, <3>1, <3>2
  <2>4. CASE page' = [page EXCEPT ![t].step = "typing", ![t].error = TRUE]
    <3> DEFINE p1 == [old EXCEPT !.step = "typing"]
               q  == [p1 EXCEPT !.error = TRUE]
    <3>1. p1 \in Page /\ q \in Page /\ page' = [page EXCEPT ![t] = q]
      BY <1>0, <2>4, FieldUpdates
    <3>2. /\ q.at = old.at /\ q.view = old.view /\ q.waited = old.waited /\ q.est = old.est
          /\ q.flow = old.flow /\ q.step = "typing" /\ q.typed = old.typed
          /\ q.reviewed = old.reviewed
      BY <1>0 DEF Page
    <3> HIDE DEF q
    <3>. QED
      BY <1>2, <2>1, <3>1, <3>2
  <2>. QED
    BY <1>10, <2>3, <2>4 DEF BuildAnswered
<1>11. CASE BroadcastSigned(t)
  <2>1. GateOpen(old) /\ old.step = "built"
    BY <1>1, <1>11 DEF BroadcastSigned
  <2>2. old.reviewed \in Addresses
    BY <1>0, <2>1 DEF Shown, FormOK
  <2>. QED
    BY <1>3, <1>11, <2>1, <2>2 DEF BroadcastSigned
<1>. QED
  BY <1>4, <1>5, <1>6, <1>7, <1>8, <1>9, <1>10, <1>11 DEF Form

\* The claim under way: the server answers, the answer arrives or is lost.
LEMMA CallsStep == ASSUME NEW t \in Tabs PROVE Inv /\ Calls(t) => Inv'
<1>. SUFFICES ASSUME Inv, Calls(t) PROVE Inv'
  OBVIOUS
<1> DEFINE old == page[t]
           sent == post[t]
<1>0. /\ old \in Page /\ Shown(old) /\ Listens(old, sent) /\ page \in [Tabs -> Page]
      /\ vault \in Vault /\ chain \in Chain /\ practised \in BOOLEAN
      /\ post \in [Tabs -> Post] /\ sent \in Post
      /\ orphans \subseteq Addresses /\ faults \in 0 .. MaxFaults /\ UsedIsPaid
  BY DEF Inv, TypeOK, TabsOK
<1>1. sent.state # "none" => /\ GateOpen(old) /\ old.step = "sending"
                             /\ sent.to = old.reviewed /\ sent.to \in Addresses
  BY <1>0 DEF Listens
\* The page is what it was, and what it waits for has gone through or not.
<1>2. ASSUME NEW x \in {"taken", "refused"}, sent.state = "flying",
             post' = [post EXCEPT ![t].state = x],
             x = "taken" => vault'.token = "used" /\ chain'.coins = sent.to,
             MovesOn, UsedIsPaid', vault' \in Vault, chain' \in Chain,
             UNCHANGED <<role, page, orphans, practised>>, Fault \/ UNCHANGED faults
      PROVE  Inv'
  <2> DEFINE d == [sent EXCEPT !.state = x]
  <2>1. /\ d \in Post /\ d.state = x /\ d.to = sent.to
        /\ post' = [post EXCEPT ![t] = d] /\ page' = [page EXCEPT ![t] = old]
    BY <1>0, <1>2 DEF Post
  <2> HIDE DEF d
  <2>2. PICK q \in Page, c \in Post : q = old /\ c = d
    BY <1>0, <2>1
  <2>3. Shown(q)'
    BY <1>0, <1>2, <2>2, StaysTrue
  <2>4. Listens(q, c)'
    BY <1>1, <1>2, <2>1, <2>2 DEF Listens
  <2>5. faults' \in 0 .. MaxFaults
    BY <1>2, FaultsType DEF Inv
  <2>. QED
    BY <1>0, <1>2, <2>1, <2>2, <2>3, <2>4, <2>5, TabMoves
<1>3. CASE Serve(t)
  <2>1. /\ sent.state = "flying" /\ UNCHANGED <<kind, role, page, orphans, practised>>
        /\ Fault \/ UNCHANGED faults
    BY <1>3 DEF Serve
  <2>2. CASE Pays(sent.to) /\ post' = [post EXCEPT ![t].state = "taken"]
    <3>1. PICK to \in Addresses : to = sent.to
      BY <1>1, <2>1
    <3>2. /\ MovesOn /\ UsedIsPaid' /\ vault' \in Vault /\ chain' \in Chain
          /\ vault'.token = "used" /\ chain'.coins = to
      BY <2>1, <2>2, <3>1, PaysOnce
    <3>. QED
      BY <1>2, <2>1, <2>2, <3>1, <3>2
  <2>3. CASE post' = [post EXCEPT ![t].state = "refused"] /\ UNCHANGED <<chain, vault>>
    <3>1. MovesOn /\ UsedIsPaid' /\ vault' \in Vault /\ chain' \in Chain
      BY <1>0, <2>1, <2>3 DEF MovesOn, UsedIsPaid
    <3>. QED
      BY <1>2, <2>1, <2>3, <3>1
  <2>. QED
    BY <1>3, <2>2, <2>3 DEF Serve
\* The answer is heard, as it is or as an error.
<1>4. ASSUME NEW q \in Page, page' = [page EXCEPT ![t] = q], post' = [post EXCEPT ![t] = NoPost],
             UNCHANGED <<serverVars, orphans>>, Fault \/ UNCHANGED faults,
             sent.state # "none", q.at = old.at, q.view = old.view, q.waited = old.waited,
             q.est = old.est, q.flow = old.flow, q.typed = old.typed,
             q.reviewed = old.reviewed,
             q.step \in {"built", "review"} \/ (q.step = "done" /\ sent.state = "taken")
      PROVE  Inv'
  <2>1. Shown(q) /\ Listens(q, NoPost)
    <3>1. old.typed = old.reviewed /\ old.reviewed \in Addresses /\ GateOpen(q)
      BY <1>0, <1>1, <1>4 DEF Shown, FormOK, GateOpen
    <3>2. q.step = "done" => vault.token = "used" /\ chain.coins = q.reviewed
      BY <1>0, <1>4 DEF Listens
    <3>3. FormOK(q)
      BY <1>4, <3>1 DEF FormOK, GateOpen
    <3>. QED
      BY <1>0, <1>4, <3>2, <3>3, ClosedIsPage DEF Shown, Listens
  <2>2. faults' \in 0 .. MaxFaults /\ UNCHANGED <<kind, role, vault, chain, practised, orphans>>
    BY <1>4, FaultsType DEF Inv, serverVars
  <2>. QED
    BY <1>0, <1>4, <2>1, <2>2, ClosedIsPage, PageMoves
<1>5. ASSUME page' = [page EXCEPT ![t] = Retry(t)], post' = [post EXCEPT ![t] = NoPost],
             UNCHANGED <<serverVars, orphans>>, Fault \/ UNCHANGED faults,
             sent.state # "none"
      PROVE  Inv'
  <2> DEFINE x  == IF old.flow = "manual" THEN "built" ELSE "review"
             p1 == [old EXCEPT !.step = x]
             q  == [p1 EXCEPT !.error = TRUE]
  <2>1. Retry(t) = q
    BY <1>0, <1>1, <1>5 DEF Retry, Page
  <2>2. x \in {"built", "review"}
    OBVIOUS
  <2> HIDE DEF x
  <2>3. p1 \in Page /\ q \in Page
    BY <1>0, <2>2, FieldUpdates
  <2>4. /\ q.at = old.at /\ q.view = old.view /\ q.waited = old.waited /\ q.est = old.est
        /\ q.flow = old.flow /\ q.step = x /\ q.typed = old.typed
        /\ q.reviewed = old.reviewed
    BY <1>0 DEF Page
  <2> HIDE DEF q
  <2>. QED
    BY <1>4, <1>5, <2>1, <2>2, <2>3, <2>4
<1>6. CASE Answered(t)
  <2>1. CASE sent.state = "taken"
    <3> DEFINE q == [old EXCEPT !.step = "done"]
    <3>1. page' = [page EXCEPT ![t] = q] /\ q \in Page
      BY <1>0, <1>6, <2>1, FieldUpdates DEF Answered
    <3>2. /\ q.at = old.at /\ q.view = old.view /\ q.waited = old.waited /\ q.est = old.est
          /\ q.flow = old.flow /\ q.step = "done" /\ q.typed = old.typed
          /\ q.reviewed = old.reviewed
      BY <1>0 DEF Page
    <3>3. post' = [post EXCEPT ![t] = NoPost] /\ UNCHANGED <<serverVars, orphans, faults>>
      BY <1>6 DEF Answered
    <3> HIDE DEF q
    <3>. QED
      BY <1>4, <2>1, <3>1, <3>2, <3>3
  <2>2. CASE sent.state # "taken"
    BY <1>5, <1>6, <2>2 DEF Answered
  <2>. QED
    BY <2>1, <2>2
<1>7. CASE AnswerLost(t)
  BY <1>5, <1>7 DEF AnswerLost
<1>. QED
  BY <1>3, <1>6, <1>7 DEF Calls

LEMMA InvStep == Inv /\ [Next]_vars => Inv'
<1>. SUFFICES ASSUME Inv, [Next]_vars PROVE Inv'
  OBVIOUS
<1>1. CASE UNCHANGED vars
  BY <1>1 DEF vars, Inv, TypeOK, TabsOK, UsedIsPaid, Shown, Listens, FormOK
<1>. QED
  BY <1>1, WorldStep, OpeningStep, GateStep, FormStep, CallsStep DEF Next

-----------------------------------------------------------------------------
(* The theorems.                                                            *)

LEMMA AlwaysInv == Spec => []Inv
  BY InvInit, InvStep, PTL DEF Spec

\* Every tab, the claims under way and what the server remembers keep to their types, whatever
\* answers arrive late or are lost.
THEOREM TypesAreKept == Spec => []TypeOK
<1>1. Inv => TypeOK
  BY DEF Inv
<1>. QED
  BY <1>1, AlwaysInv, PTL

\* A claim under way carries the address its heir has looked at twice: the field may be edited
\* before the second look, tabs may be reloaded and gates may close while it is served.
THEOREM PaysTheReviewed == Spec => []PaysWhatWasReviewed
<1>1. Inv => PaysWhatWasReviewed
  BY DEF Inv, TabsOK, Listens, PaysWhatWasReviewed
<1>. QED
  BY <1>1, AlwaysInv, PTL

\* A tab that says "it's on the network" is right about the address it shows, however many tabs
\* claim at once and however many calls fail or lose their answer.
THEOREM ReceiptsAreTrue == Spec => []ReceiptIsTrue
<1>1. Inv => ReceiptIsTrue
  BY DEF Inv, TabsOK, Shown, ReceiptIsTrue
<1>. QED
  BY <1>1, AlwaysInv, PTL
=============================================================================
