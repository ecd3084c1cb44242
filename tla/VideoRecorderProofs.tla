--------------------------- MODULE VideoRecorderProofs ---------------------------
(* Theorems about VideoRecorder, for every number of takes, visits and tries:   *)
(* the types, that a removed clip never comes back, and that a take of a        *)
(* patient owner leaves no camera on.                                           *)
EXTENDS VideoRecorder, TLAPS

\* What the wizard holds or the owner removed is the clip of a take that is over.
ClipsAreOver == /\ \A t \in removed : take[t].at = "over"
                /\ clip # 0 => take[clip].at = "over"

Inv == TypeOK /\ ClipsAreOver /\ RemovedStaysRemoved

\* The takes of a visit that may turn its camera on, or have.
Live(t) == take[t].at = "asked" \/ take[t].camera

\* A visit has one of them at most, its refs hold the one whose camera is on, and the visit
\* shows that it records, so that the owner is not offered another one.
OneCamera ==
    /\ \A t, u \in Takes : Live(t) /\ Live(u) /\ take[t].mount = take[u].mount => t = u
    /\ \A t \in Takes : take[t].camera =>
         /\ take[t].at \in {"rolling", "stopping"}
         /\ ref[take[t].mount].stream = t
         /\ phase[take[t].mount] = "recording"

-----------------------------------------------------------------------------
LEMMA Constants ==
  /\ 0 \in 0 .. MaxTakes /\ 0 \in 0 .. MaxTries /\ 0 \notin Takes /\ 1 \in Mounts
  /\ \A t \in Takes : t \in 0 .. MaxTakes /\ t # 0
  /\ \A t \in 0 .. MaxTakes : t # 0 => t \in Takes
  BY RecorderConstants DEF Takes, Mounts

\* stopStream and stop() write a take of the table, and leave a take that has ended as it was.
LEMMA HaltedIsTakes ==
  ASSUME NEW tk \in [Takes -> Take], NEW m \in Mounts
  PROVE  /\ Halted(tk, m) \in [Takes -> Take]
         /\ \A t \in Takes :
              /\ Halted(tk, m)[t].mount = tk[t].mount
              /\ Halted(tk, m)[t].camera = (tk[t].camera /\ t # ref[m].stream)
              /\ Halted(tk, m)[t].at = tk[t].at
                 \/ (tk[t].at = "rolling" /\ Halted(tk, m)[t].at = "stopping")
         /\ \A t \in Takes : tk[t].at = "over" => Halted(tk, m)[t].at = "over"
<1>1. \A t \in Takes : tk[t] \in Take
  OBVIOUS
<1>. QED
  BY <1>1 DEF Halted, Take

LEMMA StoppedIsTakes ==
  ASSUME NEW tk \in [Takes -> Take], NEW m \in Mounts
  PROVE  /\ Stopped(tk, m) \in [Takes -> Take]
         /\ \A t \in Takes :
              /\ Stopped(tk, m)[t].mount = tk[t].mount
              /\ Stopped(tk, m)[t].camera = tk[t].camera
              /\ Stopped(tk, m)[t].at = tk[t].at
                 \/ (tk[t].at = "rolling" /\ Stopped(tk, m)[t].at = "stopping")
         /\ \A t \in Takes : tk[t].at = "over" => Stopped(tk, m)[t].at = "over"
<1>1. \A t \in Takes : tk[t] \in Take
  OBVIOUS
<1>. QED
  BY <1>1 DEF Stopped, Take

LEMMA ForgetsIsRefs ==
  ASSUME NEW m \in Mounts, ref \in [Mounts -> Refs], Forgets(m)
  PROVE  /\ ref' \in [Mounts -> Refs]
         /\ \A k \in Mounts : k # m => ref'[k] = ref[k]
<1>1. ref[m] \in Refs
  OBVIOUS
<1>2. [ref[m] EXCEPT !.stream = 0, !.timer = 0] \in Refs
  BY <1>1, Constants DEF Refs
<1>3. ref' = [ref EXCEPT ![m] = [ref[m] EXCEPT !.stream = 0, !.timer = 0]]
  BY <1>1 DEF Forgets, Refs
<1>. QED
  BY <1>2, <1>3

-----------------------------------------------------------------------------
LEMMA InvInit == Init => Inv
<1>. SUFFICES ASSUME Init PROVE Inv
  OBVIOUS
<1>1. TypeOK
  BY Constants DEF Init, TypeOK, Take, Refs, NoRefs, Phases, Creation
<1>2. ClipsAreOver /\ RemovedStaysRemoved
  BY DEF Init, ClipsAreOver, RemovedStaysRemoved
<1>. QED
  BY <1>1, <1>2 DEF Inv

\* A step that takes back no take that is over, and leaves the clips alone, keeps the invariant.
Keeps ==
    /\ take' \in [Takes -> Take] /\ ref' \in [Mounts -> Refs] /\ phase' \in [Mounts -> Phases]
    /\ visit' \in [no : Mounts, here : BOOLEAN]
    /\ \A u \in Takes : take[u].at = "over" => take'[u].at = "over"
    /\ UNCHANGED <<clip, removed>>
    /\ create' \in Creation /\ (create'.busy => create'.sent \notin removed)

LEMMA KeepsInv == Inv /\ Keeps => Inv'
<1>. SUFFICES ASSUME Inv, Keeps PROVE Inv'
  OBVIOUS
<1>1. TypeOK'
  BY DEF Inv, Keeps, TypeOK
<1>2. clip # 0 => clip \in Takes
  BY Constants DEF Inv, TypeOK
<1>3. ClipsAreOver'
  BY <1>2 DEF Inv, Keeps, TypeOK, ClipsAreOver
<1>4. RemovedStaysRemoved'
  BY DEF Inv, Keeps, RemovedStaysRemoved
<1>. QED
  BY <1>1, <1>3, <1>4 DEF Inv

\* No step takes a take back that is over, and only onstop hands a clip over.
LEMMA InvStep == Inv /\ [Next]_vars => Inv'
<1>. SUFFICES ASSUME Inv, [Next]_vars
              PROVE  Inv'
  OBVIOUS
<1>0. /\ take \in [Takes -> Take] /\ ref \in [Mounts -> Refs] /\ phase \in [Mounts -> Phases]
      /\ visit \in [no : Mounts, here : BOOLEAN] /\ clip \in 0 .. MaxTakes
      /\ removed \subseteq Takes /\ create \in Creation /\ Now \in Mounts
      /\ create.busy => create.sent \notin removed
      /\ clip \notin removed
  BY DEF Inv, TypeOK, RemovedStaysRemoved, Now
<1>1. CASE Record
  <2>1. PICK t \in Takes : /\ take[t].at = "none"
                           /\ take' = [take EXCEPT ![t].at = "asked", ![t].mount = Now]
    BY <1>1 DEF Record
  <2>2. [take[t] EXCEPT !.at = "asked", !.mount = Now] \in Take
    BY <1>0 DEF Take
  <2>3. take' = [take EXCEPT ![t] = [take[t] EXCEPT !.at = "asked", !.mount = Now]]
    BY <1>0, <2>1
  <2>4. take' \in [Takes -> Take] /\ \A u \in Takes : take[u].at = "over" => take'[u].at = "over"
    BY <1>0, <2>1, <2>2, <2>3
  <2>. QED
    BY <1>0, <1>1, <2>4, KeepsInv DEF Record, Keeps
<1>2. CASE Stop
  <2>1. take' = Stopped(take, Now) /\ UNCHANGED <<ref, phase, visit, clip, removed, create>>
    BY <1>2 DEF Stop
  <2>2. take' \in [Takes -> Take] /\ \A u \in Takes : take[u].at = "over" => take'[u].at = "over"
    BY <1>0, <2>1, StoppedIsTakes
  <2>. QED
    BY <1>0, <2>1, <2>2, KeepsInv DEF Keeps
<1>3. CASE Remove
  <2>1. /\ phase' = [phase EXCEPT ![Now] = "idle"] /\ clip' = 0
        /\ removed' = removed \cup ({clip} \ {0}) /\ ~create.busy
        /\ UNCHANGED <<take, ref, visit, create>>
    BY <1>3 DEF Remove, Discarded
  <2>2. phase' \in [Mounts -> Phases]
    BY <1>0, <2>1 DEF Phases
  <2>3. removed' \subseteq Takes /\ \A t \in removed' : take[t].at = "over"
    BY <1>0, <2>1, Constants DEF Inv, ClipsAreOver
  <2>4. TypeOK'
    BY <1>0, <2>1, <2>2, <2>3, Constants DEF TypeOK
  <2>5. ClipsAreOver' /\ RemovedStaysRemoved'
    BY <2>1, <2>3, Constants, <1>0 DEF ClipsAreOver, RemovedStaysRemoved
  <2>. QED
    BY <2>4, <2>5 DEF Inv
<1>4. ASSUME Unmounts, UNCHANGED <<phase, clip, removed>>,
             create' \in Creation, create'.busy => create'.sent \notin removed
      PROVE  Inv'
  <2>1. /\ take' = Halted(take, Now) /\ Forgets(Now)
        /\ visit' \in [no : Mounts, here : BOOLEAN]
    BY <1>0, <1>4 DEF Unmounts
  <2>2. take' \in [Takes -> Take] /\ \A u \in Takes : take[u].at = "over" => take'[u].at = "over"
    BY <1>0, <2>1, HaltedIsTakes
  <2>. QED
    BY <1>0, <1>4, <2>1, <2>2, ForgetsIsRefs, KeepsInv DEF Keeps
<1>5. CASE Back
  BY <1>0, <1>4, <1>5 DEF Back
<1>6. CASE Made
  <2>1. create' \in Creation /\ ~create'.busy
    BY <1>0, <1>6 DEF Made, Creation
  <2>. QED
    BY <1>4, <1>6, <2>1 DEF Made
<1>7. CASE Return
  <2>1. visit' \in [no : Mounts, here : BOOLEAN]
    <3>1. visit.no \in 1 .. MaxMounts /\ visit.no + 1 =< MaxMounts
      BY <1>0, <1>7, RecorderConstants DEF Return, Mounts
    <3>. QED
      BY <1>7, <3>1, RecorderConstants DEF Return, Mounts
  <2>. QED
    BY <1>0, <1>7, <2>1, KeepsInv DEF Return, Keeps
<1>8. CASE Create
  <2>1. create.tries + 1 \in 0 .. MaxTries
    BY <1>0, <1>8, RecorderConstants DEF Create, Creation
  <2>2. create' \in Creation /\ create'.sent = clip
    BY <1>0, <1>8, <2>1 DEF Create, Creation
  <2>. QED
    BY <1>0, <1>8, <2>2, KeepsInv DEF Create, Keeps
<1>9. CASE Fails
  <2>1. create' \in Creation /\ ~create'.busy
    BY <1>0, <1>9 DEF Fails, Creation
  <2>. QED
    BY <1>0, <1>9, <2>1, KeepsInv DEF Fails, Keeps
<1>10. ASSUME NEW t \in Takes, Granted(t)
       PROVE  Inv'
  <2> DEFINE m == take[t].mount
             tk == [take[t] EXCEPT !.at = "rolling", !.camera = TRUE, !.timer = TRUE]
             r  == [stream |-> t, recorder |-> t, timer |-> t]
  <2>1. m \in Mounts /\ take[t].at = "asked"
    BY <1>0, <1>10 DEF Granted, Take
  <2>2. tk \in Take /\ r \in Refs
    <3>1. take[t] \in Take
      BY <1>0 DEF Inv, TypeOK
    <3>2. tk \in Take
      BY <3>1 DEF Take
    <3>3. t \in 0 .. MaxTakes
      BY RecorderConstants DEF Takes
    <3>4. r \in Refs
      BY <3>3 DEF Refs
    <3>. QED
      BY <3>2, <3>4
  <2>3. /\ take' = [take EXCEPT ![t] = tk] /\ ref' = [ref EXCEPT ![m] = r]
        /\ phase' = [phase EXCEPT ![m] = "recording"]
        /\ UNCHANGED <<visit, clip, removed, create>>
    BY <1>0, <1>10 DEF Granted
  <2> HIDE DEF m, tk, r
  <2>4. /\ take' \in [Takes -> Take]
        /\ ref' \in [Mounts -> Refs]
        /\ phase' \in [Mounts -> Phases]
    BY <1>0, <2>1, <2>2, <2>3 DEF Phases
  <2>5. \A u \in Takes : take[u].at = "over" => take'[u].at = "over"
    BY <1>0, <2>1, <2>3
  <2>. QED
    BY <1>0, <2>3, <2>4, <2>5, KeepsInv DEF Keeps
<1>11. ASSUME NEW t \in Takes, Refused(t)
       PROVE  Inv'
  <2> DEFINE tk == [take EXCEPT ![t].at = "over"]
             m  == take[t].mount
  <2>1. m \in Mounts /\ tk \in [Takes -> Take]
        /\ \A u \in Takes : take[u].at = "over" => tk[u].at = "over"
    BY <1>0, <1>11 DEF Refused, Take
  <2>2. /\ take' = Halted(tk, m) /\ Forgets(m)
        /\ \E p \in {"denied", "idle"} : phase' = [phase EXCEPT ![m] = p]
        /\ UNCHANGED <<visit, clip, removed, create>>
    BY <1>11 DEF Refused
  <2> HIDE DEF tk, m
  <2>3. phase' \in [Mounts -> Phases]
    BY <1>0, <2>1, <2>2 DEF Phases
  <2>4. take' \in [Takes -> Take] /\ ref' \in [Mounts -> Refs]
    BY <1>0, <2>1, <2>2, HaltedIsTakes, ForgetsIsRefs
  <2>5. \A u \in Takes : take[u].at = "over" => take'[u].at = "over"
    BY <1>0, <2>1, <2>2, HaltedIsTakes
  <2>. QED
    BY <1>0, <2>2, <2>3, <2>4, <2>5, KeepsInv DEF Keeps
<1>12. ASSUME NEW t \in Takes, TimerEnds(t)
       PROVE  Inv'
  <2> DEFINE tk == [take EXCEPT ![t].timer = FALSE]
             m  == take[t].mount
  <2>1. m \in Mounts /\ tk \in [Takes -> Take] /\ \A u \in Takes : tk[u].at = take[u].at
    BY <1>0, <1>12 DEF Take
  <2>2. take' = Stopped(tk, m) /\ UNCHANGED <<ref, phase, visit, clip, removed, create>>
    BY <1>12 DEF TimerEnds
  <2> HIDE DEF tk, m
  <2>3. take' \in [Takes -> Take] /\ \A u \in Takes : take[u].at = "over" => take'[u].at = "over"
    BY <1>0, <2>1, <2>2, StoppedIsTakes
  <2>. QED
    BY <1>0, <2>2, <2>3, KeepsInv DEF Keeps
<1>13. ASSUME NEW t \in Takes, OnStop(t)
       PROVE  Inv'
  <2> DEFINE tk == [take EXCEPT ![t].at = "over"]
             m  == take[t].mount
  <2>1. /\ m \in Mounts /\ tk \in [Takes -> Take] /\ t \notin removed
        /\ \A u \in Takes : take[u].at = "over" \/ u = t => tk[u].at = "over"
    BY <1>0, <1>13 DEF OnStop, Take, Inv, ClipsAreOver
  <2>2. /\ take' = Halted(tk, m) /\ Forgets(m) /\ clip' = t
        /\ phase' = [phase EXCEPT ![m] = "review"] /\ UNCHANGED <<visit, removed, create>>
    BY <1>13 DEF OnStop
  <2> HIDE DEF tk, m
  <2>3. take' \in [Takes -> Take] /\ ref' \in [Mounts -> Refs] /\ phase' \in [Mounts -> Phases]
    BY <1>0, <2>1, <2>2, HaltedIsTakes, ForgetsIsRefs DEF Phases
  <2>4. \A u \in Takes : take[u].at = "over" \/ u = t => take'[u].at = "over"
    BY <1>0, <2>1, <2>2, HaltedIsTakes
  <2>5. TypeOK'
    BY <1>0, <2>2, <2>3, Constants DEF TypeOK
  <2>6. ClipsAreOver' /\ RemovedStaysRemoved'
    BY <1>0, <2>1, <2>2, <2>4 DEF Inv, ClipsAreOver, RemovedStaysRemoved
  <2>. QED
    BY <2>5, <2>6 DEF Inv
<1>14. CASE UNCHANGED vars
  BY <1>0, <1>14, KeepsInv DEF vars, Keeps
<1>. QED
  BY <1>1, <1>2, <1>3, <1>5, <1>6, <1>7, <1>8, <1>9, <1>10, <1>11, <1>12, <1>13, <1>14
  DEF Next, Browser

\* Every variable of the recorder and of the wizard around it keeps its type.
THEOREM TypesAreKept == Spec => []TypeOK
<1>1. Inv => TypeOK
  BY DEF Inv
<1>. QED
  BY InvInit, InvStep, <1>1, PTL DEF Spec

\* A recorder that stops late, by its clock or in a visit that was left, delivers a take of its
\* own, never one the owner removed; and what activate() sends was not removed.
THEOREM RemovedIsGone == Spec => []RemovedStaysRemoved
<1>1. Inv => RemovedStaysRemoved
  BY DEF Inv
<1>. QED
  BY InvInit, InvStep, <1>1, PTL DEF Spec

-----------------------------------------------------------------------------
(* The camera.  An owner who does not wait for the browser's question can lose track of one,  *)
(* so this half assumes that he does.                                                         *)

\* A step that asks for nothing and leaves on only cameras whose visit still holds and shows them.
LEMMA FewerCameras ==
  ASSUME OneCamera,
         \A u \in Takes :
           /\ take'[u].mount = take[u].mount
           /\ take'[u].at = "asked" => take[u].at = "asked"
           /\ take'[u].camera => /\ take[u].camera
                                 /\ take'[u].at \in {"rolling", "stopping"}
                                 /\ ref'[take[u].mount].stream = u
                                 /\ phase'[take[u].mount] = "recording"
  PROVE  OneCamera'
<1>1. \A u \in Takes : Live(u)' => Live(u)
  BY DEF Live
<1>2. \A t, u \in Takes : Live(t)' /\ Live(u)' /\ take'[t].mount = take'[u].mount => t = u
  BY <1>1 DEF OneCamera
<1>. QED
  BY <1>2 DEF OneCamera, Live

\* stopStream turns off the one camera of its visit.
LEMMA HaltedCameras ==
  ASSUME Inv, OneCamera, NEW m \in Mounts, NEW tk \in [Takes -> Take],
         \A u \in Takes : /\ tk[u].mount = take[u].mount
                          /\ tk[u].camera = take[u].camera
                          /\ take[u].mount # m => tk[u].at = take[u].at
                          /\ tk[u].at = "asked" => take[u].at = "asked",
         take' = Halted(tk, m), Forgets(m),
         \A k \in Mounts : k # m => phase'[k] = phase[k]
  PROVE  OneCamera'
<1>0. take \in [Takes -> Take] /\ ref \in [Mounts -> Refs]
  BY DEF Inv, TypeOK
<1>1. \A u \in Takes :
        /\ take'[u].mount = take[u].mount
        /\ take'[u].camera = (take[u].camera /\ u # ref[m].stream)
        /\ take'[u].at = tk[u].at \/ (tk[u].at = "rolling" /\ take'[u].at = "stopping")
  BY HaltedIsTakes
<1>2. \A k \in Mounts : k # m => ref'[k] = ref[k]
  BY <1>0, ForgetsIsRefs
<1>3. ASSUME NEW u \in Takes, take'[u].camera
      PROVE  /\ take[u].camera /\ take'[u].at \in {"rolling", "stopping"}
             /\ ref'[take[u].mount].stream = u /\ phase'[take[u].mount] = "recording"
  <2>1. take[u].camera /\ u # ref[m].stream /\ take[u].mount \in Mounts
    BY <1>0, <1>1, <1>3 DEF Take
  <2>2. take[u].mount # m
    BY <2>1 DEF OneCamera
  <2>. QED
    BY <1>1, <1>2, <2>1, <2>2 DEF OneCamera
<1>4. \A u \in Takes : take'[u].at = "asked" => take[u].at = "asked"
  BY <1>1
<1>. QED
  BY <1>1, <1>3, <1>4, FewerCameras

LEMMA CameraStep ==
  ASSUME Patient
  PROVE  Inv /\ OneCamera /\ [Next]_vars => OneCamera'
<1>. SUFFICES ASSUME Inv, OneCamera, [Next]_vars
              PROVE  OneCamera'
  OBVIOUS
<1>0. /\ take \in [Takes -> Take] /\ ref \in [Mounts -> Refs] /\ phase \in [Mounts -> Phases]
      /\ Now \in Mounts /\ \A u \in Takes : take[u].mount \in Mounts
  BY DEF Inv, TypeOK, Now, Take
<1>1. CASE Record
  <2>1. PICK t \in Takes : /\ take[t].at = "none"
                           /\ take' = [take EXCEPT ![t].at = "asked", ![t].mount = Now]
    BY <1>1 DEF Record
  <2>2. \A u \in Takes : Live(u) => take[u].mount # Now
    BY <1>1 DEF Record, Live, OneCamera
  <2>3. ~take[t].camera /\ UNCHANGED <<ref, phase>>
    BY <1>1, <2>1 DEF OneCamera, Record
  <2>4. /\ take'[t].mount = Now /\ take'[t].at = "asked" /\ ~take'[t].camera
        /\ \A u \in Takes : u # t => take'[u] = take[u]
    BY <1>0, <2>1, <2>3 DEF Take
  <2>5. \A u, v \in Takes : Live(u)' /\ Live(v)' /\ take'[u].mount = take'[v].mount => u = v
    BY <2>2, <2>4 DEF Live, OneCamera
  <2>. QED
    BY <2>3, <2>4, <2>5 DEF OneCamera, Live
<1>2. CASE Stop
  <2>1. take' = Stopped(take, Now) /\ UNCHANGED <<ref, phase>>
    BY <1>2 DEF Stop
  <2>2. \A u \in Takes : /\ take'[u].mount = take[u].mount /\ take'[u].camera = take[u].camera
                         /\ \/ take'[u].at = take[u].at
                            \/ take[u].at = "rolling" /\ take'[u].at = "stopping"
    BY <1>0, <2>1, StoppedIsTakes
  <2>. QED
    BY <2>1, <2>2, FewerCameras DEF OneCamera
<1>3. CASE Remove
  <2>1. /\ phase[Now] = "review" /\ phase' = [phase EXCEPT ![Now] = "idle"]
        /\ UNCHANGED <<take, ref>>
    BY <1>3 DEF Remove
  <2>2. \A u \in Takes : take[u].camera => phase'[take[u].mount] = "recording"
    BY <1>0, <2>1 DEF OneCamera
  <2>. QED
    BY <2>1, <2>2, FewerCameras DEF OneCamera
<1>4. CASE Back \/ Made
  <2>1. take' = Halted(take, Now) /\ Forgets(Now) /\ UNCHANGED phase
    BY <1>4 DEF Back, Made, Unmounts
  <2>. QED
    BY <1>0, <2>1, HaltedCameras
<1>5. CASE Return \/ Create \/ Fails \/ UNCHANGED vars
  BY <1>5, FewerCameras DEF Return, Create, Fails, vars, OneCamera
<1>6. ASSUME NEW t \in Takes, Granted(t)
      PROVE  OneCamera'
  <2> DEFINE m == take[t].mount
             tk == [take[t] EXCEPT !.at = "rolling", !.camera = TRUE, !.timer = TRUE]
             r  == [stream |-> t, recorder |-> t, timer |-> t]
  <2>1. /\ m \in Mounts /\ Live(t)
        /\ take' = [take EXCEPT ![t] = tk] /\ ref' = [ref EXCEPT ![m] = r]
        /\ phase' = [phase EXCEPT ![m] = "recording"]
    BY <1>0, <1>6 DEF Granted, Live
  <2>2. tk.mount = m /\ tk.at = "rolling" /\ r.stream = t
    BY <1>0 DEF Take
  <2> HIDE DEF m, tk, r
  <2>3. \A u \in Takes : Live(u) /\ take[u].mount = m => u = t
    BY <2>1 DEF OneCamera, m
  <2>4. /\ take'[t] = tk /\ take'[t].mount = m
        /\ \A u \in Takes : u # t => take'[u] = take[u]
    BY <1>0, <2>1, <2>2
  <2>5. \A u \in Takes : take'[u].mount = take[u].mount /\ (Live(u)' => Live(u))
    BY <2>1, <2>4 DEF Live, m
  <2>6. ref'[m].stream = t /\ phase'[m] = "recording"
    BY <1>0, <2>1, <2>2
  <2>7. \A k \in Mounts : k # m => ref'[k] = ref[k] /\ phase'[k] = phase[k]
    BY <1>0, <2>1
  <2>8. \A u \in Takes : take'[u].camera =>
          /\ take'[u].at \in {"rolling", "stopping"}
          /\ ref'[take'[u].mount].stream = u /\ phase'[take'[u].mount] = "recording"
    <3>1. ASSUME NEW u \in Takes, take'[u].camera, u # t
          PROVE  /\ take'[u].at \in {"rolling", "stopping"}
                 /\ ref'[take'[u].mount].stream = u /\ phase'[take'[u].mount] = "recording"
      <4>1. take[u].mount # m /\ take[u].camera /\ take[u].mount \in Mounts
        BY <1>0, <2>3, <2>4, <3>1 DEF Live
      <4>. QED
        BY <2>4, <2>7, <3>1, <4>1 DEF OneCamera
    <3>. QED
      BY <2>2, <2>4, <2>6, <3>1
  <2>9. \A u, v \in Takes : Live(u)' /\ Live(v)' /\ take'[u].mount = take'[v].mount => u = v
    BY <2>5 DEF OneCamera
  <2>. QED
    BY <2>8, <2>9 DEF OneCamera, Live
<1>7. ASSUME NEW t \in Takes, Refused(t) \/ OnStop(t)
      PROVE  OneCamera'
  <2> DEFINE tk == [take EXCEPT ![t].at = "over"]
             m  == take[t].mount
  <2>1. /\ m \in Mounts /\ tk \in [Takes -> Take] /\ t \in Takes
        /\ \A u \in Takes : /\ tk[u].mount = take[u].mount /\ tk[u].camera = take[u].camera
                            /\ take[u].mount # m => tk[u].at = take[u].at
                            /\ tk[u].at = "asked" => take[u].at = "asked"
    BY <1>0 DEF Take
  <2>2. take' = Halted(tk, m) /\ Forgets(m) /\ \E p : phase' = [phase EXCEPT ![m] = p]
    BY <1>7 DEF Refused, OnStop
  <2> HIDE DEF tk, m
  <2>3. \A k \in Mounts : k # m => phase'[k] = phase[k]
    BY <1>0, <2>2
  <2>. QED
    BY <2>1, <2>2, <2>3, HaltedCameras
<1>8. ASSUME NEW t \in Takes, TimerEnds(t)
      PROVE  OneCamera'
  <2> DEFINE tk == [take EXCEPT ![t].timer = FALSE]
             m  == take[t].mount
  <2>1. /\ m \in Mounts /\ tk \in [Takes -> Take]
        /\ \A u \in Takes : /\ tk[u].mount = take[u].mount /\ tk[u].camera = take[u].camera
                            /\ tk[u].at = take[u].at
    BY <1>0 DEF Take
  <2>2. take' = Stopped(tk, m) /\ UNCHANGED <<ref, phase>>
    BY <1>8 DEF TimerEnds
  <2> HIDE DEF tk, m
  <2>3. \A u \in Takes : /\ take'[u].mount = take[u].mount /\ take'[u].camera = take[u].camera
                         /\ \/ take'[u].at = take[u].at
                            \/ take[u].at = "rolling" /\ take'[u].at = "stopping"
    BY <1>0, <2>1, <2>2, StoppedIsTakes
  <2>. QED
    BY <2>2, <2>3, FewerCameras DEF OneCamera
<1>. QED
  BY <1>1, <1>2, <1>3, <1>4, <1>5, <1>6, <1>7, <1>8 DEF Next, Browser

\* When a take of a patient owner is over its camera is off, although the step was left, entered
\* again and other takes were asked for: onstop stops the stream that the visit's refs hold, and
\* that is the take's own.
THEOREM CamerasGoOff ==
  ASSUME Patient
  PROVE  Spec => []NoCameraAfterTake
<1>1. Init => OneCamera
  BY DEF Init, OneCamera, Live
<1>2. OneCamera => NoCameraAfterTake
  BY DEF OneCamera, NoCameraAfterTake
<1>. QED
  BY InvInit, InvStep, CameraStep, <1>1, <1>2, PTL DEF Spec
=============================================================================
