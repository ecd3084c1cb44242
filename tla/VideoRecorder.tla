---------------------------- MODULE VideoRecorder ----------------------------
(* The recorder of the owner's video message (VideoMessageRecorder.tsx) on    *)
(* the password step of the setup wizard, which holds the clip and sends it   *)
(* when the vault is made (PasswordSetupPortal.tsx). The camera, the prompt   *)
(* for it and MediaRecorder are the browser's.                                *)
EXTENDS Integers, FiniteSets

CONSTANTS MaxTakes,      \* bound: presses of Record or Re-record
          MaxMounts,     \* bound: visits to the password step
          MaxTries,      \* bound: presses of Create vault
          Patient        \* the owner waits for the browser's question before pressing again

ASSUME RecorderConstants ==
    {MaxTakes, MaxMounts, MaxTries} \subseteq Nat \ {0} /\ Patient \in BOOLEAN

VARIABLES take,     \* what became of each press of Record: start() and its MediaRecorder
          ref,      \* streamRef, recorderRef and stopTimerRef of each visit; 0 is null
          phase,    \* what each visit shows
          visit,    \* the latest visit, and whether it is on the screen
          clip,     \* videoClip of the wizard: the take it holds, or 0
          removed,  \* history: takes the owner removed
          create    \* activate(): the clip it closed over

vars == <<take, ref, phase, visit, clip, removed, create>>

Takes == 1 .. MaxTakes
Mounts == 1 .. MaxMounts
Take == [mount : Mounts, camera : BOOLEAN, timer : BOOLEAN,
         at : {"none", "asked", "rolling", "stopping", "over"}]
Refs == [stream : 0 .. MaxTakes, recorder : 0 .. MaxTakes, timer : 0 .. MaxTakes]
NoRefs == [stream |-> 0, recorder |-> 0, timer |-> 0]
Phases == {"idle", "recording", "review", "denied"}
Creation == [busy : BOOLEAN, sent : 0 .. MaxTakes, tries : 0 .. MaxTries, made : BOOLEAN]

Init ==
    /\ take = [t \in Takes |-> [mount |-> 1, camera |-> FALSE, timer |-> FALSE, at |-> "none"]]
    /\ ref = [m \in Mounts |-> NoRefs] /\ phase = [m \in Mounts |-> "idle"]
    /\ visit = [no |-> 1, here |-> TRUE] /\ clip = 0 /\ removed = {}
    /\ create = [busy |-> FALSE, sent |-> 0, tries |-> 0, made |-> FALSE]

Here == visit.here
Now == visit.no

-----------------------------------------------------------------------------
(* Stopping.                                                                *)

\* mutant: the timer only
TimerCleared(tk, m) == [t \in Takes |-> [tk[t] EXCEPT !.timer = @ /\ t # ref[m].timer]]

\* stopStream of visit m, on takes tk: the stream and the timer its refs hold; a recorder whose
\* camera goes off stops.
Halted(tk, m) ==
    [t \in Takes |->
        LET off == t = ref[m].stream /\ tk[t].camera
        IN  [tk[t] EXCEPT !.camera = @ /\ t # ref[m].stream, !.timer = @ /\ t # ref[m].timer,
                          !.at = IF off /\ @ = "rolling" THEN "stopping" ELSE @]]

Forgets(m) == ref' = [ref EXCEPT ![m].stream = 0, ![m].timer = 0]

\* mutant: only while the recorder is on the screen
StoppedIfShown(tk, m) ==
    [t \in Takes |-> IF t = ref[m].recorder /\ tk[t].at = "rolling" /\ visit = [no |-> m, here |-> TRUE]
                     THEN [tk[t] EXCEPT !.at = "stopping"] ELSE tk[t]]

\* stop(): whatever recorder the visit's ref holds, if it is rolling.
Stopped(tk, m) ==
    [t \in Takes |-> IF t = ref[m].recorder /\ tk[t].at = "rolling"
                     THEN [tk[t] EXCEPT !.at = "stopping"] ELSE tk[t]]

-----------------------------------------------------------------------------
(* The recorder.                                                            *)

\* start(): the browser asks for the camera. The button stays in reach while it does.
Record ==
    /\ Here /\ ~create.busy /\ phase[Now] # "recording"
    /\ Patient => \A t \in Takes : take[t].at = "asked" => take[t].mount # Now
    /\ \E t \in Takes :
         /\ take[t].at = "none" /\ \A u \in Takes : u < t => take[u].at # "none"
         /\ take' = [take EXCEPT ![t].at = "asked", ![t].mount = Now]
    /\ UNCHANGED <<ref, phase, visit, clip, removed, create>>

\* The camera is given to start(), wherever the owner is by now, and the recorder rolls.
Granted(t) ==
    /\ take[t].at = "asked"
    /\ LET m == take[t].mount
       IN  /\ take' = [take EXCEPT ![t].at = "rolling", ![t].camera = TRUE, ![t].timer = TRUE]
           /\ ref' = [ref EXCEPT ![m] = [stream |-> t, recorder |-> t, timer |-> t]]
           /\ phase' = [phase EXCEPT ![m] = "recording"]
    /\ UNCHANGED <<visit, clip, removed, create>>

\* The camera is refused, or fails.
Refused(t) ==
    /\ take[t].at = "asked"
    /\ LET m == take[t].mount
       IN  /\ take' = Halted([take EXCEPT ![t].at = "over"], m) /\ Forgets(m)
           /\ \E p \in {"denied", "idle"} : phase' = [phase EXCEPT ![m] = p]
    /\ UNCHANGED <<visit, clip, removed, create>>

Stop ==
    /\ Here /\ ~create.busy /\ phase[Now] = "recording"
    /\ take' = Stopped(take, Now) /\ take' # take
    /\ UNCHANGED <<ref, phase, visit, clip, removed, create>>

\* MAX_SECONDS after the start of take t, also while the vault is made.
TimerEnds(t) ==
    /\ take[t].timer
    /\ take' = Stopped([take EXCEPT ![t].timer = FALSE], take[t].mount)
    /\ UNCHANGED <<ref, phase, visit, clip, removed, create>>

\* onstop: the camera goes off, the wizard gets the clip, the visit shows it.
OnStop(t) ==
    /\ take[t].at = "stopping"
    /\ LET m == take[t].mount
       IN  /\ take' = Halted([take EXCEPT ![t].at = "over"], m) /\ Forgets(m)
           /\ phase' = [phase EXCEPT ![m] = "review"]
    /\ clip' = t
    /\ UNCHANGED <<visit, removed, create>>

\* mutant: the wizard is not told
Hidden == UNCHANGED clip
Discarded == clip' = 0

\* reset()
Remove ==
    /\ Here /\ ~create.busy /\ phase[Now] = "review"
    /\ phase' = [phase EXCEPT ![Now] = "idle"]
    /\ Discarded /\ removed' = removed \cup ({clip} \ {0})
    /\ UNCHANGED <<take, ref, visit, create>>

-----------------------------------------------------------------------------
(* The wizard around it.                                                    *)

\* The step is left, by Back or because the vault is made: "tear everything down on unmount".
Unmounts == take' = Halted(take, Now) /\ Forgets(Now) /\ visit' = [visit EXCEPT !.here = FALSE]

Back ==
    /\ Here /\ ~create.busy /\ Unmounts
    /\ UNCHANGED <<phase, clip, removed, create>>

Return ==
    /\ ~Here /\ ~create.made /\ visit.no < MaxMounts
    /\ visit' = [no |-> visit.no + 1, here |-> TRUE]
    /\ UNCHANGED <<take, ref, phase, clip, removed, create>>

Create ==
    /\ Here /\ ~create.busy /\ create.tries < MaxTries
    /\ create' = [create EXCEPT !.busy = TRUE, !.sent = clip, !.tries = @ + 1]
    /\ UNCHANGED <<take, ref, phase, visit, clip, removed>>

Fails ==
    /\ create.busy /\ create' = [create EXCEPT !.busy = FALSE]
    /\ UNCHANGED <<take, ref, phase, visit, clip, removed>>

Made ==
    /\ create.busy /\ create' = [create EXCEPT !.busy = FALSE, !.made = TRUE] /\ Unmounts
    /\ UNCHANGED <<phase, clip, removed>>

Browser(t) == Granted(t) \/ Refused(t) \/ TimerEnds(t) \/ OnStop(t)
Next == \/ Record \/ Stop \/ Remove \/ Back \/ Return \/ Create \/ Fails \/ Made
        \/ \E t \in Takes : Browser(t)

Spec == Init /\ [][Next]_vars
FairSpec == Spec /\ \A t \in Takes : WF_vars(TimerEnds(t)) /\ WF_vars(OnStop(t))

-----------------------------------------------------------------------------
(* Properties.                                                              *)

\* Every variable has its type.
TypeOK ==
    /\ take \in [Takes -> Take] /\ ref \in [Mounts -> Refs] /\ phase \in [Mounts -> Phases]
    /\ visit \in [no : Mounts, here : BOOLEAN] /\ clip \in 0 .. MaxTakes
    /\ removed \subseteq Takes /\ create \in Creation

\* A take that is over leaves no camera on: onstop stops the stream the refs hold, which is the
\* take's own although the step was left and entered again, and other takes were asked for
\* (VideoMessageRecorder.tsx, stopStream).
NoCameraAfterTake == \A t \in Takes : take[t].at = "over" => ~take[t].camera

\* A clip the owner removed never comes back, and goes into no vault: a recorder that is stopped
\* late, by its clock or in a visit that was left, delivers another take.
RemovedStaysRemoved == /\ clip \notin removed
                       /\ create.busy => create.sent \notin removed

\* The camera goes off in the end, also when it was given to a visit that was over by then, and
\* nothing shows that it is on: the clock of the take stops it.
CameraGoesOff == \A t \in Takes : take[t].camera ~> ~take[t].camera
=============================================================================
