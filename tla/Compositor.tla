----------------------------- MODULE Compositor -----------------------------
(***************************************************************************)
(* The frame loop of the compositor (userland/prism/src/main.rs) with the  *)
(* windows' life cycle (wm.rs) and the frame budget (anim.rs).             *)
(*                                                                         *)
(* A transition is the state it leads through and whether its time is up;  *)
(* durations and curves are left out, so an animation may be interrupted   *)
(* or end at any frame.  The cost of a frame is in percent of the interval *)
(* between two frames.                                                     *)
(***************************************************************************)
EXTENDS Integers, FiniteSets

CONSTANTS
    Windows,
    Targets,         \* the states the input asks a window for
    Cheap, Hitch,    \* what a frame costs, and the one that takes long
    RecoveryFrames,  \* 120 in the code
    CooldownFrames,  \* 16 in the code
    MaxRequests      \* bound: requests, in all, that change a window

ASSUME BudgetAssumption ==
    Cheap \in Nat /\ Hitch \in Nat /\ CooldownFrames \in Nat /\ RecoveryFrames \in Nat \ {0}

VARIABLES
    state,           \* of each window, "absent" before it opens and after reap
    transition,      \* what is animated, or "none"
    due,             \* windows whose transition is complete at the next tick
    focused,         \* set of windows
    phase,           \* of the frame: "input", "tick", "skipped", "render"
    ema, quality, stable, cooldown,    \* the Budget
    reduced,         \* the accessibility setting
    discarded,       \* history: windows asked to be gone at once
    requests, hitches, sheds   \* history: requests made, frames that took
                               \* long, tiers shed

window == <<state, transition, due, focused, discarded>>
budget == <<ema, quality, stable, cooldown>>
vars == <<window, phase, budget, reduced, requests, hitches, sheds>>

Full == 4
Minimal == 0

\* The pairs that `request` accepts.
Valid ==
    {"Opening"} \X {"Normal", "Closing", "Dragging"}
        \cup {"Normal"} \X {"Dragging", "Minimising", "Closing"}
        \cup {"Dragging"} \X {"Normal", "Closing"}
        \cup {"Minimising"} \X {"Minimised", "Restoring", "Closing"}
        \cup {"Minimised"} \X {"Restoring", "Closing"}
        \cup {"Restoring"} \X {"Normal", "Minimising", "Closing"}
        \cup {"Closing"} \X {"Gone"}

\* The targets that take time.
Animated == {"Opening", "Restoring", "Closing", "Minimising"}

\* Where a completed transition leads.
After(kind) == CASE kind \in {"Opening", "Restoring"} -> "Normal"
                 [] kind = "Minimising" -> "Minimised"
                 [] kind = "Closing" -> "Gone"

Init ==
    /\ state = [w \in Windows |-> "absent"] /\ transition = [w \in Windows |-> "none"]
    /\ due = {} /\ focused = {} /\ discarded = {}
    /\ phase = "input"
    /\ reduced \in BOOLEAN
    /\ ema = 0 /\ quality = (IF reduced THEN Minimal ELSE Full)
    /\ stable = 0 /\ cooldown = 0
    /\ requests = 0 /\ hitches = 0 /\ sheds = 0

-----------------------------------------------------------------------------
(* Input, drained once per frame *)

Open(w) ==
    /\ phase = "input" /\ state[w] = "absent" /\ requests < MaxRequests
    /\ state' = [state EXCEPT ![w] = "Opening"]
    /\ transition' = [transition EXCEPT ![w] = "Opening"]
    /\ focused' = focused \cup {w} /\ requests' = requests + 1
    /\ UNCHANGED <<due, discarded, phase, budget, reduced, hitches, sheds>>

\* Mutation of Request: a state asked for in the middle of an animation keeps it.
Request_Snaps(w, target) ==
    /\ phase = "input" /\ <<state[w], target>> \in Valid /\ requests < MaxRequests
    /\ state' = [state EXCEPT ![w] = target]
    /\ transition' = [transition EXCEPT ![w] =
           IF target \in Animated /\ @ = "none" THEN target ELSE @]
    /\ discarded' = IF target = "Gone" THEN discarded \cup {w} ELSE discarded
    /\ due' = due \ {w} /\ requests' = requests + 1
    /\ UNCHANGED <<focused, phase, budget, reduced, hitches, sheds>>

\* request: a new animation starts where the old one stood, or none.
Request(w, target) ==
    /\ phase = "input" /\ <<state[w], target>> \in Valid /\ requests < MaxRequests
    /\ state' = [state EXCEPT ![w] = target]
    /\ transition' = [transition EXCEPT ![w] = IF target \in Animated THEN target ELSE "none"]
    /\ discarded' = IF target = "Gone" THEN discarded \cup {w} ELSE discarded
    /\ due' = due \ {w} /\ requests' = requests + 1
    /\ UNCHANGED <<focused, phase, budget, reduced, hitches, sheds>>

\* The focus moves to one window, or to the desktop.
Focus(on) ==
    /\ phase = "input" /\ \A w \in on : state[w] # "absent"
    /\ focused # on /\ requests < MaxRequests
    /\ focused' = on /\ requests' = requests + 1
    /\ UNCHANGED <<state, transition, due, discarded, phase, budget, reduced,
                   hitches, sheds>>

\* The clock: by the next tick the animations of `done` have run their time.
EndInput(done) ==
    /\ phase = "input" /\ phase' = "tick" /\ due' = due \cup done
    /\ UNCHANGED <<state, transition, focused, discarded, budget, reduced, requests,
                   hitches, sheds>>

-----------------------------------------------------------------------------
(* The tick of every window, and the frame it asks for *)

Present == {w \in Windows : state[w] # "absent"}

\* Mutation of NeedsRedraw: a window whose transition completes asks for no frame.
NeedsRedraw_Completed ==
    \E w \in Present : IF transition[w] # "none" THEN w \notin due ELSE w \in focused

NeedsRedraw == \E w \in Present : transition[w] # "none" \/ w \in focused

\* needs_redraw ticks them all; with nothing to draw, and the swapchain not
\* damaged, the frame is skipped before anything is reaped.
Tick ==
    LET ticked == [w \in Windows |-> IF w \in due THEN After(transition[w]) ELSE state[w]]
        gone == {w \in Windows : ticked[w] = "Gone"}
    IN  /\ phase = "tick"
        /\ transition' = [w \in Windows |-> IF w \in due THEN "none" ELSE transition[w]]
        /\ due' = {}
        /\ \/ /\ phase' = "render"
              /\ state' = [w \in Windows |-> IF w \in gone THEN "absent" ELSE ticked[w]]
              /\ focused' = focused \ gone /\ discarded' = discarded \ gone
           \/ /\ ~NeedsRedraw /\ phase' = "skipped"
              /\ state' = ticked /\ UNCHANGED <<focused, discarded>>
        /\ UNCHANGED <<budget, reduced, requests, hitches, sheds>>

Skip ==
    /\ phase = "skipped" /\ phase' = "input"
    /\ UNCHANGED <<window, budget, reduced, requests, hitches, sheds>>

-----------------------------------------------------------------------------
(* Budget::record, and the frame it is for *)

Lower(q) == IF q = Minimal THEN Minimal ELSE q - 1
Raise(q) == IF q = Full THEN Full ELSE q + 1
Average(cost) == IF ema = 0 THEN cost ELSE (ema * 7 + cost) \div 8
Less(n) == IF n = 0 THEN 0 ELSE n - 1

\* Mutation of Record: no cooldown.
Record_Cascades(cost) ==
    /\ ema' = Average(cost) /\ cooldown' = Less(cooldown)
    /\ IF ema' > 80
       THEN quality' = Lower(quality) /\ stable' = 0
       ELSE /\ stable' = IF ema' < 55 THEN (stable + 1) % RecoveryFrames ELSE 0
            /\ quality' = IF ema' < 55 /\ stable' = 0 THEN Raise(quality) ELSE quality

Record(cost) ==
    /\ ema' = Average(cost)
    /\ IF ema' > 80
       THEN /\ stable' = 0
            /\ IF Less(cooldown) = 0
               THEN quality' = Lower(quality) /\ cooldown' = CooldownFrames
               ELSE cooldown' = Less(cooldown) /\ UNCHANGED quality
       ELSE /\ cooldown' = Less(cooldown)
            /\ stable' = IF ema' < 55 THEN (stable + 1) % RecoveryFrames ELSE 0
            /\ quality' = IF ema' < 55 /\ stable' = 0 THEN Raise(quality) ELSE quality

Render(cost) ==
    /\ phase = "render" /\ phase' = "input"
    /\ cost = Hitch => hitches = 0
    /\ Record(cost)
    /\ hitches' = hitches + (IF cost = Hitch THEN 1 ELSE 0)
    /\ sheds' = sheds + (IF quality' < quality THEN 1 ELSE 0)
    /\ UNCHANGED <<window, reduced, requests>>

Frame == \/ \E done \in SUBSET {w \in Windows : transition[w] # "none"} : EndInput(done)
         \/ Tick \/ Skip
         \/ \E cost \in {Cheap, Hitch} : Render(cost)
Next == \/ \E w \in Windows : Open(w) \/ Focus({w}) \/ \E t \in Targets : Request(w, t)
        \/ Focus({})
        \/ Frame
Spec == Init /\ [][Next]_vars

\* The loop turns, and an animation's time is up after finitely many frames.
Fairness ==
    /\ WF_vars(Frame)
    /\ \A w \in Windows : SF_vars(Frame /\ w \notin due /\ w \in due')
FairSpec == Spec /\ Fairness

-----------------------------------------------------------------------------
(* Properties *)

\* A window that closes is released: the frame in which its animation ends is not
\* skipped, though nothing else on the desktop moves (wm.rs:26, main.rs:78-90).
\* Only a window asked to be gone at once may wait, for the next frame that is
\* drawn for another reason.
ClosingIsReleased ==
    \A w \in Windows :
        state[w] = "Closing" ~> state[w] = "absent" \/ (state[w] = "Gone" /\ w \in discarded)

\* One hitch costs one tier of quality (anim.rs:267-273).
OneHitchOneTier == sheds <= hitches

\* What the average still holds of a hitch n cheap frames later; the cooldown is
\* sized to its settling time (anim.rs:286-290).
Settling[n \in 0 .. CooldownFrames] ==
    IF n = 0 THEN Hitch ELSE (Settling[n - 1] * 7 + Cheap) \div 8
HitchSettles == Cheap <= 80 /\ Cheap <= Hitch /\ Settling[CooldownFrames] <= 80

\* The state of a window is the one being animated, or has no animation.
AnimatesItsState(w) ==
    transition[w] = IF state[w] \in Animated THEN state[w] ELSE "none"

\* A window that is gone and not yet released was asked to be gone.
GoneWasAskedFor(w) == state[w] = "Gone" => w \in discarded

\* However a window's animations interrupt each other, the state it is in is the
\* one being animated, and a window at rest has no animation left
\* (wm.rs:106-111); up to the release of the window.
WindowsSettle ==
    /\ [](\A w \in Windows : AnimatesItsState(w) /\ GoneWasAskedFor(w))
    /\ ClosingIsReleased
=============================================================================
