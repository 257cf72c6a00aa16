----------------------------- MODULE MCUserland -----------------------------
(***************************************************************************)
(* The programs outside the kernel, each for TLC: the compositor's frame   *)
(* loop and its estimate of render times, the behaviour score, the         *)
(* integrity guard, the PE loader's validation and the loader's desktop    *)
(* preview.  A behaviour is one of `unit`; the others keep their initial   *)
(* states.                                                                 *)
(***************************************************************************)
EXTENDS Compositor, Guard, PeImage, RenderEstimator, DesktopPreview, Heuristic

CONSTANTS w1, w2

VARIABLE unit

allVars == <<unit, vars, renderVars, profileVars, guardVars, peVars, previewVars>>

-----------------------------------------------------------------------------
(* Instances *)

\* A process shows the behaviours of one combination.
Shapes == {{"EnumerateUserDocuments", "ReadForeignFile", "WriteHighEntropy", "DestroySnapshot"},
           {"CredentialAccess", "ConnectWithoutDns"}}

\* What the guard walks: two files.  A contents of three is short; one shows the two
\* indicators that warn, within the length of the short one, and one the four that
\* are critical, of which the short length shows one and the limit three.  The
\* loader's header fields have four bits, and their sums wrap.
TwoPaths == <<"a", "b">>
Sizes == [c1 |-> 2, c2 |-> 2, c3 |-> 4]
Matches == [c1 |-> <<>>, c2 |-> <<1, 2>>, c3 |-> <<2, 3, 3, 4>>]

\* The screen is small enough to be crossed in a few movements.
Deltas == {<<0, 0>>, <<-100, 0>>, <<64, 0>>, <<0, 64>>, <<0, -64>>}

ASSUME CooldownInstance == HitchSettles
ASSUME GuardInstance == GuardAssumption
ASSUME ImageInstance == PeAssumption

-----------------------------------------------------------------------------
(* One initial state for a part that does not move *)

ScoreRests == role = "None" /\ repertoire = {"CredentialAccess", "ConnectWithoutDns"}
GuardRests == file = [f \in {"a", "b"} |-> "c1"]
PeRests == /\ header = [marks |-> TRUE, sectionAlign |-> 2, fileAlign |-> 2, image |-> 4,
                        heads |-> 4, entry |-> 4, file |-> 8]
           /\ count = 0
CompositorRests == reduced = FALSE

Units == {"compositor", "render", "score", "guard", "image", "preview"}

MCInit ==
    /\ unit \in Units
    /\ IF unit = "compositor" THEN TRUE ELSE CompositorRests
    /\ IF unit = "score" THEN TRUE ELSE ScoreRests
    /\ IF unit = "guard" THEN TRUE ELSE GuardRests
    /\ IF unit = "image" THEN TRUE ELSE PeRests
    /\ Init /\ EstimatorInit /\ ProfileInit /\ CommandInit /\ ImageInit /\ PreviewInit

Compositing == /\ unit = "compositor"
               /\ UNCHANGED <<unit, renderVars, profileVars, guardVars, peVars, previewVars>>
Estimating == /\ unit = "render"
              /\ UNCHANGED <<unit, vars, profileVars, guardVars, peVars, previewVars>>
Scoring == /\ unit = "score"
           /\ UNCHANGED <<unit, vars, renderVars, guardVars, peVars, previewVars>>
Guarding == /\ unit = "guard"
            /\ UNCHANGED <<unit, vars, renderVars, profileVars, peVars, previewVars>>
Loading == /\ unit = "image"
           /\ UNCHANGED <<unit, vars, renderVars, profileVars, guardVars, previewVars>>
Previewing == /\ unit = "preview"
              /\ UNCHANGED <<unit, vars, renderVars, profileVars, guardVars, peVars>>

MCNext == \/ Compositing /\ Next
          \/ Estimating /\ EstimatorNext
          \/ Scoring /\ ProfileNext
          \/ Guarding /\ CommandNext
          \/ Loading /\ ImageNext
          \/ Previewing /\ PreviewNext

\* The fairness of the compositor.
MCSpec ==
    /\ MCInit /\ [][MCNext]_allVars
    /\ WF_allVars(Compositing /\ Frame)
    /\ \A w \in Windows : SF_allVars(Compositing /\ Frame /\ w \notin due /\ w \in due')
=============================================================================
