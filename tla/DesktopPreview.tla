--------------------------- MODULE DesktopPreview ---------------------------
(***************************************************************************)
(* The desktop of the boot preview (boot/spectre-boot/src/demo.rs,         *)
(* show_desktop): one loop that polls the keyboard and every pointer, and  *)
(* repaints as little as it can.  The video memory is the view last        *)
(* painted whole and the places where a cursor has been painted since and  *)
(* not been painted over.                                                  *)
(***************************************************************************)
EXTENDS Integers, FiniteSets

CONSTANTS
    ScreenWidth, ScreenHeight,     \* in pixels
    Moves,           \* bound: the movements a pointer reports
    Pointers         \* how many pointers there are

VARIABLES
    view, selected, leftDown, cursor,    \* the loop's own; view 0 is the desktop
    step, polled, buttons, old,          \* of one turn: pointers polled, the buttons
    redraw, moved,                       \* held, the cursor before it, what to paint
    painted, cursors                     \* the video memory

previewVars == <<view, selected, leftDown, cursor, step, polled, buttons, old,
                 redraw, moved, painted, cursors>>

Least(a, b) == IF a <= b THEN a ELSE b
Most(a, b) == IF a >= b THEN a ELSE b

Cards == 0 .. 2
\* Where a card begins and ends; hovered_card finds the first one hit.
OnCard(card, x, y) ==
    LET h == Least(112, ScreenHeight \div 6)
        left == Most(36, ScreenWidth \div 14)
        top == Most(Least(58, ScreenHeight \div 10) + 34, ScreenHeight \div 4)
                   + card * (h + 18)
    IN  x >= left /\ x < left + Least(260, ScreenWidth \div 3) /\ y >= top /\ y < top + h
Hovered(x, y) == {c \in Cards : OnCard(c, x, y) /\ \A d \in Cards : d < c => ~OnCard(d, x, y)}

BackButtonHit(x, y) ==
    LET bottom == ScreenHeight \div 6 + (ScreenHeight * 2) \div 3
    IN  /\ x >= Most(0, ScreenWidth \div 2 - 100)
        /\ x <= Least(ScreenWidth - 1, ScreenWidth \div 2 + 100)
        /\ y >= bottom - 76 /\ y <= Least(ScreenHeight - 1, bottom - 18)

\* A movement is clamped to 64 pixels, and the cursor to the screen.
PointerDelta(raw) == Most(0 - 64, Least(64, raw))
AddClamped(value, delta, maximum) == Least(maximum, Most(0, value + delta))

Shown(v, s) == IF v = 0 THEN <<0, s>> ELSE <<v, 0>>

PreviewInit ==
    /\ view = 0 /\ selected = 0 /\ leftDown = FALSE
    /\ cursor = <<ScreenWidth \div 2, ScreenHeight \div 2>>
    /\ step = "keys" /\ polled = 0 /\ buttons = {} /\ old = cursor
    /\ redraw = FALSE /\ moved = FALSE
    /\ painted = Shown(0, 0) /\ cursors = {cursor}

\* The key of this turn, if there is one: arrows (and w, s) on the desktop, Enter,
\* Escape, and the digits in every view.
Key ==
    /\ step = "keys" /\ step' = "pointers"
    /\ old' = cursor /\ moved' = FALSE /\ polled' = 0 /\ buttons' = {}
    /\ \/ redraw' = FALSE /\ UNCHANGED <<view, selected>>
       \/ /\ view = 0 /\ redraw' = TRUE /\ UNCHANGED view
          /\ \E by \in {1, 2} : selected' = (selected + by) % 3
       \/ view = 0 /\ view' = selected + 1 /\ redraw' = TRUE /\ UNCHANGED selected
       \/ view # 0 /\ view' = 0 /\ redraw' = TRUE /\ UNCHANGED selected
       \/ \E c \in Cards : selected' = c /\ view' = c + 1 /\ redraw' = TRUE
    /\ UNCHANGED <<leftDown, cursor, painted, cursors>>

\* One pointer: it moves the cursor, which selects the card it comes to rest on.
Pointer(dx, dy, held) ==
    LET x == AddClamped(cursor[1], PointerDelta(dx), ScreenWidth - 1)
        y == AddClamped(cursor[2], PointerDelta(dy), ScreenHeight - 1)
        hovered == IF view = 0 THEN Hovered(x, y) \ {selected} ELSE {}
    IN  /\ step = "pointers" /\ polled < Pointers /\ polled' = polled + 1
        /\ buttons' = buttons \cup held
        /\ IF dx = 0 /\ dy = 0
           THEN UNCHANGED <<cursor, moved, selected, redraw>>
           ELSE /\ cursor' = <<x, y>> /\ moved' = TRUE
                /\ redraw' = (redraw \/ hovered # {})
                /\ selected' = IF hovered = {} THEN selected ELSE CHOOSE c \in hovered : TRUE
        /\ UNCHANGED <<view, leftDown, step, old, painted, cursors>>

Polled ==
    /\ step = "pointers" /\ step' = "clicks"
    /\ UNCHANGED <<view, selected, leftDown, cursor, polled, buttons, old, redraw,
                   moved, painted, cursors>>

Opened(hovered) == view' = hovered + 1 /\ redraw' = TRUE /\ selected' = hovered

\* A button counts when it goes down: the left one opens a card or hits the back
\* button, the right one goes back.
Click ==
    LET clicked == "left" \in buttons /\ ~leftDown
        rightClicked == "right" \in buttons /\ ~leftDown
    IN  /\ step = "clicks" /\ step' = "paint"
        /\ leftDown' = (buttons # {})
        /\ CASE clicked /\ view = 0 /\ Hovered(cursor[1], cursor[2]) # {} ->
                    \E c \in Hovered(cursor[1], cursor[2]) : Opened(c)
             [] \/ clicked /\ view # 0 /\ BackButtonHit(cursor[1], cursor[2])
                \/ ~clicked /\ rightClicked /\ view # 0 ->
                    view' = 0 /\ redraw' = TRUE /\ UNCHANGED selected
             [] OTHER -> UNCHANGED <<view, redraw, selected>>
        /\ UNCHANGED <<cursor, polled, buttons, old, moved, painted, cursors>>

\* Mutation of Repaint: the picture under the cursor's new place is restored.
Repaint_NewPlace ==
    IF redraw THEN painted' = Shown(view, selected) /\ cursors' = {cursor}
    ELSE UNCHANGED painted /\ cursors' = IF moved THEN (cursors \ {cursor}) \cup {cursor}
                                                  ELSE cursors

\* All of it, or the patch under the old cursor; then the cursor.
Repaint ==
    IF redraw THEN painted' = Shown(view, selected) /\ cursors' = {cursor}
    ELSE UNCHANGED painted /\ cursors' = IF moved THEN (cursors \ {old}) \cup {cursor}
                                                  ELSE cursors
Paint ==
    /\ step = "paint" /\ step' = "keys" /\ Repaint
    /\ UNCHANGED <<view, selected, leftDown, cursor, polled, buttons, old, redraw, moved>>

PreviewNext == \/ Key \/ Polled \/ Click \/ Paint
               \/ \E m \in Moves, held \in SUBSET {"left", "right"} : Pointer(m[1], m[2], held)
PreviewSpec == PreviewInit /\ [][PreviewNext]_previewVars

-----------------------------------------------------------------------------
(* Properties *)

\* Between two turns the screen shows the view the loop is in, with the selected
\* card, and one cursor, where it is, whichever of keys, pointers and buttons
\* came together in a turn; a feature screen is the selected card's
\* (demo.rs:363-381).
ScreenIsCurrent ==
    step = "keys" => /\ painted = Shown(view, selected) /\ cursors = {cursor}
                     /\ view # 0 => view = selected + 1
=============================================================================
