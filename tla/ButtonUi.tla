------------------------------ MODULE ButtonUi ------------------------------
(***************************************************************************)
(* What a user of the button pipeline (examples/button_pipeline) sees: the *)
(* debounced button is pressed, every press is answered by one gesture (a  *)
(* double click answers two), and the user interface changes its mode at   *)
(* the gesture.  No queue, no timer and no module is visible.              *)
(***************************************************************************)
EXTENDS Naturals

VARIABLES
    on,       \* the program has not been told to stop
    mode,     \* UiMode
    owed,     \* presses not yet answered by a gesture
    said      \* the gesture recognised last

uvars == <<on, mode, owed, said>>

Gestures == {"Click", "DoubleClick", "LongPress"}

Answers(g) == IF g = "DoubleClick" THEN 2 ELSE 1

\* A click toggles the mode, a long press enters or leaves configuration, and
\* a double click is reserved.
React(m, g) ==
    CASE g = "Click" /\ m = "Idle" -> "Active"
      [] g = "Click" /\ m = "Active" -> "Idle"
      [] g = "LongPress" /\ m # "Configuring" -> "Configuring"
      [] g = "LongPress" /\ m = "Configuring" -> "Idle"
      [] OTHER -> m

UInit ==
    /\ on = TRUE
    /\ mode = "Idle"
    /\ owed = 0
    /\ said = "nothing"

Press ==
    /\ on
    /\ owed' = owed + 1
    /\ UNCHANGED <<on, mode, said>>

\* A gesture recognised after the stop request no longer reaches the interface.
Answer(g) ==
    /\ owed >= Answers(g)
    /\ owed' = owed - Answers(g)
    /\ said' = g
    /\ mode' = IF on THEN React(mode, g) ELSE mode
    /\ UNCHANGED on

SwitchOff ==
    /\ on' = FALSE
    /\ UNCHANGED <<mode, owed, said>>

UNext == Press \/ (\E g \in Gestures : Answer(g)) \/ SwitchOff

USpec == UInit /\ [][UNext]_uvars
=============================================================================
