--------------------------- MODULE MCTimerService ---------------------------
(***************************************************************************)
(* Small instances of TimerService for TLC.  Handles are interchangeable,  *)
(* and so are threads where all of them fire.                              *)
(***************************************************************************)
EXTENDS TimerService, TLC

HandleSymmetry == Permutations(Handles)
ThreadAndHandleSymmetry == HandleSymmetry \cup Permutations(Threads)
=============================================================================
