---------------------------- MODULE MCMessaging ----------------------------
(***************************************************************************)
(* A small instance of Messaging for TLC: two modules of the list and one  *)
(* outside it with one handler each, two payload types.  The asker names   *)
(* the list, the answerer does not.  Blocks are interchangeable.           *)
(***************************************************************************)
EXTENDS Messaging, TLC

CONSTANTS asker, answerer, question, answer

InboxOf == (asker :> {answer}) @@ (answerer :> {question}) @@ (Stranger :> {question})

BlockSymmetry == Permutations(Blocks)
=============================================================================
