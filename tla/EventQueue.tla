----------------------------- MODULE EventQueue -----------------------------
(***************************************************************************)
(* What the queue of a CortexFlow runtime promises to the code that posts  *)
(* into it, with no thread, lock or condition variable in sight: an        *)
(* envelope that is accepted is served once, in acceptance order; nothing  *)
(* is accepted while the queue is closed; and what waits in the queue can  *)
(* be abandoned only as a whole.                                           *)
(***************************************************************************)
EXTENDS Naturals, Sequences

CONSTANT Envelope   \* the set of envelopes that can be posted

VARIABLES
    open,           \* posts are accepted
    accepted,       \* every envelope accepted so far, in order
    served          \* every envelope dispatched or abandoned so far, in order

qvars == <<open, accepted, served>>

QInit ==
    /\ open = TRUE
    /\ accepted = <<>>
    /\ served = <<>>

Accept(e) ==
    /\ open
    /\ accepted' = Append(accepted, e)
    /\ UNCHANGED <<open, served>>

\* The envelope served next is the oldest one accepted and not yet served.
Serve ==
    /\ Len(served) < Len(accepted)
    /\ served' = Append(served, accepted[Len(served) + 1])
    /\ UNCHANGED <<open, accepted>>

Abandon ==
    /\ served' = accepted
    /\ UNCHANGED <<open, accepted>>

Close ==
    /\ open' = FALSE
    /\ UNCHANGED <<accepted, served>>

Reopen ==
    /\ open' = TRUE
    /\ UNCHANGED <<accepted, served>>

QNext == (\E e \in Envelope : Accept(e)) \/ Serve \/ Abandon \/ Close \/ Reopen

QSpec == QInit /\ [][QNext]_qvars
=============================================================================
