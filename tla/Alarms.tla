------------------------------- MODULE Alarms -------------------------------
(***************************************************************************)
(* What a timer service promises to the code that arms a timer, with no    *)
(* heap, handle, lock or thread in sight: an alarm rings at most once, not *)
(* before its time, and never once it was called off; calling it off       *)
(* counts until the service takes it out to ring it, and the service takes *)
(* out all that is due at once.                                            *)
(***************************************************************************)
EXTENDS Naturals

CONSTANTS
    Delays,
    Representable   \* the times an alarm can be set for

VARIABLES
    clock,
    count,      \* alarms set so far: the next one is number count + 1
    waiting,    \* alarms that may still be called off, with their due times
    taken,      \* alarms that were due and are about to ring
    rung,       \* numbers of the alarms that rang
    off         \* numbers of those called off, or taken and refused

avars == <<clock, count, waiting, taken, rung, off>>

AInit ==
    /\ clock = 0
    /\ count = 0
    /\ waiting = {}
    /\ taken = {}
    /\ rung = {}
    /\ off = {}

Advance ==
    /\ clock' > clock
    /\ UNCHANGED <<count, waiting, taken, rung, off>>

\* An alarm set for too far ahead is due at once.
DueTime(delay) == IF clock + delay \in Representable THEN clock + delay ELSE 0

Set(delay) ==
    /\ count' = count + 1
    /\ waiting' = waiting \cup {[id |-> count + 1, due |-> DueTime(delay)]}
    /\ UNCHANGED <<clock, taken, rung, off>>

CallOff(alarm) ==
    /\ waiting' = waiting \ {alarm}
    /\ off' = off \cup {alarm.id}
    /\ UNCHANGED <<clock, count, taken, rung>>

\* The end of a life: whatever waits is called off.
CallOffAll ==
    /\ waiting' = {}
    /\ off' = off \cup {a.id : a \in waiting}
    /\ UNCHANGED <<clock, count, taken, rung>>

TakeDue ==
    /\ waiting' = {a \in waiting : a.due > clock}
    /\ taken' = taken \cup {a \in waiting : a.due <= clock}
    /\ UNCHANGED <<clock, count, rung, off>>

Ring(alarm) ==
    /\ taken' = taken \ {alarm}
    /\ rung' = rung \cup {alarm.id}
    /\ UNCHANGED <<clock, count, waiting, off>>

\* A program that is stopping does not hear the alarm.
Refuse(alarm) ==
    /\ taken' = taken \ {alarm}
    /\ off' = off \cup {alarm.id}
    /\ UNCHANGED <<clock, count, waiting, rung>>

ANext ==
    \/ Advance
    \/ \E delay \in Delays : Set(delay)
    \/ \E alarm \in waiting : CallOff(alarm)
    \/ CallOffAll
    \/ TakeDue
    \/ \E alarm \in taken : Ring(alarm) \/ Refuse(alarm)

ASpec == AInit /\ [][ANext]_avars
=============================================================================
