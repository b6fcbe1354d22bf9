--------------------------- MODULE PermitBarrier ---------------------------
(***************************************************************************)
(* What Permit promises a gang, without the scheduler around it: a gate at *)
(* which a gang's pods are held as long as they are too few.  A member     *)
(* that opens the gate lets the held ones through, and a pod that is       *)
(* turned back takes the held ones back, each one by one; nobody of the    *)
(* gang arrives at the gate while that goes on, and neither is done with   *)
(* it while a pod of the gang is still held.                               *)
(***************************************************************************)
EXTENDS Integers, FiniteSets

CONSTANTS Pods,
          Gang,     \* the gang of every pod, or NoGang
          NoGang,
          Ganged,   \* may the gate hold the pod?
          Size      \* how many pods of its gang each of them wants

VARIABLE where

Places == {"outside", "held", "opening", "through", "back", "collapsing"}

\* The gang of p, as far as it is at the given places.
Peers(p, places) == {q \in Pods : /\ where[q] \in places
                                  /\ Gang[p] # NoGang /\ Gang[q] = Gang[p]}

Move(p, place) == where' = [where EXCEPT ![p] = place]

Init == where = [p \in Pods |-> "outside"]

\* Held only while the gang is too small, this pod included, and at rest.
Hold(p) ==
    /\ where[p] = "outside" /\ Ganged[p]
    /\ Cardinality(Peers(p, {"held"})) + 1 < Size[p]
    /\ Peers(p, {"opening", "collapsing"}) = {}
    /\ Move(p, "held")

Open(p) == where[p] = "outside" /\ Ganged[p] /\ Move(p, "opening")

LetThrough(p) ==
    /\ where[p] = "held" /\ Peers(p, {"opening"}) # {}
    /\ Move(p, "through")

Opened(p) ==
    /\ where[p] = "opening" /\ Peers(p, {"held"}) = {}
    /\ Move(p, "through")

\* The gate does not exist for a pod that is no member of a gang.
Pass(p) == where[p] = "outside" /\ ~Ganged[p] /\ Move(p, "through")

\* A pod waits too long, is deleted, or is taken back with another.
TurnBack(p) == where[p] = "held" /\ Move(p, "back")

\* Binding succeeds, or it fails.
Leave(p) == where[p] = "through" /\ Move(p, "outside")
Fail(p) == where[p] = "through" /\ Move(p, "back")

Collapse(p) == where[p] = "back" /\ Gang[p] # NoGang /\ Move(p, "collapsing")

Collapsed(p) ==
    /\ where[p] = "collapsing" /\ Peers(p, {"held"}) = {}
    /\ Move(p, "outside")

\* A pod without a gang goes back alone.
Return(p) == where[p] = "back" /\ Gang[p] = NoGang /\ Move(p, "outside")

Restart == where' = [p \in Pods |-> "outside"]

\* A step moves some pod; all else is stuttering.
Next == \/ \E p \in Pods :
             /\ where'[p] # where[p]
             /\ \/ Hold(p) \/ Open(p) \/ LetThrough(p) \/ Opened(p)
                \/ Pass(p) \/ TurnBack(p) \/ Leave(p) \/ Fail(p)
                \/ Collapse(p) \/ Collapsed(p) \/ Return(p)
        \/ Restart

Spec == Init /\ [][Next]_where
=============================================================================
