------------------------------ MODULE NewerView ------------------------------
(***************************************************************************)
(* What the rest of a client may assume of its view reader: the view it    *)
(* holds only moves forward, to views that exist, and a caller that waits  *)
(* for a view newer than the one it has goes on when there is one, or when *)
(* the reader is being shut down.  Module ZLog uses the reader through     *)
(* exactly these steps (RefreshView, WaitDone).                            *)
(***************************************************************************)
EXTENDS Integers

CONSTANT Callers

VARIABLES
    latest,    \* epoch of the newest view in the backend
    view,      \* epoch of the view the client uses, 0 before the first
    waiting,   \* the epoch each caller waits to see replaced, 0 if none
    closing    \* the reader is being shut down

vars == <<latest, view, waiting, closing>>

Init ==
    /\ latest = 1 /\ view = 0
    /\ waiting = [c \in Callers |-> 0]
    /\ closing = FALSE

Publish == latest' = latest + 1 /\ UNCHANGED <<view, waiting, closing>>

Install ==
    /\ view' \in view + 1 .. latest
    /\ UNCHANGED <<latest, waiting, closing>>

Wait(c) ==
    /\ waiting[c] = 0 /\ ~closing
    /\ \E e \in 1 .. view : waiting' = [waiting EXCEPT ![c] = e]
    /\ UNCHANGED <<latest, view, closing>>

Return(c) ==
    /\ waiting[c] # 0
    /\ view > waiting[c] \/ closing
    /\ waiting' = [waiting EXCEPT ![c] = 0]
    /\ UNCHANGED <<latest, view, closing>>

Close == closing' = TRUE /\ UNCHANGED <<latest, view, waiting>>

Next ==
    \/ Publish \/ Install \/ Close
    \/ \E c \in Callers : Wait(c) \/ Return(c)

Spec == Init /\ [][Next]_vars
==============================================================================
