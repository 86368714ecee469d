------------------------------ MODULE SharedLog ------------------------------
(***************************************************************************)
(* What the log promises its users, whatever views, sequencers, stripes    *)
(* and objects stand behind it: positions are written at most once, an     *)
(* entry stays as it was appended until a user asks to trim it             *)
(* (doc/api/index.rst: "Once an append occurs it is immutable and cannot   *)
(* be changed"), a filled position never takes data, a trimmed one never   *)
(* comes back, and one append occupies one position.                       *)
(***************************************************************************)
EXTENDS Integers

CONSTANTS Positions, MaxOps

VARIABLES
    log,     \* log[p]: 0 not written, -1 invalid, else the append's number
    asked    \* positions users have asked to trim

NotWritten == 0
Invalid == -1

Init ==
    /\ log = [p \in Positions |-> NotWritten]
    /\ asked = {}

Append(p, d) ==
    /\ log[p] = NotWritten
    /\ \A q \in Positions : log[q] # d
    /\ log' = [log EXCEPT ![p] = d]
    /\ UNCHANGED asked

Fill(p) ==
    /\ log[p] = NotWritten
    /\ log' = [log EXCEPT ![p] = Invalid]
    /\ UNCHANGED asked

AskTrim ==
    /\ asked \subseteq asked'
    /\ asked' \in SUBSET Positions
    /\ UNCHANGED log

\* Trimming invalidates some of the positions asked for, written or not.
Trim ==
    /\ log' \in [Positions -> Invalid .. MaxOps]
    /\ \A p \in Positions :
         log'[p] = log[p] \/ (p \in asked /\ log'[p] = Invalid)
    /\ UNCHANGED asked

Next ==
    \/ AskTrim
    \/ Trim
    \/ \E p \in Positions : Fill(p)
    \/ \E p \in Positions, d \in 1 .. MaxOps : Append(p, d)

Spec == Init /\ [][Next]_<<log, asked>>
==============================================================================
