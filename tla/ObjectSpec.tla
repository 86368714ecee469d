----------------------------- MODULE ObjectSpec ------------------------------
(***************************************************************************)
(* What the storage interface (include/zlog/backend.h) promises of one log *)
(* object, whatever stores it: every call takes effect at one moment, is   *)
(* refused when its epoch is stale, and sees positions that are empty,     *)
(* written once, or invalid for good.                                      *)
(*                                                                         *)
(* A position at or below a trim limit behaves in every call like one that *)
(* was invalidated by itself, so there is no limit here: setting one       *)
(* invalidates a prefix.  `top' is what MaxPos reports, plus one.          *)
(***************************************************************************)
EXTENDS Integers

CONSTANTS
    Positions,   \* the positions that map to the object
    Data         \* positive numbers

VARIABLES
    epoch,   \* of the last seal; 0: the object does not exist
    cells,   \* cells[p]: empty, invalid or the data at position p
    top,     \* one past the last position used
    call,    \* the last call: [op, epoch, pos, data, limit, full]
    ans      \* its answer, [ret, val]

obj == <<epoch, cells, top>>
vars == <<epoch, cells, top, call, ans>>

Empty == 0
Invalid == -1

\* The client has called op, and is told ret and val.
Called(op) == call'.op = op
Answer(ret, val) == ans'.ret = ret /\ ans'.val = val

\* Whether r is a reason to refuse a call with epoch e; the interface does not
\* say which one a caller is told when there are two.
Refuses(e, r) ==
    \/ r = "EINVAL" /\ e = 0
    \/ r = "ENOENT" /\ epoch = 0
    \/ r = "ESPIPE" /\ e < epoch

Refusals == {"EINVAL", "ENOENT", "ESPIPE"}

Refuse(e) ==
    /\ \E r \in Refusals : Answer(r, 0) /\ Refuses(e, r)
    /\ UNCHANGED obj

Accepted(e) == \A r \in Refusals : ~Refuses(e, r)

Raise(p) == top' = IF top <= p THEN p + 1 ELSE top

Put(p, x) ==
    /\ cells' = [cells EXCEPT ![p] = x]
    /\ Raise(p)
    /\ UNCHANGED epoch

Read(e, p) ==
    /\ Accepted(e)
    /\ CASE cells[p] = Empty   -> Answer("ERANGE", 0)
         [] cells[p] = Invalid -> Answer("ENODATA", 0)
         [] OTHER                  -> Answer("OK", cells[p])
    /\ UNCHANGED obj

Write(e, p, d) ==
    /\ Accepted(e)
    /\ \/ cells[p] = Empty /\ Put(p, d) /\ Answer("OK", 0)
       \/ cells[p] # Empty /\ UNCHANGED obj /\ Answer("EROFS", 0)

Fill(e, p) ==
    /\ Accepted(e)
    /\ \/ cells[p] = Empty /\ Put(p, Invalid) /\ Answer("OK", 0)
       \/ cells[p] = Invalid /\ UNCHANGED obj /\ Answer("OK", 0)
       \/ cells[p] \in Data /\ UNCHANGED obj /\ Answer("EROFS", 0)

Trim(e, p) ==
    /\ Answer("OK", 0)
    /\ Accepted(e)
    /\ Put(p, Invalid)

TrimLimit(e, p) ==
    /\ Answer("OK", 0)
    /\ Accepted(e)
    /\ cells' = [q \in Positions |-> IF q <= p THEN Invalid ELSE cells[q]]
    /\ Raise(p)
    /\ UNCHANGED epoch

\* trim_full without trim_limit
BadTrim ==
    /\ Answer("EINVAL", 0)
    /\ UNCHANGED obj

Seal(e) ==
    /\ UNCHANGED <<cells, top>>
    /\ IF e = 0 THEN Answer("EINVAL", 0) /\ UNCHANGED epoch
       ELSE IF e <= epoch THEN Answer("ESPIPE", 0) /\ UNCHANGED epoch
       ELSE Answer("OK", 0) /\ epoch' = e

MaxPos ==
    /\ IF epoch = 0 THEN Answer("ENOENT", 0) ELSE Answer("OK", top)
    /\ UNCHANGED obj

Init ==
    /\ epoch = 0
    /\ cells = [p \in Positions |-> Empty]
    /\ top = 0
    /\ call = [op |-> "none", epoch |-> 0, pos |-> 0, data |-> 0, limit |-> FALSE, full |-> FALSE]
    /\ ans = [ret |-> "OK", val |-> 0]

\* A call does what was asked: the arguments are those of the call.
Next ==
    LET e == call'.epoch
        p == call'.pos
    IN  \/ Called("maxpos") /\ MaxPos
        \/ Called("seal") /\ Seal(e)
        \/ Called("read") /\ (Refuse(e) \/ Read(e, p))
        \/ Called("write") /\ (Refuse(e) \/ Write(e, p, call'.data))
        \/ Called("fill") /\ (Refuse(e) \/ Fill(e, p))
        \/ /\ Called("trim")
           /\ IF call'.full /\ ~call'.limit THEN BadTrim
              ELSE Refuse(e) \/ IF call'.limit THEN TrimLimit(e, p) ELSE Trim(e, p)

Spec == Init /\ [][Next]_vars
==============================================================================
