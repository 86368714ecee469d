----------------------------- MODULE ViewReader -----------------------------
(***************************************************************************)
(* The view reader of one client (view_reader.{h,cc}): a thread that reads *)
(* the newest view from the backend, on request or after a timeout, and    *)
(* the threads that wait for a view newer than the one they hold.          *)
(*                                                                         *)
(* ViewReader::lock_ guards the reader's state, so the code from locking   *)
(* it to unlocking it, or to waiting on a condition, is one step; reading  *)
(* the backend is a step of its own and happens without the lock.          *)
(*                                                                         *)
(* Timeouts are compared and doubled as in the code, but they measure      *)
(* nothing: a wait may end at any time, by the timeout or spuriously.  The *)
(* sequencer a new view carries is the business of module ZLog.            *)
(***************************************************************************)
EXTENDS Integers

CONSTANTS
    Callers,      \* threads that call wait_for_newer_view
    MinTimeout,   \* Options::min_refresh_timeout_ms
    MaxTimeout,   \* Options::max_refresh_timeout_ms
    MayFail,      \* may reading the views fail?
    MaxEpoch      \* bound: views in the backend

ASSUME ViewReaderAssumption ==
    /\ MinTimeout \in Nat \ {0}
    /\ MaxTimeout \in Nat /\ MaxTimeout >= MinTimeout
    /\ MayFail \in BOOLEAN
    /\ MaxEpoch \in Nat \ {0}

VARIABLES
    latest,           \* epoch of the newest view in the backend
    view,             \* epoch of ViewReader::view_, 0 for nullptr
    shutdown,         \* ViewReader::shutdown_
    refresh_timeout,  \* ViewReader::refresh_timeout_
    refresh_waiters,  \* the callers in ViewReader::refresh_waiters_
    refresher,        \* the refresh thread
    opener,           \* the thread that builds the log, until it has a view
    caller,           \* the callers, each with its RefreshWaiter
    closer,           \* the thread in shutdown()
    aborted,          \* the assertion of refresh_view failed
    unread            \* history: callers that asked to be woken since the
                      \* refresh thread last read the views

vars == <<latest, view, shutdown, refresh_timeout, refresh_waiters, refresher,
          opener, caller, closer, aborted, unread>>

Epochs == 0 .. MaxEpoch

\* refresh_timeout_ is at most twice a timeout used, and those are capped.
Timeouts == 0 .. 2 * MaxTimeout

RefresherState ==
    [pc : {"loop", "sleep", "woken", "read", "install", "view", "scan", "exit"},
     timeout : Timeouts,   \* timeout of the current wait
     snap : Epochs]        \* latest_view, then current_view

OpenerState == [pc : {"read", "install", "check", "opened", "failed"},
                snap : Epochs]

\* "released" is RefreshWaiter::done.
CallerState == [pc : {"idle", "waiting", "released"}, epoch : Epochs]

NotWaiting == [pc |-> "idle", epoch |-> 0]

Init ==
    /\ latest = 1
    /\ view = 0
    /\ shutdown = FALSE
    /\ refresh_timeout = MaxTimeout
    /\ refresh_waiters = {}
    /\ refresher = [pc |-> "loop", timeout |-> 0, snap |-> 0]
    /\ opener = [pc |-> "read", snap |-> 0]
    /\ caller = [c \in Callers |-> NotWaiting]
    /\ closer = "up"
    /\ aborted = FALSE
    /\ unread = {}

\* A client of this or of another process proposes the next view.
ProposeView ==
    /\ latest < MaxEpoch
    /\ latest' = latest + 1
    /\ UNCHANGED <<view, shutdown, refresh_timeout, refresh_waiters, refresher,
                   opener, caller, closer, aborted, unread>>

-----------------------------------------------------------------------------
(* refresh_view, called by the refresh thread and by the opener             *)

\* The locked part: `snap' was read before the lock was taken.
InstallView(snap) ==
    IF snap < view
    THEN aborted' = TRUE /\ UNCHANGED view
    ELSE view' = snap /\ UNCHANGED aborted

-----------------------------------------------------------------------------
(* refresh_entry_                                                           *)

RefresherSleep ==
    /\ refresher.pc = "loop"
    /\ refresher' = [refresher EXCEPT
         !.pc = "sleep",
         !.timeout = IF refresh_waiters = {} \/ refresh_timeout > MaxTimeout
                     THEN MaxTimeout ELSE refresh_timeout]
    /\ UNCHANGED <<latest, view, shutdown, refresh_timeout, refresh_waiters,
                   opener, caller, closer, aborted, unread>>

\* Mutant: the thread counts on being notified while callers wait.
FaultyRefresherTimeout ==
    /\ refresher.pc = "sleep" /\ refresh_waiters = {}
    /\ refresher' = [refresher EXCEPT !.pc = "woken"]
    /\ UNCHANGED <<latest, view, shutdown, refresh_timeout, refresh_waiters,
                   opener, caller, closer, aborted, unread>>

\* The wait ends without a notification.
RefresherTimeout ==
    /\ refresher.pc = "sleep"
    /\ refresher' = [refresher EXCEPT !.pc = "woken"]
    /\ UNCHANGED <<latest, view, shutdown, refresh_timeout, refresh_waiters,
                   opener, caller, closer, aborted, unread>>

\* refresh_cond_.notify_one reaches the thread only while it waits.
NotifyRefresher(r) == IF r.pc = "sleep" THEN [r EXCEPT !.pc = "woken"] ELSE r

\* The thread holds the lock again.  wait_for reports a timeout if the time has
\* passed, also if a notification came first.
BackOff ==
    refresh_timeout' \in {refresh_timeout, 2 * refresher.timeout}

\* Mutant: the thread goes on reading after a shutdown.
FaultyRefresherAwake ==
    /\ refresher.pc = "woken"
    /\ BackOff
    /\ refresher' = [refresher EXCEPT !.pc = "read"]
    /\ UNCHANGED <<latest, view, shutdown, refresh_waiters, opener, caller,
                   closer, aborted, unread>>

RefresherAwake ==
    /\ refresher.pc = "woken" /\ ~shutdown
    /\ BackOff
    /\ refresher' = [refresher EXCEPT !.pc = "read"]
    /\ UNCHANGED <<latest, view, shutdown, refresh_waiters, opener, caller,
                   closer, aborted, unread>>

ReleaseAll(cs) == [c \in Callers |->
    IF c \in cs THEN [caller[c] EXCEPT !.pc = "released"] ELSE caller[c]]

RefresherExit ==
    /\ refresher.pc = "woken" /\ shutdown
    /\ BackOff
    /\ caller' = ReleaseAll(refresh_waiters)
    /\ refresh_waiters' = {}
    /\ refresher' = [refresher EXCEPT !.pc = "exit"]
    /\ UNCHANGED <<latest, view, shutdown, opener, closer, aborted, unread>>

RefresherRead ==
    /\ refresher.pc = "read"
    /\ refresher' = [refresher EXCEPT !.pc = "install", !.snap = latest]
    /\ unread' = {}
    /\ UNCHANGED <<latest, view, shutdown, refresh_timeout, refresh_waiters,
                   opener, caller, closer, aborted>>

RefresherReadFails ==
    /\ refresher.pc = "read" /\ MayFail
    /\ refresher' = [refresher EXCEPT !.pc = "view"]
    /\ unread' = {}
    /\ UNCHANGED <<latest, view, shutdown, refresh_timeout, refresh_waiters,
                   opener, caller, closer, aborted>>

RefresherInstall ==
    /\ refresher.pc = "install"
    /\ InstallView(refresher.snap)
    /\ refresher' = [refresher EXCEPT !.pc = "view"]
    /\ UNCHANGED <<latest, shutdown, refresh_timeout, refresh_waiters, opener,
                   caller, closer, unread>>

\* current_view = view()
RefresherView ==
    /\ refresher.pc = "view"
    /\ refresher' = [refresher EXCEPT
         !.pc = IF view = 0 THEN "loop" ELSE "scan", !.snap = view]
    /\ UNCHANGED <<latest, view, shutdown, refresh_timeout, refresh_waiters,
                   opener, caller, closer, aborted, unread>>

\* Mutant: a waiter is also served by the view it already has.
FaultyServed == {c \in refresh_waiters : refresher.snap >= caller[c].epoch}

Served == {c \in refresh_waiters : refresher.snap > caller[c].epoch}

RefresherScan ==
    /\ refresher.pc = "scan"
    /\ caller' = ReleaseAll(Served)
    /\ refresh_waiters' = refresh_waiters \ Served
    /\ refresher' = [refresher EXCEPT !.pc = "loop"]
    /\ UNCHANGED <<latest, view, shutdown, refresh_timeout, opener, closer,
                   aborted, unread>>

-----------------------------------------------------------------------------
(* wait_for_newer_view.  A caller passes the epoch of a view it got from    *)
(* view() some time ago.  After shutdown() the call returns at once.        *)

\* Mutant: the call notifies the thread but leaves its backoff as it is.
FaultyWaitForNewerView(c, wakeup) ==
    /\ caller[c].pc = "idle" /\ opener.pc = "opened"
    /\ ~shutdown
    /\ \E e \in 1 .. view :
         caller' = [caller EXCEPT ![c] = [pc |-> "waiting", epoch |-> e]]
    /\ refresh_waiters' = refresh_waiters \cup {c}
    /\ IF wakeup \/ refresh_waiters = {}
       THEN /\ refresher' = NotifyRefresher(refresher)
            /\ unread' = unread \cup {c}
       ELSE UNCHANGED <<refresher, unread>>
    /\ UNCHANGED <<latest, view, shutdown, refresh_timeout, opener, closer,
                   aborted>>

\* Mutant: the call does not look at shutdown_.
LateWaitForNewerView(c, wakeup) ==
    /\ caller[c].pc = "idle" /\ opener.pc = "opened"
    /\ \E e \in 1 .. view :
         caller' = [caller EXCEPT ![c] = [pc |-> "waiting", epoch |-> e]]
    /\ refresh_waiters' = refresh_waiters \cup {c}
    /\ refresh_timeout' = MinTimeout
    /\ refresher' = NotifyRefresher(refresher)
    /\ unread' = unread \cup {c}
    /\ UNCHANGED <<latest, view, shutdown, opener, closer, aborted>>

WaitForNewerView(c, wakeup) ==
    /\ caller[c].pc = "idle" /\ opener.pc = "opened"
    /\ ~shutdown
    /\ \E e \in 1 .. view :
         caller' = [caller EXCEPT ![c] = [pc |-> "waiting", epoch |-> e]]
    /\ refresh_waiters' = refresh_waiters \cup {c}
    /\ IF wakeup \/ refresh_waiters = {}
       THEN /\ refresh_timeout' = MinTimeout
            /\ refresher' = NotifyRefresher(refresher)
            /\ unread' = unread \cup {c}
       ELSE UNCHANGED <<refresh_timeout, refresher, unread>>
    /\ UNCHANGED <<latest, view, shutdown, opener, closer, aborted>>

WaitDone(c) ==
    /\ caller[c].pc = "released"
    /\ caller' = [caller EXCEPT ![c] = NotWaiting]
    /\ UNCHANGED <<latest, view, shutdown, refresh_timeout, refresh_waiters,
                   refresher, opener, closer, aborted, unread>>

-----------------------------------------------------------------------------
(* build_log_impl: the first view                                           *)

OpenerRead ==
    /\ opener.pc = "read"
    /\ opener' = [pc |-> "install", snap |-> latest]
    /\ UNCHANGED <<latest, view, shutdown, refresh_timeout, refresh_waiters,
                   refresher, caller, closer, aborted, unread>>

OpenerReadFails ==
    /\ opener.pc = "read" /\ MayFail
    /\ opener' = [opener EXCEPT !.pc = "check"]
    /\ UNCHANGED <<latest, view, shutdown, refresh_timeout, refresh_waiters,
                   refresher, caller, closer, aborted, unread>>

OpenerInstall ==
    /\ opener.pc = "install"
    /\ InstallView(opener.snap)
    /\ opener' = [opener EXCEPT !.pc = "check"]
    /\ UNCHANGED <<latest, shutdown, refresh_timeout, refresh_waiters,
                   refresher, caller, closer, unread>>

\* Without a view the log is not built and the reader is destroyed.
OpenerCheck ==
    /\ opener.pc = "check"
    /\ opener' = [opener EXCEPT !.pc = IF view = 0 THEN "failed" ELSE "opened"]
    /\ UNCHANGED <<latest, view, shutdown, refresh_timeout, refresh_waiters,
                   refresher, caller, closer, aborted, unread>>

-----------------------------------------------------------------------------
(* shutdown(), called by ViewManager::shutdown or by the destructor         *)

ShutdownSet ==
    /\ closer = "up" /\ opener.pc \in {"opened", "failed"}
    /\ shutdown' = TRUE
    /\ closer' = "notify"
    /\ UNCHANGED <<latest, view, refresh_timeout, refresh_waiters, refresher,
                   opener, caller, aborted, unread>>

ShutdownNotify ==
    /\ closer = "notify"
    /\ closer' = "join"
    /\ refresher' = NotifyRefresher(refresher)
    /\ UNCHANGED <<latest, view, shutdown, refresh_timeout, refresh_waiters,
                   opener, caller, aborted, unread>>

ShutdownJoin ==
    /\ closer = "join" /\ refresher.pc = "exit"
    /\ closer' = "closed"
    /\ UNCHANGED <<latest, view, shutdown, refresh_timeout, refresh_waiters,
                   refresher, opener, caller, aborted, unread>>

-----------------------------------------------------------------------------
RefresherStep ==
    \/ RefresherSleep \/ RefresherTimeout \/ RefresherAwake \/ RefresherExit
    \/ RefresherRead \/ RefresherReadFails \/ RefresherInstall
    \/ RefresherView \/ RefresherScan

OpenerStep ==
    OpenerRead \/ OpenerReadFails \/ OpenerInstall \/ OpenerCheck

CloserStep == ShutdownNotify \/ ShutdownJoin

CallerStep(c) ==
    \/ \E wakeup \in BOOLEAN : WaitForNewerView(c, wakeup)
    \/ WaitDone(c)

Step ==
    \/ ProposeView \/ RefresherStep \/ OpenerStep
    \/ ShutdownSet \/ CloserStep
    \/ \E c \in Callers : CallerStep(c)

\* The process has ended, by a failed assertion or because the log was closed.
Ended == aborted \/ closer = "closed"

Next ==
    \/ ~aborted /\ Step
    \/ Ended /\ UNCHANGED vars

Spec == Init /\ [][Next]_vars

\* The threads are scheduled, so a wait with a timeout ends; the backend does
\* not fail every read; a shutdown that began goes on.  Nobody has to propose
\* views, wait for them or close the log.
Fairness ==
    /\ WF_vars(~aborted /\ RefresherStep)
    /\ SF_vars(~aborted /\ RefresherRead)
    /\ WF_vars(~aborted /\ OpenerStep)
    /\ WF_vars(~aborted /\ CloserStep)
    /\ \A c \in Callers : WF_vars(~aborted /\ WaitDone(c))

FairSpec == Spec /\ Fairness

-----------------------------------------------------------------------------
(* Properties *)

TypeOK ==
    /\ latest \in 1 .. MaxEpoch
    /\ view \in Epochs
    /\ shutdown \in BOOLEAN
    /\ refresh_timeout \in Timeouts
    /\ refresh_waiters \subseteq Callers
    /\ refresher \in RefresherState
    /\ opener \in OpenerState
    /\ caller \in [Callers -> CallerState]
    /\ closer \in {"up", "notify", "join", "closed"}
    /\ aborted \in BOOLEAN
    /\ unread \subseteq Callers

Abstract == INSTANCE NewerView WITH
    waiting <- [c \in Callers |-> caller[c].epoch], closing <- shutdown

\* However reads of the backend, scans of the waiters, timeouts and calls
\* interleave, the client's view only moves forward and wait_for_newer_view
\* returns only when a newer view is active, or on shutdown.
ImplementsNewerView == Abstract!Spec

\* A caller that asks the refresh thread to wake up does not sit through a long
\* backoff: before the thread starts another wait longer than the minimum
\* without being notified, it has read the views after the call, also if the
\* notification came while the thread was not waiting and is lost
\* (wait_for_newer_view, refresh_entry_).
PromptRead ==
    refresher.pc = "sleep" /\ refresher.timeout > MinTimeout =>
        unread \cap refresh_waiters = {}

\* No caller waits for a thread that is gone: once the refresh thread has left
\* its loop the list of waiters is empty, as ~ViewReader asserts, and everyone
\* who was in it has been told.
NobodyLeftBehind ==
    refresher.pc = "exit" =>
        /\ refresh_waiters = {}
        /\ \A c \in Callers : caller[c].pc # "waiting"

\* A caller whose view has been replaced in the backend is told, although
\* notifications are lost while the refresh thread is reading.
WaitersServed ==
    \A c \in Callers :
        caller[c].pc = "waiting" /\ latest > caller[c].epoch
          ~> caller[c].pc = "idle" \/ aborted

\* shutdown() returns, although its notification may be lost too.
ShutdownEnds == shutdown ~> closer = "closed" \/ aborted
==============================================================================
