------------------------ MODULE CollectionLifecycle ------------------------
(***************************************************************************)
(* What CollectorRunner.Run (pkg/runner/runner.go) promises, without its   *)
(* goroutines and channels: collectors are started, polled with a bound on *)
(* the polls in flight, and cleaned up once each, when no poll of any      *)
(* collector is in flight any more.  A collector whose Start or CleanUp    *)
(* fails aborts the process.                                               *)
(***************************************************************************)
EXTENDS Naturals

CONSTANTS
    Collectors,   \* the instances the runner polls
    MaxInFlight   \* the most polls of one collector that may be in flight

VARIABLES
    phase,      \* "collecting", "closing", "closed" or "aborted"
    acquired,   \* the collectors whose Start has returned
    inFlight,   \* the polls of each collector in flight
    released    \* the collectors whose CleanUp has returned

lifecycleVars == <<phase, acquired, inFlight, released>>

LifecycleInit ==
    /\ phase = "collecting"
    /\ acquired = {}
    /\ inFlight = [c \in Collectors |-> 0]
    /\ released = {}

Acquire(c) ==
    /\ phase = "collecting"
    /\ acquired' = acquired \cup {c}
    /\ UNCHANGED <<phase, inFlight, released>>

\* A poll begins only for a collector that was started, and only while
\* collection goes on.
BeginPoll(c) ==
    /\ phase = "collecting"
    /\ c \in acquired
    /\ inFlight[c] < MaxInFlight
    /\ inFlight' = [inFlight EXCEPT ![c] = @ + 1]
    /\ UNCHANGED <<phase, acquired, released>>

EndPoll(c) ==
    /\ inFlight[c] > 0
    /\ inFlight' = [inFlight EXCEPT ![c] = @ - 1]
    /\ UNCHANGED <<phase, acquired, released>>

\* Clean-up may only begin when every collector was started and none has a
\* poll in flight.
StartClosing ==
    /\ phase = "collecting"
    /\ acquired = Collectors
    /\ \A c \in Collectors : inFlight[c] = 0
    /\ phase' = "closing"
    /\ UNCHANGED <<acquired, inFlight, released>>

Release(c) ==
    /\ phase = "closing"
    /\ c \notin released
    /\ released' = released \cup {c}
    /\ UNCHANGED <<phase, acquired, inFlight>>

Close ==
    /\ phase = "closing"
    /\ released = Collectors
    /\ phase' = "closed"
    /\ UNCHANGED <<acquired, inFlight, released>>

Abort ==
    /\ phase \in {"collecting", "closing"}
    /\ phase' = "aborted"
    /\ UNCHANGED <<acquired, inFlight, released>>

LifecycleNext ==
    \/ \E c \in Collectors :
          Acquire(c) \/ BeginPoll(c) \/ EndPoll(c) \/ Release(c)
    \/ StartClosing
    \/ Close
    \/ Abort

LifecycleSpec == LifecycleInit /\ [][LifecycleNext]_lifecycleVars
============================================================================
