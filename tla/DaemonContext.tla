---------------------------- MODULE DaemonContext -----------------------------
(***************************************************************************)
(* The execution context of a collector that runs its commands in the      *)
(* linuxptp daemon's pod (ContainerExecContext in                          *)
(* pkg/clients/exec_command.go, FindPodNameFromPrefix in                   *)
(* pkg/clients/clientset.go).  Up to three polls of the collector share    *)
(* the context.  A restart of the daemon gives its pod another name; a     *)
(* command sent to the old name is answered "not found", and execCommand   *)
(* then looks the name up again, without a lock.                           *)
(* Pods are numbered in the order in which they are created; the daemon    *)
(* set that replaces them is the environment.                              *)
(***************************************************************************)
EXTENDS Integers, FiniteSets

CONSTANTS
    Polls,         \* the polls that run at once
    MaxRestarts    \* bound on the restarts of the daemon

ASSUME DaemonBounds == IsFiniteSet(Polls) /\ MaxRestarts \in Nat

VARIABLES
    podName,   \* podName of the context
    listed,    \* the pods of the namespace with the daemon's prefix
    newest,    \* the last pod created
    polls      \* the polls: where each is, and the name it works with

vars == <<podName, listed, newest, polls>>

Pods == 1..(MaxRestarts + 1)
Unknown == 0   \* the error of FindPodNameFromPrefix

Idle == [at |-> "idle", name |-> Unknown]

Init ==
    /\ podName = 1 /\ listed = {1} /\ newest = 1   \* NewContainerContext
    /\ polls = [p \in Polls |-> Idle]

Moves(p, from, to, name) ==
    /\ polls[p].at = from
    /\ polls' = [polls EXCEPT ![p] = [at |-> to, name |-> name]]

(* execCommand builds the request's URL from the name it finds.            *)
BuildRequest(p) ==
    /\ Moves(p, "idle", "request", podName)
    /\ UNCHANGED <<podName, listed, newest>>

(* The command runs, or fails for a reason of its own: nothing changes.    *)
CommandRuns(p) ==
    /\ polls[p].name \in listed
    /\ Moves(p, "request", "idle", Unknown)
    /\ UNCHANGED <<podName, listed, newest>>

(* Broken: the name is not looked up again.                                *)
NotFoundIgnored(p) ==
    /\ polls[p].name \notin listed
    /\ Moves(p, "request", "idle", Unknown)
    /\ UNCHANGED <<podName, listed, newest>>

(* The request's pod is not there; the poll returns an error all the same. *)
NotFound(p) ==
    /\ polls[p].name \notin listed
    /\ Moves(p, "request", "refresh", Unknown)
    /\ UNCHANGED <<podName, listed, newest>>

(* Broken: the newest of several pods is taken.                            *)
FindPodNameNewest ==
    IF listed = {} THEN Unknown
    ELSE CHOOSE n \in listed : \A m \in listed : m <= n

(* One pod must have the prefix: with none, or with the old and the new    *)
(* one both listed, there is no name.                                      *)
FindPodNameFromPrefix ==
    IF Cardinality(listed) = 1 THEN CHOOSE n \in listed : TRUE ELSE Unknown

ListPods(p) ==
    /\ Moves(p, "refresh", "found", FindPodNameFromPrefix)
    /\ UNCHANGED <<podName, listed, newest>>

ListFails(p) ==
    /\ Moves(p, "refresh", "found", Unknown)
    /\ UNCHANGED <<podName, listed, newest>>

(* The end of refresh: an error leaves the name as it was.                 *)
Refresh(p) ==
    /\ podName' = IF polls[p].name = Unknown THEN podName ELSE polls[p].name
    /\ Moves(p, "found", "idle", Unknown)
    /\ UNCHANGED <<listed, newest>>

(* The daemon set: a pod goes, another one comes, in either order.  The    *)
(* last pod stays.                                                         *)
PodGone(n) ==
    /\ n \in listed /\ (n = newest => newest + 1 \in Pods)
    /\ listed' = listed \ {n}
    /\ UNCHANGED <<podName, newest, polls>>

OldPodGone == \E n \in listed \ {newest} : PodGone(n)

PodComes ==
    /\ newest + 1 \in Pods
    /\ newest' = newest + 1
    /\ listed' = listed \cup {newest + 1}
    /\ UNCHANGED <<podName, polls>>

Replacement == newest \notin listed /\ PodComes

PollStep(p) ==
    BuildRequest(p) \/ CommandRuns(p) \/ NotFound(p) \/ ListPods(p) \/ Refresh(p)

Next ==
    \/ \E p \in Polls : PollStep(p) \/ ListFails(p)
    \/ \E n \in listed : PodGone(n)
    \/ PodComes

Spec == Init /\ [][Next]_vars

(* Polling goes on, a lookup asked for again and again is answered at some *)
(* time, an old pod goes in the end and a missing one is replaced.         *)
FairSpec ==
    /\ Spec
    /\ \A p \in Polls : WF_vars(PollStep(p)) /\ SF_vars(ListPods(p))
    /\ WF_vars(OldPodGone) /\ WF_vars(Replacement)

-----------------------------------------------------------------------------
TypeOK ==
    /\ podName \in Pods /\ newest \in Pods /\ listed \subseteq Pods
    /\ polls \in [Polls -> [at : {"idle", "request", "refresh", "found"},
                            name : Pods \cup {Unknown}]]

(* Lookups of polls that run at once are applied in any order, so the      *)
(* context can fall back to an older pod.  It then never rests on a pod    *)
(* that still answers: the next command is told "not found" and looks the  *)
(* name up again.  (FindPodNameFromPrefix refuses to choose among several  *)
(* pods, or this would fail.)                                              *)
FallsBackOnlyToAGonePod ==
    [][podName' < podName => podName' \notin listed']_vars

(* The reason: no pod that is still listed is older than the name in use,  *)
(* nor than one a poll has just found and not stored yet.  Pods never come *)
(* back, so whatever a slow poll stores later is not stale and alive.      *)
NotNewerThanListed(name) == \A n \in listed : name <= n
NoOlderPodListed ==
    /\ NotNewerThanListed(podName)
    /\ \A p \in Polls : polls[p].at = "found" => NotNewerThanListed(polls[p].name)
NamesWereCreated ==
    /\ podName <= newest /\ \A n \in listed : n <= newest
    /\ \A p \in Polls : polls[p].name <= newest
IInv == TypeOK /\ NamesWereCreated /\ NoOlderPodListed

(* When the daemon has settled, the context ends up with the name of its   *)
(* pod, however many restarts and lookups overlapped before: no collector  *)
(* is left with a dead name for the rest of the run.                       *)
FollowsTheDaemon == <>[](podName = newest)
=============================================================================
