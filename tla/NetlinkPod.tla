------------------------------ MODULE NetlinkPod ------------------------------
(***************************************************************************)
(* The debug pod of the netlink DPLL collector: Start creates it and waits *)
(* for it to run, CleanUp deletes it and waits for it to be gone           *)
(* (pkg/collectors/dpll_collector_netlink.go and the creation context of   *)
(* pkg/clients/exec_command.go).  The pod has a fixed name in a fixed      *)
(* namespace, so every invocation of the tool on the cluster, and every    *)
(* pod an earlier one left behind, competes for that one name.             *)
(* The API server and the kubelet are the environment: a call may fail, or *)
(* take effect and lose its answer, and somebody else may delete the pod.  *)
(***************************************************************************)
EXTENDS Naturals

CONSTANTS
    Tools,         \* invocations of the tool on one cluster
    NoPod,         \* no pod has the name
    MaxStarts,     \* bound on the Starts of one collector
    MaxFaults,     \* bound on the API calls that fail
    MaxEvictions   \* bound on the deletions by somebody else

ASSUME NetlinkBounds ==
    /\ {MaxStarts, MaxFaults, MaxEvictions} \subseteq Nat
    /\ NoPod \notin [owner : Tools, running : BOOLEAN, going : BOOLEAN]

VARIABLES
    pod,        \* the pod of that name, as the API server has it
    pc,         \* where each tool's collector is
    held,       \* whose c.pod is not nil
    starts,     \* how often each collector was started
    faults,     \* how many API calls have failed
    evictions,  \* how often somebody else deleted the pod
    evicted     \* whose pod that was

vars == <<pod, pc, held, starts, faults, evictions, evicted>>

InStart == {"check", "create", "wait", "clockID"}
InCleanUp == {"delete", "waitGone"}
Stopped == {"failed", "killed"}
States == {"idle", "started"} \cup InStart \cup InCleanUp \cup Stopped

NewPod(t) == [owner |-> t, running |-> FALSE, going |-> FALSE]

Init ==
    /\ pod = NoPod
    /\ pc = [t \in Tools |-> "idle"]
    /\ held = {} /\ evicted = {}
    /\ starts = [t \in Tools |-> 0]
    /\ faults = 0 /\ evictions = 0

Goto(t, from, to) ==
    /\ pc[t] = from
    /\ pc' = [pc EXCEPT ![t] = to]

Fault == faults < MaxFaults /\ faults' = faults + 1

(* The branch of CreatePodAndWait on c.pod.                                *)
AfterStart(t) == IF t \in held THEN "check" ELSE "create"

Start(t) ==
    /\ Goto(t, "idle", AfterStart(t))
    /\ starts[t] < MaxStarts
    /\ starts' = [starts EXCEPT ![t] = @ + 1]
    /\ UNCHANGED <<pod, held, faults, evictions, evicted>>

(* isPodRunning before a create: a pod that cannot be found is an error.   *)
CheckRunning(t) ==
    /\ Goto(t, "check", IF pod = NoPod THEN "failed"
                        ELSE IF pod.running THEN "wait" ELSE "create")
    /\ UNCHANGED <<pod, held, starts, faults, evictions, evicted>>

(* Broken: a pod of the name is taken for one's own.                       *)
CreatePodAdopting(t) ==
    /\ Goto(t, "create", "wait")
    /\ pod' = IF pod = NoPod THEN NewPod(t) ELSE pod
    /\ held' = held \cup {t}
    /\ UNCHANGED <<starts, faults, evictions, evicted>>

(* Broken: c.pod is not assigned.                                          *)
CreatePodUnheld(t) ==
    /\ Goto(t, "create", IF pod = NoPod THEN "wait" ELSE "failed")
    /\ pod' = IF pod = NoPod THEN NewPod(t) ELSE pod
    /\ UNCHANGED <<held, starts, faults, evictions, evicted>>

(* Broken: a pod of the name is replaced.                                  *)
CreatePodReplacing(t) ==
    /\ Goto(t, "create", "wait")
    /\ pod' = NewPod(t)
    /\ held' = held \cup {t}
    /\ UNCHANGED <<starts, faults, evictions, evicted>>

(* createPod: the API server refuses a second pod of the name.             *)
CreatePod(t) ==
    /\ Goto(t, "create", IF pod = NoPod THEN "wait" ELSE "failed")
    /\ pod' = IF pod = NoPod THEN NewPod(t) ELSE pod
    /\ held' = held \cup {t}
    /\ UNCHANGED <<starts, faults, evictions, evicted>>

CreatePodAnswerLost(t) ==
    /\ Goto(t, "create", "failed")
    /\ pod = NoPod /\ pod' = NewPod(t)
    /\ held' = held \cup {t}
    /\ Fault
    /\ UNCHANGED <<starts, evictions, evicted>>

(* waitForPodToStart returns when the pod runs, or cannot be found.  While *)
(* the pod is pending it lists again and nothing changes.                  *)
PodStarted(t) ==
    /\ Goto(t, "wait", IF pod = NoPod THEN "failed" ELSE "clockID")
    /\ pod # NoPod => pod.running
    /\ UNCHANGED <<pod, held, starts, faults, evictions, evicted>>

(* Broken: the timeout is only noticed when the pod is gone.               *)
StartTimeoutMissed(t) ==
    /\ Goto(t, "wait", "failed")
    /\ pod = NoPod
    /\ UNCHANGED <<pod, held, starts, faults, evictions, evicted>>

StartTimeout(t) ==
    /\ Goto(t, "wait", "failed")
    /\ UNCHANGED <<pod, held, starts, faults, evictions, evicted>>

(* Start asks the pod for the clock's id, by an exec that has no deadline. *)
GetClockID(t) ==
    /\ Goto(t, "clockID", IF pod = NoPod THEN "failed" ELSE "started")
    /\ UNCHANGED <<pod, held, starts, faults, evictions, evicted>>

CleanUp(t) ==
    /\ Goto(t, "started", "delete")
    /\ UNCHANGED <<pod, held, starts, faults, evictions, evicted>>

Going == [pod EXCEPT !.going = TRUE]

(* Broken: CleanUp does not wait for the pod to be gone.                   *)
DeletePodAtOnce(t) ==
    /\ Goto(t, "delete", IF pod = NoPod THEN "failed" ELSE "idle")
    /\ pod' = IF pod = NoPod THEN NoPod ELSE Going
    /\ UNCHANGED <<held, starts, faults, evictions, evicted>>

(* deletePod deletes by name, whosever pod that is.                        *)
DeletePod(t) ==
    /\ Goto(t, "delete", IF pod = NoPod THEN "failed" ELSE "waitGone")
    /\ pod' = IF pod = NoPod THEN NoPod ELSE Going
    /\ UNCHANGED <<held, starts, faults, evictions, evicted>>

DeletePodAnswerLost(t) ==
    /\ Goto(t, "delete", "failed")
    /\ pod # NoPod /\ pod' = Going
    /\ Fault
    /\ UNCHANGED <<held, starts, evictions, evicted>>

(* waitForPodToDelete returns when no pod has the name.                    *)
PodDeleted(t) ==
    /\ Goto(t, "waitGone", "idle")
    /\ pod = NoPod
    /\ UNCHANGED <<pod, held, starts, faults, evictions, evicted>>

DeletionTimeout(t) ==
    /\ Goto(t, "waitGone", "failed")
    /\ UNCHANGED <<pod, held, starts, faults, evictions, evicted>>

(* Any other call fails: its error is returned and the tool gives up.      *)
CallFails(t) ==
    /\ pc[t] \in InStart \cup InCleanUp
    /\ Goto(t, pc[t], "failed")
    /\ held' = IF pc[t] = "create" THEN held \cup {t} ELSE held
    /\ Fault
    /\ UNCHANGED <<pod, starts, evictions, evicted>>

(* The tool exits without a clean up, as another collector's error makes   *)
(* it (see CollectorRunner).                                               *)
Killed(t) ==
    /\ pc[t] \notin Stopped
    /\ Goto(t, pc[t], "killed")
    /\ UNCHANGED <<pod, held, starts, faults, evictions, evicted>>

(* The cluster. *)
KubeletStarts ==
    /\ pod # NoPod /\ ~pod.running /\ ~pod.going
    /\ pod' = [pod EXCEPT !.running = TRUE]
    /\ UNCHANGED <<pc, held, starts, faults, evictions, evicted>>

KubeletRemoves ==
    /\ pod # NoPod /\ pod.going
    /\ pod' = NoPod
    /\ UNCHANGED <<pc, held, starts, faults, evictions, evicted>>

Evicted ==
    /\ pod # NoPod /\ ~pod.going
    /\ evictions < MaxEvictions
    /\ evictions' = evictions + 1
    /\ evicted' = evicted \cup {pod.owner}
    /\ pod' = Going
    /\ UNCHANGED <<pc, held, starts, faults>>

(* CreatePodAndWait and DeletePodAndWait.                                  *)
TimedStep(t) ==
    \/ CheckRunning(t) \/ CreatePod(t) \/ PodStarted(t) \/ StartTimeout(t)
    \/ DeletePod(t) \/ PodDeleted(t) \/ DeletionTimeout(t)

ToolFails(t) ==
    CreatePodAnswerLost(t) \/ DeletePodAnswerLost(t) \/ CallFails(t)

Next ==
    \/ \E t \in Tools :
          \/ Start(t) \/ TimedStep(t) \/ GetClockID(t) \/ CleanUp(t)
          \/ ToolFails(t) \/ Killed(t)
    \/ KubeletStarts \/ KubeletRemoves \/ Evicted

Spec == Init /\ [][Next]_vars

(* What CreatePodAndWait and DeletePodAndWait do has a deadline: each of   *)
(* their loops (exec_command.go, lines 277 and 324), and each API call in  *)
(* them (clientset.go:75).  An exec has none, and the cluster is not fair. *)
FairSpec == Spec /\ \A t \in Tools : WF_vars(TimedStep(t))

-----------------------------------------------------------------------------
(* c.pod is there whenever listPods and deletePod look into it.            *)
TypeOK ==
    /\ \A t \in Tools : pc[t] \in {"check", "wait"} \cup InCleanUp => t \in held
    /\ pod \in [owner : Tools, running : BOOLEAN, going : BOOLEAN] \cup {NoPod}
    /\ pc \in [Tools -> States]
    /\ held \subseteq Tools /\ evicted \subseteq Tools
    /\ starts \in [Tools -> 0..MaxStarts]
    /\ faults \in 0..MaxFaults /\ evictions \in 0..MaxEvictions

(* A second Start that finds a pod of the name running takes it for its    *)
(* own, whosever it is (isPodRunning): what is said below of several       *)
(* invocations is said of their first Starts, all a run of the tool makes. *)
FirstStarts == \A t \in Tools : starts[t] <= 1

(* A collector that has started polls the pod it created, up and running,  *)
(* as long as nobody outside the tool deletes pods: the API server refuses *)
(* a second pod of the name, so neither another invocation nor a pod left  *)
(* behind is ever taken for one's own, and nobody else's CleanUp hits it.  *)
StartedOnOwnPod ==
    \A t \in Tools :
        pc[t] = "started" /\ evicted = {} /\ FirstStarts =>
            pod = [owner |-> t, running |-> TRUE, going |-> FALSE]

(* A CleanUp that returned without an error left no pod of its collector   *)
(* on the cluster, evictions and other invocations notwithstanding.        *)
CleanedUpLeavesNothing ==
    \A t \in Tools :
        pc[t] = "idle" => pod = NoPod \/ pod.owner # t

(* Whoever has a pod to ask or delete holds it.                            *)
Holding == {"check", "wait", "clockID", "started"} \cup InCleanUp
HoldersHold == \A t \in Tools : pc[t] \in Holding => t \in held

(* c.pod is nil before the first Start, and only a later one finds it set. *)
HeldSinceStart ==
    \A t \in Tools : /\ t \in held \/ pc[t] = "create" => starts[t] >= 1
                     /\ pc[t] = "check" => starts[t] >= 2

(* On the way from a first create to the delete the pod is one's own, and  *)
(* it runs from the moment it was seen to.                                 *)
OnOwnPod ==
    evicted = {} /\ FirstStarts =>
        \A t \in Tools :
            /\ pc[t] = "wait" =>
                   pod \in [owner : {t}, running : BOOLEAN, going : {FALSE}]
            /\ pc[t] \in {"clockID", "started", "delete"} =>
                   pod = [owner |-> t, running |-> TRUE, going |-> FALSE]

(* The inductive invariant behind the properties above and below.          *)
IInv == TypeOK /\ HoldersHold /\ HeldSinceStart /\ OnOwnPod
               /\ CleanedUpLeavesNothing

(* What a tool that gave up or was killed leaves behind.                   *)
Leftover == pod # NoPod /\ ~pod.going /\ pc[pod.owner] \in Stopped

(* No invocation ever removes such a pod or replaces it: until somebody    *)
(* outside the tool deletes it, it stays (and, by StartedOnOwnPod, no      *)
(* Start succeeds meanwhile).                                              *)
LeftoverStays == [][Leftover /\ evicted' = {} /\ FirstStarts => Leftover']_vars

(* CreatePodAndWait and DeletePodAndWait return, with or without an error, *)
(* even when the kubelet never starts or never removes the pod.  Start and *)
(* CleanUp as a whole need not: the exec that asks for the clock's id may  *)
(* wait for ever (exec_command.go:133).                                    *)
WaitsReturn ==
    \A t \in Tools :
        pc[t] \in {"check", "create", "wait"} \cup InCleanUp ~>
            pc[t] \in {"clockID", "idle"} \cup Stopped

(* collector.go:16 says of CleanUp: "It should result in a state that can  *)
(* be started again".  A Start after a CleanUp must then not be refused    *)
(* because the pod which that CleanUp deleted is gone.  It is, as c.pod    *)
(* stays set.  No run checks this statement.                               *)
RestartNotRefused ==
    [][\A t \in Tools :
          pc[t] = "check" /\ pod = NoPod => pc'[t] # "failed"]_vars
=============================================================================
