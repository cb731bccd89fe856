----------------------------- MODULE AttemptPool -----------------------------
(***************************************************************************)
(* What the orchestrator promises of its attempts, whatever becomes of     *)
(* polls, workers and the tracker: an issue has at most one attempt at a   *)
(* time, which takes one slot and one place on a host for as long as it    *)
(* lasts and gets one worker task at most once; an attempt that fails may  *)
(* leave the issue waiting for another, without a slot.                    *)
(***************************************************************************)
EXTENDS Integers, FiniteSets

CONSTANTS Issues, Hosts, HostCap, MaxConcurrent, Local, Runs

VARIABLE work   \* issue -> where the work on it is

Idle == [stage |-> "idle"]
Waiting == [stage |-> "waiting"]
Scheduled(h) == [stage |-> "scheduled", host |-> h]
Working(h, r) == [stage |-> "working", host |-> h, run |-> r]

InStage(stages) == {i \in Issues : work[i].stage \in stages}
Occupied == InStage({"scheduled", "working"})
PlacedOn(h) == {i \in Occupied : work[i].host = h}

HasRoom(h) ==
    IF Hosts = {} THEN h = Local
    ELSE h \in Hosts /\ Cardinality(PlacedOn(h)) < HostCap

Init == work = [i \in Issues |-> Idle]

\* An attempt begins, if there is a slot for it and room at its place.
Begin(i, h) ==
    /\ i \notin Occupied
    /\ Cardinality(Occupied) < MaxConcurrent
    /\ HasRoom(h)
    /\ work' = [work EXCEPT ![i] = Scheduled(h)]

\* It gets a task that no other attempt has.
Assign(i, r) ==
    /\ work[i].stage = "scheduled"
    /\ \A j \in InStage({"working"}) : work[j].run # r
    /\ work' = [work EXCEPT ![i] = Working(work[i].host, r)]

\* Attempts end, and their issues wait for another.
Retry(S) ==
    /\ S \subseteq Occupied
    /\ work' = [i \in Issues |-> IF i \in S THEN Waiting ELSE work[i]]

\* Attempts end, or issues stop waiting, for good.
GiveUp(S) == work' = [i \in Issues |-> IF i \in S THEN Idle ELSE work[i]]

Next ==
    \/ \E i \in Issues, h \in Hosts \cup {Local} : Begin(i, h)
    \/ \E i \in Issues, r \in Runs : Assign(i, r)
    \/ \E S \in SUBSET Issues : Retry(S) \/ GiveUp(S)

Spec == Init /\ [][Next]_work
=============================================================================
