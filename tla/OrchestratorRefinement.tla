----------------------- MODULE OrchestratorRefinement -----------------------
(* The orchestrator loop implements AttemptPool, for every value of the     *)
(* constants.  The refinement mapping is Work, in Orchestrator.             *)
EXTENDS OrchestratorProofs

work == [i \in Issues |-> Work(i)]

\* The pool counts with the same operator.
LEMMA SameCardinality == \A S : Pool!Cardinality(S) = Cardinality(S)
  BY DEF Pool!Cardinality, Cardinality

\* Work depends on the attempt of the issue and on whether it has a retry.
LEMMA SameWork ==
    ASSUME NEW i \in Issues, running'[i] = running[i],
           i \in RetryIds' <=> i \in RetryIds
    PROVE  Work(i)' = Work(i)
<1>1. i \in RunningIds' <=> i \in RunningIds
  BY DEF RunningIds
<1> QED
  BY <1>1 DEF Work

\* The four stages an issue may be in.
LEMMA WorkStages ==
    ASSUME NEW i \in Issues
    PROVE  /\ i \in RunningIds /\ running[i].task = NoTask
                => Work(i) = Pool!Scheduled(running[i].host)
           /\ i \in RunningIds /\ running[i].task # NoTask
                => Work(i) = Pool!Working(running[i].host, running[i].task)
           /\ i \notin RunningIds /\ i \in RetryIds => Work(i) = Pool!Waiting
           /\ i \notin RunningIds /\ i \notin RetryIds => Work(i) = Pool!Idle
  BY DEF Work, Pool!Scheduled, Pool!Working, Pool!Waiting, Pool!Idle

\* The slots the pool counts are those the orchestrator counts.
LEMMA SameSlots ==
    /\ Pool!Occupied = RunningIds
    /\ \A h \in Places : Pool!PlacedOn(h) = On(h)
<1>1. \A i \in Issues :
          /\ i \in RunningIds <=> Work(i).stage \in {"scheduled", "working"}
          /\ i \in RunningIds => Work(i).host = running[i].host
  BY WorkStages DEF Pool!Scheduled, Pool!Working, Pool!Waiting, Pool!Idle
<1>2. Pool!Occupied = RunningIds
  BY <1>1 DEF Pool!Occupied, Pool!InStage, RunningIds
<1>3. ASSUME NEW h \in Places
      PROVE  Pool!PlacedOn(h) = On(h)
  BY <1>1, <1>2 DEF Pool!PlacedOn, On, RunningIds
<1> QED
  BY <1>2, <1>3

----------------------------------------------------------------------------
(* What the handlers do, as the pool sees it *)

\* A step that neither touches the attempts nor adds or removes a retry.
LEMMA PoolKeeps ==
    ASSUME UNCHANGED running, RetryIds' = RetryIds
    PROVE  UNCHANGED work
<1>1. \A i \in Issues : Work(i)' = Work(i)
  BY SameWork
<1> QED
  BY <1>1 DEF work

\* handle_worker_completion ends attempts, with or without a retry.
LEMMA PoolCompletes ==
    ASSUME TypeOK, NEW S \in SUBSET RunningIds, NEW outcome \in Outcomes,
           NEW sessions, NEW quiet,
           CompleteRunning(S, outcome, sessions, quiet)
    PROVE  Pool!Next
<1>1. /\ S \in SUBSET Issues
      /\ \A i \in Issues \ S : Work(i)' = Work(i)
  <2>1. \A i \in Issues \ S : /\ running'[i] = running[i]
                              /\ i \in RetryIds' <=> i \in RetryIds
    BY DEF CompleteRunning, RetryIds
  <2> QED
    BY <2>1, SameWork DEF RunningIds
<1>2. \A i \in S : i \notin RunningIds'
  BY DEF CompleteRunning, RunningIds
<1>3. CASE outcome = "done"
  <2>1. \A i \in S : i \notin RetryIds'
    BY <1>3 DEF CompleteRunning, RetryAfter, RetryIds
  <2>2. \A i \in S : Work(i)' = Pool!Idle
    BY <1>1, <1>2, <2>1 DEF Work, Pool!Idle
  <2>3. Pool!GiveUp(S)
    BY <1>1, <2>2 DEF Pool!GiveUp
  <2> QED
    BY <1>1, <2>3 DEF Pool!Next
<1>4. CASE outcome # "done"
  <2>1. \A i \in S : RetryAfter(i, outcome) \in RetryEntry
    <3> SUFFICES ASSUME NEW i \in S PROVE RetryAfter(i, outcome) \in RetryEntry
      OBVIOUS
    <3>1. running[i] \in RunAttempt
      BY DEF TypeOK, RunningIds
    <3>2. running[i].host \in Places /\ running[i].attempt \in Nat
      BY <3>1, LimitsAssumption DEF RunAttempt
    <3>3. Saturated(running[i].attempt + 1) \in 0..MaxAttempt /\ 1 \in 0..MaxAttempt
      BY <3>2, LimitsAssumption DEF Saturated, Lower
    <3> QED
      BY <1>4, <3>2, <3>3 DEF RetryAfter, RetryEntry, RetryKinds
  <2>2. \A i \in S : i \in RetryIds'
    BY <1>1, <2>1, NoRetryAssumption DEF CompleteRunning, RetryIds
  <2>3. \A i \in S : Work(i)' = Pool!Waiting
    BY <1>1, <1>2, <2>2 DEF Work, Pool!Waiting
  <2>4. Pool!Retry(S)
    BY <1>1, <2>3, SameSlots DEF Pool!Retry
  <2> QED
    BY <1>1, <2>4 DEF Pool!Next
<1> QED
  BY <1>3, <1>4

\* mark_issue_terminal and release_issue give issues up.
LEMMA PoolForgets ==
    ASSUME NEW S \in SUBSET Issues, Forget(S)
    PROVE  Pool!Next
<1>1. \A i \in Issues \ S : Work(i)' = Work(i)
  <2>1. \A i \in Issues \ S : /\ running'[i] = running[i]
                              /\ i \in RetryIds' <=> i \in RetryIds
    BY DEF Forget, RetryIds
  <2> QED
    BY <2>1, SameWork
<1>2. \A i \in S : Work(i)' = Pool!Idle
  <2>1. \A i \in S : i \notin RunningIds' /\ i \notin RetryIds'
    BY DEF Forget, RunningIds, RetryIds
  <2> QED
    BY <2>1 DEF Work, Pool!Idle
<1>3. Pool!GiveUp(S)
  BY <1>1, <1>2 DEF Pool!GiveUp
<1> QED
  BY <1>3 DEF Pool!Next

\* A retry that has fired and is scheduled again.
LEMMA PoolReschedules ==
    ASSUME TypeOK, RetriesCanFire, NEW i, Fires(i), NEW attempt \in Nat,
           NEW kind \in RetryKinds, Reschedule(i, attempt, kind),
           UNCHANGED running
    PROVE  UNCHANGED work
<1>1. i \in RetryIds /\ i \in Issues /\ retry_attempts[i].host \in Places
  BY FiredEntry DEF RetryEntry
<1>2. Saturated(attempt) \in 0..MaxAttempt
  BY LimitsAssumption DEF Saturated, Lower
<1> DEFINE entry == [attempt |-> Saturated(attempt), kind |-> kind, due |-> FALSE,
                     host |-> retry_attempts[i].host]
<1>3. entry \in RetryEntry
  BY <1>1, <1>2 DEF RetryEntry
<1>4. entry # NoRetry
  BY <1>3, NoRetryAssumption
<1>5. retry_attempts' = [retry_attempts EXCEPT ![i] = entry]
  BY DEF Reschedule
<1> HIDE DEF entry
<1>6. RetryIds' = RetryIds
  BY <1>1, <1>4, <1>5 DEF RetryIds, TypeOK
<1> QED
  BY <1>6, PoolKeeps

\* dispatch_issue begins an attempt where there is room.
LEMMA PoolBegins ==
    ASSUME IInv, NEW i \in Issues, Admissible(i), NEW s \in States,
           NEW attempt \in 0..MaxAttempt, NEW preferred,
           NEW host \in select_worker_host(preferred),
           DispatchIssue(i, s, attempt, host)
    PROVE  Pool!Next
<1> DEFINE new == [attempt |-> attempt, host |-> host, task |-> NoTask]
<1>0. TypeOK /\ host \in Places
  BY SelectedPlace DEF IInv
<1>1. /\ running' = [running EXCEPT ![i] = new]
      /\ RunningIds' = RunningIds \cup {i}
      /\ retry_attempts' = [retry_attempts EXCEPT ![i] = NoRetry]
  BY <1>0, DispatchIssueType DEF DispatchIssue
<1>2. Work(i)' = Pool!Scheduled(host)
  <2>1. running'[i] = new /\ i \in RunningIds'
    BY <1>0, <1>1 DEF TypeOK
  <2> QED
    BY <2>1 DEF Work, Pool!Scheduled
<1>3. \A j \in Issues \ {i} : Work(j)' = Work(j)
  <2>1. \A j \in Issues \ {i} : /\ running'[j] = running[j]
                                /\ j \in RetryIds' <=> j \in RetryIds
    BY <1>0, <1>1 DEF TypeOK, RetryIds
  <2> QED
    BY <2>1, SameWork
<1>4. work' = [work EXCEPT ![i] = Pool!Scheduled(host)]
  BY <1>2, <1>3 DEF work
<1>5. i \notin Pool!Occupied /\ Cardinality(Pool!Occupied) < MaxConcurrent
  <2>1. Cardinality(RunningIds) \in Nat
    BY IssuesAssumption, FS_Subset, FS_CardinalityType DEF RunningIds
  <2> QED
    BY <2>1, SameSlots, LimitsAssumption DEF Admissible, available_slots,
                                             RunningIds
<1>6. Pool!HasRoom(host)
  <2>1. CASE Hosts = {}
    BY <2>1 DEF select_worker_host, Pool!HasRoom
  <2>2. CASE Hosts # {}
    <3>1. host \in Hosts /\ Load(host) < HostCap
      BY <2>2 DEF select_worker_host, Eligible
    <3>2. Pool!PlacedOn(host) = {j \in RunningIds : running[j].host = host}
      BY <1>0, SameSlots DEF On
    <3> QED
      BY <2>2, <3>1, <3>2, SameCardinality DEF Pool!HasRoom, Load
  <2> QED
    BY <2>1, <2>2
<1>7. Pool!Begin(i, host)
  BY <1>4, <1>5, <1>6, SameCardinality DEF Pool!Begin, work
<1> QED
  BY <1>0, <1>7 DEF Pool!Next, Places

\* spawn_workers_for_dispatched gives an attempt a task of its own.
LEMMA PoolAssigns ==
    ASSUME IInv, NEW d \in dispatched, Spawn(d)
    PROVE  Pool!Next
<1> DEFINE i == d.issue
<1>0. TypeOK /\ DispatchesAwaitOneSpawn
  BY DEF IInv
<1>1. i \in Issues /\ i \in RunningIds /\ running[i].task = NoTask
  BY <1>0, SpawnedAttempt DEF DispatchesAwaitOneSpawn
<1>2. /\ RunningIds' = RunningIds
      /\ RetryIds' = RetryIds
      /\ running'[i].host = running[i].host
      /\ \A j \in Issues \ {i} : running'[j] = running[j]
  <2>1. RetryIds' = RetryIds
    BY DEF Spawn, RetryIds
  <2> QED
    BY <1>0, <2>1, SpawnedAttempt
<1>3. PICK r \in Runs : FreshRun(r) /\ running'[i].task = r
  BY <1>0, SpawnedAttempt
<1>4. work[i] = Pool!Scheduled(running[i].host)
  BY <1>1, WorkStages DEF work
<1>5. Work(i)' = Pool!Working(running[i].host, r)
  BY <1>1, <1>2, <1>3, NoTaskAssumption DEF Work, Pool!Working
<1>6. \A j \in Issues \ {i} : Work(j)' = Work(j)
  BY <1>2, SameWork
<1>7. work' = [work EXCEPT ![i] = Pool!Working(work[i].host, r)]
  BY <1>1, <1>4, <1>5, <1>6 DEF work, Pool!Scheduled
<1>8. \A j \in Pool!InStage({"working"}) : work[j].run # r
  <2>1. \A j \in RunningIds : running[j].task # r
    BY <1>3 DEF FreshRun, UsedRuns
  <2>2. ASSUME NEW j \in Issues, work[j].stage = "working"
        PROVE  work[j].run # r
    <3>1. j \in RunningIds /\ work[j] = Pool!Working(running[j].host, running[j].task)
      BY <2>2, WorkStages
         DEF work, Pool!Scheduled, Pool!Working, Pool!Waiting, Pool!Idle
    <3> QED
      BY <2>1, <3>1 DEF Pool!Working
  <2> QED
    BY <2>2 DEF Pool!InStage, work
<1>9. Pool!Assign(i, r)
  BY <1>4, <1>7, <1>8 DEF Pool!Assign, Pool!Scheduled, work
<1> QED
  BY <1>1, <1>9 DEF Pool!Next

----------------------------------------------------------------------------
(* The refinement *)

\* At the start nothing is worked on.
LEMMA PoolInit == Init => Pool!Init
<1> SUFFICES ASSUME Init PROVE Pool!Init
  OBVIOUS
<1>1. RunningIds = {} /\ RetryIds = {}
  BY DEF Init, RunningIds, RetryIds
<1>2. \A i \in Issues : Work(i) = Pool!Idle
  BY <1>1, WorkStages
<1> QED
  BY <1>2 DEF Pool!Init

\* The branches of the select.
LEMMA PoolSelect ==
    ASSUME IInv, Select
    PROVE  Pool!Next \/ UNCHANGED work
<1>0. TypeOK
  BY DEF IInv
<1>1. CASE PollDue \/ IngestEvents \/ ResultsDrained
  <2>1. UNCHANGED <<running, retry_attempts>>
    BY <1>1 DEF PollDue, IngestEvents, ResultsDrained, orch_vars
  <2> QED
    BY <2>1, PoolKeeps DEF RetryIds
<1>2. CASE HandleResult
  <2> DEFINE i == Head(worker_results).issue
             o == Head(worker_results).outcome
  <2>1. CASE i \in RunningIds
    <3>1. CompleteRunning({i}, o, sessions_heard, silent_unheard)
      BY <1>2, <2>1 DEF HandleResult
    <3>2. o \in Outcomes
      BY <1>0, <1>2, FirstResult DEF HandleResult
    <3> QED
      BY <1>0, <2>1, <3>1, <3>2, PoolCompletes
  <2>2. CASE i \notin RunningIds
    <3>1. UNCHANGED <<running, retry_attempts>>
      BY <1>2, <2>2 DEF HandleResult
    <3> QED
      BY <3>1, PoolKeeps DEF RetryIds
  <2> QED
    BY <2>1, <2>2
<1> QED
  BY <1>1, <1>2 DEF Select

\* The phases of a poll that look at all issues at once.
LEMMA PoolPhases ==
    ASSUME IInv,
           \/ DetectStalled \/ Reconcile \/ ReconcileFails \/ FetchCandidates
           \/ FetchFails \/ DispatchDone \/ SpawnDone \/ CollectDue \/ RetriesDone
    PROVE  Pool!Next \/ UNCHANGED work
<1>0. TypeOK
  BY DEF IInv
<1>1. CASE DetectStalled
  <2>1. CASE StallDetection
    <3>1. CompleteRunning(silent, "failed", worker_session_ids, silent)
      BY <1>1, <2>1 DEF DetectStalled
    <3>2. silent \in SUBSET RunningIds /\ "failed" \in Outcomes
      BY <1>0 DEF TypeOK, Outcomes
    <3> QED
      BY <1>0, <3>1, <3>2, PoolCompletes
  <2>2. CASE ~StallDetection
    <3>1. UNCHANGED <<running, retry_attempts>>
      BY <1>1, <2>2 DEF DetectStalled
    <3> QED
      BY <3>1, PoolKeeps DEF RetryIds
  <2> QED
    BY <2>1, <2>2
<1>2. CASE Reconcile
  <2> DEFINE S == {i \in RunningIds : tracker[i] \in TerminalStates}
                    \cup {i \in RunningIds : tracker[i] \in OtherStates}
  <2>1. S \in SUBSET Issues /\ Forget(S)
    BY <1>2 DEF Reconcile, RunningIds
  <2> QED
    BY <2>1, PoolForgets
<1>3. CASE \/ ReconcileFails \/ FetchCandidates \/ FetchFails \/ DispatchDone
           \/ SpawnDone \/ CollectDue \/ RetriesDone
  <2>1. UNCHANGED <<running, retry_attempts>>
    BY <1>3 DEF ReconcileFails, FetchCandidates, FetchFails, DispatchDone,
                SpawnDone, CollectDue, RetriesDone, orch_vars
  <2> QED
    BY <2>1, PoolKeeps DEF RetryIds
<1> QED
  BY <1>1, <1>2, <1>3

\* One candidate of a poll.
LEMMA PoolCandidate ==
    ASSUME IInv, NEW i \in Issues,
           \/ DispatchCandidate(i) \/ SkipCandidate(i) \/ PrepareFails(i)
           \/ ReviewGateDemotes(i) \/ TickFails(i)
    PROVE  Pool!Next \/ UNCHANGED work
<1>1. CASE DispatchCandidate(i)
  <2>1. tracker[i] \in States /\ Admissible(i) /\ 0 \in 0..MaxAttempt
    BY <1>1, LimitsAssumption DEF IInv, TypeOK, DispatchCandidate,
                                  should_dispatch
  <2>2. PICK host \in select_worker_host(Local) :
            DispatchIssue(i, tracker[i], 0, host)
    BY <1>1 DEF DispatchCandidate
  <2> QED
    BY <2>1, <2>2, PoolBegins
<1>2. CASE SkipCandidate(i) \/ PrepareFails(i) \/ ReviewGateDemotes(i) \/ TickFails(i)
  <2>1. UNCHANGED <<running, retry_attempts>>
    BY <1>2 DEF SkipCandidate, PrepareFails, ReviewGateDemotes, TickFails,
                orch_vars
  <2> QED
    BY <2>1, PoolKeeps DEF RetryIds
<1> QED
  BY <1>1, <1>2

\* One due retry of a poll.
LEMMA PoolRetry ==
    ASSUME IInv, NEW i \in Issues,
           \/ RetryPollFails(i) \/ RetryTerminal(i) \/ RetryReleased(i)
           \/ RetryDropped(i) \/ RetryDispatched(i) \/ RetryDeferred(i)
    PROVE  Pool!Next \/ UNCHANGED work
<1> DEFINE attempt == retry_attempts[i].attempt
<1>0. /\ TypeOK /\ RetriesCanFire /\ Fires(i)
      /\ attempt \in Nat /\ attempt + 1 \in Nat /\ attempt \in 0..MaxAttempt
      /\ i \notin RunningIds
      /\ {"continuation", "failure"} \subseteq RetryKinds
  <2>1. TypeOK /\ RetriesCanFire /\ Fires(i)
    BY DEF IInv, RetryPollFails, RetryTerminal, RetryReleased, RetryDropped,
           RetryDispatched, RetryDeferred
  <2> QED
    BY <2>1, FiredEntry, LimitsAssumption DEF RetryKinds
<1>1. CASE RetryPollFails(i)
  <2>1. Reschedule(i, attempt + 1, "failure") /\ UNCHANGED running
    BY <1>1 DEF RetryPollFails
  <2> QED
    BY <1>0, <2>1, PoolReschedules
<1>2. CASE RetryTerminal(i) \/ RetryReleased(i)
  <2>1. Forget({i}) /\ {i} \in SUBSET Issues
    BY <1>2 DEF RetryTerminal, RetryReleased
  <2> QED
    BY <2>1, PoolForgets
<1>3. CASE RetryDropped(i)
  <2>1. /\ UNCHANGED running
        /\ retry_attempts' = [retry_attempts EXCEPT ![i] = NoRetry]
    BY <1>3 DEF RetryDropped
  <2>2. \A j \in Issues \ {i} : Work(j)' = Work(j)
    <3>1. \A j \in Issues \ {i} : j \in RetryIds' <=> j \in RetryIds
      BY <1>0, <2>1 DEF RetryIds, TypeOK
    <3> QED
      BY <2>1, <3>1, SameWork
  <2>3. Work(i)' = Pool!Idle
    <3>1. i \notin RunningIds' /\ i \notin RetryIds'
      BY <1>0, <2>1 DEF RetryIds, RunningIds, TypeOK
    <3> QED
      BY <3>1 DEF Work, Pool!Idle
  <2>4. Pool!GiveUp({i})
    BY <2>2, <2>3 DEF Pool!GiveUp
  <2> QED
    BY <2>4 DEF Pool!Next
<1>4. CASE RetryDispatched(i)
  <2>1. tracker[i] \in States /\ Admissible(i)
    BY <1>0, <1>4 DEF TypeOK, RetryDispatched, should_dispatch
  <2>2. PICK host \in select_worker_host(retry_attempts[i].host) :
            DispatchIssue(i, tracker[i], attempt, host)
    BY <1>4 DEF RetryDispatched
  <2> QED
    BY <1>0, <2>1, <2>2, PoolBegins
<1>5. CASE RetryDeferred(i)
  <2>1. /\ UNCHANGED running
        /\ \/ Reschedule(i, attempt, "continuation")
           \/ Reschedule(i, attempt + 1, "failure")
    BY <1>5 DEF RetryDeferred
  <2> QED
    BY <1>0, <2>1, PoolReschedules
<1> QED
  BY <1>1, <1>2, <1>3, <1>4, <1>5

\* Time, people and the process.
LEMMA PoolEnvironment ==
    ASSUME IInv, Environment
    PROVE  Pool!Next \/ UNCHANGED work
<1>0. TypeOK
  BY DEF IInv
<1>1. ASSUME NEW i \in Issues, FallsSilent(i) \/ \E s \in States : TrackerMoves(i, s)
      PROVE  UNCHANGED work
  <2>1. UNCHANGED <<running, retry_attempts>>
    BY <1>1 DEF TrackerMoves, FallsSilent, orch_vars
  <2> QED
    BY <2>1, PoolKeeps DEF RetryIds
<1>2. ASSUME NEW i \in Issues, BackoffElapses(i)
      PROVE  UNCHANGED work
  <2> DEFINE entry == [retry_attempts[i] EXCEPT !.due = TRUE]
  <2>1. retry_attempts[i] \in RetryEntry
    BY <1>0, <1>2 DEF TypeOK, BackoffElapses, RetryIds
  <2>2. entry \in RetryEntry
    BY <2>1 DEF RetryEntry
  <2>3. retry_attempts' = [retry_attempts EXCEPT ![i] = entry]
    BY <1>2 DEF BackoffElapses
  <2> HIDE DEF entry
  <2>4. RetryIds' = RetryIds
    BY <1>0, <1>2, <2>2, <2>3, NoRetryAssumption DEF BackoffElapses, RetryIds,
       TypeOK
  <2>5. UNCHANGED running
    BY <1>2 DEF BackoffElapses
  <2> QED
    BY <2>4, <2>5, PoolKeeps
<1>3. CASE Restart
  <2>1. \A i \in Issues : i \notin RunningIds' /\ i \notin RetryIds'
    BY <1>3 DEF Restart, RunningIds, RetryIds
  <2>2. \A i \in Issues : Work(i)' = Pool!Idle
    BY <2>1 DEF Work, Pool!Idle
  <2>3. Pool!GiveUp(Issues)
    BY <2>2 DEF Pool!GiveUp
  <2> QED
    BY <2>3 DEF Pool!Next
<1> DEFINE Goal == Pool!Next \/ UNCHANGED work
<1>4. /\ \A i \in Issues : FallsSilent(i) => Goal
      /\ \A i \in Issues, s \in States : TrackerMoves(i, s) => Goal
      /\ \A i \in Issues : BackoffElapses(i) => Goal
      /\ Restart => Goal
  BY <1>1, <1>2, <1>3
<1> HIDE DEF Goal
<1>5. Goal
  BY <1>4 DEF Environment
<1> QED
  BY <1>5 DEF Goal

\* Every step of the loop is a step of the pool or leaves it alone.
LEMMA PoolStep == IInv /\ [Next]_vars => Pool!Next \/ UNCHANGED work
<1> SUFFICES ASSUME IInv, [Next]_vars PROVE Pool!Next \/ UNCHANGED work
  OBVIOUS
<1>1. CASE UNCHANGED vars
  <2>1. UNCHANGED <<running, retry_attempts>>
    BY <1>1 DEF vars, orch_vars
  <2> QED
    BY <2>1, PoolKeeps DEF RetryIds
<1>2. CASE Poll
  <2> DEFINE Goal == Pool!Next \/ UNCHANGED work
  <2> HIDE DEF Goal
  <2>1. ASSUME \/ DetectStalled \/ Reconcile \/ ReconcileFails \/ FetchCandidates
               \/ FetchFails \/ DispatchDone \/ SpawnDone \/ CollectDue \/ RetriesDone
        PROVE  Goal
    BY <2>1, PoolPhases DEF Goal
  <2>2. ASSUME NEW i \in Issues,
               \/ DispatchCandidate(i) \/ SkipCandidate(i) \/ PrepareFails(i)
               \/ ReviewGateDemotes(i) \/ TickFails(i)
        PROVE  Goal
    BY <2>2, PoolCandidate DEF Goal
  <2>3. ASSUME NEW i \in Issues,
               \/ RetryPollFails(i) \/ RetryTerminal(i) \/ RetryReleased(i)
               \/ RetryDropped(i) \/ RetryDispatched(i) \/ RetryDeferred(i)
        PROVE  Goal
    BY <2>3, PoolRetry DEF Goal
  <2>4. ASSUME NEW d \in dispatched, Spawn(d)
        PROVE  Goal
    BY <2>4, PoolAssigns DEF Goal
  <2>5. Goal
    BY <1>2, <2>1, <2>2, <2>3, <2>4 DEF Poll
  <2> QED
    BY <2>5 DEF Goal
<1>3. ASSUME NEW t \in tasks, WorkerStep(t)
      PROVE  UNCHANGED work
  <2>1. UNCHANGED <<running, retry_attempts>>
    BY <1>3 DEF WorkerStep, WorkerStarts, WorkerTurns, WorkerExits, orch_vars
  <2> QED
    BY <2>1, PoolKeeps DEF RetryIds
<1> QED
  BY <1>1, <1>2, <1>3, PoolSelect, PoolEnvironment DEF Next

\* The loop implements the pool of attempts: slots and places are taken one
\* attempt at a time and given back whole, whichever handler ends an attempt,
\* and an attempt keeps its place and its one task.
THEOREM Refinement == Spec => ImplementsAttemptPool
<1>1. Init => Pool!Init
  BY PoolInit
<1>2. IInv /\ [Next]_vars => [Pool!Next]_work
  BY PoolStep
<1> QED
  BY <1>1, <1>2, Inductive, PTL DEF Spec, ImplementsAttemptPool, Pool!Spec, work
=============================================================================
