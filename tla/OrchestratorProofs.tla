------------------------- MODULE OrchestratorProofs -------------------------
(* Proofs about the orchestrator loop, for every number of issues, hosts,   *)
(* slots and task ids and for every tracker workflow.                       *)
EXTENDS Orchestrator, FiniteSetTheorems, SequenceTheorems, TLAPS

----------------------------------------------------------------------------
(* What the shared updates do to the shape of the state *)

\* The retry entry a finished attempt leaves has the shape of one.
LEMMA RetryAfterType ==
    ASSUME TypeOK, NEW i \in RunningIds, NEW outcome \in Outcomes
    PROVE  RetryAfter(i, outcome) \in RetryEntry \cup {NoRetry}
<1>1. running[i] \in RunAttempt
  BY DEF TypeOK, RunningIds
<1>2. running[i].host \in Places /\ running[i].attempt \in Nat
  BY <1>1, LimitsAssumption DEF RunAttempt
<1>3. Saturated(running[i].attempt + 1) \in 0..MaxAttempt /\ 1 \in 0..MaxAttempt
  BY <1>2, LimitsAssumption DEF Saturated, Lower
<1>4. CASE outcome = "done"
  BY <1>4 DEF RetryAfter
<1>5. CASE outcome = "continue"
  BY <1>2, <1>3, <1>5 DEF RetryAfter, RetryEntry, RetryKinds
<1>6. CASE outcome = "failed"
  BY <1>2, <1>3, <1>6 DEF RetryAfter, RetryEntry, RetryKinds
<1> QED
  BY <1>4, <1>5, <1>6 DEF Outcomes

\* The part of TypeOK that speaks of the maps the orchestrator owns and that
\* the handlers below change.
OrchTypeOK ==
    /\ running \in [Issues -> RunAttempt \cup {NoAttempt}]
    /\ claimed \subseteq Issues
    /\ retry_attempts \in [Issues -> RetryEntry \cup {NoRetry}]
    /\ retry_tokens \subseteq Issues
    /\ worker_session_ids \subseteq Issues
    /\ silent \subseteq RunningIds

\* handle_worker_completion keeps the shape of the maps.
LEMMA CompleteRunningType ==
    ASSUME TypeOK, NEW S \in SUBSET RunningIds, NEW outcome \in Outcomes,
           NEW sessions \in SUBSET Issues, NEW quiet \in SUBSET RunningIds,
           CompleteRunning(S, outcome, sessions, quiet)
    PROVE  OrchTypeOK'
<1>1. running' \in [Issues -> RunAttempt \cup {NoAttempt}]
  BY DEF TypeOK, CompleteRunning
<1>2. claimed' \subseteq Issues /\ retry_tokens' \subseteq Issues
                             /\ worker_session_ids' \subseteq Issues
  BY DEF TypeOK, CompleteRunning, RunningIds
<1>3. retry_attempts' \in [Issues -> RetryEntry \cup {NoRetry}]
  <2>1. \A i \in S : RetryAfter(i, outcome) \in RetryEntry \cup {NoRetry}
    BY RetryAfterType
  <2> QED
    BY <2>1 DEF TypeOK, CompleteRunning
<1>4. silent' \subseteq RunningIds'
  BY DEF CompleteRunning, RunningIds
<1> QED
  BY <1>1, <1>2, <1>3, <1>4 DEF OrchTypeOK

\* So does forgetting issues, terminal or released.
LEMMA ForgetType ==
    ASSUME TypeOK, NEW S \in SUBSET Issues, Forget(S)
    PROVE  OrchTypeOK'
<1>1. running' \in [Issues -> RunAttempt \cup {NoAttempt}]
  BY DEF TypeOK, Forget
<1>2. retry_attempts' \in [Issues -> RetryEntry \cup {NoRetry}]
  BY DEF TypeOK, Forget
<1>3. silent' \subseteq RunningIds'
  BY DEF TypeOK, Forget, RunningIds
<1> QED
  BY <1>1, <1>2, <1>3 DEF TypeOK, OrchTypeOK, Forget

\* A failed call is counted within the bound.
LEMMA FailsType ==
    ASSUME TypeOK, Fails \/ UNCHANGED errors
    PROVE  errors' \in 0..MaxErrors
<1>1. errors \in 0..MaxErrors /\ MaxErrors \in Nat
  BY LimitsAssumption DEF TypeOK
<1> QED
  BY <1>1 DEF Fails

\* The workspace bookkeeping of a terminal issue.
LEMMA FinishTerminalType ==
    ASSUME TypeOK, NEW S \in SUBSET Issues, FinishTerminal(S)
    PROVE  /\ pending_terminal_cleanup' \subseteq Issues
           /\ workspaces' \subseteq Issues
           /\ errors' \in 0..MaxErrors
  BY LimitsAssumption DEF TypeOK, FinishTerminal, RemoveWorkspaces, Fails

\* The two callers of dispatch_issue hand it a place from select_worker_host.
LEMMA SelectedPlace ==
    ASSUME NEW preferred, NEW host \in select_worker_host(preferred)
    PROVE  host \in Places /\ host \in Eligible \cup {Local}
  BY DEF select_worker_host, Eligible, Places

\* dispatch_issue, given an attempt number and a place, keeps the shape of the
\* maps.
LEMMA DispatchIssueType ==
    ASSUME TypeOK, NEW i \in Issues, NEW s \in States,
           NEW attempt \in 0..MaxAttempt, NEW host \in Places,
           DispatchIssue(i, s, attempt, host)
    PROVE  /\ running' \in [Issues -> RunAttempt \cup {NoAttempt}]
           /\ RunningIds' = RunningIds \cup {i}
           /\ claimed' \subseteq Issues
           /\ retry_attempts' \in [Issues -> RetryEntry \cup {NoRetry}]
           /\ dispatched' \subseteq DispatchedIssue
<1> DEFINE new == [attempt |-> attempt, host |-> host, task |-> NoTask]
<1>1. new \in RunAttempt /\ new # NoAttempt
  BY NoAttemptAssumption DEF RunAttempt
<1>2. running' = [running EXCEPT ![i] = new]
  BY DEF DispatchIssue
<1>3. running' \in [Issues -> RunAttempt \cup {NoAttempt}]
  BY <1>1, <1>2 DEF TypeOK
<1>4. RunningIds' = RunningIds \cup {i}
  BY <1>1, <1>2 DEF TypeOK, RunningIds
<1>5. [issue |-> i, state |-> s] \in DispatchedIssue
  BY DEF DispatchedIssue
<1> QED
  BY <1>3, <1>4, <1>5 DEF TypeOK, DispatchIssue

\* So does rescheduling a fired retry.
LEMMA RescheduleType ==
    ASSUME TypeOK, NEW i \in RetryIds, NEW attempt \in Nat,
           NEW kind \in RetryKinds, Reschedule(i, attempt, kind)
    PROVE  /\ retry_attempts' \in [Issues -> RetryEntry \cup {NoRetry}]
           /\ retry_tokens' \subseteq Issues
<1>1. retry_attempts[i].host \in Places /\ i \in Issues
  BY DEF TypeOK, RetryIds, RetryEntry
<1>2. Saturated(attempt) \in 0..MaxAttempt
  BY LimitsAssumption DEF Saturated, Lower
<1>3. [attempt |-> Saturated(attempt), kind |-> kind, due |-> FALSE,
       host |-> retry_attempts[i].host] \in RetryEntry
  BY <1>1, <1>2 DEF RetryEntry
<1> QED
  BY <1>1, <1>3 DEF TypeOK, Reschedule

----------------------------------------------------------------------------
(* The inductive invariant *)

\* TypeOK alone is not inductive: the retry handlers read the entry of an
\* issue that was listed as due earlier, and only RetriesCanFire says that it
\* is still there; and the claims, slots and dispatches hold one another up.
IInv ==
    /\ TypeOK
    /\ ClaimsMatchRunning
    /\ RetriesCanFire
    /\ DispatchesAwaitOneSpawn
    /\ SlotsRespected
    /\ HostCapRespected
    /\ AttemptsAreBacked
    /\ EventsHaveSenders

\* What fire_retry finds.
LEMMA FiredEntry ==
    ASSUME TypeOK, RetriesCanFire, NEW i, Fires(i)
    PROVE  /\ i \in RetryIds
           /\ i \in Issues
           /\ i \notin RunningIds
           /\ retry_attempts[i] \in RetryEntry
           /\ retry_attempts[i].attempt \in 0..MaxAttempt
           /\ retry_attempts[i].attempt + 1 \in Nat
           /\ todo' \subseteq Issues
<1>1. i \in RetryIds /\ i \in Issues /\ todo' \subseteq Issues
  BY DEF TypeOK, RetriesCanFire, Fires
<1>2. retry_attempts[i] \in RetryEntry
  BY <1>1 DEF TypeOK, RetryIds
<1> QED
  BY <1>1, <1>2, LimitsAssumption DEF RetriesCanFire, RetryEntry

----------------------------------------------------------------------------
(* Type correctness *)

\* The state after startup_cleanup has the right shape.
LEMMA TypeInit == Init => TypeOK
<1> SUFFICES ASSUME Init PROVE TypeOK
  OBVIOUS
<1>1. running \in [Issues -> RunAttempt \cup {NoAttempt}]
  BY DEF Init
<1>2. retry_attempts \in [Issues -> RetryEntry \cup {NoRetry}]
  BY DEF Init
<1>3. worker_results \in Seq(WorkerResult)
  BY DEF Init
<1>4. tracker \in [Issues -> States]
  BY DEF Init, States
<1> QED
  BY <1>1, <1>2, <1>3, <1>4, LimitsAssumption DEF Init, TypeOK, Phases,
     RunningIds

\* What is taken off the result channel.
LEMMA FirstResult ==
    ASSUME TypeOK, worker_results # <<>>
    PROVE  /\ Head(worker_results) \in WorkerResult
           /\ Tail(worker_results) \in Seq(WorkerResult)
           /\ Head(worker_results).issue \in Issues
           /\ Head(worker_results).outcome \in Outcomes
<1>1. /\ Head(worker_results) \in WorkerResult
      /\ Tail(worker_results) \in Seq(WorkerResult)
  BY HeadTailProperties DEF TypeOK
<1> QED
  BY <1>1 DEF WorkerResult

\* The select of `run`.
LEMMA TypeSelect ==
    ASSUME TypeOK, Select
    PROVE  TypeOK'
<1> USE DEF orch_vars, worker_vars, env_vars, bound_vars, loop_vars, Phases
<1>1. CASE PollDue
  BY <1>1 DEF PollDue, TypeOK, RunningIds
<1>2. CASE IngestEvents
  BY <1>2 DEF IngestEvents, TypeOK, RunningIds, sessions_heard, silent_unheard,
              Heard, DrainEvents
<1>3. CASE HandleResult
  <2> DEFINE i == Head(worker_results).issue
             o == Head(worker_results).outcome
  <2>1. /\ i \in Issues /\ o \in Outcomes
        /\ worker_results' \in Seq(WorkerResult)
        /\ worker_events' = {}
        /\ phase' = "results"
    BY <1>3, FirstResult DEF HandleResult, DrainEvents
  <2>2. /\ sessions_heard \in SUBSET Issues
        /\ silent_unheard \in SUBSET RunningIds
    BY DEF TypeOK, sessions_heard, silent_unheard, Heard
  <2>3. CASE /\ i \in RunningIds
             /\ CompleteRunning({i}, o, sessions_heard, silent_unheard)
             /\ UNCHANGED <<pending_terminal_cleanup, workspaces, errors>>
    <3>1. OrchTypeOK'
      BY <2>1, <2>2, <2>3, CompleteRunningType
    <3> QED
      BY <1>3, <2>1, <2>3, <3>1 DEF HandleResult, TypeOK, OrchTypeOK
  <2>4. CASE /\ i \notin RunningIds
             /\ pending_terminal_cleanup' = pending_terminal_cleanup \ {i}
             /\ IF CleanupOnDone
                THEN RemoveWorkspaces(pending_terminal_cleanup \cap {i})
                ELSE UNCHANGED <<workspaces, errors>>
             /\ worker_session_ids' = sessions_heard
             /\ silent' = silent_unheard
             /\ UNCHANGED <<running, claimed, retry_attempts, retry_tokens>>
    <3>1. workspaces' \subseteq Issues /\ errors' \in 0..MaxErrors
      BY <2>4, LimitsAssumption DEF TypeOK, RemoveWorkspaces, Fails
    <3>2. RunningIds' = RunningIds
      BY <2>4 DEF RunningIds
    <3> QED
      BY <1>3, <2>1, <2>2, <2>4, <3>1, <3>2 DEF HandleResult, TypeOK
  <2> QED
    BY <1>3, <2>3, <2>4 DEF HandleResult
<1>4. CASE ResultsDrained
  BY <1>4 DEF ResultsDrained, TypeOK, RunningIds, sessions_heard,
              silent_unheard,
              Heard, DrainEvents
<1> QED
  BY <1>1, <1>2, <1>3, <1>4 DEF Select

\* The phases of a poll up to the spawns.
LEMMA TypePoll ==
    ASSUME TypeOK,
           \/ DetectStalled
           \/ Reconcile \/ ReconcileFails
           \/ FetchCandidates \/ FetchFails
           \/ DispatchDone
           \/ SpawnDone
           \/ CollectDue \/ RetriesDone
    PROVE  TypeOK'
<1> USE DEF orch_vars, worker_vars, env_vars, bound_vars, loop_vars, Phases
<1>1. CASE DetectStalled
  <2>1. CASE StallDetection
    <3>1. OrchTypeOK'
      BY <1>1, <2>1, CompleteRunningType DEF DetectStalled, Outcomes, TypeOK
    <3> QED
      BY <1>1, <3>1 DEF DetectStalled, TypeOK, OrchTypeOK
  <2>2. CASE ~StallDetection
    BY <1>1, <2>2 DEF DetectStalled, TypeOK, RunningIds
  <2> QED
    BY <2>1, <2>2
<1>2. CASE Reconcile
  <2> DEFINE terminal == {i \in RunningIds : tracker[i] \in TerminalStates}
             inactive == {i \in RunningIds : tracker[i] \in OtherStates}
  <2>1. /\ terminal \in SUBSET Issues
        /\ terminal \cup inactive \in SUBSET Issues
    BY DEF RunningIds
  <2>2. Forget(terminal \cup inactive) /\ FinishTerminal(terminal)
    BY <1>2 DEF Reconcile
  <2>3. OrchTypeOK'
    BY <2>1, <2>2, ForgetType
  <2>4. /\ pending_terminal_cleanup' \subseteq Issues
        /\ workspaces' \subseteq Issues
        /\ errors' \in 0..MaxErrors
    BY <2>1, <2>2, FinishTerminalType
  <2> QED
    BY <1>2, <2>3, <2>4 DEF Reconcile, TypeOK, OrchTypeOK
<1>3. CASE ReconcileFails \/ FetchFails
  BY <1>3, FailsType DEF ReconcileFails, FetchFails, TypeOK, RunningIds
<1>4. CASE FetchCandidates \/ CollectDue
  BY <1>4 DEF FetchCandidates, CollectDue, TypeOK, RunningIds, RetryIds
<1>5. CASE DispatchDone \/ SpawnDone \/ RetriesDone
  BY <1>5 DEF DispatchDone, SpawnDone, RetriesDone, TypeOK, RunningIds
<1> QED
  BY <1>1, <1>2, <1>3, <1>4, <1>5

\* One candidate of the second pass.
LEMMA TypeCandidate ==
    ASSUME TypeOK, NEW i \in Issues,
           \/ DispatchCandidate(i) \/ SkipCandidate(i) \/ PrepareFails(i)
           \/ ReviewGateDemotes(i) \/ TickFails(i)
    PROVE  TypeOK'
<1> USE DEF orch_vars, worker_vars, env_vars, bound_vars, loop_vars, Phases
<1>1. CASE DispatchCandidate(i)
  <2>1. tracker[i] \in States
    BY DEF TypeOK
  <2>2. PICK host \in select_worker_host(Local) :
            DispatchIssue(i, tracker[i], 0, host)
    BY <1>1 DEF DispatchCandidate
  <2>3. host \in Places /\ host \in Eligible \cup {Local} /\ 0 \in 0..MaxAttempt
    BY <2>2, SelectedPlace, LimitsAssumption
  <2>4. /\ running' \in [Issues -> RunAttempt \cup {NoAttempt}]
        /\ RunningIds' = RunningIds \cup {i}
        /\ claimed' \subseteq Issues
        /\ retry_attempts' \in [Issues -> RetryEntry \cup {NoRetry}]
        /\ dispatched' \subseteq DispatchedIssue
    BY <2>1, <2>2, <2>3, DispatchIssueType
  <2> QED
    BY <1>1, <2>4 DEF DispatchCandidate, TypeOK
<1>2. CASE SkipCandidate(i)
  BY <1>2 DEF SkipCandidate, TypeOK, RunningIds
<1>3. CASE PrepareFails(i) \/ TickFails(i)
  <2>1. errors' \in 0..MaxErrors
    BY <1>3, FailsType DEF PrepareFails, TickFails
  <2>2. workspaces' = workspaces \/ workspaces' = workspaces \cup {i}
    BY <1>3 DEF PrepareFails, TickFails
  <2> QED
    BY <1>3, <2>1, <2>2 DEF PrepareFails, TickFails, TypeOK, RunningIds
<1>4. CASE ReviewGateDemotes(i)
  BY <1>4, StatesAssumption DEF ReviewGateDemotes, TypeOK, RunningIds, States
<1> QED
  BY <1>1, <1>2, <1>3, <1>4

\* One due retry.
LEMMA TypeRetry ==
    ASSUME TypeOK, RetriesCanFire, NEW i \in Issues,
           \/ RetryPollFails(i) \/ RetryTerminal(i) \/ RetryReleased(i)
           \/ RetryDropped(i) \/ RetryDispatched(i) \/ RetryDeferred(i)
    PROVE  TypeOK'
<1> USE DEF orch_vars, worker_vars, env_vars, bound_vars, loop_vars, Phases
<1> DEFINE attempt == retry_attempts[i].attempt
<1>0. Fires(i)
  BY DEF RetryPollFails, RetryTerminal, RetryReleased, RetryDropped,
         RetryDispatched, RetryDeferred
<1>1. /\ i \in RetryIds
      /\ todo' \subseteq Issues
      /\ attempt \in 0..MaxAttempt /\ attempt \in Nat /\ attempt + 1 \in Nat
  BY <1>0, FiredEntry, LimitsAssumption
<1>2. \A n \in Nat, kind \in RetryKinds :
        Reschedule(i, n, kind) =>
            /\ retry_attempts' \in [Issues -> RetryEntry \cup {NoRetry}]
            /\ retry_tokens' \subseteq Issues
  BY <1>1, RescheduleType
<1>3. CASE RetryPollFails(i)
  <2>1. /\ retry_attempts' \in [Issues -> RetryEntry \cup {NoRetry}]
        /\ retry_tokens' \subseteq Issues
    BY <1>1, <1>2, <1>3 DEF RetryPollFails, RetryKinds
  <2> QED
    BY <1>1, <1>3, <2>1, FailsType DEF RetryPollFails, TypeOK, RunningIds
<1>4. CASE RetryTerminal(i)
  <2>1. OrchTypeOK'
    BY <1>4, ForgetType DEF RetryTerminal
  <2>2. /\ pending_terminal_cleanup' \subseteq Issues
        /\ workspaces' \subseteq Issues
        /\ errors' \in 0..MaxErrors
    BY <1>4, FinishTerminalType DEF RetryTerminal
  <2> QED
    BY <1>1, <1>4, <2>1, <2>2 DEF RetryTerminal, TypeOK, OrchTypeOK
<1>5. CASE RetryReleased(i)
  <2>1. OrchTypeOK'
    BY <1>5, ForgetType DEF RetryReleased
  <2> QED
    BY <1>1, <1>5, <2>1 DEF RetryReleased, TypeOK, OrchTypeOK
<1>6. CASE RetryDropped(i)
  <2>1. retry_attempts' \in [Issues -> RetryEntry \cup {NoRetry}]
    BY <1>6 DEF RetryDropped, TypeOK
  <2>2. errors' \in 0..MaxErrors
    BY <1>6, FailsType DEF RetryDropped
  <2>3. tracker' \in [Issues -> States]
    BY <1>6, StatesAssumption DEF RetryDropped, TypeOK, States
  <2>4. workspaces' = workspaces \/ workspaces' = workspaces \cup {i}
    BY <1>6 DEF RetryDropped
  <2> QED
    BY <1>1, <1>6, <2>1, <2>2, <2>3, <2>4 DEF RetryDropped, TypeOK, RunningIds
<1>7. CASE RetryDispatched(i)
  <2>1. tracker[i] \in States
    BY DEF TypeOK
  <2>2. PICK host \in select_worker_host(retry_attempts[i].host) :
            DispatchIssue(i, tracker[i], attempt, host)
    BY <1>7 DEF RetryDispatched
  <2>3. host \in Places /\ host \in Eligible \cup {Local}
    BY <2>2, SelectedPlace
  <2>4. /\ running' \in [Issues -> RunAttempt \cup {NoAttempt}]
        /\ RunningIds' = RunningIds \cup {i}
        /\ claimed' \subseteq Issues
        /\ retry_attempts' \in [Issues -> RetryEntry \cup {NoRetry}]
        /\ dispatched' \subseteq DispatchedIssue
    BY <1>1, <2>1, <2>2, <2>3, DispatchIssueType
  <2> QED
    BY <1>1, <1>7, <2>4 DEF RetryDispatched, TypeOK
<1>8. CASE RetryDeferred(i)
  <2>1. /\ retry_attempts' \in [Issues -> RetryEntry \cup {NoRetry}]
        /\ retry_tokens' \subseteq Issues
    BY <1>1, <1>2, <1>8 DEF RetryDeferred, RetryKinds
  <2> QED
    BY <1>1, <1>8, <2>1 DEF RetryDeferred, TypeOK, RunningIds
<1> QED
  BY <1>3, <1>4, <1>5, <1>6, <1>7, <1>8

\* Spawning replaces the task of one attempt and adds one task.
LEMMA SpawnedAttempt ==
    ASSUME TypeOK, DispatchesAwaitOneSpawn, NEW d \in dispatched, Spawn(d)
    PROVE  /\ d.issue \in Issues
           /\ running' \in [Issues -> RunAttempt \cup {NoAttempt}]
           /\ RunningIds' = RunningIds
           /\ \A i \in Issues \ {d.issue} : running'[i] = running[i]
           /\ running'[d.issue].host = running[d.issue].host
           /\ \E r \in Runs, s \in States :
                /\ FreshRun(r)
                /\ running'[d.issue].task = r
                /\ tasks' = tasks \cup {[run |-> r, issue |-> d.issue,
                                        state |-> s, stage |-> "spawned"]}
<1>1. d.issue \in Issues /\ d.issue \in RunningIds
  BY DEF TypeOK, DispatchesAwaitOneSpawn, DispatchedIssue
<1>2. running[d.issue] \in RunAttempt
  BY <1>1 DEF TypeOK, RunningIds
<1>3. PICK r \in Runs, s \in States :
          /\ FreshRun(r)
          /\ running' = [running EXCEPT ![d.issue].task = r]
          /\ tasks' = tasks \cup {[run |-> r, issue |-> d.issue,
                                  state |-> s, stage |-> "spawned"]}
  BY DEF Spawn
<1> DEFINE new == [running[d.issue] EXCEPT !.task = r]
<1>4. /\ new \in RunAttempt /\ new # NoAttempt
      /\ new.task = r /\ new.host = running[d.issue].host
  BY <1>2, NoAttemptAssumption DEF RunAttempt
<1>5. running' = [running EXCEPT ![d.issue] = new]
  BY <1>3
<1> HIDE DEF new
<1>6. /\ running' \in [Issues -> RunAttempt \cup {NoAttempt}]
      /\ running'[d.issue] = new
      /\ \A i \in Issues \ {d.issue} : running'[i] = running[i]
  BY <1>1, <1>4, <1>5 DEF TypeOK
<1>7. RunningIds' = RunningIds
  BY <1>1, <1>4, <1>6 DEF RunningIds
<1> QED
  BY <1>1, <1>3, <1>4, <1>6, <1>7

\* Spawning a worker keeps the shape of the state.
LEMMA TypeSpawn ==
    ASSUME TypeOK, DispatchesAwaitOneSpawn, NEW d \in dispatched, Spawn(d)
    PROVE  TypeOK'
<1>1. tasks' \subseteq Task
  BY SpawnedAttempt DEF TypeOK, Task
<1>2. tracker' \in [Issues -> States]
  <2>1. PICK s \in States : \/ tracker' = [tracker EXCEPT ![d.issue] = s]
                           \/ tracker' = tracker
    BY DEF Spawn
  <2> QED
    BY <2>1 DEF TypeOK
<1>3. errors' \in 0..MaxErrors
  <2>1. Fails \/ UNCHANGED errors
    BY DEF Spawn
  <2> QED
    BY <2>1, FailsType
<1>4. dispatched' \subseteq DispatchedIssue
  BY DEF Spawn, TypeOK
<1> QED
  BY <1>1, <1>2, <1>3, <1>4, SpawnedAttempt DEF Spawn, TypeOK

\* Worker tasks.
LEMMA TypeWorker ==
    ASSUME TypeOK, NEW t \in tasks, WorkerStep(t)
    PROVE  TypeOK'
<1> USE DEF orch_vars, worker_vars, env_vars, bound_vars, loop_vars
<1>0. /\ t \in Task /\ t.run \in Runs /\ t.issue \in Issues
      /\ [t EXCEPT !.stage = "session"] \in Task
  BY DEF TypeOK, Task
<1>1. CASE WorkerStarts(t)
  BY <1>0, <1>1 DEF WorkerStarts, TypeOK, RunningIds
<1>2. CASE WorkerTurns(t)
  BY <1>0, <1>2 DEF WorkerTurns, TypeOK, RunningIds
<1>3. ASSUME NEW outcome \in Outcomes, WorkerExits(t, outcome)
      PROVE  TypeOK'
  <2>1. [run |-> t.run, issue |-> t.issue, outcome |-> outcome] \in WorkerResult
    BY <1>0 DEF WorkerResult
  <2>2. worker_results' \in Seq(WorkerResult)
    BY <1>3, <2>1 DEF WorkerExits, TypeOK
  <2> QED
    BY <1>0, <1>3, <2>2 DEF WorkerExits, TypeOK, RunningIds
<1> QED
  BY <1>1, <1>2, <1>3 DEF WorkerStep

\* Time, people and the process.
LEMMA TypeEnvironment ==
    ASSUME TypeOK, Environment
    PROVE  TypeOK'
<1> USE DEF orch_vars, worker_vars, env_vars, bound_vars, loop_vars
<1>1. ASSUME NEW i \in Issues, NEW s \in States, TrackerMoves(i, s)
      PROVE  TypeOK'
  <2>1. edits' \in 0..MaxEdits
    BY <1>1, LimitsAssumption DEF TrackerMoves, TypeOK
  <2>2. tracker' \in [Issues -> States]
    BY <1>1 DEF TrackerMoves, TypeOK
  <2> QED
    BY <1>1, <2>1, <2>2 DEF TrackerMoves, TypeOK, RunningIds
<1>2. ASSUME NEW i \in Issues, FallsSilent(i)
      PROVE  TypeOK'
  <2>1. silences' \in 0..MaxSilences
    BY <1>2, LimitsAssumption DEF FallsSilent, TypeOK
  <2>2. silent' \subseteq RunningIds'
    BY <1>2 DEF FallsSilent, TypeOK, RunningIds
  <2> QED
    BY <1>2, <2>1, <2>2 DEF FallsSilent, TypeOK
<1>3. ASSUME NEW i \in Issues, BackoffElapses(i)
      PROVE  TypeOK'
  <2>1. retry_attempts[i] \in RetryEntry
    BY <1>3 DEF BackoffElapses, TypeOK, RetryIds
  <2>2. [retry_attempts[i] EXCEPT !.due = TRUE] \in RetryEntry
    BY <2>1 DEF RetryEntry
  <2>3. retry_attempts' = [retry_attempts EXCEPT
                              ![i] = [retry_attempts[i] EXCEPT !.due = TRUE]]
    BY <1>3 DEF BackoffElapses
  <2>4. retry_attempts' \in [Issues -> RetryEntry \cup {NoRetry}]
    BY <2>2, <2>3 DEF TypeOK
  <2> QED
    BY <1>3, <2>4 DEF BackoffElapses, TypeOK, RunningIds
<1>4. CASE Restart
  <2>1. errors' \in 0..MaxErrors
    BY <1>4, FailsType DEF Restart
  <2>2. /\ running' \in [Issues -> RunAttempt \cup {NoAttempt}]
        /\ retry_attempts' \in [Issues -> RetryEntry \cup {NoRetry}]
    BY <1>4 DEF Restart
  <2>3. workspaces' \subseteq Issues
    BY <1>4 DEF Restart, TypeOK
  <2> QED
    BY <1>4, <2>1, <2>2, <2>3 DEF Restart, TypeOK, RunningIds, Phases
<1> QED
  BY <1>1, <1>2, <1>3, <1>4 DEF Environment

\* Every step of the program and of its surroundings keeps the shape of the
\* state.
LEMMA TypeStep ==
    ASSUME TypeOK, RetriesCanFire, DispatchesAwaitOneSpawn, [Next]_vars
    PROVE  TypeOK'
<1>1. CASE UNCHANGED vars
  BY <1>1 DEF vars, orch_vars, worker_vars, env_vars, bound_vars, loop_vars,
              TypeOK, RunningIds
<1>2. CASE Poll
  BY <1>2, TypePoll, TypeCandidate, TypeRetry, TypeSpawn DEF Poll
<1> QED
  BY <1>1, <1>2, TypeSelect, TypeWorker, TypeEnvironment DEF Next

----------------------------------------------------------------------------
(* Claims and slots.  Whatever a step is, it does one of four things to the *)
(* attempts: nothing, end those of a set, start one, or give one its task.  *)

Ended(S) ==
    /\ running' = [i \in Issues |-> IF i \in S THEN NoAttempt ELSE running[i]]
    /\ claimed' = claimed \ S

Started(i) ==
    /\ Admissible(i)
    /\ RunningIds' = RunningIds \cup {i}
    /\ claimed' = claimed \cup {i}
    /\ running'[i].task = NoTask
    /\ running'[i].host \in Eligible \cup {Local}
    /\ \A j \in Issues \ {i} : running'[j] = running[j]

\* dispatch_issue starts one attempt, and disturbs none.
LEMMA DispatchStarts ==
    ASSUME TypeOK, NEW i \in Issues, Admissible(i), NEW s \in States,
           NEW attempt \in 0..MaxAttempt, NEW host \in Places,
           host \in Eligible \cup {Local},
           DispatchIssue(i, s, attempt, host)
    PROVE  Started(i)
<1> DEFINE new == [attempt |-> attempt, host |-> host, task |-> NoTask]
<1>1. running' = [running EXCEPT ![i] = new] /\ claimed' = claimed \cup {i}
  BY DEF DispatchIssue
<1>2. running'[i] = new /\ \A j \in Issues \ {i} : running'[j] = running[j]
  BY <1>1 DEF TypeOK
<1>3. RunningIds' = RunningIds \cup {i}
  BY DispatchIssueType
<1> QED
  BY <1>1, <1>2, <1>3 DEF Started

\* What a step may do to the attempts: end some, start one, or give one that
\* exists its task.
LEMMA AttemptChanges ==
    ASSUME IInv, [Next]_vars
    PROVE  \/ UNCHANGED <<running, claimed>>
           \/ \E S \in SUBSET Issues : Ended(S)
           \/ \E i \in Issues : Started(i)
           \/ \E d \in dispatched : Spawn(d)
<1> USE DEF orch_vars
<1> DEFINE Goal == \/ UNCHANGED <<running, claimed>>
                   \/ \E S \in SUBSET Issues : Ended(S)
                   \/ \E i \in Issues : Started(i)
                   \/ \E d \in dispatched : Spawn(d)
<1>0. TypeOK /\ RetriesCanFire
  BY DEF IInv
<1>1. CASE UNCHANGED vars
  BY <1>1 DEF vars
<1>2. CASE Select
  <2>1. CASE HandleResult
    <3> DEFINE i == Head(worker_results).issue
               o == Head(worker_results).outcome
    <3>1. \/ UNCHANGED <<running, claimed>>
          \/ i \in RunningIds /\ CompleteRunning({i}, o, sessions_heard, silent_unheard)
      BY <2>1 DEF HandleResult
    <3>2. i \in RunningIds => {i} \in SUBSET Issues
      BY DEF RunningIds
    <3> QED
      BY <3>1, <3>2 DEF CompleteRunning, Ended
  <2> QED
    BY <1>2, <2>1 DEF Select, PollDue, IngestEvents, ResultsDrained
<1>3. CASE DetectStalled \/ Reconcile
  <2>1. CASE DetectStalled
    <3>1. silent \in SUBSET Issues
      BY <1>0 DEF TypeOK, RunningIds
    <3> QED
      BY <2>1, <3>1 DEF DetectStalled, CompleteRunning, Ended
  <2>2. CASE Reconcile
    <3> DEFINE S == {i \in RunningIds : tracker[i] \in TerminalStates}
                      \cup {i \in RunningIds : tracker[i] \in OtherStates}
    <3>1. S \in SUBSET Issues
      BY DEF RunningIds
    <3>2. Forget(S)
      BY <2>2 DEF Reconcile
    <3> QED
      BY <3>1, <3>2 DEF Forget, Ended
  <2> QED
    BY <1>3, <2>1, <2>2
<1>4. CASE \/ ReconcileFails \/ FetchCandidates \/ FetchFails \/ DispatchDone
           \/ SpawnDone \/ CollectDue \/ RetriesDone
  BY <1>4 DEF ReconcileFails, FetchCandidates, FetchFails, DispatchDone,
              SpawnDone,
              CollectDue, RetriesDone
<1>5. ASSUME NEW i \in Issues,
             \/ SkipCandidate(i) \/ PrepareFails(i) \/ ReviewGateDemotes(i)
             \/ TickFails(i) \/ RetryPollFails(i) \/ RetryDropped(i)
             \/ RetryDeferred(i)
      PROVE  UNCHANGED <<running, claimed>>
  BY <1>5 DEF SkipCandidate, PrepareFails, ReviewGateDemotes, TickFails,
              RetryPollFails, RetryDropped, RetryDeferred
<1>6. ASSUME NEW i \in Issues, RetryTerminal(i) \/ RetryReleased(i)
      PROVE  Ended({i})
  BY <1>6 DEF RetryTerminal, RetryReleased, Forget, Ended
<1>7. ASSUME NEW i \in Issues, DispatchCandidate(i)
      PROVE  Started(i)
  <2>1. tracker[i] \in States /\ Admissible(i)
    BY <1>0, <1>7 DEF TypeOK, DispatchCandidate, should_dispatch
  <2>2. PICK host \in select_worker_host(Local) :
            DispatchIssue(i, tracker[i], 0, host)
    BY <1>7 DEF DispatchCandidate
  <2>3. host \in Places /\ host \in Eligible \cup {Local} /\ 0 \in 0..MaxAttempt
    BY <2>2, SelectedPlace, LimitsAssumption
  <2> QED
    BY <1>0, <2>1, <2>2, <2>3, DispatchStarts
<1>8. ASSUME NEW i \in Issues, RetryDispatched(i)
      PROVE  Started(i)
  <2> DEFINE attempt == retry_attempts[i].attempt
  <2>1. tracker[i] \in States /\ Admissible(i) /\ Fires(i)
    BY <1>0, <1>8 DEF TypeOK, RetryDispatched, should_dispatch
  <2>2. PICK host \in select_worker_host(retry_attempts[i].host) :
            DispatchIssue(i, tracker[i], attempt, host)
    BY <1>8 DEF RetryDispatched
  <2>3. host \in Places /\ host \in Eligible \cup {Local}
    BY <2>2, SelectedPlace
  <2>4. attempt \in 0..MaxAttempt
    BY <1>0, <2>1, FiredEntry
  <2> QED
    BY <1>0, <2>1, <2>2, <2>3, <2>4, DispatchStarts
<1>9. ASSUME NEW t \in tasks, WorkerStep(t)
      PROVE  UNCHANGED <<running, claimed>>
  BY <1>9 DEF WorkerStep, WorkerStarts, WorkerTurns, WorkerExits
<1>10. CASE Environment
  <2>1. CASE Restart
    <3>1. claimed \ Issues = {} /\ Issues \in SUBSET Issues
      BY <1>0 DEF TypeOK
    <3>2. Ended(Issues)
      BY <2>1, <3>1 DEF Restart, Ended
    <3> QED
      BY <3>1, <3>2
  <2> QED
    BY <1>10, <2>1 DEF Environment, TrackerMoves, FallsSilent, BackoffElapses
<1>11. \A i \in Issues : {i} \in SUBSET Issues
  OBVIOUS
<1>12. CASE Poll
  <2> HIDE DEF Goal
  <2>1. ASSUME NEW i \in Issues, RetryTerminal(i) \/ RetryReleased(i)
        PROVE  Goal
    BY <1>6, <1>11, <2>1 DEF Goal
  <2>2. ASSUME NEW i \in Issues,
               \/ SkipCandidate(i) \/ PrepareFails(i) \/ ReviewGateDemotes(i)
               \/ TickFails(i) \/ RetryPollFails(i) \/ RetryDropped(i)
               \/ RetryDeferred(i)
        PROVE  Goal
    BY <1>5, <2>2 DEF Goal
  <2>3. ASSUME NEW i \in Issues, DispatchCandidate(i) \/ RetryDispatched(i)
        PROVE  Goal
    BY <1>7, <1>8, <2>3 DEF Goal
  <2>4. ASSUME \/ DetectStalled \/ Reconcile
               \/ ReconcileFails \/ FetchCandidates \/ FetchFails \/ DispatchDone
               \/ SpawnDone \/ CollectDue \/ RetriesDone
        PROVE  Goal
    BY <1>3, <1>4, <2>4 DEF Goal
  <2>5. ASSUME NEW d \in dispatched, Spawn(d)
        PROVE  Goal
    BY <2>5 DEF Goal
  <2>6. Goal
    BY <1>12, <2>1, <2>2, <2>3, <2>4, <2>5 DEF Poll
  <2> QED
    BY <2>6 DEF Goal
<1> QED
  BY <1>1, <1>2, <1>9, <1>10, <1>12 DEF Next

\* ClaimsMatchRunning is kept.
LEMMA ClaimsStep ==
    ASSUME IInv, [Next]_vars
    PROVE  ClaimsMatchRunning'
<1>0. claimed = RunningIds
  BY DEF IInv, ClaimsMatchRunning
<1>1. CASE UNCHANGED <<running, claimed>>
  BY <1>0, <1>1 DEF ClaimsMatchRunning, RunningIds
<1>2. ASSUME NEW S \in SUBSET Issues, Ended(S)
      PROVE  ClaimsMatchRunning'
  <2>1. RunningIds' = RunningIds \ S
    BY <1>2 DEF Ended, RunningIds
  <2> QED
    BY <1>0, <1>2, <2>1 DEF ClaimsMatchRunning, Ended
<1>3. ASSUME NEW i \in Issues, Started(i)
      PROVE  ClaimsMatchRunning'
  BY <1>0, <1>3 DEF ClaimsMatchRunning, Started
<1>4. ASSUME NEW d \in dispatched, Spawn(d)
      PROVE  ClaimsMatchRunning'
  <2>1. RunningIds' = RunningIds
    BY <1>4, SpawnedAttempt DEF IInv
  <2> QED
    BY <1>0, <1>4, <2>1 DEF ClaimsMatchRunning, Spawn
<1> QED
  BY <1>1, <1>2, <1>3, <1>4, AttemptChanges

\* SlotsRespected is kept: only an admitted issue adds to RunningIds, and
\* admission leaves room for one.
LEMMA SlotsStep ==
    ASSUME IInv, [Next]_vars
    PROVE  SlotsRespected'
<1>0. /\ IsFiniteSet(RunningIds)
      /\ Cardinality(RunningIds) \in Nat
      /\ Cardinality(RunningIds) <= MaxConcurrent
  BY IssuesAssumption, FS_Subset, FS_CardinalityType DEF RunningIds, IInv,
     SlotsRespected
<1>1. ASSUME RunningIds' \subseteq RunningIds
      PROVE  SlotsRespected'
  <2>1. Cardinality(RunningIds') <= Cardinality(RunningIds)
    BY <1>0, <1>1, FS_Subset
  <2>2. Cardinality(RunningIds') \in Nat
    BY <1>0, <1>1, FS_Subset, FS_CardinalityType
  <2> QED
    BY <1>0, <2>1, <2>2, LimitsAssumption DEF SlotsRespected
<1>2. CASE UNCHANGED <<running, claimed>>
  <2>1. RunningIds' = RunningIds
    BY <1>2 DEF RunningIds
  <2> QED
    BY <1>1, <2>1
<1>3. ASSUME NEW S \in SUBSET Issues, Ended(S)
      PROVE  SlotsRespected'
  <2>1. RunningIds' \subseteq RunningIds
    BY <1>3 DEF Ended, RunningIds
  <2> QED
    BY <1>1, <2>1
<1>4. ASSUME NEW i \in Issues, Started(i)
      PROVE  SlotsRespected'
  <2>1. i \notin RunningIds /\ MaxConcurrent - Cardinality(RunningIds) > 0
    BY <1>4 DEF Started, Admissible, available_slots, RunningIds
  <2>2. Cardinality(RunningIds \cup {i}) = Cardinality(RunningIds) + 1
    BY <1>0, <2>1, FS_AddElement
  <2>3. Cardinality(RunningIds \cup {i}) <= MaxConcurrent
    BY <1>0, <2>1, <2>2, LimitsAssumption
  <2>4. RunningIds' = RunningIds \cup {i}
    BY <1>4 DEF Started
  <2> QED
    BY <2>3, <2>4 DEF SlotsRespected
<1>5. ASSUME NEW d \in dispatched, Spawn(d)
      PROVE  SlotsRespected'
  <2>1. RunningIds' = RunningIds
    BY <1>5, SpawnedAttempt DEF IInv
  <2> QED
    BY <1>1, <2>1
<1> QED
  BY <1>2, <1>3, <1>4, <1>5, AttemptChanges

\* The running attempts placed on h.
On(h) == {i \in RunningIds : running[i].host = h}

\* HostCapRespected is kept: an attempt that starts on a host was given it as
\* an eligible one, and an attempt never moves.
LEMMA HostCapStep ==
    ASSUME IInv, [Next]_vars
    PROVE  HostCapRespected'
<1> SUFFICES ASSUME NEW h \in Hosts
             PROVE  Cardinality(On(h)') <= HostCap
  BY DEF HostCapRespected, Load, On
<1>0. /\ IsFiniteSet(On(h))
      /\ Cardinality(On(h)) \in Nat
      /\ Cardinality(On(h)) <= HostCap
  BY IssuesAssumption, FS_Subset, FS_CardinalityType
     DEF RunningIds, On, IInv, HostCapRespected, Load
<1>1. ASSUME On(h)' \subseteq On(h)
      PROVE  Cardinality(On(h)') <= HostCap
  <2>1. Cardinality(On(h)') <= Cardinality(On(h))
    BY <1>0, <1>1, FS_Subset
  <2>2. Cardinality(On(h)') \in Nat
    BY <1>0, <1>1, FS_Subset, FS_CardinalityType
  <2> QED
    BY <1>0, <2>1, <2>2, LimitsAssumption
<1>2. CASE UNCHANGED <<running, claimed>>
  <2>1. On(h)' = On(h)
    BY <1>2 DEF RunningIds, On
  <2> QED
    BY <1>1, <2>1
<1>3. ASSUME NEW S \in SUBSET Issues, Ended(S)
      PROVE  Cardinality(On(h)') <= HostCap
  <2>1. On(h)' \subseteq On(h)
    BY <1>3 DEF Ended, RunningIds, On
  <2> QED
    BY <1>1, <2>1
<1>4. ASSUME NEW i \in Issues, Started(i)
      PROVE  Cardinality(On(h)') <= HostCap
  <2>1. /\ i \notin RunningIds
        /\ RunningIds' = RunningIds \cup {i}
        /\ \A j \in RunningIds : running'[j] = running[j]
    BY <1>4 DEF Started, Admissible, RunningIds
  <2>2. CASE running'[i].host = h
    <3>1. On(h)' = On(h) \cup {i} /\ i \notin On(h)
      BY <2>1, <2>2 DEF On
    <3>2. Cardinality(On(h)) < HostCap
      BY <1>4, <2>2, LimitsAssumption DEF Started, Eligible, Load, On
    <3>3. Cardinality(On(h) \cup {i}) = Cardinality(On(h)) + 1
      BY <1>0, <3>1, FS_AddElement
    <3> QED
      BY <1>0, <3>1, <3>2, <3>3, LimitsAssumption
  <2>3. CASE running'[i].host # h
    <3>1. On(h)' \subseteq On(h)
      BY <2>1, <2>3 DEF On
    <3> QED
      BY <1>1, <3>1
  <2> QED
    BY <2>2, <2>3
<1>5. ASSUME NEW d \in dispatched, Spawn(d)
      PROVE  Cardinality(On(h)') <= HostCap
  <2>1. /\ RunningIds' = RunningIds
        /\ running'[d.issue].host = running[d.issue].host
        /\ \A i \in Issues \ {d.issue} : running'[i] = running[i]
    BY <1>5, SpawnedAttempt DEF IInv
  <2>2. On(h)' = On(h)
    BY <2>1 DEF On, RunningIds
  <2> QED
    BY <1>1, <2>2
<1> QED
  BY <1>2, <1>3, <1>4, <1>5, AttemptChanges

----------------------------------------------------------------------------
(* Retries *)

\* A handler that reschedules the retry it has just taken out.
LEMMA RescheduleCanFire ==
    ASSUME TypeOK, RetriesCanFire, NEW i, Fires(i),
           NEW attempt, NEW kind, Reschedule(i, attempt, kind),
           UNCHANGED <<phase, running>>
    PROVE  RetriesCanFire'
<1>1. i \in Issues /\ i \notin RunningIds /\ i \in RetryIds
  BY FiredEntry
<1>2. RunningIds' = RunningIds
  BY DEF RunningIds
<1>3. /\ \A j \in Issues \ {i} : retry_attempts'[j] = retry_attempts[j]
      /\ retry_tokens' = retry_tokens \cup {i}
  BY DEF Reschedule, TypeOK
<1>4. RetryIds' \subseteq RetryIds \cup {i} /\ RetryIds \ {i} \subseteq RetryIds'
  BY <1>3 DEF RetryIds
<1>5. phase' = "retry" => todo' \subseteq RetryIds'
  BY <1>4 DEF RetriesCanFire, Fires
<1> QED
  BY <1>1, <1>2, <1>3, <1>4, <1>5 DEF RetriesCanFire

\* A handler that takes out the retries of S, with their tokens or with an
\* attempt that replaces them, and leaves those of other issues alone.
LEMMA RemovalCanFire ==
    ASSUME RetriesCanFire, NEW S \in SUBSET Issues,
           RetryIds' = RetryIds \ S,
           retry_tokens \ S \subseteq retry_tokens',
           RunningIds' \subseteq RunningIds \cup S,
           phase' = "retry" => phase = "retry" /\ todo' \subseteq todo \ S
    PROVE  RetriesCanFire'
  BY DEF RetriesCanFire

\* A failed or continued attempt turns into a retry.
LEMMA CompletionCanFire ==
    ASSUME TypeOK, RetriesCanFire, NEW S \in SUBSET RunningIds,
           NEW outcome \in Outcomes, NEW sessions, NEW quiet,
           CompleteRunning(S, outcome, sessions, quiet),
           phase' # "retry"
    PROVE  RetriesCanFire'
<1>1. RunningIds' = RunningIds \ S
  BY DEF CompleteRunning, RunningIds
<1>2. /\ RetryIds \cap S = {}
      /\ RetryIds \subseteq retry_tokens
      /\ RetryIds \cap RunningIds = {}
  BY DEF RetriesCanFire
<1>3. RetryIds' \subseteq RetryIds \cup S
  BY DEF CompleteRunning, RetryIds
<1>4. CASE outcome = "done"
  <2>1. RetryIds' \subseteq RetryIds
    BY <1>3, <1>4 DEF CompleteRunning, RetryIds, RetryAfter
  <2> QED
    BY <1>1, <1>2, <1>4, <2>1 DEF RetriesCanFire, CompleteRunning
<1>5. CASE outcome # "done"
  <2>1. retry_tokens' = retry_tokens \cup S
    BY <1>5 DEF CompleteRunning
  <2> QED
    BY <1>1, <1>2, <1>3, <2>1 DEF RetriesCanFire
<1> QED
  BY <1>4, <1>5

\* Forgetting S takes its retries out.
LEMMA ForgetRemoves ==
    ASSUME NEW S \in SUBSET Issues, Forget(S)
    PROVE  /\ RetryIds' = RetryIds \ S
           /\ retry_tokens \ S \subseteq retry_tokens'
           /\ RunningIds' = RunningIds \ S
  BY DEF Forget, RetryIds, RunningIds

\* RetriesCanFire is kept.
LEMMA RetriesStep ==
    ASSUME IInv, [Next]_vars
    PROVE  RetriesCanFire'
<1> USE DEF orch_vars
<1>0. /\ TypeOK
      /\ RetriesCanFire
      /\ RetryIds \subseteq Issues
      /\ RetryIds \cap RunningIds = {}
  BY DEF IInv, RetriesCanFire, RetryIds
<1>q. ASSUME UNCHANGED <<running, retry_attempts, retry_tokens>>,
             phase' = "retry" => phase = "retry" /\ todo' \subseteq todo
      PROVE  RetriesCanFire'
  BY <1>0, <1>q DEF RetriesCanFire, RetryIds, RunningIds
<1>1. CASE UNCHANGED vars
  BY <1>1, <1>q DEF vars, loop_vars
<1>2. CASE Select
  <2>1. CASE HandleResult
    <3> DEFINE i == Head(worker_results).issue
               o == Head(worker_results).outcome
    <3>1. phase' # "retry"
      BY <2>1 DEF HandleResult
    <3>2. CASE i \in RunningIds
      <4>1. CompleteRunning({i}, o, sessions_heard, silent_unheard)
        BY <2>1, <3>2 DEF HandleResult
      <4>2. o \in Outcomes
        BY <1>0, <2>1, FirstResult DEF HandleResult
      <4> QED
        BY <1>0, <3>1, <3>2, <4>1, <4>2, CompletionCanFire
    <3>3. CASE i \notin RunningIds
      <4>1. UNCHANGED <<running, retry_attempts, retry_tokens>>
        BY <2>1, <3>3 DEF HandleResult
      <4> QED
        BY <1>q, <3>1, <4>1
    <3> QED
      BY <3>2, <3>3
  <2>2. CASE PollDue \/ IngestEvents \/ ResultsDrained
    BY <1>q, <2>2 DEF PollDue, IngestEvents, ResultsDrained, loop_vars
  <2> QED
    BY <1>2, <2>1, <2>2 DEF Select
<1>3. CASE DetectStalled
  <2>1. CASE StallDetection
    BY <1>0, <1>3, <2>1, CompletionCanFire DEF DetectStalled, TypeOK, Outcomes
  <2>2. CASE ~StallDetection
    BY <1>q, <1>3, <2>2 DEF DetectStalled
  <2> QED
    BY <2>1, <2>2
<1>4. CASE Reconcile
  <2> DEFINE S == {i \in RunningIds : tracker[i] \in TerminalStates}
                    \cup {i \in RunningIds : tracker[i] \in OtherStates}
  <2>1. S \in SUBSET Issues
    BY DEF RunningIds
  <2>2. Forget(S) /\ phase' # "retry"
    BY <1>4 DEF Reconcile
  <2> QED
    BY <1>0, <2>1, <2>2, ForgetRemoves, RemovalCanFire
<1>5. CASE \/ ReconcileFails \/ FetchCandidates \/ FetchFails \/ DispatchDone
           \/ SpawnDone \/ RetriesDone
  BY <1>q, <1>5 DEF ReconcileFails, FetchCandidates, FetchFails, DispatchDone,
                    SpawnDone, RetriesDone
<1>6. CASE CollectDue
  BY <1>0, <1>6 DEF CollectDue, RetriesCanFire, RetryIds, RunningIds
<1>7. ASSUME NEW i \in Issues,
             \/ SkipCandidate(i) \/ PrepareFails(i) \/ ReviewGateDemotes(i)
             \/ TickFails(i)
      PROVE  RetriesCanFire'
  BY <1>q, <1>7 DEF SkipCandidate, PrepareFails, ReviewGateDemotes, TickFails
<1>8. ASSUME NEW i \in Issues, DispatchCandidate(i) \/ RetryDispatched(i)
      PROVE  RetriesCanFire'
  <2>1. PICK host, attempt : DispatchIssue(i, tracker[i], attempt, host)
    BY <1>8 DEF DispatchCandidate, RetryDispatched
  <2>2. RetryIds' = RetryIds \ {i} /\ RunningIds' \subseteq RunningIds \cup {i}
    BY <1>0, <2>1 DEF DispatchIssue, RetryIds, RunningIds, TypeOK
  <2>3. retry_tokens \ {i} \subseteq retry_tokens'
    BY <1>8 DEF DispatchCandidate, RetryDispatched
  <2>4. phase' = "retry" => phase = "retry" /\ todo' \subseteq todo \ {i}
    BY <1>8 DEF DispatchCandidate, RetryDispatched, Fires
  <2> QED
    BY <1>0, <2>2, <2>3, <2>4, RemovalCanFire
<1>9. ASSUME NEW i \in Issues, RetryPollFails(i) \/ RetryDeferred(i)
      PROVE  RetriesCanFire'
  <2>1. /\ Fires(i)
        /\ \E attempt, kind : Reschedule(i, attempt, kind)
        /\ UNCHANGED <<phase, running>>
    BY <1>9 DEF RetryPollFails, RetryDeferred
  <2> QED
    BY <1>0, <2>1, RescheduleCanFire
<1>10. ASSUME NEW i \in Issues, RetryTerminal(i) \/ RetryReleased(i)
       PROVE  RetriesCanFire'
  <2>1. Forget({i}) /\ Fires(i) /\ UNCHANGED phase /\ {i} \in SUBSET Issues
    BY <1>10 DEF RetryTerminal, RetryReleased
  <2>2. phase = "retry" /\ todo' \subseteq todo \ {i}
    BY <2>1 DEF Fires
  <2> QED
    BY <1>0, <2>1, <2>2, ForgetRemoves, RemovalCanFire
<1>11. ASSUME NEW i \in Issues, RetryDropped(i)
       PROVE  RetriesCanFire'
  <2>1. RetryIds' = RetryIds \ {i} /\ RunningIds' = RunningIds
    BY <1>0, <1>11 DEF RetryDropped, RetryIds, RunningIds, TypeOK
  <2>2. /\ retry_tokens \ {i} \subseteq retry_tokens'
        /\ phase = "retry" /\ todo' \subseteq todo \ {i}
    BY <1>11 DEF RetryDropped, Fires
  <2> QED
    BY <1>0, <2>1, <2>2, RemovalCanFire
<1>12. ASSUME NEW d \in dispatched, Spawn(d)
       PROVE  RetriesCanFire'
  <2>1. RunningIds' = RunningIds
    BY <1>12, SpawnedAttempt DEF IInv
  <2>2. UNCHANGED <<retry_attempts, retry_tokens, phase, todo>>
    BY <1>12 DEF Spawn
  <2> QED
    BY <1>0, <2>1, <2>2 DEF RetriesCanFire, RetryIds
<1>13. ASSUME NEW t \in tasks, WorkerStep(t)
       PROVE  RetriesCanFire'
  BY <1>q, <1>13 DEF WorkerStep, WorkerStarts, WorkerTurns, WorkerExits,
                     loop_vars
<1>14. CASE Environment
  <2>1. CASE Restart
    BY <2>1 DEF Restart, RetriesCanFire, RetryIds, RunningIds
  <2>2. ASSUME NEW i \in Issues, BackoffElapses(i)
        PROVE  RetriesCanFire'
    <3>1. RetryIds' \subseteq RetryIds
      BY <1>0, <2>2 DEF BackoffElapses, RetryIds, TypeOK
    <3>2. UNCHANGED <<retry_tokens, running>> /\ phase' # "retry"
      BY <2>2 DEF BackoffElapses, loop_vars
    <3> QED
      BY <1>0, <3>1, <3>2 DEF RetriesCanFire, RunningIds
  <2>3. ASSUME NEW i \in Issues, NEW s \in States, TrackerMoves(i, s) \/ FallsSilent(i)
        PROVE  RetriesCanFire'
    BY <1>q, <2>3 DEF TrackerMoves, FallsSilent, loop_vars
  <2>4. States # {}
    BY StatesAssumption DEF States
  <2> QED
    BY <1>14, <2>1, <2>2, <2>3, <2>4 DEF Environment
<1>15. CASE Poll
  BY <1>3, <1>4, <1>5, <1>6, <1>7, <1>8, <1>9, <1>10, <1>11, <1>12, <1>15
     DEF Poll
<1> QED
  BY <1>1, <1>2, <1>13, <1>14, <1>15 DEF Next

----------------------------------------------------------------------------
(* Dispatches *)

DispatchPhases == {"dispatch", "spawn", "retry", "retry_spawn"}

\* The next state has fewer dispatches, and the attempts of those that stay
\* are what they were.
LEMMA DispatchesKept ==
    ASSUME DispatchesAwaitOneSpawn, dispatched' \subseteq dispatched,
           \A d \in dispatched' : running'[d.issue] = running[d.issue],
           \A d \in dispatched' : d.issue \in Issues,
           phase' \notin DispatchPhases => dispatched' = {}
    PROVE  DispatchesAwaitOneSpawn'
<1>1. \A d \in dispatched' : d.issue \in RunningIds' /\ running'[d.issue].task = NoTask
  BY DEF DispatchesAwaitOneSpawn, RunningIds
<1> QED
  BY <1>1 DEF DispatchesAwaitOneSpawn, DispatchPhases

\* dispatch_issue adds one dispatch, of an issue that had none.
LEMMA DispatchAdds ==
    ASSUME TypeOK, DispatchesAwaitOneSpawn, NEW i \in Issues,
           Started(i), NEW s, dispatched' = dispatched \cup {[issue |-> i, state |-> s]},
           phase \in DispatchPhases, phase' = phase
    PROVE  DispatchesAwaitOneSpawn'
<1>1. i \notin RunningIds
  BY DEF Started, Admissible, RunningIds
<1>2. \A d \in dispatched : d.issue \in Issues \ {i}
  BY <1>1 DEF DispatchesAwaitOneSpawn, RunningIds
<1>3. \A d \in dispatched : d.issue \in RunningIds' /\ running'[d.issue].task = NoTask
  BY <1>2 DEF Started, DispatchesAwaitOneSpawn
<1>4. i \in RunningIds' /\ running'[i].task = NoTask
  BY DEF Started
<1> DEFINE new == [issue |-> i, state |-> s]
<1>5. new.issue = i
  OBVIOUS
<1> HIDE DEF new
<1>6. dispatched' = dispatched \cup {new}
  BY DEF new
<1>7. /\ \A d \in dispatched' : d.issue \in RunningIds' /\ running'[d.issue].task = NoTask
      /\ \A d, e \in dispatched' : d.issue = e.issue => d = e
  BY <1>2, <1>3, <1>4, <1>5, <1>6 DEF DispatchesAwaitOneSpawn
<1> QED
  BY <1>7 DEF DispatchesAwaitOneSpawn, DispatchPhases

\* DispatchesAwaitOneSpawn is kept.
LEMMA DispatchesStep ==
    ASSUME IInv, [Next]_vars
    PROVE  DispatchesAwaitOneSpawn'
<1> USE DEF orch_vars
<1>0. /\ TypeOK
      /\ RetriesCanFire
      /\ DispatchesAwaitOneSpawn
      /\ \A d \in dispatched : d.issue \in Issues /\ d.issue \in RunningIds
      /\ phase \notin DispatchPhases => dispatched = {}
  BY DEF IInv, DispatchesAwaitOneSpawn, RunningIds, DispatchPhases
<1>e. ASSUME dispatched' = {}
      PROVE  DispatchesAwaitOneSpawn'
  BY <1>e DEF DispatchesAwaitOneSpawn
<1>q. ASSUME UNCHANGED <<running, dispatched>>,
             phase' \in DispatchPhases \/ phase' = phase \/ dispatched = {}
      PROVE  DispatchesAwaitOneSpawn'
  BY <1>0, <1>q, DispatchesKept
<1>1. CASE UNCHANGED vars
  BY <1>1, <1>q DEF vars, loop_vars
<1>2. CASE Select
  <2>1. dispatched = {}
    BY <1>0, <1>2 DEF Select, PollDue, IngestEvents, HandleResult,
                      ResultsDrained,
                      DispatchPhases
  <2>2. dispatched' = dispatched
    BY <1>2 DEF Select, PollDue, IngestEvents, HandleResult, ResultsDrained,
                loop_vars
  <2> QED
    BY <1>e, <2>1, <2>2
<1>3. CASE \/ DetectStalled \/ Reconcile \/ ReconcileFails \/ FetchCandidates
           \/ FetchFails \/ CollectDue
  <2>1. dispatched = {}
    BY <1>0, <1>3 DEF DetectStalled, Reconcile, ReconcileFails, FetchCandidates,
                      FetchFails, CollectDue, DispatchPhases
  <2>2. dispatched' = dispatched
    BY <1>3 DEF DetectStalled, Reconcile, ReconcileFails, FetchCandidates,
                FetchFails, CollectDue
  <2> QED
    BY <1>e, <2>1, <2>2
<1>4. CASE DispatchDone \/ RetriesDone
  BY <1>q, <1>4 DEF DispatchDone, RetriesDone, DispatchPhases
<1>5. CASE SpawnDone
  BY <1>e, <1>5 DEF SpawnDone
<1>6. ASSUME NEW i \in Issues,
             SkipCandidate(i) \/ PrepareFails(i) \/ ReviewGateDemotes(i)
      PROVE  DispatchesAwaitOneSpawn'
  BY <1>q, <1>6 DEF SkipCandidate, PrepareFails, ReviewGateDemotes
<1>7. ASSUME NEW i \in Issues, TickFails(i)
      PROVE  DispatchesAwaitOneSpawn'
  BY <1>e, <1>7 DEF TickFails
<1>8. ASSUME NEW i \in Issues, RetryPollFails(i) \/ RetryDeferred(i) \/ RetryDropped(i)
      PROVE  DispatchesAwaitOneSpawn'
  BY <1>q, <1>8 DEF RetryPollFails, RetryDeferred, RetryDropped
<1>9. ASSUME NEW i \in Issues, RetryTerminal(i) \/ RetryReleased(i)
      PROVE  DispatchesAwaitOneSpawn'
  <2>1. /\ Fires(i) /\ Forget({i})
        /\ UNCHANGED <<phase, dispatched>>
    BY <1>9 DEF RetryTerminal, RetryReleased
  <2>2. i \notin RunningIds
    BY <1>0, <2>1, FiredEntry
  <2>3. \A j \in RunningIds : running'[j] = running[j]
    BY <2>1, <2>2 DEF Forget, RunningIds
  <2> QED
    BY <1>0, <2>1, <2>3, DispatchesKept
<1>10. ASSUME NEW i \in Issues, DispatchCandidate(i)
       PROVE  DispatchesAwaitOneSpawn'
  <2>1. tracker[i] \in States /\ Admissible(i)
    BY <1>0, <1>10 DEF TypeOK, DispatchCandidate, should_dispatch
  <2>2. PICK host \in select_worker_host(Local) :
            DispatchIssue(i, tracker[i], 0, host)
    BY <1>10 DEF DispatchCandidate
  <2>3. host \in Places /\ host \in Eligible \cup {Local} /\ 0 \in 0..MaxAttempt
    BY <2>2, SelectedPlace, LimitsAssumption
  <2>4. Started(i)
    BY <1>0, <2>1, <2>2, <2>3, DispatchStarts
  <2>5. dispatched' = dispatched \cup {[issue |-> i, state |-> tracker[i]]}
    BY <2>2 DEF DispatchIssue
  <2>6. phase \in DispatchPhases /\ phase' = phase
    BY <1>10 DEF DispatchCandidate, DispatchPhases
  <2> QED
    BY <1>0, <2>4, <2>5, <2>6, DispatchAdds
<1>11. ASSUME NEW i \in Issues, RetryDispatched(i)
       PROVE  DispatchesAwaitOneSpawn'
  <2> DEFINE attempt == retry_attempts[i].attempt
  <2>1. tracker[i] \in States /\ Admissible(i) /\ Fires(i)
    BY <1>0, <1>11 DEF TypeOK, RetryDispatched, should_dispatch
  <2>2. PICK host \in select_worker_host(retry_attempts[i].host) :
            DispatchIssue(i, tracker[i], attempt, host)
    BY <1>11 DEF RetryDispatched
  <2>3. /\ host \in Places /\ host \in Eligible \cup {Local}
        /\ attempt \in 0..MaxAttempt
    BY <1>0, <2>1, <2>2, SelectedPlace, FiredEntry
  <2>4. Started(i)
    BY <1>0, <2>1, <2>2, <2>3, DispatchStarts
  <2>5. dispatched' = dispatched \cup {[issue |-> i, state |-> tracker[i]]}
    BY <2>2 DEF DispatchIssue
  <2>6. phase \in DispatchPhases /\ phase' = phase
    BY <1>11, <2>1 DEF RetryDispatched, Fires, DispatchPhases
  <2> QED
    BY <1>0, <2>4, <2>5, <2>6, DispatchAdds
<1>12. ASSUME NEW d \in dispatched, Spawn(d)
       PROVE  DispatchesAwaitOneSpawn'
  <2>1. dispatched' = dispatched \ {d} /\ phase' = phase
    BY <1>12 DEF Spawn
  <2>2. \A e \in dispatched' : e.issue \in Issues \ {d.issue}
    BY <1>0, <2>1 DEF DispatchesAwaitOneSpawn
  <2>3. \A e \in dispatched' : running'[e.issue] = running[e.issue]
    BY <1>0, <1>12, <2>2, SpawnedAttempt
  <2> QED
    BY <1>0, <2>1, <2>2, <2>3, DispatchesKept
<1>13. ASSUME NEW t \in tasks, WorkerStep(t)
       PROVE  DispatchesAwaitOneSpawn'
  BY <1>q, <1>13 DEF WorkerStep, WorkerStarts, WorkerTurns, WorkerExits,
                     loop_vars
<1>14. CASE Environment
  <2>1. CASE Restart
    BY <1>e, <2>1 DEF Restart
  <2>2. CASE ~Restart
    BY <1>q, <1>14, <2>2 DEF Environment, TrackerMoves, FallsSilent,
                             BackoffElapses, loop_vars
  <2> QED
    BY <2>1, <2>2
<1>15. CASE Poll
  BY <1>3, <1>4, <1>5, <1>6, <1>7, <1>8, <1>9, <1>10, <1>11, <1>12, <1>15
     DEF Poll
<1> QED
  BY <1>1, <1>2, <1>13, <1>14, <1>15 DEF Next

----------------------------------------------------------------------------
(* Tasks and their results *)

\* Taking the head of a channel loses no other element; appending loses none.
LEMMA TailKeeps ==
    ASSUME NEW S, NEW q \in Seq(S), q # <<>>, NEW k \in DOMAIN q, k # 1
    PROVE  \E j \in DOMAIN Tail(q) : Tail(q)[j] = q[k]
<1>1. k \in 1..Len(q) /\ Len(q) \in Nat
  OBVIOUS
<1>2. /\ Tail(q) \in Seq(S)
      /\ Len(Tail(q)) = Len(q) - 1
      /\ \A i \in 1..Len(Tail(q)) : Tail(q)[i] = q[i + 1]
  BY HeadTailProperties
<1>3. k - 1 \in 1..Len(Tail(q)) /\ (k - 1) + 1 = k
  BY <1>1, <1>2
<1>4. DOMAIN Tail(q) = 1..Len(Tail(q))
  BY <1>2
<1> QED
  BY <1>2, <1>3, <1>4

\* Appending to a channel adds one element and keeps the others.
LEMMA AppendKeeps ==
    ASSUME NEW S, NEW q \in Seq(S), NEW e \in S
    PROVE  /\ \A k \in DOMAIN q : k \in DOMAIN Append(q, e) /\ Append(q, e)[k] = q[k]
           /\ Len(q) + 1 \in DOMAIN Append(q, e)
           /\ Append(q, e)[Len(q) + 1] = e
  OBVIOUS

\* Only five kinds of step touch the tasks or the result channel.
LEMMA ChannelChanges ==
    ASSUME TypeOK, [Next]_vars
    PROVE  \/ UNCHANGED <<tasks, worker_results>> /\ worker_events' \subseteq worker_events
           \/ HandleResult
           \/ \E d \in dispatched : Spawn(d)
           \/ \E t \in tasks : WorkerStep(t)
           \/ Restart
<1> USE DEF worker_vars
<1>1. CASE UNCHANGED vars
  BY <1>1 DEF vars
<1>2. CASE PollDue \/ IngestEvents \/ ResultsDrained
  BY <1>2 DEF PollDue, IngestEvents, ResultsDrained, DrainEvents
<1>3. ASSUME \/ DetectStalled \/ Reconcile \/ ReconcileFails \/ FetchCandidates
             \/ FetchFails \/ DispatchDone \/ SpawnDone \/ CollectDue \/ RetriesDone
      PROVE  UNCHANGED worker_vars
  BY <1>3 DEF DetectStalled, Reconcile, ReconcileFails, FetchCandidates,
              FetchFails,
              DispatchDone, SpawnDone, CollectDue, RetriesDone
<1>4. ASSUME NEW i \in Issues,
             \/ DispatchCandidate(i) \/ SkipCandidate(i) \/ PrepareFails(i)
             \/ ReviewGateDemotes(i) \/ TickFails(i)
      PROVE  UNCHANGED worker_vars
  BY <1>4 DEF DispatchCandidate, SkipCandidate, PrepareFails,
              ReviewGateDemotes, TickFails
<1>5. ASSUME NEW i \in Issues,
             \/ RetryPollFails(i) \/ RetryTerminal(i) \/ RetryReleased(i)
             \/ RetryDropped(i) \/ RetryDispatched(i) \/ RetryDeferred(i)
      PROVE  UNCHANGED worker_vars
  BY <1>5 DEF RetryPollFails, RetryTerminal, RetryReleased, RetryDropped,
              RetryDispatched, RetryDeferred
<1>6. CASE Environment
  BY <1>6 DEF Environment, TrackerMoves, FallsSilent, BackoffElapses
<1>7. CASE Poll
  BY <1>3, <1>4, <1>5, <1>7 DEF Poll
<1> QED
  BY <1>1, <1>2, <1>6, <1>7 DEF Next, Select

\* No step but Spawn gives an attempt a task.
LEMMA TasksComeFromSpawn ==
    ASSUME IInv, [Next]_vars, ~ \E d \in dispatched : Spawn(d),
           NEW i \in RunningIds', running'[i].task # NoTask
    PROVE  /\ i \in RunningIds
           /\ running'[i] = running[i]
           /\ \A S \in SUBSET Issues : Ended(S) => i \notin S
<1>1. i \in Issues
  BY DEF RunningIds
<1>2. CASE UNCHANGED <<running, claimed>>
  BY <1>2 DEF RunningIds, Ended
<1>3. ASSUME NEW S \in SUBSET Issues, Ended(S)
      PROVE  i \in RunningIds /\ running'[i] = running[i]
  BY <1>1, <1>3 DEF Ended, RunningIds
<1>4. ASSUME NEW j \in Issues, Started(j)
      PROVE  i \in RunningIds /\ running'[i] = running[i]
  <2>1. i # j
    BY <1>4 DEF Started
  <2> QED
    BY <1>1, <1>4, <2>1 DEF Started, RunningIds
<1>5. \A S \in SUBSET Issues : Ended(S) => i \notin S
  BY <1>1 DEF Ended, RunningIds
<1> QED
  BY <1>2, <1>3, <1>4, <1>5, AttemptChanges

\* AttemptsAreBacked is kept.
LEMMA BackedStep ==
    ASSUME IInv, [Next]_vars
    PROVE  AttemptsAreBacked'
<1>0. TypeOK /\ DispatchesAwaitOneSpawn /\ AttemptsAreBacked
  BY DEF IInv
<1>1. ASSUME NEW d \in dispatched, Spawn(d)
      PROVE  AttemptsAreBacked'
  <2>1. RunningIds' = RunningIds /\ worker_results' = worker_results
    BY <1>0, <1>1, SpawnedAttempt DEF Spawn
  <2>2. \A i \in Issues \ {d.issue} : running'[i] = running[i]
    BY <1>0, <1>1, SpawnedAttempt
  <2>3. PICK r \in Runs, s \in States :
          /\ running'[d.issue].task = r
          /\ tasks' = tasks \cup {[run |-> r, issue |-> d.issue,
                                  state |-> s, stage |-> "spawned"]}
    BY <1>0, <1>1, SpawnedAttempt
  <2>4. \E t \in tasks' : t.issue = d.issue /\ t.run = running'[d.issue].task
    <3> DEFINE t == [run |-> r, issue |-> d.issue, state |-> s, stage |-> "spawned"]
    <3>1. t.issue = d.issue /\ t.run = r /\ t \in tasks'
      BY <2>3
    <3> QED
      BY <2>3, <3>1
  <2>5. \A i \in RunningIds \ {d.issue} :
            running'[i].task # NoTask => OwnTask(i)' \/ OwnResult(i)'
    BY <1>0, <2>1, <2>2, <2>3 DEF AttemptsAreBacked, OwnTask, OwnResult,
                                  RunningIds
  <2> QED
    BY <2>1, <2>4, <2>5 DEF AttemptsAreBacked, OwnTask
<1>2. ASSUME ~ \E d \in dispatched : Spawn(d)
      PROVE  AttemptsAreBacked'
  <2> SUFFICES ASSUME NEW i \in RunningIds', running'[i].task # NoTask
               PROVE  OwnTask(i)' \/ OwnResult(i)'
    BY DEF AttemptsAreBacked
  <2>1. i \in RunningIds /\ running'[i] = running[i]
    BY <1>2, TasksComeFromSpawn
  <2>2. OwnTask(i) \/ OwnResult(i)
    BY <1>0, <2>1 DEF AttemptsAreBacked
  <2>3. CASE UNCHANGED <<tasks, worker_results>>
    BY <2>1, <2>2, <2>3 DEF OwnTask, OwnResult
  <2>4. CASE HandleResult
    <3> DEFINE h == Head(worker_results).issue
    <3>1. /\ worker_results # <<>> /\ worker_results' = Tail(worker_results)
          /\ tasks' = tasks
      BY <2>4 DEF HandleResult
    <3>2. h # i
      <4>1. h \in RunningIds => Ended({h})
        BY <2>4 DEF HandleResult, CompleteRunning, Ended
      <4>2. h \in RunningIds => {h} \in SUBSET Issues
        BY DEF RunningIds
      <4> QED
        BY <1>2, <2>1, <4>1, <4>2, TasksComeFromSpawn
    <3>3. CASE OwnTask(i)
      BY <2>1, <3>1, <3>3 DEF OwnTask
    <3>4. CASE OwnResult(i)
      <4>1. PICK k \in DOMAIN worker_results :
                /\ worker_results[k].issue = i
                /\ worker_results[k].run = running[i].task
        BY <3>4 DEF OwnResult
      <4>2. k # 1
        BY <3>2, <4>1, <1>0 DEF TypeOK
      <4>3. PICK j \in DOMAIN worker_results' : worker_results'[j] = worker_results[k]
        BY <1>0, <3>1, <4>2, TailKeeps DEF TypeOK
      <4> QED
        BY <2>1, <4>1, <4>3 DEF OwnResult
    <3> QED
      BY <2>2, <3>3, <3>4
  <2>5. ASSUME NEW t \in tasks, WorkerStep(t)
        PROVE  OwnTask(i)' \/ OwnResult(i)'
    <3>1. t \in Task /\ t.issue \in Issues /\ t.run \in Runs
      BY <1>0 DEF TypeOK, Task
    <3>2. CASE WorkerStarts(t)
      <4> DEFINE u == [t EXCEPT !.stage = "session"]
      <4>1. u.issue = t.issue /\ u.run = t.run
        BY <3>1 DEF Task
      <4>2. tasks' = (tasks \ {t}) \cup {u} /\ worker_results' = worker_results
        BY <3>2 DEF WorkerStarts
      <4> HIDE DEF u
      <4> QED
        BY <2>1, <2>2, <4>1, <4>2 DEF OwnTask, OwnResult
    <3>3. CASE WorkerTurns(t)
      <4>1. UNCHANGED <<tasks, worker_results>>
        BY <3>3 DEF WorkerTurns
      <4> QED
        BY <2>1, <2>2, <4>1 DEF OwnTask, OwnResult
    <3>4. ASSUME NEW outcome \in Outcomes, WorkerExits(t, outcome)
          PROVE  OwnTask(i)' \/ OwnResult(i)'
      <4> DEFINE e == [run |-> t.run, issue |-> t.issue, outcome |-> outcome]
      <4>1. e \in WorkerResult /\ e.run = t.run /\ e.issue = t.issue
        BY <3>1 DEF WorkerResult
      <4>2. tasks' = tasks \ {t} /\ worker_results' = Append(worker_results, e)
        BY <3>4 DEF WorkerExits
      <4> HIDE DEF e
      <4>3. /\ \A k \in DOMAIN worker_results :
                  k \in DOMAIN worker_results' /\ worker_results'[k] = worker_results[k]
            /\ \E k \in DOMAIN worker_results' : worker_results'[k] = e
        BY <1>0, <4>1, <4>2, AppendKeeps DEF TypeOK
      <4> QED
        BY <2>1, <2>2, <4>1, <4>2, <4>3 DEF OwnTask, OwnResult
    <3> QED
      BY <2>5, <3>2, <3>3, <3>4 DEF WorkerStep
  <2>6. CASE Restart
    BY <2>6 DEF Restart, RunningIds
  <2> QED
    BY <1>0, <1>2, <2>3, <2>4, <2>5, <2>6, ChannelChanges
<1> QED
  BY <1>1, <1>2

\* EventsHaveSenders is kept.
LEMMA SendersStep ==
    ASSUME IInv, [Next]_vars
    PROVE  EventsHaveSenders'
<1>0. TypeOK /\ EventsHaveSenders /\ DispatchesAwaitOneSpawn
  BY DEF IInv
<1>1. CASE UNCHANGED <<tasks, worker_results>> /\ worker_events' \subseteq worker_events
  BY <1>0, <1>1 DEF EventsHaveSenders, LiveTask, QueuedResult
<1>2. CASE HandleResult
  BY <1>2 DEF HandleResult, DrainEvents, EventsHaveSenders
<1>3. ASSUME NEW d \in dispatched, Spawn(d)
      PROVE  EventsHaveSenders'
  <2>1. tasks \subseteq tasks' /\ UNCHANGED <<worker_events, worker_results>>
    BY <1>0, <1>3, SpawnedAttempt DEF Spawn
  <2> QED
    BY <1>0, <2>1 DEF EventsHaveSenders, LiveTask, QueuedResult
<1>4. ASSUME NEW t \in tasks, WorkerStep(t)
      PROVE  EventsHaveSenders'
  <2>1. t \in Task /\ t.issue \in Issues /\ t.run \in Runs
    BY <1>0 DEF TypeOK, Task
  <2>2. CASE WorkerStarts(t)
    <3> DEFINE u == [t EXCEPT !.stage = "session"]
    <3>1. u.issue = t.issue
      BY <2>1 DEF Task
    <3>2. /\ tasks' = (tasks \ {t}) \cup {u} /\ worker_results' = worker_results
          /\ worker_events' = worker_events \cup {t.issue}
      BY <2>2 DEF WorkerStarts
    <3> HIDE DEF u
    <3> QED
      BY <1>0, <3>1, <3>2 DEF EventsHaveSenders, LiveTask, QueuedResult
  <2>3. CASE WorkerTurns(t)
    <3>1. /\ UNCHANGED <<tasks, worker_results>>
          /\ worker_events' = worker_events \cup {t.issue}
      BY <2>3 DEF WorkerTurns
    <3> QED
      BY <1>0, <3>1 DEF EventsHaveSenders, LiveTask, QueuedResult
  <2>4. ASSUME NEW outcome \in Outcomes, WorkerExits(t, outcome)
        PROVE  EventsHaveSenders'
    <3> DEFINE e == [run |-> t.run, issue |-> t.issue, outcome |-> outcome]
    <3>1. e \in WorkerResult /\ e.issue = t.issue
      BY <2>1 DEF WorkerResult
    <3>2. /\ tasks' = tasks \ {t} /\ worker_results' = Append(worker_results, e)
          /\ worker_events' = worker_events
      BY <2>4 DEF WorkerExits
    <3> HIDE DEF e
    <3>3. /\ \A k \in DOMAIN worker_results :
                k \in DOMAIN worker_results' /\ worker_results'[k] = worker_results[k]
          /\ \E k \in DOMAIN worker_results' : worker_results'[k] = e
      BY <1>0, <3>1, <3>2, AppendKeeps DEF TypeOK
    <3> QED
      BY <1>0, <3>1, <3>2, <3>3 DEF EventsHaveSenders, LiveTask, QueuedResult
  <2> QED
    BY <1>4, <2>2, <2>3, <2>4 DEF WorkerStep
<1>5. CASE Restart
  BY <1>5 DEF Restart, EventsHaveSenders
<1> QED
  BY <1>0, <1>1, <1>2, <1>3, <1>4, <1>5, ChannelChanges

----------------------------------------------------------------------------
(* The theorems *)

\* The inductive invariant holds at the start.
LEMMA IInvInit == Init => IInv
<1> SUFFICES ASSUME Init PROVE IInv
  OBVIOUS
<1>1. RunningIds = {} /\ RetryIds = {}
  BY DEF Init, RunningIds, RetryIds
<1>2. SlotsRespected
  BY <1>1, FS_EmptySet, LimitsAssumption DEF SlotsRespected
<1>2a. HostCapRespected
  <2>1. \A h \in Hosts : {i \in RunningIds : running[i].host = h} = {}
    BY <1>1
  <2>2. \A h \in Hosts : Load(h) = 0
    BY <2>1, FS_EmptySet DEF Load
  <2>3. 0 <= HostCap
    BY LimitsAssumption
  <2> QED
    BY <2>2, <2>3 DEF HostCapRespected
<1>3. ClaimsMatchRunning /\ RetriesCanFire /\ DispatchesAwaitOneSpawn
  BY <1>1 DEF Init, ClaimsMatchRunning, RetriesCanFire, DispatchesAwaitOneSpawn
<1>4. AttemptsAreBacked /\ EventsHaveSenders
  BY <1>1 DEF Init, AttemptsAreBacked, EventsHaveSenders
<1> QED
  BY <1>2, <1>2a, <1>3, <1>4, TypeInit DEF IInv

\* Every step keeps the inductive invariant.
LEMMA IInvStep == IInv /\ [Next]_vars => IInv'
<1> SUFFICES ASSUME IInv, [Next]_vars PROVE IInv'
  OBVIOUS
<1>1. TypeOK'
  BY TypeStep DEF IInv
<1> QED
  BY <1>1, ClaimsStep, RetriesStep, DispatchesStep, SlotsStep,
     HostCapStep, BackedStep, SendersStep DEF IInv

\* The inductive invariant holds of every behaviour.
THEOREM Inductive == Spec => []IInv
  BY IInvInit, IInvStep, PTL DEF Spec

\* The state always has the shape the program gives it.
THEOREM TypeCorrect == Spec => []TypeOK
<1>1. IInv => TypeOK
  BY DEF IInv
<1> QED
  BY <1>1, Inductive, PTL

\* Fresh dispatches and retries together never hold more than
\* agent.max_concurrent_agents slots, whatever polls fail and tasks linger.
THEOREM SlotsNeverExceeded == Spec => []SlotsRespected
<1>1. IInv => SlotsRespected
  BY DEF IInv
<1> QED
  BY <1>1, Inductive, PTL

\* select_worker_host never overfills a host: no host is given more than
\* max_concurrent_agents_per_host attempts, by polls or by retries that ask for
\* the host they had.
THEOREM HostsNeverOverfilled == Spec => []HostCapRespected
<1>1. IInv => HostCapRespected
  BY DEF IInv
<1> QED
  BY <1>1, Inductive, PTL

\* claimed and running never drift apart: no issue is left claimed for ever.
THEOREM ClaimsNeverDrift == Spec => []ClaimsMatchRunning
<1>1. IInv => ClaimsMatchRunning
  BY DEF IInv
<1> QED
  BY <1>1, Inductive, PTL

\* A scheduled retry has its token and is never of an issue at work.
THEOREM RetriesAlwaysCanFire == Spec => []RetriesCanFire
<1>1. IInv => RetriesCanFire
  BY DEF IInv
<1> QED
  BY <1>1, Inductive, PTL

\* A dispatched issue gets one worker, in the poll that dispatched it.
THEOREM OneSpawnPerDispatch == Spec => []DispatchesAwaitOneSpawn
<1>1. IInv => DispatchesAwaitOneSpawn
  BY DEF IInv
<1> QED
  BY <1>1, Inductive, PTL

\* An attempt that is "running" has its own task alive or its result queued.
THEOREM AttemptsNeverLost == Spec => []AttemptsAreBacked
<1>1. IInv => AttemptsAreBacked
  BY DEF IInv
<1> QED
  BY <1>1, Inductive, PTL

\* No event outlives the task that sent it and its result.
THEOREM EventsNeverOrphaned == Spec => []EventsHaveSenders
<1>1. IInv => EventsHaveSenders
  BY DEF IInv
<1> QED
  BY <1>1, Inductive, PTL
=============================================================================
