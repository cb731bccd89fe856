---------------------------- MODULE Orchestrator ----------------------------
(***************************************************************************)
(* The poll / dispatch / reconcile / retry loop of Symphony                *)
(* (apps/symphony/src/orchestrator.rs).                                    *)
(*                                                                         *)
(* One orchestrator task owns every map below and runs `run`: it waits in  *)
(* a select over the poll timer and the worker channels, and on a poll it  *)
(* goes through a fixed list of phases (stall detection, reconcile,        *)
(* dispatch of fresh candidates, spawn, due retries, spawn).  Worker tasks *)
(* run concurrently, are never aborted, and talk to it only through two    *)
(* channels, whose messages are keyed by the issue and not by the attempt. *)
(* The tracker is edited by people and agents at any time, in particular   *)
(* between two tracker calls of one poll.                                  *)
(*                                                                         *)
(* Time is abstract: an entry of retry_attempts is due or not, and a       *)
(* running issue is silent (no activity seen for longer than the stall     *)
(* timeout) or not.                                                        *)
(***************************************************************************)
EXTENDS Integers, Sequences, FiniteSets

CONSTANTS
    Issues,            \* issues of the tracker
    Priority,          \* [Issues -> Nat]: place in the dispatch order
    BlockedBy,         \* [Issues -> SUBSET Issues]: tracker dependencies
    Excluded,          \* issues with a parent or with an excluded label
    ActiveStates,      \* tracker.active_states
    TerminalStates,    \* tracker.terminal_states
    OtherStates,       \* every other tracker state (or: unassigned)
    Hosts,             \* worker.ssh_hosts; {} means workers run locally
    HostCap,           \* worker.max_concurrent_agents_per_host
    MaxConcurrent,     \* agent.max_concurrent_agents
    CleanupOnDone,     \* workspace.cleanup_on_done
    StallDetection,    \* TRUE iff the stall timeout is positive
    Runs,              \* identities of spawned worker tasks
    MaxAttempt,        \* bound: attempt numbers saturate here
    MaxEdits,          \* bound: edits of the tracker by others
    MaxSilences,       \* bound: live workers that go silent
    MaxErrors          \* bound: failed calls of the tracker, git or hooks

CONSTANTS NoAttempt, NoRetry, NoTask, Local

States == ActiveStates \cup TerminalStates \cup OtherStates

ASSUME IssuesAssumption ==
    /\ IsFiniteSet(Issues)
    /\ Priority \in [Issues -> Nat]
    /\ BlockedBy \in [Issues -> SUBSET Issues]
    /\ Excluded \subseteq Issues

ASSUME StatesAssumption ==
    /\ "in progress" \in ActiveStates
    /\ ActiveStates \cap TerminalStates = {}
    /\ ActiveStates \cap OtherStates = {}
    /\ TerminalStates \cap OtherStates = {}

ASSUME LimitsAssumption ==
    /\ Runs \subseteq Nat
    /\ MaxConcurrent \in Nat
    /\ HostCap \in Nat
    /\ IsFiniteSet(Hosts)
    /\ Local \notin Hosts
    /\ CleanupOnDone \in BOOLEAN
    /\ StallDetection \in BOOLEAN
    /\ MaxAttempt \in Nat \ {0}
    /\ MaxEdits \in Nat
    /\ MaxSilences \in Nat
    /\ MaxErrors \in Nat

VARIABLES
    \* OrchestratorState and the maps beside it
    running,                  \* issue -> RunAttempt or NoAttempt
    claimed,
    retry_attempts,           \* issue -> RetryEntry or NoRetry
    retry_tokens,             \* issues with a current retry token
    worker_session_ids,       \* issues with a recorded session id
    pending_terminal_cleanup, \* issues whose workspace removal is deferred
    silent,                   \* issues past the stall timeout
    \* where the run loop is, and the locals of the phase it is in
    phase,
    todo,                     \* issues the phase has still to look at
    dispatched,               \* DispatchedIssue values not yet spawned
    \* worker tasks and their channels
    tasks,                    \* live worker tasks
    worker_events,            \* issues with an unread event
    worker_results,           \* the result channel, oldest first
    \* outside the process
    tracker,                  \* issue -> its state on the tracker
    workspaces,               \* issues whose workspace directory exists
    \* bounds
    edits, silences, errors

orch_vars == <<running, claimed, retry_attempts, retry_tokens,
               worker_session_ids, pending_terminal_cleanup, silent>>
loop_vars == <<phase, todo, dispatched>>
worker_vars == <<tasks, worker_events, worker_results>>
env_vars == <<tracker, workspaces>>
bound_vars == <<edits, silences, errors>>
vars == <<orch_vars, loop_vars, worker_vars, env_vars, bound_vars>>

----------------------------------------------------------------------------
(* Values *)

Places == Hosts \cup {Local}

\* attempt is 0 for a fresh dispatch (None); task is NoTask while the status
\* is "scheduled" and the spawned task once the status is "running".
RunAttempt == [attempt : 0..MaxAttempt, host : Places, task : Runs \cup {NoTask}]
ASSUME NoAttemptAssumption == NoAttempt \notin RunAttempt
ASSUME NoTaskAssumption == NoTask \notin Runs

RetryKinds == {"continuation", "failure"}
RetryEntry == [attempt : 0..MaxAttempt, kind : RetryKinds, due : BOOLEAN,
               host : Places]

ASSUME NoRetryAssumption == NoRetry \notin RetryEntry

Task == [run : Runs, issue : Issues, state : States,
         stage : {"spawned", "session"}]

Outcomes == {"continue", "done", "failed"}
WorkerResult == [run : Runs, issue : Issues, outcome : Outcomes]

DispatchedIssue == [issue : Issues, state : States]

Phases == {"select", "results", "stall", "reconcile", "fetch", "dispatch",
           "spawn", "due", "retry", "retry_spawn"}

Lower(a, b) == IF a <= b THEN a ELSE b
\* Faulty: attempt numbers overflow.
Unsaturated(n) == n
Saturated(n) == Lower(n, MaxAttempt)

RunningIds == {i \in Issues : running[i] # NoAttempt}
RetryIds == {i \in Issues : retry_attempts[i] # NoRetry}

----------------------------------------------------------------------------
(* Admission: slots, hosts, dependencies *)

\* Faulty: an attempt counts from its spawn on, not from its dispatch.
spawned_slots ==
    MaxConcurrent - Cardinality({i \in RunningIds : running[i].task # NoTask})
available_slots == MaxConcurrent - Cardinality(RunningIds)

Load(h) == Cardinality({i \in RunningIds : running[i].host = h})

\* Faulty: the cap is read as a limit that may be exceeded by one.
EligibleUpToCap == {h \in Hosts : Load(h) <= HostCap}
Eligible == {h \in Hosts : Load(h) < HostCap}

\* Faulty: a retry keeps its host, whoever is there now.
select_earlier_host(preferred) ==
    IF Hosts = {} THEN {Local}
    ELSE IF preferred \in Hosts THEN {preferred}
    ELSE {h \in Eligible : \A g \in Eligible : Load(h) <= Load(g)}

\* ssh::select_worker_host: the places it may return, {} for NoneAvailable.
\* Ties between equally loaded hosts are broken by the list index; any of
\* them here.
select_worker_host(preferred) ==
    IF Hosts = {} THEN {Local}
    ELSE IF preferred \in Eligible THEN {preferred}
    ELSE {h \in Eligible : \A g \in Eligible : Load(h) <= Load(g)}

\* should_dispatch_issue: what it asks of the orchestrator and of the issue's
\* labels, and the whole of it for an issue seen in state s.
Admissible(i) ==
    /\ i \notin Excluded
    /\ i \notin claimed
    /\ running[i] = NoAttempt
    /\ available_slots > 0

should_dispatch(i, s) == s \in ActiveStates /\ Admissible(i)

is_blocked_by_dependency(i) ==
    \E b \in BlockedBy[i] : tracker[b] \notin TerminalStates

\* sort_issues_for_dispatch: the loop takes the first of what is left.
Foremost(i, S) == i \in S /\ \A j \in S : Priority[i] <= Priority[j]

----------------------------------------------------------------------------
(* Updates shared by several handlers.  Each takes the set of issues it is *)
(* applied to: the loops of the code treat issues independently.           *)

\* Events unread when the orchestrator drains the channel; those of issues
\* that are not running are ignored.
Heard == worker_events \cap RunningIds

\* Faulty: events of issues that are not running are left for later.
DrainRunningEvents == worker_events' = worker_events \ RunningIds
DrainEvents == worker_events' = {}

sessions_heard == worker_session_ids \cup Heard
silent_unheard == silent \ Heard

\* The entry handle_worker_completion leaves for the attempt it removes.
RetryAfter(i, outcome) ==
    IF outcome = "done" THEN NoRetry
    ELSE [attempt |-> IF outcome = "continue" THEN 1
                      ELSE Saturated(running[i].attempt + 1),
          kind |-> IF outcome = "continue" THEN "continuation" ELSE "failure",
          due |-> FALSE,
          host |-> running[i].host]

\* handle_worker_completion for running issues S.  The session id is taken
\* out and, when a retry is scheduled, put back with its context.
CompleteRunning(S, outcome, sessions, quiet) ==
    /\ running' = [i \in Issues |-> IF i \in S THEN NoAttempt ELSE running[i]]
    /\ claimed' = claimed \ S
    /\ retry_attempts' = [i \in Issues |-> IF i \in S THEN RetryAfter(i, outcome)
                                           ELSE retry_attempts[i]]
    /\ retry_tokens' = IF outcome = "done" THEN retry_tokens
                       ELSE retry_tokens \cup S
    /\ worker_session_ids' = IF outcome = "done" THEN sessions \ S ELSE sessions
    /\ silent' = quiet \ S

Fails == errors < MaxErrors /\ errors' = errors + 1

\* cleanup_workspace: a removal that fails is logged and forgotten.
RemoveWorkspaces(S) ==
    \E kept \in SUBSET (S \cap workspaces) :
        /\ workspaces' = workspaces \ (S \ kept)
        /\ IF kept = {} THEN UNCHANGED errors ELSE Fails

\* Faulty: the claim survives.
ForgetKeepingClaim(S) ==
    /\ running' = [i \in Issues |-> IF i \in S THEN NoAttempt ELSE running[i]]
    /\ claimed' = claimed
    /\ retry_attempts' = [i \in Issues |-> IF i \in S THEN NoRetry
                                           ELSE retry_attempts[i]]
    /\ retry_tokens' = retry_tokens \ S
    /\ worker_session_ids' = worker_session_ids \ S
    /\ silent' = silent \ S

\* What mark_issue_terminal and release_issue both clear.
Forget(S) ==
    /\ running' = [i \in Issues |-> IF i \in S THEN NoAttempt ELSE running[i]]
    /\ claimed' = claimed \ S
    /\ retry_attempts' = [i \in Issues |-> IF i \in S THEN NoRetry
                                           ELSE retry_attempts[i]]
    /\ retry_tokens' = retry_tokens \ S
    /\ worker_session_ids' = worker_session_ids \ S
    /\ silent' = silent \ S

\* The rest of mark_issue_terminal: the workspace goes now, or later if a
\* session id says that a worker is active in it.
FinishTerminal(S) ==
    LET deferred == S \cap worker_session_ids
        immediate == S \ worker_session_ids
    IN  IF CleanupOnDone
        THEN /\ pending_terminal_cleanup' =
                   (pending_terminal_cleanup \ immediate) \cup deferred
             /\ RemoveWorkspaces(immediate)
        ELSE UNCHANGED <<pending_terminal_cleanup, workspaces, errors>>

\* schedule_retry_with_context for an issue whose retry has just fired.
Reschedule(i, attempt, kind) ==
    /\ retry_attempts' = [retry_attempts EXCEPT ![i] =
            [attempt |-> Saturated(attempt), kind |-> kind, due |-> FALSE,
             host |-> retry_attempts[i].host]]
    /\ retry_tokens' = retry_tokens \cup {i}

\* Faulty: the retry entry of an earlier attempt survives the dispatch.
DispatchKeepingRetry(i, s, attempt, host) ==
    /\ running' = [running EXCEPT ![i] =
            [attempt |-> attempt, host |-> host, task |-> NoTask]]
    /\ claimed' = claimed \cup {i}
    /\ UNCHANGED retry_attempts
    /\ dispatched' = dispatched \cup {[issue |-> i, state |-> s]}

\* dispatch_issue.  Of an earlier attempt the retry entry is dropped, while
\* the token, the session id and a deferred cleanup are left as they are.
DispatchIssue(i, s, attempt, host) ==
    /\ running' = [running EXCEPT ![i] =
            [attempt |-> attempt, host |-> host, task |-> NoTask]]
    /\ claimed' = claimed \cup {i}
    /\ retry_attempts' = [retry_attempts EXCEPT ![i] = NoRetry]
    /\ dispatched' = dispatched \cup {[issue |-> i, state |-> s]}

----------------------------------------------------------------------------
(* The select of `run`: timer, event channel, result channel *)

\* Faulty: a refresh request goes straight to the candidates.
PollWithoutReconcile ==
    /\ phase = "select"
    /\ phase' = "fetch"
    /\ UNCHANGED <<orch_vars, todo, dispatched, worker_vars, env_vars, bound_vars>>

\* The poll timer, or a refresh request, starts a poll.
PollDue ==
    /\ phase = "select"
    /\ phase' = "stall"
    /\ UNCHANGED <<orch_vars, todo, dispatched, worker_vars, env_vars, bound_vars>>

\* The event branch: ingest_agent_event, then drain_ready_worker_events.
IngestEvents ==
    /\ phase = "select"
    /\ worker_events # {}
    /\ worker_session_ids' = sessions_heard
    /\ silent' = silent_unheard
    /\ DrainEvents
    /\ UNCHANGED <<running, claimed, retry_attempts, retry_tokens,
                   pending_terminal_cleanup, loop_vars, tasks, worker_results,
                   env_vars, bound_vars>>

\* The result branch: it drains the events, handles one result and goes on
\* until the channel is empty.  A result names the issue only, so it ends
\* whatever attempt of that issue is running; with none running it lets the
\* deferred cleanup happen.
HandleResult ==
    /\ phase \in {"select", "results"}
    /\ worker_results # <<>>
    /\ phase' = "results"
    /\ worker_results' = Tail(worker_results)
    /\ DrainEvents
    /\ LET i == Head(worker_results).issue IN
       \/ /\ i \in RunningIds
          /\ CompleteRunning({i}, Head(worker_results).outcome,
                             sessions_heard, silent_unheard)
          /\ UNCHANGED <<pending_terminal_cleanup, workspaces, errors>>
       \/ /\ i \notin RunningIds
          /\ pending_terminal_cleanup' = pending_terminal_cleanup \ {i}
          /\ IF CleanupOnDone
             THEN RemoveWorkspaces(pending_terminal_cleanup \cap {i})
             ELSE UNCHANGED <<workspaces, errors>>
          /\ worker_session_ids' = sessions_heard
          /\ silent' = silent_unheard
          /\ UNCHANGED <<running, claimed, retry_attempts, retry_tokens>>
    /\ UNCHANGED <<todo, dispatched, tasks, tracker, edits, silences>>

ResultsDrained ==
    /\ phase = "results"
    /\ worker_results = <<>>
    /\ phase' = "select"
    /\ worker_session_ids' = sessions_heard
    /\ silent' = silent_unheard
    /\ DrainEvents
    /\ UNCHANGED <<running, claimed, retry_attempts, retry_tokens,
                   pending_terminal_cleanup, todo, dispatched, tasks,
                   worker_results, env_vars, bound_vars>>

----------------------------------------------------------------------------
(* The phases of a poll *)

\* Faulty: only attempts that reported a session are looked at.
DetectStalledSessions ==
    /\ phase = "stall"
    /\ phase' = "reconcile"
    /\ CompleteRunning(silent \cap worker_session_ids, "failed",
                       worker_session_ids, silent)
    /\ UNCHANGED <<pending_terminal_cleanup, todo, dispatched, worker_vars,
                   env_vars, bound_vars>>

\* detect_stalled_workers: every silent running issue fails its attempt.
\* The worker task itself is left running.
DetectStalled ==
    /\ phase = "stall"
    /\ phase' = "reconcile"
    /\ IF StallDetection
       THEN CompleteRunning(silent, "failed", worker_session_ids, silent)
       ELSE UNCHANGED <<running, claimed, retry_attempts, retry_tokens,
                        worker_session_ids, silent>>
    /\ UNCHANGED <<pending_terminal_cleanup, todo, dispatched, worker_vars,
                   env_vars, bound_vars>>

\* reconcile_running: one tracker call for all running issues; when it fails
\* the workers are kept.
Reconcile ==
    /\ phase = "reconcile"
    /\ phase' = "fetch"
    /\ LET terminal == {i \in RunningIds : tracker[i] \in TerminalStates}
           inactive == {i \in RunningIds : tracker[i] \in OtherStates}
       IN  /\ Forget(terminal \cup inactive)
           /\ FinishTerminal(terminal)
    /\ UNCHANGED <<todo, dispatched, worker_vars, tracker, edits, silences>>

ReconcileFails ==
    /\ phase = "reconcile"
    /\ Fails
    /\ phase' = "fetch"
    /\ UNCHANGED <<orch_vars, todo, dispatched, worker_vars, env_vars, edits, silences>>

\* Faulty: a recorded session id is taken for a worker at work.
FetchWithoutSessions ==
    /\ phase = "fetch"
    /\ phase' = "dispatch"
    /\ todo' = {i \in Issues \ worker_session_ids :
                   /\ tracker[i] \in ActiveStates
                   /\ ~is_blocked_by_dependency(i)}
    /\ UNCHANGED <<orch_vars, dispatched, worker_vars, env_vars, bound_vars>>

\* fetch_candidate_issues and the first pass: what it lists and what
\* dependencies block is fixed here for the whole of the second pass.
FetchCandidates ==
    /\ phase = "fetch"
    /\ phase' = "dispatch"
    /\ todo' = {i \in Issues : /\ tracker[i] \in ActiveStates
                               /\ ~is_blocked_by_dependency(i)}
    /\ UNCHANGED <<orch_vars, dispatched, worker_vars, env_vars, bound_vars>>

\* An invalid configuration, a failed preflight or a failed fetch.
FetchFails ==
    /\ phase = "fetch"
    /\ Fails
    /\ phase' = "due"
    /\ UNCHANGED <<orch_vars, todo, dispatched, worker_vars, env_vars, edits, silences>>

\* One candidate of the second pass, refreshed and found fit to dispatch.
DispatchCandidate(i) ==
    /\ phase = "dispatch"
    /\ Foremost(i, todo)
    /\ should_dispatch(i, tracker[i])
    /\ workspaces' = workspaces \cup {i}
    /\ \E host \in select_worker_host(Local) :
          DispatchIssue(i, tracker[i], 0, host)
    /\ todo' = todo \ {i}
    /\ UNCHANGED <<retry_tokens, worker_session_ids,
                   pending_terminal_cleanup, silent, phase, worker_vars,
                   tracker, bound_vars>>

\* One candidate passed over: rejected before the refresh; missing on the
\* tracker at the refresh; or, when its workspace is already prepared, no
\* longer active or left without a host.
SkipCandidate(i) ==
    /\ phase = "dispatch"
    /\ Foremost(i, todo)
    /\ available_slots > 0
    /\ todo' = todo \ {i}
    /\ \/ /\ ~Admissible(i) \/ tracker[i] \in OtherStates
          /\ UNCHANGED workspaces
       \/ /\ Admissible(i)
          /\ tracker[i] \in ActiveStates => select_worker_host(Local) = {}
          /\ workspaces' = workspaces \cup {i}
    /\ UNCHANGED <<orch_vars, phase, dispatched, worker_vars, tracker, bound_vars>>

\* Preparing the workspace fails, or the pull request check of an issue in
\* agent review does: the candidate is passed over.
PrepareFails(i) ==
    /\ phase = "dispatch"
    /\ Foremost(i, todo)
    /\ Admissible(i)
    /\ Fails
    /\ todo' = todo \ {i}
    /\ workspaces' = workspaces \/ workspaces' = workspaces \cup {i}
    /\ UNCHANGED <<orch_vars, phase, dispatched, worker_vars, tracker, edits, silences>>

\* enforce_agent_review_pr_gate finds no pull request: back to In Progress.
ReviewGateDemotes(i) ==
    /\ phase = "dispatch"
    /\ Foremost(i, todo)
    /\ should_dispatch(i, tracker[i])
    /\ tracker[i] = "agent review"
    /\ todo' = todo \ {i}
    /\ workspaces' = workspaces \cup {i}
    /\ tracker' = [tracker EXCEPT ![i] = "in progress"]
    /\ UNCHANGED <<orch_vars, phase, dispatched, worker_vars, bound_vars>>

\* Faulty: the dispatched candidates are kept for the next poll.
TickFailsKeepingDispatched(i) ==
    /\ phase = "dispatch"
    /\ Foremost(i, todo)
    /\ Admissible(i)
    /\ Fails
    /\ phase' = "select"
    /\ todo' = {}
    /\ UNCHANGED <<orch_vars, dispatched, worker_vars, env_vars, edits, silences>>

\* The refresh of a candidate, or the tracker update of the review gate,
\* fails: `?` leaves tick_with_refresh, and with it go the candidates that
\* were already dispatched in this pass but not yet spawned.
TickFails(i) ==
    /\ phase = "dispatch"
    /\ Foremost(i, todo)
    /\ Admissible(i)
    /\ Fails
    /\ phase' = "due"
    /\ todo' = {}
    /\ dispatched' = {}
    /\ \/ UNCHANGED workspaces
       \/ /\ tracker[i] = "agent review"
          /\ workspaces' = workspaces \cup {i}
    /\ UNCHANGED <<orch_vars, worker_vars, tracker, edits, silences>>

\* The pass is over, or the slots are exhausted.
DispatchDone ==
    /\ phase = "dispatch"
    /\ todo = {} \/ available_slots <= 0
    /\ phase' = "spawn"
    /\ todo' = {}
    /\ UNCHANGED <<orch_vars, dispatched, worker_vars, env_vars, bound_vars>>

\* Task ids in use; a task id stays in use until its result is handled.
UsedRuns == {t.run : t \in tasks}
              \cup {worker_results[k].run : k \in DOMAIN worker_results}
              \cup {running[i].task : i \in RunningIds}

FreshRun(r) == r \in Runs \ UsedRuns /\ \A q \in Runs \ UsedRuns : r <= q

\* spawn_workers_for_dispatched, one issue.  A "todo" issue is moved to "in
\* progress" first, whatever its state on the tracker is by now; when that
\* call fails the worker is spawned all the same.
Spawn(d) ==
    /\ phase \in {"spawn", "retry_spawn"}
    /\ d \in dispatched
    /\ dispatched' = dispatched \ {d}
    /\ \E s \in States :
          /\ \/ /\ d.state = "todo"
                /\ s = "in progress"
                /\ tracker' = [tracker EXCEPT ![d.issue] = s]
                /\ UNCHANGED errors
             \/ /\ d.state = "todo"
                /\ s = "todo"
                /\ Fails
                /\ UNCHANGED tracker
             \/ /\ d.state # "todo"
                /\ s = d.state
                /\ UNCHANGED <<tracker, errors>>
          /\ \E r \in Runs :
                /\ FreshRun(r)
                /\ tasks' = tasks \cup {[run |-> r, issue |-> d.issue,
                                        state |-> s, stage |-> "spawned"]}
                /\ running' = [running EXCEPT ![d.issue].task = r]
    /\ UNCHANGED <<claimed, retry_attempts, retry_tokens,
                   worker_session_ids, pending_terminal_cleanup, silent, phase,
                   todo, worker_events, worker_results, workspaces, edits, silences>>

SpawnDone ==
    /\ phase \in {"spawn", "retry_spawn"}
    /\ dispatched = {}
    /\ phase' = IF phase = "spawn" THEN "due" ELSE "select"
    /\ UNCHANGED <<orch_vars, todo, dispatched, worker_vars, env_vars, bound_vars>>

\* process_due_retries: the due entries are listed once.
CollectDue ==
    /\ phase = "due"
    /\ phase' = "retry"
    /\ todo' = {i \in RetryIds : retry_attempts[i].due}
    /\ UNCHANGED <<orch_vars, dispatched, worker_vars, env_vars, bound_vars>>

\* fire_retry succeeds: i has a token, and the entry carries it.
Fires(i) ==
    /\ phase = "retry"
    /\ i \in todo
    /\ i \in retry_tokens
    /\ todo' = todo \ {i}

\* The tracker cannot be read: another failure, with a longer back-off.
RetryPollFails(i) ==
    /\ Fires(i)
    /\ Fails
    /\ Reschedule(i, retry_attempts[i].attempt + 1, "failure")
    /\ UNCHANGED <<running, claimed, worker_session_ids,
                   pending_terminal_cleanup, silent, phase, dispatched,
                   worker_vars, env_vars, edits, silences>>

\* The issue is finished on the tracker.
RetryTerminal(i) ==
    /\ Fires(i)
    /\ tracker[i] \in TerminalStates
    /\ Forget({i})
    /\ FinishTerminal({i})
    /\ UNCHANGED <<phase, dispatched, worker_vars, tracker, edits, silences>>

\* The issue is not among the candidates, nor is it terminal when refreshed
\* (it may have become active between the two calls).
RetryReleased(i) ==
    /\ Fires(i)
    /\ tracker[i] \notin TerminalStates
    /\ Forget({i})
    /\ UNCHANGED <<pending_terminal_cleanup, phase, dispatched,
                   worker_vars, env_vars, bound_vars>>

\* The workspace cannot be prepared, or the review gate sends the issue back
\* or cannot tell: the retry has fired and nothing takes its place.
RetryDropped(i) ==
    /\ Fires(i)
    /\ tracker[i] \in ActiveStates
    /\ \/ /\ Fails
          /\ workspaces' = workspaces \/ workspaces' = workspaces \cup {i}
          /\ UNCHANGED tracker
       \/ /\ tracker[i] = "agent review"
          /\ workspaces' = workspaces \cup {i}
          /\ tracker' = [tracker EXCEPT ![i] = "in progress"]
          /\ UNCHANGED errors
    /\ retry_attempts' = [retry_attempts EXCEPT ![i] = NoRetry]
    /\ retry_tokens' = retry_tokens \ {i}
    /\ UNCHANGED <<running, claimed, worker_session_ids,
                   pending_terminal_cleanup, silent, phase, dispatched,
                   worker_vars, edits, silences>>

RetryDispatched(i) ==
    /\ Fires(i)
    /\ should_dispatch(i, tracker[i])
    /\ workspaces' = workspaces \cup {i}
    /\ \E host \in select_worker_host(retry_attempts[i].host) :
          DispatchIssue(i, tracker[i], retry_attempts[i].attempt, host)
    /\ retry_tokens' = retry_tokens \ {i}
    /\ UNCHANGED <<worker_session_ids, pending_terminal_cleanup,
                   silent, phase, worker_vars, tracker, bound_vars>>

\* No slot (a longer back-off) or no host (the same attempt, soon again).
RetryDeferred(i) ==
    /\ Fires(i)
    /\ tracker[i] \in ActiveStates
    /\ workspaces' = workspaces \cup {i}
    /\ \/ /\ Admissible(i)
          /\ select_worker_host(retry_attempts[i].host) = {}
          /\ Reschedule(i, retry_attempts[i].attempt, "continuation")
       \/ /\ ~Admissible(i)
          /\ Reschedule(i, retry_attempts[i].attempt + 1, "failure")
    /\ UNCHANGED <<running, claimed, worker_session_ids,
                   pending_terminal_cleanup, silent, phase, dispatched,
                   worker_vars, tracker, bound_vars>>

RetriesDone ==
    /\ phase = "retry"
    /\ todo = {}
    /\ phase' = "retry_spawn"
    /\ UNCHANGED <<orch_vars, todo, dispatched, worker_vars, env_vars, bound_vars>>

----------------------------------------------------------------------------
(* Worker tasks: run_worker_task *)

\* The workspace is ensured, the session starts and says so.
WorkerStarts(t) ==
    /\ t \in tasks
    /\ t.stage = "spawned"
    /\ tasks' = (tasks \ {t}) \cup {[t EXCEPT !.stage = "session"]}
    /\ workspaces' = workspaces \cup {t.issue}
    /\ worker_events' = worker_events \cup {t.issue}
    /\ UNCHANGED <<orch_vars, loop_vars, worker_results, tracker, bound_vars>>

\* Every turn announces the session again; the events between, which only
\* renew activity, are folded into it.
WorkerTurns(t) ==
    /\ t \in tasks
    /\ t.stage = "session"
    /\ t.issue \notin worker_events
    /\ worker_events' = worker_events \cup {t.issue}
    /\ UNCHANGED <<orch_vars, loop_vars, tasks, worker_results, env_vars, bound_vars>>

\* Faulty: a task that finds nothing left to do returns without a result.
WorkerExitsQuietly(t, outcome) ==
    /\ t \in tasks
    /\ outcome # "failed" => t.stage = "session"
    /\ outcome = "done" => tracker[t.issue] # t.state
    /\ tasks' = tasks \ {t}
    /\ worker_results' = IF outcome = "done" THEN worker_results
            ELSE Append(worker_results,
                   [run |-> t.run, issue |-> t.issue, outcome |-> outcome])
    /\ UNCHANGED <<orch_vars, loop_vars, worker_events, env_vars, bound_vars>>

\* The task ends: it fails at any point, it uses up its turns or cannot
\* refresh the issue ("continue"), or it finds that the issue is no longer
\* in the state it was dispatched in ("done").  A task that ends before its
\* session started may or may not have prepared the workspace.
WorkerExits(t, outcome) ==
    /\ t \in tasks
    /\ outcome # "failed" => t.stage = "session"
    /\ outcome = "done" => tracker[t.issue] # t.state
    /\ tasks' = tasks \ {t}
    /\ worker_results' = Append(worker_results,
            [run |-> t.run, issue |-> t.issue, outcome |-> outcome])
    /\ \/ UNCHANGED workspaces
       \/ t.stage = "spawned" /\ workspaces' = workspaces \cup {t.issue}
    /\ UNCHANGED <<orch_vars, loop_vars, worker_events, tracker, bound_vars>>

----------------------------------------------------------------------------
(* Time, people and the process *)

\* A person or an agent edits the tracker.
TrackerMoves(i, s) ==
    /\ edits < MaxEdits
    /\ tracker[i] # s
    /\ tracker' = [tracker EXCEPT ![i] = s]
    /\ edits' = edits + 1
    /\ UNCHANGED <<orch_vars, loop_vars, worker_vars, workspaces, silences, errors>>

\* The stall timeout passes without an ingested event.  A poll reads the
\* clock once for stalls and once for retries: time passes between polls.
\* Only for attempts that have a task is the number of times bounded: each
\* of them may leave another live task behind.
FallsSilent(i) ==
    /\ StallDetection
    /\ phase = "select"
    /\ i \in RunningIds \ silent
    /\ silent' = silent \cup {i}
    /\ \/ /\ running[i].task = NoTask
          /\ UNCHANGED silences
       \/ /\ running[i].task # NoTask
          /\ silences < MaxSilences
          /\ silences' = silences + 1
    /\ UNCHANGED <<running, claimed, retry_attempts, retry_tokens,
                   worker_session_ids, pending_terminal_cleanup, loop_vars,
                   worker_vars, env_vars, edits, errors>>

\* A poll reads the clock once more, when it lists the retries that are due.
BackoffElapses(i) ==
    /\ phase \in {"select", "due"}
    /\ i \in RetryIds
    /\ ~retry_attempts[i].due
    /\ retry_attempts' = [retry_attempts EXCEPT ![i].due = TRUE]
    /\ UNCHANGED <<running, claimed, retry_tokens,
                   worker_session_ids, pending_terminal_cleanup, silent,
                   loop_vars, worker_vars, env_vars, bound_vars>>

----------------------------------------------------------------------------
(* The specification *)

\* The state startup_cleanup leaves behind: nothing is remembered of an
\* earlier process but the workspaces, and those of terminal issues are gone.
Init ==
    /\ running = [i \in Issues |-> NoAttempt]
    /\ claimed = {}
    /\ retry_attempts = [i \in Issues |-> NoRetry]
    /\ retry_tokens = {}
    /\ worker_session_ids = {}
    /\ pending_terminal_cleanup = {}
    /\ silent = {}
    /\ phase = "select"
    /\ todo = {}
    /\ dispatched = {}
    /\ tasks = {}
    /\ worker_events = {}
    /\ worker_results = <<>>
    /\ tracker \in [Issues -> ActiveStates]
    /\ workspaces = {}
    /\ edits = 0
    /\ silences = 0
    /\ errors = 0

\* The process dies, its tasks with it, and starts again: startup_cleanup
\* removes the workspaces of terminal issues.
Restart ==
    /\ Fails
    /\ running' = [i \in Issues |-> NoAttempt]
    /\ claimed' = {}
    /\ retry_attempts' = [i \in Issues |-> NoRetry]
    /\ retry_tokens' = {}
    /\ worker_session_ids' = {}
    /\ pending_terminal_cleanup' = {}
    /\ silent' = {}
    /\ phase' = "select"
    /\ todo' = {}
    /\ dispatched' = {}
    /\ tasks' = {}
    /\ worker_events' = {}
    /\ worker_results' = <<>>
    /\ workspaces' = IF CleanupOnDone
                     THEN {i \in workspaces : tracker[i] \notin TerminalStates}
                     ELSE workspaces
    /\ UNCHANGED <<tracker, edits, silences>>

Select == PollDue \/ IngestEvents \/ HandleResult \/ ResultsDrained

Poll ==
    \/ DetectStalled
    \/ Reconcile \/ ReconcileFails
    \/ FetchCandidates \/ FetchFails
    \/ DispatchDone
    \/ SpawnDone
    \/ CollectDue \/ RetriesDone
    \/ \E i \in Issues :
          \/ DispatchCandidate(i) \/ SkipCandidate(i) \/ PrepareFails(i)
          \/ ReviewGateDemotes(i) \/ TickFails(i)
          \/ RetryPollFails(i) \/ RetryTerminal(i) \/ RetryReleased(i)
          \/ RetryDropped(i) \/ RetryDispatched(i) \/ RetryDeferred(i)
    \/ \E d \in dispatched : Spawn(d)

WorkerStep(t) ==
    \/ WorkerStarts(t)
    \/ WorkerTurns(t)
    \/ \E outcome \in Outcomes : WorkerExits(t, outcome)

Environment ==
    \/ \E i \in Issues, s \in States : TrackerMoves(i, s)
    \/ \E i \in Issues : FallsSilent(i) \/ BackoffElapses(i)
    \/ Restart

Next == Select \/ Poll \/ (\E t \in tasks : WorkerStep(t)) \/ Environment

Spec == Init /\ [][Next]_vars

----------------------------------------------------------------------------
(* Safety *)

LiveTask(i) == \E t \in tasks : t.issue = i
QueuedResult(i) == \E k \in DOMAIN worker_results : worker_results[k].issue = i

\* Every variable has the shape the program gives it.
TypeOK ==
    /\ running \in [Issues -> RunAttempt \cup {NoAttempt}]
    /\ claimed \subseteq Issues
    /\ retry_attempts \in [Issues -> RetryEntry \cup {NoRetry}]
    /\ retry_tokens \subseteq Issues
    /\ worker_session_ids \subseteq Issues
    /\ pending_terminal_cleanup \subseteq Issues
    /\ silent \subseteq RunningIds
    /\ phase \in Phases
    /\ todo \subseteq Issues
    /\ dispatched \subseteq DispatchedIssue
    /\ tasks \subseteq Task
    /\ worker_events \subseteq Issues
    /\ worker_results \in Seq(WorkerResult)
    /\ tracker \in [Issues -> States]
    /\ workspaces \subseteq Issues
    /\ edits \in 0..MaxEdits
    /\ silences \in 0..MaxSilences
    /\ errors \in 0..MaxErrors

\* The two records of who is being worked on never drift apart, whichever of
\* a result, a stall, a release or a terminal state ends an attempt: an issue
\* left in `claimed` alone would never be dispatched again.
ClaimsMatchRunning == claimed = RunningIds

\* A scheduled retry can fire: its token is the current one, and its issue
\* is not being worked on (process_due_retries would otherwise reschedule it
\* for ever, or skip it for ever); and what process_due_retries has listed is
\* still scheduled when its turn comes.
RetriesCanFire ==
    /\ \A i \in RetryIds : i \in retry_tokens /\ i \notin RunningIds
    /\ phase = "retry" => todo \subseteq RetryIds

\* available_slots keeps fresh dispatches and retries together within
\* agent.max_concurrent_agents, across polls that fail half way.
SlotsRespected == Cardinality(RunningIds) <= MaxConcurrent

\* No host is given more than max_concurrent_agents_per_host attempts by the
\* two callers of select_worker_host.
HostCapRespected == \A h \in Hosts : Load(h) <= HostCap

\* An attempt whose status is "running" is never silently lost: its own task
\* is alive or the result of that very task is still queued, even when tasks
\* of earlier attempts of the issue are alive and report for it.
OwnTask(i) == \E t \in tasks : t.issue = i /\ t.run = running[i].task
OwnResult(i) ==
    \E k \in DOMAIN worker_results :
        /\ worker_results[k].issue = i
        /\ worker_results[k].run = running[i].task
AttemptsAreBacked ==
    \A i \in RunningIds :
        running[i].task # NoTask => OwnTask(i) \/ OwnResult(i)

\* Draining the events before every result leaves no event behind of a task
\* that is gone, so none can be credited to a later attempt.
EventsHaveSenders ==
    \A i \in worker_events : LiveTask(i) \/ QueuedResult(i)

\* Each dispatched issue still waiting for its worker has an attempt without
\* a task, and is waiting once: no issue gets two workers from one poll, nor
\* one from a dispatch of an earlier poll.
DispatchesAwaitOneSpawn ==
    /\ phase \notin {"dispatch", "spawn", "retry", "retry_spawn"} => dispatched = {}
    /\ \A d \in dispatched : /\ d.issue \in RunningIds
                             /\ running[d.issue].task = NoTask
    /\ \A d, e \in dispatched : d.issue = e.issue => d = e

----------------------------------------------------------------------------
(* Refinement *)

\* What AttemptPool sees of issue i.
Work(i) ==
    CASE i \in RunningIds /\ running[i].task = NoTask ->
            [stage |-> "scheduled", host |-> running[i].host]
      [] i \in RunningIds /\ running[i].task # NoTask ->
            [stage |-> "working", host |-> running[i].host, run |-> running[i].task]
      [] i \notin RunningIds /\ i \in RetryIds -> [stage |-> "waiting"]
      [] OTHER -> [stage |-> "idle"]

Pool == INSTANCE AttemptPool WITH work <- [i \in Issues |-> Work(i)]

\* Each step of the loop, its workers and its surroundings begins one attempt
\* with a slot and a place to spare, gives one its task, ends attempts, or
\* leaves them as they are: an attempt never changes hosts or tasks, and a
\* stall, a result, a release and a poll that fails half way all give the slot
\* back whole.
ImplementsAttemptPool == Pool!Spec

----------------------------------------------------------------------------
(* Liveness *)

\* The orchestrator never stops inside a handler; its select picks at random
\* among the branches that are ready, so the poll timer is not passed over for
\* ever; and time passes.  Nothing is assumed of workers or of the tracker.
Fairness ==
    /\ WF_vars(Poll \/ (phase = "results" /\ Select))
    /\ SF_vars(PollDue)
    /\ \A i \in Issues : SF_vars(FallsSilent(i))

LiveSpec == Spec /\ Fairness

\* Work on an issue that reaches a terminal state is stopped, unless the issue
\* is reopened first, however often single tracker calls fail.
TerminalIssuesStop ==
    \A i \in Issues :
        (i \in RunningIds /\ tracker[i] \in TerminalStates)
            ~> (i \notin RunningIds \/ tracker[i] \notin TerminalStates)

\* No active issue is forgotten: whatever became of its earlier attempts and
\* retries (a dropped retry, a restart, a poll that failed half way), it is
\* worked on, unless it leaves the active states, is blocked, or every slot or
\* host is taken.
ActiveIssuesGetAttention ==
    \A i \in Issues \ Excluded :
        (tracker[i] \in ActiveStates)
            ~> (\/ i \in RunningIds
                \/ tracker[i] \notin ActiveStates
                \/ is_blocked_by_dependency(i)
                \/ available_slots <= 0
                \/ select_worker_host(Local) = {})

\* The attempts a failing poll leaves without a worker are found out by stall
\* detection: none stays "scheduled" for ever.
ScheduledAttemptsResolve ==
    \A i \in Issues :
        (i \in RunningIds /\ running[i].task = NoTask)
            ~> ~(i \in RunningIds /\ running[i].task = NoTask)

=============================================================================
