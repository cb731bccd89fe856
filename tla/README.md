# Symphony: verification project

TLA+ modules, TLC runs and TLAPS proofs for `apps/symphony`, the Rust program
that polls an issue tracker, runs one coding agent per issue, and takes issues
through a factory of five stages: triage, specification, implementation,
review, verification. Paths below are relative to the repository root;
`orchestrator.rs`, `triage/store.rs` and other bare file names are in
`apps/symphony/src/`.

## 1. Inventory

The repository also holds a TypeScript command line (`apps/cli`), the Pi
extension, shared TypeScript packages and a diagram renderer. They are
sequential clients or libraries; the concurrent and crash-prone logic is all in
`apps/symphony`.

| Component | State it keeps | Operations | What is hard | What makes it correct |
|---|---|---|---|---|
| **Orchestrator loop** (`orchestrator.rs`) | `running`, `claimed`, `retry_attempts`, retry tokens, session ids, pending cleanups, activity timestamps; three channels | `run` (a `select!` over timer and channels), `tick_with_refresh`, `reconcile_running`, `detect_stalled_workers`, `dispatch_issue`, `spawn_workers_for_dispatched`, `process_due_retries`, `handle_worker_completion`, `mark_issue_terminal`, `release_issue`, `startup_cleanup` | results name an issue, not an attempt, and stalled tasks go on; tracker calls fail half way through a poll; a tracker edited between two calls; everything but workspaces is lost at a restart | the maps agree; caps hold; no attempt is lost, none is left half-started; terminal work stops; active issues are picked up |
| **Worker host pool** (`ssh.rs`) | none (recomputed) | `select_worker_host` | recomputed load, preference of retries | per-host cap |
| **Worker tasks** (`orchestrator.rs:863`, `pi_agent/`, `codex/`) | session, turn counter, pending question, follow-ups | `run_worker_task`, turn loops | not aborted when their attempt is given up; timeouts of reads and of turns | exactly one result per task |
| **Escalations** (`orchestrator.rs:1800`, `pi_agent/rpc_bridge.rs:363`, `http_server.rs:2262`, `supervisor.rs:971`) | `pending`, the cache of resolved requests, a one-shot channel per request | register, resolve, remove, cancel for an issue, wait with a timeout | three actors; `resolve` locks twice; request and closing event on different channels; timeout against answer | one answer, truthful replies, no waiter cut off, every wait ends |
| **Supervisor, shared context** (`supervisor.rs`, `shared_context.rs`) | counters and cool-downs per issue; notes that expire | pattern detection, steering, escalation | runs beside the orchestrator | escalations only (the rest is read by nobody but the prompts) |
| **Trackers** (`linear/`, `github/`) | outside the process | fetch, refresh, update state | edited at any time, calls fail | environment |
| **Factory store** (`triage/store.rs`, SQLite) | runs, stage attempts with their lease, artifacts, publication intents with retry counts and, for reviews, a fenced lease | claim, renew, complete, fail, interrupt stale, create intent, record step, complete or block intent, claim publication | each transaction is atomic, a stage's work spans many; a crash between any two of them | one attempt of a stage at a time; one artifact per revision; one unfinished publication of it; budgets |
| **Triage stage** (`triage/`) | artifact per revision, intent, observed routes; comment, labels, board column on the forge | decide a route, publish it in steps, measure how people correct it | a label is changed and then recorded; people change the same labels | own changes are recognised; an applied publication left the issue routed |
| **Spec stage** (`spec/`) | versions, `spec_run_state`, intents; one comment, decision labels | write and review a version, revise, approve | a poll acts on what it read at its start; an approval has five recorded steps | the approved version is pinned and its approval was carried out |
| **Implementation stage** (`implementation/`) | attempts, artifacts with bundle and draft pull request, decision, intents; comment, branch, pull request | implement, validate, repair, publish, hand on | lost answers of git and forge, people pushing, closing, retargeting | one pull request; nothing handed on without it; conflicts only by people; failures end |
| **Review stage** (`review/`) | attempts per head and base, findings, intents with lease; formal review, comment | review a revision, publish, route | head moves between read and use; a lease lapses in a call | one review per revision and intent, routing only after it |
| **Verification stage** (`verification/`) | attempts, command runs with process identity, gate, intents; one comment per head | run commands behind a barrier, judge, gate, publish, recover | payloads outlive the process that started them | nothing runs unrecorded; one verdict per revision; survivors are found again |
| **Publication recovery** (`publication_recovery.rs`, `triage/runtime.rs:1516`, `http_server.rs:3455`) | store | list and reset a blocked publication | races the automatic path | the reset is an action of the stage |
| **HTTP API, event stream** (`http_server.rs`, `event_stream.rs`) | snapshot, registry handle, refresh and steering channels | respond to escalation, refresh, steer, reset | handlers on other threads; coalesced refreshes; a reply deadline | see Escalations; no refresh is lost |
| **Workspaces, docker** (`workspace.rs`, `docker.rs`) | directories, containers | ensure, remove | removal against a live worker | removed when the issue is finished, not under a worker |
| **Configuration, workflow store, prompts, notifications, CLI, TUI, doctor, logging** | files, best-effort queues | load, render, deliver | reload between polls | no other component depends on them for safety |

Interactions. One process runs everything. The orchestrator task owns its maps;
worker tasks are spawned from it and report over `worker_event_tx`,
`worker_result_tx` and `worker_escalation_tx`, all unbounded and keyed by issue
id. HTTP handlers and the supervisor share the escalation registry (a mutex)
with it and wake it through the refresh channel.

The factory is polled from the same loop: `TriageRuntime::poll`
(`triage/runtime.rs:2225`) calls verification, triage, spec, implementation and
review one after the other, and awaits each. So no two stages ever run at the
same time, and what a stage races with is not another stage but people editing
the forge, the loss of the process between any two calls, calls that fail after
they took effect, leases that lapse while nobody renews them, operators who
reset a publication over HTTP, and agents or commands of a process that died.
Stages hand over through the forge (labels and columns) and through the store
(an approved version, a draft pull request, an applied review).

## 2. Modules

| Module | Role |
|---|---|
| `Orchestrator.tla` | the run loop, worker tasks, tracker, time, restart |
| `MCOrchestrator.tla` | instances for TLC: order of issues and dependencies |
| `AttemptPool.tla` | what the orchestrator promises of its attempts, abstractly |
| `OrchestratorProofs.tla` | safety theorems about `Orchestrator` |
| `OrchestratorRefinement.tla` | `Orchestrator` implements `AttemptPool` |
| `Escalations.tla` | registry, askers, responders; small enough to be its own root for TLC |
| `EscalationsProofs.tla` | safety theorems about `Escalations` |
| `TriageStage.tla`, `MCTriage.tla` | the triage stage with its part of the store and the issue on the forge |
| `SpecStage.tla`, `MCSpec.tla` | the spec stage, likewise |
| `ImplementationStage.tla`, `MCImplementation.tla` | the implementation stage, with branch and pull requests |
| `ReviewStage.tla`, `MCReview.tla` | the review stage, with formal reviews and the publication lease |
| `VerificationStage.tla`, `MCVerification.tla` | the verification stage, with commands and what survives of them |
| `TriageProofs.tla`, `SpecProofs.tla`, `ImplementationProofs.tla`, `ReviewProofs.tla`, `VerificationProofs.tla` | safety theorems about the five stages |

Definitions whose comment begins with "Faulty:" are not part of a
specification. Each is a mutated form of the definition that follows it: with
it in place some property must fail, which shows that the property constrains
the code.

### Orchestrator

| TLA+ | Code |
|---|---|
| `running`, `claimed`, `retry_attempts` | `OrchestratorState` |
| `retry_tokens`, `worker_session_ids`, `pending_terminal_cleanup` | the maps of the same names beside it |
| `silent` | issues for which `detect_stalled_workers` would find the activity too old |
| `phase`, `todo`, `dispatched` | where `run` is, the loop variable of the phase, the `DispatchedIssue`s it will spawn |
| `tasks`, `worker_events`, `worker_results` | spawned tasks and the two channels from them |
| `tracker`, `workspaces` | outside the process |
| `PollDue`, `IngestEvents`, `HandleResult`, `ResultsDrained` | the branches of the `select!` |
| `DetectStalled` ... `RetriesDone` | the phases of one poll, in the order of the code |
| `WorkerStarts`, `WorkerTurns`, `WorkerExits` | `run_worker_task` |
| `TrackerMoves`, `FallsSilent`, `BackoffElapses`, `Restart` | people, time, the process |

A handler of the orchestrator is atomic between two tracker calls, because one
task owns the maps; it is split where it calls the tracker, because the tracker
and the worker tasks move meanwhile. That is why a poll is a sequence of
actions and not one, and why a candidate is refreshed in the action that
dispatches it and not in the one that listed it.

Abstractions, and what they leave out:

- Time. A retry is due or not, a running issue is silent or not. The lengths of
  back-off and stall timeout do not matter to any property here. A poll reads
  the clock for stalls and once more for due retries (`orchestrator.rs:2342`): a
  running issue falls silent in `select`, and a back-off elapses there or just
  before the due retries are listed.
- Hosts. `Hosts = {}` stands for local workers and for docker isolation alike.
  Ties between hosts of equal load may be broken either way.
- Events. All events of a worker between two looks of the orchestrator are one:
  they renew activity and record the session id. Metrics, logs, snapshot and
  the `completed` list are left out.
- Tracker states are grouped as the code groups them. `"todo"`, `"in
  progress"` and `"agent review"` keep their names because code tests for them
  (the stages write the same names with an underscore: the SMT translation of
  the prover takes no string with a space).
- `RetryEntry.kind` is auxiliary: the code computes the delay from it and
  forgets it, and no property reads it.
- The configuration is constant. The code reloads it at every poll.
- Steering, publication guards and session information are not modelled.
- An attempt number saturates at `MaxAttempt`; the code's saturates at 2^32-1.
- A task identity (`Runs`) is taken again once its task, its result and the
  attempt that holds it are gone. The code has no such identity; it is what
  `AttemptsAreBacked` needs to tell the tasks of one issue apart. `Spawn` needs a
  free one; the bounds leave one free.

`AttemptPool` sees an issue as idle, waiting (a retry is scheduled), scheduled (an
attempt without a task) or working (an attempt with its task), on a host. It has
four actions: an attempt begins where there is a slot and room, gets its task,
ends with or without another to come. `Work` in `Orchestrator` is the refinement
mapping: `running` decides between scheduled and working, `retry_attempts`
between waiting and idle.

### Escalations

| TLA+ | Code |
|---|---|
| `pending`, `resolved` | `EscalationRegistryState`, `ResolvedEscalationCache` |
| `channel` | the one-shot channel of a request, with who gave it up |
| `dispatches` | `worker_escalation_rx` |
| `closings` | request ids in unread `EscalationResponded`, `EscalationTimedOut`, `EscalationCancelled` events |
| `Take`, `Send`, `Record` | `resolve`: first critical section, send, second critical section |
| `Ask`, `HearsAnswer`, `HearsCancel`, `TimesOut`, `StopsWaiting` | `handle_escalation_ui_request` |
| `HandleDispatch`, `HandleResult`, `IngestEvents`, `EndAttempt` | the orchestrator's side |
| `SupervisorAsks` | `emit_supervisor_escalation` |

The channels are sets: request ids are used once, and handling two members of a
set in either order gives the same state or a state the code can be in, the
orchestrator's `select!` choosing its branch at random. Order *between* the
channels is free, as it is in the code. The attempt is reduced to "the issue is
running"; how attempts start and end is `Orchestrator`'s subject. `NoIssue` is
the issue a request is filed under when the supervisor only knows the
identifier.

### The stage modules: what they share

Each models one stage for one issue, the granularity at which its guards, rows
and forge objects are kept. `poll` is the program counter and the local
variables of one `poll_once`; `todo` is what it has still to iterate over: the
queries order rows by creation, so the next one is the lowest (in triage, where at
most one can be there, any). A row of
the store is an element of `attempts`, `artifacts` or `intents`, in the order of
creation; a definition under "The store" is one transaction. Each call to the
store or the forge is an action of its own, because the process may die, or the
call fail, between any two. What the code reads and decides on without another
call in between is one action.

- `Crash`, `Abandon`: the process dies, or shuts down within a poll. Rows and
  forge objects stay, local state is gone.
- `CallFails`, `AnswerLost`, `ForgeRefuses`, `CallRefused`: a call fails by
  chance (counted by the bound on faults), after it took effect (the answer is
  lost), or because of what people did (not counted: it fails each time).
- A lapsed or stale attempt is one whose lease nobody renewed for a minute. It
  is what `interrupt_stale_attempts` interrupts. Time is otherwise left out.
- People change what the stage reads or writes, at any moment. `touched`, where
  it exists, is auxiliary: it remembers that they have, so that a property can
  say "unless people interfered".
- Texts, configurations and fingerprints are revisions: numbers or model values
  that differ when the code's fingerprints differ. Comments are marked with the
  publication they belong to; their wording is left out.
- Agents return any outcome their parser accepts, or fail.

A few steps are merged all the same:

- *Reads.* `Observed` of triage takes the two forge reads of `observe_current`
  (`triage/publisher.rs:706-707`) as one, and `StartPublication` of an
  implementation the reads of its drift check (`implementation/coordinator.rs:479`).
  One edit between two reads is seen as one before or after both; an observation
  that mixes two edits is left out. An issue without a status counts as one that
  is off the board.
- *A read and the removal it decides on.* `Unlabel` of the specification looks at
  the labels and removes one in a step (`spec/coordinator.rs:1014-1020`); the removal of
  a label that went meanwhile fails at most, and any call may fail.
- *Texts.* The text of an issue is a revision that only grows
  (`spec/coordinator.rs:168`): one put back as it was is a new revision in the
  model, the same fingerprint in the code. The update of a comment that was found is not a
  step of the review stage: its comments have no text.
- *Creation and claim of a review's intent* (`triage/store.rs:4117`, 4170). A process
  that dies between the two leaves a pending intent nobody holds, the state
  `RecoverOrphan` brings about; the model reaches it only for a revision that is live.
- *Routing before verification.* A review counts as `reviewed` when it is applied
  and routed to the trigger state; the code lists it when it is applied, and passes
  it over until it is routed (`verification/coordinator.rs:315-322`).
- *Processes of a command.* Those that outlive the leader of their group are left out of
  the model; a command that exits with 98, the barrier's own code
  (`verification/executor.rs:329`), is a failed wait.

### TriageStage

| TLA+ | Code |
|---|---|
| `run_status`, `attempts`, `artifacts`, `intents`, `observations` | `factory_runs`, `stage_runs`, `triage_artifacts`, `publication_intents`, `route_observations` |
| `latest` | the automatic intent of which `list_correction_candidates` measures corrections |
| `issue`, `comments`, `agents` | the forge; agents whose process group is alive |
| `Recovering` | `recover_interrupted_attempts`, `reconcile_pending_intents`, `reconcile_route_corrections` |
| `Triaging` | the intake and `handle_in_project`: claim, agent, decision, intent; also the note of `handle_ineligible` |
| `Commenting` | `upsert_marked_comment`: recorded comment, else the one with the marker, else a new one |
| `Routing` | `reconcile_automatic`: baseline, then per step desired, ours, conflict or mutate, and record |
| `touched`, `placed` | auxiliary: people changed labels or column since the baseline; labels Symphony put on last |

An intent's `done` counts its completed steps, which the code records in the
order of `AUTOMATIC_STEPS`. `expected` is the projection the code compares the
issue with before each mutation.

### SpecStage

| TLA+ | Code |
|---|---|
| `artifacts`, `state`, `intents` | `spec_artifacts` (a version each), `spec_run_state`, `spec_publication_intents` |
| `fresh` | is there a comment of a person later than the newest preview's `updated_at`? |
| `Resuming` | `reconcile_pending_publications` |
| `Decisions` | one action per branch of `poll_once` after `detect_decision` |
| `Writing` | `run_attempt` and `run_pipeline`: drafts and reviews, then the version |
| `Commenting` | `upsert_owned_comment`: all publications share one comment |
| `Publishing` | the steps of `publish_artifact` and `approve` |

`poll.rev` and `poll.labels` are what was read at the start of the poll; the
actions use them where the code uses its local copy, and `issue` where it asks
again.

### ImplementationStage

| TLA+ | Code |
|---|---|
| `attempts`, `artifacts`, `intents` | `stage_runs`, `implementation_artifacts` with `draft_pr_artifacts`, `implementation_publication_intents` |
| `decision`, `bundle` | `implementation_run_state` |
| `branch`, `base_kept`, `pulls` | the publication branch: absent, the head of an artifact, or somebody else's; is the captured base still in the base branch; pull requests |
| `Reconciling` | `reconcile_pending_publications`, with exhaustion and back-off |
| `Attempting` | `process_candidate`, `run_attempt_pipeline` |
| `Commenting`, `Pushing`, `PullRequests`, `HandingOn` | the calls of `publish_preview` and `publish_automatic`, `decide_branch_projection`, `reconcile_draft_pr` |

`intents[i].ripe` says that the back-off since the last write has passed; every
write to the row makes it false, as every write renews `updated_at`. Git,
bundles, containers and validators are outcomes. The base of a pull request is
kept, left (people retargeted it) or returned (and back again). The code looks
for a pull request on the base branch, so one that was retargeted is replaced,
and three edits at the right moments (away, back, closed) leave two on the base:
`PublishedOnce` therefore speaks of those that never left it.

### ReviewStage

| TLA+ | Code |
|---|---|
| `stage` | the unfinished row of `stage_runs`: at most one |
| `attempts`, `artifacts`, `intents` | `review_attempts`, `review_findings_artifacts`, `review_publication_intents` |
| `lease` of an intent | `free`, held by this process (`own`), by a dead one (`old`), or past its 900 s (`expired`) |
| `Reconciling`, `Reviewing` | `reconcile_pending_publications`; candidate, orphan recovery, claim, worker with reprompts, artifact |
| `Submitting` | `publish_formal`: who am I, which reviews carry my marker, is the head still live, create, accept, bind, record |
| `HandingOn` | `apply_automatic_route` |
| `Previewing` | `publish_preview`, `upsert_owned_comment` |
| `Suspended` | time passes inside a call until the lease has lapsed |
| `moved` | auxiliary: the head has moved since the poll last looked |

A revision is a head and a base. Findings are identities; how the manifest
tells a persisting finding from a new one is data.

### VerificationStage

| TLA+ | Code |
|---|---|
| `attempts` | `stage_runs` joined with `verification_attempts` and their command runs |
| `runs[c].named`, `.payload` | is the process identity recorded; the process itself: held at the barrier, live, gone |
| `Recovery` | `recover_interrupted_attempts`: stop commands, stop the verifier, interrupt |
| `Claiming` | candidates, claim, inputs, workspace |
| `Execution` | `run_commands`, `execute_local`, `execute_docker`: `RecordLaunch`, `Spawn`, `RecordIdentity`, `Release`, then the end, a failed start or wait, the timeout or a failed termination, and the row |
| `verifier` | the verifier's process and the identity on record: `unnamed` and `misnamed` while it runs and its own is not stored yet |
| `Judgement`, `Publication` | evidence, verifier (spawned, then recorded) with reprompts, gate; intent, comment, intent's end, stage, attempt |
| `reviewed`, `ReviewApplied` | what the review stage has handed over |

When the process dies, what it held behind the barrier is gone; what it
released runs on until it ends or is terminated, and its termination may fail
to be verified. This covers both profiles: the local supervisor ends with its
pipe, and a container that was created and not started is started by nobody
else (`cleanup_stopped_verification_containers` removes it at the next poll). The
rows of settled attempts of which nothing survives are left out of the state.

## 3. Runs

| Run | Instance | Shows |
|---|---|---|
| `orchestrator_safety` | 2 issues, 1 slot, 1 edit, 1 silence, 1 failure or restart, `todo` and a state that is neither active nor terminal | `TypeOK` and five invariants (3.2 million states) |
| `orchestrator_hosts` | 2 issues, 2 slots, 1 host with room for 1, `agent review`, 1 edit, 1 failure | `HostCapRespected`, `DispatchesAwaitOneSpawn`, and that the loop implements `AttemptPool` |
| `orchestrator_live` | 2 issues, 2 slots, 1 edit, 1 failure | `TerminalIssuesStop`, `ActiveIssuesGetAttention`, `ScheduledAttemptsResolve` |
| `escalations` | 2 issues, 2 requests, 2 responders, 2 tasks, cache of 1 | five invariants and `WaitsEnd` |
| `triage` | 3 routes, 2 of them on the issue already, 2 texts, 2 columns, 2 attempts, 2 disturbances (faults, edits and changes of mode together) | one comment, decision and unfinished publication; conflicts (but for one case, section 4) and corrections are people's; applied means routed; publications settle |
| `spec` | 2 attempts, 1 revision request, 1 review cycle, 2 retries, 1 fault, 2 edits | one comment, attempts within budget; approved means pinned and routed; publications settle |
| `implementation` | 1 attempt, 2 validation cycles, 2 retries, 1 fault, 2 edits of any kind, 4 configurations | one pull request; applied and published together; conflicts are people's; handing on after the pull request; publications settle |
| `review` | 2 heads, 2 modes, 1 finding, 2 attempts, 1 reprompt, 1 fault, 2 edits | one artifact, intent, review, comment; routing after the review; publications settle |
| `verification` | 2 heads, 2 commands, 2 attempts, 1 reprompt, 1 fault, 1 edit | the barrier and the verdicts (2.1 million states; section 5 covers any number of faults) |
| `never_blocked` | automatic mode, comments deleted, no fault | finding 1 |
| `crashes_uncounted` | 3 crashes or other faults, no edit | finding 2 |
| `survivors` | 1 command, 2 faults, 1 edit | finding 3 |

Why the bounds are enough. Two issues are what the orchestrator's maps can
disagree about: the handlers treat issues one by one and meet only at the
slots, the hosts and the queues. One slot makes the issues exclude each other.
One silence gives an issue two live tasks, the case in which a result reaches
the wrong attempt; a second one adds a third task of the same kind. One failure
reaches every error path of a poll, since failures do not combine within one
poll except through the state they leave. A cache of one forgets with two
requests. The safety theorems do not depend on any of these.

For a stage one fault cuts its work at every point, and the poll that resumes
it meets what was left; an edit or two of people fall before, between or after.
Two heads (or texts) are an old and a new revision: each artifact, intent and
comment of one may be met by a poll for the other, and an edit back to the
first is possible where the forge allows it. Two attempts let one fail and one
succeed, or exhaust the budget (implementation has one: its budget is per
revision, and edits make two revisions). Two retries tell "failed once" from "given up".
Two commands are a first whose result decides about a second. What these bounds do
not reach is three disturbances that only together do harm: for safety the
theorems of section 5 do, for liveness nothing does.

Bounds and their names: `MaxAttempt` (attempt numbers saturate), `MaxSilences`
(attempts *with a task* that go silent: each may leave a live task behind),
`MaxErrors` (failed calls and restarts together), `Runs` (task identities),
`Requests`, `CacheCapacity`; in the stages `MaxFaults` (crashes, failed calls,
lost answers, suspensions, commands that survive), `MaxEdits` (changes by
people and operators), `MaxDisturbances` (both, in triage). `MaxAttempts`,
`MaxRetries`, `MaxRequests`, `MaxReviewCycles`, `MaxCycles`, `MaxReprompts` are
parameters of the program.

Fairness. `Orchestrator!Fairness`: the orchestrator task does not stop inside a
handler (`WF` on the phases of a poll and on the draining of results); tokio's
`select!` picks at random among ready branches, so the timer branch, which is
ready again and again, is taken (`SF` on `PollDue`); time passes, so an attempt
that never reports becomes silent (`SF` on `FallsSilent`; strong, because it
can happen only between polls). Nothing is assumed of workers, trackers or
people, and nothing of `BackoffElapses`: a retry that never came due does not
stop an issue from being picked up. `Escalations!LiveSpec`: a task that waits
is scheduled when its answer, its cancellation or its timeout is there (`WF`
per task); nothing is assumed of the orchestrator or of responders.

`FairSpec` of a stage: the loop polls again and again and each call returns
(`WF` on `Symphony`, its next step, whichever that is); time passes, so a
lease that is not renewed lapses (weak where that may happen at any moment of
the wait, strong where only between polls) and so does a back-off (`SF` on
`BackoffElapses`). Nothing is assumed of agents' success, people or faults.
That each call returns is the code's own assumption: its requests have
timeouts. Section 6 names the one await that has none. No run disables the
deadlock check.

What `PublicationsSettle` leaves out, by name, is where the code does not
recover: in triage a publication whose comment was deleted or whose issue left
the board fails each poll at the same place; in implementation the same for a
deleted comment or a vanished branch (`Hopeless`, which is what finding 1 is
about), and a text that was changed suspends the publication; in review an
automatic publication waits while people keep the issue out of the column it is
to be moved from. Spec's has no exception: it counts all failures.

## 4. What the code does otherwise than the repository says

Shown by a run:

1. **A publication that fails alike in every poll is never blocked**
   (`never_blocked`, `implementation/coordinator.rs:1666`). The error is charged
   only if its message differs from the last one recorded, which is the one the
   same path recorded a poll before. An unreachable target is charged once, keeps
   its first back-off and is retried for ever, against
   `implementation/coordinator.rs:56-58` and ADR 0004.
2. **Crashed reviews are not counted** (`crashes_uncounted`,
   `triage/store.rs:1653`). The budget counts `review_attempts` that are failed,
   blocked or interrupted, but recovery updates `stage_runs` only. A
   row of `review_attempts` becomes interrupted where the head moves during the
   worker (`review/coordinator.rs:457-459`) and nowhere else, so that a crash costs no
   attempt, against the comment at `triage/store.rs:3678-3680`.
3. **A surviving command is forgotten after one poll** (`survivors`,
   `verification/coordinator.rs:215`). Recovery ends the rows of commands whose
   termination it could not verify; the next poll passes them over, interrupts
   the attempt and lets another start beside the survivor, against the comment at
   `verification/coordinator.rs:239-242`.

Met while modelling, and in the models as the code has them, without a run of
their own:

- A failed issue does not wait for its back-off: `should_dispatch_issue`
  (`orchestrator.rs:4920`) does not look at `retry_attempts`, and the next poll
  dispatches the issue as a fresh candidate (`apps/symphony/README.md:6-7`).
- `agent.max_concurrent_agents` caps attempts, not sessions: the worker of a
  stalled, released or terminal attempt keeps its session while the slot is
  given away (`apps/symphony/README.md:166`). Its late result names the issue only
  (`orchestrator.rs:2545`) and ends whichever attempt is running by then:
  `AttemptsAreBacked` and `ClaimsMatchRunning` allow that, as they allow two live
  workers of one issue.
- A workspace removal may be deferred for a worker that has completed, because
  `schedule_retry_with_context` keeps the session id that `mark_issue_terminal`
  takes for a worker (`orchestrator.rs:5673`, log text at 5687).
- Retries skip the dependency check that "applies to **all** active states"
  (`orchestrator.rs:5355`; comment above 5196).
- A second responder may get 404 for a request whose answer has been accepted
  (`orchestrator.rs:1902`; `apps/symphony/README.md:439`).
- An interrupted removal of one of several route labels is taken for a human
  conflict. Each removal is recorded after it was made, so a crash between the two
  leaves an issue that is neither as expected nor as desired, against the comment
  at `triage/publisher.rs:670-672`. `triage` starts with two such labels and
  reaches the case; `ConflictsAreHuman` excepts it by name.
- A specification version whose attempt died after storing it is republished only
  if the attempt's row says completed (`spec/coordinator.rs:309`); otherwise the
  revision is worked on until its attempts are used up.
- An approval that is resumed after a newer version was stored pins the older
  one (`apps/symphony/docs/WORKFLOW-REFERENCE.md:560`).
- A diagnostic of a specification gap, which belongs to an artifact, is not
  published again when its first publication failed
  (`implementation/coordinator.rs:408-434`), and an interrupted implementation is
  not retried (`triage/store.rs:3589-3597`).
- Findings that persist from a superseded artifact never posted are not posted
  inline (`review/publisher.rs:593-636`).
- A verifier has no barrier: it runs before its identity is stored
  (`verification/coordinator.rs:589-604`). A crash in between leaves one that no
  recovery can stop, and its attempt is interrupted beside it. The comment at 239-242
  speaks of what was persisted, and so does `InterruptedAreGone`.
- A command that cannot be terminated at its timeout ends its attempt as failed;
  the recovery of its workspace that `verification/coordinator.rs:489` promises
  visits running attempts only.

## 5. What is proved

All theorems hold for every value of the constants that satisfies the `ASSUME`s
of the module: any number of issues, hosts, slots, requests and responders.

**`OrchestratorProofs`.** `TypeCorrect`, `SlotsNeverExceeded`,
`ClaimsNeverDrift`, `RetriesAlwaysCanFire`, `OneSpawnPerDispatch`,
`AttemptsNeverLost`, `EventsNeverOrphaned`, `HostsNeverOverfilled`. They follow
from one inductive invariant, `IInv`, the conjunction of the eight. None of them is inductive
alone. `SlotsRespected` needs that `dispatch_issue` meets an issue that is not
running, which a retry has from `RetriesCanFire`, and that one in turn needs
`ClaimsMatchRunning`: a fired retry of an issue in `claimed` alone would be
rescheduled for ever. The last conjunct of `RetriesCanFire` (what
`process_due_retries` has listed is still scheduled) is the strengthening that
lets a retry read its entry. `AttemptsAreBacked` needs
`DispatchesAwaitOneSpawn`, otherwise a second spawn could replace the task of an
attempt; and it speaks of the attempt's *own* task, because "some task of the
issue" is not preserved when the result of an older task arrives. The proof has
one lemma per handler and conjunct that the handler disturbs, and
one lemma for all the steps that leave the maps alone.

`HostCapRespected` needs that an attempt starts only on a place of
`select_worker_host` and never moves.

**`OrchestratorRefinement`.** `Refinement`: `Spec => Pool!Spec`. Each handler
is shown to be an action of the pool or a stutter under `IInv`: that a retry
begins an attempt of an issue that has none, and that a rescheduled retry was
there before, are `RetriesCanFire`; that a task belongs to one attempt is
`FreshRun`. It covers safety; the pool promises no progress.

**`EscalationsProofs`.** `TypeCorrect`, `AnsweredOnce`, `RepliesTruthful`,
`AskersStayReachable`, `CacheSound`, from `IInv`: the invariants with `Lifecycle`,
which says of each request where it may be for each state of its channel. It is
needed because `OneAnswerPerRequest` speaks of responders only: that
`HandleDispatch` may register a request without making it answerable a second
time rests on the fact that a request still in `dispatches` has never been
in the registry, the cache or a responder's hands.

**The stage modules.** Each stage has an inductive invariant `IInv`, of the shape
type correctness, the properties, what the rows of the store say of each
other, and what the poll knows at each place. The last part carries the
argument: a call of `poll_once` is guarded by what an earlier call returned, so
an invariant of the rows alone is not preserved by the action that writes them.
A crash and an error drop the poll's part (`Idle` satisfies it), which is why the
theorems hold for any number of them and at any point; an edit by people weakens
it to what does not depend on the forge (`touched`). Every proof has one lemma for each
action, and lemmas for the parts that an action leaves alone; each `IInv` was
checked with TLC on the instance of the stage's run before it was proved.

- `TriageProofs`: `TypeHolds`, `WorkIsDoneOnce`, and the action properties
  `OnlyPeopleCharged` and `AppliedIsRouted`. The heart is `Near`: unless people
  have touched the issue, it is as the publication expects it, or at its step's
  end, or one removed label short. That is what a crash between a write and
  its record can leave, and it is preserved by the write, the record and
  the resumption. `FindConflict` needs the issue to be none of the first two, so
  only the third is left, and it differs from the second only if several
  labels are to be removed: the exception `ConflictsAreHuman` names. `Shows`
  (what a recorded step has put into `expected`) with `Near` gives
  `AppliedMeansRouted` at the last comment. `PlacedSound` follows the labels
  Symphony put on until `latest` names them, which is what a correction
  is compared with. `OneUnfinishedPublication` needs `PollResumes`: a poll in
  `Clear` has nothing unfinished, because it resumed everything first and stops
  at the first error.
- `SpecProofs`: `TypeHolds`, `WorkIsDoneOnce`, `ApprovalIsPinned`,
  `ApprovalIsRouted`. `PollApproves` says that an approval is pinned before it is
  shown as carried out, `PollRoutes` which of its labels and columns are done at
  each of its five places, unless people have touched them.
- `ImplementationProofs`: `InvariantHolds`, `TypeHolds`, `WorkIsDoneOnce`,
  `AppliedIsPublished`, `OnlyPeopleConflict`, `HandoffIsAfterPull`. `Before` is
  the order of the recorded steps; `BundleKept` and `IntentSound` tie a
  publication to its artifact, bundle and pull request. A second pull request is
  excluded by what the poll knows between looking for one and creating it, and a conflict by
  `ForgeSound`: untouched, the branch is absent or at the bundle, and the only
  pull request is its own. A part of `AttemptsSound` was added for it: completed
  artifacts of one version and mode are one.
- `ReviewProofs`: `TypeHolds`, `WorkIsDoneOnce`, `HandoffIsAfterReview`.
  `Bound` orders the steps of a publication and says that a review it has bound is
  its own; `PollMakes` that what is about to be made is not there; `HeadSeen`
  that the head of an accepted review was live.
- `VerificationProofs`: `InvariantHolds`, `TypeHolds`, `VerificationIsSound`. A
  command is released only with its identity recorded (`RunsFollow`), a gate is
  stored after the last run and before publication (`GatesFollow`), and a
  candidate has no verdict (`ClaimIsFresh`, which needs `todo` to hold only
  fresh ones).

Assumptions on the constants: issues and hosts are finite sets, caps are natural
numbers, the three kinds of tracker states are disjoint and "in progress" is an
active one (`StatesAssumption`), and the null values are none of the values they
stand beside. In the stages budgets are positive natural numbers and bounds are
natural numbers; triage assumes finitely many routes (they are an enumeration in
the code) and that `NoKey` is neither a publication nor a label; spec assumes that its
five labels differ. TLC evaluates them in every run.

Only model-checked: the liveness properties (`TerminalIssuesStop`,
`ActiveIssuesGetAttention`, `ScheduledAttemptsResolve`, `WaitsEnd`,
`PublicationsSettle`), because the prover does not handle liveness under
fairness. Every safety and action property that a passing run checks is stated by a
theorem. The properties of the three runs of section 4 are refuted by TLC.

## 6. Not modelled

`components` in `PROJECT.json` gives the reason for each part. What a reader
might miss most:

- *Steering* (`handle_steer_dispatch`, `orchestrator.rs:2623`, and the
  follow-up queue of a worker session). Reading it gave: it blocks the loop up to
  4 s per request while the HTTP caller gives up after 5; a follow-up whose wait
  timed out stays queued and may be delivered after failure was reported, so that
  a repeated request arrives twice; the session id kept by
  `schedule_retry_with_context` turns steering of a session that has not started
  into a timeout instead of a 409; an instruction written after the agent has
  ended its turn but before that is read is lost with the session. A worker that waits for
  an escalation the loop has not registered, and the loop waiting for that
  worker's follow-up, end by the 4 s timeout. The channel is kept by issue, so a
  new attempt replaces that of a stalled one (`orchestrator.rs:2478`).
- *The agents' wire protocols*: turns, read and turn timeouts. `last_line_at` is
  not renewed after the wait for a human (`pi_agent/rpc_bridge.rs:802`), so that an
  agent that has been answered may be failed for silence; a cancelled
  `read_line` loses bytes it had taken (`rpc_bridge.rs:200`).
- *Reload and refresh*: the configuration is constant in `Orchestrator` though
  each poll reloads it (`orchestrator.rs:2187`); coalescing of refresh requests
  (1525) is reduced to a poll that may start at any time.
- *Several issues in a stage.* A stage handles its candidates one by one, and they
  meet only where an error ends the whole poll: triage's `?` also ends the polls
  of the stages after it (`triage/runtime.rs:2225`). That, and all five stages on
  one store, is not composed.
- *Time inside a call.* The output of a command is awaited without a limit after
  it has ended (`verification/executor.rs:302`); in the model every call returns.
- *Panics* of a worker task, which send no result (`orchestrator.rs:2524`): stall
  detection finds the attempt, as it finds one that lost its spawn.
- The supervisor's patterns, notifications, shared context, configuration,
  command line, displays and the TypeScript packages: sequential, or without
  state another component depends on.

## 7. Plan

1. An abstract publication (begun, carried out in steps, settled) that each
   stage's intents implement, as `AttemptPool` is for the orchestrator.
2. `Steering`: one worker session with its follow-ups, the loop that forwards,
   the HTTP caller with its deadline; what is lost, delivered late or twice.
3. Refresh coalescing and reload, in `Orchestrator`, with the proofs they touch.
