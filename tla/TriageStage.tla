----------------------------- MODULE TriageStage -----------------------------
(***************************************************************************)
(* The triage stage for one issue (triage/coordinator.rs,                  *)
(* triage/publisher.rs, triage/correction.rs and their tables in           *)
(* triage/store.rs).                                                       *)
(*                                                                         *)
(* One Symphony process owns the store and polls in a loop: it recovers    *)
(* what an earlier process abandoned, resumes unfinished publications,     *)
(* measures how people corrected earlier routes, then triages the issue if *)
(* it carries the intake label.  What it writes to the store and what it   *)
(* does to the issue are separate calls; the process may die, or a call    *)
(* fail after it took effect, between any two of them.  People edit the    *)
(* issue at any moment.                                                    *)
(***************************************************************************)
EXTENDS Integers, Sequences, FiniteSets

CONSTANTS
    Routes,         \* what an agent may decide, each with one label
    Revisions,      \* texts of the issue; an attempt is for one of them
    Columns,        \* states of the project board
    RouteColumn,    \* route -> the column it moves the issue to, or NoColumn
    MaxAttempts,    \* triage.max_attempts
    InitialIssues,  \* what the issue may be like when it enters the intake
    MaxDisturbances \* bound: crashes, failed calls and changes people make

CONSTANTS Intake, NoRevision, NoRoute, NoColumn, NoKey

ASSUME TriageAssumption ==
    /\ MaxAttempts \in Nat \ {0}
    /\ MaxDisturbances \in Nat
    /\ RouteColumn \in [Routes -> Columns \cup {NoColumn}]
    /\ IsFiniteSet(Routes)
    /\ InitialIssues \subseteq [labels : SUBSET (Routes \cup {Intake}),
                               column : Columns \cup {NoColumn}, text : Revisions]
    /\ Intake \notin Routes
    /\ NoRoute \notin Routes
    /\ NoRevision \notin Revisions
    /\ NoColumn \notin Columns

\* A publication belongs to an artifact, so to a revision, and has a mode; the
\* note for an issue outside the project belongs to the run alone.
Keys == ({"preview", "automatic"} \X Revisions) \cup {<<"ineligible", NoRevision>>}
Diagnostic == <<"ineligible", NoRevision>>

ASSUME NoKeyAssumption == NoKey \notin Keys \cup Routes \cup {Intake}

VARIABLES
    run_status,    \* status of the issue's row of factory_runs
    attempts,      \* revision -> its rows of stage_runs, oldest first
    artifacts,     \* revision -> the route of its row of triage_artifacts
    intents,       \* rows of publication_intents
    latest,        \* the automatic intent applied last
    observations,  \* rows of route_observations: <<intent, route>>
    issue,         \* the issue on the forge: labels, column, text
    comments,      \* publication -> its marked comments on the issue
    agents,        \* live agent processes: <<revision, attempt>>
    poll,          \* where the poll is
    todo,          \* publications the poll has still to resume
    mode,          \* triage.enabled and triage.mode
    disturbances,  \* how many there were
    touched,       \* have people changed labels or column since the last baseline?
    placed         \* route labels that Symphony was the last to put on

store_vars == <<run_status, attempts, artifacts, intents, latest, observations>>
poll_vars == <<poll, todo>>
ghost_vars == <<touched, placed>>
vars == <<store_vars, issue, comments, agents, poll_vars, mode, disturbances, ghost_vars>>

Labels == Routes \cup {Intake}
Projection == [labels : SUBSET Labels, column : Columns \cup {NoColumn}]
Issue == [labels : SUBSET Labels, column : Columns \cup {NoColumn}, text : Revisions]

Attempt == [status : {"running", "completed", "failed", "interrupted"},
            stale : BOOLEAN, recorded : BOOLEAN]

AutomaticSteps == <<"comment_pending", "route_label", "project_state",
                    "conflict_cleanup", "comment_route_effects",
                    "intake_removed", "comment_applied">>

\* done counts completed_steps, which are recorded in order.
Intent == [status : {"none", "pending", "applied", "conflict"},
           done : 0..Len(AutomaticSteps), bound : BOOLEAN, baselined : BOOLEAN,
           expected : Projection]

Bare == [labels |-> {}, column |-> NoColumn]
NoIntent == [status |-> "none", done |-> 0, bound |-> FALSE,
             baselined |-> FALSE, expected |-> Bare]
NewIntent == [NoIntent EXCEPT !.status = "pending"]

Places == {"idle", "recover", "pending", "corrections", "intake", "issue",
           "turn", "decided", "failed", "ensure", "publish", "comment",
           "created", "commented", "mutate", "mutated", "complete"}
Poll == [at : Places, key : Keys \cup {NoKey}, rev : Revisions \cup {NoRevision},
         route : Routes \cup {NoRoute}, label : Labels \cup {NoKey},
         then : {"idle", "pending", "complete"}]

Idle == [at |-> "idle", key |-> NoKey, rev |-> NoRevision, route |-> NoRoute,
         label |-> NoKey, then |-> "idle"]

Observed == [labels |-> issue.labels, column |-> issue.column]
Running(r) == {n \in DOMAIN attempts[r] : attempts[r][n].status = "running"}
Unfinished == {k \in Keys : intents[k].status = "pending"}

Goto(place) == poll' = [poll EXCEPT !.at = place]
Return(r) == poll' = [Idle EXCEPT !.at = r]

----------------------------------------------------------------------------
(* The store: each definition is one transaction. *)

\* interrupt_stale_attempts: whose lease was not renewed for a minute.
Interrupted == [r \in Revisions |-> [n \in DOMAIN attempts[r] |->
    IF attempts[r][n].status = "running" /\ attempts[r][n].stale
    THEN [attempts[r][n] EXCEPT !.status = "interrupted"] ELSE attempts[r][n]]]

ClaimAttempt(r) ==
    /\ run_status' = "active"
    /\ attempts' = [attempts EXCEPT ![r] =
           Append(@, [status |-> "running", stale |-> FALSE, recorded |-> FALSE])]

StoreArtifact(r, route) ==
    LET n == Len(attempts[r]) IN
    /\ attempts[r][n].status = "running"
    /\ artifacts' = [artifacts EXCEPT ![r] = route]
    /\ attempts' = [attempts EXCEPT ![r][n].status = "completed"]

FailAttempt(r) ==
    attempts' = [attempts EXCEPT ![r][Len(attempts[r])].status = "failed"]

CreateIntent(k) == intents' = [intents EXCEPT ![k] = NewIntent]

SetBaseline(k) ==
    /\ intents' = [intents EXCEPT ![k].baselined = TRUE, ![k].expected = Observed]
    /\ touched' = FALSE

BindComment(k) == intents' = [intents EXCEPT ![k].bound = TRUE]

RecordStep(k, projection) ==
    intents' = [intents EXCEPT ![k].done = @ + 1, ![k].expected = projection]

MarkConflict(k) == intents' = [intents EXCEPT ![k].status = "conflict"]

\* An interrupted attempt is recoverable while it names a process.
Recoverable == {a \in Revisions \X (1..MaxAttempts) :
    /\ a[2] \in DOMAIN attempts[a[1]]
    /\ attempts[a[1]][a[2]].status = "interrupted"
    /\ attempts[a[1]][a[2]].recorded}

----------------------------------------------------------------------------
(* A poll: recovery, resumed publications, corrections *)

PollStarts ==
    /\ poll.at = "idle"
    /\ attempts' = Interrupted
    /\ Goto("recover")
    /\ UNCHANGED <<run_status, artifacts, intents, latest, observations, issue,
                   comments, agents, todo, mode, disturbances, ghost_vars>>

\* Faulty: what was begun in another mode is not resumed.
PendingInMode == {k \in Unfinished : k[1] = mode}

\* list_pending_intents
PendingIntents == Unfinished

\* An attempt is reclaimed once its process is gone or was terminated; of those
\* that cannot be signalled, or outlive the signal, the record is kept.
RecoverInterrupted ==
    /\ poll.at = "recover"
    /\ \E reclaimed \in SUBSET Recoverable :
        /\ agents' = agents \ reclaimed
        /\ attempts' = [r \in Revisions |-> [n \in DOMAIN attempts[r] |->
               [attempts[r][n] EXCEPT !.recorded = @ /\ <<r, n>> \notin reclaimed]]]
    /\ todo' = PendingIntents
    /\ Goto("pending")
    /\ UNCHANGED <<run_status, artifacts, intents, latest, observations, issue,
                   comments, mode, disturbances, ghost_vars>>

ResumePublication ==
    /\ poll.at = "pending"
    /\ \E k \in todo :
        /\ poll' = [Idle EXCEPT !.at = "publish", !.key = k, !.then = "pending"]
        /\ todo' = todo \ {k}
    /\ UNCHANGED <<store_vars, issue, comments, agents, mode, disturbances, ghost_vars>>

PendingDone ==
    /\ poll.at = "pending"
    /\ todo = {}
    /\ Goto("corrections")
    /\ UNCHANGED <<store_vars, issue, comments, agents, todo, mode, disturbances,
                   ghost_vars>>

\* Faulty: every applied publication is measured, not only the latest.
AllCandidates == {k \in Keys : k[1] = "automatic" /\ intents[k].status = "applied"}

\* The publication whose route people may have corrected.
Candidates == {latest} \cap Keys

\* Faulty: an issue without one route label counts as corrected.
CorrectedToNone(k) ==
    {x \in Routes \cup {NoRoute} :
        IF Cardinality(issue.labels \cap Routes) = 1
        THEN x \in issue.labels \ {artifacts[k[2]]} ELSE x = NoRoute}

\* compare_route_labels: one route label, and not the published one.
CorrectedTo(k) ==
    {x \in Routes : issue.labels \cap Routes = {x} /\ x # artifacts[k[2]]}

\* A failed read of the labels, or no access to them, skips the candidate.
MeasureCorrections ==
    /\ poll.at = "corrections"
    /\ \/ UNCHANGED observations
       \/ /\ Intake \notin issue.labels
          /\ observations' = observations \cup
                 UNION {{k} \X CorrectedTo(k) : k \in Candidates}
    /\ IF mode = "off" THEN Return("idle") ELSE Goto("intake")
    /\ UNCHANGED <<run_status, attempts, artifacts, intents, latest, issue,
                   comments, agents, todo, mode, disturbances, ghost_vars>>

----------------------------------------------------------------------------
(* A poll: the issue in the intake *)

\* The issue is as it was fetched until the poll is done with it.
FetchIntake ==
    /\ poll.at = "intake"
    /\ IF Intake \notin issue.labels
       THEN Return("idle") /\ UNCHANGED run_status
       ELSE IF issue.column = NoColumn
       THEN /\ run_status' = "ineligible"
            /\ poll' = [poll EXCEPT !.at = "ensure", !.key = Diagnostic]
       ELSE /\ poll' = [poll EXCEPT !.at = "issue", !.rev = issue.text]
            /\ UNCHANGED run_status
    /\ UNCHANGED <<attempts, artifacts, intents, latest, observations, issue,
                   comments, agents, todo, mode, disturbances, ghost_vars>>

HasArtifact ==
    /\ poll.at = "issue"
    /\ artifacts[poll.rev] # NoRoute
    /\ poll' = [poll EXCEPT !.at = "ensure", !.key = <<mode, poll.rev>>]
    /\ UNCHANGED <<store_vars, issue, comments, agents, todo, mode, disturbances,
                   ghost_vars>>

MayClaim(r) == Running(r) = {} /\ Len(attempts[r]) < MaxAttempts

SkipIssue ==
    /\ poll.at = "issue"
    /\ artifacts[poll.rev] = NoRoute
    /\ ~MayClaim(poll.rev)
    /\ Return("idle")
    /\ UNCHANGED <<store_vars, issue, comments, agents, todo, mode, disturbances,
                   ghost_vars>>

Claim ==
    /\ poll.at = "issue"
    /\ artifacts[poll.rev] = NoRoute
    /\ MayClaim(poll.rev)
    /\ ClaimAttempt(poll.rev)
    /\ Goto("turn")
    /\ UNCHANGED <<artifacts, intents, latest, observations, issue, comments,
                   agents, todo, mode, disturbances, ghost_vars>>

Current == <<poll.rev, Len(attempts[poll.rev])>>

SpawnAgent ==
    /\ poll.at = "turn"
    /\ Current \notin agents
    /\ ~attempts[Current[1]][Current[2]].recorded
    /\ agents' = agents \cup {Current}
    /\ UNCHANGED <<store_vars, issue, comments, poll_vars, mode, disturbances, ghost_vars>>

\* The notice of the spawn is read by the loop that renews the lease.
RecordProcess ==
    /\ poll.at = "turn"
    /\ Current \in agents
    /\ ~attempts[Current[1]][Current[2]].recorded
    /\ attempts' = [attempts EXCEPT ![Current[1]][Current[2]].recorded = TRUE]
    /\ UNCHANGED <<run_status, artifacts, intents, latest, observations, issue,
                   comments, agents, poll_vars, mode, disturbances, ghost_vars>>

AgentDecides ==
    /\ poll.at = "turn"
    /\ Current \in agents
    /\ \E route \in Routes : poll' = [poll EXCEPT !.at = "decided", !.route = route]
    /\ agents' = agents \ {Current}
    /\ UNCHANGED <<store_vars, issue, comments, todo, mode, disturbances, ghost_vars>>

AgentFails ==
    /\ poll.at = "turn"
    /\ FailAttempt(poll.rev)
    /\ agents' = agents \ {Current}
    /\ Goto("failed")
    /\ UNCHANGED <<run_status, artifacts, intents, latest, observations, issue,
                   comments, todo, mode, disturbances, ghost_vars>>

GiveUp ==
    /\ poll.at = "failed"
    /\ run_status' = IF Len(attempts[poll.rev]) >= MaxAttempts THEN "failed" ELSE run_status
    /\ Return("idle")
    /\ UNCHANGED <<attempts, artifacts, intents, latest, observations, issue,
                   comments, agents, todo, mode, disturbances, ghost_vars>>

KeepDecision ==
    /\ poll.at = "decided"
    /\ StoreArtifact(poll.rev, poll.route)
    /\ poll' = [poll EXCEPT !.at = "ensure", !.key = <<mode, poll.rev>>]
    /\ UNCHANGED <<run_status, intents, latest, observations, issue, comments,
                   agents, todo, mode, disturbances, ghost_vars>>

----------------------------------------------------------------------------
(* Publication *)

\* The intent of an artifact is created once; an applied one only completes
\* the run that an earlier process left active.
EnsureIntent ==
    /\ poll.at = "ensure"
    /\ intents[poll.key].status = "none"
    /\ CreateIntent(poll.key)
    /\ poll' = [Idle EXCEPT !.at = "publish", !.key = poll.key,
                   !.then = IF poll.key = Diagnostic THEN "idle" ELSE "complete"]
    /\ UNCHANGED <<run_status, attempts, artifacts, latest, observations, issue,
                   comments, agents, todo, mode, disturbances, ghost_vars>>

ReuseIntent ==
    /\ poll.at = "ensure"
    /\ intents[poll.key].status \in {"pending", "conflict"}
    /\ poll' = [Idle EXCEPT !.at = "publish", !.key = poll.key,
                   !.then = IF poll.key = Diagnostic THEN "idle" ELSE "complete"]
    /\ UNCHANGED <<store_vars, issue, comments, agents, todo, mode, disturbances,
                   ghost_vars>>

FinalizeApplied ==
    /\ poll.at = "ensure"
    /\ intents[poll.key].status = "applied"
    /\ run_status' = IF poll.key[1] = "automatic" THEN "completed" ELSE run_status
    /\ Return("idle")
    /\ UNCHANGED <<attempts, artifacts, intents, latest, observations, issue,
                   comments, agents, todo, mode, disturbances, ghost_vars>>

IntentOf == intents[poll.key]
RouteOf(k) == artifacts[k[2]]
Automatic(k) == k[1] = "automatic"
Step(k) == IF Automatic(k) /\ intents[k].done < Len(AutomaticSteps)
           THEN AutomaticSteps[intents[k].done + 1] ELSE "comment"

CommentSteps == {"comment", "comment_pending", "comment_route_effects", "comment_applied"}

\* What the labels and the column are to be after the step.
Desired(k) ==
    LET expected == intents[k].expected IN
    CASE Step(k) = "route_label" ->
             [expected EXCEPT !.labels = @ \cup {RouteOf(k)}]
      [] Step(k) = "project_state" ->
             [expected EXCEPT !.column = RouteColumn[RouteOf(k)]]
      [] Step(k) = "conflict_cleanup" ->
             [expected EXCEPT !.labels = @ \ (Routes \ {RouteOf(k)})]
      [] Step(k) = "intake_removed" ->
             [expected EXCEPT !.labels = @ \ {Intake}]
      [] OTHER -> expected

\* A conflict is terminal: nothing publishes this intent again.
PublicationReturns ==
    /\ poll.at = "publish"
    /\ IntentOf.status # "pending"
    /\ poll' = [poll EXCEPT !.at = poll.then]
    /\ UNCHANGED <<store_vars, issue, comments, agents, todo, mode, disturbances,
                   ghost_vars>>

EnsureBaseline ==
    /\ poll.at = "publish"
    /\ IntentOf.status = "pending"
    /\ Automatic(poll.key)
    /\ ~IntentOf.baselined
    /\ SetBaseline(poll.key)
    /\ UNCHANGED <<run_status, attempts, artifacts, latest, observations, issue,
                   comments, agents, poll_vars, mode, disturbances, placed>>

Due(steps) ==
    /\ poll.at = "publish"
    /\ IntentOf.status = "pending"
    /\ Automatic(poll.key) => IntentOf.baselined
    /\ Step(poll.key) \in steps

\* upsert_marked_comment: by its recorded id, else by the marker in its text.
UpdateComment ==
    /\ Due(CommentSteps)
    /\ comments[poll.key] > 0
    /\ IF IntentOf.bound THEN UNCHANGED intents ELSE BindComment(poll.key)
    /\ Goto("commented")
    /\ UNCHANGED <<run_status, attempts, artifacts, latest, observations, issue,
                   comments, agents, todo, mode, disturbances, ghost_vars>>

\* Faulty: an intent that has no recorded comment has none.
Unbound(k) == ~intents[k].bound

\* No comment is recorded and none with the marker is found.
Unmarked(k) == ~intents[k].bound /\ comments[k] = 0

CreateComment ==
    /\ Due(CommentSteps)
    /\ Unmarked(poll.key)
    /\ comments' = [comments EXCEPT ![poll.key] = @ + 1]
    /\ Goto("created")
    /\ UNCHANGED <<store_vars, issue, agents, todo, mode, disturbances, ghost_vars>>

SetComment ==
    /\ poll.at = "created"
    /\ BindComment(poll.key)
    /\ Goto("commented")
    /\ UNCHANGED <<run_status, attempts, artifacts, latest, observations, issue,
                   comments, agents, todo, mode, disturbances, ghost_vars>>

\* The last comment makes the publication applied.
RecordComment ==
    /\ poll.at = "commented"
    /\ LET last == ~Automatic(poll.key) \/ Step(poll.key) = "comment_applied" IN
        /\ intents' = [intents EXCEPT ![poll.key].done = @ + 1,
                          ![poll.key].status = IF last THEN "applied" ELSE @]
        /\ latest' = IF last /\ Automatic(poll.key) THEN poll.key ELSE latest
    /\ Goto("publish")
    /\ UNCHANGED <<run_status, attempts, artifacts, observations, issue, comments,
                   agents, todo, mode, disturbances, ghost_vars>>

MutationSteps == {"route_label", "project_state", "conflict_cleanup", "intake_removed"}

Reached(k) == Observed = Desired(k)

\* Nobody but Symphony changed labels or column since they were expected.
Ours(k) == Observed = intents[k].expected

\* Faulty: a step found pending after the labels is taken to be done.
NoColumnEver == Step(poll.key) = "project_state"

NoColumnChange ==
    Step(poll.key) = "project_state" /\ RouteColumn[RouteOf(poll.key)] = NoColumn

SkipColumn ==
    /\ Due(MutationSteps)
    /\ NoColumnChange
    /\ RecordStep(poll.key, IntentOf.expected)
    /\ UNCHANGED <<run_status, attempts, artifacts, latest, observations, issue,
                   comments, agents, poll_vars, mode, disturbances, ghost_vars>>

AlreadyDesired ==
    /\ Due(MutationSteps)
    /\ ~NoColumnChange
    /\ Reached(poll.key)
    /\ RecordStep(poll.key, Desired(poll.key))
    /\ UNCHANGED <<run_status, attempts, artifacts, latest, observations, issue,
                   comments, agents, poll_vars, mode, disturbances, ghost_vars>>

FindConflict ==
    /\ Due(MutationSteps)
    /\ ~NoColumnChange
    /\ ~Reached(poll.key)
    /\ ~Ours(poll.key)
    /\ MarkConflict(poll.key)
    /\ UNCHANGED <<run_status, attempts, artifacts, latest, observations, issue,
                   comments, agents, poll_vars, mode, disturbances, ghost_vars>>

MayMutate ==
    /\ Due(MutationSteps)
    /\ ~NoColumnChange
    /\ ~Reached(poll.key)
    /\ Ours(poll.key)
    /\ Goto("mutate")
    /\ UNCHANGED <<store_vars, issue, comments, agents, todo, mode, disturbances,
                   ghost_vars>>

AddRouteLabel ==
    /\ poll.at = "mutate"
    /\ Step(poll.key) = "route_label"
    /\ issue' = [issue EXCEPT !.labels = @ \cup {RouteOf(poll.key)}]
    /\ placed' = placed \cup ({RouteOf(poll.key)} \ issue.labels)
    /\ Goto("mutated")
    /\ UNCHANGED <<store_vars, comments, agents, todo, mode, disturbances, touched>>

\* Setting the column of an issue that left the board is an error.
SetColumn ==
    /\ poll.at = "mutate"
    /\ Step(poll.key) = "project_state"
    /\ issue.column # NoColumn
    /\ issue' = [issue EXCEPT !.column = RouteColumn[RouteOf(poll.key)]]
    /\ Goto("mutated")
    /\ UNCHANGED <<store_vars, comments, agents, todo, mode, disturbances, ghost_vars>>

ToRemove(k) == intents[k].expected.labels \ Desired(k).labels

\* Labels go one by one, each removal recorded before the next.
RemoveLabel ==
    /\ poll.at = "mutate"
    /\ \E l \in ToRemove(poll.key) :
        /\ issue' = [issue EXCEPT !.labels = @ \ {l}]
        /\ poll' = [poll EXCEPT !.at = "mutated", !.label = l]
    /\ UNCHANGED <<store_vars, comments, agents, todo, mode, disturbances, ghost_vars>>

RecordRemoval ==
    /\ poll.at = "mutated"
    /\ poll.label # NoKey
    /\ intents' = [intents EXCEPT ![poll.key].expected.labels = @ \ {poll.label}]
    /\ poll' = [poll EXCEPT !.at = "mutate", !.label = NoKey]
    /\ UNCHANGED <<run_status, attempts, artifacts, latest, observations, issue,
                   comments, agents, todo, mode, disturbances, ghost_vars>>

RecordMutation ==
    /\ \/ poll.at = "mutated" /\ poll.label = NoKey
       \/ /\ poll.at = "mutate"
          /\ Step(poll.key) \in {"conflict_cleanup", "intake_removed"}
          /\ ToRemove(poll.key) = {}
    /\ RecordStep(poll.key, Desired(poll.key))
    /\ Goto("publish")
    /\ UNCHANGED <<run_status, attempts, artifacts, latest, observations, issue,
                   comments, agents, todo, mode, disturbances, ghost_vars>>

\* A publication that a poll resumes does not complete the run.
CompleteRun ==
    /\ poll.at = "complete"
    /\ run_status' = IF IntentOf.status = "applied" THEN "completed" ELSE run_status
    /\ Return("idle")
    /\ UNCHANGED <<attempts, artifacts, intents, latest, observations, issue,
                   comments, agents, todo, mode, disturbances, ghost_vars>>

----------------------------------------------------------------------------
(* Failures, time, people *)

Disturb ==
    /\ disturbances < MaxDisturbances
    /\ disturbances' = disturbances + 1

\* An error ends the poll, and a crash the process.  A crash in the middle of
\* a turn leaves the agent alive.
Abandon ==
    /\ poll.at # "idle"
    /\ Disturb
    /\ \/ UNCHANGED agents
       \/ poll.at = "turn" /\ agents' = agents \ {Current}
    /\ poll' = Idle
    /\ todo' = {}
    /\ UNCHANGED <<store_vars, issue, comments, mode, ghost_vars>>

\* Calls the forge cannot but refuse: the recorded comment was deleted, or the
\* issue is no longer on the board.  The error ends the whole poll.
ForgeRefuses ==
    /\ \/ Due(CommentSteps) /\ IntentOf.bound /\ comments[poll.key] = 0
       \/ poll.at = "mutate" /\ Step(poll.key) = "project_state" /\ issue.column = NoColumn
    /\ poll' = Idle
    /\ todo' = {}
    /\ UNCHANGED <<store_vars, issue, comments, agents, mode, disturbances, ghost_vars>>

\* The lease of an attempt is renewed only while its turn is awaited.
LeaseExpires ==
    /\ \E r \in Revisions : \E n \in Running(r) :
        /\ ~attempts[r][n].stale
        /\ poll.at \in {"turn", "decided", "failed"} => <<r, n>> # Current
        /\ attempts' = [attempts EXCEPT ![r][n].stale = TRUE]
    /\ UNCHANGED <<run_status, artifacts, intents, latest, observations, issue,
                   comments, agents, poll_vars, mode, disturbances, ghost_vars>>

OrphanExits ==
    /\ \E a \in agents :
        /\ poll.at = "turn" => a # Current
        /\ agents' = agents \ {a}
    /\ UNCHANGED <<store_vars, issue, comments, poll_vars, mode, disturbances, ghost_vars>>

PeopleEdit ==
    /\ Disturb
    /\ \/ /\ \E t \in Revisions \ {issue.text} : issue' = [issue EXCEPT !.text = t]
          /\ UNCHANGED <<comments, ghost_vars>>
       \/ /\ \E l \in Labels :
               /\ issue' = [issue EXCEPT !.labels =
                      IF l \in @ THEN @ \ {l} ELSE @ \cup {l}]
               /\ placed' = placed \ {l}
          /\ touched' = TRUE
          /\ UNCHANGED comments
       \/ /\ \E c \in (Columns \cup {NoColumn}) \ {issue.column} :
               issue' = [issue EXCEPT !.column = c]
          /\ touched' = TRUE
          /\ UNCHANGED <<comments, placed>>
       \/ /\ \E k \in Keys :
               /\ comments[k] > 0
               /\ comments' = [comments EXCEPT ![k] = 0]
          /\ UNCHANGED <<issue, ghost_vars>>
    /\ UNCHANGED <<store_vars, agents, poll_vars, mode>>

\* The configuration is read again between polls.
OperatorReloads ==
    /\ poll.at = "idle"
    /\ Disturb
    /\ mode' \in {"off", "preview", "automatic"} \ {mode}
    /\ UNCHANGED <<store_vars, issue, comments, agents, poll_vars, ghost_vars>>

----------------------------------------------------------------------------
Init ==
    /\ run_status = "none"
    /\ attempts = [r \in Revisions |-> <<>>]
    /\ artifacts = [r \in Revisions |-> NoRoute]
    /\ intents = [k \in Keys |-> NoIntent]
    /\ latest = NoKey
    /\ observations = {}
    /\ issue \in InitialIssues
    /\ comments = [k \in Keys |-> 0]
    /\ agents = {}
    /\ poll = Idle
    /\ todo = {}
    /\ mode \in {"preview", "automatic"}
    /\ disturbances = 0
    /\ touched = FALSE
    /\ placed = {}

Recovering == PollStarts \/ RecoverInterrupted \/ ResumePublication \/ PendingDone
                \/ MeasureCorrections
Triaging == FetchIntake \/ HasArtifact \/ SkipIssue \/ Claim \/ SpawnAgent
              \/ RecordProcess \/ AgentDecides \/ AgentFails \/ GiveUp \/ KeepDecision
              \/ EnsureIntent \/ ReuseIntent \/ FinalizeApplied
Commenting == UpdateComment \/ CreateComment \/ SetComment \/ RecordComment
Routing == EnsureBaseline \/ SkipColumn \/ AlreadyDesired \/ FindConflict \/ MayMutate
             \/ AddRouteLabel \/ SetColumn \/ RemoveLabel \/ RecordRemoval \/ RecordMutation
Symphony == Recovering \/ Triaging \/ Commenting \/ Routing
              \/ PublicationReturns \/ CompleteRun \/ ForgeRefuses
Environment == Abandon \/ LeaseExpires \/ OrphanExits \/ PeopleEdit \/ OperatorReloads
Next == Symphony \/ Environment

Spec == Init /\ [][Next]_vars

\* The poll loop keeps running and every call it makes returns; people, faults
\* and agents owe nothing.
FairSpec == Spec /\ WF_vars(Symphony) /\ WF_vars(LeaseExpires)

----------------------------------------------------------------------------
(* Properties *)

\* The shape of every variable.
TypeOK ==
    /\ run_status \in {"none", "active", "completed", "failed", "ineligible"}
    /\ attempts \in [Revisions -> Seq(Attempt)]
    /\ artifacts \in [Revisions -> Routes \cup {NoRoute}]
    /\ intents \in [Keys -> Intent]
    /\ latest \in Keys \cup {NoKey}
    /\ observations \subseteq Keys \X Routes
    /\ issue \in Issue
    /\ comments \in [Keys -> Nat]
    /\ agents \subseteq Revisions \X Nat
    /\ poll \in Poll
    /\ todo \subseteq Keys
    /\ mode \in {"off", "preview", "automatic"}
    /\ disturbances \in 0..MaxDisturbances
    /\ touched \in BOOLEAN
    /\ placed \subseteq Labels

\* However often a publication is cut short between writing to the issue and
\* recording it, the issue has at most one comment of it (upsert_marked_comment,
\* recover_owned_comment).
OneCommentPerPublication == \A k \in Keys : comments[k] <= 1

\* A publication stops with human_conflict only when a person changed labels or
\* column after its baseline was taken: an interrupted mutation of its own is
\* not taken for one, unless it has removed one of several labels, which leaves
\* neither the expected nor the desired projection (reconcile_mutation).
ConflictsAreHuman ==
    [][\A k \in Keys :
          intents[k].status # "conflict" /\ intents'[k].status = "conflict" =>
              \/ touched
              \/ Step(k) = "conflict_cleanup" /\ Cardinality(ToRemove(k)) > 1]_vars

\* What an automatic publication promises of the issue.
Routed(k) ==
    /\ issue.labels \cap Labels = {RouteOf(k)}
    /\ RouteColumn[RouteOf(k)] # NoColumn => issue.column = RouteColumn[RouteOf(k)]

\* When an automatic publication becomes applied, and nobody touched labels or
\* column since its baseline, the issue carries its route label and no other,
\* is in its column and has left the intake, whatever was interrupted and
\* repeated on the way (reconcile_automatic).
AppliedMeansRouted ==
    [][latest' # latest /\ ~touched => Routed(latest')]_vars

\* A revision has at most max_attempts attempts, at most one of them running,
\* and a decision exactly when one attempt completed, across interruptions and
\* restarts (claim_attempt, store_artifact, interrupt_stale_attempts).
AttemptsSound ==
    \A r \in Revisions :
        /\ Len(attempts[r]) <= MaxAttempts
        /\ \A m, n \in Running(r) : m = n
        /\ (artifacts[r] # NoRoute) <=>
               \E n \in DOMAIN attempts[r] : attempts[r][n].status = "completed"

\* At most one publication is unfinished at any time, so that no two of them
\* ever alternate on the issue: a poll that cannot finish one creates no other
\* (reconcile_pending_intents before the intake, each error ending the poll).
OneUnfinishedPublication == \A k, l \in Unfinished : k = l

\* A correction that is recorded names a label that Symphony did not itself
\* put on, unless a later publication was given up in a conflict half way
\* (reconcile_route_corrections, list_correction_candidates).
CorrectionsAreHuman ==
    [][\A o \in observations' \ observations :
          \/ o[2] \notin placed
          \/ \E k \in Keys : intents[k].status = "conflict"]_vars

\* The stage does its work once: the three invariants above.
WorkDoneOnce == AttemptsSound /\ OneCommentPerPublication /\ OneUnfinishedPublication

\* What is charged to people was their doing: conflicts and corrections both.
OnlyPeopleAreCharged == ConflictsAreHuman /\ CorrectionsAreHuman

\* A publication that was begun is eventually applied or given up, unless a
\* comment some publication owns was deleted or the issue has left the board:
\* those fail every poll at the same place (list_pending_intents, poll_once).
PublicationsSettle ==
    \A k \in Keys :
        intents[k].status = "pending" ~>
            \/ intents[k].status # "pending"
            \/ issue.column = NoColumn
            \/ \E l \in Unfinished : intents[l].bound /\ comments[l] = 0

=============================================================================
