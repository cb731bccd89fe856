------------------------- MODULE ImplementationStage -------------------------
(***************************************************************************)
(* The implementation stage for one issue with an approved specification   *)
(* (implementation/coordinator.rs, automatic.rs, branch.rs, publisher.rs   *)
(* and the implementation tables of triage/store.rs).                      *)
(*                                                                         *)
(* A poll resumes unfinished publications, then claims an attempt for an   *)
(* approved version that has none: an agent implements it, validation      *)
(* cycles repair it, and the result is shown in a comment (preview) or     *)
(* published as a branch and a draft pull request, after which the issue   *)
(* is handed on (automatic).  A call may fail, or the process die, between *)
(* any two steps, and people edit issue, branch and pull requests at any   *)
(* moment.  Versions of a specification are approved between polls, since  *)
(* the specification stage runs in the same loop.                          *)
(***************************************************************************)
EXTENDS Integers, Sequences, FiniteSets, FiniteSetsExt

CONSTANTS
    MaxAttempts,     \* implementation.max_attempts, per revision and configuration
    MaxCycles,       \* implementation.max_validation_cycles
    MaxRetries,      \* MAX_AUTOMATIC_PUBLICATION_RETRIES
    Configurations,  \* what a poll may find configured
    HumanEdits,      \* kinds of changes people make
    MaxFaults,       \* bound: crashes and failed calls
    MaxEdits         \* bound: changes people make

Modes == {"preview", "automatic"}
EditKinds == {"text", "approval", "column", "comment", "push", "unbranch",
              "rebase", "close", "ready", "retarget", "foreign_pull", "reset"}

ASSUME ImplementationAssumption ==
    /\ MaxAttempts \in Nat \ {0}
    /\ MaxCycles \in Nat \ {0}
    /\ MaxRetries \in Nat \ {0}
    /\ Configurations \subseteq [enabled : BOOLEAN, mode : Modes, docker : BOOLEAN]
    /\ Configurations # {}
    /\ HumanEdits \subseteq EditKinds
    /\ MaxFaults \in Nat /\ MaxEdits \in Nat

VARIABLES
    attempts,        \* rows of stage_runs of this stage, oldest first
    artifacts,       \* rows of implementation_artifacts, each with its draft PR
    decision,        \* decision in the row of implementation_run_state
    bundle,          \* the artifact whose bundle that row names, or 0
    intents,         \* rows of implementation_publication_intents, oldest first
    approved,        \* the approved version and the text it was approved for
    issue,           \* the issue on the forge: text, approval label, column
    comments,        \* comments of this stage on the issue, oldest first
    branch,          \* the publication branch on the forge
    base_kept,       \* is the captured base still on the base branch?
    pulls,           \* pull requests for the branch, oldest first
    poll,            \* where the poll is
    todo,            \* publications the poll has still to resume
    touched,         \* have people changed branch, base or pull requests?
    faults, edits    \* how many there were

store_vars == <<attempts, artifacts, decision, bundle, intents>>
forge_vars == <<issue, comments, branch, base_kept, pulls>>
poll_vars == <<poll, todo>>
people_vars == <<approved, touched, edits>>
vars == <<store_vars, forge_vars, poll_vars, people_vars, faults>>

Revisions == 1..(MaxEdits + 1)
Columns == {"in_progress", "agent_review"}

\* A lapsed attempt is running with a lease nobody renewed for a minute.
Attempt == [revision : Revisions, mode : Modes,
            status : {"running", "lapsed", "completed", "failed", "interrupted"}]
Artifact == [version : Nat, revision : Revisions, mode : Modes,
             outcome : {"completed", "spec_gap"}, draft : Nat]
Decisions == {"none", "pending", "previewed", "awaiting_human", "failed", "published"}

Places == {"idle", "pending", "candidate", "claim", "adopt", "refuse",
           "implement", "validate", "repair", "gap", "diagnose", "store",
           "bundle", "decide", "intend", "fail", "failed", "drift", "comment",
           "bind", "complete", "branch", "push", "confirm", "pulls", "create",
           "mismatch", "store_pull", "record", "labels", "unlabel", "column",
           "observe", "publish"}

Steps == {"comment_pending", "branch_pushed", "pr_verified", "route_applied",
          "comment_final"}
\* What the comment of a publication shows: what it is, or how far it is.
Texts == {"preview", "diagnostic"} \cup Steps
\* An error is a call that failed, or what the forge refuses or contradicts.
Refusals == {"comment_gone", "push_rejected", "push_not_observed", "pull_request_refused",
             "pull_request_differs", "label_gone", "column_not_observed"}
Conflicts == {"base", "branch", "pull", "pull_drift"}
Errors == {"none", "drift", "not_visible", "exhausted"} \cup Places \cup Refusals \cup Conflicts
Intent == [kind : {"preview", "automatic", "diagnostic"}, artifact : Nat \ {0},
           status : {"pending", "applied", "conflict", "blocked"},
           retries : Nat, error : Errors, steps : SUBSET Steps,
           comment : Nat, ripe : BOOLEAN]
Comment == [intent : Nat \ {0}, live : BOOLEAN, shows : Texts]
\* The intent a pull request is marked with is 0 if somebody else opened it.  It
\* is listed unless it has left for another base.
Pull == [intent : Nat, open : BOOLEAN, draft : BOOLEAN,
         base : {"kept", "left", "returned"}]

Poll == [at : Places, context : {"none", "resume", "attempt"}, key : Nat,
         config : Configurations, step : {"none"} \cup Texts, number : Nat]

\* Between polls the configuration is not looked at.
Idle == [at |-> "idle", context |-> "none", key |-> 0,
         config |-> CHOOSE c \in Configurations : TRUE, step |-> "none", number |-> 0]

\* What the branch may point at besides the head of an artifact.
Absent == 0
Foreign == -1

Goto(place) == poll' = [poll EXCEPT !.at = place]
GotoWith(place, number) == poll' = [poll EXCEPT !.at = place, !.number = number]
IntentOf == intents[poll.key]
ArtifactOf == artifacts[IntentOf.artifact]
Automatic == IntentOf.kind = "automatic"
Marked == {n \in DOMAIN pulls : pulls[n].intent = poll.key}

----------------------------------------------------------------------------
(* The store: each definition is one transaction.  Every write to an       *)
(* intent renews updated_at, from which the back-off is counted.           *)

Interrupted == [n \in DOMAIN attempts |->
    IF attempts[n].status = "lapsed" THEN [attempts[n] EXCEPT !.status = "interrupted"]
    ELSE attempts[n]]

SetAttempt(status) == attempts' = [attempts EXCEPT ![Len(attempts)].status = status]

StoreArtifact(outcome) ==
    /\ artifacts' = Append(artifacts,
           [version |-> approved.version, revision |-> approved.revision,
            mode |-> poll.config.mode, outcome |-> outcome, draft |-> 0])
    /\ SetAttempt("completed")
    /\ decision' = IF outcome = "completed" THEN "previewed" ELSE "awaiting_human"

CreateIntent(kind) ==
    intents' = Append(intents,
        [kind |-> kind, artifact |-> Len(artifacts), status |-> "pending",
         retries |-> 0, error |-> "none", steps |-> {}, comment |-> 0, ripe |-> FALSE])

RecordStep(i, step) ==
    intents' = [intents EXCEPT ![i].steps = @ \cup {step}, ![i].error = "none",
                               ![i].ripe = FALSE]

Complete(i) ==
    intents' = [intents EXCEPT ![i].status = "applied", ![i].error = "none",
                               ![i].ripe = FALSE]

SetError(i, status, error) ==
    intents' = [intents EXCEPT ![i].status = status, ![i].error = error,
                               ![i].retries = @ + 1, ![i].ripe = FALSE]

SetWaiting(i, error) ==
    intents' = [intents EXCEPT ![i].error = error, ![i].ripe = FALSE]

BindIntent(i, c) ==
    intents' = [intents EXCEPT ![i].comment = c, ![i].ripe = FALSE]

----------------------------------------------------------------------------
(* A poll: unfinished publications first *)

Pending == {i \in DOMAIN intents : intents[i].status = "pending"}

PollStarts ==
    /\ poll.at = "idle"
    /\ attempts' = Interrupted
    /\ \E c \in Configurations : poll' = [Idle EXCEPT !.at = "pending", !.config = c]
    /\ todo' = Pending
    /\ UNCHANGED <<artifacts, decision, bundle, intents, forge_vars, people_vars, faults>>

AfterPublication ==
    IF poll.context = "resume" THEN [Idle EXCEPT !.at = "pending", !.config = poll.config]
    ELSE Idle

Resuming(i) == poll.at = "pending" /\ todo # {} /\ i = Min(todo)

BlockExhausted ==
    \E i \in DOMAIN intents :
        /\ Resuming(i)
        /\ intents[i].kind = "automatic"
        /\ intents[i].retries >= MaxRetries
        /\ SetError(i, "blocked", "exhausted")
        /\ todo' = todo \ {i}
        /\ UNCHANGED <<attempts, artifacts, decision, bundle, forge_vars, poll,
                       people_vars, faults>>

\* Faulty: the back-off is never over.
RetryNeverReady(i) == intents[i].retries = 0

RetryReady(i) == intents[i].retries = 0 \/ intents[i].ripe

\* A publication that waits for its back-off, and any diagnostic: publishing one
\* again is written for those without an artifact, which none is.
SkipPublication ==
    \E i \in DOMAIN intents :
        /\ Resuming(i)
        /\ \/ /\ intents[i].kind = "automatic"
              /\ intents[i].retries < MaxRetries
              /\ ~RetryReady(i)
           \/ intents[i].kind = "diagnostic"
        /\ todo' = todo \ {i}
        /\ UNCHANGED <<store_vars, forge_vars, poll, people_vars, faults>>

ResumePublication ==
    \E i \in DOMAIN intents :
        /\ Resuming(i)
        /\ \/ /\ intents[i].kind = "automatic"
              /\ intents[i].retries < MaxRetries
              /\ RetryReady(i)
              /\ poll' = [poll EXCEPT !.at = "drift", !.context = "resume", !.key = i]
           \/ /\ intents[i].kind = "preview"
              /\ poll' = [poll EXCEPT !.at = "comment", !.context = "resume",
                                      !.key = i, !.step = "preview"]
        /\ todo' = todo \ {i}
        /\ UNCHANGED <<store_vars, forge_vars, people_vars, faults>>

PendingDone ==
    /\ poll.at = "pending"
    /\ todo = {}
    /\ poll' = IF poll.config.enabled THEN [poll EXCEPT !.at = "candidate"] ELSE Idle
    /\ UNCHANGED <<store_vars, forge_vars, todo, people_vars, faults>>

----------------------------------------------------------------------------
(* The candidate and its attempt *)

Running == {n \in DOMAIN attempts : attempts[n].status \in {"running", "lapsed"}}
Implemented ==
    \E a \in DOMAIN artifacts :
        /\ artifacts[a].version = approved.version
        /\ artifacts[a].mode = poll.config.mode
        /\ artifacts[a].outcome = "completed"

\* A completed version, an attempt under way and any decision but a failure keep
\* the issue from being attempted.
Eligible == ~Implemented /\ Running = {} /\ decision \in {"none", "failed"}

\* Attempts are counted for a revision and a configuration.
Prior == {n \in DOMAIN attempts : /\ attempts[n].revision = approved.revision
                                  /\ attempts[n].mode = poll.config.mode}
MayAttempt == issue.text = approved.revision /\ Cardinality(Prior) < MaxAttempts

NoCandidate ==
    /\ poll.at = "candidate"
    /\ ~(Eligible /\ MayAttempt)
    /\ poll' = Idle
    /\ UNCHANGED <<store_vars, forge_vars, todo, people_vars, faults>>

TakeCandidate ==
    /\ poll.at = "candidate"
    /\ Eligible
    /\ MayAttempt
    /\ Goto("claim")
    /\ UNCHANGED <<store_vars, forge_vars, todo, people_vars, faults>>

Claim ==
    /\ poll.at = "claim"
    /\ attempts' = Append(attempts,
           [revision |-> approved.revision, mode |-> poll.config.mode, status |-> "running"])
    /\ Goto("adopt")
    /\ UNCHANGED <<artifacts, decision, bundle, intents, forge_vars, todo,
                   people_vars, faults>>

\* "Stick dispatch guards immediately so a mid-attempt crash still blocks
\* duplicate claim eligibility."
AdoptRun ==
    /\ poll.at = "adopt"
    /\ decision' = "pending"
    /\ bundle' = 0
    /\ poll' = [poll EXCEPT !.at = IF poll.config.docker THEN "refuse" ELSE "implement",
                            !.context = "attempt"]
    /\ UNCHANGED <<attempts, artifacts, intents, forge_vars, todo, people_vars, faults>>

\* "Leave decision=pending so eligibility does not retry forever."
RefuseDocker ==
    /\ poll.at = "refuse"
    /\ SetAttempt("failed")
    /\ poll' = Idle
    /\ UNCHANGED <<artifacts, decision, bundle, intents, forge_vars, todo,
                   people_vars, faults>>

\* The agent completes its work, finds a gap in the specification, or fails:
\* no acceptable manifest, another blocker, a broken postcondition.
Implement ==
    /\ poll.at = "implement"
    /\ \/ GotoWith("validate", 1)
       \/ Goto("gap")
       \/ Goto("fail")
    /\ UNCHANGED <<store_vars, forge_vars, todo, people_vars, faults>>

\* Faulty: a failed last cycle is repaired once more.
CyclesLeftOver == poll.number <= MaxCycles

CyclesLeft == poll.number < MaxCycles

Validate ==
    /\ poll.at = "validate"
    /\ \/ GotoWith("store", 0)
       \/ Goto(IF CyclesLeft THEN "repair" ELSE "fail")
    /\ UNCHANGED <<store_vars, forge_vars, todo, people_vars, faults>>

Repair ==
    /\ poll.at = "repair"
    /\ \/ GotoWith("validate", poll.number + 1)
       \/ Goto("fail")
    /\ UNCHANGED <<store_vars, forge_vars, todo, people_vars, faults>>

FailAttempt ==
    /\ poll.at = "fail"
    /\ SetAttempt("failed")
    /\ Goto("failed")
    /\ UNCHANGED <<artifacts, decision, bundle, intents, forge_vars, todo,
                   people_vars, faults>>

DecideFailed ==
    /\ poll.at = "failed"
    /\ decision' = "failed"
    /\ poll' = Idle
    /\ UNCHANGED <<attempts, artifacts, bundle, intents, forge_vars, todo,
                   people_vars, faults>>

StoreGap ==
    /\ poll.at = "gap"
    /\ StoreArtifact("spec_gap")
    /\ Goto("diagnose")
    /\ UNCHANGED <<bundle, intents, forge_vars, todo, people_vars, faults>>

IntendDiagnostic ==
    /\ poll.at = "diagnose"
    /\ CreateIntent("diagnostic")
    /\ poll' = [poll EXCEPT !.at = "comment", !.key = Len(intents) + 1, !.step = "diagnostic"]
    /\ UNCHANGED <<attempts, artifacts, decision, bundle, forge_vars, todo,
                   people_vars, faults>>

StoreCompleted ==
    /\ poll.at = "store"
    /\ StoreArtifact("completed")
    /\ Goto("bundle")
    /\ UNCHANGED <<bundle, intents, forge_vars, todo, people_vars, faults>>

StoreBundle ==
    /\ poll.at = "bundle"
    /\ bundle' = Len(artifacts)
    /\ Goto("decide")
    /\ UNCHANGED <<attempts, artifacts, decision, intents, forge_vars, todo,
                   people_vars, faults>>

Decide ==
    /\ poll.at = "decide"
    /\ decision' = IF poll.config.mode = "automatic" THEN "pending" ELSE "previewed"
    /\ Goto("intend")
    /\ UNCHANGED <<attempts, artifacts, bundle, intents, forge_vars, todo,
                   people_vars, faults>>

IntendPublication ==
    /\ poll.at = "intend"
    /\ CreateIntent(poll.config.mode)
    /\ poll' = [poll EXCEPT !.at = IF poll.config.mode = "automatic" THEN "drift" ELSE "comment",
                            !.step = IF poll.config.mode = "automatic" THEN "none" ELSE "preview",
                            !.key = Len(intents) + 1]
    /\ UNCHANGED <<attempts, artifacts, decision, bundle, forge_vars, todo,
                   people_vars, faults>>

----------------------------------------------------------------------------
(* The marked comment of a publication *)

\* Faulty: the decision is left to whoever looks at the publication.
AfterUndecided == [comment_pending |-> "branch", branch_pushed |-> "pulls",
                   pr_verified |-> "labels", route_applied |-> "comment",
                   comment_final |-> "complete"]

\* Faulty: the issue is handed on once the branch is there.
AfterUnverified == [comment_pending |-> "branch", branch_pushed |-> "labels",
                    pr_verified |-> "labels", route_applied |-> "comment",
                    comment_final |-> "publish"]

\* What each recorded step is followed by.
After == [comment_pending |-> "branch", branch_pushed |-> "pulls",
          pr_verified |-> "labels", route_applied |-> "comment",
          comment_final |-> "publish"]

Record(step) == poll' = [poll EXCEPT !.at = "record", !.step = step, !.number = 0]

Live == {c \in DOMAIN comments : comments[c].live}

OwnedBy(i) == {c \in Live : comments[c].intent = i}

AfterComment == IF Automatic THEN [poll EXCEPT !.at = "record", !.number = 0]
                ELSE [poll EXCEPT !.at = "complete", !.number = 0]

UpdateRecorded ==
    /\ poll.at = "comment"
    /\ IntentOf.comment \in Live
    /\ comments' = [comments EXCEPT ![IntentOf.comment].shows = poll.step]
    /\ poll' = AfterComment
    /\ UNCHANGED <<store_vars, issue, branch, base_kept, pulls, todo, people_vars, faults>>

AdoptComment ==
    /\ poll.at = "comment"
    /\ IntentOf.comment = 0
    /\ OwnedBy(poll.key) # {}
    /\ LET c == Min(OwnedBy(poll.key)) IN
        /\ comments' = [comments EXCEPT ![c].shows = poll.step]
        /\ GotoWith("bind", c)
    /\ UNCHANGED <<store_vars, issue, branch, base_kept, pulls, todo, people_vars, faults>>

CreateComment ==
    /\ poll.at = "comment"
    /\ IntentOf.comment = 0
    /\ OwnedBy(poll.key) = {}
    /\ comments' = Append(comments, [intent |-> poll.key, live |-> TRUE, shows |-> poll.step])
    /\ GotoWith("bind", Len(comments) + 1)
    /\ UNCHANGED <<store_vars, issue, branch, base_kept, pulls, todo, people_vars, faults>>

BindComment ==
    /\ poll.at = "bind"
    /\ BindIntent(poll.key, poll.number)
    /\ poll' = AfterComment
    /\ UNCHANGED <<attempts, artifacts, decision, bundle, forge_vars, todo,
                   people_vars, faults>>

----------------------------------------------------------------------------
(* Automatic publication *)

\* A text other than the approved one is waited out and costs no retry.
RevisionDrifts ==
    /\ poll.at = "drift"
    /\ issue.text # ArtifactOf.revision
    /\ SetWaiting(poll.key, "drift")
    /\ poll' = AfterPublication
    /\ UNCHANGED <<attempts, artifacts, decision, bundle, forge_vars, todo,
                   people_vars, faults>>

\* The pull request is looked at again on every resumption, the other steps are
\* done once.
StartPublication ==
    /\ poll.at = "drift"
    /\ issue.text = ArtifactOf.revision
    /\ poll' = IF "comment_pending" \notin IntentOf.steps
               THEN [poll EXCEPT !.at = "comment", !.step = "comment_pending"]
               ELSE [poll EXCEPT !.at = IF "branch_pushed" \notin IntentOf.steps
                                        THEN "branch" ELSE "pulls"]
    /\ UNCHANGED <<store_vars, forge_vars, todo, people_vars, faults>>

RecordProgress ==
    /\ poll.at = "record"
    /\ RecordStep(poll.key, poll.step)
    /\ poll' = [poll EXCEPT !.at = After[poll.step],
                            !.step = IF @ = "route_applied" THEN "comment_final" ELSE "none"]
    /\ UNCHANGED <<attempts, artifacts, decision, bundle, forge_vars, todo,
                   people_vars, faults>>

\* A conflict ends the publication until a person has looked at it.
Conflict(error) ==
    /\ SetError(poll.key, "conflict", error)
    /\ poll' = AfterPublication
    /\ UNCHANGED <<attempts, artifacts, decision, bundle, forge_vars, todo,
                   people_vars, faults>>

BaseConflict == poll.at = "branch" /\ ~base_kept /\ Conflict("base")

\* Faulty: a branch that already is where it should be is somebody else's.
PushedByOthers == branch # Absent

BranchDiverged == branch \notin {Absent, bundle}

BranchConflict == poll.at = "branch" /\ base_kept /\ BranchDiverged /\ Conflict("branch")

ObserveBranch ==
    /\ poll.at = "branch"
    /\ base_kept
    /\ ~BranchDiverged
    /\ IF branch = Absent THEN Goto("push") ELSE Record("branch_pushed")
    /\ UNCHANGED <<store_vars, forge_vars, todo, people_vars, faults>>

\* The forge refuses what is not a fast-forward: see CallRefused.
Push ==
    /\ poll.at = "push"
    /\ branch \in {Absent, bundle}
    /\ branch' = bundle
    /\ Goto("confirm")
    /\ UNCHANGED <<store_vars, issue, comments, base_kept, pulls, todo, people_vars, faults>>

ConfirmPush ==
    /\ poll.at = "confirm"
    /\ branch = bundle
    /\ Record("branch_pushed")
    /\ UNCHANGED <<store_vars, forge_vars, todo, people_vars, faults>>

Listed == {n \in DOMAIN pulls : pulls[n].base # "left"}
ListedOwned == Listed \cap Marked

\* Faulty: only open pull requests are listed.
ClosedUnlisted == {}

ClosedOwned == {n \in ListedOwned : ~pulls[n].open}
OpenOwned == {n \in ListedOwned : pulls[n].open}
ForeignOpen == {n \in Listed \ ListedOwned : pulls[n].open}
Verified(n) == pulls[n].open /\ pulls[n].draft /\ branch = bundle
Persisted == ArtifactOf.draft

Following == IF "pr_verified" \notin IntentOf.steps THEN "pr_verified"
             ELSE IF "route_applied" \notin IntentOf.steps THEN "route_applied"
             ELSE IF "comment_final" \notin IntentOf.steps THEN "comment_final"
             ELSE "none"

\* Where publication goes on once the stored pull request is verified.
Verify ==
    poll' = CASE Following = "pr_verified" -> [poll EXCEPT !.at = "record", !.step = "pr_verified"]
              [] Following = "route_applied" -> [poll EXCEPT !.at = "labels"]
              [] Following = "comment_final" -> [poll EXCEPT !.at = "comment", !.step = "comment_final"]
              [] Following = "none" -> [poll EXCEPT !.at = "publish"]

ReverifyPull ==
    /\ poll.at = "pulls"
    /\ Persisted \in Listed
    /\ Verified(Persisted)
    /\ Verify
    /\ UNCHANGED <<store_vars, forge_vars, todo, people_vars, faults>>

StoredPullDrifted ==
    poll.at = "pulls" /\ Persisted \in Listed /\ ~Verified(Persisted) /\ Conflict("pull_drift")

\* It may come back into view, so this costs a retry.
PullNotVisible ==
    /\ poll.at = "pulls"
    /\ Persisted # 0
    /\ Persisted \notin Listed
    /\ SetError(poll.key, "pending", "not_visible")
    /\ poll' = AfterPublication
    /\ UNCHANGED <<attempts, artifacts, decision, bundle, forge_vars, todo,
                   people_vars, faults>>

Diverged ==
    \/ ClosedOwned # {}
    \/ ForeignOpen # {} /\ OpenOwned = {}
    \/ Cardinality(OpenOwned) > 1
    \/ \E n \in OpenOwned : ~Verified(n)

PullConflict == poll.at = "pulls" /\ Persisted = 0 /\ Diverged /\ Conflict("pull")

AdoptPull ==
    /\ poll.at = "pulls"
    /\ Persisted = 0
    /\ ~Diverged
    /\ \E n \in OpenOwned : GotoWith("store_pull", n)
    /\ UNCHANGED <<store_vars, forge_vars, todo, people_vars, faults>>

NoPull ==
    /\ poll.at = "pulls"
    /\ Persisted = 0
    /\ ~Diverged
    /\ OpenOwned = {}
    /\ Goto("create")
    /\ UNCHANGED <<store_vars, forge_vars, todo, people_vars, faults>>

\* The forge has one open pull request for a branch and a base.  Its answer is
\* verified before it is stored.
MayOpen == branch # Absent /\ ~\E n \in Listed : pulls[n].open

CreatePull ==
    /\ poll.at = "create"
    /\ MayOpen
    /\ pulls' = Append(pulls, [intent |-> poll.key, open |-> TRUE, draft |-> TRUE,
                               base |-> "kept"])
    /\ GotoWith(IF branch = bundle THEN "store_pull" ELSE "mismatch", Len(pulls) + 1)
    /\ UNCHANGED <<store_vars, issue, comments, branch, base_kept, todo, people_vars, faults>>

StorePull ==
    /\ poll.at = "store_pull"
    /\ artifacts' = [artifacts EXCEPT ![IntentOf.artifact].draft = poll.number]
    /\ Record("pr_verified")
    /\ UNCHANGED <<attempts, decision, bundle, intents, forge_vars, todo,
                   people_vars, faults>>

ListLabels ==
    /\ poll.at = "labels"
    /\ GotoWith(IF issue.approval_label THEN "unlabel" ELSE "column", 1)
    /\ UNCHANGED <<store_vars, forge_vars, todo, people_vars, faults>>

RemoveLabel ==
    /\ poll.at = "unlabel"
    /\ issue.approval_label
    /\ issue' = [issue EXCEPT !.approval_label = FALSE]
    /\ GotoWith("column", 1)
    /\ UNCHANGED <<store_vars, comments, branch, base_kept, pulls, todo, people_vars, faults>>

SetColumn ==
    /\ poll.at = "column"
    /\ issue' = [issue EXCEPT !.column = "agent_review"]
    /\ Goto("observe")
    /\ UNCHANGED <<store_vars, comments, branch, base_kept, pulls, todo, people_vars, faults>>

\* The column is set up to three times until it is seen.
ObserveColumn ==
    /\ poll.at = "observe"
    /\ \/ issue.column = "agent_review" /\ Record("route_applied")
       \/ /\ issue.column # "agent_review"
          /\ poll.number < 3
          /\ GotoWith("column", poll.number + 1)
    /\ UNCHANGED <<store_vars, forge_vars, todo, people_vars, faults>>

DecidePublished ==
    /\ poll.at = "publish"
    /\ decision' = "published"
    /\ Goto("complete")
    /\ UNCHANGED <<attempts, artifacts, bundle, intents, forge_vars, todo,
                   people_vars, faults>>

CompletePublication ==
    /\ poll.at = "complete"
    /\ Complete(poll.key)
    /\ poll' = AfterPublication
    /\ UNCHANGED <<attempts, artifacts, decision, bundle, forge_vars, todo,
                   people_vars, faults>>

----------------------------------------------------------------------------
(* Failures, time, people *)

\* An error like the recorded one is taken for the same failure.
AlreadyRecorded(i, error) == intents[i].error = error

\* Whose error it is: of a resumed publication it is recorded once; an automatic
\* publication begun by its attempt is left to the next poll, and so is a
\* diagnostic; anything else fails the attempt, even if its artifact is stored.
Fails(error) ==
    \/ /\ poll.context = "resume"
       /\ IF Automatic /\ ~AlreadyRecorded(poll.key, error)
          THEN SetError(poll.key, "pending", error) ELSE UNCHANGED intents
       /\ poll' = AfterPublication
       /\ UNCHANGED todo
    \/ /\ poll.context = "attempt"
       /\ IF poll.key # 0 /\ IntentOf.kind # "preview"
          THEN poll' = Idle ELSE Goto("fail")
       /\ UNCHANGED <<intents, todo>>
    \/ /\ poll.context = "none"
       /\ poll' = Idle
       /\ todo' = {}
       /\ UNCHANGED intents

Fault == faults < MaxFaults /\ faults' = faults + 1

\* A call to the forge, to git, to the agent or to the store fails.
CallFails ==
    /\ poll.at \notin {"idle", "pending", "refuse", "validate", "fail", "failed", "mismatch"}
    /\ Fault
    /\ Fails(poll.at)
    /\ UNCHANGED <<attempts, artifacts, decision, bundle, forge_vars, people_vars>>

\* Calls that cannot but fail, in the state the forge is in.
Refused ==
    \/ poll.at = "comment" /\ IntentOf.comment \notin Live \cup {0}
    \/ poll.at = "push" /\ branch = Foreign
    \/ poll.at = "confirm" /\ branch # bundle
    \/ poll.at = "create" /\ ~MayOpen
    \/ poll.at = "mismatch"
    \/ poll.at = "unlabel" /\ ~issue.approval_label
    \/ poll.at = "observe" /\ issue.column # "agent_review" /\ poll.number = 3

Refusal == [comment |-> "comment_gone", push |-> "push_rejected",
            confirm |-> "push_not_observed", create |-> "pull_request_refused",
            mismatch |-> "pull_request_differs", unlabel |-> "label_gone",
            observe |-> "column_not_observed"]

CallRefused ==
    /\ Refused
    /\ Fails(Refusal[poll.at])
    /\ UNCHANGED <<attempts, artifacts, decision, bundle, forge_vars, people_vars, faults>>

Crash ==
    /\ poll.at # "idle"
    /\ Fault
    /\ poll' = Idle
    /\ todo' = {}
    /\ UNCHANGED <<store_vars, forge_vars, people_vars>>

BackoffElapses ==
    /\ poll.at = "idle"
    /\ \E i \in Pending :
        /\ intents[i].retries > 0
        /\ ~intents[i].ripe
        /\ intents' = [intents EXCEPT ![i].ripe = TRUE]
    /\ UNCHANGED <<attempts, artifacts, decision, bundle, forge_vars, poll_vars,
                   people_vars, faults>>

\* Leases are read by a poll, and the poll that runs an attempt waits for it.
LeaseExpires ==
    /\ poll.at = "idle"
    /\ \E n \in Running :
        /\ attempts[n].status = "running"
        /\ attempts' = [attempts EXCEPT ![n].status = "lapsed"]
    /\ UNCHANGED <<artifacts, decision, bundle, intents, forge_vars, poll_vars,
                   people_vars, faults>>

Edit(kind) == kind \in HumanEdits /\ edits < MaxEdits /\ edits' = edits + 1

PeopleEditText ==
    /\ Edit("text")
    /\ \E r \in Revisions \ {issue.text} : issue' = [issue EXCEPT !.text = r]
    /\ UNCHANGED <<store_vars, comments, branch, base_kept, pulls, poll_vars, approved,
                   touched, faults>>

\* The specification stage shares the loop, so it approves between two polls.
NextVersionApproved ==
    /\ poll.at = "idle"
    /\ Edit("approval")
    /\ approved' = [version |-> approved.version + 1, revision |-> issue.text]
    /\ issue' = [issue EXCEPT !.approval_label = TRUE]
    /\ UNCHANGED <<store_vars, comments, branch, base_kept, pulls, poll_vars, touched, faults>>

PeopleMoveIssue ==
    /\ Edit("column")
    /\ \/ \E c \in Columns \ {issue.column} : issue' = [issue EXCEPT !.column = c]
       \/ issue' = [issue EXCEPT !.approval_label = ~@]
    /\ UNCHANGED <<store_vars, comments, branch, base_kept, pulls, poll_vars, approved,
                   touched, faults>>

PeopleDeleteComment ==
    /\ Edit("comment")
    /\ \E c \in Live : comments' = [comments EXCEPT ![c].live = FALSE]
    /\ UNCHANGED <<store_vars, issue, branch, base_kept, pulls, poll_vars, approved,
                   touched, faults>>

PeopleMoveBranch ==
    /\ \/ Edit("push") /\ branch' = Foreign /\ UNCHANGED <<base_kept, pulls>>
       \/ /\ Edit("unbranch")
          /\ branch' = Absent
          /\ pulls' = [n \in DOMAIN pulls |-> [pulls[n] EXCEPT !.open = FALSE]]
          /\ UNCHANGED base_kept
       \/ Edit("rebase") /\ base_kept' = FALSE /\ UNCHANGED <<branch, pulls>>
    /\ <<branch, base_kept>>' # <<branch, base_kept>>
    /\ touched' = TRUE
    /\ UNCHANGED <<store_vars, issue, comments, poll_vars, approved, faults>>

PeopleChangePull ==
    /\ \/ \E n \in DOMAIN pulls :
           /\ pulls[n].open
           /\ \/ Edit("close") /\ pulls' = [pulls EXCEPT ![n].open = FALSE]
              \/ Edit("ready") /\ pulls' = [pulls EXCEPT ![n].draft = ~@]
              \/ /\ Edit("retarget")
                 /\ n \in Listed \/ MayOpen
                 /\ pulls' = [pulls EXCEPT ![n].base =
                                  IF n \in Listed THEN "left" ELSE "returned"]
       \/ /\ Edit("foreign_pull")
          /\ MayOpen
          /\ pulls' = Append(pulls, [intent |-> 0, open |-> TRUE, draft |-> FALSE,
                                     base |-> "kept"])
    /\ touched' = TRUE
    /\ UNCHANGED <<store_vars, issue, comments, branch, base_kept, poll_vars, approved, faults>>

\* The only way back from blocked; there is none from a conflict.
OperatorResets ==
    /\ Edit("reset")
    /\ \E i \in DOMAIN intents :
        /\ intents[i].status = "blocked"
        /\ intents' = [intents EXCEPT ![i].status = "pending", ![i].error = "none",
                                      ![i].retries = 0, ![i].ripe = FALSE]
    /\ UNCHANGED <<attempts, artifacts, decision, bundle, forge_vars, poll_vars, approved,
                   touched, faults>>

----------------------------------------------------------------------------
Init ==
    /\ attempts = <<>>
    /\ artifacts = <<>>
    /\ decision = "none"
    /\ bundle = 0
    /\ intents = <<>>
    /\ approved = [version |-> 1, revision |-> 1]
    /\ issue = [text |-> 1, approval_label |-> TRUE, column |-> "in_progress"]
    /\ comments = <<>>
    /\ branch = Absent
    /\ base_kept = TRUE
    /\ pulls = <<>>
    /\ poll = Idle
    /\ todo = {}
    /\ touched = FALSE
    /\ faults = 0 /\ edits = 0

Reconciling == PollStarts \/ BlockExhausted \/ SkipPublication \/ ResumePublication \/ PendingDone
Attempting == NoCandidate \/ TakeCandidate \/ Claim \/ AdoptRun \/ RefuseDocker
                \/ Implement \/ Validate \/ Repair \/ FailAttempt \/ DecideFailed
                \/ StoreGap \/ IntendDiagnostic \/ StoreCompleted \/ StoreBundle
                \/ Decide \/ IntendPublication
Commenting == UpdateRecorded \/ AdoptComment \/ CreateComment \/ BindComment
Pushing == BaseConflict \/ BranchConflict \/ ObserveBranch \/ Push \/ ConfirmPush
PullRequests == ReverifyPull \/ StoredPullDrifted \/ PullNotVisible \/ PullConflict
                  \/ AdoptPull \/ NoPull \/ CreatePull \/ StorePull
HandingOn == ListLabels \/ RemoveLabel \/ SetColumn \/ ObserveColumn \/ DecidePublished
Publishing == RevisionDrifts \/ StartPublication \/ RecordProgress \/ Pushing
                \/ PullRequests \/ HandingOn \/ CompletePublication
Symphony == Reconciling \/ Attempting \/ Commenting \/ Publishing \/ CallRefused
People == PeopleEditText \/ NextVersionApproved \/ PeopleMoveIssue \/ PeopleDeleteComment
            \/ PeopleMoveBranch \/ PeopleChangePull \/ OperatorResets
Next == Symphony \/ CallFails \/ Crash \/ BackoffElapses \/ LeaseExpires \/ People

Spec == Init /\ [][Next]_vars

\* The poll loop keeps running, every call it makes returns, and time passes
\* between polls.
FairSpec == Spec /\ WF_vars(Symphony) /\ SF_vars(BackoffElapses) /\ SF_vars(LeaseExpires)

----------------------------------------------------------------------------
(* Properties *)

\* The shape of every variable.
TypeOK ==
    /\ attempts \in Seq(Attempt)
    /\ artifacts \in Seq(Artifact)
    /\ decision \in Decisions
    /\ bundle \in 0..Len(artifacts)
    /\ intents \in Seq(Intent)
    /\ approved \in [version : Nat, revision : Revisions]
    /\ issue \in [text : Revisions, approval_label : BOOLEAN, column : Columns]
    /\ comments \in Seq(Comment)
    /\ branch \in {Absent, Foreign} \cup DOMAIN artifacts
    /\ base_kept \in BOOLEAN
    /\ pulls \in Seq(Pull)
    /\ poll \in Poll
    /\ poll.key \in 0..Len(intents)
    /\ poll.at = "validate" => poll.number \in 1..MaxCycles
    /\ todo \subseteq DOMAIN intents
    /\ touched \in BOOLEAN
    /\ faults \in 0..MaxFaults /\ edits \in 0..MaxEdits

\* However often a publication is cut short and resumed, it has one comment and
\* one pull request that people did not take from its base branch: one that they
\* closed is not replaced (upsert_marked_comment, reconcile_draft_pr).
PublishedOnce ==
    \A i \in DOMAIN intents :
        /\ Cardinality({c \in Live : comments[c].intent = i}) <= 1
        /\ Cardinality({n \in DOMAIN pulls : pulls[n].intent = i /\ pulls[n].base = "kept"}) <= 1

\* One attempt runs at a time, an approved version is implemented once per
\* configuration within its attempts, and a pending publication finds the
\* bundle of its own artifact in the run's one row (list_a3_eligible_approved_runs,
\* claim_implementation_attempt, reconcile_automatic_publication).
AttemptsSound ==
    /\ Cardinality(Running) <= 1
    /\ \A r \in Revisions, m \in Modes :
        Cardinality({n \in DOMAIN attempts : attempts[n].revision = r /\ attempts[n].mode = m})
            <= MaxAttempts
    /\ \A a, b \in DOMAIN artifacts :
        /\ artifacts[a].outcome = "completed" /\ artifacts[b].outcome = "completed"
        /\ artifacts[a].version = artifacts[b].version /\ artifacts[a].mode = artifacts[b].mode
        => a = b
    /\ \A i \in DOMAIN intents :
        intents[i].kind = "automatic" /\ intents[i].status \in {"pending", "blocked"}
            => bundle = intents[i].artifact

\* The stage does its work once: the two invariants above.
WorkDoneOnce == PublishedOnce /\ AttemptsSound

\* Symphony "records completion events and the published run decision before
\* terminalizing the intent, so restart recovery cannot strand a completed PR
\* behind a pending run": applied and published go together, except that the
\* decision may come first (reconcile_automatic_publication).
AppliedMeansPublished ==
    /\ \A i \in DOMAIN intents :
        intents[i].kind = "automatic" /\ intents[i].status = "applied" =>
            /\ intents[i].steps = Steps
            /\ decision = "published"
    /\ decision = "published" =>
        \E i \in DOMAIN intents : /\ intents[i].kind = "automatic"
                                  /\ intents[i].steps = Steps
                                  /\ artifacts[intents[i].artifact].draft # 0

\* "Tracker state never advances before the verified draft-PR artifact exists":
\* the issue is only handed on for a publication whose pull request is stored
\* and was verified in this very resumption, so it is still a draft of the
\* bundle unless people have touched it (publish_automatic).
HandoffAfterPull ==
    [][(issue'.column # issue.column \/ issue'.approval_label # issue.approval_label) /\ edits' = edits
       => /\ Persisted # 0
          /\ pulls[Persisted].intent = poll.key
          /\ Verified(Persisted) \/ touched]_vars

\* A publication conflicts only if people have changed the branch, its base or a
\* pull request: what an interrupted publication left behind is recognised
\* (decide_branch_projection, verify_owned_draft_pr).
ConflictsAreHuman ==
    \A i \in DOMAIN intents : intents[i].status = "conflict" => touched

\* What the publication needs is gone from the forge: its comment, or the branch
\* it is to open a pull request for.
Hopeless(i) ==
    \/ intents[i].comment \notin Live \cup {0}
    \/ intents[i].error = "pull_request_refused"

Settled(i) == i \notin Pending \/ issue.text # artifacts[intents[i].artifact].revision

\* A preview or automatic publication that was begun is eventually applied, in
\* conflict or blocked, unless the issue is not what was approved or people have
\* deleted what it needs (reconcile_pending_publications).
PublicationsSettle ==
    \A i \in 1..3 :
        (i \in Pending /\ intents[i].kind # "diagnostic") ~> Settled(i) \/ Hopeless(i)

\* "After 8 failed attempts the intent is terminalized as `blocked`": no failure,
\* however often it repeats itself, is retried for ever (ADR 0004).
FailuresAreBlocked ==
    \A i \in 1..3 : (i \in Pending /\ intents[i].kind = "automatic") ~> Settled(i)

=============================================================================
