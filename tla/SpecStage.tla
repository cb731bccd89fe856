------------------------------ MODULE SpecStage ------------------------------
(***************************************************************************)
(* The specification stage for one issue (spec/coordinator.rs,             *)
(* spec/decision.rs, spec/pipeline.rs and the spec tables of               *)
(* triage/store.rs).                                                       *)
(*                                                                         *)
(* A poll resumes unfinished publications, then reads the issue once and   *)
(* takes one branch of the decision table: agents write the next version   *)
(* of the specification, or a person's approval is carried out.  Versions, *)
(* decisions and publications are rows of the store; labels, column and    *)
(* the one specification comment are on the forge.  A call may fail, or    *)
(* the process die, between any two steps, and people edit the issue at    *)
(* any moment.  Text and comments of the issue are its revision: whatever  *)
(* people write makes a new one.                                           *)
(***************************************************************************)
EXTENDS Integers, Sequences, FiniteSets, FiniteSetsExt

CONSTANTS
    MaxAttempts,       \* spec.max_attempts, per revision
    MaxRequests,       \* spec.max_revision_requests, per run
    MaxReviewCycles,   \* spec.max_review_cycles, per attempt
    MaxRetries,        \* SPEC_PUBLICATION_MAX_RETRIES
    InitialLabels,     \* labels of the issue when it enters the intake
    MaxFaults,         \* bound: crashes and failed calls
    MaxEdits           \* bound: changes people make

CONSTANTS Intake, Approved, Revise, Route, Triage

ASSUME SpecAssumption ==
    /\ MaxAttempts \in Nat \ {0}
    /\ MaxRequests \in Nat
    /\ MaxReviewCycles \in Nat \ {0}
    /\ MaxRetries \in Nat \ {0}
    /\ MaxFaults \in Nat /\ MaxEdits \in Nat
    /\ InitialLabels \subseteq SUBSET {Intake, Triage}
    /\ Cardinality({Intake, Approved, Revise, Route, Triage}) = 5

VARIABLES
    run_status,       \* status of the issue's row of factory_runs
    attempts,         \* revision -> status of its rows of stage_runs
    artifacts,        \* rows of spec_artifacts: the revision of each version
    state,            \* the row of spec_run_state
    intents,          \* rows of spec_publication_intents, oldest first
    fresh,            \* is there feedback later than the last publication?
    issue,            \* the issue on the forge: labels, column, text
    comments,         \* specification comments on the issue, oldest first
    poll,             \* where the poll is
    todo,             \* publications the poll has still to resume
    enabled,          \* spec.enabled
    faults, edits,    \* how many there were
    touched           \* have people changed labels or column since the poll
                      \* took up the approval it is at?

store_vars == <<run_status, attempts, artifacts, state, intents>>
poll_vars == <<poll, todo>>
bounds == <<faults, edits>>
vars == <<store_vars, fresh, issue, comments, poll_vars, enabled, bounds, touched>>

Labels == {Intake, Approved, Revise, Route, Triage}
Revisions == 1..(MaxEdits + 1)
Columns == {"none", "backlog", "todo"}

\* A lapsed attempt is running with a lease nobody renewed for a minute.
AttemptStatus == {"running", "lapsed", "completed", "failed", "interrupted"}
RunState == [decision : {"none", "awaiting", "revision_requested",
                         "pending_approval", "approved"},
             pending : Nat, approved : Nat, requests : Nat]

Messages == {"none", "off_project", "conflict", "budget", "no_feedback", "stale"}
Intent == [kind : {"preview", "diagnostic", "approval"}, version : Nat,
           status : {"pending", "applied", "blocked"}, retries : Nat,
           comment : Nat, message : Messages]
Texts == {"awaiting", "diagnostic", "pending", "approved"}
Comment == [intent : Nat \ {0}, live : BOOLEAN, shows : Texts]

Places == {"idle", "pending", "intake", "decide", "claim", "turn", "review",
           "store", "intend", "mark", "comment", "bind", "revise", "labels",
           "route", "column", "pin", "finish"}

\* who is told of an error: the publication that is resumed, the attempt that
\* runs, or nobody.
Contexts == {"none", "resume", "attempt"}
Poll == [at : Places, context : Contexts, key : Nat, shows : {"none"} \cup Texts,
         rev : Nat, labels : SUBSET Labels, on_board : BOOLEAN, feedback : BOOLEAN,
         cycle : 0..MaxReviewCycles, step : 0..3]
Idle == [at |-> "idle", context |-> "none", key |-> 0, shows |-> "none",
         rev |-> 0, labels |-> {}, on_board |-> TRUE, feedback |-> FALSE,
         cycle |-> 0, step |-> 0]

Goto(place) == poll' = [poll EXCEPT !.at = place]
LatestVersion == Len(artifacts)
Of(kind) == {i \in DOMAIN intents : intents[i].kind = kind}
LatestPreview == IF Of("preview") = {} THEN 0 ELSE Max(Of("preview"))
HasPreview == LatestPreview > 0 /\ intents[LatestPreview].version = LatestVersion
IntentOf == intents[poll.key]

----------------------------------------------------------------------------
(* The store: each definition is one transaction.  Feedback counts if it is *)
(* later than the last write to the newest preview's row.                   *)

Stamp(i) == fresh' = (fresh /\ i # LatestPreview)

CreateIntent(kind, version, message) ==
    /\ intents' = Append(intents,
           [kind |-> kind, version |-> version, status |-> "pending",
            retries |-> 0, comment |-> 0, message |-> message])
    /\ fresh' = (fresh /\ kind # "preview")

SetComment(i, c) ==
    /\ intents' = [intents EXCEPT ![i].comment = c]
    /\ Stamp(i)

Complete(i) ==
    /\ intents' = [intents EXCEPT ![i].status = "applied"]
    /\ Stamp(i)

\* Faulty: a publication that keeps failing is tried for ever.
RetriedForEver(i) ==
    /\ intents' = [intents EXCEPT ![i].retries = Min({@ + 1, MaxRetries})]
    /\ Stamp(i)

\* Past the limit the count, which a diagnostic keeps when it is opened again,
\* no longer matters.
RecordFailure(i) ==
    /\ intents' = [intents EXCEPT ![i].retries = Min({@ + 1, MaxRetries}),
           ![i].status = IF intents[i].retries + 1 >= MaxRetries
                         THEN "blocked" ELSE "pending"]
    /\ Stamp(i)

\* Whatever the attempt had become: there is no guard on its status.
FailAttempt(r) ==
    attempts' = [attempts EXCEPT ![r][Len(attempts[r])] = "failed"]

Running(r) == {n \in DOMAIN attempts[r] : attempts[r][n] \in {"running", "lapsed"}}
Interrupted == [r \in Revisions |-> [n \in DOMAIN attempts[r] |->
    IF attempts[r][n] = "lapsed" THEN "interrupted" ELSE attempts[r][n]]]

----------------------------------------------------------------------------
(* A poll: unfinished publications first *)

PendingIntents == {i \in DOMAIN intents : intents[i].status = "pending"}

PollStarts ==
    /\ poll.at = "idle"
    /\ attempts' = Interrupted
    /\ todo' = PendingIntents
    /\ Goto("pending")
    /\ UNCHANGED <<run_status, artifacts, state, intents, fresh, issue, comments,
                   enabled, bounds, touched>>

\* Faulty: the labels are taken to be removed.
AfterTheLabels(i) == IF intents[i].kind = "approval" THEN "route" ELSE "comment"

\* An approval is carried out again from the first label on.
ResumedAt(i) == IF intents[i].kind = "approval" THEN "labels" ELSE "comment"

Resume ==
    /\ poll.at = "pending"
    /\ todo # {}
    /\ LET i == Min(todo) IN
       /\ poll' = [Idle EXCEPT !.context = "resume", !.key = i, !.at = ResumedAt(i),
              !.shows = IF intents[i].kind = "diagnostic" THEN "diagnostic" ELSE "awaiting"]
       /\ todo' = todo \ {i}
    /\ UNCHANGED <<store_vars, fresh, issue, comments, enabled, bounds, touched>>

PendingDone ==
    /\ poll.at = "pending"
    /\ todo = {}
    /\ poll' = IF enabled THEN [Idle EXCEPT !.at = "intake"] ELSE Idle
    /\ UNCHANGED <<store_vars, fresh, issue, comments, todo, enabled, bounds,
                   touched>>

----------------------------------------------------------------------------
(* A poll: the decision table.  The issue is as it was fetched. *)

FetchIntake ==
    /\ poll.at = "intake"
    /\ poll' = IF Intake \in issue.labels
               THEN [Idle EXCEPT !.at = "decide", !.rev = issue.text,
                        !.labels = issue.labels, !.feedback = fresh,
                        !.on_board = (issue.column # "none")]
               ELSE Idle
    /\ UNCHANGED <<store_vars, fresh, issue, comments, todo, enabled, bounds,
                   touched>>

\* The issue is still in the triage intake.
TriageOwns ==
    /\ poll.at = "decide"
    /\ Triage \in poll.labels
    /\ run_status' = "ineligible"
    /\ poll' = Idle
    /\ UNCHANGED <<attempts, artifacts, state, intents, fresh, issue, comments, todo,
                   enabled, bounds, touched>>

\* One diagnostic per run: its row is created once and opened again for another
\* message; a message that is already there is left.
PublishDiagnostic(version, message) ==
    LET again == Of("diagnostic")
        i == IF again = {} THEN Len(intents) + 1 ELSE Min(again) IN
    IF again # {} /\ intents[i].status = "applied" /\ intents[i].message = message
    THEN poll' = Idle /\ UNCHANGED <<intents, fresh>>
    ELSE /\ IF again = {} THEN CreateIntent("diagnostic", version, message)
            ELSE /\ intents' = [intents EXCEPT ![i].status = "pending",
                                               ![i].message = message]
                 /\ UNCHANGED fresh
         /\ poll' = [Idle EXCEPT !.at = "comment", !.key = i, !.shows = "diagnostic"]

\* Unlike the others, this diagnostic is not written again over another one.
OffProject ==
    /\ poll.at = "decide"
    /\ Triage \notin poll.labels
    /\ ~poll.on_board
    /\ run_status' = "ineligible"
    /\ IF Of("diagnostic") = {}
       THEN PublishDiagnostic(0, "off_project")
       ELSE LET i == Min(Of("diagnostic")) IN
            /\ poll' = IF intents[i].status = "applied" THEN Idle
                       ELSE [Idle EXCEPT !.at = "comment", !.key = i,
                                         !.shows = "diagnostic"]
            /\ UNCHANGED <<intents, fresh>>
    /\ UNCHANGED <<attempts, artifacts, state, issue, comments, todo, enabled,
                   bounds, touched>>

Deciding ==
    /\ poll.at = "decide"
    /\ Triage \notin poll.labels
    /\ poll.on_board

Labelled(l) == l \in poll.labels
IsCurrent == artifacts[LatestVersion] = poll.rev

Diagnose(message) ==
    /\ PublishDiagnostic(LatestVersion, message)
    /\ UNCHANGED <<run_status, attempts, artifacts, state, issue, comments, todo,
                   enabled, bounds, touched>>

DecisionConflict ==
    /\ Deciding
    /\ LatestVersion > 0
    /\ Labelled(Approved) /\ Labelled(Revise)
    /\ Diagnose("conflict")

WantsRevision ==
    Deciding /\ LatestVersion > 0 /\ Labelled(Revise) /\ ~Labelled(Approved)

\* A request is charged to the budget unless the revision had an attempt.
Charged == attempts[poll.rev] = <<>>

ReviseWithoutFeedback == WantsRevision /\ ~poll.feedback /\ Diagnose("no_feedback")

BudgetExhausted ==
    /\ WantsRevision
    /\ poll.feedback
    /\ Charged
    /\ state.requests >= MaxRequests
    /\ Diagnose("budget")

RequestRevision ==
    /\ WantsRevision
    /\ poll.feedback
    /\ IF Charged
       THEN /\ state.requests < MaxRequests
            /\ state' = [state EXCEPT !.requests = @ + 1,
                                      !.decision = "revision_requested"]
       ELSE UNCHANGED state
    /\ poll' = [poll EXCEPT !.at = "claim", !.feedback = FALSE]
    /\ UNCHANGED <<run_status, attempts, artifacts, intents, fresh, issue, comments,
                   todo, enabled, bounds, touched>>

IsApproved ==
    Deciding /\ LatestVersion > 0 /\ Labelled(Approved) /\ ~Labelled(Revise)

StaleApproval == IsApproved /\ ~IsCurrent /\ Diagnose("stale")

\* Every approval has an intent of its own.
Approve ==
    /\ IsApproved
    /\ IsCurrent
    /\ CreateIntent("approval", LatestVersion, "none")
    /\ poll' = [Idle EXCEPT !.at = "mark", !.key = Len(intents) + 1]
    /\ UNCHANGED <<run_status, attempts, artifacts, state, issue, comments, todo,
                   enabled, bounds, touched>>

Undecided == Deciding /\ LatestVersion > 0 /\ ~Labelled(Approved) /\ ~Labelled(Revise)

NothingToDo ==
    /\ Undecided
    /\ IsCurrent
    /\ HasPreview
    /\ poll' = Idle
    /\ UNCHANGED <<store_vars, fresh, issue, comments, todo, enabled, bounds,
                   touched>>

\* A version that was stored and has no preview.
RecoverPreview ==
    /\ Undecided
    /\ IsCurrent
    /\ ~HasPreview
    /\ Goto("intend")
    /\ UNCHANGED <<store_vars, fresh, issue, comments, todo, enabled, bounds,
                   touched>>

\* The first version, or a cold one because the issue changed.
NewRevision ==
    /\ Deciding
    /\ LatestVersion = 0 \/ (Undecided /\ ~IsCurrent)
    /\ poll' = [poll EXCEPT !.at = "claim", !.feedback = FALSE]
    /\ UNCHANGED <<store_vars, fresh, issue, comments, todo, enabled, bounds,
                   touched>>

----------------------------------------------------------------------------
(* An attempt: drafts and reviews, then a version *)

\* One attempt of a revision runs at a time.
MayClaim(r) == Running(r) = {} /\ Len(attempts[r]) < MaxAttempts

Claim ==
    /\ poll.at = "claim"
    /\ MayClaim(poll.rev)
    /\ run_status' = "active"
    /\ attempts' = [attempts EXCEPT ![poll.rev] = Append(@, "running")]
    /\ poll' = [poll EXCEPT !.at = "turn", !.context = "attempt"]
    /\ UNCHANGED <<artifacts, state, intents, fresh, issue, comments, todo, enabled,
                   bounds, touched>>

ClaimFails ==
    /\ poll.at = "claim"
    /\ ~MayClaim(poll.rev)
    /\ poll' = Idle
    /\ UNCHANGED <<store_vars, fresh, issue, comments, todo, enabled, bounds,
                   touched>>

\* A draft, or a revision of the earlier version or of this draft.
WriteTurn ==
    /\ poll.at = "turn"
    /\ poll' = [poll EXCEPT !.at = "review", !.cycle = @ + 1]
    /\ UNCHANGED <<store_vars, fresh, issue, comments, todo, enabled, bounds,
                   touched>>

\* Faulty: one cycle too many.
CyclesLeftOver == poll.cycle <= MaxReviewCycles

CyclesLeft == poll.cycle < MaxReviewCycles

\* What still blocks after the last cycle becomes an open decision.
ReviewTurn ==
    /\ poll.at = "review"
    /\ \/ Goto("store")
       \/ CyclesLeft /\ Goto("turn")
    /\ UNCHANGED <<store_vars, fresh, issue, comments, todo, enabled, bounds,
                   touched>>

Stored(r) == \E v \in DOMAIN artifacts : artifacts[v] = r

\* Faulty: a version does not take back the approval of an earlier one.
ApprovalKept == [state EXCEPT !.pending = 0, !.approved = 0]

ApprovalReset ==
    [state EXCEPT !.pending = 0, !.approved = 0, !.decision = "awaiting"]

\* One version per revision; the approval of an earlier one is taken back.
StoreArtifact ==
    /\ poll.at = "store"
    /\ ~Stored(poll.rev)
    /\ artifacts' = Append(artifacts, poll.rev)
    /\ attempts' = [attempts EXCEPT ![poll.rev][Len(attempts[poll.rev])] = "completed"]
    /\ state' = ApprovalReset
    /\ run_status' = "waiting"
    /\ fresh' = (fresh /\ LatestPreview # 0)
    /\ Goto("intend")
    /\ UNCHANGED <<intents, issue, comments, todo, enabled, bounds, touched>>

IntendPreview ==
    /\ poll.at = "intend"
    /\ CreateIntent("preview", LatestVersion, "none")
    /\ poll' = [poll EXCEPT !.at = "comment", !.key = Len(intents) + 1,
                            !.shows = "awaiting"]
    /\ UNCHANGED <<run_status, attempts, artifacts, state, issue, comments, todo,
                   enabled, bounds, touched>>

----------------------------------------------------------------------------
(* Publication *)

SetPendingApproval ==
    /\ poll.at = "mark"
    /\ state' = [state EXCEPT !.pending = IntentOf.version,
                              !.decision = "pending_approval"]
    /\ poll' = [poll EXCEPT !.at = "comment", !.shows = "pending"]
    /\ UNCHANGED <<run_status, attempts, artifacts, intents, fresh, issue, comments,
                   todo, enabled, bounds, touched>>

AfterComment ==
    CASE IntentOf.kind = "preview" -> "revise"
      [] IntentOf.kind = "approval" /\ poll.shows = "pending" -> "labels"
      [] OTHER -> "finish"

Live == {c \in DOMAIN comments : comments[c].live}
Shown == [intent |-> poll.key, live |-> TRUE, shows |-> poll.shows]

\* upsert_owned_comment: the comment that is recorded...
UpdateRecorded ==
    /\ poll.at = "comment"
    /\ IntentOf.comment \in Live
    /\ comments' = [comments EXCEPT ![IntentOf.comment] = Shown]
    /\ Goto(AfterComment)
    /\ UNCHANGED <<store_vars, fresh, issue, todo, enabled, bounds, touched>>

\* Faulty: only a comment with the marker of this very publication is one's own.
OwnedExactly == {c \in Live : comments[c].intent = poll.key}

\* ...else the one with the marker of this publication, else of any...
Owned ==
    LET exact == {c \in Live : comments[c].intent = poll.key} IN
    IF exact # {} THEN exact ELSE Live

AdoptComment ==
    /\ poll.at = "comment"
    /\ IntentOf.comment = 0
    /\ Owned # {}
    /\ comments' = [comments EXCEPT ![Min(Owned)] = Shown]
    /\ Goto("bind")
    /\ UNCHANGED <<store_vars, fresh, issue, todo, enabled, bounds, touched>>

\* ...else a new one.
CreateComment ==
    /\ poll.at = "comment"
    /\ IntentOf.comment = 0
    /\ Owned = {}
    /\ comments' = Append(comments, Shown)
    /\ Goto("bind")
    /\ UNCHANGED <<store_vars, fresh, issue, todo, enabled, bounds, touched>>

BindComment ==
    /\ poll.at = "bind"
    /\ SetComment(poll.key, Max({c \in DOMAIN comments : comments[c].intent = poll.key}))
    /\ Goto(AfterComment)
    /\ UNCHANGED <<run_status, attempts, artifacts, state, issue, comments, todo,
                   enabled, bounds, touched>>

Unlabel(l) == issue' = [issue EXCEPT !.labels = @ \ {l}]

\* A resumed preview looks before it removes, a first one trusts the labels it
\* was fetched with.
RemoveRevise ==
    /\ poll.at = "revise"
    /\ \/ poll.context = "resume" /\ Unlabel(Revise)
       \/ /\ poll.context # "resume"
          /\ Labelled(Revise) => Revise \in issue.labels
          /\ IF Labelled(Revise) THEN Unlabel(Revise) ELSE UNCHANGED issue
    /\ Goto("finish")
    /\ UNCHANGED <<store_vars, fresh, comments, todo, enabled, bounds, touched>>

ApprovalLabels == <<Intake, Approved, Revise>>

RemoveApprovalLabel ==
    /\ poll.at = "labels"
    /\ Unlabel(ApprovalLabels[poll.step + 1])
    /\ poll' = [poll EXCEPT !.step = @ + 1,
                   !.at = IF poll.step + 1 = Len(ApprovalLabels) THEN "route" ELSE @]
    /\ UNCHANGED <<store_vars, fresh, comments, todo, enabled, bounds, touched>>

AddRoute ==
    /\ poll.at = "route"
    /\ issue' = [issue EXCEPT !.labels = @ \cup {Route}]
    /\ Goto("column")
    /\ UNCHANGED <<store_vars, fresh, comments, todo, enabled, bounds, touched>>

SetColumn ==
    /\ poll.at = "column"
    /\ issue.column # "none"
    /\ issue' = [issue EXCEPT !.column = "todo"]
    /\ Goto("pin")
    /\ UNCHANGED <<store_vars, fresh, comments, todo, enabled, bounds, touched>>

PinApproval ==
    /\ poll.at = "pin"
    /\ state' = [state EXCEPT !.approved = IntentOf.version, !.decision = "pending_approval"]
    /\ poll' = [poll EXCEPT !.at = "comment", !.shows = "approved"]
    /\ UNCHANGED <<run_status, attempts, artifacts, intents, fresh, issue, comments,
                   todo, enabled, bounds, touched>>

AfterFinish == IF poll.context = "resume" THEN [Idle EXCEPT !.at = "pending"] ELSE Idle

FinalizeApproval ==
    /\ poll.at = "finish"
    /\ IntentOf.kind = "approval"
    /\ state' = [state EXCEPT !.pending = 0, !.decision = "approved"]
    /\ run_status' = "completed"
    /\ Complete(poll.key)
    /\ poll' = AfterFinish
    /\ touched' = FALSE
    /\ UNCHANGED <<attempts, artifacts, issue, comments, todo, enabled, bounds>>

CompletePublication ==
    /\ poll.at = "finish"
    /\ IntentOf.kind # "approval"
    /\ Complete(poll.key)
    /\ poll' = AfterFinish
    /\ UNCHANGED <<run_status, attempts, artifacts, state, issue, comments, todo,
                   enabled, bounds, touched>>

----------------------------------------------------------------------------
(* Failures, time, people *)

Fault ==
    /\ faults < MaxFaults
    /\ faults' = faults + 1
    /\ UNCHANGED edits

Edit ==
    /\ edits < MaxEdits
    /\ edits' = edits + 1
    /\ UNCHANGED faults

\* An error of a resumed publication is recorded and the next one resumed; one
\* of an attempt fails the attempt, even if its version is stored; any other
\* ends the poll.
Fails ==
    /\ \/ /\ poll.context = "resume"
          /\ RecordFailure(poll.key)
          /\ poll' = [Idle EXCEPT !.at = "pending"]
          /\ UNCHANGED <<attempts, todo>>
       \/ /\ poll.context = "attempt"
          /\ FailAttempt(poll.rev)
          /\ poll' = Idle
          /\ UNCHANGED <<intents, fresh, todo>>
       \/ /\ poll.context = "none"
          /\ poll' = Idle
          /\ todo' = {}
          /\ UNCHANGED <<intents, fresh, attempts>>
    /\ touched' = FALSE
    /\ UNCHANGED <<run_status, artifacts, state, issue, comments, enabled>>

CallFails ==
    /\ poll.at \notin {"idle", "pending", "decide", "claim", "turn", "review"}
    /\ Fault
    /\ Fails

\* The agent, its output or its review is not acceptable.
AgentFails ==
    /\ poll.at \in {"turn", "review"}
    /\ Fails
    /\ UNCHANGED bounds

\* Calls that cannot but fail: the recorded comment was deleted, a label to
\* remove is gone, the issue left the board, the revision has a version.
CallRefused ==
    /\ \/ poll.at = "comment" /\ IntentOf.comment \notin Live \cup {0}
       \/ /\ poll.at = "revise" /\ poll.context # "resume"
          /\ Labelled(Revise) /\ Revise \notin issue.labels
       \/ poll.at = "column" /\ issue.column = "none"
       \/ poll.at = "store" /\ Stored(poll.rev)
    /\ Fails
    /\ UNCHANGED bounds

Crash ==
    /\ poll.at # "idle"
    /\ Fault
    /\ poll' = Idle
    /\ todo' = {}
    /\ touched' = FALSE
    /\ UNCHANGED <<store_vars, fresh, issue, comments, enabled>>

\* The lease is not renewed while agents work, but it is read only by a poll,
\* and the poll that runs an attempt waits for it.
LeaseExpires ==
    /\ poll.context # "attempt"
    /\ \E r \in Revisions : \E n \in Running(r) :
        /\ attempts[r][n] = "running"
        /\ attempts' = [attempts EXCEPT ![r][n] = "lapsed"]
    /\ UNCHANGED <<run_status, artifacts, state, intents, fresh, issue, comments,
                   poll_vars, enabled, bounds, touched>>

Approving == poll.key # 0 /\ IntentOf.kind = "approval"

\* People edit the text or comment, and may change a label at that.
PeopleEdit ==
    /\ Edit
    /\ \E wrote \in {"nothing", "text", "feedback"}, l \in Labels \ {Route}, toggle \in BOOLEAN :
        /\ wrote # "nothing" \/ toggle
        /\ issue' = [issue EXCEPT
               !.text = IF wrote = "nothing" THEN @ ELSE @ + 1,
               !.labels = IF ~toggle THEN @ ELSE IF l \in @ THEN @ \ {l} ELSE @ \cup {l}]
        /\ fresh' = (fresh \/ wrote = "feedback")
        /\ touched' = (touched \/ (toggle /\ Approving))
    /\ UNCHANGED <<store_vars, comments, poll_vars, enabled>>

PeopleMove ==
    /\ Edit
    /\ \E c \in Columns \ {issue.column} : issue' = [issue EXCEPT !.column = c]
    /\ touched' = (touched \/ Approving)
    /\ UNCHANGED <<store_vars, fresh, comments, poll_vars, enabled>>

PeopleDelete ==
    /\ Edit
    /\ \E c \in Live : comments' = [comments EXCEPT ![c].live = FALSE]
    /\ UNCHANGED <<store_vars, fresh, issue, poll_vars, enabled, touched>>

OperatorReloads ==
    /\ poll.at = "idle"
    /\ Edit
    /\ enabled' = ~enabled
    /\ UNCHANGED <<store_vars, fresh, issue, comments, poll_vars, touched>>

----------------------------------------------------------------------------
Init ==
    /\ run_status = "none"
    /\ attempts = [r \in Revisions |-> <<>>]
    /\ artifacts = <<>>
    /\ state = [decision |-> "none", pending |-> 0, approved |-> 0, requests |-> 0]
    /\ intents = <<>>
    /\ fresh = FALSE
    /\ issue \in [labels : InitialLabels, column : {"none", "backlog"}, text : {1}]
    /\ comments = <<>>
    /\ poll = Idle
    /\ todo = {}
    /\ enabled = TRUE
    /\ faults = 0 /\ edits = 0
    /\ touched = FALSE

Resuming == PollStarts \/ Resume \/ PendingDone
Decisions == FetchIntake \/ TriageOwns \/ OffProject \/ DecisionConflict
               \/ ReviseWithoutFeedback \/ BudgetExhausted \/ RequestRevision
               \/ StaleApproval \/ Approve \/ NothingToDo \/ RecoverPreview \/ NewRevision
Writing == Claim \/ ClaimFails \/ WriteTurn \/ ReviewTurn \/ AgentFails
             \/ StoreArtifact \/ IntendPreview
Commenting == UpdateRecorded \/ AdoptComment \/ CreateComment \/ BindComment
Publishing == SetPendingApproval \/ RemoveRevise \/ RemoveApprovalLabel \/ AddRoute
                \/ SetColumn \/ PinApproval \/ FinalizeApproval \/ CompletePublication
Symphony == Resuming \/ Decisions \/ Writing \/ Commenting \/ Publishing \/ CallRefused
Environment == CallFails \/ Crash \/ LeaseExpires \/ PeopleEdit \/ PeopleMove
                 \/ PeopleDelete \/ OperatorReloads
Next == Symphony \/ Environment

Spec == Init /\ [][Next]_vars

\* The poll loop keeps running and every call it makes returns; people, faults
\* and agents owe nothing.
FairSpec == Spec /\ WF_vars(Symphony) /\ WF_vars(LeaseExpires)

----------------------------------------------------------------------------
(* Properties *)

\* The shape of every variable.
TypeOK ==
    /\ run_status \in {"none", "active", "waiting", "completed", "ineligible"}
    /\ attempts \in [Revisions -> Seq(AttemptStatus)]
    /\ artifacts \in Seq(Revisions)
    /\ state \in RunState
    /\ intents \in Seq(Intent)
    /\ fresh \in BOOLEAN
    /\ issue \in [labels : SUBSET Labels, column : Columns, text : Revisions]
    /\ comments \in Seq(Comment)
    /\ poll \in Poll
    /\ poll.key \in 0..Len(intents)
    /\ todo \subseteq DOMAIN intents
    /\ enabled \in BOOLEAN
    /\ faults \in 0..MaxFaults /\ edits \in 0..MaxEdits
    /\ touched \in BOOLEAN

\* Previews, diagnostics and approvals of all versions share one comment: the
\* issue never shows two, however publications are cut short and resumed
\* (upsert_owned_comment).
OneSpecComment == Cardinality(Live) <= 1

\* A revision has at most max_attempts attempts, at most one of them running,
\* and at most one version (claim_stage_attempt, store_spec_artifact).
AttemptsSound ==
    /\ \A r \in Revisions : Len(attempts[r]) <= MaxAttempts /\ Cardinality(Running(r)) <= 1
    /\ \A v, w \in DOMAIN artifacts : artifacts[v] = artifacts[w] => v = w

\* The stage does its work once: one comment, and each version from one attempt.
WorkDoneOnce == OneSpecComment /\ AttemptsSound

\* The run is approved only if a version is pinned and an approval of just that
\* version was carried out to the end (finalize_spec_approval).
ApprovedIsPinned ==
    state.decision = "approved" =>
        \E i \in Of("approval") :
            intents[i].status = "applied" /\ intents[i].version = state.approved

\* What an approval promises of the issue when it is recorded as applied: unless
\* people interfered since the poll took it up, the decision labels and the
\* intake label are gone, the route label is there and the column is set, however
\* often the approval was cut short before (reconcile_one_publication, approve).
ApprovedMeansRouted ==
    [][\A i \in DOMAIN intents :
          /\ intents[i].kind = "approval"
          /\ intents[i].status # "applied" /\ intents'[i].status = "applied"
          /\ ~touched
          => /\ issue.labels \cap {Intake, Approved, Revise} = {}
             /\ Route \in issue.labels
             /\ issue.column = "todo"]_vars

\* A publication that was begun is eventually applied or blocked: its failures
\* are counted, and those of one do not keep the others from being resumed
\* (reconcile_pending_publications).
PublicationsSettle ==
    \A i \in 1..(MaxEdits + MaxFaults + 3) : i \in PendingIntents ~> i \notin PendingIntents

=============================================================================
