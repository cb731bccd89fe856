----------------------------- MODULE ReviewStage -----------------------------
(***************************************************************************)
(* The review stage for one draft pull request (review/coordinator.rs,     *)
(* review/publisher.rs and the review tables of triage/store.rs).          *)
(*                                                                         *)
(* A poll resumes pending publications, then has an agent review the       *)
(* revision (head and base) of the pull request, unless that revision has  *)
(* findings already, and publishes what it found: as a comment on the      *)
(* issue (preview), or as one formal review of the pull request followed   *)
(* by a move of the issue on its board (automatic).  Every write to a      *)
(* publication is fenced by a lease.  Calls may fail, their answers may be *)
(* lost, the process may die between any two steps, and people push, edit  *)
(* and reset at any moment.                                                *)
(***************************************************************************)
EXTENDS Integers, Sequences, FiniteSets, FiniteSetsExt, SequencesExt

CONSTANTS
    Revisions,       \* heads and bases the pull request may have
    Findings,        \* identities of findings
    Modes,           \* what a poll may find configured
    MaxAttempts,     \* review.max_attempts, per revision and per publication
    MaxReprompts,    \* review.max_reprompts
    HumanEdits,      \* kinds of changes people make
    MaxFaults,       \* bound: crashes, failed calls, suspensions
    MaxEdits         \* bound: changes people make

EditKinds == {"push", "close", "column", "comment", "reset", "credential"}

ASSUME ReviewAssumption ==
    /\ Revisions \subseteq [head : Nat, base : Nat] /\ Revisions # {}
    /\ Modes \subseteq {"off", "preview", "automatic"} /\ Modes # {}
    /\ MaxAttempts \in Nat \ {0} /\ MaxReprompts \in Nat
    /\ HumanEdits \subseteq EditKinds
    /\ MaxFaults \in Nat /\ MaxEdits \in Nat

VARIABLES
    stage,           \* the last row of stage_runs of this stage, if unfinished
    attempts,        \* rows of review_attempts, oldest first
    artifacts,       \* rows of review_findings_artifacts, oldest first
    intents,         \* rows of review_publication_intents, oldest first
    pull,            \* the pull request: its revision, is it open?
    column,          \* where the issue is on its board
    reviews,         \* reviews of the pull request that carry a marker
    comments,        \* comments on the issue that carry a marker
    login,           \* whom the configured credential authenticates
    poll,            \* where the poll is
    todo,            \* publications the poll has still to resume
    moved,           \* has the head moved since the poll checked it?
    faults, edits    \* how many there were

store_vars == <<stage, attempts, artifacts, intents>>
forge_vars == <<pull, column, reviews, comments>>
poll_vars == <<poll, todo>>
people_vars == <<login, edits>>
vars == <<store_vars, forge_vars, poll_vars, moved, faults, people_vars>>

AnyRevision == CHOOSE r \in Revisions : TRUE
Heads == {r.head : r \in Revisions}
Logins == {"bot", "other"}
Columns == {"trigger", "passed", "changes"}
Steps == {"review_created", "findings_recorded", "route_applied", "comment_final"}

Attempt == [rev : Revisions, status : {"running", "completed", "failed", "blocked", "interrupted"}]
Artifact == [rev : Revisions, findings : SUBSET Findings, persisting : SUBSET Findings]
Intent ==
    [artifact : DOMAIN artifacts, kind : {"preview", "automatic"},
     status : {"pending", "applied", "blocked", "conflict"}, steps : SUBSET Steps,
     retries : 0..MaxAttempts, comment : 0..Len(comments), review : 0..Len(reviews),
     login : Logins \cup {"unbound"}, lease : {"free", "own", "old", "expired"}]
Review == [intent : DOMAIN intents, head : Heads, login : Logins]
Comment == [intent : DOMAIN intents, login : Logins, live : BOOLEAN]

Candidacy == {"intake", "pull", "files", "claim", "inputs", "work", "store", "intend"}
Formal == {"head", "identity", "list", "live", "create", "accept", "bind", "created", "findings"}
Routing == {"route", "move", "moved", "routed", "final"}
Commenting == {"comment", "create_comment", "bind_comment", "complete"}
Poll ==
    [at : {"idle", "pending"} \cup Candidacy \cup Formal \cup Routing \cup Commenting,
     mode : Modes \cup {"none"}, rev : Revisions, turn : 0..MaxReprompts,
     key : Nat, found : Nat, fresh : BOOLEAN, last : BOOLEAN]

Idle == [at |-> "idle", mode |-> "none", rev |-> AnyRevision, turn |-> 0,
         key |-> 0, found |-> 0, fresh |-> FALSE, last |-> FALSE]

----------------------------------------------------------------------------
(* What store and forge answer *)

At(phase) == poll.at = phase
Goto(phase) == poll' = [poll EXCEPT !.at = phase]

Live == pull.rev
Pending == {i \in DOMAIN intents : intents[i].status = "pending"}
ArtifactOf(i) == artifacts[intents[i].artifact]
HeadOf(i) == ArtifactOf(i).rev.head
RouteOf(i) == IF ArtifactOf(i).findings = {} THEN "passed" ELSE "changes"
Artifacts(r) == {a \in DOMAIN artifacts : artifacts[a].rev = r}
Orphans(r) == {a \in Artifacts(r) : \A i \in DOMAIN intents : intents[i].artifact # a}

\* Attempts that consume the budget of a revision: not those a crash left running.
Failures(r) ==
    Cardinality({n \in DOMAIN attempts :
        attempts[n].rev = r /\ attempts[n].status \in {"failed", "blocked", "interrupted"}})

\* Faulty: a lease is only free once its holder has given it up.
Unheld(i) == intents[i].lease \in {"free", "own"}

\* The lease can be taken by this process: it is free, expired or its own.
Claimable(i) == intents[i].lease # "old"

\* Writes of the holder are accepted while its lease lasts.
Owns(i) == intents[i].lease = "own"

Returned ==
    IF poll.fresh THEN Idle
    ELSE [poll EXCEPT !.at = "pending", !.key = 0, !.found = 0]

\* Faulty: one more attempt is granted.
BudgetSpentOver(n) == n > MaxAttempts
BudgetSpent(n) == n + 1 >= MaxAttempts

SetAttempt(status) == attempts' = [attempts EXCEPT ![Len(attempts)].status = status]
FailedStatus == IF BudgetSpent(Failures(poll.rev)) THEN "blocked" ELSE "failed"

\* The intents after a failure of publication i was recorded under its lease.
Failed(i, conflict) ==
    IF Claimable(i)
    THEN [intents EXCEPT ![i].retries = @ + 1, ![i].lease = "free",
              ![i].status = CASE conflict -> "conflict"
                              [] ~conflict /\ BudgetSpent(intents[i].retries) -> "blocked"
                              [] OTHER -> "pending"]
    ELSE intents

\* A publication fails; one that was just begun fails its attempt with it, until
\* it has come to the board, unless it is over.
PublicationFails(conflict) ==
    /\ intents' = Failed(poll.key, conflict)
    /\ IF /\ poll.fresh
          /\ poll.at \notin Routing
          /\ intents'[poll.key].status = "pending"
       THEN SetAttempt(FailedStatus)
       ELSE UNCHANGED attempts
    /\ poll' = Returned
    /\ UNCHANGED <<stage, artifacts>>

\* The head has moved: the publication is over, without being charged.
Supersede(i) ==
    /\ intents' = IF Claimable(i)
                  THEN [intents EXCEPT ![i].status = "conflict", ![i].lease = "free"]
                  ELSE intents
    /\ UNCHANGED <<stage, attempts, artifacts>>

Write(i, field, value) == intents' = [intents EXCEPT ![i][field] = value]
RecordStep(i, step) == Write(i, "steps", intents[i].steps \cup {step})

----------------------------------------------------------------------------
(* Resuming publications *)

PollStarts ==
    /\ At("idle")
    /\ stage' = IF stage = "stale" THEN "none" ELSE stage
    /\ \E m \in Modes : poll' = [Idle EXCEPT !.at = "pending", !.mode = m]
    /\ todo' = Pending
    /\ moved' = FALSE
    /\ UNCHANGED <<attempts, artifacts, intents, forge_vars, faults, people_vars>>

\* A publication is claimed before its first call; one that another process
\* holds is left alone.
Begin(i, I) ==
    CASE intents[i].kind = "automatic" /\ "findings_recorded" \in I[i].steps ->
           poll' = [poll EXCEPT !.at = "route"] /\ intents' = I
      [] ~Claimable(i) -> poll' = Returned /\ intents' = I
      [] OTHER ->
           /\ poll' = [poll EXCEPT !.at =
                          IF intents[i].kind = "automatic" THEN "identity" ELSE "comment"]
           /\ intents' = [I EXCEPT ![i].lease = "own"]

ResumePublication ==
    /\ At("pending")
    /\ todo # {}
    /\ LET i == Min(todo) IN
       /\ todo' = todo \ {i}
       /\ \/ /\ intents[i].kind = "automatic"
             /\ poll' = [poll EXCEPT !.at = "head", !.key = i]
             /\ UNCHANGED intents
          \/ /\ intents[i].kind = "preview"
             /\ IF Claimable(i)
                THEN /\ poll' = [poll EXCEPT !.at = "comment", !.key = i]
                     /\ Write(i, "lease", "own")
                ELSE UNCHANGED <<poll, intents>>
    /\ UNCHANGED <<stage, attempts, artifacts, forge_vars, moved, faults, people_vars>>

PendingDone ==
    /\ At("pending")
    /\ todo = {}
    /\ poll' = IF poll.last \/ poll.mode = "off" THEN Idle ELSE [poll EXCEPT !.at = "intake"]
    /\ UNCHANGED <<store_vars, forge_vars, todo, moved, faults, people_vars>>

\* A resumed publication is only continued for the head it was written about.
CheckHead ==
    /\ At("head")
    /\ IF pull.rev.head = HeadOf(poll.key)
       THEN /\ Begin(poll.key, intents)
            /\ moved' = FALSE
            /\ UNCHANGED <<stage, attempts, artifacts>>
       ELSE /\ Supersede(poll.key)
            /\ poll' = Returned
            /\ UNCHANGED moved
    /\ UNCHANGED <<forge_vars, todo, faults, people_vars>>

----------------------------------------------------------------------------
(* The candidate and its attempt *)

TakeCandidate ==
    /\ At("intake")
    /\ IF stage = "none" /\ column = "trigger" THEN Goto("pull") ELSE poll' = Idle
    /\ UNCHANGED <<store_vars, forge_vars, todo, moved, faults, people_vars>>

SkipRevision ==
    /\ At("pull")
    /\ \/ ~pull.open
       \/ Artifacts(Live) # {} /\ Orphans(Live) = {}
       \/ Artifacts(Live) = {} /\ Failures(Live) >= MaxAttempts
    /\ poll' = Idle
    /\ UNCHANGED <<store_vars, forge_vars, todo, moved, faults, people_vars>>

NewIntent(a) ==
    [artifact |-> a, kind |-> poll.mode, status |-> "pending", steps |-> {}, retries |-> 0,
     comment |-> 0, review |-> 0, login |-> "unbound", lease |-> "free"]

\* "Find a completed artifact for one head/base pair whose publication intent
\* was never persisted": it gets one, and all pending ones are resumed again.
RecoverOrphan ==
    /\ At("pull")
    /\ pull.open
    /\ \E a \in Orphans(Live) : intents' = Append(intents, NewIntent(a))
    /\ todo' = Pending \cup {Len(intents) + 1}
    /\ poll' = [poll EXCEPT !.at = "pending", !.mode = "none", !.last = TRUE]
    /\ UNCHANGED <<stage, attempts, artifacts, forge_vars, moved, faults, people_vars>>

PinRevision ==
    /\ At("pull")
    /\ pull.open
    /\ Artifacts(Live) = {}
    /\ Failures(Live) < MaxAttempts
    /\ poll' = [poll EXCEPT !.at = "files", !.rev = Live]
    /\ UNCHANGED <<store_vars, forge_vars, todo, moved, faults, people_vars>>

\* The files were listed; they must be of the revision that was pinned.
ListFiles ==
    /\ At("files")
    /\ IF Live = poll.rev THEN Goto("claim") ELSE poll' = Idle
    /\ UNCHANGED <<store_vars, forge_vars, todo, moved, faults, people_vars>>

Claim ==
    /\ At("claim")
    /\ stage' = "running"
    /\ Goto("inputs")
    /\ UNCHANGED <<attempts, artifacts, intents, forge_vars, todo, moved, faults, people_vars>>

StoreInputs ==
    /\ At("inputs")
    /\ attempts' = Append(attempts, [rev |-> poll.rev, status |-> "running"])
    /\ poll' = [poll EXCEPT !.at = "work", !.fresh = TRUE]
    /\ UNCHANGED <<stage, artifacts, intents, forge_vars, todo, moved, faults, people_vars>>

EndAttempt(status) ==
    /\ SetAttempt(status)
    /\ stage' = "none"
    /\ poll' = Idle
    /\ UNCHANGED <<artifacts, intents>>

\* The worker fails, or its manifest is not valid: it is asked again, or the
\* attempt is blocked.
WorkerFails ==
    /\ At("work")
    /\ IF poll.turn < MaxReprompts
       THEN poll' = [poll EXCEPT !.turn = @ + 1] /\ UNCHANGED store_vars
       ELSE EndAttempt("blocked")
    /\ UNCHANGED <<forge_vars, todo, moved, faults, people_vars>>

\* The pull request is looked at again whenever the worker returns.
WorkerOvertaken ==
    /\ At("work")
    /\ Live # poll.rev
    /\ EndAttempt("interrupted")
    /\ UNCHANGED <<forge_vars, todo, moved, faults, people_vars>>

WorkerReturns ==
    /\ At("work")
    /\ Live = poll.rev
    /\ poll' = [poll EXCEPT !.at = "store", !.turn = 0]
    /\ UNCHANGED <<store_vars, forge_vars, todo, moved, faults, people_vars>>

\* Findings whose identity is among the unresolved ones persist; the unresolved
\* ones are those of the artifact before, since others are resolved by it.
Unresolved == IF artifacts = <<>> THEN {} ELSE Last(artifacts).findings

StoreArtifact ==
    /\ At("store")
    /\ \E F \in SUBSET Findings :
        artifacts' = Append(artifacts,
            [rev |-> poll.rev, findings |-> F, persisting |-> F \cap Unresolved])
    /\ SetAttempt("completed")
    /\ stage' = "none"
    /\ Goto("intend")
    /\ UNCHANGED <<intents, forge_vars, todo, moved, faults, people_vars>>

\* The intent is stored and claimed.  A process that dies between the two leaves a
\* pending intent that nobody holds, which is what an orphan gets as well.
IntendPublication ==
    /\ At("intend")
    /\ intents' = Append(intents, [NewIntent(Len(artifacts)) EXCEPT !.lease = "own"])
    /\ poll' = [poll EXCEPT !.key = Len(intents) + 1, !.mode = "none",
                            !.at = IF poll.mode = "automatic" THEN "identity" ELSE "comment"]
    /\ UNCHANGED <<stage, attempts, artifacts, forge_vars, todo, moved, faults, people_vars>>

----------------------------------------------------------------------------
(* Publishing a formal review: publish_formal *)

\* Faulty: a review is not looked for by its marker.
Unmarked(i) == {}

\* Reviews of the pull request that carry the marker of a publication.
Marked(i) == {r \in DOMAIN reviews : reviews[r].intent = i}

Identify ==
    /\ At("identity")
    /\ IF intents[poll.key].review = 0
       THEN Goto("list") /\ UNCHANGED store_vars
       ELSE IF intents[poll.key].login = login
       THEN Goto("accept") /\ UNCHANGED store_vars
       ELSE PublicationFails(TRUE)
    /\ UNCHANGED <<forge_vars, todo, moved, faults, people_vars>>

\* A review that carries the marker is this publication's, if the credential and
\* the head are.
ListReviews ==
    /\ At("list")
    /\ LET mine == Marked(poll.key) IN
       \/ /\ mine = {}
          /\ Goto("live")
          /\ UNCHANGED store_vars
       \/ \E r \in mine :
          /\ mine = {r} /\ reviews[r].login = login /\ reviews[r].head = HeadOf(poll.key)
          /\ poll' = [poll EXCEPT !.at = "accept", !.found = r]
          /\ UNCHANGED store_vars
       \/ /\ \E r \in mine : \/ mine # {r}
                             \/ reviews[r].login # login
                             \/ reviews[r].head # HeadOf(poll.key)
          /\ PublicationFails(TRUE)
    /\ UNCHANGED <<forge_vars, todo, moved, faults, people_vars>>

\* Faulty: the head is not compared.
HeadIgnored(i) == TRUE

HeadHolds(i) == pull.rev.head = HeadOf(i)

CheckLive ==
    /\ At("live")
    /\ IF HeadHolds(poll.key)
       THEN Goto("create") /\ UNCHANGED store_vars
       ELSE Supersede(poll.key) /\ poll' = Returned
    /\ UNCHANGED <<forge_vars, todo, moved, faults, people_vars>>

Submitted == Append(reviews,
    [intent |-> poll.key, head |-> HeadOf(poll.key), login |-> login])

CreateReview ==
    /\ At("create")
    /\ reviews' = Submitted
    /\ poll' = [poll EXCEPT !.at = "accept", !.found = Len(reviews) + 1]
    /\ UNCHANGED <<store_vars, pull, column, comments, todo, moved, faults, people_vars>>

\* A review, new, found or bound before, counts only if the head has not moved.
AcceptReview ==
    /\ At("accept")
    /\ IF HeadHolds(poll.key)
       THEN /\ Goto(IF poll.found # 0 THEN "bind" ELSE "created")
            /\ moved' = FALSE
            /\ UNCHANGED store_vars
       ELSE /\ Supersede(poll.key)
            /\ poll' = Returned
            /\ UNCHANGED moved
    /\ UNCHANGED <<forge_vars, todo, faults, people_vars>>

\* The row is not this process's any more: the publication waits.
LosesLease ==
    /\ poll.at \in {"bind", "created", "findings", "final"}
    /\ ~Owns(poll.key)
    /\ poll' = Returned
    /\ UNCHANGED <<store_vars, forge_vars, todo, moved, faults, people_vars>>

BindReview ==
    /\ At("bind")
    /\ Owns(poll.key)
    /\ intents' = [intents EXCEPT ![poll.key].review = poll.found, ![poll.key].login = login]
    /\ Goto("created")
    /\ UNCHANGED <<stage, attempts, artifacts, forge_vars, todo, moved, faults, people_vars>>

RecordReview ==
    /\ poll.at \in {"created", "findings"}
    /\ Owns(poll.key)
    /\ \/ /\ At("created")
          /\ RecordStep(poll.key, "review_created")
          /\ Goto("findings")
       \/ /\ At("findings")
          /\ RecordStep(poll.key, "findings_recorded")
          /\ Goto("route")
    /\ UNCHANGED <<stage, attempts, artifacts, forge_vars, todo, moved, faults, people_vars>>

----------------------------------------------------------------------------
(* Moving the issue: apply_automatic_route *)

\* "A human moved the item. Preserve the pending intent and retry after it
\* returns to the trigger state."
LeaveIssue ==
    /\ At("route")
    /\ \/ ~Claimable(poll.key) /\ UNCHANGED intents
       \/ /\ Claimable(poll.key)
          /\ "route_applied" \notin intents[poll.key].steps
          /\ column \notin {RouteOf(poll.key), "trigger"}
          /\ Write(poll.key, "lease", "free")
    /\ poll' = Returned
    /\ UNCHANGED <<stage, attempts, artifacts, forge_vars, todo, moved, faults, people_vars>>

ReadColumn ==
    /\ At("route")
    /\ Claimable(poll.key)
    /\ \/ "route_applied" \in intents[poll.key].steps /\ Goto("final")
       \/ /\ "route_applied" \notin intents[poll.key].steps
          /\ \/ column = RouteOf(poll.key) /\ Goto("routed")
             \/ column = "trigger" /\ Goto("move")
    /\ Write(poll.key, "lease", "own")
    /\ UNCHANGED <<stage, attempts, artifacts, forge_vars, todo, moved, faults, people_vars>>

MoveIssue ==
    /\ At("move")
    /\ column' = RouteOf(poll.key)
    /\ Goto("moved")
    /\ UNCHANGED <<store_vars, pull, reviews, comments, todo, moved, faults, people_vars>>

VerifyMove ==
    /\ At("moved")
    /\ IF column = RouteOf(poll.key)
       THEN Goto("routed") /\ UNCHANGED store_vars
       ELSE PublicationFails(FALSE)
    /\ UNCHANGED <<forge_vars, todo, moved, faults, people_vars>>

RecordRoute ==
    /\ At("routed")
    /\ IF Owns(poll.key)
       THEN RecordStep(poll.key, "route_applied") /\ Goto("final")
       ELSE Write(poll.key, "lease", "free") /\ poll' = Returned
    /\ UNCHANGED <<stage, attempts, artifacts, forge_vars, todo, moved, faults, people_vars>>

RecordFinal ==
    /\ At("final")
    /\ Owns(poll.key)
    /\ intents' = [intents EXCEPT ![poll.key].steps = @ \cup {"comment_final"},
                                  ![poll.key].status = "applied", ![poll.key].lease = "free"]
    /\ poll' = Returned
    /\ UNCHANGED <<stage, attempts, artifacts, forge_vars, todo, moved, faults, people_vars>>

----------------------------------------------------------------------------
(* Publishing a comment: publish_preview *)

Shown(c) == c # 0 /\ comments[c].live
Gone(c) == c # 0 /\ ~Shown(c)

\* Comments by this credential that carry the marker of a publication.
OwnComments(i) ==
    {c \in DOMAIN comments : /\ comments[c].live
                             /\ comments[c].intent = i
                             /\ comments[c].login = login}

UpdateComment ==
    /\ At("comment")
    /\ Shown(intents[poll.key].comment)
    /\ IF comments[intents[poll.key].comment].login = login
       THEN Goto("complete") /\ UNCHANGED store_vars
       ELSE PublicationFails(FALSE)
    /\ UNCHANGED <<forge_vars, todo, moved, faults, people_vars>>

\* A write is refused: the publication waits, and the lease is let go.
LetsGo ==
    /\ \/ poll.at \in {"bind_comment", "complete"}
       \/ At("comment") /\ Gone(intents[poll.key].comment)
    /\ ~Owns(poll.key)
    /\ Write(poll.key, "lease", "free")
    /\ poll' = Returned
    /\ UNCHANGED <<stage, attempts, artifacts, forge_vars, todo, moved, faults, people_vars>>

\* The comment is gone: its identity is cleared and another one looked for.
ClearComment ==
    /\ At("comment")
    /\ Gone(intents[poll.key].comment)
    /\ Owns(poll.key)
    /\ intents' = [intents EXCEPT ![poll.key].comment = 0, ![poll.key].login = "unbound"]
    /\ UNCHANGED <<stage, attempts, artifacts, forge_vars, poll_vars, moved, faults, people_vars>>

\* A comment that is found is updated: its text is not part of the state.
FindComment ==
    /\ At("comment")
    /\ intents[poll.key].comment = 0
    /\ \/ \E c \in OwnComments(poll.key) :
            poll' = [poll EXCEPT !.at = "bind_comment", !.found = c]
       \/ OwnComments(poll.key) = {} /\ Goto("create_comment")
    /\ UNCHANGED <<store_vars, forge_vars, todo, moved, faults, people_vars>>

Commented == Append(comments, [intent |-> poll.key, login |-> login, live |-> TRUE])

CreateComment ==
    /\ At("create_comment")
    /\ comments' = Commented
    /\ poll' = [poll EXCEPT !.at = "bind_comment", !.found = Len(comments) + 1]
    /\ UNCHANGED <<store_vars, pull, column, reviews, todo, moved, faults, people_vars>>

BindComment ==
    /\ At("bind_comment")
    /\ Owns(poll.key)
    /\ intents' = [intents EXCEPT ![poll.key].comment = poll.found, ![poll.key].login = login]
    /\ Goto("complete")
    /\ UNCHANGED <<stage, attempts, artifacts, forge_vars, todo, moved, faults, people_vars>>

CompletePreview ==
    /\ At("complete")
    /\ Owns(poll.key)
    /\ intents' = [intents EXCEPT ![poll.key].status = "applied", ![poll.key].lease = "free"]
    /\ poll' = Returned
    /\ UNCHANGED <<stage, attempts, artifacts, forge_vars, todo, moved, faults, people_vars>>

----------------------------------------------------------------------------
(* Faults, time and people *)

Fault == faults < MaxFaults /\ faults' = faults + 1

\* A call fails before it has an effect.
CallFails ==
    /\ Fault
    /\ \/ /\ poll.at \in {"intake", "pull", "files"}
          /\ poll' = Idle
          /\ UNCHANGED store_vars
       \/ /\ At("work")
          /\ EndAttempt(FailedStatus)
       \/ /\ poll.at \in {"head", "identity", "list", "live", "accept", "route", "move",
                          "moved", "comment", "create_comment"}
          /\ PublicationFails(FALSE)
       \/ /\ At("create")
          /\ IF HeadHolds(poll.key)
             THEN PublicationFails(FALSE)
             ELSE Supersede(poll.key) /\ poll' = Returned
    /\ UNCHANGED <<forge_vars, todo, moved, people_vars>>

\* A call has its effect, but its answer is lost.
AnswerLost ==
    /\ Fault
    /\ \/ /\ At("create")
          /\ reviews' = Submitted
          /\ IF HeadHolds(poll.key)
             THEN PublicationFails(FALSE)
             ELSE Supersede(poll.key) /\ poll' = Returned
          /\ UNCHANGED <<column, comments>>
       \/ /\ At("create_comment")
          /\ comments' = Commented
          /\ PublicationFails(FALSE)
          /\ UNCHANGED <<column, reviews>>
       \/ /\ At("move")
          /\ column' = RouteOf(poll.key)
          /\ PublicationFails(FALSE)
          /\ UNCHANGED <<reviews, comments>>
    /\ UNCHANGED <<pull, todo, moved, people_vars>>

\* The process dies; another one owns nothing until the leases have expired.
Crash ==
    /\ ~At("idle")
    /\ Fault
    /\ intents' = [i \in DOMAIN intents |->
           [intents[i] EXCEPT !.lease = IF @ = "own" THEN "old" ELSE @]]
    /\ poll' = Idle
    /\ todo' = {}
    /\ UNCHANGED <<stage, attempts, artifacts, forge_vars, moved, people_vars>>

\* The machine sleeps: the heartbeat misses, and the lease is over on waking.
Suspended ==
    /\ Fault
    /\ \E i \in DOMAIN intents :
        /\ Owns(i)
        /\ Write(i, "lease", "expired")
    /\ UNCHANGED <<stage, attempts, artifacts, forge_vars, poll_vars, moved, people_vars>>

\* What a dead process left behind runs out: the lease of its stage, or that of
\* a publication, each in its own time.
LeaseExpires ==
    /\ At("idle")
    /\ \/ /\ stage = "running"
          /\ stage' = "stale"
          /\ UNCHANGED intents
       \/ /\ \E i \in DOMAIN intents : intents[i].lease = "old" /\ Write(i, "lease", "expired")
          /\ UNCHANGED stage
    /\ UNCHANGED <<attempts, artifacts, forge_vars, poll_vars, moved, faults, people_vars>>

Edit(kind) == kind \in HumanEdits /\ edits < MaxEdits /\ edits' = edits + 1

PeopleChangePull ==
    /\ \/ Edit("push") /\ \E r \in Revisions \ {Live} : pull' = [pull EXCEPT !.rev = r]
       \/ Edit("close") /\ pull' = [pull EXCEPT !.open = ~@]
    /\ moved' = (moved \/ (~At("idle") /\ pull'.rev.head # pull.rev.head))
    /\ UNCHANGED <<store_vars, column, reviews, comments, poll_vars, faults, login>>

PeopleMoveIssue ==
    /\ Edit("column")
    /\ \E c \in Columns \ {column} : column' = c
    /\ UNCHANGED <<store_vars, pull, reviews, comments, poll_vars, moved, faults, login>>

PeopleDeleteComment ==
    /\ Edit("comment")
    /\ \E c \in DOMAIN comments : comments[c].live /\ comments' = [comments EXCEPT ![c].live = FALSE]
    /\ UNCHANGED <<store_vars, pull, column, reviews, poll_vars, moved, faults, login>>

\* "Return a blocked or conflict review publication intent to pending for
\* explicit operator recovery."
OperatorResets ==
    /\ Edit("reset")
    /\ \E i \in DOMAIN intents :
        /\ intents[i].status \in {"blocked", "conflict"}
        /\ intents' = [intents EXCEPT ![i].status = "pending", ![i].retries = 0,
                                      ![i].lease = "free"]
    /\ UNCHANGED <<stage, attempts, artifacts, forge_vars, poll_vars, moved, faults, login>>

\* The configuration, with its credential, is read between polls.
OperatorReloads ==
    /\ At("idle")
    /\ Edit("credential")
    /\ \E l \in Logins \ {login} : login' = l
    /\ UNCHANGED <<store_vars, forge_vars, poll_vars, moved, faults>>

----------------------------------------------------------------------------
Init ==
    /\ stage = "none"
    /\ attempts = <<>>
    /\ artifacts = <<>>
    /\ intents = <<>>
    /\ pull = [rev |-> AnyRevision, open |-> TRUE]
    /\ column = "trigger"
    /\ reviews = <<>>
    /\ comments = <<>>
    /\ login = "bot"
    /\ poll = Idle
    /\ todo = {}
    /\ moved = FALSE
    /\ faults = 0 /\ edits = 0

Reconciling == PollStarts \/ ResumePublication \/ PendingDone \/ CheckHead
Reviewing == TakeCandidate \/ SkipRevision \/ RecoverOrphan \/ PinRevision \/ ListFiles
               \/ Claim \/ StoreInputs \/ WorkerFails \/ WorkerOvertaken \/ WorkerReturns
               \/ StoreArtifact \/ IntendPublication
Submitting == Identify \/ ListReviews \/ CheckLive \/ CreateReview \/ AcceptReview
                \/ LosesLease \/ BindReview \/ RecordReview
HandingOn == LeaveIssue \/ ReadColumn \/ MoveIssue \/ VerifyMove \/ RecordRoute \/ RecordFinal
Previewing == UpdateComment \/ LetsGo \/ ClearComment \/ FindComment \/ CreateComment
                \/ BindComment \/ CompletePreview
Symphony == Reconciling \/ Reviewing \/ Submitting \/ HandingOn \/ Previewing
Faults == CallFails \/ AnswerLost \/ Crash \/ Suspended
People == PeopleChangePull \/ PeopleMoveIssue \/ PeopleDeleteComment \/ OperatorResets
            \/ OperatorReloads
Next == Symphony \/ LeaseExpires \/ Faults \/ People

Spec == Init /\ [][Next]_vars

\* The poll loop keeps running, every call it makes returns, and time passes
\* between polls.
FairSpec == Spec /\ WF_vars(Symphony) /\ SF_vars(LeaseExpires)

----------------------------------------------------------------------------
(* Properties *)

\* The shape of every variable.
TypeOK ==
    /\ stage \in {"none", "running", "stale"}
    /\ attempts \in Seq(Attempt)
    /\ artifacts \in Seq(Artifact)
    /\ intents \in Seq(Intent)
    /\ pull \in [rev : Revisions, open : BOOLEAN]
    /\ column \in Columns
    /\ reviews \in Seq(Review)
    /\ comments \in Seq(Comment)
    /\ login \in Logins
    /\ poll \in Poll
    /\ poll.key \in 0..Len(intents)
    /\ todo \subseteq DOMAIN intents
    /\ moved \in BOOLEAN
    /\ faults \in 0..MaxFaults /\ edits \in 0..MaxEdits

\* However often work is cut short, calls fail or answers are lost: a revision
\* is reviewed once, its findings are published under one intent, and an intent
\* has one formal review and one comment per credential (publish_formal,
\* upsert_owned_comment, get_orphaned_review_artifact).
WorkDoneOnce ==
    /\ \A a, b \in DOMAIN artifacts : artifacts[a].rev = artifacts[b].rev => a = b
    /\ \A i, j \in DOMAIN intents : intents[i].artifact = intents[j].artifact => i = j
    /\ \A r, s \in DOMAIN reviews : reviews[r].intent = reviews[s].intent => r = s
    /\ \A c, d \in DOMAIN comments :
        comments[c].live /\ comments[d].live /\ comments[c].intent = comments[d].intent
            /\ comments[c].login = comments[d].login => c = d

\* The issue is only moved for a publication whose review is on the pull
\* request, recorded, and about the head the poll saw live when it accepted the
\* review; what people push after that look is not seen (publish_formal,
\* apply_automatic_route).
HandoffAfterReview ==
    [][column' # column /\ edits' = edits =>
         /\ {"review_created", "findings_recorded"} \subseteq intents[poll.key].steps
         /\ \E r \in DOMAIN reviews : /\ intents[poll.key].review = r
                                      /\ reviews[r].intent = poll.key
                                      /\ reviews[r].login = intents[poll.key].login
         /\ pull.rev.head = HeadOf(poll.key) \/ moved]_vars

\* A publication that was begun is eventually applied or given up, whoever held
\* its lease before, unless a person has taken the issue off the board or out of
\* the column it is to be moved from (reconcile_pending_publications).
PublicationsSettle ==
    \A i \in 1..Cardinality(Revisions) :
        i \in Pending ~>
            \/ i \notin Pending
            \/ intents[i].kind = "automatic" /\ column \notin {"trigger", RouteOf(i)}

\* "Interrupted attempts count as failed work so repeated crashes cannot reclaim
\* the same revision pair indefinitely" (count_review_attempt_failures_for_head).
CrashesAreCounted ==
    \A r \in Revisions :
        Cardinality({n \in DOMAIN attempts : attempts[n].rev = r}) <= MaxAttempts

=============================================================================
