--------------------------- MODULE VerificationStage ---------------------------
(***************************************************************************)
(* The verification stage for one draft pull request                       *)
(* (verification/coordinator.rs, executor.rs, gate.rs, publisher.rs and    *)
(* the verification tables of triage/store.rs).                            *)
(*                                                                         *)
(* A poll first recovers attempts a dead process left running: it stops    *)
(* their commands and verifiers.  Then it verifies the reviewed revision   *)
(* of the pull request: the configured commands run one after the other in *)
(* a workspace of their own, each held behind a barrier until its identity *)
(* is recorded; a verifier judges the acceptance criteria; the gate is     *)
(* computed and shown in one comment per head.  Commands may survive their *)
(* termination, calls fail, the process dies between any two steps, and    *)
(* people push meanwhile.                                                  *)
(***************************************************************************)
EXTENDS Integers, Sequences, FiniteSets, FiniteSetsExt, SequencesExt

CONSTANTS
    Revisions,       \* heads and bases the pull request may have
    Commands,        \* how many commands are configured
    MaxAttempts,     \* verification.max_attempts, per revision
    MaxReprompts,    \* verification.max_reprompts
    MaxFaults,       \* bound: crashes, failed calls, commands that survive
    MaxEdits         \* bound: changes people make

ASSUME VerificationAssumption ==
    /\ Revisions \subseteq [head : Nat, base : Nat] /\ Revisions # {}
    /\ Commands \in Nat \ {0}
    /\ MaxAttempts \in Nat \ {0} /\ MaxReprompts \in Nat
    /\ MaxFaults \in Nat /\ MaxEdits \in Nat

VARIABLES
    attempts,        \* rows of stage_runs and verification_attempts, oldest first
    intents,         \* rows of verification_publication_intents, oldest first
    comments,        \* comments on the pull request that carry a marker
    pull,            \* the pull request: its revision, is it open?
    reviewed,        \* revisions whose review is applied, and routed to this stage
    column,          \* is the issue in the trigger column?
    poll,            \* where the poll is
    todo,            \* candidates the poll has still to look at
    faults, edits    \* how many there were

store_vars == <<attempts, intents>>
forge_vars == <<comments, pull, reviewed, column>>
poll_vars == <<poll, todo>>
vars == <<store_vars, forge_vars, poll_vars, faults, edits>>

AnyRevision == CHOOSE r \in Revisions : TRUE
Heads == {r.head : r \in Revisions}

\* A command run: its row, and the process or container behind it.
Run ==
    [status : {"launching", "running", "completed", "failed", "interrupted", "not_run"},
     named : BOOLEAN, payload : {"none", "held", "live", "gone"}]
\* The process of the verifier and the identity on record: "unnamed" is alive with
\* no identity, "misnamed" alive with that of an earlier invocation.
Verifier == {"none", "unnamed", "misnamed", "live", "gone"}
Attempt ==
    [rev : Revisions, stage : {"running", "completed", "failed", "interrupted"},
     status : {"none", "running", "completed", "failed", "blocked", "interrupted", "superseded"},
     runs : Seq(Run), verifier : Verifier,
     gate : {"none", "passed", "failed"}]
Intent == [attempt : DOMAIN attempts, status : {"pending", "applied"}]
Comment == [head : Heads, attempt : DOMAIN attempts]

Recovering == {"recover", "stop_commands", "stop_verifier", "interrupt"}
Executing == {"launch", "skip", "spawn", "name", "release", "command", "record"}
Judging == {"evidence", "verify", "identify", "verifying", "gate"}
Looks == {"after_commands", "after_verifier", "before_publication"}
Publishing == {"intent", "find", "write", "apply", "complete", "finish"}
Poll ==
    [at : {"idle", "intake", "candidate", "claim", "inputs", "workspace"}
              \cup Recovering \cup Executing \cup Judging \cup Looks \cup Publishing,
     rev : Revisions, key : 0..Len(attempts), command : 0..(Commands + 1),
     ok : BOOLEAN, proven : BOOLEAN, turn : 0..MaxReprompts]

Idle == [at |-> "idle", rev |-> AnyRevision, key |-> 0, command |-> 0,
         ok |-> TRUE, proven |-> FALSE, turn |-> 0]

----------------------------------------------------------------------------
(* The store *)

At(phase) == poll.at = phase
Goto(phase) == poll' = [poll EXCEPT !.at = phase]

Live == pull.rev
Mine == attempts[poll.key]
MyRun == Mine.runs[poll.command]

Running == {a \in DOMAIN attempts : attempts[a].status = "running"}
Of(r) == {a \in DOMAIN attempts : attempts[a].rev = r}
Pinned == \E a \in DOMAIN attempts : attempts[a].stage = "running"

\* Attempts that count against the budget of a revision.
Charged(r) == {a \in Of(r) : attempts[a].status \in {"failed", "interrupted", "blocked"}}

\* Faulty: a revision that has its verdict is verified again.
EligibleAgain == {r \in reviewed : ~Pinned /\ Cardinality(Charged(r)) < MaxAttempts}

\* list_a5_eligible_verification_runs
Eligible ==
    {r \in reviewed : /\ ~Pinned
                      /\ \A a \in Of(r) : attempts[a].stage # "completed"
                      /\ Cardinality(Charged(r)) < MaxAttempts}

SetRun(a, c, run) == attempts' = [attempts EXCEPT ![a].runs[c] = run]
SetMyRun(run) == SetRun(poll.key, poll.command, run)

NextCandidate == [Idle EXCEPT !.at = "candidate"]

\* Something whose identity is on record is alive; anything at all is.
RecordedSurvives(at) ==
    \/ at.verifier = "live"
    \/ \E c \in DOMAIN at.runs : at.runs[c].payload = "live"

Survives(at) == at.verifier \in {"unnamed", "misnamed"} \/ RecordedSurvives(at)

\* The runs of an attempt that is over are never read again: they are left out
\* of the state, unless something of it survives.
Settled(at) ==
    IF at.status \in {"none", "running"} \/ Survives(at) THEN at
    ELSE [at EXCEPT !.runs = <<>>, !.verifier = "none"]

\* An attempt that is over; a stage that has ended already is left as it is.
Over(at, stage, status) ==
    Settled([at EXCEPT !.stage = IF @ = "running" THEN stage ELSE @, !.status = status])

EndAttempt(stage, status) ==
    /\ attempts' = [attempts EXCEPT ![poll.key] = Over(@, stage, status)]
    /\ poll' = NextCandidate
    /\ UNCHANGED intents

Blocked == EndAttempt("failed", "blocked")
Fails == EndAttempt("failed", "failed")
Supersede == EndAttempt("interrupted", "superseded")

Fault == faults < MaxFaults /\ faults' = faults + 1

----------------------------------------------------------------------------
(* Recovery of attempts that were running when the process stopped *)

PollStarts ==
    /\ At("idle")
    /\ poll' = [Idle EXCEPT !.at = "recover"]
    /\ todo' = {}
    /\ UNCHANGED <<store_vars, forge_vars, faults, edits>>

RecoverNext ==
    /\ At("recover")
    /\ LET left == {a \in Running : a > poll.key} IN
       \/ /\ left # {}
          /\ poll' = [Idle EXCEPT !.at = "stop_commands", !.key = Min(left), !.command = 1]
       \/ /\ left = {}
          /\ poll' \in {Idle, [Idle EXCEPT !.at = "intake"]}   \* is the stage enabled?
    /\ UNCHANGED <<store_vars, forge_vars, todo, faults, edits>>

\* How the termination of a command may turn out.  One that has ended before
\* is not known to be gone: its process cannot be signalled any more, which
\* proves nothing, and its container may be found stopped or not be found.
Terminates(was, is, verified) ==
    \/ was = "live" /\ is = "gone" /\ verified /\ UNCHANGED faults
    \/ was = "live" /\ is = "live" /\ ~verified /\ Fault
    \/ was = "gone" /\ is = "gone" /\ UNCHANGED faults

\* A run that never had its identity recorded was never released.
StopCommand ==
    /\ At("stop_commands")
    /\ poll.command <= Len(Mine.runs)
    /\ \/ /\ MyRun.status \notin {"launching", "running"}
          /\ poll' = [poll EXCEPT !.command = @ + 1]
          /\ UNCHANGED <<attempts, faults>>
       \/ /\ MyRun.status \in {"launching", "running"}
          /\ \E is \in {MyRun.payload, "gone"}, verified \in BOOLEAN :
              /\ IF MyRun.named
                 THEN Terminates(MyRun.payload, is, verified)
                 ELSE is = MyRun.payload /\ verified /\ UNCHANGED faults
              /\ SetMyRun([MyRun EXCEPT !.status = "interrupted", !.payload = is])
              /\ poll' = [poll EXCEPT !.command = @ + 1, !.ok = @ /\ verified]
    /\ UNCHANGED <<intents, forge_vars, todo, edits>>

CommandsStopped ==
    /\ At("stop_commands")
    /\ poll.command > Len(Mine.runs)
    /\ Goto(IF poll.ok /\ Mine.verifier \notin {"none", "unnamed"}
            THEN "stop_verifier" ELSE "interrupt")
    /\ UNCHANGED <<store_vars, forge_vars, todo, faults, edits>>

\* Only the identity on record can be signalled.
StopVerifier ==
    /\ At("stop_verifier")
    /\ \E is \in {Mine.verifier, "gone"}, verified \in BOOLEAN :
        /\ IF Mine.verifier = "live"
           THEN Terminates("live", is, verified)
           ELSE is = Mine.verifier /\ ~verified /\ UNCHANGED faults
        /\ attempts' = [attempts EXCEPT ![poll.key].verifier = is]
        /\ poll' = [poll EXCEPT !.at = "interrupt", !.ok = verified]
    /\ UNCHANGED <<intents, forge_vars, todo, edits>>

\* "The attempt stays RUNNING" unless termination was verified.
InterruptAttempt ==
    /\ At("interrupt")
    /\ IF poll.ok
       THEN attempts' = [attempts EXCEPT ![poll.key] = Over(@, "interrupted", "interrupted")]
       ELSE UNCHANGED attempts
    /\ Goto("recover")
    /\ UNCHANGED <<intents, forge_vars, todo, faults, edits>>

----------------------------------------------------------------------------
(* The candidate and its attempt *)

TakeCandidates ==
    /\ At("intake")
    /\ IF column = "trigger"
       THEN poll' = NextCandidate /\ todo' = Eligible
       ELSE poll' = Idle /\ UNCHANGED todo
    /\ UNCHANGED <<store_vars, forge_vars, faults, edits>>

LookAtCandidate ==
    /\ At("candidate")
    /\ \/ todo = {} /\ poll' = Idle /\ UNCHANGED todo
       \/ \E r \in todo :
          /\ todo' = todo \ {r}
          /\ poll' = IF pull.open /\ Live = r
                     THEN [poll EXCEPT !.at = "claim", !.rev = r] ELSE poll
    /\ UNCHANGED <<store_vars, forge_vars, faults, edits>>

Claim ==
    /\ At("claim")
    /\ attempts' = Append(attempts,
           [rev |-> poll.rev, stage |-> "running", status |-> "none",
            runs |-> <<>>, verifier |-> "none", gate |-> "none"])
    /\ poll' = [poll EXCEPT !.at = "inputs", !.key = Len(attempts) + 1]
    /\ UNCHANGED <<intents, forge_vars, todo, faults, edits>>

StoreInputs ==
    /\ At("inputs")
    /\ attempts' = [attempts EXCEPT ![poll.key].status = "running"]
    /\ Goto("workspace")
    /\ UNCHANGED <<intents, forge_vars, todo, faults, edits>>

\* The head is fetched and must be the reviewed one.
PrepareWorkspace ==
    /\ At("workspace")
    /\ IF Live.head = poll.rev.head
       THEN poll' = [poll EXCEPT !.at = "launch", !.command = 1] /\ UNCHANGED store_vars
       ELSE Fails
    /\ UNCHANGED <<forge_vars, todo, faults, edits>>

----------------------------------------------------------------------------
(* The commands: run_commands, execute_command *)

\* A row is written before anything is spawned; after a failure the rest is not run.
RecordLaunch ==
    /\ At("launch")
    /\ poll.command <= Commands
    /\ attempts' = [attempts EXCEPT ![poll.key].runs =
           Append(@, [status |-> "launching", named |-> FALSE, payload |-> "none"])]
    /\ Goto(IF poll.ok THEN "spawn" ELSE "skip")
    /\ UNCHANGED <<intents, forge_vars, todo, faults, edits>>

NextCommand(ok) == poll' = [poll EXCEPT !.at = "launch", !.command = @ + 1, !.ok = ok]

SkipCommand ==
    /\ At("skip")
    /\ SetMyRun([MyRun EXCEPT !.status = "not_run"])
    /\ NextCommand(FALSE)
    /\ UNCHANGED <<intents, forge_vars, todo, faults, edits>>

\* The supervisor waits for its pipe, the container for its start.
Spawn ==
    /\ At("spawn")
    /\ \/ /\ SetMyRun([MyRun EXCEPT !.payload = "held"])
          /\ Goto("name")
          /\ UNCHANGED faults
       \/ /\ Fault
          /\ SetMyRun([MyRun EXCEPT !.status = "interrupted"])
          /\ NextCommand(FALSE)
    /\ UNCHANGED <<intents, forge_vars, todo, edits>>

RecordIdentity ==
    /\ At("name")
    /\ SetMyRun([MyRun EXCEPT !.named = TRUE, !.status = "running"])
    /\ Goto("release")
    /\ UNCHANGED <<intents, forge_vars, todo, faults, edits>>

Release ==
    /\ At("release")
    /\ SetMyRun([MyRun EXCEPT !.payload = "live"])
    /\ Goto("command")
    /\ UNCHANGED <<intents, forge_vars, todo, faults, edits>>

CommandEnds ==
    /\ At("command")
    /\ MyRun.payload = "gone"
    /\ \E passed \in BOOLEAN : poll' = [poll EXCEPT !.at = "record", !.ok = passed]
    /\ UNCHANGED <<store_vars, forge_vars, todo, faults, edits>>

RecordCommand ==
    /\ At("record")
    /\ SetMyRun([MyRun EXCEPT !.status = IF poll.ok THEN "completed" ELSE "failed"])
    /\ NextCommand(poll.ok)
    /\ UNCHANGED <<intents, forge_vars, todo, faults, edits>>

\* A container that is not started is removed, and was never live.
StartFails ==
    /\ At("release")
    /\ Fault
    /\ SetMyRun([MyRun EXCEPT !.status = "interrupted", !.payload = "gone"])
    /\ NextCommand(FALSE)
    /\ UNCHANGED <<intents, forge_vars, todo, edits>>

\* Waiting for the command or reading its output fails: it is killed, whether
\* that succeeds or not, and its row reads as if it had not been launched.  So it
\* does for a command that ends with the exit code of a barrier that was closed.
WaitFails ==
    /\ At("command")
    /\ Fault
    /\ \E is \in {MyRun.payload, "gone"} :
        SetMyRun([MyRun EXCEPT !.status = "interrupted", !.payload = is])
    /\ NextCommand(FALSE)
    /\ UNCHANGED <<intents, forge_vars, todo, edits>>

\* A command that takes too long is stopped; one whose termination cannot be
\* verified ends the attempt, and "cleanup must wait for recovery".
CommandTimesOut ==
    /\ At("command")
    /\ MyRun.payload = "live"
    /\ \/ /\ SetMyRun([MyRun EXCEPT !.status = "interrupted", !.payload = "gone"])
          /\ NextCommand(FALSE)
          /\ UNCHANGED <<intents, faults>>
       \/ /\ Fault
          /\ \E is \in {"live", "gone"} :
              attempts' = [attempts EXCEPT ![poll.key] = Over(
                  [@ EXCEPT !.runs[poll.command].status = "interrupted",
                            !.runs[poll.command].payload = is], "failed", "failed")]
          /\ poll' = NextCandidate
          /\ UNCHANGED intents
    /\ UNCHANGED <<forge_vars, todo, edits>>

\* Commands must have left the commit and the tracked files as they were.
CheckWorkspace ==
    /\ At("launch")
    /\ poll.command > Commands
    /\ \/ Goto("after_commands") /\ UNCHANGED store_vars
       \/ Blocked
    /\ UNCHANGED <<forge_vars, todo, faults, edits>>

----------------------------------------------------------------------------
(* The verifier and the gate *)

Following == [l \in Looks |-> CASE l = "after_commands" -> "evidence"
                                [] l = "after_verifier" -> "gate"
                                [] l = "before_publication" -> "intent"]

\* revision_changed: "any change supersedes the attempt without publishing".
LookAtRevision ==
    /\ poll.at \in Looks
    /\ IF Live = poll.rev
       THEN Goto(Following[poll.at]) /\ UNCHANGED store_vars
       ELSE Supersede
    /\ UNCHANGED <<forge_vars, todo, faults, edits>>

CollectEvidence ==
    /\ At("evidence")
    /\ \/ Goto("verify") /\ UNCHANGED store_vars
       \/ Blocked
    /\ UNCHANGED <<forge_vars, todo, faults, edits>>

\* The verifier runs at once: nothing holds it until it is on record.
SpawnVerifier ==
    /\ At("verify")
    /\ attempts' = [attempts EXCEPT ![poll.key].verifier =
                        IF @ = "none" THEN "unnamed" ELSE "misnamed"]
    /\ Goto("identify")
    /\ UNCHANGED <<intents, forge_vars, todo, faults, edits>>

\* The sink stores the identity, also of a process that has ended meanwhile.
RecordVerifier ==
    /\ At("identify")
    /\ attempts' = [attempts EXCEPT ![poll.key].verifier =
                        IF @ \in {"unnamed", "misnamed"} THEN "live" ELSE "gone"]
    /\ Goto("verifying")
    /\ UNCHANGED <<intents, forge_vars, todo, faults, edits>>

\* Faulty: the first invocation is not counted.
AskedTooOften == poll.turn <= MaxReprompts
AskedAgain == poll.turn < MaxReprompts

\* A verifier that fails, or whose manifest is not valid, is asked again.
VerifierReturns ==
    /\ At("verifying")
    /\ Mine.verifier = "gone"
    /\ \/ /\ \E proven \in BOOLEAN :
               poll' = [poll EXCEPT !.at = "after_verifier", !.proven = proven]
          /\ UNCHANGED store_vars
       \/ /\ AskedAgain
          /\ poll' = [poll EXCEPT !.at = "verify", !.turn = @ + 1]
          /\ UNCHANGED store_vars
       \/ ~AskedAgain /\ Blocked
    /\ UNCHANGED <<forge_vars, todo, faults, edits>>

\* compute_gate: every command of the attempt completed, every criterion proven.
Passes(a) ==
    /\ poll.proven
    /\ Len(attempts[a].runs) = Commands
    /\ \A c \in 1..Commands : attempts[a].runs[c].status = "completed"

StoreGate ==
    /\ At("gate")
    /\ attempts' = [attempts EXCEPT ![poll.key].gate =
                        IF Passes(poll.key) THEN "passed" ELSE "failed"]
    /\ Goto("before_publication")
    /\ UNCHANGED <<intents, forge_vars, todo, faults, edits>>

----------------------------------------------------------------------------
(* Publishing the verdict *)

Pending == {i \in DOMAIN intents : intents[i].status = "pending"}

\* A pending intent of an earlier attempt is used again.
IntendPublication ==
    /\ At("intent")
    /\ intents' = IF Pending # {} THEN intents
                  ELSE Append(intents, [attempt |-> poll.key, status |-> "pending"])
    /\ Goto("find")
    /\ UNCHANGED <<attempts, forge_vars, todo, faults, edits>>

\* Comments that carry the marker: of this run and head.
Marked == {c \in DOMAIN comments : comments[c].head = poll.rev.head}

\* The comments are listed, then one is created or updated.
FindComment ==
    /\ At("find")
    /\ Goto("write")
    /\ UNCHANGED <<store_vars, forge_vars, todo, faults, edits>>

Shown == [head |-> poll.rev.head, attempt |-> poll.key]

ShowVerdict ==
    comments' = IF Marked = {} THEN Append(comments, Shown)
                ELSE [comments EXCEPT ![Min(Marked)] = Shown]

WriteComment ==
    /\ At("write")
    /\ ShowVerdict
    /\ Goto("apply")
    /\ UNCHANGED <<store_vars, pull, reviewed, column, todo, faults, edits>>

ApplyIntent ==
    /\ At("apply")
    /\ intents' = [intents EXCEPT ![Min(Pending)].status = "applied"]
    /\ Goto("complete")
    /\ UNCHANGED <<attempts, forge_vars, todo, faults, edits>>

CompleteStage ==
    /\ At("complete")
    /\ attempts' = [attempts EXCEPT ![poll.key].stage = "completed"]
    /\ Goto("finish")
    /\ UNCHANGED <<intents, forge_vars, todo, faults, edits>>

CompleteAttempt ==
    /\ At("finish")
    /\ EndAttempt("completed", "completed")
    /\ UNCHANGED <<forge_vars, todo, faults, edits>>

----------------------------------------------------------------------------
(* Faults, time and people *)

\* A call fails before it has an effect.
CallFails ==
    /\ Fault
    /\ \/ /\ At("intake")
          /\ poll' = Idle
          /\ UNCHANGED <<store_vars, todo>>
       \/ /\ At("candidate")
          /\ \E r \in todo : todo' = todo \ {r}
          /\ UNCHANGED <<store_vars, poll>>
       \/ /\ poll.at \in {"workspace", "find", "write"} \cup Looks
          /\ Fails
          /\ UNCHANGED todo
    /\ UNCHANGED <<forge_vars, edits>>

\* The comment is written, but the answer is lost.
AnswerLost ==
    /\ Fault
    /\ At("write")
    /\ ShowVerdict
    /\ Fails
    /\ UNCHANGED <<pull, reviewed, column, todo, edits>>

\* What waits behind a barrier ends with the process (a container that was created
\* is started by nobody else, and the next recovery removes it).
Dropped(run) == IF run.payload = "held" THEN [run EXCEPT !.payload = "gone"] ELSE run

\* The process dies: what has been released runs on.
Crash ==
    /\ ~At("idle")
    /\ Fault
    /\ poll' = Idle
    /\ todo' = {}
    /\ attempts' = [a \in DOMAIN attempts |->
           [attempts[a] EXCEPT !.runs = [c \in DOMAIN @ |-> Dropped(@[c])]]]
    /\ UNCHANGED <<intents, forge_vars, edits>>

\* A command or a verifier ends by itself.
WorkEnds ==
    /\ \E a \in DOMAIN attempts :
        \/ /\ attempts[a].verifier \in {"unnamed", "misnamed", "live"}
           /\ attempts' = [attempts EXCEPT ![a] = Settled([attempts[a] EXCEPT !.verifier =
                                  IF @ = "unnamed" THEN "none" ELSE "gone"])]
        \/ \E c \in DOMAIN attempts[a].runs :
           /\ attempts[a].runs[c].payload = "live"
           /\ attempts' = [attempts EXCEPT ![a] = Settled([@ EXCEPT !.runs[c].payload = "gone"])]
    /\ UNCHANGED <<intents, forge_vars, poll_vars, faults, edits>>

\* Nobody renews the lease of a stage: the polls of the other stages interrupt
\* it a minute after its claim, unless this poll is still at it.
LeaseLapses ==
    /\ At("idle")
    /\ \E a \in DOMAIN attempts :
        /\ attempts[a].stage = "running"
        /\ attempts' = [attempts EXCEPT ![a].stage = "interrupted"]
    /\ UNCHANGED <<intents, forge_vars, poll_vars, faults, edits>>

\* The review stage: the live revision has its review, routed to the trigger
\* state, and the issue its place.
ReviewApplied ==
    /\ Live \notin reviewed
    /\ reviewed' = reviewed \cup {Live}
    /\ column' = "trigger"
    /\ UNCHANGED <<store_vars, comments, pull, poll_vars, faults, edits>>

PeopleEdit ==
    /\ edits < MaxEdits
    /\ edits' = edits + 1
    /\ \/ /\ \E r \in Revisions \ {Live} : pull' = [pull EXCEPT !.rev = r]
          /\ UNCHANGED column
       \/ /\ pull' = [pull EXCEPT !.open = ~@]
          /\ UNCHANGED column
       \/ /\ column' \in {"trigger", "other"} \ {column}
          /\ UNCHANGED pull
    /\ UNCHANGED <<store_vars, comments, reviewed, poll_vars, faults>>

----------------------------------------------------------------------------
Init ==
    /\ attempts = <<>>
    /\ intents = <<>>
    /\ comments = <<>>
    /\ pull = [rev |-> AnyRevision, open |-> TRUE]
    /\ reviewed = {}
    /\ column = "other"
    /\ poll = Idle
    /\ todo = {}
    /\ faults = 0 /\ edits = 0

Recovery == PollStarts \/ RecoverNext \/ StopCommand \/ CommandsStopped \/ StopVerifier
              \/ InterruptAttempt
Claiming == TakeCandidates \/ LookAtCandidate \/ Claim \/ StoreInputs \/ PrepareWorkspace
Execution == RecordLaunch \/ SkipCommand \/ Spawn \/ RecordIdentity \/ Release \/ CommandEnds
               \/ RecordCommand \/ StartFails \/ WaitFails \/ CommandTimesOut \/ CheckWorkspace
Judgement == LookAtRevision \/ CollectEvidence \/ SpawnVerifier \/ RecordVerifier
               \/ VerifierReturns \/ StoreGate
Publication == IntendPublication \/ FindComment \/ WriteComment \/ ApplyIntent
                 \/ CompleteStage \/ CompleteAttempt
Symphony == Recovery \/ Claiming \/ Execution \/ Judgement \/ Publication
Environment == CallFails \/ AnswerLost \/ Crash \/ WorkEnds \/ LeaseLapses \/ ReviewApplied
                 \/ PeopleEdit
Next == Symphony \/ Environment

Spec == Init /\ [][Next]_vars

----------------------------------------------------------------------------
(* Properties *)

\* The shape of every variable.
TypeOK ==
    /\ attempts \in Seq(Attempt)
    /\ \A a \in DOMAIN attempts : Len(attempts[a].runs) <= Commands
    /\ intents \in Seq(Intent)
    /\ comments \in Seq(Comment)
    /\ pull \in [rev : Revisions, open : BOOLEAN]
    /\ reviewed \subseteq Revisions
    /\ column \in {"trigger", "other"}
    /\ poll \in Poll
    /\ todo \subseteq Revisions
    /\ faults \in 0..MaxFaults /\ edits \in 0..MaxEdits

\* "The payload must not run until the recorded identity proves the process is
\* ours to terminate": whatever is live is on record, through crashes on either
\* side of its release (execute_local, execute_docker).
BarrierHolds ==
    \A a \in DOMAIN attempts : \A c \in DOMAIN attempts[a].runs :
        attempts[a].runs[c].payload = "live" => attempts[a].runs[c].named

\* A revision gets one verdict, and "the failed gate stays in Verification
\* without auto-retry"; a gate is only green over commands that all completed;
\* a head has one comment, which shows the gate of an attempt at that head.
VerdictsStand ==
    /\ \A a, b \in DOMAIN attempts :
        /\ attempts[a].stage = "completed" /\ attempts[a].rev = attempts[b].rev
        => b <= a
    /\ \A a \in Running : attempts[a].gate = "passed" =>
        /\ Len(attempts[a].runs) = Commands
        /\ \A c \in 1..Commands : attempts[a].runs[c].status = "completed"
    /\ \A c, d \in DOMAIN comments : comments[c].head = comments[d].head => c = d
    /\ \A c \in DOMAIN comments :
        /\ attempts[comments[c].attempt].gate # "none"
        /\ attempts[comments[c].attempt].rev.head = comments[c].head

\* Nothing runs unrecorded, and verdicts stand.
VerificationSound == BarrierHolds /\ VerdictsStand

\* "The attempt stays RUNNING [...] and the next poll retries termination until it
\* is verified": an attempt is only interrupted when nothing of it that has its
\* identity on record is alive (recover_interrupted_attempts).
InterruptedAreGone ==
    \A a \in DOMAIN attempts :
        attempts[a].status = "interrupted" => ~RecordedSurvives(attempts[a])

=============================================================================
