------------------------- MODULE ImplementationProofs -------------------------
(* Safety of ImplementationStage for any number of attempts, cycles,        *)
(* retries, configurations, faults and edits.                               *)
EXTENDS ImplementationStage, SequenceTheorems, FiniteSetTheorems, WellFoundedInduction, TLAPS

\* The places where a poll has nothing under way, where it has taken a candidate,
\* where an attempt works, and where a publication is under way.
Resting == {"idle", "pending", "candidate"}
Taking == {"claim", "adopt"}
Implementing == {"implement", "validate", "repair", "gap", "store"}
Storing == {"diagnose", "bundle", "decide", "intend"}
Failing == {"refuse", "fail", "failed"}
Writing == Implementing \cup Storing \cup Failing
Pushes == {"branch", "push", "confirm"}
Pulls == {"pulls", "create", "mismatch", "store_pull"}
Hands == {"labels", "unlabel", "column", "observe"}
AutomaticOnly == {"drift", "record", "publish"} \cup Pushes \cup Pulls \cup Hands
Publication == {"comment", "bind", "complete"} \cup AutomaticOnly

\* The parts of the properties.
CommentsOnce == \A c, d \in Live : comments[c].intent = comments[d].intent => c = d
PullsOnce ==
    \A m, n \in DOMAIN pulls :
        /\ pulls[m].intent = pulls[n].intent /\ pulls[m].intent # 0
        /\ pulls[m].base = "kept" /\ pulls[n].base = "kept"
        => m = n
RunningOnce == \A m, n \in Running : m = n
AttemptsOf(r, m) == {n \in DOMAIN attempts : attempts[n].revision = r /\ attempts[n].mode = m}
BudgetKept == \A r \in Revisions, m \in Modes : Cardinality(AttemptsOf(r, m)) <= MaxAttempts
ImplementedOnce ==
    \A a, b \in DOMAIN artifacts :
        /\ artifacts[a].outcome = "completed" /\ artifacts[b].outcome = "completed"
        /\ artifacts[a].version = artifacts[b].version /\ artifacts[a].mode = artifacts[b].mode
        => a = b

\* Steps are recorded in their order; what each one comes after.
Before == [comment_pending |-> {}, branch_pushed |-> {"comment_pending"},
           pr_verified |-> {"comment_pending", "branch_pushed"},
           route_applied |-> {"comment_pending", "branch_pushed", "pr_verified"},
           comment_final |-> Steps \ {"comment_final"}]

\* An automatic publication that has not come to a conflict is the one of the
\* bundle, and the run is decided by it: pending until it is published.
BundleKept ==
    \A i \in DOMAIN intents :
        intents[i].kind = "automatic" /\ intents[i].status # "conflict" =>
            /\ bundle = intents[i].artifact
            /\ decision \notin {"none", "failed"}

\* Each publication is of an artifact of its own, and its steps are in order, the
\* pull request stored with the third.
IntentSound ==
    /\ \A i \in DOMAIN intents :
        /\ intents[i].artifact \in DOMAIN artifacts
        /\ \A s \in intents[i].steps : Before[s] \subseteq intents[i].steps
        /\ "pr_verified" \in intents[i].steps => artifacts[intents[i].artifact].draft # 0
        /\ LET draft == artifacts[intents[i].artifact].draft IN
           draft # 0 => draft \in DOMAIN pulls /\ pulls[draft].intent = i
    /\ \A i, j \in DOMAIN intents : intents[i].artifact = intents[j].artifact => i = j

\* Unless people have changed them, the branch is where the bundle's publication
\* pushed it, and there is at most its pull request, a draft on its base.
ForgeSound ==
    /\ \A n \in DOMAIN pulls :
        pulls[n].intent # 0 =>
            pulls[n].intent \in DOMAIN intents /\ intents[pulls[n].intent].kind = "automatic"
    /\ ~touched =>
        /\ base_kept
        /\ branch \in {Absent, bundle}
        /\ branch # Absent => \E i \in DOMAIN intents : intents[i].kind = "automatic"
        /\ pulls # <<>> => branch # Absent
        /\ \A n \in DOMAIN pulls : pulls[n].open /\ pulls[n].draft /\ pulls[n].intent # 0
                                   /\ pulls[n].base = "kept"
        /\ \A m, n \in DOMAIN pulls : m = n

\* What is left to resume is due, and is not what the poll is at.
TodoPending == todo \subseteq Pending /\ poll.key \notin todo

\* A poll has an attempt of its own while it works, and a publication of its own
\* while it publishes, and knows where it is in them.
PollPlaced ==
    /\ poll.at \in Resting \cup Taking => poll.context = "none"
    /\ poll.at \in Writing => poll.context = "attempt"
    /\ poll.at \in Publication => poll.context # "none" /\ poll.key # 0
    /\ poll.at \notin Publication \cup {"fail", "failed"} => poll.key = 0
    /\ poll.at \in {"fail", "failed"} => poll.key = 0 \/ IntentOf.kind = "preview"
    /\ poll.at = "repair" => poll.number \in 1..(MaxCycles - 1)
    /\ poll.at = "adopt" \/ poll.context = "attempt" => attempts # <<>>

\* A candidate is free to be attempted until it is claimed, and implemented once;
\* what an attempt publishes is its last artifact; no other publication is open.
PollAttempts ==
    /\ poll.at = "claim" => Running = {} /\ Cardinality(Prior) < MaxAttempts
    /\ poll.at \in Taking => decision \in {"none", "failed"}
    /\ poll.at \in Taking \cup Implementing => ~Implemented
    /\ poll.context = "attempt" => \A i \in DOMAIN intents :
        intents[i].kind = "automatic" => i = poll.key \/ intents[i].status = "conflict"
    /\ poll.at \in Storing =>
        /\ artifacts # <<>> /\ artifacts[Len(artifacts)].draft = 0 /\ decision # "published"
        /\ \A i \in DOMAIN intents : intents[i].artifact < Len(artifacts)
    /\ poll.at \in {"decide", "intend"} => bundle = Len(artifacts)
    /\ poll.at = "intend" /\ poll.config.mode = "automatic" => decision = "pending"

\* A publication that is carried out is pending; an automatic one has recorded all
\* the steps before the place the poll is at.
PollPublishes ==
    poll.at \in Publication =>
        /\ IntentOf.status = "pending"
        /\ poll.at \in AutomaticOnly => Automatic
        /\ poll.at \in {"comment", "bind"} =>
            /\ poll.step \in Texts
            /\ Automatic => poll.step \in {"comment_pending", "comment_final"}
                            /\ Before[poll.step] \subseteq IntentOf.steps
        /\ poll.at = "record" =>
            /\ poll.step \in Steps /\ Before[poll.step] \subseteq IntentOf.steps
            /\ poll.step = "pr_verified" => Persisted # 0
        /\ poll.at \in Pushes => "comment_pending" \in IntentOf.steps
        /\ poll.at \in Pulls => "branch_pushed" \in IntentOf.steps
        /\ poll.at \in Pulls \ {"pulls"} => Persisted = 0
        /\ poll.at \in Hands => "pr_verified" \in IntentOf.steps
        /\ poll.at = "publish" => "comment_final" \in IntentOf.steps
        /\ poll.at = "complete" /\ Automatic =>
            "comment_final" \in IntentOf.steps /\ decision = "published"
        /\ poll.at = "create" =>
            \A n \in DOMAIN pulls : pulls[n].intent = poll.key => pulls[n].base # "kept"
        /\ poll.at = "store_pull" =>
            poll.number \in DOMAIN pulls /\ pulls[poll.number].intent = poll.key

PollSound == TodoPending /\ PollPlaced /\ PollAttempts /\ PollPublishes

IInv ==
    /\ TypeOK /\ CommentsOnce /\ PullsOnce /\ RunningOnce /\ BudgetKept /\ ImplementedOnce
    /\ AppliedMeansPublished /\ ConflictsAreHuman /\ BundleKept /\ IntentSound /\ ForgeSound
    /\ PollSound

\* The invariant by what its parts are about: the attempts, the other rows of the
\* store, the comments, branch and pull requests, what people change, and the poll.
AttemptsKept == attempts \in Seq(Attempt) /\ RunningOnce /\ BudgetKept
Rows ==
    /\ artifacts \in Seq(Artifact) /\ ImplementedOnce
    /\ decision \in Decisions /\ bundle \in 0..Len(artifacts)
    /\ intents \in Seq(Intent) /\ AppliedMeansPublished /\ BundleKept /\ IntentSound
CommentsKept == comments \in Seq(Comment) /\ CommentsOnce
ForgeKept ==
    /\ branch \in {Absent, Foreign} \cup DOMAIN artifacts /\ base_kept \in BOOLEAN
    /\ pulls \in Seq(Pull) /\ PullsOnce /\ ForgeSound /\ ConflictsAreHuman
World ==
    /\ approved \in [version : Nat, revision : Revisions]
    /\ issue \in [text : Revisions, approval_label : BOOLEAN, column : Columns]
    /\ touched \in BOOLEAN
    /\ faults \in 0..MaxFaults /\ edits \in 0..MaxEdits
PollShape ==
    /\ poll \in Poll /\ poll.key \in 0..Len(intents)
    /\ poll.at = "validate" => poll.number \in 1..MaxCycles
PollKept == PollShape /\ PollSound

----------------------------------------------------------------------------
(* Lemmas about sequences, extrema and the shapes of things *)

\* A sequence grows at its end.
LEMMA AppendIs ==
    ASSUME NEW S, NEW s \in Seq(S), NEW e \in S
    PROVE  /\ Append(s, e) \in Seq(S)
           /\ Len(s) \in Nat /\ DOMAIN s = 1..Len(s)
           /\ Len(Append(s, e)) = Len(s) + 1
           /\ DOMAIN Append(s, e) = 1..(Len(s) + 1)
           /\ \A i \in 1..Len(s) : Append(s, e)[i] = s[i]
           /\ Append(s, e)[Len(s) + 1] = e
  OBVIOUS

\* A nonempty set of natural numbers has its minimum among its elements.
LEMMA MinIsMember ==
    ASSUME NEW S \in SUBSET Nat, S # {}
    PROVE  Min(S) \in S /\ \A y \in S : Min(S) <= y
<1> DEFINE R == {ss \in Nat \X Nat : ss[1] < ss[2]}
<1>1. R = OpToRel(<, Nat)
  BY Zenon DEF OpToRel
<1>2. IsWellFoundedOn(R, Nat)
  BY <1>1, NatLessThanWellFounded, Zenon
<1>3. PICK x \in S : \A y \in S : <<y, x>> \notin R
  <2> HIDE DEF R
  <2> QED
    BY <1>2, WFMin, Zenon
<1>4. ASSUME NEW y \in S PROVE x <= y
  <2>1. /\ <<y, x>> \in Nat \X Nat /\ <<y, x>>[1] = y /\ <<y, x>>[2] = x
        /\ x \in Nat /\ y \in Nat
    OBVIOUS
  <2>2. ~(y < x)
    BY <1>3, <2>1, Zenon
  <2> HIDE DEF R
  <2> QED
    BY <2>1, <2>2
<1> QED
  BY <1>4 DEF Min

\* A set whose members are equal has one at most.
LEMMA AtMostOne ==
    ASSUME NEW S, \A x, y \in S : x = y
    PROVE  Cardinality(S) <= 1
<1>1. CASE S = {}
  BY <1>1, FS_EmptySet
<1>2. ASSUME NEW x \in S PROVE Cardinality(S) <= 1
  <2>1. S = {x}
    OBVIOUS
  <2>2. Cardinality(S) = 1
    BY <2>1, FS_Singleton
  <2> QED
    BY <2>2
<1> QED
  BY <1>1, <1>2

LEMMA Parts ==
    IInv <=> AttemptsKept /\ Rows /\ CommentsKept /\ ForgeKept /\ World /\ PollKept
  BY DEF IInv, TypeOK, AttemptsKept, Rows, CommentsKept, ForgeKept, World, PollKept, PollShape,
     PollSound, TodoPending, Pending

LEMMA StepKeeps ==
    ASSUME AttemptsKept', Rows', CommentsKept', ForgeKept', World', PollKept'
    PROVE  IInv'
<1> QED
  BY Parts, PTL

\* What is stored is numbered from one, and each row has its shape.
LEMMA Facts ==
    ASSUME IInv
    PROVE  /\ AttemptsKept /\ Rows /\ CommentsKept /\ ForgeKept /\ World /\ PollKept
           /\ PollShape /\ PollSound /\ TodoPending /\ PollPlaced /\ PollAttempts /\ PollPublishes
           /\ DOMAIN attempts = 1..Len(attempts) /\ Len(attempts) \in Nat
           /\ DOMAIN artifacts = 1..Len(artifacts) /\ Len(artifacts) \in Nat
           /\ \A a \in DOMAIN artifacts : artifacts[a] \in Artifact
           /\ DOMAIN intents = 1..Len(intents) /\ Len(intents) \in Nat
           /\ \A i \in DOMAIN intents : intents[i] \in Intent
           /\ DOMAIN comments = 1..Len(comments) /\ Len(comments) \in Nat
           /\ DOMAIN pulls = 1..Len(pulls) /\ Len(pulls) \in Nat
           /\ \A n \in DOMAIN pulls : pulls[n] \in Pull
           /\ poll \in Poll /\ poll.key \in Nat /\ poll.number \in Nat
           /\ poll.config \in Configurations /\ poll.config.mode \in Modes
<1>1. /\ AttemptsKept /\ Rows /\ CommentsKept /\ ForgeKept /\ World /\ PollKept
      /\ PollShape /\ PollSound /\ TodoPending /\ PollPlaced /\ PollAttempts /\ PollPublishes
  BY Parts DEF PollKept, PollSound
<1>2. /\ attempts \in Seq(Attempt) /\ artifacts \in Seq(Artifact) /\ intents \in Seq(Intent)
      /\ comments \in Seq(Comment) /\ pulls \in Seq(Pull)
  BY <1>1 DEF AttemptsKept, Rows, CommentsKept, ForgeKept
<1>3. poll \in Poll
  BY <1>1 DEF PollShape
<1>4. poll.key \in Nat /\ poll.number \in Nat /\ poll.config \in Configurations
  BY <1>3 DEF Poll
<1>5. poll.config.mode \in Modes
  BY <1>4, ImplementationAssumption
<1>6. /\ DOMAIN attempts = 1..Len(attempts) /\ Len(attempts) \in Nat
      /\ DOMAIN artifacts = 1..Len(artifacts) /\ Len(artifacts) \in Nat
      /\ DOMAIN intents = 1..Len(intents) /\ Len(intents) \in Nat
      /\ DOMAIN comments = 1..Len(comments) /\ Len(comments) \in Nat
      /\ DOMAIN pulls = 1..Len(pulls) /\ Len(pulls) \in Nat
  BY <1>2, LenProperties
<1>7. /\ \A a \in DOMAIN artifacts : artifacts[a] \in Artifact
      /\ \A i \in DOMAIN intents : intents[i] \in Intent
      /\ \A n \in DOMAIN pulls : pulls[n] \in Pull
  BY <1>2, <1>6, ElementOfSeq
<1> QED
  BY <1>1, <1>3, <1>4, <1>5, <1>6, <1>7

\* A poll that rests.
LEMMA IdleType ==
    /\ Idle \in Poll
    /\ Idle.at = "idle" /\ Idle.context = "none" /\ Idle.key = 0
<1>1. Idle.config \in Configurations
  BY ImplementationAssumption DEF Idle
<1>2. "idle" \in Places /\ "none" \in {"none"} \cup Texts
  BY DEF Places
<1>3. Idle.config = CHOOSE c \in Configurations : TRUE
  BY DEF Idle
<1>4. Idle \in Poll
  <2> DEFINE c == CHOOSE d \in Configurations : TRUE
  <2>1. c \in Configurations
    BY <1>1, <1>3
  <2>2. Idle = [at |-> "idle", context |-> "none", key |-> 0, config |-> c, step |-> "none",
                number |-> 0]
    BY DEF Idle
  <2> HIDE DEF c
  <2> QED
    BY <1>2, <2>1, <2>2 DEF Poll
<1> QED
  BY <1>4 DEF Idle

\* A poll changes its place, and perhaps its number or what it shows.
LEMMA GotoType ==
    ASSUME poll \in Poll, NEW p \in Places, Goto(p)
    PROVE  /\ poll' \in Poll /\ poll'.at = p /\ poll'.key = poll.key
           /\ poll'.context = poll.context /\ poll'.config = poll.config
           /\ poll'.step = poll.step /\ poll'.number = poll.number
  BY DEF Goto, Poll

LEMMA GotoWithType ==
    ASSUME poll \in Poll, NEW p \in Places, NEW n \in Nat, GotoWith(p, n)
    PROVE  /\ poll' \in Poll /\ poll'.at = p /\ poll'.key = poll.key
           /\ poll'.context = poll.context /\ poll'.config = poll.config
           /\ poll'.step = poll.step /\ poll'.number = n
  BY DEF GotoWith, Poll

LEMMA ShowType ==
    ASSUME poll \in Poll, NEW p \in Places, NEW s \in {"none"} \cup Texts,
           poll' = [poll EXCEPT !.at = p, !.step = s]
    PROVE  /\ poll' \in Poll /\ poll'.at = p /\ poll'.key = poll.key
           /\ poll'.context = poll.context /\ poll'.config = poll.config
           /\ poll'.step = s /\ poll'.number = poll.number
  BY DEF Poll

LEMMA RecordType ==
    ASSUME poll \in Poll, NEW s \in Steps, Record(s)
    PROVE  /\ poll' \in Poll /\ poll'.at = "record" /\ poll'.key = poll.key
           /\ poll'.context = poll.context /\ poll'.config = poll.config
           /\ poll'.step = s /\ poll'.number = 0
  BY DEF Record, Poll, Places, Texts

----------------------------------------------------------------------------
(* The kinds of step *)

\* Nothing but the poll changes.
LEMMA OnlyPoll ==
    ASSUME IInv, UNCHANGED <<store_vars, forge_vars, people_vars>>, faults' \in 0..MaxFaults
    PROVE  /\ AttemptsKept' /\ Rows' /\ CommentsKept' /\ ForgeKept' /\ World'
           /\ Pending' = Pending /\ UNCHANGED <<attempts, artifacts, decision, bundle, intents>>
           /\ UNCHANGED <<pulls, approved>>
           /\ Len(intents') \in Nat /\ DOMAIN intents' = 1..Len(intents')
<1>1. /\ UNCHANGED <<attempts, artifacts, decision, bundle, intents>>
      /\ UNCHANGED <<issue, comments, branch, base_kept, pulls>>
      /\ UNCHANGED <<approved, touched, edits>>
  BY DEF store_vars, forge_vars, people_vars
<1>2. AttemptsKept'
  BY <1>1, Facts DEF AttemptsKept, RunningOnce, Running, BudgetKept, AttemptsOf
<1>3. Rows'
  BY <1>1, Facts DEF Rows, ImplementedOnce, AppliedMeansPublished, BundleKept, IntentSound
<1>4. CommentsKept' /\ World'
  BY <1>1, Facts DEF CommentsKept, CommentsOnce, Live, World
<1>5. ForgeKept'
  BY <1>1, Facts DEF ForgeKept, PullsOnce, ForgeSound, ConflictsAreHuman
<1> QED
  BY <1>1, <1>2, <1>3, <1>4, <1>5, Facts DEF Pending

\* The poll rests.
LEMMA RestKept ==
    ASSUME poll' \in Poll, poll'.at \in Resting, poll'.context = "none", poll'.key = 0,
           todo' \subseteq Pending', Len(intents') \in Nat, DOMAIN intents' = 1..Len(intents')
    PROVE  PollKept'
<1>1. poll'.at \notin Taking \cup Writing \cup Publication
      /\ poll'.at \notin {"fail", "failed", "repair", "adopt", "claim", "validate", "decide", "intend"}
      /\ poll'.at \notin Implementing /\ poll'.at \notin Storing
  BY DEF Resting, Taking, Writing, Publication, Implementing, Storing, Failing, AutomaticOnly,
     Pushes, Pulls, Hands
<1>2. PollShape' /\ TodoPending'
  BY <1>1 DEF PollShape, TodoPending, Pending
<1>3. PollPlaced' /\ PollAttempts' /\ PollPublishes'
  BY <1>1 DEF PollPlaced, PollAttempts, PollPublishes
<1> QED
  BY <1>2, <1>3 DEF PollKept, PollSound

LEMMA RestStep ==
    ASSUME IInv, AttemptsKept', Rows', CommentsKept', ForgeKept', World',
           poll' \in Poll, poll'.at \in Resting, poll'.context = "none", poll'.key = 0,
           todo' \subseteq Pending', Len(intents') \in Nat, DOMAIN intents' = 1..Len(intents')
    PROVE  IInv'
  BY RestKept, StepKeeps

\* The poll rests at a place, with a configuration.
LEMMA RestType ==
    ASSUME NEW p \in Resting, NEW c \in Configurations
    PROVE  /\ [Idle EXCEPT !.at = p, !.config = c] \in Poll
           /\ [Idle EXCEPT !.at = p, !.config = c].at = p
           /\ [Idle EXCEPT !.at = p, !.config = c].context = "none"
           /\ [Idle EXCEPT !.at = p, !.config = c].key = 0
<1>1. p \in Places
  BY DEF Resting, Places
<1> QED
  BY <1>1, IdleType DEF Poll

LEMMA AfterType ==
    ASSUME poll \in Poll, poll' = AfterPublication
    PROVE  /\ poll' \in Poll /\ poll'.at \in Resting /\ poll'.context = "none" /\ poll'.key = 0
<1>1. poll.config \in Configurations
  BY DEF Poll
<1>2. "pending" \in Resting /\ "idle" \in Resting
  BY DEF Resting
<1>3. CASE poll.context = "resume"
  <2>1. poll' = [Idle EXCEPT !.at = "pending", !.config = poll.config]
    BY <1>3 DEF AfterPublication
  <2>2. /\ [Idle EXCEPT !.at = "pending", !.config = poll.config] \in Poll
        /\ [Idle EXCEPT !.at = "pending", !.config = poll.config].at = "pending"
        /\ [Idle EXCEPT !.at = "pending", !.config = poll.config].context = "none"
        /\ [Idle EXCEPT !.at = "pending", !.config = poll.config].key = 0
    BY <1>1, <1>2, RestType, Zenon
  <2> QED
    BY <1>2, <2>1, <2>2, Zenon
<1>4. CASE poll.context # "resume"
  BY <1>2, <1>4, IdleType DEF AfterPublication
<1> QED
  BY <1>3, <1>4

\* The poll is at an attempt, and at no publication.
LEMMA WorkKept ==
    ASSUME poll' \in Poll, poll'.at \in Taking \cup Writing, poll'.key \in 0..Len(intents'),
           todo' \subseteq Pending', poll'.key \notin todo', PollPlaced', PollAttempts',
           poll'.at = "validate" => poll'.number \in 1..MaxCycles
    PROVE  PollKept'
<1>1. poll'.at \notin Publication
  BY DEF Taking, Writing, Publication, Implementing, Storing, Failing, AutomaticOnly, Pushes,
     Pulls, Hands
<1>2. PollPublishes' /\ PollShape' /\ TodoPending'
  BY <1>1 DEF PollPublishes, PollShape, TodoPending
<1> QED
  BY <1>2 DEF PollKept, PollSound

\* What is known of a poll that is at no publication.
LEMMA AtWork ==
    ASSUME IInv, poll.at \in Resting \cup Taking \cup Writing
    PROVE  /\ poll.at \notin {"fail", "failed"} => poll.key = 0
           /\ poll.at \in Resting \cup Taking => poll.context = "none"
           /\ poll.at \in Writing => poll.context = "attempt"
           /\ todo \subseteq Pending /\ poll.key \notin todo /\ 0 \notin todo
           /\ poll.key \in 0..Len(intents)
<1>1. poll.at \notin Publication
  BY DEF Resting, Taking, Writing, Publication, Implementing, Storing, Failing, AutomaticOnly,
     Pushes, Pulls, Hands
<1>2. 0 \notin DOMAIN intents
  BY Facts
<1> QED
  BY <1>1, <1>2, Facts DEF PollPlaced, TodoPending, Pending, PollShape

\* What is known of a publication that is carried out.
LEMMA AtPublication ==
    ASSUME IInv, poll.at \in Publication
    PROVE  /\ poll.key \in DOMAIN intents /\ poll.key \in 1..Len(intents)
           /\ IntentOf = intents[poll.key] /\ IntentOf \in Intent
           /\ IntentOf.artifact \in DOMAIN artifacts /\ IntentOf.artifact \in 1..Len(artifacts)
           /\ ArtifactOf = artifacts[IntentOf.artifact] /\ ArtifactOf \in Artifact
           /\ Persisted = ArtifactOf.draft /\ Persisted \in Nat
           /\ IntentOf.status = "pending" /\ poll.context # "none"
           /\ Automatic => bundle = IntentOf.artifact /\ decision \notin {"none", "failed"}
           /\ todo \subseteq Pending /\ poll.key \notin todo
           /\ \A s \in IntentOf.steps : Before[s] \subseteq IntentOf.steps
           /\ "pr_verified" \in IntentOf.steps => Persisted # 0
           /\ Persisted # 0 => Persisted \in DOMAIN pulls /\ pulls[Persisted].intent = poll.key
<1>1. poll.key # 0 /\ poll.context # "none" /\ poll.key \in 0..Len(intents)
      /\ todo \subseteq Pending /\ poll.key \notin todo
  BY Facts DEF PollPlaced, PollShape, TodoPending
<1>2. poll.key \in DOMAIN intents /\ poll.key \in 1..Len(intents)
  BY <1>1, Facts
<1>3. IntentOf = intents[poll.key] /\ IntentOf \in Intent
  BY <1>2, Facts DEF IntentOf
<1>4. IntentSound /\ BundleKept
  BY Facts DEF Rows
<1>5. /\ IntentOf.artifact \in DOMAIN artifacts /\ IntentOf.artifact \in 1..Len(artifacts)
      /\ \A s \in IntentOf.steps : Before[s] \subseteq IntentOf.steps
      /\ "pr_verified" \in IntentOf.steps => artifacts[IntentOf.artifact].draft # 0
      /\ artifacts[IntentOf.artifact].draft # 0 =>
            /\ artifacts[IntentOf.artifact].draft \in DOMAIN pulls
            /\ pulls[artifacts[IntentOf.artifact].draft].intent = poll.key
  BY <1>2, <1>3, <1>4, Facts DEF IntentSound
<1>6. ArtifactOf = artifacts[IntentOf.artifact] /\ ArtifactOf \in Artifact
  BY <1>5, Facts DEF ArtifactOf
<1>7. Persisted = ArtifactOf.draft /\ Persisted \in Nat
  BY <1>6 DEF Persisted, Artifact
<1>8. IntentOf.status = "pending"
  BY Facts DEF PollPublishes
<1>9. Automatic => bundle = IntentOf.artifact /\ decision \notin {"none", "failed"}
  BY <1>2, <1>3, <1>4, <1>8 DEF Automatic, BundleKept
<1> QED
  BY <1>1, <1>2, <1>3, <1>5, <1>6, <1>7, <1>8, <1>9

\* The poll goes on with its publication.
LEMMA PublicationKept ==
    ASSUME IInv, poll.at \in Publication, poll' \in Poll, poll'.at \in Publication,
           poll'.key = poll.key, poll'.context = poll.context, UNCHANGED <<attempts, todo>>,
           DOMAIN intents' = DOMAIN intents, Len(intents') = Len(intents),
           \A i \in DOMAIN intents : i # poll.key => intents'[i] = intents[i],
           PollPublishes'
    PROVE  PollKept'
<1>1. PollShape /\ TodoPending /\ PollPlaced /\ PollAttempts
  BY Facts
<1>2. poll'.at \notin Resting \cup Taking \cup Writing
      /\ poll'.at \notin {"fail", "failed", "repair", "adopt", "claim", "validate", "decide", "intend"}
      /\ poll'.at \notin Implementing /\ poll'.at \notin Storing
  BY DEF Resting, Taking, Writing, Publication, Implementing, Storing, Failing, AutomaticOnly,
     Pushes, Pulls, Hands
<1>3. PollShape' /\ TodoPending'
  BY <1>1, <1>2 DEF PollShape, TodoPending, Pending
<1>4. PollPlaced'
  BY <1>1, <1>2 DEF PollPlaced
<1>5. PollAttempts'
  BY <1>1, <1>2 DEF PollAttempts
<1> QED
  BY <1>3, <1>4, <1>5 DEF PollKept, PollSound

----------------------------------------------------------------------------
(* The rows of the store that steps write *)

\* One publication changes: what it is about stays, its steps stay in order and
\* it does not leave a conflict.
LEMMA IntentWritten ==
    ASSUME IInv, NEW k \in DOMAIN intents, NEW x \in Intent,
           intents' = [intents EXCEPT ![k] = x], x.kind = intents[k].kind,
           x.artifact = intents[k].artifact, intents[k].steps \subseteq x.steps,
           \A s \in x.steps : Before[s] \subseteq x.steps,
           "pr_verified" \in x.steps => artifacts[x.artifact].draft # 0,
           x.kind = "automatic" /\ x.status = "applied" =>
               x.steps = Steps /\ decision = "published",
           intents[k].status = "conflict" => x.status = "conflict",
           x.status = "conflict" => intents[k].status = "conflict" \/ touched,
           UNCHANGED <<attempts, artifacts, decision, bundle, comments, branch, base_kept,
                       pulls, touched>>
    PROVE  /\ AttemptsKept' /\ Rows' /\ CommentsKept' /\ ForgeKept'
           /\ Len(intents') = Len(intents) /\ DOMAIN intents' = DOMAIN intents
           /\ Len(intents') \in Nat /\ DOMAIN intents' = 1..Len(intents')
           /\ intents'[k] = x /\ \A i \in DOMAIN intents : i # k => intents'[i] = intents[i]
<1>1. intents \in Seq(Intent) /\ k \in 1..Len(intents)
  BY Facts DEF Rows
<1>2. /\ intents' \in Seq(Intent) /\ Len(intents') = Len(intents)
      /\ DOMAIN intents' = DOMAIN intents /\ intents'[k] = x
      /\ \A i \in DOMAIN intents : i # k => intents'[i] = intents[i]
  <2>1. intents' \in Seq(Intent) /\ Len(intents') = Len(intents)
    BY <1>1, ExceptSeq
  <2> QED
    BY <2>1
<1>3. /\ ImplementedOnce /\ AppliedMeansPublished /\ BundleKept /\ IntentSound
      /\ ForgeSound /\ ConflictsAreHuman /\ PullsOnce
  BY Facts DEF Rows, ForgeKept
<1>4. AttemptsKept' /\ CommentsKept'
  BY Facts DEF AttemptsKept, RunningOnce, Running, BudgetKept, AttemptsOf, CommentsKept,
               CommentsOnce, Live
<1>5. \A i \in DOMAIN intents :
          /\ intents'[i].kind = intents[i].kind /\ intents'[i].artifact = intents[i].artifact
          /\ intents[i].steps \subseteq intents'[i].steps
          /\ intents[i].status = "conflict" => intents'[i].status = "conflict"
  <2>1. ASSUME NEW i \in DOMAIN intents
        PROVE  /\ intents'[i].kind = intents[i].kind
               /\ intents'[i].artifact = intents[i].artifact
               /\ intents[i].steps \subseteq intents'[i].steps
               /\ intents[i].status = "conflict" => intents'[i].status = "conflict"
    <3>1. CASE i = k
      BY <1>2, <3>1
    <3>2. CASE i # k
      BY <1>2, <3>2
    <3> QED
      BY <3>1, <3>2
  <2> QED
    BY <2>1
<1>6. AppliedMeansPublished'
  <2>1. \A i \in DOMAIN intents : intents[i] \in Intent
    BY Facts
  <2>2. ASSUME NEW i \in DOMAIN intents, intents'[i].kind = "automatic",
               intents'[i].status = "applied"
        PROVE  intents'[i].steps = Steps /\ decision' = "published"
    BY <1>2, <1>3, <2>2 DEF AppliedMeansPublished
  <2>3. ASSUME decision' = "published"
        PROVE  \E i \in DOMAIN intents' : /\ intents'[i].kind = "automatic"
                                          /\ intents'[i].steps = Steps
                                          /\ artifacts'[intents'[i].artifact].draft # 0
    <3>1. PICK i \in DOMAIN intents : /\ intents[i].kind = "automatic"
                                      /\ intents[i].steps = Steps
                                      /\ artifacts[intents[i].artifact].draft # 0
      BY <1>3, <2>3 DEF AppliedMeansPublished
    <3>2. intents'[i] \in Intent
      BY <1>2, <2>1
    <3>3. intents'[i].steps = Steps
      BY <1>5, <3>1, <3>2 DEF Intent
    <3> QED
      BY <1>2, <1>5, <3>1, <3>3
  <2> QED
    BY <1>2, <2>2, <2>3 DEF AppliedMeansPublished
<1>7. BundleKept'
  BY <1>2, <1>3, <1>5 DEF BundleKept
<1>8. IntentSound'
  BY <1>2, <1>3, <1>5 DEF IntentSound
<1>9. Rows'
  BY <1>2, <1>3, <1>6, <1>7, <1>8, Facts DEF Rows, ImplementedOnce
<1>10. ConflictsAreHuman'
  BY <1>2, <1>3 DEF ConflictsAreHuman
<1>11. ForgeSound'
  <2>1. ASSUME NEW n \in DOMAIN pulls, pulls[n].intent # 0
        PROVE  pulls[n].intent \in DOMAIN intents /\ intents'[pulls[n].intent].kind = "automatic"
    BY <1>3, <1>5, <2>1 DEF ForgeSound
  <2>2. (\E i \in DOMAIN intents : intents[i].kind = "automatic") =>
            \E i \in DOMAIN intents' : intents'[i].kind = "automatic"
    BY <1>2, <1>5
  <2> QED
    BY <1>2, <1>3, <2>1, <2>2 DEF ForgeSound
<1>12. ForgeKept'
  BY <1>3, <1>10, <1>11, Facts DEF ForgeKept, PullsOnce
<1> QED
  BY <1>2, <1>4, <1>9, <1>12, Facts

----------------------------------------------------------------------------
(* The parts that a step leaves alone *)

LEMMA AttemptsStay == ASSUME IInv, UNCHANGED attempts PROVE AttemptsKept'
  BY Facts DEF AttemptsKept, RunningOnce, Running, BudgetKept, AttemptsOf

LEMMA RowsStay ==
    ASSUME IInv, UNCHANGED <<artifacts, decision, bundle, intents>>,
           DOMAIN pulls \subseteq DOMAIN pulls',
           \A n \in DOMAIN pulls : pulls'[n].intent = pulls[n].intent
    PROVE  /\ Rows' /\ Pending' = Pending /\ DOMAIN artifacts' = DOMAIN artifacts
           /\ Len(intents') \in Nat /\ DOMAIN intents' = 1..Len(intents')
<1>1. artifacts' = artifacts /\ decision' = decision /\ bundle' = bundle /\ intents' = intents
  OBVIOUS
<1>2. Rows'
  <2>1. ImplementedOnce'
    BY <1>1, Facts DEF Rows, ImplementedOnce
  <2>2. AppliedMeansPublished'
    BY <1>1, Facts DEF Rows, AppliedMeansPublished
  <2>3. BundleKept'
    BY <1>1, Facts DEF Rows, BundleKept
  <2>4. IntentSound'
    BY <1>1, Facts DEF Rows, IntentSound
  <2> QED
    BY <1>1, <2>1, <2>2, <2>3, <2>4, Facts DEF Rows
<1> QED
  BY <1>1, <1>2, Facts DEF Pending

LEMMA CommentsStay == ASSUME IInv, UNCHANGED comments PROVE CommentsKept'
  BY Facts DEF CommentsKept, CommentsOnce, Live

LEMMA ForgeStays ==
    ASSUME IInv, UNCHANGED <<bundle, intents, branch, base_kept, pulls, touched>>,
           DOMAIN artifacts \subseteq DOMAIN artifacts'
    PROVE  ForgeKept'
  BY Facts DEF ForgeKept, PullsOnce, ForgeSound, ConflictsAreHuman

LEMMA WorldStays ==
    ASSUME IInv, UNCHANGED <<approved, issue, touched, edits, faults>>
    PROVE  World'
  BY Facts DEF World

\* Attempts keep what they are of, and none starts to run.
LEMMA AttemptsWritten ==
    ASSUME IInv, attempts' \in Seq(Attempt), DOMAIN attempts' = DOMAIN attempts,
           \A n \in DOMAIN attempts :
               /\ attempts'[n].revision = attempts[n].revision
               /\ attempts'[n].mode = attempts[n].mode
               /\ attempts'[n].status \in {"running", "lapsed"} =>
                      attempts[n].status \in {"running", "lapsed"}
    PROVE  AttemptsKept'
<1>1. RunningOnce /\ BudgetKept
  BY Facts DEF AttemptsKept
<1>2. Running' \subseteq Running
  BY DEF Running
<1>3. RunningOnce'
  BY <1>1, <1>2 DEF RunningOnce
<1>4. ASSUME NEW r \in Revisions, NEW m \in Modes
      PROVE  AttemptsOf(r, m)' = AttemptsOf(r, m)
  BY DEF AttemptsOf
<1>5. ASSUME NEW r \in Revisions, NEW m \in Modes
      PROVE  Cardinality(AttemptsOf(r, m)') <= MaxAttempts
  <2>1. Cardinality(AttemptsOf(r, m)) <= MaxAttempts
    BY <1>1 DEF BudgetKept
  <2> QED
    BY <1>4, <2>1
<1>6. BudgetKept'
  BY <1>5 DEF BudgetKept
<1> QED
  BY <1>3, <1>6 DEF AttemptsKept

\* The attempt under way ends.
LEMMA SetAttemptKeeps ==
    ASSUME IInv, attempts # <<>>, NEW s \in {"completed", "failed"}, SetAttempt(s)
    PROVE  AttemptsKept' /\ attempts' # <<>> /\ Running' = Running \ {Len(attempts)}
<1>1. attempts \in Seq(Attempt) /\ Len(attempts) \in DOMAIN attempts /\ Len(attempts) \in Nat
  BY Facts DEF AttemptsKept
<1> DEFINE last == attempts[Len(attempts)]
<1>2. last \in Attempt
  BY <1>1, ElementOfSeq, Facts
<1>3. [last EXCEPT !.status = s] \in Attempt
  BY <1>2 DEF Attempt
<1>4. attempts' = [attempts EXCEPT ![Len(attempts)] = [last EXCEPT !.status = s]]
  BY <1>1 DEF SetAttempt
<1> DEFINE e == [last EXCEPT !.status = s]
<1>5. e.revision = last.revision /\ e.mode = last.mode /\ e.status = s /\ e \in Attempt
  BY <1>2, <1>3 DEF Attempt
<1> HIDE DEF e, last
<1>6. attempts' \in Seq(Attempt) /\ Len(attempts') = Len(attempts)
  BY <1>1, <1>4, <1>5, ExceptSeq, Facts DEF e
<1>7. /\ DOMAIN attempts' = DOMAIN attempts /\ attempts'[Len(attempts)] = e
      /\ \A n \in DOMAIN attempts : n # Len(attempts) => attempts'[n] = attempts[n]
  BY <1>1, <1>4, <1>6, Facts DEF e
<1>8. AttemptsKept'
  <2>1. ASSUME NEW n \in DOMAIN attempts
        PROVE  /\ attempts'[n].revision = attempts[n].revision
               /\ attempts'[n].mode = attempts[n].mode
               /\ attempts'[n].status \in {"running", "lapsed"} =>
                      attempts[n].status \in {"running", "lapsed"}
    <3>1. CASE n = Len(attempts)
      BY <1>5, <1>7, <3>1 DEF last
    <3>2. CASE n # Len(attempts)
      BY <1>7, <3>2
    <3> QED
      BY <3>1, <3>2
  <2> QED
    BY <1>6, <1>7, <2>1, AttemptsWritten
<1>9. Running' = Running \ {Len(attempts)}
  <2>1. ASSUME NEW n \in DOMAIN attempts
        PROVE  n \in Running' <=> n \in Running /\ n # Len(attempts)
    <3>1. CASE n = Len(attempts)
      BY <1>5, <1>7, <3>1 DEF Running
    <3>2. CASE n # Len(attempts)
      BY <1>7, <3>2 DEF Running
    <3> QED
      BY <3>1, <3>2
  <2> QED
    BY <1>7, <2>1 DEF Running
<1> QED
  BY <1>1, <1>6, <1>8, <1>9

----------------------------------------------------------------------------
(* A poll: unfinished publications first *)

LEMMA PollStartsKeeps == ASSUME IInv, PollStarts PROVE IInv'
<1>1. /\ attempts' = Interrupted /\ todo' = Pending
      /\ UNCHANGED <<artifacts, decision, bundle, intents, issue, comments, branch, base_kept,
                     pulls, approved, touched, edits, faults>>
  BY DEF PollStarts, forge_vars, people_vars
<1>2. PICK c \in Configurations : poll' = [Idle EXCEPT !.at = "pending", !.config = c]
  BY Zenon DEF PollStarts
<1>3. attempts \in Seq(Attempt)
  BY Facts DEF AttemptsKept
<1>4. \A n \in DOMAIN attempts : attempts[n] \in Attempt
  BY <1>3, ElementOfSeq, Facts
<1>5. ASSUME NEW n \in DOMAIN attempts
      PROVE  /\ Interrupted[n] \in Attempt
             /\ Interrupted[n].revision = attempts[n].revision
             /\ Interrupted[n].mode = attempts[n].mode
             /\ Interrupted[n].status \in {"running", "lapsed"} =>
                    attempts[n].status \in {"running", "lapsed"}
  <2>1. CASE attempts[n].status = "lapsed"
    <3>1. Interrupted[n] = [attempts[n] EXCEPT !.status = "interrupted"]
      BY <2>1 DEF Interrupted
    <3> QED
      BY <1>4, <3>1 DEF Attempt
  <2>2. CASE attempts[n].status # "lapsed"
    <3>1. Interrupted[n] = attempts[n]
      BY <2>2 DEF Interrupted
    <3> QED
      BY <1>4, <3>1
  <2> QED
    BY <2>1, <2>2
<1>6. DOMAIN Interrupted = DOMAIN attempts
  BY DEF Interrupted
<1>7. Interrupted \in Seq(Attempt)
  <2>1. Interrupted = [n \in 1..Len(attempts) |-> Interrupted[n]]
    BY <1>6, Facts DEF Interrupted
  <2> QED
    BY <1>5, <2>1, Facts, IsASeq
<1>8. AttemptsKept'
  BY <1>1, <1>5, <1>6, <1>7, AttemptsWritten
<1>9. Rows' /\ CommentsKept' /\ ForgeKept' /\ World'
  BY <1>1, RowsStay, CommentsStay, ForgeStays, WorldStays
<1>10. "pending" \in Resting
  BY DEF Resting
<1>11. poll' \in Poll /\ poll'.at = "pending" /\ poll'.context = "none" /\ poll'.key = 0
  BY <1>2, <1>10, RestType, Zenon
<1>12. todo' \subseteq Pending' /\ Len(intents') \in Nat /\ DOMAIN intents' = 1..Len(intents')
  BY <1>1, RowsStay
<1> QED
  BY <1>8, <1>9, <1>10, <1>11, <1>12, RestStep

\* A publication is given a status and an error.
LEMMA ErrorSet ==
    ASSUME IInv, NEW k \in DOMAIN intents, intents[k].status = "pending",
           NEW s \in {"pending", "conflict", "blocked"}, NEW e \in Errors,
           SetError(k, s, e), s = "conflict" => touched,
           UNCHANGED <<attempts, artifacts, decision, bundle, comments, branch, base_kept,
                       pulls, touched>>
    PROVE  /\ AttemptsKept' /\ Rows' /\ CommentsKept' /\ ForgeKept'
           /\ Len(intents') \in Nat /\ DOMAIN intents' = 1..Len(intents')
           /\ Pending \ {k} \subseteq Pending'
<1> DEFINE x == [intents[k] EXCEPT !.status = s, !.error = e, !.retries = @ + 1, !.ripe = FALSE]
<1>1. intents[k] \in Intent
  BY Facts
<1>2. /\ x \in Intent /\ x.kind = intents[k].kind /\ x.artifact = intents[k].artifact
      /\ x.steps = intents[k].steps /\ x.status = s
  <2>1. x.retries = intents[k].retries + 1 /\ x.retries \in Nat
    BY <1>1 DEF Intent
  <2>2. s \in {"pending", "applied", "conflict", "blocked"}
    OBVIOUS
  <2>3. x \in Intent
    BY <1>1, <2>1, <2>2 DEF Intent
  <2> QED
    BY <1>1, <2>3 DEF Intent
<1>3. intents' = [intents EXCEPT ![k] = x]
  BY DEF SetError
<1>4. IntentSound
  BY Facts DEF Rows
<1>5. /\ \A t \in x.steps : Before[t] \subseteq x.steps
      /\ "pr_verified" \in x.steps => artifacts[x.artifact].draft # 0
  BY <1>2, <1>4 DEF IntentSound
<1> HIDE DEF x
<1>6. /\ AttemptsKept' /\ Rows' /\ CommentsKept' /\ ForgeKept'
      /\ DOMAIN intents' = DOMAIN intents
      /\ Len(intents') \in Nat /\ DOMAIN intents' = 1..Len(intents')
      /\ \A i \in DOMAIN intents : i # k => intents'[i] = intents[i]
  BY <1>2, <1>3, <1>5, IntentWritten
<1> QED
  BY <1>6 DEF Pending

LEMMA Resumed ==
    ASSUME IInv, NEW i \in DOMAIN intents, Resuming(i)
    PROVE  /\ i \in todo /\ i \in 1..Len(intents) /\ i \in Nat
           /\ intents[i].status = "pending" /\ intents[i] \in Intent
           /\ poll.at = "pending" /\ poll.key = 0 /\ poll.context = "none"
           /\ todo \subseteq Pending
<1>1. poll.at = "pending" /\ todo # {} /\ i = Min(todo)
  BY DEF Resuming
<1>2. poll.at \in Resting
  BY <1>1 DEF Resting
<1>3. poll.key = 0 /\ poll.context = "none" /\ todo \subseteq Pending
  BY <1>1, <1>2, AtWork
<1>4. todo \subseteq Nat
  BY <1>3, Facts DEF Pending
<1>5. i \in todo
  BY <1>1, <1>4, MinIsMember
<1> QED
  BY <1>1, <1>3, <1>5, Facts DEF Pending

LEMMA BlockExhaustedKeeps == ASSUME IInv, BlockExhausted PROVE IInv'
<1>1. PICK i \in DOMAIN intents : Resuming(i) /\ SetError(i, "blocked", "exhausted")
                                  /\ todo' = todo \ {i}
  BY DEF BlockExhausted
<1>2. UNCHANGED <<attempts, artifacts, decision, bundle, issue, comments, branch, base_kept,
                  pulls, poll, approved, touched, edits, faults>>
  BY DEF BlockExhausted, forge_vars, people_vars
<1>3. intents[i].status = "pending" /\ poll.at = "pending" /\ poll.key = 0
      /\ poll.context = "none" /\ todo \subseteq Pending
  BY <1>1, Resumed
<1>4. "exhausted" \in Errors
  BY DEF Errors
<1>5. /\ AttemptsKept' /\ Rows' /\ CommentsKept' /\ ForgeKept'
      /\ Len(intents') \in Nat /\ DOMAIN intents' = 1..Len(intents')
      /\ Pending \ {i} \subseteq Pending'
  BY <1>1, <1>2, <1>3, <1>4, ErrorSet
<1>6. World'
  BY <1>2, WorldStays
<1>7. poll' \in Poll /\ poll'.at \in Resting /\ poll'.context = "none" /\ poll'.key = 0
  BY <1>2, <1>3, Facts DEF Resting
<1>8. todo' \subseteq Pending'
  BY <1>1, <1>3, <1>5
<1> QED
  BY <1>5, <1>6, <1>7, <1>8, RestStep

LEMMA SkipPublicationKeeps == ASSUME IInv, SkipPublication PROVE IInv'
<1>1. PICK i \in DOMAIN intents : Resuming(i) /\ todo' = todo \ {i}
  BY DEF SkipPublication
<1>2. UNCHANGED <<store_vars, forge_vars, people_vars, poll, faults>>
  BY DEF SkipPublication
<1>3. poll.at = "pending" /\ poll.key = 0 /\ poll.context = "none" /\ todo \subseteq Pending
  BY <1>1, Resumed
<1>4. faults' \in 0..MaxFaults
  BY <1>2, Facts DEF World
<1>5. poll' \in Poll /\ poll'.at \in Resting /\ poll'.context = "none" /\ poll'.key = 0
  BY <1>2, <1>3, Facts DEF Resting
<1> QED
  BY <1>1, <1>2, <1>3, <1>4, <1>5, OnlyPoll, RestStep

LEMMA ResumePublicationKeeps == ASSUME IInv, ResumePublication PROVE IInv'
<1>1. PICK i \in DOMAIN intents :
        /\ Resuming(i) /\ todo' = todo \ {i}
        /\ \/ /\ intents[i].kind = "automatic"
              /\ poll' = [poll EXCEPT !.at = "drift", !.context = "resume", !.key = i]
           \/ /\ intents[i].kind = "preview"
              /\ poll' = [poll EXCEPT !.at = "comment", !.context = "resume",
                                      !.key = i, !.step = "preview"]
  BY Zenon DEF ResumePublication
<1>2. UNCHANGED <<store_vars, forge_vars, people_vars, faults>>
  BY DEF ResumePublication
<1>3. faults' \in 0..MaxFaults
  BY <1>2, Facts DEF World
<1>4. /\ i \in todo /\ i \in 1..Len(intents) /\ i \in Nat /\ i # 0
      /\ intents[i].status = "pending" /\ todo \subseteq Pending
  BY <1>1, Resumed
<1>5. /\ AttemptsKept' /\ Rows' /\ CommentsKept' /\ ForgeKept' /\ World'
      /\ Pending' = Pending /\ UNCHANGED intents /\ UNCHANGED artifacts
  BY <1>2, <1>3, OnlyPoll
<1>6. /\ poll' \in Poll /\ poll'.context = "resume" /\ poll'.key = i
      /\ \/ poll'.at = "drift" /\ intents[i].kind = "automatic"
         \/ poll'.at = "comment" /\ intents[i].kind = "preview" /\ poll'.step = "preview"
  <2>1. poll \in Poll /\ "drift" \in Places /\ "comment" \in Places /\ "preview" \in Texts
    BY Facts DEF Places, Texts
  <2>2. CASE poll' = [poll EXCEPT !.at = "drift", !.context = "resume", !.key = i]
             /\ intents[i].kind = "automatic"
    BY <1>4, <2>1, <2>2 DEF Poll
  <2>3. CASE poll' = [poll EXCEPT !.at = "comment", !.context = "resume",
                                  !.key = i, !.step = "preview"] /\ intents[i].kind = "preview"
    BY <1>4, <2>1, <2>3 DEF Poll
  <2> QED
    BY <1>1, <2>2, <2>3, Zenon
<1>7. IntentOf' = intents[i]
  BY <1>5, <1>6 DEF IntentOf
<1>8. poll'.at \in Publication
      /\ poll'.at \notin Resting \cup Taking \cup Writing
      /\ poll'.at \notin {"fail", "failed", "repair", "adopt", "claim", "validate", "decide", "intend"}
      /\ poll'.at \notin Implementing /\ poll'.at \notin Storing
  BY <1>6 DEF Resting, Taking, Writing, Publication, Implementing, Storing, Failing, AutomaticOnly,
     Pushes, Pulls, Hands
<1>9. PollShape' /\ TodoPending'
  BY <1>1, <1>4, <1>5, <1>6, <1>8 DEF PollShape, TodoPending
<1>10. PollPlaced' /\ PollAttempts'
  BY <1>4, <1>6, <1>8 DEF PollPlaced, PollAttempts
<1>11. PollPublishes'
  <2>1. IntentOf'.status = "pending" /\ IntentOf'.kind = intents[i].kind
    BY <1>4, <1>7
  <2>2. "preview" \in Texts /\ "preview" # "automatic"
    BY DEF Texts
  <2>3. CASE poll'.at = "drift" /\ intents[i].kind = "automatic"
    BY <2>1, <2>3 DEF PollPublishes, Automatic, Pushes, Pulls, Hands
  <2>4. CASE poll'.at = "comment" /\ intents[i].kind = "preview" /\ poll'.step = "preview"
    BY <2>1, <2>2, <2>4 DEF PollPublishes, Automatic, AutomaticOnly, Pushes, Pulls, Hands
  <2> QED
    BY <1>6, <2>3, <2>4
<1>12. PollKept'
  BY <1>9, <1>10, <1>11 DEF PollKept, PollSound
<1> QED
  BY <1>5, <1>12, StepKeeps

\* Nothing but the poll changes, and it rests.
LEMMA RestingStep ==
    ASSUME IInv, UNCHANGED <<store_vars, forge_vars, people_vars>>, faults' \in 0..MaxFaults,
           todo' \subseteq Pending, poll' \in Poll, poll'.at \in Resting,
           poll'.context = "none", poll'.key = 0
    PROVE  IInv'
  BY OnlyPoll, RestStep

LEMMA IdleStep ==
    ASSUME IInv, UNCHANGED <<store_vars, forge_vars, people_vars>>, faults' \in 0..MaxFaults,
           todo' \subseteq Pending, poll' = Idle
    PROVE  IInv'
<1>1. poll' \in Poll /\ poll'.at \in Resting /\ poll'.context = "none" /\ poll'.key = 0
  BY IdleType DEF Resting
<1> QED
  BY <1>1, RestingStep

LEMMA PendingDoneKeeps == ASSUME IInv, PendingDone PROVE IInv'
<1>1. /\ poll.at = "pending" /\ todo = {}
      /\ UNCHANGED <<store_vars, forge_vars, people_vars, todo, faults>>
      /\ poll' = IF poll.config.enabled THEN [poll EXCEPT !.at = "candidate"] ELSE Idle
  BY DEF PendingDone
<1>2. faults' \in 0..MaxFaults
  BY <1>1, Facts DEF World
<1>3. poll.at \in Resting /\ "candidate" \in Resting /\ "candidate" \in Places
  BY <1>1 DEF Resting, Places
<1>4. CASE poll' = Idle
  BY <1>1, <1>2, <1>4, IdleStep
<1>5. CASE poll' = [poll EXCEPT !.at = "candidate"]
  <2>1. poll.context = "none" /\ poll.key = 0
    BY <1>1, <1>3, AtWork
  <2>2. poll' \in Poll /\ poll'.at = "candidate" /\ poll'.context = "none" /\ poll'.key = 0
    BY <1>3, <1>5, <2>1, Facts, GotoType DEF Goto
  <2> QED
    BY <1>1, <1>2, <1>3, <2>2, RestingStep
<1> QED
  BY <1>1, <1>4, <1>5

LEMMA NoCandidateKeeps == ASSUME IInv, NoCandidate PROVE IInv'
<1>1. /\ poll' = Idle /\ UNCHANGED <<store_vars, forge_vars, people_vars, todo, faults>>
  BY DEF NoCandidate
<1>2. faults' \in 0..MaxFaults /\ todo' \subseteq Pending
  BY <1>1, Facts DEF World, TodoPending
<1> QED
  BY <1>1, <1>2, IdleStep

----------------------------------------------------------------------------
(* The candidate and its attempt *)

\* The attempt goes on.
LEMMA WorkGoes ==
    ASSUME IInv, poll.at \in Writing, poll' \in Poll, poll'.at \in Writing,
           poll'.key = poll.key, poll'.context = "attempt", UNCHANGED <<intents, todo>>,
           attempts' # <<>>,
           poll'.at \notin {"fail", "failed"} => poll.key = 0,
           poll'.at = "repair" => poll'.number \in 1..(MaxCycles - 1),
           poll'.at = "validate" => poll'.number \in 1..MaxCycles,
           poll'.at \in Implementing => ~Implemented',
           poll'.at \in Storing =>
               /\ artifacts' # <<>> /\ artifacts'[Len(artifacts')].draft = 0
               /\ decision' # "published"
               /\ \A i \in DOMAIN intents : intents[i].artifact < Len(artifacts'),
           poll'.at \in {"decide", "intend"} => bundle' = Len(artifacts'),
           poll'.at = "intend" /\ poll'.config.mode = "automatic" => decision' = "pending"
    PROVE  PollKept'
<1>1. /\ poll.context = "attempt" /\ todo \subseteq Pending /\ poll.key \notin todo
      /\ poll.key \in 0..Len(intents)
  BY AtWork
<1>2. PollPlaced /\ PollAttempts
  BY Facts
<1>3. poll'.at \notin Resting \cup Taking \cup Publication /\ poll'.at \notin {"claim", "adopt"}
  BY DEF Resting, Taking, Writing, Publication, Implementing, Storing, Failing, AutomaticOnly,
     Pushes, Pulls, Hands
<1>4. poll.at \notin {"fail", "failed"} => poll.key = 0
  BY AtWork
<1>5. PollPlaced'
  <2>1. poll'.at \in {"fail", "failed"} => poll'.key = 0 \/ IntentOf'.kind = "preview"
    <3>1. IntentOf' = IntentOf
      BY DEF IntentOf
    <3> QED
      BY <1>2, <1>4, <3>1 DEF PollPlaced
  <2> QED
    BY <1>3, <2>1 DEF PollPlaced
<1>6. PollAttempts'
  <2>1. \A i \in DOMAIN intents :
            intents[i].kind = "automatic" => i = poll.key \/ intents[i].status = "conflict"
    BY <1>1, <1>2 DEF PollAttempts
  <2> QED
    BY <1>3, <2>1 DEF PollAttempts, Taking
<1>7. Pending' = Pending
  BY DEF Pending
<1> QED
  BY <1>1, <1>5, <1>6, <1>7, WorkKept

\* What is known while an attempt works.
LEMMA AtAttempt ==
    ASSUME IInv, poll.at \in Writing
    PROVE  /\ poll.context = "attempt" /\ attempts # <<>>
           /\ poll.at \in Implementing => ~Implemented
           /\ \A i \in DOMAIN intents :
                  intents[i].kind = "automatic" => i = poll.key \/ intents[i].status = "conflict"
           /\ poll.at \notin {"fail", "failed"} =>
                  poll.key = 0 /\ \A i \in DOMAIN intents :
                      intents[i].kind = "automatic" => intents[i].status = "conflict"
<1>1. PollPlaced /\ PollAttempts
  BY Facts
<1>2. poll.context = "attempt" /\ (poll.at \notin {"fail", "failed"} => poll.key = 0)
  BY AtWork
<1>3. 0 \notin DOMAIN intents
  BY Facts
<1> QED
  BY <1>1, <1>2, <1>3 DEF PollPlaced, PollAttempts

LEMMA WritingStep ==
    ASSUME IInv, UNCHANGED <<store_vars, forge_vars, people_vars, todo, faults>>,
           poll.at \in Implementing, poll' \in Poll,
           poll'.at \in Implementing \cup {"fail"}, poll'.key = poll.key,
           poll'.context = poll.context, poll'.config = poll.config,
           poll'.at = "repair" => poll'.number \in 1..(MaxCycles - 1),
           poll'.at = "validate" => poll'.number \in 1..MaxCycles
    PROVE  IInv'
<1>1. faults' \in 0..MaxFaults
  BY Facts DEF World
<1>2. /\ AttemptsKept' /\ Rows' /\ CommentsKept' /\ ForgeKept' /\ World'
      /\ UNCHANGED <<attempts, artifacts, decision, bundle, intents, approved>>
  BY <1>1, OnlyPoll
<1>3. poll.at \in Writing /\ poll'.at \in Writing /\ poll'.at \notin Storing
      /\ poll'.at \notin {"decide", "intend"} /\ poll.at \notin {"fail", "failed"}
  BY DEF Writing, Implementing, Storing, Failing
<1>4. poll.key = 0 /\ poll.context = "attempt" /\ ~Implemented /\ attempts # <<>>
  BY <1>3, AtAttempt
<1>5. ~Implemented'
  BY <1>2, <1>4 DEF Implemented
<1>6. PollKept'
  BY <1>2, <1>3, <1>4, <1>5, WorkGoes
<1> QED
  BY <1>2, <1>6, StepKeeps

LEMMA ImplementKeeps == ASSUME IInv, Implement PROVE IInv'
<1>1. /\ poll.at = "implement"
      /\ GotoWith("validate", 1) \/ Goto("gap") \/ Goto("fail")
      /\ UNCHANGED <<store_vars, forge_vars, people_vars, todo, faults>>
  BY DEF Implement
<1>2. /\ poll \in Poll /\ "validate" \in Places /\ "gap" \in Places /\ "fail" \in Places
      /\ poll.at \in Implementing /\ "validate" \in Implementing /\ "gap" \in Implementing
      /\ 1 \in 1..MaxCycles /\ 1 \in Nat
  BY <1>1, Facts, ImplementationAssumption DEF Places, Implementing
<1>3. CASE GotoWith("validate", 1)
  BY <1>1, <1>2, <1>3, GotoWithType, WritingStep
<1>4. CASE Goto("gap")
  BY <1>1, <1>2, <1>4, GotoType, WritingStep
<1>5. CASE Goto("fail")
  BY <1>1, <1>2, <1>5, GotoType, WritingStep
<1> QED
  BY <1>1, <1>3, <1>4, <1>5

LEMMA ValidateKeeps == ASSUME IInv, Validate PROVE IInv'
<1>1. /\ poll.at = "validate"
      /\ GotoWith("store", 0) \/ (Goto("repair") /\ poll.number < MaxCycles) \/ Goto("fail")
      /\ UNCHANGED <<store_vars, forge_vars, people_vars, todo, faults>>
  <2>1. CASE CyclesLeft
    <3>1. poll.number < MaxCycles
      BY <2>1 DEF CyclesLeft
    <3>2. GotoWith("store", 0) \/ Goto("repair")
      BY <2>1 DEF Validate
    <3> QED
      BY <3>1, <3>2 DEF Validate
  <2>2. CASE ~CyclesLeft
    BY <2>2 DEF Validate
  <2> QED
    BY <2>1, <2>2
<1>2. /\ poll \in Poll /\ "store" \in Places /\ "repair" \in Places /\ "fail" \in Places
      /\ poll.at \in Implementing /\ "store" \in Implementing /\ "repair" \in Implementing
  BY <1>1, Facts DEF Places, Implementing
<1>3. poll.number \in 1..MaxCycles /\ MaxCycles \in Nat
  BY <1>1, Facts, ImplementationAssumption DEF PollShape
<1>4. CASE GotoWith("store", 0)
  BY <1>1, <1>2, <1>4, GotoWithType, WritingStep
<1>5. CASE Goto("repair") /\ poll.number < MaxCycles
  BY <1>1, <1>2, <1>3, <1>5, GotoType, WritingStep
<1>6. CASE Goto("fail")
  BY <1>1, <1>2, <1>6, GotoType, WritingStep
<1> QED
  BY <1>1, <1>4, <1>5, <1>6

LEMMA RepairKeeps == ASSUME IInv, Repair PROVE IInv'
<1>1. /\ poll.at = "repair"
      /\ GotoWith("validate", poll.number + 1) \/ Goto("fail")
      /\ UNCHANGED <<store_vars, forge_vars, people_vars, todo, faults>>
  BY DEF Repair
<1>2. /\ poll \in Poll /\ "validate" \in Places /\ "fail" \in Places
      /\ poll.at \in Implementing /\ "validate" \in Implementing
  BY <1>1, Facts DEF Places, Implementing
<1>3. poll.number \in 1..(MaxCycles - 1) /\ MaxCycles \in Nat
  BY <1>1, Facts, ImplementationAssumption DEF PollPlaced
<1>4. poll.number + 1 \in 1..MaxCycles /\ poll.number + 1 \in Nat
  BY <1>3
<1>5. CASE GotoWith("validate", poll.number + 1)
  BY <1>1, <1>2, <1>4, <1>5, GotoWithType, WritingStep
<1>6. CASE Goto("fail")
  BY <1>1, <1>2, <1>6, GotoType, WritingStep
<1> QED
  BY <1>1, <1>5, <1>6

LEMMA RefuseDockerKeeps == ASSUME IInv, RefuseDocker PROVE IInv'
<1>1. /\ poll.at = "refuse" /\ SetAttempt("failed") /\ poll' = Idle
      /\ UNCHANGED <<artifacts, decision, bundle, intents, issue, comments, branch, base_kept,
                     pulls, todo, approved, touched, edits, faults>>
  BY DEF RefuseDocker, forge_vars, people_vars
<1>2. poll.at \in Writing
  BY <1>1 DEF Writing, Failing
<1>3. attempts # <<>> /\ todo \subseteq Pending
  BY <1>2, AtAttempt, AtWork
<1>4. AttemptsKept'
  BY <1>1, <1>3, SetAttemptKeeps
<1>5. /\ Rows' /\ CommentsKept' /\ ForgeKept' /\ World' /\ todo' \subseteq Pending'
      /\ Len(intents') \in Nat /\ DOMAIN intents' = 1..Len(intents')
  BY <1>1, <1>3, RowsStay, CommentsStay, ForgeStays, WorldStays
<1>6. poll' \in Poll /\ poll'.at \in Resting /\ poll'.context = "none" /\ poll'.key = 0
  BY <1>1, IdleType DEF Resting
<1> QED
  BY <1>4, <1>5, <1>6, RestStep

LEMMA FailAttemptKeeps == ASSUME IInv, FailAttempt PROVE IInv'
<1>1. /\ poll.at = "fail" /\ SetAttempt("failed") /\ Goto("failed")
      /\ UNCHANGED <<artifacts, decision, bundle, intents, issue, comments, branch, base_kept,
                     pulls, todo, approved, touched, edits, faults>>
  BY DEF FailAttempt, forge_vars, people_vars
<1>2. poll.at \in Writing /\ "failed" \in Writing /\ "failed" \in Places
      /\ "failed" \notin Implementing /\ "failed" \notin Storing
  BY <1>1 DEF Writing, Implementing, Storing, Failing, Places
<1>3. attempts # <<>> /\ poll.context = "attempt"
  BY <1>2, AtAttempt
<1>4. AttemptsKept' /\ attempts' # <<>>
  BY <1>1, <1>3, SetAttemptKeeps
<1>5. Rows' /\ CommentsKept' /\ ForgeKept' /\ World'
  BY <1>1, RowsStay, CommentsStay, ForgeStays, WorldStays
<1>6. poll' \in Poll /\ poll'.at = "failed" /\ poll'.key = poll.key /\ poll'.context = "attempt"
  BY <1>1, <1>2, <1>3, Facts, GotoType
<1>7. PollKept'
  BY <1>1, <1>2, <1>4, <1>6, WorkGoes
<1> QED
  BY <1>4, <1>5, <1>7, StepKeeps

LEMMA TakeCandidateKeeps == ASSUME IInv, TakeCandidate PROVE IInv'
<1>1. /\ poll.at = "candidate" /\ Eligible /\ MayAttempt /\ Goto("claim")
      /\ UNCHANGED <<store_vars, forge_vars, people_vars, todo, faults>>
  BY DEF TakeCandidate
<1>2. faults' \in 0..MaxFaults
  BY <1>1, Facts DEF World
<1>3. /\ AttemptsKept' /\ Rows' /\ CommentsKept' /\ ForgeKept' /\ World' /\ Pending' = Pending
      /\ UNCHANGED <<attempts, artifacts, decision, bundle, intents, approved>>
  BY <1>1, <1>2, OnlyPoll
<1>4. poll.at \in Resting /\ "claim" \in Places
  BY <1>1 DEF Resting, Places
<1>5. /\ poll.key = 0 /\ poll.context = "none" /\ todo \subseteq Pending /\ poll.key \notin todo
      /\ poll.key \in 0..Len(intents)
  BY <1>1, <1>4, AtWork
<1>6. /\ poll' \in Poll /\ poll'.at = "claim" /\ poll'.key = 0 /\ poll'.context = "none"
      /\ poll'.config = poll.config
  BY <1>1, <1>4, <1>5, Facts, GotoType
<1>7. /\ poll'.at \in Taking \cup Writing /\ poll'.at \notin Writing /\ poll'.at \notin Publication
      /\ poll'.at \notin Storing
  BY <1>6 DEF Taking, Writing, Publication, Implementing, Storing, Failing, AutomaticOnly, Pushes,
     Pulls, Hands
<1>8. PollPlaced'
  BY <1>6, <1>7 DEF PollPlaced
<1>9. ~Implemented /\ Running = {} /\ decision \in {"none", "failed"}
      /\ Cardinality(Prior) < MaxAttempts
  BY <1>1 DEF Eligible, MayAttempt
<1>10. Implemented' = Implemented /\ Running' = Running /\ Prior' = Prior
  BY <1>3, <1>6 DEF Implemented, Running, Prior
<1>11. PollAttempts'
  BY <1>3, <1>6, <1>7, <1>9, <1>10 DEF PollAttempts
<1>12. PollKept'
  BY <1>1, <1>3, <1>5, <1>6, <1>7, <1>8, <1>11, WorkKept
<1> QED
  BY <1>3, <1>12, StepKeeps

LEMMA ClaimKeeps == ASSUME IInv, Claim PROVE IInv'
<1> DEFINE a == [revision |-> approved.revision, mode |-> poll.config.mode, status |-> "running"]
           l == Len(attempts) + 1
<1>1. /\ poll.at = "claim" /\ attempts' = Append(attempts, a) /\ Goto("adopt")
      /\ UNCHANGED <<artifacts, decision, bundle, intents, issue, comments, branch, base_kept,
                     pulls, todo, approved, touched, edits, faults>>
  BY DEF Claim, forge_vars, people_vars
<1>2. /\ attempts \in Seq(Attempt) /\ RunningOnce /\ BudgetKept
      /\ approved.revision \in Revisions /\ poll.config.mode \in Modes
  BY Facts DEF AttemptsKept, World
<1>3. a \in Attempt
  BY <1>2 DEF Attempt
<1>4. a.revision = approved.revision /\ a.mode = poll.config.mode /\ a.status = "running"
  OBVIOUS
<1> HIDE DEF a
<1>5. /\ attempts' \in Seq(Attempt) /\ DOMAIN attempts = 1..Len(attempts)
      /\ Len(attempts) \in Nat /\ DOMAIN attempts' = 1..l
      /\ attempts'[l] = a /\ \A n \in DOMAIN attempts : attempts'[n] = attempts[n]
  BY <1>1, <1>2, <1>3, AppendIs
<1>6. poll.at \in Taking
  BY <1>1 DEF Taking
<1>7. /\ Running = {} /\ Cardinality(Prior) < MaxAttempts
      /\ decision \in {"none", "failed"} /\ ~Implemented
  BY <1>1, <1>6, Facts DEF PollAttempts
<1>8. RunningOnce'
  <2>1. Running' \subseteq {l}
    BY <1>5, <1>7 DEF Running
  <2> QED
    BY <2>1 DEF RunningOnce
<1>9. ASSUME NEW r \in Revisions, NEW m \in Modes
      PROVE  Cardinality(AttemptsOf(r, m)') <= MaxAttempts
  <2> DEFINE S == AttemptsOf(r, m)
  <2>1. Cardinality(S) <= MaxAttempts
    BY <1>2 DEF BudgetKept
  <2>2. S \subseteq 1..Len(attempts)
    BY <1>5 DEF AttemptsOf
  <2>3. IsFiniteSet(S) /\ Cardinality(S) \in Nat
    <3>1. IsFiniteSet(1..Len(attempts))
      BY <1>5, FS_Interval
    <3> QED
      BY <2>2, <3>1, FS_Subset, FS_CardinalityType
  <2>4. CASE r = approved.revision /\ m = poll.config.mode
    <3>1. S = Prior
      BY <2>4 DEF AttemptsOf, Prior
    <3>2. S' = S \cup {l}
      BY <1>4, <1>5, <2>4 DEF AttemptsOf
    <3>3. l \notin S
      BY <1>5, <2>2
    <3> HIDE DEF S
    <3>4. Cardinality(S \cup {l}) = Cardinality(S) + 1
      BY <2>3, <3>3, FS_AddElement
    <3>5. Cardinality(S) < MaxAttempts
      BY <1>7, <3>1
    <3>6. MaxAttempts \in Nat
      BY ImplementationAssumption
    <3>7. Cardinality(S \cup {l}) <= MaxAttempts
      BY <2>3, <3>4, <3>5, <3>6
    <3> QED
      BY <3>2, <3>7 DEF S
  <2>5. CASE ~(r = approved.revision /\ m = poll.config.mode)
    <3>1. S' = S
      BY <1>4, <1>5, <2>5 DEF AttemptsOf
    <3> QED
      BY <2>1, <3>1
  <2> QED
    BY <2>4, <2>5
<1>10. AttemptsKept'
  BY <1>5, <1>8, <1>9 DEF AttemptsKept, BudgetKept
<1>11. /\ Rows' /\ CommentsKept' /\ ForgeKept' /\ World' /\ Pending' = Pending
  BY <1>1, RowsStay, CommentsStay, ForgeStays, WorldStays
<1>12. /\ poll.key = 0 /\ poll.context = "none" /\ todo \subseteq Pending /\ poll.key \notin todo
       /\ poll.key \in 0..Len(intents)
  BY <1>1, <1>6, AtWork
<1>13. "adopt" \in Places
  BY DEF Places
<1>14. /\ poll' \in Poll /\ poll'.at = "adopt" /\ poll'.key = 0 /\ poll'.context = "none"
       /\ poll'.config = poll.config
  BY <1>1, <1>12, <1>13, Facts, GotoType
<1>15. /\ poll'.at \in Taking /\ poll'.at \notin Writing /\ poll'.at \notin Publication
       /\ poll'.at \notin Storing
  BY <1>14 DEF Taking, Writing, Publication, Implementing, Storing, Failing, AutomaticOnly, Pushes,
     Pulls, Hands
<1>16. attempts' # <<>>
  BY <1>5
<1>17. PollPlaced'
  BY <1>14, <1>15, <1>16 DEF PollPlaced
<1>18. ~Implemented'
  BY <1>1, <1>7, <1>14 DEF Implemented
<1>19. PollAttempts'
  BY <1>1, <1>7, <1>14, <1>15, <1>18 DEF PollAttempts
<1>20. PollKept'
  BY <1>1, <1>11, <1>12, <1>14, <1>15, <1>17, <1>19, WorkKept
<1> QED
  BY <1>10, <1>11, <1>20, StepKeeps

\* The row of the run is written while every automatic publication is in conflict.
LEMMA RunWritten ==
    ASSUME IInv, \A i \in DOMAIN intents :
                     intents[i].kind = "automatic" => intents[i].status = "conflict",
           decision' \in Decisions \ {"published"}, bundle' \in 0..Len(artifacts),
           UNCHANGED <<artifacts, intents, branch, base_kept, pulls, touched>>
    PROVE  /\ Rows' /\ ForgeKept' /\ Pending' = Pending
           /\ Len(intents') \in Nat /\ DOMAIN intents' = 1..Len(intents')
<1>1. /\ artifacts' = artifacts /\ intents' = intents /\ pulls' = pulls /\ branch' = branch
      /\ base_kept' = base_kept /\ touched' = touched
  OBVIOUS
<1>2. /\ ImplementedOnce /\ IntentSound /\ ForgeSound /\ ConflictsAreHuman /\ PullsOnce
  BY Facts DEF Rows, ForgeKept
<1>3. AppliedMeansPublished' /\ BundleKept'
  BY <1>1 DEF AppliedMeansPublished, BundleKept
<1>4. ImplementedOnce' /\ IntentSound'
  BY <1>1, <1>2 DEF ImplementedOnce, IntentSound
<1>5. Rows'
  BY <1>1, <1>3, <1>4, Facts DEF Rows
<1>6. ~touched => branch = Absent
  BY <1>2 DEF ForgeSound, ConflictsAreHuman
<1>7. ForgeSound'
  BY <1>1, <1>2, <1>6 DEF ForgeSound
<1>8. ForgeKept'
  BY <1>1, <1>2, <1>7, Facts DEF ForgeKept, PullsOnce, ConflictsAreHuman
<1> QED
  BY <1>1, <1>5, <1>8, Facts DEF Pending

LEMMA AdoptRunKeeps == ASSUME IInv, AdoptRun PROVE IInv'
<1>1. /\ poll.at = "adopt" /\ decision' = "pending" /\ bundle' = 0
      /\ poll' = [poll EXCEPT !.at = IF poll.config.docker THEN "refuse" ELSE "implement",
                              !.context = "attempt"]
      /\ UNCHANGED <<attempts, artifacts, intents, issue, comments, branch, base_kept,
                     pulls, todo, approved, touched, edits, faults>>
  BY DEF AdoptRun, forge_vars, people_vars
<1>2. poll.at \in Taking
  BY <1>1 DEF Taking
<1>3. /\ poll.key = 0 /\ poll.context = "none" /\ todo \subseteq Pending /\ poll.key \notin todo
      /\ poll.key \in 0..Len(intents)
  BY <1>1, <1>2, AtWork
<1>4. attempts # <<>> /\ ~Implemented /\ decision \in {"none", "failed"}
  BY <1>1, <1>2, Facts DEF PollPlaced, PollAttempts
<1>5. \A i \in DOMAIN intents : intents[i].kind = "automatic" => intents[i].status = "conflict"
  BY <1>4, Facts DEF Rows, BundleKept
<1>6. 0 \in 0..Len(artifacts) /\ "pending" \in Decisions \ {"published"}
  BY Facts DEF Decisions
<1>7. Rows' /\ ForgeKept' /\ Pending' = Pending
  BY <1>1, <1>5, <1>6, RunWritten
<1>8. AttemptsKept' /\ CommentsKept' /\ World'
  BY <1>1, AttemptsStay, CommentsStay, WorldStays
<1>9. /\ poll' \in Poll /\ poll'.at \in {"refuse", "implement"} /\ poll'.key = 0
      /\ poll'.context = "attempt" /\ poll'.config = poll.config
  <2>1. PICK p \in {"refuse", "implement"} :
            poll' = [poll EXCEPT !.at = p, !.context = "attempt"]
    BY <1>1
  <2>2. p \in Places /\ poll \in Poll
    BY <2>1, Facts DEF Places
  <2> QED
    BY <1>3, <2>1, <2>2 DEF Poll
<1>10. /\ poll'.at \in Writing /\ poll'.at \notin Resting \cup Taking \cup Publication
       /\ poll'.at \notin Storing
  BY <1>9 DEF Resting, Taking, Writing, Publication, Implementing, Storing, Failing, AutomaticOnly,
     Pushes, Pulls, Hands
<1>11. PollPlaced'
  BY <1>1, <1>4, <1>9, <1>10 DEF PollPlaced
<1>12. ~Implemented'
  BY <1>1, <1>4, <1>9 DEF Implemented
<1>13. PollAttempts'
  BY <1>1, <1>5, <1>9, <1>10, <1>12 DEF PollAttempts
<1>14. PollKept'
  BY <1>1, <1>3, <1>7, <1>9, <1>10, <1>11, <1>13, WorkKept
<1> QED
  BY <1>7, <1>8, <1>14, StepKeeps

LEMMA DecideFailedKeeps == ASSUME IInv, DecideFailed PROVE IInv'
<1>1. /\ poll.at = "failed" /\ decision' = "failed" /\ poll' = Idle
      /\ UNCHANGED <<attempts, artifacts, bundle, intents, issue, comments, branch, base_kept,
                     pulls, todo, approved, touched, edits, faults>>
  BY DEF DecideFailed, forge_vars, people_vars
<1>2. poll.at \in Writing
  BY <1>1 DEF Writing, Failing
<1>3. /\ todo \subseteq Pending
      /\ \A i \in DOMAIN intents :
            intents[i].kind = "automatic" => i = poll.key \/ intents[i].status = "conflict"
  BY <1>2, AtWork, AtAttempt
<1>4. poll.key = 0 \/ intents[poll.key].kind = "preview"
  BY <1>1, Facts DEF PollPlaced, IntentOf
<1>5. \A i \in DOMAIN intents : intents[i].kind = "automatic" => intents[i].status = "conflict"
  BY <1>3, <1>4, Facts
<1>6. bundle' \in 0..Len(artifacts) /\ "failed" \in Decisions \ {"published"}
  BY <1>1, Facts DEF Decisions, Rows
<1>7. /\ Rows' /\ ForgeKept' /\ Pending' = Pending
      /\ Len(intents') \in Nat /\ DOMAIN intents' = 1..Len(intents')
  BY <1>1, <1>5, <1>6, RunWritten
<1>8. AttemptsKept' /\ CommentsKept' /\ World'
  BY <1>1, AttemptsStay, CommentsStay, WorldStays
<1>9. poll' \in Poll /\ poll'.at \in Resting /\ poll'.context = "none" /\ poll'.key = 0
  BY <1>1, IdleType DEF Resting
<1>10. todo' \subseteq Pending'
  BY <1>1, <1>3, <1>7
<1> QED
  BY <1>7, <1>8, <1>9, <1>10, RestStep

\* What is known while the results of an attempt are stored.
LEMMA AtStoring ==
    ASSUME IInv, poll.at \in Storing
    PROVE  /\ poll.at \in Writing /\ poll.key = 0 /\ poll.context = "attempt" /\ attempts # <<>>
           /\ artifacts # <<>> /\ artifacts[Len(artifacts)].draft = 0 /\ decision # "published"
           /\ Len(artifacts) \in DOMAIN artifacts /\ Len(artifacts) \in Nat \ {0}
           /\ \A i \in DOMAIN intents : intents[i].artifact < Len(artifacts)
           /\ todo \subseteq Pending /\ poll.key \notin todo
           /\ \A i \in DOMAIN intents :
                  intents[i].kind = "automatic" => intents[i].status = "conflict"
<1>1. poll.at \in Writing /\ poll.at \notin {"fail", "failed"}
  BY DEF Writing, Storing
<1>2. PollAttempts
  BY Facts
<1>3. /\ artifacts # <<>> /\ artifacts[Len(artifacts)].draft = 0 /\ decision # "published"
      /\ \A i \in DOMAIN intents : intents[i].artifact < Len(artifacts)
  BY <1>2 DEF PollAttempts
<1>4. Len(artifacts) \in DOMAIN artifacts /\ Len(artifacts) \in Nat \ {0}
  BY <1>3, Facts DEF Rows
<1> QED
  BY <1>1, <1>3, <1>4, AtAttempt, AtWork

\* An attempt goes on storing its results.
LEMMA StoringStep ==
    ASSUME IInv, poll.at \in Storing, NEW p \in {"decide", "intend"}, Goto(p),
           decision' \in Decisions \ {"published"}, bundle' = Len(artifacts),
           p = "intend" /\ poll.config.mode = "automatic" => decision' = "pending",
           UNCHANGED <<attempts, artifacts, intents, forge_vars, todo, people_vars, faults>>
    PROVE  IInv'
<1>1. UNCHANGED <<issue, comments, branch, base_kept, pulls, approved, touched, edits, faults>>
  BY DEF forge_vars, people_vars
<1>2. /\ poll.at \in Writing /\ poll.key = 0 /\ poll.context = "attempt" /\ attempts # <<>>
      /\ artifacts # <<>> /\ artifacts[Len(artifacts)].draft = 0
      /\ Len(artifacts) \in Nat
      /\ \A i \in DOMAIN intents : intents[i].artifact < Len(artifacts)
      /\ \A i \in DOMAIN intents :
             intents[i].kind = "automatic" => intents[i].status = "conflict"
  BY AtStoring
<1>3. Rows' /\ ForgeKept'
  BY <1>1, <1>2, RunWritten
<1>4. AttemptsKept' /\ CommentsKept' /\ World'
  BY <1>1, AttemptsStay, CommentsStay, WorldStays
<1>5. /\ p \in Places /\ p \in Writing /\ p \notin Implementing
      /\ p \notin {"fail", "failed", "repair", "validate"}
  BY DEF Places, Writing, Storing, Implementing
<1>6. /\ poll' \in Poll /\ poll'.at = p /\ poll'.key = poll.key /\ poll'.context = "attempt"
      /\ poll'.config = poll.config
  BY <1>2, <1>5, Facts, GotoType
<1>7. PollKept'
  BY <1>2, <1>5, <1>6, WorkGoes
<1> QED
  BY <1>3, <1>4, <1>7, StepKeeps

LEMMA StoreBundleKeeps == ASSUME IInv, StoreBundle PROVE IInv'
<1>1. /\ poll.at = "bundle" /\ bundle' = Len(artifacts) /\ Goto("decide")
      /\ UNCHANGED <<attempts, artifacts, decision, intents, forge_vars, todo, people_vars, faults>>
  BY DEF StoreBundle
<1>2. poll.at \in Storing
  BY <1>1 DEF Storing
<1>3. decision \in Decisions \ {"published"}
  BY <1>2, AtStoring, Facts DEF Rows
<1> QED
  BY <1>1, <1>2, <1>3, StoringStep

LEMMA DecideKeeps == ASSUME IInv, Decide PROVE IInv'
<1>1. /\ poll.at = "decide" /\ Goto("intend")
      /\ decision' = IF poll.config.mode = "automatic" THEN "pending" ELSE "previewed"
      /\ UNCHANGED <<attempts, artifacts, bundle, intents, forge_vars, todo, people_vars, faults>>
  BY DEF Decide
<1>2. poll.at \in Storing /\ bundle = Len(artifacts)
  BY <1>1, Facts DEF Storing, PollAttempts
<1>3. decision' \in Decisions \ {"published"}
  BY <1>1 DEF Decisions
<1> QED
  BY <1>1, <1>2, <1>3, StoringStep

\* An attempt that is over stores its artifact.
LEMMA ArtifactStored ==
    ASSUME IInv, poll.at \in Implementing, NEW o \in {"completed", "spec_gap"}, StoreArtifact(o),
           NEW p \in {"diagnose", "bundle"}, Goto(p),
           UNCHANGED <<bundle, intents, forge_vars, todo, people_vars, faults>>
    PROVE  IInv'
<1> DEFINE a == [version |-> approved.version, revision |-> approved.revision,
                 mode |-> poll.config.mode, outcome |-> o, draft |-> 0]
           l == Len(artifacts) + 1
<1>1. UNCHANGED <<bundle, intents, issue, comments, branch, base_kept, pulls, todo, approved,
                  touched, edits, faults>>
  BY DEF forge_vars, people_vars
<1>2. /\ artifacts' = Append(artifacts, a) /\ SetAttempt("completed")
      /\ decision' \in {"previewed", "awaiting_human"}
  BY DEF StoreArtifact
<1>3. poll.at \in Writing /\ poll.at \notin {"fail", "failed"} /\ poll.at \notin Storing
  BY DEF Writing, Implementing, Storing
<1>4. /\ attempts # <<>> /\ ~Implemented /\ poll.key = 0 /\ poll.context = "attempt"
      /\ \A i \in DOMAIN intents : intents[i].kind = "automatic" => intents[i].status = "conflict"
  BY <1>3, AtAttempt
<1>5. AttemptsKept' /\ attempts' # <<>>
  BY <1>2, <1>4, SetAttemptKeeps
<1>6. a \in Artifact
  BY Facts DEF Artifact, World
<1>7. /\ a.version = approved.version /\ a.mode = poll.config.mode /\ a.draft = 0
  OBVIOUS
<1> HIDE DEF a
<1>8. /\ ImplementedOnce /\ IntentSound /\ artifacts \in Seq(Artifact) /\ bundle \in 0..Len(artifacts)
      /\ intents \in Seq(Intent)
  BY Facts DEF Rows
<1>9. /\ artifacts' \in Seq(Artifact) /\ DOMAIN artifacts = 1..Len(artifacts)
      /\ Len(artifacts) \in Nat /\ Len(artifacts') = l /\ DOMAIN artifacts' = 1..l
      /\ artifacts'[l] = a /\ \A n \in DOMAIN artifacts : artifacts'[n] = artifacts[n]
  BY <1>2, <1>6, <1>8, AppendIs
<1>10. ImplementedOnce'
  <2>1. ASSUME NEW n \in DOMAIN artifacts, artifacts[n].outcome = "completed",
               artifacts[n].version = a.version, artifacts[n].mode = a.mode
        PROVE  FALSE
    BY <1>4, <1>7, <2>1 DEF Implemented
  <2>2. ASSUME NEW m \in 1..l, NEW n \in 1..l,
               artifacts'[m].outcome = "completed", artifacts'[n].outcome = "completed",
               artifacts'[m].version = artifacts'[n].version,
               artifacts'[m].mode = artifacts'[n].mode
        PROVE  m = n
    <3>1. CASE m = l /\ n = l
      BY <3>1
    <3>2. CASE m = l /\ n # l
      <4>1. n \in DOMAIN artifacts
        BY <1>9, <3>2
      <4> QED
        BY <1>9, <2>1, <2>2, <3>2, <4>1
    <3>3. CASE m # l /\ n = l
      <4>1. m \in DOMAIN artifacts
        BY <1>9, <3>3
      <4> QED
        BY <1>9, <2>1, <2>2, <3>3, <4>1
    <3>4. CASE m # l /\ n # l
      <4>1. m \in DOMAIN artifacts /\ n \in DOMAIN artifacts
        BY <1>9, <3>4
      <4> QED
        BY <1>8, <1>9, <2>2, <4>1 DEF ImplementedOnce
    <3> QED
      BY <3>1, <3>2, <3>3, <3>4
  <2> QED
    BY <1>9, <2>2 DEF ImplementedOnce
<1>11. AppliedMeansPublished' /\ BundleKept'
  BY <1>1, <1>2, <1>4 DEF AppliedMeansPublished, BundleKept
<1>12. IntentSound'
  <2>1. /\ intents' = intents /\ pulls' = pulls /\ DOMAIN artifacts \subseteq DOMAIN artifacts'
    BY <1>1, <1>9
  <2>2. \A i \in DOMAIN intents : artifacts'[intents[i].artifact] = artifacts[intents[i].artifact]
    BY <1>8, <1>9 DEF IntentSound
  <2> QED
    BY <1>8, <2>1, <2>2 DEF IntentSound
<1>13. bundle' \in 0..Len(artifacts') /\ decision' \in Decisions
  BY <1>1, <1>2, <1>8, <1>9 DEF Decisions
<1>14. Rows'
  BY <1>1, <1>8, <1>9, <1>10, <1>11, <1>12, <1>13 DEF Rows
<1>15. CommentsKept' /\ ForgeKept' /\ World'
  BY <1>1, <1>9, CommentsStay, ForgeStays, WorldStays
<1>16. /\ p \in Places /\ p \in Writing /\ p \notin Implementing
       /\ p \notin {"fail", "failed", "repair", "validate", "decide", "intend"}
  BY DEF Places, Writing, Storing, Implementing
<1>17. /\ poll' \in Poll /\ poll'.at = p /\ poll'.key = poll.key /\ poll'.context = "attempt"
       /\ poll'.config = poll.config
  BY <1>4, <1>16, Facts, GotoType
<1>18. /\ artifacts' # <<>> /\ artifacts'[Len(artifacts')].draft = 0
       /\ \A i \in DOMAIN intents : intents[i].artifact < Len(artifacts')
  <2>1. l \in DOMAIN artifacts' /\ Len(artifacts') = l /\ artifacts'[l].draft = 0
    BY <1>7, <1>9
  <2>2. \A i \in DOMAIN intents : intents[i].artifact \in 1..Len(artifacts)
    BY <1>8, <1>9 DEF IntentSound
  <2>3. artifacts' # <<>>
    BY <1>9, <2>1
  <2>4. ASSUME NEW i \in DOMAIN intents PROVE intents[i].artifact < l
    BY <1>9, <2>2
  <2> QED
    BY <2>1, <2>3, <2>4
<1>19. PollKept'
  BY <1>1, <1>2, <1>3, <1>4, <1>5, <1>16, <1>17, <1>18, WorkGoes
<1> QED
  BY <1>5, <1>14, <1>15, <1>19, StepKeeps

LEMMA StoreGapKeeps == ASSUME IInv, StoreGap PROVE IInv'
<1>1. /\ poll.at = "gap" /\ StoreArtifact("spec_gap") /\ Goto("diagnose")
      /\ UNCHANGED <<bundle, intents, forge_vars, todo, people_vars, faults>>
  BY DEF StoreGap
<1>2. poll.at \in Implementing
  BY <1>1 DEF Implementing
<1> QED
  BY <1>1, <1>2, ArtifactStored

LEMMA StoreCompletedKeeps == ASSUME IInv, StoreCompleted PROVE IInv'
<1>1. /\ poll.at = "store" /\ StoreArtifact("completed") /\ Goto("bundle")
      /\ UNCHANGED <<bundle, intents, forge_vars, todo, people_vars, faults>>
  BY DEF StoreCompleted
<1>2. poll.at \in Implementing
  BY <1>1 DEF Implementing
<1> QED
  BY <1>1, <1>2, ArtifactStored

\* An attempt begins a publication of its artifact.
LEMMA IntentCreated ==
    ASSUME IInv, poll.at \in Storing, NEW k \in {"preview", "automatic", "diagnostic"},
           CreateIntent(k), k = "automatic" => bundle = Len(artifacts) /\ decision = "pending",
           NEW p \in {"comment", "drift"}, NEW s \in {"none"} \cup Texts,
           p = "drift" <=> k = "automatic", p = "comment" => s \in Texts,
           poll' = [poll EXCEPT !.at = p, !.key = Len(intents) + 1, !.step = s],
           UNCHANGED <<attempts, artifacts, decision, bundle, forge_vars, todo, people_vars, faults>>
    PROVE  IInv'
<1> DEFINE x == [kind |-> k, artifact |-> Len(artifacts), status |-> "pending",
                 retries |-> 0, error |-> "none", steps |-> {}, comment |-> 0, ripe |-> FALSE]
           l == Len(intents) + 1
<1>1. UNCHANGED <<attempts, artifacts, decision, bundle, issue, comments, branch, base_kept,
                  pulls, todo, approved, touched, edits, faults>>
  BY DEF forge_vars, people_vars
<1>2. intents' = Append(intents, x)
  BY DEF CreateIntent
<1>3. /\ poll.key = 0 /\ poll.context = "attempt" /\ attempts # <<>>
      /\ artifacts[Len(artifacts)].draft = 0
      /\ Len(artifacts) \in DOMAIN artifacts /\ Len(artifacts) \in Nat \ {0}
      /\ \A i \in DOMAIN intents : intents[i].artifact < Len(artifacts)
      /\ todo \subseteq Pending
      /\ \A i \in DOMAIN intents :
             intents[i].kind = "automatic" => intents[i].status = "conflict"
  BY AtStoring
<1>4. x \in Intent
  BY <1>3 DEF Intent, Errors
<1>5. /\ x.kind = k /\ x.artifact = Len(artifacts) /\ x.status = "pending" /\ x.steps = {}
  OBVIOUS
<1> HIDE DEF x
<1>6. /\ intents \in Seq(Intent) /\ AppliedMeansPublished /\ BundleKept /\ IntentSound
      /\ ForgeSound /\ ConflictsAreHuman
  BY Facts DEF Rows, ForgeKept
<1>7. /\ intents' \in Seq(Intent) /\ DOMAIN intents = 1..Len(intents)
      /\ Len(intents) \in Nat /\ Len(intents') = l /\ DOMAIN intents' = 1..l
      /\ intents'[l] = x /\ \A n \in DOMAIN intents : intents'[n] = intents[n]
      /\ DOMAIN intents' = DOMAIN intents \cup {l} /\ l \notin DOMAIN intents
  <2>1. /\ intents' \in Seq(Intent) /\ DOMAIN intents = 1..Len(intents)
        /\ Len(intents) \in Nat /\ Len(intents') = l /\ DOMAIN intents' = 1..l
        /\ intents'[l] = x /\ \A n \in DOMAIN intents : intents'[n] = intents[n]
    BY <1>2, <1>4, <1>6, AppendIs
  <2>2. 1..l = (1..Len(intents)) \cup {l}
    BY <2>1
  <2> QED
    BY <2>1, <2>2
<1>8. AppliedMeansPublished'
  BY <1>1, <1>3, <1>5, <1>6, <1>7 DEF AppliedMeansPublished
<1>9. BundleKept'
  BY <1>1, <1>3, <1>5, <1>6, <1>7 DEF BundleKept
<1>10. IntentSound'
  <2>1. ASSUME NEW i \in DOMAIN intents'
        PROVE  /\ intents'[i].artifact \in DOMAIN artifacts
               /\ \A t \in intents'[i].steps : Before[t] \subseteq intents'[i].steps
               /\ "pr_verified" \in intents'[i].steps => artifacts[intents'[i].artifact].draft # 0
               /\ artifacts[intents'[i].artifact].draft # 0 =>
                      /\ artifacts[intents'[i].artifact].draft \in DOMAIN pulls
                      /\ pulls[artifacts[intents'[i].artifact].draft].intent = i
    <3>1. CASE i \in DOMAIN intents
      BY <1>6, <1>7, <3>1 DEF IntentSound
    <3>2. CASE i = l
      BY <1>3, <1>5, <1>7, <3>2
    <3> QED
      BY <1>7, <3>1, <3>2
  <2>2. ASSUME NEW i \in DOMAIN intents', NEW j \in DOMAIN intents',
               intents'[i].artifact = intents'[j].artifact
        PROVE  i = j
    <3>1. CASE i \in DOMAIN intents /\ j \in DOMAIN intents
      BY <1>6, <1>7, <2>2, <3>1 DEF IntentSound
    <3>2. CASE i = l /\ j \in DOMAIN intents
      BY <1>3, <1>5, <1>7, <2>2, <3>2
    <3>3. CASE i \in DOMAIN intents /\ j = l
      BY <1>3, <1>5, <1>7, <2>2, <3>3
    <3>4. CASE i = l /\ j = l
      BY <3>4
    <3> QED
      BY <1>7, <3>1, <3>2, <3>3, <3>4
  <2>3. artifacts' = artifacts /\ pulls' = pulls
    BY <1>1
  <2> QED
    BY <2>1, <2>2, <2>3 DEF IntentSound
<1>11. Rows'
  BY <1>1, <1>7, <1>8, <1>9, <1>10, Facts DEF Rows, ImplementedOnce
<1>12. ForgeSound' /\ ConflictsAreHuman'
  <2>1. ConflictsAreHuman'
    BY <1>1, <1>5, <1>6, <1>7 DEF ConflictsAreHuman
  <2>2. \A i \in DOMAIN intents : i \in DOMAIN intents' /\ intents'[i].kind = intents[i].kind
    BY <1>7
  <2>3. ForgeSound'
    BY <1>1, <1>6, <2>2 DEF ForgeSound
  <2> QED
    BY <2>1, <2>3
<1>13. ForgeKept'
  BY <1>1, <1>12, Facts DEF ForgeKept, PullsOnce
<1>14. AttemptsKept' /\ CommentsKept' /\ World'
  BY <1>1, AttemptsStay, CommentsStay, WorldStays
<1>15. /\ poll' \in Poll /\ poll'.at = p /\ poll'.key = l /\ poll'.context = "attempt"
       /\ poll'.step = s
  <2>1. p \in Places /\ l \in Nat /\ poll \in Poll
    BY <1>7, Facts DEF Places
  <2> QED
    BY <1>3, <2>1 DEF Poll
<1>16. poll'.at \in Publication
       /\ poll'.at \notin Resting \cup Taking \cup Writing
       /\ poll'.at \notin {"fail", "failed", "repair", "adopt", "claim", "validate", "decide", "intend"}
       /\ poll'.at \notin Implementing /\ poll'.at \notin Storing
  BY <1>15 DEF Resting, Taking, Writing, Publication, Implementing, Storing, Failing, AutomaticOnly,
     Pushes, Pulls, Hands
<1>17. IntentOf' = x
  BY <1>7, <1>15 DEF IntentOf
<1>18. todo' \subseteq Pending' /\ l \notin todo'
  BY <1>1, <1>3, <1>7 DEF Pending
<1>19. PollShape' /\ TodoPending'
  BY <1>7, <1>15, <1>16, <1>18 DEF PollShape, TodoPending
<1>20. PollPlaced'
  BY <1>1, <1>3, <1>7, <1>15, <1>16 DEF PollPlaced
<1>21. PollAttempts'
  <2>1. ASSUME NEW i \in DOMAIN intents', intents'[i].kind = "automatic"
        PROVE  i = l \/ intents'[i].status = "conflict"
    BY <1>3, <1>7, <2>1
  <2> QED
    BY <1>15, <1>16, <2>1 DEF PollAttempts, Taking
<1>22. PollPublishes'
  <2>1. IntentOf'.status = "pending" /\ IntentOf'.kind = k
    BY <1>5, <1>17
  <2>2. CASE p = "drift"
    BY <1>15, <2>1, <2>2 DEF PollPublishes, Automatic, Pushes, Pulls, Hands
  <2>3. CASE p = "comment"
    BY <1>15, <2>1, <2>3 DEF PollPublishes, Automatic, AutomaticOnly, Pushes, Pulls, Hands
  <2> QED
    BY <2>2, <2>3
<1>23. PollKept'
  BY <1>19, <1>20, <1>21, <1>22 DEF PollKept, PollSound
<1> QED
  BY <1>11, <1>13, <1>14, <1>23, StepKeeps

LEMMA IntendDiagnosticKeeps == ASSUME IInv, IntendDiagnostic PROVE IInv'
<1>1. /\ poll.at = "diagnose" /\ CreateIntent("diagnostic")
      /\ poll' = [poll EXCEPT !.at = "comment", !.key = Len(intents) + 1, !.step = "diagnostic"]
      /\ UNCHANGED <<attempts, artifacts, decision, bundle, forge_vars, todo, people_vars, faults>>
  BY DEF IntendDiagnostic
<1>2. poll.at \in Storing /\ "diagnostic" \in Texts
  BY <1>1 DEF Storing, Texts
<1> QED
  BY <1>1, <1>2, IntentCreated

LEMMA IntendPublicationKeeps == ASSUME IInv, IntendPublication PROVE IInv'
<1>1. /\ poll.at = "intend" /\ CreateIntent(poll.config.mode)
      /\ UNCHANGED <<attempts, artifacts, decision, bundle, forge_vars, todo, people_vars, faults>>
  BY DEF IntendPublication
<1>2. /\ poll.at \in Storing /\ "preview" \in Texts /\ poll.config.mode \in Modes
      /\ Modes = {"preview", "automatic"} /\ bundle = Len(artifacts)
      /\ poll.config.mode = "automatic" => decision = "pending"
  BY <1>1, Facts DEF Storing, Texts, Modes, PollAttempts
<1>3. CASE poll.config.mode = "automatic"
  <2>1. poll' = [poll EXCEPT !.at = "drift", !.key = Len(intents) + 1, !.step = "none"]
    BY <1>3 DEF IntendPublication
  <2>2. CreateIntent("automatic")
    BY <1>1, <1>3
  <2> QED
    BY <1>1, <1>2, <1>3, <2>1, <2>2, IntentCreated
<1>4. CASE poll.config.mode = "preview"
  <2>1. poll' = [poll EXCEPT !.at = "comment", !.key = Len(intents) + 1, !.step = "preview"]
    BY <1>4 DEF IntendPublication
  <2>2. CreateIntent("preview")
    BY <1>1, <1>4
  <2> QED
    BY <1>1, <1>2, <1>4, <2>1, <2>2, IntentCreated
<1> QED
  BY <1>2, <1>3, <1>4

----------------------------------------------------------------------------
(* The marked comment of a publication *)

\* What is known while the comment of a publication is written.
LEMMA AtComment ==
    ASSUME IInv, poll.at \in {"comment", "bind"}
    PROVE  /\ poll.at \in Publication /\ poll.step \in Texts
           /\ Automatic => poll.step \in {"comment_pending", "comment_final"}
                           /\ Before[poll.step] \subseteq IntentOf.steps
<1>1. poll.at \in Publication
  BY DEF Publication
<1> QED
  BY <1>1, Facts DEF PollPublishes

\* Once a comment shows the step, an automatic publication records it and any
\* other is complete.
LEMMA AfterCommentKept ==
    ASSUME IInv, poll.at \in {"comment", "bind"}, poll' = AfterComment,
           UNCHANGED <<attempts, todo>>,
           DOMAIN intents' = DOMAIN intents, Len(intents') = Len(intents),
           \A i \in DOMAIN intents : i # poll.key => intents'[i] = intents[i],
           intents'[poll.key].kind = IntentOf.kind,
           intents'[poll.key].status = IntentOf.status,
           intents'[poll.key].steps = IntentOf.steps
    PROVE  PollKept'
<1>1. /\ poll.at \in Publication /\ poll.step \in Texts
      /\ Automatic => poll.step \in {"comment_pending", "comment_final"}
                      /\ Before[poll.step] \subseteq IntentOf.steps
  BY AtComment
<1>2. poll \in Poll /\ "record" \in Places /\ "complete" \in Places /\ 0 \in Nat
  BY Facts DEF Places
<1>3. IntentOf.status = "pending"
  BY <1>1, AtPublication
<1>4. CASE Automatic
  <2>1. GotoWith("record", 0)
    BY <1>4 DEF AfterComment, GotoWith
  <2>2. /\ poll' \in Poll /\ poll'.at = "record" /\ poll'.key = poll.key
        /\ poll'.context = poll.context /\ poll'.step = poll.step
    BY <1>2, <2>1, GotoWithType
  <2>3. poll'.at \in Publication
    BY <2>2 DEF Publication, AutomaticOnly
  <2>4. IntentOf' = intents'[poll.key]
    BY <2>2 DEF IntentOf
  <2>5. PollPublishes'
    <3>1. Automatic' /\ IntentOf'.status = "pending" /\ IntentOf'.steps = IntentOf.steps
      BY <1>3, <1>4, <2>4 DEF Automatic
    <3>2. poll.step \in Steps /\ poll.step # "pr_verified"
      BY <1>1, <1>4 DEF Steps
    <3>3. poll'.at \notin Pushes \cup Pulls \cup Hands
      BY <2>2 DEF Pushes, Pulls, Hands
    <3> QED
      BY <1>1, <1>4, <2>2, <3>1, <3>2, <3>3 DEF PollPublishes
  <2> QED
    BY <1>1, <2>2, <2>3, <2>5, PublicationKept
<1>5. CASE ~Automatic
  <2>1. GotoWith("complete", 0)
    BY <1>5 DEF AfterComment, GotoWith
  <2>2. /\ poll' \in Poll /\ poll'.at = "complete" /\ poll'.key = poll.key
        /\ poll'.context = poll.context
    BY <1>2, <2>1, GotoWithType
  <2>3. poll'.at \in Publication
    BY <2>2 DEF Publication
  <2>4. IntentOf' = intents'[poll.key]
    BY <2>2 DEF IntentOf
  <2>5. PollPublishes'
    <3>1. ~Automatic' /\ IntentOf'.status = "pending"
      BY <1>3, <1>5, <2>4 DEF Automatic
    <3>2. poll'.at \notin AutomaticOnly \cup Pushes \cup Pulls \cup Hands
      BY <2>2 DEF AutomaticOnly, Pushes, Pulls, Hands
    <3> QED
      BY <2>2, <3>1, <3>2 DEF PollPublishes
  <2> QED
    BY <1>1, <2>2, <2>3, <2>5, PublicationKept
<1> QED
  BY <1>4, <1>5

\* What a comment is goes on to be so, except what it shows, or that it is deleted.
LEMMA CommentWritten ==
    ASSUME IInv, NEW c \in DOMAIN comments, NEW x \in Comment,
           comments' = [comments EXCEPT ![c] = x], x.intent = comments[c].intent,
           x.live => comments[c].live
    PROVE  CommentsKept'
<1>1. comments \in Seq(Comment) /\ CommentsOnce
  BY Facts DEF CommentsKept
<1>2. comments' \in Seq(Comment) /\ DOMAIN comments' = DOMAIN comments
  BY <1>1, ExceptSeq
<1>3. \A d \in DOMAIN comments : /\ comments'[d].intent = comments[d].intent
                                 /\ comments'[d].live => comments[d].live
  OBVIOUS
<1>4. Live' \subseteq Live
  BY <1>2, <1>3 DEF Live
<1>5. Live \subseteq DOMAIN comments
  BY DEF Live
<1>6. CommentsOnce'
  BY <1>1, <1>3, <1>4, <1>5 DEF CommentsOnce
<1> QED
  BY <1>2, <1>6 DEF CommentsKept

\* A live comment is made to show the step the poll is at.
LEMMA CommentShown ==
    ASSUME IInv, poll.at = "comment", NEW c \in Live,
           comments' = [comments EXCEPT ![c].shows = poll.step]
    PROVE  CommentsKept'
<1> DEFINE x == [comments[c] EXCEPT !.shows = poll.step]
<1>1. c \in DOMAIN comments
  BY DEF Live
<1>2. comments[c] \in Comment
  BY <1>1, Facts, ElementOfSeq DEF CommentsKept
<1>3. poll.step \in Texts
  BY AtComment
<1>4. x \in Comment /\ x.intent = comments[c].intent /\ x.live = comments[c].live
  BY <1>2, <1>3 DEF Comment
<1>5. comments' = [comments EXCEPT ![c] = x]
  OBVIOUS
<1> HIDE DEF x
<1> QED
  BY <1>1, <1>4, <1>5, CommentWritten

LEMMA UpdateRecordedKeeps == ASSUME IInv, UpdateRecorded PROVE IInv'
<1>1. /\ poll.at = "comment" /\ IntentOf.comment \in Live
      /\ comments' = [comments EXCEPT ![IntentOf.comment].shows = poll.step]
      /\ poll' = AfterComment
      /\ UNCHANGED <<attempts, artifacts, decision, bundle, intents, issue, branch, base_kept,
                     pulls, todo, approved, touched, edits, faults>>
  BY DEF UpdateRecorded, store_vars, people_vars
<1>2. CommentsKept'
  BY <1>1, CommentShown
<1>3. AttemptsKept' /\ Rows' /\ ForgeKept' /\ World'
  BY <1>1, AttemptsStay, RowsStay, ForgeStays, WorldStays
<1>4. PollKept'
  <2>1. poll.at \in Publication
    BY <1>1, AtComment
  <2>2. IntentOf = intents[poll.key]
    BY <2>1, AtPublication
  <2> QED
    BY <1>1, <2>2, AfterCommentKept
<1> QED
  BY <1>2, <1>3, <1>4, StepKeeps

\* A poll that has found its comment, or made it, goes on to record which it is.
LEMMA BindingKept ==
    ASSUME IInv, poll.at = "comment", NEW c \in Nat, GotoWith("bind", c),
           UNCHANGED <<attempts, todo, intents, artifacts>>
    PROVE  PollKept'
<1>1. /\ poll.at \in Publication /\ poll.step \in Texts
      /\ Automatic => poll.step \in {"comment_pending", "comment_final"}
                      /\ Before[poll.step] \subseteq IntentOf.steps
  BY AtComment
<1>2. "bind" \in Places /\ "bind" \in Publication
      /\ "bind" \notin AutomaticOnly \cup Pushes \cup Pulls \cup Hands
  BY DEF Places, Publication, AutomaticOnly, Pushes, Pulls, Hands
<1>3. /\ poll' \in Poll /\ poll'.at = "bind" /\ poll'.key = poll.key
      /\ poll'.context = poll.context /\ poll'.step = poll.step
  BY <1>2, Facts, GotoWithType
<1>4. IntentOf' = IntentOf /\ Automatic' = Automatic
  BY <1>3 DEF IntentOf, Automatic
<1>5. IntentOf.status = "pending"
  BY <1>1, AtPublication
<1>6. PollPublishes'
  BY <1>1, <1>2, <1>3, <1>4, <1>5 DEF PollPublishes
<1> QED
  BY <1>1, <1>2, <1>3, <1>6, PublicationKept

LEMMA AdoptCommentKeeps == ASSUME IInv, AdoptComment PROVE IInv'
<1> DEFINE c == Min(OwnedBy(poll.key))
<1>1. /\ poll.at = "comment" /\ OwnedBy(poll.key) # {}
      /\ comments' = [comments EXCEPT ![c].shows = poll.step]
      /\ GotoWith("bind", c)
      /\ UNCHANGED <<attempts, artifacts, decision, bundle, intents, issue, branch, base_kept,
                     pulls, todo, approved, touched, edits, faults>>
  BY DEF AdoptComment, store_vars, people_vars
<1>2. OwnedBy(poll.key) \subseteq Live /\ OwnedBy(poll.key) \subseteq Nat
  BY Facts DEF OwnedBy, Live
<1>3. c \in OwnedBy(poll.key)
  BY <1>1, <1>2, MinIsMember
<1>4. c \in Live /\ c \in Nat
  BY <1>2, <1>3
<1> HIDE DEF c
<1>5. CommentsKept'
  BY <1>1, <1>4, CommentShown
<1>6. AttemptsKept' /\ Rows' /\ ForgeKept' /\ World'
  BY <1>1, AttemptsStay, RowsStay, ForgeStays, WorldStays
<1>7. PollKept'
  BY <1>1, <1>4, BindingKept
<1> QED
  BY <1>5, <1>6, <1>7, StepKeeps

LEMMA CreateCommentKeeps == ASSUME IInv, CreateComment PROVE IInv'
<1> DEFINE x == [intent |-> poll.key, live |-> TRUE, shows |-> poll.step]
           l == Len(comments) + 1
<1>1. /\ poll.at = "comment" /\ OwnedBy(poll.key) = {}
      /\ comments' = Append(comments, x) /\ GotoWith("bind", l)
      /\ UNCHANGED <<attempts, artifacts, decision, bundle, intents, issue, branch, base_kept,
                     pulls, todo, approved, touched, edits, faults>>
  BY DEF CreateComment, store_vars, people_vars
<1>2. poll.at \in Publication /\ poll.step \in Texts
  BY <1>1, AtComment
<1>3. poll.key \in Nat \ {0}
  BY <1>2, AtPublication, Facts
<1>4. x \in Comment /\ x.intent = poll.key /\ x.live
  BY <1>2, <1>3 DEF Comment
<1> HIDE DEF x
<1>5. comments \in Seq(Comment) /\ CommentsOnce
  BY Facts DEF CommentsKept
<1>6. /\ comments' \in Seq(Comment) /\ DOMAIN comments = 1..Len(comments)
      /\ Len(comments) \in Nat /\ DOMAIN comments' = 1..l
      /\ comments'[l] = x /\ \A d \in DOMAIN comments : comments'[d] = comments[d]
  BY <1>1, <1>4, <1>5, AppendIs
<1>7. Live' \subseteq Live \cup {l} /\ Live \subseteq DOMAIN comments
  BY <1>6 DEF Live
<1>8. ASSUME NEW d \in Live PROVE comments[d].intent # poll.key
  BY <1>1 DEF OwnedBy
<1>9. CommentsOnce'
  <2>1. ASSUME NEW d \in Live', NEW e \in Live', comments'[d].intent = comments'[e].intent
        PROVE  d = e
    <3>1. CASE d \in Live /\ e \in Live
      BY <1>5, <1>6, <1>7, <2>1, <3>1 DEF CommentsOnce
    <3>2. CASE d = l /\ e \in Live
      BY <1>4, <1>6, <1>7, <1>8, <2>1, <3>2
    <3>3. CASE d \in Live /\ e = l
      BY <1>4, <1>6, <1>7, <1>8, <2>1, <3>3
    <3>4. CASE d = l /\ e = l
      BY <3>4
    <3> QED
      BY <1>7, <3>1, <3>2, <3>3, <3>4
  <2> QED
    BY <2>1 DEF CommentsOnce
<1>10. CommentsKept'
  BY <1>6, <1>9 DEF CommentsKept
<1>11. AttemptsKept' /\ Rows' /\ ForgeKept' /\ World'
  BY <1>1, AttemptsStay, RowsStay, ForgeStays, WorldStays
<1>12. PollKept'
  BY <1>1, <1>6, BindingKept
<1> QED
  BY <1>10, <1>11, <1>12, StepKeeps

LEMMA BindCommentKeeps == ASSUME IInv, BindComment PROVE IInv'
<1> DEFINE x == [intents[poll.key] EXCEPT !.comment = poll.number, !.ripe = FALSE]
<1>1. /\ poll.at = "bind" /\ BindIntent(poll.key, poll.number) /\ poll' = AfterComment
      /\ UNCHANGED <<attempts, artifacts, decision, bundle, issue, comments, branch, base_kept,
                     pulls, todo, approved, touched, edits, faults>>
  BY DEF BindComment, forge_vars, people_vars
<1>2. poll.at \in Publication
  BY <1>1, AtComment
<1>3. /\ poll.key \in DOMAIN intents /\ IntentOf = intents[poll.key] /\ IntentOf \in Intent
      /\ IntentOf.status = "pending" /\ poll.number \in Nat
      /\ \A s \in IntentOf.steps : Before[s] \subseteq IntentOf.steps
      /\ "pr_verified" \in IntentOf.steps => artifacts[IntentOf.artifact].draft # 0
  <2>1. "pr_verified" \in IntentOf.steps => artifacts[IntentOf.artifact].draft # 0
    BY <1>2, AtPublication
  <2> QED
    BY <1>2, <2>1, AtPublication, Facts
<1>4. /\ x \in Intent /\ x.kind = IntentOf.kind /\ x.artifact = IntentOf.artifact
      /\ x.steps = IntentOf.steps /\ x.status = IntentOf.status
  BY <1>3 DEF Intent
<1>5. intents' = [intents EXCEPT ![poll.key] = x]
  BY <1>1 DEF BindIntent
<1> HIDE DEF x
<1>6. /\ AttemptsKept' /\ Rows' /\ CommentsKept' /\ ForgeKept'
      /\ Len(intents') = Len(intents) /\ DOMAIN intents' = DOMAIN intents
      /\ intents'[poll.key] = x /\ \A i \in DOMAIN intents : i # poll.key => intents'[i] = intents[i]
  BY <1>1, <1>3, <1>4, <1>5, IntentWritten
<1>7. World'
  BY <1>1, WorldStays
<1>8. PollKept'
  BY <1>1, <1>4, <1>6, AfterCommentKept
<1> QED
  BY <1>6, <1>7, <1>8, StepKeeps

----------------------------------------------------------------------------
(* Automatic publication *)

\* A publication gives way to what the poll does next.
LEMMA ReturnStep ==
    ASSUME IInv, poll.at \in Publication,
           AttemptsKept', Rows', CommentsKept', ForgeKept', World',
           poll' = AfterPublication, UNCHANGED todo,
           Len(intents') \in Nat, DOMAIN intents' = 1..Len(intents'),
           Pending \ {poll.key} \subseteq Pending'
    PROVE  IInv'
<1>1. poll' \in Poll /\ poll'.at \in Resting /\ poll'.context = "none" /\ poll'.key = 0
  BY Facts, AfterType
<1>2. todo \subseteq Pending /\ poll.key \notin todo
  BY AtPublication
<1>3. todo' \subseteq Pending'
  BY <1>2
<1> QED
  BY <1>1, <1>3, RestStep

\* A publication whose steps stay goes on to be pending or blocked.
LEMMA IntentMarked ==
    ASSUME IInv, NEW k \in DOMAIN intents, NEW x \in Intent,
           intents' = [intents EXCEPT ![k] = x], x.kind = intents[k].kind,
           x.artifact = intents[k].artifact, x.steps = intents[k].steps,
           x.status = "pending", intents[k].status \in {"pending", "blocked"},
           UNCHANGED <<attempts, artifacts, decision, bundle, comments, branch, base_kept,
                       pulls, touched>>
    PROVE  /\ AttemptsKept' /\ Rows' /\ CommentsKept' /\ ForgeKept'
           /\ Len(intents') = Len(intents) /\ DOMAIN intents' = DOMAIN intents
           /\ Len(intents') \in Nat /\ DOMAIN intents' = 1..Len(intents')
           /\ intents'[k] = x /\ \A i \in DOMAIN intents : i # k => intents'[i] = intents[i]
           /\ Pending \subseteq Pending'
<1>1. /\ \A s \in x.steps : Before[s] \subseteq x.steps
      /\ "pr_verified" \in x.steps => artifacts[x.artifact].draft # 0
  BY Facts DEF Rows, IntentSound
<1>2. /\ AttemptsKept' /\ Rows' /\ CommentsKept' /\ ForgeKept'
      /\ Len(intents') = Len(intents) /\ DOMAIN intents' = DOMAIN intents
      /\ Len(intents') \in Nat /\ DOMAIN intents' = 1..Len(intents')
      /\ intents'[k] = x /\ \A i \in DOMAIN intents : i # k => intents'[i] = intents[i]
  BY <1>1, IntentWritten
<1>3. Pending \subseteq Pending'
  BY <1>2 DEF Pending
<1> QED
  BY <1>2, <1>3

LEMMA RevisionDriftsKeeps == ASSUME IInv, RevisionDrifts PROVE IInv'
<1> DEFINE x == [intents[poll.key] EXCEPT !.error = "drift", !.ripe = FALSE]
<1>1. /\ poll.at = "drift" /\ SetWaiting(poll.key, "drift") /\ poll' = AfterPublication
      /\ UNCHANGED <<attempts, artifacts, decision, bundle, issue, comments, branch, base_kept,
                     pulls, todo, approved, touched, edits, faults>>
  BY DEF RevisionDrifts, forge_vars, people_vars
<1>2. poll.at \in Publication
  BY <1>1 DEF Publication, AutomaticOnly
<1>3. /\ poll.key \in DOMAIN intents /\ intents[poll.key] \in Intent
      /\ intents[poll.key].status = "pending"
  BY <1>2, AtPublication
<1>4. /\ x \in Intent /\ x.kind = intents[poll.key].kind
      /\ x.artifact = intents[poll.key].artifact
      /\ x.steps = intents[poll.key].steps /\ x.status = "pending"
  BY <1>3 DEF Intent, Errors
<1>5. intents' = [intents EXCEPT ![poll.key] = x]
  BY <1>1 DEF SetWaiting
<1> HIDE DEF x
<1>6. /\ AttemptsKept' /\ Rows' /\ CommentsKept' /\ ForgeKept'
      /\ Len(intents') \in Nat /\ DOMAIN intents' = 1..Len(intents') /\ Pending \subseteq Pending'
  BY <1>1, <1>3, <1>4, <1>5, IntentMarked
<1>7. World'
  BY <1>1, WorldStays
<1> QED
  BY <1>1, <1>2, <1>6, <1>7, ReturnStep

\* An automatic publication goes on to a place, with its steps and the forge as
\* that place has them.
LEMMA AutomaticGoes ==
    ASSUME IInv, poll.at \in AutomaticOnly, poll' \in Poll, poll'.at \in Publication,
           poll'.key = poll.key, poll'.context = poll.context, UNCHANGED <<attempts, todo>>,
           DOMAIN intents' = DOMAIN intents, Len(intents') = Len(intents),
           \A i \in DOMAIN intents : i # poll.key => intents'[i] = intents[i],
           IntentOf'.kind = IntentOf.kind, IntentOf'.status = IntentOf.status,
           poll'.at \in {"comment", "bind"} =>
               /\ poll'.step \in {"comment_pending", "comment_final"}
               /\ Before[poll'.step] \subseteq IntentOf'.steps,
           poll'.at = "record" =>
               /\ poll'.step \in Steps /\ Before[poll'.step] \subseteq IntentOf'.steps
               /\ poll'.step = "pr_verified" => Persisted' # 0,
           poll'.at \in Pushes => "comment_pending" \in IntentOf'.steps,
           poll'.at \in Pulls => "branch_pushed" \in IntentOf'.steps,
           poll'.at \in Pulls \ {"pulls"} => Persisted' = 0,
           poll'.at \in Hands => "pr_verified" \in IntentOf'.steps,
           poll'.at = "publish" => "comment_final" \in IntentOf'.steps,
           poll'.at = "complete" =>
               "comment_final" \in IntentOf'.steps /\ decision' = "published",
           poll'.at = "create" =>
               \A n \in DOMAIN pulls' : pulls'[n].intent = poll.key => pulls'[n].base # "kept",
           poll'.at = "store_pull" =>
               poll'.number \in DOMAIN pulls' /\ pulls'[poll'.number].intent = poll.key
    PROVE  PollKept'
<1>1. poll.at \in Publication
  BY DEF Publication
<1>2. IntentOf.status = "pending" /\ Automatic
  BY <1>1, Facts DEF PollPublishes
<1>3. IntentOf'.status = "pending" /\ Automatic'
  BY <1>2 DEF Automatic
<1>4. poll'.at \in {"comment", "bind"} => poll'.step \in Texts
  BY DEF Texts, Steps
<1>5. PollPublishes'
  BY <1>3, <1>4 DEF PollPublishes
<1> QED
  BY <1>1, <1>5, PublicationKept

\* Nothing but the poll changes, and its publication goes on.
LEMMA AutomaticStep ==
    ASSUME IInv, poll.at \in AutomaticOnly, poll' \in Poll, poll'.at \in Publication,
           poll'.key = poll.key, poll'.context = poll.context,
           UNCHANGED <<store_vars, forge_vars, people_vars, todo, faults>>,
           poll'.at \notin {"bind", "complete", "publish"},
           poll'.at = "comment" =>
               /\ poll'.step \in {"comment_pending", "comment_final"}
               /\ Before[poll'.step] \subseteq IntentOf.steps,
           poll'.at = "record" =>
               /\ poll'.step \in Steps /\ Before[poll'.step] \subseteq IntentOf.steps
               /\ poll'.step = "pr_verified" => Persisted # 0,
           poll'.at \in Pushes => "comment_pending" \in IntentOf.steps,
           poll'.at \in Pulls => "branch_pushed" \in IntentOf.steps,
           poll'.at \in Pulls \ {"pulls"} => Persisted = 0,
           poll'.at \in Hands => "pr_verified" \in IntentOf.steps,
           poll'.at = "create" =>
               \A n \in DOMAIN pulls : pulls[n].intent = poll.key => pulls[n].base # "kept",
           poll'.at = "store_pull" =>
               poll'.number \in DOMAIN pulls /\ pulls[poll'.number].intent = poll.key
    PROVE  IInv'
<1>1. faults' \in 0..MaxFaults
  BY Facts DEF World
<1>2. /\ AttemptsKept' /\ Rows' /\ CommentsKept' /\ ForgeKept' /\ World'
      /\ attempts' = attempts /\ intents' = intents /\ artifacts' = artifacts /\ pulls' = pulls
  BY <1>1, OnlyPoll
<1>3. IntentOf' = IntentOf
  BY <1>2 DEF IntentOf
<1>4. Persisted' = Persisted
  BY <1>2, <1>3 DEF Persisted, ArtifactOf
<1>5. DOMAIN intents' = DOMAIN intents /\ Len(intents') = Len(intents)
      /\ \A i \in DOMAIN intents : i # poll.key => intents'[i] = intents[i]
  BY <1>2
<1>6. PollKept'
  BY <1>2, <1>3, <1>4, <1>5, AutomaticGoes
<1> QED
  BY <1>2, <1>6, StepKeeps

LEMMA StartPublicationKeeps == ASSUME IInv, StartPublication PROVE IInv'
<1>1. /\ poll.at = "drift"
      /\ UNCHANGED <<store_vars, forge_vars, people_vars, todo, faults>>
  BY DEF StartPublication
<1>2. /\ poll.at \in AutomaticOnly /\ poll \in Poll
      /\ {"comment", "branch", "pulls"} \subseteq Places
      /\ {"comment", "branch", "pulls"} \subseteq Publication
      /\ "comment_pending" \in Texts
  BY <1>1, Facts DEF AutomaticOnly, Publication, Pushes, Pulls, Places, Texts, Steps
<1>3. CASE "comment_pending" \notin IntentOf.steps
  <2>1. poll' = [poll EXCEPT !.at = "comment", !.step = "comment_pending"]
    BY <1>3 DEF StartPublication
  <2>2. /\ poll' \in Poll /\ poll'.at = "comment" /\ poll'.key = poll.key
        /\ poll'.context = poll.context /\ poll'.step = "comment_pending"
    BY <1>2, <2>1, ShowType
  <2>3. Before["comment_pending"] = {}
    BY DEF Before
  <2>4. poll'.at \notin Pushes \cup Pulls \cup Hands
    BY <2>2 DEF Pushes, Pulls, Hands
  <2> QED
    BY <1>1, <1>2, <2>2, <2>3, <2>4, AutomaticStep
<1>4. CASE "comment_pending" \in IntentOf.steps /\ "branch_pushed" \notin IntentOf.steps
  <2>1. Goto("branch")
    BY <1>4 DEF StartPublication, Goto
  <2>2. /\ poll' \in Poll /\ poll'.at = "branch" /\ poll'.key = poll.key
        /\ poll'.context = poll.context
    BY <1>2, <2>1, GotoType
  <2>3. poll'.at \notin Pulls \cup Hands
    BY <2>2 DEF Pulls, Hands
  <2> QED
    BY <1>1, <1>2, <1>4, <2>2, <2>3, AutomaticStep
<1>5. CASE "comment_pending" \in IntentOf.steps /\ "branch_pushed" \in IntentOf.steps
  <2>1. Goto("pulls")
    BY <1>5 DEF StartPublication, Goto
  <2>2. /\ poll' \in Poll /\ poll'.at = "pulls" /\ poll'.key = poll.key
        /\ poll'.context = poll.context
    BY <1>2, <2>1, GotoType
  <2>3. poll'.at \notin Pushes \cup Hands
    BY <2>2 DEF Pushes, Hands
  <2> QED
    BY <1>1, <1>2, <1>5, <2>2, <2>3, AutomaticStep
<1> QED
  BY <1>3, <1>4, <1>5

\* A conflict that people have made ends the publication.
LEMMA ConflictKeeps ==
    ASSUME IInv, poll.at \in Publication, NEW e \in Conflicts, Conflict(e), touched
    PROVE  IInv'
<1>1. /\ SetError(poll.key, "conflict", e) /\ poll' = AfterPublication
      /\ UNCHANGED <<attempts, artifacts, decision, bundle, issue, comments, branch, base_kept,
                     pulls, todo, approved, touched, edits, faults>>
  BY DEF Conflict, forge_vars, people_vars
<1>2. poll.key \in DOMAIN intents /\ intents[poll.key].status = "pending"
  BY AtPublication
<1>3. e \in Errors
  BY DEF Errors
<1>4. /\ AttemptsKept' /\ Rows' /\ CommentsKept' /\ ForgeKept'
      /\ Len(intents') \in Nat /\ DOMAIN intents' = 1..Len(intents')
      /\ Pending \ {poll.key} \subseteq Pending'
  BY <1>1, <1>2, <1>3, ErrorSet
<1>5. World'
  BY <1>1, WorldStays
<1> QED
  BY <1>1, <1>4, <1>5, ReturnStep

LEMMA BaseConflictKeeps == ASSUME IInv, BaseConflict PROVE IInv'
<1>1. poll.at = "branch" /\ ~base_kept /\ Conflict("base")
  BY DEF BaseConflict
<1>2. poll.at \in Publication /\ "base" \in Conflicts
  BY <1>1 DEF Publication, AutomaticOnly, Pushes, Conflicts
<1>3. touched
  BY <1>1, Facts DEF ForgeKept, ForgeSound, World
<1> QED
  BY <1>1, <1>2, <1>3, ConflictKeeps

LEMMA BranchConflictKeeps == ASSUME IInv, BranchConflict PROVE IInv'
<1>1. poll.at = "branch" /\ branch \notin {Absent, bundle} /\ Conflict("branch")
  BY DEF BranchConflict, BranchDiverged
<1>2. poll.at \in Publication /\ "branch" \in Conflicts
  BY <1>1 DEF Publication, AutomaticOnly, Pushes, Conflicts
<1>3. touched
  BY <1>1, Facts DEF ForgeKept, ForgeSound, World
<1> QED
  BY <1>1, <1>2, <1>3, ConflictKeeps

\* A publication goes on to record a step that is next.
LEMMA RecordStepKeeps ==
    ASSUME IInv, poll.at \in AutomaticOnly, NEW s \in Steps, Record(s),
           Before[s] \subseteq IntentOf.steps, s = "pr_verified" => Persisted # 0,
           UNCHANGED <<store_vars, forge_vars, people_vars, todo, faults>>
    PROVE  IInv'
<1>1. poll \in Poll
  BY Facts
<1>2. /\ poll' \in Poll /\ poll'.at = "record" /\ poll'.key = poll.key
      /\ poll'.context = poll.context /\ poll'.step = s
  BY <1>1, RecordType
<1>3. poll'.at \in Publication /\ poll'.at \notin Pushes \cup Pulls \cup Hands
  BY <1>2 DEF Publication, AutomaticOnly, Pushes, Pulls, Hands
<1> QED
  BY <1>2, <1>3, AutomaticStep

LEMMA AtPushing ==
    ASSUME IInv, poll.at \in Pushes
    PROVE  /\ poll.at \in AutomaticOnly /\ poll.at \in Publication /\ Automatic
           /\ "comment_pending" \in IntentOf.steps
           /\ Before["branch_pushed"] \subseteq IntentOf.steps
<1>1. poll.at \in AutomaticOnly /\ poll.at \in Publication
  BY DEF AutomaticOnly, Publication
<1>2. "comment_pending" \in IntentOf.steps /\ Automatic
  BY <1>1, Facts DEF PollPublishes
<1>3. Before["branch_pushed"] = {"comment_pending"}
  BY DEF Before
<1> QED
  BY <1>1, <1>2, <1>3

LEMMA ObserveBranchKeeps == ASSUME IInv, ObserveBranch PROVE IInv'
<1>1. /\ poll.at = "branch" /\ (Goto("push") \/ Record("branch_pushed"))
      /\ UNCHANGED <<store_vars, forge_vars, people_vars, todo, faults>>
  BY DEF ObserveBranch
<1>2. poll.at \in Pushes /\ "push" \in Places /\ "push" \in Publication
      /\ "push" \notin Pulls \cup Hands /\ "branch_pushed" \in Steps
  BY <1>1 DEF Pushes, Pulls, Hands, Places, Publication, AutomaticOnly, Steps
<1>3. CASE Record("branch_pushed")
  BY <1>1, <1>2, <1>3, AtPushing, RecordStepKeeps
<1>4. CASE Goto("push")
  <2>1. /\ poll' \in Poll /\ poll'.at = "push" /\ poll'.key = poll.key
        /\ poll'.context = poll.context
    BY <1>2, <1>4, Facts, GotoType
  <2> QED
    BY <1>1, <1>2, <2>1, AtPushing, AutomaticStep
<1> QED
  BY <1>1, <1>3, <1>4

LEMMA ConfirmPushKeeps == ASSUME IInv, ConfirmPush PROVE IInv'
<1>1. /\ poll.at = "confirm" /\ Record("branch_pushed")
      /\ UNCHANGED <<store_vars, forge_vars, people_vars, todo, faults>>
  BY DEF ConfirmPush
<1>2. poll.at \in Pushes /\ "branch_pushed" \in Steps
  BY <1>1 DEF Pushes, Steps
<1> QED
  BY <1>1, <1>2, AtPushing, RecordStepKeeps

LEMMA PushKeeps == ASSUME IInv, Push PROVE IInv'
<1>1. /\ poll.at = "push" /\ branch' = bundle /\ Goto("confirm")
      /\ UNCHANGED <<attempts, artifacts, decision, bundle, intents, issue, comments, base_kept,
                     pulls, todo, approved, touched, edits, faults>>
  BY DEF Push, store_vars, people_vars
<1>2. poll.at \in Pushes /\ "confirm" \in Places /\ "confirm" \in Publication
      /\ "confirm" \notin Pulls \cup Hands
  BY <1>1 DEF Pushes, Pulls, Hands, Places, Publication, AutomaticOnly
<1>3. /\ poll.at \in AutomaticOnly /\ poll.at \in Publication /\ Automatic
      /\ "comment_pending" \in IntentOf.steps
  BY <1>2, AtPushing
<1>4. /\ poll.key \in DOMAIN intents /\ intents[poll.key].kind = "automatic"
      /\ bundle \in DOMAIN artifacts
  BY <1>3, AtPublication DEF Automatic
<1>5. bundle # Absent
  BY <1>4, Facts DEF Absent
<1>6. AttemptsKept' /\ Rows' /\ CommentsKept' /\ World'
  BY <1>1, AttemptsStay, RowsStay, CommentsStay, WorldStays
<1>7. /\ artifacts' = artifacts /\ intents' = intents /\ pulls' = pulls /\ bundle' = bundle
      /\ base_kept' = base_kept /\ touched' = touched
  BY <1>1
<1>8. ForgeSound'
  BY <1>1, <1>4, <1>5, <1>7, Facts DEF ForgeKept, ForgeSound
<1>9. ForgeKept'
  BY <1>1, <1>4, <1>7, <1>8, Facts DEF ForgeKept, PullsOnce, ConflictsAreHuman
<1>10. /\ poll' \in Poll /\ poll'.at = "confirm" /\ poll'.key = poll.key
       /\ poll'.context = poll.context
  BY <1>1, <1>2, Facts, GotoType
<1>11. IntentOf' = IntentOf
  BY <1>7, <1>10 DEF IntentOf
<1>12. PollKept'
  BY <1>1, <1>2, <1>3, <1>7, <1>10, <1>11, AutomaticGoes
<1> QED
  BY <1>6, <1>9, <1>12, StepKeeps

\* What each recorded step is followed by has all the steps it needs.
LEMMA RecordProgressKeeps == ASSUME IInv, RecordProgress PROVE IInv'
<1> DEFINE x == [intents[poll.key] EXCEPT !.steps = intents[poll.key].steps \cup {poll.step},
                                          !.error = "none", !.ripe = FALSE]
           t == IF poll.step = "route_applied" THEN "comment_final" ELSE "none"
<1>1. /\ poll.at = "record" /\ RecordStep(poll.key, poll.step)
      /\ poll' = [poll EXCEPT !.at = After[poll.step], !.step = t]
      /\ UNCHANGED <<attempts, artifacts, decision, bundle, issue, comments, branch, base_kept,
                     pulls, todo, approved, touched, edits, faults>>
  BY DEF RecordProgress, forge_vars, people_vars
<1>2. poll.at \in Publication /\ poll.at \in AutomaticOnly
  BY <1>1 DEF Publication, AutomaticOnly
<1>3. /\ poll.key \in DOMAIN intents /\ IntentOf = intents[poll.key] /\ IntentOf \in Intent
      /\ IntentOf.status = "pending" /\ Persisted = ArtifactOf.draft
      /\ ArtifactOf = artifacts[IntentOf.artifact]
      /\ \A s \in IntentOf.steps : Before[s] \subseteq IntentOf.steps
      /\ "pr_verified" \in IntentOf.steps => Persisted # 0
  BY <1>2, AtPublication
<1>4. /\ poll.step \in Steps /\ Before[poll.step] \subseteq IntentOf.steps
      /\ poll.step = "pr_verified" => Persisted # 0
  BY <1>1, <1>2, Facts DEF PollPublishes
<1>5. /\ x \in Intent /\ x.kind = IntentOf.kind /\ x.artifact = IntentOf.artifact
      /\ x.steps = IntentOf.steps \cup {poll.step} /\ x.status = "pending"
  <2>1. IntentOf.steps \cup {poll.step} \in SUBSET Steps
    BY <1>3, <1>4 DEF Intent
  <2>2. "none" \in Errors
    BY DEF Errors
  <2> QED
    BY <1>3, <2>1, <2>2 DEF Intent
<1>6. intents' = [intents EXCEPT ![poll.key] = x]
  BY <1>1, <1>3 DEF RecordStep
<1> HIDE DEF x
<1>7. /\ \A s \in x.steps : Before[s] \subseteq x.steps
      /\ "pr_verified" \in x.steps => artifacts[x.artifact].draft # 0
  BY <1>3, <1>4, <1>5
<1>8. /\ AttemptsKept' /\ Rows' /\ CommentsKept' /\ ForgeKept'
      /\ Len(intents') = Len(intents) /\ DOMAIN intents' = DOMAIN intents
      /\ intents'[poll.key] = x /\ \A i \in DOMAIN intents : i # poll.key => intents'[i] = intents[i]
  BY <1>1, <1>3, <1>5, <1>6, <1>7, IntentWritten
<1>9. World'
  BY <1>1, WorldStays
<1>10. /\ After[poll.step] \in Places /\ t \in {"none"} \cup Texts
       /\ After[poll.step] \in Publication
  BY <1>4 DEF After, Steps, Places, Texts, Publication, AutomaticOnly, Pushes, Pulls, Hands
<1>11. /\ poll' \in Poll /\ poll'.at = After[poll.step] /\ poll'.key = poll.key
       /\ poll'.context = poll.context /\ poll'.step = t
  BY <1>1, <1>10, Facts, ShowType
<1>12. IntentOf' = x
  BY <1>8, <1>11 DEF IntentOf
<1>13. poll'.at \in {"comment", "branch", "pulls", "labels", "publish"}
  BY <1>4, <1>11 DEF After, Steps
<1>14. /\ poll'.at = "comment" => poll.step = "route_applied"
       /\ poll'.at = "branch" => poll.step = "comment_pending"
       /\ poll'.at = "pulls" => poll.step = "branch_pushed"
       /\ poll'.at = "labels" => poll.step = "pr_verified"
       /\ poll'.at = "publish" => poll.step = "comment_final"
  BY <1>4, <1>11 DEF After, Steps
<1>15. poll.step = "route_applied" => Before["comment_final"] \subseteq x.steps
  BY <1>4, <1>5 DEF Before, Steps
<1>16. /\ poll'.at \in Pushes => poll'.at = "branch"
       /\ poll'.at \in Pulls => poll'.at = "pulls"
       /\ poll'.at \in Hands => poll'.at = "labels"
  BY <1>13 DEF Pushes, Pulls, Hands
<1>17. PollKept'
  <2>1. poll.step \in x.steps
    BY <1>5
  <2>2. /\ poll'.at \in {"comment", "bind"} =>
               /\ poll'.step \in {"comment_pending", "comment_final"}
               /\ Before[poll'.step] \subseteq IntentOf'.steps
    BY <1>11, <1>12, <1>13, <1>14, <1>15
  <2>3. /\ poll'.at \in Pushes => "comment_pending" \in IntentOf'.steps
        /\ poll'.at \in Pulls => "branch_pushed" \in IntentOf'.steps
        /\ poll'.at \notin Pulls \ {"pulls"}
        /\ poll'.at \in Hands => "pr_verified" \in IntentOf'.steps
        /\ poll'.at = "publish" => "comment_final" \in IntentOf'.steps
    BY <1>12, <1>14, <1>16, <2>1
  <2> QED
    BY <1>1, <1>2, <1>5, <1>3, <1>8, <1>10, <1>11, <1>12, <1>13, <2>2, <2>3, AutomaticGoes
<1> QED
  BY <1>8, <1>9, <1>17, StepKeeps

\* What is known while the pull request is looked for, and while nobody has touched it.
LEMMA AtPulls ==
    ASSUME IInv, poll.at \in Pulls
    PROVE  /\ poll.at \in AutomaticOnly /\ poll.at \in Publication /\ Automatic
           /\ "branch_pushed" \in IntentOf.steps
           /\ Before["pr_verified"] \subseteq IntentOf.steps
           /\ poll.at # "pulls" => Persisted = 0
           /\ ~touched => \A n \in DOMAIN pulls : pulls[n].intent = poll.key /\ Verified(n)
           /\ ~touched => \A m, n \in DOMAIN pulls : m = n
<1>1. poll.at \in AutomaticOnly /\ poll.at \in Publication
  BY DEF AutomaticOnly, Publication
<1>2. /\ "branch_pushed" \in IntentOf.steps /\ Automatic
      /\ poll.at # "pulls" => Persisted = 0
  BY <1>1, Facts DEF PollPublishes
<1>3. Before["branch_pushed"] = {"comment_pending"}
      /\ Before["pr_verified"] = {"comment_pending", "branch_pushed"}
  BY DEF Before
<1>4. Before["branch_pushed"] \subseteq IntentOf.steps
  BY <1>1, <1>2, AtPublication
<1>5. ForgeSound /\ ConflictsAreHuman /\ BundleKept /\ IntentSound
  BY Facts DEF Rows, ForgeKept
<1>6. /\ poll.key \in DOMAIN intents /\ IntentOf = intents[poll.key]
      /\ bundle = IntentOf.artifact
  BY <1>1, <1>2, AtPublication
<1>7. ASSUME ~touched, NEW n \in DOMAIN pulls
      PROVE  pulls[n].intent = poll.key /\ Verified(n)
  <2>1. /\ pulls[n].open /\ pulls[n].draft /\ pulls[n].intent \in DOMAIN intents
        /\ intents[pulls[n].intent].kind = "automatic" /\ branch \in {Absent, bundle}
        /\ pulls # <<>> => branch # Absent
    BY <1>5, <1>7 DEF ForgeSound
  <2>2. pulls # <<>>
    BY <1>7, Facts
  <2>3. Verified(n)
    BY <2>1, <2>2 DEF Verified
  <2>4. bundle = intents[pulls[n].intent].artifact
    BY <1>5, <1>7, <2>1 DEF ConflictsAreHuman, BundleKept
  <2>5. pulls[n].intent = poll.key
    BY <1>5, <1>6, <2>1, <2>4 DEF IntentSound
  <2> QED
    BY <2>3, <2>5
<1>8. ASSUME ~touched PROVE \A m, n \in DOMAIN pulls : m = n
  BY <1>5, <1>8 DEF ForgeSound
<1> QED
  BY <1>1, <1>2, <1>3, <1>4, <1>7, <1>8

LEMMA ReverifyPullKeeps == ASSUME IInv, ReverifyPull PROVE IInv'
<1>1. /\ poll.at = "pulls" /\ Persisted \in Listed /\ Verify
      /\ UNCHANGED <<store_vars, forge_vars, people_vars, todo, faults>>
  BY DEF ReverifyPull
<1>2. poll.at \in Pulls
  BY <1>1 DEF Pulls
<1>3. /\ poll.at \in AutomaticOnly /\ poll.at \in Publication
      /\ "branch_pushed" \in IntentOf.steps /\ Before["pr_verified"] \subseteq IntentOf.steps
  BY <1>2, AtPulls
<1>4. Persisted # 0 /\ poll \in Poll
  BY <1>1, Facts DEF Listed
<1>5. /\ {"record", "labels", "comment", "publish"} \subseteq Places
      /\ {"record", "labels", "comment", "publish"} \subseteq Publication
      /\ {"record", "labels", "comment", "publish"} \cap (Pushes \cup Pulls) = {}
      /\ {"record", "comment", "publish"} \cap Hands = {}
      /\ "pr_verified" \in Steps /\ "pr_verified" \in Texts /\ "comment_final" \in Texts
  BY DEF Places, Publication, AutomaticOnly, Pushes, Pulls, Hands, Texts, Steps
<1>6. CASE Following = "pr_verified"
  <2>1. poll' = [poll EXCEPT !.at = "record", !.step = "pr_verified"]
    BY <1>1, <1>6 DEF Verify
  <2>2. /\ poll' \in Poll /\ poll'.at = "record" /\ poll'.key = poll.key
        /\ poll'.context = poll.context /\ poll'.step = "pr_verified"
    BY <1>4, <1>5, <2>1, ShowType
  <2> QED
    BY <1>1, <1>3, <1>4, <1>5, <2>2, AutomaticStep
<1>7. CASE Following = "route_applied"
  <2>1. Goto("labels")
    BY <1>1, <1>7 DEF Verify, Goto
  <2>2. "pr_verified" \in IntentOf.steps
    BY <1>7 DEF Following
  <2>3. /\ poll' \in Poll /\ poll'.at = "labels" /\ poll'.key = poll.key
        /\ poll'.context = poll.context
    BY <1>4, <1>5, <2>1, GotoType
  <2> QED
    BY <1>1, <1>3, <1>5, <2>2, <2>3, AutomaticStep
<1>8. CASE Following = "comment_final"
  <2>1. poll' = [poll EXCEPT !.at = "comment", !.step = "comment_final"]
    BY <1>1, <1>8 DEF Verify
  <2>2. "pr_verified" \in IntentOf.steps /\ "route_applied" \in IntentOf.steps
    BY <1>8 DEF Following
  <2>3. Before["route_applied"] \subseteq IntentOf.steps
    BY <1>3, <2>2, AtPublication
  <2>4. Before["comment_final"] \subseteq IntentOf.steps
    BY <2>2, <2>3 DEF Before, Steps
  <2>5. /\ poll' \in Poll /\ poll'.at = "comment" /\ poll'.key = poll.key
        /\ poll'.context = poll.context /\ poll'.step = "comment_final"
    BY <1>4, <1>5, <2>1, ShowType
  <2> QED
    BY <1>1, <1>3, <1>5, <2>4, <2>5, AutomaticStep
<1>9. CASE Following = "none"
  <2>1. Goto("publish")
    BY <1>1, <1>9 DEF Verify, Goto
  <2>2. "comment_final" \in IntentOf.steps
    BY <1>9 DEF Following
  <2>3. /\ poll' \in Poll /\ poll'.at = "publish" /\ poll'.key = poll.key
        /\ poll'.context = poll.context
    BY <1>4, <1>5, <2>1, GotoType
  <2>4. faults' \in 0..MaxFaults
    BY <1>1, Facts DEF World
  <2>5. /\ AttemptsKept' /\ Rows' /\ CommentsKept' /\ ForgeKept' /\ World'
        /\ intents' = intents /\ attempts' = attempts
    BY <1>1, <2>4, OnlyPoll
  <2>6. IntentOf' = IntentOf
    BY <2>3, <2>5 DEF IntentOf
  <2>7. PollKept'
    BY <1>1, <1>3, <1>5, <2>2, <2>3, <2>5, <2>6, AutomaticGoes
  <2> QED
    BY <2>5, <2>7, StepKeeps
<1>10. Following \in {"pr_verified", "route_applied", "comment_final", "none"}
  BY DEF Following
<1> QED
  BY <1>6, <1>7, <1>8, <1>9, <1>10

LEMMA StoredPullDriftedKeeps == ASSUME IInv, StoredPullDrifted PROVE IInv'
<1>1. /\ poll.at = "pulls" /\ Persisted \in Listed /\ ~Verified(Persisted)
      /\ Conflict("pull_drift")
  BY DEF StoredPullDrifted
<1>2. poll.at \in Pulls /\ "pull_drift" \in Conflicts
  BY <1>1 DEF Pulls, Conflicts
<1>3. poll.at \in Publication /\ (touched \/ ~touched)
  BY <1>2, AtPulls
<1>4. touched
  BY <1>1, <1>2, AtPulls DEF Listed
<1> QED
  BY <1>1, <1>2, <1>3, <1>4, ConflictKeeps

LEMMA PullNotVisibleKeeps == ASSUME IInv, PullNotVisible PROVE IInv'
<1>1. /\ poll.at = "pulls" /\ SetError(poll.key, "pending", "not_visible")
      /\ poll' = AfterPublication
      /\ UNCHANGED <<attempts, artifacts, decision, bundle, issue, comments, branch, base_kept,
                     pulls, todo, approved, touched, edits, faults>>
  BY DEF PullNotVisible, forge_vars, people_vars
<1>2. poll.at \in Publication /\ "not_visible" \in Errors
  BY <1>1 DEF Publication, AutomaticOnly, Pulls, Errors
<1>3. poll.key \in DOMAIN intents /\ intents[poll.key].status = "pending"
  BY <1>2, AtPublication
<1>4. /\ AttemptsKept' /\ Rows' /\ CommentsKept' /\ ForgeKept'
      /\ Len(intents') \in Nat /\ DOMAIN intents' = 1..Len(intents')
      /\ Pending \ {poll.key} \subseteq Pending'
  BY <1>1, <1>2, <1>3, ErrorSet
<1>5. World'
  BY <1>1, WorldStays
<1> QED
  BY <1>1, <1>2, <1>4, <1>5, ReturnStep

LEMMA PullConflictKeeps == ASSUME IInv, PullConflict PROVE IInv'
<1>1. poll.at = "pulls" /\ Diverged /\ Conflict("pull")
  BY DEF PullConflict
<1>2. poll.at \in Pulls /\ "pull" \in Conflicts
  BY <1>1 DEF Pulls, Conflicts
<1>3. poll.at \in Publication
  BY <1>2, AtPulls
<1>4. ASSUME ~touched PROVE FALSE
  <2>1. \A n \in DOMAIN pulls : pulls[n].intent = poll.key /\ Verified(n)
    BY <1>2, <1>4, AtPulls
  <2>2. \A m, n \in DOMAIN pulls : m = n
    BY <1>2, <1>4, AtPulls
  <2>3. ClosedOwned = {}
    BY <2>1 DEF ClosedOwned, ListedOwned, Listed, Verified
  <2>4. ForeignOpen = {}
    BY <2>1 DEF ForeignOpen, ListedOwned, Listed, Marked
  <2>5. OpenOwned \subseteq DOMAIN pulls
    BY DEF OpenOwned, ListedOwned, Listed
  <2>6. Cardinality(OpenOwned) <= 1
    BY <2>2, <2>5, AtMostOne
  <2>7. Cardinality(OpenOwned) \in Nat
    <3>1. IsFiniteSet(1..Len(pulls))
      BY Facts, FS_Interval
    <3> QED
      BY <2>5, <3>1, Facts, FS_Subset, FS_CardinalityType
  <2>8. ~(Cardinality(OpenOwned) > 1)
    BY <2>6, <2>7
  <2>9. \A n \in OpenOwned : Verified(n)
    BY <2>1, <2>5
  <2> QED
    BY <1>1, <2>3, <2>4, <2>8, <2>9 DEF Diverged
<1>5. touched
  BY <1>4
<1> QED
  BY <1>1, <1>2, <1>3, <1>5, ConflictKeeps

LEMMA AdoptPullKeeps == ASSUME IInv, AdoptPull PROVE IInv'
<1>1. PICK n \in OpenOwned : GotoWith("store_pull", n)
  BY DEF AdoptPull
<1>2. /\ poll.at = "pulls" /\ Persisted = 0
      /\ UNCHANGED <<store_vars, forge_vars, people_vars, todo, faults>>
  BY DEF AdoptPull
<1>3. n \in DOMAIN pulls /\ pulls[n].intent = poll.key /\ n \in Nat
  BY <1>1, Facts DEF OpenOwned, ListedOwned, Listed, Marked
<1>4. /\ poll.at \in Pulls /\ "store_pull" \in Places /\ "store_pull" \in Publication
      /\ "store_pull" \notin Pushes \cup Hands
  BY <1>2 DEF Pulls, Places, Publication, AutomaticOnly, Pushes, Hands
<1>5. /\ poll' \in Poll /\ poll'.at = "store_pull" /\ poll'.key = poll.key
      /\ poll'.context = poll.context /\ poll'.number = n
  BY <1>1, <1>3, <1>4, Facts, GotoWithType
<1> QED
  BY <1>2, <1>3, <1>4, <1>5, AtPulls, AutomaticStep

LEMMA NoPullKeeps == ASSUME IInv, NoPull PROVE IInv'
<1>1. /\ poll.at = "pulls" /\ Persisted = 0 /\ ~Diverged /\ OpenOwned = {} /\ Goto("create")
      /\ UNCHANGED <<store_vars, forge_vars, people_vars, todo, faults>>
  BY DEF NoPull
<1>2. /\ poll.at \in Pulls /\ "create" \in Places /\ "create" \in Publication
      /\ "create" \notin Pushes \cup Hands
  BY <1>1 DEF Pulls, Places, Publication, AutomaticOnly, Pushes, Hands
<1>3. /\ poll' \in Poll /\ poll'.at = "create" /\ poll'.key = poll.key
      /\ poll'.context = poll.context
  BY <1>1, <1>2, Facts, GotoType
<1>4. ListedOwned = {}
  BY <1>1 DEF Diverged, ClosedOwned, OpenOwned
<1>5. \A n \in DOMAIN pulls : pulls[n].intent = poll.key => pulls[n].base # "kept"
  BY <1>4 DEF ListedOwned, Listed, Marked
<1> QED
  BY <1>1, <1>2, <1>3, <1>5, AtPulls, AutomaticStep

LEMMA CreatePullKeeps == ASSUME IInv, CreatePull PROVE IInv'
<1> DEFINE q == [intent |-> poll.key, open |-> TRUE, draft |-> TRUE, base |-> "kept"]
           l == Len(pulls) + 1
<1>1. /\ poll.at = "create" /\ MayOpen /\ pulls' = Append(pulls, q)
      /\ GotoWith("store_pull", l) \/ GotoWith("mismatch", l)
      /\ UNCHANGED <<attempts, artifacts, decision, bundle, intents, issue, comments, branch,
                     base_kept, todo, approved, touched, edits, faults>>
  <2>1. CASE branch = bundle
    BY <2>1 DEF CreatePull, store_vars, people_vars
  <2>2. CASE branch # bundle
    BY <2>2 DEF CreatePull, store_vars, people_vars
  <2> QED
    BY <2>1, <2>2
<1>2. poll.at \in Pulls
  BY <1>1 DEF Pulls
<1>3. /\ poll.at \in AutomaticOnly /\ poll.at \in Publication /\ Automatic
      /\ "branch_pushed" \in IntentOf.steps /\ Persisted = 0
  BY <1>1, <1>2, AtPulls
<1>4. /\ poll.key \in DOMAIN intents /\ poll.key \in Nat \ {0}
      /\ intents[poll.key].kind = "automatic"
  BY <1>3, AtPublication, Facts DEF Automatic
<1>5. \A n \in DOMAIN pulls : pulls[n].intent = poll.key => pulls[n].base # "kept"
  BY <1>1, <1>3, Facts DEF PollPublishes
<1>6. q \in Pull /\ q.intent = poll.key /\ q.open /\ q.draft /\ q.base = "kept"
  BY <1>4 DEF Pull
<1> HIDE DEF q
<1>7. pulls \in Seq(Pull) /\ PullsOnce /\ ForgeSound
  BY Facts DEF ForgeKept
<1>8. /\ pulls' \in Seq(Pull) /\ DOMAIN pulls = 1..Len(pulls)
      /\ Len(pulls) \in Nat /\ DOMAIN pulls' = 1..l
      /\ pulls'[l] = q /\ \A n \in DOMAIN pulls : pulls'[n] = pulls[n]
  BY <1>1, <1>6, <1>7, AppendIs
<1>9. PullsOnce'
  <2>1. ASSUME NEW m \in 1..l, NEW n \in 1..l, pulls'[m].intent = pulls'[n].intent,
               pulls'[m].intent # 0, pulls'[m].base = "kept", pulls'[n].base = "kept"
        PROVE  m = n
    <3>1. CASE m = l /\ n = l
      BY <3>1
    <3>2. CASE m = l /\ n # l
      <4>1. n \in DOMAIN pulls
        BY <1>8, <3>2
      <4> QED
        BY <1>5, <1>6, <1>8, <2>1, <3>2, <4>1
    <3>3. CASE m # l /\ n = l
      <4>1. m \in DOMAIN pulls
        BY <1>8, <3>3
      <4> QED
        BY <1>5, <1>6, <1>8, <2>1, <3>3, <4>1
    <3>4. CASE m # l /\ n # l
      <4>1. m \in DOMAIN pulls /\ n \in DOMAIN pulls
        BY <1>8, <3>4
      <4> QED
        BY <1>7, <1>8, <2>1, <4>1 DEF PullsOnce
    <3> QED
      BY <3>1, <3>2, <3>3, <3>4
  <2> QED
    BY <1>8, <2>1 DEF PullsOnce
<1>10. ForgeSound'
  <2>1. ASSUME NEW n \in DOMAIN pulls', pulls'[n].intent # 0
        PROVE  pulls'[n].intent \in DOMAIN intents /\ intents[pulls'[n].intent].kind = "automatic"
    <3>1. CASE n = l
      BY <1>4, <1>6, <1>8, <3>1
    <3>2. CASE n # l
      <4>1. n \in DOMAIN pulls
        BY <1>8, <3>2
      <4> QED
        BY <1>7, <1>8, <2>1, <4>1 DEF ForgeSound
    <3> QED
      BY <3>1, <3>2
  <2>2. ASSUME ~touched
        PROVE  /\ branch # Absent
               /\ \A n \in DOMAIN pulls' : pulls'[n].open /\ pulls'[n].draft
                      /\ pulls'[n].intent # 0 /\ pulls'[n].base = "kept"
               /\ \A m, n \in DOMAIN pulls' : m = n
    <3>1. \A n \in DOMAIN pulls : pulls[n].open /\ pulls[n].base = "kept"
      BY <1>7, <2>2 DEF ForgeSound
    <3>2. DOMAIN pulls = {}
      BY <1>1, <3>1 DEF MayOpen, Listed
    <3>3. DOMAIN pulls' = {l}
      BY <1>8, <3>2
    <3>4. branch # Absent
      BY <1>1 DEF MayOpen
    <3>5. pulls'[l].open /\ pulls'[l].draft /\ pulls'[l].intent # 0 /\ pulls'[l].base = "kept"
      BY <1>4, <1>6, <1>8
    <3> QED
      BY <3>3, <3>4, <3>5
  <2>3. /\ intents' = intents /\ branch' = branch /\ bundle' = bundle /\ base_kept' = base_kept
        /\ touched' = touched
    BY <1>1
  <2> QED
    BY <1>7, <2>1, <2>2, <2>3 DEF ForgeSound
<1>11. ForgeKept'
  BY <1>1, <1>8, <1>9, <1>10, Facts DEF ForgeKept, ConflictsAreHuman
<1>12. AttemptsKept' /\ Rows' /\ CommentsKept' /\ World'
  <2>1. DOMAIN pulls \subseteq DOMAIN pulls' /\ \A n \in DOMAIN pulls : pulls'[n].intent = pulls[n].intent
    BY <1>8
  <2> QED
    BY <1>1, <2>1, AttemptsStay, RowsStay, CommentsStay, WorldStays
<1>13. /\ l \in Nat /\ {"store_pull", "mismatch"} \subseteq Places
       /\ {"store_pull", "mismatch"} \subseteq Publication
       /\ {"store_pull", "mismatch"} \cap (Pushes \cup Hands) = {}
  BY <1>8 DEF Places, Publication, AutomaticOnly, Pushes, Pulls, Hands
<1>14. /\ poll' \in Poll /\ poll'.at \in {"store_pull", "mismatch"} /\ poll'.key = poll.key
       /\ poll'.context = poll.context /\ poll'.number = l
  <2>1. CASE GotoWith("store_pull", l)
    BY <1>13, <2>1, Facts, GotoWithType
  <2>2. CASE GotoWith("mismatch", l)
    BY <1>13, <2>2, Facts, GotoWithType
  <2> QED
    BY <1>1, <2>1, <2>2
<1>15. IntentOf' = IntentOf
  BY <1>1, <1>14 DEF IntentOf
<1>16. Persisted' = 0
  BY <1>1, <1>3, <1>15 DEF Persisted, ArtifactOf
<1>17. l \in DOMAIN pulls' /\ pulls'[l].intent = poll.key
  BY <1>6, <1>8
<1>18. PollKept'
  BY <1>1, <1>3, <1>13, <1>14, <1>15, <1>16, <1>17, AutomaticGoes
<1> QED
  BY <1>11, <1>12, <1>18, StepKeeps

LEMMA StorePullKeeps == ASSUME IInv, StorePull PROVE IInv'
<1> DEFINE k == IntentOf.artifact
           a == [artifacts[k] EXCEPT !.draft = poll.number]
<1>1. /\ poll.at = "store_pull" /\ Record("pr_verified")
      /\ artifacts' = [artifacts EXCEPT ![k] = a]
      /\ UNCHANGED <<attempts, decision, bundle, intents, issue, comments, branch, base_kept,
                     pulls, todo, approved, touched, edits, faults>>
  BY DEF StorePull, forge_vars, people_vars
<1>2. poll.at \in Pulls /\ "pr_verified" \in Steps
  BY <1>1 DEF Pulls, Steps
<1>3. /\ poll.at \in AutomaticOnly /\ poll.at \in Publication
      /\ Before["pr_verified"] \subseteq IntentOf.steps
  BY <1>2, AtPulls
<1>4. /\ k \in DOMAIN artifacts /\ artifacts[k] \in Artifact
      /\ poll.key \in DOMAIN intents /\ IntentOf = intents[poll.key]
  BY <1>3, AtPublication
<1>5. /\ poll.number \in DOMAIN pulls /\ pulls[poll.number].intent = poll.key
      /\ poll.number \in Nat \ {0}
  BY <1>1, <1>3, Facts DEF PollPublishes
<1>6. /\ a \in Artifact /\ a.version = artifacts[k].version /\ a.mode = artifacts[k].mode
      /\ a.outcome = artifacts[k].outcome /\ a.draft = poll.number
  BY <1>4, <1>5 DEF Artifact
<1> HIDE DEF a, k
<1>7. /\ ImplementedOnce /\ AppliedMeansPublished /\ BundleKept /\ IntentSound
      /\ artifacts \in Seq(Artifact)
  BY Facts DEF Rows
<1>8. /\ artifacts' \in Seq(Artifact) /\ Len(artifacts') = Len(artifacts)
      /\ DOMAIN artifacts' = DOMAIN artifacts /\ artifacts'[k] = a
      /\ \A n \in DOMAIN artifacts : n # k => artifacts'[n] = artifacts[n]
  <2>1. artifacts' \in Seq(Artifact) /\ Len(artifacts') = Len(artifacts)
    BY <1>1, <1>4, <1>6, <1>7, ExceptSeq, Facts
  <2> QED
    BY <1>1, <1>4, <2>1, Facts
<1>9. ASSUME NEW n \in DOMAIN artifacts
      PROVE  /\ artifacts'[n].version = artifacts[n].version
             /\ artifacts'[n].mode = artifacts[n].mode
             /\ artifacts'[n].outcome = artifacts[n].outcome
             /\ artifacts[n].draft # 0 => artifacts'[n].draft # 0
  <2>1. CASE n = k
    BY <1>5, <1>6, <1>8, <2>1
  <2>2. CASE n # k
    BY <1>8, <2>2
  <2> QED
    BY <2>1, <2>2
<1>10. ImplementedOnce'
  BY <1>7, <1>8, <1>9 DEF ImplementedOnce
<1>11. \A i \in DOMAIN intents : intents[i].artifact \in DOMAIN artifacts
  BY <1>7 DEF IntentSound
<1>12. AppliedMeansPublished'
  <2>1. intents' = intents /\ decision' = decision
    BY <1>1
  <2> QED
    BY <1>7, <1>9, <1>11, <2>1 DEF AppliedMeansPublished
<1>13. BundleKept'
  BY <1>1, <1>7 DEF BundleKept
<1>14. IntentSound'
  <2>1. intents' = intents /\ pulls' = pulls
    BY <1>1
  <2>2. ASSUME NEW i \in DOMAIN intents
        PROVE  /\ "pr_verified" \in intents[i].steps => artifacts'[intents[i].artifact].draft # 0
               /\ artifacts'[intents[i].artifact].draft # 0 =>
                      /\ artifacts'[intents[i].artifact].draft \in DOMAIN pulls
                      /\ pulls[artifacts'[intents[i].artifact].draft].intent = i
    <3>1. CASE i = poll.key
      BY <1>4, <1>5, <1>6, <1>8, <3>1 DEF k
    <3>2. CASE i # poll.key
      <4>1. intents[i].artifact # k
        BY <1>4, <1>7, <3>2 DEF IntentSound, k
      <4>2. artifacts'[intents[i].artifact] = artifacts[intents[i].artifact]
        BY <1>8, <1>11, <4>1
      <4> QED
        BY <1>7, <4>2 DEF IntentSound
    <3> QED
      BY <3>1, <3>2
  <2> QED
    BY <1>7, <1>8, <2>1, <2>2 DEF IntentSound
<1>15. Rows'
  BY <1>1, <1>8, <1>10, <1>12, <1>13, <1>14, Facts DEF Rows
<1>16. AttemptsKept' /\ CommentsKept' /\ ForgeKept' /\ World'
  BY <1>1, <1>8, AttemptsStay, CommentsStay, ForgeStays, WorldStays
<1>17. /\ poll' \in Poll /\ poll'.at = "record" /\ poll'.key = poll.key
       /\ poll'.context = poll.context /\ poll'.step = "pr_verified"
  BY <1>1, <1>2, Facts, RecordType
<1>18. IntentOf' = IntentOf
  BY <1>1, <1>17 DEF IntentOf
<1>19. Persisted' # 0
  BY <1>5, <1>6, <1>8, <1>18 DEF Persisted, ArtifactOf, k
<1>20. "record" \in Publication /\ "record" \notin Pushes \cup Pulls \cup Hands
  BY DEF Publication, AutomaticOnly, Pushes, Pulls, Hands
<1>21. PollKept'
  BY <1>1, <1>2, <1>3, <1>17, <1>18, <1>19, <1>20, AutomaticGoes
<1> QED
  BY <1>15, <1>16, <1>21, StepKeeps

\* What is known while the issue is handed on.
LEMMA AtHands ==
    ASSUME IInv, poll.at \in Hands
    PROVE  /\ poll.at \in AutomaticOnly /\ poll.at \in Publication
           /\ "pr_verified" \in IntentOf.steps
           /\ Before["route_applied"] \subseteq IntentOf.steps
<1>1. poll.at \in AutomaticOnly /\ poll.at \in Publication
  BY DEF AutomaticOnly, Publication
<1>2. "pr_verified" \in IntentOf.steps
  BY <1>1, Facts DEF PollPublishes
<1>3. Before["pr_verified"] \subseteq IntentOf.steps
  BY <1>1, <1>2, AtPublication
<1>4. Before["route_applied"] = Before["pr_verified"] \cup {"pr_verified"}
  BY DEF Before
<1> QED
  BY <1>1, <1>2, <1>3, <1>4

\* The issue is handed on: nothing else changes.
LEMMA HandsStep ==
    ASSUME IInv, poll.at \in Hands, poll' \in Poll, poll'.at \in Hands, poll'.key = poll.key,
           poll'.context = poll.context,
           issue' \in [text : Revisions, approval_label : BOOLEAN, column : Columns],
           UNCHANGED <<store_vars, comments, branch, base_kept, pulls, todo, people_vars, faults>>
    PROVE  IInv'
<1>1. UNCHANGED <<attempts, artifacts, decision, bundle, intents, comments, branch, base_kept,
                  pulls, todo, approved, touched, edits, faults>>
  BY DEF store_vars, people_vars
<1>2. AttemptsKept' /\ Rows' /\ CommentsKept' /\ ForgeKept'
  BY <1>1, AttemptsStay, RowsStay, CommentsStay, ForgeStays
<1>3. World'
  BY <1>1, Facts DEF World
<1>4. poll.at \in AutomaticOnly /\ "pr_verified" \in IntentOf.steps
  BY AtHands
<1>5. IntentOf' = IntentOf
  BY <1>1 DEF IntentOf
<1>6. poll'.at \in Publication /\ poll'.at \notin Pushes \cup Pulls
      /\ poll'.at \notin {"comment", "bind", "record", "publish", "complete", "create", "store_pull"}
  BY DEF Publication, AutomaticOnly, Pushes, Pulls, Hands
<1>7. PollKept'
  BY <1>1, <1>4, <1>5, <1>6, AutomaticGoes
<1> QED
  BY <1>2, <1>3, <1>7, StepKeeps

LEMMA ListLabelsKeeps == ASSUME IInv, ListLabels PROVE IInv'
<1>1. /\ poll.at = "labels" /\ (GotoWith("unlabel", 1) \/ GotoWith("column", 1))
      /\ UNCHANGED <<store_vars, issue, comments, branch, base_kept, pulls, todo, people_vars, faults>>
  BY DEF ListLabels, forge_vars
<1>2. /\ {"labels", "unlabel", "column"} \subseteq Hands /\ {"unlabel", "column"} \subseteq Places
      /\ 1 \in Nat
  BY DEF Hands, Places
<1>3. poll' \in Poll /\ poll'.at \in Hands /\ poll'.key = poll.key /\ poll'.context = poll.context
  <2>1. CASE GotoWith("unlabel", 1)
    BY <1>2, <2>1, Facts, GotoWithType
  <2>2. CASE GotoWith("column", 1)
    BY <1>2, <2>2, Facts, GotoWithType
  <2> QED
    BY <1>1, <2>1, <2>2
<1>4. issue' \in [text : Revisions, approval_label : BOOLEAN, column : Columns]
  BY <1>1, Facts DEF World
<1> QED
  BY <1>1, <1>2, <1>3, <1>4, HandsStep

LEMMA RemoveLabelKeeps == ASSUME IInv, RemoveLabel PROVE IInv'
<1>1. /\ poll.at = "unlabel" /\ GotoWith("column", 1)
      /\ issue' = [issue EXCEPT !.approval_label = FALSE]
      /\ UNCHANGED <<store_vars, comments, branch, base_kept, pulls, todo, people_vars, faults>>
  BY DEF RemoveLabel
<1>2. {"unlabel", "column"} \subseteq Hands /\ "column" \in Places /\ 1 \in Nat
  BY DEF Hands, Places
<1>3. poll' \in Poll /\ poll'.at \in Hands /\ poll'.key = poll.key /\ poll'.context = poll.context
  BY <1>1, <1>2, Facts, GotoWithType
<1>4. issue' \in [text : Revisions, approval_label : BOOLEAN, column : Columns]
  BY <1>1, Facts DEF World
<1> QED
  BY <1>1, <1>2, <1>3, <1>4, HandsStep

LEMMA SetColumnKeeps == ASSUME IInv, SetColumn PROVE IInv'
<1>1. /\ poll.at = "column" /\ Goto("observe")
      /\ issue' = [issue EXCEPT !.column = "agent_review"]
      /\ UNCHANGED <<store_vars, comments, branch, base_kept, pulls, todo, people_vars, faults>>
  BY DEF SetColumn
<1>2. {"column", "observe"} \subseteq Hands /\ "observe" \in Places /\ "agent_review" \in Columns
  BY DEF Hands, Places, Columns
<1>3. poll' \in Poll /\ poll'.at \in Hands /\ poll'.key = poll.key /\ poll'.context = poll.context
  BY <1>1, <1>2, Facts, GotoType
<1>4. issue' \in [text : Revisions, approval_label : BOOLEAN, column : Columns]
  BY <1>1, <1>2, Facts DEF World
<1> QED
  BY <1>1, <1>2, <1>3, <1>4, HandsStep

LEMMA ObserveColumnKeeps == ASSUME IInv, ObserveColumn PROVE IInv'
<1>1. /\ poll.at = "observe"
      /\ Record("route_applied") \/ (poll.number < 3 /\ GotoWith("column", poll.number + 1))
      /\ UNCHANGED <<store_vars, forge_vars, people_vars, todo, faults>>
  BY DEF ObserveColumn
<1>2. /\ poll.at \in Hands /\ "column" \in Hands /\ "column" \in Places
      /\ "route_applied" \in Steps /\ poll.number + 1 \in Nat /\ "route_applied" # "pr_verified"
  BY <1>1, Facts DEF Hands, Places, Steps
<1>3. CASE Record("route_applied")
  BY <1>1, <1>2, <1>3, AtHands, RecordStepKeeps
<1>4. CASE GotoWith("column", poll.number + 1)
  <2>1. poll' \in Poll /\ poll'.at \in Hands /\ poll'.key = poll.key /\ poll'.context = poll.context
    BY <1>2, <1>4, Facts, GotoWithType
  <2>2. issue' \in [text : Revisions, approval_label : BOOLEAN, column : Columns]
        /\ UNCHANGED <<comments, branch, base_kept, pulls>>
    BY <1>1, Facts DEF World, forge_vars
  <2> QED
    BY <1>1, <1>2, <2>1, <2>2, HandsStep
<1> QED
  BY <1>1, <1>3, <1>4

LEMMA DecidePublishedKeeps == ASSUME IInv, DecidePublished PROVE IInv'
<1>1. /\ poll.at = "publish" /\ decision' = "published" /\ Goto("complete")
      /\ UNCHANGED <<attempts, artifacts, bundle, intents, issue, comments, branch, base_kept,
                     pulls, todo, approved, touched, edits, faults>>
  BY DEF DecidePublished, forge_vars, people_vars
<1>2. /\ poll.at \in AutomaticOnly /\ poll.at \in Publication
      /\ "complete" \in Publication /\ "complete" \in Places
      /\ "complete" \notin Pushes \cup Pulls \cup Hands
  BY <1>1 DEF AutomaticOnly, Publication, Pushes, Pulls, Hands, Places
<1>3. "comment_final" \in IntentOf.steps /\ Automatic
  BY <1>1, <1>2, Facts DEF PollPublishes
<1>4. /\ poll.key \in DOMAIN intents /\ IntentOf = intents[poll.key] /\ IntentOf \in Intent
      /\ IntentOf.kind = "automatic" /\ Before["comment_final"] \subseteq IntentOf.steps
      /\ artifacts[IntentOf.artifact].draft # 0 \/ "pr_verified" \notin IntentOf.steps
  BY <1>2, <1>3, AtPublication DEF Automatic
<1>5. IntentOf.steps = Steps /\ "pr_verified" \in IntentOf.steps
  BY <1>3, <1>4 DEF Before, Intent, Steps
<1>6. /\ ImplementedOnce /\ AppliedMeansPublished /\ BundleKept /\ IntentSound
  BY Facts DEF Rows
<1>7. AppliedMeansPublished'
  <2>1. artifacts' = artifacts /\ intents' = intents
    BY <1>1
  <2>2. \A i \in DOMAIN intents :
            intents[i].kind = "automatic" /\ intents[i].status = "applied" =>
                intents[i].steps = Steps
    BY <1>6 DEF AppliedMeansPublished
  <2>3. \E i \in DOMAIN intents : /\ intents[i].kind = "automatic"
                                  /\ intents[i].steps = Steps
                                  /\ artifacts[intents[i].artifact].draft # 0
    BY <1>4, <1>5
  <2> QED
    BY <1>1, <2>1, <2>2, <2>3 DEF AppliedMeansPublished
<1>8. BundleKept' /\ ImplementedOnce' /\ IntentSound'
  <2>1. artifacts' = artifacts /\ intents' = intents /\ pulls' = pulls /\ bundle' = bundle
    BY <1>1
  <2>2. BundleKept'
    BY <1>1, <1>6, <2>1 DEF BundleKept
  <2>3. ImplementedOnce'
    BY <1>6, <2>1 DEF ImplementedOnce
  <2>4. IntentSound'
    BY <1>6, <2>1 DEF IntentSound
  <2> QED
    BY <2>2, <2>3, <2>4
<1>9. Rows'
  <2>1. decision' \in Decisions
    BY <1>1 DEF Decisions
  <2> QED
    BY <1>1, <1>7, <1>8, <2>1, Facts DEF Rows
<1>10. AttemptsKept' /\ CommentsKept' /\ ForgeKept' /\ World'
  BY <1>1, AttemptsStay, CommentsStay, ForgeStays, WorldStays
<1>11. /\ poll' \in Poll /\ poll'.at = "complete" /\ poll'.key = poll.key
       /\ poll'.context = poll.context
  BY <1>1, <1>2, Facts, GotoType
<1>12. IntentOf' = IntentOf
  BY <1>1, <1>11 DEF IntentOf
<1>13. PollKept'
  BY <1>1, <1>2, <1>3, <1>11, <1>12, AutomaticGoes
<1> QED
  BY <1>9, <1>10, <1>13, StepKeeps

LEMMA CompletePublicationKeeps == ASSUME IInv, CompletePublication PROVE IInv'
<1> DEFINE x == [intents[poll.key] EXCEPT !.status = "applied", !.error = "none", !.ripe = FALSE]
<1>1. /\ poll.at = "complete" /\ Complete(poll.key) /\ poll' = AfterPublication
      /\ UNCHANGED <<attempts, artifacts, decision, bundle, issue, comments, branch, base_kept,
                     pulls, todo, approved, touched, edits, faults>>
  BY DEF CompletePublication, forge_vars, people_vars
<1>2. poll.at \in Publication
  BY <1>1 DEF Publication
<1>3. /\ poll.key \in DOMAIN intents /\ IntentOf = intents[poll.key] /\ IntentOf \in Intent
      /\ IntentOf.status = "pending"
      /\ \A s \in IntentOf.steps : Before[s] \subseteq IntentOf.steps
      /\ "pr_verified" \in IntentOf.steps => artifacts[IntentOf.artifact].draft # 0
  <2>1. "pr_verified" \in IntentOf.steps => artifacts[IntentOf.artifact].draft # 0
    BY <1>2, AtPublication
  <2> QED
    BY <1>2, <2>1, AtPublication
<1>4. Automatic => "comment_final" \in IntentOf.steps /\ decision = "published"
  BY <1>1, <1>2, Facts DEF PollPublishes
<1>5. Automatic => IntentOf.steps = Steps
  BY <1>3, <1>4 DEF Before, Intent, Steps
<1>6. /\ x \in Intent /\ x.kind = IntentOf.kind /\ x.artifact = IntentOf.artifact
      /\ x.steps = IntentOf.steps /\ x.status = "applied"
  BY <1>3 DEF Intent, Errors
<1>7. intents' = [intents EXCEPT ![poll.key] = x]
  BY <1>1 DEF Complete
<1> HIDE DEF x
<1>8. x.kind = "automatic" => x.steps = Steps /\ decision = "published"
  BY <1>4, <1>5, <1>6 DEF Automatic
<1>9. /\ AttemptsKept' /\ Rows' /\ CommentsKept' /\ ForgeKept'
      /\ Len(intents') \in Nat /\ DOMAIN intents' = 1..Len(intents')
      /\ DOMAIN intents' = DOMAIN intents
      /\ \A i \in DOMAIN intents : i # poll.key => intents'[i] = intents[i]
  BY <1>1, <1>3, <1>6, <1>7, <1>8, IntentWritten
<1>10. Pending \ {poll.key} \subseteq Pending'
  BY <1>9 DEF Pending
<1>11. World'
  BY <1>1, WorldStays
<1> QED
  BY <1>1, <1>2, <1>9, <1>10, <1>11, ReturnStep

----------------------------------------------------------------------------
(* Failures, time, people *)

\* An attempt whose preview, or whose work, fails is failed.
LEMMA AttemptFails ==
    ASSUME IInv, poll.context = "attempt", poll.at \in Writing \cup Publication,
           poll.at \notin {"fail", "failed"},
           poll.key = 0 \/ IntentOf.kind = "preview", Goto("fail"),
           UNCHANGED <<attempts, intents, todo>>
    PROVE  PollKept'
<1>1. /\ "fail" \in Places /\ "fail" \in Writing /\ "fail" \notin Implementing \cup Storing
      /\ "fail" \notin Resting \cup Taking \cup Publication
  BY DEF Places, Resting, Taking, Writing, Publication, Implementing, Storing, Failing,
     AutomaticOnly, Pushes, Pulls, Hands
<1>2. /\ poll' \in Poll /\ poll'.at = "fail" /\ poll'.key = poll.key
      /\ poll'.context = poll.context
  BY <1>1, Facts, GotoType
<1>3. PollShape /\ TodoPending /\ PollPlaced /\ PollAttempts
  BY Facts
<1>4. IntentOf' = IntentOf /\ Pending' = Pending
  BY <1>2 DEF IntentOf, Pending
<1>5. PollPlaced'
  BY <1>1, <1>2, <1>3, <1>4 DEF PollPlaced
<1>6. PollAttempts'
  BY <1>1, <1>2, <1>3 DEF PollAttempts, Taking
<1> QED
  BY <1>1, <1>2, <1>3, <1>4, <1>5, <1>6, WorkKept DEF PollShape, TodoPending

\* An error ends what the poll does.
LEMMA FailsKeeps ==
    ASSUME IInv, poll.at \in Places \ {"fail", "failed"}, NEW e \in Errors, Fails(e),
           UNCHANGED <<attempts, artifacts, decision, bundle, forge_vars, people_vars>>,
           faults' \in 0..MaxFaults
    PROVE  IInv'
<1>1. UNCHANGED <<issue, comments, branch, base_kept, pulls, approved, touched, edits>>
  BY DEF forge_vars, people_vars
<1>2. AttemptsKept' /\ CommentsKept'
  BY <1>1, AttemptsStay, CommentsStay
<1>3. World'
  BY <1>1, Facts DEF World
<1>4. Places = Resting \cup Taking \cup Writing \cup Publication
  BY DEF Places, Resting, Taking, Writing, Publication, Implementing, Storing, Failing,
     AutomaticOnly, Pushes, Pulls, Hands
<1>5. /\ poll.at \in Resting \cup Taking => poll.context = "none"
      /\ poll.at \in Writing => poll.context = "attempt"
      /\ poll.at \in Publication => poll.context # "none"
      /\ poll.at \notin Publication => poll.key = 0
      /\ todo \subseteq Pending
  BY Facts DEF PollPlaced, TodoPending
<1>6. ASSUME UNCHANGED intents
      PROVE  /\ Rows' /\ ForgeKept' /\ Pending' = Pending
             /\ Len(intents') \in Nat /\ DOMAIN intents' = 1..Len(intents')
  BY <1>1, <1>6, RowsStay, ForgeStays
<1>7. ASSUME UNCHANGED intents, poll' = Idle, todo' \subseteq Pending
      PROVE  IInv'
  <2>1. poll' \in Poll /\ poll'.at \in Resting /\ poll'.context = "none" /\ poll'.key = 0
    BY <1>7, IdleType DEF Resting
  <2> QED
    BY <1>2, <1>3, <1>6, <1>7, <2>1, RestStep
<1>8. CASE poll.context = "resume"
  <2>1. poll.at \in Publication
    BY <1>4, <1>5, <1>8
  <2>2. poll' = AfterPublication /\ UNCHANGED todo
    BY <1>8 DEF Fails
  <2>3. SetError(poll.key, "pending", e) \/ UNCHANGED intents
    BY <1>8 DEF Fails
  <2>4. CASE SetError(poll.key, "pending", e)
    <3>1. poll.key \in DOMAIN intents /\ intents[poll.key].status = "pending"
      BY <2>1, AtPublication
    <3>2. /\ AttemptsKept' /\ Rows' /\ CommentsKept' /\ ForgeKept'
          /\ Len(intents') \in Nat /\ DOMAIN intents' = 1..Len(intents')
          /\ Pending \ {poll.key} \subseteq Pending'
      BY <1>1, <2>4, <3>1, ErrorSet
    <3> QED
      BY <1>3, <2>1, <2>2, <3>2, ReturnStep
  <2>5. CASE UNCHANGED intents
    <3>1. Pending \ {poll.key} \subseteq Pending'
      BY <1>6, <2>5
    <3> QED
      BY <1>2, <1>3, <1>6, <2>1, <2>2, <2>5, <3>1, ReturnStep
  <2> QED
    BY <2>3, <2>4, <2>5
<1>9. CASE poll.context = "attempt"
  <2>1. /\ UNCHANGED intents /\ UNCHANGED todo
        /\ \/ poll' = Idle
           \/ (poll.key = 0 \/ IntentOf.kind = "preview") /\ Goto("fail")
    BY <1>9 DEF Fails
  <2>2. CASE poll' = Idle
    BY <1>5, <1>7, <2>1, <2>2
  <2>3. CASE (poll.key = 0 \/ IntentOf.kind = "preview") /\ Goto("fail")
    <3>1. poll.at \in Writing \cup Publication
      BY <1>4, <1>5, <1>9
    <3>2. PollKept'
      BY <1>9, <2>1, <2>3, <3>1, AttemptFails
    <3> QED
      BY <1>2, <1>3, <1>6, <2>1, <3>2, StepKeeps
  <2> QED
    BY <2>1, <2>2, <2>3
<1>10. CASE poll.context = "none"
  <2>1. poll' = Idle /\ todo' = {} /\ UNCHANGED intents
    BY <1>10 DEF Fails
  <2> QED
    BY <1>7, <2>1
<1>11. poll.context \in {"none", "resume", "attempt"}
  BY Facts DEF Poll
<1> QED
  BY <1>8, <1>9, <1>10, <1>11

LEMMA CallFailsKeeps == ASSUME IInv, CallFails PROVE IInv'
<1>1. /\ poll.at \notin {"fail", "failed"} /\ Fails(poll.at) /\ faults < MaxFaults
      /\ faults' = faults + 1
      /\ UNCHANGED <<attempts, artifacts, decision, bundle, forge_vars, people_vars>>
  BY DEF CallFails, Fault
<1>2. poll.at \in Places
  BY Facts DEF Poll
<1>3. poll.at \in Errors
  BY <1>2 DEF Errors
<1>4. faults' \in 0..MaxFaults
  BY <1>1, Facts, ImplementationAssumption DEF World
<1> QED
  BY <1>1, <1>2, <1>3, <1>4, FailsKeeps

LEMMA CallRefusedKeeps == ASSUME IInv, CallRefused PROVE IInv'
<1>1. /\ Refused /\ Fails(Refusal[poll.at])
      /\ UNCHANGED <<attempts, artifacts, decision, bundle, forge_vars, people_vars, faults>>
  BY DEF CallRefused
<1>2. poll.at \in {"comment", "push", "confirm", "create", "mismatch", "unlabel", "observe"}
  BY <1>1 DEF Refused
<1>3. Refusal[poll.at] \in Errors
  BY <1>2 DEF Refusal, Errors, Refusals
<1>4. poll.at \in Places \ {"fail", "failed"}
  BY <1>2 DEF Places
<1>5. faults' \in 0..MaxFaults
  BY <1>1, Facts DEF World
<1> QED
  BY <1>1, <1>3, <1>4, <1>5, FailsKeeps

LEMMA CrashKeeps == ASSUME IInv, Crash PROVE IInv'
<1>1. /\ poll' = Idle /\ todo' = {} /\ faults < MaxFaults /\ faults' = faults + 1
      /\ UNCHANGED <<store_vars, forge_vars, people_vars>>
  BY DEF Crash, Fault
<1>2. faults' \in 0..MaxFaults
  BY <1>1, Facts, ImplementationAssumption DEF World
<1> QED
  BY <1>1, <1>2, IdleStep

LEMMA LeaseExpiresKeeps == ASSUME IInv, LeaseExpires PROVE IInv'
<1>1. PICK n \in Running : /\ attempts[n].status = "running"
                           /\ attempts' = [attempts EXCEPT ![n].status = "lapsed"]
  BY DEF LeaseExpires
<1> DEFINE a == [attempts[n] EXCEPT !.status = "lapsed"]
<1>2. /\ poll.at = "idle"
      /\ UNCHANGED <<artifacts, decision, bundle, intents, issue, comments, branch, base_kept,
                     pulls, poll, todo, approved, touched, edits, faults>>
  BY DEF LeaseExpires, forge_vars, poll_vars, people_vars
<1>3. attempts \in Seq(Attempt) /\ n \in DOMAIN attempts
  BY Facts DEF AttemptsKept, Running
<1>4. attempts[n] \in Attempt
  BY <1>3, ElementOfSeq, Facts
<1>5. a \in Attempt /\ a.revision = attempts[n].revision /\ a.mode = attempts[n].mode
  BY <1>4 DEF Attempt
<1>6. attempts' = [attempts EXCEPT ![n] = a]
  BY <1>1
<1> HIDE DEF a
<1>7. /\ attempts' \in Seq(Attempt) /\ DOMAIN attempts' = DOMAIN attempts
  BY <1>3, <1>5, <1>6, ExceptSeq, Facts
<1>8. AttemptsKept'
  <2>1. ASSUME NEW m \in DOMAIN attempts
        PROVE  /\ attempts'[m].revision = attempts[m].revision
               /\ attempts'[m].mode = attempts[m].mode
               /\ attempts'[m].status \in {"running", "lapsed"} =>
                      attempts[m].status \in {"running", "lapsed"}
    <3>1. CASE m = n
      BY <1>1, <1>3, <1>5, <1>6, <3>1
    <3>2. CASE m # n
      BY <1>6, <3>2
    <3> QED
      BY <3>1, <3>2
  <2> QED
    BY <1>7, <2>1, AttemptsWritten
<1>9. /\ Rows' /\ CommentsKept' /\ ForgeKept' /\ World' /\ Pending' = Pending
      /\ Len(intents') \in Nat /\ DOMAIN intents' = 1..Len(intents')
  BY <1>2, RowsStay, CommentsStay, ForgeStays, WorldStays
<1>10. poll.at \in Resting
  BY <1>2 DEF Resting
<1>11. /\ poll' \in Poll /\ poll'.at \in Resting /\ poll'.context = "none" /\ poll'.key = 0
       /\ todo' \subseteq Pending'
  BY <1>2, <1>9, <1>10, AtWork, Facts
<1> QED
  BY <1>8, <1>9, <1>11, RestStep

LEMMA BackoffElapsesKeeps == ASSUME IInv, BackoffElapses PROVE IInv'
<1>1. PICK i \in Pending : intents' = [intents EXCEPT ![i].ripe = TRUE]
  BY DEF BackoffElapses
<1> DEFINE x == [intents[i] EXCEPT !.ripe = TRUE]
<1>2. /\ poll.at = "idle"
      /\ UNCHANGED <<attempts, artifacts, decision, bundle, issue, comments, branch, base_kept,
                     pulls, poll, todo, approved, touched, edits, faults>>
  BY DEF BackoffElapses, forge_vars, poll_vars, people_vars
<1>3. i \in DOMAIN intents /\ intents[i] \in Intent /\ intents[i].status = "pending"
  BY Facts DEF Pending
<1>4. /\ x \in Intent /\ x.kind = intents[i].kind /\ x.artifact = intents[i].artifact
      /\ x.steps = intents[i].steps /\ x.status = "pending"
  BY <1>3 DEF Intent
<1>5. intents' = [intents EXCEPT ![i] = x]
  BY <1>1
<1> HIDE DEF x
<1>6. /\ AttemptsKept' /\ Rows' /\ CommentsKept' /\ ForgeKept'
      /\ Len(intents') \in Nat /\ DOMAIN intents' = 1..Len(intents') /\ Pending \subseteq Pending'
  BY <1>2, <1>3, <1>4, <1>5, IntentMarked
<1>7. World'
  BY <1>2, WorldStays
<1>8. poll.at \in Resting
  BY <1>2 DEF Resting
<1>9. /\ poll' \in Poll /\ poll'.at \in Resting /\ poll'.context = "none" /\ poll'.key = 0
      /\ todo' \subseteq Pending'
  BY <1>2, <1>6, <1>8, AtWork, Facts
<1> QED
  BY <1>6, <1>7, <1>9, RestStep

\* A poll goes on knowing what it knows: people may reset a blocked publication,
\* and change pull requests except for whose they are and back to their base.
LEMMA PollStays ==
    ASSUME IInv, UNCHANGED <<attempts, artifacts, decision, bundle, poll, todo, approved>>,
           DOMAIN intents' = DOMAIN intents, Len(intents') = Len(intents),
           \A i \in DOMAIN intents :
               /\ intents'[i].kind = intents[i].kind
               /\ intents'[i].artifact = intents[i].artifact
               /\ intents'[i].steps = intents[i].steps
               /\ intents[i].status \in {"pending", "conflict"} =>
                      intents'[i].status = intents[i].status,
           DOMAIN pulls \subseteq DOMAIN pulls',
           \A n \in DOMAIN pulls : /\ pulls'[n].intent = pulls[n].intent
                                   /\ pulls'[n].base = "kept" => pulls[n].base = "kept",
           \A n \in DOMAIN pulls' \ DOMAIN pulls : pulls'[n].intent = 0
    PROVE  PollKept'
<1>1. PollShape /\ TodoPending /\ PollPlaced /\ PollAttempts /\ PollPublishes
  BY Facts
<1>2. Pending \subseteq Pending'
  BY DEF Pending
<1>3. PollShape' /\ TodoPending'
  BY <1>1, <1>2 DEF PollShape, TodoPending
<1>4. poll.key = 0 \/ poll.key \in DOMAIN intents
  BY <1>1, Facts DEF PollShape
<1>5. poll.key # 0 => /\ IntentOf'.kind = IntentOf.kind
                      /\ IntentOf'.artifact = IntentOf.artifact
                      /\ IntentOf'.steps = IntentOf.steps
                      /\ IntentOf.status = "pending" => IntentOf'.status = "pending"
  BY <1>4 DEF IntentOf
<1>6. PollPlaced'
  BY <1>1, <1>5 DEF PollPlaced
<1>7. Running' = Running /\ Prior' = Prior /\ Implemented' = Implemented
  BY DEF Running, Prior, Implemented
<1>8. PollAttempts'
  <2>1. poll.at = "claim" => Running = {} /\ Cardinality(Prior) < MaxAttempts
    BY <1>1 DEF PollAttempts
  <2>2. /\ poll.at \in Taking => decision \in {"none", "failed"}
        /\ poll.at \in Taking \cup Implementing => ~Implemented
        /\ poll.at \in {"decide", "intend"} => bundle = Len(artifacts)
        /\ poll.at = "intend" /\ poll.config.mode = "automatic" => decision = "pending"
    BY <1>1 DEF PollAttempts
  <2>3. poll.context = "attempt" => \A i \in DOMAIN intents :
            intents'[i].kind = "automatic" => i = poll.key \/ intents'[i].status = "conflict"
    BY <1>1 DEF PollAttempts
  <2>4. poll.at \in Storing =>
            /\ artifacts # <<>> /\ artifacts[Len(artifacts)].draft = 0 /\ decision # "published"
            /\ \A i \in DOMAIN intents : intents'[i].artifact < Len(artifacts)
    BY <1>1 DEF PollAttempts
  <2> QED
    BY <1>7, <2>1, <2>2, <2>3, <2>4 DEF PollAttempts
<1>9. PollPublishes'
  <2>1. SUFFICES ASSUME poll.at \in Publication
                 PROVE  PollPublishes'
    BY DEF PollPublishes
  <2>2. poll.key # 0
    BY <1>1, <2>1 DEF PollPlaced
  <2>3. IntentOf.status = "pending" /\ Automatic' = Automatic /\ Persisted' = Persisted
    BY <1>5, <2>1, <2>2, AtPublication DEF Automatic, Persisted, ArtifactOf
  <2>4. poll.at = "create" =>
            \A n \in DOMAIN pulls' : pulls'[n].intent = poll.key => pulls'[n].base # "kept"
    BY <1>1, <2>1, <2>2 DEF PollPublishes
  <2>5. poll.at = "store_pull" =>
            poll.number \in DOMAIN pulls' /\ pulls'[poll.number].intent = poll.key
    BY <1>1, <2>1 DEF PollPublishes
  <2>6. IntentOf'.status = "pending" /\ IntentOf'.steps = IntentOf.steps
    BY <1>5, <2>2, <2>3
  <2> QED
    BY <1>1, <2>1, <2>3, <2>4, <2>5, <2>6 DEF PollPublishes
<1> QED
  BY <1>3, <1>6, <1>8, <1>9 DEF PollKept, PollSound

\* People change branch, base or pull requests.
LEMMA TouchStep ==
    ASSUME IInv, touched' = TRUE, edits' \in 0..MaxEdits,
           branch' \in {Absent, Foreign} \cup DOMAIN artifacts, base_kept' \in BOOLEAN,
           pulls' \in Seq(Pull), DOMAIN pulls \subseteq DOMAIN pulls',
           \A n \in DOMAIN pulls : /\ pulls'[n].intent = pulls[n].intent
                                   /\ pulls'[n].base = "kept" => pulls[n].base = "kept",
           \A n \in DOMAIN pulls' \ DOMAIN pulls : pulls'[n].intent = 0,
           UNCHANGED <<store_vars, issue, comments, poll_vars, approved, faults>>
    PROVE  IInv'
<1>1. UNCHANGED <<attempts, artifacts, decision, bundle, intents, issue, comments, poll, todo,
                  approved, faults>>
  BY DEF store_vars, poll_vars
<1>2. AttemptsKept' /\ CommentsKept'
  BY <1>1, AttemptsStay, CommentsStay
<1>3. Rows'
  BY <1>1, RowsStay
<1>4. World'
  BY <1>1, Facts DEF World
<1>5. PullsOnce /\ ForgeSound
  BY Facts DEF ForgeKept
<1>6. PullsOnce'
  BY <1>5 DEF PullsOnce
<1>7. ForgeSound' /\ ConflictsAreHuman'
  <2>1. ASSUME NEW n \in DOMAIN pulls', pulls'[n].intent # 0
        PROVE  pulls'[n].intent \in DOMAIN intents /\ intents[pulls'[n].intent].kind = "automatic"
    BY <1>5, <2>1 DEF ForgeSound
  <2>2. ForgeSound'
    BY <1>1, <2>1 DEF ForgeSound
  <2> QED
    BY <2>2 DEF ConflictsAreHuman
<1>8. ForgeKept'
  BY <1>1, <1>6, <1>7 DEF ForgeKept
<1>9. PollKept'
  BY <1>1, PollStays
<1> QED
  BY <1>2, <1>3, <1>4, <1>8, <1>9, StepKeeps

LEMMA EditCounts == ASSUME IInv, NEW k, Edit(k) PROVE edits' \in 0..MaxEdits
  BY Facts, ImplementationAssumption DEF World, Edit

LEMMA PeopleMoveBranchKeeps == ASSUME IInv, PeopleMoveBranch PROVE IInv'
<1>1. /\ touched' = TRUE /\ UNCHANGED <<store_vars, issue, comments, poll_vars, approved, faults>>
  BY DEF PeopleMoveBranch
<1>2. /\ pulls \in Seq(Pull) /\ base_kept \in BOOLEAN
      /\ branch \in {Absent, Foreign} \cup DOMAIN artifacts
  BY Facts DEF ForgeKept
<1>3. CASE Edit("push") /\ branch' = Foreign /\ UNCHANGED <<base_kept, pulls>>
  <2>1. edits' \in 0..MaxEdits
    BY <1>3, EditCounts
  <2> QED
    BY <1>1, <1>2, <1>3, <2>1, TouchStep
<1>4. CASE /\ Edit("unbranch") /\ branch' = Absent /\ UNCHANGED base_kept
           /\ pulls' = [n \in DOMAIN pulls |-> [pulls[n] EXCEPT !.open = FALSE]]
  <2>1. edits' \in 0..MaxEdits
    BY <1>4, EditCounts
  <2>2. ASSUME NEW n \in DOMAIN pulls
        PROVE  /\ pulls'[n] \in Pull /\ pulls'[n].intent = pulls[n].intent
               /\ pulls'[n].base = pulls[n].base
    <3>1. pulls[n] \in Pull
      BY Facts
    <3>2. pulls'[n] = [pulls[n] EXCEPT !.open = FALSE]
      BY <1>4
    <3> QED
      BY <3>1, <3>2 DEF Pull
  <2>3. DOMAIN pulls' = DOMAIN pulls
    BY <1>4
  <2>4. pulls' \in Seq(Pull)
    <3>1. pulls' = [n \in 1..Len(pulls) |-> pulls'[n]]
      BY <1>4, Facts
    <3> QED
      BY <2>2, <3>1, Facts, IsASeq
  <2> QED
    BY <1>1, <1>2, <1>4, <2>1, <2>2, <2>3, <2>4, TouchStep
<1>5. CASE Edit("rebase") /\ base_kept' = FALSE /\ UNCHANGED <<branch, pulls>>
  <2>1. edits' \in 0..MaxEdits
    BY <1>5, EditCounts
  <2> QED
    BY <1>1, <1>2, <1>5, <2>1, TouchStep
<1> QED
  BY <1>3, <1>4, <1>5 DEF PeopleMoveBranch

\* One pull request is changed.
LEMMA PullWritten ==
    ASSUME IInv, NEW n \in DOMAIN pulls, NEW q \in Pull, pulls' = [pulls EXCEPT ![n] = q],
           q.intent = pulls[n].intent, q.base = "kept" => pulls[n].base = "kept"
    PROVE  /\ pulls' \in Seq(Pull) /\ DOMAIN pulls' = DOMAIN pulls
           /\ \A m \in DOMAIN pulls : /\ pulls'[m].intent = pulls[m].intent
                                      /\ pulls'[m].base = "kept" => pulls[m].base = "kept"
<1>1. pulls \in Seq(Pull)
  BY Facts DEF ForgeKept
<1>2. pulls' \in Seq(Pull)
  BY <1>1, ExceptSeq, Facts
<1> QED
  BY <1>2

LEMMA PeopleChangePullKeeps == ASSUME IInv, PeopleChangePull PROVE IInv'
<1>1. /\ touched' = TRUE
      /\ UNCHANGED <<store_vars, issue, comments, branch, base_kept, poll_vars, approved, faults>>
  BY DEF PeopleChangePull
<1>2. /\ pulls \in Seq(Pull) /\ base_kept' \in BOOLEAN
      /\ branch' \in {Absent, Foreign} \cup DOMAIN artifacts
  BY <1>1, Facts DEF ForgeKept
<1>3. ASSUME NEW n \in DOMAIN pulls, NEW q \in Pull, pulls' = [pulls EXCEPT ![n] = q],
             q.intent = pulls[n].intent, q.base = "kept" => pulls[n].base = "kept",
             NEW k, Edit(k)
      PROVE  IInv'
  <2>1. edits' \in 0..MaxEdits
    BY <1>3, EditCounts
  <2>2. /\ pulls' \in Seq(Pull) /\ DOMAIN pulls' = DOMAIN pulls
        /\ \A m \in DOMAIN pulls : /\ pulls'[m].intent = pulls[m].intent
                                   /\ pulls'[m].base = "kept" => pulls[m].base = "kept"
    BY <1>3, PullWritten
  <2>3. \A m \in DOMAIN pulls' \ DOMAIN pulls : pulls'[m].intent = 0
    BY <2>2
  <2> QED
    BY <1>1, <1>2, <2>1, <2>2, <2>3, TouchStep
<1>4. ASSUME NEW n \in DOMAIN pulls, Edit("close"),
             pulls' = [pulls EXCEPT ![n].open = FALSE]
      PROVE  IInv'
  <2> DEFINE q == [pulls[n] EXCEPT !.open = FALSE]
  <2>1. pulls[n] \in Pull
    BY Facts
  <2>2. q \in Pull /\ q.intent = pulls[n].intent /\ q.base = pulls[n].base
    BY <2>1 DEF Pull
  <2>3. pulls' = [pulls EXCEPT ![n] = q]
    BY <1>4
  <2> HIDE DEF q
  <2> QED
    BY <1>3, <1>4, <2>2, <2>3
<1>5. ASSUME NEW n \in DOMAIN pulls, Edit("ready"),
             pulls' = [pulls EXCEPT ![n].draft = ~@]
      PROVE  IInv'
  <2> DEFINE q == [pulls[n] EXCEPT !.draft = ~pulls[n].draft]
  <2>1. pulls[n] \in Pull
    BY Facts
  <2>2. q \in Pull /\ q.intent = pulls[n].intent /\ q.base = pulls[n].base
    BY <2>1 DEF Pull
  <2>3. pulls' = [pulls EXCEPT ![n] = q]
    BY <1>5
  <2>4. Edit("ready")
    BY <1>5
  <2> HIDE DEF q
  <2> QED
    BY <1>3, <2>2, <2>3, <2>4
<1>6. ASSUME NEW n \in DOMAIN pulls, Edit("retarget"), NEW b \in {"left", "returned"},
             pulls' = [pulls EXCEPT ![n].base = b]
      PROVE  IInv'
  <2> DEFINE q == [pulls[n] EXCEPT !.base = b]
  <2>1. pulls[n] \in Pull
    BY Facts
  <2>2. q \in Pull /\ q.intent = pulls[n].intent /\ q.base # "kept"
    BY <2>1 DEF Pull
  <2>3. pulls' = [pulls EXCEPT ![n] = q]
    BY <1>6
  <2> HIDE DEF q
  <2> QED
    BY <1>3, <1>6, <2>2, <2>3
<1>7. ASSUME Edit("foreign_pull"),
             pulls' = Append(pulls, [intent |-> 0, open |-> TRUE, draft |-> FALSE,
                                     base |-> "kept"])
      PROVE  IInv'
  <2> DEFINE q == [intent |-> 0, open |-> TRUE, draft |-> FALSE, base |-> "kept"]
  <2>1. q \in Pull /\ q.intent = 0
    BY DEF Pull
  <2>2. pulls' = Append(pulls, q)
    BY <1>7
  <2> HIDE DEF q
  <2>3. /\ pulls' \in Seq(Pull) /\ DOMAIN pulls = 1..Len(pulls)
        /\ Len(pulls) \in Nat /\ DOMAIN pulls' = 1..(Len(pulls) + 1)
        /\ pulls'[Len(pulls) + 1] = q /\ \A m \in 1..Len(pulls) : pulls'[m] = pulls[m]
    BY <1>2, <2>1, <2>2, AppendIs
  <2>4. DOMAIN pulls \subseteq DOMAIN pulls' /\ DOMAIN pulls' \ DOMAIN pulls = {Len(pulls) + 1}
    BY <2>3
  <2>5. edits' \in 0..MaxEdits
    BY <1>7, EditCounts
  <2> QED
    BY <1>1, <1>2, <2>1, <2>3, <2>4, <2>5, TouchStep
<1>8. \/ \E n \in DOMAIN pulls :
           \/ Edit("close") /\ pulls' = [pulls EXCEPT ![n].open = FALSE]
           \/ Edit("ready") /\ pulls' = [pulls EXCEPT ![n].draft = ~@]
           \/ Edit("retarget") /\ pulls' = [pulls EXCEPT ![n].base =
                                                IF n \in Listed THEN "left" ELSE "returned"]
      \/ /\ Edit("foreign_pull")
         /\ pulls' = Append(pulls, [intent |-> 0, open |-> TRUE, draft |-> FALSE,
                                    base |-> "kept"])
  BY Zenon DEF PeopleChangePull
<1>9. ASSUME NEW n \in DOMAIN pulls, Edit("retarget"),
             pulls' = [pulls EXCEPT ![n].base = IF n \in Listed THEN "left" ELSE "returned"]
      PROVE  IInv'
  <2> DEFINE b == IF n \in Listed THEN "left" ELSE "returned"
  <2>1. b \in {"left", "returned"} /\ pulls' = [pulls EXCEPT ![n].base = b]
    BY <1>9
  <2> HIDE DEF b
  <2> QED
    BY <1>6, <1>9, <2>1
<1> QED
  BY <1>4, <1>5, <1>7, <1>8, <1>9

\* People edit the issue.
LEMMA IssueStep ==
    ASSUME IInv, edits' \in 0..MaxEdits,
           issue' \in [text : Revisions, approval_label : BOOLEAN, column : Columns],
           UNCHANGED <<store_vars, comments, branch, base_kept, pulls, poll_vars, approved,
                       touched, faults>>
    PROVE  IInv'
<1>1. UNCHANGED <<attempts, artifacts, decision, bundle, intents, comments, branch, base_kept,
                  pulls, poll, todo, approved, touched, faults>>
  BY DEF store_vars, poll_vars
<1>2. AttemptsKept' /\ Rows' /\ CommentsKept' /\ ForgeKept'
  BY <1>1, AttemptsStay, RowsStay, CommentsStay, ForgeStays
<1>3. World'
  BY <1>1, Facts DEF World
<1>4. PollKept'
  BY <1>1, PollStays
<1> QED
  BY <1>2, <1>3, <1>4, StepKeeps

LEMMA PeopleEditTextKeeps == ASSUME IInv, PeopleEditText PROVE IInv'
<1>1. PICK r \in Revisions : issue' = [issue EXCEPT !.text = r]
  BY DEF PeopleEditText
<1>2. Edit("text") /\ UNCHANGED <<store_vars, comments, branch, base_kept, pulls, poll_vars,
                                  approved, touched, faults>>
  BY DEF PeopleEditText
<1>3. issue' \in [text : Revisions, approval_label : BOOLEAN, column : Columns]
  BY <1>1, Facts DEF World
<1>4. edits' \in 0..MaxEdits
  BY <1>2, EditCounts
<1> QED
  BY <1>2, <1>3, <1>4, IssueStep

LEMMA PeopleMoveIssueKeeps == ASSUME IInv, PeopleMoveIssue PROVE IInv'
<1>1. /\ \/ \E c \in Columns : issue' = [issue EXCEPT !.column = c]
         \/ issue' = [issue EXCEPT !.approval_label = ~@]
      /\ Edit("column") /\ UNCHANGED <<store_vars, comments, branch, base_kept, pulls, poll_vars,
                                       approved, touched, faults>>
  BY Zenon DEF PeopleMoveIssue
<1>2. issue \in [text : Revisions, approval_label : BOOLEAN, column : Columns]
  BY Facts DEF World
<1>3. issue' \in [text : Revisions, approval_label : BOOLEAN, column : Columns]
  <2>1. CASE \E c \in Columns : issue' = [issue EXCEPT !.column = c]
    <3>1. PICK c \in Columns : issue' = [issue EXCEPT !.column = c]
      BY <2>1
    <3> QED
      BY <1>2, <3>1
  <2>2. CASE issue' = [issue EXCEPT !.approval_label = ~@]
    BY <1>2, <2>2
  <2> QED
    BY <1>1, <2>1, <2>2
<1>4. edits' \in 0..MaxEdits
  BY <1>1, EditCounts
<1> QED
  BY <1>1, <1>3, <1>4, IssueStep

LEMMA PeopleDeleteCommentKeeps == ASSUME IInv, PeopleDeleteComment PROVE IInv'
<1>1. PICK c \in Live : comments' = [comments EXCEPT ![c].live = FALSE]
  BY DEF PeopleDeleteComment
<1>2. /\ Edit("comment")
      /\ UNCHANGED <<attempts, artifacts, decision, bundle, intents, issue, branch, base_kept,
                     pulls, poll, todo, approved, touched, faults>>
  BY DEF PeopleDeleteComment, store_vars, poll_vars
<1> DEFINE x == [comments[c] EXCEPT !.live = FALSE]
<1>3. c \in DOMAIN comments
  BY DEF Live
<1>4. comments[c] \in Comment
  BY <1>3, Facts, ElementOfSeq DEF CommentsKept
<1>5. x \in Comment /\ x.intent = comments[c].intent /\ ~x.live
  BY <1>4 DEF Comment
<1>6. comments' = [comments EXCEPT ![c] = x]
  BY <1>1
<1> HIDE DEF x
<1>7. CommentsKept'
  BY <1>3, <1>5, <1>6, CommentWritten
<1>8. AttemptsKept' /\ Rows' /\ ForgeKept'
  BY <1>2, AttemptsStay, RowsStay, ForgeStays
<1>9. World'
  <2>1. edits' \in 0..MaxEdits
    BY <1>2, EditCounts
  <2> QED
    BY <1>2, <2>1, Facts DEF World
<1>10. PollKept'
  BY <1>2, PollStays
<1> QED
  BY <1>7, <1>8, <1>9, <1>10, StepKeeps

LEMMA NextVersionApprovedKeeps == ASSUME IInv, NextVersionApproved PROVE IInv'
<1>1. /\ poll.at = "idle" /\ Edit("approval")
      /\ approved' = [version |-> approved.version + 1, revision |-> issue.text]
      /\ issue' = [issue EXCEPT !.approval_label = TRUE]
      /\ UNCHANGED <<attempts, artifacts, decision, bundle, intents, comments, branch, base_kept,
                     pulls, poll, todo, touched, faults>>
  BY DEF NextVersionApproved, store_vars, poll_vars
<1>2. /\ AttemptsKept' /\ Rows' /\ CommentsKept' /\ ForgeKept' /\ Pending' = Pending
      /\ Len(intents') \in Nat /\ DOMAIN intents' = 1..Len(intents')
  BY <1>1, AttemptsStay, RowsStay, CommentsStay, ForgeStays
<1>3. World'
  <2>1. edits' \in 0..MaxEdits
    BY <1>1, EditCounts
  <2>2. approved' \in [version : Nat, revision : Revisions]
    BY <1>1, Facts DEF World
  <2>3. issue' \in [text : Revisions, approval_label : BOOLEAN, column : Columns]
    BY <1>1, Facts DEF World
  <2> QED
    BY <1>1, <2>1, <2>2, <2>3, Facts DEF World
<1>4. poll.at \in Resting
  BY <1>1 DEF Resting
<1>5. /\ poll' \in Poll /\ poll'.at \in Resting /\ poll'.context = "none" /\ poll'.key = 0
      /\ todo' \subseteq Pending'
  BY <1>1, <1>2, <1>4, AtWork, Facts
<1> QED
  BY <1>2, <1>3, <1>5, RestStep

LEMMA OperatorResetsKeeps == ASSUME IInv, OperatorResets PROVE IInv'
<1>1. PICK i \in DOMAIN intents :
        /\ intents[i].status = "blocked"
        /\ intents' = [intents EXCEPT ![i].status = "pending", ![i].error = "none",
                                      ![i].retries = 0, ![i].ripe = FALSE]
  BY DEF OperatorResets
<1>2. /\ Edit("reset")
      /\ UNCHANGED <<attempts, artifacts, decision, bundle, issue, comments, branch, base_kept,
                     pulls, poll, todo, approved, touched, faults>>
  BY DEF OperatorResets, forge_vars, poll_vars
<1> DEFINE x == [intents[i] EXCEPT !.status = "pending", !.error = "none", !.retries = 0,
                                   !.ripe = FALSE]
<1>3. intents[i] \in Intent
  BY Facts
<1>4. /\ x \in Intent /\ x.kind = intents[i].kind /\ x.artifact = intents[i].artifact
      /\ x.steps = intents[i].steps /\ x.status = "pending"
  BY <1>3 DEF Intent, Errors
<1>5. intents' = [intents EXCEPT ![i] = x]
  BY <1>1
<1> HIDE DEF x
<1>6. /\ AttemptsKept' /\ Rows' /\ CommentsKept' /\ ForgeKept'
      /\ Len(intents') = Len(intents) /\ DOMAIN intents' = DOMAIN intents
      /\ intents'[i] = x /\ \A j \in DOMAIN intents : j # i => intents'[j] = intents[j]
  BY <1>1, <1>2, <1>3, <1>4, <1>5, IntentMarked
<1>7. World'
  <2>1. edits' \in 0..MaxEdits
    BY <1>2, EditCounts
  <2> QED
    BY <1>2, <2>1, Facts DEF World
<1>8. ASSUME NEW j \in DOMAIN intents
      PROVE  /\ intents'[j].kind = intents[j].kind
             /\ intents'[j].artifact = intents[j].artifact
             /\ intents'[j].steps = intents[j].steps
             /\ intents[j].status \in {"pending", "conflict"} =>
                    intents'[j].status = intents[j].status
  <2>1. CASE j = i
    BY <1>1, <1>4, <1>6, <2>1
  <2>2. CASE j # i
    BY <1>6, <2>2
  <2> QED
    BY <2>1, <2>2
<1>9. PollKept'
  BY <1>2, <1>6, <1>8, PollStays
<1> QED
  BY <1>6, <1>7, <1>9, StepKeeps

----------------------------------------------------------------------------
(* The invariant *)

LEMMA InitHolds == ASSUME Init PROVE IInv
<1>1. /\ attempts = <<>> /\ artifacts = <<>> /\ decision = "none" /\ bundle = 0
      /\ intents = <<>> /\ comments = <<>> /\ branch = Absent /\ base_kept = TRUE /\ pulls = <<>>
      /\ poll = Idle /\ todo = {} /\ touched = FALSE /\ faults = 0 /\ edits = 0
      /\ approved = [version |-> 1, revision |-> 1]
      /\ issue = [text |-> 1, approval_label |-> TRUE, column |-> "in_progress"]
  BY DEF Init
<1>2. /\ DOMAIN attempts = {} /\ DOMAIN artifacts = {} /\ DOMAIN intents = {}
      /\ DOMAIN comments = {} /\ DOMAIN pulls = {}
      /\ Len(artifacts) = 0 /\ Len(intents) = 0
  BY <1>1
<1>3. AttemptsKept
  <2>1. ASSUME NEW r \in Revisions, NEW m \in Modes
        PROVE  Cardinality(AttemptsOf(r, m)) <= MaxAttempts
    <3>1. AttemptsOf(r, m) = {}
      BY <1>2 DEF AttemptsOf
    <3> QED
      BY <3>1, FS_EmptySet, ImplementationAssumption
  <2> QED
    BY <1>1, <1>2, <2>1 DEF AttemptsKept, RunningOnce, Running, BudgetKept
<1>4. Rows
  BY <1>1, <1>2 DEF Rows, ImplementedOnce, AppliedMeansPublished, BundleKept, IntentSound, Decisions
<1>5. CommentsKept
  BY <1>1, <1>2 DEF CommentsKept, CommentsOnce, Live
<1>6. ForgeKept
  <2>1. branch \in {Absent, Foreign} \cup DOMAIN artifacts
    BY <1>1
  <2>2. base_kept \in BOOLEAN /\ pulls \in Seq(Pull)
    BY <1>1
  <2>3. PullsOnce /\ ConflictsAreHuman
    BY <1>2 DEF PullsOnce, ConflictsAreHuman
  <2>4. ForgeSound
    BY <1>1, <1>2 DEF ForgeSound
  <2> QED
    BY <2>1, <2>2, <2>3, <2>4 DEF ForgeKept
<1>7. World
  <2>1. 1 \in Revisions /\ "in_progress" \in Columns
    BY ImplementationAssumption DEF Revisions, Columns
  <2>2. approved \in [version : Nat, revision : Revisions]
    BY <1>1, <2>1
  <2>3. issue \in [text : Revisions, approval_label : BOOLEAN, column : Columns]
    BY <1>1, <2>1
  <2>4. touched \in BOOLEAN
    BY <1>1
  <2>5. faults \in 0..MaxFaults
    BY <1>1, ImplementationAssumption
  <2>6. edits \in 0..MaxEdits
    BY <1>1, ImplementationAssumption
  <2> QED
    BY <2>2, <2>3, <2>4, <2>5, <2>6 DEF World
<1>8. /\ poll \in Poll /\ poll.at = "idle" /\ poll.context = "none" /\ poll.key = 0
  BY <1>1, IdleType
<1>9. poll.at \notin Taking \cup Writing \cup Publication \cup Implementing \cup Storing
  BY <1>8 DEF Taking, Writing, Publication, Implementing, Storing, Failing, AutomaticOnly,
     Pushes, Pulls, Hands
<1>10. PollKept
  <2>1. PollShape /\ TodoPending
    BY <1>1, <1>2, <1>8 DEF PollShape, TodoPending, Pending
  <2>2. PollPlaced /\ PollAttempts /\ PollPublishes
    BY <1>8, <1>9 DEF PollPlaced, PollAttempts, PollPublishes
  <2> QED
    BY <2>1, <2>2 DEF PollKept, PollSound
<1> QED
  BY <1>3, <1>4, <1>5, <1>6, <1>7, <1>10, Parts

LEMMA StutterKeeps == ASSUME IInv, UNCHANGED vars PROVE IInv'
<1>1. UNCHANGED <<store_vars, forge_vars, poll_vars, people_vars, faults>>
  BY DEF vars
<1>2. UNCHANGED <<attempts, artifacts, decision, bundle, intents, issue, comments, branch,
                  base_kept, pulls, poll, todo, approved, touched, edits, faults>>
  BY <1>1 DEF store_vars, forge_vars, poll_vars, people_vars
<1>3. AttemptsKept' /\ Rows' /\ CommentsKept' /\ ForgeKept' /\ World'
  BY <1>2, AttemptsStay, RowsStay, CommentsStay, ForgeStays, WorldStays
<1>4. PollKept'
  BY <1>2, PollStays
<1> QED
  BY <1>3, <1>4, StepKeeps

LEMMA NextKeeps == IInv /\ [Next]_vars => IInv'
<1> SUFFICES ASSUME IInv, [Next]_vars PROVE IInv'
  OBVIOUS
<1>1. CASE Reconciling
  BY <1>1, PollStartsKeeps, BlockExhaustedKeeps, SkipPublicationKeeps, ResumePublicationKeeps,
     PendingDoneKeeps DEF Reconciling
<1>2. CASE Attempting
  BY <1>2, NoCandidateKeeps, TakeCandidateKeeps, ClaimKeeps, AdoptRunKeeps, RefuseDockerKeeps,
     ImplementKeeps, ValidateKeeps, RepairKeeps, FailAttemptKeeps, DecideFailedKeeps,
     StoreGapKeeps, IntendDiagnosticKeeps, StoreCompletedKeeps, StoreBundleKeeps,
     DecideKeeps, IntendPublicationKeeps DEF Attempting
<1>3. CASE Commenting
  BY <1>3, UpdateRecordedKeeps, AdoptCommentKeeps, CreateCommentKeeps, BindCommentKeeps
     DEF Commenting
<1>4. CASE Pushing
  BY <1>4, BaseConflictKeeps, BranchConflictKeeps, ObserveBranchKeeps, PushKeeps, ConfirmPushKeeps
     DEF Pushing
<1>5. CASE PullRequests
  BY <1>5, ReverifyPullKeeps, StoredPullDriftedKeeps, PullNotVisibleKeeps, PullConflictKeeps,
     AdoptPullKeeps, NoPullKeeps, CreatePullKeeps, StorePullKeeps DEF PullRequests
<1>6. CASE HandingOn
  BY <1>6, ListLabelsKeeps, RemoveLabelKeeps, SetColumnKeeps, ObserveColumnKeeps,
     DecidePublishedKeeps DEF HandingOn
<1>7. CASE Publishing
  BY <1>4, <1>5, <1>6, <1>7, RevisionDriftsKeeps, StartPublicationKeeps, RecordProgressKeeps,
     CompletePublicationKeeps DEF Publishing
<1>8. CASE Symphony
  BY <1>1, <1>2, <1>3, <1>7, <1>8, CallRefusedKeeps DEF Symphony
<1>9. CASE People
  BY <1>9, PeopleEditTextKeeps, NextVersionApprovedKeeps, PeopleMoveIssueKeeps,
     PeopleDeleteCommentKeeps, PeopleMoveBranchKeeps, PeopleChangePullKeeps, OperatorResetsKeeps
     DEF People
<1> QED
  BY <1>8, <1>9, CallFailsKeeps, CrashKeeps, BackoffElapsesKeeps, LeaseExpiresKeeps, StutterKeeps
     DEF Next

\* The inductive invariant holds in every state.
THEOREM InvariantHolds == Spec => []IInv
  BY InitHolds, NextKeeps, PTL DEF Spec

----------------------------------------------------------------------------
(* The properties *)

\* Every variable keeps its shape (the tables of triage/store.rs and what a poll
\* of implementation/coordinator.rs knows).
THEOREM TypeHolds == Spec => []TypeOK
<1>1. IInv => TypeOK
  BY DEF IInv
<1> QED
  BY <1>1, InvariantHolds, PTL

\* However often attempts and publications are cut short and resumed, one attempt
\* runs at a time, a version is implemented once, and its publication has one
\* comment and one pull request (upsert_marked_comment, reconcile_draft_pr,
\* claim_implementation_attempt).
THEOREM WorkIsDoneOnce == Spec => []WorkDoneOnce
<1>1. IInv => WorkDoneOnce
  <2> SUFFICES ASSUME IInv PROVE WorkDoneOnce
    OBVIOUS
  <2>1. CommentsOnce /\ PullsOnce /\ RunningOnce /\ BudgetKept /\ ImplementedOnce /\ BundleKept
    BY DEF IInv
  <2>2. ASSUME NEW i \in DOMAIN intents
        PROVE  /\ Cardinality({c \in Live : comments[c].intent = i}) <= 1
               /\ Cardinality({n \in DOMAIN pulls : pulls[n].intent = i /\ pulls[n].base = "kept"})
                      <= 1
    <3> DEFINE C == {c \in Live : comments[c].intent = i}
               P == {n \in DOMAIN pulls : pulls[n].intent = i /\ pulls[n].base = "kept"}
    <3>1. i # 0
      BY Facts
    <3>2. \A c, d \in C : c = d
      BY <2>1 DEF CommentsOnce
    <3>3. \A m, n \in P : m = n
      BY <2>1, <3>1 DEF PullsOnce
    <3> HIDE DEF C, P
    <3>4. Cardinality(C) <= 1
      BY <3>2, AtMostOne
    <3>5. Cardinality(P) <= 1
      BY <3>3, AtMostOne
    <3> QED
      BY <3>4, <3>5 DEF C, P
  <2>3. PublishedOnce
    BY <2>2 DEF PublishedOnce
  <2>4. Cardinality(Running) <= 1
    BY <2>1, AtMostOne DEF RunningOnce
  <2>5. \A r \in Revisions, m \in Modes :
          Cardinality({n \in DOMAIN attempts : attempts[n].revision = r /\ attempts[n].mode = m})
              <= MaxAttempts
    BY <2>1 DEF BudgetKept, AttemptsOf
  <2>6. \A i \in DOMAIN intents :
          intents[i].kind = "automatic" /\ intents[i].status \in {"pending", "blocked"}
              => bundle = intents[i].artifact
    BY <2>1 DEF BundleKept
  <2>7. AttemptsSound
    BY <2>1, <2>4, <2>5, <2>6 DEF AttemptsSound, ImplementedOnce
  <2> QED
    BY <2>3, <2>7 DEF WorkDoneOnce
<1> QED
  BY <1>1, InvariantHolds, PTL

\* A publication is applied, and the run decided as published, only once all its
\* steps are recorded, its draft pull request among them
\* (reconcile_automatic_publication).
THEOREM AppliedIsPublished == Spec => []AppliedMeansPublished
<1>1. IInv => AppliedMeansPublished
  BY DEF IInv
<1> QED
  BY <1>1, InvariantHolds, PTL

\* What Symphony itself left on the forge, in whatever step it was cut short, is
\* never taken for somebody else's (decide_branch_projection, verify_owned_draft_pr).
THEOREM OnlyPeopleConflict == Spec => []ConflictsAreHuman
<1>1. IInv => ConflictsAreHuman
  BY DEF IInv
<1> QED
  BY <1>1, InvariantHolds, PTL

\* Symphony itself changes the issue in two steps only.
LEMMA IssueChanges ==
    ASSUME IInv, [Next]_vars, issue' # issue, edits' = edits
    PROVE  poll.at \in Hands
<1>1. edits # edits + 1
  BY Facts DEF World
<1>2. \A k : ~Edit(k)
  BY <1>1 DEF Edit
<1>3. CASE Reconciling
  BY <1>3 DEF Reconciling, PollStarts, BlockExhausted, SkipPublication, ResumePublication,
     PendingDone, forge_vars
<1>4. CASE Attempting
  BY <1>4 DEF Attempting, NoCandidate, TakeCandidate, Claim, AdoptRun, RefuseDocker, Implement,
     Validate, Repair, FailAttempt, DecideFailed, StoreGap, IntendDiagnostic, StoreCompleted,
     StoreBundle, Decide, IntendPublication, forge_vars
<1>5. CASE Commenting
  BY <1>5 DEF Commenting, UpdateRecorded, AdoptComment, CreateComment, BindComment, forge_vars
<1>6. CASE Pushing
  BY <1>6 DEF Pushing, BaseConflict, BranchConflict, ObserveBranch, Push, ConfirmPush, Conflict,
     forge_vars
<1>7. CASE PullRequests
  BY <1>7 DEF PullRequests, ReverifyPull, StoredPullDrifted, PullNotVisible, PullConflict,
     AdoptPull, NoPull, CreatePull, StorePull, Conflict, forge_vars
<1>8. CASE HandingOn
  BY <1>8 DEF HandingOn, ListLabels, RemoveLabel, SetColumn, ObserveColumn, DecidePublished,
     forge_vars, Hands
<1>9. CASE RevisionDrifts \/ StartPublication \/ RecordProgress \/ CompletePublication
  BY <1>9 DEF RevisionDrifts, StartPublication, RecordProgress, CompletePublication, forge_vars
<1>10. CASE CallRefused \/ CallFails \/ Crash \/ BackoffElapses \/ LeaseExpires
  BY <1>10 DEF CallRefused, CallFails, Crash, BackoffElapses, LeaseExpires, forge_vars
<1>11. CASE People
  BY <1>2, <1>11 DEF People, PeopleEditText, NextVersionApproved, PeopleMoveIssue,
     PeopleDeleteComment, PeopleMoveBranch, PeopleChangePull, OperatorResets, forge_vars
<1>12. CASE UNCHANGED vars
  BY <1>12 DEF vars, forge_vars
<1> QED
  BY <1>3, <1>4, <1>5, <1>6, <1>7, <1>8, <1>9, <1>10, <1>11, <1>12 DEF Next, Symphony, Publishing

\* Symphony hands the issue on only once the publication's pull request is stored,
\* and is still as it was verified unless people have touched it
\* (publish_automatic).
THEOREM HandoffIsAfterPull == Spec => HandoffAfterPull
<1>1. ASSUME IInv, [Next]_vars, edits' = edits,
             issue'.column # issue.column \/ issue'.approval_label # issue.approval_label
      PROVE  /\ Persisted # 0
             /\ pulls[Persisted].intent = poll.key
             /\ Verified(Persisted) \/ touched
  <2>1. issue' # issue
    BY <1>1
  <2>2. poll.at \in Hands
    BY <1>1, <2>1, IssueChanges
  <2>3. poll.at \in Publication /\ "pr_verified" \in IntentOf.steps
    BY <1>1, <2>2, AtHands
  <2>4. /\ Persisted # 0 /\ Persisted \in DOMAIN pulls
        /\ pulls[Persisted].intent = poll.key
    BY <1>1, <2>3, AtPublication
  <2>5. ASSUME ~touched PROVE Verified(Persisted)
    <3>1. ForgeSound
      BY <1>1, Facts DEF ForgeKept
    <3>2. /\ pulls[Persisted].open /\ pulls[Persisted].draft /\ branch \in {Absent, bundle}
          /\ pulls # <<>> => branch # Absent
      BY <2>4, <2>5, <3>1 DEF ForgeSound
    <3>3. pulls # <<>>
      BY <1>1, <2>4, Facts
    <3> QED
      BY <3>2, <3>3 DEF Verified
  <2> QED
    BY <2>4, <2>5
<1>2. IInv /\ [Next]_vars =>
        [(issue'.column # issue.column \/ issue'.approval_label # issue.approval_label)
             /\ edits' = edits
         => /\ Persisted # 0
            /\ pulls[Persisted].intent = poll.key
            /\ Verified(Persisted) \/ touched]_vars
  BY <1>1
<1> QED
  BY <1>2, InvariantHolds, PTL DEF Spec, HandoffAfterPull
=============================================================================
