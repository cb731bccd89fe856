------------------------------ MODULE SpecProofs ------------------------------
(* Safety of SpecStage for any number of attempts, revisions, requests,     *)
(* faults and edits.                                                        *)
EXTENDS SpecStage, SequenceTheorems, FiniteSetTheorems, WellFoundedInduction, TLAPS

\* The places where a poll waits for nothing, where it has an attempt under way,
\* and where it is at a publication.
Resting == {"idle", "pending", "intake"}
Working == {"turn", "review", "store"}
Publication == {"mark", "comment", "bind", "revise", "labels", "route", "column", "pin",
                "finish"}

\* The poll carries out an approval, and it shows that it is carried out.
Approves == poll.at \in Publication /\ IntentOf.kind = "approval"
Confirming == poll.at \in {"comment", "bind"} /\ poll.shows = "approved"

\* The parts of WorkDoneOnce.
OneLive == \A c, d \in Live : c = d
RunningOnce == \A r \in Revisions : \A m, n \in Running(r) : m = n
BudgetKept == \A r \in Revisions : Len(attempts[r]) <= MaxAttempts
VersionsOnce == \A v, w \in DOMAIN artifacts : artifacts[v] = artifacts[w] => v = w

\* Whatever people write is one of their edits.
TextDated == issue.text <= edits + 1

\* What is left to resume is due.
TodoPending == todo \subseteq PendingIntents

\* A poll works on a revision that exists, and on an attempt that is there; it
\* has a cycle left whenever it writes.
PollAttempt ==
    /\ poll.at \in {"decide", "claim"} => poll.context = "none" /\ poll.cycle = 0
    /\ poll.at \in Working => poll.context = "attempt"
    /\ poll.at \in {"decide", "claim"} \/ poll.context = "attempt" => poll.rev \in Revisions
    /\ poll.context = "attempt" => attempts[poll.rev] # <<>>
    /\ poll.at = "turn" => poll.cycle < MaxReviewCycles

\* A poll remembers nothing from one piece of work to the next, and resumes no
\* publication twice, and all of them before anything else.
PollOwns ==
    /\ poll.at \in Resting => poll = [Idle EXCEPT !.at = poll.at]
    /\ poll.at \notin Publication =>
        poll.key = 0 /\ poll.context # "resume" /\ poll.step = 0
    /\ poll.at \in Publication => poll.key > 0
    /\ poll.key \notin todo
    /\ poll.at # "pending" /\ poll.context # "resume" => todo = {}

\* What is to be shown is fit for a comment, a comment that was made is there,
\* and the labels are removed from the first one on.
PollShows ==
    /\ poll.at \in {"comment", "bind"} => poll.shows \in Texts
    /\ poll.at = "bind" => \E c \in DOMAIN comments : comments[c].intent = poll.key
    /\ poll.at = "mark" => poll.step = 0
    /\ poll.at \in {"comment", "bind"} /\ poll.shows # "approved" => poll.step = 0
    /\ poll.at = "labels" => poll.step \in 0..2

\* An approval is carried out once, and pinned before it is shown as carried out.
PollApproves ==
    Approves =>
        /\ IntentOf.status = "pending"
        /\ poll.at # "revise"
        /\ poll.at \in {"comment", "bind"} => poll.shows \in {"pending", "approved"}
        /\ poll.at = "finish" \/ Confirming => state.approved = IntentOf.version

\* What an approval has changed on the forge so far is still there, unless people
\* have changed it.
PollRoutes ==
    Approves /\ ~touched =>
        /\ poll.at = "labels" =>
            \A n \in 1..poll.step : ApprovalLabels[n] \notin issue.labels
        /\ poll.at \in {"route", "column", "pin", "finish"} \/ Confirming =>
            issue.labels \cap {Intake, Approved, Revise} = {}
        /\ poll.at \in {"column", "pin", "finish"} \/ Confirming => Route \in issue.labels
        /\ poll.at \in {"pin", "finish"} \/ Confirming => issue.column = "todo"

PollSound == PollAttempt /\ PollOwns /\ PollShows /\ PollApproves /\ PollRoutes

IInv ==
    /\ TypeOK /\ OneLive /\ RunningOnce /\ BudgetKept /\ VersionsOnce /\ ApprovedIsPinned
    /\ TextDated /\ TodoPending /\ PollSound

\* The invariant by what its parts are about: the attempts, the other rows of the
\* store, the comments, what people change, and the poll.
AttemptsOnce == attempts \in [Revisions -> Seq(AttemptStatus)] /\ RunningOnce /\ BudgetKept
Rows ==
    /\ run_status \in {"none", "active", "waiting", "completed", "ineligible"}
    /\ artifacts \in Seq(Revisions) /\ VersionsOnce
    /\ state \in RunState /\ intents \in Seq(Intent) /\ fresh \in BOOLEAN
CommentsOnce == comments \in Seq(Comment) /\ OneLive
World ==
    /\ issue \in [labels : SUBSET Labels, column : Columns, text : Revisions] /\ TextDated
    /\ enabled \in BOOLEAN /\ touched \in BOOLEAN
    /\ faults \in 0..MaxFaults /\ edits \in 0..MaxEdits
PollShape == poll \in Poll /\ poll.key \in 0..Len(intents)
PollKept == TodoPending /\ PollShape /\ PollSound

----------------------------------------------------------------------------
(* Lemmas about sequences, extrema and the shapes of things *)

\* A sequence grows at its end.
LEMMA AppendIs ==
    ASSUME NEW S, NEW s \in Seq(S), NEW e \in S
    PROVE  /\ Append(s, e) \in Seq(S)
           /\ Len(s) \in Nat /\ DOMAIN s = 1..Len(s)
           /\ Len(Append(s, e)) = Len(s) + 1
           /\ DOMAIN Append(s, e) = 1..(Len(s) + 1)
           /\ \A i \in 1..Len(s) : Append(s, e)[i] = s[i]
           /\ Append(s, e)[Len(s) + 1] = e
  OBVIOUS

\* A nonempty set of natural numbers has its minimum among its elements.
LEMMA MinIsMember ==
    ASSUME NEW S \in SUBSET Nat, S # {}
    PROVE  Min(S) \in S /\ \A y \in S : Min(S) <= y
<1> DEFINE R == {ss \in Nat \X Nat : ss[1] < ss[2]}
<1>1. R = OpToRel(<, Nat)
  BY Zenon DEF OpToRel
<1>2. IsWellFoundedOn(R, Nat)
  BY <1>1, NatLessThanWellFounded, Zenon
<1>3. PICK x \in S : \A y \in S : <<y, x>> \notin R
  <2> HIDE DEF R
  <2> QED
    BY <1>2, WFMin, Zenon
<1>4. ASSUME NEW y \in S PROVE x <= y
  <2>1. /\ <<y, x>> \in Nat \X Nat /\ <<y, x>>[1] = y /\ <<y, x>>[2] = x
        /\ x \in Nat /\ y \in Nat
    OBVIOUS
  <2>2. ~(y < x)
    BY <1>3, <2>1, Zenon
  <2> HIDE DEF R
  <2> QED
    BY <2>1, <2>2
<1> QED
  BY <1>4 DEF Min

\* So has one with a bound its maximum.
LEMMA MaxIsMember ==
    ASSUME NEW n \in Nat, NEW S \in SUBSET (0..n), S # {}
    PROVE  Max(S) \in S
<1> DEFINE T == {k \in 0..n : n - k \in S}
<1>0. T \in SUBSET Nat
  OBVIOUS
<1>1. T # {}
  <2>1. PICK x \in S : TRUE
    OBVIOUS
  <2>2. n - x \in 0..n /\ n - (n - x) = x
    OBVIOUS
  <2>3. n - x \in T
    BY <2>2
  <2> HIDE DEF T
  <2> QED
    BY <2>3
<1>2. Min(T) \in T /\ \A k \in T : Min(T) <= k
  <2> HIDE DEF T
  <2> QED
    BY <1>0, <1>1, MinIsMember
<1> DEFINE x == n - Min(T)
<1>3. x \in S
  BY <1>2
<1>4. ASSUME NEW y \in S PROVE x >= y
  <2>1. n - y \in T
    <3>1. n - y \in 0..n /\ n - (n - y) = y
      OBVIOUS
    <3> QED
      BY <3>1
  <2>2. Min(T) <= n - y /\ Min(T) \in 0..n
    BY <1>2, <2>1
  <2> HIDE DEF T
  <2> QED
    BY <2>2
<1> HIDE DEF x
<1> QED
  BY <1>3, <1>4 DEF Max

LEMMA Parts == IInv <=> AttemptsOnce /\ Rows /\ CommentsOnce /\ World /\ ApprovedIsPinned /\ PollKept
  BY DEF IInv, TypeOK, AttemptsOnce, Rows, CommentsOnce, World, PollKept, PollShape, TodoPending,
     PendingIntents

LEMMA StepKeeps ==
    ASSUME AttemptsOnce', Rows', CommentsOnce', World', ApprovedIsPinned', PollKept'
    PROVE  IInv'
<1> QED
  BY Parts, PTL

\* The revisions are those that people can write, and labels differ.
LEMMA LabelsDiffer == Route \notin {Intake, Approved, Revise}
<1>1. ASSUME Route \in {Intake, Approved, Revise}
      PROVE  FALSE
  <2>1. {Intake, Approved, Revise, Route, Triage}
          = (({Intake} \cup {Approved}) \cup {Revise}) \cup {Triage}
    BY <1>1
  <2>2. IsFiniteSet({Intake}) /\ Cardinality({Intake}) = 1
    BY FS_Singleton
  <2>3. /\ IsFiniteSet({Intake} \cup {Approved})
        /\ Cardinality({Intake} \cup {Approved}) \in {1, 2}
    BY <2>2, FS_AddElement
  <2>4. /\ IsFiniteSet(({Intake} \cup {Approved}) \cup {Revise})
        /\ Cardinality(({Intake} \cup {Approved}) \cup {Revise}) \in {1, 2, 3}
    BY <2>3, FS_AddElement
  <2>5. Cardinality((({Intake} \cup {Approved}) \cup {Revise}) \cup {Triage}) \in {1, 2, 3, 4}
    BY <2>4, FS_AddElement
  <2>6. Cardinality({Intake, Approved, Revise, Route, Triage}) = 5
    BY SpecAssumption
  <2>7. 5 \in {1, 2, 3, 4}
    BY <2>1, <2>5, <2>6, Zenon
  <2> QED
    BY <2>7
<1> QED
  BY <1>1

\* What is stored is numbered from one, and each row has its shape.
LEMMA Facts ==
    ASSUME IInv
    PROVE  /\ AttemptsOnce /\ Rows /\ CommentsOnce /\ World /\ ApprovedIsPinned
           /\ PollKept /\ TodoPending /\ PollShape /\ PollSound
           /\ DOMAIN intents = 1..Len(intents) /\ Len(intents) \in Nat
           /\ \A i \in DOMAIN intents : intents[i] \in Intent
           /\ DOMAIN comments = 1..Len(comments) /\ Len(comments) \in Nat
           /\ \A c \in DOMAIN comments : comments[c] \in Comment
           /\ Len(artifacts) \in Nat /\ DOMAIN artifacts = 1..Len(artifacts)
           /\ poll.key \in Nat
<1>1. /\ AttemptsOnce /\ Rows /\ CommentsOnce /\ World /\ ApprovedIsPinned
      /\ PollKept /\ TodoPending /\ PollShape /\ PollSound
  BY Parts DEF PollKept
<1>2. intents \in Seq(Intent) /\ comments \in Seq(Comment) /\ artifacts \in Seq(Revisions)
  BY <1>1 DEF Rows, CommentsOnce
<1>3. poll.key \in Nat
  BY <1>1 DEF PollShape, Poll
<1> QED
  BY <1>1, <1>2, <1>3, LenProperties, ElementOfSeq

\* A poll that rests, and one that begins a publication.
LEMMA IdleType ==
    /\ Idle \in Poll
    /\ Idle.at = "idle" /\ Idle.context = "none" /\ Idle.key = 0 /\ Idle.step = 0 /\ Idle.cycle = 0
<1>1. 0 \in 0..MaxReviewCycles
  BY SpecAssumption
<1>2. {} \subseteq Labels /\ "idle" \in Places /\ "none" \in Contexts
  BY DEF Places, Contexts
<1>3. Idle \in Poll
  BY <1>1, <1>2 DEF Idle, Poll
<1> QED
  BY <1>3 DEF Idle

LEMMA BeginType ==
    ASSUME NEW p \in Places, NEW k \in Nat, NEW c \in Contexts, NEW s \in {"none"} \cup Texts,
           poll' = [Idle EXCEPT !.at = p, !.key = k, !.context = c, !.shows = s]
    PROVE  /\ poll' \in Poll /\ poll'.at = p /\ poll'.key = k /\ poll'.context = c
           /\ poll'.shows = s /\ poll'.step = 0 /\ poll'.cycle = 0
<1>1. Idle \in Poll /\ Idle.step = 0 /\ Idle.cycle = 0
  BY IdleType
<1> QED
  BY <1>1 DEF Poll

LEMMA RestType ==
    ASSUME NEW p \in Resting
    PROVE  /\ [Idle EXCEPT !.at = p] \in Poll
           /\ [Idle EXCEPT !.at = p].at = p /\ [Idle EXCEPT !.at = p].key = 0
           /\ [Idle EXCEPT !.at = p].context = "none" /\ [Idle EXCEPT !.at = p].step = 0
           /\ [Idle EXCEPT !.at = p].cycle = 0 /\ Idle = [Idle EXCEPT !.at = "idle"]
<1>1. /\ Idle \in Poll /\ Idle.step = 0 /\ Idle.cycle = 0 /\ Idle.key = 0
      /\ Idle.context = "none" /\ Idle.at = "idle"
  BY IdleType
<1>2. p \in Places
  BY DEF Resting, Places
<1> QED
  BY <1>1, <1>2 DEF Poll

\* A poll changes its place, its publication, what it is to show, and its labels.
LEMMA GoesType ==
    ASSUME poll \in Poll, NEW p \in Places, NEW k \in Nat, NEW s \in {"none"} \cup Texts, NEW n \in 0..3,
           poll' = [poll EXCEPT !.at = p, !.key = k, !.shows = s, !.step = n]
    PROVE  /\ poll' \in Poll /\ poll'.at = p /\ poll'.key = k /\ poll'.shows = s
           /\ poll'.step = n /\ poll'.context = poll.context /\ poll'.rev = poll.rev
           /\ poll'.cycle = poll.cycle
<1> QED
  BY DEF Poll

LEMMA GotoType ==
    ASSUME poll \in Poll, NEW p \in Places, Goto(p)
    PROVE  /\ poll' \in Poll /\ poll'.at = p /\ poll'.key = poll.key
           /\ poll'.shows = poll.shows /\ poll'.step = poll.step
           /\ poll'.context = poll.context /\ poll'.rev = poll.rev /\ poll'.cycle = poll.cycle
<1> QED
  BY DEF Goto, Poll

----------------------------------------------------------------------------
(* The kinds of step *)

\* The poll rests.
LEMMA RestKept ==
    ASSUME NEW p \in Resting, poll' = [Idle EXCEPT !.at = p], todo' \subseteq PendingIntents',
           p # "pending" => todo' = {},
           Len(intents') \in Nat, DOMAIN intents' = 1..Len(intents')
    PROVE  PollKept'
<1>1. /\ poll' \in Poll /\ poll'.at = p /\ poll'.key = 0 /\ poll'.context = "none"
      /\ poll'.step = 0 /\ poll'.cycle = 0 /\ poll' = [Idle EXCEPT !.at = poll'.at]
  BY RestType
<1>2. p \notin Publication /\ p \notin Working /\ p \notin {"decide", "claim", "turn"}
  BY DEF Resting, Publication, Working
<1>3. PollShape'
  BY <1>1 DEF PollShape
<1>4. TodoPending' /\ 0 \notin todo'
  BY DEF TodoPending, PendingIntents
<1> HIDE DEF IInv
<1>5. PollAttempt' /\ PollOwns'
  BY <1>1, <1>2, <1>4 DEF PollAttempt, PollOwns
<1>6. PollShows' /\ PollApproves' /\ PollRoutes'
  BY <1>1, <1>2 DEF PollShows, PollApproves, PollRoutes, Approves, Publication
<1> QED
  BY <1>3, <1>4, <1>5, <1>6 DEF PollKept, PollSound

\* The poll is at no publication, and goes to no other.
LEMMA OffPublication ==
    ASSUME poll' \in Poll, poll'.at \notin Publication, poll'.at \notin Resting,
           poll'.key = 0, poll'.context # "resume", poll'.step = 0, PollAttempt',
           todo' = {},
           Len(intents') \in Nat, DOMAIN intents' = 1..Len(intents')
    PROVE  PollKept'
<1>1. TodoPending' /\ 0 \notin todo' /\ PollShape'
  BY DEF TodoPending, PendingIntents, PollShape
<1>2. PollOwns'
  BY <1>1 DEF PollOwns
<1>3. PollShows' /\ PollApproves' /\ PollRoutes'
  BY DEF PollShows, PollApproves, PollRoutes, Approves, Publication
<1> QED
  BY <1>1, <1>2, <1>3 DEF PollKept, PollSound

\* The poll begins a publication; an approval begins with its comment, or again
\* with the labels.
LEMMA BeginKept ==
    ASSUME NEW p \in {"mark", "comment", "labels"}, NEW k \in 1..Len(intents'),
           poll' \in Poll, poll'.at = p, poll'.key = k, poll'.step = 0,
           poll'.context = "attempt" => poll'.rev \in Revisions /\ attempts'[poll'.rev] # <<>>,
           p = "comment" => poll'.shows \in {"awaiting", "diagnostic"},
           intents'[k].kind = "approval" => p # "comment" /\ intents'[k].status = "pending",
           todo' \subseteq PendingIntents', k \notin todo',
           poll'.context # "resume" => todo' = {},
           Len(intents') \in Nat, DOMAIN intents' = 1..Len(intents')
    PROVE  PollKept'
<1>1. p \in Publication /\ p \notin Resting /\ p \notin {"decide", "claim"} /\ p \notin Working
      /\ p \notin {"turn", "bind", "revise", "route", "column", "pin", "finish"}
  BY DEF Publication, Resting, Working
<1>2. TodoPending' /\ PollShape'
  BY DEF TodoPending, PollShape
<1>3. PollAttempt' /\ PollOwns'
  BY <1>1 DEF PollAttempt, PollOwns
<1>4. PollShows'
  BY <1>1 DEF PollShows, Texts
<1>5. PollApproves' /\ PollRoutes'
  BY <1>1 DEF PollApproves, PollRoutes, Approves, Confirming, IntentOf
<1> QED
  BY <1>2, <1>3, <1>4, <1>5 DEF PollKept, PollSound

\* The poll goes on with its publication.
LEMMA PublicationKept ==
    ASSUME IInv, poll.at \in Publication, poll' \in Poll, poll'.at \in Publication,
           poll'.key = poll.key, poll'.context = poll.context, poll'.rev = poll.rev,
           UNCHANGED <<attempts, todo>>, DOMAIN intents' = DOMAIN intents,
           Len(intents') = Len(intents),
           \A i \in DOMAIN intents : i # poll.key => intents'[i] = intents[i],
           PollShows', PollApproves', PollRoutes'
    PROVE  PollKept'
<1>1. PollShape /\ TodoPending /\ PollAttempt /\ PollOwns
  BY Facts DEF PollSound
<1>2. PollShape' /\ TodoPending'
  BY <1>1 DEF PollShape, TodoPending, PendingIntents, PollOwns
<1>3. poll'.at \notin {"decide", "claim", "turn"} \cup Working \cup Resting /\ poll.at # "pending"
  BY DEF Publication, Working, Resting
<1>4. PollAttempt' /\ PollOwns'
  BY <1>1, <1>3 DEF PollAttempt, PollOwns
<1> QED
  BY <1>2, <1>4 DEF PollKept, PollSound

\* Approvals that were carried out stay so.
LEMMA ApprovedKept ==
    ASSUME ApprovedIsPinned, state'.decision # "approved" \/ UNCHANGED state,
           \A i \in Of("approval") : intents[i].status = "applied" =>
               /\ i \in DOMAIN intents' /\ intents'[i].kind = "approval"
               /\ intents'[i].status = "applied" /\ intents'[i].version = intents[i].version
    PROVE  ApprovedIsPinned'
<1>1. CASE state'.decision # "approved"
  BY <1>1 DEF ApprovedIsPinned
<1>2. CASE UNCHANGED state /\ state.decision = "approved"
  <2>1. PICK i \in Of("approval") :
            intents[i].status = "applied" /\ intents[i].version = state.approved
    BY <1>2 DEF ApprovedIsPinned
  <2>2. i \in Of("approval")' /\ intents'[i].status = "applied"
        /\ intents'[i].version = state'.approved
    BY <1>2, <2>1 DEF Of
  <2> QED
    BY <2>2 DEF ApprovedIsPinned
<1> QED
  BY <1>1, <1>2

----------------------------------------------------------------------------
(* Resuming publications *)

\* The poll rests, and the store, the comments and the world are as they were,
\* except perhaps for what the attempts have come to.
LEMMA RestStep ==
    ASSUME IInv, AttemptsOnce', Rows', World', ApprovedIsPinned', UNCHANGED comments,
           NEW p \in Resting, poll' = [Idle EXCEPT !.at = p], todo' \subseteq PendingIntents',
           p # "pending" => todo' = {},
           Len(intents') \in Nat, DOMAIN intents' = 1..Len(intents')
    PROVE  IInv'
<1>1. PollKept'
  BY RestKept
<1>2. CommentsOnce'
  BY Facts DEF CommentsOnce, OneLive, Live
<1> QED
  BY <1>1, <1>2, StepKeeps

\* Nothing but the poll changes.
LEMMA OnlyPoll ==
    ASSUME IInv, UNCHANGED <<store_vars, fresh, issue, comments, enabled, bounds, touched>>
    PROVE  /\ AttemptsOnce' /\ Rows' /\ CommentsOnce' /\ World' /\ ApprovedIsPinned'
           /\ PendingIntents' = PendingIntents
           /\ Len(intents') \in Nat /\ DOMAIN intents' = 1..Len(intents')
<1>1. /\ UNCHANGED <<run_status, attempts, artifacts, state, intents, fresh, issue, comments>>
      /\ UNCHANGED <<enabled, faults, edits, touched>>
  BY DEF store_vars, bounds
<1>2. AttemptsOnce'
  BY <1>1, Facts DEF AttemptsOnce, RunningOnce, Running, BudgetKept
<1>3. Rows' /\ CommentsOnce'
  BY <1>1, Facts DEF Rows, VersionsOnce, CommentsOnce, OneLive, Live
<1>4. World' /\ ApprovedIsPinned'
  BY <1>1, Facts DEF World, TextDated, ApprovedIsPinned, Of
<1> QED
  BY <1>1, <1>2, <1>3, <1>4, Facts DEF PendingIntents

\* A poll that is not at a publication, or rests.
LEMMA AtRest ==
    ASSUME IInv, poll.at \notin Publication
    PROVE  /\ poll.key = 0 /\ poll.context # "resume" /\ poll.step = 0 /\ poll \in Poll
           /\ poll.at # "pending" => todo = {}
           /\ poll.at \in Resting =>
                poll = [Idle EXCEPT !.at = poll.at] /\ poll.context = "none" /\ poll.cycle = 0
<1>1. /\ poll.key = 0 /\ poll.context # "resume" /\ poll.step = 0
      /\ poll.at # "pending" => todo = {}
      /\ poll.at \in Resting => poll = [Idle EXCEPT !.at = poll.at]
  BY Facts DEF PollSound, PollOwns
<1>2. poll \in Poll
  BY Facts DEF PollShape
<1>3. ASSUME poll.at \in Resting PROVE poll.context = "none" /\ poll.cycle = 0
  <2>1. [Idle EXCEPT !.at = poll.at].context = "none" /\ [Idle EXCEPT !.at = poll.at].cycle = 0
    BY <1>3, RestType
  <2> QED
    BY <1>1, <1>3, <2>1
<1> QED
  BY <1>1, <1>2, <1>3

\* Attempts whose lease has lapsed are interrupted.
LEMMA InterruptedIs ==
    ASSUME AttemptsOnce, attempts' = Interrupted
    PROVE  AttemptsOnce'
<1>1. \A r \in Revisions :
          /\ attempts[r] \in Seq(AttemptStatus)
          /\ attempts'[r] \in Seq(AttemptStatus) /\ Len(attempts'[r]) = Len(attempts[r])
          /\ DOMAIN attempts'[r] = DOMAIN attempts[r]
          /\ \A n \in DOMAIN attempts[r] : attempts'[r][n] =
                IF attempts[r][n] = "lapsed" THEN "interrupted" ELSE attempts[r][n]
  <2> SUFFICES ASSUME NEW r \in Revisions
      PROVE /\ attempts[r] \in Seq(AttemptStatus)
          /\ attempts'[r] \in Seq(AttemptStatus) /\ Len(attempts'[r]) = Len(attempts[r])
          /\ DOMAIN attempts'[r] = DOMAIN attempts[r]
          /\ \A n \in DOMAIN attempts[r] : attempts'[r][n] =
                IF attempts[r][n] = "lapsed" THEN "interrupted" ELSE attempts[r][n]
    OBVIOUS
  <2> DEFINE k == Len(attempts[r])
             f == [n \in DOMAIN attempts[r] |->
                      IF attempts[r][n] = "lapsed" THEN "interrupted" ELSE attempts[r][n]]
  <2>1. attempts[r] \in Seq(AttemptStatus) /\ k \in Nat /\ DOMAIN attempts[r] = 1..k
        /\ \A n \in 1..k : attempts[r][n] \in AttemptStatus
    BY LenProperties, ElementOfSeq DEF AttemptsOnce
  <2>2. attempts'[r] = f
    BY DEF Interrupted
  <2>3. f \in [1..k -> AttemptStatus]
    BY <2>1 DEF AttemptStatus
  <2>4. f \in Seq(AttemptStatus) /\ Len(f) = k
    BY <2>1, <2>3
  <2> QED
    BY <2>1, <2>2, <2>4
<1>2. attempts' \in [Revisions -> Seq(AttemptStatus)]
  BY <1>1 DEF Interrupted
<1>3. \A r \in Revisions : Running(r)' \subseteq Running(r)
  BY <1>1 DEF Running
<1>4. RunningOnce' /\ BudgetKept'
  BY <1>1, <1>3 DEF AttemptsOnce, RunningOnce, BudgetKept
<1> QED
  BY <1>2, <1>4 DEF AttemptsOnce

LEMMA PollStartsKeeps == ASSUME IInv, PollStarts PROVE IInv'
<1>1. poll.at = "idle" /\ poll.at \in Resting /\ poll.at \notin Publication
  BY DEF PollStarts, Resting, Publication
<1>2. poll' = [Idle EXCEPT !.at = "pending"]
  BY <1>1, AtRest DEF PollStarts, Goto
<1>3. AttemptsOnce'
  BY Facts, InterruptedIs DEF PollStarts
<1>4. UNCHANGED <<run_status, artifacts, state, intents, fresh, issue, comments>>
      /\ UNCHANGED <<enabled, faults, edits, touched>>
  BY DEF PollStarts, bounds
<1>5. Rows' /\ World' /\ ApprovedIsPinned'
  BY <1>4, Facts DEF Rows, VersionsOnce, World, TextDated, ApprovedIsPinned, Of
<1>6. todo' \subseteq PendingIntents' /\ Len(intents') \in Nat /\ DOMAIN intents' = 1..Len(intents')
  BY <1>4, Facts DEF PollStarts, PendingIntents
<1> QED
  BY <1>2, <1>3, <1>4, <1>5, <1>6, RestStep DEF Resting

LEMMA PendingDoneKeeps == ASSUME IInv, PendingDone PROVE IInv'
<1>1. /\ AttemptsOnce' /\ Rows' /\ World' /\ ApprovedIsPinned' /\ UNCHANGED comments
      /\ todo' = {} /\ todo' \subseteq PendingIntents'
      /\ Len(intents') \in Nat /\ DOMAIN intents' = 1..Len(intents')
  BY OnlyPoll DEF PendingDone
<1>2. CASE enabled
  BY <1>1, <1>2, RestStep DEF PendingDone, Resting
<1>3. CASE ~enabled
  <2>1. poll' = [Idle EXCEPT !.at = "idle"] /\ "idle" \in Resting
    BY <1>3, RestType DEF PendingDone, Resting
  <2> QED
    BY <1>1, <2>1, RestStep
<1> QED
  BY <1>2, <1>3

LEMMA ResumeKeeps == ASSUME IInv, Resume PROVE IInv'
<1>1. /\ AttemptsOnce' /\ Rows' /\ CommentsOnce' /\ World' /\ ApprovedIsPinned'
      /\ PendingIntents' = PendingIntents
      /\ Len(intents') \in Nat /\ DOMAIN intents' = 1..Len(intents') /\ UNCHANGED intents
  BY OnlyPoll DEF Resume, store_vars
<1>2. todo \subseteq PendingIntents /\ todo \in SUBSET Nat
  BY Facts DEF TodoPending, PendingIntents
<1> DEFINE k == Min(todo)
           s == IF intents[k].kind = "diagnostic" THEN "diagnostic" ELSE "awaiting"
<1>3. k \in todo
  BY <1>2, MinIsMember DEF Resume
<1>4. k \in 1..Len(intents') /\ intents'[k].status = "pending"
  BY <1>1, <1>2, <1>3 DEF PendingIntents
<1>5. poll' = [Idle EXCEPT !.at = ResumedAt(k), !.key = k, !.context = "resume", !.shows = s]
  BY DEF Resume
<1>6. /\ ResumedAt(k) \in {"mark", "comment", "labels"} /\ ResumedAt(k) \in Places
      /\ intents[k].kind = "approval" => ResumedAt(k) # "comment"
      /\ s \in {"awaiting", "diagnostic"} /\ s \in Texts /\ "resume" \in Contexts
  BY DEF ResumedAt, Places, Texts, Contexts
<1>7. todo' = todo \ {k}
  BY DEF Resume
<1> HIDE DEF k, s
<1>8. /\ poll' \in Poll /\ poll'.at = ResumedAt(k) /\ poll'.key = k
      /\ poll'.context = "resume" /\ poll'.shows = s /\ poll'.step = 0
  <2>1. k \in Nat /\ s \in {"none"} \cup Texts
    BY <1>1, <1>4, <1>6
  <2> QED
    BY <1>5, <1>6, <2>1, BeginType
<1>9. PollKept'
  BY <1>1, <1>2, <1>4, <1>6, <1>7, <1>8, BeginKept
<1> QED
  BY <1>1, <1>9, StepKeeps

----------------------------------------------------------------------------
(* Decisions *)

\* A decision that changes nothing but the poll and the status of the run.
LEMMA FactsAtDecide ==
    ASSUME IInv, poll.at \in {"decide", "claim", "turn", "review", "store", "intend"}
    PROVE  /\ poll.key = 0 /\ poll.context # "resume" /\ poll.step = 0 /\ poll \in Poll
           /\ poll.at \notin Publication
           /\ poll.at \in {"decide", "claim"} => poll.context = "none" /\ poll.cycle = 0
           /\ poll.at \in Working => poll.context = "attempt"
           /\ poll.at \in {"decide", "claim"} \cup Working \/ poll.context = "attempt" =>
                poll.rev \in Revisions
           /\ poll.context = "attempt" => attempts[poll.rev] # <<>>
           /\ poll.at = "turn" => poll.cycle < MaxReviewCycles
           /\ todo = {}
<1>1. poll.at \notin Publication
  BY DEF Publication
<1> QED
  BY <1>1, AtRest, Facts DEF PollSound, PollAttempt

LEMMA FetchIntakeKeeps == ASSUME IInv, FetchIntake PROVE IInv'
<1>1. /\ AttemptsOnce' /\ Rows' /\ CommentsOnce' /\ World' /\ ApprovedIsPinned'
      /\ UNCHANGED comments /\ todo' = {} /\ todo' \subseteq PendingIntents'
      /\ Len(intents') \in Nat /\ DOMAIN intents' = 1..Len(intents')
  BY OnlyPoll, AtRest DEF FetchIntake, Publication
<1>2. CASE Intake \in issue.labels
  <2>1. /\ issue.text \in Revisions /\ issue.labels \in SUBSET Labels /\ fresh \in BOOLEAN
        /\ issue.text \in Nat /\ (issue.column # "none") \in BOOLEAN
    BY Facts, SpecAssumption DEF World, Rows, Revisions
  <2>2. poll' = [Idle EXCEPT !.at = "decide", !.rev = issue.text, !.labels = issue.labels,
                             !.feedback = fresh, !.on_board = (issue.column # "none")]
    BY <1>2 DEF FetchIntake
  <2>3. /\ poll' \in Poll /\ poll'.at = "decide" /\ poll'.rev = issue.text /\ poll'.key = 0
        /\ poll'.context = "none" /\ poll'.step = 0 /\ poll'.cycle = 0
    BY <2>1, <2>2, IdleType DEF Poll, Places
  <2>4. poll'.at \notin Publication /\ poll'.at \notin Resting
    BY <2>3 DEF Publication, Resting
  <2>5. PollAttempt'
    BY <2>1, <2>3 DEF PollAttempt, Working
  <2>6. PollKept'
    BY <1>1, <2>3, <2>4, <2>5, OffPublication
  <2> QED
    BY <1>1, <2>6, StepKeeps
<1>3. CASE Intake \notin issue.labels
  <2>1. poll' = [Idle EXCEPT !.at = "idle"] /\ "idle" \in Resting
    BY <1>3, RestType DEF FetchIntake, Resting
  <2> QED
    BY <1>1, <2>1, RestStep
<1> QED
  BY <1>2, <1>3

\* The poll ends, having changed nothing.
LEMMA IdleStep ==
    ASSUME IInv, UNCHANGED <<store_vars, fresh, issue, comments, todo, enabled, bounds, touched>>,
           poll.at \notin Publication, poll.at # "pending", poll' = Idle
    PROVE  IInv'
<1>1. /\ AttemptsOnce' /\ Rows' /\ CommentsOnce' /\ World' /\ ApprovedIsPinned'
      /\ UNCHANGED comments /\ todo' = {} /\ todo' \subseteq PendingIntents'
      /\ Len(intents') \in Nat /\ DOMAIN intents' = 1..Len(intents')
  BY OnlyPoll, AtRest
<1>2. poll' = [Idle EXCEPT !.at = "idle"] /\ "idle" \in Resting
  BY RestType DEF Resting
<1> QED
  BY <1>1, <1>2, RestStep

LEMMA NothingToDoKeeps == ASSUME IInv, NothingToDo PROVE IInv'
  BY IdleStep DEF NothingToDo, Undecided, Deciding, Publication

LEMMA ClaimFailsKeeps == ASSUME IInv, ClaimFails PROVE IInv'
  BY IdleStep DEF ClaimFails, Publication

LEMMA TriageOwnsKeeps == ASSUME IInv, TriageOwns PROVE IInv'
<1>1. /\ UNCHANGED <<attempts, artifacts, state, intents, fresh, issue, comments, todo>>
      /\ UNCHANGED <<enabled, faults, edits, touched>> /\ run_status' = "ineligible"
  BY DEF TriageOwns, bounds
<1>2. AttemptsOnce'
  BY <1>1, Facts DEF AttemptsOnce, RunningOnce, Running, BudgetKept
<1>3. Rows' /\ World' /\ ApprovedIsPinned'
  BY <1>1, Facts DEF Rows, VersionsOnce, World, TextDated, ApprovedIsPinned, Of
<1>4. /\ todo' = {} /\ todo' \subseteq PendingIntents'
      /\ Len(intents') \in Nat /\ DOMAIN intents' = 1..Len(intents')
  BY <1>1, Facts, FactsAtDecide DEF TriageOwns
<1>5. poll' = [Idle EXCEPT !.at = "idle"] /\ "idle" \in Resting
  BY RestType DEF TriageOwns, Resting
<1> QED
  BY <1>1, <1>2, <1>3, <1>4, <1>5, RestStep

\* A publication gets a row of its own.
LEMMA IntentAppended ==
    ASSUME IInv, NEW kind, NEW version \in Nat, NEW message \in Messages,
           kind \in {"preview", "diagnostic", "approval"},
           CreateIntent(kind, version, message)
    PROVE  /\ intents' \in Seq(Intent) /\ Len(intents') = Len(intents) + 1
           /\ DOMAIN intents' = 1..(Len(intents) + 1)
           /\ \A i \in DOMAIN intents : intents'[i] = intents[i]
           /\ intents'[Len(intents) + 1].kind = kind
           /\ intents'[Len(intents) + 1].version = version
           /\ intents'[Len(intents) + 1].status = "pending"
           /\ fresh' \in BOOLEAN
<1> DEFINE x == [kind |-> kind, version |-> version, status |-> "pending",
                 retries |-> 0, comment |-> 0, message |-> message]
<1>1. x \in Intent /\ x.kind = kind /\ x.version = version /\ x.status = "pending"
  BY DEF Intent
<1>2. intents' = Append(intents, x)
  BY DEF CreateIntent
<1>3. intents \in Seq(Intent) /\ fresh' \in BOOLEAN
  BY Facts DEF Rows, CreateIntent
<1> HIDE DEF x
<1> QED
  BY <1>1, <1>2, <1>3, AppendIs

\* It changes nothing else, and what was carried out stays so.
LEMMA CreateStep ==
    ASSUME IInv, NEW kind, NEW version \in Nat, NEW message \in Messages,
           kind \in {"preview", "diagnostic", "approval"},
           CreateIntent(kind, version, message),
           run_status' \in {"none", "active", "waiting", "completed", "ineligible"},
           UNCHANGED <<attempts, artifacts, state, issue, comments, enabled, bounds, touched>>
    PROVE  /\ AttemptsOnce' /\ Rows' /\ CommentsOnce' /\ World' /\ ApprovedIsPinned'
           /\ Len(intents) + 1 \in 1..Len(intents')
           /\ Len(intents') \in Nat /\ DOMAIN intents' = 1..Len(intents')
<1>1. /\ UNCHANGED <<attempts, artifacts, state, issue, comments>>
      /\ UNCHANGED <<enabled, faults, edits, touched>>
  BY DEF bounds
<1>2. /\ intents' \in Seq(Intent) /\ Len(intents') = Len(intents) + 1
      /\ DOMAIN intents' = 1..(Len(intents) + 1)
      /\ \A i \in DOMAIN intents : intents'[i] = intents[i]
      /\ fresh' \in BOOLEAN
  BY IntentAppended
<1>3. Len(intents) \in Nat /\ DOMAIN intents = 1..Len(intents)
  BY Facts
<1>4. AttemptsOnce' /\ Rows'
  BY <1>1, <1>2, Facts DEF AttemptsOnce, RunningOnce, Running, BudgetKept, Rows, VersionsOnce
<1>5. CommentsOnce' /\ World'
  BY <1>1, Facts DEF CommentsOnce, OneLive, Live, World, TextDated
<1>6. ApprovedIsPinned'
  BY <1>1, <1>2, <1>3, Facts, ApprovedKept DEF Of
<1> QED
  BY <1>2, <1>3, <1>4, <1>5, <1>6

LEMMA ApproveKeeps == ASSUME IInv, Approve PROVE IInv'
<1> DEFINE k == Len(intents) + 1
<1>1. /\ CreateIntent("approval", LatestVersion, "none") /\ LatestVersion \in Nat
      /\ "none" \in Messages
      /\ UNCHANGED <<run_status, attempts, artifacts, state, issue, comments, todo, enabled,
                     bounds, touched>>
      /\ poll' = [Idle EXCEPT !.at = "mark", !.key = k] /\ poll.at = "decide"
  BY Facts DEF Approve, LatestVersion, Messages, IsApproved, Deciding
<1>2. run_status' \in {"none", "active", "waiting", "completed", "ineligible"}
  BY <1>1, Facts DEF Rows
<1>3. /\ AttemptsOnce' /\ Rows' /\ CommentsOnce' /\ World' /\ ApprovedIsPinned'
      /\ k \in 1..Len(intents')
      /\ Len(intents') \in Nat /\ DOMAIN intents' = 1..Len(intents')
  BY <1>1, <1>2, CreateStep
<1>4. intents'[k].status = "pending"
  BY <1>1, IntentAppended
<1>5. todo' = {}
  BY <1>1, FactsAtDecide
<1>6. /\ poll' \in Poll /\ poll'.at = "mark" /\ poll'.key = k /\ poll'.context = "none"
      /\ poll'.step = 0
  <2>1. k \in Nat
    BY Facts
  <2> HIDE DEF k
  <2> QED
    BY <1>1, <2>1, IdleType DEF Poll, Places
<1> HIDE DEF k
<1>7. PollKept'
  BY <1>3, <1>4, <1>5, <1>6, BeginKept
<1> QED
  BY <1>3, <1>7, StepKeeps

\* One publication changes, and keeps what it is about.
LEMMA IntentWritten ==
    ASSUME IInv, NEW k \in DOMAIN intents, NEW x \in Intent,
           intents' = [intents EXCEPT ![k] = x], x.kind = intents[k].kind,
           x.version = intents[k].version
    PROVE  /\ intents' \in Seq(Intent) /\ Len(intents') = Len(intents)
           /\ DOMAIN intents' = DOMAIN intents /\ intents'[k] = x
           /\ \A i \in DOMAIN intents :
                  /\ i # k => intents'[i] = intents[i]
                  /\ intents'[i].kind = intents[i].kind
                  /\ intents'[i].version = intents[i].version
<1>1. intents \in Seq(Intent) /\ k \in 1..Len(intents)
  BY Facts DEF Rows
<1>2. intents' \in Seq(Intent) /\ Len(intents') = Len(intents)
  BY <1>1, ExceptSeq
<1> QED
  BY <1>2

\* A diagnostic is published by the poll that found the reason for it, whether
\* its row was opened again or is as it was.
LEMMA DiagnosticStep ==
    ASSUME IInv, poll.at = "decide", NEW k \in DOMAIN intents, NEW x \in Intent,
           intents[k].kind = "diagnostic", intents' = [intents EXCEPT ![k] = x],
           x.kind = "diagnostic", x.version = intents[k].version,
           x.status = "pending" \/ x.status = intents[k].status,
           run_status' \in {"none", "active", "waiting", "completed", "ineligible"},
           UNCHANGED <<attempts, artifacts, state, fresh, issue, comments, todo, enabled,
                       bounds, touched>>,
           poll' = [Idle EXCEPT !.at = "comment", !.key = k, !.shows = "diagnostic"]
    PROVE  IInv'
<1>1. /\ UNCHANGED <<attempts, artifacts, state, fresh, issue, comments, todo>>
      /\ UNCHANGED <<enabled, faults, edits, touched>>
  BY DEF bounds
<1>2. /\ intents' \in Seq(Intent) /\ Len(intents') = Len(intents)
      /\ DOMAIN intents' = DOMAIN intents /\ intents'[k] = x
      /\ \A i \in DOMAIN intents : i # k => intents'[i] = intents[i]
  BY IntentWritten
<1>3. Len(intents) \in Nat /\ DOMAIN intents = 1..Len(intents)
  BY Facts
<1>4. AttemptsOnce' /\ Rows'
  BY <1>1, <1>2, Facts DEF AttemptsOnce, RunningOnce, Running, BudgetKept, Rows, VersionsOnce
<1>5. CommentsOnce' /\ World'
  BY <1>1, Facts DEF CommentsOnce, OneLive, Live, World, TextDated
<1>6. ApprovedIsPinned'
  BY <1>1, <1>2, <1>3, Facts, ApprovedKept DEF Of
<1>7. todo' = {}
  BY <1>1, FactsAtDecide
<1>8. PollKept'
  <2>1. /\ poll' \in Poll /\ poll'.at = "comment" /\ poll'.key = k /\ poll'.context = "none"
        /\ poll'.step = 0 /\ poll'.shows = "diagnostic"
    <3>1. k \in Nat
      BY <1>3
    <3> QED
      BY <3>1, IdleType DEF Poll, Places, Texts
  <2>2. k \in 1..Len(intents') /\ intents'[k].kind = "diagnostic"
        /\ Len(intents') \in Nat /\ DOMAIN intents' = 1..Len(intents')
    BY <1>2, <1>3
  <2> QED
    BY <1>7, <2>1, <2>2, BeginKept
<1> QED
  BY <1>4, <1>5, <1>6, <1>8, StepKeeps

LEMMA DiagnosticKeeps ==
    ASSUME IInv, poll.at = "decide", NEW version \in Nat, NEW message \in Messages,
           PublishDiagnostic(version, message),
           run_status' \in {"none", "active", "waiting", "completed", "ineligible"},
           UNCHANGED <<attempts, artifacts, state, issue, comments, todo, enabled, bounds, touched>>
    PROVE  IInv'
<1> DEFINE again == Of("diagnostic")
           i == IF again = {} THEN Len(intents) + 1 ELSE Min(again)
           Left == again # {} /\ intents[i].status = "applied" /\ intents[i].message = message
           begun == [Idle EXCEPT !.at = "comment", !.key = i, !.shows = "diagnostic"]
<1>1. /\ Left => poll' = Idle /\ UNCHANGED <<intents, fresh>>
      /\ ~Left => poll' = begun
      /\ ~Left /\ again = {} => CreateIntent("diagnostic", version, message)
      /\ ~Left /\ again # {} =>
            /\ intents' = [intents EXCEPT ![i].status = "pending", ![i].message = message]
            /\ UNCHANGED fresh
  BY DEF PublishDiagnostic
<1>2. Len(intents) \in Nat /\ DOMAIN intents = 1..Len(intents)
      /\ \A j \in DOMAIN intents : intents[j] \in Intent
  BY Facts
<1>3. ASSUME again # {} PROVE i \in DOMAIN intents /\ intents[i].kind = "diagnostic"
  <2>1. again \in SUBSET Nat
    BY <1>2 DEF Of
  <2>2. Min(again) \in again
    <3> HIDE DEF again
    <3> QED
      BY <1>3, <2>1, MinIsMember
  <2>3. i = Min(again)
    BY <1>3
  <2> QED
    BY <2>2, <2>3 DEF Of
<1>4. UNCHANGED <<attempts, artifacts, state, issue, comments, todo>>
      /\ UNCHANGED <<enabled, faults, edits, touched>>
  BY DEF bounds
<1> HIDE DEF i
<1>5. CASE Left
  <2>1. AttemptsOnce' /\ Rows'
    BY <1>1, <1>4, <1>5, Facts
       DEF AttemptsOnce, RunningOnce, Running, BudgetKept, Rows, VersionsOnce
  <2>2. World'
    BY <1>4, Facts DEF World, TextDated
  <2>5. ApprovedIsPinned'
    BY <1>1, <1>4, <1>5, Facts, ApprovedKept DEF Of
  <2>3. todo' = {} /\ Len(intents') \in Nat /\ DOMAIN intents' = 1..Len(intents')
    BY <1>1, <1>2, <1>4, <1>5, FactsAtDecide
  <2>4. poll' = [Idle EXCEPT !.at = "idle"] /\ "idle" \in Resting
    BY <1>1, <1>5, RestType DEF Resting
  <2> QED
    BY <1>4, <2>1, <2>2, <2>3, <2>4, <2>5, RestStep
<1>6. CASE ~Left /\ again # {}
  <2> DEFINE x == [intents[i] EXCEPT !.status = "pending", !.message = message]
  <2>1. i \in DOMAIN intents /\ intents[i].kind = "diagnostic" /\ intents[i] \in Intent
    BY <1>2, <1>3, <1>6
  <2>2. x \in Intent /\ x.kind = "diagnostic" /\ x.status = "pending"
        /\ x.version = intents[i].version
    BY <2>1 DEF Intent
  <2>3. intents' = [intents EXCEPT ![i] = x] /\ UNCHANGED fresh
    BY <1>1, <1>6, <2>1
  <2> HIDE DEF x
  <2> QED
    BY <1>1, <1>4, <1>6, <2>1, <2>2, <2>3, DiagnosticStep DEF bounds
<1>7. CASE ~Left /\ again = {}
  <2>1. CreateIntent("diagnostic", version, message) /\ i = Len(intents) + 1 /\ poll' = begun
    BY <1>1, <1>7 DEF i
  <2>2. /\ AttemptsOnce' /\ Rows' /\ CommentsOnce' /\ World' /\ ApprovedIsPinned'
        /\ i \in 1..Len(intents') /\ Len(intents') \in Nat /\ DOMAIN intents' = 1..Len(intents')
    BY <2>1, CreateStep
  <2>3. intents'[i].kind = "diagnostic"
    BY <2>1, IntentAppended
  <2>4. todo' = {}
    BY <1>4, FactsAtDecide
  <2>5. /\ poll' \in Poll /\ poll'.at = "comment" /\ poll'.key = i /\ poll'.context = "none"
        /\ poll'.step = 0 /\ poll'.shows = "diagnostic"
    <3>1. i \in Nat
      BY <2>2
    <3> QED
      BY <2>1, <3>1, IdleType DEF Poll, Places, Texts
  <2>6. PollKept'
    BY <2>2, <2>3, <2>4, <2>5, BeginKept
  <2> QED
    BY <2>2, <2>6, StepKeeps
<1> QED
  BY <1>5, <1>6, <1>7

LEMMA DiagnoseKeeps ==
    ASSUME IInv, Deciding, NEW message \in Messages, Diagnose(message)
    PROVE  IInv'
<1>1. /\ poll.at = "decide" /\ LatestVersion \in Nat /\ PublishDiagnostic(LatestVersion, message)
      /\ UNCHANGED <<attempts, artifacts, state, issue, comments, todo, enabled, bounds, touched>>
      /\ run_status' \in {"none", "active", "waiting", "completed", "ineligible"}
  BY Facts DEF Deciding, LatestVersion, Diagnose, Rows
<1> QED
  BY <1>1, DiagnosticKeeps

LEMMA DiagnosticsKeep ==
    ASSUME IInv, DecisionConflict \/ ReviseWithoutFeedback \/ BudgetExhausted \/ StaleApproval
    PROVE  IInv'
<1>1. PICK message \in Messages : Deciding /\ Diagnose(message)
  BY DEF DecisionConflict, ReviseWithoutFeedback, BudgetExhausted, StaleApproval, WantsRevision,
     IsApproved, Messages
<1> QED
  BY <1>1, DiagnoseKeeps

LEMMA OffProjectKeeps == ASSUME IInv, OffProject PROVE IInv'
<1>1. /\ poll.at = "decide" /\ run_status' = "ineligible"
      /\ UNCHANGED <<attempts, artifacts, state, issue, comments, todo, enabled, bounds, touched>>
  BY DEF OffProject
<1>2. CASE Of("diagnostic") = {}
  <2>1. PublishDiagnostic(0, "off_project") /\ "off_project" \in Messages /\ 0 \in Nat
    BY <1>2 DEF OffProject, Messages
  <2> QED
    BY <1>1, <2>1, DiagnosticKeeps
<1>3. CASE Of("diagnostic") # {}
  <2> DEFINE i == Min(Of("diagnostic"))
  <2>1. i \in Of("diagnostic")
    <3>1. Of("diagnostic") \in SUBSET Nat
      BY Facts DEF Of
    <3> QED
      BY <1>3, <3>1, MinIsMember
  <2>2. i \in DOMAIN intents /\ intents[i].kind = "diagnostic" /\ intents[i] \in Intent
    BY <2>1, Facts DEF Of
  <2>3. /\ UNCHANGED <<intents, fresh>>
        /\ poll' = IF intents[i].status = "applied" THEN Idle
                   ELSE [Idle EXCEPT !.at = "comment", !.key = i, !.shows = "diagnostic"]
    BY <1>3 DEF OffProject
  <2> HIDE DEF i
  <2>4. CASE intents[i].status # "applied"
    <3>1. intents' = [intents EXCEPT ![i] = intents[i]]
      <4>1. intents = [j \in DOMAIN intents |-> intents[j]]
        BY Facts DEF Rows
      <4> QED
        BY <2>2, <2>3, <4>1
    <3> QED
      BY <1>1, <2>2, <2>3, <2>4, <3>1, DiagnosticStep
  <2>5. CASE intents[i].status = "applied"
    <3>1. /\ UNCHANGED <<attempts, artifacts, state, issue, comments, todo>>
          /\ UNCHANGED <<enabled, faults, edits, touched>>
      BY <1>1 DEF bounds
    <3>2. AttemptsOnce' /\ Rows'
      BY <1>1, <2>3, <3>1, Facts
         DEF AttemptsOnce, RunningOnce, Running, BudgetKept, Rows, VersionsOnce
    <3>3. World'
      BY <3>1, Facts DEF World, TextDated
    <3>4. ApprovedIsPinned'
      BY <2>3, <3>1, Facts, ApprovedKept DEF Of
    <3>5. todo' = {} /\ Len(intents') \in Nat /\ DOMAIN intents' = 1..Len(intents')
      BY <1>1, <2>3, <3>1, Facts, FactsAtDecide
    <3>6. poll' = [Idle EXCEPT !.at = "idle"] /\ "idle" \in Resting
      BY <2>3, <2>5, RestType DEF Resting
    <3> QED
      BY <3>1, <3>2, <3>3, <3>4, <3>5, <3>6, RestStep
  <2> QED
    BY <2>4, <2>5
<1> QED
  BY <1>2, <1>3

----------------------------------------------------------------------------
(* An attempt: drafts and reviews, then a version *)

\* The poll works on, and changes nothing else.
LEMMA WorkStep ==
    ASSUME IInv, poll.at \in {"decide", "claim", "turn", "review", "store", "intend"},
           UNCHANGED <<store_vars, fresh, issue, comments, todo, enabled, bounds, touched>>,
           poll' \in Poll, poll'.at \in {"claim", "turn", "review", "store", "intend"},
           poll'.key = 0, poll'.step = 0, poll'.context = poll.context, poll'.rev = poll.rev,
           PollAttempt'
    PROVE  IInv'
<1>1. /\ AttemptsOnce' /\ Rows' /\ CommentsOnce' /\ World' /\ ApprovedIsPinned'
      /\ Len(intents') \in Nat /\ DOMAIN intents' = 1..Len(intents')
  BY OnlyPoll
<1>2. poll'.at \notin Publication /\ poll'.at \notin Resting
  BY DEF Publication, Resting
<1>3. todo' = {} /\ poll'.context # "resume"
  BY FactsAtDecide
<1>4. PollKept'
  BY <1>1, <1>2, <1>3, OffPublication
<1> QED
  BY <1>1, <1>4, StepKeeps

LEMMA RecoverPreviewKeeps == ASSUME IInv, RecoverPreview PROVE IInv'
<1>1. poll.at = "decide" /\ Goto("intend") /\ "intend" \in Places
  BY DEF RecoverPreview, Undecided, Deciding, Places
<1>2. /\ poll' \in Poll /\ poll'.at = "intend" /\ poll'.key = 0 /\ poll'.step = 0
      /\ poll'.context = poll.context /\ poll'.rev = poll.rev /\ poll.context = "none"
  BY <1>1, FactsAtDecide, GotoType
<1>3. PollAttempt'
  BY <1>2 DEF PollAttempt, Working
<1> QED
  BY <1>1, <1>2, <1>3, WorkStep DEF RecoverPreview

LEMMA NewRevisionKeeps == ASSUME IInv, NewRevision PROVE IInv'
<1>1. poll.at = "decide" /\ poll' = [poll EXCEPT !.at = "claim", !.feedback = FALSE]
  BY DEF NewRevision, Deciding
<1>2. /\ poll \in Poll /\ poll.context = "none" /\ poll.cycle = 0 /\ poll.rev \in Revisions
      /\ poll.key = 0 /\ poll.step = 0
  BY <1>1, FactsAtDecide
<1>3. /\ poll' \in Poll /\ poll'.at = "claim" /\ poll'.key = 0 /\ poll'.step = 0
      /\ poll'.context = poll.context /\ poll'.rev = poll.rev /\ poll'.cycle = poll.cycle
  BY <1>1, <1>2 DEF Poll, Places
<1>4. PollAttempt'
  BY <1>2, <1>3 DEF PollAttempt, Working
<1> QED
  BY <1>1, <1>3, <1>4, WorkStep DEF NewRevision

LEMMA WriteTurnKeeps == ASSUME IInv, WriteTurn PROVE IInv'
<1>1. poll.at = "turn" /\ poll' = [poll EXCEPT !.at = "review", !.cycle = @ + 1]
  BY DEF WriteTurn
<1>2. /\ poll \in Poll /\ poll.context = "attempt" /\ poll.cycle < MaxReviewCycles
      /\ poll.rev \in Revisions /\ poll.key = 0 /\ poll.step = 0 /\ attempts[poll.rev] # <<>>
  BY <1>1, FactsAtDecide DEF Working
<1>3. poll.cycle + 1 \in 0..MaxReviewCycles
  BY <1>2, SpecAssumption DEF Poll
<1>4. /\ poll' \in Poll /\ poll'.at = "review" /\ poll'.key = 0 /\ poll'.step = 0
      /\ poll'.context = poll.context /\ poll'.rev = poll.rev
  BY <1>1, <1>2, <1>3 DEF Poll, Places
<1>5. PollAttempt'
  BY <1>2, <1>4 DEF PollAttempt, Working, WriteTurn, store_vars
<1> QED
  BY <1>1, <1>4, <1>5, WorkStep DEF WriteTurn

LEMMA ReviewTurnKeeps == ASSUME IInv, ReviewTurn PROVE IInv'
<1>1. PICK p \in {"store", "turn"} : Goto(p) /\ (p = "turn" => CyclesLeft)
  BY DEF ReviewTurn
<1>2. poll.at = "review" /\ p \in Places
  BY DEF ReviewTurn, Places
<1>3. /\ poll \in Poll /\ poll.context = "attempt" /\ poll.rev \in Revisions
      /\ poll.key = 0 /\ poll.step = 0 /\ attempts[poll.rev] # <<>>
  BY <1>2, FactsAtDecide DEF Working
<1>4. /\ poll' \in Poll /\ poll'.at = p /\ poll'.key = 0 /\ poll'.step = 0
      /\ poll'.context = poll.context /\ poll'.rev = poll.rev /\ poll'.cycle = poll.cycle
  BY <1>1, <1>2, <1>3, GotoType
<1>5. PollAttempt'
  BY <1>1, <1>3, <1>4 DEF PollAttempt, Working, ReviewTurn, store_vars, CyclesLeft
<1> QED
  BY <1>2, <1>4, <1>5, WorkStep DEF ReviewTurn

\* One revision's attempts change.
LEMMA AttemptsChange ==
    ASSUME AttemptsOnce, NEW r \in Revisions, NEW t \in Seq(AttemptStatus),
           attempts' = [attempts EXCEPT ![r] = t], Len(t) <= MaxAttempts,
           \A m, n \in DOMAIN t :
               t[m] \in {"running", "lapsed"} /\ t[n] \in {"running", "lapsed"} => m = n
    PROVE  AttemptsOnce' /\ attempts'[r] = t
<1>1. attempts \in [Revisions -> Seq(AttemptStatus)] /\ RunningOnce /\ BudgetKept
  BY DEF AttemptsOnce
<1>2. /\ attempts' \in [Revisions -> Seq(AttemptStatus)] /\ attempts'[r] = t
      /\ \A q \in Revisions : q # r => attempts'[q] = attempts[q]
  BY <1>1
<1>3. BudgetKept'
  BY <1>1, <1>2 DEF BudgetKept
<1>4. RunningOnce'
  <2> SUFFICES ASSUME NEW q \in Revisions, NEW m \in Running(q)', NEW n \in Running(q)'
               PROVE  m = n
    BY DEF RunningOnce
  <2>1. CASE q = r
    BY <1>2, <2>1 DEF Running
  <2>2. CASE q # r
    BY <1>1, <1>2, <2>2 DEF Running, RunningOnce
  <2> QED
    BY <2>1, <2>2
<1> QED
  BY <1>2, <1>3, <1>4 DEF AttemptsOnce

LEMMA AttemptClaimed ==
    ASSUME AttemptsOnce, NEW r \in Revisions, MayClaim(r),
           attempts' = [attempts EXCEPT ![r] = Append(@, "running")]
    PROVE  AttemptsOnce' /\ attempts'[r] # <<>>
<1> DEFINE s == attempts[r]
           t == Append(s, "running")
<1>1. s \in Seq(AttemptStatus) /\ "running" \in AttemptStatus
  BY DEF AttemptsOnce, AttemptStatus
<1>2. /\ t \in Seq(AttemptStatus) /\ Len(s) \in Nat /\ DOMAIN s = 1..Len(s)
      /\ Len(t) = Len(s) + 1 /\ DOMAIN t = 1..(Len(s) + 1)
      /\ \A i \in 1..Len(s) : t[i] = s[i]
  BY <1>1, AppendIs
<1>3. \A i \in 1..Len(s) : s[i] \notin {"running", "lapsed"}
  BY <1>2 DEF MayClaim, Running
<1>4. Len(s) + 1 <= MaxAttempts
  BY <1>2, SpecAssumption DEF MayClaim
<1>5. attempts' = [attempts EXCEPT ![r] = t]
  OBVIOUS
<1> HIDE DEF s, t
<1>6. \A m, n \in DOMAIN t :
          t[m] \in {"running", "lapsed"} /\ t[n] \in {"running", "lapsed"} => m = n
  BY <1>2, <1>3
<1>7. AttemptsOnce' /\ attempts'[r] = t
  BY <1>2, <1>4, <1>5, <1>6, AttemptsChange
<1> QED
  BY <1>2, <1>7

LEMMA AttemptEnded ==
    ASSUME AttemptsOnce, NEW r \in Revisions, attempts[r] # <<>>,
           NEW status \in {"completed", "failed"},
           attempts' = [attempts EXCEPT ![r][Len(attempts[r])] = status]
    PROVE  AttemptsOnce' /\ attempts'[r] # <<>>
<1> DEFINE s == attempts[r]
           t == [s EXCEPT ![Len(s)] = status]
<1>1. s \in Seq(AttemptStatus) /\ s # <<>> /\ status \in AttemptStatus /\ Len(s) <= MaxAttempts
  BY DEF AttemptsOnce, AttemptStatus, BudgetKept
<1>2. Len(s) \in Nat /\ DOMAIN s = 1..Len(s) /\ Len(s) \in 1..Len(s)
  BY <1>1, EmptySeq
<1>3. t \in Seq(AttemptStatus) /\ Len(t) = Len(s) /\ DOMAIN t = 1..Len(s)
  BY <1>1, <1>2, ExceptSeq
<1>4. \A m, n \in DOMAIN s :
          s[m] \in {"running", "lapsed"} /\ s[n] \in {"running", "lapsed"} => m = n
  BY DEF AttemptsOnce, RunningOnce, Running
<1>5. \A m, n \in DOMAIN t :
          t[m] \in {"running", "lapsed"} /\ t[n] \in {"running", "lapsed"} => m = n
  BY <1>2, <1>3, <1>4
<1>6. attempts' = [attempts EXCEPT ![r] = t]
  BY DEF AttemptsOnce
<1> HIDE DEF s, t
<1>7. AttemptsOnce' /\ attempts'[r] = t
  BY <1>1, <1>3, <1>5, <1>6, AttemptsChange
<1> QED
  BY <1>2, <1>3, <1>7

LEMMA RequestRevisionKeeps == ASSUME IInv, RequestRevision PROVE IInv'
<1>1. /\ poll.at = "decide" /\ poll' = [poll EXCEPT !.at = "claim", !.feedback = FALSE]
      /\ UNCHANGED <<run_status, attempts, artifacts, intents, fresh, issue, comments, todo>>
      /\ UNCHANGED <<enabled, faults, edits, touched>>
  BY DEF RequestRevision, WantsRevision, Deciding, bounds
<1>2. /\ poll \in Poll /\ poll.context = "none" /\ poll.cycle = 0 /\ poll.rev \in Revisions
      /\ poll.key = 0 /\ poll.step = 0 /\ todo = {}
  BY <1>1, FactsAtDecide
<1>3. /\ poll' \in Poll /\ poll'.at = "claim" /\ poll'.key = 0 /\ poll'.step = 0
      /\ poll'.context = poll.context /\ poll'.rev = poll.rev /\ poll'.cycle = poll.cycle
  BY <1>1, <1>2 DEF Poll, Places
<1>4. PollAttempt'
  BY <1>2, <1>3 DEF PollAttempt, Working
<1>5. state' \in RunState /\ (state'.decision # "approved" \/ UNCHANGED state)
  <2>1. state \in RunState
    BY Facts DEF Rows
  <2>2. CASE Charged
    <3>1. state' = [state EXCEPT !.requests = @ + 1, !.decision = "revision_requested"]
      BY <2>2 DEF RequestRevision
    <3>2. state.requests + 1 \in Nat
      BY <2>1 DEF RunState
    <3>3. state' = [state EXCEPT !.requests = state.requests + 1,
                                 !.decision = "revision_requested"]
      BY <3>1
    <3>4. state' \in RunState /\ state'.decision = "revision_requested"
      BY <2>1, <3>2, <3>3 DEF RunState
    <3> QED
      BY <3>4
  <2>3. CASE ~Charged
    BY <2>1, <2>3 DEF RequestRevision
  <2> QED
    BY <2>2, <2>3
<1>6. AttemptsOnce' /\ Rows'
  BY <1>1, <1>5, Facts DEF AttemptsOnce, RunningOnce, Running, BudgetKept, Rows, VersionsOnce
<1>7. CommentsOnce' /\ World'
  BY <1>1, Facts DEF CommentsOnce, OneLive, Live, World, TextDated
<1>8. ApprovedIsPinned'
  BY <1>1, <1>5, Facts, ApprovedKept DEF Of
<1>9. PollKept'
  <2>1. poll'.at \notin Publication /\ poll'.at \notin Resting
    BY <1>3 DEF Publication, Resting
  <2>2. Len(intents') \in Nat /\ DOMAIN intents' = 1..Len(intents') /\ todo' = {}
    BY <1>1, <1>2, Facts
  <2> QED
    BY <1>2, <1>3, <1>4, <2>1, <2>2, OffPublication
<1> QED
  BY <1>6, <1>7, <1>8, <1>9, StepKeeps

LEMMA ClaimKeeps == ASSUME IInv, Claim PROVE IInv'
<1>1. /\ poll.at = "claim" /\ MayClaim(poll.rev) /\ run_status' = "active"
      /\ attempts' = [attempts EXCEPT ![poll.rev] = Append(@, "running")]
      /\ poll' = [poll EXCEPT !.at = "turn", !.context = "attempt"]
      /\ UNCHANGED <<artifacts, state, intents, fresh, issue, comments, todo>>
      /\ UNCHANGED <<enabled, faults, edits, touched>>
  BY DEF Claim, bounds
<1>2. /\ poll \in Poll /\ poll.cycle = 0 /\ poll.rev \in Revisions
      /\ poll.key = 0 /\ poll.step = 0 /\ todo = {}
  BY <1>1, FactsAtDecide
<1>3. /\ poll' \in Poll /\ poll'.at = "turn" /\ poll'.key = 0 /\ poll'.step = 0
      /\ poll'.context = "attempt" /\ poll'.rev = poll.rev /\ poll'.cycle = 0
  BY <1>1, <1>2 DEF Poll, Places, Contexts
<1>4. AttemptsOnce' /\ attempts'[poll.rev] # <<>>
  BY <1>1, <1>2, AttemptClaimed, Facts
<1>5. PollAttempt'
  BY <1>2, <1>3, <1>4, SpecAssumption DEF PollAttempt, Working
<1>6. Rows'
  BY <1>1, Facts DEF Rows, VersionsOnce
<1>7. CommentsOnce' /\ World'
  BY <1>1, Facts DEF CommentsOnce, OneLive, Live, World, TextDated
<1>8. ApprovedIsPinned'
  BY <1>1, Facts, ApprovedKept DEF Of
<1>9. PollKept'
  <2>1. poll'.at \notin Publication /\ poll'.at \notin Resting
    BY <1>3 DEF Publication, Resting
  <2>2. Len(intents') \in Nat /\ DOMAIN intents' = 1..Len(intents') /\ todo' = {}
    BY <1>1, <1>2, Facts
  <2> QED
    BY <1>3, <1>5, <2>1, <2>2, OffPublication
<1> QED
  BY <1>4, <1>6, <1>7, <1>8, <1>9, StepKeeps

LEMMA StoreArtifactKeeps == ASSUME IInv, StoreArtifact PROVE IInv'
<1>1. /\ poll.at = "store" /\ ~Stored(poll.rev) /\ artifacts' = Append(artifacts, poll.rev)
      /\ attempts' = [attempts EXCEPT ![poll.rev][Len(attempts[poll.rev])] = "completed"]
      /\ state' = ApprovalReset /\ run_status' = "waiting"
      /\ fresh' = (fresh /\ LatestPreview # 0) /\ Goto("intend")
      /\ UNCHANGED <<intents, issue, comments, todo>>
      /\ UNCHANGED <<enabled, faults, edits, touched>>
  BY DEF StoreArtifact, bounds
<1>2. /\ poll \in Poll /\ poll.context = "attempt" /\ poll.rev \in Revisions
      /\ poll.key = 0 /\ poll.step = 0 /\ todo = {} /\ attempts[poll.rev] # <<>>
  BY <1>1, FactsAtDecide DEF Working
<1>3. /\ poll' \in Poll /\ poll'.at = "intend" /\ poll'.key = 0 /\ poll'.step = 0
      /\ poll'.context = "attempt" /\ poll'.rev = poll.rev
  BY <1>1, <1>2, GotoType DEF Places
<1>4. AttemptsOnce' /\ attempts'[poll.rev] # <<>>
  BY <1>1, <1>2, AttemptEnded, Facts
<1>5. PollAttempt'
  BY <1>2, <1>3, <1>4 DEF PollAttempt, Working
<1>6. artifacts' \in Seq(Revisions) /\ VersionsOnce'
  <2>1. artifacts \in Seq(Revisions) /\ VersionsOnce
    BY Facts DEF Rows
  <2>2. /\ artifacts' \in Seq(Revisions) /\ DOMAIN artifacts = 1..Len(artifacts)
        /\ Len(artifacts) \in Nat /\ DOMAIN artifacts' = 1..(Len(artifacts) + 1)
        /\ \A v \in 1..Len(artifacts) : artifacts'[v] = artifacts[v]
        /\ artifacts'[Len(artifacts) + 1] = poll.rev
    BY <1>1, <1>2, <2>1, AppendIs
  <2>3. \A v \in 1..Len(artifacts) : artifacts[v] # poll.rev
    BY <1>1, <2>2 DEF Stored
  <2> QED
    BY <2>1, <2>2, <2>3 DEF VersionsOnce
<1>7. Rows'
  <2>1. state' \in RunState
    BY <1>1, Facts DEF ApprovalReset, Rows, RunState
  <2>2. fresh' \in BOOLEAN
    BY <1>1
  <2> QED
    BY <1>1, <1>6, <2>1, <2>2, Facts DEF Rows
<1>8. CommentsOnce' /\ World'
  BY <1>1, Facts DEF CommentsOnce, OneLive, Live, World, TextDated
<1>9. ApprovedIsPinned'
  <2>1. state'.decision = "awaiting"
    BY <1>1, Facts DEF ApprovalReset, Rows, RunState
  <2> QED
    BY <2>1 DEF ApprovedIsPinned
<1>10. PollKept'
  <2>1. poll'.at \notin Publication /\ poll'.at \notin Resting
    BY <1>3 DEF Publication, Resting
  <2>2. Len(intents') \in Nat /\ DOMAIN intents' = 1..Len(intents') /\ todo' = {}
    BY <1>1, <1>2, Facts
  <2> QED
    BY <1>3, <1>5, <2>1, <2>2, OffPublication
<1> QED
  BY <1>4, <1>7, <1>8, <1>9, <1>10, StepKeeps

LEMMA IntendPreviewKeeps == ASSUME IInv, IntendPreview PROVE IInv'
<1> DEFINE k == Len(intents) + 1
<1>1. /\ CreateIntent("preview", LatestVersion, "none") /\ LatestVersion \in Nat
      /\ "none" \in Messages /\ poll.at = "intend"
      /\ UNCHANGED <<run_status, attempts, artifacts, state, issue, comments, todo, enabled,
                     bounds, touched>>
      /\ poll' = [poll EXCEPT !.at = "comment", !.key = k, !.shows = "awaiting"]
  BY Facts DEF IntendPreview, LatestVersion, Messages
<1>2. run_status' \in {"none", "active", "waiting", "completed", "ineligible"}
  BY <1>1, Facts DEF Rows
<1>3. /\ AttemptsOnce' /\ Rows' /\ CommentsOnce' /\ World' /\ ApprovedIsPinned'
      /\ k \in 1..Len(intents') /\ Len(intents') \in Nat /\ DOMAIN intents' = 1..Len(intents')
  BY <1>1, <1>2, CreateStep
<1>4. intents'[k].kind = "preview"
  BY <1>1, IntentAppended
<1>5. /\ todo' = {} /\ poll.step = 0 /\ poll \in Poll /\ poll.context # "resume"
      /\ poll.context = "attempt" => poll.rev \in Revisions /\ attempts[poll.rev] # <<>>
  BY <1>1, FactsAtDecide
<1>6. /\ poll' \in Poll /\ poll'.at = "comment" /\ poll'.key = k /\ poll'.step = 0
      /\ poll'.shows = "awaiting" /\ poll'.context = poll.context /\ poll'.rev = poll.rev
  <2>1. k \in Nat
    BY Facts
  <2> HIDE DEF k
  <2> QED
    BY <1>1, <1>5, <2>1 DEF Poll, Places, Texts
<1> HIDE DEF k
<1>7. PollKept'
  BY <1>1, <1>3, <1>4, <1>5, <1>6, BeginKept
<1> QED
  BY <1>3, <1>7, StepKeeps

----------------------------------------------------------------------------
(* Publication *)

LEMMA AtPublication ==
    ASSUME IInv, poll.at \in Publication
    PROVE  /\ poll \in Poll /\ poll.key \in Nat /\ poll.key \in DOMAIN intents
           /\ poll.key \in 1..Len(intents)
           /\ IntentOf = intents[poll.key] /\ IntentOf \in Intent
           /\ todo \subseteq PendingIntents /\ poll.key \notin todo
           /\ poll.context # "resume" => todo = {}
           /\ poll.context = "attempt" => poll.rev \in Revisions /\ attempts[poll.rev] # <<>>
           /\ PollShows /\ PollApproves /\ PollRoutes
<1>1. /\ poll \in Poll /\ poll.key \in Nat /\ poll.key \in 0..Len(intents) /\ poll.key > 0
      /\ todo \subseteq PendingIntents /\ poll.key \notin todo
      /\ poll.context # "resume" => todo = {}
      /\ poll.context = "attempt" => poll.rev \in Revisions /\ attempts[poll.rev] # <<>>
      /\ PollShows /\ PollApproves /\ PollRoutes
  <2>1. poll.at # "pending"
    BY DEF Publication
  <2> QED
    BY <2>1, Facts DEF PollSound, PollOwns, PollAttempt, PollShape, TodoPending
<1>2. poll.key \in DOMAIN intents /\ poll.key \in 1..Len(intents)
  BY <1>1, Facts
<1>3. IntentOf = intents[poll.key] /\ IntentOf \in Intent
  BY <1>2, Facts DEF IntentOf
<1> QED
  BY <1>1, <1>2, <1>3

\* The publication goes on with what it does on the forge.
LEMMA ForgeStep ==
    ASSUME IInv, poll.at \in Publication, UNCHANGED <<store_vars, fresh, todo>>,
           CommentsOnce', World', poll' \in Poll, poll'.at \in Publication,
           poll'.key = poll.key, poll'.context = poll.context, poll'.rev = poll.rev,
           PollShows', PollApproves', PollRoutes'
    PROVE  IInv'
<1>1. UNCHANGED <<run_status, attempts, artifacts, state, intents, fresh>>
  BY DEF store_vars
<1>2. AttemptsOnce' /\ Rows'
  BY <1>1, Facts DEF AttemptsOnce, RunningOnce, Running, BudgetKept, Rows, VersionsOnce
<1>3. ApprovedIsPinned'
  BY <1>1, Facts, ApprovedKept DEF Of
<1>4. PollKept'
  BY <1>1, PublicationKept
<1> QED
  BY <1>2, <1>3, <1>4, StepKeeps

\* Labels and column change, but not the text.
LEMMA IssueChanges ==
    ASSUME IInv, UNCHANGED <<enabled, bounds, touched>>,
           issue' \in [labels : SUBSET Labels, column : Columns, text : Revisions],
           issue'.text = issue.text
    PROVE  World'
<1>1. UNCHANGED <<enabled, faults, edits, touched>>
  BY DEF bounds
<1> QED
  BY <1>1, Facts DEF World, TextDated

\* The comment there is is written again, or there was none.
LEMMA CommentRewritten ==
    ASSUME IInv, poll.key > 0, poll.shows \in Texts, NEW c \in Live,
           comments' = [comments EXCEPT ![c] = Shown]
    PROVE  /\ CommentsOnce' /\ c \in DOMAIN comments' /\ comments'[c].intent = poll.key
<1>1. comments \in Seq(Comment) /\ OneLive /\ c \in 1..Len(comments)
  BY Facts DEF CommentsOnce, Live
<1>2. Shown \in Comment /\ Shown.intent = poll.key
  BY Facts DEF Shown, Comment
<1>3. /\ comments' \in Seq(Comment) /\ DOMAIN comments' = DOMAIN comments
      /\ comments'[c] = Shown /\ \A d \in DOMAIN comments : d # c => comments'[d] = comments[d]
  BY <1>1, <1>2, ExceptSeq
<1>4. Live' \subseteq Live
  BY <1>3 DEF Live
<1> QED
  BY <1>1, <1>2, <1>3, <1>4 DEF CommentsOnce, OneLive

LEMMA CommentAppended ==
    ASSUME IInv, poll.key > 0, poll.shows \in Texts, Live = {},
           comments' = Append(comments, Shown)
    PROVE  CommentsOnce' /\ \E c \in DOMAIN comments' : comments'[c].intent = poll.key
<1>1. comments \in Seq(Comment)
  BY Facts DEF CommentsOnce
<1>2. Shown \in Comment /\ Shown.intent = poll.key
  BY Facts DEF Shown, Comment
<1>3. /\ comments' \in Seq(Comment) /\ Len(comments) \in Nat
      /\ DOMAIN comments = 1..Len(comments) /\ DOMAIN comments' = 1..(Len(comments) + 1)
      /\ \A d \in 1..Len(comments) : comments'[d] = comments[d]
      /\ comments'[Len(comments) + 1] = Shown
  BY <1>1, <1>2, AppendIs
<1>4. Live' \subseteq {Len(comments) + 1}
  BY <1>3 DEF Live
<1> QED
  BY <1>2, <1>3, <1>4 DEF CommentsOnce, OneLive

\* When the comment is there, a preview takes the request label off, an approval
\* that is under way goes on with its labels, and anything else is finished.
LEMMA AfterCommentSound ==
    ASSUME IInv, poll.at \in {"comment", "bind"}, Goto(AfterComment),
           UNCHANGED <<state, issue, touched>>,
           intents'[poll.key].kind = intents[poll.key].kind,
           intents'[poll.key].status = intents[poll.key].status,
           intents'[poll.key].version = intents[poll.key].version
    PROVE  /\ poll' \in Poll /\ poll'.at \in Publication /\ poll'.key = poll.key
           /\ poll'.context = poll.context /\ poll'.rev = poll.rev
           /\ PollShows' /\ PollApproves' /\ PollRoutes'
<1> DEFINE p == AfterComment
<1>1. poll.at \in Publication
  BY DEF Publication
<1>2. /\ p \in {"revise", "labels", "finish"}
      /\ p = "labels" => IntentOf.kind = "approval" /\ poll.shows = "pending"
      /\ IntentOf.kind = "approval" => p = "labels" \/ (p = "finish" /\ poll.shows # "pending")
  BY DEF AfterComment
<1>3. /\ IntentOf = intents[poll.key] /\ PollShows /\ PollApproves /\ PollRoutes /\ poll \in Poll
  BY <1>1, AtPublication
<1> HIDE DEF p
<1>4. /\ poll' \in Poll /\ poll'.at = p /\ poll'.key = poll.key /\ poll'.shows = poll.shows
      /\ poll'.step = poll.step /\ poll'.context = poll.context /\ poll'.rev = poll.rev
  BY <1>2, <1>3, GotoType DEF Places, p
<1>5. poll'.at \in Publication
  BY <1>2, <1>4 DEF Publication
<1>6. PollShows'
  BY <1>2, <1>3, <1>4 DEF PollShows
<1>7. /\ IntentOf'.kind = IntentOf.kind /\ IntentOf'.status = IntentOf.status
      /\ IntentOf'.version = IntentOf.version
  BY <1>3, <1>4 DEF IntentOf
<1>8. ASSUME Approves' PROVE Approves /\ (p = "finish" => Confirming)
  BY <1>1, <1>2, <1>3, <1>7, <1>8 DEF Approves, Confirming, PollApproves
<1>9. PollApproves'
  <2> SUFFICES ASSUME Approves'
               PROVE  /\ IntentOf'.status = "pending" /\ poll'.at \notin {"revise", "comment", "bind"}
                      /\ poll'.at = "finish" => state'.approved = IntentOf'.version
    BY DEF PollApproves, Confirming
  <2>1. Approves /\ (p = "finish" => Confirming)
    BY <1>8
  <2>2. IntentOf.kind = "approval"
    BY <2>1 DEF Approves
  <2>3. /\ IntentOf.status = "pending"
        /\ Confirming => state.approved = IntentOf.version
    BY <1>3, <2>1 DEF PollApproves
  <2> QED
    BY <1>2, <1>4, <1>7, <2>1, <2>2, <2>3
<1>10. PollRoutes'
  <2>1. p = "labels" => poll.step = 0
    BY <1>2, <1>3 DEF PollShows
  <2> QED
    BY <1>2, <1>3, <1>4, <1>8, <2>1 DEF PollRoutes, Confirming
<1> QED
  BY <1>4, <1>5, <1>6, <1>9, <1>10

LEMMA UpdateRecordedKeeps == ASSUME IInv, UpdateRecorded PROVE IInv'
<1>1. /\ poll.at = "comment" /\ IntentOf.comment \in Live
      /\ comments' = [comments EXCEPT ![IntentOf.comment] = Shown] /\ Goto(AfterComment)
      /\ UNCHANGED <<store_vars, fresh, issue, todo, enabled, bounds, touched>>
  BY DEF UpdateRecorded
<1>2. poll.at \in Publication /\ poll.key > 0 /\ poll.shows \in Texts
  BY <1>1, AtPublication DEF Publication, PollShows
<1>3. CommentsOnce'
  BY <1>1, <1>2, CommentRewritten
<1>4. World'
  BY <1>1, Facts, IssueChanges DEF World
<1>5. /\ poll' \in Poll /\ poll'.at \in Publication /\ poll'.key = poll.key
      /\ poll'.context = poll.context /\ poll'.rev = poll.rev
      /\ PollShows' /\ PollApproves' /\ PollRoutes'
  BY <1>1, AfterCommentSound DEF store_vars
<1> QED
  BY <1>1, <1>2, <1>3, <1>4, <1>5, ForgeStep

\* The comment is there, and is to be bound to its publication.
LEMMA ToBind ==
    ASSUME IInv, poll.at = "comment", Goto("bind"),
           UNCHANGED <<store_vars, fresh, issue, todo, enabled, bounds, touched>>,
           CommentsOnce', \E c \in DOMAIN comments' : comments'[c].intent = poll.key
    PROVE  IInv'
<1>1. poll.at \in Publication /\ "bind" \in Places
  BY DEF Publication, Places
<1>2. PollShows /\ PollApproves /\ PollRoutes /\ poll \in Poll /\ IntentOf = intents[poll.key]
  BY <1>1, AtPublication
<1>3. /\ poll' \in Poll /\ poll'.at = "bind" /\ poll'.key = poll.key
      /\ poll'.shows = poll.shows /\ poll'.step = poll.step
      /\ poll'.context = poll.context /\ poll'.rev = poll.rev
  BY <1>1, <1>2, GotoType
<1>4. PollShows'
  BY <1>2, <1>3 DEF PollShows
<1>5. IntentOf' = IntentOf /\ UNCHANGED state
  BY <1>3 DEF IntentOf, store_vars
<1>6. PollApproves' /\ PollRoutes'
  <2>1. Approves' => Approves
    BY <1>1, <1>5 DEF Approves
  <2>2. Confirming' = Confirming
    BY <1>3 DEF Confirming
  <2> QED
    BY <1>2, <1>3, <1>5, <2>1, <2>2 DEF PollApproves, PollRoutes
<1>7. World' /\ poll'.at \in Publication
  BY <1>3, Facts, IssueChanges DEF World, Publication
<1> QED
  BY <1>1, <1>3, <1>4, <1>6, <1>7, ForgeStep

LEMMA AdoptCommentKeeps == ASSUME IInv, AdoptComment PROVE IInv'
<1>1. /\ poll.at = "comment" /\ Owned # {} /\ Goto("bind")
      /\ comments' = [comments EXCEPT ![Min(Owned)] = Shown]
      /\ UNCHANGED <<store_vars, fresh, issue, todo, enabled, bounds, touched>>
  BY DEF AdoptComment
<1>2. poll.key > 0 /\ poll.shows \in Texts
  BY <1>1, AtPublication DEF Publication, PollShows
<1>3. Min(Owned) \in Live
  <2>1. Owned \subseteq Live /\ Live \subseteq Nat
    BY Facts DEF Owned, Live
  <2>2. Min(Owned) \in Owned
    BY <1>1, <2>1, MinIsMember
  <2> QED
    BY <2>1, <2>2
<1>4. CommentsOnce' /\ \E c \in DOMAIN comments' : comments'[c].intent = poll.key
  BY <1>1, <1>2, <1>3, CommentRewritten
<1> QED
  BY <1>1, <1>4, ToBind

LEMMA CreateCommentKeeps == ASSUME IInv, CreateComment PROVE IInv'
<1>1. /\ poll.at = "comment" /\ Owned = {} /\ Goto("bind")
      /\ comments' = Append(comments, Shown)
      /\ UNCHANGED <<store_vars, fresh, issue, todo, enabled, bounds, touched>>
  BY DEF CreateComment
<1>2. poll.key > 0 /\ poll.shows \in Texts
  BY <1>1, AtPublication DEF Publication, PollShows
<1>3. Live = {}
  BY <1>1 DEF Owned
<1>4. CommentsOnce' /\ \E c \in DOMAIN comments' : comments'[c].intent = poll.key
  BY <1>1, <1>2, <1>3, CommentAppended
<1> QED
  BY <1>1, <1>4, ToBind

\* The row of the publication is written.
LEMMA RowWritten ==
    ASSUME IInv, poll.at \in Publication, NEW x \in Intent,
           intents' = [intents EXCEPT ![poll.key] = x],
           x.kind = IntentOf.kind, x.version = IntentOf.version,
           run_status' \in {"none", "active", "waiting", "completed", "ineligible"},
           state' \in RunState, fresh' \in BOOLEAN, touched' \in BOOLEAN,
           UNCHANGED <<attempts, artifacts, issue, comments, enabled, bounds>>
    PROVE  /\ AttemptsOnce' /\ Rows' /\ CommentsOnce' /\ World'
           /\ Len(intents') = Len(intents) /\ DOMAIN intents' = DOMAIN intents
           /\ intents'[poll.key] = x
           /\ \A i \in DOMAIN intents : i # poll.key => intents'[i] = intents[i]
           /\ state'.decision # "approved" \/ UNCHANGED state => ApprovedIsPinned'
<1>1. /\ UNCHANGED <<attempts, artifacts, issue, comments>>
      /\ UNCHANGED <<enabled, faults, edits>>
  BY DEF bounds
<1>2. poll.key \in DOMAIN intents /\ IntentOf = intents[poll.key] /\ PollApproves
  BY AtPublication
<1>3. /\ intents' \in Seq(Intent) /\ Len(intents') = Len(intents)
      /\ DOMAIN intents' = DOMAIN intents /\ intents'[poll.key] = x
      /\ \A i \in DOMAIN intents : i # poll.key => intents'[i] = intents[i]
  BY <1>2, IntentWritten
<1>4. AttemptsOnce' /\ Rows'
  BY <1>1, <1>3, Facts DEF AttemptsOnce, RunningOnce, Running, BudgetKept, Rows, VersionsOnce
<1>5. CommentsOnce' /\ World'
  BY <1>1, Facts DEF CommentsOnce, OneLive, Live, World, TextDated
<1>6. ASSUME state'.decision # "approved" \/ UNCHANGED state PROVE ApprovedIsPinned'
  <2>1. \A i \in Of("approval") : intents[i].status = "applied" => i # poll.key
    BY <1>2 DEF PollApproves, Approves, Of
  <2> QED
    BY <1>3, <1>6, <2>1, Facts, ApprovedKept DEF Of
<1> QED
  BY <1>3, <1>4, <1>5, <1>6

LEMMA BindCommentKeeps == ASSUME IInv, BindComment PROVE IInv'
<1> DEFINE k == poll.key
           own == {c \in DOMAIN comments : comments[c].intent = k}
           m == Max(own)
           x == [intents[k] EXCEPT !.comment = m]
<1>1. /\ poll.at = "bind" /\ Goto(AfterComment)
      /\ intents' = [intents EXCEPT ![k].comment = m] /\ Stamp(k)
      /\ UNCHANGED <<run_status, attempts, artifacts, state, issue, comments, todo, enabled,
                     bounds, touched>>
  BY DEF BindComment, SetComment
<1>2. poll.at \in Publication
  BY <1>1 DEF Publication
<1>3. /\ k \in DOMAIN intents /\ IntentOf = intents[k] /\ IntentOf \in Intent
      /\ PollShows
  BY <1>2, AtPublication
<1>4. m \in Nat
  <2>1. own # {} /\ Len(comments) \in Nat /\ own \subseteq 0..Len(comments)
    BY <1>1, <1>3, Facts DEF PollShows
  <2> HIDE DEF own
  <2>2. m \in own
    BY <2>1, MaxIsMember
  <2>3. m \in 0..Len(comments)
    BY <2>1, <2>2
  <2> HIDE DEF m
  <2> QED
    BY <2>1, <2>3
<1> HIDE DEF m
<1>5. /\ x \in Intent /\ x.kind = IntentOf.kind /\ x.version = IntentOf.version
      /\ x.status = IntentOf.status
  BY <1>3, <1>4 DEF Intent
<1>6. intents' = [intents EXCEPT ![k] = x]
  BY <1>1, <1>3
<1>7. fresh' \in BOOLEAN /\ touched' \in BOOLEAN /\ state' \in RunState
      /\ run_status' \in {"none", "active", "waiting", "completed", "ineligible"}
  BY <1>1, Facts DEF Stamp, World, Rows
<1> HIDE DEF x
<1>8. /\ AttemptsOnce' /\ Rows' /\ CommentsOnce' /\ World' /\ ApprovedIsPinned'
      /\ Len(intents') = Len(intents) /\ DOMAIN intents' = DOMAIN intents
      /\ intents'[k] = x
      /\ \A i \in DOMAIN intents : i # k => intents'[i] = intents[i]
  BY <1>1, <1>2, <1>5, <1>6, <1>7, RowWritten
<1>9. /\ poll' \in Poll /\ poll'.at \in Publication /\ poll'.key = poll.key
      /\ poll'.context = poll.context /\ poll'.rev = poll.rev
      /\ PollShows' /\ PollApproves' /\ PollRoutes'
  BY <1>1, <1>3, <1>5, <1>8, AfterCommentSound
<1>10. PollKept'
  BY <1>1, <1>2, <1>8, <1>9, PublicationKept
<1> QED
  BY <1>8, <1>10, StepKeeps

\* The state of the run is written.
LEMMA StateStep ==
    ASSUME IInv, poll.at \in Publication, state' \in RunState, state'.decision # "approved",
           UNCHANGED <<run_status, attempts, artifacts, intents, fresh, issue, comments, todo,
                       enabled, bounds, touched>>,
           poll' \in Poll, poll'.at \in Publication,
           poll'.key = poll.key, poll'.context = poll.context, poll'.rev = poll.rev,
           PollShows', PollApproves', PollRoutes'
    PROVE  IInv'
<1>1. /\ UNCHANGED <<run_status, attempts, artifacts, intents, fresh, issue, comments, todo>>
      /\ UNCHANGED <<enabled, faults, edits, touched>>
  BY DEF bounds
<1>2. AttemptsOnce' /\ Rows'
  BY <1>1, Facts DEF AttemptsOnce, RunningOnce, Running, BudgetKept, Rows, VersionsOnce
<1>3. CommentsOnce' /\ World'
  BY <1>1, Facts DEF CommentsOnce, OneLive, Live, World, TextDated
<1>4. ApprovedIsPinned'
  BY DEF ApprovedIsPinned
<1>5. PollKept'
  BY <1>1, PublicationKept
<1> QED
  BY <1>2, <1>3, <1>4, <1>5, StepKeeps

LEMMA SetPendingApprovalKeeps == ASSUME IInv, SetPendingApproval PROVE IInv'
<1>1. /\ poll.at = "mark"
      /\ state' = [state EXCEPT !.pending = IntentOf.version, !.decision = "pending_approval"]
      /\ poll' = [poll EXCEPT !.at = "comment", !.shows = "pending"]
      /\ UNCHANGED <<run_status, attempts, artifacts, intents, fresh, issue, comments, todo,
                     enabled, bounds, touched>>
  BY DEF SetPendingApproval
<1>2. poll.at \in Publication
  BY <1>1 DEF Publication
<1>3. /\ poll \in Poll /\ IntentOf = intents[poll.key] /\ IntentOf \in Intent
      /\ PollShows /\ PollApproves
  BY <1>2, AtPublication
<1>4. /\ poll' \in Poll /\ poll'.at = "comment" /\ poll'.key = poll.key
      /\ poll'.shows = "pending" /\ poll'.step = poll.step
      /\ poll'.context = poll.context /\ poll'.rev = poll.rev
  BY <1>1, <1>3 DEF Poll, Places, Texts
<1>5. poll'.at \in Publication
  BY <1>4 DEF Publication
<1>6. state' \in RunState /\ state'.decision = "pending_approval"
  <2>1. IntentOf.version \in Nat /\ state \in RunState
    BY <1>3, Facts DEF Intent, Rows
  <2> QED
    BY <1>1, <2>1 DEF RunState
<1>7. PollShows'
  BY <1>1, <1>3, <1>4, <1>6 DEF PollShows, Texts
<1>8. Approves' => Approves /\ IntentOf' = IntentOf
  BY <1>1, <1>2, <1>4 DEF Approves, IntentOf
<1>9. PollApproves' /\ PollRoutes'
  BY <1>1, <1>3, <1>4, <1>8 DEF PollApproves, PollRoutes, Confirming
<1> QED
  BY <1>1, <1>2, <1>4, <1>5, <1>6, <1>7, <1>9, StateStep

LEMMA PinApprovalKeeps == ASSUME IInv, PinApproval PROVE IInv'
<1>1. /\ poll.at = "pin"
      /\ state' = [state EXCEPT !.approved = IntentOf.version, !.decision = "pending_approval"]
      /\ poll' = [poll EXCEPT !.at = "comment", !.shows = "approved"]
      /\ UNCHANGED <<run_status, attempts, artifacts, intents, fresh, issue, comments, todo,
                     enabled, bounds, touched>>
  BY DEF PinApproval
<1>2. poll.at \in Publication
  BY <1>1 DEF Publication
<1>3. /\ poll \in Poll /\ IntentOf = intents[poll.key] /\ IntentOf \in Intent
      /\ PollApproves /\ PollRoutes
  BY <1>2, AtPublication
<1>4. /\ poll' \in Poll /\ poll'.at = "comment" /\ poll'.key = poll.key
      /\ poll'.shows = "approved"
      /\ poll'.context = poll.context /\ poll'.rev = poll.rev
  BY <1>1, <1>3 DEF Poll, Places, Texts
<1>5. poll'.at \in Publication
  BY <1>4 DEF Publication
<1>6. /\ state' \in RunState /\ state'.decision = "pending_approval"
      /\ state'.approved = IntentOf.version
  <2>1. IntentOf.version \in Nat /\ state \in RunState
    BY <1>3, Facts DEF Intent, Rows
  <2> QED
    BY <1>1, <2>1 DEF RunState
<1>7. PollShows'
  BY <1>4 DEF PollShows, Texts
<1>8. Approves' => Approves /\ IntentOf' = IntentOf
  BY <1>1, <1>2, <1>4 DEF Approves, IntentOf
<1>9. PollApproves'
  BY <1>3, <1>4, <1>6, <1>8 DEF PollApproves, Confirming
<1>10. PollRoutes'
  BY <1>1, <1>3, <1>4, <1>8 DEF PollRoutes
<1> QED
  BY <1>1, <1>2, <1>4, <1>5, <1>6, <1>7, <1>9, <1>10, StateStep

\* The publication changes the issue and goes on to place p.
LEMMA IssueStep ==
    ASSUME IInv, poll.at \in Publication, NEW p \in Places, NEW n \in 0..3,
           p \in {"labels", "route", "column", "pin", "finish"},
           poll' = [poll EXCEPT !.at = p, !.step = n], p = "labels" => n \in 0..2,
           p = "finish" => IntentOf.kind # "approval",
           issue' \in [labels : SUBSET Labels, column : Columns, text : Revisions],
           issue'.text = issue.text,
           UNCHANGED <<store_vars, fresh, comments, todo, enabled, bounds, touched>>,
           Approves /\ ~touched =>
               /\ p = "labels" => \A m \in 1..n : ApprovalLabels[m] \notin issue'.labels
               /\ p \in {"route", "column", "pin"} =>
                    issue'.labels \cap {Intake, Approved, Revise} = {}
               /\ p \in {"column", "pin"} => Route \in issue'.labels
               /\ p = "pin" => issue'.column = "todo"
    PROVE  IInv'
<1>1. poll \in Poll /\ IntentOf = intents[poll.key] /\ PollApproves
  BY AtPublication
<1>2. /\ poll' \in Poll /\ poll'.at = p /\ poll'.key = poll.key /\ poll'.step = n
      /\ poll'.context = poll.context /\ poll'.rev = poll.rev
  BY <1>1 DEF Poll
<1>3. poll'.at \in Publication
  BY <1>2 DEF Publication
<1>4. World'
  BY IssueChanges
<1>5. CommentsOnce'
  BY Facts DEF CommentsOnce, OneLive, Live
<1>6. PollShows'
  BY <1>2 DEF PollShows
<1>7. Approves' => Approves /\ p # "finish"
  BY <1>2 DEF Approves, IntentOf, store_vars
<1>8. PollApproves'
  <2>1. IntentOf' = IntentOf /\ ~Confirming'
    BY <1>2 DEF IntentOf, store_vars, Confirming
  <2> QED
    BY <1>1, <1>2, <1>7, <2>1 DEF PollApproves
<1>9. PollRoutes'
  <2>1. ~Confirming'
    BY <1>2 DEF Confirming
  <2> QED
    BY <1>2, <1>7, <2>1 DEF PollRoutes
<1> QED
  BY <1>2, <1>3, <1>4, <1>5, <1>6, <1>8, <1>9, ForgeStep

LEMMA RemoveReviseKeeps == ASSUME IInv, RemoveRevise PROVE IInv'
<1>1. /\ poll.at = "revise" /\ Goto("finish") /\ (Unlabel(Revise) \/ UNCHANGED issue)
      /\ UNCHANGED <<store_vars, fresh, comments, todo, enabled, bounds, touched>>
  BY DEF RemoveRevise
<1>2. poll.at \in Publication
  BY <1>1 DEF Publication
<1>3. poll \in Poll /\ PollApproves
  BY <1>2, AtPublication
<1>4. IntentOf.kind # "approval"
  BY <1>1, <1>2, <1>3 DEF PollApproves, Approves
<1>5. poll' = [poll EXCEPT !.at = "finish", !.step = poll.step] /\ poll.step \in 0..3
  BY <1>1, <1>3 DEF Goto, Poll
<1>6. issue \in [labels : SUBSET Labels, column : Columns, text : Revisions]
  BY Facts DEF World
<1>7. /\ issue' \in [labels : SUBSET Labels, column : Columns, text : Revisions]
      /\ issue'.text = issue.text
  BY <1>1, <1>6 DEF Unlabel
<1>8. ~Approves /\ "finish" \in Places
  BY <1>4 DEF Approves, Places
<1> QED
  BY <1>1, <1>2, <1>4, <1>5, <1>7, <1>8, IssueStep

LEMMA RemoveApprovalLabelKeeps == ASSUME IInv, RemoveApprovalLabel PROVE IInv'
<1> DEFINE n == poll.step + 1
           p == IF n = 3 THEN "route" ELSE "labels"
<1>1. /\ poll.at = "labels" /\ Unlabel(ApprovalLabels[n])
      /\ UNCHANGED <<store_vars, fresh, comments, todo, enabled, bounds, touched>>
  BY DEF RemoveApprovalLabel
<1>2. poll.at \in Publication
  BY <1>1 DEF Publication
<1>3. poll \in Poll /\ PollShows /\ PollRoutes /\ poll.step \in 0..2
  BY <1>1, <1>2, AtPublication DEF PollShows
<1>4. poll' = [poll EXCEPT !.at = p, !.step = n]
  BY <1>1, <1>3 DEF RemoveApprovalLabel, ApprovalLabels, Poll
<1>5. issue \in [labels : SUBSET Labels, column : Columns, text : Revisions]
  BY Facts DEF World
<1>6. /\ issue' \in [labels : SUBSET Labels, column : Columns, text : Revisions]
      /\ issue'.text = issue.text /\ issue'.labels = issue.labels \ {ApprovalLabels[n]}
  BY <1>1, <1>5 DEF Unlabel
<1>7. n \in 0..3 /\ (p = "labels" => n \in 0..2) /\ p \in Places
      /\ p \in {"labels", "route"}
  BY <1>3 DEF Places
<1>8. ASSUME Approves, ~touched
      PROVE  \A m \in 1..n : ApprovalLabels[m] \notin issue'.labels
  <2>1. \A m \in 1..poll.step : ApprovalLabels[m] \notin issue.labels
    BY <1>1, <1>3, <1>8 DEF PollRoutes
  <2>2. \A m \in 1..n : m \in 1..poll.step \/ m = n
    BY <1>3
  <2> HIDE DEF n
  <2> QED
    BY <1>6, <2>1, <2>2
<1>9. ASSUME Approves, ~touched, p = "route"
      PROVE  issue'.labels \cap {Intake, Approved, Revise} = {}
  <2>1. n = 3 /\ 1 \in 1..3 /\ 2 \in 1..3 /\ 3 \in 1..3
    BY <1>9
  <2>2. /\ ApprovalLabels[1] \notin issue'.labels /\ ApprovalLabels[2] \notin issue'.labels
        /\ ApprovalLabels[3] \notin issue'.labels
    BY <1>8, <1>9, <2>1
  <2> QED
    BY <2>2 DEF ApprovalLabels
<1> HIDE DEF n, p
<1> QED
  BY <1>1, <1>2, <1>4, <1>6, <1>7, <1>8, <1>9, IssueStep

LEMMA AddRouteKeeps == ASSUME IInv, AddRoute PROVE IInv'
<1>1. /\ poll.at = "route" /\ issue' = [issue EXCEPT !.labels = @ \cup {Route}] /\ Goto("column")
      /\ UNCHANGED <<store_vars, fresh, comments, todo, enabled, bounds, touched>>
  BY DEF AddRoute
<1>2. poll.at \in Publication
  BY <1>1 DEF Publication
<1>3. poll \in Poll /\ PollRoutes
  BY <1>2, AtPublication
<1>4. poll' = [poll EXCEPT !.at = "column", !.step = poll.step] /\ poll.step \in 0..3
      /\ "column" \in Places
  BY <1>1, <1>3 DEF Goto, Poll, Places
<1>5. issue \in [labels : SUBSET Labels, column : Columns, text : Revisions]
  BY Facts DEF World
<1>6. /\ issue' \in [labels : SUBSET Labels, column : Columns, text : Revisions]
      /\ issue'.text = issue.text /\ issue'.labels = issue.labels \cup {Route}
  BY <1>1, <1>5 DEF Labels
<1>7. Approves /\ ~touched => issue'.labels \cap {Intake, Approved, Revise} = {}
  BY <1>1, <1>3, <1>6, LabelsDiffer DEF PollRoutes
<1> QED
  BY <1>1, <1>2, <1>4, <1>6, <1>7, IssueStep

LEMMA SetColumnKeeps == ASSUME IInv, SetColumn PROVE IInv'
<1>1. /\ poll.at = "column" /\ issue' = [issue EXCEPT !.column = "todo"] /\ Goto("pin")
      /\ UNCHANGED <<store_vars, fresh, comments, todo, enabled, bounds, touched>>
  BY DEF SetColumn
<1>2. poll.at \in Publication
  BY <1>1 DEF Publication
<1>3. poll \in Poll /\ PollRoutes
  BY <1>2, AtPublication
<1>4. poll' = [poll EXCEPT !.at = "pin", !.step = poll.step] /\ poll.step \in 0..3
      /\ "pin" \in Places
  BY <1>1, <1>3 DEF Goto, Poll, Places
<1>5. issue \in [labels : SUBSET Labels, column : Columns, text : Revisions]
  BY Facts DEF World
<1>6. /\ issue' \in [labels : SUBSET Labels, column : Columns, text : Revisions]
      /\ issue'.text = issue.text /\ issue'.labels = issue.labels /\ issue'.column = "todo"
  BY <1>1, <1>5 DEF Columns
<1>7. Approves /\ ~touched =>
        issue'.labels \cap {Intake, Approved, Revise} = {} /\ Route \in issue'.labels
  BY <1>1, <1>3, <1>6 DEF PollRoutes
<1> QED
  BY <1>1, <1>2, <1>4, <1>6, <1>7, IssueStep

\* The publication is over, and the next one is resumed or the poll ends.
LEMMA FinishStep ==
    ASSUME IInv, poll.at \in Publication,
           AttemptsOnce', Rows', World', ApprovedIsPinned', UNCHANGED <<comments, todo>>,
           poll' = AfterFinish, Len(intents') = Len(intents), DOMAIN intents' = DOMAIN intents,
           \A i \in DOMAIN intents : i # poll.key => intents'[i] = intents[i]
    PROVE  IInv'
<1>1. /\ todo \subseteq PendingIntents /\ poll.key \notin todo
      /\ poll.context # "resume" => todo = {}
  BY AtPublication
<1>2. /\ todo' \subseteq PendingIntents' /\ Len(intents') \in Nat
      /\ DOMAIN intents' = 1..Len(intents')
  BY <1>1, Facts DEF PendingIntents
<1>3. CASE poll.context = "resume"
  BY <1>2, <1>3, RestStep DEF AfterFinish, Resting
<1>4. CASE poll.context # "resume"
  <2>1. poll' = [Idle EXCEPT !.at = "idle"] /\ "idle" \in Resting
    BY <1>4, RestType DEF AfterFinish, Resting
  <2> QED
    BY <1>1, <1>2, <1>4, <2>1, RestStep
<1> QED
  BY <1>3, <1>4

LEMMA CompletePublicationKeeps == ASSUME IInv, CompletePublication PROVE IInv'
<1> DEFINE x == [intents[poll.key] EXCEPT !.status = "applied"]
<1>1. /\ poll.at = "finish" /\ poll' = AfterFinish /\ Stamp(poll.key)
      /\ intents' = [intents EXCEPT ![poll.key].status = "applied"]
      /\ UNCHANGED <<run_status, attempts, artifacts, state, issue, comments, todo, enabled,
                     bounds, touched>>
  BY DEF CompletePublication, Complete
<1>2. poll.at \in Publication
  BY <1>1 DEF Publication
<1>3. poll.key \in DOMAIN intents /\ IntentOf = intents[poll.key] /\ IntentOf \in Intent
  BY <1>2, AtPublication
<1>4. x \in Intent /\ x.kind = IntentOf.kind /\ x.version = IntentOf.version
  BY <1>3 DEF Intent
<1>5. intents' = [intents EXCEPT ![poll.key] = x]
  BY <1>1, <1>3
<1>6. fresh' \in BOOLEAN /\ touched' \in BOOLEAN /\ state' \in RunState
      /\ run_status' \in {"none", "active", "waiting", "completed", "ineligible"}
  BY <1>1, Facts DEF Stamp, World, Rows
<1> HIDE DEF x
<1>7. /\ AttemptsOnce' /\ Rows' /\ CommentsOnce' /\ World' /\ ApprovedIsPinned'
      /\ Len(intents') = Len(intents) /\ DOMAIN intents' = DOMAIN intents
      /\ \A i \in DOMAIN intents : i # poll.key => intents'[i] = intents[i]
  BY <1>1, <1>2, <1>4, <1>5, <1>6, RowWritten
<1> QED
  BY <1>1, <1>2, <1>7, FinishStep

LEMMA FinalizeApprovalKeeps == ASSUME IInv, FinalizeApproval PROVE IInv'
<1> DEFINE x == [intents[poll.key] EXCEPT !.status = "applied"]
<1>1. /\ poll.at = "finish" /\ IntentOf.kind = "approval" /\ poll' = AfterFinish
      /\ state' = [state EXCEPT !.pending = 0, !.decision = "approved"]
      /\ run_status' = "completed" /\ Stamp(poll.key) /\ touched' = FALSE
      /\ intents' = [intents EXCEPT ![poll.key].status = "applied"]
      /\ UNCHANGED <<attempts, artifacts, issue, comments, todo, enabled, bounds>>
  BY DEF FinalizeApproval, Complete
<1>2. poll.at \in Publication
  BY <1>1 DEF Publication
<1>3. /\ poll.key \in DOMAIN intents /\ IntentOf = intents[poll.key] /\ IntentOf \in Intent
      /\ PollApproves
  BY <1>2, AtPublication
<1>4. /\ x \in Intent /\ x.kind = IntentOf.kind /\ x.version = IntentOf.version
      /\ x.status = "applied"
  BY <1>3 DEF Intent
<1>5. intents' = [intents EXCEPT ![poll.key] = x]
  BY <1>1, <1>3
<1>6. /\ state' \in RunState /\ state'.approved = state.approved
  BY <1>1, Facts DEF Rows, RunState
<1>7. fresh' \in BOOLEAN
  BY <1>1, Facts DEF Stamp, Rows
<1> HIDE DEF x
<1>8. /\ AttemptsOnce' /\ Rows' /\ CommentsOnce' /\ World'
      /\ Len(intents') = Len(intents) /\ DOMAIN intents' = DOMAIN intents
      /\ intents'[poll.key] = x
      /\ \A i \in DOMAIN intents : i # poll.key => intents'[i] = intents[i]
  BY <1>1, <1>2, <1>4, <1>5, <1>6, <1>7, RowWritten
<1>9. ApprovedIsPinned'
  <2>1. state.approved = IntentOf.version
    BY <1>1, <1>2, <1>3 DEF PollApproves, Approves
  <2>2. poll.key \in Of("approval")'
    BY <1>1, <1>3, <1>4, <1>8 DEF Of
  <2> QED
    BY <1>4, <1>6, <1>8, <2>1, <2>2 DEF ApprovedIsPinned
<1> QED
  BY <1>1, <1>2, <1>8, <1>9, FinishStep

----------------------------------------------------------------------------
(* Failures, time, people *)

LEMMA BoundsKept ==
    ASSUME IInv
    PROVE  /\ faults \in 0..MaxFaults /\ edits \in 0..MaxEdits
           /\ Fault => faults' \in 0..MaxFaults /\ UNCHANGED edits
           /\ Edit => edits' = edits + 1 /\ edits' \in 0..MaxEdits /\ UNCHANGED faults
<1>1. faults \in 0..MaxFaults /\ edits \in 0..MaxEdits /\ MaxFaults \in Nat /\ MaxEdits \in Nat
  BY Facts, SpecAssumption DEF World
<1> QED
  BY <1>1 DEF Fault, Edit

LEMMA FailsKeeps ==
    ASSUME IInv, Fails, faults' \in 0..MaxFaults, UNCHANGED edits
    PROVE  IInv'
<1>1. /\ UNCHANGED <<run_status, artifacts, state, issue, comments, enabled>> /\ touched' = FALSE
  BY DEF Fails
<1>2. World'
  BY <1>1, Facts DEF World, TextDated
<1>3. "idle" \in Resting /\ "pending" \in Resting /\ Idle = [Idle EXCEPT !.at = "idle"]
  BY RestType DEF Resting
<1>4. CASE poll.context = "resume"
  <2> DEFINE k == poll.key
             least == Min({intents[k].retries + 1, MaxRetries})
             s == IF intents[k].retries + 1 >= MaxRetries THEN "blocked" ELSE "pending"
             x == [intents[k] EXCEPT !.retries = least, !.status = s]
  <2>1. /\ RecordFailure(k) /\ poll' = [Idle EXCEPT !.at = "pending"] /\ UNCHANGED <<attempts, todo>>
    BY <1>4 DEF Fails
  <2>2. poll.at \in Publication
    BY <1>4, Facts DEF PollSound, PollOwns
  <2>3. /\ k \in DOMAIN intents /\ IntentOf = intents[k] /\ IntentOf \in Intent
        /\ todo \subseteq PendingIntents /\ k \notin todo
    BY <2>2, AtPublication
  <2>4. least \in Nat
    <3>1. {intents[k].retries + 1, MaxRetries} \in SUBSET Nat
      BY <2>3, SpecAssumption DEF Intent
    <3>2. least \in {intents[k].retries + 1, MaxRetries}
      BY <3>1, MinIsMember
    <3> HIDE DEF least
    <3> QED
      BY <3>1, <3>2
  <2>5. intents' = [intents EXCEPT ![k].retries = least, ![k].status = s] /\ Stamp(k)
    BY <2>1 DEF RecordFailure
  <2>6. s \in {"pending", "blocked"}
    OBVIOUS
  <2> HIDE DEF least, s
  <2>7. x \in Intent /\ x.kind = IntentOf.kind /\ x.version = IntentOf.version
    BY <2>3, <2>4, <2>6 DEF Intent
  <2>8. intents' = [intents EXCEPT ![k] = x]
    BY <2>3, <2>5
  <2>9. /\ intents' \in Seq(Intent) /\ Len(intents') = Len(intents)
        /\ DOMAIN intents' = DOMAIN intents
        /\ \A i \in DOMAIN intents : i # k => intents'[i] = intents[i]
    <3> HIDE DEF x
    <3> QED
      BY <2>3, <2>7, <2>8, IntentWritten
  <2>10. AttemptsOnce' /\ Rows'
    <3>1. fresh' \in BOOLEAN
      BY <2>5, Facts DEF Stamp, Rows
    <3> QED
      BY <1>1, <2>1, <2>9, <3>1, Facts
         DEF AttemptsOnce, RunningOnce, Running, BudgetKept, Rows, VersionsOnce
  <2>11. ApprovedIsPinned'
    <3>1. \A i \in Of("approval") : intents[i].status = "applied" => i # k
      BY <2>2, <2>3, AtPublication DEF PollApproves, Approves, Of
    <3> QED
      BY <1>1, <2>9, <3>1, Facts, ApprovedKept DEF Of
  <2>12. /\ todo' \subseteq PendingIntents' /\ Len(intents') \in Nat
         /\ DOMAIN intents' = 1..Len(intents')
    BY <2>1, <2>3, <2>9, Facts DEF PendingIntents
  <2> QED
    BY <1>1, <1>2, <1>3, <2>1, <2>10, <2>11, <2>12, RestStep
<1>5. CASE poll.context = "attempt"
  <2>1. FailAttempt(poll.rev) /\ poll' = Idle /\ UNCHANGED <<intents, fresh, todo>>
    BY <1>5 DEF Fails
  <2>2. poll.rev \in Revisions /\ attempts[poll.rev] # <<>>
    BY <1>5, Facts DEF PollSound, PollAttempt
  <2>3. AttemptsOnce'
    BY <2>1, <2>2, Facts, AttemptEnded DEF FailAttempt
  <2>4. Rows' /\ ApprovedIsPinned'
    BY <1>1, <2>1, Facts, ApprovedKept DEF Rows, VersionsOnce, Of
  <2>5. todo = {}
    <3>1. poll.at # "pending"
      BY <1>5, AtRest DEF Resting, Publication
    <3> QED
      BY <1>5, <3>1, Facts DEF PollSound, PollOwns
  <2> QED
    BY <1>1, <1>2, <1>3, <2>1, <2>3, <2>4, <2>5, Facts, RestStep
<1>6. CASE poll.context = "none"
  <2>1. todo' = {} /\ poll' = Idle /\ UNCHANGED <<intents, fresh, attempts>>
    BY <1>6 DEF Fails
  <2>2. AttemptsOnce'
    BY <2>1, Facts DEF AttemptsOnce, RunningOnce, Running, BudgetKept
  <2>3. Rows' /\ ApprovedIsPinned'
    BY <1>1, <2>1, Facts, ApprovedKept DEF Rows, VersionsOnce, Of
  <2> QED
    BY <1>1, <1>2, <1>3, <2>1, <2>2, <2>3, Facts, RestStep
<1> QED
  BY <1>4, <1>5, <1>6 DEF Fails

LEMMA FailuresKeep ==
    ASSUME IInv, CallFails \/ AgentFails \/ CallRefused
    PROVE  IInv'
<1>1. Fails /\ (Fault \/ UNCHANGED bounds)
  BY DEF CallFails, AgentFails, CallRefused
<1>2. faults' \in 0..MaxFaults /\ UNCHANGED edits
  BY <1>1, BoundsKept DEF bounds
<1> QED
  BY <1>1, <1>2, FailsKeeps

LEMMA CrashKeeps == ASSUME IInv, Crash PROVE IInv'
<1>1. /\ UNCHANGED <<run_status, attempts, artifacts, state, intents, fresh, issue, comments, enabled>>
      /\ touched' = FALSE /\ todo' = {} /\ faults' \in 0..MaxFaults /\ UNCHANGED edits
  BY BoundsKept DEF Crash, store_vars
<1>2. AttemptsOnce' /\ Rows' /\ ApprovedIsPinned'
  BY <1>1, Facts, ApprovedKept
     DEF AttemptsOnce, RunningOnce, Running, BudgetKept, Rows, VersionsOnce, Of
<1>3. World'
  BY <1>1, Facts DEF World, TextDated
<1>4. poll' = [Idle EXCEPT !.at = "idle"] /\ "idle" \in Resting
  BY RestType DEF Crash, Resting
<1> QED
  BY <1>1, <1>2, <1>3, <1>4, Facts, RestStep

\* The poll is not disturbed by what leaves the attempt it works on, the comment
\* it has made, and what an approval has done, unless it knows.
LEMMA PollStays ==
    ASSUME IInv, UNCHANGED <<poll, todo, intents, state>>,
           UNCHANGED attempts \/ poll.context # "attempt",
           DOMAIN comments' = DOMAIN comments,
           \A c \in DOMAIN comments : comments'[c].intent = comments[c].intent,
           ~touched' =>
               ~touched /\ (Approves => /\ issue'.labels = issue.labels
                                        /\ issue'.column = issue.column)
    PROVE  PollKept'
<1>1. TodoPending' /\ PollShape'
  BY Facts DEF TodoPending, PendingIntents, PollShape
<1>2. PollAttempt' /\ PollOwns'
  BY Facts DEF PollSound, PollAttempt, PollOwns
<1>3. PollShows'
  BY Facts DEF PollSound, PollShows
<1>4. Approves' = Approves /\ Confirming' = Confirming /\ IntentOf' = IntentOf
  BY DEF Approves, Confirming, IntentOf
<1>5. PollApproves'
  BY <1>4, Facts DEF PollSound, PollApproves
<1>6. PollRoutes'
  BY <1>4, Facts DEF PollSound, PollRoutes
<1> QED
  BY <1>1, <1>2, <1>3, <1>5, <1>6 DEF PollKept, PollSound

LEMMA LeaseExpiresKeeps == ASSUME IInv, LeaseExpires PROVE IInv'
<1>r. PICK r \in Revisions : \E n \in Running(r) :
          attempts[r][n] = "running" /\ attempts' = [attempts EXCEPT ![r][n] = "lapsed"]
  BY DEF LeaseExpires
<1>1. PICK n \in Running(r) :
          attempts[r][n] = "running" /\ attempts' = [attempts EXCEPT ![r][n] = "lapsed"]
  BY <1>r
<1>2. /\ poll.context # "attempt"
      /\ UNCHANGED <<run_status, artifacts, state, intents, fresh, issue, comments, poll, todo>>
      /\ UNCHANGED <<enabled, faults, edits, touched>>
  BY DEF LeaseExpires, poll_vars, bounds
<1> DEFINE s == attempts[r]
           t == [s EXCEPT ![n] = "lapsed"]
<1>3. s \in Seq(AttemptStatus) /\ Len(s) <= MaxAttempts /\ "lapsed" \in AttemptStatus
  BY Facts DEF AttemptsOnce, AttemptStatus, BudgetKept
<1>4. n \in 1..Len(s) /\ DOMAIN s = 1..Len(s)
  BY <1>3 DEF Running
<1>5. t \in Seq(AttemptStatus) /\ Len(t) = Len(s) /\ DOMAIN t = 1..Len(s)
  BY <1>3, <1>4, ExceptSeq
<1>6. \A i \in DOMAIN s : s[i] \in {"running", "lapsed"} => i = n
  BY Facts DEF AttemptsOnce, RunningOnce, Running
<1>7. \A i, j \in DOMAIN t :
          t[i] \in {"running", "lapsed"} /\ t[j] \in {"running", "lapsed"} => i = j
  BY <1>4, <1>5, <1>6
<1>8. attempts' = [attempts EXCEPT ![r] = t]
  BY <1>1, Facts DEF AttemptsOnce
<1>9. AttemptsOnce'
  <2> HIDE DEF s, t
  <2> QED
    BY <1>3, <1>5, <1>7, <1>8, Facts, AttemptsChange
<1>10. Rows' /\ CommentsOnce'
  BY <1>2, Facts DEF Rows, VersionsOnce, CommentsOnce, OneLive, Live
<1>11. World' /\ ApprovedIsPinned'
  BY <1>2, Facts, ApprovedKept DEF World, TextDated, Of
<1>12. PollKept'
  BY <1>2, PollStays
<1> QED
  BY <1>9, <1>10, <1>11, <1>12, StepKeeps

\* People change what is on the forge, and the store is as it was.
LEMMA PeopleStep ==
    ASSUME IInv, UNCHANGED <<store_vars, poll_vars>>, fresh' \in BOOLEAN,
           CommentsOnce', World', DOMAIN comments' = DOMAIN comments,
           \A c \in DOMAIN comments : comments'[c].intent = comments[c].intent,
           ~touched' =>
               ~touched /\ (Approves => /\ issue'.labels = issue.labels
                                        /\ issue'.column = issue.column)
    PROVE  IInv'
<1>1. UNCHANGED <<run_status, attempts, artifacts, state, intents, poll, todo>>
  BY DEF store_vars, poll_vars
<1>2. AttemptsOnce' /\ Rows'
  BY <1>1, Facts DEF AttemptsOnce, RunningOnce, Running, BudgetKept, Rows, VersionsOnce
<1>3. ApprovedIsPinned'
  BY <1>1, Facts, ApprovedKept DEF Of
<1>4. PollKept'
  BY <1>1, PollStays
<1> QED
  BY <1>2, <1>3, <1>4, StepKeeps

LEMMA PeopleEditKeeps == ASSUME IInv, PeopleEdit PROVE IInv'
<1>1. Edit /\ UNCHANGED <<store_vars, comments, poll_vars, enabled>>
  BY Zenon DEF PeopleEdit
<1>2. PICK wrote \in {"nothing", "text", "feedback"}, l \in Labels \ {Route},
           toggle \in BOOLEAN :
        /\ issue' = [issue EXCEPT
               !.text = IF wrote = "nothing" THEN @ ELSE @ + 1,
               !.labels = IF ~toggle THEN @ ELSE IF l \in @ THEN @ \ {l} ELSE @ \cup {l}]
        /\ fresh' = (fresh \/ wrote = "feedback")
        /\ touched' = (touched \/ (toggle /\ Approving))
  BY Zenon DEF PeopleEdit
<1> DEFINE text == IF wrote = "nothing" THEN issue.text ELSE issue.text + 1
           labels == IF ~toggle THEN issue.labels
                     ELSE IF l \in issue.labels THEN issue.labels \ {l} ELSE issue.labels \cup {l}
<1>3. issue \in [labels : SUBSET Labels, column : Columns, text : Revisions] /\ TextDated
      /\ fresh \in BOOLEAN /\ touched \in BOOLEAN /\ enabled \in BOOLEAN
  BY Facts DEF World, Rows
<1>4. issue' = [issue EXCEPT !.text = text, !.labels = labels]
  BY <1>2
<1>5. /\ edits' = edits + 1 /\ edits' \in 0..MaxEdits /\ UNCHANGED faults
      /\ edits \in 0..MaxEdits /\ faults \in 0..MaxFaults
  BY <1>1, BoundsKept
<1>6. text \in Revisions /\ text <= edits' + 1 /\ labels \in SUBSET Labels
  <2>1. text \in Nat \ {0} /\ text <= issue.text + 1
    BY <1>3, SpecAssumption DEF Revisions
  <2>2. issue.text <= edits + 1 /\ issue.text \in Nat
    BY <1>3, SpecAssumption DEF TextDated, Revisions
  <2>3. labels \in SUBSET Labels
    BY <1>3
  <2> HIDE DEF text, labels
  <2> QED
    BY <1>5, <2>1, <2>2, <2>3, SpecAssumption DEF Revisions
<1>7. ~toggle => labels = issue.labels
  OBVIOUS
<1> HIDE DEF text, labels
<1>8. /\ issue' \in [labels : SUBSET Labels, column : Columns, text : Revisions]
      /\ issue'.text = text /\ issue'.labels = labels /\ issue'.column = issue.column
  BY <1>3, <1>4, <1>6
<1>9. fresh' \in BOOLEAN /\ touched' \in BOOLEAN
  BY <1>2
<1>10. World'
  BY <1>1, <1>3, <1>5, <1>6, <1>8, <1>9 DEF World, TextDated
<1>11. CommentsOnce'
  BY <1>1, Facts DEF CommentsOnce, OneLive, Live
<1>12. Approves => Approving
  BY AtPublication, Facts DEF Approves, Approving
<1>13. ~touched' => ~touched /\ (Approves => issue'.labels = issue.labels)
  BY <1>2, <1>7, <1>8, <1>12
<1> QED
  BY <1>1, <1>8, <1>9, <1>10, <1>11, <1>13, PeopleStep

LEMMA PeopleMoveKeeps == ASSUME IInv, PeopleMove PROVE IInv'
<1>1. /\ Edit /\ UNCHANGED <<store_vars, fresh, comments, poll_vars, enabled>>
      /\ touched' = (touched \/ Approving)
  BY DEF PeopleMove
<1>2. PICK c \in Columns : issue' = [issue EXCEPT !.column = c]
  BY DEF PeopleMove
<1>3. /\ issue \in [labels : SUBSET Labels, column : Columns, text : Revisions] /\ TextDated
      /\ fresh \in BOOLEAN /\ enabled \in BOOLEAN
  BY Facts DEF World, Rows
<1>4. /\ issue' \in [labels : SUBSET Labels, column : Columns, text : Revisions]
      /\ issue'.text = issue.text
  BY <1>2, <1>3
<1>5. /\ edits' = edits + 1 /\ edits' \in 0..MaxEdits /\ UNCHANGED faults
      /\ edits \in 0..MaxEdits /\ faults \in 0..MaxFaults
  BY <1>1, BoundsKept
<1>6. World'
  <2>1. issue'.text <= edits' + 1
    BY <1>3, <1>4, <1>5, SpecAssumption DEF TextDated, Revisions
  <2>2. touched' \in BOOLEAN
    BY <1>1
  <2> QED
    BY <1>1, <1>3, <1>4, <1>5, <2>1, <2>2 DEF World, TextDated
<1>7. CommentsOnce'
  BY <1>1, Facts DEF CommentsOnce, OneLive, Live
<1>8. Approves => Approving
  BY AtPublication, Facts DEF Approves, Approving
<1> QED
  BY <1>1, <1>3, <1>6, <1>7, <1>8, PeopleStep

LEMMA PeopleDeleteKeeps == ASSUME IInv, PeopleDelete PROVE IInv'
<1>1. Edit /\ UNCHANGED <<store_vars, fresh, issue, poll_vars, enabled, touched>>
  BY DEF PeopleDelete
<1>2. PICK c \in Live : comments' = [comments EXCEPT ![c].live = FALSE]
  BY DEF PeopleDelete
<1> DEFINE x == [comments[c] EXCEPT !.live = FALSE]
<1>3. comments \in Seq(Comment) /\ OneLive /\ c \in 1..Len(comments) /\ c \in DOMAIN comments
      /\ comments[c] \in Comment
  BY Facts DEF CommentsOnce, Live
<1>4. x \in Comment /\ x.intent = comments[c].intent /\ x.live = FALSE
  BY <1>3 DEF Comment
<1>5. comments' = [comments EXCEPT ![c] = x]
  BY <1>2, <1>3
<1> HIDE DEF x
<1>6. /\ comments' \in Seq(Comment) /\ DOMAIN comments' = DOMAIN comments
      /\ comments'[c] = x /\ \A d \in DOMAIN comments : d # c => comments'[d] = comments[d]
  BY <1>3, <1>4, <1>5, ExceptSeq
<1>7. Live' \subseteq Live
  BY <1>4, <1>6 DEF Live
<1>8. CommentsOnce'
  BY <1>3, <1>6, <1>7 DEF CommentsOnce, OneLive
<1>9. /\ edits' = edits + 1 /\ edits' \in 0..MaxEdits /\ UNCHANGED faults
      /\ edits \in 0..MaxEdits /\ faults \in 0..MaxFaults
  BY <1>1, BoundsKept
<1>10. World'
  <2>1. issue'.text <= edits' + 1
    BY <1>1, <1>9, Facts, SpecAssumption DEF World, TextDated, Revisions
  <2> QED
    BY <1>1, <1>9, <2>1, Facts DEF World, TextDated
<1>11. \A d \in DOMAIN comments : comments'[d].intent = comments[d].intent
  BY <1>4, <1>6
<1>12. fresh' \in BOOLEAN
  BY <1>1, Facts DEF Rows
<1> QED
  BY <1>1, <1>6, <1>8, <1>10, <1>11, <1>12, PeopleStep

LEMMA OperatorReloadsKeeps == ASSUME IInv, OperatorReloads PROVE IInv'
<1>1. /\ Edit /\ enabled' = ~enabled
      /\ UNCHANGED <<store_vars, fresh, issue, comments, poll_vars, touched>>
  BY DEF OperatorReloads
<1>2. /\ edits' = edits + 1 /\ edits' \in 0..MaxEdits /\ UNCHANGED faults
      /\ edits \in 0..MaxEdits /\ faults \in 0..MaxFaults
  BY <1>1, BoundsKept
<1>3. World'
  <2>1. issue'.text <= edits' + 1
    BY <1>1, <1>2, Facts, SpecAssumption DEF World, TextDated, Revisions
  <2>2. enabled' \in BOOLEAN
    BY <1>1
  <2> QED
    BY <1>1, <1>2, <2>1, <2>2, Facts DEF World, TextDated
<1>4. CommentsOnce' /\ fresh' \in BOOLEAN
  BY <1>1, Facts DEF CommentsOnce, OneLive, Live, Rows
<1> QED
  BY <1>1, <1>3, <1>4, PeopleStep

----------------------------------------------------------------------------
(* The theorems *)

LEMMA InitHolds == ASSUME Init PROVE IInv
<1>1. AttemptsOnce
  <2>1. /\ attempts \in [Revisions -> Seq(AttemptStatus)]
        /\ \A r \in Revisions : attempts[r] = <<>> /\ Len(attempts[r]) = 0
                                /\ DOMAIN attempts[r] = {}
    BY DEF Init
  <2> QED
    BY <2>1, SpecAssumption DEF AttemptsOnce, RunningOnce, Running, BudgetKept
<1>2. Rows
  <2>1. run_status = "none" /\ artifacts = <<>> /\ intents = <<>> /\ fresh = FALSE
    BY DEF Init
  <2>2. state \in RunState
    BY DEF Init, RunState
  <2>3. DOMAIN artifacts = {} /\ artifacts \in Seq(Revisions) /\ intents \in Seq(Intent)
    BY <2>1
  <2> QED
    BY <2>1, <2>2, <2>3 DEF Rows, VersionsOnce
<1>3. CommentsOnce
  BY DEF Init, CommentsOnce, OneLive, Live
<1>4. World
  <2>1. /\ issue.labels \in InitialLabels /\ issue.column \in {"none", "backlog"}
        /\ issue.text = 1
        /\ issue \in [labels : InitialLabels, column : {"none", "backlog"}, text : {1}]
    BY DEF Init
  <2>2. 1 \in Revisions /\ InitialLabels \subseteq SUBSET Labels
        /\ {"none", "backlog"} \subseteq Columns
    BY SpecAssumption DEF Revisions, Labels, Columns
  <2>3. issue \in [labels : SUBSET Labels, column : Columns, text : Revisions]
    BY <2>1, <2>2
  <2>4. 0 \in 0..MaxFaults /\ 0 \in 0..MaxEdits /\ 1 <= 0 + 1
    BY SpecAssumption
  <2> QED
    BY <2>1, <2>3, <2>4 DEF Init, World, TextDated
<1>5. ApprovedIsPinned
  BY DEF Init, ApprovedIsPinned
<1>6. PollKept
  <2>1. poll = Idle /\ todo = {} /\ intents = <<>> /\ poll \in Poll /\ poll.key = 0
        /\ poll.at = "idle" /\ poll.context = "none" /\ poll.step = 0 /\ poll.cycle = 0
        /\ poll = [Idle EXCEPT !.at = "idle"]
    BY IdleType, RestType DEF Init, Resting
  <2>2. TodoPending /\ PollShape
    BY <2>1 DEF TodoPending, PollShape
  <2>3. PollAttempt /\ PollOwns
    BY <2>1 DEF PollAttempt, PollOwns, Resting, Working, Publication
  <2>4. PollShows /\ PollApproves /\ PollRoutes
    BY <2>1 DEF PollShows, PollApproves, PollRoutes, Approves, Publication
  <2> QED
    BY <2>2, <2>3, <2>4 DEF PollKept, PollSound
<1> QED
  BY <1>1, <1>2, <1>3, <1>4, <1>5, <1>6, Parts

LEMMA NextKeeps == IInv /\ [Next]_vars => IInv'
<1> SUFFICES ASSUME IInv, [Next]_vars PROVE IInv'
  OBVIOUS
<1>1. CASE Resuming
  BY <1>1, PollStartsKeeps, ResumeKeeps, PendingDoneKeeps DEF Resuming
<1>2. CASE Decisions
  BY <1>2, FetchIntakeKeeps, TriageOwnsKeeps, OffProjectKeeps, DiagnosticsKeep,
     RequestRevisionKeeps, ApproveKeeps, NothingToDoKeeps, RecoverPreviewKeeps, NewRevisionKeeps
     DEF Decisions
<1>3. CASE Writing
  BY <1>3, ClaimKeeps, ClaimFailsKeeps, WriteTurnKeeps, ReviewTurnKeeps, FailuresKeep,
     StoreArtifactKeeps, IntendPreviewKeeps DEF Writing
<1>4. CASE Commenting
  BY <1>4, UpdateRecordedKeeps, AdoptCommentKeeps, CreateCommentKeeps, BindCommentKeeps
     DEF Commenting
<1>5. CASE Publishing
  BY <1>5, SetPendingApprovalKeeps, RemoveReviseKeeps, RemoveApprovalLabelKeeps, AddRouteKeeps,
     SetColumnKeeps, PinApprovalKeeps, FinalizeApprovalKeeps, CompletePublicationKeeps
     DEF Publishing
<1>6. CASE CallRefused \/ CallFails
  BY <1>6, FailuresKeep
<1>7. CASE Crash \/ LeaseExpires \/ PeopleEdit \/ PeopleMove \/ PeopleDelete \/ OperatorReloads
  BY <1>7, CrashKeeps, LeaseExpiresKeeps, PeopleEditKeeps, PeopleMoveKeeps, PeopleDeleteKeeps,
     OperatorReloadsKeeps
<1>8. CASE UNCHANGED vars
  <2>1. /\ UNCHANGED <<store_vars, fresh, issue, comments, poll_vars, enabled, bounds, touched>>
    BY <1>8 DEF vars
  <2>2. /\ CommentsOnce' /\ World' /\ fresh' \in BOOLEAN
    BY <2>1, OnlyPoll, Facts DEF Rows
  <2> QED
    BY <2>1, <2>2, PeopleStep
<1> QED
  BY <1>1, <1>2, <1>3, <1>4, <1>5, <1>6, <1>7, <1>8 DEF Next, Symphony, Environment

\* What the poll knows of its attempt, its publication and its approval holds
\* through every crash, failed call and edit.
THEOREM InvariantHolds == Spec => []IInv
  BY InitHolds, NextKeeps, PTL DEF Spec

\* Every variable keeps its shape.
THEOREM TypeHolds == Spec => []TypeOK
<1>1. IInv => TypeOK
  BY DEF IInv
<1> QED
  BY <1>1, InvariantHolds, PTL

\* A set whose members are equal has one at most.
LEMMA AtMostOne ==
    ASSUME NEW S, \A x, y \in S : x = y
    PROVE  Cardinality(S) <= 1
<1>1. CASE S = {}
  BY <1>1, FS_EmptySet
<1>2. ASSUME NEW x \in S PROVE Cardinality(S) <= 1
  <2>1. S = {x}
    OBVIOUS
  <2>2. Cardinality(S) = 1
    BY <2>1, FS_Singleton
  <2> QED
    BY <2>2
<1> QED
  BY <1>1, <1>2

\* The issue shows one specification comment at most, and a revision has its
\* attempts within the budget, one of them running, and one version.
THEOREM WorkIsDoneOnce == Spec => []WorkDoneOnce
<1>1. IInv => WorkDoneOnce
  <2> SUFFICES ASSUME IInv PROVE WorkDoneOnce
    OBVIOUS
  <2>1. OneSpecComment
    BY AtMostOne DEF IInv, OneLive, OneSpecComment
  <2>2. \A r \in Revisions : Cardinality(Running(r)) <= 1
    BY AtMostOne DEF IInv, RunningOnce
  <2> QED
    BY <2>1, <2>2 DEF IInv, WorkDoneOnce, AttemptsSound, BudgetKept, VersionsOnce
<1> QED
  BY <1>1, InvariantHolds, PTL

\* An approved run has a version pinned, and an approval of just that version was
\* carried out to the end.
THEOREM ApprovalIsPinned == Spec => []ApprovedIsPinned
<1>1. IInv => ApprovedIsPinned
  BY DEF IInv
<1> QED
  BY <1>1, InvariantHolds, PTL

\* No step but the last one of a publication makes it applied.
LEMMA AppliedStep ==
    ASSUME IInv, [Next]_vars, NEW i \in DOMAIN intents, intents[i].kind = "approval",
           intents[i].status # "applied", intents'[i].status = "applied"
    PROVE  FinalizeApproval /\ i = poll.key
<1>1. /\ intents \in Seq(Intent) /\ DOMAIN intents = 1..Len(intents) /\ Len(intents) \in Nat
      /\ \A j \in DOMAIN intents : intents[j] \in Intent
  BY Facts DEF Rows
<1>2. ~UNCHANGED intents
  OBVIOUS
<1>3. ASSUME NEW kind, NEW version, NEW message, CreateIntent(kind, version, message)
      PROVE  FALSE
  <2>1. intents'[i] = intents[i]
    BY <1>1, <1>3 DEF CreateIntent
  <2> QED
    BY <2>1
<1>4. ASSUME NEW version, NEW message, PublishDiagnostic(version, message)
      PROVE  FALSE
  <2>1. ASSUME NEW k, intents' = [intents EXCEPT ![k].status = "pending", ![k].message = message]
        PROVE  FALSE
    <3>1. intents[i] \in Intent
      BY <1>1
    <3>2. intents'[i].status \in {intents[i].status, "pending"}
      BY <2>1, <3>1 DEF Intent
    <3> QED
      BY <3>2
  <2> QED
    BY <1>2, <1>3, <1>4, <2>1, Zenon DEF PublishDiagnostic
<1>5. ASSUME Fails PROVE FALSE
  <2>1. ASSUME RecordFailure(poll.key) PROVE FALSE
    <3>1. intents[i] \in Intent
      BY <1>1
    <3>2. intents'[i].status \in {intents[i].status, "pending", "blocked"}
      BY <2>1, <3>1 DEF RecordFailure, Intent
    <3> QED
      BY <3>2
  <2> QED
    BY <1>2, <1>5, <2>1, Zenon DEF Fails
<1>6. CASE Resuming \/ Crash \/ LeaseExpires \/ PeopleEdit \/ PeopleMove \/ PeopleDelete
            \/ OperatorReloads \/ UNCHANGED vars
  BY <1>2, <1>6, Zenon DEF Resuming, PollStarts, Resume, PendingDone, Crash, LeaseExpires,
     PeopleEdit, PeopleMove, PeopleDelete, OperatorReloads, vars, store_vars
<1>7. CASE Decisions
  <2>1. CASE OffProject
    BY <1>2, <1>4, <2>1, Zenon DEF OffProject
  <2>2. CASE DecisionConflict \/ ReviseWithoutFeedback \/ BudgetExhausted \/ StaleApproval
    BY <1>4, <2>2, Zenon DEF DecisionConflict, ReviseWithoutFeedback, BudgetExhausted,
       StaleApproval, Diagnose
  <2>3. CASE Approve
    BY <1>3, <2>3, Zenon DEF Approve
  <2>4. CASE FetchIntake \/ TriageOwns \/ RequestRevision \/ NothingToDo \/ RecoverPreview
              \/ NewRevision
    BY <1>2, <2>4, Zenon DEF FetchIntake, TriageOwns, RequestRevision, NothingToDo,
       RecoverPreview, NewRevision, store_vars
  <2> QED
    BY <1>7, <2>1, <2>2, <2>3, <2>4 DEF Decisions
<1>8. CASE Writing
  <2>1. CASE IntendPreview
    BY <1>3, <2>1, Zenon DEF IntendPreview
  <2>2. CASE AgentFails
    BY <1>5, <2>2, Zenon DEF AgentFails
  <2>3. CASE Claim \/ ClaimFails \/ WriteTurn \/ ReviewTurn \/ StoreArtifact
    BY <1>2, <2>3, Zenon DEF Claim, ClaimFails, WriteTurn, ReviewTurn, StoreArtifact, store_vars
  <2> QED
    BY <1>8, <2>1, <2>2, <2>3 DEF Writing
<1>9. CASE Commenting
  <2>1. CASE BindComment
    <3>1. PICK c : intents' = [intents EXCEPT ![poll.key].comment = c]
      BY <2>1, Zenon DEF BindComment, SetComment
    <3>2. intents[i] \in Intent
      BY <1>1
    <3>3. intents'[i].status = intents[i].status
      BY <3>1, <3>2 DEF Intent
    <3> QED
      BY <3>3
  <2>2. CASE UpdateRecorded \/ AdoptComment \/ CreateComment
    BY <1>2, <2>2, Zenon DEF UpdateRecorded, AdoptComment, CreateComment, store_vars
  <2> QED
    BY <1>9, <2>1, <2>2 DEF Commenting
<1>10. CASE Publishing
  <2>1. ASSUME Complete(poll.key) PROVE i = poll.key
    BY <1>1, <2>1 DEF Complete
  <2>2. CASE CompletePublication
    BY <2>1, <2>2 DEF CompletePublication, IntentOf
  <2>3. CASE FinalizeApproval
    BY <2>1, <2>3 DEF FinalizeApproval
  <2>4. CASE SetPendingApproval \/ RemoveRevise \/ RemoveApprovalLabel \/ AddRoute \/ SetColumn
              \/ PinApproval
    BY <1>2, <2>4, Zenon DEF SetPendingApproval, RemoveRevise, RemoveApprovalLabel, AddRoute,
       SetColumn, PinApproval, store_vars
  <2> QED
    BY <1>10, <2>2, <2>3, <2>4 DEF Publishing
<1>11. CASE CallRefused \/ CallFails
  BY <1>5, <1>11, Zenon DEF CallRefused, CallFails
<1> QED
  BY <1>6, <1>7, <1>8, <1>9, <1>10, <1>11 DEF Next, Symphony, Environment

\* An approval is recorded as applied only when the issue is as it promises, or
\* people have changed it since the poll took the approval up.
THEOREM ApprovalIsRouted == Spec => ApprovedMeansRouted
<1>1. ASSUME IInv, [Next]_vars, NEW i \in DOMAIN intents, intents[i].kind = "approval",
             intents[i].status # "applied", intents'[i].status = "applied", ~touched
      PROVE  /\ issue.labels \cap {Intake, Approved, Revise} = {}
             /\ Route \in issue.labels
             /\ issue.column = "todo"
  <2>1. FinalizeApproval
    BY <1>1, AppliedStep
  <2>2. poll.at = "finish" /\ Approves
    BY <2>1 DEF FinalizeApproval, Approves, Publication
  <2>3. PollRoutes
    BY <1>1, Facts DEF PollSound
  <2> QED
    BY <1>1, <2>2, <2>3 DEF PollRoutes
<1>2. IInv /\ [Next]_vars =>
        [\A i \in DOMAIN intents :
            /\ intents[i].kind = "approval"
            /\ intents[i].status # "applied" /\ intents'[i].status = "applied"
            /\ ~touched
            => /\ issue.labels \cap {Intake, Approved, Revise} = {}
               /\ Route \in issue.labels
               /\ issue.column = "todo"]_vars
  BY <1>1
<1> QED
  BY <1>2, InvariantHolds, PTL DEF Spec, ApprovedMeansRouted
=============================================================================
