---------------------------- MODULE TriageProofs ----------------------------
(* Safety of TriageStage for any routes, revisions, columns, attempts and     *)
(* disturbances.                                                              *)
EXTENDS TriageStage, FiniteSetTheorems, TLAPS

\* Places where a poll knows that nothing is unfinished, and where it publishes.
Clear == {"corrections", "intake", "issue", "turn", "decided", "failed", "ensure"}
Publishing == {"publish", "created", "commented", "mutate", "mutated"}
Writing == Publishing \ {"publish"}

\* An automatic publication that goes on changing the issue.
Projects(k) == Automatic(k) /\ intents[k].status = "pending" /\ intents[k].baselined

RunningOnce == \A r \in Revisions : \A m, n \in Running(r) : m = n
Decided == \A r \in Revisions :
    (artifacts[r] # NoRoute) <=> \E n \in DOMAIN attempts[r] : attempts[r][n].status = "completed"
BudgetKept == \A r \in Revisions : Len(attempts[r]) <= MaxAttempts

\* A publication has an artifact, and what it has done is what its projection
\* shows: its route label is on, then its column set, then the labels of the other
\* routes and the intake off.
Shows(k) ==
    LET done == intents[k].done
        expected == intents[k].expected
        route == RouteOf(k) IN
    /\ done >= 2 => route \in expected.labels
    /\ done >= 3 /\ RouteColumn[route] # NoColumn => expected.column = RouteColumn[route]
    /\ done >= 4 => expected.labels \cap Routes \subseteq {route}
    /\ done >= 6 => Intake \notin expected.labels
IntentSound == \A k \in Keys :
    /\ Automatic(k) /\ intents[k].status # "none" => artifacts[k[2]] # NoRoute
    /\ intents[k].status = "pending" =>
        /\ intents[k].done < Len(AutomaticSteps)
        /\ (~Automatic(k) \/ ~intents[k].baselined) => intents[k].done = 0
    /\ Projects(k) => Shows(k)
LatestSound == latest \in Keys => Automatic(latest) /\ artifacts[latest[2]] # NoRoute

\* Unless people have touched it, the issue is as a publication expects it, or one
\* change further: at its step's end, or with one label less.
Without(k, l) == [intents[k].expected EXCEPT !.labels = @ \ {l}]
Stays(k) == Step(k) = "project_state" /\ RouteColumn[RouteOf(k)] = NoColumn
Near(k) ==
    \/ Ours(k)
    \/ Step(k) \in MutationSteps /\ ~Stays(k) /\ Reached(k)
    \/ \E l \in ToRemove(k) : Observed = Without(k, l)
Tracked == ~touched => \A k \in Keys : Projects(k) => Near(k)

\* What Symphony put on an issue that is still on it is known to the publication
\* at work, or is the route published last.
PlacedSound ==
    /\ placed \subseteq Routes
    /\ \A k \in Keys : Projects(k) =>
        placed \cap issue.labels \subseteq intents[k].expected.labels \cup {RouteOf(k)}
    /\ (\A k \in Keys : intents[k].status # "conflict" /\ ~Projects(k)) =>
        \A l \in placed \cap issue.labels : latest \in Keys /\ l = RouteOf(latest)

\* A poll that triages has a revision without a decision and an attempt of its own
\* that runs.
PollTriages ==
    /\ poll.at \in {"intake", "issue", "turn", "decided", "failed", "ensure"} => mode # "off"
    /\ poll.at \in {"issue", "turn", "decided", "failed"} => poll.rev \in Revisions
    /\ poll.at \in {"turn", "decided"} =>
        /\ artifacts[poll.rev] = NoRoute
        /\ attempts[poll.rev] # <<>>
        /\ attempts[poll.rev][Len(attempts[poll.rev])].status = "running"
    /\ poll.at = "decided" => poll.route \in Routes
    /\ poll.at = "ensure" =>
        poll.key \in Keys /\ (Automatic(poll.key) => artifacts[poll.key[2]] # NoRoute)

\* What is unfinished is left to resume, or is what the poll publishes.
PollResumes ==
    /\ poll.at \in Clear => Unfinished = {}
    /\ poll.at = "pending" => Unfinished \subseteq todo
    /\ poll.at \in Publishing =>
        /\ poll.key \in Keys
        /\ Unfinished \subseteq {poll.key} \cup (IF poll.then = "pending" THEN todo ELSE {})

\* A poll that writes is at a step of a publication that is due, and knows how far
\* the issue is.
WritesAt(k) ==
    /\ poll.at \in Writing =>
        intents[k].status = "pending" /\ (Automatic(k) => intents[k].baselined)
    /\ poll.at \in {"created", "commented"} => Step(k) \in CommentSteps
    /\ poll.at \in {"mutate", "mutated"} => Step(k) \in MutationSteps /\ ~Stays(k)
    /\ (poll.at = "mutate" /\ ~touched) => Ours(k)
    /\ poll.at # "mutated" => poll.label = NoKey
    /\ poll.at = "mutated" /\ poll.label = NoKey =>
        /\ Step(k) \in {"route_label", "project_state"}
        /\ ~touched => Reached(k)
    /\ poll.at = "mutated" /\ poll.label # NoKey =>
        /\ poll.label \in ToRemove(k)
        /\ poll.label \notin placed \cap issue.labels
        /\ ~touched => Observed = Without(k, poll.label)
PollWrites == WritesAt(poll.key)

IInv ==
    /\ TypeOK /\ RunningOnce /\ Decided /\ BudgetKept /\ OneCommentPerPublication
    /\ OneUnfinishedPublication /\ IntentSound /\ LatestSound /\ Tracked /\ PlacedSound
    /\ PollTriages /\ PollResumes /\ PollWrites

\* The invariant by what its parts are about.
AttemptsKept ==
    /\ run_status \in {"none", "active", "completed", "failed", "ineligible"}
    /\ attempts \in [Revisions -> Seq(Attempt)]
    /\ artifacts \in [Revisions -> Routes \cup {NoRoute}]
    /\ agents \subseteq Revisions \X Nat
    /\ RunningOnce /\ Decided /\ BudgetKept
IntentsKept ==
    /\ intents \in [Keys -> Intent] /\ OneUnfinishedPublication /\ IntentSound
    /\ latest \in Keys \cup {NoKey} /\ LatestSound
CommentsKept ==
    /\ comments \in [Keys -> Nat] /\ OneCommentPerPublication
    /\ observations \subseteq Keys \X Routes
IssueKept ==
    /\ issue \in Issue /\ touched \in BOOLEAN
    /\ Tracked /\ PlacedSound
PollKept ==
    /\ poll \in Poll /\ todo \subseteq Keys
    /\ mode \in {"off", "preview", "automatic"}
    /\ disturbances \in 0..MaxDisturbances
    /\ PollTriages /\ PollResumes /\ PollWrites

USE TriageAssumption, NoKeyAssumption

----------------------------------------------------------------------------
(* Lemmas about keys, steps and projections *)

\* A publication is of a revision in a mode, or the diagnostic of the run.
LEMMA KeyIs ==
    ASSUME NEW k \in Keys
    PROVE  /\ k = Diagnostic \/ (k[1] \in {"preview", "automatic"} /\ k[2] \in Revisions)
           /\ Automatic(k) => k # Diagnostic /\ k[2] \in Revisions
           /\ Automatic(k) \in BOOLEAN
  BY DEF Keys, Diagnostic, Automatic

LEMMA KeyOf ==
    ASSUME NEW m \in {"preview", "automatic"}, NEW r \in Revisions
    PROVE  /\ <<m, r>> \in Keys /\ <<m, r>>[1] = m /\ <<m, r>>[2] = r
           /\ Automatic(<<m, r>>) <=> m = "automatic"
  BY DEF Keys, Automatic

LEMMA DiagnosticIs == Diagnostic \in Keys /\ ~Automatic(Diagnostic)
  BY DEF Keys, Diagnostic, Automatic

LEMMA StepsAre ==
    /\ Len(AutomaticSteps) = 7
    /\ AutomaticSteps[1] = "comment_pending" /\ AutomaticSteps[2] = "route_label"
    /\ AutomaticSteps[3] = "project_state" /\ AutomaticSteps[4] = "conflict_cleanup"
    /\ AutomaticSteps[5] = "comment_route_effects" /\ AutomaticSteps[6] = "intake_removed"
    /\ AutomaticSteps[7] = "comment_applied"
  BY DEF AutomaticSteps

\* The step of a publication by what it has done.
LEMMA StepIs ==
    ASSUME NEW k
    PROVE  /\ ~Automatic(k) => Step(k) = "comment"
           /\ Automatic(k) /\ intents[k].done = 0 => Step(k) = "comment_pending"
           /\ Automatic(k) /\ intents[k].done = 1 => Step(k) = "route_label"
           /\ Automatic(k) /\ intents[k].done = 2 => Step(k) = "project_state"
           /\ Automatic(k) /\ intents[k].done = 3 => Step(k) = "conflict_cleanup"
           /\ Automatic(k) /\ intents[k].done = 4 => Step(k) = "comment_route_effects"
           /\ Automatic(k) /\ intents[k].done = 5 => Step(k) = "intake_removed"
           /\ Automatic(k) /\ intents[k].done = 6 => Step(k) = "comment_applied"
  BY StepsAre DEF Step

\* Conversely, what is done by the step.
LEMMA DoneIs ==
    ASSUME NEW k, Automatic(k), intents[k].done \in 0..6
    PROVE  /\ intents[k].done = 0 <=> Step(k) = "comment_pending"
           /\ intents[k].done = 1 <=> Step(k) = "route_label"
           /\ intents[k].done = 2 <=> Step(k) = "project_state"
           /\ intents[k].done = 3 <=> Step(k) = "conflict_cleanup"
           /\ intents[k].done = 4 <=> Step(k) = "comment_route_effects"
           /\ intents[k].done = 5 <=> Step(k) = "intake_removed"
           /\ intents[k].done = 6 <=> Step(k) = "comment_applied"
  BY StepIs, intents[k].done = 0 \/ intents[k].done = 1 \/ intents[k].done = 2 \/ intents[k].done = 3
     \/ intents[k].done = 4 \/ intents[k].done = 5 \/ intents[k].done = 6

LEMMA ProjectionWith ==
    ASSUME NEW p \in Projection, NEW L, NEW c
    PROVE  /\ [p EXCEPT !.labels = L] = [labels |-> L, column |-> p.column]
           /\ [p EXCEPT !.column = c] = [labels |-> p.labels, column |-> c]
  BY DEF Projection

\* What a step is to make of the issue.
LEMMA DesiredIs ==
    ASSUME NEW k, intents[k].expected \in Projection
    PROVE  /\ Step(k) = "route_label" =>
                Desired(k) = [labels |-> intents[k].expected.labels \cup {RouteOf(k)},
                              column |-> intents[k].expected.column]
           /\ Step(k) = "project_state" =>
                Desired(k) = [labels |-> intents[k].expected.labels,
                              column |-> RouteColumn[RouteOf(k)]]
           /\ Step(k) = "conflict_cleanup" =>
                Desired(k) = [labels |-> intents[k].expected.labels \ (Routes \ {RouteOf(k)}),
                              column |-> intents[k].expected.column]
           /\ Step(k) = "intake_removed" =>
                Desired(k) = [labels |-> intents[k].expected.labels \ {Intake},
                              column |-> intents[k].expected.column]
           /\ Step(k) \notin MutationSteps => Desired(k) = intents[k].expected
<1>1. /\ [intents[k].expected EXCEPT !.labels = @ \cup {RouteOf(k)}]
           = [labels |-> intents[k].expected.labels \cup {RouteOf(k)},
              column |-> intents[k].expected.column]
      /\ [intents[k].expected EXCEPT !.column = RouteColumn[RouteOf(k)]]
           = [labels |-> intents[k].expected.labels, column |-> RouteColumn[RouteOf(k)]]
      /\ [intents[k].expected EXCEPT !.labels = @ \ (Routes \ {RouteOf(k)})]
           = [labels |-> intents[k].expected.labels \ (Routes \ {RouteOf(k)}),
              column |-> intents[k].expected.column]
      /\ [intents[k].expected EXCEPT !.labels = @ \ {Intake}]
           = [labels |-> intents[k].expected.labels \ {Intake},
              column |-> intents[k].expected.column]
  BY ProjectionWith
<1>2. CASE Step(k) = "route_label"
  BY <1>1, <1>2 DEF Desired, MutationSteps
<1>3. CASE Step(k) = "project_state"
  BY <1>1, <1>3 DEF Desired, MutationSteps
<1>4. CASE Step(k) = "conflict_cleanup"
  BY <1>1, <1>4 DEF Desired, MutationSteps
<1>5. CASE Step(k) = "intake_removed"
  BY <1>1, <1>5 DEF Desired, MutationSteps
<1>6. CASE Step(k) \notin MutationSteps
  BY <1>6 DEF Desired, MutationSteps
<1> QED
  BY <1>2, <1>3, <1>4, <1>5, <1>6 DEF MutationSteps

\* Which labels a step is to take off.
LEMMA RemovalIs ==
    ASSUME NEW k, intents[k].expected \in Projection
    PROVE  /\ Step(k) = "conflict_cleanup" =>
                ToRemove(k) = intents[k].expected.labels \cap (Routes \ {RouteOf(k)})
           /\ Step(k) = "intake_removed" => ToRemove(k) = intents[k].expected.labels \cap {Intake}
           /\ Step(k) \notin {"conflict_cleanup", "intake_removed"} => ToRemove(k) = {}
<1>1. CASE Step(k) = "route_label"
  BY <1>1, DesiredIs DEF ToRemove
<1>2. CASE Step(k) = "project_state"
  BY <1>2, DesiredIs DEF ToRemove
<1>3. CASE Step(k) = "conflict_cleanup"
  BY <1>3, DesiredIs DEF ToRemove
<1>4. CASE Step(k) = "intake_removed"
  BY <1>4, DesiredIs DEF ToRemove
<1>5. CASE Step(k) \notin MutationSteps
  <2>1. Desired(k) = intents[k].expected
    BY <1>5, DesiredIs
  <2> QED
    BY <1>5, <2>1 DEF ToRemove, MutationSteps
<1> QED
  BY <1>1, <1>2, <1>3, <1>4, <1>5 DEF MutationSteps

----------------------------------------------------------------------------
(* The parts of the invariant *)

LEMMA Facts ==
    ASSUME IInv
    PROVE  /\ AttemptsKept /\ IntentsKept /\ CommentsKept /\ IssueKept /\ PollKept
           /\ \A k \in Keys : /\ intents[k] \in Intent
                              /\ intents[k].expected \in Projection
                              /\ intents[k].done \in 0..7
           /\ \A r \in Revisions : /\ attempts[r] \in Seq(Attempt)
                                   /\ Len(attempts[r]) \in Nat
                                   /\ DOMAIN attempts[r] = 1..Len(attempts[r])
           /\ Observed \in Projection
<1>1. AttemptsKept
  BY DEF IInv, TypeOK, AttemptsKept
<1>2. IntentsKept
  BY DEF IInv, TypeOK, IntentsKept
<1>3. CommentsKept
  BY DEF IInv, TypeOK, CommentsKept
<1>4. IssueKept
  BY DEF IInv, TypeOK, IssueKept
<1>5. PollKept
  BY DEF IInv, TypeOK, PollKept
<1>6. ASSUME NEW k \in Keys
      PROVE  /\ intents[k] \in Intent /\ intents[k].expected \in Projection
             /\ intents[k].done \in 0..7
  <2>1. intents[k] \in Intent
    BY <1>2 DEF IntentsKept
  <2> QED
    BY <2>1, StepsAre DEF Intent
<1>7. ASSUME NEW r \in Revisions
      PROVE  /\ attempts[r] \in Seq(Attempt) /\ Len(attempts[r]) \in Nat
             /\ DOMAIN attempts[r] = 1..Len(attempts[r])
  <2>1. attempts[r] \in Seq(Attempt)
    BY <1>1 DEF AttemptsKept
  <2> QED
    BY <2>1
<1>8. Observed \in Projection
  BY <1>4 DEF IssueKept, Issue, Observed, Projection
<1> QED
  BY <1>1, <1>2, <1>3, <1>4, <1>5, <1>6, <1>7, <1>8

LEMMA Parts ==
    ASSUME AttemptsKept, IntentsKept, CommentsKept, IssueKept, PollKept
    PROVE  IInv
<1>1. placed \subseteq Labels
  BY DEF IssueKept, PlacedSound, Labels
<1>2. TypeOK
  BY <1>1 DEF TypeOK, AttemptsKept, IntentsKept, CommentsKept, IssueKept, PollKept
<1> QED
  BY <1>2 DEF IInv, AttemptsKept, IntentsKept, CommentsKept, IssueKept, PollKept

LEMMA StepKeeps ==
    ASSUME AttemptsKept', IntentsKept', CommentsKept', IssueKept', PollKept'
    PROVE  IInv'
<1>1. placed' \subseteq Labels
  BY DEF IssueKept, PlacedSound, Labels
<1>2. TypeOK'
  BY <1>1 DEF TypeOK, AttemptsKept, IntentsKept, CommentsKept, IssueKept, PollKept
<1> QED
  BY <1>2 DEF IInv, AttemptsKept, IntentsKept, CommentsKept, IssueKept, PollKept

----------------------------------------------------------------------------
(* The parts that a step leaves alone *)

LEMMA AttemptsStay ==
    ASSUME IInv, UNCHANGED <<run_status, attempts, artifacts>>, agents' \subseteq agents
    PROVE  AttemptsKept'
  BY Facts DEF AttemptsKept, RunningOnce, Running, Decided, BudgetKept

\* A publication whose progress and route stay is what it was.
ProgressStays(k) ==
    /\ intents'[k].status = intents[k].status /\ intents'[k].done = intents[k].done
    /\ intents'[k].baselined = intents[k].baselined
    /\ intents'[k].expected = intents[k].expected
    /\ artifacts'[k[2]] = artifacts[k[2]]

LEMMA ProgressSame ==
    ASSUME NEW k, ProgressStays(k)
    PROVE  /\ Projects(k)' = Projects(k) /\ Step(k)' = Step(k)
           /\ RouteOf(k)' = RouteOf(k) /\ Shows(k)' = Shows(k)
           /\ Desired(k)' = Desired(k) /\ ToRemove(k)' = ToRemove(k) /\ Stays(k)' = Stays(k)
<1>1. Projects(k)' = Projects(k)
  BY DEF Projects, Automatic, ProgressStays
<1>2. Step(k)' = Step(k)
  BY DEF Step, Automatic, ProgressStays
<1>3. RouteOf(k)' = RouteOf(k)
  BY DEF RouteOf, ProgressStays
<1>4. Shows(k)' = Shows(k)
  BY <1>3 DEF Shows, ProgressStays
<1>5. Desired(k)' = Desired(k)
  BY <1>2, <1>3 DEF Desired, ProgressStays
<1>6. ToRemove(k)' = ToRemove(k)
  BY <1>5 DEF ToRemove, ProgressStays
<1>7. Stays(k)' = Stays(k)
  BY <1>2, <1>3 DEF Stays, ProgressStays
<1> QED
  BY <1>1, <1>2, <1>3, <1>4, <1>5, <1>6, <1>7

LEMMA PublicationStays ==
    ASSUME NEW k, intents'[k] = intents[k], artifacts'[k[2]] = artifacts[k[2]]
    PROVE  /\ Projects(k)' = Projects(k) /\ Step(k)' = Step(k)
           /\ RouteOf(k)' = RouteOf(k) /\ Shows(k)' = Shows(k)
           /\ Desired(k)' = Desired(k) /\ ToRemove(k)' = ToRemove(k) /\ Stays(k)' = Stays(k)
<1>1. ProgressStays(k)
  BY DEF ProgressStays
<1> QED
  BY <1>1, ProgressSame

\* And as near to the issue, while that stays.
LEMMA NearSame ==
    ASSUME NEW k, ProgressStays(k), issue'.labels = issue.labels, issue'.column = issue.column
    PROVE  /\ Observed' = Observed /\ Ours(k)' = Ours(k) /\ Reached(k)' = Reached(k)
           /\ Near(k)' = Near(k)
<1>1. Observed' = Observed
  BY DEF Observed
<1>2. Ours(k)' = Ours(k)
  BY <1>1 DEF Ours, ProgressStays
<1>3. Reached(k)' = Reached(k)
  BY <1>1, ProgressSame DEF Reached
<1>4. \A l : Without(k, l)' = Without(k, l)
  BY DEF Without, ProgressStays
<1>5. Near(k)' = Near(k)
  BY <1>1, <1>2, <1>3, <1>4, ProgressSame DEF Near
<1> QED
  BY <1>1, <1>2, <1>3, <1>5

LEMMA NearStays ==
    ASSUME NEW k, intents'[k] = intents[k], artifacts'[k[2]] = artifacts[k[2]],
           issue'.labels = issue.labels, issue'.column = issue.column
    PROVE  /\ Observed' = Observed /\ Ours(k)' = Ours(k) /\ Reached(k)' = Reached(k)
           /\ Near(k)' = Near(k)
<1>1. ProgressStays(k)
  BY DEF ProgressStays
<1> QED
  BY <1>1, NearSame

\* Decisions that were made stay made.
DecisionsStay == \A r \in Revisions : artifacts[r] # NoRoute => artifacts'[r] = artifacts[r]

LEMMA IntentsStay ==
    ASSUME IInv, UNCHANGED <<intents, latest>>, DecisionsStay
    PROVE  IntentsKept' /\ Unfinished' = Unfinished
<1>1. intents' = intents /\ latest' = latest
  OBVIOUS
<1>2. ASSUME NEW k \in Keys, Automatic(k), intents[k].status # "none"
      PROVE  artifacts'[k[2]] = artifacts[k[2]] /\ artifacts'[k[2]] # NoRoute
  BY <1>2, KeyIs, Facts DEF DecisionsStay, IntentsKept, IntentSound
<1>3. ASSUME NEW k \in Keys
      PROVE  /\ Projects(k)' = Projects(k)
             /\ Projects(k) => Shows(k)'
  <2>1. Projects(k)' = Projects(k)
    BY <1>1 DEF Projects, Automatic
  <2>2. CASE Projects(k)
    <3>1. artifacts'[k[2]] = artifacts[k[2]]
      BY <1>2, <2>2 DEF Projects
    <3>2. Shows(k)
      BY <2>2, Facts DEF IntentsKept, IntentSound
    <3> QED
      BY <1>1, <2>1, <3>1, <3>2, PublicationStays
  <2> QED
    BY <2>1, <2>2
<1>4. IntentSound'
  <2>1. IntentSound
    BY Facts DEF IntentsKept
  <2>2. \A k \in Keys :
            /\ Automatic(k) /\ intents'[k].status # "none" => artifacts'[k[2]] # NoRoute
            /\ intents'[k].status = "pending" =>
                /\ intents'[k].done < Len(AutomaticSteps)
                /\ (~Automatic(k) \/ ~intents'[k].baselined) => intents'[k].done = 0
            /\ Projects(k)' => Shows(k)'
    BY <1>1, <1>2, <1>3, <2>1 DEF IntentSound
  <2> QED
    BY <2>2 DEF IntentSound, Automatic
<1>5. LatestSound'
  BY <1>1, KeyIs, Facts DEF LatestSound, DecisionsStay, IntentsKept, Automatic
<1>6. Unfinished' = Unfinished
  BY <1>1 DEF Unfinished
<1> QED
  BY <1>1, <1>4, <1>5, <1>6, Facts DEF IntentsKept, OneUnfinishedPublication

LEMMA CommentsStay == ASSUME IInv, UNCHANGED <<comments, observations>> PROVE CommentsKept'
  BY Facts DEF CommentsKept, OneCommentPerPublication

LEMMA IssueStays ==
    ASSUME IInv, UNCHANGED <<intents, latest, touched, placed>>, DecisionsStay,
           issue' \in Issue, issue'.labels = issue.labels, issue'.column = issue.column
    PROVE  IssueKept'
<1>1. intents' = intents /\ latest' = latest /\ touched' = touched /\ placed' = placed
  OBVIOUS
<1>2. ASSUME NEW k \in Keys, Projects(k)
      PROVE  /\ RouteOf(k)' = RouteOf(k) /\ Near(k)' = Near(k)
  <2>1. artifacts'[k[2]] = artifacts[k[2]]
    BY <1>2, KeyIs, Facts DEF DecisionsStay, IntentsKept, IntentSound, Projects
  <2> QED
    BY <1>1, <2>1, PublicationStays, NearStays
<1>3. ASSUME NEW k \in Keys
      PROVE  Projects(k)' = Projects(k)
  BY <1>1 DEF Projects, Automatic
<1>4. Tracked'
  BY <1>1, <1>2, <1>3, Facts DEF IssueKept, Tracked
<1>5. latest \in Keys => RouteOf(latest)' = RouteOf(latest)
  BY <1>1, KeyIs, Facts DEF RouteOf, DecisionsStay, IntentsKept, LatestSound
<1>6. PlacedSound'
  <2>1. PlacedSound
    BY Facts DEF IssueKept
  <2>2. ASSUME NEW k \in Keys, Projects(k)'
        PROVE  placed' \cap issue'.labels \subseteq intents'[k].expected.labels \cup {RouteOf(k)'}
    BY <1>1, <1>2, <1>3, <2>1, <2>2 DEF PlacedSound
  <2>3. ASSUME \A k \in Keys : intents'[k].status # "conflict" /\ ~Projects(k)',
               NEW l \in placed' \cap issue'.labels
        PROVE  latest' \in Keys /\ l = RouteOf(latest)'
    <3>1. \A k \in Keys : intents[k].status # "conflict" /\ ~Projects(k)
      BY <1>1, <1>3, <2>3
    <3>2. latest \in Keys /\ l = RouteOf(latest)
      BY <1>1, <2>1, <2>3, <3>1 DEF PlacedSound
    <3> QED
      BY <1>1, <1>5, <3>2
  <2> QED
    BY <1>1, <2>1, <2>2, <2>3 DEF PlacedSound
<1> QED
  BY <1>1, <1>4, <1>6, Facts DEF IssueKept

----------------------------------------------------------------------------
(* The poll *)

LEMMA IdleIs ==
    /\ Idle \in Poll /\ Idle.at = "idle" /\ Idle.label = NoKey
    /\ \A p \in Places : /\ [Idle EXCEPT !.at = p] \in Poll
                         /\ [Idle EXCEPT !.at = p].at = p
                         /\ [Idle EXCEPT !.at = p].label = NoKey
  BY DEF Idle, Poll, Places

\* A poll that publishes nothing is at no step.
LEMMA PollElsewhere ==
    ASSUME IInv, poll' \in Poll, poll'.at \notin Publishing, poll'.label = NoKey,
           todo' \subseteq Keys, mode' \in {"off", "preview", "automatic"},
           disturbances' \in 0..MaxDisturbances, PollTriages',
           poll'.at \in Clear => Unfinished' = {},
           poll'.at = "pending" => Unfinished' \subseteq todo'
    PROVE  PollKept'
<1>1. PollResumes'
  BY DEF PollResumes
<1>2. PollWrites'
  BY DEF PollWrites, WritesAt, Publishing, Writing
<1> QED
  BY <1>1, <1>2 DEF PollKept

\* A poll that is between polls knows nothing.
LEMMA PollRests ==
    ASSUME IInv, poll' = Idle, todo' \subseteq Keys,
           mode' \in {"off", "preview", "automatic"}, disturbances' \in 0..MaxDisturbances
    PROVE  PollKept'
<1>1. poll' \in Poll /\ poll'.at = "idle" /\ poll'.label = NoKey
  BY IdleIs
<1>2. PollTriages'
  BY <1>1 DEF PollTriages
<1>3. poll'.at \notin Publishing /\ poll'.at \notin Clear
  BY <1>1 DEF Publishing, Clear
<1> QED
  BY <1>1, <1>2, <1>3, PollElsewhere

\* A poll at work on a publication triages nothing.
LEMMA PollPublishes ==
    ASSUME IInv, poll' \in Poll, poll'.at \in Publishing, UNCHANGED <<mode, disturbances>>,
           todo' \subseteq Keys, PollResumes', PollWrites'
    PROVE  PollKept'
<1>1. PollTriages'
  BY DEF PollTriages, Publishing
<1> QED
  BY <1>1, Facts DEF PollKept

\* A step of the poll alone.
LEMMA RestStays ==
    ASSUME IInv, UNCHANGED <<artifacts, intents, latest, comments, observations, issue, ghost_vars>>
    PROVE  IntentsKept' /\ CommentsKept' /\ IssueKept' /\ Unfinished' = Unfinished
<1>1. /\ artifacts' = artifacts /\ intents' = intents /\ latest' = latest
      /\ comments' = comments /\ observations' = observations /\ issue' = issue
      /\ touched' = touched /\ placed' = placed
  BY DEF ghost_vars
<1>2. DecisionsStay
  BY <1>1 DEF DecisionsStay
<1>3. issue' \in Issue
  BY <1>1, Facts DEF IssueKept
<1> QED
  BY <1>1, <1>2, <1>3, IntentsStay, CommentsStay, IssueStays

LEMMA WorldStays ==
    ASSUME IInv, UNCHANGED <<store_vars, comments, issue, ghost_vars>>, agents' \subseteq agents
    PROVE  /\ AttemptsKept' /\ IntentsKept' /\ CommentsKept' /\ IssueKept'
           /\ Unfinished' = Unfinished /\ artifacts' = artifacts /\ attempts' = attempts
           /\ intents' = intents
<1>1. /\ run_status' = run_status /\ attempts' = attempts /\ artifacts' = artifacts
      /\ intents' = intents /\ latest' = latest /\ observations' = observations
  BY DEF store_vars
<1>2. AttemptsKept'
  BY <1>1, AttemptsStay
<1> QED
  BY <1>1, <1>2, RestStays

\* Attempts end, and none begins.
LEMMA AttemptsWritten ==
    ASSUME IInv, UNCHANGED artifacts, agents' \subseteq Revisions \X Nat,
           run_status' \in {"none", "active", "completed", "failed", "ineligible"},
           attempts' \in [Revisions -> Seq(Attempt)],
           \A r \in Revisions : Len(attempts'[r]) = Len(attempts[r]),
           \A r \in Revisions : \A n \in DOMAIN attempts[r] :
               /\ attempts'[r][n].status = "running" => attempts[r][n].status = "running"
               /\ attempts'[r][n].status = "completed" <=> attempts[r][n].status = "completed"
    PROVE  AttemptsKept'
<1>1. ASSUME NEW r \in Revisions
      PROVE  DOMAIN attempts'[r] = DOMAIN attempts[r]
  BY Facts
<1>2. RunningOnce'
  <2>1. RunningOnce
    BY Facts DEF AttemptsKept
  <2>2. \A r \in Revisions : Running(r)' \subseteq Running(r)
    BY <1>1 DEF Running
  <2> QED
    BY <2>1, <2>2 DEF RunningOnce
<1>3. Decided'
  <2>1. Decided
    BY Facts DEF AttemptsKept
  <2>2. \A r \in Revisions : \A n \in DOMAIN attempts[r] :
            attempts'[r][n].status = "completed" <=> attempts[r][n].status = "completed"
    OBVIOUS
  <2>3. artifacts' = artifacts
    OBVIOUS
  <2>4. ASSUME NEW r \in Revisions
        PROVE  (\E n \in DOMAIN attempts'[r] : attempts'[r][n].status = "completed")
                   <=> \E n \in DOMAIN attempts[r] : attempts[r][n].status = "completed"
    <3>1. \A n \in DOMAIN attempts[r] :
              attempts'[r][n].status = "completed" <=> attempts[r][n].status = "completed"
      BY <2>2
    <3>2. DOMAIN attempts'[r] = DOMAIN attempts[r]
      BY <1>1
    <3> QED
      BY <3>1, <3>2, Zenon
  <2>5. ASSUME NEW r \in Revisions
        PROVE  (artifacts'[r] # NoRoute) <=>
                   \E n \in DOMAIN attempts'[r] : attempts'[r][n].status = "completed"
    <3>1. (artifacts[r] # NoRoute) <=>
              \E n \in DOMAIN attempts[r] : attempts[r][n].status = "completed"
      BY <2>1, Zenon DEF Decided
    <3>2. artifacts'[r] = artifacts[r]
      BY <2>3, Zenon
    <3> QED
      BY <2>4, <3>1, <3>2, Zenon
  <2> QED
    BY <2>5 DEF Decided
<1>4. BudgetKept'
  BY Facts DEF AttemptsKept, BudgetKept
<1> QED
  BY <1>2, <1>3, <1>4, Facts DEF AttemptsKept

LEMMA RowIs ==
    ASSUME NEW S, NEW m \in Nat, NEW f \in [1..m -> S]
    PROVE  f \in Seq(S) /\ Len(f) = m /\ DOMAIN f = 1..m
  OBVIOUS

\* A row of attempts is replaced.
LEMMA AttemptPut ==
    ASSUME NEW s \in Seq(Attempt), NEW n \in 1..Len(s), NEW x \in Attempt
    PROVE  /\ [s EXCEPT ![n] = x] \in Seq(Attempt) /\ Len([s EXCEPT ![n] = x]) = Len(s)
           /\ [s EXCEPT ![n] = x][n] = x
           /\ \A m \in 1..Len(s) : m # n => [s EXCEPT ![n] = x][m] = s[m]
  OBVIOUS

LEMMA Kept ==
    ASSUME NEW a \in Attempt
    PROVE  /\ a.status \in {"running", "completed", "failed", "interrupted"}
           /\ a.stale \in BOOLEAN /\ a.recorded \in BOOLEAN
           /\ \A t \in {"running", "completed", "failed", "interrupted"} :
                [a EXCEPT !.status = t] \in Attempt /\ [a EXCEPT !.status = t].status = t
           /\ \A b \in BOOLEAN :
                /\ [a EXCEPT !.stale = b] \in Attempt /\ [a EXCEPT !.stale = b].status = a.status
                /\ [a EXCEPT !.recorded = b] \in Attempt
                /\ [a EXCEPT !.recorded = b].status = a.status
  BY DEF Attempt

----------------------------------------------------------------------------
(* Recovery, resumed publications, corrections *)

LEMMA PollStartsKeeps == ASSUME IInv, PollStarts PROVE IInv'
<1>1. /\ attempts' = Interrupted /\ poll.at = "idle" /\ poll' = [poll EXCEPT !.at = "recover"]
      /\ UNCHANGED <<run_status, artifacts, intents, latest, observations, issue,
                     comments, agents, todo, mode, disturbances, ghost_vars>>
  BY DEF PollStarts, Goto
<1>2. ASSUME NEW r \in Revisions
      PROVE  /\ attempts'[r] \in Seq(Attempt) /\ Len(attempts'[r]) = Len(attempts[r])
             /\ \A n \in DOMAIN attempts[r] :
                  /\ attempts'[r][n].status = "running" => attempts[r][n].status = "running"
                  /\ attempts'[r][n].status = "completed" <=> attempts[r][n].status = "completed"
  <2> DEFINE x(n) == IF attempts[r][n].status = "running" /\ attempts[r][n].stale
                     THEN [attempts[r][n] EXCEPT !.status = "interrupted"] ELSE attempts[r][n]
  <2>1. attempts'[r] = [n \in 1..Len(attempts[r]) |-> x(n)]
    BY <1>1, Facts DEF Interrupted
  <2>2. ASSUME NEW n \in 1..Len(attempts[r])
        PROVE  /\ x(n) \in Attempt
               /\ x(n).status = "running" => attempts[r][n].status = "running"
               /\ x(n).status = "completed" <=> attempts[r][n].status = "completed"
    <3>1. attempts[r][n] \in Attempt
      BY Facts
    <3> QED
      BY <3>1, Kept
  <2> HIDE DEF x
  <2>3. attempts'[r] \in [1..Len(attempts[r]) -> Attempt]
    BY <2>1, <2>2
  <2> QED
    BY <2>1, <2>2, <2>3, Facts, RowIs
<1>3. attempts' \in [Revisions -> Seq(Attempt)]
  <2>1. attempts' = [r \in Revisions |-> attempts'[r]]
    BY <1>1 DEF Interrupted
  <2> QED
    BY <1>2, <2>1
<1>4. AttemptsKept'
  BY <1>1, <1>2, <1>3, Facts, AttemptsWritten DEF AttemptsKept
<1>5. IntentsKept' /\ CommentsKept' /\ IssueKept' /\ Unfinished' = Unfinished
  BY <1>1, RestStays
<1>6. poll' \in Poll /\ poll'.at = "recover" /\ poll'.label = NoKey
  BY <1>1, Facts DEF PollKept, PollWrites, WritesAt, Poll, Places
<1>7. PollKept'
  <2>1. PollTriages'
    BY <1>6 DEF PollTriages
  <2>2. poll'.at \notin Publishing /\ poll'.at \notin Clear
    BY <1>6 DEF Publishing, Clear
  <2> QED
    BY <1>1, <1>6, <2>1, <2>2, Facts, PollElsewhere DEF PollKept
<1> QED
  BY <1>4, <1>5, <1>7, StepKeeps

LEMMA RecoverInterruptedKeeps == ASSUME IInv, RecoverInterrupted PROVE IInv'
<1>1. PICK reclaimed \in SUBSET Recoverable :
          /\ agents' = agents \ reclaimed
          /\ attempts' = [r \in Revisions |-> [n \in DOMAIN attempts[r] |->
                 [attempts[r][n] EXCEPT !.recorded = @ /\ <<r, n>> \notin reclaimed]]]
  BY DEF RecoverInterrupted
<1>2. /\ todo' = PendingIntents /\ poll' = [poll EXCEPT !.at = "pending"] /\ poll.at = "recover"
      /\ UNCHANGED <<run_status, artifacts, intents, latest, observations, issue,
                     comments, mode, disturbances, ghost_vars>>
  BY DEF RecoverInterrupted, Goto
<1>3. ASSUME NEW r \in Revisions
      PROVE  /\ attempts'[r] \in Seq(Attempt) /\ Len(attempts'[r]) = Len(attempts[r])
             /\ \A n \in DOMAIN attempts[r] :
                  /\ attempts'[r][n].status = "running" => attempts[r][n].status = "running"
                  /\ attempts'[r][n].status = "completed" <=> attempts[r][n].status = "completed"
  <2> DEFINE x(n) == [attempts[r][n] EXCEPT !.recorded = @ /\ <<r, n>> \notin reclaimed]
  <2>1. attempts'[r] = [n \in 1..Len(attempts[r]) |-> x(n)]
    BY <1>1, Facts
  <2>2. ASSUME NEW n \in 1..Len(attempts[r])
        PROVE  x(n) \in Attempt /\ x(n).status = attempts[r][n].status
    <3>1. attempts[r][n] \in Attempt
      BY Facts
    <3> QED
      BY <3>1 DEF Attempt
  <2> HIDE DEF x
  <2>3. attempts'[r] \in [1..Len(attempts[r]) -> Attempt]
    BY <2>1, <2>2
  <2> QED
    BY <2>1, <2>2, <2>3, Facts, RowIs
<1>4. attempts' \in [Revisions -> Seq(Attempt)]
  <2>1. attempts' = [r \in Revisions |-> attempts'[r]]
    BY <1>1
  <2> QED
    BY <1>3, <2>1
<1>5. AttemptsKept'
  BY <1>1, <1>2, <1>3, <1>4, Facts, AttemptsWritten DEF AttemptsKept
<1>6. IntentsKept' /\ CommentsKept' /\ IssueKept' /\ Unfinished' = Unfinished
  BY <1>2, RestStays
<1>7. poll' \in Poll /\ poll'.at = "pending" /\ poll'.label = NoKey
  BY <1>2, Facts DEF PollKept, PollWrites, WritesAt, Poll, Places
<1>8. PollKept'
  <2>1. PollTriages'
    BY <1>7 DEF PollTriages
  <2>2. poll'.at \notin Publishing /\ poll'.at \notin Clear
    BY <1>7 DEF Publishing, Clear
  <2>3. todo' \subseteq Keys /\ Unfinished' \subseteq todo'
    BY <1>2, <1>6 DEF PendingIntents, Unfinished
  <2> QED
    BY <1>2, <1>7, <2>1, <2>2, <2>3, Facts, PollElsewhere DEF PollKept
<1> QED
  BY <1>5, <1>6, <1>8, StepKeeps

LEMMA ResumePublicationKeeps == ASSUME IInv, ResumePublication PROVE IInv'
<1>1. /\ poll.at = "pending"
      /\ UNCHANGED <<store_vars, issue, comments, agents, mode, disturbances, ghost_vars>>
  BY DEF ResumePublication
<1>2. PICK k \in todo : /\ poll' = [Idle EXCEPT !.at = "publish", !.key = k, !.then = "pending"]
                        /\ todo' = todo \ {k}
  BY DEF ResumePublication
<1>3. k \in Keys
  BY <1>2, Facts DEF PollKept
<1>4. /\ poll' \in Poll /\ poll'.at = "publish" /\ poll'.key = k /\ poll'.then = "pending"
      /\ poll'.label = NoKey
  BY <1>2, <1>3 DEF Idle, Poll, Places
<1>5. AttemptsKept' /\ IntentsKept' /\ CommentsKept' /\ IssueKept' /\ Unfinished' = Unfinished
  BY <1>1, WorldStays
<1>6. PollResumes'
  <2>1. Unfinished \subseteq todo
    BY <1>1, Facts DEF PollKept, PollResumes
  <2> QED
    BY <1>2, <1>3, <1>4, <1>5, <2>1 DEF PollResumes, Clear, Publishing
<1>7. PollWrites'
  BY <1>4 DEF PollWrites, WritesAt, Writing, Publishing
<1>8. PollKept'
  BY <1>1, <1>2, <1>4, <1>6, <1>7, Facts, PollPublishes DEF PollKept, Publishing
<1> QED
  BY <1>5, <1>8, StepKeeps

LEMMA PendingDoneKeeps == ASSUME IInv, PendingDone PROVE IInv'
<1>1. /\ poll.at = "pending" /\ todo = {} /\ poll' = [poll EXCEPT !.at = "corrections"]
      /\ UNCHANGED <<store_vars, issue, comments, agents, todo, mode, disturbances, ghost_vars>>
  BY DEF PendingDone, Goto
<1>2. AttemptsKept' /\ IntentsKept' /\ CommentsKept' /\ IssueKept' /\ Unfinished' = Unfinished
  BY <1>1, WorldStays
<1>3. poll' \in Poll /\ poll'.at = "corrections" /\ poll'.label = NoKey
  BY <1>1, Facts DEF PollKept, PollWrites, WritesAt, Poll, Places
<1>4. Unfinished' = {}
  BY <1>1, <1>2, Facts DEF PollKept, PollResumes
<1>5. PollTriages'
  BY <1>3 DEF PollTriages
<1>6. PollKept'
  BY <1>1, <1>3, <1>4, <1>5, Facts, PollElsewhere DEF PollKept, Publishing
<1> QED
  BY <1>2, <1>6, StepKeeps

LEMMA MeasureCorrectionsKeeps == ASSUME IInv, MeasureCorrections PROVE IInv'
<1>1. /\ poll.at = "corrections"
      /\ UNCHANGED <<run_status, attempts, artifacts, intents, latest, issue,
                     comments, agents, todo, mode, disturbances, ghost_vars>>
      /\ \/ observations' = observations
         \/ observations' = observations \cup UNION {{k} \X CorrectedTo(k) : k \in Candidates}
      /\ \/ mode = "off" /\ poll' = [Idle EXCEPT !.at = "idle"]
         \/ mode # "off" /\ poll' = [poll EXCEPT !.at = "intake"]
  BY DEF MeasureCorrections, Goto, Return
<1>2. AttemptsKept'
  BY <1>1, AttemptsStay
<1>3. DecisionsStay /\ issue' \in Issue
  BY <1>1, Facts DEF DecisionsStay, IssueKept
<1>4. IntentsKept' /\ IssueKept' /\ Unfinished' = Unfinished
  BY <1>1, <1>3, IntentsStay, IssueStays DEF ghost_vars
<1>5. CommentsKept'
  <2>1. UNION {{k} \X CorrectedTo(k) : k \in Candidates} \subseteq Keys \X Routes
    BY DEF Candidates, CorrectedTo
  <2>2. observations' \subseteq Keys \X Routes
    BY <1>1, <2>1, Facts DEF CommentsKept
  <2> QED
    BY <1>1, <2>2, Facts DEF CommentsKept, OneCommentPerPublication
<1>6. PollKept'
  <2>1. /\ poll' \in Poll /\ poll'.label = NoKey /\ poll'.at \in {"idle", "intake"}
        /\ poll'.at = "intake" => mode # "off"
    BY <1>1, IdleIs, Facts DEF PollKept, PollWrites, WritesAt, Poll, Places
  <2>2. Unfinished' = {}
    BY <1>1, <1>4, Facts DEF PollKept, PollResumes, Clear
  <2>3. PollTriages'
    BY <1>1, <2>1 DEF PollTriages
  <2> QED
    BY <1>1, <2>1, <2>2, <2>3, Facts, PollElsewhere DEF PollKept, Publishing
<1> QED
  BY <1>2, <1>4, <1>5, <1>6, StepKeeps

----------------------------------------------------------------------------
(* The issue in the intake *)

LEMMA FetchIntakeKeeps == ASSUME IInv, FetchIntake PROVE IInv'
<1>1. /\ poll.at = "intake"
      /\ UNCHANGED <<attempts, artifacts, intents, latest, observations, issue,
                     comments, agents, todo, mode, disturbances, ghost_vars>>
      /\ \/ poll' = [Idle EXCEPT !.at = "idle"] /\ run_status' = run_status
         \/ run_status' = "ineligible" /\ poll' = [poll EXCEPT !.at = "ensure", !.key = Diagnostic]
         \/ run_status' = run_status /\ poll' = [poll EXCEPT !.at = "issue", !.rev = issue.text]
  BY DEF FetchIntake, Return
<1>2. AttemptsKept'
  BY <1>1, Facts, AttemptsWritten DEF AttemptsKept
<1>3. IntentsKept' /\ CommentsKept' /\ IssueKept' /\ Unfinished' = Unfinished
  BY <1>1, RestStays
<1>4. PollKept'
  <2>1. /\ poll' \in Poll /\ poll'.label = NoKey /\ poll'.at \in {"idle", "ensure", "issue"}
        /\ poll'.at = "ensure" => poll'.key = Diagnostic
        /\ poll'.at = "issue" => poll'.rev \in Revisions
    <3>1. issue.text \in Revisions
      BY Facts DEF IssueKept, Issue
    <3>2. poll \in Poll /\ poll.label = NoKey
      BY <1>1, Facts DEF PollKept, PollWrites, WritesAt
    <3>3. CASE poll' = [Idle EXCEPT !.at = "idle"]
      BY <3>3, IdleIs DEF Places
    <3>4. CASE poll' = [poll EXCEPT !.at = "ensure", !.key = Diagnostic]
      BY <3>2, <3>4, DiagnosticIs DEF Poll, Places
    <3>5. CASE poll' = [poll EXCEPT !.at = "issue", !.rev = issue.text]
      BY <3>1, <3>2, <3>5 DEF Poll, Places
    <3> QED
      BY <1>1, <3>3, <3>4, <3>5
  <2>2. Unfinished' = {} /\ mode' # "off"
    BY <1>1, <1>3, Facts DEF PollKept, PollResumes, PollTriages, Clear
  <2>3. PollTriages'
    BY <2>1, <2>2, DiagnosticIs DEF PollTriages, Automatic
  <2> QED
    BY <1>1, <2>1, <2>2, <2>3, Facts, PollElsewhere DEF PollKept, Publishing
<1> QED
  BY <1>2, <1>3, <1>4, StepKeeps

\* A poll that publishes the artifact of its revision.
LEMMA PollEnsures ==
    ASSUME IInv, mode \in {"preview", "automatic"}, poll.rev \in Revisions, poll.label = NoKey,
           poll' = [poll EXCEPT !.at = "ensure", !.key = <<mode, poll.rev>>],
           artifacts'[poll.rev] # NoRoute, Unfinished' = {},
           UNCHANGED <<todo, mode, disturbances>>
    PROVE  PollKept'
<1>1. <<mode, poll.rev>> \in Keys /\ <<mode, poll.rev>>[2] = poll.rev
  BY KeyOf
<1>2. /\ poll' \in Poll /\ poll'.label = NoKey /\ poll'.at = "ensure"
      /\ poll'.key = <<mode, poll.rev>>
  BY <1>1, Facts DEF PollKept, Poll, Places
<1>3. PollTriages'
  BY <1>1, <1>2 DEF PollTriages, Automatic
<1> QED
  BY <1>2, <1>3, Facts, PollElsewhere DEF PollKept, Publishing

LEMMA HasArtifactKeeps == ASSUME IInv, HasArtifact PROVE IInv'
<1>1. /\ poll.at = "issue" /\ artifacts[poll.rev] # NoRoute
      /\ poll' = [poll EXCEPT !.at = "ensure", !.key = <<mode, poll.rev>>]
      /\ UNCHANGED <<store_vars, issue, comments, agents, todo, mode, disturbances, ghost_vars>>
  BY DEF HasArtifact
<1>2. /\ AttemptsKept' /\ IntentsKept' /\ CommentsKept' /\ IssueKept' /\ Unfinished' = Unfinished
      /\ artifacts' = artifacts
  BY <1>1, WorldStays
<1>3. /\ mode \in {"preview", "automatic"} /\ poll.rev \in Revisions /\ poll.label = NoKey
      /\ Unfinished = {}
  BY <1>1, Facts DEF PollKept, PollTriages, PollResumes, PollWrites, WritesAt, Clear
<1>4. PollKept'
  BY <1>1, <1>2, <1>3, PollEnsures
<1> QED
  BY <1>2, <1>4, StepKeeps

LEMMA SkipIssueKeeps == ASSUME IInv, SkipIssue PROVE IInv'
<1>1. /\ poll' = [Idle EXCEPT !.at = "idle"]
      /\ UNCHANGED <<store_vars, issue, comments, agents, todo, mode, disturbances, ghost_vars>>
  BY DEF SkipIssue, Return
<1>2. AttemptsKept' /\ IntentsKept' /\ CommentsKept' /\ IssueKept'
  BY <1>1, WorldStays
<1>3. poll' = Idle
  BY <1>1 DEF Idle
<1>4. PollKept'
  BY <1>1, <1>3, Facts, PollRests DEF PollKept
<1> QED
  BY <1>2, <1>4, StepKeeps

LEMMA ClaimKeeps == ASSUME IInv, Claim PROVE IInv'
<1> DEFINE r == poll.rev
           x == [status |-> "running", stale |-> FALSE, recorded |-> FALSE]
           s == Append(attempts[r], x)
<1>1. /\ poll.at = "issue" /\ artifacts[r] = NoRoute /\ Running(r) = {}
      /\ Len(attempts[r]) < MaxAttempts
      /\ run_status' = "active" /\ attempts' = [attempts EXCEPT ![r] = s]
      /\ poll' = [poll EXCEPT !.at = "turn"]
      /\ UNCHANGED <<artifacts, intents, latest, observations, issue, comments,
                     agents, todo, mode, disturbances, ghost_vars>>
  BY DEF Claim, ClaimAttempt, MayClaim, Goto
<1>2. r \in Revisions
  BY <1>1, Facts DEF PollKept, PollTriages
<1>3. /\ x \in Attempt /\ x.status = "running"
  BY DEF Attempt
<1> HIDE DEF x
<1>4. /\ s \in Seq(Attempt) /\ Len(s) = Len(attempts[r]) + 1 /\ DOMAIN s = 1..(Len(attempts[r]) + 1)
      /\ \A n \in 1..Len(attempts[r]) : s[n] = attempts[r][n]
      /\ s[Len(attempts[r]) + 1] = x /\ Len(attempts[r]) \in Nat
      /\ DOMAIN attempts[r] = 1..Len(attempts[r])
  BY <1>2, <1>3, Facts
<1> HIDE DEF s, r
<1>5. /\ attempts' \in [Revisions -> Seq(Attempt)] /\ attempts'[r] = s
      /\ \A q \in Revisions : q # r => attempts'[q] = attempts[q]
  BY <1>1, <1>2, <1>4, Facts DEF AttemptsKept
<1>6. RunningOnce'
  <2>1. ASSUME NEW n \in DOMAIN s, s[n].status = "running"
        PROVE  n = Len(attempts[r]) + 1
    BY <1>1, <1>4, <2>1 DEF Running
  <2>2. ASSUME NEW q \in Revisions, NEW m \in Running(q)', NEW n \in Running(q)'
        PROVE  m = n
    <3>1. CASE q = r
      BY <1>5, <2>1, <2>2, <3>1 DEF Running
    <3>2. CASE q # r
      BY <1>5, <2>2, <3>2, Facts DEF Running, AttemptsKept, RunningOnce
    <3> QED
      BY <3>1, <3>2
  <2> QED
    BY <2>2 DEF RunningOnce
<1>7. Decided'
  <2>1. Decided /\ artifacts' = artifacts
    BY <1>1, Facts DEF AttemptsKept
  <2>2. ~\E n \in DOMAIN s : s[n].status = "completed"
    BY <1>1, <1>2, <1>3, <1>4, <2>1 DEF Decided
  <2>3. ASSUME NEW q \in Revisions
        PROVE  (artifacts'[q] # NoRoute) <=>
                   \E n \in DOMAIN attempts'[q] : attempts'[q][n].status = "completed"
    <3>1. CASE q = r
      BY <1>1, <1>5, <2>1, <2>2, <3>1
    <3>2. CASE q # r
      BY <1>5, <2>1, <3>2 DEF Decided
    <3> QED
      BY <3>1, <3>2
  <2> QED
    BY <2>3 DEF Decided
<1>8. BudgetKept'
  BY <1>1, <1>4, <1>5, Facts DEF AttemptsKept, BudgetKept
<1>9. AttemptsKept'
  BY <1>1, <1>5, <1>6, <1>7, <1>8, Facts DEF AttemptsKept
<1>10. IntentsKept' /\ CommentsKept' /\ IssueKept' /\ Unfinished' = Unfinished
  BY <1>1, RestStays
<1>11. PollKept'
  <2>1. poll' \in Poll /\ poll'.at = "turn" /\ poll'.label = NoKey /\ poll'.rev = r
    BY <1>1, Facts DEF PollKept, PollWrites, WritesAt, Poll, Places, r
  <2>2. Unfinished' = {} /\ mode' # "off"
    BY <1>1, <1>10, Facts DEF PollKept, PollResumes, PollTriages, Clear
  <2>3. s # <<>> /\ s[Len(s)].status = "running"
    BY <1>3, <1>4
  <2>4. PollTriages'
    BY <1>1, <1>2, <1>5, <2>1, <2>2, <2>3 DEF PollTriages
  <2> QED
    BY <1>1, <2>1, <2>2, <2>4, Facts, PollElsewhere DEF PollKept, Publishing
<1> QED
  BY <1>9, <1>10, <1>11, StepKeeps

\* A poll that stays where it is knows what it knew, as long as what it knew
\* stays, or is seen to have been touched.
WorldSame ==
    /\ placed' \cap issue'.labels \subseteq placed \cap issue.labels
    /\ touched' \/ (touched' = touched /\ issue'.labels = issue.labels /\ issue'.column = issue.column)

LEMMA WritesStay ==
    ASSUME NEW k, WritesAt(k), poll' = poll, WorldSame,
           intents'[k] = intents[k], artifacts'[k[2]] = artifacts[k[2]]
    PROVE  WritesAt(k)'
<1>1. /\ Step(k)' = Step(k) /\ ToRemove(k)' = ToRemove(k) /\ Stays(k)' = Stays(k)
  BY PublicationStays
<1>2. Automatic(k)' = Automatic(k)
  BY DEF Automatic
<1>3. placed' \cap issue'.labels \subseteq placed \cap issue.labels
  BY DEF WorldSame
<1>4. CASE touched'
  BY <1>1, <1>2, <1>3, <1>4 DEF WritesAt
<1>5. CASE touched' = touched /\ issue'.labels = issue.labels /\ issue'.column = issue.column
  <2>1. Observed' = Observed /\ Ours(k)' = Ours(k) /\ Reached(k)' = Reached(k)
    BY <1>5, NearStays
  <2>2. Without(k, poll.label)' = Without(k, poll.label)
    BY DEF Without
  <2> QED
    BY <1>1, <1>2, <1>3, <1>5, <2>1, <2>2 DEF WritesAt
<1> QED
  BY <1>4, <1>5 DEF WorldSame

LEMMA PollStays ==
    ASSUME IInv, UNCHANGED <<poll, todo, mode, intents, artifacts>>, WorldSame,
           disturbances' \in 0..MaxDisturbances,
           poll.at \in {"turn", "decided"} =>
               /\ attempts'[poll.rev] # <<>>
               /\ attempts'[poll.rev][Len(attempts'[poll.rev])].status = "running"
    PROVE  PollKept'
<1>1. /\ poll' = poll /\ todo' = todo /\ mode' = mode /\ intents' = intents
      /\ artifacts' = artifacts
  OBVIOUS
<1>2. PollTriages'
  BY <1>1, Facts DEF PollKept, PollTriages, Automatic
<1>3. PollResumes'
  BY <1>1, Facts DEF PollKept, PollResumes, Unfinished
<1>4. WritesAt(poll.key)
  BY Facts DEF PollKept, PollWrites
<1>5. PollWrites'
  BY <1>1, <1>4, WritesStay DEF PollWrites
<1> QED
  BY <1>1, <1>2, <1>3, <1>5, Facts DEF PollKept

LEMMA WorldIsSame == ASSUME UNCHANGED <<issue, ghost_vars>> PROVE WorldSame
  BY DEF WorldSame, ghost_vars

LEMMA SpawnAgentKeeps == ASSUME IInv, SpawnAgent PROVE IInv'
<1>1. /\ poll.at = "turn" /\ agents' = agents \cup {Current}
      /\ UNCHANGED <<store_vars, issue, comments, poll_vars, mode, disturbances, ghost_vars>>
  BY DEF SpawnAgent
<1>2. /\ run_status' = run_status /\ attempts' = attempts /\ artifacts' = artifacts
      /\ intents' = intents /\ latest' = latest /\ observations' = observations
      /\ poll' = poll /\ todo' = todo
  BY <1>1 DEF store_vars, poll_vars
<1>3. Current \in Revisions \X Nat
  <2>1. poll.rev \in Revisions
    BY <1>1, Facts DEF PollKept, PollTriages
  <2> QED
    BY <2>1, Facts DEF Current
<1>4. AttemptsKept'
  BY <1>1, <1>2, <1>3, Facts, AttemptsWritten DEF AttemptsKept
<1>5. IntentsKept' /\ CommentsKept' /\ IssueKept'
  BY <1>1, <1>2, RestStays
<1>6. PollKept'
  BY <1>1, <1>2, Facts, PollStays, WorldIsSame DEF PollKept, PollTriages
<1> QED
  BY <1>4, <1>5, <1>6, StepKeeps

\* The attempt of the poll is the last of its revision.
LEMMA LastIs ==
    ASSUME IInv, poll.at \in {"turn", "decided"}
    PROVE  /\ poll.rev \in Revisions
           /\ Len(attempts[poll.rev]) \in 1..Len(attempts[poll.rev])
           /\ attempts[poll.rev][Len(attempts[poll.rev])] \in Attempt
           /\ attempts[poll.rev][Len(attempts[poll.rev])].status = "running"
           /\ artifacts[poll.rev] = NoRoute /\ mode # "off"
           /\ Current \in Revisions \X Nat
           /\ Current[1] = poll.rev /\ Current[2] = Len(attempts[poll.rev])
           /\ Unfinished = {} /\ poll.label = NoKey
<1>1. /\ poll.rev \in Revisions /\ attempts[poll.rev] # <<>>
      /\ attempts[poll.rev][Len(attempts[poll.rev])].status = "running"
      /\ artifacts[poll.rev] = NoRoute /\ mode # "off"
  BY Facts DEF PollKept, PollTriages
<1>2. attempts[poll.rev] \in Seq(Attempt)
  BY <1>1, Facts
<1>3. /\ Len(attempts[poll.rev]) \in 1..Len(attempts[poll.rev])
      /\ attempts[poll.rev][Len(attempts[poll.rev])] \in Attempt
  BY <1>1, <1>2
<1>4. /\ Current \in Revisions \X Nat
      /\ Current[1] = poll.rev /\ Current[2] = Len(attempts[poll.rev])
  BY <1>1, <1>3 DEF Current
<1>5. Unfinished = {} /\ poll.label = NoKey
  BY Facts DEF PollKept, PollResumes, PollWrites, WritesAt, Clear
<1> QED
  BY <1>1, <1>3, <1>4, <1>5

\* One attempt becomes another.
LEMMA AttemptChanged ==
    ASSUME IInv, NEW r \in Revisions, NEW n \in DOMAIN attempts[r], NEW x \in Attempt,
           attempts' = [attempts EXCEPT ![r] = [attempts[r] EXCEPT ![n] = x]]
    PROVE  /\ attempts' \in [Revisions -> Seq(Attempt)]
           /\ \A q \in Revisions : /\ Len(attempts'[q]) = Len(attempts[q])
                                   /\ DOMAIN attempts'[q] = DOMAIN attempts[q]
           /\ attempts'[r][n] = x
           /\ \A m \in DOMAIN attempts[r] : m # n => attempts'[r][m] = attempts[r][m]
           /\ \A q \in Revisions : q # r => attempts'[q] = attempts[q]
<1> DEFINE s == [attempts[r] EXCEPT ![n] = x]
<1>1. /\ s \in Seq(Attempt) /\ Len(s) = Len(attempts[r]) /\ DOMAIN s = DOMAIN attempts[r]
      /\ s[n] = x /\ \A m \in DOMAIN attempts[r] : m # n => s[m] = attempts[r][m]
  BY Facts, AttemptPut
<1>2. attempts' = [attempts EXCEPT ![r] = s]
  OBVIOUS
<1> HIDE DEF s
<1>3. attempts' \in [Revisions -> Seq(Attempt)] /\ attempts'[r] = s
  BY <1>1, <1>2, Facts DEF AttemptsKept
<1>4. \A q \in Revisions : q # r => attempts'[q] = attempts[q]
  BY <1>2, Facts DEF AttemptsKept
<1>5. ASSUME NEW q \in Revisions
      PROVE  Len(attempts'[q]) = Len(attempts[q]) /\ DOMAIN attempts'[q] = DOMAIN attempts[q]
  <2>1. CASE q = r
    BY <1>1, <1>3, <2>1
  <2>2. CASE q # r
    BY <1>4, <2>2
  <2> QED
    BY <2>1, <2>2
<1> QED
  BY <1>1, <1>3, <1>4, <1>5

\* An attempt that changes neither begins nor ends well.
LEMMA AttemptMarked ==
    ASSUME IInv, NEW r \in Revisions, NEW n \in DOMAIN attempts[r], NEW x \in Attempt,
           attempts' = [attempts EXCEPT ![r] = [attempts[r] EXCEPT ![n] = x]],
           x.status = attempts[r][n].status
             \/ (attempts[r][n].status = "running" /\ x.status \in {"failed", "interrupted"}),
           UNCHANGED <<run_status, artifacts>>, agents' \subseteq Revisions \X Nat
    PROVE  AttemptsKept'
<1>1. ASSUME NEW q \in Revisions, NEW m \in DOMAIN attempts[q]
      PROVE  /\ attempts'[q][m].status = "running" => attempts[q][m].status = "running"
             /\ attempts'[q][m].status = "completed" <=> attempts[q][m].status = "completed"
  <2>1. CASE q = r /\ m = n
    <3>1. attempts'[q][m] = x
      BY <2>1, AttemptChanged
    <3> QED
      BY <2>1, <3>1
  <2>2. CASE q # r \/ m # n
    <3>1. attempts'[q][m] = attempts[q][m]
      BY <2>2, AttemptChanged
    <3> QED
      BY <3>1
  <2> QED
    BY <2>1, <2>2
<1>2. /\ attempts' \in [Revisions -> Seq(Attempt)]
      /\ \A q \in Revisions : Len(attempts'[q]) = Len(attempts[q])
  BY AttemptChanged
<1>3. run_status' \in {"none", "active", "completed", "failed", "ineligible"}
  BY Facts DEF AttemptsKept
<1> QED
  BY <1>1, <1>2, <1>3, AttemptsWritten

LEMMA RecordProcessKeeps == ASSUME IInv, RecordProcess PROVE IInv'
<1> DEFINE r == poll.rev
           n == Len(attempts[r])
           x == [attempts[r][n] EXCEPT !.recorded = TRUE]
<1>1. /\ poll.at = "turn"
      /\ attempts' = [attempts EXCEPT ![Current[1]][Current[2]].recorded = TRUE]
      /\ UNCHANGED <<run_status, artifacts, intents, latest, observations, issue,
                     comments, agents, poll_vars, mode, disturbances, ghost_vars>>
  BY DEF RecordProcess
<1>2. /\ r \in Revisions /\ n \in DOMAIN attempts[r] /\ x \in Attempt
      /\ x.status = attempts[r][n].status /\ x.status = "running"
      /\ Current[1] = r /\ Current[2] = n
  <2>1. /\ r \in Revisions /\ n \in DOMAIN attempts[r] /\ attempts[r][n] \in Attempt
        /\ attempts[r][n].status = "running" /\ Current[1] = r /\ Current[2] = n
    BY <1>1, LastIs, Facts
  <2>2. x \in Attempt /\ x.status = attempts[r][n].status
    BY <2>1 DEF Attempt
  <2> QED
    BY <2>1, <2>2
<1>3. attempts' = [attempts EXCEPT ![r] = [attempts[r] EXCEPT ![n] = x]]
  BY <1>1, <1>2
<1> HIDE DEF x, n, r
<1>4. AttemptsKept'
  <2>1. agents' \subseteq Revisions \X Nat /\ UNCHANGED <<run_status, artifacts>>
    BY <1>1, Facts DEF AttemptsKept
  <2> QED
    BY <1>2, <1>3, <2>1, AttemptMarked, Zenon
<1>5. IntentsKept' /\ CommentsKept' /\ IssueKept'
  BY <1>1, RestStays
<1>6. PollKept'
  <2>1. poll' = poll /\ todo' = todo
    BY <1>1 DEF poll_vars
  <2>2. /\ attempts'[r][n] = x /\ Len(attempts'[r]) = n
    <3>1. attempts'[r][n] = x /\ Len(attempts'[r]) = Len(attempts[r])
      BY <1>2, <1>3, AttemptChanged, Zenon
    <3> QED
      BY <3>1 DEF n
  <2>3. attempts'[r] # <<>>
    <3>1. n \in 1..n
      BY <1>2, Facts DEF n
    <3> QED
      BY <2>2, <3>1
  <2> QED
    BY <1>1, <1>2, <2>1, <2>2, <2>3, Facts, PollStays, WorldIsSame DEF PollKept, r
<1> QED
  BY <1>4, <1>5, <1>6, StepKeeps

LEMMA AgentDecidesKeeps == ASSUME IInv, AgentDecides PROVE IInv'
<1>1. /\ poll.at = "turn" /\ agents' = agents \ {Current}
      /\ UNCHANGED <<store_vars, issue, comments, todo, mode, disturbances, ghost_vars>>
  BY DEF AgentDecides
<1>2. PICK route \in Routes : poll' = [poll EXCEPT !.at = "decided", !.route = route]
  BY DEF AgentDecides
<1>3. /\ AttemptsKept' /\ IntentsKept' /\ CommentsKept' /\ IssueKept' /\ Unfinished' = Unfinished
      /\ artifacts' = artifacts /\ attempts' = attempts
  BY <1>1, WorldStays
<1>4. /\ poll' \in Poll /\ poll'.at = "decided" /\ poll'.label = NoKey
      /\ poll'.rev = poll.rev /\ poll'.route \in Routes
  BY <1>1, <1>2, LastIs, Facts DEF PollKept, Poll, Places
<1>5. PollTriages'
  BY <1>1, <1>3, <1>4, Facts DEF PollTriages, PollKept
<1>6. PollKept'
  BY <1>1, <1>3, <1>4, <1>5, LastIs, Facts, PollElsewhere DEF PollKept, Publishing
<1> QED
  BY <1>3, <1>6, StepKeeps

LEMMA AgentFailsKeeps == ASSUME IInv, AgentFails PROVE IInv'
<1> DEFINE r == poll.rev
           n == Len(attempts[r])
           x == [attempts[r][n] EXCEPT !.status = "failed"]
<1>1. /\ poll.at = "turn" /\ agents' = agents \ {Current}
      /\ attempts' = [attempts EXCEPT ![r][n].status = "failed"]
      /\ poll' = [poll EXCEPT !.at = "failed"]
      /\ UNCHANGED <<run_status, artifacts, intents, latest, observations, issue,
                     comments, todo, mode, disturbances, ghost_vars>>
  BY DEF AgentFails, FailAttempt, Goto
<1>2. /\ r \in Revisions /\ n \in DOMAIN attempts[r] /\ x \in Attempt
      /\ attempts[r][n].status = "running" /\ x.status = "failed"
  <2>1. /\ r \in Revisions /\ n \in DOMAIN attempts[r] /\ attempts[r][n] \in Attempt
        /\ attempts[r][n].status = "running"
    BY <1>1, LastIs, Facts
  <2>2. x \in Attempt /\ x.status = "failed"
    BY <2>1 DEF Attempt
  <2> QED
    BY <2>1, <2>2
<1>3. attempts' = [attempts EXCEPT ![r] = [attempts[r] EXCEPT ![n] = x]]
  BY <1>1
<1> HIDE DEF x, n, r
<1>4. AttemptsKept'
  <2>1. agents' \subseteq Revisions \X Nat /\ UNCHANGED <<run_status, artifacts>>
    BY <1>1, Facts DEF AttemptsKept
  <2>2. x.status \in {"failed", "interrupted"}
    BY <1>2
  <2> QED
    BY <1>2, <1>3, <2>1, <2>2, AttemptMarked, Zenon
<1>5. IntentsKept' /\ CommentsKept' /\ IssueKept' /\ Unfinished' = Unfinished
  BY <1>1, RestStays
<1>6. PollKept'
  <2>1. poll' \in Poll /\ poll'.at = "failed" /\ poll'.label = NoKey /\ poll'.rev = poll.rev
    BY <1>1, LastIs, Facts DEF PollKept, Poll, Places
  <2>2. PollTriages'
    BY <1>1, <2>1, LastIs DEF PollTriages
  <2> QED
    BY <1>1, <1>5, <2>1, <2>2, LastIs, Facts, PollElsewhere DEF PollKept, Publishing
<1> QED
  BY <1>4, <1>5, <1>6, StepKeeps

LEMMA RunStatus ==
    ASSUME IInv, run_status' \in {"none", "active", "completed", "failed", "ineligible"},
           UNCHANGED <<attempts, artifacts, agents>>
    PROVE  AttemptsKept'
  BY Facts, AttemptsWritten DEF AttemptsKept

\* A poll that ends.
LEMMA PollEnds ==
    ASSUME IInv, run_status' \in {"none", "active", "completed", "failed", "ineligible"},
           poll' = [Idle EXCEPT !.at = "idle"],
           UNCHANGED <<attempts, artifacts, intents, latest, observations, issue,
                       comments, agents, todo, mode, disturbances, ghost_vars>>
    PROVE  IInv'
<1>1. AttemptsKept'
  BY RunStatus
<1>2. IntentsKept' /\ CommentsKept' /\ IssueKept'
  BY RestStays
<1>3. poll' = Idle
  BY DEF Idle
<1>4. PollKept'
  BY <1>3, Facts, PollRests DEF PollKept
<1> QED
  BY <1>1, <1>2, <1>4, StepKeeps

LEMMA GiveUpKeeps == ASSUME IInv, GiveUp PROVE IInv'
  BY PollEnds, Facts DEF GiveUp, Return, AttemptsKept

LEMMA FinalizeAppliedKeeps == ASSUME IInv, FinalizeApplied PROVE IInv'
  BY PollEnds, Facts DEF FinalizeApplied, Return, AttemptsKept

LEMMA CompleteRunKeeps == ASSUME IInv, CompleteRun PROVE IInv'
  BY PollEnds, Facts DEF CompleteRun, Return, AttemptsKept

LEMMA KeepDecisionKeeps == ASSUME IInv, KeepDecision PROVE IInv'
<1> DEFINE r == poll.rev
           n == Len(attempts[r])
           x == [attempts[r][n] EXCEPT !.status = "completed"]
<1>1. /\ poll.at = "decided" /\ artifacts' = [artifacts EXCEPT ![r] = poll.route]
      /\ attempts' = [attempts EXCEPT ![r][n].status = "completed"]
      /\ poll' = [poll EXCEPT !.at = "ensure", !.key = <<mode, r>>]
      /\ UNCHANGED <<run_status, intents, latest, observations, issue, comments,
                     agents, todo, mode, disturbances, ghost_vars>>
  BY DEF KeepDecision, StoreArtifact
<1>2. /\ r \in Revisions /\ n \in DOMAIN attempts[r] /\ x \in Attempt
      /\ attempts[r][n].status = "running" /\ x.status = "completed"
  <2>1. /\ r \in Revisions /\ n \in DOMAIN attempts[r] /\ attempts[r][n] \in Attempt
        /\ attempts[r][n].status = "running"
    BY <1>1, LastIs, Facts
  <2>2. x \in Attempt /\ x.status = "completed"
    BY <2>1 DEF Attempt
  <2> QED
    BY <2>1, <2>2
<1>3. attempts' = [attempts EXCEPT ![r] = [attempts[r] EXCEPT ![n] = x]]
  BY <1>1
<1> HIDE DEF x, n
<1>4. /\ attempts' \in [Revisions -> Seq(Attempt)]
      /\ \A q \in Revisions : /\ Len(attempts'[q]) = Len(attempts[q])
                              /\ DOMAIN attempts'[q] = DOMAIN attempts[q]
      /\ attempts'[r][n] = x
      /\ \A m \in DOMAIN attempts[r] : m # n => attempts'[r][m] = attempts[r][m]
      /\ \A q \in Revisions : q # r => attempts'[q] = attempts[q]
  BY <1>2, <1>3, AttemptChanged, Zenon
<1>5. poll.route \in Routes /\ artifacts[r] = NoRoute
  BY <1>1, LastIs, Facts DEF PollKept, PollTriages
<1>6. /\ artifacts' \in [Revisions -> Routes \cup {NoRoute}] /\ artifacts'[r] # NoRoute
      /\ \A q \in Revisions : q # r => artifacts'[q] = artifacts[q]
  BY <1>1, <1>2, <1>5, Facts DEF AttemptsKept
<1>7. RunningOnce'
  <2>1. ASSUME NEW q \in Revisions
        PROVE  Running(q)' \subseteq Running(q)
    <3>1. CASE q = r
      <4>1. ASSUME NEW m \in DOMAIN attempts[r], attempts'[r][m].status = "running"
            PROVE  attempts[r][m].status = "running"
        BY <1>2, <1>4, <4>1
      <4> QED
        BY <1>4, <3>1, <4>1 DEF Running
    <3>2. CASE q # r
      BY <1>4, <3>2 DEF Running
    <3> QED
      BY <3>1, <3>2
  <2>2. RunningOnce
    BY Facts DEF AttemptsKept
  <2> QED
    BY <2>1, <2>2 DEF RunningOnce
<1>8. Decided'
  <2>1. Decided
    BY Facts DEF AttemptsKept
  <2>2. ASSUME NEW q \in Revisions
        PROVE  (artifacts'[q] # NoRoute) <=>
                   \E m \in DOMAIN attempts'[q] : attempts'[q][m].status = "completed"
    <3>1. CASE q = r
      BY <1>2, <1>4, <1>6, <3>1
    <3>2. CASE q # r
      BY <1>4, <1>6, <2>1, <3>2 DEF Decided
    <3> QED
      BY <3>1, <3>2
  <2> QED
    BY <2>2 DEF Decided
<1>9. BudgetKept'
  BY <1>4, Facts DEF AttemptsKept, BudgetKept
<1>10. AttemptsKept'
  BY <1>1, <1>4, <1>6, <1>7, <1>8, <1>9, Facts DEF AttemptsKept
<1>11. DecisionsStay /\ issue' \in Issue
  BY <1>1, <1>5, <1>6, Facts DEF DecisionsStay, IssueKept
<1>12. IntentsKept' /\ IssueKept' /\ Unfinished' = Unfinished
  BY <1>1, <1>11, IntentsStay, IssueStays DEF ghost_vars
<1>13. CommentsKept'
  BY <1>1, CommentsStay
<1>14. PollKept'
  <2>1. mode \in {"preview", "automatic"} /\ Unfinished = {} /\ poll.label = NoKey
    BY <1>1, LastIs, Facts DEF PollKept
  <2> QED
    BY <1>1, <1>2, <1>6, <1>12, <2>1, PollEnsures
<1> QED
  BY <1>10, <1>12, <1>13, <1>14, StepKeeps

----------------------------------------------------------------------------
(* Publications *)

\* What is unfinished is one publication, at a step of its own.
LEMMA UnfinishedIs ==
    ASSUME IInv, NEW k \in Keys, intents[k].status = "pending"
    PROVE  /\ Unfinished = {k} /\ intents[k] \in Intent /\ intents[k].expected \in Projection
           /\ intents[k].done \in 0..6
           /\ (~Automatic(k) \/ ~intents[k].baselined) => intents[k].done = 0
           /\ Automatic(k) => /\ k[2] \in Revisions /\ RouteOf(k) \in Routes
                              /\ RouteColumn[RouteOf(k)] \in Columns \cup {NoColumn}
                              /\ artifacts[k[2]] # NoRoute
           /\ Projects(k) => Shows(k)
<1>1. Unfinished = {k}
  BY Facts DEF IntentsKept, OneUnfinishedPublication, Unfinished
<1>2. /\ intents[k] \in Intent /\ intents[k].expected \in Projection
      /\ intents[k].done \in 0..7
  BY Facts
<1>3. /\ intents[k].done < 7
      /\ (~Automatic(k) \/ ~intents[k].baselined) => intents[k].done = 0
      /\ Projects(k) => Shows(k)
      /\ Automatic(k) => artifacts[k[2]] # NoRoute
  BY StepsAre, Facts DEF IntentsKept, IntentSound
<1>4. ASSUME Automatic(k)
      PROVE  /\ k[2] \in Revisions /\ RouteOf(k) \in Routes
             /\ RouteColumn[RouteOf(k)] \in Columns \cup {NoColumn}
  <2>1. k[2] \in Revisions
    BY <1>4, KeyIs
  <2>2. RouteOf(k) \in Routes
    BY <1>3, <1>4, <2>1, Facts DEF RouteOf, AttemptsKept
  <2> QED
    BY <2>1, <2>2
<1>5. intents[k].done \in 0..6
  BY <1>2, <1>3
<1> QED
  BY <1>1, <1>2, <1>3, <1>4, <1>5

\* A row of the intents is replaced.
LEMMA IntentPut ==
    ASSUME IInv, NEW k \in Keys, NEW x \in Intent, intents' = [intents EXCEPT ![k] = x]
    PROVE  /\ intents' \in [Keys -> Intent] /\ intents'[k] = x
           /\ \A j \in Keys : j # k => intents'[j] = intents[j]
           /\ x.status # "pending" => Unfinished' = Unfinished \ {k}
           /\ x.status = "pending" => Unfinished' = Unfinished \cup {k}
           /\ Unfinished' \subseteq Unfinished \cup {k}
<1>1. /\ intents' \in [Keys -> Intent] /\ intents'[k] = x
      /\ \A j \in Keys : j # k => intents'[j] = intents[j]
  BY Facts DEF IntentsKept
<1>2. x.status # "pending" => Unfinished' = Unfinished \ {k}
  BY <1>1 DEF Unfinished
<1>3. x.status = "pending" => Unfinished' = Unfinished \cup {k}
  BY <1>1 DEF Unfinished
<1> QED
  BY <1>1, <1>2, <1>3

LEMMA IntentWritten ==
    ASSUME IInv, NEW k \in Keys, NEW x \in Intent, intents' = [intents EXCEPT ![k] = x],
           artifacts' = artifacts, Unfinished \subseteq {k},
           Automatic(k) /\ x.status # "none" => artifacts[k[2]] # NoRoute,
           x.status = "pending" =>
               x.done < 7 /\ ((~Automatic(k) \/ ~x.baselined) => x.done = 0),
           Projects(k)' => Shows(k)',
           latest' = latest \/ (latest' = k /\ Automatic(k) /\ x.status # "none")
    PROVE  IntentsKept'
<1>1. /\ intents' \in [Keys -> Intent] /\ intents'[k] = x
      /\ \A j \in Keys : j # k => intents'[j] = intents[j]
      /\ Unfinished' \subseteq {k}
  BY IntentPut
<1>2. OneUnfinishedPublication'
  BY <1>1 DEF OneUnfinishedPublication
<1>3. ASSUME NEW j \in Keys
      PROVE  /\ Automatic(j) /\ intents'[j].status # "none" => artifacts'[j[2]] # NoRoute
             /\ intents'[j].status = "pending" =>
                 /\ intents'[j].done < Len(AutomaticSteps)
                 /\ (~Automatic(j) \/ ~intents'[j].baselined) => intents'[j].done = 0
             /\ Projects(j)' => Shows(j)'
  <2>1. CASE j = k
    BY <1>1, <2>1, StepsAre
  <2>2. CASE j # k
    <3>1. intents'[j] = intents[j]
      BY <1>1, <2>2
    <3>2. Projects(j)' = Projects(j) /\ Shows(j)' = Shows(j)
      BY <3>1, PublicationStays
    <3>3. IntentSound
      BY Facts DEF IntentsKept
    <3> QED
      BY <3>1, <3>2, <3>3 DEF IntentSound
  <2> QED
    BY <2>1, <2>2
<1>4. IntentSound'
  BY <1>3 DEF IntentSound, Automatic
<1>5. latest' \in Keys \cup {NoKey} /\ LatestSound'
  <2>1. latest \in Keys \cup {NoKey} /\ LatestSound
    BY Facts DEF IntentsKept
  <2> QED
    BY <2>1 DEF LatestSound, Automatic
<1> QED
  BY <1>1, <1>2, <1>4, <1>5 DEF IntentsKept

\* The only publication that is unfinished is written, or the issue for it.
LEMMA IssueWritten ==
    ASSUME IInv, NEW k \in Keys, Unfinished \subseteq {k}, artifacts' = artifacts,
           \A j \in Keys : j # k => intents'[j] = intents[j],
           issue' \in Issue, touched' \in BOOLEAN, placed' \subseteq Routes,
           (~touched' /\ Projects(k)') => Near(k)',
           Projects(k)' =>
               placed' \cap issue'.labels \subseteq intents'[k].expected.labels \cup {RouteOf(k)'},
           (~Projects(k)' /\ \A j \in Keys : intents'[j].status # "conflict") =>
               \A l \in placed' \cap issue'.labels : latest' \in Keys /\ l = RouteOf(latest)'
    PROVE  IssueKept'
<1>1. ASSUME NEW j \in Keys, j # k
      PROVE  ~Projects(j)'
  <2>1. Projects(j)' = Projects(j)
    BY <1>1, PublicationStays
  <2> QED
    BY <1>1, <2>1 DEF Projects, Unfinished
<1>2. Tracked'
  BY <1>1 DEF Tracked
<1>3. PlacedSound'
  <2>1. ASSUME NEW j \in Keys, Projects(j)'
        PROVE  placed' \cap issue'.labels \subseteq intents'[j].expected.labels \cup {RouteOf(j)'}
    BY <1>1, <2>1
  <2> QED
    BY <2>1 DEF PlacedSound
<1> QED
  BY <1>2, <1>3 DEF IssueKept

\* A poll that goes on with its publication.
LEMMA PollGoesOn ==
    ASSUME IInv, NEW k \in Keys, poll.at \in Publishing, poll.key = k,
           poll' \in Poll, poll'.at \in Publishing, poll'.key = k, poll'.then = poll.then,
           UNCHANGED <<todo, mode, disturbances>>, Unfinished' \subseteq Unfinished,
           WritesAt(k)'
    PROVE  PollKept'
<1>1. PollResumes'
  BY Facts DEF PollKept, PollResumes, Clear, Publishing
<1>2. PollWrites'
  BY DEF PollWrites
<1> QED
  BY <1>1, <1>2, Facts, PollPublishes DEF PollKept

\* A poll that is between two calls of its publication.
LEMMA AtPublish ==
    ASSUME NEW k, poll'.at = "publish", poll'.label = NoKey
    PROVE  WritesAt(k)'
  BY DEF WritesAt, Publishing, Writing

LEMMA EnsureIntentKeeps == ASSUME IInv, EnsureIntent PROVE IInv'
<1>0. PICK k \in Keys : k = poll.key
  BY Facts DEF EnsureIntent, PollKept, PollTriages
<1>1. /\ poll.at = "ensure" /\ intents[k].status = "none"
      /\ intents' = [intents EXCEPT ![k] = NewIntent]
      /\ poll' = [Idle EXCEPT !.at = "publish", !.key = k,
                     !.then = IF k = Diagnostic THEN "idle" ELSE "complete"]
      /\ UNCHANGED <<run_status, attempts, artifacts, latest, observations, issue,
                     comments, agents, todo, mode, disturbances, ghost_vars>>
  BY <1>0 DEF EnsureIntent, CreateIntent
<1>2. /\ Unfinished = {}
      /\ Automatic(k) => artifacts[k[2]] # NoRoute
  BY <1>0, <1>1, Facts DEF PollKept, PollTriages, PollResumes, Clear
<1>3. /\ NewIntent \in Intent /\ NewIntent.status = "pending" /\ NewIntent.done = 0
      /\ ~NewIntent.baselined
  <2>1. Bare \in Projection
    BY DEF Bare, Projection
  <2>2. NoIntent \in Intent
    BY <2>1, StepsAre DEF NoIntent, Intent
  <2>3. NewIntent.status = "pending" /\ NewIntent.done = 0
    BY DEF NewIntent, NoIntent
  <2>4. ~NewIntent.baselined
    BY DEF NewIntent, NoIntent
  <2>5. NewIntent \in Intent
    BY <2>2 DEF NewIntent, Intent
  <2> QED
    BY <2>3, <2>4, <2>5
<1>4. /\ intents'[k] = NewIntent /\ \A j \in Keys : j # k => intents'[j] = intents[j]
      /\ Unfinished' \subseteq {k}
  BY <1>1, <1>2, <1>3, IntentPut
<1>5. ~Projects(k)'
  BY <1>3, <1>4 DEF Projects
<1>6. IntentsKept'
  <2>1. artifacts' = artifacts /\ latest' = latest /\ Unfinished \subseteq {k}
    BY <1>1, <1>2
  <2>2. NewIntent.done < 7
    BY <1>3
  <2> QED
    BY <1>1, <1>2, <1>3, <1>5, <2>1, <2>2, IntentWritten, Zenon
<1>7. IssueKept'
  <2>1. issue' = issue /\ touched' = touched /\ placed' = placed /\ latest' = latest
        /\ artifacts' = artifacts
    BY <1>1 DEF ghost_vars
  <2>2. ASSUME \A j \in Keys : intents'[j].status # "conflict",
               NEW l \in placed' \cap issue'.labels
        PROVE  latest' \in Keys /\ l = RouteOf(latest)'
    <3>1. \A j \in Keys : intents[j].status # "conflict" /\ ~Projects(j)
      BY <1>1, <1>2, <1>4, <2>2 DEF Projects, Unfinished
    <3>2. latest \in Keys /\ l = RouteOf(latest)
      BY <2>1, <2>2, <3>1, Facts DEF IssueKept, PlacedSound
    <3> QED
      BY <2>1, <3>2 DEF RouteOf
  <2>3. issue' \in Issue /\ touched' \in BOOLEAN /\ placed' \subseteq Routes
    BY <2>1, Facts DEF IssueKept, PlacedSound
  <2> QED
    BY <1>2, <1>4, <1>5, <2>1, <2>2, <2>3, IssueWritten
<1>8. AttemptsKept' /\ CommentsKept'
  BY <1>1, AttemptsStay, CommentsStay
<1>9. PollKept'
  <2>1. /\ poll' \in Poll /\ poll'.at = "publish" /\ poll'.label = NoKey /\ poll'.key = k
        /\ poll'.then \in {"idle", "complete"}
    BY <1>1, <1>2 DEF Idle, Poll, Places
  <2>2. PollResumes'
    BY <1>2, <1>4, <2>1 DEF PollResumes, Clear
  <2>3. PollWrites'
    BY <2>1, AtPublish DEF PollWrites
  <2> QED
    BY <1>1, <2>1, <2>2, <2>3, Facts, PollPublishes DEF PollKept, Publishing
<1> QED
  BY <1>6, <1>7, <1>8, <1>9, StepKeeps

LEMMA ReuseIntentKeeps == ASSUME IInv, ReuseIntent PROVE IInv'
<1>1. /\ poll.at = "ensure"
      /\ poll' = [Idle EXCEPT !.at = "publish", !.key = poll.key,
                     !.then = IF poll.key = Diagnostic THEN "idle" ELSE "complete"]
      /\ UNCHANGED <<store_vars, issue, comments, agents, todo, mode, disturbances, ghost_vars>>
  BY DEF ReuseIntent
<1>2. AttemptsKept' /\ IntentsKept' /\ CommentsKept' /\ IssueKept' /\ Unfinished' = Unfinished
  BY <1>1, WorldStays
<1>3. poll.key \in Keys /\ Unfinished = {}
  BY <1>1, Facts DEF PollKept, PollTriages, PollResumes, Clear
<1>4. /\ poll' \in Poll /\ poll'.at = "publish" /\ poll'.label = NoKey /\ poll'.key = poll.key
  BY <1>1, <1>3 DEF Idle, Poll, Places
<1>5. PollResumes'
  BY <1>2, <1>3, <1>4 DEF PollResumes, Clear
<1>6. PollWrites'
  BY <1>4, AtPublish DEF PollWrites
<1>7. PollKept'
  BY <1>1, <1>4, <1>5, <1>6, Facts, PollPublishes DEF PollKept, Publishing
<1> QED
  BY <1>2, <1>7, StepKeeps

LEMMA PublicationReturnsKeeps == ASSUME IInv, PublicationReturns PROVE IInv'
<1>1. /\ poll.at = "publish" /\ intents[poll.key].status # "pending"
      /\ poll' = [poll EXCEPT !.at = poll.then]
      /\ UNCHANGED <<store_vars, issue, comments, agents, todo, mode, disturbances, ghost_vars>>
  BY DEF PublicationReturns, IntentOf
<1>2. AttemptsKept' /\ IntentsKept' /\ CommentsKept' /\ IssueKept' /\ Unfinished' = Unfinished
  BY <1>1, WorldStays
<1>3. Unfinished \subseteq IF poll.then = "pending" THEN todo ELSE {}
  BY <1>1, Facts DEF PollKept, PollResumes, Publishing, Unfinished
<1>4. /\ poll' \in Poll /\ poll'.at = poll.then /\ poll'.at \in {"idle", "pending", "complete"}
      /\ poll'.label = NoKey
  BY <1>1, Facts DEF PollKept, PollWrites, WritesAt, Poll, Places
<1>5. PollTriages'
  BY <1>4 DEF PollTriages
<1>6. poll'.at = "pending" => Unfinished' \subseteq todo'
  BY <1>1, <1>2, <1>3, <1>4
<1>7. poll'.at \notin Publishing /\ poll'.at \notin Clear
  BY <1>4 DEF Publishing, Clear
<1>8. PollKept'
  BY <1>1, <1>4, <1>5, <1>6, <1>7, Facts, PollElsewhere DEF PollKept
<1> QED
  BY <1>2, <1>8, StepKeeps

----------------------------------------------------------------------------
(* Comments *)

LEMMA MineIs ==
    ASSUME IInv, poll.at \in Publishing
    PROVE  poll.key \in Keys /\ poll \in Poll /\ WritesAt(poll.key)
  BY Facts DEF PollKept, PollResumes, PollWrites

\* A call that is due is a step of the publication that the poll is at.
LEMMA DueIs ==
    ASSUME IInv, NEW steps, Due(steps)
    PROVE  /\ poll.at = "publish" /\ poll.key \in Keys /\ poll.label = NoKey /\ poll \in Poll
           /\ intents[poll.key].status = "pending"
           /\ Automatic(poll.key) => Projects(poll.key)
           /\ Step(poll.key) \in steps
<1>1. /\ poll.at = "publish" /\ intents[poll.key].status = "pending"
      /\ Automatic(poll.key) => intents[poll.key].baselined
      /\ Step(poll.key) \in steps
  BY DEF Due, IntentOf
<1>2. poll.key \in Keys /\ poll \in Poll /\ poll.label = NoKey
  BY <1>1, MineIs DEF WritesAt, Publishing
<1> QED
  BY <1>1, <1>2 DEF Projects

\* A call that is being made is one that was due.
LEMMA WritingIs ==
    ASSUME IInv, poll.at \in Writing
    PROVE  /\ poll.key \in Keys /\ poll \in Poll
           /\ intents[poll.key].status = "pending"
           /\ Automatic(poll.key) => Projects(poll.key)
<1>1. poll.at \in Publishing
  BY DEF Writing
<1>2. /\ intents[poll.key].status = "pending"
      /\ Automatic(poll.key) => intents[poll.key].baselined
  BY <1>1, MineIs DEF WritesAt
<1> QED
  BY <1>1, <1>2, MineIs DEF Projects

\* A row is written without any progress.
LEMMA RowMarked ==
    ASSUME IInv, NEW k \in Keys, intents[k].status = "pending", NEW x \in Intent,
           intents' = [intents EXCEPT ![k] = x],
           x.status = intents[k].status, x.done = intents[k].done,
           x.baselined = intents[k].baselined, x.expected = intents[k].expected,
           UNCHANGED <<artifacts, latest, issue, ghost_vars>>
    PROVE  IntentsKept' /\ IssueKept' /\ Unfinished' = Unfinished /\ ProgressStays(k)
<1>1. /\ artifacts' = artifacts /\ latest' = latest /\ issue' = issue
      /\ touched' = touched /\ placed' = placed
  BY DEF ghost_vars
<1>2. /\ intents'[k] = x /\ \A j \in Keys : j # k => intents'[j] = intents[j]
      /\ Unfinished' = Unfinished \cup {k}
  BY IntentPut
<1>3. ProgressStays(k)
  BY <1>1, <1>2 DEF ProgressStays
<1>4. /\ Projects(k)' = Projects(k) /\ RouteOf(k)' = RouteOf(k) /\ Shows(k)' = Shows(k)
      /\ Near(k)' = Near(k)
  BY <1>1, <1>3, ProgressSame, NearSame
<1>5. /\ Unfinished = {k} /\ (Projects(k) => Shows(k))
      /\ intents[k].done < 7 /\ ((~Automatic(k) \/ ~intents[k].baselined) => intents[k].done = 0)
      /\ Automatic(k) => artifacts[k[2]] # NoRoute
  BY UnfinishedIs
<1>6. IntentsKept'
  <2>1. Unfinished \subseteq {k} /\ (Projects(k)' => Shows(k)')
    BY <1>4, <1>5
  <2>2. x.done < 7 /\ ((~Automatic(k) \/ ~x.baselined) => x.done = 0)
    BY <1>5
  <2> QED
    BY <1>1, <1>5, <2>1, <2>2, IntentWritten, Zenon
<1>7. IssueKept'
  <2>1. (~touched' /\ Projects(k)') => Near(k)'
    BY <1>1, <1>4, Facts DEF IssueKept, Tracked
  <2>2. PlacedSound
    BY Facts DEF IssueKept
  <2>3. Projects(k)' =>
            placed' \cap issue'.labels \subseteq intents'[k].expected.labels \cup {RouteOf(k)'}
    BY <1>1, <1>2, <1>4, <2>2 DEF PlacedSound
  <2>4. ASSUME ~Projects(k)', \A j \in Keys : intents'[j].status # "conflict",
               NEW l \in placed' \cap issue'.labels
        PROVE  latest' \in Keys /\ l = RouteOf(latest)'
    <3>1. \A j \in Keys : intents[j].status # "conflict" /\ ~Projects(j)
      BY <1>2, <1>4, <1>5, <2>4 DEF Projects, Unfinished
    <3>2. latest \in Keys /\ l = RouteOf(latest)
      BY <1>1, <2>2, <2>4, <3>1 DEF PlacedSound
    <3> QED
      BY <1>1, <3>2 DEF RouteOf
  <2>5. issue' \in Issue /\ touched' \in BOOLEAN /\ placed' \subseteq Routes
    BY <1>1, <2>2, Facts DEF IssueKept, PlacedSound
  <2> QED
    BY <1>1, <1>2, <1>5, <2>1, <2>3, <2>4, <2>5, IssueWritten
<1>8. Unfinished' = Unfinished
  BY <1>2, <1>5
<1> QED
  BY <1>3, <1>6, <1>7, <1>8

\* The publication's comment becomes known, or was.
LEMMA CommentBound ==
    ASSUME IInv, NEW k \in Keys, intents[k].status = "pending",
           intents' = intents \/ intents' = [intents EXCEPT ![k].bound = TRUE],
           UNCHANGED <<artifacts, latest, issue, ghost_vars>>
    PROVE  IntentsKept' /\ IssueKept' /\ Unfinished' = Unfinished /\ ProgressStays(k)
<1>1. CASE intents' = intents
  <2>1. /\ artifacts' = artifacts /\ latest' = latest /\ issue' = issue
        /\ touched' = touched /\ placed' = placed
    BY DEF ghost_vars
  <2>2. DecisionsStay /\ issue' \in Issue
    BY <2>1, Facts DEF DecisionsStay, IssueKept
  <2>3. ProgressStays(k)
    BY <1>1, <2>1 DEF ProgressStays
  <2> QED
    BY <1>1, <2>1, <2>2, <2>3, IntentsStay, IssueStays
<1>2. CASE intents' = [intents EXCEPT ![k].bound = TRUE]
  <2> DEFINE x == [intents[k] EXCEPT !.bound = TRUE]
  <2>1. intents[k] \in Intent
    BY Facts
  <2>2. /\ x \in Intent /\ x.status = intents[k].status /\ x.done = intents[k].done
        /\ x.baselined = intents[k].baselined /\ x.expected = intents[k].expected
    BY <2>1 DEF Intent
  <2>3. intents' = [intents EXCEPT ![k] = x]
    BY <1>2
  <2> HIDE DEF x
  <2> QED
    BY <2>2, <2>3, RowMarked
<1> QED
  BY <1>1, <1>2

LEMMA AtComment ==
    ASSUME NEW k, intents[k].status = "pending", Automatic(k) => Projects(k),
           Step(k) \in CommentSteps, ProgressStays(k), poll'.at \in {"created", "commented"},
           poll'.label = NoKey
    PROVE  WritesAt(k)'
<1>1. Step(k)' = Step(k)
  BY ProgressSame
<1>2. intents'[k].status = "pending" /\ (Automatic(k) => intents'[k].baselined)
  BY DEF ProgressStays, Projects
<1> QED
  BY <1>1, <1>2 DEF WritesAt, Automatic, Writing, Publishing

LEMMA UpdateCommentKeeps == ASSUME IInv, UpdateComment PROVE IInv'
<1>1. /\ Due(CommentSteps) /\ poll' = [poll EXCEPT !.at = "commented"]
      /\ intents' = intents \/ intents' = [intents EXCEPT ![poll.key].bound = TRUE]
      /\ UNCHANGED <<run_status, attempts, artifacts, latest, observations, issue,
                     comments, agents, todo, mode, disturbances, ghost_vars>>
  BY DEF UpdateComment, BindComment, Goto
<1>2. PICK k \in Keys : k = poll.key
  BY <1>1, DueIs
<1>3. /\ poll.at = "publish" /\ poll.label = NoKey /\ poll \in Poll
      /\ intents[k].status = "pending" /\ Step(k) \in CommentSteps
  BY <1>1, <1>2, DueIs
<1>4. IntentsKept' /\ IssueKept' /\ Unfinished' = Unfinished /\ ProgressStays(k)
  BY <1>1, <1>2, <1>3, CommentBound
<1>5. AttemptsKept' /\ CommentsKept'
  BY <1>1, AttemptsStay, CommentsStay
<1>6. /\ poll' \in Poll /\ poll'.at = "commented" /\ poll'.key = k /\ poll'.label = NoKey
      /\ poll'.then = poll.then
  BY <1>1, <1>2, <1>3 DEF Poll, Places
<1>7. WritesAt(k)'
  <2>1. Automatic(k) => Projects(k)
    BY <1>1, <1>2, DueIs
  <2> QED
    BY <1>3, <1>4, <1>6, <2>1, AtComment
<1>8. PollKept'
  BY <1>1, <1>2, <1>3, <1>4, <1>6, <1>7, PollGoesOn DEF Publishing
<1> QED
  BY <1>4, <1>5, <1>8, StepKeeps

LEMMA CreateCommentKeeps == ASSUME IInv, CreateComment PROVE IInv'
<1>1. /\ Due(CommentSteps) /\ poll' = [poll EXCEPT !.at = "created"]
      /\ comments[poll.key] = 0
      /\ comments' = [comments EXCEPT ![poll.key] = comments[poll.key] + 1]
      /\ UNCHANGED <<store_vars, issue, agents, todo, mode, disturbances, ghost_vars>>
  BY DEF CreateComment, Unmarked, Goto
<1>2. PICK k \in Keys : k = poll.key
  BY <1>1, DueIs
<1>3. /\ poll.at = "publish" /\ poll.label = NoKey /\ poll \in Poll
      /\ intents[k].status = "pending" /\ Step(k) \in CommentSteps
  BY <1>1, <1>2, DueIs
<1>4. /\ run_status' = run_status /\ attempts' = attempts /\ artifacts' = artifacts
      /\ intents' = intents /\ latest' = latest /\ observations' = observations
      /\ touched' = touched /\ placed' = placed
  BY <1>1 DEF store_vars, ghost_vars
<1>5. /\ IntentsKept' /\ IssueKept' /\ Unfinished' = Unfinished
  <2>1. DecisionsStay /\ issue' \in Issue
    BY <1>1, <1>4, Facts DEF DecisionsStay, IssueKept
  <2> QED
    BY <1>1, <1>4, <2>1, IntentsStay, IssueStays
<1>6. AttemptsKept'
  BY <1>1, <1>4, AttemptsStay
<1>7. CommentsKept'
  <2>1. comments' \in [Keys -> Nat] /\ OneCommentPerPublication'
    BY <1>1, <1>2, Facts DEF CommentsKept, OneCommentPerPublication
  <2> QED
    BY <1>4, <2>1, Facts DEF CommentsKept
<1>8. /\ poll' \in Poll /\ poll'.at = "created" /\ poll'.key = k /\ poll'.label = NoKey
      /\ poll'.then = poll.then
  BY <1>1, <1>2, <1>3 DEF Poll, Places
<1>9. WritesAt(k)'
  <2>1. Automatic(k) => Projects(k)
    BY <1>1, <1>2, DueIs
  <2>2. ProgressStays(k)
    BY <1>4 DEF ProgressStays
  <2> QED
    BY <1>3, <1>8, <2>1, <2>2, AtComment
<1>10. PollKept'
  BY <1>1, <1>2, <1>3, <1>5, <1>8, <1>9, PollGoesOn DEF Publishing
<1> QED
  BY <1>5, <1>6, <1>7, <1>10, StepKeeps

LEMMA SetCommentKeeps == ASSUME IInv, SetComment PROVE IInv'
<1>1. /\ poll.at = "created" /\ poll' = [poll EXCEPT !.at = "commented"]
      /\ intents' = [intents EXCEPT ![poll.key].bound = TRUE]
      /\ UNCHANGED <<run_status, attempts, artifacts, latest, observations, issue,
                     comments, agents, todo, mode, disturbances, ghost_vars>>
  BY DEF SetComment, BindComment, Goto
<1>2. poll.at \in Writing
  BY <1>1 DEF Writing, Publishing
<1>3. PICK k \in Keys : k = poll.key
  BY <1>2, WritingIs
<1>4. /\ poll.label = NoKey /\ poll \in Poll /\ intents[k].status = "pending"
      /\ Step(k) \in CommentSteps
  BY <1>1, <1>2, <1>3, WritingIs, MineIs DEF WritesAt, Writing
<1>5. IntentsKept' /\ IssueKept' /\ Unfinished' = Unfinished /\ ProgressStays(k)
  BY <1>1, <1>3, <1>4, CommentBound
<1>6. AttemptsKept' /\ CommentsKept'
  BY <1>1, AttemptsStay, CommentsStay
<1>7. /\ poll' \in Poll /\ poll'.at = "commented" /\ poll'.key = k /\ poll'.label = NoKey
      /\ poll'.then = poll.then
  BY <1>1, <1>3, <1>4 DEF Poll, Places
<1>8. WritesAt(k)'
  <2>1. Automatic(k) => Projects(k)
    BY <1>2, <1>3, WritingIs
  <2> QED
    BY <1>4, <1>5, <1>7, <2>1, AtComment
<1>9. PollKept'
  BY <1>1, <1>3, <1>5, <1>7, <1>8, PollGoesOn DEF Publishing
<1> QED
  BY <1>5, <1>6, <1>9, StepKeeps

\* Between two writes the issue is as the publication expects it.
LEMMA NearAtComment ==
    ASSUME NEW k, Near(k), intents[k].expected \in Projection, Step(k) \notin MutationSteps
    PROVE  Ours(k)
<1>1. ToRemove(k) = {}
  BY RemovalIs DEF MutationSteps
<1> QED
  BY <1>1 DEF Near

LEMMA RecordCommentKeeps == ASSUME IInv, RecordComment PROVE IInv'
<1>1. poll.at = "commented" /\ poll.at \in Writing
  BY DEF RecordComment, Writing, Publishing
<1>2. PICK k \in Keys : k = poll.key
  BY <1>1, WritingIs
<1> DEFINE last == ~Automatic(k) \/ Step(k) = "comment_applied"
           x == [intents[k] EXCEPT !.done = intents[k].done + 1,
                                   !.status = IF last THEN "applied" ELSE intents[k].status]
<1>3. /\ poll' = [poll EXCEPT !.at = "publish"]
      /\ intents' = [intents EXCEPT ![k] = x]
      /\ latest' = IF last /\ Automatic(k) THEN k ELSE latest
      /\ UNCHANGED <<run_status, attempts, artifacts, observations, issue, comments,
                     agents, todo, mode, disturbances, ghost_vars>>
  BY <1>2 DEF RecordComment, Goto
<1>4. /\ artifacts' = artifacts /\ issue' = issue /\ touched' = touched /\ placed' = placed
      /\ todo' = todo /\ mode' = mode /\ disturbances' = disturbances
  BY <1>3 DEF ghost_vars
<1>5. /\ poll.label = NoKey /\ poll \in Poll /\ intents[k].status = "pending"
      /\ Step(k) \in CommentSteps
  BY <1>1, <1>2, WritingIs, MineIs DEF WritesAt, Writing
<1>6. Automatic(k) => Projects(k)
  BY <1>1, <1>2, WritingIs
<1>7. /\ Unfinished = {k} /\ intents[k] \in Intent /\ intents[k].expected \in Projection
      /\ intents[k].done \in 0..6 /\ (Projects(k) => Shows(k))
      /\ Automatic(k) => artifacts[k[2]] # NoRoute /\ RouteOf(k) \in Routes
      /\ (~Automatic(k) \/ ~intents[k].baselined) => intents[k].done = 0
  BY <1>5, UnfinishedIs
<1>8. /\ x \in Intent /\ x.done = intents[k].done + 1 /\ x.expected = intents[k].expected
      /\ x.baselined = intents[k].baselined
      /\ x.status = IF last THEN "applied" ELSE "pending"
  <2>1. intents[k].done + 1 \in 0..Len(AutomaticSteps)
    BY <1>7, StepsAre
  <2>2. (IF last THEN "applied" ELSE intents[k].status) \in {"pending", "applied"}
    BY <1>5
  <2> QED
    BY <1>5, <1>7, <2>1, <2>2 DEF Intent
<1> HIDE DEF x
<1>9. /\ intents'[k] = x /\ \A j \in Keys : j # k => intents'[j] = intents[j]
      /\ Unfinished' \subseteq Unfinished
  BY <1>3, <1>7, <1>8, IntentPut
<1>10. Automatic(k) => Projects(k) /\ intents[k].done \in {0, 4, 6}
                       /\ (last <=> intents[k].done = 6)
  BY <1>5, <1>6, <1>7, DoneIs DEF CommentSteps
<1>11. /\ RouteOf(k)' = RouteOf(k) /\ Automatic(k)' = Automatic(k)
       /\ Projects(k)' <=> (Automatic(k) /\ ~last)
  BY <1>4, <1>8, <1>9, <1>10 DEF RouteOf, Automatic, Projects
<1> HIDE DEF last
<1>12. Projects(k)' => Shows(k)'
  <2>1. ASSUME Projects(k)'
        PROVE  /\ Shows(k) /\ intents[k].done \in {0, 4}
               /\ intents'[k].done = intents[k].done + 1
               /\ intents'[k].expected = intents[k].expected
    BY <1>7, <1>8, <1>9, <1>10, <1>11, <2>1
  <2> QED
    BY <1>11, <2>1 DEF Shows
<1>13. IntentsKept'
  <2>1. x.status = "pending" => x.done < 7 /\ ((~Automatic(k) \/ ~x.baselined) => x.done = 0)
    BY <1>7, <1>8, <1>10, <1>6 DEF Projects, last
  <2>2. latest' = latest \/ (latest' = k /\ Automatic(k) /\ x.status # "none")
    BY <1>3, <1>8
  <2>3. Unfinished \subseteq {k} /\ (Automatic(k) /\ x.status # "none" => artifacts[k[2]] # NoRoute)
    BY <1>7
  <2> QED
    BY <1>3, <1>4, <1>8, <1>12, <2>1, <2>2, <2>3, IntentWritten, Zenon
<1>14. IssueKept'
  <2>1. ASSUME ~touched', Projects(k)' PROVE Near(k)'
    <3>1. Projects(k) /\ Step(k) \notin MutationSteps
      BY <1>5, <1>10, <1>11, <2>1 DEF CommentSteps, MutationSteps
    <3>2. Near(k)
      BY <1>4, <2>1, <3>1, Facts DEF IssueKept, Tracked
    <3>3. Ours(k)
      BY <1>7, <3>1, <3>2, NearAtComment
    <3>4. Ours(k)'
      BY <1>4, <1>8, <1>9, <3>3 DEF Ours, Observed
    <3> QED
      BY <3>4 DEF Near
  <2>2. PlacedSound
    BY Facts DEF IssueKept
  <2>3. Projects(k) => placed \cap issue.labels \subseteq intents[k].expected.labels \cup {RouteOf(k)}
    BY <2>2 DEF PlacedSound
  <2>4. Projects(k)' =>
            placed' \cap issue'.labels \subseteq intents'[k].expected.labels \cup {RouteOf(k)'}
    BY <1>4, <1>8, <1>9, <1>10, <1>11, <2>3
  <2>5. ASSUME ~Projects(k)', \A j \in Keys : intents'[j].status # "conflict",
               NEW l \in placed' \cap issue'.labels
        PROVE  latest' \in Keys /\ l = RouteOf(latest)'
    <3>1. CASE Automatic(k)
      <4>1. last /\ latest' = k /\ intents[k].done = 6
        BY <1>3, <1>10, <1>11, <2>5, <3>1
      <4>2. Shows(k) /\ l \in Routes
        BY <1>4, <1>7, <1>10, <2>2, <2>5, <3>1 DEF PlacedSound
      <4>3. intents[k].expected.labels \cap Routes \subseteq {RouteOf(k)}
        BY <4>1, <4>2 DEF Shows
      <4>4. l = RouteOf(k)
        BY <1>4, <1>10, <2>3, <2>5, <3>1, <4>2, <4>3
      <4> QED
        BY <1>11, <4>1, <4>4 DEF RouteOf
    <3>2. CASE ~Automatic(k)
      <4>1. \A j \in Keys : intents[j].status # "conflict" /\ ~Projects(j)
        BY <1>5, <1>7, <1>9, <2>5, <3>2 DEF Projects, Unfinished
      <4>2. latest \in Keys /\ l = RouteOf(latest)
        BY <1>4, <2>2, <2>5, <4>1 DEF PlacedSound
      <4> QED
        BY <1>3, <1>4, <3>2, <4>2 DEF RouteOf
    <3> QED
      BY <3>1, <3>2
  <2>6. issue' \in Issue /\ touched' \in BOOLEAN /\ placed' \subseteq Routes
    BY <1>4, <2>2, Facts DEF IssueKept, PlacedSound
  <2> QED
    BY <1>4, <1>7, <1>9, <2>1, <2>4, <2>5, <2>6, IssueWritten
<1>15. AttemptsKept' /\ CommentsKept'
  BY <1>3, AttemptsStay, CommentsStay
<1>16. PollKept'
  <2>1. /\ poll' \in Poll /\ poll'.at = "publish" /\ poll'.key = k /\ poll'.label = NoKey
        /\ poll'.then = poll.then
    BY <1>2, <1>3, <1>5 DEF Poll, Places
  <2>2. WritesAt(k)'
    BY <2>1, AtPublish
  <2> QED
    BY <1>1, <1>2, <1>4, <1>9, <2>1, <2>2, PollGoesOn DEF Publishing
<1> QED
  BY <1>13, <1>14, <1>15, <1>16, StepKeeps

----------------------------------------------------------------------------
(* Changes to the issue *)

\* What a step is to make of the issue shows that the step is done.
LEMMA DesiredShows ==
    ASSUME NEW k, NEW p \in Projection, intents[k].expected \in Projection,
           Automatic(k), intents[k].done \in 0..6, Shows(k), Step(k) \in MutationSteps,
           RouteOf(k) \in Routes,
           p = Desired(k) \/ (Stays(k) /\ p = intents[k].expected)
    PROVE  /\ intents[k].done + 1 >= 2 => RouteOf(k) \in p.labels
           /\ intents[k].done + 1 >= 3 /\ RouteColumn[RouteOf(k)] # NoColumn
                => p.column = RouteColumn[RouteOf(k)]
           /\ intents[k].done + 1 >= 4 => p.labels \cap Routes \subseteq {RouteOf(k)}
           /\ intents[k].done + 1 >= 6 => Intake \notin p.labels
<1> DEFINE e == intents[k].expected
           R == RouteOf(k)
           n == intents[k].done
<1>1. /\ n >= 2 => R \in e.labels
      /\ n >= 3 /\ RouteColumn[R] # NoColumn => e.column = RouteColumn[R]
      /\ n >= 4 => e.labels \cap Routes \subseteq {R}
      /\ n >= 6 => Intake \notin e.labels
  BY DEF Shows
<1>2. CASE Step(k) = "route_label"
  <2>1. n = 1 /\ ~Stays(k)
    BY <1>2, DoneIs DEF Stays
  <2>2. p.labels = e.labels \cup {R}
    BY <1>2, <2>1, DesiredIs
  <2> QED
    BY <2>1, <2>2
<1>3. CASE Step(k) = "project_state"
  <2>1. n = 2
    BY <1>3, DoneIs
  <2>2. p.labels = e.labels /\ (RouteColumn[R] # NoColumn => p.column = RouteColumn[R])
    BY <1>3, DesiredIs DEF Stays
  <2> QED
    BY <1>1, <2>1, <2>2
<1>4. CASE Step(k) = "conflict_cleanup"
  <2>1. n = 3 /\ ~Stays(k)
    BY <1>4, DoneIs DEF Stays
  <2>2. p.labels = e.labels \ (Routes \ {R}) /\ p.column = e.column
    BY <1>4, <2>1, DesiredIs
  <2> QED
    BY <1>1, <2>1, <2>2
<1>5. CASE Step(k) = "intake_removed"
  <2>1. n = 5 /\ ~Stays(k)
    BY <1>5, DoneIs DEF Stays
  <2>2. p.labels = e.labels \ {Intake} /\ p.column = e.column
    BY <1>5, <2>1, DesiredIs
  <2> QED
    BY <1>1, <2>1, <2>2
<1> QED
  BY <1>2, <1>3, <1>4, <1>5 DEF MutationSteps

LEMMA StepRecorded ==
    ASSUME IInv, NEW k \in Keys, intents[k].status = "pending", Projects(k),
           Step(k) \in MutationSteps, NEW p \in Projection,
           intents' = [intents EXCEPT ![k].done = intents[k].done + 1, ![k].expected = p],
           UNCHANGED <<artifacts, latest, issue, ghost_vars>>,
           p = Desired(k) \/ (Stays(k) /\ p = intents[k].expected),
           ~touched => Observed = p,
           placed \cap issue.labels \subseteq p.labels \cup {RouteOf(k)}
    PROVE  IntentsKept' /\ IssueKept' /\ Unfinished' = Unfinished
<1> DEFINE x == [intents[k] EXCEPT !.done = intents[k].done + 1, !.expected = p]
<1>1. /\ artifacts' = artifacts /\ latest' = latest /\ issue' = issue
      /\ touched' = touched /\ placed' = placed
  BY DEF ghost_vars
<1>2. /\ Unfinished = {k} /\ intents[k] \in Intent /\ intents[k].expected \in Projection
      /\ intents[k].done \in 0..6
      /\ Automatic(k) => artifacts[k[2]] # NoRoute /\ RouteOf(k) \in Routes
  BY UnfinishedIs
<1>3. Automatic(k) /\ intents[k].baselined /\ Shows(k)
  BY UnfinishedIs DEF Projects
<1>4. intents[k].done \in 1..5
  BY <1>2, <1>3, DoneIs DEF MutationSteps
<1>5. /\ x \in Intent /\ x.done = intents[k].done + 1 /\ x.expected = p
      /\ x.status = "pending" /\ x.baselined = intents[k].baselined
  <2>1. intents[k].done + 1 \in 0..Len(AutomaticSteps)
    BY <1>4, StepsAre
  <2> QED
    BY <1>2, <2>1 DEF Intent
<1>6. intents' = [intents EXCEPT ![k] = x]
  BY <1>2
<1> HIDE DEF x
<1>7. /\ intents'[k] = x /\ \A j \in Keys : j # k => intents'[j] = intents[j]
      /\ Unfinished' = Unfinished
  <2>1. /\ intents'[k] = x /\ \A j \in Keys : j # k => intents'[j] = intents[j]
        /\ Unfinished' = Unfinished \cup {k}
    BY <1>5, <1>6, IntentPut, Zenon
  <2> QED
    BY <1>2, <2>1
<1>8. RouteOf(k)' = RouteOf(k) /\ Projects(k)'
  BY <1>1, <1>3, <1>5, <1>7 DEF RouteOf, Projects, Automatic
<1>9. Shows(k)'
  <2>1. /\ intents[k].done + 1 >= 2 => RouteOf(k) \in p.labels
        /\ intents[k].done + 1 >= 3 /\ RouteColumn[RouteOf(k)] # NoColumn
             => p.column = RouteColumn[RouteOf(k)]
        /\ intents[k].done + 1 >= 4 => p.labels \cap Routes \subseteq {RouteOf(k)}
        /\ intents[k].done + 1 >= 6 => Intake \notin p.labels
    BY <1>2, <1>3, DesiredShows
  <2> QED
    BY <1>5, <1>7, <1>8, <2>1 DEF Shows
<1>10. IntentsKept'
  <2>1. x.done < 7 /\ ((~Automatic(k) \/ ~x.baselined) => x.done = 0)
    BY <1>3, <1>4, <1>5
  <2>2. Unfinished \subseteq {k} /\ artifacts[k[2]] # NoRoute
    BY <1>2, <1>3
  <2> QED
    BY <1>1, <1>5, <1>6, <1>9, <2>1, <2>2, IntentWritten, Zenon
<1>11. IssueKept'
  <2>1. ~touched' => Near(k)'
    BY <1>1, <1>5, <1>7 DEF Near, Ours, Observed
  <2>2. placed' \cap issue'.labels \subseteq intents'[k].expected.labels \cup {RouteOf(k)'}
    BY <1>1, <1>5, <1>7, <1>8
  <2>3. issue' \in Issue /\ touched' \in BOOLEAN /\ placed' \subseteq Routes
    BY <1>1, Facts DEF IssueKept, PlacedSound
  <2> QED
    BY <1>1, <1>2, <1>7, <1>8, <2>1, <2>2, <2>3, IssueWritten
<1> QED
  BY <1>7, <1>10, <1>11

LEMMA SkipColumnKeeps == ASSUME IInv, SkipColumn PROVE IInv'
<1>1. /\ Due(MutationSteps) /\ NoColumnChange
      /\ intents' = [intents EXCEPT ![poll.key].done = intents[poll.key].done + 1,
                                    ![poll.key].expected = intents[poll.key].expected]
      /\ UNCHANGED <<run_status, attempts, artifacts, latest, observations, issue,
                     comments, agents, poll_vars, mode, disturbances, ghost_vars>>
  BY DEF SkipColumn, RecordStep, IntentOf
<1>2. PICK k \in Keys : k = poll.key
  BY <1>1, DueIs
<1>3. /\ poll.at = "publish" /\ poll.label = NoKey /\ poll \in Poll
      /\ intents[k].status = "pending" /\ Step(k) \in MutationSteps
  BY <1>1, <1>2, DueIs
<1>4. Automatic(k) /\ Stays(k)
  <2>1. Step(k) = "project_state" /\ Stays(k)
    BY <1>1, <1>2 DEF NoColumnChange, Stays
  <2> QED
    BY <2>1, StepIs
<1>5. Projects(k)
  BY <1>1, <1>2, <1>4, DueIs
<1>6. intents[k].expected \in Projection
  BY Facts
<1>7. ~touched => Observed = intents[k].expected
  <2>1. ToRemove(k) = {}
    BY <1>4, <1>6, RemovalIs DEF Stays
  <2>2. ~touched => Near(k)
    BY <1>5, Facts DEF IssueKept, Tracked
  <2> QED
    BY <1>4, <2>1, <2>2 DEF Near, Ours
<1>8. placed \cap issue.labels \subseteq intents[k].expected.labels \cup {RouteOf(k)}
  BY <1>5, Facts DEF IssueKept, PlacedSound
<1>9. IntentsKept' /\ IssueKept' /\ Unfinished' = Unfinished
  BY <1>1, <1>2, <1>3, <1>4, <1>5, <1>6, <1>7, <1>8, StepRecorded
<1>10. AttemptsKept' /\ CommentsKept'
  BY <1>1, AttemptsStay, CommentsStay
<1>11. PollKept'
  <2>1. poll' = poll /\ todo' = todo
    BY <1>1 DEF poll_vars
  <2>2. WritesAt(k)'
    BY <1>3, <2>1, AtPublish
  <2> QED
    BY <1>1, <1>2, <1>3, <1>9, <2>1, <2>2, PollGoesOn DEF Publishing
<1> QED
  BY <1>9, <1>10, <1>11, StepKeeps

LEMMA AlreadyDesiredKeeps == ASSUME IInv, AlreadyDesired PROVE IInv'
<1>1. /\ Due(MutationSteps) /\ Reached(poll.key)
      /\ intents' = [intents EXCEPT ![poll.key].done = intents[poll.key].done + 1,
                                    ![poll.key].expected = Desired(poll.key)]
      /\ UNCHANGED <<run_status, attempts, artifacts, latest, observations, issue,
                     comments, agents, poll_vars, mode, disturbances, ghost_vars>>
  BY DEF AlreadyDesired, RecordStep
<1>2. PICK k \in Keys : k = poll.key
  BY <1>1, DueIs
<1>3. /\ poll.at = "publish" /\ poll.label = NoKey /\ poll \in Poll
      /\ intents[k].status = "pending" /\ Step(k) \in MutationSteps
  BY <1>1, <1>2, DueIs
<1>4. Automatic(k)
  BY <1>3, StepIs DEF MutationSteps
<1>5. Projects(k)
  BY <1>1, <1>2, <1>4, DueIs
<1>6. Observed = Desired(k) /\ Desired(k) \in Projection
  BY <1>1, <1>2, Facts DEF Reached
<1>7. placed \cap issue.labels \subseteq Desired(k).labels
  BY <1>6 DEF Observed
<1>8. IntentsKept' /\ IssueKept' /\ Unfinished' = Unfinished
  BY <1>1, <1>2, <1>3, <1>5, <1>6, <1>7, StepRecorded
<1>9. AttemptsKept' /\ CommentsKept'
  BY <1>1, AttemptsStay, CommentsStay
<1>10. PollKept'
  <2>1. poll' = poll /\ todo' = todo
    BY <1>1 DEF poll_vars
  <2>2. WritesAt(k)'
    BY <1>3, <2>1, AtPublish
  <2> QED
    BY <1>1, <1>2, <1>3, <1>8, <2>1, <2>2, PollGoesOn DEF Publishing
<1> QED
  BY <1>8, <1>9, <1>10, StepKeeps

LEMMA FindConflictKeeps == ASSUME IInv, FindConflict PROVE IInv'
<1>1. /\ Due(MutationSteps) /\ intents' = [intents EXCEPT ![poll.key].status = "conflict"]
      /\ UNCHANGED <<run_status, attempts, artifacts, latest, observations, issue,
                     comments, agents, poll_vars, mode, disturbances, ghost_vars>>
  BY DEF FindConflict, MarkConflict
<1>2. PICK k \in Keys : k = poll.key
  BY <1>1, DueIs
<1>3. /\ poll.at = "publish" /\ poll.label = NoKey /\ poll \in Poll
      /\ intents[k].status = "pending"
  BY <1>1, <1>2, DueIs
<1>4. /\ artifacts' = artifacts /\ latest' = latest /\ issue' = issue
      /\ touched' = touched /\ placed' = placed /\ poll' = poll /\ todo' = todo
  BY <1>1 DEF ghost_vars, poll_vars
<1> DEFINE x == [intents[k] EXCEPT !.status = "conflict"]
<1>5. /\ Unfinished = {k} /\ intents[k] \in Intent
      /\ Automatic(k) => artifacts[k[2]] # NoRoute
  BY <1>3, UnfinishedIs
<1>6. x \in Intent /\ x.status = "conflict" /\ intents' = [intents EXCEPT ![k] = x]
  BY <1>1, <1>2, <1>5 DEF Intent
<1> HIDE DEF x
<1>7. /\ intents'[k] = x /\ \A j \in Keys : j # k => intents'[j] = intents[j]
      /\ Unfinished' \subseteq Unfinished
  BY <1>5, <1>6, IntentPut
<1>8. ~Projects(k)'
  BY <1>6, <1>7 DEF Projects
<1>9. IntentsKept'
  BY <1>4, <1>5, <1>6, <1>8, IntentWritten
<1>10. IssueKept'
  <2>1. issue' \in Issue /\ touched' \in BOOLEAN /\ placed' \subseteq Routes
    BY <1>4, Facts DEF IssueKept, PlacedSound
  <2>2. ~\A j \in Keys : intents'[j].status # "conflict"
    BY <1>6, <1>7
  <2> QED
    BY <1>4, <1>5, <1>7, <1>8, <2>1, <2>2, IssueWritten
<1>11. AttemptsKept' /\ CommentsKept'
  BY <1>1, AttemptsStay, CommentsStay
<1>12. PollKept'
  <2>1. WritesAt(k)'
    BY <1>3, <1>4, AtPublish
  <2> QED
    BY <1>1, <1>2, <1>3, <1>4, <1>7, <2>1, PollGoesOn DEF Publishing
<1> QED
  BY <1>9, <1>10, <1>11, <1>12, StepKeeps

LEMMA EnsureBaselineKeeps == ASSUME IInv, EnsureBaseline PROVE IInv'
<1>1. /\ poll.at = "publish" /\ intents[poll.key].status = "pending" /\ Automatic(poll.key)
      /\ ~intents[poll.key].baselined
      /\ intents' = [intents EXCEPT ![poll.key].baselined = TRUE, ![poll.key].expected = Observed]
      /\ touched' = FALSE
      /\ UNCHANGED <<run_status, attempts, artifacts, latest, observations, issue,
                     comments, agents, poll_vars, mode, disturbances, placed>>
  BY DEF EnsureBaseline, SetBaseline, IntentOf
<1>2. PICK k \in Keys : k = poll.key
  BY <1>1, MineIs DEF Publishing
<1>3. poll.label = NoKey /\ poll \in Poll
  BY <1>1, MineIs DEF WritesAt, Publishing
<1>4. poll' = poll /\ todo' = todo
  BY <1>1 DEF poll_vars
<1> DEFINE x == [intents[k] EXCEPT !.baselined = TRUE, !.expected = Observed]
<1>5. /\ Unfinished = {k} /\ intents[k] \in Intent /\ intents[k].done = 0
      /\ artifacts[k[2]] # NoRoute
  BY <1>1, <1>2, UnfinishedIs
<1>6. /\ x \in Intent /\ x.status = "pending" /\ x.done = 0
      /\ x.expected = Observed
  BY <1>1, <1>2, <1>5, Facts DEF Intent
<1>7. x.baselined
  BY <1>5 DEF Intent
<1>8. intents' = [intents EXCEPT ![k] = x]
  BY <1>1, <1>2
<1> HIDE DEF x
<1>9. /\ intents'[k] = x /\ \A j \in Keys : j # k => intents'[j] = intents[j]
      /\ Unfinished' \subseteq Unfinished
  <2>1. /\ intents'[k] = x /\ \A j \in Keys : j # k => intents'[j] = intents[j]
        /\ Unfinished' = Unfinished \cup {k}
    BY <1>6, <1>8, IntentPut, Zenon
  <2> QED
    BY <1>5, <2>1
<1>10. Shows(k)'
  BY <1>6, <1>9 DEF Shows
<1>11. IntentsKept'
  <2>1. x.done < 7 /\ ((~Automatic(k) \/ ~x.baselined) => x.done = 0)
    BY <1>6
  <2>2. Unfinished \subseteq {k} /\ artifacts' = artifacts /\ latest' = latest
    BY <1>1, <1>5
  <2> QED
    BY <1>5, <1>6, <1>8, <1>10, <2>1, <2>2, IntentWritten, Zenon
<1>12. IssueKept'
  <2>1. issue' = issue /\ placed' = placed /\ artifacts' = artifacts
    BY <1>1
  <2>2. Near(k)'
    BY <1>6, <1>9, <2>1 DEF Near, Ours, Observed
  <2>3. placed' \cap issue'.labels \subseteq intents'[k].expected.labels
    BY <1>6, <1>9, <2>1 DEF Observed
  <2>4. Projects(k)'
    BY <1>1, <1>2, <1>6, <1>7, <1>9 DEF Projects, Automatic
  <2>5. issue' \in Issue /\ touched' \in BOOLEAN /\ placed' \subseteq Routes
    BY <1>1, <2>1, Facts DEF IssueKept, PlacedSound
  <2> QED
    BY <1>5, <1>9, <2>1, <2>2, <2>3, <2>4, <2>5, IssueWritten
<1>13. AttemptsKept' /\ CommentsKept'
  BY <1>1, AttemptsStay, CommentsStay
<1>14. PollKept'
  <2>1. WritesAt(k)'
    BY <1>1, <1>3, <1>4, AtPublish
  <2> QED
    BY <1>1, <1>2, <1>3, <1>4, <1>9, <2>1, PollGoesOn DEF Publishing
<1> QED
  BY <1>11, <1>12, <1>13, <1>14, StepKeeps

LEMMA MayMutateKeeps == ASSUME IInv, MayMutate PROVE IInv'
<1>1. /\ Due(MutationSteps) /\ ~NoColumnChange /\ Ours(poll.key)
      /\ poll' = [poll EXCEPT !.at = "mutate"]
      /\ UNCHANGED <<store_vars, issue, comments, agents, todo, mode, disturbances, ghost_vars>>
  BY DEF MayMutate, Goto
<1>2. PICK k \in Keys : k = poll.key
  BY <1>1, DueIs
<1>3. /\ poll.at = "publish" /\ poll.label = NoKey /\ poll \in Poll
      /\ intents[k].status = "pending" /\ Step(k) \in MutationSteps
  BY <1>1, <1>2, DueIs
<1>4. ~Stays(k) /\ Ours(k) /\ (Automatic(k) => intents[k].baselined)
  BY <1>1, <1>2, DueIs DEF NoColumnChange, Stays, Projects
<1>5. /\ AttemptsKept' /\ IntentsKept' /\ CommentsKept' /\ IssueKept' /\ Unfinished' = Unfinished
      /\ artifacts' = artifacts /\ intents' = intents
  BY <1>1, WorldStays
<1>6. /\ poll' \in Poll /\ poll'.at = "mutate" /\ poll'.key = k /\ poll'.label = NoKey
      /\ poll'.then = poll.then
  BY <1>1, <1>2, <1>3 DEF Poll, Places
<1>7. WritesAt(k)'
  <2>1. Step(k)' = Step(k) /\ Stays(k)' = Stays(k) /\ Ours(k)' = Ours(k)
    BY <1>1, <1>5, PublicationStays, NearStays
  <2> QED
    BY <1>3, <1>4, <1>5, <1>6, <2>1 DEF WritesAt, Automatic
<1>8. PollKept'
  BY <1>1, <1>2, <1>3, <1>5, <1>6, <1>7, PollGoesOn DEF Publishing
<1> QED
  BY <1>5, <1>8, StepKeeps

\* The issue is changed for the publication.
LEMMA IssueMoved ==
    ASSUME IInv, NEW k \in Keys, intents[k].status = "pending", Projects(k),
           UNCHANGED <<artifacts, intents, latest, touched>>, issue' \in Issue,
           placed' \subseteq Routes, ~touched => Near(k)',
           placed' \cap issue'.labels \subseteq intents[k].expected.labels \cup {RouteOf(k)}
    PROVE  IntentsKept' /\ IssueKept' /\ Unfinished' = Unfinished
<1>1. /\ artifacts' = artifacts /\ intents' = intents /\ latest' = latest /\ touched' = touched
  OBVIOUS
<1>2. DecisionsStay
  BY <1>1 DEF DecisionsStay
<1>3. IntentsKept' /\ Unfinished' = Unfinished
  BY <1>1, <1>2, IntentsStay
<1>4. Unfinished = {k}
  BY UnfinishedIs
<1>5. Projects(k)' /\ RouteOf(k)' = RouteOf(k)
  BY <1>1, PublicationStays
<1>6. touched' \in BOOLEAN
  BY <1>1, Facts DEF IssueKept
<1>7. IssueKept'
  BY <1>1, <1>4, <1>5, <1>6, IssueWritten
<1> QED
  BY <1>3, <1>7

\* What a poll that changes the issue is at.
LEMMA MutateIs ==
    ASSUME IInv, poll.at \in {"mutate", "mutated"}
    PROVE  /\ poll.key \in Keys /\ poll \in Poll /\ poll.at \in Publishing
           /\ intents[poll.key].status = "pending" /\ Projects(poll.key)
           /\ Automatic(poll.key) /\ intents[poll.key].expected \in Projection
           /\ RouteOf(poll.key) \in Routes
           /\ RouteColumn[RouteOf(poll.key)] \in Columns \cup {NoColumn}
           /\ Step(poll.key) \in MutationSteps /\ ~Stays(poll.key)
           /\ placed \subseteq Routes
           /\ placed \cap issue.labels
                \subseteq intents[poll.key].expected.labels \cup {RouteOf(poll.key)}
<1>1. poll.at \in Writing /\ poll.at \in Publishing
  BY DEF Writing, Publishing
<1>2. /\ poll.key \in Keys /\ poll \in Poll /\ intents[poll.key].status = "pending"
      /\ Automatic(poll.key) => Projects(poll.key)
  BY <1>1, WritingIs
<1>3. Step(poll.key) \in MutationSteps /\ ~Stays(poll.key)
  BY <1>1, MineIs DEF WritesAt
<1>4. Automatic(poll.key)
  BY <1>3, StepIs DEF MutationSteps
<1>5. /\ intents[poll.key].expected \in Projection /\ RouteOf(poll.key) \in Routes
      /\ RouteColumn[RouteOf(poll.key)] \in Columns \cup {NoColumn}
  BY <1>2, <1>4, UnfinishedIs
<1>6. PlacedSound
  BY Facts DEF IssueKept
<1>7. placed \cap issue.labels
          \subseteq intents[poll.key].expected.labels \cup {RouteOf(poll.key)}
  BY <1>2, <1>4, <1>6 DEF PlacedSound
<1> QED
  BY <1>1, <1>2, <1>3, <1>4, <1>5, <1>6, <1>7 DEF PlacedSound

LEMMA AddRouteLabelKeeps == ASSUME IInv, AddRouteLabel PROVE IInv'
<1>1. /\ poll.at = "mutate" /\ Step(poll.key) = "route_label"
      /\ issue' = [issue EXCEPT !.labels = issue.labels \cup {RouteOf(poll.key)}]
      /\ placed' = placed \cup ({RouteOf(poll.key)} \ issue.labels)
      /\ poll' = [poll EXCEPT !.at = "mutated"]
      /\ UNCHANGED <<store_vars, comments, agents, todo, mode, disturbances, touched>>
  BY DEF AddRouteLabel, Goto
<1>2. PICK k \in Keys : k = poll.key
  BY <1>1, MutateIs
<1>3. /\ poll \in Poll /\ poll.at \in Publishing /\ intents[k].status = "pending" /\ Projects(k)
      /\ intents[k].expected \in Projection /\ RouteOf(k) \in Routes
      /\ Step(k) = "route_label" /\ Step(k) \in MutationSteps /\ ~Stays(k)
      /\ placed \subseteq Routes
      /\ placed \cap issue.labels \subseteq intents[k].expected.labels \cup {RouteOf(k)}
  BY <1>1, <1>2, MutateIs
<1>4. poll.label = NoKey /\ (~touched => Ours(k))
  BY <1>1, <1>2, <1>3, MineIs DEF WritesAt
<1>5. /\ run_status' = run_status /\ attempts' = attempts /\ artifacts' = artifacts
      /\ intents' = intents /\ latest' = latest /\ observations' = observations
      /\ touched' = touched
  BY <1>1 DEF store_vars
<1>6. /\ issue' \in Issue /\ issue'.labels = issue.labels \cup {RouteOf(k)}
      /\ issue'.column = issue.column
  <2>1. issue \in Issue
    BY Facts DEF IssueKept
  <2> QED
    BY <1>1, <1>2, <1>3, <2>1 DEF Issue, Labels
<1>7. /\ Step(k)' = Step(k) /\ Stays(k)' = Stays(k) /\ Desired(k)' = Desired(k)
  BY <1>5, PublicationStays
<1>8. ~touched => Reached(k)'
  <2>1. ASSUME ~touched
        PROVE  /\ issue.labels = intents[k].expected.labels
               /\ issue.column = intents[k].expected.column
    BY <1>4, <2>1 DEF Ours, Observed
  <2>2. Desired(k) = [labels |-> intents[k].expected.labels \cup {RouteOf(k)},
                      column |-> intents[k].expected.column]
    BY <1>3, DesiredIs
  <2> QED
    BY <1>6, <1>7, <2>1, <2>2 DEF Reached, Observed
<1>9. ~touched => Near(k)'
  BY <1>3, <1>7, <1>8 DEF Near
<1>10. /\ placed' \subseteq Routes
       /\ placed' \cap issue'.labels \subseteq intents[k].expected.labels \cup {RouteOf(k)}
  BY <1>1, <1>2, <1>3, <1>6
<1>11. IntentsKept' /\ IssueKept' /\ Unfinished' = Unfinished
  BY <1>3, <1>5, <1>6, <1>9, <1>10, IssueMoved
<1>12. AttemptsKept' /\ CommentsKept'
  BY <1>1, <1>5, AttemptsStay, CommentsStay
<1>13. /\ poll' \in Poll /\ poll'.at = "mutated" /\ poll'.key = k /\ poll'.label = NoKey
       /\ poll'.then = poll.then
  BY <1>1, <1>2, <1>3, <1>4 DEF Poll, Places
<1>14. WritesAt(k)'
  BY <1>3, <1>5, <1>7, <1>8, <1>13 DEF WritesAt, Projects, Automatic
<1>15. PollKept'
  BY <1>1, <1>2, <1>3, <1>11, <1>13, <1>14, PollGoesOn DEF Publishing
<1> QED
  BY <1>11, <1>12, <1>15, StepKeeps

LEMMA SetColumnKeeps == ASSUME IInv, SetColumn PROVE IInv'
<1>1. /\ poll.at = "mutate" /\ Step(poll.key) = "project_state"
      /\ issue' = [issue EXCEPT !.column = RouteColumn[RouteOf(poll.key)]]
      /\ poll' = [poll EXCEPT !.at = "mutated"]
      /\ UNCHANGED <<store_vars, comments, agents, todo, mode, disturbances, ghost_vars>>
  BY DEF SetColumn, Goto
<1>2. PICK k \in Keys : k = poll.key
  BY <1>1, MutateIs
<1>3. /\ poll \in Poll /\ poll.at \in Publishing /\ intents[k].status = "pending" /\ Projects(k)
      /\ intents[k].expected \in Projection
      /\ RouteColumn[RouteOf(k)] \in Columns \cup {NoColumn}
      /\ Step(k) = "project_state" /\ Step(k) \in MutationSteps /\ ~Stays(k)
      /\ placed \subseteq Routes
      /\ placed \cap issue.labels \subseteq intents[k].expected.labels \cup {RouteOf(k)}
  BY <1>1, <1>2, MutateIs
<1>4. poll.label = NoKey /\ (~touched => Ours(k))
  BY <1>1, <1>2, <1>3, MineIs DEF WritesAt
<1>5. /\ run_status' = run_status /\ attempts' = attempts /\ artifacts' = artifacts
      /\ intents' = intents /\ latest' = latest /\ observations' = observations
      /\ touched' = touched /\ placed' = placed
  BY <1>1 DEF store_vars, ghost_vars
<1>6. /\ issue' \in Issue /\ issue'.labels = issue.labels
      /\ issue'.column = RouteColumn[RouteOf(k)]
  <2>1. issue \in Issue
    BY Facts DEF IssueKept
  <2> QED
    BY <1>1, <1>2, <1>3, <2>1 DEF Issue
<1>7. /\ Step(k)' = Step(k) /\ Stays(k)' = Stays(k) /\ Desired(k)' = Desired(k)
  BY <1>5, PublicationStays
<1>8. ~touched => Reached(k)'
  <2>1. ASSUME ~touched PROVE issue.labels = intents[k].expected.labels
    BY <1>4, <2>1 DEF Ours, Observed
  <2>2. Desired(k) = [labels |-> intents[k].expected.labels, column |-> RouteColumn[RouteOf(k)]]
    BY <1>3, DesiredIs
  <2> QED
    BY <1>6, <1>7, <2>1, <2>2 DEF Reached, Observed
<1>9. ~touched => Near(k)'
  BY <1>3, <1>7, <1>8 DEF Near
<1>10. IntentsKept' /\ IssueKept' /\ Unfinished' = Unfinished
  BY <1>3, <1>5, <1>6, <1>9, IssueMoved
<1>11. AttemptsKept' /\ CommentsKept'
  BY <1>1, <1>5, AttemptsStay, CommentsStay
<1>12. /\ poll' \in Poll /\ poll'.at = "mutated" /\ poll'.key = k /\ poll'.label = NoKey
       /\ poll'.then = poll.then
  BY <1>1, <1>2, <1>3, <1>4 DEF Poll, Places
<1>13. WritesAt(k)'
  BY <1>3, <1>5, <1>7, <1>8, <1>12 DEF WritesAt, Projects, Automatic
<1>14. PollKept'
  BY <1>1, <1>2, <1>3, <1>10, <1>12, <1>13, PollGoesOn DEF Publishing
<1> QED
  BY <1>10, <1>11, <1>14, StepKeeps

\* A label that is to go is the intake, or that of another route.
LEMMA RemovedIs ==
    ASSUME NEW k, intents[k].expected \in Projection, Step(k) \in MutationSteps,
           NEW l \in ToRemove(k), RouteOf(k) \in Routes
    PROVE  /\ Step(k) \in {"conflict_cleanup", "intake_removed"}
           /\ Step(k) = "conflict_cleanup" => l \in Routes
           /\ Step(k) = "intake_removed" => l = Intake
           /\ l \in Labels /\ l # NoKey /\ l # RouteOf(k)
           /\ l \in intents[k].expected.labels
<1>1. Step(k) \in {"conflict_cleanup", "intake_removed"}
  BY RemovalIs
<1>2. CASE Step(k) = "conflict_cleanup"
  BY <1>2, RemovalIs DEF Labels
<1>3. CASE Step(k) = "intake_removed"
  BY <1>3, RemovalIs DEF Labels
<1> QED
  BY <1>1, <1>2, <1>3

LEMMA RemoveLabelKeeps == ASSUME IInv, RemoveLabel PROVE IInv'
<1>1. /\ poll.at = "mutate"
      /\ UNCHANGED <<store_vars, comments, agents, todo, mode, disturbances, ghost_vars>>
  BY DEF RemoveLabel
<1>2. PICK k \in Keys : k = poll.key
  BY <1>1, MutateIs
<1>3. PICK l \in ToRemove(k) : /\ issue' = [issue EXCEPT !.labels = issue.labels \ {l}]
                               /\ poll' = [poll EXCEPT !.at = "mutated", !.label = l]
  BY <1>2 DEF RemoveLabel
<1>4. /\ poll \in Poll /\ poll.at \in Publishing /\ intents[k].status = "pending" /\ Projects(k)
      /\ intents[k].expected \in Projection /\ RouteOf(k) \in Routes
      /\ Step(k) \in MutationSteps /\ ~Stays(k) /\ placed \subseteq Routes
      /\ placed \cap issue.labels \subseteq intents[k].expected.labels \cup {RouteOf(k)}
  BY <1>1, <1>2, MutateIs
<1>5. ~touched => Ours(k)
  BY <1>1, <1>2, <1>4, MineIs DEF WritesAt
<1>6. /\ run_status' = run_status /\ attempts' = attempts /\ artifacts' = artifacts
      /\ intents' = intents /\ latest' = latest /\ observations' = observations
      /\ touched' = touched /\ placed' = placed
  BY <1>1 DEF store_vars, ghost_vars
<1>7. l \in Labels /\ l # NoKey
  BY <1>4, RemovedIs
<1>8. /\ issue' \in Issue /\ issue'.labels = issue.labels \ {l} /\ issue'.column = issue.column
  <2>1. issue \in Issue
    BY Facts DEF IssueKept
  <2> QED
    BY <1>3, <2>1 DEF Issue
<1>9. /\ Step(k)' = Step(k) /\ Stays(k)' = Stays(k) /\ ToRemove(k)' = ToRemove(k)
  BY <1>6, PublicationStays
<1>10. ~touched => Observed' = Without(k, l)'
  <2>1. ASSUME ~touched
        PROVE  /\ issue.labels = intents[k].expected.labels
               /\ issue.column = intents[k].expected.column
    BY <1>5, <2>1 DEF Ours, Observed
  <2>2. Without(k, l)' = [labels |-> intents[k].expected.labels \ {l},
                          column |-> intents[k].expected.column]
    BY <1>4, <1>6, ProjectionWith DEF Without
  <2> QED
    BY <1>8, <2>1, <2>2 DEF Observed
<1>11. ~touched => Near(k)'
  BY <1>9, <1>10 DEF Near
<1>12. placed' \cap issue'.labels \subseteq intents[k].expected.labels \cup {RouteOf(k)}
  BY <1>4, <1>6, <1>8
<1>13. IntentsKept' /\ IssueKept' /\ Unfinished' = Unfinished
  BY <1>4, <1>6, <1>8, <1>11, <1>12, IssueMoved
<1>14. AttemptsKept' /\ CommentsKept'
  BY <1>1, <1>6, AttemptsStay, CommentsStay
<1>15. /\ poll' \in Poll /\ poll'.at = "mutated" /\ poll'.key = k /\ poll'.label = l
       /\ poll'.then = poll.then
  BY <1>2, <1>3, <1>4, <1>7 DEF Poll, Places
<1>16. WritesAt(k)'
  <2>1. poll'.label \in ToRemove(k)' /\ poll'.label \notin placed' \cap issue'.labels
    BY <1>8, <1>9, <1>15
  <2>2. ~touched' => Observed' = Without(k, poll.label)'
    BY <1>6, <1>10, <1>15 DEF Without
  <2> QED
    BY <1>4, <1>6, <1>7, <1>9, <1>15, <2>1, <2>2 DEF WritesAt, Projects, Automatic
<1>17. PollKept'
  BY <1>1, <1>2, <1>4, <1>13, <1>15, <1>16, PollGoesOn DEF Publishing
<1> QED
  BY <1>13, <1>14, <1>17, StepKeeps

LEMMA RecordRemovalKeeps == ASSUME IInv, RecordRemoval PROVE IInv'
<1>1. /\ poll.at = "mutated" /\ poll.label # NoKey
      /\ intents' = [intents EXCEPT ![poll.key].expected.labels =
                         intents[poll.key].expected.labels \ {poll.label}]
      /\ poll' = [poll EXCEPT !.at = "mutate", !.label = NoKey]
      /\ UNCHANGED <<run_status, attempts, artifacts, latest, observations, issue,
                     comments, agents, todo, mode, disturbances, ghost_vars>>
  BY DEF RecordRemoval
<1>2. PICK k \in Keys : k = poll.key
  BY <1>1, MutateIs
<1>3. PICK l \in ToRemove(k) : /\ l = poll.label /\ l \notin placed \cap issue.labels
                               /\ ~touched => Observed = Without(k, l)
  BY <1>1, <1>2, MutateIs, MineIs DEF WritesAt
<1>4. /\ poll \in Poll /\ poll.at \in Publishing /\ intents[k].status = "pending" /\ Projects(k)
      /\ intents[k].expected \in Projection /\ RouteOf(k) \in Routes /\ Automatic(k)
      /\ Step(k) \in MutationSteps /\ ~Stays(k) /\ placed \subseteq Routes
      /\ placed \cap issue.labels \subseteq intents[k].expected.labels \cup {RouteOf(k)}
  BY <1>1, <1>2, MutateIs
<1>5. /\ artifacts' = artifacts /\ latest' = latest /\ issue' = issue
      /\ touched' = touched /\ placed' = placed
  BY <1>1 DEF ghost_vars
<1> DEFINE p == [labels |-> intents[k].expected.labels \ {l}, column |-> intents[k].expected.column]
           x == [intents[k] EXCEPT !.expected = p]
<1>6. /\ Without(k, l) = p /\ p \in Projection
      /\ p.labels = intents[k].expected.labels \ {l} /\ p.column = intents[k].expected.column
  BY <1>4, ProjectionWith DEF Without, Projection
<1>7. /\ Unfinished = {k} /\ intents[k] \in Intent /\ intents[k].done \in 0..6
      /\ artifacts[k[2]] # NoRoute /\ Shows(k) /\ intents[k].baselined
  BY <1>4, UnfinishedIs DEF Projects
<1>8. intents' = [intents EXCEPT ![k] = x]
  <2>1. [intents[k].expected EXCEPT !.labels = intents[k].expected.labels \ {l}] = p
    BY <1>4, ProjectionWith
  <2>2. intents' = [intents EXCEPT ![k].expected =
                        [intents[k].expected EXCEPT !.labels = intents[k].expected.labels \ {l}]]
    BY <1>1, <1>2, <1>3
  <2> QED
    BY <2>1, <2>2
<1> HIDE DEF p
<1>9. /\ x \in Intent /\ x.status = "pending" /\ x.done = intents[k].done /\ x.expected = p
      /\ x.baselined = intents[k].baselined
  BY <1>4, <1>6, <1>7 DEF Intent
<1> HIDE DEF x
<1>10. /\ intents'[k] = x /\ \A j \in Keys : j # k => intents'[j] = intents[j]
       /\ Unfinished' = Unfinished
  <2>1. /\ intents'[k] = x /\ \A j \in Keys : j # k => intents'[j] = intents[j]
        /\ Unfinished' = Unfinished \cup {k}
    BY <1>8, <1>9, IntentPut, Zenon
  <2> QED
    BY <1>7, <2>1
<1>11. /\ Step(k)' = Step(k) /\ RouteOf(k)' = RouteOf(k) /\ Stays(k)' = Stays(k)
       /\ Projects(k)'
  <2>1. RouteOf(k)' = RouteOf(k)
    BY <1>5 DEF RouteOf
  <2>2. Step(k)' = Step(k)
    BY <1>9, <1>10 DEF Step, Automatic
  <2> QED
    BY <1>4, <1>7, <1>9, <1>10, <2>1, <2>2 DEF Stays, Projects, Automatic
<1>12. Shows(k)'
  <2>1. /\ l # RouteOf(k) /\ l \in intents[k].expected.labels
    BY <1>4, RemovedIs
  <2>2. /\ intents[k].done >= 2 => RouteOf(k) \in p.labels
        /\ intents[k].done >= 3 /\ RouteColumn[RouteOf(k)] # NoColumn
             => p.column = RouteColumn[RouteOf(k)]
        /\ intents[k].done >= 4 => p.labels \cap Routes \subseteq {RouteOf(k)}
        /\ intents[k].done >= 6 => Intake \notin p.labels
    BY <1>6, <1>7, <2>1 DEF Shows
  <2> QED
    BY <1>9, <1>10, <1>11, <2>2 DEF Shows
<1>13. IntentsKept'
  <2>1. x.done < 7 /\ ((~Automatic(k) \/ ~x.baselined) => x.done = 0)
    BY <1>4, <1>7, <1>9
  <2>2. Unfinished \subseteq {k}
    BY <1>7
  <2> QED
    BY <1>5, <1>7, <1>8, <1>9, <1>12, <2>1, <2>2, IntentWritten, Zenon
<1>14. ~touched => Ours(k)'
  BY <1>3, <1>5, <1>6, <1>9, <1>10 DEF Ours, Observed
<1>15. IssueKept'
  <2>1. ~touched' => Near(k)'
    BY <1>5, <1>14 DEF Near
  <2>2. placed' \cap issue'.labels \subseteq intents'[k].expected.labels \cup {RouteOf(k)'}
    BY <1>3, <1>4, <1>5, <1>6, <1>9, <1>10, <1>11
  <2>3. issue' \in Issue /\ touched' \in BOOLEAN /\ placed' \subseteq Routes
    BY <1>4, <1>5, Facts DEF IssueKept
  <2> QED
    BY <1>5, <1>7, <1>10, <1>11, <2>1, <2>2, <2>3, IssueWritten
<1>16. AttemptsKept' /\ CommentsKept'
  BY <1>1, AttemptsStay, CommentsStay
<1>17. /\ poll' \in Poll /\ poll'.at = "mutate" /\ poll'.key = k /\ poll'.label = NoKey
       /\ poll'.then = poll.then
  BY <1>1, <1>2, <1>4 DEF Poll, Places
<1>18. WritesAt(k)'
  BY <1>4, <1>5, <1>7, <1>9, <1>10, <1>11, <1>14, <1>17 DEF WritesAt, Automatic
<1>19. PollKept'
  BY <1>1, <1>2, <1>4, <1>10, <1>17, <1>18, PollGoesOn DEF Publishing
<1> QED
  BY <1>13, <1>15, <1>16, <1>19, StepKeeps

LEMMA RecordMutationKeeps == ASSUME IInv, RecordMutation PROVE IInv'
<1>1. /\ \/ poll.at = "mutated" /\ poll.label = NoKey
         \/ /\ poll.at = "mutate"
            /\ Step(poll.key) \in {"conflict_cleanup", "intake_removed"}
            /\ ToRemove(poll.key) = {}
      /\ intents' = [intents EXCEPT ![poll.key].done = intents[poll.key].done + 1,
                                    ![poll.key].expected = Desired(poll.key)]
      /\ poll' = [poll EXCEPT !.at = "publish"]
      /\ UNCHANGED <<run_status, attempts, artifacts, latest, observations, issue,
                     comments, agents, todo, mode, disturbances, ghost_vars>>
  BY DEF RecordMutation, RecordStep, Goto
<1>2. PICK k \in Keys : k = poll.key
  BY <1>1, MutateIs
<1>3. /\ poll \in Poll /\ poll.at \in Publishing /\ intents[k].status = "pending" /\ Projects(k)
      /\ intents[k].expected \in Projection /\ RouteOf(k) \in Routes
      /\ RouteColumn[RouteOf(k)] \in Columns \cup {NoColumn}
      /\ Step(k) \in MutationSteps
      /\ placed \cap issue.labels \subseteq intents[k].expected.labels \cup {RouteOf(k)}
  BY <1>1, <1>2, MutateIs
<1>4. WritesAt(k)
  BY <1>2, <1>3, MineIs
<1>5. poll.label = NoKey
  BY <1>1, <1>4 DEF WritesAt
<1>6. Desired(k) \in Projection
  BY <1>3, DesiredIs DEF Projection, MutationSteps, Labels
<1>7. /\ ~touched => Observed = Desired(k)
      /\ intents[k].expected.labels \subseteq Desired(k).labels
  <2>1. CASE poll.at = "mutated"
    <3>1. Step(k) \in {"route_label", "project_state"} /\ (~touched => Reached(k))
      BY <1>4, <1>5, <2>1 DEF WritesAt
    <3>2. intents[k].expected.labels \subseteq Desired(k).labels
      BY <1>3, <3>1, DesiredIs
    <3> QED
      BY <3>1, <3>2 DEF Reached
  <2>2. CASE poll.at = "mutate"
    <3>1. /\ Step(k) \in {"conflict_cleanup", "intake_removed"} /\ ToRemove(k) = {}
          /\ ~touched => Ours(k)
      BY <1>1, <1>2, <1>4, <2>2 DEF WritesAt
    <3>2. /\ Desired(k).labels = intents[k].expected.labels
          /\ Desired(k).column = intents[k].expected.column
      <4>1. /\ Desired(k).labels \subseteq intents[k].expected.labels
            /\ Desired(k).column = intents[k].expected.column
        BY <1>3, <3>1, DesiredIs
      <4> QED
        BY <3>1, <4>1 DEF ToRemove
    <3>3. Desired(k) = intents[k].expected
      BY <1>3, <1>6, <3>2 DEF Projection
    <3> QED
      BY <3>1, <3>2, <3>3 DEF Ours
  <2> QED
    BY <1>1, <2>1, <2>2
<1>8. placed \cap issue.labels \subseteq Desired(k).labels \cup {RouteOf(k)}
  BY <1>3, <1>7
<1>9. IntentsKept' /\ IssueKept' /\ Unfinished' = Unfinished
  BY <1>1, <1>2, <1>3, <1>6, <1>7, <1>8, StepRecorded
<1>10. AttemptsKept' /\ CommentsKept'
  BY <1>1, AttemptsStay, CommentsStay
<1>11. /\ poll' \in Poll /\ poll'.at = "publish" /\ poll'.key = k /\ poll'.label = NoKey
       /\ poll'.then = poll.then
  BY <1>1, <1>2, <1>3, <1>5 DEF Poll, Places
<1>12. WritesAt(k)'
  BY <1>11, AtPublish
<1>13. PollKept'
  BY <1>1, <1>2, <1>3, <1>9, <1>11, <1>12, PollGoesOn DEF Publishing
<1> QED
  BY <1>9, <1>10, <1>13, StepKeeps

----------------------------------------------------------------------------
(* Failures, time, people *)

LEMMA ForgeRefusesKeeps == ASSUME IInv, ForgeRefuses PROVE IInv'
<1>1. /\ poll' = Idle /\ todo' = {}
      /\ UNCHANGED <<store_vars, issue, comments, agents, mode, disturbances, ghost_vars>>
  BY DEF ForgeRefuses
<1>2. AttemptsKept' /\ IntentsKept' /\ CommentsKept' /\ IssueKept'
  BY <1>1, WorldStays
<1>3. PollKept'
  BY <1>1, Facts, PollRests DEF PollKept
<1> QED
  BY <1>2, <1>3, StepKeeps

LEMMA Disturbed == ASSUME IInv, Disturb PROVE disturbances' \in 0..MaxDisturbances
  BY Facts DEF Disturb, PollKept

LEMMA AbandonKeeps == ASSUME IInv, Abandon PROVE IInv'
<1>1. /\ Disturb /\ poll' = Idle /\ todo' = {} /\ agents' \subseteq agents
      /\ UNCHANGED <<store_vars, issue, comments, mode, ghost_vars>>
  BY DEF Abandon
<1>2. AttemptsKept' /\ IntentsKept' /\ CommentsKept' /\ IssueKept'
  BY <1>1, WorldStays
<1>3. PollKept'
  BY <1>1, Facts, Disturbed, PollRests DEF PollKept
<1> QED
  BY <1>2, <1>3, StepKeeps

LEMMA LeaseExpiresKeeps == ASSUME IInv, LeaseExpires PROVE IInv'
<1>1. /\ UNCHANGED <<run_status, artifacts, intents, latest, observations, issue,
                     comments, agents, poll_vars, mode, disturbances, ghost_vars>>
  BY DEF LeaseExpires
<1>2. PICK r \in Revisions :
          \E n \in Running(r) : attempts' = [attempts EXCEPT ![r][n].stale = TRUE]
  BY DEF LeaseExpires
<1>3. PICK n \in Running(r) : attempts' = [attempts EXCEPT ![r][n].stale = TRUE]
  BY <1>2
<1> DEFINE x == [attempts[r][n] EXCEPT !.stale = TRUE]
<1>4. n \in DOMAIN attempts[r] /\ attempts[r][n] \in Attempt
  BY <1>3, Facts DEF Running
<1>5. x \in Attempt /\ x.status = attempts[r][n].status
  BY <1>4 DEF Attempt
<1>6. attempts' = [attempts EXCEPT ![r] = [attempts[r] EXCEPT ![n] = x]]
  BY <1>3
<1> HIDE DEF x
<1>7. AttemptsKept'
  <2>1. agents' \subseteq Revisions \X Nat /\ UNCHANGED <<run_status, artifacts>>
    BY <1>1, Facts DEF AttemptsKept
  <2> QED
    BY <1>4, <1>5, <1>6, <2>1, AttemptMarked, Zenon
<1>8. IntentsKept' /\ CommentsKept' /\ IssueKept'
  BY <1>1, RestStays
<1>9. PollKept'
  <2>1. poll' = poll /\ todo' = todo /\ mode' = mode /\ disturbances' = disturbances
    BY <1>1 DEF poll_vars
  <2>2. ASSUME poll.at \in {"turn", "decided"}
        PROVE  /\ attempts'[poll.rev] # <<>>
               /\ attempts'[poll.rev][Len(attempts'[poll.rev])].status = "running"
    <3> DEFINE q == poll.rev
               m == Len(attempts[q])
    <3>1. /\ q \in Revisions /\ m \in 1..m /\ attempts[q][m].status = "running"
          /\ m \in DOMAIN attempts[q]
      BY <2>2, LastIs, Facts
    <3>2. /\ attempts'[r][n] = x
          /\ \A i \in DOMAIN attempts[r] : i # n => attempts'[r][i] = attempts[r][i]
          /\ \A i \in Revisions : i # r => attempts'[i] = attempts[i]
          /\ \A i \in Revisions : Len(attempts'[i]) = Len(attempts[i])
      BY <1>4, <1>5, <1>6, AttemptChanged, Zenon
    <3>3. attempts'[q][m].status = "running"
      <4>1. CASE q = r /\ m = n
        BY <1>5, <3>1, <3>2, <4>1
      <4>2. CASE q # r \/ m # n
        BY <3>1, <3>2, <4>2
      <4> QED
        BY <4>1, <4>2
    <3>4. Len(attempts'[q]) = m
      BY <3>1, <3>2
    <3>5. attempts'[q] # <<>>
      BY <3>1, <3>4
    <3> QED
      BY <3>3, <3>4, <3>5
  <2> QED
    BY <1>1, <2>1, <2>2, Facts, PollStays, WorldIsSame DEF PollKept
<1> QED
  BY <1>7, <1>8, <1>9, StepKeeps

LEMMA OrphanExitsKeeps == ASSUME IInv, OrphanExits PROVE IInv'
<1>1. /\ agents' \subseteq agents
      /\ UNCHANGED <<store_vars, issue, comments, poll_vars, mode, disturbances, ghost_vars>>
  BY DEF OrphanExits
<1>2. /\ AttemptsKept' /\ IntentsKept' /\ CommentsKept' /\ IssueKept'
      /\ artifacts' = artifacts /\ attempts' = attempts /\ intents' = intents
  BY <1>1, WorldStays
<1>3. PollKept'
  BY <1>1, <1>2, Facts, PollStays, WorldIsSame DEF PollKept, PollTriages, poll_vars
<1> QED
  BY <1>2, <1>3, StepKeeps

LEMMA OperatorReloadsKeeps == ASSUME IInv, OperatorReloads PROVE IInv'
<1>1. /\ poll.at = "idle" /\ Disturb /\ mode' \in {"off", "preview", "automatic"}
      /\ UNCHANGED <<store_vars, issue, comments, agents, poll_vars, ghost_vars>>
  BY DEF OperatorReloads
<1>2. AttemptsKept' /\ IntentsKept' /\ CommentsKept' /\ IssueKept' /\ Unfinished' = Unfinished
  BY <1>1, WorldStays
<1>3. /\ poll' = poll /\ todo' = todo /\ poll \in Poll /\ poll.label = NoKey
  BY <1>1, Facts DEF poll_vars, PollKept, PollWrites, WritesAt
<1>4. PollTriages'
  BY <1>1, <1>3 DEF PollTriages
<1>5. poll'.at \notin Publishing /\ poll'.at \notin Clear /\ poll'.at # "pending"
  BY <1>1, <1>3 DEF Publishing, Clear
<1>6. PollKept'
  BY <1>1, <1>3, <1>4, <1>5, Facts, Disturbed, PollElsewhere DEF PollKept
<1> QED
  BY <1>2, <1>6, StepKeeps

\* People move the issue: its labels or its column, or its labels of a publication.
LEMMA IssueTouched ==
    ASSUME IInv, UNCHANGED <<store_vars, comments, agents, poll_vars, mode>>, Disturb,
           issue' \in Issue, touched' = TRUE, placed' \subseteq placed,
           placed' \cap issue'.labels \subseteq placed \cap issue.labels
    PROVE  IInv'
<1>1. /\ run_status' = run_status /\ attempts' = attempts /\ artifacts' = artifacts
      /\ intents' = intents /\ latest' = latest /\ observations' = observations
      /\ comments' = comments /\ agents' = agents /\ poll' = poll /\ todo' = todo /\ mode' = mode
  BY DEF store_vars, poll_vars
<1>2. AttemptsKept' /\ CommentsKept'
  BY <1>1, AttemptsStay, CommentsStay
<1>3. IntentsKept'
  BY <1>1, IntentsStay DEF DecisionsStay
<1>4. IssueKept'
  <2>1. Tracked' /\ touched' \in BOOLEAN
    BY DEF Tracked
  <2>2. PlacedSound
    BY Facts DEF IssueKept
  <2>3. \A k \in Keys : Projects(k)' = Projects(k) /\ RouteOf(k)' = RouteOf(k)
    BY <1>1, PublicationStays
  <2>4. latest' \in Keys => RouteOf(latest)' = RouteOf(latest)
    BY <1>1 DEF RouteOf
  <2>5. ASSUME NEW k \in Keys, Projects(k)'
        PROVE  placed' \cap issue'.labels \subseteq intents'[k].expected.labels \cup {RouteOf(k)'}
    <3>1. placed \cap issue.labels \subseteq intents[k].expected.labels \cup {RouteOf(k)}
      BY <2>2, <2>3, <2>5 DEF PlacedSound
    <3> QED
      BY <1>1, <2>3, <3>1
  <2>6. ASSUME \A k \in Keys : intents'[k].status # "conflict" /\ ~Projects(k)',
               NEW l \in placed' \cap issue'.labels
        PROVE  latest' \in Keys /\ l = RouteOf(latest)'
    <3>1. \A k \in Keys : intents[k].status # "conflict" /\ ~Projects(k)
      BY <1>1, <2>3, <2>6
    <3>2. latest \in Keys /\ l = RouteOf(latest)
      BY <2>2, <2>6, <3>1 DEF PlacedSound
    <3> QED
      BY <1>1, <2>4, <3>2
  <2>7. placed' \subseteq Routes
    BY <2>2 DEF PlacedSound
  <2>8. PlacedSound'
    BY <1>1, <2>5, <2>6, <2>7 DEF PlacedSound
  <2> QED
    BY <2>1, <2>8 DEF IssueKept
<1>5. WorldSame
  BY DEF WorldSame
<1>6. PollKept'
  BY <1>1, <1>5, Facts, Disturbed, PollStays DEF PollKept, PollTriages
<1> QED
  BY <1>2, <1>3, <1>4, <1>6, StepKeeps

LEMMA PeopleEditKeeps == ASSUME IInv, PeopleEdit PROVE IInv'
<1>1. /\ Disturb /\ UNCHANGED <<store_vars, agents, poll_vars, mode>>
      /\ disturbances' \in 0..MaxDisturbances
  BY Disturbed DEF PeopleEdit
<1>2. /\ run_status' = run_status /\ attempts' = attempts /\ artifacts' = artifacts
      /\ intents' = intents /\ latest' = latest /\ observations' = observations
      /\ agents' = agents /\ poll' = poll /\ todo' = todo /\ mode' = mode
  BY <1>1 DEF store_vars, poll_vars
<1>3. /\ DecisionsStay /\ AttemptsKept' /\ IntentsKept'
  <2>1. DecisionsStay
    BY <1>2 DEF DecisionsStay
  <2> QED
    BY <1>2, <2>1, AttemptsStay, IntentsStay
<1>4. issue \in Issue /\ placed \subseteq Routes
  BY Facts DEF IssueKept, PlacedSound
<1>5. CASE /\ \E t \in Revisions \ {issue.text} : issue' = [issue EXCEPT !.text = t]
           /\ UNCHANGED <<comments, ghost_vars>>
  <2>1. /\ issue' \in Issue /\ issue'.labels = issue.labels /\ issue'.column = issue.column
        /\ touched' = touched /\ placed' = placed /\ comments' = comments
    BY <1>4, <1>5 DEF Issue, ghost_vars
  <2>2. IssueKept' /\ CommentsKept'
    BY <1>2, <1>3, <2>1, IssueStays, CommentsStay
  <2>3. WorldSame
    BY <2>1 DEF WorldSame
  <2>4. PollKept'
    BY <1>1, <1>2, <2>3, Facts, PollStays DEF PollKept, PollTriages
  <2> QED
    BY <1>3, <2>2, <2>4, StepKeeps
<1>6. CASE /\ \E l \in Labels :
                /\ issue' = [issue EXCEPT !.labels = IF l \in @ THEN @ \ {l} ELSE @ \cup {l}]
                /\ placed' = placed \ {l}
           /\ touched' = TRUE
           /\ UNCHANGED comments
  <2>1. PICK l \in Labels :
            /\ issue' = [issue EXCEPT !.labels = IF l \in issue.labels THEN issue.labels \ {l}
                                                 ELSE issue.labels \cup {l}]
            /\ placed' = placed \ {l}
    BY <1>6, Zenon
  <2>2. /\ issue'.labels = IF l \in issue.labels THEN issue.labels \ {l} ELSE issue.labels \cup {l}
        /\ issue' \in Issue
    BY <1>4, <2>1 DEF Issue
  <2>3. /\ placed' \subseteq placed
        /\ placed' \cap issue'.labels \subseteq placed \cap issue.labels
    BY <2>1, <2>2
  <2> QED
    BY <1>1, <1>6, <2>2, <2>3, IssueTouched
<1>7. CASE /\ \E c \in (Columns \cup {NoColumn}) \ {issue.column} :
                issue' = [issue EXCEPT !.column = c]
           /\ touched' = TRUE
           /\ UNCHANGED <<comments, placed>>
  <2>1. issue' \in Issue /\ issue'.labels = issue.labels /\ placed' = placed /\ touched' = TRUE
    BY <1>4, <1>7 DEF Issue
  <2>2. comments' = comments
    BY <1>7
  <2> QED
    BY <1>1, <2>1, <2>2, IssueTouched
<1>8. CASE /\ \E k \in Keys :
                /\ comments[k] > 0
                /\ comments' = [comments EXCEPT ![k] = 0]
           /\ UNCHANGED <<issue, ghost_vars>>
  <2>1. PICK k \in Keys : comments' = [comments EXCEPT ![k] = 0]
    BY <1>8
  <2>2. CommentsKept'
    <3>1. comments \in [Keys -> Nat] /\ \A j \in Keys : comments[j] <= 1
      BY Facts DEF CommentsKept, OneCommentPerPublication
    <3>2. comments' \in [Keys -> Nat] /\ \A j \in Keys : comments'[j] <= 1
      BY <2>1, <3>1
    <3> QED
      BY <1>2, <3>2, Facts DEF CommentsKept, OneCommentPerPublication
  <2>3. /\ WorldSame /\ issue' = issue /\ touched' = touched /\ placed' = placed
    BY <1>8, WorldIsSame DEF ghost_vars
  <2>4. IssueKept'
    BY <1>2, <1>3, <1>4, <2>3, IssueStays
  <2>5. PollKept'
    BY <1>1, <1>2, <2>3, Facts, PollStays DEF PollKept, PollTriages
  <2> QED
    BY <1>3, <2>2, <2>4, <2>5, StepKeeps
<1> QED
  BY <1>5, <1>6, <1>7, <1>8 DEF PeopleEdit

----------------------------------------------------------------------------
(* The invariant *)

LEMMA InitHolds == Init => IInv
<1> SUFFICES ASSUME Init PROVE IInv
  OBVIOUS
<1>1. /\ run_status = "none" /\ attempts = [r \in Revisions |-> <<>>]
      /\ artifacts = [r \in Revisions |-> NoRoute] /\ agents = {}
      /\ intents = [k \in Keys |-> NoIntent] /\ latest = NoKey /\ observations = {}
      /\ issue \in InitialIssues /\ comments = [k \in Keys |-> 0]
      /\ poll = Idle /\ todo = {} /\ mode \in {"preview", "automatic"} /\ disturbances = 0
      /\ placed = {}
  BY DEF Init
<1>2. touched \in BOOLEAN
  BY DEF Init
<1>3. AttemptsKept
  <2>1. \A r \in Revisions : /\ attempts[r] = <<>> /\ Len(attempts[r]) = 0
                             /\ DOMAIN attempts[r] = {} /\ artifacts[r] = NoRoute
    BY <1>1
  <2>2. /\ attempts \in [Revisions -> Seq(Attempt)]
        /\ artifacts \in [Revisions -> Routes \cup {NoRoute}]
    BY <1>1
  <2>3. RunningOnce
    BY <2>1 DEF RunningOnce, Running
  <2>4. Decided /\ BudgetKept
    BY <2>1 DEF Decided, BudgetKept
  <2> QED
    BY <1>1, <2>2, <2>3, <2>4 DEF AttemptsKept
<1>4. NoIntent \in Intent /\ NoIntent.status = "none"
  <2>1. Bare \in Projection
    BY DEF Bare, Projection
  <2> QED
    BY <2>1, StepsAre DEF NoIntent, Intent
<1>5. \A k \in Keys : intents[k].status = "none" /\ ~Projects(k)
  BY <1>1, <1>4 DEF Projects
<1>6. IntentsKept
  <2>1. intents \in [Keys -> Intent]
    BY <1>1, <1>4
  <2>2. IntentSound
    BY <1>5 DEF IntentSound
  <2>3. OneUnfinishedPublication
    BY <1>5 DEF OneUnfinishedPublication, Unfinished
  <2>4. LatestSound
    BY <1>1 DEF LatestSound
  <2> QED
    BY <1>1, <2>1, <2>2, <2>3, <2>4 DEF IntentsKept
<1>7. CommentsKept
  BY <1>1 DEF CommentsKept, OneCommentPerPublication
<1>8. IssueKept
  <2>1. issue \in Issue
    BY <1>1 DEF Issue, Labels
  <2>2. Tracked /\ PlacedSound
    BY <1>1, <1>5 DEF Tracked, PlacedSound
  <2> QED
    BY <1>2, <2>1, <2>2 DEF IssueKept
<1>9. PollKept
  <2>1. poll \in Poll /\ poll.at = "idle" /\ poll.label = NoKey
    BY <1>1, IdleIs
  <2>2. PollTriages
    BY <2>1 DEF PollTriages
  <2>3. PollResumes
    BY <2>1 DEF PollResumes, Clear, Publishing
  <2>4. PollWrites
    BY <2>1 DEF PollWrites, WritesAt, Writing, Publishing
  <2> QED
    BY <1>1, <2>1, <2>2, <2>3, <2>4 DEF PollKept
<1> QED
  BY <1>3, <1>6, <1>7, <1>8, <1>9, Parts

LEMMA StutterKeeps == ASSUME IInv, UNCHANGED vars PROVE IInv'
<1>1. /\ UNCHANGED <<store_vars, comments, issue, ghost_vars, poll_vars>> /\ agents' = agents
      /\ mode' = mode /\ disturbances' = disturbances
  BY DEF vars
<1>2. /\ AttemptsKept' /\ IntentsKept' /\ CommentsKept' /\ IssueKept'
      /\ artifacts' = artifacts /\ attempts' = attempts /\ intents' = intents
  BY <1>1, WorldStays
<1>3. PollKept'
  BY <1>1, <1>2, Facts, PollStays, WorldIsSame DEF PollKept, PollTriages, poll_vars
<1> QED
  BY <1>2, <1>3, StepKeeps

LEMMA NextKeeps == IInv /\ [Next]_vars => IInv'
<1> SUFFICES ASSUME IInv, [Next]_vars PROVE IInv'
  OBVIOUS
<1>1. CASE Recovering
  BY <1>1, PollStartsKeeps, RecoverInterruptedKeeps, ResumePublicationKeeps, PendingDoneKeeps,
     MeasureCorrectionsKeeps DEF Recovering
<1>2. CASE Triaging
  BY <1>2, FetchIntakeKeeps, HasArtifactKeeps, SkipIssueKeeps, ClaimKeeps, SpawnAgentKeeps,
     RecordProcessKeeps, AgentDecidesKeeps, AgentFailsKeeps, GiveUpKeeps, KeepDecisionKeeps,
     EnsureIntentKeeps, ReuseIntentKeeps, FinalizeAppliedKeeps DEF Triaging
<1>3. CASE Commenting
  BY <1>3, UpdateCommentKeeps, CreateCommentKeeps, SetCommentKeeps, RecordCommentKeeps
     DEF Commenting
<1>4. CASE Routing
  BY <1>4, EnsureBaselineKeeps, SkipColumnKeeps, AlreadyDesiredKeeps, FindConflictKeeps,
     MayMutateKeeps, AddRouteLabelKeeps, SetColumnKeeps, RemoveLabelKeeps, RecordRemovalKeeps,
     RecordMutationKeeps DEF Routing
<1>5. CASE Symphony
  BY <1>1, <1>2, <1>3, <1>4, <1>5, PublicationReturnsKeeps, CompleteRunKeeps, ForgeRefusesKeeps
     DEF Symphony
<1>6. CASE Environment
  BY <1>6, AbandonKeeps, LeaseExpiresKeeps, OrphanExitsKeeps, PeopleEditKeeps,
     OperatorReloadsKeeps DEF Environment
<1>7. CASE UNCHANGED vars
  BY <1>7, StutterKeeps
<1> QED
  BY <1>5, <1>6, <1>7 DEF Next

\* The store, the issue and the poll are never in a state the stage could not
\* account for: the inductive invariant above holds however polls, failed calls,
\* crashes and people's edits follow one another (triage/coordinator.rs,
\* triage/publisher.rs).
THEOREM InvariantHolds == Spec => []IInv
  BY InitHolds, NextKeeps, PTL DEF Spec

\* Every variable keeps its shape: rows of the store, comments, the poll.
THEOREM TypeHolds == Spec => []TypeOK
<1>1. IInv => TypeOK
  BY DEF IInv
<1> QED
  BY <1>1, InvariantHolds, PTL

\* The stage does its work once: a revision never has more than max_attempts
\* attempts, two that run, or a decision without the one attempt that made it; a
\* publication never has two comments; and no two publications are unfinished
\* together (claim_attempt, store_artifact, upsert_marked_comment, poll_once).
THEOREM WorkIsDoneOnce == Spec => []WorkDoneOnce
<1>1. IInv => WorkDoneOnce
  <2> SUFFICES ASSUME IInv PROVE WorkDoneOnce
    OBVIOUS
  <2>1. AttemptsSound
    <3>1. RunningOnce /\ Decided /\ BudgetKept
      BY DEF IInv
    <3> QED
      BY <3>1 DEF AttemptsSound, RunningOnce, Decided, BudgetKept
  <2> QED
    BY <2>1 DEF IInv, WorkDoneOnce
<1> QED
  BY <1>1, InvariantHolds, PTL

----------------------------------------------------------------------------
(* What is charged to people, and what applied means *)

\* A publication becomes a conflict at one place.
LEMMA ConflictIsFound ==
    ASSUME IInv, [Next]_vars, NEW k \in Keys,
           intents[k].status # "conflict", intents'[k].status = "conflict"
    PROVE  FindConflict /\ k = poll.key
<1>1. intents' # intents
  OBVIOUS
<1>2. intents \in [Keys -> Intent] /\ intents[k] \in Intent
  BY Facts DEF IntentsKept
<1>3. CASE Recovering
  BY <1>1, <1>3 DEF Recovering, PollStarts, RecoverInterrupted, ResumePublication, PendingDone,
     MeasureCorrections, store_vars
<1>4. ~EnsureIntent
  <2>1. SUFFICES ASSUME EnsureIntent PROVE FALSE
    OBVIOUS
  <2>2. intents' = [intents EXCEPT ![poll.key] = NewIntent]
    BY <2>1 DEF EnsureIntent, CreateIntent
  <2>3. NewIntent.status = "pending"
    BY DEF NewIntent, NoIntent
  <2> QED
    BY <1>2, <2>2, <2>3
<1>5. CASE Triaging
  BY <1>1, <1>4, <1>5 DEF Triaging, FetchIntake, HasArtifact, SkipIssue, Claim, SpawnAgent,
     RecordProcess, AgentDecides, AgentFails, GiveUp, KeepDecision, ReuseIntent, FinalizeApplied,
     store_vars
<1>6. ~(UpdateComment \/ SetComment)
  <2>1. SUFFICES ASSUME UpdateComment \/ SetComment PROVE FALSE
    OBVIOUS
  <2>2. intents' = [intents EXCEPT ![poll.key].bound = TRUE]
    BY <1>1, <2>1 DEF UpdateComment, SetComment, BindComment
  <2> QED
    BY <1>2, <2>2 DEF Intent
<1>7. ~RecordComment
  <2>1. SUFFICES ASSUME RecordComment PROVE FALSE
    OBVIOUS
  <2>2. PICK s \in {"applied", intents[poll.key].status} :
            intents' = [intents EXCEPT ![poll.key].done = intents[poll.key].done + 1,
                                       ![poll.key].status = s]
    BY <2>1 DEF RecordComment
  <2>3. intents'[k].status \in {intents[k].status, "applied"}
    BY <1>2, <2>2 DEF Intent
  <2> QED
    BY <2>3
<1>8. CASE Commenting
  BY <1>1, <1>6, <1>7, <1>8 DEF Commenting, CreateComment, store_vars
<1>9. ~EnsureBaseline
  <2>1. SUFFICES ASSUME EnsureBaseline PROVE FALSE
    OBVIOUS
  <2>2. intents' = [intents EXCEPT ![poll.key].baselined = TRUE, ![poll.key].expected = Observed]
    BY <2>1 DEF EnsureBaseline, SetBaseline
  <2> QED
    BY <1>2, <2>2 DEF Intent
<1>10. ~(SkipColumn \/ AlreadyDesired \/ RecordMutation)
  <2>1. SUFFICES ASSUME SkipColumn \/ AlreadyDesired \/ RecordMutation PROVE FALSE
    OBVIOUS
  <2>2. \E p : intents' = [intents EXCEPT ![poll.key].done = intents[poll.key].done + 1,
                                          ![poll.key].expected = p]
    BY <2>1, Zenon DEF SkipColumn, AlreadyDesired, RecordMutation, RecordStep
  <2>3. PICK p : intents' = [intents EXCEPT ![poll.key].done = intents[poll.key].done + 1,
                                            ![poll.key].expected = p]
    BY <2>2, Zenon
  <2> QED
    BY <1>2, <2>3 DEF Intent
<1>11. ~RecordRemoval
  <2>1. SUFFICES ASSUME RecordRemoval PROVE FALSE
    OBVIOUS
  <2>2. \E L : intents' = [intents EXCEPT ![poll.key].expected.labels = L]
    BY <2>1, Zenon DEF RecordRemoval
  <2>3. PICK L : intents' = [intents EXCEPT ![poll.key].expected.labels = L]
    BY <2>2, Zenon
  <2> QED
    BY <1>2, <2>3 DEF Intent
<1>12. ASSUME FindConflict PROVE k = poll.key
  <2>1. intents' = [intents EXCEPT ![poll.key].status = "conflict"]
    BY <1>12 DEF FindConflict, MarkConflict
  <2> QED
    BY <1>2, <2>1
<1>13. CASE Routing
  BY <1>1, <1>9, <1>10, <1>11, <1>12, <1>13 DEF Routing, MayMutate, AddRouteLabel, SetColumn,
     RemoveLabel, store_vars
<1>14. CASE PublicationReturns \/ CompleteRun \/ ForgeRefuses \/ Environment \/ UNCHANGED vars
  BY <1>1, <1>14 DEF PublicationReturns, CompleteRun, ForgeRefuses, Environment, Abandon,
     LeaseExpires, OrphanExits, PeopleEdit, OperatorReloads, vars, store_vars
<1> QED
  BY <1>3, <1>5, <1>8, <1>13, <1>14 DEF Next, Symphony

\* Unless people have touched the issue, a conflict is found half way through the
\* removal of several labels.
LEMMA ConflictIsHuman ==
    ASSUME IInv, FindConflict, ~touched
    PROVE  Step(poll.key) = "conflict_cleanup" /\ Cardinality(ToRemove(poll.key)) > 1
<1>1. PICK k \in Keys : k = poll.key
  BY DueIs DEF FindConflict
<1>2. /\ intents[k].status = "pending" /\ Step(k) \in MutationSteps /\ ~Reached(k) /\ ~Ours(k)
      /\ Automatic(k) => Projects(k)
  BY <1>1, DueIs DEF FindConflict
<1>3. Projects(k) /\ intents[k].expected \in Projection
  BY <1>2, StepIs, UnfinishedIs DEF MutationSteps
<1>4. Near(k)
  BY <1>3, Facts DEF IssueKept, Tracked
<1>5. PICK l \in ToRemove(k) : Observed = Without(k, l)
  BY <1>2, <1>4 DEF Near
<1>6. Without(k, l) = [labels |-> intents[k].expected.labels \ {l},
                       column |-> intents[k].expected.column]
  BY <1>3, ProjectionWith DEF Without
<1>7. Step(k) \in {"conflict_cleanup", "intake_removed"}
  BY <1>3, <1>5, RemovalIs
<1>8. Step(k) = "conflict_cleanup"
  <2>1. SUFFICES ASSUME Step(k) = "intake_removed" PROVE FALSE
    BY <1>7
  <2>2. l = Intake
    BY <1>3, <1>5, <2>1, RemovalIs
  <2> QED
    BY <1>2, <1>3, <1>5, <1>6, <2>1, <2>2, DesiredIs DEF Reached
<1> DEFINE T == ToRemove(k)
<1>9. T = intents[k].expected.labels \cap (Routes \ {RouteOf(k)})
  BY <1>3, <1>8, RemovalIs
<1>10. IsFiniteSet(T)
  <2>1. T \subseteq Routes /\ IsFiniteSet(Routes)
    BY <1>9
  <2> QED
    BY <2>1, FS_Subset, Zenon
<1>11. \A x : T # {x}
  <2>1. SUFFICES ASSUME NEW x, T = {x} PROVE FALSE
    OBVIOUS
  <2>2. T = {l}
    BY <1>5, <2>1
  <2>3. intents[k].expected.labels \ (Routes \ {RouteOf(k)}) = intents[k].expected.labels \ {l}
    BY <1>9, <2>2
  <2>4. Desired(k) = Without(k, l)
    BY <1>3, <1>6, <1>8, <2>3, DesiredIs
  <2> QED
    BY <1>2, <1>5, <2>4 DEF Reached
<1>12. T # {}
  BY <1>5
<1> HIDE DEF T
<1>13. Cardinality(T) \in Nat /\ Cardinality(T) # 0 /\ Cardinality(T) # 1
  BY <1>10, <1>11, <1>12, FS_CardinalityType, FS_EmptySet, FS_Singleton, Zenon
<1>14. Cardinality(T) > 1
  BY <1>13
<1> QED
  BY <1>1, <1>8, <1>14 DEF T

\* Corrections are recorded at one place, when nothing is unfinished.
LEMMA CorrectionIsHuman ==
    ASSUME IInv, [Next]_vars, NEW o \in observations' \ observations, o[2] \in placed
    PROVE  \E k \in Keys : intents[k].status = "conflict"
<1>1. MeasureCorrections
  <2>1. observations' # observations
    OBVIOUS
  <2>2. CASE Recovering
    BY <2>1, <2>2 DEF Recovering, PollStarts, RecoverInterrupted, ResumePublication,
       PendingDone, store_vars
  <2>3. CASE Triaging
    BY <2>1, <2>3 DEF Triaging, FetchIntake, HasArtifact, SkipIssue, Claim, SpawnAgent,
       RecordProcess, AgentDecides, AgentFails, GiveUp, KeepDecision, EnsureIntent, ReuseIntent,
       FinalizeApplied, store_vars
  <2>4. CASE Commenting
    BY <2>1, <2>4 DEF Commenting, UpdateComment, CreateComment, SetComment, RecordComment,
       store_vars
  <2>5. CASE Routing
    BY <2>1, <2>5 DEF Routing, EnsureBaseline, SkipColumn, AlreadyDesired, FindConflict,
       MayMutate, AddRouteLabel, SetColumn, RemoveLabel, RecordRemoval, RecordMutation, store_vars
  <2>6. CASE PublicationReturns \/ CompleteRun \/ ForgeRefuses \/ Environment \/ UNCHANGED vars
    BY <2>1, <2>6 DEF PublicationReturns, CompleteRun, ForgeRefuses, Environment, Abandon,
       LeaseExpires, OrphanExits, PeopleEdit, OperatorReloads, vars, store_vars
  <2> QED
    BY <2>2, <2>3, <2>4, <2>5, <2>6 DEF Next, Symphony
<1>2. /\ poll.at = "corrections"
      /\ observations' = observations \cup UNION {{k} \X CorrectedTo(k) : k \in Candidates}
  BY <1>1 DEF MeasureCorrections
<1>3. PICK k \in Candidates : o \in {k} \X CorrectedTo(k)
  BY <1>2
<1>4. k = latest /\ latest \in Keys /\ o[2] \in CorrectedTo(k)
  BY <1>3 DEF Candidates
<1>5. o[2] \in placed \cap issue.labels /\ o[2] # RouteOf(latest)
  BY <1>4 DEF CorrectedTo, RouteOf
<1>6. \A j \in Keys : ~Projects(j)
  <2>1. Unfinished = {}
    BY <1>2, Facts DEF PollKept, PollResumes, Clear
  <2> QED
    BY <2>1 DEF Unfinished, Projects
<1> QED
  BY <1>5, <1>6, Facts DEF IssueKept, PlacedSound

\* What stops a publication with human_conflict, or is recorded as a correction,
\* was done by people: neither a write of the stage's own that a crash left
\* unrecorded nor a label it put on itself is charged to them, but for a removal
\* of several labels cut short and for labels of a publication that was given up
\* (reconcile_mutation, reconcile_route_corrections).
THEOREM OnlyPeopleCharged == Spec => OnlyPeopleAreCharged
<1>1. IInv /\ [Next]_vars => [\A k \in Keys :
          intents[k].status # "conflict" /\ intents'[k].status = "conflict" =>
              \/ touched
              \/ Step(k) = "conflict_cleanup" /\ Cardinality(ToRemove(k)) > 1]_vars
  BY ConflictIsFound, ConflictIsHuman
<1>2. IInv /\ [Next]_vars => [\A o \in observations' \ observations :
          \/ o[2] \notin placed
          \/ \E k \in Keys : intents[k].status = "conflict"]_vars
  BY CorrectionIsHuman
<1>3. Spec => ConflictsAreHuman
  BY <1>1, InvariantHolds, PTL DEF Spec, ConflictsAreHuman
<1>4. Spec => CorrectionsAreHuman
  BY <1>2, InvariantHolds, PTL DEF Spec, CorrectionsAreHuman
<1> QED
  BY <1>3, <1>4 DEF OnlyPeopleAreCharged

\* The latest publication changes at one place, with its last comment.
LEMMA AppliedIsLast ==
    ASSUME IInv, [Next]_vars, latest' # latest, ~touched
    PROVE  Routed(latest')
<1>1. RecordComment
  <2>1. CASE Recovering
    BY <2>1 DEF Recovering, PollStarts, RecoverInterrupted, ResumePublication,
       PendingDone, MeasureCorrections, store_vars
  <2>2. CASE Triaging
    BY <2>2 DEF Triaging, FetchIntake, HasArtifact, SkipIssue, Claim, SpawnAgent,
       RecordProcess, AgentDecides, AgentFails, GiveUp, KeepDecision, EnsureIntent, ReuseIntent,
       FinalizeApplied, store_vars
  <2>3. CASE Commenting
    BY <2>3 DEF Commenting, UpdateComment, CreateComment, SetComment, store_vars
  <2>4. CASE Routing
    BY <2>4 DEF Routing, EnsureBaseline, SkipColumn, AlreadyDesired, FindConflict,
       MayMutate, AddRouteLabel, SetColumn, RemoveLabel, RecordRemoval, RecordMutation, store_vars
  <2>5. CASE PublicationReturns \/ CompleteRun \/ ForgeRefuses \/ Environment \/ UNCHANGED vars
    BY <2>5 DEF PublicationReturns, CompleteRun, ForgeRefuses, Environment, Abandon,
       LeaseExpires, OrphanExits, PeopleEdit, OperatorReloads, vars, store_vars
  <2> QED
    BY <2>1, <2>2, <2>3, <2>4, <2>5 DEF Next, Symphony
<1>2. poll.at \in Writing
  BY <1>1 DEF RecordComment, Writing, Publishing
<1>3. PICK k \in Keys : k = poll.key
  BY <1>2, WritingIs
<1>4. latest' = k /\ Automatic(k) /\ Step(k) = "comment_applied"
  BY <1>1, <1>3 DEF RecordComment
<1>5. /\ intents[k].status = "pending" /\ Projects(k)
  BY <1>2, <1>3, <1>4, WritingIs
<1>6. /\ intents[k].expected \in Projection /\ intents[k].done \in 0..6 /\ Shows(k)
      /\ RouteOf(k) \in Routes
  BY <1>4, <1>5, UnfinishedIs
<1>7. intents[k].done = 6
  BY <1>4, <1>6, DoneIs
<1>8. /\ RouteOf(k) \in intents[k].expected.labels
      /\ RouteColumn[RouteOf(k)] # NoColumn
            => intents[k].expected.column = RouteColumn[RouteOf(k)]
      /\ intents[k].expected.labels \cap Routes \subseteq {RouteOf(k)}
      /\ Intake \notin intents[k].expected.labels
  BY <1>6, <1>7 DEF Shows
<1>9. Ours(k)
  <2>1. Near(k)
    BY <1>5, Facts DEF IssueKept, Tracked
  <2> QED
    BY <1>4, <1>6, <2>1, NearAtComment DEF MutationSteps
<1>10. /\ issue.labels = intents[k].expected.labels
       /\ issue.column = intents[k].expected.column
  BY <1>9 DEF Ours, Observed
<1>11. issue.labels \cap Labels = {RouteOf(k)}
  BY <1>6, <1>8, <1>10 DEF Labels
<1>12. RouteColumn[RouteOf(k)] # NoColumn => issue.column = RouteColumn[RouteOf(k)]
  BY <1>8, <1>10
<1> QED
  BY <1>4, <1>11, <1>12 DEF Routed

\* When an automatic publication becomes applied and nobody touched labels or
\* column since its baseline, the issue carries its route label and no other, is
\* in its column and has left the intake, however often the publication was cut
\* short and resumed (reconcile_automatic).
THEOREM AppliedIsRouted == Spec => AppliedMeansRouted
<1>1. IInv /\ [Next]_vars => [latest' # latest /\ ~touched => Routed(latest')]_vars
  BY AppliedIsLast
<1> QED
  BY <1>1, InvariantHolds, PTL DEF Spec, AppliedMeansRouted
=============================================================================
