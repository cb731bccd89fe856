----------------------------- MODULE ReviewProofs -----------------------------
(* Safety of ReviewStage for any number of revisions, findings, attempts,   *)
(* faults and edits.                                                        *)
EXTENDS ReviewStage, SequenceTheorems, WellFoundedInduction, TLAPS

\* The phases of a poll that has pinned a revision, that works on it, and that
\* publishes: the publication is begun, and its head was looked at.
Early == {"intake", "pull", "files", "claim", "inputs"}
Pinned == {"files", "claim", "inputs", "work", "store"}
Submission == Formal \ {"head"}
Publishing == Formal \cup Routing \cup Commenting
Accepted == {"bind", "created", "findings"} \cup Routing

Mine == intents[poll.key]

\* The parts of WorkDoneOnce.
ArtifactsOnce == \A a, b \in DOMAIN artifacts : artifacts[a].rev = artifacts[b].rev => a = b
IntentsOnce == \A i, j \in DOMAIN intents : intents[i].artifact = intents[j].artifact => i = j
ReviewsOnce == \A r, s \in DOMAIN reviews : reviews[r].intent = reviews[s].intent => r = s
CommentsOnce ==
    \A c, d \in DOMAIN comments :
        comments[c].live /\ comments[d].live /\ comments[c].intent = comments[d].intent
            /\ comments[c].login = comments[d].login => c = d

\* The review R that publication i has bound is about it, and its steps were
\* recorded in order: a review that was created is bound, and findings are
\* recorded after it.  A publication that is due has retries left.
Bound(x, i, R) ==
    /\ x.status = "pending" => x.retries < MaxAttempts
    /\ x.review # 0 => R[x.review].intent = i /\ R[x.review].login = x.login
    /\ "review_created" \in x.steps => x.review # 0
    /\ "findings_recorded" \in x.steps => "review_created" \in x.steps
    /\ x.kind = "preview" => x.review = 0
IntentsBound == \A i \in DOMAIN intents : Bound(intents[i], i, reviews)

\* What is left to resume is due.
TodoPending == todo \subseteq Pending

\* A publication that a poll is at is due, is not to be resumed once more, and of
\* the kind its phase is for.
PollOwns ==
    /\ poll.at \in Publishing =>
        poll.key > 0 /\ Mine.status = "pending" /\ poll.key \notin todo
    /\ poll.at \in Formal \cup Routing => Mine.kind = "automatic"
    /\ poll.at \in Commenting => Mine.kind = "preview"

\* A poll that looks for work knows what to do with it, and one that has done
\* work has begun it itself.
PollModes ==
    /\ poll.at \in Candidacy => poll.mode \in {"preview", "automatic"}
    /\ poll.at \in Early \cup {"pending", "head"} => ~poll.fresh
    /\ poll.at \in {"work", "store", "intend"} => poll.fresh
    /\ ~At("idle") /\ poll.mode = "none" => poll.last \/ poll.fresh

\* A review or comment that was found or made is there; a review is of this
\* publication and credential, and is bound before it is recorded.
PollFinds ==
    /\ poll.at \in Candidacy \cup {"pending", "head", "identity", "list", "live", "create"} =>
        poll.found = 0
    /\ poll.at \in {"accept", "bind"} /\ poll.found # 0 =>
        /\ poll.found <= Len(reviews)
        /\ reviews[poll.found].intent = poll.key /\ reviews[poll.found].login = login
    /\ At("bind") => poll.found # 0
    /\ At("accept") /\ poll.found = 0 => Mine.review # 0
    /\ At("created") => Mine.review # 0
    /\ At("findings") => "review_created" \in Mine.steps
    /\ poll.at \in Routing => "findings_recorded" \in Mine.steps
    /\ At("bind_comment") => poll.found <= Len(comments)

\* What a poll is about to make is not there yet.
PollMakes ==
    /\ poll.at \in Pinned => Artifacts(poll.rev) = {}
    /\ At("intend") =>
        artifacts # <<>> /\ \A i \in DOMAIN intents : intents[i].artifact # Len(artifacts)
    /\ poll.at \in {"live", "create"} => Marked(poll.key) = {}
    /\ At("create_comment") => OwnComments(poll.key) = {}

\* The head of an accepted review was live, and people may have moved it since.
HeadSeen == poll.at \in Accepted => pull.rev.head = HeadOf(poll.key) \/ moved

PollSound == PollOwns /\ PollModes /\ PollFinds /\ PollMakes /\ HeadSeen

IInv == TypeOK /\ WorkDoneOnce /\ IntentsBound /\ TodoPending /\ PollSound

\* The invariant by what its parts are about: the store and what the forge keeps
\* for it, the poll, and the rest.
Shapes ==
    /\ attempts \in Seq(Attempt) /\ artifacts \in Seq(Artifact)
    /\ intents \in Seq(Intent) /\ reviews \in Seq(Review) /\ comments \in Seq(Comment)
StoreSound == Shapes /\ WorkDoneOnce /\ IntentsBound
PollShape == poll \in Poll /\ poll.key \in 0..Len(intents)
Rest ==
    /\ stage \in {"none", "running", "stale"}
    /\ pull \in [rev : Revisions, open : BOOLEAN] /\ column \in Columns
    /\ login \in Logins /\ moved \in BOOLEAN
    /\ faults \in 0..MaxFaults /\ edits \in 0..MaxEdits

USE ReviewAssumption

----------------------------------------------------------------------------
(* Lemmas about sequences, minima and the shapes of things *)

\* A sequence is one of whatever its elements are.
LEMMA SeqRetyped ==
    ASSUME NEW S, NEW T, NEW s \in Seq(S), \A i \in 1..Len(s) : s[i] \in T
    PROVE  s \in Seq(T)
<1>1. s \in [1..Len(s) -> S] /\ Len(s) \in Nat
  BY LenProperties
<1>2. s \in [1..Len(s) -> T]
  BY <1>1
<1> QED
  BY <1>1, <1>2, SeqDef

\* A sequence grows at its end.
LEMMA AppendIs ==
    ASSUME NEW S, NEW s \in Seq(S), NEW e \in S
    PROVE  /\ Append(s, e) \in Seq(S)
           /\ Len(Append(s, e)) = Len(s) + 1
           /\ DOMAIN Append(s, e) = 1..(Len(s) + 1)
           /\ \A i \in 1..Len(s) : Append(s, e)[i] = s[i]
           /\ Append(s, e)[Len(s) + 1] = e
  OBVIOUS

\* A nonempty set of natural numbers has its minimum among its elements.
LEMMA MinIsMember ==
    ASSUME NEW S \in SUBSET Nat, S # {}
    PROVE  Min(S) \in S
<1> DEFINE R == {ss \in Nat \X Nat : ss[1] < ss[2]}
<1>1. R = OpToRel(<, Nat)
  BY Zenon DEF OpToRel
<1>2. IsWellFoundedOn(R, Nat)
  BY <1>1, NatLessThanWellFounded, Zenon
<1>3. PICK x \in S : \A y \in S : <<y, x>> \notin R
  <2> HIDE DEF R
  <2> QED
    BY <1>2, WFMin, Zenon
<1>4. ASSUME NEW y \in S PROVE x <= y
  <2>1. /\ <<y, x>> \in Nat \X Nat /\ <<y, x>>[1] = y /\ <<y, x>>[2] = x
        /\ x \in Nat /\ y \in Nat
    OBVIOUS
  <2>2. ~(y < x)
    BY <1>3, <2>1, Zenon
  <2> HIDE DEF R
  <2> QED
    BY <2>1, <2>2
<1> QED
  BY <1>4 DEF Min

LEMMA Parts == IInv <=> StoreSound /\ TodoPending /\ PollShape /\ PollSound /\ Rest
  BY DEF IInv, TypeOK, StoreSound, Shapes, TodoPending, Pending, PollShape, Rest

\* What is stored is numbered from one, and each row has its shape.
LEMMA Rows ==
    ASSUME StoreSound
    PROVE  /\ DOMAIN attempts = 1..Len(attempts) /\ Len(attempts) \in Nat
           /\ DOMAIN artifacts = 1..Len(artifacts) /\ Len(artifacts) \in Nat
           /\ DOMAIN intents = 1..Len(intents) /\ Len(intents) \in Nat
           /\ DOMAIN reviews = 1..Len(reviews) /\ Len(reviews) \in Nat
           /\ DOMAIN comments = 1..Len(comments) /\ Len(comments) \in Nat
           /\ \A a \in DOMAIN artifacts : artifacts[a] \in Artifact
           /\ \A i \in DOMAIN intents :
                  intents[i] \in Intent /\ Bound(intents[i], i, reviews)
           /\ \A r \in DOMAIN reviews : reviews[r] \in Review
           /\ \A c \in DOMAIN comments : comments[c] \in Comment
<1>1. /\ attempts \in Seq(Attempt) /\ artifacts \in Seq(Artifact)
      /\ intents \in Seq(Intent) /\ reviews \in Seq(Review) /\ comments \in Seq(Comment)
  BY DEF StoreSound, Shapes
<1>2. \A i \in DOMAIN intents : Bound(intents[i], i, reviews)
  BY DEF StoreSound, IntentsBound
<1> QED
  BY <1>1, <1>2, LenProperties, ElementOfSeq

\* An idle poll, and one that has come back from a publication.
LEMMA IdleType ==
    /\ AnyRevision \in Revisions
    /\ Idle \in Poll /\ Idle.at = "idle" /\ Idle.key = 0
<1>1. AnyRevision \in Revisions
  BY DEF AnyRevision
<1> QED
  BY <1>1 DEF Idle, Poll

\* A poll changes its phase, its publication and what it has found.
LEMMA PhaseType ==
    ASSUME poll \in Poll,
           NEW p \in {"idle", "pending"} \cup Candidacy \cup Formal \cup Routing \cup Commenting,
           NEW k \in Nat, NEW n \in Nat,
           poll' = [poll EXCEPT !.at = p, !.key = k, !.found = n]
    PROVE  /\ poll' \in Poll /\ poll'.at = p /\ poll'.key = k /\ poll'.found = n
           /\ poll'.mode = poll.mode /\ poll'.rev = poll.rev /\ poll'.turn = poll.turn
           /\ poll'.fresh = poll.fresh /\ poll'.last = poll.last
<1> DEFINE P == {"idle", "pending"} \cup Candidacy \cup Formal \cup Routing \cup Commenting
<1>1. p \in P /\ poll \in [at : P, mode : Modes \cup {"none"}, rev : Revisions,
                turn : 0..MaxReprompts, key : Nat, found : Nat, fresh : BOOLEAN, last : BOOLEAN]
  BY DEF Poll
<1> HIDE DEF P
<1>2. poll' \in [at : P, mode : Modes \cup {"none"}, rev : Revisions,
                turn : 0..MaxReprompts, key : Nat, found : Nat, fresh : BOOLEAN, last : BOOLEAN]
  BY <1>1
<1> QED
  BY <1>1, <1>2 DEF Poll, P

LEMMA FindType ==
    ASSUME poll \in Poll,
           NEW p \in {"idle", "pending"} \cup Candidacy \cup Formal \cup Routing \cup Commenting,
           NEW n \in Nat, poll' = [poll EXCEPT !.at = p, !.found = n]
    PROVE  /\ poll' \in Poll /\ poll'.at = p /\ poll'.found = n
           /\ poll'.mode = poll.mode /\ poll'.rev = poll.rev /\ poll'.turn = poll.turn
           /\ poll'.key = poll.key /\ poll'.fresh = poll.fresh /\ poll'.last = poll.last
<1> DEFINE P == {"idle", "pending"} \cup Candidacy \cup Formal \cup Routing \cup Commenting
<1>1. p \in P /\ poll \in [at : P, mode : Modes \cup {"none"}, rev : Revisions,
                turn : 0..MaxReprompts, key : Nat, found : Nat, fresh : BOOLEAN, last : BOOLEAN]
  BY DEF Poll
<1> HIDE DEF P
<1>2. poll' \in [at : P, mode : Modes \cup {"none"}, rev : Revisions,
                turn : 0..MaxReprompts, key : Nat, found : Nat, fresh : BOOLEAN, last : BOOLEAN]
  BY <1>1
<1> QED
  BY <1>1, <1>2 DEF Poll, P

LEMMA GotoType ==
    ASSUME poll \in Poll,
           NEW p \in {"idle", "pending"} \cup Candidacy \cup Formal \cup Routing \cup Commenting,
           Goto(p)
    PROVE  /\ poll' \in Poll /\ poll'.at = p /\ poll'.found = poll.found
           /\ poll'.mode = poll.mode /\ poll'.rev = poll.rev /\ poll'.turn = poll.turn
           /\ poll'.key = poll.key /\ poll'.fresh = poll.fresh /\ poll'.last = poll.last
<1>1. poll.found \in Nat
  BY DEF Poll
<1>2. poll' = [poll EXCEPT !.at = p, !.found = poll.found]
  BY DEF Goto, Poll
<1> QED
  BY <1>1, <1>2, FindType

----------------------------------------------------------------------------
(* The kinds of step *)

\* Attempts and publications keep their shapes, and publications what they are about.
IntentsKept ==
    /\ attempts' \in Seq(Attempt) /\ UNCHANGED artifacts
    /\ DOMAIN intents' = DOMAIN intents /\ intents' = [i \in DOMAIN intents |-> intents'[i]]
    /\ \A i \in DOMAIN intents :
        /\ intents'[i] \in Intent /\ Bound(intents'[i], i, reviews)
        /\ intents'[i].artifact = intents[i].artifact

\* They do if one of them changes, or none.
LEMMA OneKept ==
    ASSUME StoreSound, attempts' \in Seq(Attempt), UNCHANGED artifacts,
           NEW k \in DOMAIN intents, NEW x \in Intent, intents' = [intents EXCEPT ![k] = x],
           Bound(x, k, reviews), x.artifact = intents[k].artifact
    PROVE  /\ IntentsKept
           /\ intents'[k] = x
           /\ \A i \in DOMAIN intents : i # k => intents'[i] = intents[i]
<1>1. /\ DOMAIN intents' = DOMAIN intents /\ intents'[k] = x
      /\ \A i \in DOMAIN intents : i # k => intents'[i] = intents[i]
      /\ intents' = [i \in DOMAIN intents |-> intents'[i]]
  OBVIOUS
<1>2. \A i \in DOMAIN intents : intents[i] \in Intent /\ Bound(intents[i], i, reviews)
  BY Rows
<1>3. \A i \in DOMAIN intents :
          /\ intents'[i] \in Intent /\ Bound(intents'[i], i, reviews)
          /\ intents'[i].artifact = intents[i].artifact
  BY <1>1, <1>2
<1> QED
  BY <1>1, <1>3 DEF IntentsKept

LEMMA AllKept ==
    ASSUME StoreSound, attempts' \in Seq(Attempt), UNCHANGED <<artifacts, intents>>
    PROVE  IntentsKept
<1>1. /\ intents \in Seq(Intent)
      /\ \A i \in DOMAIN intents : intents[i] \in Intent /\ Bound(intents[i], i, reviews)
  BY Rows DEF StoreSound, Shapes
<1> QED
  BY <1>1 DEF IntentsKept

\* The forge is not changed.
LEMMA IntentsChange ==
    ASSUME StoreSound, IntentsKept, UNCHANGED <<reviews, comments>>
    PROVE  StoreSound' /\ Len(intents') = Len(intents)
<1> DEFINE n == Len(intents)
<1>1. n \in Nat /\ DOMAIN intents = 1..n
  BY Rows
<1>2. intents' \in [1..n -> Intent]
  BY <1>1 DEF IntentsKept
<1>3. intents' \in Seq(Intent) /\ Len(intents') = n
  BY <1>1, <1>2
<1>4. Intent' = Intent /\ Review' = Review /\ Comment' = Comment
  BY DEF Intent, Review, Comment, IntentsKept
<1>5. Shapes'
  BY <1>3, <1>4 DEF StoreSound, Shapes, IntentsKept
<1>6. WorkDoneOnce'
  BY DEF StoreSound, WorkDoneOnce, IntentsKept
<1>7. IntentsBound'
  BY DEF IntentsBound, IntentsKept
<1> QED
  BY <1>3, <1>5, <1>6, <1>7 DEF StoreSound

\* A publication is intended for findings that have none.
LEMMA IntentAppended ==
    ASSUME StoreSound, UNCHANGED <<attempts, artifacts, reviews, comments>>,
           NEW x \in Intent, intents' = Append(intents, x),
           x.status = "pending", x.retries = 0, x.review = 0, x.steps = {},
           \A i \in DOMAIN intents : intents[i].artifact # x.artifact
    PROVE  /\ StoreSound' /\ Len(intents') = Len(intents) + 1
           /\ DOMAIN intents' = 1..(Len(intents) + 1)
           /\ intents'[Len(intents) + 1] = x
           /\ \A i \in DOMAIN intents : intents'[i] = intents[i]
<1> DEFINE n == Len(intents)
<1>1. /\ intents \in Seq(Intent) /\ n \in Nat /\ DOMAIN intents = 1..n
      /\ \A i \in 1..n : Bound(intents[i], i, reviews)
      /\ \A r \in DOMAIN reviews : reviews[r] \in Review
      /\ \A c \in DOMAIN comments : comments[c] \in Comment
      /\ Len(reviews) \in Nat /\ DOMAIN reviews = 1..Len(reviews)
      /\ Len(comments) \in Nat /\ DOMAIN comments = 1..Len(comments)
  BY Rows DEF StoreSound, Shapes
<1>2. /\ intents' \in Seq(Intent) /\ Len(intents') = n + 1 /\ DOMAIN intents' = 1..(n + 1)
      /\ \A i \in 1..n : intents'[i] = intents[i]
      /\ intents'[n + 1] = x
  BY <1>1, AppendIs
<1>3. Intent' = Intent
  BY DEF Intent
<1>4. reviews \in Seq(Review') /\ comments \in Seq(Comment')
  <2>1. /\ \A r \in DOMAIN reviews : reviews[r] \in Review'
        /\ \A c \in DOMAIN comments : comments[c] \in Comment'
    BY <1>1, <1>2 DEF Review, Comment
  <2>2. reviews \in Seq(Review) /\ comments \in Seq(Comment)
    BY DEF StoreSound, Shapes
  <2> HIDE DEF n
  <2>3. reviews \in Seq(Review')
    BY <1>1, <2>1, <2>2, SeqRetyped
  <2>4. comments \in Seq(Comment')
    BY <1>1, <2>1, <2>2, SeqRetyped
  <2> QED
    BY <2>3, <2>4
<1>5. Shapes'
  BY <1>2, <1>3, <1>4 DEF StoreSound, Shapes
<1>6. WorkDoneOnce'
  BY <1>1, <1>2 DEF StoreSound, WorkDoneOnce
<1>7. IntentsBound'
  <2>1. Bound(x, n + 1, reviews)
    BY DEF Bound
  <2> QED
    BY <1>1, <1>2, <2>1 DEF IntentsBound
<1> QED
  BY <1>1, <1>2, <1>5, <1>6, <1>7 DEF StoreSound

\* Findings are stored of a revision that has none.
LEMMA ArtifactAppended ==
    ASSUME StoreSound, attempts' \in Seq(Attempt), UNCHANGED <<intents, reviews, comments>>,
           NEW x \in Artifact, artifacts' = Append(artifacts, x), Artifacts(x.rev) = {}
    PROVE  /\ StoreSound' /\ Len(artifacts') = Len(artifacts) + 1
           /\ \A a \in DOMAIN artifacts : artifacts'[a] = artifacts[a]
<1> DEFINE n == Len(artifacts)
<1>1. /\ artifacts \in Seq(Artifact) /\ n \in Nat /\ DOMAIN artifacts = 1..n
      /\ Len(intents) \in Nat /\ DOMAIN intents = 1..Len(intents)
      /\ \A i \in DOMAIN intents : intents[i] \in Intent
      /\ intents \in Seq(Intent)
  BY Rows DEF StoreSound, Shapes
<1>2. /\ artifacts' \in Seq(Artifact) /\ Len(artifacts') = n + 1
      /\ DOMAIN artifacts' = 1..(n + 1)
      /\ \A a \in 1..n : artifacts'[a] = artifacts[a]
      /\ artifacts'[n + 1] = x
  BY <1>1, AppendIs
<1>3. intents \in Seq(Intent')
  <2>1. \A i \in DOMAIN intents : intents[i] \in Intent'
    BY <1>1, <1>2 DEF Intent
  <2> HIDE DEF n
  <2> QED
    BY <1>1, <2>1, SeqRetyped
<1>4. Shapes'
  <2>1. Review' = Review /\ Comment' = Comment
    BY DEF Review, Comment
  <2> QED
    BY <1>2, <1>3, <2>1 DEF StoreSound, Shapes
<1>5. WorkDoneOnce'
  BY <1>1, <1>2 DEF StoreSound, WorkDoneOnce, Artifacts
<1>6. IntentsBound'
  BY DEF StoreSound, IntentsBound
<1> QED
  BY <1>1, <1>2, <1>4, <1>5, <1>6 DEF StoreSound

\* A publication that has no review is given one.
LEMMA ReviewAppended ==
    ASSUME StoreSound, IntentsKept, UNCHANGED comments,
           NEW k \in DOMAIN intents, NEW h \in Heads, login \in Logins,
           reviews' = Append(reviews, [intent |-> k, head |-> h, login |-> login]),
           Marked(k) = {}
    PROVE  /\ StoreSound' /\ Len(intents') = Len(intents) /\ Len(reviews') = Len(reviews) + 1
           /\ \A r \in DOMAIN reviews : reviews'[r] = reviews[r]
           /\ reviews'[Len(reviews) + 1].intent = k
           /\ reviews'[Len(reviews) + 1].login = login
<1> DEFINE n == Len(reviews)
           x == [intent |-> k, head |-> h, login |-> login]
<1>1. /\ reviews \in Seq(Review) /\ n \in Nat /\ DOMAIN reviews = 1..n
      /\ Len(intents) \in Nat /\ DOMAIN intents = 1..Len(intents)
  BY Rows DEF StoreSound, Shapes
<1>2. x \in Review /\ x.intent = k /\ x.login = login
  BY DEF Review
<1> HIDE DEF x
<1>3. /\ reviews' \in Seq(Review) /\ Len(reviews') = n + 1
      /\ DOMAIN reviews' = 1..(n + 1)
      /\ \A r \in 1..n : reviews'[r] = reviews[r]
      /\ reviews'[n + 1] = x
  BY <1>1, <1>2, AppendIs DEF x
<1>4. intents' \in Seq(Intent') /\ Len(intents') = Len(intents)
  <2>1. \A i \in 1..Len(intents) : intents'[i] \in Intent'
    <3>1. Intent \subseteq Intent'
      <4>1. 0..n \subseteq 0..(n + 1) /\ UNCHANGED artifacts
        BY <1>1 DEF IntentsKept
      <4> QED
        BY <1>3, <4>1 DEF Intent
    <3> QED
      BY <1>1, <3>1 DEF IntentsKept
  <2>2. intents' \in [1..Len(intents) -> Intent']
    BY <1>1, <2>1 DEF IntentsKept
  <2> QED
    BY <1>1, <2>2
<1>5. Shapes'
  <2>1. Review' = Review /\ Comment' = Comment
    BY DEF Review, Comment, IntentsKept
  <2> QED
    BY <1>3, <1>4, <2>1 DEF StoreSound, Shapes, IntentsKept
<1>6. WorkDoneOnce'
  BY <1>1, <1>2, <1>3 DEF StoreSound, WorkDoneOnce, IntentsKept, Marked
<1>7. IntentsBound'
  <2>1. \A i \in DOMAIN intents : intents'[i].review \in 0..n
    BY <1>1 DEF Intent, IntentsKept
  <2> QED
    BY <1>1, <1>3, <2>1 DEF IntentsBound, Bound, IntentsKept
<1> QED
  BY <1>1, <1>2, <1>3, <1>4, <1>5, <1>6, <1>7 DEF StoreSound

\* A publication that has no comment by the credential is given one.
LEMMA CommentAppended ==
    ASSUME StoreSound, IntentsKept, UNCHANGED reviews,
           NEW k \in DOMAIN intents, login \in Logins,
           comments' = Append(comments, [intent |-> k, login |-> login, live |-> TRUE]),
           OwnComments(k) = {}
    PROVE  /\ StoreSound' /\ Len(intents') = Len(intents) /\ Len(comments') = Len(comments) + 1
           /\ \A c \in DOMAIN comments : comments'[c] = comments[c]
<1> DEFINE n == Len(comments)
           x == [intent |-> k, login |-> login, live |-> TRUE]
<1>1. /\ comments \in Seq(Comment) /\ n \in Nat /\ DOMAIN comments = 1..n
      /\ Len(intents) \in Nat /\ DOMAIN intents = 1..Len(intents)
  BY Rows DEF StoreSound, Shapes
<1>2. x \in Comment /\ x.intent = k /\ x.login = login /\ x.live
  BY DEF Comment
<1> HIDE DEF x
<1>3. /\ comments' \in Seq(Comment) /\ Len(comments') = n + 1
      /\ DOMAIN comments' = 1..(n + 1)
      /\ \A r \in 1..n : comments'[r] = comments[r]
      /\ comments'[n + 1] = x
  BY <1>1, <1>2, AppendIs DEF x
<1>4. intents' \in Seq(Intent') /\ Len(intents') = Len(intents)
  <2>1. \A i \in 1..Len(intents) : intents'[i] \in Intent'
    <3>1. Intent \subseteq Intent'
      <4>1. 0..n \subseteq 0..(n + 1) /\ UNCHANGED artifacts
        BY <1>1 DEF IntentsKept
      <4> QED
        BY <1>3, <4>1 DEF Intent
    <3> QED
      BY <1>1, <3>1 DEF IntentsKept
  <2>2. intents' \in [1..Len(intents) -> Intent']
    BY <1>1, <2>1 DEF IntentsKept
  <2> QED
    BY <1>1, <2>2
<1>5. Shapes'
  <2>1. Review' = Review /\ Comment' = Comment
    BY DEF Review, Comment, IntentsKept
  <2> QED
    BY <1>3, <1>4, <2>1 DEF StoreSound, Shapes, IntentsKept
<1>6. WorkDoneOnce'
  <2>1. (ArtifactsOnce /\ IntentsOnce /\ ReviewsOnce)'
    <3>1. ArtifactsOnce /\ IntentsOnce /\ ReviewsOnce
      BY DEF StoreSound, WorkDoneOnce, ArtifactsOnce, IntentsOnce, ReviewsOnce
    <3>2. ArtifactsOnce' /\ ReviewsOnce'
      BY <3>1 DEF IntentsKept, ArtifactsOnce, ReviewsOnce
    <3>3. IntentsOnce'
      BY <3>1 DEF IntentsKept, IntentsOnce
    <3> QED
      BY <3>2, <3>3
  <2>2. CommentsOnce'
    <3>1. CommentsOnce
      BY DEF StoreSound, WorkDoneOnce, CommentsOnce
    <3>2. \A c \in 1..n : ~(comments[c].live /\ comments[c].intent = k /\ comments[c].login = login)
      BY <1>1 DEF OwnComments
    <3> QED
      BY <1>1, <1>2, <1>3, <3>1, <3>2 DEF CommentsOnce
  <2> QED
    BY <2>1, <2>2 DEF WorkDoneOnce, ArtifactsOnce, IntentsOnce, ReviewsOnce, CommentsOnce
<1>7. IntentsBound'
  BY DEF IntentsBound, IntentsKept
<1> QED
  BY <1>1, <1>3, <1>4, <1>5, <1>6, <1>7 DEF StoreSound

----------------------------------------------------------------------------
(* What a poll is at *)

\* The last attempt changes its status.
LEMMA SetAttemptType ==
    ASSUME StoreSound,
           NEW st \in {"running", "completed", "failed", "blocked", "interrupted"},
           SetAttempt(st)
    PROVE  attempts' \in Seq(Attempt)
<1>1. attempts \in Seq(Attempt) /\ DOMAIN attempts = 1..Len(attempts) /\ Len(attempts) \in Nat
  BY Rows DEF StoreSound, Shapes
<1>2. CASE Len(attempts) = 0
  <2> DEFINE n == Len(attempts)
             x == [attempts[n] EXCEPT !.status = st]
  <2>1. attempts' = [attempts EXCEPT ![n] = x]
    BY DEF SetAttempt
  <2> HIDE DEF x
  <2>2. attempts' = [a \in DOMAIN attempts |-> attempts'[a]] /\ DOMAIN attempts = 1..0
    BY <1>1, <1>2, <2>1
  <2>3. attempts' \in [1..0 -> Attempt]
    BY <2>2
  <2> QED
    BY <2>3
<1>3. CASE Len(attempts) # 0
  <2> DEFINE n == Len(attempts)
             x == [attempts[n] EXCEPT !.status = st]
  <2>1. n \in 1..Len(attempts) /\ attempts[n] \in Attempt
    BY <1>1, <1>3
  <2>2. x \in Attempt
    BY <2>1 DEF Attempt
  <2>3. attempts' = [attempts EXCEPT ![n] = x]
    BY <1>1, <2>1 DEF SetAttempt
  <2> HIDE DEF x, n
  <2> QED
    BY <1>1, <2>1, <2>2, <2>3, ExceptSeq
<1> QED
  BY <1>2, <1>3

\* Nothing is asked of an idle poll.
LEMMA IdleSound == ASSUME poll'.at = "idle" PROVE PollSound'
  BY DEF PollSound, PollOwns, PollModes, PollFinds, PollMakes, HeadSeen, At, Publishing,
         Candidacy, Formal, Routing, Commenting, Early, Pinned, Accepted

\* A poll that comes back looks for more, unless it has begun the publication.
LEMMA ReturnedSound ==
    ASSUME PollShape, PollModes, ~At("idle"), poll' = Returned
    PROVE  poll' \in Poll /\ poll'.key = 0 /\ PollSound'
<1>1. CASE poll.fresh
  BY <1>1, IdleType, IdleSound DEF Returned
<1>2. CASE ~poll.fresh
  <2>1. poll \in Poll /\ (poll.mode = "none" => poll.last)
    BY <1>2 DEF PollShape, PollModes
  <2>2. poll' = [poll EXCEPT !.at = "pending", !.key = 0, !.found = 0]
    BY <1>2 DEF Returned
  <2>3. /\ poll'.at = "pending" /\ poll'.key = 0 /\ poll'.found = 0
        /\ poll'.fresh = poll.fresh /\ poll'.mode = poll.mode /\ poll'.last = poll.last
    BY <2>1, <2>2 DEF Poll
  <2>4. poll' \in Poll
    BY <2>1, <2>2, PhaseType
  <2> QED
    BY <1>2, <2>1, <2>3, <2>4 DEF PollSound, PollOwns, PollModes, PollFinds, PollMakes, HeadSeen, At, Publishing,
         Candidacy, Formal, Routing, Commenting, Early, Pinned, Accepted
<1> QED
  BY <1>1, <1>2

\* The publication a poll is at.
LEMMA AtPublication ==
    ASSUME IInv, poll.at \in Publishing
    PROVE  /\ poll.key \in DOMAIN intents /\ Mine = intents[poll.key] /\ Mine \in Intent
           /\ Mine.status = "pending" /\ Mine.retries < MaxAttempts
           /\ Bound(Mine, poll.key, reviews) /\ poll.key \notin todo /\ ~At("idle")
           /\ Mine.artifact \in DOMAIN artifacts /\ HeadOf(poll.key) \in Heads
<1>1. StoreSound /\ PollShape /\ PollSound
  BY Parts
<1>2. /\ poll.key > 0 /\ Mine.status = "pending" /\ poll.key \notin todo
      /\ poll.key \in 0..Len(intents)
  BY <1>1 DEF PollSound, PollOwns, PollShape
<1>3. poll.key \in DOMAIN intents
  BY <1>1, <1>2, Rows
<1>4. Mine \in Intent /\ Bound(Mine, poll.key, reviews)
  BY <1>1, <1>3, Rows DEF Mine
<1>5. Mine.artifact \in DOMAIN artifacts
  BY <1>4 DEF Intent
<1>6. HeadOf(poll.key) \in Heads
  <2>1. artifacts[Mine.artifact] \in Artifact
    BY <1>1, <1>5, Rows
  <2> QED
    BY <2>1 DEF HeadOf, ArtifactOf, Mine, Artifact, Heads
<1>7. ~At("idle")
  BY DEF At, Publishing, Formal, Routing, Commenting
<1> QED
  BY <1>2, <1>3, <1>4, <1>5, <1>6, <1>7 DEF Mine, Bound

\* Failures are recorded in shape, and what is still due has retries left.
LEMMA FailedIs ==
    ASSUME IInv, poll.at \in Publishing, NEW c \in BOOLEAN, attempts' \in Seq(Attempt),
           UNCHANGED artifacts, intents' = Failed(poll.key, c)
    PROVE  /\ IntentsKept
           /\ \A i \in DOMAIN intents : i # poll.key => intents'[i] = intents[i]
<1>1. /\ StoreSound /\ poll.key \in DOMAIN intents /\ Mine = intents[poll.key] /\ Mine \in Intent
      /\ Mine.status = "pending" /\ Mine.retries < MaxAttempts
      /\ Bound(Mine, poll.key, reviews)
  BY AtPublication, Parts
<1>2. CASE ~Claimable(poll.key)
  BY <1>1, <1>2, AllKept DEF Failed
<1>3. CASE Claimable(poll.key)
  <2> DEFINE st == CASE c -> "conflict"
                     [] ~c /\ BudgetSpent(intents[poll.key].retries) -> "blocked"
                     [] OTHER -> "pending"
             n == Mine.retries + 1
             x == [Mine EXCEPT !.retries = n, !.lease = "free", !.status = st]
  <2>1. /\ n \in 0..MaxAttempts /\ st \in {"conflict", "blocked", "pending"}
        /\ st = "pending" => n < MaxAttempts
    <3>1. Mine.retries \in 0..MaxAttempts /\ MaxAttempts \in Nat
      BY <1>1, ReviewAssumption DEF Intent
    <3>2. n \in 0..MaxAttempts
      BY <1>1, <3>1
    <3>3. st \in {"conflict", "blocked", "pending"}
      OBVIOUS
    <3>4. ASSUME st = "pending" PROVE n < MaxAttempts
      <4>1. ~BudgetSpent(Mine.retries)
        BY <1>1, <3>4
      <4> QED
        BY <3>1, <4>1 DEF BudgetSpent
    <3> QED
      BY <3>2, <3>3, <3>4
  <2>2. intents' = [intents EXCEPT ![poll.key] = x]
    BY <1>1, <1>3 DEF Failed
  <2> HIDE DEF st, n
  <2>3. /\ x \in Intent /\ x.artifact = Mine.artifact /\ x.status = st /\ x.retries = n
        /\ x.review = Mine.review /\ x.login = Mine.login /\ x.steps = Mine.steps
        /\ x.kind = Mine.kind
    BY <1>1, <2>1 DEF Intent
  <2> HIDE DEF x
  <2>4. Bound(x, poll.key, reviews)
    BY <1>1, <2>1, <2>3 DEF Bound
  <2> QED
    BY <1>1, <2>2, <2>3, <2>4, OneKept
<1> QED
  BY <1>2, <1>3

\* The invariant holds after a step if its parts do.
LEMMA StepKeeps ==
    ASSUME StoreSound', TodoPending', PollShape', PollSound', Rest'
    PROVE  IInv'
  BY Parts, PTL

\* A step that leaves publications and findings alone.
LEMMA StoreStays ==
    ASSUME IInv, attempts' \in Seq(Attempt), UNCHANGED <<artifacts, intents, reviews, comments>>,
           todo' \subseteq Pending, Rest', poll' \in Poll, poll'.key \in 0..Len(intents),
           PollSound'
    PROVE  IInv'
<1>1. StoreSound
  BY Parts
<1>2. StoreSound'
  BY <1>1, AllKept, IntentsChange
<1>3. TodoPending' /\ PollShape'
  BY DEF TodoPending, Pending, PollShape
<1> QED
  BY <1>2, <1>3, StepKeeps

\* A poll that has found nothing yet, and knows how to publish what it will find.
LEMMA CandidateSound ==
    ASSUME poll'.at \in Candidacy \ {"intend"}, poll'.found = 0,
           poll'.mode \in {"preview", "automatic"},
           poll'.at \in {"work", "store"} <=> poll'.fresh,
           poll'.at \in Pinned => (Artifacts(poll.rev) = {})'
    PROVE  PollSound'
  BY DEF PollSound, PollOwns, PollModes, PollFinds, PollMakes, HeadSeen, At, Publishing,
         Candidacy, Formal, Routing, Commenting, Early, Pinned, Accepted

\* A publication that goes on is still due, and still the poll's.
LEMMA Publishes ==
    ASSUME IInv, poll.at \in Publishing, poll'.at \in Publishing \ {"head"},
           poll'.at \in Commenting <=> poll.at \in Commenting,
           poll'.key = poll.key, poll'.mode = poll.mode, poll'.fresh = poll.fresh,
           poll'.last = poll.last, todo' = todo,
           Mine'.status = "pending", Mine'.kind = Mine.kind
    PROVE  PollOwns' /\ PollModes'
<1>1. PollOwns /\ PollModes
  BY Parts DEF PollSound
<1>2. PollOwns'
  BY <1>1 DEF PollOwns, Publishing, Formal, Routing, Commenting
<1>3. PollModes'
  BY <1>1 DEF PollModes, At, Publishing, Candidacy, Formal, Routing, Commenting, Early
<1> QED
  BY <1>2, <1>3

\* A failure ends the publication for this poll.
LEMMA FailureKeeps ==
    ASSUME IInv, poll.at \in Publishing, NEW c \in BOOLEAN, PublicationFails(c), UNCHANGED todo
    PROVE  /\ IntentsKept /\ TodoPending' /\ poll' \in Poll /\ poll'.key = 0 /\ PollSound'
           /\ UNCHANGED stage
<1>1. StoreSound /\ TodoPending /\ PollShape /\ PollModes /\ ~At("idle") /\ poll.key \notin todo
  BY Parts, AtPublication DEF PollSound
<1>2. attempts' \in Seq(Attempt)
  <2>1. FailedStatus \in {"running", "completed", "failed", "blocked", "interrupted"}
    BY DEF FailedStatus
  <2>2. SetAttempt(FailedStatus) \/ UNCHANGED attempts
    BY DEF PublicationFails
  <2> QED
    BY <1>1, <2>1, <2>2, SetAttemptType DEF StoreSound, Shapes
<1>3. /\ IntentsKept
      /\ \A i \in DOMAIN intents : i # poll.key => intents'[i] = intents[i]
  BY <1>2, FailedIs DEF PublicationFails
<1>4. TodoPending'
  BY <1>1, <1>3 DEF TodoPending, Pending, IntentsKept
<1>5. poll' \in Poll /\ poll'.key = 0 /\ PollSound'
  BY <1>1, ReturnedSound DEF PublicationFails
<1> QED
  BY <1>3, <1>4, <1>5 DEF PublicationFails

\* So does a head that has moved.
LEMMA SupersedeIs ==
    ASSUME IInv, poll.at \in Publishing, Supersede(poll.key), poll' = Returned, UNCHANGED todo
    PROVE  /\ IntentsKept /\ TodoPending' /\ poll' \in Poll /\ poll'.key = 0 /\ PollSound'
           /\ UNCHANGED stage
<1>1. /\ StoreSound /\ TodoPending /\ PollShape /\ PollModes /\ ~At("idle")
      /\ poll.key \notin todo /\ poll.key \in DOMAIN intents /\ Mine = intents[poll.key]
      /\ Mine \in Intent /\ Bound(Mine, poll.key, reviews)
  BY Parts, AtPublication DEF PollSound
<1>2. attempts' \in Seq(Attempt)
  BY <1>1 DEF StoreSound, Shapes, Supersede
<1>3. /\ IntentsKept
      /\ \A i \in DOMAIN intents : i # poll.key => intents'[i] = intents[i]
  <2>1. CASE ~Claimable(poll.key)
    BY <1>1, <1>2, <2>1, AllKept DEF Supersede
  <2>2. CASE Claimable(poll.key)
    <3> DEFINE x == [Mine EXCEPT !.status = "conflict", !.lease = "free"]
    <3>1. intents' = [intents EXCEPT ![poll.key] = x]
      BY <1>1, <2>2 DEF Supersede
    <3>2. /\ x \in Intent /\ x.artifact = Mine.artifact /\ x.status = "conflict"
          /\ x.review = Mine.review /\ x.login = Mine.login /\ x.steps = Mine.steps
          /\ x.kind = Mine.kind
      BY <1>1 DEF Intent
    <3> HIDE DEF x
    <3>3. Bound(x, poll.key, reviews)
      BY <1>1, <3>2 DEF Bound
    <3> QED
      BY <1>1, <1>2, <3>1, <3>2, <3>3, OneKept DEF Supersede
  <2> QED
    BY <2>1, <2>2
<1>4. TodoPending'
  BY <1>1, <1>3 DEF TodoPending, Pending, IntentsKept
<1>5. poll' \in Poll /\ poll'.key = 0 /\ PollSound'
  BY <1>1, ReturnedSound
<1> QED
  BY <1>3, <1>4, <1>5 DEF Supersede

\* Nothing but the rows of publications and attempts, and the poll, changes.
LEMMA PublicationStep ==
    ASSUME IInv, IntentsKept, UNCHANGED <<reviews, comments>>, TodoPending', Rest',
           poll' \in Poll, poll'.key \in 0..Len(intents), PollSound'
    PROVE  IInv'
<1>1. StoreSound
  BY Parts
<1>2. StoreSound' /\ Len(intents') = Len(intents)
  BY <1>1, IntentsChange
<1>3. PollShape'
  BY <1>2 DEF PollShape
<1> QED
  BY <1>2, <1>3, StepKeeps

LEMMA FailureStep ==
    ASSUME IInv, poll.at \in Publishing, NEW c \in BOOLEAN, PublicationFails(c),
           UNCHANGED <<reviews, comments, todo>>, Rest'
    PROVE  IInv'
<1>1. StoreSound /\ IntentsKept /\ TodoPending' /\ poll' \in Poll /\ poll'.key = 0 /\ PollSound'
  BY FailureKeeps, Parts
<1>2. poll'.key \in 0..Len(intents)
  BY <1>1, Rows
<1> QED
  BY <1>1, <1>2, PublicationStep

LEMMA SupersedeStep ==
    ASSUME IInv, poll.at \in Publishing, Supersede(poll.key), poll' = Returned,
           UNCHANGED <<reviews, comments, todo>>, Rest'
    PROVE  IInv'
<1>1. StoreSound /\ IntentsKept /\ TodoPending' /\ poll' \in Poll /\ poll'.key = 0 /\ PollSound'
  BY SupersedeIs, Parts
<1>2. poll'.key \in 0..Len(intents)
  BY <1>1, Rows
<1> QED
  BY <1>1, <1>2, PublicationStep

----------------------------------------------------------------------------
(* The candidate and its attempt *)

\* What a poll that looks for work has of the invariant.
LEMMA AtCandidate ==
    ASSUME IInv
    PROVE  /\ StoreSound /\ Rest /\ TodoPending /\ PollSound /\ attempts \in Seq(Attempt)
           /\ poll \in Poll /\ poll.key \in 0..Len(intents) /\ todo \subseteq Pending
           /\ 0 \in 0..Len(intents)
           /\ poll.at \in Candidacy =>
                poll.found = 0 /\ poll.mode \in {"preview", "automatic"}
           /\ poll.at \in Pinned => Artifacts(poll.rev) = {}
           /\ poll.at \in Early => ~poll.fresh
           /\ poll.at \in {"work", "store", "intend"} => poll.fresh
<1>1. StoreSound /\ TodoPending /\ PollShape /\ PollSound /\ Rest
  BY Parts
<1>2. Len(intents) \in Nat
  BY <1>1, Rows
<1> QED
  BY <1>1, <1>2 DEF StoreSound, Shapes, TodoPending, PollShape, PollSound, PollModes, PollFinds,
     PollMakes, Early

LEMMA PollStartsKeeps == ASSUME IInv, PollStarts PROVE IInv'
<1>1. PICK m \in Modes : poll' = [Idle EXCEPT !.at = "pending", !.mode = m]
  BY DEF PollStarts
<1>2. /\ poll' \in Poll /\ poll'.at = "pending" /\ poll'.mode = m /\ poll'.key = 0
      /\ poll'.found = 0 /\ ~poll'.fresh
  BY <1>1, IdleType DEF Idle, Poll
<1>3. PollSound'
  BY <1>2 DEF PollSound, PollOwns, PollModes, PollFinds, PollMakes, HeadSeen, At, Publishing,
         Candidacy, Formal, Routing, Commenting, Early, Pinned, Accepted
<1>4. Rest' /\ todo' \subseteq Pending
  BY AtCandidate DEF PollStarts, Rest, forge_vars, people_vars
<1> QED
  BY <1>2, <1>3, <1>4, AtCandidate, StoreStays DEF PollStarts, forge_vars

\* The poll ends.
LEMMA IdleStep ==
    ASSUME IInv, attempts' \in Seq(Attempt), UNCHANGED <<artifacts, intents, reviews, comments>>,
           todo' \subseteq Pending, Rest', poll' = Idle
    PROVE  IInv'
  BY AtCandidate, IdleType, IdleSound, StoreStays

\* It goes on to look for work, or at it.
LEMMA CandidateStep ==
    ASSUME IInv, attempts' \in Seq(Attempt), UNCHANGED <<artifacts, intents, reviews, comments>>,
           todo' \subseteq Pending, Rest', poll' \in Poll,
           poll'.key = poll.key, poll'.at \in Candidacy \ {"intend"}, poll'.found = 0,
           poll'.mode \in {"preview", "automatic"},
           poll'.at \in {"work", "store"} <=> poll'.fresh,
           poll'.at \in Pinned => Artifacts(poll'.rev) = {}
    PROVE  IInv'
<1>1. poll'.at \in Pinned => (Artifacts(poll.rev) = {})'
  BY DEF Artifacts
<1>2. PollSound'
  BY <1>1, CandidateSound
<1> QED
  BY <1>2, AtCandidate, StoreStays

LEMMA PendingDoneKeeps == ASSUME IInv, PendingDone PROVE IInv'
<1>1. /\ attempts' \in Seq(Attempt) /\ UNCHANGED <<artifacts, intents, reviews, comments>>
      /\ todo' \subseteq Pending /\ Rest' /\ PollModes /\ PollFinds /\ poll \in Poll
  BY AtCandidate DEF PendingDone, store_vars, forge_vars, people_vars, Rest, PollSound
<1>2. CASE poll' = Idle
  BY <1>1, <1>2, IdleStep
<1>3. CASE ~poll.last /\ poll.mode # "off" /\ Goto("intake")
  <2>1. poll.mode \in {"preview", "automatic"} /\ ~poll.fresh /\ poll.found = 0
    BY <1>1, <1>3 DEF PendingDone, PollModes, PollFinds, At, Poll
  <2>2. /\ poll' \in Poll /\ poll'.at = "intake" /\ poll'.found = 0 /\ ~poll'.fresh
        /\ poll'.mode = poll.mode /\ poll'.key = poll.key
    BY <1>1, <1>3, <2>1, GotoType DEF Candidacy
  <2> QED
    BY <1>1, <2>1, <2>2, CandidateStep DEF Candidacy, Pinned
<1> QED
  BY <1>2, <1>3 DEF PendingDone, Goto

\* A phase of the candidate leads to another, or the poll ends.
LEMMA CandidateGoes ==
    ASSUME IInv, UNCHANGED <<attempts, artifacts, intents, reviews, comments, todo>>, Rest',
           NEW p \in {"pull", "claim", "inputs"}, poll.at \in Early,
           p \in Pinned => poll.at \in Pinned,
           Goto(p) \/ poll' = Idle
    PROVE  IInv'
<1>1. /\ attempts' \in Seq(Attempt) /\ todo' \subseteq Pending /\ poll \in Poll
      /\ poll.found = 0 /\ poll.mode \in {"preview", "automatic"} /\ ~poll.fresh
      /\ p \in Pinned => Artifacts(poll.rev) = {}
  BY AtCandidate DEF Early, Candidacy
<1>2. CASE poll' = Idle
  BY <1>1, <1>2, IdleStep
<1>3. CASE Goto(p)
  <2>1. /\ poll' \in Poll /\ poll'.at = p /\ poll'.found = 0 /\ ~poll'.fresh
        /\ poll'.mode = poll.mode /\ poll'.key = poll.key /\ poll'.rev = poll.rev
    BY <1>1, <1>3, GotoType DEF Candidacy
  <2> QED
    BY <1>1, <2>1, CandidateStep DEF Candidacy
<1> QED
  BY <1>2, <1>3

LEMMA TakeCandidateKeeps == ASSUME IInv, TakeCandidate PROVE IInv'
<1>1. /\ UNCHANGED <<attempts, artifacts, intents, reviews, comments, todo>> /\ Rest'
      /\ poll.at \in Early /\ (Goto("pull") \/ poll' = Idle)
  BY AtCandidate DEF TakeCandidate, store_vars, forge_vars, people_vars, Rest, At, Early
<1> QED
  BY <1>1, CandidateGoes DEF Pinned

LEMMA SkipRevisionKeeps == ASSUME IInv, SkipRevision PROVE IInv'
  BY AtCandidate, IdleStep DEF SkipRevision, store_vars, forge_vars, people_vars, Rest

LEMMA ListFilesKeeps == ASSUME IInv, ListFiles PROVE IInv'
<1>1. /\ UNCHANGED <<attempts, artifacts, intents, reviews, comments, todo>> /\ Rest'
      /\ poll.at \in Early /\ poll.at \in Pinned /\ (Goto("claim") \/ poll' = Idle)
  BY AtCandidate DEF ListFiles, store_vars, forge_vars, people_vars, Rest, At, Early, Pinned
<1> QED
  BY <1>1, CandidateGoes

LEMMA ClaimKeeps == ASSUME IInv, Claim PROVE IInv'
<1>1. /\ UNCHANGED <<attempts, artifacts, intents, reviews, comments, todo>> /\ Rest'
      /\ poll.at \in Early /\ poll.at \in Pinned /\ Goto("inputs")
  BY AtCandidate DEF Claim, forge_vars, people_vars, Rest, At, Early, Pinned
<1> QED
  BY <1>1, CandidateGoes

LEMMA PinRevisionKeeps == ASSUME IInv, PinRevision PROVE IInv'
<1>1. /\ attempts' \in Seq(Attempt) /\ UNCHANGED <<artifacts, intents, reviews, comments>>
      /\ todo' \subseteq Pending /\ Rest' /\ poll \in Poll /\ poll.found = 0
      /\ poll.mode \in {"preview", "automatic"} /\ ~poll.fresh /\ Live \in Revisions
  BY AtCandidate
     DEF PinRevision, store_vars, forge_vars, people_vars, Rest, At, Early, Candidacy, Live
<1>2. /\ poll' \in Poll /\ poll'.at = "files" /\ poll'.rev = Live /\ poll'.found = 0
      /\ ~poll'.fresh /\ poll'.mode = poll.mode /\ poll'.key = poll.key
  BY <1>1 DEF PinRevision, Poll, Candidacy
<1> QED
  BY <1>1, <1>2, CandidateStep DEF PinRevision, Candidacy

LEMMA StoreInputsKeeps == ASSUME IInv, StoreInputs PROVE IInv'
<1>1. /\ attempts \in Seq(Attempt) /\ UNCHANGED <<artifacts, intents, reviews, comments>>
      /\ todo' \subseteq Pending /\ Rest' /\ poll \in Poll /\ poll.found = 0
      /\ poll.mode \in {"preview", "automatic"} /\ Artifacts(poll.rev) = {}
  BY AtCandidate DEF StoreInputs, forge_vars, people_vars, Rest, At, Candidacy, Pinned
<1>2. /\ poll' \in Poll /\ poll'.at = "work" /\ poll'.rev = poll.rev /\ poll'.found = 0
      /\ poll'.fresh /\ poll'.mode = poll.mode /\ poll'.key = poll.key
  BY <1>1 DEF StoreInputs, Poll, Candidacy
<1>3. [rev |-> poll.rev, status |-> "running"] \in Attempt
  BY <1>1 DEF Poll, Attempt
<1>4. attempts' \in Seq(Attempt)
  BY <1>1, <1>3, AppendIs DEF StoreInputs
<1> QED
  BY <1>1, <1>2, <1>4, CandidateStep DEF Candidacy

\* The attempt ends, and the poll with it.
LEMMA EndAttemptStep ==
    ASSUME IInv, NEW st \in {"completed", "failed", "blocked", "interrupted"}, EndAttempt(st),
           UNCHANGED <<forge_vars, todo, moved, people_vars>>, faults' \in 0..MaxFaults
    PROVE  IInv'
<1>1. attempts' \in Seq(Attempt)
  BY AtCandidate, SetAttemptType DEF EndAttempt
<1>2. Rest'
  BY AtCandidate DEF EndAttempt, Rest, forge_vars, people_vars
<1> QED
  BY <1>1, <1>2, AtCandidate, IdleStep DEF EndAttempt, forge_vars

LEMMA WorkerFailsKeeps == ASSUME IInv, WorkerFails PROVE IInv'
<1>1. CASE poll.turn < MaxReprompts
  <2> DEFINE n == poll.turn + 1
  <2>1. /\ attempts' \in Seq(Attempt) /\ UNCHANGED <<artifacts, intents, reviews, comments>>
        /\ todo' \subseteq Pending /\ Rest' /\ poll \in Poll /\ poll.found = 0
        /\ poll.mode \in {"preview", "automatic"} /\ Artifacts(poll.rev) = {} /\ poll.fresh
    BY <1>1, AtCandidate
       DEF WorkerFails, store_vars, forge_vars, people_vars, Rest, At, Candidacy, Pinned
  <2>2. n \in 0..MaxReprompts
    BY <1>1, <2>1 DEF Poll
  <2>3. poll' = [poll EXCEPT !.turn = n]
    BY <1>1 DEF WorkerFails
  <2> HIDE DEF n
  <2>4. /\ poll' \in Poll /\ poll'.at = poll.at /\ poll'.rev = poll.rev /\ poll'.found = 0
        /\ poll'.fresh /\ poll'.mode = poll.mode /\ poll'.key = poll.key
    BY <2>1, <2>2, <2>3 DEF Poll
  <2> QED
    BY <2>1, <2>4, CandidateStep DEF WorkerFails, At, Candidacy
<1>2. CASE ~(poll.turn < MaxReprompts)
  BY <1>2, EndAttemptStep DEF WorkerFails, IInv, TypeOK
<1> QED
  BY <1>1, <1>2

LEMMA WorkerOvertakenKeeps == ASSUME IInv, WorkerOvertaken PROVE IInv'
  BY EndAttemptStep DEF WorkerOvertaken, IInv, TypeOK

LEMMA WorkerReturnsKeeps == ASSUME IInv, WorkerReturns PROVE IInv'
<1>1. /\ attempts' \in Seq(Attempt) /\ UNCHANGED <<artifacts, intents, reviews, comments>>
      /\ todo' \subseteq Pending /\ Rest' /\ poll \in Poll /\ poll.found = 0
      /\ poll.mode \in {"preview", "automatic"} /\ Artifacts(poll.rev) = {} /\ poll.fresh
  BY AtCandidate
     DEF WorkerReturns, store_vars, forge_vars, people_vars, Rest, At, Candidacy, Pinned
<1>2. /\ poll' \in Poll /\ poll'.at = "store" /\ poll'.rev = poll.rev /\ poll'.found = 0
      /\ poll'.fresh /\ poll'.mode = poll.mode /\ poll'.key = poll.key
  <2> DEFINE n == 0
             p == "store"
  <2>1. /\ n \in 0..MaxReprompts
        /\ p \in {"idle", "pending"} \cup Candidacy \cup Formal \cup Routing \cup Commenting
    BY DEF Candidacy
  <2>2. poll' = [poll EXCEPT !.at = p, !.turn = n]
    BY DEF WorkerReturns
  <2>3. p = "store"
    OBVIOUS
  <2> HIDE DEF n, p
  <2>4. poll' \in Poll
    BY <1>1, <2>1, <2>2 DEF Poll
  <2>5. poll'.at = p
    BY <1>1, <2>2 DEF Poll
  <2> QED
    BY <1>1, <2>2, <2>3, <2>4, <2>5 DEF Poll
<1> QED
  BY <1>1, <1>2, CandidateStep DEF Candidacy

\* A publication that is about to be intended.
LEMMA IntentType ==
    ASSUME IInv, NEW a \in DOMAIN artifacts, NEW m \in {"preview", "automatic"},
           NEW l \in {"free", "own"},
           NEW x, x = [artifact |-> a, kind |-> m, status |-> "pending", steps |-> {},
                       retries |-> 0, comment |-> 0, review |-> 0, login |-> "unbound",
                       lease |-> l]
    PROVE  /\ x \in Intent /\ x.artifact = a /\ x.kind = m /\ x.status = "pending"
           /\ x.steps = {} /\ x.retries = 0 /\ x.review = 0
<1>1. Len(comments) \in Nat /\ Len(reviews) \in Nat
  BY Parts, Rows
<1> QED
  BY <1>1 DEF Intent

LEMMA RecoverOrphanKeeps == ASSUME IInv, RecoverOrphan PROVE IInv'
<1>1. PICK a \in Orphans(Live) : intents' = Append(intents, NewIntent(a))
  BY DEF RecoverOrphan
<1>2. /\ StoreSound /\ a \in DOMAIN artifacts
      /\ \A i \in DOMAIN intents : intents[i].artifact # a
      /\ poll \in Poll /\ poll.mode \in {"preview", "automatic"} /\ poll.found = 0
      /\ ~poll.fresh /\ DOMAIN intents = 1..Len(intents) /\ Len(intents) \in Nat
  BY <1>1, AtCandidate, Rows DEF Orphans, Artifacts, RecoverOrphan, At, Candidacy, Early
<1>3. /\ NewIntent(a) \in Intent /\ NewIntent(a).artifact = a /\ NewIntent(a).review = 0
      /\ NewIntent(a).status = "pending" /\ NewIntent(a).steps = {}
      /\ NewIntent(a).retries = 0
  BY <1>2, IntentType DEF NewIntent
<1>4. /\ StoreSound' /\ Len(intents') = Len(intents) + 1
      /\ DOMAIN intents' = 1..(Len(intents) + 1)
      /\ intents'[Len(intents) + 1] = NewIntent(a)
      /\ \A i \in DOMAIN intents : intents'[i] = intents[i]
  BY <1>1, <1>2, <1>3, IntentAppended DEF RecoverOrphan, forge_vars
<1>5. TodoPending'
  BY <1>2, <1>3, <1>4 DEF RecoverOrphan, TodoPending, Pending
<1>6. /\ poll' \in Poll /\ poll'.at = "pending" /\ poll'.mode = "none" /\ poll'.last
      /\ poll'.found = 0 /\ ~poll'.fresh /\ poll'.key = poll.key
  BY <1>2 DEF RecoverOrphan, Poll, Candidacy
<1>7. PollSound'
  BY <1>6 DEF PollSound, PollOwns, PollModes, PollFinds, PollMakes, HeadSeen, At, Publishing,
         Candidacy, Formal, Routing, Commenting, Early, Pinned, Accepted
<1>8. Rest' /\ PollShape'
  BY <1>2, <1>4, <1>6, AtCandidate DEF RecoverOrphan, Rest, PollShape, forge_vars, people_vars
<1> QED
  BY <1>4, <1>5, <1>7, <1>8, StepKeeps

LEMMA StoreArtifactKeeps == ASSUME IInv, StoreArtifact PROVE IInv'
<1>1. PICK F \in SUBSET Findings :
          artifacts' = Append(artifacts,
              [rev |-> poll.rev, findings |-> F, persisting |-> F \cap Unresolved])
  BY DEF StoreArtifact
<1> DEFINE x == [rev |-> poll.rev, findings |-> F, persisting |-> F \cap Unresolved]
<1>2. /\ StoreSound /\ poll \in Poll /\ poll.mode \in {"preview", "automatic"}
      /\ poll.found = 0 /\ Artifacts(poll.rev) = {} /\ poll.fresh
      /\ DOMAIN artifacts = 1..Len(artifacts) /\ Len(artifacts) \in Nat
      /\ \A i \in DOMAIN intents : intents[i] \in Intent
  BY AtCandidate, Rows DEF StoreArtifact, At, Candidacy, Pinned
<1>3. x \in Artifact /\ x.rev = poll.rev
  BY <1>2 DEF Artifact, Poll
<1>4. attempts' \in Seq(Attempt)
  BY <1>2, SetAttemptType DEF StoreArtifact
<1>5. artifacts' = Append(artifacts, x)
  BY <1>1
<1> HIDE DEF x
<1>6. StoreSound' /\ Len(artifacts') = Len(artifacts) + 1
  BY <1>2, <1>3, <1>4, <1>5, ArtifactAppended DEF StoreArtifact, forge_vars
<1>7. /\ poll' \in Poll /\ poll'.at = "intend" /\ poll'.found = 0 /\ poll'.fresh
      /\ poll'.mode = poll.mode /\ poll'.key = poll.key
  BY <1>2, GotoType DEF StoreArtifact, Candidacy
<1>8. PollMakes'
  <2>1. \A i \in DOMAIN intents : intents[i].artifact \in DOMAIN artifacts
    BY <1>2 DEF Intent
  <2>2. \A i \in DOMAIN intents : intents[i].artifact # Len(artifacts')
    BY <1>2, <1>6, <2>1
  <2>3. artifacts' # <<>>
    BY <1>2, <1>6
  <2> QED
    BY <1>7, <2>2, <2>3 DEF PollMakes, At, Pinned, StoreArtifact
<1>9. PollSound'
  BY <1>2, <1>7, <1>8 DEF PollSound, PollOwns, PollModes, PollFinds, HeadSeen, At, Publishing,
         Candidacy, Formal, Routing, Commenting, Early, Accepted
<1>10. Rest' /\ TodoPending' /\ PollShape'
  BY <1>7, AtCandidate
     DEF StoreArtifact, Rest, TodoPending, Pending, PollShape, forge_vars, people_vars
<1> QED
  BY <1>6, <1>9, <1>10, StepKeeps

LEMMA IntendPublicationKeeps == ASSUME IInv, IntendPublication PROVE IInv'
<1> DEFINE n == Len(intents) + 1
           x == [NewIntent(Len(artifacts)) EXCEPT !.lease = "own"]
           p == IF poll.mode = "automatic" THEN "identity" ELSE "comment"
<1>1. /\ StoreSound /\ poll \in Poll /\ poll.mode \in {"preview", "automatic"}
      /\ poll.found = 0 /\ poll.fresh /\ todo \subseteq Pending
      /\ DOMAIN artifacts = 1..Len(artifacts) /\ Len(artifacts) \in Nat
      /\ DOMAIN intents = 1..Len(intents) /\ Len(intents) \in Nat /\ n \in Nat
      /\ artifacts \in Seq(Artifact)
  BY AtCandidate, Rows DEF IntendPublication, At, Candidacy, StoreSound, Shapes
<1>2. artifacts # <<>> /\ \A i \in DOMAIN intents : intents[i].artifact # Len(artifacts)
  BY AtCandidate DEF IntendPublication, PollSound, PollMakes
<1>3. Len(artifacts) \in DOMAIN artifacts
  BY <1>1, <1>2, EmptySeq
<1>4. /\ x \in Intent /\ x.artifact = Len(artifacts) /\ x.review = 0 /\ x.kind = poll.mode
      /\ x.status = "pending" /\ x.steps = {} /\ x.retries = 0
  <2> DEFINE y == NewIntent(Len(artifacts))
  <2>1. /\ y \in Intent /\ y.artifact = Len(artifacts) /\ y.kind = poll.mode
        /\ y.status = "pending" /\ y.steps = {} /\ y.retries = 0 /\ y.review = 0
    BY <1>1, <1>3, IntentType DEF NewIntent
  <2>2. x = [y EXCEPT !.lease = "own"]
    OBVIOUS
  <2> HIDE DEF x, y
  <2> QED
    BY <2>1, <2>2 DEF Intent
<1>5. intents' = Append(intents, x)
  BY DEF IntendPublication
<1>6. /\ poll' \in Poll /\ poll'.at = p /\ poll'.found = 0 /\ poll'.fresh
      /\ poll'.mode = "none" /\ poll'.key = n
  <2>1. poll' = [poll EXCEPT !.key = n, !.mode = "none", !.at = p]
    BY DEF IntendPublication
  <2>2. p \in {"idle", "pending"} \cup Candidacy \cup Formal \cup Routing \cup Commenting
    BY DEF Formal, Commenting
  <2> HIDE DEF p, n
  <2>3. poll' \in Poll
    BY <1>1, <2>1, <2>2 DEF Poll
  <2> QED
    BY <1>1, <2>1, <2>3 DEF Poll
<1> HIDE DEF x
<1>7. /\ StoreSound' /\ Len(intents') = n /\ DOMAIN intents' = 1..n /\ intents'[n] = x
      /\ \A i \in DOMAIN intents : intents'[i] = intents[i]
  BY <1>1, <1>2, <1>4, <1>5, IntentAppended DEF IntendPublication, forge_vars
<1>8. TodoPending'
  BY <1>1, <1>7 DEF IntendPublication, TodoPending, Pending
<1>9. PollSound'
  <2>1. PollOwns'
    <3>1. Mine' = x /\ poll'.key > 0 /\ poll'.key \notin todo'
      BY <1>1, <1>6, <1>7 DEF Mine, Pending, IntendPublication
    <3>2. \/ poll'.at = "identity" /\ x.kind = "automatic"
          \/ poll'.at = "comment" /\ x.kind = "preview"
      BY <1>1, <1>4, <1>6
    <3> QED
      BY <1>4, <3>1, <3>2 DEF PollOwns, Formal, Routing, Commenting
  <2>2. PollModes'
    BY <1>6 DEF PollModes, At, Candidacy, Early
  <2>3. PollFinds'
    BY <1>6 DEF PollFinds, At, Routing
  <2>4. PollMakes' /\ HeadSeen'
    BY <1>6 DEF PollMakes, HeadSeen, At, Pinned, Accepted, Routing
  <2> QED
    BY <2>1, <2>2, <2>3, <2>4 DEF PollSound
<1>10. Rest' /\ PollShape'
  BY <1>1, <1>6, <1>7, AtCandidate
     DEF IntendPublication, Rest, PollShape, forge_vars, people_vars
<1> QED
  BY <1>7, <1>8, <1>9, <1>10, StepKeeps

----------------------------------------------------------------------------
(* Resuming a publication *)

\* The lease of a publication is taken or given up.
LEMMA LeaseWritten ==
    ASSUME IInv, NEW k \in DOMAIN intents, NEW l \in {"free", "own", "old", "expired"},
           Write(k, "lease", l), attempts' \in Seq(Attempt), UNCHANGED artifacts
    PROVE  /\ IntentsKept
           /\ intents'[k] = [intents[k] EXCEPT !.lease = l]
           /\ \A i \in DOMAIN intents : i # k => intents'[i] = intents[i]
<1> DEFINE x == [intents[k] EXCEPT !.lease = l]
<1>1. StoreSound /\ intents[k] \in Intent /\ Bound(intents[k], k, reviews)
  BY Parts, Rows
<1>2. intents' = [intents EXCEPT ![k] = x]
  BY <1>1 DEF Write, Intent
<1>3. /\ x \in Intent /\ x.artifact = intents[k].artifact /\ x.status = intents[k].status
      /\ x.review = intents[k].review /\ x.login = intents[k].login
      /\ x.steps = intents[k].steps /\ x.kind = intents[k].kind
      /\ x.retries = intents[k].retries
  BY <1>1 DEF Intent
<1>4. x = [intents[k] EXCEPT !.lease = l]
  OBVIOUS
<1> HIDE DEF x
<1>5. Bound(x, k, reviews)
  BY <1>1, <1>3 DEF Bound
<1> QED
  BY <1>1, <1>2, <1>3, <1>4, <1>5, OneKept

\* A publication goes on to another phase, or is left for another poll.
LEMMA PublicationGoes ==
    ASSUME IInv, poll.at \in Publishing, IntentsKept, UNCHANGED <<reviews, comments, todo>>,
           \A i \in DOMAIN intents : i # poll.key => intents'[i] = intents[i],
           intents'[poll.key].status = "pending", intents'[poll.key].kind = Mine.kind,
           Rest', poll' \in Poll, poll'.at \in Publishing \ {"head"},
           poll'.at \in Commenting <=> poll.at \in Commenting,
           poll'.key = poll.key, poll'.mode = poll.mode, poll'.fresh = poll.fresh,
           poll'.last = poll.last, PollFinds', PollMakes', HeadSeen'
    PROVE  IInv'
<1>1. TodoPending /\ poll.key \notin todo /\ poll.key \in 0..Len(intents)
  BY Parts, AtPublication DEF PollShape
<1>2. TodoPending'
  BY <1>1 DEF TodoPending, Pending, IntentsKept
<1>3. Mine'.status = "pending" /\ Mine'.kind = Mine.kind
  BY DEF Mine
<1>4. PollSound'
  BY <1>3, Publishes DEF PollSound
<1> QED
  BY <1>1, <1>2, <1>4, PublicationStep

LEMMA PublicationReturns ==
    ASSUME IInv, poll.at \in Publishing, IntentsKept, UNCHANGED <<reviews, comments, todo>>,
           \A i \in DOMAIN intents : i # poll.key => intents'[i] = intents[i],
           Rest', poll' = Returned
    PROVE  IInv'
<1>1. /\ TodoPending /\ PollShape /\ PollModes /\ ~At("idle") /\ poll.key \notin todo
      /\ StoreSound
  BY Parts, AtPublication DEF PollSound
<1>2. TodoPending'
  BY <1>1 DEF TodoPending, Pending, IntentsKept
<1>3. poll' \in Poll /\ poll'.key = 0 /\ PollSound'
  BY <1>1, ReturnedSound
<1>4. poll'.key \in 0..Len(intents)
  BY <1>1, <1>3, Rows
<1> QED
  BY <1>2, <1>3, <1>4, PublicationStep

\* What a publication knows of itself.
LEMMA PublicationFacts ==
    ASSUME IInv, poll.at \in Publishing
    PROVE  /\ StoreSound /\ Rest /\ PollFinds /\ PollMakes /\ HeadSeen /\ PollModes
           /\ poll \in Poll /\ attempts \in Seq(Attempt)
           /\ poll.at \in Formal \cup Routing => Mine.kind = "automatic"
           /\ poll.at \in Commenting => Mine.kind = "preview"
           /\ Len(intents) \in Nat /\ DOMAIN intents = 1..Len(intents)
           /\ Len(reviews) \in Nat /\ DOMAIN reviews = 1..Len(reviews)
           /\ Len(comments) \in Nat /\ DOMAIN comments = 1..Len(comments)
<1>1. StoreSound /\ Rest /\ PollShape /\ PollSound
  BY Parts
<1> QED
  BY <1>1, Rows DEF PollSound, PollOwns, PollShape, StoreSound, Shapes

LEMMA ResumePublicationKeeps == ASSUME IInv, ResumePublication PROVE IInv'
<1> DEFINE i == Min(todo)
<1>1. /\ StoreSound /\ TodoPending /\ poll \in Poll /\ poll.at = "pending" /\ ~poll.fresh
      /\ poll.found = 0 /\ (poll.mode = "none" => poll.last) /\ Rest /\ PollShape /\ PollSound
      /\ DOMAIN intents = 1..Len(intents) /\ Len(intents) \in Nat /\ attempts \in Seq(Attempt)
  BY Parts, Rows
     DEF ResumePublication, At, PollSound, PollModes, PollFinds, PollShape, StoreSound, Shapes
<1>2. /\ i \in todo /\ i \in DOMAIN intents /\ intents[i].status = "pending" /\ i > 0
      /\ i \in Nat /\ todo' = todo \ {i}
  <2>1. todo \subseteq DOMAIN intents /\ todo # {}
    BY <1>1 DEF TodoPending, Pending, ResumePublication
  <2>2. i \in todo
    BY <1>1, <2>1, MinIsMember
  <2> QED
    BY <1>1, <2>1, <2>2 DEF TodoPending, Pending, ResumePublication
<1>3. Rest'
  BY <1>1 DEF ResumePublication, Rest, forge_vars, people_vars
<1>4. /\ \/ /\ intents[i].kind = "automatic"
            /\ poll' = [poll EXCEPT !.at = "head", !.key = i]
            /\ UNCHANGED intents
         \/ /\ intents[i].kind = "preview"
            /\ IF Claimable(i)
               THEN /\ poll' = [poll EXCEPT !.at = "comment", !.key = i]
                    /\ Write(i, "lease", "own")
               ELSE UNCHANGED <<poll, intents>>
      /\ attempts' \in Seq(Attempt)
      /\ UNCHANGED <<artifacts, reviews, comments>>
  BY <1>1 DEF ResumePublication, forge_vars
<1> HIDE DEF i
<1>5. ASSUME NEW p \in {"head", "comment"}, poll' = [poll EXCEPT !.at = p, !.key = i],
             IntentsKept, intents'[i].status = "pending",
             intents'[i].kind = IF p = "head" THEN "automatic" ELSE "preview",
             \A j \in DOMAIN intents : j # i => intents'[j] = intents[j]
      PROVE  IInv'
  <2>1. StoreSound' /\ Len(intents') = Len(intents)
    BY <1>1, <1>4, <1>5, IntentsChange
  <2>2. TodoPending'
    BY <1>1, <1>2, <1>5 DEF TodoPending, Pending, IntentsKept
  <2>3. p \in {"idle", "pending"} \cup Candidacy \cup Formal \cup Routing \cup Commenting
    BY <1>5 DEF Formal, Commenting
  <2>4. /\ poll' \in Poll /\ poll'.at = p /\ poll'.key = i /\ poll'.found = poll.found
        /\ poll'.fresh = poll.fresh /\ poll'.mode = poll.mode /\ poll'.last = poll.last
    BY <1>1, <1>2, <1>5, <2>3 DEF Poll
  <2>5. PollOwns'
    BY <1>2, <1>5, <2>4 DEF PollOwns, Mine, Formal, Routing, Commenting
  <2>6. PollModes' /\ PollFinds' /\ PollMakes' /\ HeadSeen'
    BY <1>1, <1>5, <2>4 DEF PollModes, PollFinds, PollMakes, HeadSeen, At, Candidacy, Early,
       Pinned, Accepted, Routing
  <2>7. PollShape'
    BY <1>1, <1>2, <2>1, <2>4 DEF PollShape
  <2> QED
    BY <1>3, <2>1, <2>2, <2>5, <2>6, <2>7, StepKeeps DEF PollSound
<1>6. CASE intents[i].kind = "automatic" /\ poll' = [poll EXCEPT !.at = "head", !.key = i]
             /\ UNCHANGED intents
  <2>1. IntentsKept
    BY <1>1, <1>4, <1>6, AllKept
  <2> QED
    BY <1>2, <1>5, <1>6, <2>1
<1>7. CASE intents[i].kind = "preview" /\ poll' = [poll EXCEPT !.at = "comment", !.key = i]
             /\ Write(i, "lease", "own")
  <2>1. /\ IntentsKept /\ \A j \in DOMAIN intents : j # i => intents'[j] = intents[j]
        /\ intents'[i] = [intents[i] EXCEPT !.lease = "own"]
    BY <1>2, <1>4, <1>7, LeaseWritten
  <2>2. intents[i] \in Intent
    BY <1>1, <1>2, Rows
  <2>3. intents'[i].status = "pending" /\ intents'[i].kind = "preview"
    BY <1>2, <1>7, <2>1, <2>2 DEF Intent
  <2> QED
    BY <1>5, <1>7, <2>1, <2>3
<1>8. CASE UNCHANGED <<poll, intents>>
  <2>1. /\ poll'.at = "pending" /\ poll'.found = 0 /\ ~poll'.fresh
        /\ poll'.mode = "none" => poll'.last
    BY <1>1, <1>8
  <2>2. PollSound'
    BY <2>1 DEF PollSound, PollOwns, PollModes, PollFinds, PollMakes, HeadSeen, At, Publishing,
         Candidacy, Formal, Routing, Commenting, Early, Pinned, Accepted
  <2>3. todo' \subseteq Pending /\ poll' \in Poll /\ poll'.key \in 0..Len(intents)
    BY <1>1, <1>2, <1>8 DEF TodoPending, PollShape
  <2> QED
    BY <1>3, <1>4, <1>8, <2>2, <2>3, StoreStays
<1> QED
  BY <1>4, <1>6, <1>7, <1>8

LEMMA CheckHeadKeeps == ASSUME IInv, CheckHead PROVE IInv'
<1>1. poll.at \in Publishing /\ poll.at = "head"
  BY DEF CheckHead, At, Publishing, Formal
<1>2. /\ StoreSound /\ Rest /\ poll \in Poll /\ Mine.kind = "automatic" /\ poll.found = 0
      /\ poll.key \in DOMAIN intents /\ Mine = intents[poll.key] /\ Mine \in Intent
      /\ Mine.status = "pending" /\ attempts \in Seq(Attempt)
  BY <1>1, PublicationFacts, AtPublication DEF PollFinds, Formal
<1>3. Rest' /\ UNCHANGED <<reviews, comments, todo>>
  BY <1>2 DEF CheckHead, Rest, forge_vars, people_vars, Supersede
<1>4. CASE HeadHolds(poll.key)
  <2>1. /\ Begin(poll.key, intents) /\ attempts' \in Seq(Attempt)
        /\ UNCHANGED <<artifacts, pull>> /\ pull.rev.head = HeadOf(poll.key)
    BY <1>2, <1>4 DEF CheckHead, HeadHolds, forge_vars
  <2>2. CASE poll' = Returned /\ UNCHANGED intents
    BY <1>1, <1>2, <1>3, <2>1, <2>2, AllKept, PublicationReturns
  <2>3. CASE "findings_recorded" \in Mine.steps /\ Goto("route") /\ UNCHANGED intents
    <3>1. /\ poll' \in Poll /\ poll'.at = "route" /\ poll'.found = poll.found
          /\ poll'.key = poll.key /\ poll'.mode = poll.mode /\ poll'.fresh = poll.fresh
          /\ poll'.last = poll.last
      BY <1>2, <2>3, GotoType DEF Routing
    <3>2. PollFinds' /\ PollMakes' /\ HeadSeen'
      BY <1>2, <2>1, <2>3, <3>1 DEF PollFinds, PollMakes, HeadSeen, At, Candidacy, Pinned, Mine,
         HeadOf, ArtifactOf
    <3>3. IntentsKept
      BY <1>2, <2>1, <2>3, AllKept
    <3> QED
      BY <1>1, <1>2, <1>3, <2>3, <3>1, <3>2, <3>3, PublicationGoes
         DEF Publishing, Routing, Commenting
  <2>4. CASE Goto("identity") /\ Write(poll.key, "lease", "own")
    <3>1. /\ poll' \in Poll /\ poll'.at = "identity" /\ poll'.found = poll.found
          /\ poll'.key = poll.key /\ poll'.mode = poll.mode /\ poll'.fresh = poll.fresh
          /\ poll'.last = poll.last
      BY <1>2, <2>4, GotoType DEF Formal
    <3>2. PollFinds' /\ PollMakes' /\ HeadSeen'
      BY <1>2, <3>1 DEF PollFinds, PollMakes, HeadSeen, At, Candidacy, Pinned, Accepted, Routing
    <3>3. /\ IntentsKept /\ \A i \in DOMAIN intents : i # poll.key => intents'[i] = intents[i]
          /\ intents'[poll.key] = [Mine EXCEPT !.lease = "own"]
      BY <1>2, <2>1, <2>4, LeaseWritten
    <3>4. intents'[poll.key].status = "pending" /\ intents'[poll.key].kind = Mine.kind
      BY <1>2, <3>3 DEF Intent
    <3> QED
      BY <1>1, <1>2, <1>3, <3>1, <3>2, <3>3, <3>4, PublicationGoes
         DEF Publishing, Formal, Commenting
  <2> QED
    BY <1>2, <2>1, <2>2, <2>3, <2>4 DEF Begin, Goto, Write
<1>5. CASE ~HeadHolds(poll.key)
  BY <1>1, <1>3, <1>5, SupersedeStep DEF CheckHead, HeadHolds
<1> QED
  BY <1>4, <1>5

----------------------------------------------------------------------------
(* Publishing a formal review *)

\* A publication goes on while the store and the forge stay as they are.
LEMMA PhaseGoes ==
    ASSUME IInv, poll.at \in Publishing,
           UNCHANGED <<attempts, artifacts, intents, reviews, comments, todo>>, Rest',
           poll' \in Poll, poll'.at \in Publishing \ {"head"},
           poll'.at \in Commenting <=> poll.at \in Commenting,
           poll'.key = poll.key, poll'.mode = poll.mode, poll'.fresh = poll.fresh,
           poll'.last = poll.last, PollFinds', PollMakes', HeadSeen'
    PROVE  IInv'
<1>1. StoreSound /\ Mine = intents[poll.key] /\ Mine.status = "pending" /\ attempts \in Seq(Attempt)
  BY AtPublication, PublicationFacts
<1>2. IntentsKept
  BY <1>1, AllKept
<1> QED
  BY <1>1, <1>2, PublicationGoes

\* It is left while they do.
LEMMA PhaseReturns ==
    ASSUME IInv, poll.at \in Publishing,
           UNCHANGED <<attempts, artifacts, intents, reviews, comments, todo>>, Rest',
           poll' = Returned
    PROVE  IInv'
<1>1. StoreSound /\ attempts \in Seq(Attempt)
  BY PublicationFacts
<1>2. IntentsKept
  BY <1>1, AllKept
<1> QED
  BY <1>1, <1>2, PublicationReturns

LEMMA IdentifyKeeps == ASSUME IInv, Identify PROVE IInv'
<1>1. poll.at \in Publishing /\ poll.at = "identity"
  BY DEF Identify, At, Publishing, Formal
<1>2. Rest /\ poll \in Poll /\ poll.found = 0 /\ Mine = intents[poll.key]
  BY <1>1, PublicationFacts, AtPublication DEF PollFinds, Formal
<1>3. UNCHANGED <<reviews, comments, todo>>
  BY DEF Identify, forge_vars
<1>4. CASE PublicationFails(TRUE)
  BY <1>1, <1>2, <1>3, <1>4, FailureStep
     DEF Identify, Rest, forge_vars, people_vars, PublicationFails
<1>5. ASSUME NEW p \in {"list", "accept"}, Goto(p), p = "accept" => Mine.review # 0,
             UNCHANGED store_vars
      PROVE  IInv'
  <2>1. /\ poll' \in Poll /\ poll'.at = p /\ poll'.found = 0
        /\ poll'.key = poll.key /\ poll'.mode = poll.mode /\ poll'.fresh = poll.fresh
        /\ poll'.last = poll.last
    BY <1>2, <1>5, GotoType DEF Formal
  <2>2. PollFinds' /\ PollMakes' /\ HeadSeen'
    BY <1>5, <2>1 DEF PollFinds, PollMakes, HeadSeen, At, Candidacy, Pinned, Accepted, Routing,
       Mine, store_vars
  <2> QED
    BY <1>1, <1>2, <1>3, <1>5, <2>1, <2>2, PhaseGoes
       DEF Publishing, Formal, Commenting, store_vars, Rest, Identify, forge_vars, people_vars
<1> QED
  BY <1>2, <1>4, <1>5 DEF Identify

LEMMA ListReviewsKeeps == ASSUME IInv, ListReviews PROVE IInv'
<1>1. poll.at \in Publishing /\ poll.at = "list"
  BY DEF ListReviews, At, Publishing, Formal
<1>2. /\ Rest /\ poll \in Poll /\ poll.found = 0 /\ Mine = intents[poll.key]
      /\ DOMAIN reviews = 1..Len(reviews) /\ Len(reviews) \in Nat
  BY <1>1, PublicationFacts, AtPublication DEF PollFinds, Formal
<1>3. UNCHANGED <<reviews, comments, todo, login>>
  BY DEF ListReviews, forge_vars, people_vars
<1>4. CASE PublicationFails(TRUE)
  BY <1>1, <1>2, <1>3, <1>4, FailureStep
     DEF ListReviews, Rest, forge_vars, people_vars, PublicationFails
<1>5. CASE Marked(poll.key) = {} /\ Goto("live") /\ UNCHANGED store_vars
  <2>1. /\ poll' \in Poll /\ poll'.at = "live" /\ poll'.found = 0
        /\ poll'.key = poll.key /\ poll'.mode = poll.mode /\ poll'.fresh = poll.fresh
        /\ poll'.last = poll.last
    BY <1>2, <1>5, GotoType DEF Formal
  <2>2. PollFinds' /\ HeadSeen'
    BY <2>1 DEF PollFinds, HeadSeen, At, Accepted, Routing
  <2>3. PollMakes'
    BY <1>3, <1>5, <2>1 DEF PollMakes, Marked, At, Pinned
  <2> QED
    BY <1>1, <1>2, <1>3, <1>5, <2>1, <2>2, <2>3, PhaseGoes
       DEF Publishing, Formal, Commenting, store_vars, Rest, ListReviews, forge_vars, people_vars
<1>6. ASSUME NEW r \in Marked(poll.key), reviews[r].login = login,
             poll' = [poll EXCEPT !.at = "accept", !.found = r], UNCHANGED store_vars
      PROVE  IInv'
  <2>1. r \in 1..Len(reviews) /\ r \in Nat /\ reviews[r].intent = poll.key
    BY <1>2, <1>6 DEF Marked
  <2>2. /\ poll' \in Poll /\ poll'.at = "accept" /\ poll'.found = r
        /\ poll'.key = poll.key /\ poll'.mode = poll.mode /\ poll'.fresh = poll.fresh
        /\ poll'.last = poll.last
    BY <1>2, <1>6, <2>1, FindType DEF Formal
  <2>3. PollFinds' /\ PollMakes' /\ HeadSeen'
    BY <1>3, <1>6, <2>1, <2>2 DEF PollFinds, PollMakes, HeadSeen, At, Candidacy, Pinned, Accepted,
       Routing
  <2> QED
    BY <1>1, <1>2, <1>3, <1>6, <2>2, <2>3, PhaseGoes
       DEF Publishing, Formal, Commenting, store_vars, Rest, ListReviews, forge_vars, people_vars
<1> QED
  BY <1>4, <1>5, <1>6 DEF ListReviews

LEMMA CheckLiveKeeps == ASSUME IInv, CheckLive PROVE IInv'
<1>1. poll.at \in Publishing /\ poll.at = "live"
  BY DEF CheckLive, At, Publishing, Formal
<1>2. Rest /\ poll \in Poll /\ poll.found = 0 /\ Marked(poll.key) = {}
  BY <1>1, PublicationFacts DEF PollFinds, PollMakes
<1>3. UNCHANGED <<reviews, comments, todo>> /\ Rest'
  BY <1>2 DEF CheckLive, forge_vars, people_vars, Rest, store_vars, Supersede
<1>4. CASE HeadHolds(poll.key)
  <2>1. Goto("create") /\ UNCHANGED store_vars
    BY <1>4 DEF CheckLive
  <2>2. /\ poll' \in Poll /\ poll'.at = "create" /\ poll'.found = 0
        /\ poll'.key = poll.key /\ poll'.mode = poll.mode /\ poll'.fresh = poll.fresh
        /\ poll'.last = poll.last
    BY <1>2, <2>1, GotoType DEF Formal
  <2>3. PollFinds' /\ HeadSeen'
    BY <2>2 DEF PollFinds, HeadSeen, At, Accepted, Routing
  <2>4. PollMakes'
    BY <1>2, <1>3, <2>2 DEF PollMakes, Marked, At, Pinned
  <2> QED
    BY <1>1, <1>3, <2>1, <2>2, <2>3, <2>4, PhaseGoes
       DEF Publishing, Formal, Commenting, store_vars
<1>5. CASE ~HeadHolds(poll.key)
  BY <1>1, <1>3, <1>5, SupersedeStep DEF CheckLive
<1> QED
  BY <1>4, <1>5

\* The review that is submitted carries the marker of its publication.
LEMMA SubmittedIs ==
    ASSUME IInv, At("create"), reviews' = Submitted, UNCHANGED comments, IntentsKept
    PROVE  /\ StoreSound' /\ Len(intents') = Len(intents)
           /\ Len(reviews') = Len(reviews) + 1
           /\ reviews'[Len(reviews) + 1].intent = poll.key
           /\ reviews'[Len(reviews) + 1].login = login
<1>1. poll.at \in Publishing /\ poll.at = "create"
  BY DEF At, Publishing, Formal
<1>2. /\ StoreSound /\ Marked(poll.key) = {} /\ poll.key \in DOMAIN intents
      /\ HeadOf(poll.key) \in Heads /\ login \in Logins
  BY <1>1, PublicationFacts, AtPublication DEF PollMakes, Rest
<1> QED
  BY <1>2, ReviewAppended DEF Submitted

LEMMA CreateReviewKeeps == ASSUME IInv, CreateReview PROVE IInv'
<1>1. poll.at \in Publishing /\ poll.at = "create"
  BY DEF CreateReview, At, Publishing, Formal
<1>2. /\ StoreSound /\ Rest /\ poll \in Poll /\ Mine = intents[poll.key] /\ Mine.status = "pending"
      /\ Len(reviews) \in Nat /\ attempts \in Seq(Attempt) /\ TodoPending /\ PollShape
  BY <1>1, Parts, PublicationFacts, AtPublication
<1>3. IntentsKept
  BY <1>2, AllKept DEF CreateReview, store_vars
<1>4. /\ StoreSound' /\ Len(reviews') = Len(reviews) + 1
      /\ reviews'[Len(reviews) + 1].intent = poll.key
      /\ reviews'[Len(reviews) + 1].login = login
  BY <1>3, SubmittedIs DEF CreateReview
<1> DEFINE n == Len(reviews) + 1
<1>5. /\ poll' \in Poll /\ poll'.at = "accept" /\ poll'.found = n
      /\ poll'.key = poll.key /\ poll'.mode = poll.mode /\ poll'.fresh = poll.fresh
      /\ poll'.last = poll.last
  <2>1. n \in Nat /\ poll' = [poll EXCEPT !.at = "accept", !.found = n]
    BY <1>2 DEF CreateReview
  <2> HIDE DEF n
  <2> QED
    BY <1>2, <2>1, FindType DEF Formal
<1>6. UNCHANGED <<intents, comments, todo, login>>
  BY DEF CreateReview, store_vars, people_vars
<1>7. PollFinds' /\ PollMakes' /\ HeadSeen'
  BY <1>2, <1>4, <1>5, <1>6 DEF PollFinds, PollMakes, HeadSeen, At, Candidacy, Pinned, Accepted,
     Routing
<1>8. PollOwns' /\ PollModes'
  BY <1>1, <1>2, <1>5, <1>6, Publishes DEF Publishing, Formal, Commenting, Mine
<1>9. Rest' /\ TodoPending' /\ PollShape'
  BY <1>2, <1>5, <1>6 DEF CreateReview, Rest, TodoPending, Pending, PollShape, store_vars,
     people_vars
<1> QED
  BY <1>4, <1>7, <1>8, <1>9, StepKeeps DEF PollSound

LEMMA AcceptReviewKeeps == ASSUME IInv, AcceptReview PROVE IInv'
<1>1. poll.at \in Publishing /\ poll.at = "accept"
  BY DEF AcceptReview, At, Publishing, Formal
<1>2. Rest /\ poll \in Poll /\ PollFinds /\ Mine = intents[poll.key]
  BY <1>1, PublicationFacts, AtPublication
<1>3. UNCHANGED <<reviews, comments, todo, login, pull>> /\ Rest'
  BY <1>2 DEF AcceptReview, forge_vars, people_vars, Rest, store_vars, Supersede
<1>4. CASE HeadHolds(poll.key)
  <2> DEFINE p == IF poll.found # 0 THEN "bind" ELSE "created"
  <2>1. Goto(p) /\ UNCHANGED store_vars
    BY <1>4 DEF AcceptReview
  <2>2. /\ poll' \in Poll /\ poll'.at = p /\ poll'.found = poll.found
        /\ poll'.key = poll.key /\ poll'.mode = poll.mode /\ poll'.fresh = poll.fresh
        /\ poll'.last = poll.last
    <3>1. p \in {"idle", "pending"} \cup Candidacy \cup Formal \cup Routing \cup Commenting
      BY DEF Formal
    <3> HIDE DEF p
    <3> QED
      BY <1>2, <2>1, <3>1, GotoType
  <2>3. PollFinds'
    BY <1>1, <1>2, <1>3, <2>1, <2>2 DEF PollFinds, At, Candidacy, Routing, Mine, store_vars
  <2>4. PollMakes'
    BY <2>2 DEF PollMakes, At, Pinned
  <2>5. HeadSeen'
    BY <1>3, <1>4, <2>1, <2>2 DEF HeadSeen, HeadHolds, HeadOf, ArtifactOf, store_vars
  <2> QED
    BY <1>1, <1>3, <2>1, <2>2, <2>3, <2>4, <2>5, PhaseGoes
       DEF Publishing, Formal, Commenting, store_vars
<1>5. CASE ~HeadHolds(poll.key)
  BY <1>1, <1>3, <1>5, SupersedeStep DEF AcceptReview
<1> QED
  BY <1>4, <1>5

LEMMA LosesLeaseKeeps == ASSUME IInv, LosesLease PROVE IInv'
<1>1. poll.at \in Publishing
  BY DEF LosesLease, Publishing, Formal, Routing
<1> QED
  BY <1>1, PublicationFacts, PhaseReturns DEF LosesLease, store_vars, forge_vars, people_vars, Rest

LEMMA BindReviewKeeps == ASSUME IInv, BindReview PROVE IInv'
<1>1. poll.at \in Publishing /\ poll.at = "bind"
  BY DEF BindReview, At, Publishing, Formal
<1>2. /\ StoreSound /\ Rest /\ poll \in Poll /\ PollFinds /\ HeadSeen /\ Mine = intents[poll.key]
      /\ poll.key \in DOMAIN intents /\ Mine \in Intent /\ Mine.status = "pending"
      /\ Bound(Mine, poll.key, reviews) /\ Mine.kind = "automatic"
      /\ Len(reviews) \in Nat /\ attempts \in Seq(Attempt) /\ login \in Logins
  BY <1>1, PublicationFacts, AtPublication DEF Rest, Formal
<1>3. /\ poll.found \in 0..Len(reviews) /\ poll.found # 0
      /\ reviews[poll.found].intent = poll.key /\ reviews[poll.found].login = login
  BY <1>1, <1>2 DEF PollFinds, At, Poll
<1> DEFINE f == poll.found
           x == [Mine EXCEPT !.review = f, !.login = login]
<1>4. intents' = [intents EXCEPT ![poll.key] = x] /\ UNCHANGED artifacts
  BY <1>2 DEF BindReview
<1>5. /\ x \in Intent /\ x.review = f /\ x.login = login /\ x.artifact = Mine.artifact
      /\ x.status = Mine.status /\ x.retries = Mine.retries /\ x.steps = Mine.steps
      /\ x.kind = Mine.kind
  <2> HIDE DEF f
  <2> QED
    BY <1>2, <1>3 DEF Intent, f
<1> HIDE DEF x
<1>6. Bound(x, poll.key, reviews)
  BY <1>2, <1>3, <1>5 DEF Bound
<1>7. /\ IntentsKept /\ intents'[poll.key] = x
      /\ \A i \in DOMAIN intents : i # poll.key => intents'[i] = intents[i]
  BY <1>2, <1>4, <1>5, <1>6, OneKept DEF BindReview
<1>8. /\ poll' \in Poll /\ poll'.at = "created" /\ poll'.found = poll.found
      /\ poll'.key = poll.key /\ poll'.mode = poll.mode /\ poll'.fresh = poll.fresh
      /\ poll'.last = poll.last
  BY <1>2, GotoType DEF BindReview, Formal
<1>9. Rest' /\ UNCHANGED <<reviews, comments, todo, pull, moved>>
  BY <1>2 DEF BindReview, Rest, forge_vars, people_vars
<1>10. PollFinds' /\ PollMakes'
  BY <1>3, <1>5, <1>7, <1>8 DEF PollFinds, PollMakes, At, Candidacy, Pinned, Routing, Mine
<1>11. HeadSeen'
  BY <1>1, <1>2, <1>4, <1>5, <1>7, <1>8, <1>9 DEF HeadSeen, HeadOf, ArtifactOf, Accepted
<1> QED
  BY <1>1, <1>2, <1>5, <1>7, <1>8, <1>9, <1>10, <1>11, PublicationGoes
     DEF Publishing, Formal, Commenting

\* A step of a publication is recorded.
LEMMA StepRecorded ==
    ASSUME IInv, poll.at \in Publishing, NEW st \in Steps, RecordStep(poll.key, st),
           UNCHANGED <<attempts, artifacts>>,
           st = "review_created" => Mine.review # 0,
           st = "findings_recorded" => "review_created" \in Mine.steps
    PROVE  /\ IntentsKept
           /\ \A i \in DOMAIN intents : i # poll.key => intents'[i] = intents[i]
           /\ LET x == intents'[poll.key] IN
              /\ x.status = "pending" /\ x.kind = Mine.kind /\ x.artifact = Mine.artifact
              /\ x.review = Mine.review /\ x.steps = Mine.steps \cup {st}
<1>1. /\ StoreSound /\ Mine = intents[poll.key] /\ poll.key \in DOMAIN intents /\ Mine \in Intent
      /\ Bound(Mine, poll.key, reviews) /\ Mine.status = "pending" /\ attempts \in Seq(Attempt)
  BY PublicationFacts, AtPublication
<1> DEFINE S == Mine.steps \cup {st}
           x == [Mine EXCEPT !.steps = S]
<1>2. intents' = [intents EXCEPT ![poll.key] = x]
  BY <1>1 DEF RecordStep, Write, Intent
<1>3. S \in SUBSET Steps
  BY <1>1 DEF Intent
<1>4. /\ x \in Intent /\ x.review = Mine.review /\ x.login = Mine.login
      /\ x.artifact = Mine.artifact /\ x.kind = Mine.kind
      /\ x.status = Mine.status /\ x.retries = Mine.retries /\ x.steps = S
  <2> HIDE DEF S
  <2> QED
    BY <1>1, <1>3 DEF Intent
<1> HIDE DEF x
<1>5. Bound(x, poll.key, reviews)
  BY <1>1, <1>4 DEF Bound
<1>6. /\ IntentsKept /\ intents'[poll.key] = x
      /\ \A i \in DOMAIN intents : i # poll.key => intents'[i] = intents[i]
  BY <1>1, <1>2, <1>4, <1>5, OneKept
<1> QED
  BY <1>1, <1>4, <1>6

LEMMA RecordReviewKeeps == ASSUME IInv, RecordReview PROVE IInv'
<1>1. poll.at \in Publishing /\ poll.at \in {"created", "findings"}
  BY DEF RecordReview, Publishing, Formal
<1>2. /\ Rest /\ poll \in Poll /\ PollFinds /\ HeadSeen /\ poll.key \in DOMAIN intents
      /\ Mine = intents[poll.key]
  BY <1>1, PublicationFacts, AtPublication
<1>3. Rest' /\ UNCHANGED <<reviews, comments, todo, pull, moved, attempts, artifacts>>
  BY <1>2 DEF RecordReview, Rest, forge_vars, people_vars
<1>4. ASSUME NEW st \in Steps, NEW p \in {"findings", "route"}, Goto(p),
             RecordStep(poll.key, st), st = "review_created" => Mine.review # 0,
             st = "findings_recorded" => "review_created" \in Mine.steps,
             p = "findings" => st = "review_created",
             p = "route" => st = "findings_recorded"
      PROVE  IInv'
  <2>1. /\ IntentsKept
        /\ \A i \in DOMAIN intents : i # poll.key => intents'[i] = intents[i]
        /\ intents'[poll.key].status = "pending" /\ intents'[poll.key].kind = Mine.kind
        /\ intents'[poll.key].artifact = Mine.artifact
        /\ intents'[poll.key].steps = Mine.steps \cup {st}
    BY <1>1, <1>3, <1>4, StepRecorded
  <2>2. /\ poll' \in Poll /\ poll'.at = p /\ poll'.found = poll.found
        /\ poll'.key = poll.key /\ poll'.mode = poll.mode /\ poll'.fresh = poll.fresh
        /\ poll'.last = poll.last
    BY <1>2, <1>4, GotoType DEF Formal, Routing
  <2>3. PollFinds' /\ PollMakes'
    BY <1>4, <2>1, <2>2 DEF PollFinds, PollMakes, At, Candidacy, Pinned, Routing, Mine
  <2>4. HeadSeen'
    BY <1>1, <1>2, <1>3, <2>1, <2>2 DEF HeadSeen, HeadOf, ArtifactOf, Accepted
  <2> QED
    BY <1>1, <1>3, <2>1, <2>2, <2>3, <2>4, PublicationGoes
       DEF Publishing, Formal, Routing, Commenting
<1>5. CASE At("created") /\ RecordStep(poll.key, "review_created") /\ Goto("findings")
  BY <1>2, <1>4, <1>5 DEF PollFinds, Steps
<1>6. CASE At("findings") /\ RecordStep(poll.key, "findings_recorded") /\ Goto("route")
  BY <1>2, <1>4, <1>6 DEF PollFinds, Steps
<1> QED
  BY <1>5, <1>6 DEF RecordReview

----------------------------------------------------------------------------
(* Moving the issue *)

\* A publication whose findings were recorded, on its way to the board.
LEMMA AtRouting ==
    ASSUME IInv, poll.at \in Routing
    PROVE  /\ poll.at \in Publishing /\ poll.at \notin Commenting /\ poll.at \in Accepted
           /\ Rest /\ poll \in Poll /\ StoreSound /\ attempts \in Seq(Attempt)
           /\ poll.key \in DOMAIN intents /\ Mine = intents[poll.key] /\ Mine \in Intent
           /\ Mine.status = "pending" /\ Mine.kind = "automatic"
           /\ Bound(Mine, poll.key, reviews)
           /\ "findings_recorded" \in Mine.steps
           /\ pull.rev.head = HeadOf(poll.key) \/ moved
<1>1. /\ poll.at \in Publishing /\ poll.at \notin Commenting /\ poll.at \in Accepted
      /\ poll.at \in Formal \cup Routing
  BY DEF Publishing, Routing, Commenting, Accepted
<1> QED
  BY <1>1, PublicationFacts, AtPublication DEF PollFinds, HeadSeen

\* It stays on its way.
LEMMA RoutingSound ==
    ASSUME IInv, poll.at \in Routing, poll'.at \in Routing, poll'.key = poll.key,
           "findings_recorded" \in intents'[poll.key].steps,
           intents'[poll.key].artifact = Mine.artifact, UNCHANGED <<artifacts, pull, moved>>
    PROVE  PollFinds' /\ PollMakes' /\ HeadSeen'
<1>1. PollFinds'
  BY DEF PollFinds, At, Candidacy, Routing, Mine
<1>2. PollMakes'
  BY DEF PollMakes, At, Pinned, Routing
<1>3. HeadSeen'
  BY AtRouting DEF HeadSeen, HeadOf, ArtifactOf
<1> QED
  BY <1>1, <1>2, <1>3

\* The lease is written, and the poll stays at the board or leaves it.
LEMMA RoutingLease ==
    ASSUME IInv, poll.at \in Routing, NEW l \in {"free", "own"}, Write(poll.key, "lease", l),
           UNCHANGED <<attempts, artifacts, reviews, comments, todo, pull, moved>>, Rest',
           poll' = Returned \/ \E p \in Routing : Goto(p)
    PROVE  IInv'
<1>1. /\ poll.at \in Publishing /\ poll.at \notin Commenting /\ poll \in Poll
      /\ poll.key \in DOMAIN intents /\ Mine = intents[poll.key] /\ Mine \in Intent
      /\ Mine.status = "pending" /\ "findings_recorded" \in Mine.steps
      /\ attempts \in Seq(Attempt)
  BY AtRouting
<1>2. /\ IntentsKept /\ \A i \in DOMAIN intents : i # poll.key => intents'[i] = intents[i]
      /\ intents'[poll.key] = [Mine EXCEPT !.lease = l]
  <2>1. /\ poll.key \in DOMAIN intents /\ l \in {"free", "own", "old", "expired"}
        /\ attempts' \in Seq(Attempt) /\ UNCHANGED artifacts
    BY <1>1
  <2>2. /\ IntentsKept /\ \A i \in DOMAIN intents : i # poll.key => intents'[i] = intents[i]
        /\ intents'[poll.key] = [intents[poll.key] EXCEPT !.lease = l]
    BY <2>1, LeaseWritten
  <2> QED
    BY <1>1, <2>2
<1>3. /\ intents'[poll.key].status = "pending" /\ intents'[poll.key].kind = Mine.kind
      /\ intents'[poll.key].artifact = Mine.artifact
      /\ intents'[poll.key].steps = Mine.steps
  BY <1>1, <1>2 DEF Intent
<1>4. CASE poll' = Returned
  BY <1>1, <1>2, <1>4, PublicationReturns
<1>5. ASSUME NEW p \in Routing, Goto(p) PROVE IInv'
  <2>1. /\ poll' \in Poll /\ poll'.at = p
        /\ poll'.key = poll.key /\ poll'.mode = poll.mode /\ poll'.fresh = poll.fresh
        /\ poll'.last = poll.last
    BY <1>1, <1>5, GotoType
  <2>2. PollFinds' /\ PollMakes' /\ HeadSeen'
    BY <1>1, <1>3, <1>5, <2>1, RoutingSound
  <2>3. poll'.at \in Publishing \ {"head"} /\ poll'.at \notin Commenting
    BY <1>5, <2>1 DEF Publishing, Routing, Commenting
  <2> QED
    BY <1>1, <1>2, <1>3, <2>1, <2>2, <2>3, PublicationGoes
<1> QED
  BY <1>4, <1>5

LEMMA LeaveIssueKeeps == ASSUME IInv, LeaveIssue PROVE IInv'
<1>1. poll.at \in Routing
  BY DEF LeaveIssue, At, Routing
<1>2. /\ Rest' /\ poll.at \in Publishing
      /\ UNCHANGED <<attempts, artifacts, reviews, comments, todo, pull, moved>>
  BY <1>1, AtRouting DEF LeaveIssue, Rest, forge_vars, people_vars
<1> QED
  BY <1>1, <1>2, PhaseReturns, RoutingLease DEF LeaveIssue

LEMMA ReadColumnKeeps == ASSUME IInv, ReadColumn PROVE IInv'
<1>1. poll.at \in Routing /\ \E p \in Routing : Goto(p)
  BY DEF ReadColumn, At, Routing
<1>2. /\ Rest' /\ Write(poll.key, "lease", "own")
      /\ UNCHANGED <<attempts, artifacts, reviews, comments, todo, pull, moved>>
  BY <1>1, AtRouting DEF ReadColumn, Rest, forge_vars, people_vars
<1> QED
  BY <1>1, <1>2, RoutingLease

\* The store stays as it is.
LEMMA RoutingGoes ==
    ASSUME IInv, poll.at \in Routing, NEW p \in Routing, Goto(p),
           UNCHANGED <<attempts, artifacts, intents, reviews, comments, todo, pull, moved>>, Rest'
    PROVE  IInv'
<1>1. /\ poll.at \in Publishing /\ poll.at \notin Commenting /\ poll \in Poll
      /\ Mine = intents[poll.key] /\ "findings_recorded" \in Mine.steps
  BY AtRouting
<1>2. /\ poll' \in Poll /\ poll'.at = p
      /\ poll'.key = poll.key /\ poll'.mode = poll.mode /\ poll'.fresh = poll.fresh
      /\ poll'.last = poll.last
  BY <1>1, GotoType
<1>3. PollFinds' /\ PollMakes' /\ HeadSeen'
  BY <1>1, <1>2, RoutingSound
<1>4. poll'.at \in Publishing \ {"head"} /\ poll'.at \notin Commenting
  BY <1>2 DEF Publishing, Routing, Commenting
<1> QED
  BY <1>1, <1>2, <1>3, <1>4, PhaseGoes

LEMMA RouteIsColumn == ASSUME IInv PROVE RouteOf(poll.key) \in Columns
  BY DEF RouteOf, Columns

LEMMA MoveIssueKeeps == ASSUME IInv, MoveIssue PROVE IInv'
<1>1. poll.at \in Routing /\ Goto("moved")
  BY DEF MoveIssue, At, Routing
<1>2. /\ Rest'
      /\ UNCHANGED <<attempts, artifacts, intents, reviews, comments, todo, pull, moved>>
  BY <1>1, AtRouting, RouteIsColumn DEF MoveIssue, Rest, store_vars, people_vars
<1> QED
  BY <1>1, <1>2, RoutingGoes DEF Routing

LEMMA VerifyMoveKeeps == ASSUME IInv, VerifyMove PROVE IInv'
<1>1. poll.at \in Routing
  BY DEF VerifyMove, At, Routing
<1>2. Rest /\ poll.at \in Publishing
  BY <1>1, AtRouting
<1>3. CASE column = RouteOf(poll.key)
  <2>1. /\ Rest' /\ Goto("routed")
        /\ UNCHANGED <<attempts, artifacts, intents, reviews, comments, todo, pull, moved>>
    BY <1>2, <1>3 DEF VerifyMove, Rest, store_vars, forge_vars, people_vars
  <2> QED
    BY <1>1, <2>1, RoutingGoes DEF Routing
<1>4. CASE column # RouteOf(poll.key)
  BY <1>2, <1>4, FailureStep DEF VerifyMove, Rest, forge_vars, people_vars, PublicationFails
<1> QED
  BY <1>3, <1>4

LEMMA RecordRouteKeeps == ASSUME IInv, RecordRoute PROVE IInv'
<1>1. poll.at \in Routing
  BY DEF RecordRoute, At, Routing
<1>2. /\ Rest' /\ poll.at \in Publishing /\ poll.at \notin Commenting /\ poll \in Poll
      /\ poll.key \in DOMAIN intents /\ Mine = intents[poll.key]
      /\ "findings_recorded" \in Mine.steps
      /\ UNCHANGED <<attempts, artifacts, reviews, comments, todo, pull, moved>>
  BY <1>1, AtRouting DEF RecordRoute, Rest, forge_vars, people_vars
<1>3. CASE ~Owns(poll.key)
  BY <1>1, <1>2, <1>3, RoutingLease DEF RecordRoute
<1>4. CASE Owns(poll.key)
  <2>1. RecordStep(poll.key, "route_applied") /\ Goto("final")
    BY <1>4 DEF RecordRoute
  <2>2. /\ IntentsKept
        /\ \A i \in DOMAIN intents : i # poll.key => intents'[i] = intents[i]
        /\ intents'[poll.key].status = "pending" /\ intents'[poll.key].kind = Mine.kind
        /\ intents'[poll.key].artifact = Mine.artifact
        /\ intents'[poll.key].steps = Mine.steps \cup {"route_applied"}
    BY <1>2, <2>1, StepRecorded DEF Steps
  <2>3. /\ poll' \in Poll /\ poll'.at = "final"
        /\ poll'.key = poll.key /\ poll'.mode = poll.mode /\ poll'.fresh = poll.fresh
        /\ poll'.last = poll.last
    BY <1>2, <2>1, GotoType DEF Routing
  <2>4. PollFinds' /\ PollMakes' /\ HeadSeen'
    BY <1>1, <1>2, <2>2, <2>3, RoutingSound DEF Routing
  <2>5. poll'.at \in Publishing \ {"head"} /\ poll'.at \notin Commenting
    BY <2>3 DEF Publishing, Routing, Commenting
  <2> QED
    BY <1>2, <2>2, <2>3, <2>4, <2>5, PublicationGoes
<1> QED
  BY <1>3, <1>4

LEMMA RecordFinalKeeps == ASSUME IInv, RecordFinal PROVE IInv'
<1>1. poll.at \in Routing
  BY DEF RecordFinal, At, Routing
<1>2. /\ Rest' /\ poll.at \in Publishing /\ StoreSound /\ attempts \in Seq(Attempt)
      /\ poll.key \in DOMAIN intents /\ Mine = intents[poll.key] /\ Mine \in Intent
      /\ Bound(Mine, poll.key, reviews)
      /\ UNCHANGED <<attempts, artifacts, reviews, comments, todo>> /\ poll' = Returned
  BY <1>1, AtRouting DEF RecordFinal, Rest, forge_vars, people_vars
<1> DEFINE S == Mine.steps \cup {"comment_final"}
           x == [Mine EXCEPT !.steps = S, !.status = "applied", !.lease = "free"]
<1>3. intents' = [intents EXCEPT ![poll.key] = x]
  BY <1>2 DEF RecordFinal
<1>4. S \in SUBSET Steps
  BY <1>2 DEF Intent, Steps
<1>5. /\ x \in Intent /\ x.review = Mine.review /\ x.login = Mine.login
      /\ x.artifact = Mine.artifact /\ x.kind = Mine.kind /\ x.status = "applied" /\ x.steps = S
  <2> HIDE DEF S
  <2> QED
    BY <1>2, <1>4 DEF Intent
<1> HIDE DEF x
<1>6. Bound(x, poll.key, reviews)
  BY <1>2, <1>5 DEF Bound
<1>7. /\ IntentsKept
      /\ \A i \in DOMAIN intents : i # poll.key => intents'[i] = intents[i]
  BY <1>2, <1>3, <1>5, <1>6, OneKept
<1> QED
  BY <1>2, <1>7, PublicationReturns

----------------------------------------------------------------------------
(* Publishing a comment *)

\* A preview that is being published.
LEMMA AtCommenting ==
    ASSUME IInv, poll.at \in Commenting
    PROVE  /\ poll.at \in Publishing /\ Rest /\ poll \in Poll /\ StoreSound
           /\ attempts \in Seq(Attempt) /\ PollFinds /\ PollMakes
           /\ poll.key \in DOMAIN intents /\ Mine = intents[poll.key] /\ Mine \in Intent
           /\ Mine.status = "pending" /\ Mine.kind = "preview" /\ Mine.review = 0
           /\ Bound(Mine, poll.key, reviews)
           /\ Len(comments) \in Nat /\ DOMAIN comments = 1..Len(comments)
<1>1. poll.at \in Publishing
  BY DEF Publishing
<1>2. Bound(Mine, poll.key, reviews) /\ Mine.kind = "preview"
  BY <1>1, PublicationFacts, AtPublication
<1> QED
  BY <1>1, <1>2, PublicationFacts, AtPublication DEF Bound

\* It goes on.
LEMMA CommentingGoes ==
    ASSUME IInv, poll.at \in Commenting, poll'.at \in Commenting, Rest', poll' \in Poll,
           poll'.key = poll.key, poll'.mode = poll.mode, poll'.fresh = poll.fresh,
           poll'.last = poll.last,
           poll'.at = "bind_comment" => poll'.found <= Len(comments),
           poll'.at = "create_comment" => OwnComments(poll.key) = {},
           UNCHANGED <<attempts, artifacts, intents, reviews, comments, todo, login>>
    PROVE  IInv'
<1>1. poll.at \in Publishing
  BY AtCommenting
<1>2. PollFinds'
  BY DEF PollFinds, At, Candidacy, Routing, Commenting
<1>3. PollMakes' /\ HeadSeen'
  BY DEF PollMakes, HeadSeen, OwnComments, At, Pinned, Accepted, Routing, Commenting
<1>4. poll'.at \in Publishing \ {"head"}
  BY DEF Publishing, Commenting
<1> QED
  BY <1>1, <1>2, <1>3, <1>4, PhaseGoes

LEMMA UpdateCommentKeeps == ASSUME IInv, UpdateComment PROVE IInv'
<1>1. poll.at \in Commenting
  BY DEF UpdateComment, At, Commenting
<1>2. Rest /\ poll.at \in Publishing /\ poll \in Poll
  BY <1>1, AtCommenting
<1>3. CASE Goto("complete") /\ UNCHANGED store_vars
  <2>1. /\ poll' \in Poll /\ poll'.at = "complete"
        /\ poll'.key = poll.key /\ poll'.mode = poll.mode /\ poll'.fresh = poll.fresh
        /\ poll'.last = poll.last
    BY <1>2, <1>3, GotoType DEF Commenting
  <2> QED
    BY <1>1, <1>2, <1>3, <2>1, CommentingGoes
       DEF UpdateComment, Rest, store_vars, forge_vars, people_vars, Commenting
<1>4. CASE PublicationFails(FALSE)
  BY <1>2, <1>4, FailureStep DEF UpdateComment, Rest, forge_vars, people_vars, PublicationFails
<1> QED
  BY <1>3, <1>4 DEF UpdateComment

LEMMA FindCommentKeeps == ASSUME IInv, FindComment PROVE IInv'
<1>1. /\ poll.at \in Commenting
      /\ \/ \E c \in OwnComments(poll.key) :
                poll' = [poll EXCEPT !.at = "bind_comment", !.found = c]
         \/ OwnComments(poll.key) = {} /\ Goto("create_comment")
      /\ UNCHANGED <<store_vars, forge_vars, todo, moved, faults, people_vars>>
  BY Zenon DEF FindComment, At, Commenting
<1>2. /\ poll \in Poll /\ Rest /\ Len(comments) \in Nat
      /\ DOMAIN comments = 1..Len(comments)
  BY <1>1, AtCommenting
<1>3. ASSUME NEW c \in OwnComments(poll.key),
             poll' = [poll EXCEPT !.at = "bind_comment", !.found = c]
      PROVE  /\ poll' \in Poll /\ poll'.at = "bind_comment" /\ poll'.found <= Len(comments)
             /\ poll'.key = poll.key /\ poll'.mode = poll.mode /\ poll'.fresh = poll.fresh
             /\ poll'.last = poll.last
  <2>1. c \in Nat /\ c <= Len(comments)
    BY <1>2, <1>3 DEF OwnComments
  <2> QED
    BY <1>2, <1>3, <2>1, FindType DEF Commenting
<1>4. CASE OwnComments(poll.key) = {} /\ Goto("create_comment")
  <2>1. /\ poll' \in Poll /\ poll'.at = "create_comment"
        /\ poll'.key = poll.key /\ poll'.mode = poll.mode /\ poll'.fresh = poll.fresh
        /\ poll'.last = poll.last
    BY <1>2, <1>4, GotoType DEF Commenting
  <2> QED
    BY <1>1, <1>2, <1>4, <2>1, CommentingGoes
       DEF Rest, store_vars, forge_vars, people_vars, Commenting
<1>5. CASE \E c \in OwnComments(poll.key) :
               poll' = [poll EXCEPT !.at = "bind_comment", !.found = c]
  <2>1. /\ poll' \in Poll /\ poll'.at = "bind_comment" /\ poll'.found <= Len(comments)
        /\ poll'.key = poll.key /\ poll'.mode = poll.mode /\ poll'.fresh = poll.fresh
        /\ poll'.last = poll.last
    BY <1>3, <1>5, Zenon
  <2>2. Rest' /\ UNCHANGED <<attempts, artifacts, intents, reviews, comments, todo, login>>
    <3> HIDE <1>5
    <3> QED
      BY <1>1, <1>2, Zenon DEF Rest, store_vars, forge_vars, people_vars
  <2>3. poll'.at \in Commenting /\ poll'.at # "create_comment"
    BY <2>1, Zenon DEF Commenting
  <2> QED
    BY <1>1, <2>1, <2>2, <2>3, CommentingGoes, Zenon
<1> QED
  BY <1>1, <1>4, <1>5, Zenon

LEMMA LetsGoKeeps == ASSUME IInv, LetsGo PROVE IInv'
<1>1. poll.at \in Commenting
  BY DEF LetsGo, At, Commenting
<1>2. /\ Rest' /\ poll.at \in Publishing /\ UNCHANGED <<artifacts, reviews, comments, todo>>
      /\ attempts' \in Seq(Attempt) /\ poll.key \in DOMAIN intents
  BY <1>1, AtCommenting DEF LetsGo, Rest, forge_vars, people_vars
<1>3. /\ IntentsKept /\ \A i \in DOMAIN intents : i # poll.key => intents'[i] = intents[i]
  BY <1>2, LeaseWritten DEF LetsGo
<1> QED
  BY <1>2, <1>3, PublicationReturns DEF LetsGo

\* What a comment of the publication is known by changes.
LEMMA CommentRecorded ==
    ASSUME IInv, poll.at \in Commenting, NEW c \in 0..Len(comments),
           NEW l \in Logins \cup {"unbound"},
           intents' = [intents EXCEPT ![poll.key].comment = c, ![poll.key].login = l],
           UNCHANGED <<attempts, artifacts>>
    PROVE  /\ IntentsKept
           /\ \A i \in DOMAIN intents : i # poll.key => intents'[i] = intents[i]
           /\ intents'[poll.key].status = "pending" /\ intents'[poll.key].kind = Mine.kind
<1>1. /\ StoreSound /\ poll.key \in DOMAIN intents /\ Mine = intents[poll.key] /\ Mine \in Intent
      /\ Mine.status = "pending" /\ Mine.review = 0 /\ attempts \in Seq(Attempt)
      /\ Bound(Mine, poll.key, reviews)
  BY AtCommenting
<1> DEFINE x == [Mine EXCEPT !.comment = c, !.login = l]
<1>2. intents' = [intents EXCEPT ![poll.key] = x]
  BY <1>1
<1>3. /\ x \in Intent /\ x.review = 0 /\ x.artifact = Mine.artifact /\ x.kind = Mine.kind
      /\ x.status = Mine.status /\ x.retries = Mine.retries /\ x.steps = Mine.steps
  BY <1>1 DEF Intent
<1> HIDE DEF x
<1>4. Bound(x, poll.key, reviews)
  BY <1>1, <1>3 DEF Bound
<1> QED
  BY <1>1, <1>2, <1>3, <1>4, OneKept

LEMMA ClearCommentKeeps == ASSUME IInv, ClearComment PROVE IInv'
<1>1. poll.at \in Commenting /\ poll.at = "comment"
  BY DEF ClearComment, At, Commenting
<1>2. /\ Rest' /\ poll.at \in Publishing /\ 0 \in 0..Len(comments) /\ poll \in Poll
      /\ UNCHANGED <<attempts, artifacts, reviews, comments, poll, todo>>
  BY <1>1, AtCommenting DEF ClearComment, Rest, forge_vars, poll_vars, people_vars
<1>3. /\ IntentsKept
      /\ \A i \in DOMAIN intents : i # poll.key => intents'[i] = intents[i]
      /\ intents'[poll.key].status = "pending" /\ intents'[poll.key].kind = Mine.kind
  BY <1>1, <1>2, CommentRecorded DEF ClearComment
<1>4. PollFinds' /\ PollMakes' /\ HeadSeen'
  BY <1>1, <1>2 DEF PollFinds, PollMakes, HeadSeen, At, Candidacy, Pinned, Accepted, Routing
<1> QED
  BY <1>1, <1>2, <1>3, <1>4, PublicationGoes

LEMMA BindCommentKeeps == ASSUME IInv, BindComment PROVE IInv'
<1>1. poll.at \in Commenting /\ poll.at = "bind_comment"
  BY DEF BindComment, At, Commenting
<1>2. /\ Rest' /\ poll.at \in Publishing /\ poll \in Poll /\ login \in Logins
      /\ poll.found \in 0..Len(comments)
      /\ UNCHANGED <<attempts, artifacts, reviews, comments, todo>>
  BY <1>1, AtCommenting DEF BindComment, Rest, forge_vars, people_vars, PollFinds, At, Poll
<1>3. /\ IntentsKept
      /\ \A i \in DOMAIN intents : i # poll.key => intents'[i] = intents[i]
      /\ intents'[poll.key].status = "pending" /\ intents'[poll.key].kind = Mine.kind
  BY <1>1, <1>2, CommentRecorded DEF BindComment
<1>4. /\ poll' \in Poll /\ poll'.at = "complete"
      /\ poll'.key = poll.key /\ poll'.mode = poll.mode /\ poll'.fresh = poll.fresh
      /\ poll'.last = poll.last
  BY <1>2, GotoType DEF BindComment, Commenting
<1>5. PollFinds' /\ PollMakes' /\ HeadSeen'
  BY <1>4 DEF PollFinds, PollMakes, HeadSeen, At, Candidacy, Pinned, Accepted, Routing
<1> QED
  BY <1>1, <1>2, <1>3, <1>4, <1>5, PublicationGoes DEF Publishing, Commenting

\* The comment that is written carries the marker of its publication.
LEMMA CommentedIs ==
    ASSUME IInv, At("create_comment"), comments' = Commented, UNCHANGED reviews, IntentsKept
    PROVE  StoreSound' /\ Len(intents') = Len(intents) /\ Len(comments') = Len(comments) + 1
<1>1. poll.at \in Commenting
  BY DEF At, Commenting
<1>2. /\ StoreSound /\ OwnComments(poll.key) = {} /\ poll.key \in DOMAIN intents
      /\ login \in Logins
  BY <1>1, AtCommenting DEF PollMakes, Rest
<1> QED
  BY <1>2, CommentAppended DEF Commented

LEMMA CreateCommentKeeps == ASSUME IInv, CreateComment PROVE IInv'
<1>1. poll.at \in Commenting /\ poll.at = "create_comment" /\ poll.at \in Publishing
  BY DEF CreateComment, At, Commenting, Publishing
<1>2. /\ StoreSound /\ Rest /\ poll \in Poll /\ Mine = intents[poll.key] /\ Mine.status = "pending"
      /\ Len(comments) \in Nat /\ attempts \in Seq(Attempt) /\ TodoPending /\ PollShape
  BY <1>1, Parts, AtCommenting
<1>3. IntentsKept
  BY <1>2, AllKept DEF CreateComment, store_vars
<1>4. StoreSound' /\ Len(comments') = Len(comments) + 1
  BY <1>3, CommentedIs DEF CreateComment
<1> DEFINE n == Len(comments) + 1
<1>5. /\ poll' \in Poll /\ poll'.at = "bind_comment" /\ poll'.found = n
      /\ poll'.key = poll.key /\ poll'.mode = poll.mode /\ poll'.fresh = poll.fresh
      /\ poll'.last = poll.last
  <2>1. n \in Nat /\ poll' = [poll EXCEPT !.at = "bind_comment", !.found = n]
    BY <1>2 DEF CreateComment
  <2> HIDE DEF n
  <2> QED
    BY <1>2, <2>1, FindType DEF Commenting
<1>6. UNCHANGED <<intents, reviews, todo>>
  BY DEF CreateComment, store_vars
<1>7. PollFinds' /\ PollMakes' /\ HeadSeen'
  BY <1>2, <1>4, <1>5 DEF PollFinds, PollMakes, HeadSeen, At, Candidacy, Pinned, Accepted, Routing
<1>8. PollOwns' /\ PollModes'
  BY <1>1, <1>2, <1>5, <1>6, Publishes DEF Publishing, Commenting, Mine
<1>9. Rest' /\ TodoPending' /\ PollShape'
  BY <1>2, <1>5, <1>6 DEF CreateComment, Rest, TodoPending, Pending, PollShape, store_vars,
     people_vars
<1> QED
  BY <1>4, <1>7, <1>8, <1>9, StepKeeps DEF PollSound

LEMMA CompletePreviewKeeps == ASSUME IInv, CompletePreview PROVE IInv'
<1>1. poll.at \in Commenting
  BY DEF CompletePreview, At, Commenting
<1>2. /\ Rest' /\ poll.at \in Publishing /\ StoreSound /\ attempts \in Seq(Attempt)
      /\ poll.key \in DOMAIN intents /\ Mine = intents[poll.key] /\ Mine \in Intent
      /\ Bound(Mine, poll.key, reviews)
      /\ UNCHANGED <<attempts, artifacts, reviews, comments, todo>> /\ poll' = Returned
  BY <1>1, AtCommenting DEF CompletePreview, Rest, forge_vars, people_vars
<1> DEFINE x == [Mine EXCEPT !.status = "applied", !.lease = "free"]
<1>3. intents' = [intents EXCEPT ![poll.key] = x]
  BY <1>2 DEF CompletePreview
<1>4. /\ x \in Intent /\ x.review = Mine.review /\ x.login = Mine.login
      /\ x.artifact = Mine.artifact /\ x.kind = Mine.kind /\ x.status = "applied"
      /\ x.steps = Mine.steps
  BY <1>2 DEF Intent
<1> HIDE DEF x
<1>5. Bound(x, poll.key, reviews)
  BY <1>2, <1>4 DEF Bound
<1>6. /\ IntentsKept
      /\ \A i \in DOMAIN intents : i # poll.key => intents'[i] = intents[i]
  BY <1>2, <1>3, <1>4, <1>5, OneKept
<1> QED
  BY <1>2, <1>6, PublicationReturns

----------------------------------------------------------------------------
(* Faults, time and people *)

\* A fault is counted.
LEMMA FaultType == ASSUME Rest, Fault PROVE faults' \in 0..MaxFaults
  BY DEF Rest, Fault

LEMMA CallFailsKeeps == ASSUME IInv, CallFails PROVE IInv'
<1>1. Rest /\ attempts \in Seq(Attempt) /\ faults' \in 0..MaxFaults /\ todo \subseteq Pending
  BY AtCandidate, FaultType DEF CallFails
<1>2. UNCHANGED <<reviews, comments, pull, column, todo, moved, login, edits>>
  BY DEF CallFails, forge_vars, people_vars
<1>3. CASE poll' = Idle /\ UNCHANGED store_vars
  BY <1>1, <1>2, <1>3, IdleStep DEF Rest, store_vars
<1>4. CASE EndAttempt(FailedStatus)
  <2>1. FailedStatus \in {"completed", "failed", "blocked", "interrupted"}
    BY DEF FailedStatus
  <2> QED
    BY <1>1, <1>4, <2>1, EndAttemptStep DEF CallFails
<1>5. ASSUME poll.at \in Publishing, PublicationFails(FALSE) PROVE IInv'
  BY <1>1, <1>2, <1>5, FailureStep DEF Rest, PublicationFails
<1>6. ASSUME poll.at \in Publishing, Supersede(poll.key), poll' = Returned PROVE IInv'
  BY <1>1, <1>2, <1>6, SupersedeStep DEF Rest, Supersede
<1>7. CASE At("create")
  <2>1. poll.at \in Publishing /\ poll.at = "create"
    BY <1>7 DEF At, Publishing, Formal
  <2>2. PublicationFails(FALSE) \/ (Supersede(poll.key) /\ poll' = Returned)
    BY <2>1 DEF CallFails, At
  <2> QED
    BY <1>5, <1>6, <2>1, <2>2
<1>8. CASE ~At("create")
  <2>1. \/ poll' = Idle /\ UNCHANGED store_vars
        \/ EndAttempt(FailedStatus)
        \/ poll.at \in Publishing /\ PublicationFails(FALSE)
    BY <1>8 DEF CallFails, Publishing, Formal, Routing, Commenting
  <2> QED
    BY <1>3, <1>4, <1>5, <2>1
<1> QED
  BY <1>7, <1>8

LEMMA AnswerLostKeeps == ASSUME IInv, AnswerLost PROVE IInv'
<1>1. /\ Rest /\ faults' \in 0..MaxFaults /\ DOMAIN intents = 1..Len(intents)
      /\ Len(intents) \in Nat
  BY AtCandidate, FaultType, Rows DEF AnswerLost
<1>2. UNCHANGED <<pull, todo, moved, login, edits>>
  BY DEF AnswerLost, people_vars
<1>3. CASE At("create")
  <2>1. /\ poll.at \in Publishing /\ reviews' = Submitted /\ UNCHANGED <<column, comments>>
        /\ PublicationFails(FALSE) \/ (Supersede(poll.key) /\ poll' = Returned)
    BY <1>3 DEF AnswerLost, At, Publishing, Formal
  <2>2. /\ IntentsKept /\ TodoPending' /\ poll' \in Poll /\ poll'.key = 0 /\ PollSound'
        /\ UNCHANGED stage
    BY <1>2, <2>1, FailureKeeps, SupersedeIs
  <2>3. StoreSound' /\ Len(intents') = Len(intents)
    BY <1>3, <2>1, <2>2, SubmittedIs
  <2>4. Rest' /\ PollShape'
    BY <1>1, <1>2, <2>1, <2>2, <2>3 DEF Rest, PollShape
  <2> QED
    BY <2>2, <2>3, <2>4, StepKeeps
<1>4. CASE At("create_comment")
  <2>1. /\ poll.at \in Publishing /\ comments' = Commented /\ UNCHANGED <<column, reviews>>
        /\ PublicationFails(FALSE)
    BY <1>4 DEF AnswerLost, At, Publishing, Commenting
  <2>2. /\ IntentsKept /\ TodoPending' /\ poll' \in Poll /\ poll'.key = 0 /\ PollSound'
        /\ UNCHANGED stage
    BY <1>2, <2>1, FailureKeeps
  <2>3. StoreSound' /\ Len(intents') = Len(intents)
    BY <1>4, <2>1, <2>2, CommentedIs
  <2>4. Rest' /\ PollShape'
    BY <1>1, <1>2, <2>1, <2>2, <2>3 DEF Rest, PollShape
  <2> QED
    BY <2>2, <2>3, <2>4, StepKeeps
<1>5. CASE At("move")
  <2>1. /\ poll.at \in Publishing /\ column' = RouteOf(poll.key)
        /\ UNCHANGED <<reviews, comments>> /\ PublicationFails(FALSE)
    BY <1>5 DEF AnswerLost, At, Publishing, Routing
  <2>2. Rest'
    BY <1>1, <1>2, <2>1, RouteIsColumn DEF Rest, PublicationFails
  <2> QED
    BY <1>2, <2>1, <2>2, FailureStep
<1> QED
  BY <1>3, <1>4, <1>5 DEF AnswerLost

\* Leases change, and nothing else of a publication.
LEMMA LeasesChange ==
    ASSUME IInv, attempts' \in Seq(Attempt), UNCHANGED artifacts,
           NEW f, \A i \in DOMAIN intents : f[i] \in {"free", "own", "old", "expired"},
           intents' = [i \in DOMAIN intents |-> [intents[i] EXCEPT !.lease = f[i]]]
    PROVE  /\ IntentsKept
           /\ \A i \in DOMAIN intents : intents'[i].status = intents[i].status
<1> DEFINE x(i) == [intents[i] EXCEPT !.lease = f[i]]
<1>1. \A i \in DOMAIN intents : intents[i] \in Intent /\ Bound(intents[i], i, reviews)
  BY Parts, Rows
<1>2. ASSUME NEW i \in DOMAIN intents
      PROVE  /\ x(i) \in Intent /\ x(i).artifact = intents[i].artifact
             /\ x(i).status = intents[i].status
             /\ Bound(x(i), i, reviews)
  <2> DEFINE y == x(i)
  <2>1. /\ y \in Intent /\ y.review = intents[i].review /\ y.login = intents[i].login
        /\ y.artifact = intents[i].artifact /\ y.kind = intents[i].kind
        /\ y.status = intents[i].status /\ y.steps = intents[i].steps
        /\ y.retries = intents[i].retries
    BY <1>1, <1>2 DEF Intent
  <2> HIDE DEF y
  <2>2. Bound(y, i, reviews)
    BY <1>1, <1>2, <2>1 DEF Bound
  <2> QED
    BY <2>1, <2>2 DEF y
<1>3. intents' = [i \in DOMAIN intents |-> x(i)]
  OBVIOUS
<1> HIDE DEF x
<1>4. /\ DOMAIN intents' = DOMAIN intents /\ intents' = [i \in DOMAIN intents |-> intents'[i]]
      /\ \A i \in DOMAIN intents : intents'[i] = x(i)
  BY <1>3
<1> QED
  BY <1>2, <1>4 DEF IntentsKept

LEMMA CrashKeeps == ASSUME IInv, Crash PROVE IInv'
<1> DEFINE f == [i \in DOMAIN intents |->
                    IF intents[i].lease = "own" THEN "old" ELSE intents[i].lease]
<1>1. /\ StoreSound /\ Rest /\ attempts \in Seq(Attempt) /\ 0 \in 0..Len(intents)
      /\ \A i \in DOMAIN intents : intents[i] \in Intent
  BY AtCandidate, Rows
<1>2. \A i \in DOMAIN intents : f[i] \in {"free", "own", "old", "expired"}
  BY <1>1 DEF Intent
<1>3. intents' = [i \in DOMAIN intents |-> [intents[i] EXCEPT !.lease = f[i]]]
  BY DEF Crash
<1> HIDE DEF f
<1>4. IntentsKept
  BY <1>1, <1>2, <1>3, LeasesChange DEF Crash
<1>5. /\ UNCHANGED <<reviews, comments>> /\ TodoPending' /\ Rest'
      /\ poll' \in Poll /\ poll'.key \in 0..Len(intents) /\ PollSound'
  BY <1>1, IdleType, IdleSound, FaultType
     DEF Crash, forge_vars, people_vars, TodoPending, Rest
<1> QED
  BY <1>4, <1>5, PublicationStep

\* A poll is not disturbed by what leaves its publication due and bound as it is,
\* and the heads it has seen known to have moved.
LEMMA PollStays ==
    ASSUME IInv, UNCHANGED <<poll, todo, artifacts, reviews, login>>,
           Len(comments') = Len(comments),
           OwnComments(poll.key) = {} => (OwnComments(poll.key) = {})',
           DOMAIN intents' = DOMAIN intents, Len(intents') = Len(intents),
           \A i \in DOMAIN intents :
               /\ intents[i].status = "pending" => intents'[i].status = "pending"
               /\ intents'[i].artifact = intents[i].artifact
               /\ intents'[i].kind = intents[i].kind
               /\ intents'[i].review = intents[i].review
               /\ intents'[i].steps = intents[i].steps,
           UNCHANGED <<pull, moved>>
           \/ (~At("idle") => moved' \/ (~moved /\ pull'.rev.head = pull.rev.head))
    PROVE  PollSound' /\ TodoPending' /\ PollShape'
<1>1. TodoPending /\ PollShape /\ PollSound
  BY Parts
<1>2. TodoPending' /\ PollShape'
  BY <1>1 DEF TodoPending, Pending, PollShape
<1>3. ASSUME poll.at \in Publishing PROVE PollSound'
  <2>1. poll.key \in DOMAIN intents /\ Mine = intents[poll.key] /\ Mine.status = "pending"
        /\ ~At("idle")
    BY <1>3, AtPublication
  <2>2. /\ Mine' = intents'[poll.key] /\ Mine'.status = "pending" /\ Mine'.kind = Mine.kind
        /\ Mine'.review = Mine.review /\ Mine'.steps = Mine.steps
        /\ Mine'.artifact = Mine.artifact
    BY <2>1 DEF Mine
  <2>3. PollOwns'
    BY <1>1, <2>1, <2>2 DEF PollSound, PollOwns
  <2>4. PollModes' /\ PollFinds'
    BY <1>1, <2>1, <2>2 DEF PollSound, PollModes, PollFinds, At
  <2>5. PollMakes'
    BY <1>1, <1>3 DEF PollSound, PollMakes, Marked, Artifacts, At, Publishing, Formal, Routing,
       Commenting, Pinned
  <2>6. HeadSeen'
    BY <1>1, <2>1, <2>2 DEF PollSound, HeadSeen, HeadOf, ArtifactOf, Mine
  <2> QED
    BY <2>3, <2>4, <2>5, <2>6 DEF PollSound
<1>4. ASSUME poll.at \notin Publishing PROVE PollSound'
  <2>1. PollOwns'
    BY <1>4 DEF PollOwns, Publishing
  <2>2. PollModes'
    BY <1>1 DEF PollSound, PollModes, At
  <2>3. PollFinds'
    BY <1>1, <1>4 DEF PollSound, PollFinds, At, Publishing, Formal, Routing, Commenting
  <2>4. PollMakes'
    BY <1>1, <1>4 DEF PollSound, PollMakes, Artifacts, At, Publishing, Formal, Commenting
  <2>5. HeadSeen'
    BY <1>4 DEF HeadSeen, Accepted, Publishing, Formal
  <2> QED
    BY <2>1, <2>2, <2>3, <2>4, <2>5 DEF PollSound
<1> QED
  BY <1>2, <1>3, <1>4

LEMMA SuspendedKeeps == ASSUME IInv, Suspended PROVE IInv'
<1>1. PICK i \in DOMAIN intents : Write(i, "lease", "expired")
  BY DEF Suspended
<1>2. /\ StoreSound /\ Rest /\ attempts \in Seq(Attempt) /\ intents[i] \in Intent
      /\ faults' \in 0..MaxFaults
      /\ UNCHANGED <<attempts, artifacts, reviews, comments, poll, todo, pull, moved, login>>
  BY AtCandidate, Rows, FaultType DEF Suspended, forge_vars, poll_vars, people_vars
<1>3. /\ IntentsKept /\ intents'[i] = [intents[i] EXCEPT !.lease = "expired"]
      /\ \A j \in DOMAIN intents : j # i => intents'[j] = intents[j]
  BY <1>1, <1>2, LeaseWritten
<1>4. \A j \in DOMAIN intents :
          /\ intents'[j].status = intents[j].status
          /\ intents'[j].artifact = intents[j].artifact
          /\ intents'[j].kind = intents[j].kind
          /\ intents'[j].review = intents[j].review
          /\ intents'[j].steps = intents[j].steps
  BY <1>2, <1>3 DEF Intent
<1>5. StoreSound' /\ Len(intents') = Len(intents)
  BY <1>2, <1>3, IntentsChange
<1>6. PollSound' /\ TodoPending' /\ PollShape'
  BY <1>2, <1>3, <1>4, <1>5, PollStays DEF IntentsKept, OwnComments
<1>7. Rest'
  BY <1>2 DEF Suspended, Rest, forge_vars, people_vars
<1> QED
  BY <1>5, <1>6, <1>7, StepKeeps

LEMMA OperatorResetsKeeps == ASSUME IInv, OperatorResets PROVE IInv'
<1>1. PICK i \in DOMAIN intents :
          intents' = [intents EXCEPT ![i].status = "pending", ![i].retries = 0, ![i].lease = "free"]
  BY Zenon DEF OperatorResets
<1>2. /\ StoreSound /\ Rest /\ attempts \in Seq(Attempt) /\ intents[i] \in Intent
      /\ Bound(intents[i], i, reviews)
      /\ UNCHANGED <<attempts, artifacts, reviews, comments, poll, todo, pull, moved, login>>
  BY AtCandidate, Rows, Zenon DEF OperatorResets, forge_vars, poll_vars, people_vars
<1> DEFINE n == 0
           x == [intents[i] EXCEPT !.status = "pending", !.retries = n, !.lease = "free"]
<1>3. intents' = [intents EXCEPT ![i] = x]
  BY <1>1
<1>4. n \in 0..MaxAttempts /\ n < MaxAttempts
  OBVIOUS
<1> HIDE DEF n
<1>5. /\ x \in Intent /\ x.review = intents[i].review /\ x.login = intents[i].login
      /\ x.artifact = intents[i].artifact /\ x.kind = intents[i].kind
      /\ x.status = "pending" /\ x.steps = intents[i].steps /\ x.retries = n
  BY <1>2, <1>4 DEF Intent
<1> HIDE DEF x
<1>6. Bound(x, i, reviews)
  BY <1>2, <1>4, <1>5 DEF Bound
<1>7. /\ IntentsKept /\ intents'[i] = x
      /\ \A j \in DOMAIN intents : j # i => intents'[j] = intents[j]
  BY <1>2, <1>3, <1>5, <1>6, OneKept
<1>8. StoreSound' /\ Len(intents') = Len(intents)
  BY <1>2, <1>7, IntentsChange
<1>9. \A j \in DOMAIN intents :
          /\ intents[j].status = "pending" => intents'[j].status = "pending"
          /\ intents'[j].artifact = intents[j].artifact
          /\ intents'[j].kind = intents[j].kind
          /\ intents'[j].review = intents[j].review
          /\ intents'[j].steps = intents[j].steps
  BY <1>5, <1>7
<1>10. PollSound' /\ TodoPending' /\ PollShape'
  BY <1>2, <1>7, <1>8, <1>9, PollStays DEF IntentsKept, OwnComments
<1>11. Rest'
  <2>1. UNCHANGED <<stage, pull, column, login, moved, faults>> /\ edits' \in 0..MaxEdits
    BY <1>2 DEF OperatorResets, Rest, forge_vars, Edit
  <2> QED
    BY <1>2, <2>1 DEF Rest
<1> QED
  BY <1>8, <1>10, <1>11, StepKeeps

\* What people change of the forge or the configuration.
LEMMA PeopleStep ==
    ASSUME IInv, UNCHANGED <<attempts, artifacts, intents, reviews, comments, poll_vars, login>>,
           UNCHANGED <<pull, moved>>
           \/ (~At("idle") => moved' \/ (~moved /\ pull'.rev.head = pull.rev.head)),
           Rest'
    PROVE  IInv'
<1>1. StoreSound /\ attempts \in Seq(Attempt)
  BY AtCandidate
<1>2. StoreSound'
  BY <1>1, AllKept, IntentsChange
<1>3. PollSound' /\ TodoPending' /\ PollShape'
  BY PollStays DEF poll_vars, OwnComments
<1> QED
  BY <1>2, <1>3, StepKeeps

\* The lease of the stage or of a publication lapses between two polls.
LEMMA LeaseExpiresKeeps == ASSUME IInv, LeaseExpires PROVE IInv'
<1>1. /\ StoreSound /\ Rest /\ attempts \in Seq(Attempt) /\ TodoPending
      /\ poll \in Poll /\ poll.key \in 0..Len(intents)
      /\ \A i \in DOMAIN intents : intents[i] \in Intent
  BY AtCandidate, Rows
<1>2. UNCHANGED <<attempts, artifacts, reviews, comments, poll, todo, pull, moved, login>>
  BY DEF LeaseExpires, forge_vars, poll_vars, people_vars
<1>3. CASE /\ stage = "running" /\ stage' = "stale" /\ UNCHANGED intents
  <2>1. Rest'
    BY <1>1, <1>3 DEF LeaseExpires, Rest, forge_vars, people_vars
  <2> QED
    BY <1>2, <1>3, <2>1, PeopleStep DEF poll_vars
<1>4. ASSUME NEW i \in DOMAIN intents, Write(i, "lease", "expired"), UNCHANGED stage
      PROVE  IInv'
  <2>1. /\ IntentsKept /\ intents'[i] = [intents[i] EXCEPT !.lease = "expired"]
        /\ \A j \in DOMAIN intents : j # i => intents'[j] = intents[j]
    BY <1>1, <1>2, <1>4, LeaseWritten
  <2>2. \A j \in DOMAIN intents : intents'[j].status = intents[j].status
    <3>1. intents[i] \in Intent
      BY <1>1, <1>4
    <3>2. intents'[i].status = intents[i].status
      BY <2>1, <3>1 DEF Intent
    <3> QED
      BY <2>1, <3>2
  <2>3. TodoPending'
    BY <1>1, <1>2, <2>1, <2>2 DEF TodoPending, Pending, IntentsKept
  <2>4. /\ Rest'
        /\ poll' \in Poll /\ poll'.key \in 0..Len(intents) /\ PollSound'
    BY <1>1, <1>4, IdleSound DEF LeaseExpires, At, forge_vars, poll_vars, people_vars, Rest
  <2> QED
    BY <1>2, <2>1, <2>3, <2>4, PublicationStep
<1> QED
  BY <1>3, <1>4 DEF LeaseExpires

LEMMA PeopleChangePullKeeps == ASSUME IInv, PeopleChangePull PROVE IInv'
<1>1. Rest
  BY AtCandidate
<1>2. /\ pull' \in [rev : Revisions, open : BOOLEAN] /\ edits' \in 0..MaxEdits
      /\ moved' = (moved \/ (~At("idle") /\ pull'.rev.head # pull.rev.head))
      /\ UNCHANGED <<attempts, artifacts, intents, reviews, comments, poll_vars, login>>
      /\ UNCHANGED <<stage, column, faults>>
  <2>1. pull' \in [rev : Revisions, open : BOOLEAN]
    <3>1. CASE \E r \in Revisions \ {Live} : pull' = [pull EXCEPT !.rev = r]
      <4>1. PICK r \in Revisions : pull' = [pull EXCEPT !.rev = r]
        BY <3>1, Zenon
      <4> HIDE <3>1
      <4> QED
        BY <1>1, <4>1 DEF Rest
    <3>2. CASE pull' = [pull EXCEPT !.open = ~@]
      BY <1>1, <3>2 DEF Rest
    <3> QED
      BY <3>1, <3>2, Zenon DEF PeopleChangePull
  <2>2. edits' \in 0..MaxEdits
    <3>1. edits < MaxEdits /\ edits' = edits + 1
      BY Zenon DEF PeopleChangePull, Edit
    <3> QED
      BY <1>1, <3>1 DEF Rest
  <2> QED
    BY <2>1, <2>2, Zenon DEF PeopleChangePull, store_vars
<1>3. Rest'
  BY <1>1, <1>2 DEF Rest
<1>4. ~At("idle") => moved' \/ (~moved /\ pull'.rev.head = pull.rev.head)
  BY <1>2, Zenon
<1> QED
  BY <1>2, <1>3, <1>4, PeopleStep

LEMMA PeopleMoveIssueKeeps == ASSUME IInv, PeopleMoveIssue PROVE IInv'
<1>1. Rest
  BY AtCandidate
<1>2. Rest'
  BY <1>1 DEF PeopleMoveIssue, Rest, Edit, store_vars
<1> QED
  BY <1>2, PeopleStep DEF PeopleMoveIssue, store_vars

LEMMA PeopleDeleteCommentKeeps == ASSUME IInv, PeopleDeleteComment PROVE IInv'
<1>1. PICK k \in DOMAIN comments : comments' = [comments EXCEPT ![k].live = FALSE]
  BY Zenon DEF PeopleDeleteComment
<1> DEFINE x == [comments[k] EXCEPT !.live = FALSE]
           n == Len(comments)
<1>2. /\ StoreSound /\ Rest /\ comments \in Seq(Comment) /\ n \in Nat /\ DOMAIN comments = 1..n
      /\ comments[k] \in Comment
      /\ UNCHANGED <<attempts, artifacts, intents, reviews, poll, todo, pull, moved, login>>
  BY AtCandidate, Rows, Zenon DEF PeopleDeleteComment, store_vars, poll_vars, StoreSound, Shapes
<1>3. x \in Comment /\ ~x.live /\ comments' = [comments EXCEPT ![k] = x]
  BY <1>1, <1>2 DEF Comment
<1> HIDE DEF x
<1>4. /\ comments' \in Seq(Comment) /\ Len(comments') = n
      /\ \A c \in 1..n : comments'[c] = IF c = k THEN x ELSE comments[c]
  BY <1>2, <1>3, ExceptSeq
<1>5. DOMAIN comments' = 1..n
  BY <1>4, LenProperties
<1>6. StoreSound'
  <2>1. Intent' = Intent /\ Review' = Review /\ Comment' = Comment
    BY <1>2, <1>4 DEF Intent, Review, Comment
  <2>2. Shapes'
    BY <1>2, <1>4, <2>1 DEF StoreSound, Shapes
  <2>3. (ArtifactsOnce /\ IntentsOnce /\ ReviewsOnce)' /\ IntentsBound'
    BY <1>2 DEF StoreSound, WorkDoneOnce, ArtifactsOnce, IntentsOnce, ReviewsOnce, IntentsBound
  <2>4. CommentsOnce'
    BY <1>2, <1>3, <1>4, <1>5 DEF StoreSound, WorkDoneOnce, CommentsOnce
  <2> QED
    BY <2>2, <2>3, <2>4
       DEF StoreSound, WorkDoneOnce, ArtifactsOnce, IntentsOnce, ReviewsOnce, CommentsOnce
<1>7. OwnComments(poll.key) = {} => (OwnComments(poll.key) = {})'
  BY <1>2, <1>3, <1>4, <1>5 DEF OwnComments
<1>8. PollSound' /\ TodoPending' /\ PollShape'
  BY <1>2, <1>4, <1>7, PollStays
<1>9. Rest'
  <2>1. UNCHANGED <<stage, pull, column, login, moved, faults>> /\ edits' \in 0..MaxEdits
    <3>1. edits < MaxEdits /\ edits' = edits + 1
      BY Zenon DEF PeopleDeleteComment, Edit
    <3>2. UNCHANGED <<stage, pull, column, login, moved, faults>>
      BY Zenon DEF PeopleDeleteComment, store_vars
    <3> QED
      BY <1>2, <3>1, <3>2 DEF Rest
  <2> QED
    BY <1>2, <2>1 DEF Rest
<1> QED
  BY <1>6, <1>8, <1>9, StepKeeps

LEMMA OperatorReloadsKeeps == ASSUME IInv, OperatorReloads PROVE IInv'
<1>1. /\ Rest /\ StoreSound /\ attempts \in Seq(Attempt) /\ todo \subseteq Pending
      /\ poll \in Poll /\ poll.key \in 0..Len(intents)
  BY AtCandidate
<1>2. /\ UNCHANGED <<attempts, artifacts, intents, reviews, comments, todo, poll>> /\ Rest'
      /\ poll'.at = "idle"
  BY <1>1 DEF OperatorReloads, store_vars, forge_vars, poll_vars, Rest, Edit, At
<1> QED
  BY <1>1, <1>2, IdleSound, StoreStays

----------------------------------------------------------------------------
(* The theorems *)

LEMMA InitHolds == ASSUME Init PROVE IInv
<1>1. StoreSound
  BY DEF Init, StoreSound, Shapes, WorkDoneOnce, IntentsBound
<1>2. TodoPending
  BY DEF Init, TodoPending
<1>3. PollShape
  BY IdleType DEF Init, PollShape
<1>4. PollSound
  BY DEF Init, Idle, PollSound, PollOwns, PollModes, PollFinds, PollMakes, HeadSeen, At,
     Publishing, Candidacy, Formal, Routing, Commenting, Early, Pinned, Accepted
<1>5. Rest
  <2>1. AnyRevision \in Revisions /\ 0 \in 0..MaxFaults /\ 0 \in 0..MaxEdits
    BY ReviewAssumption DEF AnyRevision
  <2>2. pull \in [rev : Revisions, open : BOOLEAN]
    BY <2>1 DEF Init
  <2> QED
    BY <2>1, <2>2 DEF Init, Rest, Columns, Logins
<1> QED
  BY <1>1, <1>2, <1>3, <1>4, <1>5, Parts

LEMMA NextKeeps == IInv /\ [Next]_vars => IInv'
<1> SUFFICES ASSUME IInv, [Next]_vars PROVE IInv'
  OBVIOUS
<1>1. CASE Reconciling
  BY <1>1, PollStartsKeeps, ResumePublicationKeeps, PendingDoneKeeps, CheckHeadKeeps
     DEF Reconciling
<1>2. CASE Reviewing
  BY <1>2, TakeCandidateKeeps, SkipRevisionKeeps, RecoverOrphanKeeps, PinRevisionKeeps,
     ListFilesKeeps, ClaimKeeps, StoreInputsKeeps, WorkerFailsKeeps, WorkerOvertakenKeeps,
     WorkerReturnsKeeps, StoreArtifactKeeps, IntendPublicationKeeps DEF Reviewing
<1>3. CASE Submitting
  BY <1>3, IdentifyKeeps, ListReviewsKeeps, CheckLiveKeeps, CreateReviewKeeps, AcceptReviewKeeps,
     LosesLeaseKeeps, BindReviewKeeps, RecordReviewKeeps DEF Submitting
<1>4. CASE HandingOn
  BY <1>4, LeaveIssueKeeps, ReadColumnKeeps, MoveIssueKeeps, VerifyMoveKeeps, RecordRouteKeeps,
     RecordFinalKeeps DEF HandingOn
<1>5. CASE Previewing
  BY <1>5, UpdateCommentKeeps, LetsGoKeeps, ClearCommentKeeps, FindCommentKeeps,
     CreateCommentKeeps, BindCommentKeeps, CompletePreviewKeeps DEF Previewing
<1>6. CASE LeaseExpires \/ Faults
  BY <1>6, LeaseExpiresKeeps, CallFailsKeeps, AnswerLostKeeps, CrashKeeps, SuspendedKeeps
     DEF Faults
<1>7. CASE People
  BY <1>7, PeopleChangePullKeeps, PeopleMoveIssueKeeps, PeopleDeleteCommentKeeps,
     OperatorResetsKeeps, OperatorReloadsKeeps DEF People
<1>8. CASE UNCHANGED vars
  <2>1. /\ UNCHANGED <<attempts, artifacts, intents, reviews, comments, poll_vars, login>>
        /\ UNCHANGED <<pull, moved>> /\ UNCHANGED <<stage, column, faults, edits>>
    BY <1>8 DEF vars, store_vars, forge_vars, people_vars
  <2>2. Rest'
    BY <2>1, AtCandidate DEF Rest
  <2> QED
    BY <2>1, <2>2, PeopleStep
<1> QED
  BY <1>1, <1>2, <1>3, <1>4, <1>5, <1>6, <1>7, <1>8 DEF Next, Symphony

\* What the poll knows of its publication holds through every crash, lapse of a
\* lease, lost answer and edit.
THEOREM InvariantHolds == Spec => []IInv
  BY InitHolds, NextKeeps, PTL DEF Spec

\* Every variable keeps its shape: no publication is retried over its budget.
THEOREM TypeHolds == Spec => []TypeOK
<1>1. IInv => TypeOK
  BY DEF IInv
<1> QED
  BY <1>1, InvariantHolds, PTL

\* A revision is reviewed once, its findings are published under one intent, and
\* an intent has one formal review and one comment per credential.
THEOREM WorkIsDoneOnce == Spec => []WorkDoneOnce
<1>1. IInv => WorkDoneOnce
  BY DEF IInv
<1> QED
  BY <1>1, InvariantHolds, PTL

\* A step that moves the issue, and is nobody's edit, is the move of a publication
\* whose review was accepted, bound and recorded.
LEMMA HandoffStep ==
    ASSUME IInv, [Next]_vars, column' # column, edits' = edits
    PROVE  /\ {"review_created", "findings_recorded"} \subseteq intents[poll.key].steps
           /\ \E r \in DOMAIN reviews : /\ intents[poll.key].review = r
                                        /\ reviews[r].intent = poll.key
                                        /\ reviews[r].login = intents[poll.key].login
           /\ pull.rev.head = HeadOf(poll.key) \/ moved
<1>1. At("move")
  <2>1. CASE MoveIssue \/ AnswerLost
    BY <2>1 DEF MoveIssue, AnswerLost
  <2>2. CASE Reconciling
    BY <2>2, Zenon
       DEF Reconciling, PollStarts, ResumePublication, PendingDone, CheckHead, forge_vars
  <2>3. CASE Reviewing
    BY <2>3, Zenon DEF Reviewing, TakeCandidate, SkipRevision, RecoverOrphan, PinRevision,
       ListFiles, Claim, StoreInputs, WorkerFails, WorkerOvertaken, WorkerReturns,
       StoreArtifact, IntendPublication, forge_vars
  <2>4. CASE Submitting
    BY <2>4, Zenon DEF Submitting, Identify, ListReviews, CheckLive, CreateReview, AcceptReview,
       LosesLease, BindReview, RecordReview, forge_vars
  <2>5. CASE HandingOn /\ ~MoveIssue
    BY <2>5, Zenon DEF HandingOn, LeaveIssue, ReadColumn, VerifyMove, RecordRoute, RecordFinal,
       forge_vars
  <2>6. CASE Previewing
    BY <2>6, Zenon DEF Previewing, UpdateComment, LetsGo, ClearComment, FindComment,
       CreateComment, BindComment, CompletePreview, forge_vars
  <2>7. CASE LeaseExpires \/ CallFails \/ Crash \/ Suspended
    BY <2>7, Zenon DEF LeaseExpires, CallFails, Crash, Suspended, forge_vars
  <2>8. CASE People
    <3>1. edits' = edits + 1 \/ UNCHANGED column
      BY <2>8, Zenon DEF People, PeopleChangePull, PeopleMoveIssue, PeopleDeleteComment,
         OperatorResets, OperatorReloads, Edit
    <3>2. edits \in Nat
      BY AtCandidate DEF Rest
    <3> QED
      BY <3>1, <3>2
  <2>9. CASE UNCHANGED vars
    BY <2>9, Zenon DEF vars, forge_vars
  <2> QED
    BY <2>1, <2>2, <2>3, <2>4, <2>5, <2>6, <2>7, <2>8, <2>9 DEF Next, Symphony, Faults, HandingOn
<1>2. poll.at \in Routing
  BY <1>1 DEF At, Routing
<1>3. /\ StoreSound /\ Mine = intents[poll.key] /\ Mine \in Intent
      /\ Bound(Mine, poll.key, reviews) /\ "findings_recorded" \in Mine.steps
      /\ pull.rev.head = HeadOf(poll.key) \/ moved
      /\ DOMAIN reviews = 1..Len(reviews) /\ Len(reviews) \in Nat
  BY <1>2, AtRouting, Rows
<1>4. /\ "review_created" \in Mine.steps /\ Mine.review # 0
      /\ reviews[Mine.review].intent = poll.key /\ reviews[Mine.review].login = Mine.login
  BY <1>3 DEF Bound
<1>5. Mine.review \in DOMAIN reviews
  BY <1>3, <1>4 DEF Intent
<1> QED
  BY <1>3, <1>4, <1>5

\* The issue is only moved for a publication whose review is on the pull request,
\* recorded, and about the head the poll saw live when it accepted the review.
THEOREM HandoffIsAfterReview == Spec => HandoffAfterReview
<1>1. IInv /\ [Next]_vars =>
        [column' # column /\ edits' = edits =>
           /\ {"review_created", "findings_recorded"} \subseteq intents[poll.key].steps
           /\ \E r \in DOMAIN reviews : /\ intents[poll.key].review = r
                                        /\ reviews[r].intent = poll.key
                                        /\ reviews[r].login = intents[poll.key].login
           /\ pull.rev.head = HeadOf(poll.key) \/ moved]_vars
  BY HandoffStep
<1> QED
  BY <1>1, InvariantHolds, PTL DEF Spec, HandoffAfterReview
=============================================================================
