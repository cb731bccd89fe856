-------------------------- MODULE VerificationProofs --------------------------
(* Safety of VerificationStage for any number of revisions, commands,       *)
(* attempts, faults and edits.                                              *)
EXTENDS VerificationStage, SequenceTheorems, WellFoundedInduction, TLAPS

\* The phases of a poll that is at work on an attempt it has claimed, the ones
\* of a recovery that is stopping one, and the ones before a gate is stored.
Engaged == {"inputs", "workspace"} \cup Executing \cup Judging \cup Looks \cup Publishing
Stopping == {"stop_commands", "stop_verifier", "interrupt"}
Ungated ==
    {"inputs", "workspace", "after_commands", "after_verifier"} \cup Executing \cup Judging

\* No attempt has completed the stage for the revision.
Fresh(r) == \A a \in Of(r) : attempts[a].stage # "completed"

\* What the properties rest on.  A poll works on the newest attempt, which is of
\* its revision and which nobody else ends; a recovery stops one that is running.
PollOwns ==
    /\ poll.at \in Engaged =>
        /\ poll.key = Len(attempts) /\ poll.key > 0
        /\ Mine.rev = poll.rev /\ poll.rev \notin todo
        /\ Mine.status = IF At("inputs") THEN "none" ELSE "running"
    /\ poll.at \in Stopping => poll.key > 0 /\ Mine.status = "running" /\ poll.command > 0

\* The row of a command is the last one while the command is run, and carries its
\* identity before the command is released.
RunsFollow ==
    /\ poll.at \in {"inputs", "workspace"} => Mine.runs = <<>>
    /\ At("launch") => poll.command = Len(Mine.runs) + 1
    /\ poll.at \in Executing \ {"launch"} => poll.command = Len(Mine.runs) /\ poll.command > 0
    /\ At("release") => MyRun.named

\* The gate is stored before the verdict is published, and after the last run.
GatesFollow ==
    /\ poll.at \in Ungated => Mine.gate = "none"
    /\ poll.at \in Publishing \cup {"before_publication"} => Mine.gate # "none"

\* A revision that is about to be verified has no verdict yet.
ClaimIsFresh == At("claim") => Fresh(poll.rev) /\ poll.rev \notin todo
CandidatesFresh == \A r \in todo : Fresh(r)

PollSound == PollOwns /\ RunsFollow /\ GatesFollow /\ ClaimIsFresh

IInv == TypeOK /\ VerificationSound /\ CandidatesFresh /\ PollSound

\* The parts of VerdictsStand.
OneVerdict ==
    \A a, b \in DOMAIN attempts :
        attempts[a].stage = "completed" /\ attempts[a].rev = attempts[b].rev => b <= a
GreenIsComplete ==
    \A a \in Running : attempts[a].gate = "passed" =>
        /\ Len(attempts[a].runs) = Commands
        /\ \A c \in 1..Commands : attempts[a].runs[c].status = "completed"
OneCommentPerHead ==
    \A c, d \in DOMAIN comments : comments[c].head = comments[d].head => c = d
CommentsShowGates ==
    \A c \in DOMAIN comments :
        /\ attempts[comments[c].attempt].gate # "none"
        /\ attempts[comments[c].attempt].rev.head = comments[c].head

\* What a step makes of one attempt: its live commands are on record, and a green
\* gate stands over commands that completed.
Sound(x) ==
    /\ Len(x.runs) <= Commands
    /\ \A c \in DOMAIN x.runs : x.runs[c].payload = "live" => x.runs[c].named
    /\ x.status = "running" /\ x.gate = "passed" =>
        Len(x.runs) = Commands /\ \A c \in 1..Commands : x.runs[c].status = "completed"

\* What no step takes from the attempts: their number, revisions and gates.
AttemptsStay ==
    /\ attempts' \in Seq(Attempt)
    /\ \A a \in DOMAIN attempts' : Len(attempts'[a].runs) <= Commands
    /\ Len(attempts') >= Len(attempts)
    /\ \A a \in DOMAIN attempts :
        /\ attempts'[a].rev = attempts[a].rev
        /\ attempts[a].gate # "none" => attempts'[a].gate # "none"

\* What each kind of step has to keep of the attempts and the candidates.
StoreSound == BarrierHolds /\ OneVerdict /\ GreenIsComplete /\ CandidatesFresh
CommentsSound == OneCommentPerHead /\ CommentsShowGates

USE VerificationAssumption

----------------------------------------------------------------------------
(* The operators the stage is built from *)

\* There is a revision to begin with, and an idle poll is a poll.
LEMMA IdleType ==
    ASSUME TypeOK
    PROVE  /\ AnyRevision \in Revisions
           /\ Idle \in Poll
           /\ NextCandidate \in Poll
           /\ Idle.at = "idle" /\ NextCandidate.at = "candidate"
<1>1. AnyRevision \in Revisions
  BY DEF AnyRevision
<1>2. Len(attempts) \in Nat
  BY DEF TypeOK
<1>3. Idle \in Poll
  BY <1>1, <1>2 DEF Idle, Poll
<1>4. Idle.at = "idle"
  BY DEF Idle
<1> QED
  BY <1>1, <1>3, <1>4 DEF NextCandidate, Poll

\* The fields of a poll.
LEMMA PollType ==
    ASSUME TypeOK
    PROVE  /\ poll \in Poll
           /\ poll.key \in 0..Len(attempts) /\ Len(attempts) \in Nat
           /\ poll.command \in 0..(Commands + 1)
           /\ poll.rev \in Revisions
  BY DEF TypeOK, Poll

\* The attempts are records in a sequence, each with at most a row per command.
LEMMA AttemptType ==
    ASSUME TypeOK, NEW a \in DOMAIN attempts
    PROVE  /\ DOMAIN attempts = 1..Len(attempts) /\ Len(attempts) \in Nat
           /\ a \in 1..Len(attempts)
           /\ attempts[a] \in Attempt
           /\ attempts[a].runs \in Seq(Run) /\ Len(attempts[a].runs) \in 0..Commands
           /\ DOMAIN attempts[a].runs = 1..Len(attempts[a].runs)
           /\ \A c \in 1..Len(attempts[a].runs) : attempts[a].runs[c] \in Run
<1>1. attempts \in Seq(Attempt) /\ Len(attempts[a].runs) <= Commands
  BY DEF TypeOK
<1>2. attempts[a] \in Attempt /\ DOMAIN attempts = 1..Len(attempts) /\ Len(attempts) \in Nat
  BY <1>1, ElementOfSeq, LenProperties
<1>3. attempts[a].runs \in Seq(Run)
  BY <1>2 DEF Attempt
<1>4. Len(attempts[a].runs) \in Nat /\ DOMAIN attempts[a].runs = 1..Len(attempts[a].runs)
  BY <1>3, LenProperties
<1> QED
  BY <1>1, <1>2, <1>3, <1>4, ElementOfSeq

\* So is the attempt a poll is at.
LEMMA MineType ==
    ASSUME TypeOK, poll.key > 0
    PROVE  /\ poll.key \in DOMAIN attempts
           /\ Mine = attempts[poll.key]
           /\ Mine \in Attempt
           /\ Mine.runs \in Seq(Run) /\ Len(Mine.runs) \in 0..Commands
           /\ DOMAIN Mine.runs = 1..Len(Mine.runs)
           /\ \A c \in 1..Len(Mine.runs) : Mine.runs[c] \in Run
<1>1. attempts \in Seq(Attempt) /\ poll.key \in 0..Len(attempts)
  BY DEF TypeOK, Poll
<1>2. poll.key \in DOMAIN attempts
  BY <1>1
<1> QED
  BY <1>2, AttemptType DEF Mine

\* A command run changes in its row alone.
LEMMA SetMyRunIs ==
    ASSUME TypeOK, poll.key > 0, poll.command > 0, poll.command <= Len(Mine.runs),
           NEW run \in Run, SetMyRun(run)
    PROVE  \E x \in Attempt :
               /\ attempts' = [attempts EXCEPT ![poll.key] = x]
               /\ x.rev = Mine.rev /\ x.stage = Mine.stage /\ x.status = Mine.status
               /\ x.verifier = Mine.verifier /\ x.gate = Mine.gate
               /\ Len(x.runs) = Len(Mine.runs)
               /\ \A c \in 1..Len(Mine.runs) :
                      x.runs[c] = IF c = poll.command THEN run ELSE Mine.runs[c]
<1> DEFINE rs == [Mine.runs EXCEPT ![poll.command] = run]
           x == [Mine EXCEPT !.runs = rs]
<1>1. poll.key \in DOMAIN attempts /\ Mine \in Attempt /\ Mine.runs \in Seq(Run)
  BY MineType
<1>2. poll.command \in 1..Len(Mine.runs)
  BY DEF TypeOK, Poll
<1>3. /\ rs \in Seq(Run) /\ Len(rs) = Len(Mine.runs)
      /\ \A c \in 1..Len(Mine.runs) : rs[c] = IF c = poll.command THEN run ELSE Mine.runs[c]
  BY <1>1, <1>2, ExceptSeq
<1>4. attempts' = [attempts EXCEPT ![poll.key] = x]
  BY <1>1 DEF SetMyRun, SetRun, Mine
<1> HIDE DEF rs
<1>5. /\ x \in Attempt /\ x.runs = rs
      /\ x.rev = Mine.rev /\ x.stage = Mine.stage /\ x.status = Mine.status
      /\ x.verifier = Mine.verifier /\ x.gate = Mine.gate
  BY <1>1, <1>3 DEF Attempt
<1> HIDE DEF x
<1> QED
  BY <1>3, <1>4, <1>5

\* A sequence is one of whatever its elements are.
LEMMA SeqRetyped ==
    ASSUME NEW S, NEW T, NEW s \in Seq(S), \A i \in 1..Len(s) : s[i] \in T
    PROVE  s \in Seq(T)
<1>1. s \in [1..Len(s) -> S] /\ Len(s) \in Nat
  BY LenProperties
<1>2. s \in [1..Len(s) -> T]
  BY <1>1
<1> QED
  BY <1>1, <1>2, SeqDef

\* A sequence grows at its end.
LEMMA AppendIs ==
    ASSUME NEW S, NEW s \in Seq(S), NEW e \in S
    PROVE  /\ Append(s, e) \in Seq(S)
           /\ Len(Append(s, e)) = Len(s) + 1
           /\ DOMAIN Append(s, e) = 1..(Len(s) + 1)
           /\ \A i \in 1..Len(s) : Append(s, e)[i] = s[i]
           /\ Append(s, e)[Len(s) + 1] = e
  OBVIOUS

\* A nonempty set of natural numbers has its minimum among its elements.
LEMMA MinIsLeast ==
    ASSUME NEW S \in SUBSET Nat, S # {}
    PROVE  Min(S) \in S /\ \A y \in S : Min(S) <= y
<1> DEFINE R == {ss \in Nat \X Nat : ss[1] < ss[2]}
<1>1. R = OpToRel(<, Nat)
  BY Zenon DEF OpToRel
<1>2. IsWellFoundedOn(R, Nat)
  BY <1>1, NatLessThanWellFounded, Zenon
<1>3. PICK x \in S : \A y \in S : <<y, x>> \notin R
  <2> HIDE DEF R
  <2> QED
    BY <1>2, WFMin, Zenon
<1>4. ASSUME NEW y \in S PROVE x <= y
  <2>1. /\ <<y, x>> \in Nat \X Nat /\ <<y, x>>[1] = y /\ <<y, x>>[2] = x
        /\ x \in Nat /\ y \in Nat
    OBVIOUS
  <2>2. ~(y < x)
    BY <1>3, <2>1, Zenon
  <2> HIDE DEF R
  <2> QED
    BY <2>1, <2>2
<1> QED
  BY <1>4 DEF Min

----------------------------------------------------------------------------
(* The kinds of step *)

\* The strengthened invariant by its parts.
LEMMA Parts ==
    VerificationSound /\ CandidatesFresh <=> StoreSound /\ CommentsSound
  BY DEF VerificationSound, VerdictsStand, StoreSound, CommentsSound, OneVerdict,
         GreenIsComplete, OneCommentPerHead, CommentsShowGates

\* Every attempt is sound.
LEMMA AttemptsSound ==
    ASSUME TypeOK, StoreSound, NEW a \in DOMAIN attempts
    PROVE  Sound(attempts[a])
  BY AttemptType DEF StoreSound, BarrierHolds, GreenIsComplete, Running, Sound

\* One attempt changes.
LEMMA OneChanges ==
    ASSUME TypeOK, StoreSound, NEW a \in DOMAIN attempts, NEW x \in Attempt, Sound(x),
           attempts' = [attempts EXCEPT ![a] = x],
           todo' \subseteq todo,
           x.rev = attempts[a].rev,
           attempts[a].gate # "none" => x.gate # "none",
           x.stage = "completed" =>
               \/ attempts[a].stage = "completed"
               \/ a = Len(attempts) /\ x.rev \notin todo'
    PROVE  AttemptsStay /\ StoreSound' /\ Len(attempts') = Len(attempts)
<1>1. /\ attempts \in Seq(Attempt) /\ a \in 1..Len(attempts) /\ Len(attempts) \in Nat
      /\ DOMAIN attempts = 1..Len(attempts)
  BY AttemptType DEF TypeOK
<1>2. /\ attempts' \in Seq(Attempt) /\ Len(attempts') = Len(attempts)
      /\ \A b \in 1..Len(attempts) : attempts'[b] = IF b = a THEN x ELSE attempts[b]
  BY <1>1, ExceptSeq
<1>3. DOMAIN attempts' = 1..Len(attempts)
  BY <1>2, LenProperties
<1>4. \A b \in 1..Len(attempts) : Sound(attempts'[b])
  BY <1>1, <1>2, AttemptsSound
<1>5. AttemptsStay
  BY <1>1, <1>2, <1>3, <1>4 DEF AttemptsStay, Sound
<1>6. BarrierHolds'
  BY <1>3, <1>4 DEF BarrierHolds, Sound
<1>7. GreenIsComplete'
  BY <1>3, <1>4 DEF GreenIsComplete, Running, Sound
<1>8. OneVerdict'
  BY <1>1, <1>2, <1>3 DEF OneVerdict, StoreSound
<1>9. CandidatesFresh'
  BY <1>1, <1>2, <1>3 DEF CandidatesFresh, Fresh, Of, StoreSound
<1> QED
  BY <1>2, <1>5, <1>6, <1>7, <1>8, <1>9 DEF StoreSound

\* Comments that stay, or show the gate of the attempt the poll is at.
LEMMA CommentsChange ==
    ASSUME TypeOK, CommentsSound, AttemptsStay,
           \/ UNCHANGED comments
           \/ /\ ShowVerdict /\ poll.key > 0 /\ Mine.gate # "none"
              /\ Mine.rev = poll.rev
    PROVE  (comments \in Seq(Comment))' /\ CommentsSound'
<1> DEFINE n == Len(comments)
           C == [head : Heads, attempt : DOMAIN attempts']
<1>1. /\ DOMAIN attempts = 1..Len(attempts) /\ Len(attempts) \in Nat
      /\ DOMAIN attempts' = 1..Len(attempts') /\ Len(attempts') \in Nat
      /\ DOMAIN attempts \subseteq DOMAIN attempts'
  BY LenProperties DEF TypeOK, AttemptsStay
<1>2. /\ comments \in Seq(Comment) /\ DOMAIN comments = 1..n /\ n \in Nat
      /\ \A c \in 1..n : comments[c] \in Comment
  BY LenProperties, ElementOfSeq DEF TypeOK
<1>3. \A c \in 1..n :
          /\ comments[c] \in C
          /\ attempts'[comments[c].attempt].gate # "none"
          /\ attempts'[comments[c].attempt].rev.head = comments[c].head
  BY <1>1, <1>2 DEF CommentsSound, CommentsShowGates, AttemptsStay, Comment
<1>4. comments \in Seq(C)
  BY <1>2, <1>3, SeqRetyped
<1>5. CASE UNCHANGED comments
  BY <1>2, <1>3, <1>4, <1>5
     DEF CommentsSound, CommentsShowGates, OneCommentPerHead, Comment, Heads
<1>6. CASE ~UNCHANGED comments
  <2>1. /\ ShowVerdict /\ poll.key \in DOMAIN attempts
        /\ attempts[poll.key].gate # "none" /\ attempts[poll.key].rev = poll.rev
        /\ poll.rev \in Revisions
    BY <1>6, MineType DEF TypeOK, Poll
  <2>2. /\ Shown \in C /\ Shown.head = poll.rev.head /\ Shown.attempt = poll.key
        /\ attempts'[poll.key].gate # "none"
        /\ attempts'[poll.key].rev.head = poll.rev.head
    BY <1>1, <2>1 DEF Shown, Heads, AttemptsStay
  <2>3. CASE Marked = {}
    <3>1. /\ comments' \in Seq(C) /\ DOMAIN comments' = 1..(n + 1)
          /\ \A c \in 1..n : comments'[c] = comments[c]
          /\ comments'[n + 1] = Shown
      <4> HIDE DEF C
      <4>1. comments' = Append(comments, Shown)
        BY <2>1, <2>3 DEF ShowVerdict
      <4> QED
        BY <1>4, <2>2, <4>1, AppendIs
    <3>2. \A c \in 1..n : comments[c].head # poll.rev.head
      BY <1>2, <2>3 DEF Marked
    <3>3. OneCommentPerHead'
      BY <1>2, <2>2, <3>1, <3>2 DEF OneCommentPerHead, CommentsSound
    <3>4. CommentsShowGates'
      BY <1>2, <1>3, <2>2, <3>1 DEF CommentsShowGates
    <3> QED
      BY <3>1, <3>3, <3>4 DEF CommentsSound, Comment, Heads
  <2>4. CASE Marked # {}
    <3> DEFINE k == Min(Marked)
    <3>1. k \in 1..n /\ comments[k].head = poll.rev.head
      <4>1. Marked \in SUBSET Nat
        BY <1>2 DEF Marked
      <4>2. k \in Marked
        BY <2>4, <4>1, MinIsLeast
      <4> QED
        BY <1>2, <4>2 DEF Marked
    <3> HIDE DEF k
    <3>2. comments' = [comments EXCEPT ![k] = Shown]
      BY <2>1, <2>4 DEF ShowVerdict, k
    <3>3. /\ comments' \in Seq(C) /\ DOMAIN comments' = 1..n
          /\ \A c \in 1..n : comments'[c] = IF c = k THEN Shown ELSE comments[c]
      BY <1>2, <1>4, <2>2, <3>1, <3>2, ExceptSeq, LenProperties
    <3>4. OneCommentPerHead'
      BY <1>2, <2>2, <3>1, <3>3 DEF OneCommentPerHead, CommentsSound
    <3>5. CommentsShowGates'
      BY <1>2, <1>3, <2>2, <3>3 DEF CommentsShowGates
    <3> QED
      BY <3>3, <3>4, <3>5 DEF CommentsSound, Comment, Heads
  <2> QED
    BY <2>3, <2>4
<1> QED
  BY <1>5, <1>6

\* The attempts stay as they are.
LEMMA NoneChanges ==
    ASSUME TypeOK, StoreSound, UNCHANGED attempts, todo' \subseteq todo
    PROVE  AttemptsStay /\ StoreSound'
<1>1. /\ attempts \in Seq(Attempt) /\ Len(attempts) \in Nat
      /\ \A a \in DOMAIN attempts : Len(attempts[a].runs) <= Commands
  BY DEF TypeOK
<1>2. attempts' \in Seq(Attempt)
  <2>1. Attempt' = Attempt
    BY DEF Attempt, Run
  <2> QED
    BY <1>1, <2>1
<1>3. AttemptsStay
  BY <1>1, <1>2 DEF AttemptsStay
<1>4. BarrierHolds' /\ OneVerdict' /\ GreenIsComplete'
  BY DEF StoreSound, BarrierHolds, OneVerdict, GreenIsComplete, Running
<1>5. CandidatesFresh'
  BY DEF StoreSound, CandidatesFresh, Fresh, Of
<1> QED
  BY <1>3, <1>4, <1>5 DEF StoreSound

\* The run a poll is at changes, in an attempt that is not green.
LEMMA RunChanges ==
    ASSUME IInv, poll.key > 0, poll.command > 0, poll.command <= Len(Mine.runs),
           Mine.gate # "passed", todo' \subseteq todo,
           NEW run \in Run, SetMyRun(run), run.payload = "live" => run.named
    PROVE  /\ AttemptsStay /\ StoreSound' /\ Len(attempts') = Len(attempts)
           /\ LET x == attempts'[poll.key] IN
              /\ x.rev = Mine.rev /\ x.stage = Mine.stage /\ x.status = Mine.status
              /\ x.verifier = Mine.verifier /\ x.gate = Mine.gate
              /\ Len(x.runs) = Len(Mine.runs) /\ x.runs[poll.command] = run
<1>1. TypeOK /\ StoreSound
  BY Parts DEF IInv
<1>2. PICK x \in Attempt :
          /\ attempts' = [attempts EXCEPT ![poll.key] = x]
          /\ x.rev = Mine.rev /\ x.stage = Mine.stage /\ x.status = Mine.status
          /\ x.verifier = Mine.verifier /\ x.gate = Mine.gate
          /\ Len(x.runs) = Len(Mine.runs)
          /\ \A c \in 1..Len(Mine.runs) :
                 x.runs[c] = IF c = poll.command THEN run ELSE Mine.runs[c]
  BY <1>1, SetMyRunIs
<1>3. /\ poll.key \in DOMAIN attempts /\ Mine = attempts[poll.key] /\ Mine \in Attempt
      /\ Len(Mine.runs) \in 0..Commands
      /\ DOMAIN Mine.runs = 1..Len(Mine.runs) /\ poll.command \in 1..Len(Mine.runs)
  <2>1. /\ poll.key \in DOMAIN attempts /\ Mine = attempts[poll.key] /\ Mine \in Attempt
        /\ Len(Mine.runs) \in 0..Commands /\ DOMAIN Mine.runs = 1..Len(Mine.runs)
    BY <1>1, MineType
  <2>2. poll.command \in Nat
    BY <1>1, PollType
  <2> QED
    BY <2>1, <2>2
<1>4. DOMAIN x.runs = 1..Len(x.runs)
  BY LenProperties DEF Attempt
<1>5. Sound(Mine)
  BY <1>1, <1>3, AttemptsSound
<1>6. Sound(x)
  BY <1>2, <1>3, <1>4, <1>5 DEF Sound
<1>7. AttemptsStay /\ StoreSound' /\ Len(attempts') = Len(attempts)
  BY <1>1, <1>2, <1>3, <1>6, OneChanges
<1>8. attempts'[poll.key] = x
  BY <1>1, <1>2, <1>3 DEF TypeOK
<1> QED
  BY <1>2, <1>3, <1>7, <1>8

\* Nothing is asked of a poll that is not at an attempt.
LEMMA Away ==
    ASSUME poll'.at \in {"idle", "recover", "intake", "candidate"}
    PROVE  PollSound'
  BY DEF PollSound, PollOwns, RunsFollow, GatesFollow, ClaimIsFresh, At, Engaged, Stopping,
         Ungated, Executing, Judging, Looks, Publishing

\* A recovery that is stopping an attempt is not at work on one.
LEMMA NotEngaged ==
    ASSUME poll'.at \in Stopping, poll'.key > 0, poll'.command > 0,
           attempts'[poll'.key].status = "running"
    PROVE  PollSound'
<1>1. /\ poll'.at \notin Engaged /\ poll'.at \notin Ungated
      /\ poll'.at \notin Executing \cup Publishing
      /\ poll'.at \notin {"inputs", "workspace", "launch", "claim", "before_publication"}
  BY DEF Stopping, Engaged, Ungated, Executing, Judging, Looks, Publishing
<1>2. PollOwns'
  BY <1>1 DEF PollOwns, Mine
<1>3. RunsFollow'
  BY <1>1 DEF RunsFollow, At, Executing
<1>4. GatesFollow' /\ ClaimIsFresh'
  BY <1>1 DEF GatesFollow, ClaimIsFresh, At
<1> QED
  BY <1>2, <1>3, <1>4 DEF PollSound

\* Intents and polls keep their shape while attempts are added.
LEMMA ShapesStay ==
    ASSUME TypeOK, AttemptsStay
    PROVE  /\ UNCHANGED intents => (intents \in Seq(Intent))'
           /\ poll' \in Poll => (poll \in Poll)'
<1>1. /\ Len(attempts) \in Nat /\ Len(attempts') \in Nat /\ Len(attempts') >= Len(attempts)
      /\ DOMAIN attempts = 1..Len(attempts) /\ DOMAIN attempts' = 1..Len(attempts')
  BY LenProperties DEF TypeOK, AttemptsStay
<1>2. Intent \subseteq Intent'
  BY <1>1 DEF Intent
<1>3. UNCHANGED intents => (intents \in Seq(Intent))'
  BY <1>2, SeqMonotonic DEF TypeOK
<1>4. Poll \subseteq Poll'
  BY <1>1 DEF Poll
<1> QED
  BY <1>3, <1>4

\* A fault is counted up to its bound.
LEMMA FaultType ==
    ASSUME TypeOK, Fault \/ UNCHANGED faults
    PROVE  faults' \in 0..MaxFaults
  BY DEF TypeOK, Fault

\* A step that leaves the forge and the intents alone.
LEMMA StoreStep ==
    ASSUME IInv, AttemptsStay, StoreSound', PollSound', poll' \in Poll, todo' \subseteq Revisions,
           UNCHANGED <<intents, forge_vars, edits>>, Fault \/ UNCHANGED faults
    PROVE  IInv'
<1>1. TypeOK /\ CommentsSound
  BY Parts DEF IInv
<1>2. (comments \in Seq(Comment))' /\ CommentsSound'
  BY <1>1, CommentsChange DEF forge_vars
<1>3. TypeOK'
  BY <1>1, <1>2, ShapesStay, FaultType DEF TypeOK, AttemptsStay, forge_vars
<1>4. (VerificationSound /\ CandidatesFresh)'
  BY <1>2, Parts, PTL
<1> QED
  BY <1>3, <1>4 DEF IInv

\* What a poll knows of the attempt it is at.
LEMMA AtWork ==
    ASSUME IInv, poll.at \in Engaged \cup Stopping
    PROVE  /\ TypeOK /\ StoreSound
           /\ poll.key > 0 /\ poll.key \in DOMAIN attempts
           /\ Mine = attempts[poll.key] /\ Mine \in Attempt
           /\ Sound(Mine)
           /\ Mine.runs \in Seq(Run) /\ Len(Mine.runs) \in 0..Commands
           /\ DOMAIN Mine.runs = 1..Len(Mine.runs)
           /\ Mine.status = IF At("inputs") THEN "none" ELSE "running"
<1>1. TypeOK /\ StoreSound
  BY Parts DEF IInv
<1>2. poll.key > 0 /\ Mine.status = IF At("inputs") THEN "none" ELSE "running"
  BY DEF IInv, PollSound, PollOwns, Stopping, At
<1> QED
  BY <1>1, <1>2, MineType, AttemptsSound

\* What it knows of the command it is at.
LEMMA AtCommand ==
    ASSUME IInv, poll.at \in Executing \ {"launch"}
    PROVE  /\ poll.key = Len(attempts) /\ Mine.rev = poll.rev /\ poll.rev \notin todo
           /\ poll.command > 0 /\ poll.command = Len(Mine.runs)
           /\ poll.command \in 1..Commands /\ poll.command + 1 \in 0..(Commands + 1)
           /\ MyRun \in Run /\ (MyRun.payload = "live" => MyRun.named)
           /\ Mine.status = "running" /\ Mine.gate = "none"
           /\ At("release") => MyRun.named
<1>1. poll.at \in Engaged /\ poll.at \in Ungated /\ ~At("inputs")
  BY DEF Engaged, Ungated, Executing, At
<1>2. /\ poll.key = Len(attempts) /\ Mine.rev = poll.rev /\ poll.rev \notin todo
      /\ poll.command > 0 /\ poll.command = Len(Mine.runs)
      /\ Mine.gate = "none" /\ (At("release") => MyRun.named)
  BY <1>1 DEF IInv, PollSound, PollOwns, RunsFollow, GatesFollow, At
<1>3. Mine.status = "running" /\ Sound(Mine) /\ Len(Mine.runs) \in 0..Commands
  BY <1>1, AtWork
<1>4. poll.command \in 1..Commands /\ poll.command + 1 \in 0..(Commands + 1)
  BY <1>2, <1>3
<1>5. MyRun \in Run /\ poll.command \in DOMAIN Mine.runs
  BY <1>1, <1>2, <1>4, AtWork, MineType DEF MyRun
<1> QED
  BY <1>2, <1>3, <1>4, <1>5 DEF Sound, MyRun

\* The row of the command a poll is at changes, and the poll goes on with it or
\* to the next.
LEMMA CommandStep ==
    ASSUME IInv, poll.at \in Executing \ {"launch"},
           NEW run \in Run, SetMyRun(run), run.payload = "live" => run.named,
           poll' \in Poll, poll'.at \in {"launch", "name", "release", "command", "record"},
           poll'.key = poll.key, poll'.rev = poll.rev,
           poll'.command = IF poll'.at = "launch" THEN poll.command + 1 ELSE poll.command,
           poll'.at = "release" => run.named,
           UNCHANGED <<intents, forge_vars, todo, edits>>, Fault \/ UNCHANGED faults
    PROVE  IInv'
<1>1. /\ TypeOK /\ poll.key > 0 /\ poll.command > 0 /\ poll.command = Len(Mine.runs)
      /\ Mine.status = "running" /\ Mine.gate = "none" /\ poll.key = Len(attempts)
      /\ Mine.rev = poll.rev /\ poll.rev \notin todo /\ poll.command \in 1..Commands
  BY AtWork, AtCommand DEF Engaged
<1>2. /\ AttemptsStay /\ StoreSound' /\ Len(attempts') = Len(attempts)
      /\ attempts'[poll.key].rev = Mine.rev /\ attempts'[poll.key].status = "running"
      /\ attempts'[poll.key].gate = "none"
      /\ Len(attempts'[poll.key].runs) = poll.command
      /\ attempts'[poll.key].runs[poll.command] = run
  BY <1>1, RunChanges
<1>3. PollOwns'
  BY <1>1, <1>2 DEF PollOwns, Mine, At, Stopping
<1>4. RunsFollow'
  BY <1>1, <1>2 DEF RunsFollow, Mine, MyRun, At
<1>5. GatesFollow' /\ ClaimIsFresh'
  BY <1>2 DEF GatesFollow, ClaimIsFresh, Mine, At, Publishing
<1> QED
  BY <1>1, <1>2, <1>3, <1>4, <1>5, StoreStep DEF PollSound, TypeOK

\* A poll that goes on to the next command.
LEMMA NextCommandIs ==
    ASSUME IInv, poll.at \in Executing \ {"launch"}, NEW ok \in BOOLEAN, NextCommand(ok)
    PROVE  /\ poll' \in Poll /\ poll'.at = "launch"
           /\ poll'.key = poll.key /\ poll'.rev = poll.rev
           /\ poll'.command = poll.command + 1
<1>1. poll \in Poll /\ poll.command + 1 \in 0..(Commands + 1)
  BY AtCommand, PollType DEF IInv
<1>2. poll' \in Poll
  BY <1>1, Zenon DEF NextCommand, Poll, Executing
<1> QED
  BY <1>1, <1>2 DEF NextCommand, Poll

----------------------------------------------------------------------------
(* Recovery *)

USE DEF At, Goto
LEMMA PollStartsKeeps == ASSUME IInv, PollStarts PROVE IInv'
<1>1. TypeOK /\ StoreSound
  BY Parts DEF IInv
<1>2. poll' \in Poll /\ poll'.at = "recover" /\ todo' = {}
  BY <1>1, IdleType DEF PollStarts, Poll, Recovering
<1> QED
  BY <1>1, <1>2, NoneChanges, Away, StoreStep DEF PollStarts, store_vars

LEMMA RecoverNextKeeps == ASSUME IInv, RecoverNext PROVE IInv'
<1>1. TypeOK /\ StoreSound
  BY Parts DEF IInv
<1>2. AttemptsStay /\ StoreSound'
  BY <1>1, NoneChanges DEF RecoverNext, store_vars
<1>3. CASE poll' \in {Idle, [Idle EXCEPT !.at = "intake"]}
  <2>1. poll' \in Poll /\ poll'.at \in {"idle", "intake"}
    <3>1. CASE poll' = Idle
      BY <1>1, <3>1, IdleType DEF Idle
    <3>2. CASE poll' = [Idle EXCEPT !.at = "intake"]
      BY <1>1, <3>2, IdleType DEF Poll
    <3> QED
      BY <1>3, <3>1, <3>2
  <2> QED
    BY <1>1, <1>2, <2>1, Away, StoreStep DEF RecoverNext, store_vars, TypeOK
<1>4. ASSUME NEW a \in Running,
             poll' = [Idle EXCEPT !.at = "stop_commands", !.key = a, !.command = 1]
      PROVE  IInv'
  <2>1. a \in 1..Len(attempts) /\ attempts[a].status = "running" /\ Len(attempts) \in Nat
    BY <1>1, AttemptType DEF Running
  <2>2. /\ poll'.at = "stop_commands" /\ poll'.key = a /\ poll'.command = 1
        /\ attempts' = attempts
    BY <1>4 DEF RecoverNext, store_vars, Idle
  <2>3. poll' \in Poll
    <3>1. a \in 0..Len(attempts) /\ 1 \in 0..(Commands + 1) /\ Idle \in Poll
      BY <1>1, <2>1, IdleType
    <3> QED
      BY <1>4, <3>1, Zenon DEF Poll, Recovering
  <2>4. PollSound'
    <3>1. poll'.at \in Stopping
      BY <2>2 DEF Stopping
    <3>2. poll'.key > 0 /\ poll'.command > 0
      BY <2>1, <2>2
    <3>3. attempts'[poll'.key].status = "running"
      BY <2>1, <2>2
    <3> QED
      BY <3>1, <3>2, <3>3, NotEngaged, Zenon
  <2> QED
    BY <1>1, <1>2, <2>3, <2>4, StoreStep DEF RecoverNext, store_vars, TypeOK
<1>5. ASSUME {a \in Running : a > poll.key} # {}
      PROVE  Min({a \in Running : a > poll.key}) \in Running
  <2>1. {a \in Running : a > poll.key} \in SUBSET Nat
    BY <1>1, LenProperties DEF Running, TypeOK
  <2> QED
    BY <1>5, <2>1, MinIsLeast
<1> QED
  BY <1>3, <1>4, <1>5 DEF RecoverNext

LEMMA StopCommandKeeps == ASSUME IInv, StopCommand PROVE IInv'
<1>1. /\ TypeOK /\ StoreSound /\ poll \in Poll
      /\ poll.key > 0 /\ Mine.status = "running" /\ Sound(Mine)
      /\ Len(Mine.runs) \in 0..Commands /\ DOMAIN Mine.runs = 1..Len(Mine.runs)
      /\ poll.at = "stop_commands"
  BY AtWork, PollType DEF StopCommand, At, Stopping
<1>2. /\ poll.command \in 1..Commands /\ poll.command + 1 \in 0..(Commands + 1)
      /\ poll.command > 0 /\ poll.command <= Len(Mine.runs)
      /\ MyRun \in Run /\ (MyRun.payload = "live" => MyRun.named)
  <2>1. poll.command > 0
    BY <1>1 DEF IInv, PollSound, PollOwns, Stopping
  <2>2. poll.command <= Len(Mine.runs)
    BY DEF StopCommand
  <2>3. poll.command \in 1..Len(Mine.runs)
    BY <1>1, <2>1, <2>2, PollType
  <2>4. MyRun \in Run
    BY <1>1, <2>3, MineType DEF MyRun
  <2>5. MyRun.payload = "live" => MyRun.named
    BY <1>1, <2>3 DEF MyRun, Sound
  <2> QED
    BY <1>1, <2>1, <2>2, <2>3, <2>4, <2>5
<1>3. ASSUME AttemptsStay, StoreSound', Len(attempts') = Len(attempts),
             attempts'[poll.key].status = "running", Fault \/ UNCHANGED faults,
             poll' \in Poll, poll'.at = "stop_commands", poll'.key = poll.key,
             poll'.command = poll.command + 1
      PROVE  IInv'
  <2>1. poll'.at \in Stopping
    BY <1>3 DEF Stopping
  <2>2. poll'.key > 0 /\ poll'.command > 0
    BY <1>1, <1>2, <1>3
  <2>3. PollSound'
    BY <1>3, <2>1, <2>2, NotEngaged
  <2> QED
    BY <1>1, <1>3, <2>3, StoreStep DEF StopCommand, TypeOK
<1>4. CASE UNCHANGED <<attempts, faults>> /\ poll' = [poll EXCEPT !.command = @ + 1]
  <2>1. poll' \in Poll
    BY <1>1, <1>2, <1>4, Zenon DEF Poll
  <2>2. /\ poll'.at = "stop_commands" /\ poll'.key = poll.key
        /\ poll'.command = poll.command + 1
    BY <1>1, <1>4, <2>1 DEF Poll
  <2>3. AttemptsStay /\ StoreSound'
    BY <1>1, <1>4, NoneChanges DEF StopCommand
  <2> QED
    BY <1>1, <1>3, <1>4, <2>1, <2>2, <2>3 DEF Mine
<1>5. ASSUME MyRun.status \in {"launching", "running"},
             NEW is \in {MyRun.payload, "gone"}, NEW verified \in BOOLEAN,
             IF MyRun.named THEN Terminates(MyRun.payload, is, verified)
             ELSE is = MyRun.payload /\ verified /\ UNCHANGED faults,
             SetMyRun([MyRun EXCEPT !.status = "interrupted", !.payload = is]),
             poll' = [poll EXCEPT !.command = @ + 1, !.ok = @ /\ verified]
      PROVE  IInv'
  <2> DEFINE run == [MyRun EXCEPT !.status = "interrupted", !.payload = is]
  <2>1. run \in Run /\ (run.payload = "live" => run.named)
    BY <1>2, <1>5 DEF Run
  <2>2. Mine.gate # "passed"
    BY <1>1, <1>2, <1>5 DEF Sound, MyRun
  <2>3. todo' = todo
    BY DEF StopCommand
  <2>4. SetMyRun(run)
    BY <1>5
  <2> HIDE DEF run
  <2>5. /\ AttemptsStay /\ StoreSound' /\ Len(attempts') = Len(attempts)
        /\ attempts'[poll.key].status = Mine.status
    BY <1>1, <1>2, <2>1, <2>2, <2>3, <2>4, RunChanges
  <2>6. (poll.ok /\ verified) \in BOOLEAN
    OBVIOUS
  <2>7. poll' \in Poll
    BY <1>1, <1>2, <1>5, <2>6, Zenon DEF Poll
  <2>8. /\ poll'.at = "stop_commands" /\ poll'.key = poll.key
        /\ poll'.command = poll.command + 1
    BY <1>1, <1>5 DEF Poll
  <2>9. Fault \/ UNCHANGED faults
    BY <1>5 DEF Terminates
  <2> QED
    BY <1>1, <1>3, <2>5, <2>7, <2>8, <2>9
<1> QED
  BY <1>4, <1>5 DEF StopCommand

LEMMA CommandsStoppedKeeps == ASSUME IInv, CommandsStopped PROVE IInv'
<1>1. /\ TypeOK /\ StoreSound /\ poll \in Poll /\ poll.at = "stop_commands"
      /\ poll.key > 0 /\ poll.command > 0 /\ Mine.status = "running"
  BY AtWork, PollType DEF CommandsStopped, Stopping, IInv, PollSound, PollOwns
<1>2. poll' \in Poll /\ poll'.at \in Stopping /\ poll'.key > 0 /\ poll'.command > 0
  BY <1>1 DEF CommandsStopped, Poll, Recovering, Stopping
<1>3. attempts'[poll'.key].status = "running"
  BY <1>1 DEF CommandsStopped, store_vars, Mine, Poll
<1>4. AttemptsStay /\ StoreSound'
  BY <1>1, NoneChanges DEF CommandsStopped, store_vars
<1>5. PollSound'
  BY <1>2, <1>3, NotEngaged
<1> QED
  BY <1>1, <1>2, <1>4, <1>5, StoreStep DEF CommandsStopped, store_vars, TypeOK

LEMMA StopVerifierKeeps == ASSUME IInv, StopVerifier PROVE IInv'
<1>1. /\ TypeOK /\ StoreSound /\ poll \in Poll /\ poll.at = "stop_verifier"
      /\ poll.key > 0 /\ poll.command > 0 /\ Mine.status = "running"
      /\ Sound(Mine) /\ poll.key \in DOMAIN attempts /\ Mine = attempts[poll.key]
      /\ Mine \in Attempt
  BY AtWork, PollType DEF StopVerifier, Stopping, IInv, PollSound, PollOwns
<1>2. PICK is \in {Mine.verifier, "gone"}, verified \in BOOLEAN :
          /\ IF Mine.verifier = "live" THEN Terminates("live", is, verified)
             ELSE is = Mine.verifier /\ ~verified /\ UNCHANGED faults
          /\ attempts' = [attempts EXCEPT ![poll.key].verifier = is]
          /\ poll' = [poll EXCEPT !.at = "interrupt", !.ok = verified]
  BY DEF StopVerifier
<1> DEFINE x == [Mine EXCEPT !.verifier = is]
<1>3. /\ x \in Attempt /\ x.rev = Mine.rev /\ x.gate = Mine.gate /\ x.stage = Mine.stage
      /\ x.status = Mine.status /\ x.runs = Mine.runs
  BY <1>1 DEF Attempt, Verifier
<1>4. attempts' = [attempts EXCEPT ![poll.key] = x]
  BY <1>1, <1>2 DEF TypeOK
<1> HIDE DEF x
<1>5. todo' = todo /\ Sound(x)
  BY <1>1, <1>3 DEF Sound, StopVerifier
<1>6. AttemptsStay /\ StoreSound'
  BY <1>1, <1>3, <1>4, <1>5, OneChanges
<1>7. poll' \in Poll /\ poll'.at \in Stopping /\ poll'.key = poll.key /\ poll'.command > 0
  BY <1>1, <1>2 DEF Poll, Recovering, Stopping
<1>8. PollSound'
  BY <1>1, <1>3, <1>4, <1>7, NotEngaged
<1> QED
  BY <1>1, <1>2, <1>6, <1>7, <1>8, StoreStep DEF StopVerifier, TypeOK, Terminates

\* An attempt that is over keeps its revision and its gate, and is sound.
LEMMA OverIs ==
    ASSUME NEW x \in Attempt, Sound(x),
           NEW stage \in {"completed", "failed", "interrupted"},
           NEW status \in {"completed", "failed", "blocked", "interrupted", "superseded"}
    PROVE  /\ Over(x, stage, status) \in Attempt /\ Sound(Over(x, stage, status))
           /\ Over(x, stage, status).rev = x.rev /\ Over(x, stage, status).gate = x.gate
           /\ Over(x, stage, status).stage = IF x.stage = "running" THEN stage ELSE x.stage
<1> DEFINE y == [x EXCEPT !.stage = IF @ = "running" THEN stage ELSE @, !.status = status]
           z == [y EXCEPT !.runs = <<>>, !.verifier = "none"]
<1>1. /\ y \in Attempt /\ y.rev = x.rev /\ y.gate = x.gate /\ y.runs = x.runs
      /\ y.stage = (IF x.stage = "running" THEN stage ELSE x.stage) /\ y.status = status
  BY DEF Attempt
<1>2. Sound(y)
  BY <1>1 DEF Sound
<1> HIDE DEF y
<1>3. <<>> \in Seq(Run) /\ Len(<<>>) = 0 /\ DOMAIN <<>> = {}
  BY EmptySeq
<1>4. /\ z \in Attempt /\ z.rev = y.rev /\ z.gate = y.gate /\ z.runs = <<>>
      /\ z.stage = y.stage /\ z.status = y.status
  BY <1>1, <1>3 DEF Attempt, Verifier
<1> HIDE DEF z
<1>5. Sound(z)
  BY <1>1, <1>3, <1>4 DEF Sound
<1>6. Over(x, stage, status) = y \/ Over(x, stage, status) = z
  BY DEF Over, Settled, y, z
<1> QED
  BY <1>1, <1>2, <1>4, <1>5, <1>6

LEMMA InterruptAttemptKeeps == ASSUME IInv, InterruptAttempt PROVE IInv'
<1>1. /\ TypeOK /\ StoreSound /\ poll \in Poll /\ poll.at = "interrupt"
      /\ Sound(Mine) /\ poll.key \in DOMAIN attempts /\ Mine = attempts[poll.key]
      /\ Mine \in Attempt
  BY AtWork, PollType DEF InterruptAttempt, Stopping
<1> DEFINE x == Over(Mine, "interrupted", "interrupted")
<1>2. /\ x \in Attempt /\ Sound(x) /\ x.rev = Mine.rev /\ x.gate = Mine.gate
      /\ x.stage = IF Mine.stage = "running" THEN "interrupted" ELSE Mine.stage
  BY <1>1, OverIs
<1>3. attempts' = [attempts EXCEPT ![poll.key] = x] \/ attempts' = attempts
  BY <1>1 DEF InterruptAttempt
<1> HIDE DEF x
<1>4. todo' = todo
  BY DEF InterruptAttempt
<1>5. AttemptsStay /\ StoreSound'
  BY <1>1, <1>2, <1>3, <1>4, OneChanges, NoneChanges
<1>6. poll' \in Poll /\ poll'.at = "recover"
  BY <1>1 DEF InterruptAttempt, Poll, Recovering
<1>7. PollSound'
  BY <1>6, Away
<1> QED
  BY <1>1, <1>4, <1>5, <1>6, <1>7, StoreStep DEF InterruptAttempt, TypeOK

----------------------------------------------------------------------------
(* The candidate and its attempt *)

\* An attempt the poll is at ends.
LEMMA EndAttemptIs ==
    ASSUME IInv, poll.at \in Engaged, todo' = todo,
           NEW stage \in {"completed", "failed", "interrupted"},
           NEW status \in {"completed", "failed", "blocked", "interrupted", "superseded"},
           EndAttempt(stage, status)
    PROVE  AttemptsStay /\ StoreSound' /\ poll' \in Poll /\ PollSound'
<1>1. /\ TypeOK /\ StoreSound /\ Sound(Mine) /\ poll.key \in DOMAIN attempts
      /\ Mine = attempts[poll.key] /\ Mine \in Attempt
      /\ poll.key = Len(attempts) /\ Mine.rev = poll.rev /\ poll.rev \notin todo
  BY AtWork DEF IInv, PollSound, PollOwns
<1> DEFINE x == Over(Mine, stage, status)
<1>2. /\ x \in Attempt /\ Sound(x) /\ x.rev = Mine.rev /\ x.gate = Mine.gate
      /\ x.stage = IF Mine.stage = "running" THEN stage ELSE Mine.stage
  BY <1>1, OverIs
<1>3. attempts' = [attempts EXCEPT ![poll.key] = x]
  BY <1>1 DEF EndAttempt
<1> HIDE DEF x
<1>4. AttemptsStay /\ StoreSound'
  BY <1>1, <1>2, <1>3, OneChanges
<1>5. poll' \in Poll /\ poll'.at = "candidate"
  BY <1>1, IdleType DEF EndAttempt
<1> QED
  BY <1>4, <1>5, Away

\* A step of a poll that ends its attempt and leaves the forge alone.
LEMMA EndAttemptKeeps ==
    ASSUME IInv, poll.at \in Engaged, Blocked \/ Fails \/ Supersede,
           UNCHANGED <<forge_vars, todo, edits>>, Fault \/ UNCHANGED faults
    PROVE  IInv'
<1>1. AttemptsStay /\ StoreSound' /\ poll' \in Poll /\ PollSound' /\ UNCHANGED intents
  <2>1. CASE Blocked
    BY <2>1, EndAttemptIs DEF Blocked, EndAttempt
  <2>2. CASE Fails
    BY <2>2, EndAttemptIs DEF Fails, EndAttempt
  <2>3. CASE Supersede
    BY <2>3, EndAttemptIs DEF Supersede, EndAttempt
  <2> QED
    BY <2>1, <2>2, <2>3
<1> QED
  BY <1>1, StoreStep DEF IInv, TypeOK

LEMMA TakeCandidatesKeeps == ASSUME IInv, TakeCandidates PROVE IInv'
<1>1. TypeOK /\ StoreSound
  BY Parts DEF IInv
<1>2. todo' \in {todo, Eligible} /\ poll' \in {Idle, NextCandidate} /\ UNCHANGED attempts
  BY DEF TakeCandidates, store_vars
<1>3. todo' \subseteq Revisions /\ CandidatesFresh'
  BY <1>1, <1>2 DEF Eligible, CandidatesFresh, Fresh, Of, TypeOK, StoreSound
<1>4. AttemptsStay
  BY <1>1, <1>2 DEF AttemptsStay, TypeOK
<1>5. StoreSound'
  BY <1>1, <1>2, <1>3 DEF StoreSound, BarrierHolds, OneVerdict, GreenIsComplete, Running
<1>6. poll' \in Poll /\ poll'.at \in {"idle", "candidate"}
  BY <1>1, <1>2, IdleType
<1> QED
  BY <1>3, <1>4, <1>5, <1>6, Away, StoreStep DEF TakeCandidates, store_vars

LEMMA LookAtCandidateKeeps == ASSUME IInv, LookAtCandidate PROVE IInv'
<1>1. TypeOK /\ StoreSound /\ poll \in Poll /\ poll.at = "candidate"
  BY Parts, PollType DEF IInv, LookAtCandidate
<1>2. AttemptsStay /\ StoreSound' /\ todo' \subseteq Revisions
  BY <1>1, NoneChanges DEF LookAtCandidate, store_vars, TypeOK
<1>3. CASE poll' \in {Idle, poll}
  <2>1. poll' \in Poll /\ poll'.at \in {"idle", "candidate"}
    BY <1>1, <1>3, IdleType
  <2> QED
    BY <1>2, <2>1, Away, StoreStep DEF LookAtCandidate, store_vars
<1>4. ASSUME NEW r \in todo, todo' = todo \ {r},
             poll' = [poll EXCEPT !.at = "claim", !.rev = r]
      PROVE  IInv'
  <2>1. poll' \in Poll /\ poll'.at = "claim" /\ poll'.rev = r
    <3>1. r \in Revisions
      BY <1>1, <1>4 DEF TypeOK
    <3> QED
      BY <1>1, <1>4, <3>1 DEF Poll
  <2>2. ClaimIsFresh'
    <3>1. UNCHANGED attempts /\ Fresh(r)
      BY <1>1, <1>4 DEF StoreSound, CandidatesFresh, LookAtCandidate, store_vars
    <3>2. Fresh(r)'
      BY <3>1 DEF Fresh, Of
    <3> QED
      BY <1>4, <2>1, <3>2 DEF ClaimIsFresh
  <2>3. PollSound'
    BY <2>1, <2>2 DEF PollSound, PollOwns, RunsFollow, GatesFollow, At, Engaged, Stopping,
                      Ungated, Executing, Judging, Looks, Publishing
  <2> QED
    BY <1>2, <2>1, <2>3, StoreStep DEF LookAtCandidate, store_vars
<1> QED
  BY <1>3, <1>4 DEF LookAtCandidate

LEMMA ClaimKeeps == ASSUME IInv, Claim PROVE IInv'
<1> DEFINE n == Len(attempts)
           x == [rev |-> poll.rev, stage |-> "running", status |-> "none",
                 runs |-> <<>>, verifier |-> "none", gate |-> "none"]
<1>1. /\ TypeOK /\ StoreSound /\ poll \in Poll /\ poll.rev \in Revisions
      /\ attempts \in Seq(Attempt) /\ n \in Nat /\ DOMAIN attempts = 1..n
      /\ Fresh(poll.rev) /\ poll.rev \notin todo
  <2>1. TypeOK /\ StoreSound /\ PollSound
    BY Parts DEF IInv
  <2>2. attempts \in Seq(Attempt) /\ poll \in Poll /\ poll.rev \in Revisions
    BY <2>1, PollType DEF TypeOK
  <2>3. n \in Nat /\ DOMAIN attempts = 1..n
    BY <2>2, LenProperties
  <2>4. Fresh(poll.rev) /\ poll.rev \notin todo
    BY <2>1 DEF Claim, PollSound, ClaimIsFresh
  <2> QED
    BY <2>1, <2>2, <2>3, <2>4
<1>2. <<>> \in Seq(Run) /\ Len(<<>>) = 0 /\ DOMAIN <<>> = {}
  BY EmptySeq
<1>3. /\ x \in Attempt /\ Sound(x)
      /\ x.rev = poll.rev /\ x.stage = "running" /\ x.status = "none"
      /\ x.runs = <<>> /\ x.gate = "none"
  BY <1>1, <1>2 DEF Attempt, Verifier, Sound
<1>4. attempts' = Append(attempts, x)
  BY DEF Claim
<1> HIDE DEF x
<1>5. /\ attempts' \in Seq(Attempt) /\ Len(attempts') = n + 1
      /\ DOMAIN attempts' = 1..(n + 1)
      /\ \A a \in 1..n : attempts'[a] = attempts[a]
      /\ attempts'[n + 1] = x
  BY <1>1, <1>3, <1>4, AppendIs
<1>6. \A a \in 1..(n + 1) : Sound(attempts'[a])
  <2>1. \A a \in 1..n : Sound(attempts[a])
    BY <1>1, AttemptsSound
  <2> HIDE DEF n
  <2>2. \A a \in 1..n : Sound(attempts'[a])
    BY <1>5, <2>1
  <2>3. \A a \in 1..(n + 1) : a \in 1..n \/ a = n + 1
    BY <1>1
  <2> QED
    BY <1>3, <1>5, <2>2, <2>3
<1>7. AttemptsStay
  BY <1>1, <1>5, <1>6 DEF AttemptsStay, Sound
<1>8. StoreSound'
  <2>1. BarrierHolds' /\ GreenIsComplete'
    BY <1>5, <1>6 DEF BarrierHolds, GreenIsComplete, Running, Sound
  <2>2. OneVerdict'
    BY <1>1, <1>3, <1>5 DEF OneVerdict, StoreSound, Fresh, Of
  <2>3. CandidatesFresh'
    BY <1>1, <1>3, <1>5 DEF CandidatesFresh, StoreSound, Fresh, Of, Claim
  <2> QED
    BY <2>1, <2>2, <2>3 DEF StoreSound
<1>9. /\ (poll \in Poll)' /\ poll'.at = "inputs" /\ poll'.key = n + 1
      /\ poll'.rev = poll.rev /\ todo' = todo
  <2>1. n + 1 \in 0..Len(attempts')
    BY <1>1, <1>5
  <2> QED
    BY <1>1, <2>1 DEF Claim, Poll
<1>10. PollSound'
  BY <1>1, <1>3, <1>5, <1>9
     DEF PollSound, PollOwns, RunsFollow, GatesFollow, ClaimIsFresh, Mine,
         Engaged, Stopping, Ungated, Executing, Judging, Looks, Publishing
<1>11. (comments \in Seq(Comment))' /\ CommentsSound' /\ (intents \in Seq(Intent))'
  BY <1>1, <1>7, Parts, CommentsChange, ShapesStay DEF IInv, Claim, forge_vars
<1>12. TypeOK'
  BY <1>1, <1>7, <1>9, <1>11 DEF TypeOK, AttemptsStay, Claim, forge_vars
<1>13. (VerificationSound /\ CandidatesFresh)'
  BY <1>8, <1>11, Parts, PTL
<1> QED
  BY <1>10, <1>12, <1>13 DEF IInv

LEMMA StoreInputsKeeps == ASSUME IInv, StoreInputs PROVE IInv'
<1>1. /\ TypeOK /\ StoreSound /\ poll \in Poll /\ poll.at = "inputs"
      /\ Sound(Mine) /\ poll.key \in DOMAIN attempts /\ Mine = attempts[poll.key]
      /\ Mine \in Attempt /\ poll.key = Len(attempts) /\ poll.key > 0
      /\ Mine.rev = poll.rev /\ poll.rev \notin todo
      /\ Mine.runs = <<>> /\ Mine.gate = "none"
  BY AtWork, PollType
     DEF StoreInputs, Engaged, Ungated, IInv, PollSound, PollOwns, RunsFollow, GatesFollow
<1> DEFINE x == [Mine EXCEPT !.status = "running"]
<1>2. /\ x \in Attempt /\ x.rev = Mine.rev /\ x.gate = "none" /\ x.stage = Mine.stage
      /\ x.status = "running" /\ x.runs = Mine.runs
  BY <1>1 DEF Attempt
<1>3. attempts' = [attempts EXCEPT ![poll.key] = x]
  BY <1>1 DEF StoreInputs, TypeOK
<1> HIDE DEF x
<1>4. todo' = todo /\ Sound(x)
  BY <1>1, <1>2 DEF Sound, StoreInputs
<1>5. AttemptsStay /\ StoreSound' /\ Len(attempts') = Len(attempts)
  BY <1>1, <1>2, <1>3, <1>4, OneChanges
<1>6. /\ poll' \in Poll /\ poll'.at = "workspace" /\ poll'.key = poll.key
      /\ poll'.rev = poll.rev
  BY <1>1 DEF StoreInputs, Poll
<1>7. attempts'[poll.key] = x
  BY <1>1, <1>3
<1>8. PollSound'
  BY <1>1, <1>2, <1>4, <1>5, <1>6, <1>7
     DEF PollSound, PollOwns, RunsFollow, GatesFollow, ClaimIsFresh, Mine, Stopping,
         Executing, Publishing
<1> QED
  BY <1>1, <1>4, <1>5, <1>6, <1>8, StoreStep DEF StoreInputs, TypeOK

LEMMA PrepareWorkspaceKeeps == ASSUME IInv, PrepareWorkspace PROVE IInv'
<1>1. /\ TypeOK /\ StoreSound /\ poll \in Poll /\ poll.at = "workspace"
      /\ poll.at \in Engaged
      /\ poll.key = Len(attempts) /\ poll.key > 0 /\ Mine.status = "running"
      /\ Mine.rev = poll.rev /\ poll.rev \notin todo
      /\ Mine.runs = <<>> /\ Mine.gate = "none"
  BY AtWork, PollType
     DEF PrepareWorkspace, Engaged, Ungated, IInv, PollSound, PollOwns, RunsFollow, GatesFollow
<1>2. CASE poll' = [poll EXCEPT !.at = "launch", !.command = 1] /\ UNCHANGED store_vars
  <2>1. 1 \in 0..(Commands + 1)
    OBVIOUS
  <2>2. poll' \in Poll
    BY <1>1, <1>2, <2>1, Zenon DEF Poll, Executing
  <2>3. /\ poll'.at = "launch" /\ poll'.key = poll.key /\ poll'.rev = poll.rev
        /\ poll'.command = 1
    BY <1>1, <1>2 DEF Poll
  <2>4. Len(<<>>) = 0
    BY EmptySeq
  <2>5. PollSound'
    BY <1>1, <1>2, <2>3, <2>4
       DEF PollSound, PollOwns, RunsFollow, GatesFollow, ClaimIsFresh, Mine, Stopping,
           Publishing, PrepareWorkspace, store_vars
  <2>6. AttemptsStay /\ StoreSound'
    BY <1>1, <1>2, NoneChanges DEF PrepareWorkspace, store_vars
  <2> QED
    BY <1>1, <1>2, <2>2, <2>5, <2>6, StoreStep DEF PrepareWorkspace, store_vars, TypeOK
<1>3. CASE Fails
  BY <1>1, <1>3, EndAttemptKeeps DEF PrepareWorkspace
<1> QED
  BY <1>2, <1>3 DEF PrepareWorkspace

----------------------------------------------------------------------------
(* The commands *)

LEMMA RecordLaunchKeeps == ASSUME IInv, RecordLaunch PROVE IInv'
<1>1. /\ TypeOK /\ StoreSound /\ poll \in Poll /\ poll.at = "launch"
      /\ Sound(Mine) /\ poll.key \in DOMAIN attempts /\ Mine = attempts[poll.key]
      /\ Mine \in Attempt /\ poll.key = Len(attempts) /\ poll.key > 0
      /\ Mine.rev = poll.rev /\ poll.rev \notin todo /\ Mine.status = "running"
      /\ Mine.runs \in Seq(Run) /\ Len(Mine.runs) \in 0..Commands
      /\ DOMAIN Mine.runs = 1..Len(Mine.runs)
      /\ poll.command = Len(Mine.runs) + 1 /\ Mine.gate = "none"
      /\ poll.command <= Commands
  BY AtWork, PollType
     DEF RecordLaunch, Engaged, Ungated, Executing, IInv, PollSound, PollOwns, RunsFollow,
         GatesFollow
<1> DEFINE run == [status |-> "launching", named |-> FALSE, payload |-> "none"]
           rs == Append(Mine.runs, run)
           x == [Mine EXCEPT !.runs = rs]
<1>2. run \in Run /\ run.payload # "live"
  BY DEF Run
<1> HIDE DEF run
<1>3. /\ rs \in Seq(Run) /\ Len(rs) = poll.command /\ DOMAIN rs = 1..poll.command
      /\ rs[poll.command] = run
      /\ \A c \in 1..Len(Mine.runs) : rs[c] = Mine.runs[c]
  BY <1>1, <1>2, AppendIs
<1>4. attempts' = [attempts EXCEPT ![poll.key] = x]
  BY <1>1 DEF RecordLaunch, run
<1> HIDE DEF rs
<1>5. /\ x \in Attempt /\ x.rev = Mine.rev /\ x.gate = "none" /\ x.stage = Mine.stage
      /\ x.status = "running" /\ x.runs = rs
  BY <1>1, <1>3 DEF Attempt
<1> HIDE DEF x
<1>6. todo' = todo
  BY DEF RecordLaunch
<1>7. Sound(x)
  <2>1. \A c \in 1..Len(Mine.runs) : rs[c].payload = "live" => rs[c].named
    BY <1>1, <1>3 DEF Sound
  <2>2. \A c \in 1..poll.command : c = poll.command \/ c \in 1..Len(Mine.runs)
    BY <1>1
  <2>3. \A c \in DOMAIN rs : rs[c].payload = "live" => rs[c].named
    BY <1>2, <1>3, <2>1, <2>2
  <2> QED
    BY <1>1, <1>3, <1>5, <2>3 DEF Sound
<1>8. AttemptsStay /\ StoreSound' /\ Len(attempts') = Len(attempts)
  BY <1>1, <1>4, <1>5, <1>6, <1>7, OneChanges
<1>9. /\ poll' \in Poll /\ poll'.at \in {"spawn", "skip"} /\ poll'.key = poll.key
      /\ poll'.rev = poll.rev /\ poll'.command = poll.command
  BY <1>1 DEF RecordLaunch, Poll, Executing
<1>10. attempts'[poll.key] = x
  BY <1>1, <1>4
<1>11. PollSound'
  BY <1>1, <1>3, <1>5, <1>6, <1>8, <1>9, <1>10
     DEF PollSound, PollOwns, RunsFollow, GatesFollow, ClaimIsFresh, Mine, Stopping, Publishing
<1> QED
  BY <1>1, <1>6, <1>8, <1>9, <1>11, StoreStep DEF RecordLaunch, TypeOK

LEMMA SkipCommandKeeps == ASSUME IInv, SkipCommand PROVE IInv'
<1> DEFINE run == [MyRun EXCEPT !.status = "not_run"]
<1>1. poll.at \in Executing \ {"launch"}
  BY DEF SkipCommand, Executing
<1>2. run \in Run /\ (run.payload = "live" => run.named)
  BY <1>1, AtCommand DEF Run
<1>3. SetMyRun(run) /\ NextCommand(FALSE)
  BY DEF SkipCommand
<1> HIDE DEF run
<1> QED
  BY <1>1, <1>2, <1>3, NextCommandIs, CommandStep DEF SkipCommand

LEMMA SpawnKeeps == ASSUME IInv, Spawn PROVE IInv'
<1>1. poll.at \in Executing \ {"launch"} /\ poll \in Poll
  BY PollType DEF IInv, Spawn, Executing
<1>2. CASE SetMyRun([MyRun EXCEPT !.payload = "held"]) /\ Goto("name") /\ UNCHANGED faults
  <2> DEFINE run == [MyRun EXCEPT !.payload = "held"]
  <2>1. run \in Run /\ run.payload = "held"
    BY <1>1, AtCommand DEF Run
  <2>2. SetMyRun(run)
    BY <1>2
  <2>3. /\ poll' \in Poll /\ poll'.at = "name" /\ poll'.key = poll.key
        /\ poll'.rev = poll.rev /\ poll'.command = poll.command
    BY <1>1, <1>2 DEF Poll, Executing
  <2> HIDE DEF run
  <2> QED
    BY <1>1, <1>2, <2>1, <2>2, <2>3, CommandStep DEF Spawn
<1>3. CASE /\ Fault /\ SetMyRun([MyRun EXCEPT !.status = "interrupted"])
           /\ NextCommand(FALSE)
  <2> DEFINE run == [MyRun EXCEPT !.status = "interrupted"]
  <2>1. run \in Run /\ (run.payload = "live" => run.named)
    BY <1>1, AtCommand DEF Run
  <2>2. SetMyRun(run)
    BY <1>3
  <2> HIDE DEF run
  <2> QED
    BY <1>1, <1>3, <2>1, <2>2, NextCommandIs, CommandStep DEF Spawn
<1> QED
  BY <1>2, <1>3 DEF Spawn

LEMMA RecordIdentityKeeps == ASSUME IInv, RecordIdentity PROVE IInv'
<1> DEFINE run == [MyRun EXCEPT !.named = TRUE, !.status = "running"]
<1>1. poll.at \in Executing \ {"launch"} /\ poll \in Poll
  BY PollType DEF IInv, RecordIdentity, Executing
<1>2. run \in Run /\ run.named
  BY <1>1, AtCommand DEF Run
<1>3. SetMyRun(run)
  BY DEF RecordIdentity
<1>4. /\ poll' \in Poll /\ poll'.at = "release" /\ poll'.key = poll.key
      /\ poll'.rev = poll.rev /\ poll'.command = poll.command
  BY <1>1 DEF RecordIdentity, Poll, Executing
<1> HIDE DEF run
<1> QED
  BY <1>1, <1>2, <1>3, <1>4, CommandStep DEF RecordIdentity

LEMMA ReleaseKeeps == ASSUME IInv, Release PROVE IInv'
<1> DEFINE run == [MyRun EXCEPT !.payload = "live"]
<1>1. poll.at \in Executing \ {"launch"} /\ poll \in Poll /\ MyRun.named
  BY PollType, AtCommand DEF IInv, Release, Executing
<1>2. run \in Run /\ run.named
  BY <1>1, AtCommand DEF Run
<1>3. SetMyRun(run)
  BY DEF Release
<1>4. /\ poll' \in Poll /\ poll'.at = "command" /\ poll'.key = poll.key
      /\ poll'.rev = poll.rev /\ poll'.command = poll.command
  BY <1>1 DEF Release, Poll, Executing
<1> HIDE DEF run
<1> QED
  BY <1>1, <1>2, <1>3, <1>4, CommandStep DEF Release

LEMMA CommandEndsKeeps == ASSUME IInv, CommandEnds PROVE IInv'
<1>1. /\ TypeOK /\ StoreSound /\ poll \in Poll /\ poll.at = "command"
      /\ poll.at \in Executing \ {"launch"} /\ poll.at \in Engaged
  BY AtWork, PollType DEF CommandEnds, Executing, Engaged
<1>2. /\ poll.key = Len(attempts) /\ poll.key > 0 /\ Mine.rev = poll.rev
      /\ poll.rev \notin todo /\ Mine.status = "running" /\ Mine.gate = "none"
      /\ poll.command > 0 /\ poll.command = Len(Mine.runs)
  BY <1>1, AtWork, AtCommand
<1>3. /\ poll' \in Poll /\ poll'.at = "record" /\ poll'.key = poll.key
      /\ poll'.rev = poll.rev /\ poll'.command = poll.command
  BY <1>1 DEF CommandEnds, Poll, Executing
<1>4. PollSound'
  BY <1>2, <1>3 DEF PollSound, PollOwns, RunsFollow, GatesFollow, ClaimIsFresh, Mine, Stopping,
         Publishing, CommandEnds, store_vars
<1>5. AttemptsStay /\ StoreSound'
  BY <1>1, NoneChanges DEF CommandEnds, store_vars
<1> QED
  BY <1>1, <1>3, <1>4, <1>5, StoreStep DEF CommandEnds, store_vars, TypeOK

LEMMA RecordCommandKeeps == ASSUME IInv, RecordCommand PROVE IInv'
<1> DEFINE run == [MyRun EXCEPT !.status = IF poll.ok THEN "completed" ELSE "failed"]
<1>1. /\ poll.at \in Executing \ {"launch"} /\ poll \in Poll /\ poll.ok \in BOOLEAN
      /\ MyRun \in Run /\ (MyRun.payload = "live" => MyRun.named)
  BY PollType, AtCommand DEF IInv, RecordCommand, Executing, Poll
<1>2. run \in Run /\ (run.payload = "live" => run.named)
  BY <1>1 DEF Run
<1>3. SetMyRun(run) /\ NextCommand(poll.ok)
  BY DEF RecordCommand
<1> HIDE DEF run
<1> QED
  BY <1>1, <1>2, <1>3, NextCommandIs, CommandStep DEF RecordCommand

LEMMA StartFailsKeeps == ASSUME IInv, StartFails PROVE IInv'
<1> DEFINE run == [MyRun EXCEPT !.status = "interrupted", !.payload = "gone"]
<1>1. poll.at \in Executing \ {"launch"}
  BY DEF StartFails, Executing
<1>2. run \in Run /\ run.payload # "live"
  BY <1>1, AtCommand DEF Run
<1>3. SetMyRun(run) /\ NextCommand(FALSE)
  BY DEF StartFails
<1> HIDE DEF run
<1> QED
  BY <1>1, <1>2, <1>3, NextCommandIs, CommandStep DEF StartFails

LEMMA WaitFailsKeeps == ASSUME IInv, WaitFails PROVE IInv'
<1>1. PICK is \in {MyRun.payload, "gone"} :
          SetMyRun([MyRun EXCEPT !.status = "interrupted", !.payload = is])
  BY DEF WaitFails
<1> DEFINE run == [MyRun EXCEPT !.status = "interrupted", !.payload = is]
<1>2. poll.at \in Executing \ {"launch"}
  BY DEF WaitFails, Executing
<1>3. run \in Run /\ (run.payload = "live" => run.named)
  BY <1>2, AtCommand DEF Run
<1>4. SetMyRun(run) /\ NextCommand(FALSE)
  BY <1>1 DEF WaitFails
<1> HIDE DEF run
<1> QED
  BY <1>2, <1>3, <1>4, NextCommandIs, CommandStep DEF WaitFails

LEMMA CommandTimesOutKeeps == ASSUME IInv, CommandTimesOut PROVE IInv'
<1>1. /\ poll.at \in Executing \ {"launch"} /\ poll.at \in Engaged
      /\ UNCHANGED <<intents, forge_vars, todo, edits>>
  BY DEF CommandTimesOut, Executing, Engaged
<1>2. /\ TypeOK /\ StoreSound /\ Sound(Mine) /\ poll.key \in DOMAIN attempts
      /\ Mine = attempts[poll.key] /\ Mine \in Attempt
      /\ Mine.runs \in Seq(Run) /\ DOMAIN Mine.runs = 1..Len(Mine.runs)
      /\ poll.command \in 1..Len(Mine.runs) /\ MyRun \in Run /\ MyRun.named
      /\ Mine.gate = "none" /\ Len(Mine.runs) \in 0..Commands
      /\ MyRun = Mine.runs[poll.command]
  BY <1>1, AtWork, AtCommand DEF CommandTimesOut, MyRun
<1>3. CASE /\ SetMyRun([MyRun EXCEPT !.status = "interrupted", !.payload = "gone"])
           /\ NextCommand(FALSE) /\ UNCHANGED faults
  <2> DEFINE run == [MyRun EXCEPT !.status = "interrupted", !.payload = "gone"]
  <2>1. run \in Run /\ run.payload # "live"
    BY <1>2 DEF Run
  <2>2. SetMyRun(run)
    BY <1>3
  <2> HIDE DEF run
  <2> QED
    BY <1>1, <1>3, <2>1, <2>2, NextCommandIs, CommandStep
<1>4. ASSUME Fault, NEW is \in {"live", "gone"},
             attempts' = [attempts EXCEPT ![poll.key] = Over(
                 [@ EXCEPT !.runs[poll.command].status = "interrupted",
                           !.runs[poll.command].payload = is], "failed", "failed")],
             poll' = NextCandidate
      PROVE  IInv'
  <2> DEFINE run == [MyRun EXCEPT !.status = "interrupted", !.payload = is]
             rs == [Mine.runs EXCEPT ![poll.command] = run]
             x == [Mine EXCEPT !.runs = rs]
             y == Over(x, "failed", "failed")
  <2>1. run \in Run /\ run.named
    BY <1>2 DEF Run
  <2>2. attempts' = [attempts EXCEPT ![poll.key] = y]
    BY <1>2, <1>4
  <2> HIDE DEF run
  <2>3. /\ rs \in Seq(Run) /\ Len(rs) = Len(Mine.runs) /\ DOMAIN rs = 1..Len(Mine.runs)
        /\ \A c \in 1..Len(Mine.runs) :
               rs[c] = IF c = poll.command THEN run ELSE Mine.runs[c]
    BY <1>2, <2>1, ExceptSeq
  <2> HIDE DEF rs
  <2>4. /\ x \in Attempt /\ x.rev = Mine.rev /\ x.gate = Mine.gate /\ x.stage = Mine.stage
        /\ x.runs = rs
    BY <1>2, <2>3 DEF Attempt
  <2> HIDE DEF x
  <2>5. Sound(x)
    BY <1>2, <2>1, <2>3, <2>4 DEF Sound
  <2>6. /\ y \in Attempt /\ Sound(y) /\ y.rev = Mine.rev /\ y.gate = Mine.gate
        /\ y.stage = IF Mine.stage = "running" THEN "failed" ELSE Mine.stage
    BY <2>4, <2>5, OverIs
  <2> HIDE DEF y
  <2>7. AttemptsStay /\ StoreSound'
    BY <1>1, <1>2, <2>2, <2>6, OneChanges
  <2>8. poll' \in Poll /\ PollSound'
    BY <1>2, <1>4, IdleType, Away
  <2> QED
    BY <1>1, <1>2, <1>4, <2>7, <2>8, StoreStep DEF TypeOK
<1> QED
  BY <1>3, <1>4 DEF CommandTimesOut

\* A poll that has run its commands goes on with its attempt as it is.
LEMMA GoesOn ==
    ASSUME IInv, poll.at \in Engaged \ {"inputs"}, UNCHANGED <<store_vars, todo>>,
           poll'.at \in Judging \cup Looks \cup Publishing,
           poll'.at \in Publishing \cup {"before_publication"} =>
               poll.at \in Publishing \cup {"before_publication"},
           poll.at \in Publishing \cup {"before_publication"} =>
               poll'.at \in Publishing \cup {"before_publication"},
           poll'.key = poll.key, poll'.rev = poll.rev
    PROVE  AttemptsStay /\ StoreSound' /\ PollSound'
<1>1. /\ TypeOK /\ StoreSound /\ poll.key = Len(attempts) /\ poll.key > 0
      /\ Mine.rev = poll.rev /\ poll.rev \notin todo /\ Mine.status = "running"
  BY AtWork DEF IInv, PollSound, PollOwns
<1>2. AttemptsStay /\ StoreSound' /\ attempts' = attempts
  BY <1>1, NoneChanges DEF store_vars
<1>3. PollOwns'
  BY <1>1, <1>2 DEF PollOwns, Mine, Stopping, Judging, Looks, Publishing
<1>4. RunsFollow' /\ ClaimIsFresh'
  BY DEF RunsFollow, ClaimIsFresh, Executing, Judging, Looks, Publishing
<1>5. GatesFollow'
  <2>1. CASE poll.at \in Publishing \cup {"before_publication"}
    BY <1>2, <2>1 DEF GatesFollow, IInv, PollSound, Mine, Ungated, Executing, Judging, Publishing
  <2>2. CASE poll.at \notin Publishing \cup {"before_publication"}
    <3>1. poll.at \in Ungated
      BY <2>2 DEF Engaged, Ungated, Looks
    <3> QED
      BY <1>2, <2>2, <3>1 DEF GatesFollow, IInv, PollSound, Mine
  <2> QED
    BY <2>1, <2>2
<1> QED
  BY <1>2, <1>3, <1>4, <1>5 DEF PollSound

LEMMA CheckWorkspaceKeeps == ASSUME IInv, CheckWorkspace PROVE IInv'
<1>1. /\ TypeOK /\ poll \in Poll /\ poll.at = "launch" /\ poll.at \in Engaged
      /\ poll.at \notin Publishing
  BY PollType DEF IInv, CheckWorkspace, Engaged, Executing, Publishing
<1>2. CASE Goto("after_commands") /\ UNCHANGED store_vars
  <2>1. /\ poll' \in Poll /\ poll'.at = "after_commands" /\ poll'.key = poll.key
        /\ poll'.rev = poll.rev
    BY <1>1, <1>2 DEF Poll, Looks
  <2>2. AttemptsStay /\ StoreSound' /\ PollSound'
    BY <1>1, <1>2, <2>1, GoesOn DEF CheckWorkspace, Looks, Publishing
  <2> QED
    BY <1>1, <1>2, <2>1, <2>2, StoreStep DEF CheckWorkspace, store_vars, TypeOK
<1>3. CASE Blocked
  BY <1>1, <1>3, EndAttemptKeeps DEF CheckWorkspace
<1> QED
  BY <1>2, <1>3 DEF CheckWorkspace

----------------------------------------------------------------------------
(* The verifier and the gate *)

\* The attempt a poll is at changes while it is judged or published.
LEMMA AttemptStep ==
    ASSUME IInv, poll.at \in Engaged \ {"inputs"}, poll'.at \in Judging \cup Looks \cup Publishing,
           NEW x \in Attempt, attempts' = [attempts EXCEPT ![poll.key] = x], Sound(x),
           x.rev = Mine.rev, x.status = "running", Mine.gate # "none" => x.gate # "none",
           (poll'.at \in Publishing \cup {"before_publication"}) <=> (x.gate # "none"),
           poll' \in Poll, poll'.key = poll.key, poll'.rev = poll.rev,
           UNCHANGED <<intents, forge_vars, todo, edits>>, Fault \/ UNCHANGED faults
    PROVE  IInv'
<1>1. /\ TypeOK /\ StoreSound /\ poll.key = Len(attempts) /\ poll.key > 0
      /\ Mine.rev = poll.rev /\ poll.rev \notin todo
      /\ poll.key \in DOMAIN attempts /\ Mine = attempts[poll.key]
  BY AtWork DEF IInv, PollSound, PollOwns
<1>2. AttemptsStay /\ StoreSound' /\ Len(attempts') = Len(attempts) /\ attempts'[poll.key] = x
  BY <1>1, OneChanges
<1>3. PollOwns'
  BY <1>1, <1>2 DEF PollOwns, Mine, Stopping, Judging, Looks, Publishing
<1>4. RunsFollow' /\ ClaimIsFresh'
  BY DEF RunsFollow, ClaimIsFresh, Executing, Judging, Looks, Publishing
<1>5. poll'.at \in Ungated => poll'.at \notin Publishing \cup {"before_publication"}
  BY DEF Ungated, Executing, Judging, Publishing
<1>6. GatesFollow'
  BY <1>2, <1>5 DEF GatesFollow, Mine
<1> QED
  BY <1>1, <1>2, <1>3, <1>4, <1>6, StoreStep DEF PollSound, TypeOK

LEMMA LookAtRevisionKeeps == ASSUME IInv, LookAtRevision PROVE IInv'
<1>1. TypeOK /\ poll \in Poll /\ poll.at \in Looks /\ poll.at \in Engaged \ {"inputs"}
  BY PollType DEF IInv, LookAtRevision, Engaged, Looks
<1>2. CASE Goto(Following[poll.at]) /\ UNCHANGED store_vars
  <2>1. /\ Following["after_commands"] = "evidence" /\ Following["after_verifier"] = "gate"
        /\ Following["before_publication"] = "intent"
    BY DEF Following, Looks
  <2>2. /\ poll' \in Poll /\ poll'.at = Following[poll.at] /\ poll'.key = poll.key
        /\ poll'.rev = poll.rev
    BY <1>1, <1>2, <2>1 DEF Poll, Looks, Judging, Publishing
  <2>3. /\ poll'.at \in Judging \cup Looks \cup Publishing
        /\ (poll'.at \in Publishing \cup {"before_publication"}) <=>
               (poll.at \in Publishing \cup {"before_publication"})
    BY <1>1, <2>1, <2>2 DEF Looks, Judging, Publishing
  <2>4. AttemptsStay /\ StoreSound' /\ PollSound'
    BY <1>1, <1>2, <2>2, <2>3, GoesOn DEF LookAtRevision
  <2> QED
    BY <1>1, <1>2, <2>2, <2>4, StoreStep DEF LookAtRevision, store_vars, TypeOK
<1>3. CASE Supersede
  BY <1>1, <1>3, EndAttemptKeeps DEF LookAtRevision
<1> QED
  BY <1>2, <1>3 DEF LookAtRevision

LEMMA CollectEvidenceKeeps == ASSUME IInv, CollectEvidence PROVE IInv'
<1>1. /\ TypeOK /\ poll \in Poll /\ poll.at = "evidence" /\ poll.at \in Engaged \ {"inputs"}
      /\ poll.at \notin Publishing
  BY PollType DEF IInv, CollectEvidence, Engaged, Judging, Publishing
<1>2. CASE Goto("verify") /\ UNCHANGED store_vars
  <2>1. /\ poll' \in Poll /\ poll'.at = "verify" /\ poll'.key = poll.key
        /\ poll'.rev = poll.rev
    BY <1>1, <1>2 DEF Poll, Judging
  <2>2. AttemptsStay /\ StoreSound' /\ PollSound'
    BY <1>1, <1>2, <2>1, GoesOn DEF CollectEvidence, Judging, Publishing
  <2> QED
    BY <1>1, <1>2, <2>1, <2>2, StoreStep DEF CollectEvidence, store_vars, TypeOK
<1>3. CASE Blocked
  BY <1>1, <1>3, EndAttemptKeeps DEF CollectEvidence
<1> QED
  BY <1>2, <1>3 DEF CollectEvidence

LEMMA SpawnVerifierKeeps == ASSUME IInv, SpawnVerifier PROVE IInv'
<1>1. /\ TypeOK /\ poll \in Poll /\ poll.at = "verify" /\ poll.at \in Engaged \ {"inputs"}
      /\ poll.key \in DOMAIN attempts /\ Mine = attempts[poll.key] /\ Mine \in Attempt
      /\ Sound(Mine) /\ Mine.gate = "none" /\ Mine.status = "running"
  BY AtWork, PollType
     DEF SpawnVerifier, Engaged, Judging, IInv, PollSound, GatesFollow, Ungated
<1> DEFINE v == IF Mine.verifier = "none" THEN "unnamed" ELSE "misnamed"
           x == [Mine EXCEPT !.verifier = v]
<1>2. /\ x \in Attempt /\ x.rev = Mine.rev /\ x.gate = Mine.gate
      /\ x.status = Mine.status /\ x.runs = Mine.runs
  BY <1>1 DEF Attempt, Verifier
<1>3. attempts' = [attempts EXCEPT ![poll.key] = x]
  BY <1>1 DEF SpawnVerifier
<1> HIDE DEF x
<1>4. Sound(x)
  BY <1>1, <1>2 DEF Sound
<1>5. /\ poll' \in Poll /\ poll'.at = "identify" /\ poll'.key = poll.key
      /\ poll'.rev = poll.rev
  BY <1>1 DEF SpawnVerifier, Poll, Judging
<1>6. /\ poll'.at \in Judging \cup Looks \cup Publishing
      /\ poll'.at \notin Publishing \cup {"before_publication"}
  BY <1>5 DEF Judging, Publishing
<1> QED
  BY <1>1, <1>2, <1>3, <1>4, <1>5, <1>6, AttemptStep DEF SpawnVerifier

LEMMA RecordVerifierKeeps == ASSUME IInv, RecordVerifier PROVE IInv'
<1>1. /\ TypeOK /\ poll \in Poll /\ poll.at = "identify" /\ poll.at \in Engaged \ {"inputs"}
      /\ poll.key \in DOMAIN attempts /\ Mine = attempts[poll.key] /\ Mine \in Attempt
      /\ Sound(Mine) /\ Mine.gate = "none" /\ Mine.status = "running"
  BY AtWork, PollType
     DEF RecordVerifier, Engaged, Judging, IInv, PollSound, GatesFollow, Ungated
<1> DEFINE v == IF Mine.verifier \in {"unnamed", "misnamed"} THEN "live" ELSE "gone"
           x == [Mine EXCEPT !.verifier = v]
<1>2. /\ x \in Attempt /\ x.rev = Mine.rev /\ x.gate = Mine.gate
      /\ x.status = Mine.status /\ x.runs = Mine.runs
  BY <1>1 DEF Attempt, Verifier
<1>3. attempts' = [attempts EXCEPT ![poll.key] = x]
  BY <1>1 DEF RecordVerifier
<1> HIDE DEF x
<1>4. Sound(x)
  BY <1>1, <1>2 DEF Sound
<1>5. /\ poll' \in Poll /\ poll'.at = "verifying" /\ poll'.key = poll.key
      /\ poll'.rev = poll.rev
  BY <1>1 DEF RecordVerifier, Poll, Judging
<1>6. /\ poll'.at \in Judging \cup Looks \cup Publishing
      /\ poll'.at \notin Publishing \cup {"before_publication"}
  BY <1>5 DEF Judging, Publishing
<1> QED
  BY <1>1, <1>2, <1>3, <1>4, <1>5, <1>6, AttemptStep DEF RecordVerifier

LEMMA VerifierReturnsKeeps == ASSUME IInv, VerifierReturns PROVE IInv'
<1>1. /\ TypeOK /\ poll \in Poll /\ poll.at = "verifying" /\ poll.at \in Engaged \ {"inputs"}
      /\ poll.at \notin Publishing
  BY PollType DEF IInv, VerifierReturns, Engaged, Judging, Publishing
<1>2. ASSUME UNCHANGED store_vars, poll' \in Poll, poll'.at \in {"verify", "after_verifier"},
             poll'.key = poll.key, poll'.rev = poll.rev
      PROVE  IInv'
  <2>1. AttemptsStay /\ StoreSound' /\ PollSound'
    BY <1>1, <1>2, GoesOn DEF VerifierReturns, Judging, Looks, Publishing
  <2> QED
    BY <1>1, <1>2, <2>1, StoreStep DEF VerifierReturns, store_vars, TypeOK
<1>3. ASSUME UNCHANGED store_vars, NEW proven \in BOOLEAN,
             poll' = [poll EXCEPT !.at = "after_verifier", !.proven = proven]
      PROVE  IInv'
  <2>1. /\ poll' \in Poll /\ poll'.at = "after_verifier" /\ poll'.key = poll.key
        /\ poll'.rev = poll.rev
    BY <1>1, <1>3 DEF Poll, Looks
  <2> QED
    BY <1>2, <1>3, <2>1
<1>4. CASE /\ AskedAgain /\ UNCHANGED store_vars
           /\ poll' = [poll EXCEPT !.at = "verify", !.turn = @ + 1]
  <2>1. poll.turn + 1 \in 0..MaxReprompts
    <3>1. poll.turn \in 0..MaxReprompts
      BY <1>1 DEF Poll
    <3> QED
      BY <1>4, <3>1 DEF AskedAgain
  <2>2. poll' \in Poll
    BY <1>1, <1>4, <2>1, Zenon DEF Poll, Judging
  <2>3. poll'.at = "verify" /\ poll'.key = poll.key /\ poll'.rev = poll.rev
    BY <1>1, <1>4 DEF Poll
  <2> QED
    BY <1>2, <1>4, <2>2, <2>3
<1>5. CASE Blocked
  BY <1>1, <1>5, EndAttemptKeeps DEF VerifierReturns
<1> QED
  BY <1>3, <1>4, <1>5 DEF VerifierReturns

LEMMA StoreGateKeeps == ASSUME IInv, StoreGate PROVE IInv'
<1>1. /\ TypeOK /\ poll \in Poll /\ poll.at = "gate" /\ poll.at \in Engaged \ {"inputs"}
      /\ poll.key \in DOMAIN attempts /\ Mine = attempts[poll.key] /\ Mine \in Attempt
      /\ Sound(Mine) /\ Mine.gate = "none" /\ Mine.status = "running"
  BY AtWork, PollType
     DEF StoreGate, Engaged, Judging, IInv, PollSound, GatesFollow, Ungated
<1> DEFINE g == IF Passes(poll.key) THEN "passed" ELSE "failed"
           x == [Mine EXCEPT !.gate = g]
<1>2. /\ x \in Attempt /\ x.rev = Mine.rev /\ x.gate = g
      /\ x.status = Mine.status /\ x.runs = Mine.runs
  BY <1>1 DEF Attempt
<1>3. attempts' = [attempts EXCEPT ![poll.key] = x]
  BY <1>1 DEF StoreGate
<1> HIDE DEF x
<1>4. Sound(x)
  BY <1>1, <1>2 DEF Sound, Passes
<1>5. /\ poll' \in Poll /\ poll'.at = "before_publication" /\ poll'.key = poll.key
      /\ poll'.rev = poll.rev
  BY <1>1 DEF StoreGate, Poll, Looks
<1>6. poll'.at \in Judging \cup Looks \cup Publishing /\ x.gate # "none"
  BY <1>2, <1>5 DEF Looks
<1> QED
  BY <1>1, <1>2, <1>3, <1>4, <1>5, <1>6, AttemptStep DEF StoreGate

----------------------------------------------------------------------------
(* Publishing the verdict *)

\* What a poll that is publishing keeps while it leaves the attempts alone.
LEMMA PublishesOn ==
    ASSUME IInv, poll.at \in Publishing, poll'.at \in Publishing,
           UNCHANGED <<attempts, todo, edits, faults>>,
           poll' = [poll EXCEPT !.at = poll'.at],
           (intents \in Seq(Intent))',
           comments' = comments \/ ShowVerdict,
           UNCHANGED <<pull, reviewed, column>>
    PROVE  IInv'
<1>1. poll.at \in Engaged \ {"inputs"} /\ ~At("inputs")
  BY DEF Engaged, Publishing
<1>2. /\ TypeOK /\ StoreSound /\ CommentsSound /\ poll \in Poll
      /\ poll.key > 0 /\ Mine.rev = poll.rev /\ Mine.gate # "none"
      /\ poll.key = Len(attempts) /\ poll.rev \notin todo /\ Mine.status = "running"
  BY <1>1, AtWork, Parts, PollType DEF IInv, PollSound, PollOwns, GatesFollow
<1>3. AttemptsStay /\ StoreSound'
  BY <1>2, NoneChanges
<1>4. poll' \in Poll /\ poll'.key = poll.key /\ poll'.rev = poll.rev
  BY <1>2 DEF Poll
<1>5. (poll \in Poll)'
  BY <1>2, <1>3, <1>4, ShapesStay
<1>6. PollOwns'
  BY <1>2, <1>4 DEF PollOwns, Mine, Stopping, Publishing
<1>7. RunsFollow' /\ ClaimIsFresh'
  BY DEF RunsFollow, ClaimIsFresh, Executing, Publishing
<1>8. GatesFollow'
  BY <1>2, <1>4 DEF GatesFollow, Mine, Ungated, Executing, Judging, Publishing
<1>9. (comments \in Seq(Comment))' /\ CommentsSound'
  BY <1>2, <1>3, CommentsChange
<1>10. TypeOK'
  BY <1>2, <1>3, <1>5, <1>9 DEF TypeOK, AttemptsStay
<1>11. (VerificationSound /\ CandidatesFresh)'
  BY <1>3, <1>9, Parts, PTL
<1> QED
  BY <1>6, <1>7, <1>8, <1>10, <1>11 DEF IInv, PollSound

LEMMA IntendPublicationKeeps == ASSUME IInv, IntendPublication PROVE IInv'
<1> DEFINE i == [attempt |-> poll.key, status |-> "pending"]
<1>1. /\ TypeOK /\ poll.at = "intent" /\ poll.at \in Publishing /\ poll.at \in Engaged
      /\ poll.key \in DOMAIN attempts
  BY AtWork DEF IntendPublication, Publishing, Engaged
<1>2. i \in Intent
  BY <1>1 DEF Intent
<1>3. intents' = intents \/ intents' = Append(intents, i)
  BY DEF IntendPublication
<1> HIDE DEF i
<1>4. intents' \in Seq(Intent)
  <2>1. intents \in Seq(Intent)
    BY <1>1 DEF TypeOK
  <2> QED
    BY <1>2, <1>3, <2>1, AppendIs
<1>5. (intents \in Seq(Intent))'
  BY <1>4 DEF Intent, IntendPublication
<1>6. poll'.at = "find" /\ poll' = [poll EXCEPT !.at = poll'.at]
  BY PollType DEF IInv, IntendPublication, Poll
<1>7. poll'.at \in Publishing
  BY <1>6 DEF Publishing
<1> QED
  BY <1>1, <1>5, <1>6, <1>7, PublishesOn DEF IntendPublication, forge_vars

LEMMA FindCommentKeeps == ASSUME IInv, FindComment PROVE IInv'
<1>1. /\ poll.at \in Publishing /\ poll \in Poll
  BY PollType DEF IInv, FindComment, Publishing
<1>2. poll'.at = "write" /\ poll' = [poll EXCEPT !.at = poll'.at]
  BY <1>1 DEF FindComment, Poll
<1>3. poll'.at \in Publishing
  BY <1>2 DEF Publishing
<1>4. (intents \in Seq(Intent))'
  BY DEF FindComment, store_vars, IInv, TypeOK, Intent
<1> QED
  BY <1>1, <1>2, <1>3, <1>4, PublishesOn DEF FindComment, forge_vars, store_vars

LEMMA WriteCommentKeeps == ASSUME IInv, WriteComment PROVE IInv'
<1>1. /\ poll.at \in Publishing /\ poll \in Poll
  BY PollType DEF IInv, WriteComment, Publishing
<1>2. poll'.at = "apply" /\ poll' = [poll EXCEPT !.at = poll'.at]
  BY <1>1 DEF WriteComment, Poll
<1>3. poll'.at \in Publishing
  BY <1>2 DEF Publishing
<1>4. (intents \in Seq(Intent))'
  BY DEF WriteComment, store_vars, IInv, TypeOK, Intent
<1> QED
  BY <1>1, <1>2, <1>3, <1>4, PublishesOn DEF WriteComment, store_vars

\* Settling an intent, if there is one by that number, keeps the intents in shape.
LEMMA SettleIntentType ==
    ASSUME intents \in Seq(Intent), NEW k
    PROVE  [intents EXCEPT ![k].status = "applied"] \in Seq(Intent)
<1>1. intents \in [1..Len(intents) -> Intent] /\ Len(intents) \in Nat
  BY LenProperties
<1>2. CASE k \in 1..Len(intents)
  <2> DEFINE i == [intents[k] EXCEPT !.status = "applied"]
  <2>1. i \in Intent
    BY <1>1, <1>2 DEF Intent
  <2>2. [intents EXCEPT ![k].status = "applied"] = [intents EXCEPT ![k] = i]
    BY <1>1, <1>2
  <2> HIDE DEF i
  <2> QED
    BY <1>2, <2>1, <2>2, ExceptSeq
<1>3. CASE k \notin 1..Len(intents)
  <2>1. [intents EXCEPT ![k].status = "applied"] = intents
    BY <1>1, <1>3
  <2> QED
    BY <2>1
<1> QED
  BY <1>2, <1>3

LEMMA ApplyIntentKeeps == ASSUME IInv, ApplyIntent PROVE IInv'
<1>1. /\ poll.at \in Publishing /\ poll \in Poll
  BY PollType DEF IInv, ApplyIntent, Publishing
<1>2. poll'.at = "complete" /\ poll' = [poll EXCEPT !.at = poll'.at]
  BY <1>1 DEF ApplyIntent, Poll
<1>3. poll'.at \in Publishing
  BY <1>2 DEF Publishing
<1>4. intents' \in Seq(Intent)
  BY SettleIntentType DEF ApplyIntent, IInv, TypeOK
<1>5. (intents \in Seq(Intent))'
  BY <1>4 DEF Intent, ApplyIntent
<1> QED
  BY <1>1, <1>2, <1>3, <1>5, PublishesOn DEF ApplyIntent, forge_vars

LEMMA CompleteStageKeeps == ASSUME IInv, CompleteStage PROVE IInv'
<1>1. /\ TypeOK /\ poll \in Poll /\ poll.at = "complete" /\ poll.at \in Engaged \ {"inputs"}
      /\ poll.key \in DOMAIN attempts /\ Mine = attempts[poll.key] /\ Mine \in Attempt
      /\ Sound(Mine) /\ Mine.gate # "none" /\ Mine.status = "running"
  BY AtWork, PollType
     DEF CompleteStage, Engaged, Publishing, IInv, PollSound, GatesFollow
<1> DEFINE x == [Mine EXCEPT !.stage = "completed"]
<1>2. /\ x \in Attempt /\ x.rev = Mine.rev /\ x.gate = Mine.gate
      /\ x.status = Mine.status /\ x.runs = Mine.runs
  BY <1>1 DEF Attempt
<1>3. attempts' = [attempts EXCEPT ![poll.key] = x]
  BY <1>1 DEF CompleteStage
<1> HIDE DEF x
<1>4. Sound(x)
  BY <1>1, <1>2 DEF Sound
<1>5. /\ poll' \in Poll /\ poll'.at = "finish" /\ poll'.key = poll.key
      /\ poll'.rev = poll.rev
  BY <1>1 DEF CompleteStage, Poll, Publishing
<1>6. poll'.at \in Publishing
  BY <1>5 DEF Publishing
<1> QED
  BY <1>1, <1>2, <1>3, <1>4, <1>5, <1>6, AttemptStep DEF CompleteStage

LEMMA CompleteAttemptKeeps == ASSUME IInv, CompleteAttempt PROVE IInv'
<1>1. poll.at \in Engaged /\ UNCHANGED <<forge_vars, todo, faults, edits>>
  BY DEF CompleteAttempt, Engaged, Publishing
<1>2. AttemptsStay /\ StoreSound' /\ poll' \in Poll /\ PollSound'
  BY <1>1, EndAttemptIs DEF CompleteAttempt
<1> QED
  BY <1>1, <1>2, StoreStep DEF CompleteAttempt, EndAttempt, IInv, TypeOK

----------------------------------------------------------------------------
(* Faults, time and people *)

LEMMA CallFailsKeeps == ASSUME IInv, CallFails PROVE IInv'
<1>1. TypeOK /\ StoreSound /\ poll \in Poll
  BY Parts, PollType DEF IInv
<1>2. CASE At("intake") /\ poll' = Idle /\ UNCHANGED <<store_vars, todo>>
  <2>1. AttemptsStay /\ StoreSound' /\ poll' \in Poll /\ PollSound'
    BY <1>1, <1>2, NoneChanges, IdleType, Away DEF store_vars
  <2> QED
    BY <1>1, <1>2, <2>1, StoreStep DEF CallFails, store_vars, TypeOK
<1>3. CASE /\ At("candidate") /\ UNCHANGED <<store_vars, poll>>
           /\ \E r \in todo : todo' = todo \ {r}
  <2>1. AttemptsStay /\ StoreSound' /\ poll' \in Poll /\ PollSound' /\ todo' \subseteq Revisions
    BY <1>1, <1>3, NoneChanges, Away DEF store_vars, TypeOK
  <2> QED
    BY <1>1, <1>3, <2>1, StoreStep DEF CallFails, store_vars
<1>4. CASE poll.at \in {"workspace", "find", "write"} \cup Looks /\ Fails /\ UNCHANGED todo
  BY <1>4, EndAttemptKeeps DEF CallFails, Engaged, Publishing
<1> QED
  BY <1>2, <1>3, <1>4 DEF CallFails

LEMMA AnswerLostKeeps == ASSUME IInv, AnswerLost PROVE IInv'
<1>1. poll.at \in Publishing /\ poll.at \in Engaged /\ ~At("inputs")
  BY DEF AnswerLost, Engaged, Publishing
<1>2. TypeOK /\ CommentsSound /\ poll.key > 0 /\ Mine.gate # "none" /\ Mine.rev = poll.rev
  BY <1>1, AtWork, Parts DEF IInv, PollSound, PollOwns, GatesFollow
<1>3. AttemptsStay /\ StoreSound' /\ poll' \in Poll /\ PollSound'
  BY <1>1, EndAttemptIs DEF AnswerLost, Fails
<1>4. (comments \in Seq(Comment))' /\ CommentsSound'
  BY <1>2, <1>3, CommentsChange DEF AnswerLost
<1>5. (intents \in Seq(Intent))' /\ (poll \in Poll)' /\ faults' \in 0..MaxFaults
  BY <1>2, <1>3, ShapesStay, FaultType DEF AnswerLost, Fails, EndAttempt
<1>6. TypeOK'
  BY <1>2, <1>3, <1>4, <1>5 DEF TypeOK, AttemptsStay, AnswerLost
<1>7. (VerificationSound /\ CandidatesFresh)'
  BY <1>3, <1>4, Parts, PTL
<1> QED
  BY <1>3, <1>6, <1>7 DEF IInv

LEMMA CrashKeeps == ASSUME IInv, Crash PROVE IInv'
<1> DEFINE rs(a) == [c \in DOMAIN attempts[a].runs |-> Dropped(attempts[a].runs[c])]
           x(a) == [attempts[a] EXCEPT !.runs = rs(a)]
           n == Len(attempts)
<1>1. /\ TypeOK /\ StoreSound /\ attempts \in Seq(Attempt) /\ n \in Nat
      /\ DOMAIN attempts = 1..n
  BY Parts, LenProperties DEF IInv, TypeOK
<1>2. ASSUME NEW a \in 1..n
      PROVE  /\ x(a) \in Attempt /\ Sound(x(a)) /\ x(a).rev = attempts[a].rev
             /\ x(a).gate = attempts[a].gate /\ x(a).stage = attempts[a].stage
             /\ x(a).status = attempts[a].status
  <2> DEFINE m == Len(attempts[a].runs)
  <2>1. /\ attempts[a] \in Attempt /\ m \in 0..Commands /\ m \in Nat
        /\ DOMAIN attempts[a].runs = 1..m /\ \A c \in 1..m : attempts[a].runs[c] \in Run
        /\ Sound(attempts[a])
    BY <1>1, AttemptType, AttemptsSound
  <2>2. \A r \in Run : /\ Dropped(r) \in Run /\ Dropped(r).named = r.named
                       /\ Dropped(r).status = r.status
                       /\ Dropped(r).payload = "live" => r.payload = "live"
    BY DEF Run, Dropped
  <2>3. rs(a) \in [1..m -> Run] /\ \A c \in 1..m : rs(a)[c] = Dropped(attempts[a].runs[c])
    BY <2>1, <2>2
  <2>4. rs(a) \in Seq(Run) /\ Len(rs(a)) = m /\ DOMAIN rs(a) = 1..m
    BY <2>1, <2>3
  <2> HIDE DEF rs
  <2>5. /\ x(a) \in Attempt /\ x(a).rev = attempts[a].rev /\ x(a).gate = attempts[a].gate
        /\ x(a).stage = attempts[a].stage /\ x(a).status = attempts[a].status
        /\ x(a).runs = rs(a)
    BY <2>1, <2>4 DEF Attempt
  <2> HIDE DEF x
  <2>6. Sound(x(a))
    <3>1. \A c \in 1..m : /\ attempts[a].runs[c] \in Run
                          /\ rs(a)[c].named = attempts[a].runs[c].named
                          /\ rs(a)[c].status = attempts[a].runs[c].status
                          /\ rs(a)[c].payload = "live" => attempts[a].runs[c].payload = "live"
      BY <2>1, <2>2, <2>3
    <3>2. \A c \in 1..m : rs(a)[c].payload = "live" => rs(a)[c].named
      BY <2>1, <3>1 DEF Sound
    <3>3. attempts[a].status = "running" /\ attempts[a].gate = "passed" =>
              m = Commands /\ \A c \in 1..Commands : rs(a)[c].status = "completed"
      BY <2>1, <3>1 DEF Sound
    <3> QED
      BY <2>1, <2>4, <2>5, <3>2, <3>3 DEF Sound
  <2> QED
    BY <2>5, <2>6
<1>3. attempts' = [a \in 1..n |-> x(a)]
  <2>1. attempts' = [a \in DOMAIN attempts |-> x(a)]
    BY DEF Crash
  <2> QED
    BY <1>1, <2>1
<1> HIDE DEF x
<1>4. /\ attempts' \in Seq(Attempt) /\ Len(attempts') = n /\ DOMAIN attempts' = 1..n
      /\ \A a \in 1..n : attempts'[a] = x(a)
  <2>1. attempts' \in [1..n -> Attempt]
    BY <1>2, <1>3
  <2> QED
    BY <1>1, <1>3, <2>1
<1>5. AttemptsStay
  BY <1>1, <1>2, <1>4 DEF AttemptsStay, Sound
<1>6. StoreSound'
  <2>1. BarrierHolds' /\ GreenIsComplete'
    BY <1>2, <1>4 DEF BarrierHolds, GreenIsComplete, Running, Sound
  <2>2. OneVerdict'
    BY <1>1, <1>2, <1>4 DEF OneVerdict, StoreSound
  <2>3. CandidatesFresh'
    BY DEF CandidatesFresh, Crash
  <2> QED
    BY <2>1, <2>2, <2>3 DEF StoreSound
<1>7. poll' \in Poll /\ PollSound'
  BY <1>1, IdleType, Away DEF Crash
<1> QED
  BY <1>5, <1>6, <1>7, StoreStep DEF Crash

\* What is alive of an attempt ends: an attempt that is not over keeps the rest.
LEMMA WorkEndsKeeps == ASSUME IInv, WorkEnds PROVE IInv'
<1>1. TypeOK /\ StoreSound /\ poll \in Poll /\ UNCHANGED <<poll, todo>>
  BY Parts, PollType DEF IInv, WorkEnds, poll_vars
<1>2. ASSUME NEW a \in DOMAIN attempts, NEW y \in Attempt, Sound(y),
             y.rev = attempts[a].rev, y.gate = attempts[a].gate,
             y.stage = attempts[a].stage, y.status = attempts[a].status,
             Len(y.runs) = Len(attempts[a].runs),
             \A c \in 1..Len(y.runs) : y.runs[c].named = attempts[a].runs[c].named,
             attempts' = [attempts EXCEPT ![a] = Settled(y)]
      PROVE  IInv'
  <2> DEFINE z == [y EXCEPT !.runs = <<>>, !.verifier = "none"]
             x == Settled(y)
  <2>1. <<>> \in Seq(Run) /\ Len(<<>>) = 0 /\ DOMAIN <<>> = {}
    BY EmptySeq
  <2>2. /\ z \in Attempt /\ z.rev = y.rev /\ z.gate = y.gate /\ z.runs = <<>>
        /\ z.stage = y.stage /\ z.status = y.status
    BY <1>2, <2>1 DEF Attempt, Verifier
  <2>3. (x = y \/ x = z) /\ (y.status \in {"none", "running"} => x = y)
    BY DEF Settled
  <2> HIDE DEF x, z
  <2>4. Sound(z) \/ x = y
    BY <2>1, <2>2, <2>3 DEF Sound
  <2>5. /\ x \in Attempt /\ Sound(x) /\ x.rev = attempts[a].rev /\ x.gate = attempts[a].gate
        /\ x.stage = attempts[a].stage /\ x.status = attempts[a].status
        /\ attempts' = [attempts EXCEPT ![a] = x]
    BY <1>2, <2>2, <2>3, <2>4 DEF x
  <2>6. AttemptsStay /\ StoreSound' /\ Len(attempts') = Len(attempts)
    BY <1>1, <2>5, OneChanges
  <2>7. \A b \in DOMAIN attempts : attempts'[b] = IF b = a THEN x ELSE attempts[b]
    BY <2>5
  <2>8. ASSUME poll.at \in Engaged \cup Stopping PROVE PollSound'
    <3>1. /\ poll.key \in DOMAIN attempts /\ Mine.status \in {"none", "running"}
          /\ Mine = attempts[poll.key] /\ Len(Mine.runs) \in Nat
          /\ Mine.runs \in Seq(Run)
      BY <2>8, AtWork
    <3>2. /\ Mine'.rev = Mine.rev /\ Mine'.gate = Mine.gate /\ Mine'.status = Mine.status
          /\ Len(Mine'.runs) = Len(Mine.runs)
          /\ \A c \in 1..Len(Mine.runs) : Mine'.runs[c].named = Mine.runs[c].named
          /\ Mine'.runs \in Seq(Run)
      <4>1. Mine' = IF poll.key = a THEN x ELSE Mine
        BY <1>1, <2>7, <3>1 DEF Mine
      <4>2. x.runs \in Seq(Run)
        BY <2>5 DEF Attempt
      <4>3. CASE poll.key = a
        <5>1. x = y
          BY <1>2, <2>3, <3>1, <4>3
        <5> QED
          BY <1>2, <3>1, <4>1, <4>2, <4>3, <5>1
      <4>4. CASE poll.key # a
        BY <3>1, <4>1, <4>4
      <4> QED
        BY <4>3, <4>4
    <3>3. PollOwns'
      BY <1>1, <2>6, <3>2 DEF IInv, PollSound, PollOwns
    <3>4. RunsFollow'
      <4>1. Mine.runs = <<>> => Mine'.runs = <<>>
        BY <3>1, <3>2, EmptySeq
      <4>2. At("release") => MyRun'.named
        <5>1. ASSUME At("release") PROVE MyRun'.named
          <6>1. poll.command \in 1..Len(Mine.runs) /\ MyRun.named
            BY <5>1, AtCommand DEF Executing
          <6> QED
            BY <1>1, <3>2, <6>1 DEF MyRun
        <5> QED
          BY <5>1
      <4> QED
        BY <1>1, <3>2, <4>1, <4>2 DEF IInv, PollSound, RunsFollow
    <3>5. GatesFollow'
      BY <1>1, <3>2 DEF IInv, PollSound, GatesFollow
    <3>6. ClaimIsFresh'
      BY <1>1, <2>8 DEF ClaimIsFresh, Engaged, Stopping, Executing, Judging, Looks, Publishing
    <3> QED
      BY <3>3, <3>4, <3>5, <3>6 DEF PollSound
  <2>9. ASSUME poll.at \notin Engaged \cup Stopping PROVE PollSound'
    <3>1. ClaimIsFresh'
      BY <1>1, <2>5, <2>6, <2>7, AttemptType
         DEF IInv, PollSound, ClaimIsFresh, Fresh, Of, AttemptsStay
    <3> QED
      BY <1>1, <2>9, <3>1
         DEF PollSound, PollOwns, RunsFollow, GatesFollow, Ungated, Engaged, Looks, Executing
  <2> QED
    BY <1>1, <2>6, <2>8, <2>9, StoreStep DEF WorkEnds, TypeOK
<1>3. ASSUME NEW a \in DOMAIN attempts,
             attempts[a].verifier \in {"unnamed", "misnamed", "live"},
             attempts' = [attempts EXCEPT ![a] = Settled([attempts[a] EXCEPT !.verifier =
                                    IF @ = "unnamed" THEN "none" ELSE "gone"])]
      PROVE  IInv'
  <2> DEFINE v == IF attempts[a].verifier = "unnamed" THEN "none" ELSE "gone"
             y == [attempts[a] EXCEPT !.verifier = v]
  <2>1. attempts[a] \in Attempt /\ Sound(attempts[a])
    BY <1>1, AttemptType, AttemptsSound
  <2>2. /\ y \in Attempt /\ y.rev = attempts[a].rev /\ y.gate = attempts[a].gate
        /\ y.stage = attempts[a].stage /\ y.status = attempts[a].status
        /\ y.runs = attempts[a].runs
    BY <2>1 DEF Attempt, Verifier
  <2>3. attempts' = [attempts EXCEPT ![a] = Settled(y)]
    BY <1>3
  <2> HIDE DEF y
  <2>4. Sound(y)
    BY <2>1, <2>2 DEF Sound
  <2> QED
    BY <1>2, <2>2, <2>3, <2>4
<1>4. ASSUME NEW a \in DOMAIN attempts, NEW c \in DOMAIN attempts[a].runs,
             attempts[a].runs[c].payload = "live",
             attempts' = [attempts EXCEPT ![a] = Settled([@ EXCEPT !.runs[c].payload = "gone"])]
      PROVE  IInv'
  <2> DEFINE m == Len(attempts[a].runs)
             run == [attempts[a].runs[c] EXCEPT !.payload = "gone"]
             rs == [attempts[a].runs EXCEPT ![c] = run]
             y == [attempts[a] EXCEPT !.runs = rs]
  <2>1. /\ attempts[a] \in Attempt /\ Sound(attempts[a]) /\ attempts[a].runs \in Seq(Run)
        /\ m \in Nat /\ DOMAIN attempts[a].runs = 1..m /\ c \in 1..m
        /\ attempts[a].runs[c] \in Run
    BY <1>1, AttemptType, AttemptsSound
  <2>2. /\ run \in Run /\ run.payload # "live" /\ run.named = attempts[a].runs[c].named
        /\ run.status = attempts[a].runs[c].status
    BY <2>1 DEF Run
  <2>3. attempts' = [attempts EXCEPT ![a] = Settled(y)]
    BY <1>4
  <2> HIDE DEF run
  <2>4. /\ rs \in Seq(Run) /\ Len(rs) = m /\ DOMAIN rs = 1..m
        /\ \A d \in 1..m : rs[d] = IF d = c THEN run ELSE attempts[a].runs[d]
    BY <2>1, <2>2, ExceptSeq
  <2> HIDE DEF rs
  <2>5. /\ y \in Attempt /\ y.rev = attempts[a].rev /\ y.gate = attempts[a].gate
        /\ y.stage = attempts[a].stage /\ y.status = attempts[a].status
        /\ y.runs = rs
    BY <2>1, <2>4 DEF Attempt
  <2> HIDE DEF y
  <2>6. Sound(y)
    BY <2>1, <2>2, <2>4, <2>5 DEF Sound
  <2>7. \A d \in 1..Len(y.runs) : y.runs[d].named = attempts[a].runs[d].named
    BY <2>2, <2>4, <2>5
  <2> QED
    BY <1>2, <2>3, <2>4, <2>5, <2>6, <2>7
<1> QED
  BY <1>3, <1>4 DEF WorkEnds

LEMMA LeaseLapsesKeeps == ASSUME IInv, LeaseLapses PROVE IInv'
<1>1. TypeOK /\ StoreSound /\ poll \in Poll /\ UNCHANGED <<poll, todo>> /\ At("idle")
  BY Parts, PollType DEF IInv, LeaseLapses, poll_vars
<1>2. PICK a \in DOMAIN attempts : attempts' = [attempts EXCEPT ![a].stage = "interrupted"]
  BY DEF LeaseLapses
<1> DEFINE x == [attempts[a] EXCEPT !.stage = "interrupted"]
<1>3. attempts[a] \in Attempt /\ Sound(attempts[a])
  BY <1>1, AttemptType, AttemptsSound
<1>4. /\ x \in Attempt /\ x.rev = attempts[a].rev /\ x.gate = attempts[a].gate
      /\ x.stage = "interrupted" /\ x.status = attempts[a].status
      /\ x.runs = attempts[a].runs
  BY <1>3 DEF Attempt
<1>5. attempts' = [attempts EXCEPT ![a] = x]
  BY <1>2
<1> HIDE DEF x
<1>6. Sound(x)
  BY <1>3, <1>4 DEF Sound
<1>7. AttemptsStay /\ StoreSound'
  BY <1>1, <1>4, <1>5, <1>6, OneChanges
<1> QED
  BY <1>1, <1>7, Away, StoreStep DEF LeaseLapses, TypeOK

\* A step of the environment that leaves the store and the poll alone.
LEMMA PollStays ==
    ASSUME IInv, UNCHANGED <<store_vars, comments, poll_vars>>
    PROVE  /\ (VerificationSound /\ CandidatesFresh /\ PollSound)'
           /\ (attempts \in Seq(Attempt))'
           /\ \A a \in DOMAIN attempts' : Len(attempts'[a].runs) <= Commands
           /\ (intents \in Seq(Intent))' /\ (comments \in Seq(Comment))' /\ (poll \in Poll)'
           /\ todo' \subseteq Revisions
<1>1. TypeOK /\ StoreSound /\ CommentsSound /\ AttemptsStay /\ StoreSound'
  BY Parts, NoneChanges DEF IInv, store_vars, poll_vars
<1>2. (comments \in Seq(Comment))' /\ CommentsSound'
  BY <1>1, CommentsChange
<1>3. (intents \in Seq(Intent))' /\ (poll \in Poll)'
  BY <1>1, ShapesStay DEF store_vars, poll_vars, TypeOK
<1>4. (VerificationSound /\ CandidatesFresh)'
  BY <1>1, <1>2, Parts, PTL
<1>5. PollSound'
  BY DEF IInv, store_vars, poll_vars, PollSound, PollOwns, RunsFollow, GatesFollow,
         ClaimIsFresh, Mine, MyRun, Fresh, Of
<1> QED
  BY <1>1, <1>2, <1>3, <1>4, <1>5 DEF AttemptsStay, TypeOK, poll_vars

LEMMA ReviewAppliedKeeps == ASSUME IInv, ReviewApplied PROVE IInv'
<1>1. reviewed' \subseteq Revisions /\ column' = "trigger" /\ UNCHANGED <<pull, faults, edits>>
  BY DEF ReviewApplied, IInv, TypeOK, Live
<1> QED
  BY <1>1, PollStays DEF ReviewApplied, IInv, TypeOK

LEMMA PeopleEditKeeps == ASSUME IInv, PeopleEdit PROVE IInv'
<1>1. /\ pull' \in [rev : Revisions, open : BOOLEAN] /\ column' \in {"trigger", "other"}
      /\ edits' \in 0..MaxEdits /\ UNCHANGED <<reviewed, faults>>
  <2>1. pull \in [rev : Revisions, open : BOOLEAN] /\ column \in {"trigger", "other"}
    BY DEF IInv, TypeOK
  <2>2. edits' \in 0..MaxEdits /\ UNCHANGED <<reviewed, faults>>
    <3>1. edits \in 0..MaxEdits
      BY DEF IInv, TypeOK
    <3> QED
      BY <3>1 DEF PeopleEdit
  <2>3. column' \in {"trigger", "other"}
    BY <2>1 DEF PeopleEdit
  <2>4. pull' \in [rev : Revisions, open : BOOLEAN]
    BY <2>1 DEF PeopleEdit
  <2> QED
    BY <2>2, <2>3, <2>4
<1> QED
  BY <1>1, PollStays DEF PeopleEdit, IInv, TypeOK

----------------------------------------------------------------------------
(* The theorems *)

LEMMA InitHolds == Init => IInv
<1> SUFFICES ASSUME Init PROVE IInv
  OBVIOUS
<1>1. AnyRevision \in Revisions
  BY DEF AnyRevision
<1>2. TypeOK
  <2>1. /\ attempts = <<>> /\ intents = <<>> /\ comments = <<>> /\ Len(<<>>) = 0
        /\ DOMAIN <<>> = {}
    BY EmptySeq DEF Init
  <2>2. /\ attempts \in Seq(Attempt) /\ intents \in Seq(Intent) /\ comments \in Seq(Comment)
        /\ \A a \in DOMAIN attempts : Len(attempts[a].runs) <= Commands
    BY <2>1, EmptySeq
  <2>3. poll \in Poll
    BY <1>1, <2>1 DEF Init, Idle, Poll
  <2>4. pull \in [rev : Revisions, open : BOOLEAN]
    BY <1>1 DEF Init
  <2> QED
    BY <2>2, <2>3, <2>4 DEF Init, TypeOK
<1>3. VerificationSound /\ CandidatesFresh
  BY EmptySeq DEF Init, VerificationSound, BarrierHolds, VerdictsStand, Running, CandidatesFresh
<1>4. PollSound
  BY DEF Init, Idle, PollSound, PollOwns, RunsFollow, GatesFollow, ClaimIsFresh, Engaged,
         Stopping, Ungated, Executing, Judging, Looks, Publishing
<1> QED
  BY <1>2, <1>3, <1>4 DEF IInv

LEMMA NextKeeps == IInv /\ [Next]_vars => IInv'
<1> SUFFICES ASSUME IInv, [Next]_vars PROVE IInv'
  OBVIOUS
<1>1. CASE Recovery
  BY <1>1, PollStartsKeeps, RecoverNextKeeps, StopCommandKeeps, CommandsStoppedKeeps,
     StopVerifierKeeps, InterruptAttemptKeeps DEF Recovery
<1>2. CASE Claiming
  BY <1>2, TakeCandidatesKeeps, LookAtCandidateKeeps, ClaimKeeps, StoreInputsKeeps,
     PrepareWorkspaceKeeps DEF Claiming
<1>3. CASE Execution
  BY <1>3, RecordLaunchKeeps, SkipCommandKeeps, SpawnKeeps, RecordIdentityKeeps, ReleaseKeeps,
     CommandEndsKeeps, RecordCommandKeeps, StartFailsKeeps, WaitFailsKeeps,
     CommandTimesOutKeeps, CheckWorkspaceKeeps DEF Execution
<1>4. CASE Judgement
  BY <1>4, LookAtRevisionKeeps, CollectEvidenceKeeps, SpawnVerifierKeeps, RecordVerifierKeeps,
     VerifierReturnsKeeps, StoreGateKeeps DEF Judgement
<1>5. CASE Publication
  BY <1>5, IntendPublicationKeeps, FindCommentKeeps, WriteCommentKeeps, ApplyIntentKeeps,
     CompleteStageKeeps, CompleteAttemptKeeps DEF Publication
<1>6. CASE Environment
  BY <1>6, CallFailsKeeps, AnswerLostKeeps, CrashKeeps, WorkEndsKeeps, LeaseLapsesKeeps,
     ReviewAppliedKeeps, PeopleEditKeeps DEF Environment
<1>7. CASE UNCHANGED vars
  <2>1. /\ UNCHANGED <<store_vars, comments, poll_vars>>
        /\ UNCHANGED <<pull, reviewed, column, faults, edits>>
    BY <1>7 DEF vars, forge_vars, poll_vars, store_vars
  <2> QED
    BY <2>1, PollStays DEF IInv, TypeOK
<1> QED
  BY <1>1, <1>2, <1>3, <1>4, <1>5, <1>6, <1>7 DEF Next, Symphony

\* What the poll knows holds through every crash, lapse and edit.
THEOREM InvariantHolds == Spec => []IInv
  BY InitHolds, NextKeeps, PTL DEF Spec

\* Every variable keeps its shape.
THEOREM TypeHolds == Spec => []TypeOK
<1>1. IInv => TypeOK
  BY DEF IInv
<1> QED
  BY <1>1, InvariantHolds, PTL

\* Whatever is live is on record, a revision gets one verdict, a green gate stands
\* over commands that all completed, and a head has one comment, which shows the
\* gate of an attempt at that head.
THEOREM VerificationIsSound == Spec => []VerificationSound
<1>1. IInv => VerificationSound
  BY DEF IInv
<1> QED
  BY <1>1, InvariantHolds, PTL
=============================================================================
