-------------------------- MODULE EscalationsProofs --------------------------
(* Safety of Escalations for any number of issues, requests, responders and *)
(* tasks.                                                                   *)
EXTENDS Escalations, SequenceTheorems, TLAPS

\* What the properties rest on: a request that is on its way or registered is
\* unanswered and in no responder's hands; one that a responder is about to
\* answer is unanswered; one whose answer is being recorded has it.
Lifecycle ==
    /\ dispatches \cap pending = {}
    /\ \A q \in dispatches \cup pending :
          /\ channel[q] \in {"open", "closed"}
          /\ \A r \in Responders : ~Holds(r, q)
    /\ \A r \in Responders :
          /\ responders[r].at \in {"sending", "recording"} =>
                responders[r].request \in Requests
          /\ responders[r].at = "sending" =>
                channel[responders[r].request] \in {"open", "closed"}
          /\ responders[r].at = "recording" => Answered(responders[r].request)

IInv ==
    /\ TypeOK
    /\ Lifecycle
    /\ OneAnswerPerRequest
    /\ RepliesAreTrue
    /\ AskersAreReachable
    /\ ResolvedCacheSound

USE EscalationAssumption

----------------------------------------------------------------------------
(* Type correctness *)

\* Dropping senders keeps every channel in a state a channel has.
LEMMA DroppedType ==
    ASSUME TypeOK, NEW S
    PROVE  /\ Dropped(S) \in [Requests -> ChannelStates]
           /\ \A q \in Requests : q \notin S => Dropped(S)[q] = channel[q]
           /\ \A q \in Requests : Dropped(S)[q] \in {channel[q], "dropped"}
           /\ \A q \in Requests : Dropped(S)[q] = "dropped" =>
                 channel[q] \in {"open", "dropped"}
           /\ \A q \in Requests : q \in S => Dropped(S)[q] # "open"
  BY DEF TypeOK, Dropped, ChannelStates

\* The cache remembers a request, forgetting at most the oldest.
LEMMA RememberType ==
    ASSUME TypeOK, NEW q \in Requests, ResolvedCacheSound
    PROVE  /\ Remember(q) \in Seq(Requests)
           /\ Len(Remember(q)) <= CacheCapacity
           /\ \A k, l \in DOMAIN Remember(q) :
                 Remember(q)[k] = Remember(q)[l] => k = l
           /\ RangeOf(Remember(q)) \subseteq RangeOf(resolved) \cup {q}
<1>1. resolved \in Seq(Requests) /\ Len(resolved) <= CacheCapacity
  BY DEF TypeOK, ResolvedCacheSound
<1>2. \A k, l \in 1..Len(resolved) : resolved[k] = resolved[l] => k = l
  BY <1>1 DEF ResolvedCacheSound
<1>3. CASE q \in RangeOf(resolved)
  BY <1>1, <1>2, <1>3 DEF Remember
<1>4. CASE q \notin RangeOf(resolved) /\ Len(resolved) < CacheCapacity
  <2> DEFINE s == Append(resolved, q)
  <2>1. Remember(q) = s
    BY <1>4 DEF Remember
  <2>2. /\ s \in Seq(Requests)
        /\ Len(s) = Len(resolved) + 1
        /\ \A k \in 1..Len(resolved) : s[k] = resolved[k]
        /\ s[Len(resolved) + 1] = q
    BY <1>1
  <2>3. \A k \in 1..Len(resolved) : resolved[k] # q
    BY <1>1, <1>4 DEF RangeOf
  <2> HIDE DEF s
  <2>4. DOMAIN s = 1..(Len(resolved) + 1)
    BY <2>2
  <2>5. \A k, l \in DOMAIN s : s[k] = s[l] => k = l
    BY <1>1, <1>2, <2>2, <2>3, <2>4
  <2>6. RangeOf(s) \subseteq RangeOf(resolved) \cup {q}
    BY <1>1, <2>2, <2>4 DEF RangeOf
  <2> QED
    BY <1>1, <1>4, <2>1, <2>2, <2>5, <2>6
<1>5. CASE q \notin RangeOf(resolved) /\ ~(Len(resolved) < CacheCapacity)
  <2> DEFINE n == Len(resolved)
             s == Append(Tail(resolved), q)
  <2>1. Remember(q) = s
    BY <1>5 DEF Remember
  <2>2. n \in Nat \ {0} /\ resolved # <<>>
    BY <1>1, <1>5
  <2>3. /\ Tail(resolved) \in Seq(Requests)
        /\ Len(Tail(resolved)) = n - 1
        /\ \A k \in 1..(n - 1) : Tail(resolved)[k] = resolved[k + 1]
    BY <1>1, <2>2, HeadTailProperties
  <2>4. /\ s \in Seq(Requests)
        /\ Len(s) = n
        /\ \A k \in 1..(n - 1) : s[k] = resolved[k + 1]
        /\ s[n] = q
    BY <2>2, <2>3
  <2>5. \A k \in 1..n : resolved[k] # q
    BY <1>1, <1>5 DEF RangeOf
  <2>6. n <= CacheCapacity
    BY <1>1
  <2> HIDE DEF s, n
  <2>7. DOMAIN s = 1..n
    BY <2>4
  <2>8. \A k, l \in 1..n : resolved[k] = resolved[l] => k = l
    BY <1>2 DEF n
  <2>9. \A k, l \in DOMAIN s : s[k] = s[l] => k = l
    BY <2>2, <2>4, <2>5, <2>7, <2>8
  <2>10. DOMAIN resolved = 1..n
    BY <1>1 DEF n
  <2>11. RangeOf(s) \subseteq RangeOf(resolved) \cup {q}
    BY <2>2, <2>4, <2>7, <2>10 DEF RangeOf
  <2> QED
    BY <2>1, <2>4, <2>6, <2>9, <2>11
<1> QED
  BY <1>3, <1>4, <1>5

\* A responder's call keeps the shape of one.
LEMMA CallShapes ==
    ASSUME NEW q \in Requests, NEW reply \in Replies
    PROVE  {Idle, Sending(q), Recording(q), Replied(q, reply)} \subseteq Call
  BY DEF Idle, Sending, Recording, Replied, Call

\* A task that stops waiting goes on or ends.
LEMMA StopsWaitingType ==
    ASSUME TypeOK, NEW t \in tasks, Waits(t), StopsWaiting(t)
    PROVE  /\ tasks' \subseteq Task
           /\ results' \subseteq TaskResult
           /\ closings' \subseteq Requests
           /\ t.request \in Requests
           /\ \A u \in tasks' : u \in tasks \/ u.request = NoRequest
<1>1. t \in Task /\ t.request \in Requests
  BY DEF TypeOK, Waits, Task
<1> DEFINE u == [t EXCEPT !.request = NoRequest]
           d == [run |-> t.run, issue |-> t.issue]
<1>2. u \in Task /\ u.request = NoRequest /\ d \in TaskResult
  BY <1>1 DEF Task, TaskResult
<1> HIDE DEF u, d
<1>3. \/ tasks' = (tasks \ {t}) \cup {u} /\ closings' = closings \cup {t.request}
            /\ results' = results
      \/ tasks' = tasks \ {t} /\ results' = results \cup {d} /\ closings' = closings
  BY DEF StopsWaiting, u, d
<1> QED
  BY <1>1, <1>2, <1>3 DEF TypeOK

\* Every step keeps the shape of the state.
LEMMA TypeStep ==
    ASSUME TypeOK, ResolvedCacheSound, Lifecycle, [Next]_vars
    PROVE  TypeOK'
<1> USE DEF worker_vars, queue_vars, registry_vars
<1>1. CASE UNCHANGED vars
  BY <1>1 DEF vars, TypeOK
<1>2. ASSUME NEW i \in Issues, StartAttempt(i)
      PROVE  TypeOK'
  BY <1>2 DEF StartAttempt, TypeOK, Task
<1>3. ASSUME NEW i \in Issues, EndAttempt(i)
      PROVE  TypeOK'
  BY <1>3, DroppedType DEF EndAttempt, CancelForIssue, TypeOK
<1>4. ASSUME NEW d \in results, HandleResult(d)
      PROVE  TypeOK'
  BY <1>4, DroppedType DEF HandleResult, CancelForIssue, TypeOK
<1>5. CASE IngestEvents
  BY <1>5, DroppedType DEF IngestEvents, TypeOK
<1>6. ASSUME NEW q \in dispatches, HandleDispatch(q)
      PROVE  TypeOK'
  BY <1>6 DEF HandleDispatch, TypeOK
<1>7. ASSUME NEW t \in tasks, NEW q \in Requests, Ask(t, q)
      PROVE  TypeOK'
  <2> DEFINE u == [t EXCEPT !.request = q]
  <2>1. t \in Task /\ u \in Task
    BY DEF TypeOK, Task
  <2>2. tasks' = (tasks \ {t}) \cup {u}
    BY <1>7 DEF Ask
  <2>3. t.issue \in Issues
    BY <2>1 DEF Task
  <2> HIDE DEF u
  <2> QED
    BY <1>7, <2>1, <2>2, <2>3 DEF Ask, TypeOK, ChannelStates
<1>8. ASSUME NEW t \in tasks, HearsAnswer(t)
      PROVE  TypeOK'
  BY <1>8, StopsWaitingType DEF HearsAnswer, TypeOK, ChannelStates
<1>9. ASSUME NEW t \in tasks, HearsCancel(t)
      PROVE  TypeOK'
  BY <1>9, StopsWaitingType DEF HearsCancel, TypeOK
<1>10. ASSUME NEW t \in tasks, TimesOut(t)
       PROVE  TypeOK'
  BY <1>10, StopsWaitingType DEF TimesOut, TypeOK, ChannelStates
<1>11. ASSUME NEW t \in tasks, TaskEnds(t)
       PROVE  TypeOK'
  <2>1. [run |-> t.run, issue |-> t.issue] \in TaskResult
    BY DEF TypeOK, Task, TaskResult
  <2> QED
    BY <1>11, <2>1 DEF TaskEnds, TypeOK
<1>12. ASSUME NEW i \in Issues \cup {NoIssue}, NEW q \in Requests, SupervisorAsks(i, q)
       PROVE  TypeOK'
  BY <1>12 DEF SupervisorAsks, TypeOK, ChannelStates
<1>13. ASSUME NEW r \in Responders, NEW q \in Requests, Take(r, q)
       PROVE  TypeOK'
  <2>1. \E c \in Call : responders' = [responders EXCEPT ![r] = c]
    BY <1>13, CallShapes DEF Take, Replies
  <2> QED
    BY <1>13, <2>1 DEF Take, TypeOK
<1>14. ASSUME NEW r \in Responders, Send(r)
       PROVE  TypeOK'
  <2> DEFINE q == responders[r].request
  <2>1. q \in Requests
    BY <1>14 DEF Send, Lifecycle
  <2>2. \E c \in Call : responders' = [responders EXCEPT ![r] = c]
    BY <1>14, <2>1, CallShapes DEF Send, Replies
  <2> QED
    BY <1>14, <2>1, <2>2 DEF Send, TypeOK, ChannelStates
<1>15. ASSUME NEW r \in Responders, Record(r)
       PROVE  TypeOK'
  <2>1. responders[r].request \in Requests
    BY <1>15 DEF Record, Lifecycle
  <2>2. \E c \in Call : responders' = [responders EXCEPT ![r] = c]
    BY <1>15, <2>1, CallShapes DEF Record, Replies
  <2> QED
    BY <1>15, <2>1, <2>2, RememberType DEF Record, TypeOK
<1> QED
  BY <1>1, <1>2, <1>3, <1>4, <1>5, <1>6, <1>7, <1>8, <1>9, <1>10, <1>11,
     <1>12, <1>13, <1>14, <1>15
     DEF Next, OrchestratorStep, AskerStep, ResponderStep, WaitEnds


----------------------------------------------------------------------------
(* The safety invariants *)

\* Lifecycle is kept.
LEMMA LifecycleStep ==
    ASSUME IInv, [Next]_vars
    PROVE  Lifecycle'
<1> USE DEF worker_vars, queue_vars, registry_vars, IInv
<1>1. CASE UNCHANGED vars
  BY <1>1 DEF vars, Lifecycle, Holds, Answered
<1>2. ASSUME NEW i \in Issues, StartAttempt(i)
      PROVE  Lifecycle'
  BY <1>2 DEF StartAttempt, Lifecycle, Holds, Answered
<1>3. ASSUME NEW i \in Issues, EndAttempt(i)
      PROVE  Lifecycle'
  BY <1>3, DroppedType DEF EndAttempt, CancelForIssue, Lifecycle, TypeOK,
                           Holds, Answered
<1>4. ASSUME NEW d \in results, HandleResult(d)
      PROVE  Lifecycle'
  BY <1>4, DroppedType DEF HandleResult, CancelForIssue, Lifecycle, TypeOK,
                           Holds, Answered
<1>5. CASE IngestEvents
  BY <1>5, DroppedType DEF IngestEvents, Lifecycle, TypeOK, Holds, Answered
<1>6. ASSUME NEW q \in dispatches, HandleDispatch(q)
      PROVE  Lifecycle'
  BY <1>6 DEF HandleDispatch, Lifecycle, Holds, Answered
<1>7. ASSUME NEW t \in tasks, NEW q \in Requests, Ask(t, q)
      PROVE  Lifecycle'
  BY <1>7 DEF Ask, Lifecycle, TypeOK, Holds, Answered
<1>8. ASSUME NEW t \in tasks, HearsAnswer(t)
      PROVE  Lifecycle'
  BY <1>8 DEF HearsAnswer, Lifecycle, Holds, Answered
<1>9. ASSUME NEW t \in tasks, HearsCancel(t)
      PROVE  Lifecycle'
  BY <1>9 DEF HearsCancel, Lifecycle, Holds, Answered
<1>10. ASSUME NEW t \in tasks, TimesOut(t)
       PROVE  Lifecycle'
  BY <1>10 DEF TimesOut, Lifecycle, Holds, Answered
<1>11. ASSUME NEW t \in tasks, TaskEnds(t)
       PROVE  Lifecycle'
  BY <1>11 DEF TaskEnds, Lifecycle, Holds, Answered
<1>12. ASSUME NEW i \in Issues \cup {NoIssue}, NEW q \in Requests, SupervisorAsks(i, q)
       PROVE  Lifecycle'
  BY <1>12 DEF SupervisorAsks, Lifecycle, TypeOK, Holds, Answered
<1>13. ASSUME NEW r \in Responders, NEW q \in Requests, Take(r, q)
       PROVE  Lifecycle'
  BY <1>13 DEF Take, Sending, Replied, Lifecycle, Holds, Answered
<1>14. ASSUME NEW r \in Responders, Send(r)
       PROVE  Lifecycle'
  <2> DEFINE q == responders[r].request
  <2>1. q \in Requests /\ channel[q] \in {"open", "closed"} /\ Holds(r, q)
    BY <1>14 DEF Send, Lifecycle, Holds
  <2>2. \/ /\ channel' = [channel EXCEPT ![q] = "sent"]
           /\ responders' = [responders EXCEPT ![r] = Recording(q)]
           /\ channel[q] = "open"
        \/ /\ channel' = channel
           /\ responders' = [responders EXCEPT ![r] = Replied(q, "not_found")]
           /\ channel[q] # "open"
    BY <1>14 DEF Send
  <2>3. UNCHANGED <<tasks, dispatches, pending, resolved>>
    BY <1>14 DEF Send
  <2> HIDE DEF q
  <2>4. \A s \in Responders : s # r => ~Holds(s, q)
    BY <2>1 DEF OneAnswerPerRequest
  <2>5. q \notin dispatches \cup pending
    BY <2>1 DEF Lifecycle
  <2>6. \A s \in Responders : s # r => responders'[s] = responders[s]
    BY <2>2 DEF TypeOK
  <2>7. /\ responders'[r].at \in {"recording", "replied"}
        /\ responders'[r].request = q
        /\ responders'[r].at = "recording" => channel'[q] = "sent"
    BY <2>1, <2>2 DEF TypeOK, Recording, Replied
  <2>8. \A p \in Requests : p # q => channel'[p] = channel[p]
    BY <2>2 DEF TypeOK
  <2>9. \A p \in dispatches \cup pending :
           /\ channel'[p] \in {"open", "closed"}
           /\ \A s \in Responders : ~Holds(s, p)'
    BY <2>5, <2>6, <2>7, <2>8 DEF Lifecycle, Holds, TypeOK
  <2>10. \A s \in Responders :
            /\ responders'[s].at \in {"sending", "recording"} =>
                  responders'[s].request \in Requests
            /\ responders'[s].at = "sending" =>
                  channel'[responders'[s].request] \in {"open", "closed"}
            /\ responders'[s].at = "recording" => Answered(responders[s].request)'
    <3> SUFFICES ASSUME NEW s \in Responders
                 PROVE  /\ responders'[s].at \in {"sending", "recording"} =>
                              responders'[s].request \in Requests
                        /\ responders'[s].at = "sending" =>
                              channel'[responders'[s].request] \in {"open", "closed"}
                        /\ responders'[s].at = "recording" =>
                              Answered(responders[s].request)'
      OBVIOUS
    <3>1. CASE s = r
      BY <2>1, <2>7, <3>1 DEF Answered
    <3>2. CASE s # r
      BY <2>4, <2>6, <2>8, <3>2 DEF Lifecycle, Holds, Answered
    <3> QED
      BY <3>1, <3>2
  <2> QED
    BY <2>3, <2>9, <2>10 DEF Lifecycle
<1>15. ASSUME NEW r \in Responders, Record(r)
       PROVE  Lifecycle'
  BY <1>15 DEF Record, Replied, Lifecycle, Holds, Answered
<1> QED
  BY <1>1, <1>2, <1>3, <1>4, <1>5, <1>6, <1>7, <1>8, <1>9, <1>10, <1>11,
     <1>12, <1>13, <1>14, <1>15
     DEF Next, OrchestratorStep, AskerStep, ResponderStep, WaitEnds

\* OneAnswerPerRequest is kept: what Take hands out is unanswered and in no
\* other responder's hands.
LEMMA OneAnswerStep ==
    ASSUME IInv, [Next]_vars
    PROVE  OneAnswerPerRequest'
<1> USE DEF worker_vars, queue_vars, registry_vars, IInv
<1>1. CASE UNCHANGED vars
  BY <1>1 DEF vars, OneAnswerPerRequest, Holds, Told
<1>2. ASSUME NEW i \in Issues, StartAttempt(i)
      PROVE  OneAnswerPerRequest'
  BY <1>2 DEF StartAttempt, OneAnswerPerRequest, Holds, Told
<1>3. ASSUME NEW i \in Issues, EndAttempt(i)
      PROVE  OneAnswerPerRequest'
  BY <1>3 DEF EndAttempt, CancelForIssue, OneAnswerPerRequest, Holds, Told
<1>4. ASSUME NEW d \in results, HandleResult(d)
      PROVE  OneAnswerPerRequest'
  BY <1>4 DEF HandleResult, CancelForIssue, OneAnswerPerRequest, Holds, Told
<1>5. CASE IngestEvents
  BY <1>5 DEF IngestEvents, OneAnswerPerRequest, Holds, Told
<1>6. ASSUME NEW q \in dispatches, HandleDispatch(q)
      PROVE  OneAnswerPerRequest'
  BY <1>6 DEF HandleDispatch, OneAnswerPerRequest, RepliesAreTrue, Lifecycle,
              Holds, Told, Answered
<1>7. ASSUME NEW t \in tasks, NEW q \in Requests, Ask(t, q)
      PROVE  OneAnswerPerRequest'
  BY <1>7 DEF Ask, OneAnswerPerRequest, Holds, Told
<1>8. ASSUME NEW t \in tasks, HearsAnswer(t)
      PROVE  OneAnswerPerRequest'
  BY <1>8 DEF HearsAnswer, OneAnswerPerRequest, Holds, Told
<1>9. ASSUME NEW t \in tasks, HearsCancel(t)
      PROVE  OneAnswerPerRequest'
  BY <1>9 DEF HearsCancel, OneAnswerPerRequest, Holds, Told
<1>10. ASSUME NEW t \in tasks, TimesOut(t)
       PROVE  OneAnswerPerRequest'
  BY <1>10 DEF TimesOut, OneAnswerPerRequest, Holds, Told
<1>11. ASSUME NEW t \in tasks, TaskEnds(t)
       PROVE  OneAnswerPerRequest'
  BY <1>11 DEF TaskEnds, OneAnswerPerRequest, Holds, Told
<1>12. ASSUME NEW i \in Issues \cup {NoIssue}, NEW q \in Requests, SupervisorAsks(i, q)
       PROVE  OneAnswerPerRequest'
  BY <1>12 DEF SupervisorAsks, OneAnswerPerRequest, RepliesAreTrue, Lifecycle,
               Holds, Told, Answered
<1>13. ASSUME NEW r \in Responders, NEW q \in Requests, Take(r, q)
       PROVE  OneAnswerPerRequest'
  BY <1>13 DEF Take, Sending, Replied, OneAnswerPerRequest, Holds, Told
<1>14. ASSUME NEW r \in Responders, Send(r)
       PROVE  OneAnswerPerRequest'
  BY <1>14 DEF Send, Recording, Replied, OneAnswerPerRequest, TypeOK, Holds,
               Told
<1>15. ASSUME NEW r \in Responders, Record(r)
       PROVE  OneAnswerPerRequest'
  BY <1>15 DEF Record, Replied, OneAnswerPerRequest, Holds, Told
<1> QED
  BY <1>1, <1>2, <1>3, <1>4, <1>5, <1>6, <1>7, <1>8, <1>9, <1>10, <1>11,
     <1>12, <1>13, <1>14, <1>15
     DEF Next, OrchestratorStep, AskerStep, ResponderStep, WaitEnds

\* RepliesAreTrue is kept: an accepted answer stays accepted.
LEMMA RepliesStep ==
    ASSUME IInv, [Next]_vars
    PROVE  RepliesAreTrue'
<1> USE DEF worker_vars, queue_vars, registry_vars, IInv
<1>1. CASE UNCHANGED vars
  BY <1>1 DEF vars, RepliesAreTrue, Told, Answered
<1>2. ASSUME NEW i \in Issues, StartAttempt(i)
      PROVE  RepliesAreTrue'
  BY <1>2 DEF StartAttempt, RepliesAreTrue, Told, Answered
<1>3. ASSUME NEW i \in Issues, EndAttempt(i)
      PROVE  RepliesAreTrue'
  BY <1>3, DroppedType DEF EndAttempt, CancelForIssue, RepliesAreTrue, Told,
                           Answered
<1>4. ASSUME NEW d \in results, HandleResult(d)
      PROVE  RepliesAreTrue'
  BY <1>4, DroppedType DEF HandleResult, CancelForIssue, RepliesAreTrue, Told,
                           Answered
<1>5. CASE IngestEvents
  BY <1>5, DroppedType DEF IngestEvents, RepliesAreTrue, Told, Answered
<1>6. ASSUME NEW q \in dispatches, HandleDispatch(q)
      PROVE  RepliesAreTrue'
  BY <1>6 DEF HandleDispatch, RepliesAreTrue, Told, Answered
<1>7. ASSUME NEW t \in tasks, NEW q \in Requests, Ask(t, q)
      PROVE  RepliesAreTrue'
  BY <1>7 DEF Ask, RepliesAreTrue, Told, Answered
<1>8. ASSUME NEW t \in tasks, HearsAnswer(t)
      PROVE  RepliesAreTrue'
  BY <1>8 DEF HearsAnswer, RepliesAreTrue, Told, Answered
<1>9. ASSUME NEW t \in tasks, HearsCancel(t)
      PROVE  RepliesAreTrue'
  BY <1>9 DEF HearsCancel, RepliesAreTrue, Told, Answered
<1>10. ASSUME NEW t \in tasks, TimesOut(t)
       PROVE  RepliesAreTrue'
  BY <1>10 DEF TimesOut, RepliesAreTrue, Told, Answered
<1>11. ASSUME NEW t \in tasks, TaskEnds(t)
       PROVE  RepliesAreTrue'
  BY <1>11 DEF TaskEnds, RepliesAreTrue, Told, Answered
<1>12. ASSUME NEW i \in Issues \cup {NoIssue}, NEW q \in Requests, SupervisorAsks(i, q)
       PROVE  RepliesAreTrue'
  BY <1>12 DEF SupervisorAsks, RepliesAreTrue, Told, Answered
<1>13. ASSUME NEW r \in Responders, NEW q \in Requests, Take(r, q)
       PROVE  RepliesAreTrue'
  BY <1>13 DEF Take, Sending, Replied, RepliesAreTrue, ResolvedCacheSound,
               Told, Answered
<1>14. ASSUME NEW r \in Responders, Send(r)
       PROVE  RepliesAreTrue'
  BY <1>14 DEF Send, Recording, Replied, RepliesAreTrue, TypeOK, Told, Answered
<1>15. ASSUME NEW r \in Responders, Record(r)
       PROVE  RepliesAreTrue'
  BY <1>15 DEF Record, Replied, RepliesAreTrue, Lifecycle, Told, Answered
<1> QED
  BY <1>1, <1>2, <1>3, <1>4, <1>5, <1>6, <1>7, <1>8, <1>9, <1>10, <1>11,
     <1>12, <1>13, <1>14, <1>15
     DEF Next, OrchestratorStep, AskerStep, ResponderStep, WaitEnds

\* AskersAreReachable is kept: whatever takes a request from where it can be
\* answered wakes the worker that waits for it.
LEMMA ReachableStep ==
    ASSUME IInv, [Next]_vars
    PROVE  AskersAreReachable'
<1> USE DEF worker_vars, queue_vars, registry_vars, IInv
<1>1. CASE UNCHANGED vars
  BY <1>1 DEF vars, AskersAreReachable, Waits, Holds
<1>2. ASSUME NEW i \in Issues, StartAttempt(i)
      PROVE  AskersAreReachable'
  BY <1>2 DEF StartAttempt, AskersAreReachable, Waits, Holds
<1>3. ASSUME NEW i \in Issues, EndAttempt(i)
      PROVE  AskersAreReachable'
  BY <1>3, DroppedType DEF EndAttempt, CancelForIssue, AskersAreReachable,
                           TypeOK, Task, Waits, Holds
<1>4. ASSUME NEW d \in results, HandleResult(d)
      PROVE  AskersAreReachable'
  BY <1>4, DroppedType DEF HandleResult, CancelForIssue, AskersAreReachable,
                           TypeOK, Task, Waits, Holds
<1>5. CASE IngestEvents
  BY <1>5, DroppedType DEF IngestEvents, AskersAreReachable, TypeOK, Task,
                           Waits, Holds
<1>6. ASSUME NEW q \in dispatches, HandleDispatch(q)
      PROVE  AskersAreReachable'
  BY <1>6 DEF HandleDispatch, AskersAreReachable, Waits, Holds
<1>7. ASSUME NEW t \in tasks, NEW q \in Requests, Ask(t, q)
      PROVE  AskersAreReachable'
  BY <1>7 DEF Ask, AskersAreReachable, TypeOK, Task, Waits, Holds
<1>8. ASSUME NEW t \in tasks, HearsAnswer(t)
      PROVE  AskersAreReachable'
  BY <1>8, StopsWaitingType DEF HearsAnswer, AskersAreReachable, Waits, Holds
<1>9. ASSUME NEW t \in tasks, HearsCancel(t)
      PROVE  AskersAreReachable'
  BY <1>9, StopsWaitingType DEF HearsCancel, AskersAreReachable, Waits, Holds
<1>10. ASSUME NEW t \in tasks, TimesOut(t)
       PROVE  AskersAreReachable'
  BY <1>10, StopsWaitingType DEF TimesOut, AskersAreReachable, Waits, Holds
<1>11. ASSUME NEW t \in tasks, TaskEnds(t)
       PROVE  AskersAreReachable'
  BY <1>11 DEF TaskEnds, AskersAreReachable, Waits, Holds
<1>12. ASSUME NEW i \in Issues \cup {NoIssue}, NEW q \in Requests, SupervisorAsks(i, q)
       PROVE  AskersAreReachable'
  BY <1>12 DEF SupervisorAsks, AskersAreReachable, Waits, Holds
<1>13. ASSUME NEW r \in Responders, NEW q \in Requests, Take(r, q)
       PROVE  AskersAreReachable'
  BY <1>13 DEF Take, Sending, AskersAreReachable, TypeOK, Waits, Holds
<1>14. ASSUME NEW r \in Responders, Send(r)
       PROVE  AskersAreReachable'
  <2> DEFINE q == responders[r].request
  <2>1. q \in Requests /\ channel[q] \in {"open", "closed"} /\ Holds(r, q)
    BY <1>14 DEF Send, Lifecycle, Holds
  <2>2. \/ /\ channel' = [channel EXCEPT ![q] = "sent"]
           /\ responders' = [responders EXCEPT ![r] = Recording(q)]
           /\ channel[q] = "open"
        \/ /\ channel' = channel
           /\ responders' = [responders EXCEPT ![r] = Replied(q, "not_found")]
           /\ channel[q] # "open"
    BY <1>14 DEF Send
  <2>3. UNCHANGED <<tasks, dispatches, pending, resolved>>
    BY <1>14 DEF Send
  <2> HIDE DEF q
  <2> QED
    BY <2>1, <2>2, <2>3 DEF AskersAreReachable, Waits, Holds, TypeOK, Task,
       Recording, Replied
<1>15. ASSUME NEW r \in Responders, Record(r)
       PROVE  AskersAreReachable'
  <2> DEFINE q == responders[r].request
  <2>1. q \in Requests /\ Answered(q) /\ Holds(r, q)
    BY <1>15 DEF Record, Lifecycle, Holds
  <2>2. /\ responders' = [responders EXCEPT ![r] = Replied(q, "ok")]
        /\ resolved' = Remember(q)
        /\ UNCHANGED <<tasks, dispatches, channel, pending>>
    BY <1>15 DEF Record
  <2> HIDE DEF q
  <2>3. \A s \in Responders : s # r => responders'[s] = responders[s]
    BY <2>2 DEF TypeOK
  <2>4. channel[q] # "open"
    BY <2>1 DEF Answered
  <2>5. \A p : p # q => \A s \in Responders : Holds(s, p) => Holds(s, p)'
    BY <2>1, <2>3 DEF Holds
  <2> QED
    BY <2>2, <2>4, <2>5 DEF AskersAreReachable, Waits
<1> QED
  BY <1>1, <1>2, <1>3, <1>4, <1>5, <1>6, <1>7, <1>8, <1>9, <1>10, <1>11,
     <1>12, <1>13, <1>14, <1>15
     DEF Next, OrchestratorStep, AskerStep, ResponderStep, WaitEnds

\* ResolvedCacheSound is kept.
LEMMA CacheStep ==
    ASSUME IInv, [Next]_vars
    PROVE  ResolvedCacheSound'
<1> USE DEF worker_vars, queue_vars, registry_vars, IInv
<1>1. CASE UNCHANGED vars
  BY <1>1 DEF vars, ResolvedCacheSound, Answered
<1>2. ASSUME NEW i \in Issues, StartAttempt(i)
      PROVE  ResolvedCacheSound'
  BY <1>2 DEF StartAttempt, ResolvedCacheSound, Answered
<1>3. ASSUME NEW i \in Issues, EndAttempt(i)
      PROVE  ResolvedCacheSound'
  BY <1>3, DroppedType DEF EndAttempt, CancelForIssue, ResolvedCacheSound,
                           RangeOf, TypeOK, Answered
<1>4. ASSUME NEW d \in results, HandleResult(d)
      PROVE  ResolvedCacheSound'
  BY <1>4, DroppedType DEF HandleResult, CancelForIssue, ResolvedCacheSound,
                           RangeOf, TypeOK, Answered
<1>5. CASE IngestEvents
  BY <1>5, DroppedType DEF IngestEvents, ResolvedCacheSound, RangeOf, TypeOK,
                           Answered
<1>6. ASSUME NEW q \in dispatches, HandleDispatch(q)
      PROVE  ResolvedCacheSound'
  BY <1>6 DEF HandleDispatch, ResolvedCacheSound, Lifecycle, Answered
<1>7. ASSUME NEW t \in tasks, NEW q \in Requests, Ask(t, q)
      PROVE  ResolvedCacheSound'
  BY <1>7 DEF Ask, ResolvedCacheSound, Answered
<1>8. ASSUME NEW t \in tasks, HearsAnswer(t)
      PROVE  ResolvedCacheSound'
  BY <1>8 DEF HearsAnswer, ResolvedCacheSound, Answered
<1>9. ASSUME NEW t \in tasks, HearsCancel(t)
      PROVE  ResolvedCacheSound'
  BY <1>9 DEF HearsCancel, ResolvedCacheSound, Answered
<1>10. ASSUME NEW t \in tasks, TimesOut(t)
       PROVE  ResolvedCacheSound'
  BY <1>10 DEF TimesOut, ResolvedCacheSound, Answered
<1>11. ASSUME NEW t \in tasks, TaskEnds(t)
       PROVE  ResolvedCacheSound'
  BY <1>11 DEF TaskEnds, ResolvedCacheSound, Answered
<1>12. ASSUME NEW i \in Issues \cup {NoIssue}, NEW q \in Requests, SupervisorAsks(i, q)
       PROVE  ResolvedCacheSound'
  BY <1>12 DEF SupervisorAsks, ResolvedCacheSound, Answered
<1>13. ASSUME NEW r \in Responders, NEW q \in Requests, Take(r, q)
       PROVE  ResolvedCacheSound'
  BY <1>13 DEF Take, ResolvedCacheSound, Answered
<1>14. ASSUME NEW r \in Responders, Send(r)
       PROVE  ResolvedCacheSound'
  <2> DEFINE q == responders[r].request
  <2>1. q \in Requests /\ channel[q] \in {"open", "closed"} /\ Holds(r, q)
    BY <1>14 DEF Send, Lifecycle, Holds
  <2>2. \/ /\ channel' = [channel EXCEPT ![q] = "sent"]
           /\ responders' = [responders EXCEPT ![r] = Recording(q)]
           /\ channel[q] = "open"
        \/ /\ channel' = channel
           /\ responders' = [responders EXCEPT ![r] = Replied(q, "not_found")]
           /\ channel[q] # "open"
    BY <1>14 DEF Send
  <2>3. UNCHANGED <<tasks, dispatches, pending, resolved>>
    BY <1>14 DEF Send
  <2> HIDE DEF q
  <2>4. \A p \in Requests : Answered(p) => Answered(p)'
    BY <2>1, <2>2 DEF Answered, TypeOK
  <2>5. RangeOf(resolved) \subseteq Requests
    BY DEF TypeOK, RangeOf
  <2>6. \A p \in RangeOf(resolved) : Answered(p)' /\ p \notin pending
    BY <2>4, <2>5 DEF ResolvedCacheSound
  <2>7. RangeOf(resolved)' = RangeOf(resolved)
    BY <2>3 DEF RangeOf
  <2> QED
    BY <2>3, <2>6, <2>7 DEF ResolvedCacheSound
<1>15. ASSUME NEW r \in Responders, Record(r)
       PROVE  ResolvedCacheSound'
  <2> DEFINE q == responders[r].request
  <2>1. q \in Requests /\ Answered(q) /\ Holds(r, q)
    BY <1>15 DEF Record, Lifecycle, Holds
  <2>2. /\ responders' = [responders EXCEPT ![r] = Replied(q, "ok")]
        /\ resolved' = Remember(q)
        /\ UNCHANGED <<tasks, dispatches, channel, pending>>
    BY <1>15 DEF Record
  <2> HIDE DEF q
  <2>3. q \notin pending
    BY <2>1 DEF Lifecycle
  <2>4. \A p \in RangeOf(Remember(q)) : Answered(p) /\ p \notin pending
    BY <2>1, <2>3, RememberType DEF ResolvedCacheSound
  <2>5. /\ Len(Remember(q)) <= CacheCapacity
        /\ \A k, l \in DOMAIN Remember(q) :
              Remember(q)[k] = Remember(q)[l] => k = l
    BY <2>1, RememberType
  <2> QED
    BY <2>2, <2>4, <2>5 DEF ResolvedCacheSound, Answered, RangeOf
<1> QED
  BY <1>1, <1>2, <1>3, <1>4, <1>5, <1>6, <1>7, <1>8, <1>9, <1>10, <1>11,
     <1>12, <1>13, <1>14, <1>15
     DEF Next, OrchestratorStep, AskerStep, ResponderStep, WaitEnds

\* The inductive invariant holds at the start.
LEMMA IInvInit == Init => IInv
<1> SUFFICES ASSUME Init PROVE IInv
  OBVIOUS
<1>1. TypeOK
  BY DEF Init, TypeOK, ChannelStates, Call, Idle
<1>2. Lifecycle /\ OneAnswerPerRequest /\ RepliesAreTrue /\ AskersAreReachable
  BY DEF Init, Idle, Lifecycle, OneAnswerPerRequest, RepliesAreTrue,
         AskersAreReachable, Holds, Told, Answered
<1>3. ResolvedCacheSound
  BY DEF Init, ResolvedCacheSound, RangeOf
<1> QED
  BY <1>1, <1>2, <1>3 DEF IInv

\* Every step keeps the inductive invariant.
LEMMA IInvStep == IInv /\ [Next]_vars => IInv'
  BY TypeStep, LifecycleStep, OneAnswerStep, RepliesStep, ReachableStep,
     CacheStep DEF IInv

\* The inductive invariant holds of every behaviour.
THEOREM Inductive == Spec => []IInv
  BY IInvInit, IInvStep, PTL DEF Spec

\* The state of the registry, its callers and its channels always has the shape
\* the program gives it.
THEOREM TypeCorrect == Spec => []TypeOK
<1>1. IInv => TypeOK
  BY DEF IInv
<1> QED
  BY <1>1, Inductive, PTL

\* However many responders race for a request, at most one of them answers it.
THEOREM AnsweredOnce == Spec => []OneAnswerPerRequest
<1>1. IInv => OneAnswerPerRequest
  BY DEF IInv
<1> QED
  BY <1>1, Inductive, PTL

\* 200 and 409 are never said of a request whose answer was not accepted.
THEOREM RepliesTruthful == Spec => []RepliesAreTrue
<1>1. IInv => RepliesAreTrue
  BY DEF IInv
<1> QED
  BY <1>1, Inductive, PTL

\* No request of a waiting worker is ever lost on the way to its answer.
THEOREM AskersStayReachable == Spec => []AskersAreReachable
<1>1. IInv => AskersAreReachable
  BY DEF IInv
<1> QED
  BY <1>1, Inductive, PTL

\* The cache of answered requests stays within its capacity and is right about
\* what it holds.
THEOREM CacheSound == Spec => []ResolvedCacheSound
<1>1. IInv => ResolvedCacheSound
  BY DEF IInv
<1> QED
  BY <1>1, Inductive, PTL

=============================================================================
