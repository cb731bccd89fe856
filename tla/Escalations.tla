----------------------------- MODULE Escalations -----------------------------
(***************************************************************************)
(* Questions a worker's agent asks of a human, and their answers           *)
(* (EscalationRegistry in apps/symphony/src/orchestrator.rs, the waiting   *)
(* side in pi_agent/rpc_bridge.rs, the answering side in http_server.rs,   *)
(* supervisor.rs as a second asker).                                       *)
(*                                                                         *)
(* A worker that asks sends its request to the orchestrator and waits, on  *)
(* a one-shot channel whose other end travels with the request, for at     *)
(* most the escalation timeout.  The orchestrator registers the request    *)
(* when it gets to read it.  HTTP handlers resolve it from other threads,  *)
(* in three steps between which the registry is not locked.  How a wait    *)
(* ended reaches the orchestrator on a different channel than the request, *)
(* so the two may be read in either order.                                 *)
(***************************************************************************)
EXTENDS Integers, Sequences, FiniteSets

CONSTANTS
    Issues,
    Requests,          \* identities of requests, each used once
    Responders,        \* HTTP calls that answer a request
    Runs,              \* identities of worker tasks
    CacheCapacity      \* ESCALATION_RESOLVED_CACHE_CAPACITY

CONSTANTS NoRequest, NoIssue

ASSUME EscalationAssumption ==
    /\ IsFiniteSet(Requests)
    /\ CacheCapacity \in Nat \ {0}
    /\ NoRequest \notin Requests
    /\ NoIssue \notin Issues

VARIABLES
    running,       \* issues with a running attempt
    tasks,         \* live worker tasks
    results,       \* tasks that ended, their result not yet handled
    dispatches,    \* requests sent to the orchestrator, not yet read
    closings,      \* requests whose closing event is not yet read
    issue_of,      \* request -> the issue it is asked for
    channel,       \* request -> state of its one-shot channel
    pending,       \* EscalationRegistryState.pending
    resolved,      \* ResolvedEscalationCache.order, oldest first
    responders     \* responder -> where its call is

worker_vars == <<tasks, results>>
queue_vars == <<dispatches, closings>>
registry_vars == <<pending, resolved>>
vars == <<running, worker_vars, queue_vars, issue_of, channel, registry_vars,
          responders>>

\* A task waits for the answer to its request, or for none.
Task == [run : Runs, issue : Issues, request : Requests \cup {NoRequest}]
TaskResult == [run : Runs, issue : Issues]

\* open: a waiter and a sender; sent: the answer is in; heard: the waiter took
\* it; lost: the waiter gave up while it came in; closed: the waiter gave up;
\* dropped: the sender is gone.
ChannelStates == {"unused", "open", "sent", "heard", "lost", "closed", "dropped"}

Replies == {"ok", "not_found", "already_resolved"}
Call == [at : {"idle", "sending", "recording", "replied"},
         request : Requests \cup {NoRequest}, reply : Replies \cup {"none"}]

Idle == [at |-> "idle", request |-> NoRequest, reply |-> "none"]
Sending(q) == [at |-> "sending", request |-> q, reply |-> "none"]
Recording(q) == [at |-> "recording", request |-> q, reply |-> "none"]
Replied(q, reply) == [at |-> "replied", request |-> q, reply |-> reply]

RangeOf(s) == {s[k] : k \in DOMAIN s}
RequestsOf(i) == {q \in Requests : issue_of[q] = i}
UsedRuns == {t.run : t \in tasks} \cup {d.run : d \in results}

----------------------------------------------------------------------------
(* The registry *)

\* What happens to the channels of requests taken out of pending unanswered:
\* their senders are dropped with the entries.
Dropped(S) == [q \in Requests |->
    IF q \in S /\ channel[q] = "open" THEN "dropped" ELSE channel[q]]

\* Faulty: the entries that are taken out live on in the list of what was
\* cancelled, and their senders with them.
CancelKeepingSenders(i, unread) ==
    /\ pending' = (pending \ unread) \ RequestsOf(i)
    /\ channel' = channel

\* cancel_for_issue, after the closing events in `unread` have been ingested.
CancelForIssue(i, unread) ==
    /\ pending' = (pending \ unread) \ RequestsOf(i)
    /\ channel' = Dropped(pending \cap (unread \cup RequestsOf(i)))

\* Faulty: the cache grows by every answer.
RememberForever(q) == IF q \in RangeOf(resolved) THEN resolved ELSE Append(resolved, q)

\* ResolvedEscalationCache::insert.
Remember(q) ==
    IF q \in RangeOf(resolved) THEN resolved
    ELSE IF Len(resolved) < CacheCapacity THEN Append(resolved, q)
    ELSE Append(Tail(resolved), q)

----------------------------------------------------------------------------
(* The orchestrator *)

StartAttempt(i) ==
    /\ i \notin running
    /\ running' = running \cup {i}
    /\ \E r \in Runs \ UsedRuns :
          /\ \A s \in Runs \ UsedRuns : r <= s
          /\ tasks' = tasks \cup {[run |-> r, issue |-> i, request |-> NoRequest]}
    /\ UNCHANGED <<results, queue_vars, issue_of, channel, registry_vars, responders>>

\* A stall, a terminal state or a release ends the attempt; its task lives on.
EndAttempt(i) ==
    /\ i \in running
    /\ running' = running \ {i}
    /\ CancelForIssue(i, {})
    /\ UNCHANGED <<worker_vars, queue_vars, issue_of, resolved, responders>>

\* The result branch of the select: events are drained, the attempt of the
\* issue, if there is one, ends, and its requests are cancelled either way.
HandleResult(d) ==
    /\ d \in results
    /\ results' = results \ {d}
    /\ running' = running \ {d.issue}
    /\ closings' = {}
    /\ CancelForIssue(d.issue, closings)
    /\ UNCHANGED <<tasks, dispatches, issue_of, resolved, responders>>

\* The event branch: ingest_agent_event and drain_ready_worker_events.
IngestEvents ==
    /\ closings # {}
    /\ closings' = {}
    /\ pending' = pending \ closings
    /\ channel' = Dropped(pending \cap closings)
    /\ UNCHANGED <<running, worker_vars, dispatches, issue_of, resolved, responders>>

\* handle_escalation_dispatch registers whatever became of the asker since.
\* (register also takes the request out of the resolved cache, where a request
\* that was not registered before cannot be.)
HandleDispatch(q) ==
    /\ q \in dispatches
    /\ dispatches' = dispatches \ {q}
    /\ pending' = pending \cup {q}
    /\ UNCHANGED <<running, worker_vars, closings, issue_of, channel, resolved,
                   responders>>

----------------------------------------------------------------------------
(* Askers *)

\* handle_escalation_ui_request, up to the wait.
Ask(t, q) ==
    /\ t \in tasks
    /\ t.request = NoRequest
    /\ channel[q] = "unused"
    /\ tasks' = (tasks \ {t}) \cup {[t EXCEPT !.request = q]}
    /\ channel' = [channel EXCEPT ![q] = "open"]
    /\ issue_of' = [issue_of EXCEPT ![q] = t.issue]
    /\ dispatches' = dispatches \cup {q}
    /\ UNCHANGED <<running, results, closings, registry_vars, responders>>

Waits(t) == t \in tasks /\ t.request # NoRequest

\* Faulty: the closing event names the issue in place of the request.
StopsWaitingByIssue(t) ==
    \/ /\ tasks' = (tasks \ {t}) \cup {[t EXCEPT !.request = NoRequest]}
       /\ closings' = closings \cup {t.issue}
       /\ UNCHANGED results
    \/ /\ tasks' = tasks \ {t}
       /\ results' = results \cup {[run |-> t.run, issue |-> t.issue]}
       /\ UNCHANGED closings

\* After the wait the answer, or the fallback, is written to the agent.  If
\* that fails, so does the task, and no closing event is sent.
StopsWaiting(t) ==
    \/ /\ tasks' = (tasks \ {t}) \cup {[t EXCEPT !.request = NoRequest]}
       /\ closings' = closings \cup {t.request}
       /\ UNCHANGED results
    \/ /\ tasks' = tasks \ {t}
       /\ results' = results \cup {[run |-> t.run, issue |-> t.issue]}
       /\ UNCHANGED closings

HearsAnswer(t) ==
    /\ Waits(t)
    /\ channel[t.request] = "sent"
    /\ channel' = [channel EXCEPT ![t.request] = "heard"]
    /\ StopsWaiting(t)
    /\ UNCHANGED <<running, dispatches, issue_of, registry_vars, responders>>

HearsCancel(t) ==
    /\ Waits(t)
    /\ channel[t.request] = "dropped"
    /\ StopsWaiting(t)
    /\ UNCHANGED <<running, dispatches, issue_of, channel, registry_vars, responders>>

\* Faulty: the time runs from the registration on.
TimesOutOnceRegistered(t) ==
    /\ Waits(t)
    /\ t.request \in pending
    /\ channel[t.request] \in {"open", "sent"}
    /\ channel' = [channel EXCEPT ![t.request] =
                      IF channel[t.request] = "open" THEN "closed" ELSE "lost"]
    /\ StopsWaiting(t)
    /\ UNCHANGED <<running, dispatches, issue_of, registry_vars, responders>>

\* tokio's timeout looks at the channel and then at the clock; an answer that
\* comes in between is accepted from its sender and lost.
TimesOut(t) ==
    /\ Waits(t)
    /\ channel[t.request] \in {"open", "sent"}
    /\ channel' = [channel EXCEPT ![t.request] =
                      IF channel[t.request] = "open" THEN "closed" ELSE "lost"]
    /\ StopsWaiting(t)
    /\ UNCHANGED <<running, dispatches, issue_of, registry_vars, responders>>

TaskEnds(t) ==
    /\ t \in tasks
    /\ t.request = NoRequest
    /\ tasks' = tasks \ {t}
    /\ results' = results \cup {[run |-> t.run, issue |-> t.issue]}
    /\ UNCHANGED <<running, queue_vars, issue_of, channel, registry_vars, responders>>

\* emit_supervisor_escalation: registered at once, whether or not the issue
\* is being worked on, and under its identifier (NoIssue) when the supervisor
\* has not seen its id.  The waiter has no timeout, sends no event and does
\* nothing with the answer.
SupervisorAsks(i, q) ==
    /\ channel[q] = "unused"
    /\ channel' = [channel EXCEPT ![q] = "open"]
    /\ issue_of' = [issue_of EXCEPT ![q] = i]
    /\ pending' = pending \cup {q}
    /\ UNCHANGED <<running, worker_vars, queue_vars, resolved, responders>>

----------------------------------------------------------------------------
(* Responders: EscalationRegistry::resolve, called by an HTTP handler *)

\* Faulty: the entry stays in the registry until the answer is recorded.
TakeKeepingEntry(r, q) ==
    /\ responders[r].at = "idle"
    /\ channel[q] # "unused"
    /\ responders' = [responders EXCEPT ![r] =
            IF q \in pending THEN Sending(q)
            ELSE IF q \in RangeOf(resolved) THEN Replied(q, "already_resolved")
            ELSE Replied(q, "not_found")]
    /\ UNCHANGED <<running, worker_vars, queue_vars, issue_of, channel, registry_vars>>

\* The first critical section.
Take(r, q) ==
    /\ responders[r].at = "idle"
    /\ channel[q] # "unused"
    /\ pending' = pending \ {q}
    /\ responders' = [responders EXCEPT ![r] =
            IF q \in pending THEN Sending(q)
            ELSE IF q \in RangeOf(resolved) THEN Replied(q, "already_resolved")
            ELSE Replied(q, "not_found")]
    /\ UNCHANGED <<running, worker_vars, queue_vars, issue_of, channel, resolved>>

\* Faulty: the outcome of the send is not looked at.
SendUnchecked(r) ==
    /\ responders[r].at = "sending"
    /\ LET q == responders[r].request IN
       /\ responders' = [responders EXCEPT ![r] = Recording(q)]
       /\ channel' = [channel EXCEPT ![q] = IF @ = "open" THEN "sent" ELSE @]
    /\ UNCHANGED <<running, worker_vars, queue_vars, issue_of, registry_vars>>

\* The answer goes into the channel, unless the waiter has gone.
Send(r) ==
    /\ responders[r].at = "sending"
    /\ LET q == responders[r].request IN
       \/ /\ channel[q] = "open"
          /\ channel' = [channel EXCEPT ![q] = "sent"]
          /\ responders' = [responders EXCEPT ![r] = Recording(q)]
       \/ /\ channel[q] # "open"
          /\ responders' = [responders EXCEPT ![r] = Replied(q, "not_found")]
          /\ UNCHANGED channel
    /\ UNCHANGED <<running, worker_vars, queue_vars, issue_of, registry_vars>>

\* The second critical section.
Record(r) ==
    /\ responders[r].at = "recording"
    /\ resolved' = Remember(responders[r].request)
    /\ responders' = [responders EXCEPT ![r] = Replied(responders[r].request, "ok")]
    /\ UNCHANGED <<running, worker_vars, queue_vars, issue_of, channel, pending>>

----------------------------------------------------------------------------
(* The specification *)

Init ==
    /\ running = {}
    /\ tasks = {}
    /\ results = {}
    /\ dispatches = {}
    /\ closings = {}
    /\ issue_of = [q \in Requests |-> NoIssue]
    /\ channel = [q \in Requests |-> "unused"]
    /\ pending = {}
    /\ resolved = <<>>
    /\ responders = [r \in Responders |-> Idle]

OrchestratorStep ==
    \/ \E i \in Issues : StartAttempt(i) \/ EndAttempt(i)
    \/ \E d \in results : HandleResult(d)
    \/ IngestEvents
    \/ \E q \in dispatches : HandleDispatch(q)

WaitEnds(t) == HearsAnswer(t) \/ HearsCancel(t) \/ TimesOut(t)

AskerStep ==
    \/ \E t \in tasks : WaitEnds(t) \/ TaskEnds(t) \/ \E q \in Requests : Ask(t, q)
    \/ \E i \in Issues \cup {NoIssue}, q \in Requests : SupervisorAsks(i, q)

ResponderStep ==
    \E r \in Responders : Send(r) \/ Record(r) \/ \E q \in Requests : Take(r, q)

Next == OrchestratorStep \/ AskerStep \/ ResponderStep

Spec == Init /\ [][Next]_vars

\* Time passes and a worker task is scheduled.  Nothing is assumed of the
\* orchestrator, which may be busy with a poll, or of the responders.
LiveSpec == Spec /\ \A r \in Runs : WF_vars(\E t \in tasks : t.run = r /\ WaitEnds(t))

----------------------------------------------------------------------------
(* Properties *)

\* Every variable has the shape the program gives it.
TypeOK ==
    /\ running \subseteq Issues
    /\ tasks \subseteq Task
    /\ results \subseteq TaskResult
    /\ dispatches \subseteq Requests
    /\ closings \subseteq Requests
    /\ issue_of \in [Requests -> Issues \cup {NoIssue}]
    /\ channel \in [Requests -> ChannelStates]
    /\ pending \subseteq Requests
    /\ resolved \in Seq(Requests)
    /\ responders \in [Responders -> Call]

Holds(r, q) == responders[r].at \in {"sending", "recording"} /\ responders[r].request = q
Told(r, q, reply) ==
    /\ responders[r].at = "replied"
    /\ responders[r].request = q
    /\ responders[r].reply = reply
Answered(q) == channel[q] \in {"sent", "heard", "lost"}

\* Of the calls that answer one request at most one succeeds, and a request
\* is never offered to two of them at a time.
OneAnswerPerRequest ==
    \A q \in Requests : \A r, s \in Responders :
        (r # s /\ (Holds(r, q) \/ Told(r, q, "ok")))
            => ~Holds(s, q) /\ ~Told(s, q, "ok") /\ q \notin pending

\* 200 and 409 are only ever said of a request whose answer was accepted on
\* its channel; a call that finds the asker gone says neither, now or later.
RepliesAreTrue ==
    \A q \in Requests : \A r \in Responders :
        (Told(r, q, "ok") \/ Told(r, q, "already_resolved")) => Answered(q)

\* A worker that is still waiting can still be answered: its request is on
\* its way, registered, or in the hands of a responder.  What removes it
\* from all three (a cancellation, a closing event) wakes the worker.
AskersAreReachable ==
    \A t \in tasks :
        (Waits(t) /\ channel[t.request] = "open")
            => \/ t.request \in dispatches \cup pending
               \/ \E r \in Responders : Holds(r, t.request)

\* The memory of answered requests is bounded, has no request twice, and
\* none that is still open to answers.
ResolvedCacheSound ==
    /\ Len(resolved) <= CacheCapacity
    /\ \A k, l \in DOMAIN resolved : resolved[k] = resolved[l] => k = l
    /\ \A q \in RangeOf(resolved) : Answered(q) /\ q \notin pending

\* A wait ends even if the orchestrator never reads the request, nobody
\* answers and nothing is cancelled.
WaitsEnd ==
    \A q \in Requests :
        (\E t \in tasks : t.request = q) ~> ~(\E t \in tasks : t.request = q)

=============================================================================
