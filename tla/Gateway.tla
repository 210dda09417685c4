------------------------------- MODULE Gateway -------------------------------
(***************************************************************************)
(* The request path of PRISMUX (app/main.py): a request resolves its       *)
(* selector to an ordered list of targets, and for each target waits in    *)
(* the queue gauge for the provider's capacity, calls the provider, and    *)
(* either falls over to the next target or answers and logs.  "reply" is   *)
(* forward_chat_request and forward_embeddings_request, whose control is   *)
(* the same, "stream" is streaming_proxy_response with its generator.      *)
(*                                                                         *)
(* A provider's capacity is what ConcurrencyLimit promises of it           *)
(* (implemented by Capacity).  A runtime <<p, e>> is the ProviderRuntime   *)
(* of provider p in the e-th registry: a reload builds new ones, requests  *)
(* in flight keep the ones they resolved.  Everything the handlers do      *)
(* between two suspension points is one step, except that a request rests  *)
(* in stage "prepare" before each target, which adds interleavings only.   *)
(* Provider health is the subject of Registry.                             *)
(***************************************************************************)
EXTENDS Integers, FiniteSets, Sequences, SequencesExt

CONSTANTS
  Requests,          \* client calls
  Kinds,             \* the endpoints they use: a subset of {"reply", "stream"}
  Providers,
  Selectors,         \* what payload["model"] may be
  Tables,            \* what resolve and enabled_targets make of each selector
  MaxConcurrency,    \* of every provider
  Unservable,        \* providers whose request_burst is below one request
  Faults,            \* which of "cancel", "body", "drain", "abandon", "database" happen
  MaxReloads,        \* bound on registry reloads
  MaxResets          \* bound on calls of /reset

ASSUME RequestsAssumption == IsFiniteSet(Requests)
ASSUME TablesAssumption == Tables \subseteq [Selectors -> Seq(Providers)]
ASSUME KindsAssumption == Kinds \subseteq {"reply", "stream"}
ASSUME BoundsAssumption ==
  MaxConcurrency \in Nat \ {0} /\ MaxReloads \in Nat /\ MaxResets \in Nat

VARIABLES
  epoch, table,                \* app.state.registry: its number, its routes
  free,                        \* of each runtime: capacity.semaphore._value
  gauge, gaugeBy,              \* queue_state: global_queued, by_model
  resets, resetting,           \* /reset calls so far; one is between its two halves
  stage, kind, selector,       \* of each request: where it is, what it is
  targets, at,                 \* the runtimes it resolved, the loop index
  attempts,                    \* its attempts list
  answer,                      \* what its client got in the end
  row, saved                   \* its requests row, its request_attempts rows

queue == <<gauge, gaugeBy>>
registry == <<epoch, table>>
log == <<row, saved>>
plan == <<kind, selector, targets>>
vars == <<registry, free, queue, resets, resetting, stage, plan, at, attempts, answer, log>>

Runtimes == Providers \X (0 .. MaxReloads)
Exceptions == {"blocked", "connection", "timeout", "unknown"}
\* What makes the loop continue: no connection, or one of FALLBACK_STATUS_CODES.
Transient == {"blocked", "connection", "retryable"}

Current(r) == targets[r][at[r]]
Last1(s) == s[Len(s)]

\* Mutant of CanFallBack: a call that timed out is tried elsewhere.
CanFallBackAfterTimeout(r, outcome) ==
  outcome \in Transient \cup {"timeout"} /\ at[r] < Len(targets[r])

CanFallBack(r, outcome) == outcome \in Transient /\ at[r] < Len(targets[r])

Move(r, s) == stage' = [stage EXCEPT ![r] = s]
Finish(r, a) == Move(r, "done") /\ answer' = [answer EXCEPT ![r] = a]

Inc(q) ==
  /\ gauge' = gauge + 1
  /\ gaugeBy' = [gaugeBy EXCEPT ![q] = @ + 1]

Clamp(n) == IF n < 0 THEN 0 ELSE n

Dec(q) ==
  /\ gauge' = Clamp(gauge - 1)
  /\ gaugeBy' = [gaugeBy EXCEPT ![q] = Clamp(@ - 1)]

\* Mutant of Release: the slot goes to the provider's runtime of the current registry.
ReleaseToCurrent(r) == free' = [free EXCEPT ![<<Current(r)[1], epoch>>] = @ + 1]

\* capacity.release on the runtime the request resolved.
Release(r) == free' = [free EXCEPT ![Current(r)] = @ + 1]

Init ==
  /\ epoch = 0 /\ table \in Tables
  /\ free = [rt \in Runtimes |-> MaxConcurrency]
  /\ gauge = 0 /\ gaugeBy = [q \in Selectors |-> 0]
  /\ resets = 0 /\ resetting = FALSE
  /\ stage = [r \in Requests |-> "new"]
  /\ kind \in [Requests -> Kinds]
  /\ selector \in [Requests -> Selectors]
  /\ targets = [r \in Requests |-> <<>>]
  /\ at = [r \in Requests |-> 0]
  /\ attempts = [r \in Requests |-> <<>>]
  /\ answer = [r \in Requests |-> "none"]
  /\ row = [r \in Requests |-> "none"]
  /\ saved = [r \in Requests |-> 0]

\* The selector is resolved against the registry of this moment.  An unknown
\* model and a route without an enabled target are answered at once.
Resolve(r) ==
  /\ stage[r] = "new"
  /\ targets' = [targets EXCEPT ![r] =
       [i \in DOMAIN table[selector[r]] |-> <<table[selector[r]][i], epoch>>]]
  /\ at' = [at EXCEPT ![r] = 1]
  /\ IF table[selector[r]] = <<>>
     THEN Finish(r, "refused")
     ELSE Move(r, "prepare") /\ UNCHANGED answer
  /\ UNCHANGED <<registry, free, queue, resets, resetting, kind, selector, attempts, log>>

\* prepare_request raises AdapterError: whatever was tried before is forgotten.
AdapterRefuses(r) ==
  /\ stage[r] = "prepare"
  /\ Finish(r, "refused")
  /\ UNCHANGED <<registry, free, queue, resets, resetting, plan, at, attempts, log>>

JoinQueue(r) ==
  /\ stage[r] = "prepare"
  /\ Move(r, "queued")
  /\ Inc(selector[r])
  /\ UNCHANGED <<registry, free, resets, resetting, plan, at, attempts, answer, log>>

\* Mutant of AcquireFails: dec is not in a finally clause.
AcquireFailsInQueue(r) ==
  /\ stage[r] = "queued"
  /\ Current(r)[1] \in Unservable
  /\ Finish(r, "crash")
  /\ UNCHANGED <<registry, free, queue, resets, resetting, plan, at, attempts, log>>

\* acquire raises (Capacity, RejectRequest); the gauge is left all the same.
AcquireFails(r) ==
  /\ stage[r] = "queued"
  /\ Current(r)[1] \in Unservable
  /\ Dec(selector[r])
  /\ Finish(r, "crash")
  /\ UNCHANGED <<registry, free, resets, resetting, plan, at, attempts, log>>

\* Mutant of Admit: admission does not wait for a slot.
AdmitUnguarded(r) ==
  /\ stage[r] = "queued"
  /\ Current(r)[1] \notin Unservable
  /\ free' = [free EXCEPT ![Current(r)] = Clamp(@ - 1)]
  /\ Dec(selector[r])
  /\ Move(r, "calling")
  /\ UNCHANGED <<registry, resets, resetting, plan, at, attempts, answer, log>>

\* Mutant of Admit: the gauge is only left when acquire fails.
AdmitStillQueued(r) ==
  /\ stage[r] = "queued"
  /\ Current(r)[1] \notin Unservable
  /\ free[Current(r)] > 0
  /\ free' = [free EXCEPT ![Current(r)] = @ - 1]
  /\ Move(r, "calling")
  /\ UNCHANGED <<registry, queue, resets, resetting, plan, at, attempts, answer, log>>

\* acquire returns, and the gauge is left.
Admit(r) ==
  /\ stage[r] = "queued"
  /\ Current(r)[1] \notin Unservable
  /\ free[Current(r)] > 0
  /\ free' = [free EXCEPT ![Current(r)] = @ - 1]
  /\ Dec(selector[r])
  /\ Move(r, "calling")
  /\ UNCHANGED <<registry, resets, resetting, plan, at, attempts, answer, log>>

\* attempts.append: how target at[r] ended and whether the next one is tried.
RecordAttempt(r, outcome) ==
  attempts' = [attempts EXCEPT ![r] =
    Append(@, [runtime |-> Current(r), outcome |-> outcome, fallback |-> CanFallBack(r, outcome)])]

\* The end of an attempt: next target, or what the handler does without one.
\* A stream that never opened is answered without being logged.
AfterAttempt(r, outcome) ==
  IF CanFallBack(r, outcome)
  THEN Move(r, "prepare") /\ at' = [at EXCEPT ![r] = @ + 1] /\ UNCHANGED answer
  ELSE /\ UNCHANGED at
       /\ IF kind[r] = "stream" /\ outcome \in Exceptions
          THEN Finish(r, "failed")
          ELSE Move(r, "logging") /\ UNCHANGED answer

\* Mutant of CallRaises: the slot is not given back.
CallRaisesKeepsSlot(r, e) ==
  /\ stage[r] = "calling"
  /\ RecordAttempt(r, e)
  /\ AfterAttempt(r, e)
  /\ UNCHANGED <<registry, free, queue, resets, resetting, plan, log>>

\* The call raises; the slot is given back before anything else.
CallRaises(r, e) ==
  /\ stage[r] = "calling"
  /\ Release(r)
  /\ RecordAttempt(r, e)
  /\ AfterAttempt(r, e)
  /\ UNCHANGED <<registry, queue, resets, resetting, plan, log>>

\* The provider answers a request that is not streamed.
CallReplies(r, outcome) ==
  /\ stage[r] = "calling" /\ kind[r] = "reply"
  /\ Release(r)
  /\ RecordAttempt(r, outcome)
  /\ AfterAttempt(r, outcome)
  /\ UNCHANGED <<registry, queue, resets, resetting, plan, log>>

\* An exception no handler catches leaves the request path with the slot taken.
LeakSlot(r) ==
  /\ Move(r, "leaked")
  /\ UNCHANGED <<registry, free, queue, resets, resetting, plan, at, attempts, answer, log>>

\* The task is cancelled during the call, whole or streamed, or the call raises
\* what none of the four handlers catches.
CallCancelled(r) ==
  /\ "cancel" \in Faults
  /\ stage[r] = "calling"
  /\ LeakSlot(r)

\* A reply the adapter cannot normalise, or usage that is not a number.
BadBody(r) ==
  /\ "body" \in Faults
  /\ stage[r] = "calling" /\ kind[r] = "reply"
  /\ LeakSlot(r)

-----------------------------------------------------------------------------
\* Streaming: the head of the response has arrived.  The body of one that
\* falls back is read before the slot is released.
StreamOpens(r, outcome) ==
  /\ stage[r] = "calling" /\ kind[r] = "stream"
  /\ Move(r, IF CanFallBack(r, outcome) THEN "draining" ELSE "opened")
  /\ UNCHANGED <<registry, free, queue, resets, resetting, plan, at, attempts, answer, log>>

Drained(r) ==
  /\ stage[r] = "draining"
  /\ Release(r)
  /\ RecordAttempt(r, "retryable")
  /\ AfterAttempt(r, "retryable")
  /\ UNCHANGED <<registry, queue, resets, resetting, plan, log>>

\* aread raises: there is no handler around it.
DrainFails(r) ==
  /\ "drain" \in Faults
  /\ stage[r] = "draining"
  /\ LeakSlot(r)

\* The client goes away before the generator runs: its finally never will.
Abandon(r) ==
  /\ "abandon" \in Faults
  /\ stage[r] = "opened"
  /\ LeakSlot(r)

StreamStarts(r) ==
  /\ stage[r] = "opened"
  /\ Move(r, "streaming")
  /\ UNCHANGED <<registry, free, queue, resets, resetting, plan, at, attempts, answer, log>>

StreamOutcomes == {"final", "interrupted", "cancelled"}

\* The generator leaves its try: at the end of the stream, or closed while it
\* waits for its consumer ("final": no error is noted), when the provider
\* breaks off, or when the task is cancelled inside it.  The finally clause
\* closes the connection, releases the slot, and goes on to log.
StreamEnds(r, outcome) ==
  /\ stage[r] = "streaming"
  /\ Release(r)
  /\ RecordAttempt(r, outcome)
  /\ Move(r, "logging")
  /\ UNCHANGED <<registry, queue, resets, resetting, plan, at, answer, log>>

-----------------------------------------------------------------------------
\* db.insert_request: one transaction.
InsertRequest(r) ==
  /\ stage[r] = "logging"
  /\ row' = [row EXCEPT ![r] = "present"]
  /\ Move(r, "saving")
  /\ UNCHANGED <<registry, free, queue, resets, resetting, plan, at, attempts, answer, saved>>

\* The insert fails, or is cancelled: the scope of a cancelled stream cancels
\* every further await of its finally clause.  Nothing is logged.
InsertFails(r) ==
  /\ stage[r] = "logging"
  /\ "database" \in Faults \/ Last1(attempts[r]).outcome = "cancelled"
  /\ Finish(r, "crash")
  /\ UNCHANGED <<registry, free, queue, resets, resetting, plan, at, attempts, log>>

\* One turn of save_attempts; each attempt row refers to its requests row.
SaveAttempt(r) ==
  /\ stage[r] = "saving" /\ saved[r] < Len(attempts[r])
  /\ row[r] = "present"
  /\ saved' = [saved EXCEPT ![r] = @ + 1]
  /\ UNCHANGED <<registry, free, queue, resets, resetting, stage, plan, at, attempts, answer, row>>

\* The requests row is gone (or the database fails): the client gets an error
\* although the provider has answered.
SaveFails(r) ==
  /\ stage[r] = "saving" /\ saved[r] < Len(attempts[r])
  /\ \/ row[r] = "deleted"
     \/ "database" \in Faults \/ Last1(attempts[r]).outcome = "cancelled"
  /\ Finish(r, "crash")
  /\ UNCHANGED <<registry, free, queue, resets, resetting, plan, at, attempts, log>>

\* Mutant of Respond: the client is answered before the attempts are saved.
RespondEarly(r) ==
  /\ stage[r] = "saving"
  /\ Finish(r, IF Last1(attempts[r]).outcome \in Exceptions THEN "failed" ELSE "forwarded")
  /\ UNCHANGED <<registry, free, queue, resets, resetting, plan, at, attempts, log>>

Respond(r) ==
  /\ stage[r] = "saving" /\ saved[r] = Len(attempts[r])
  /\ Finish(r, IF Last1(attempts[r]).outcome \in Exceptions THEN "failed" ELSE "forwarded")
  /\ UNCHANGED <<registry, free, queue, resets, resetting, plan, at, attempts, log>>

-----------------------------------------------------------------------------
\* reload_registry publishes a registry: every provider gets a new runtime.
Reload ==
  /\ epoch < MaxReloads
  /\ epoch' = epoch + 1
  /\ table' \in Tables
  /\ UNCHANGED <<free, queue, resets, resetting, stage, plan, at, attempts, answer, log>>

\* /reset: the rows go first (their attempts with them), then the gauge.
ResetLog ==
  /\ resets < MaxResets /\ ~resetting
  /\ resets' = resets + 1 /\ resetting' = TRUE
  /\ row' = [r \in Requests |-> IF row[r] = "present" THEN "deleted" ELSE row[r]]
  /\ saved' = [r \in Requests |-> 0]
  /\ UNCHANGED <<registry, free, queue, stage, plan, at, attempts, answer>>

ResetGauge ==
  /\ resetting
  /\ resetting' = FALSE
  /\ gauge' = 0
  /\ gaugeBy' = [q \in Selectors |-> 0]
  /\ UNCHANGED <<registry, free, resets, stage, plan, at, attempts, answer, log>>

Quiescent ==
  /\ \A r \in Requests : stage[r] \in {"done", "leaked"}
  /\ UNCHANGED vars

Resume(r) ==
  \/ JoinQueue(r) \/ AcquireFails(r) \/ Admit(r)
  \/ \E e \in Exceptions : CallRaises(r, e)
  \/ \E o \in {"retryable", "final"} : CallReplies(r, o) \/ StreamOpens(r, o)
  \/ Drained(r) \/ StreamStarts(r)
  \/ \E o \in StreamOutcomes : StreamEnds(r, o)
  \/ InsertRequest(r) \/ SaveAttempt(r) \/ SaveFails(r) \/ Respond(r)

Next ==
  \/ \E r \in Requests :
       \/ Resolve(r) \/ AdapterRefuses(r)
       \/ CallCancelled(r) \/ BadBody(r) \/ DrainFails(r) \/ Abandon(r) \/ InsertFails(r)
       \/ Resume(r)
  \/ Reload \/ ResetLog \/ ResetGauge
  \/ Quiescent

\* Woken tasks run and calls end (every call has a timeout, main.py:561).
Fairness ==
  /\ WF_vars(ResetGauge)
  /\ \A r \in Requests : WF_vars(Resume(r))

Spec == Init /\ [][Next]_vars /\ Fairness
-----------------------------------------------------------------------------
Stages == {"new", "prepare", "queued", "calling", "draining", "opened", "streaming",
           "logging", "saving", "done", "leaked"}
Outcomes == Exceptions \cup StreamOutcomes \cup {"retryable"}

\* Types and ranges; the gauge never goes below zero.
TypeOK ==
  /\ epoch \in 0 .. MaxReloads /\ table \in Tables
  /\ free \in [Runtimes -> 0 .. MaxConcurrency]
  /\ gauge \in Nat /\ gaugeBy \in [Selectors -> Nat]
  /\ resets \in 0 .. MaxResets /\ resetting \in BOOLEAN
  /\ stage \in [Requests -> Stages]
  /\ kind \in [Requests -> Kinds]
  /\ selector \in [Requests -> Selectors]
  /\ targets \in [Requests -> Seq(Runtimes)]
  /\ at \in [Requests -> Nat]
  /\ attempts \in [Requests ->
       Seq([runtime : Runtimes, outcome : Outcomes, fallback : BOOLEAN])]
  /\ answer \in [Requests -> {"none", "refused", "failed", "forwarded", "crash"}]
  /\ row \in [Requests -> {"none", "present", "deleted"}]
  /\ saved \in [Requests -> Nat]

Queued(q) == {r \in Requests : stage[r] = "queued" /\ selector[r] = q}
AllQueued == {r \in Requests : stage[r] = "queued"}

HoldingStages == {"calling", "draining", "opened", "streaming", "leaked"}
Holders(rt) == {r \in Requests : stage[r] \in HoldingStages /\ Current(r) = rt}

\* Every slot of every runtime is free or accounted for by one request, on the
\* runtime that request resolved: fallbacks, failures, streams and reloads in
\* any order neither lose nor invent one.  The only slots that do not come back
\* are those of requests that ended in stage "leaked".
SlotsExact == \A rt \in Runtimes : free[rt] + Cardinality(Holders(rt)) = MaxConcurrency

\* queue_state.py:5 - the gauge counts the queued requests, in all and by model.
GaugeExact ==
  /\ gauge = Cardinality(AllQueued)
  /\ \A q \in Selectors : gaugeBy[q] = Cardinality(Queued(q))

\* What is left of it when /reset may run at any time: the gauge never counts
\* a request that is not queued, so it is exact again once the queue was empty.
GaugeNeverOverstates ==
  /\ gauge <= Cardinality(AllQueued)
  /\ \A q \in Selectors : gaugeBy[q] <= Cardinality(Queued(q))

\* README.md:25, "ordered targets per alias, with automatic failover on transient
\* errors": the attempts are the first targets in order, and a target was only
\* left for the next one on a failure that did not reach the provider or that
\* the provider asked to retry, never on a timeout or a broken call.
FailoverInOrder ==
  \A r \in Requests :
    /\ Len(attempts[r]) <= at[r]
    /\ \A i \in DOMAIN attempts[r] :
         /\ attempts[r][i].runtime = targets[r][i]
         /\ i < at[r] => attempts[r][i].outcome \in Transient

\* A client that got the provider's answer has a complete record: its row and
\* one attempt row for each attempt, unless the log was erased after it.
ForwardedIsLogged ==
  \A r \in Requests :
    answer[r] = "forwarded" =>
      \/ row[r] = "present" /\ saved[r] = Len(attempts[r])
      \/ row[r] = "deleted"

\* No request stays in the queue forever, and every one that was admitted ends,
\* as long as no slot is leaked.
QueuedAreAnswered == \A r \in Requests : stage[r] = "queued" ~> stage[r] = "done"

\* The paths use each runtime's capacity as ConcurrencyLimit allows: they wait,
\* are admitted within the limit, and leave once.
Limit(rt) == INSTANCE ConcurrencyLimit WITH
  Callers <- Requests, Limit <- MaxConcurrency, Limited <- TRUE,
  waiting <- {r \in Requests : stage[r] = "queued" /\ Current(r) = rt},
  inside <- Holders(rt)
LimitsKept ==
  [][\A rt \in Runtimes : Limit(rt)!Next \/ UNCHANGED Limit(rt)!vars]_vars
=============================================================================
