------------------------------ MODULE Capacity ------------------------------
(***************************************************************************)
(* CapacityController (app/multi_provider.py): the admission control every *)
(* upstream call of one provider goes through.  acquire takes one request  *)
(* token, then the reserved tokens in chunks no larger than the token      *)
(* bucket, then a semaphore slot; release refunds what was reserved and    *)
(* not used and gives the slot back.  Each of the three limits is present  *)
(* only when the provider configures it.                                   *)
(*                                                                         *)
(* A task can be suspended, and so be interleaved with others or be        *)
(* cancelled, only where acquire waits: in either bucket or on the         *)
(* semaphore.  The state lock never spans an await, so its critical        *)
(* sections are part of the step around them, and release is one step.     *)
(* A step here ends at each point where acquire MAY wait, whether or not   *)
(* it has to; that allows more interleavings than the event loop does.     *)
(***************************************************************************)
EXTENDS Integers, FiniteSets, Sequences, SequencesExt

CONSTANTS
  Callers,             \* tasks that make one upstream call each
  Reservations,        \* token reservations: at least 1 (estimate_requested_tokens)
  Usages,              \* token counts a provider may report
  NoUsage,             \* release(reserved, None)
  HasRequestBucket,    \* rate_limit_rpm is set
  RequestCost,         \* one request, in the integer unit of the request bucket
  RequestBurst,        \* request_burst, in that unit
  HasTokenBucket,      \* tokens_per_minute is set
  TokenBurst,          \* token_burst or tokens_per_minute, rounded down
  HasSemaphore,        \* max_concurrency is set
  MaxConcurrency

ASSUME CallersAssumption == IsFiniteSet(Callers)
ASSUME ReservationsAssumption == Reservations \subseteq Nat \ {0}
ASSUME UsagesAssumption == Usages \subseteq Nat /\ NoUsage \notin Nat
ASSUME LimitsAssumption ==
  /\ RequestCost \in Nat \ {0} /\ RequestBurst \in Nat
  /\ TokenBurst \in Nat \ {0}
  /\ MaxConcurrency \in Nat \ {0}
  /\ {HasRequestBucket, HasTokenBucket, HasSemaphore} \subseteq BOOLEAN

VARIABLES
  stage,               \* where each caller is
  reserved,            \* token_reservation of each caller
  remaining,           \* the loop variable of acquire: tokens still to take
  usage,               \* what each caller reported to release
  requestLevel, requestMinted, requestSpent,    \* self.request_bucket
  tokenLevel, tokenMinted, tokenSpent,          \* self.token_bucket
  slots,               \* self.semaphore._value
  waiters,             \* the semaphore's FIFO of waiting tasks
  queued,              \* self._queued
  active               \* self._active

requestBucket == <<requestLevel, requestMinted, requestSpent>>
tokenBucket == <<tokenLevel, tokenMinted, tokenSpent>>
semaphore == <<slots, waiters>>
vars == <<stage, reserved, remaining, usage, requestBucket, tokenBucket,
          semaphore, queued, active>>

Requests == INSTANCE Bucket WITH
  level <- requestLevel,
  minted <- requestMinted, spent <- requestSpent
Tokens == INSTANCE Bucket WITH
  level <- tokenLevel,
  minted <- tokenMinted, spent <- tokenSpent

Move(c, s) == stage' = [stage EXCEPT ![c] = s]

WaitingStages == {"request", "tokens", "slot"}
Waiting == {c \in Callers : stage[c] \in WaitingStages}
Active == {c \in Callers : stage[c] = "active"}

Init ==
  /\ stage = [c \in Callers |-> "idle"]
  /\ reserved = [c \in Callers |-> 0]
  /\ remaining = [c \in Callers |-> 0]
  /\ usage = [c \in Callers |-> NoUsage]
  /\ Requests!Fill(RequestBurst)
  /\ Tokens!Fill(TokenBurst)
  /\ slots = MaxConcurrency
  /\ waiters = <<>>
  /\ queued = 0
  /\ active = 0

\* acquire(n): counted as queued before any limit is looked at.
Enter(c, n) ==
  /\ stage[c] = "idle"
  /\ Move(c, "request")
  /\ reserved' = [reserved EXCEPT ![c] = n]
  /\ remaining' = [remaining EXCEPT ![c] = n]
  /\ queued' = queued + 1
  /\ UNCHANGED <<usage, requestBucket, tokenBucket, semaphore, active>>

\* Mutant of RejectRequest: the queue is left on success only.
RejectStillQueued(c) ==
  /\ stage[c] = "request"
  /\ HasRequestBucket /\ RequestCost > RequestBurst
  /\ Move(c, "rejected")
  /\ UNCHANGED <<reserved, remaining, usage, requestBucket, tokenBucket, semaphore, queued, active>>

\* A burst smaller than one request: the bucket raises, the finally clause
\* still leaves the queue.
RejectRequest(c) ==
  /\ stage[c] = "request"
  /\ HasRequestBucket /\ RequestCost > RequestBurst
  /\ Move(c, "rejected")
  /\ queued' = queued - 1
  /\ UNCHANGED <<reserved, remaining, usage, requestBucket, tokenBucket, semaphore, active>>

TakeRequest(c) ==
  /\ stage[c] = "request"
  /\ IF HasRequestBucket THEN Requests!Debit(RequestCost) ELSE UNCHANGED requestBucket
  /\ Move(c, "tokens")
  /\ UNCHANGED <<reserved, remaining, usage, tokenBucket, semaphore, queued, active>>

Chunk(c) == Tokens!AtMost(remaining[c], TokenBurst)

\* Mutant of TakeTokens: the whole reservation is asked for at once.
TakeTokensAtOnce(c) ==
  /\ stage[c] = "tokens"
  /\ HasTokenBucket /\ remaining[c] > 0
  /\ Tokens!Debit(remaining[c])
  /\ remaining' = [remaining EXCEPT ![c] = 0]
  /\ UNCHANGED <<stage, reserved, usage, requestBucket, semaphore, queued, active>>

\* One turn of the chunk loop.
TakeTokens(c) ==
  /\ stage[c] = "tokens"
  /\ HasTokenBucket /\ remaining[c] > 0
  /\ Tokens!Debit(Chunk(c))
  /\ remaining' = [remaining EXCEPT ![c] = @ - Chunk(c)]
  /\ UNCHANGED <<stage, reserved, usage, requestBucket, semaphore, queued, active>>

\* The loop is over, or there was none: line up for the semaphore.
ReachSemaphore(c) ==
  /\ stage[c] = "tokens"
  /\ HasTokenBucket => remaining[c] = 0
  /\ Move(c, "slot")
  /\ waiters' = IF HasSemaphore THEN Append(waiters, c) ELSE waiters
  /\ UNCHANGED <<reserved, remaining, usage, requestBucket, tokenBucket, slots, queued, active>>

\* Mutant of TakeSlot: the head of the line does not wait for a free slot.
TakeSlotUnguarded(c) ==
  /\ stage[c] = "slot"
  /\ HasSemaphore => waiters # <<>> /\ c = Head(waiters)
  /\ slots' = IF HasSemaphore /\ slots > 0 THEN slots - 1 ELSE slots
  /\ waiters' = IF HasSemaphore THEN Tail(waiters) ELSE waiters
  /\ Move(c, "active")
  /\ active' = active + 1
  /\ queued' = queued - 1
  /\ UNCHANGED <<reserved, remaining, usage, requestBucket, tokenBucket>>

\* The semaphore serves its waiters in order, then acquire returns.
TakeSlot(c) ==
  /\ stage[c] = "slot"
  /\ IF HasSemaphore
     THEN /\ slots > 0
          /\ waiters # <<>> /\ c = Head(waiters)
          /\ slots' = slots - 1
          /\ waiters' = Tail(waiters)
     ELSE UNCHANGED semaphore
  /\ Move(c, "active")
  /\ active' = active + 1
  /\ queued' = queued - 1
  /\ UNCHANGED <<reserved, remaining, usage, requestBucket, tokenBucket>>

\* A cancelled waiter of the semaphore removes itself from the line.
LeaveLine(c) ==
  IF HasSemaphore /\ stage[c] = "slot"
  THEN \E i \in DOMAIN waiters : waiters[i] = c /\ waiters' = RemoveAt(waiters, i)
  ELSE UNCHANGED waiters

\* Mutant of Cancel: acquire without its finally clause.
CancelStillQueued(c) ==
  /\ stage[c] \in WaitingStages
  /\ Move(c, "cancelled")
  /\ LeaveLine(c)
  /\ UNCHANGED <<reserved, remaining, usage, requestBucket, tokenBucket, slots, queued, active>>

\* The task is cancelled while it waits: it leaves the queue and the
\* semaphore's line; what it already took from the buckets stays taken.
Cancel(c) ==
  /\ stage[c] \in WaitingStages
  /\ Move(c, "cancelled")
  /\ LeaveLine(c)
  /\ queued' = queued - 1
  /\ UNCHANGED <<reserved, remaining, usage, requestBucket, tokenBucket, slots, active>>

\* Mutant of Release: a call that reported no usage keeps its slot.
ReleaseReportedOnly(c, actual) ==
  /\ stage[c] = "active"
  /\ IF HasTokenBucket /\ actual # NoUsage
     THEN Tokens!Credit(TokenBurst, reserved[c] - actual)
     ELSE UNCHANGED tokenBucket
  /\ slots' = IF HasSemaphore /\ actual # NoUsage THEN slots + 1 ELSE slots
  /\ active' = IF active > 0 THEN active - 1 ELSE 0
  /\ usage' = [usage EXCEPT ![c] = actual]
  /\ Move(c, "done")
  /\ UNCHANGED <<reserved, remaining, requestBucket, waiters, queued>>

\* Mutant of Release: what was used is refunded instead of what was not.
ReleaseRefundsUsage(c, actual) ==
  /\ stage[c] = "active"
  /\ IF HasTokenBucket /\ actual # NoUsage /\ actual < reserved[c]
     THEN Tokens!Credit(TokenBurst, actual)
     ELSE UNCHANGED tokenBucket
  /\ slots' = IF HasSemaphore THEN slots + 1 ELSE slots
  /\ active' = IF active > 0 THEN active - 1 ELSE 0
  /\ usage' = [usage EXCEPT ![c] = actual]
  /\ Move(c, "done")
  /\ UNCHANGED <<reserved, remaining, requestBucket, waiters, queued>>

\* release(reserved, actual): only unused tokens are settled; a call that used
\* more than it reserved is not charged for the difference.
Release(c, actual) ==
  /\ stage[c] = "active"
  /\ IF HasTokenBucket /\ actual # NoUsage
     THEN Tokens!Credit(TokenBurst, reserved[c] - actual)
     ELSE UNCHANGED tokenBucket
  /\ slots' = IF HasSemaphore THEN slots + 1 ELSE slots
  /\ active' = IF active > 0 THEN active - 1 ELSE 0
  /\ usage' = [usage EXCEPT ![c] = actual]
  /\ Move(c, "done")
  /\ UNCHANGED <<reserved, remaining, requestBucket, waiters, queued>>

RefillRequests ==
  /\ HasRequestBucket
  /\ Requests!Tick(RequestBurst)
  /\ UNCHANGED <<stage, reserved, remaining, usage, tokenBucket, semaphore, queued, active>>

RefillTokens ==
  /\ HasTokenBucket
  /\ Tokens!Tick(TokenBurst)
  /\ UNCHANGED <<stage, reserved, remaining, usage, requestBucket, semaphore, queued, active>>

\* Every caller has finished and both buckets are full again.
Quiescent ==
  /\ \A c \in Callers : stage[c] \in {"done", "rejected", "cancelled"}
  /\ requestLevel = RequestBurst /\ tokenLevel = TokenBurst
  /\ UNCHANGED vars

Next ==
  \/ \E c \in Callers :
       \/ \E n \in Reservations : Enter(c, n)
       \/ RejectRequest(c) \/ TakeRequest(c) \/ TakeTokens(c)
       \/ ReachSemaphore(c) \/ TakeSlot(c) \/ Cancel(c)
       \/ \E u \in Usages \cup {NoUsage} : Release(c, u)
  \/ RefillRequests \/ RefillTokens
  \/ Quiescent

\* Time passes, woken tasks run, and an upstream call ends: every call has a
\* timeout (main.py:561), and the request path then releases.
Fairness ==
  /\ WF_vars(RefillRequests) /\ WF_vars(RefillTokens)
  /\ \A c \in Callers :
       /\ WF_vars(RejectRequest(c)) /\ WF_vars(TakeRequest(c))
       /\ WF_vars(TakeTokens(c)) /\ WF_vars(ReachSemaphore(c)) /\ WF_vars(TakeSlot(c))
       /\ WF_vars(\E u \in Usages \cup {NoUsage} : Release(c, u))

Spec == Init /\ [][Next]_vars /\ Fairness
-----------------------------------------------------------------------------
Stages == WaitingStages \cup {"idle", "active", "done", "rejected", "cancelled"}

\* Types and ranges: levels stay within the buckets and the semaphore never
\* holds more than its initial value (release is called once per admission).
TypeOK ==
  /\ stage \in [Callers -> Stages]
  /\ reserved \in [Callers -> Nat]
  /\ remaining \in [Callers -> Nat]
  /\ usage \in [Callers -> Usages \cup {NoUsage}]
  /\ requestLevel \in 0 .. RequestBurst /\ requestMinted \in Nat /\ requestSpent \in Int
  /\ tokenLevel \in 0 .. TokenBurst /\ tokenMinted \in Nat /\ tokenSpent \in Int
  /\ slots \in 0 .. MaxConcurrency
  /\ waiters \in Seq(Callers)
  /\ queued \in Nat /\ active \in Nat

\* No slot is lost or invented by cancellations, rejections and releases in
\* any order: the free ones and the running calls add up to max_concurrency.
SlotsConserved == HasSemaphore => slots + Cardinality(Active) = MaxConcurrency

\* What the dashboard shows (snapshot) is the truth: `queued' and `active' are
\* the numbers of callers that wait and that run, however acquire was left.
GaugesExact == queued = Cardinality(Waiting) /\ active = Cardinality(Active)

\* Callers that have paid for a request, whether or not they got any further.
Paid == {c \in Callers : stage[c] \in {"tokens", "slot", "active", "done"}}

\* The RPM limit: the calls that went through the request bucket never exceed
\* one burst plus what has refilled since.
RequestsPaced ==
  HasRequestBucket => RequestCost * Cardinality(Paid) <= RequestBurst + requestMinted

\* What a caller costs the token bucket: what it took, less what release refunds.
Charge(c) ==
  IF stage[c] = "done" /\ usage[c] # NoUsage /\ usage[c] < reserved[c]
  THEN usage[c]
  ELSE reserved[c] - remaining[c]

\* Reservation and reconciliation: the bucket has been charged exactly the
\* chunks taken by unfinished, cancelled and unreported calls and the smaller
\* of reservation and usage of the others; chunks of several callers mix freely.
TokensAccounted ==
  HasTokenBucket => tokenSpent = SumFunction([c \in Callers |-> Charge(c)])

\* The TPM limit: charges never exceed one burst plus what has refilled.
TokensPaced == tokenLevel + tokenSpent <= TokenBurst + tokenMinted

\* Neither limit is exceeded, however the callers' waits, chunks, cancellations
\* and refunds interleave.
Paced == RequestsPaced /\ TokensPaced

\* Every call that is queued is decided: it runs, or is rejected or cancelled.
\* A reservation larger than the bucket is collected in chunks, and the line
\* moves because running calls end.
QueuedDecided == \A c \in Callers : c \in Waiting ~> c \notin Waiting

\* The controller implements the concurrency limit the request paths rely on.
Limit == INSTANCE ConcurrencyLimit WITH
  Limit <- MaxConcurrency, Limited <- HasSemaphore,
  waiting <- Waiting, inside <- Active
LimitSpec == Limit!Spec
=============================================================================
