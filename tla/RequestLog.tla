----------------------------- MODULE RequestLog -----------------------------
(***************************************************************************)
(* The log of requests in PostgreSQL (app/db.py: insert_request to         *)
(* reset_all, find_matching_ids to delete_request; app/main.py: run_purge, *)
(* the periodic tasks, the deletion handlers and /reset).                  *)
(*                                                                         *)
(* A request has a payload row in requests, which its attempts refer to,   *)
(* and a row without payload in request_stats, which is what search starts *)
(* from.  Handlers insert, delete, reset and, when settings are saved,     *)
(* purge, while the periodic purge and the sampler run in the background,  *)
(* each a sequence of statements in one transaction (module Database).  A  *)
(* row is its table and its id; contents are left out.  Each table has its *)
(* own retention period, any positive one; it may be shortened while the   *)
(* program runs, and is not lengthened here.                               *)
(***************************************************************************)
EXTENDS Sequences, FiniteSetsExt

CONSTANTS
  Handlers,        \* tasks of requests that write, delete or purge
  Duties,          \* bound: of each handler, what it may be about
  purger, sampler, \* periodic_purge, periodic_state_sampler
  LastId,          \* bound: ids a sequence hands out
  Backlog,         \* ids of the rows the log starts with
  Filters,         \* sets of ids a bulk delete may match
  MaxRows,         \* the *_MAX_ROWS of each table
  Oldest,          \* bound: of each table, the last id that expires
  Batch,           \* rows one DELETE of the purge takes: 5000
  PoolSize,        \* pool_size + max_overflow
  Failures         \* bound: statements, commits and waits that fail

Tables == {"requests", "request_stats", "queue_samples"}
Numberings == {"requests", "queue_samples"}
\* request_stats takes the ids of requests.
Numbered(T) == IF T = "queue_samples" THEN T ELSE "requests"
Ids == 1 .. LastId["requests"] \cup 1 .. LastId["queue_samples"]
LogRows == (Tables \cup {"request_attempts"}) \X Ids
LogTasks == Handlers \cup {purger, sampler}

ASSUME HandlersAssumption == IsFiniteSet(Handlers) /\ purger # sampler /\ {purger, sampler} \cap Handlers = {}
ASSUME BoundsAssumption ==
  /\ LastId \in [Numberings -> Nat] /\ Backlog \in [Numberings -> Nat] /\ \A n \in Numberings : Backlog[n] <= LastId[n]
  /\ Failures \in Nat /\ Batch \in Nat \ {0} /\ PoolSize \in Nat \ {0}
  /\ MaxRows \in [Tables -> Nat] /\ Oldest \in [Tables -> Nat]
\* REQUESTS_MAX_ROWS and REQUEST_STATS_MAX_ROWS, which are no settings.
ASSUME LimitsAssumption == MaxRows["requests"] < MaxRows["request_stats"]

\* request_attempts.request_id REFERENCES requests ON DELETE CASCADE.
Attempts(r) == IF r[1] = "requests" THEN {<<"request_attempts", r[2]>>} ELSE {}

VARIABLES rows, free, context, wants, creates, ins, del, locks
INSTANCE Database WITH Tasks <- LogTasks, Rows <- LogRows, Dependent <- Attempts, Connections <- PoolSize

VARIABLES
  job,             \* what each task does
  ids,             \* the ids it is about
  todo,            \* its remaining steps
  next,            \* the sequence of each table
  expired,         \* of each table, the ids older than its retention
  faults,          \* failures so far
  erased,          \* history: rows whose deletion was reported
  before,          \* history: of a reset, the rows there were when it began
  raced,           \* history: an insert was committed during a reset
  overtaken        \* history: statistics have expired before their payload

database == <<rows, free, context, wants, creates, ins, del, locks>>
vars == <<database, job, ids, todo, next, expired, faults, erased, before, raced, overtaken>>
Id(t) == CHOOSE i \in ids[t] : TRUE
Of(T, S) == {r \in S : r[1] = T}

Insert(T) == [do |-> "insert", table |-> T]
All(T) == [do |-> "all", table |-> T]
These(T) == [do |-> "these", table |-> T]
Old(T) == [do |-> "old", table |-> T]
Excess(T) == [do |-> "excess", table |-> T]
Save == [do |-> "commit", table |-> "none"]

\* Mutant of InsertSteps: the payload is committed before the statistics.
InsertStepsApart == <<Insert("requests"), Save, Insert("request_stats"), Save, Insert("request_attempts"), Save>>

\* insert_request, and insert_request_attempt by save_attempts.
InsertSteps == <<Insert("requests"), Insert("request_stats"), Save, Insert("request_attempts"), Save>>

\* insert_queue_sample
SampleSteps == <<Insert("queue_samples"), Save>>

\* purge_all_tables, with the advisory lock.
PurgeSteps ==
  <<Old("requests"), Excess("requests"), Old("request_stats"), Excess("request_stats"),
    Old("queue_samples"), Excess("queue_samples"), Save>>

\* reset_all
ResetSteps == <<All("requests"), All("request_stats"), All("queue_samples"), Save>>

\* delete_by_ids, of at most 500 ids: one round.
DeleteMatchingSteps == <<These("requests"), These("request_stats"), Save>>

\* Mutant of DeleteSteps: the payload is forgotten.
DeleteStepsStatsOnly == <<These("request_stats"), Save>>

\* delete_request
DeleteSteps == <<These("request_stats"), These("requests"), Save>>

Program(kind) ==
  CASE kind = "insert" -> InsertSteps
    [] kind = "sample" -> SampleSteps
    [] kind = "purge" -> PurgeSteps
    [] kind = "reset" -> ResetSteps
    [] kind = "delete_matching" -> DeleteMatchingSteps
    [] kind = "delete" -> DeleteSteps

-----------------------------------------------------------------------------
(* The statements.                                                         *)

\* Of the rows S, the n with the lowest ids.
Lowest(S, n) == {r \in S : Cardinality({o \in S : o[2] < r[2]}) < n}

\* Mutant of Beyond: the offset is one too small.
BeyondAllButOne(T, S) == {r \in S : Cardinality({o \in S : o[2] > r[2]}) \in MaxRows[T] - 1 .. MaxRows[T] + Batch - 1}

\* ORDER BY id DESC OFFSET MaxRows LIMIT Batch: the newest beyond the limit.
Beyond(T, S) == {r \in S : Cardinality({o \in S : o[2] > r[2]}) \in MaxRows[T] .. MaxRows[T] + Batch - 1}

\* What the step s of t deletes, of what it sees when it is sent.
Chosen(t, s) ==
  LET seen == Of(s.table, Visible(t))
  IN  CASE s.do = "all" -> seen
        [] s.do = "these" -> {r \in seen : r[2] \in ids[t]}
        [] s.do = "old" -> Lowest({r \in seen : r[2] <= expired[s.table]}, Batch)
        [] s.do = "excess" -> Beyond(s.table, seen)
        [] OTHER -> {}

\* The statement of the step s.
Statement(t, s) ==
  [insert |-> IF s.do = "insert" THEN {<<s.table, Id(t)>>} ELSE {},
   delete |-> Chosen(t, s),
   share |-> IF s.table = "request_attempts" THEN {<<"requests", Id(t)>>} ELSE {}]

-----------------------------------------------------------------------------
(* Tasks.                                                                  *)

Busy(t) == todo[t] # <<>>
Fault == faults < Failures /\ faults' = faults + 1
Aside == UNCHANGED <<next, expired, erased, before, raced, overtaken>>

\* The handler has read what it needs, and begins.
Set(t, kind, about) ==
  /\ job' = [job EXCEPT ![t] = kind]
  /\ ids' = [ids EXCEPT ![t] = about]
  /\ todo' = [todo EXCEPT ![t] = Program(kind)]

\* The job of t is over; a background task goes on with its next round.
Over(t, how) ==
  /\ job' = [job EXCEPT ![t] = IF t \in Handlers \/ how = "failed" THEN how ELSE "idle"]
  /\ todo' = [todo EXCEPT ![t] = <<>>]
  /\ UNCHANGED ids

Known == {r[2] : r \in Of("request_stats", rows)}

\* BIGSERIAL: an id is handed out once.
BeginInsert(t) ==
  /\ job[t] = "idle" /\ "insert" \in Duties[t] /\ next["requests"] < LastId["requests"]
  /\ Set(t, "insert", {next["requests"] + 1})
  /\ next' = [next EXCEPT !["requests"] = @ + 1]
  /\ UNCHANGED <<database, expired, faults, erased, before, raced, overtaken>>

\* api_delete_request, of a request the dashboard has shown.
BeginDelete(t) ==
  /\ job[t] = "idle" /\ "delete" \in Duties[t]
  /\ \E i \in Known : Set(t, "delete", {i})
  /\ UNCHANGED <<database, faults>> /\ Aside

\* api_delete_matching with confirm: find_matching_ids.
BeginDeleteMatching(t) ==
  /\ job[t] = "idle" /\ "delete_matching" \in Duties[t]
  /\ \E f \in Filters : f \cap Known # {} /\ Set(t, "delete_matching", f \cap Known)
  /\ UNCHANGED <<database, faults>> /\ Aside

\* /reset
BeginReset(t) ==
  /\ job[t] = "idle" /\ "reset" \in Duties[t]
  /\ Set(t, "reset", {})
  /\ before' = [before EXCEPT ![t] = rows]
  /\ UNCHANGED <<database, next, expired, faults, erased, raced, overtaken>>

\* A round of periodic_state_sampler.
BeginSample ==
  /\ job[sampler] = "idle" /\ next["queue_samples"] < LastId["queue_samples"]
  /\ Set(sampler, "sample", {next["queue_samples"] + 1})
  /\ next' = [next EXCEPT !["queue_samples"] = @ + 1]
  /\ UNCHANGED <<database, expired, faults, erased, before, raced, overtaken>>

Purging(t) == job[t] = "purge"

\* run_purge, by periodic_purge or at the end of update_settings, which holds
\* settings_lock: begin, and the advisory lock, which is held to the end of the
\* transaction.  Where another has it, this one is rolled back, empty, and the
\* purge is over.
BeginPurge(t) ==
  /\ job[t] = "idle"
  /\ t \in Handlers => "purge" \in Duties[t] /\ \A o \in Handlers : ~Purging(o)
  /\ IF \A o \in LogTasks : ~Purging(o)
     THEN Begin(t) /\ Set(t, "purge", {})
     ELSE free > 0 /\ Over(t, "done") /\ UNCHANGED database
  /\ UNCHANGED faults /\ Aside

\* The statement of the next step, waiting or not yet sent.
Upcoming(t) == IF Waiting(t) THEN wants[t] ELSE Statement(t, Head(todo[t]))

\* await conn.execute of the next step.
Send(t) ==
  /\ Busy(t) /\ Head(todo[t]) # Save
  /\ \/ /\ Execute(t, Upcoming(t)) \/ Resume(t)
        /\ todo' = [todo EXCEPT ![t] = Tail(@)]
     \/ /\ Queue(t, Upcoming(t))
        /\ UNCHANGED todo
  /\ UNCHANGED <<job, ids, faults>> /\ Aside

\* What the caller is told is gone.
Reported(t) ==
  CASE job[t] = "reset" -> before[t]
    [] job[t] \in {"delete", "delete_matching"} -> {"requests", "request_stats"} \X ids[t]
    [] OTHER -> {}

Finish(t) ==
  /\ Busy(t) /\ Head(todo[t]) = Save
  /\ Commit(t)
  /\ IF Len(todo[t]) > 1
     THEN /\ todo' = [todo EXCEPT ![t] = Tail(@)]
          /\ UNCHANGED <<job, ids, erased>>
     ELSE /\ Over(t, "done")
          /\ erased' = erased \cup Reported(t)
  /\ raced' = (raced \/ (job[t] = "insert" /\ \E o \in Handlers : job[o] = "reset"))
  /\ UNCHANGED <<next, expired, faults, before, overtaken>>

-----------------------------------------------------------------------------
(* What may go wrong.                                                      *)

\* The statement of t raises; purge_all_tables rolls back whatever raised.
Throws(t) == IF Purging(t) THEN Rollback(t) /\ Answered(t) ELSE Raises(t)

\* An exception leaves the handler, or ends the background task, which has
\* no handler for it: the database or the pool does not answer.
Fail(t) ==
  /\ Fault /\ Busy(t)
  /\ IF Head(todo[t]) = Save THEN CommitFails(t) ELSE Throws(t)
  /\ Over(t, "failed") /\ Aside

\* The server refuses the statement: the request is gone, or a deadlock.
Reject(t) ==
  /\ Busy(t) /\ Head(todo[t]) # Save
  /\ Refused(t, Upcoming(t)) \/ Deadlocked(t)
  /\ Throws(t)
  /\ Over(t, "failed") /\ UNCHANGED faults /\ Aside

\* The client of a stream goes away while the row is written.
Disconnect(t) ==
  /\ job[t] = "insert" /\ Holding(t)
  /\ Cancelled(t)
  /\ Over(t, "failed") /\ Fault /\ Aside

\* The task of the handler ends.
EndTask(t) ==
  /\ job[t] \in {"done", "failed"}
  /\ Collect(t)
  /\ UNCHANGED <<job, ids, todo, faults>> /\ Aside

\* Time passes, or settings shorten the period.  For a purge it is the time
\* when its transaction began, CURRENT_TIMESTAMP: more expires only after it.
Expire(T) ==
  /\ expired[T] < Oldest[T] /\ \A t \in LogTasks : ~Purging(t)
  /\ expired' = [expired EXCEPT ![T] = @ + 1]
  /\ overtaken' = (overtaken \/ expired'["request_stats"] > expired'["requests"])
  /\ UNCHANGED <<database, job, ids, todo, next, faults, erased, before, raced>>
-----------------------------------------------------------------------------
Init ==
  /\ Connect({r \in LogRows : r[1] \in Tables /\ r[2] <= Backlog[Numbered(r[1])]})
  /\ job = [t \in LogTasks |-> "idle"]
  /\ ids = [t \in LogTasks |-> {}]
  /\ todo = [t \in LogTasks |-> <<>>]
  /\ next = Backlog
  /\ expired = [T \in Tables |-> 0]
  /\ faults = 0
  /\ erased = {} /\ before = [t \in LogTasks |-> {}] /\ raced = FALSE /\ overtaken = FALSE

Begins(t) == BeginInsert(t) \/ BeginDelete(t) \/ BeginDeleteMatching(t) \/ BeginReset(t) \/ BeginPurge(t)
Works(t) == Send(t) \/ Finish(t) \/ Reject(t)

Next ==
  \/ \E t \in Handlers : Begins(t) \/ Disconnect(t) \/ EndTask(t)
  \/ BeginSample \/ BeginPurge(purger)
  \/ \E t \in LogTasks : Works(t) \/ Fail(t)
  \/ \E T \in Tables : Expire(T)

\* What is ready runs: the loop, the server and the pool's queue are fair,
\* and the purge comes round again.  Of the other tasks, whose steps are
\* bounded, it is enough that some one goes on.
Fairness ==
  /\ WF_vars(\E t \in Handlers : Works(t) \/ EndTask(t)) /\ WF_vars(Works(sampler))
  /\ WF_vars(BeginPurge(purger) \/ Works(purger))

Spec == Init /\ [][Next]_vars /\ Fairness

-----------------------------------------------------------------------------
(* Properties.                                                             *)

\* Types: of Database, and jobs and steps that exist.
TypeOK ==
  /\ DatabaseTypeOK
  /\ job \in [LogTasks -> {"idle", "insert", "sample", "purge", "reset", "delete", "delete_matching", "done", "failed"}]
  /\ \A t \in LogTasks : Len(todo[t]) \in 0 .. 7 /\ (todo[t] # <<>> <=> job[t] \notin {"idle", "done", "failed"})
  /\ ids \in [LogTasks -> SUBSET Ids]
  /\ \A n \in Numberings : next[n] <= LastId[n]
  /\ \A T \in Tables : expired[T] <= Oldest[T]

\* Every connection is with a task or in the pool, and a task that is done,
\* or in the background ended or asleep, has none: database.py commit and
\* rollback close what execute opened.
ConnectionsExact ==
  /\ TypeOK
  /\ free = PoolSize - Cardinality({t \in LogTasks : Holding(t)})
  /\ \A t \in LogTasks :
       job[t] \in {"idle", "done"} \/ (t \in {purger, sampler} /\ job[t] = "failed") => ~Holding(t)

\* The purge keeps up: the statistics that expire while the program runs are
\* a batch at most, and of requests that were complete before; and either all
\* ids fit in request_stats, or one batch takes every payload beyond the limit
\* and fewer requests are logged than the limits of the two tables differ by.
PurgeKeepsUp ==
  /\ Oldest["request_stats"] <= Batch /\ Oldest["request_stats"] <= Backlog["requests"]
  /\ \/ LastId["requests"] <= MaxRows["request_stats"]
     \/ /\ LastId["requests"] <= MaxRows["requests"] + Batch
        /\ LastId["requests"] - Backlog["requests"] <= MaxRows["request_stats"] - MaxRows["requests"]

\* The payload of a request is stored with its statistics, which are how it
\* is found (search starts from request_stats): no row of requests is ever
\* without, and no attempt without its request, whichever of purge, deletion
\* and failure meet.  Three ways around it exist and are excepted: a request
\* is logged during a /reset, which erases its statistics and not its payload
\* (raced); the settings keep statistics for a shorter time than payloads, and
\* db.py:342-343 deletes each table by its own period (overtaken); and the
\* purge does not keep up: it goes on to the statistics when it has left
\* payloads for its next round.
PayloadsFindable ==
  LET idsOf(T) == {r[2] : r \in Of(T, rows)}
  IN  /\ idsOf("request_attempts") \subseteq idsOf("requests")
      /\ PurgeKeepsUp /\ ~raced /\ ~overtaken => idsOf("requests") \subseteq idsOf("request_stats")

\* What a deletion or a reset reported as done stays gone: no purge, no
\* late insert and no failed transaction brings it back (main.py:2202, 2272).
ErasedStaysErased == rows \cap erased = {}

\* A purge takes no payload and no statistics before their time: of what
\* has not expired only rows with at least MaxRows newer ones.
PurgeSparesNewest ==
  [][\A t \in LogTasks, r \in rows \ rows' :
       Purging(t) /\ ~Purging(t)' /\ r[1] \in Tables /\ r[2] > expired[r[1]]
         => next[Numbered(r[1])] - r[2] >= MaxRows[r[1]]]_vars

\* When there is nothing left to do every connection is back in the pool:
\* deadlocks are broken, nobody waits for a connection with one in hand, and
\* what a failed handler leaves in its context goes with its task.
PoolRefills == []<>(free = PoolSize)

\* As long as the purge lives, the log ends within its limits.
EndsWithinLimits ==
  <>[](job[purger] # "failed" =>
         \A T \in Tables :
           /\ Cardinality(Of(T, rows)) <= MaxRows[T]
           /\ \A r \in Of(T, rows) : r[2] > expired[T])

\* Retention (db.py _purge_table) removes what it should and no more.
RetentionHolds == PurgeSparesNewest /\ EndsWithinLimits
=============================================================================
