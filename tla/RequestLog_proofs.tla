-------------------------- MODULE RequestLog_proofs --------------------------
(***************************************************************************)
(* Proofs about RequestLog, for any handlers, any pool, any limits and any *)
(* number of rows and failures: its types, the accounts of the pool, that  *)
(* what was reported as erased stays erased, that payloads are found by    *)
(* their statistics, and that the purge takes nothing before its time.     *)
(***************************************************************************)
EXTENDS RequestLog, FiniteSetTheorems, SequenceTheorems, TLAPS

Kinds == {"insert", "sample", "purge", "reset", "delete", "delete_matching"}
Resting == {"idle", "done", "failed"}
Steps == [do : {"insert", "all", "these", "old", "excess", "commit"},
          table : Tables \cup {"request_attempts", "none"}]

\* The types of the database, but for the size of the pool.
DbTypes ==
  /\ rows \in SUBSET LogRows
  /\ free \in Nat
  /\ context \in [LogTasks -> {"none", "open", "lost"}]
  /\ wants \in [LogTasks -> Statements \cup {NoStatement}]
  /\ creates \in [LogTasks -> BOOLEAN]
  /\ ins \in [LogTasks -> SUBSET LogRows]
  /\ del \in [LogTasks -> SUBSET LogRows]
  /\ locks \in [LogTasks -> SUBSET LogRows]

\* What is left of the program of t is the end of it.
OnProgram(t) ==
  LET program == Program(job[t])
  IN  IF job[t] \in Resting THEN todo[t] = <<>>
      ELSE /\ Len(todo[t]) \in 1 .. Len(program)
           /\ \A i \in 1 .. Len(todo[t]) :
                todo[t][i] = program[i + Len(program) - Len(todo[t])]

\* Jobs, and what they are about.
Jobs ==
  /\ job \in [LogTasks -> Kinds \cup Resting]
  /\ job[purger] \in {"idle", "purge", "failed"} /\ job[sampler] \in {"idle", "sample", "failed"}
  /\ \A t \in Handlers : job[t] # "sample"
  /\ ids \in [LogTasks -> SUBSET Ids]
  /\ \A t \in LogTasks : job[t] \in {"insert", "sample"} => ids[t] # {}
  /\ todo \in [LogTasks -> Seq(Steps)]
  /\ \A t \in LogTasks : OnProgram(t)

\* Sequences, times and histories.
Clocks ==
  /\ next \in [Numberings -> Nat] /\ \A n \in Numberings : next[n] <= LastId[n]
  /\ expired \in [Tables -> Nat] /\ \A T \in Tables : expired[T] <= Oldest[T]
  /\ before \in [LogTasks -> SUBSET LogRows] /\ erased \in SUBSET LogRows

Holders == {t \in LogTasks : context[t] # "none"}
Counted == free = PoolSize - Cardinality(Holders)

\* Who may hold a connection, and who may wait.
Connected(t) ==
  /\ job[t] \in {"idle", "done"} \/ (t \in {purger, sampler} /\ job[t] = "failed") => ~Holding(t)
  /\ Waiting(t) => Busy(t) /\ Head(todo[t]) # Save /\ Holding(t)
  /\ creates[t] => Waiting(t)
  /\ t = sampler /\ Holding(t) /\ Busy(t) /\ Head(todo[t]) # Save => creates[t]

Base == DbTypes /\ Jobs /\ Clocks /\ Counted /\ \A t \in LogTasks : Connected(t)

-----------------------------------------------------------------------------
(* Programs and statements.                                                *)

\* The programs, step by step.
LEMMA Programs ==
  /\ Len(Program("insert")) = 5 /\ Len(Program("sample")) = 2 /\ Len(Program("purge")) = 7
  /\ Len(Program("reset")) = 4 /\ Len(Program("delete")) = 3 /\ Len(Program("delete_matching")) = 3
  /\ Program("insert")[1] = Insert("requests") /\ Program("insert")[2] = Insert("request_stats")
  /\ Program("insert")[3] = Save /\ Program("insert")[4] = Insert("request_attempts")
  /\ Program("insert")[5] = Save
  /\ Program("sample")[1] = Insert("queue_samples") /\ Program("sample")[2] = Save
  /\ Program("purge")[1] = Old("requests") /\ Program("purge")[2] = Excess("requests")
  /\ Program("purge")[3] = Old("request_stats") /\ Program("purge")[4] = Excess("request_stats")
  /\ Program("purge")[5] = Old("queue_samples") /\ Program("purge")[6] = Excess("queue_samples")
  /\ Program("purge")[7] = Save
  /\ Program("reset")[1] = All("requests") /\ Program("reset")[2] = All("request_stats")
  /\ Program("reset")[3] = All("queue_samples") /\ Program("reset")[4] = Save
  /\ Program("delete")[1] = These("request_stats") /\ Program("delete")[2] = These("requests")
  /\ Program("delete")[3] = Save
  /\ Program("delete_matching")[1] = These("requests")
  /\ Program("delete_matching")[2] = These("request_stats") /\ Program("delete_matching")[3] = Save
BY DEF Program, InsertSteps, SampleSteps, PurgeSteps, ResetSteps, DeleteSteps, DeleteMatchingSteps

\* They are programs of steps.
LEMMA ProgramTypes ==
  ASSUME NEW kind \in Kinds
  PROVE  Program(kind) \in Seq(Steps) /\ Len(Program(kind)) \in 1 .. 7
<1>1. /\ \A T \in Tables \cup {"request_attempts"} :
           Insert(T) \in Steps /\ All(T) \in Steps /\ These(T) \in Steps /\ Old(T) \in Steps
             /\ Excess(T) \in Steps
      /\ Save \in Steps
  BY DEF Insert, All, These, Old, Excess, Save, Steps
<1> HIDE DEF Steps
<1>2. /\ InsertSteps \in Seq(Steps) /\ SampleSteps \in Seq(Steps) /\ ResetSteps \in Seq(Steps)
      /\ DeleteSteps \in Seq(Steps) /\ DeleteMatchingSteps \in Seq(Steps)
  BY <1>1 DEF InsertSteps, SampleSteps, ResetSteps, DeleteSteps, DeleteMatchingSteps, Tables
<1>3. PurgeSteps \in Seq(Steps)
  BY <1>1 DEF PurgeSteps, Tables
<1>4. Program(kind) \in Seq(Steps)
  BY <1>2, <1>3 DEF Program, Kinds
<1> QED BY <1>4, Programs DEF Kinds

\* A task is busy when its job has steps left.
LEMMA Working ==
  ASSUME Jobs, NEW t \in LogTasks
  PROVE  /\ Busy(t) <=> job[t] \in Kinds
         /\ Busy(t) <=> job[t] \notin Resting
         /\ Busy(t) => /\ todo[t] \in Seq(Steps) /\ Len(todo[t]) \in 1 .. Len(Program(job[t]))
                       /\ Head(todo[t]) = todo[t][1] /\ Head(todo[t]) \in Steps
                       /\ Head(todo[t]) = Program(job[t])[1 + Len(Program(job[t])) - Len(todo[t])]
<1>1. job[t] \in Kinds \cup Resting /\ todo[t] \in Seq(Steps) /\ OnProgram(t)
  BY DEF Jobs
<1>2. \A kind \in Kinds : kind \notin Resting
  BY DEF Kinds, Resting
<1>3. CASE job[t] \in Resting
  BY <1>1, <1>2, <1>3 DEF OnProgram, Busy
<1>4. CASE job[t] \notin Resting
  <2>1. job[t] \in Kinds
    BY <1>1, <1>4
  <2>2. /\ Len(todo[t]) \in 1 .. Len(Program(job[t]))
        /\ \A i \in 1 .. Len(todo[t]) :
             todo[t][i] = Program(job[t])[i + Len(Program(job[t])) - Len(todo[t])]
    BY <1>1, <1>4 DEF OnProgram
  <2>3. Len(Program(job[t])) \in 1 .. 7
    BY <2>1, ProgramTypes
  <2>4. todo[t] # <<>> /\ Head(todo[t]) = todo[t][1] /\ Head(todo[t]) \in Steps
    BY <1>1, <2>2, <2>3
  <2>5. todo[t][1] = Program(job[t])[1 + Len(Program(job[t])) - Len(todo[t])]
    <3>1. PICK p : p = Program(job[t])
      OBVIOUS
    <3>2. PICK q : q = todo[t]
      OBVIOUS
    <3>3. PICK m \in 1 .. 7 : m = Len(p)
      BY <2>3, <3>1
    <3>4. Len(q) \in 1 .. m /\ \A i \in 1 .. Len(q) : q[i] = p[i + m - Len(q)]
      BY <2>2, <3>1, <3>2, <3>3
    <3>5. q[1] = p[1 + m - Len(q)]
      BY <3>3, <3>4
    <3> QED BY <3>1, <3>2, <3>3, <3>5
  <2> QED BY <1>1, <1>4, <2>1, <2>2, <2>4, <2>5 DEF Busy
<1> QED BY <1>3, <1>4

\* Steps that are not commits.
LEMMA NotSave ==
  ASSUME NEW T
  PROVE  Insert(T) # Save /\ All(T) # Save /\ These(T) # Save /\ Old(T) # Save /\ Excess(T) # Save
BY DEF Insert, All, These, Old, Excess, Save

\* What is next, by what is left.
LEMMA Heads ==
  ASSUME Jobs, NEW t \in LogTasks, Busy(t)
  PROVE  /\ job[t] = "insert" =>
              /\ Len(todo[t]) \in 1 .. 5
              /\ Len(todo[t]) = 5 => Head(todo[t]) = Insert("requests")
              /\ Len(todo[t]) = 4 => Head(todo[t]) = Insert("request_stats")
              /\ Len(todo[t]) = 3 => Head(todo[t]) = Save
              /\ Len(todo[t]) = 2 => Head(todo[t]) = Insert("request_attempts")
         /\ job[t] = "sample" =>
              /\ Len(todo[t]) \in 1 .. 2
              /\ Len(todo[t]) = 2 => Head(todo[t]) = Insert("queue_samples")
         /\ job[t] = "purge" =>
              /\ Len(todo[t]) \in 1 .. 7
              /\ Len(todo[t]) > 1 => \E T \in Tables : Head(todo[t]) \in {Old(T), Excess(T)}
         /\ job[t] = "reset" =>
              /\ Len(todo[t]) \in 1 .. 4
              /\ Len(todo[t]) = 4 => Head(todo[t]) = All("requests")
              /\ Len(todo[t]) = 3 => Head(todo[t]) = All("request_stats")
              /\ Len(todo[t]) = 2 => Head(todo[t]) = All("queue_samples")
         /\ job[t] = "delete" =>
              /\ Len(todo[t]) \in 1 .. 3
              /\ Len(todo[t]) = 3 => Head(todo[t]) = These("request_stats")
              /\ Len(todo[t]) = 2 => Head(todo[t]) = These("requests")
         /\ job[t] = "delete_matching" =>
              /\ Len(todo[t]) \in 1 .. 3
              /\ Len(todo[t]) = 3 => Head(todo[t]) = These("requests")
              /\ Len(todo[t]) = 2 => Head(todo[t]) = These("request_stats")
         /\ Len(todo[t]) = 1 => Head(todo[t]) = Save
<1>1. /\ job[t] \in Kinds
      /\ Len(todo[t]) \in 1 .. Len(Program(job[t]))
      /\ Head(todo[t]) = Program(job[t])[1 + Len(Program(job[t])) - Len(todo[t])]
  BY Working
<1>2. PICK n : n = Len(todo[t])
  OBVIOUS
<1>3. PICK h : h = Head(todo[t])
  OBVIOUS
<1>4. ASSUME NEW kind, job[t] = kind, NEW m \in Nat, Len(Program(kind)) = m
      PROVE  n \in 1 .. m /\ h = Program(kind)[1 + m - n]
  BY <1>1, <1>2, <1>3, <1>4
<1>5. CASE job[t] = "insert"
  <2>1. n \in 1 .. 5 /\ h = Program("insert")[1 + 5 - n]
    BY <1>4, <1>5, Programs
  <2>2. /\ n = 5 => h = Insert("requests")
        /\ n = 4 => h = Insert("request_stats")
        /\ n = 3 => h = Save
        /\ n = 2 => h = Insert("request_attempts")
        /\ n = 1 => h = Save
    BY <2>1, Programs
  <2> QED BY <1>2, <1>3, <1>5, <2>1, <2>2
<1>6. CASE job[t] = "sample"
  <2>1. n \in 1 .. 2 /\ h = Program("sample")[1 + 2 - n]
    BY <1>4, <1>6, Programs
  <2>2. /\ n = 2 => h = Insert("queue_samples")
        /\ n = 1 => h = Save
    BY <2>1, Programs
  <2> QED BY <1>2, <1>3, <1>6, <2>1, <2>2
<1>7. CASE job[t] = "purge"
  <2>1. n \in 1 .. 7 /\ h = Program("purge")[1 + 7 - n]
    BY <1>4, <1>7, Programs
  <2>2. n = 1 => h = Save
    BY <2>1, Programs
  <2>3. n > 1 => \E T \in Tables : h \in {Old(T), Excess(T)}
    BY <2>1, Programs DEF Tables
  <2> QED BY <1>2, <1>3, <1>7, <2>1, <2>2, <2>3
<1>8. CASE job[t] = "reset"
  <2>1. n \in 1 .. 4 /\ h = Program("reset")[1 + 4 - n]
    BY <1>4, <1>8, Programs
  <2>2. /\ n = 4 => h = All("requests")
        /\ n = 3 => h = All("request_stats")
        /\ n = 2 => h = All("queue_samples")
        /\ n = 1 => h = Save
    BY <2>1, Programs
  <2> QED BY <1>2, <1>3, <1>8, <2>1, <2>2
<1>9. CASE job[t] = "delete"
  <2>1. n \in 1 .. 3 /\ h = Program("delete")[1 + 3 - n]
    BY <1>4, <1>9, Programs
  <2>2. /\ n = 3 => h = These("request_stats")
        /\ n = 2 => h = These("requests")
        /\ n = 1 => h = Save
    BY <2>1, Programs
  <2> QED BY <1>2, <1>3, <1>9, <2>1, <2>2
<1>10. CASE job[t] = "delete_matching"
  <2>1. n \in 1 .. 3 /\ h = Program("delete_matching")[1 + 3 - n]
    BY <1>4, <1>10, Programs
  <2>2. /\ n = 3 => h = These("requests")
        /\ n = 2 => h = These("request_stats")
        /\ n = 1 => h = Save
    BY <2>1, Programs
  <2> QED BY <1>2, <1>3, <1>10, <2>1, <2>2
<1> QED BY <1>1, <1>5, <1>6, <1>7, <1>8, <1>9, <1>10 DEF Kinds

\* A step that is no commit is followed by another.
LEMMA NotLast ==
  ASSUME Jobs, NEW t \in LogTasks, Busy(t), Head(todo[t]) # Save
  PROVE  Len(todo[t]) > 1
<1>1. Len(todo[t]) \in 1 .. Len(Program(job[t])) /\ job[t] \in Kinds
  BY Working
<1>2. PICK m \in 1 .. 7 : m = Len(Program(job[t]))
  BY <1>1, ProgramTypes
<1>3. PICK n : n = Len(todo[t])
  OBVIOUS
<1>4. n # 1
  BY <1>3, Heads
<1>5. n \in 1 .. m
  BY <1>1, <1>2, <1>3
<1>6. n > 1
  BY <1>2, <1>4, <1>5
<1> QED BY <1>3, <1>6

-----------------------------------------------------------------------------
(* What the steps of the database change.                                  *)

\* Only what t has with the database changes.
Others(t) ==
  \A o \in LogTasks \ {t} :
    /\ context'[o] = context[o] /\ wants'[o] = wants[o] /\ creates'[o] = creates[o]
    /\ ins'[o] = ins[o] /\ del'[o] = del[o] /\ locks'[o] = locks[o]

\* There are finitely many tasks, and so holders.
LEMMA FiniteTasks ==
  IsFiniteSet(LogTasks) /\ IsFiniteSet(Holders) /\ Cardinality(Holders) \in Nat
<1>1. IsFiniteSet({purger, sampler})
  <2>1. IsFiniteSet({} \cup {purger})
    BY FS_EmptySet, FS_AddElement
  <2>2. IsFiniteSet(({} \cup {purger}) \cup {sampler})
    BY <2>1, FS_AddElement
  <2>3. {purger, sampler} = ({} \cup {purger}) \cup {sampler}
    OBVIOUS
  <2> QED BY <2>2, <2>3
<1>2. IsFiniteSet(LogTasks)
  BY <1>1, FS_Union, HandlersAssumption DEF LogTasks
<1>3. Holders \subseteq LogTasks
  BY DEF Holders
<1> QED BY <1>2, <1>3, FS_Subset, FS_CardinalityType

\* One more holder, one connection less; and back.
LEMMA Counting ==
  ASSUME NEW S, IsFiniteSet(S), NEW t
  PROVE  /\ t \notin S => Cardinality(S \cup {t}) = Cardinality(S) + 1
         /\ t \in S => Cardinality(S \ {t}) = Cardinality(S) - 1
         /\ Cardinality(S) \in Nat
BY FS_AddElement, FS_RemoveElement, FS_CardinalityType

\* A connection is taken.
LEMMA Opens ==
  ASSUME DbTypes, Counted, NEW t \in LogTasks, ~Holding(t), Open(t)
  PROVE  /\ free' \in Nat /\ Counted' /\ context' \in [LogTasks -> {"none", "open", "lost"}]
         /\ context'[t] = "open" /\ \A o \in LogTasks \ {t} : context'[o] = context[o]
<1>1. /\ free' \in Nat /\ free' = free - 1 /\ context' \in [LogTasks -> {"none", "open", "lost"}]
      /\ context'[t] = "open" /\ \A o \in LogTasks \ {t} : context'[o] = context[o]
  BY DEF Open, DbTypes
<1>2. Holders' = Holders \cup {t} /\ t \notin Holders
  BY <1>1 DEF Holders, Holding
<1>3. Cardinality(Holders') = Cardinality(Holders) + 1 /\ Cardinality(Holders) \in Nat
  BY <1>2, Counting, FiniteTasks
<1>4. Counted'
  BY <1>1, <1>3, BoundsAssumption DEF Counted, DbTypes
<1> QED BY <1>1, <1>4

\* A connection is given back.
LEMMA Closes ==
  ASSUME DbTypes, Counted, NEW t \in LogTasks, Holding(t), Close(t)
  PROVE  /\ free' \in Nat /\ Counted' /\ context' \in [LogTasks -> {"none", "open", "lost"}]
         /\ context'[t] = "none" /\ \A o \in LogTasks \ {t} : context'[o] = context[o]
<1>1. /\ free' \in Nat /\ free' = free + 1 /\ context' \in [LogTasks -> {"none", "open", "lost"}]
      /\ context'[t] = "none" /\ \A o \in LogTasks \ {t} : context'[o] = context[o]
  BY DEF Close, DbTypes
<1>2. Holders' = Holders \ {t} /\ t \in Holders
  BY <1>1 DEF Holders, Holding
<1>3. Cardinality(Holders') = Cardinality(Holders) - 1 /\ Cardinality(Holders) \in Nat
  BY <1>2, Counting, FiniteTasks
<1>4. Counted'
  BY <1>1, <1>3, BoundsAssumption DEF Counted, DbTypes
<1> QED BY <1>1, <1>4

\* A statement runs on a connection.
LEMMA Joins ==
  ASSUME DbTypes, Counted, NEW t \in LogTasks, Join(t)
  PROVE  /\ free' \in Nat /\ Counted' /\ context' \in [LogTasks -> {"none", "open", "lost"}]
         /\ context'[t] # "none" /\ \A o \in LogTasks \ {t} : context'[o] = context[o]
<1>1. CASE Holding(t)
  BY <1>1 DEF Join, DbTypes, Counted, Holders, Holding
<1>2. CASE ~Holding(t)
  BY <1>2, Opens DEF Join
<1> QED BY <1>1, <1>2

\* What the server forgets.
LEMMA Forgets ==
  ASSUME DbTypes, NEW t \in LogTasks, Forgotten(t)
  PROVE  /\ ins' \in [LogTasks -> SUBSET LogRows] /\ del' \in [LogTasks -> SUBSET LogRows]
         /\ locks' \in [LogTasks -> SUBSET LogRows]
         /\ ins'[t] = {} /\ del'[t] = {} /\ locks'[t] = {}
         /\ \A o \in LogTasks \ {t} : ins'[o] = ins[o] /\ del'[o] = del[o] /\ locks'[o] = locks[o]
BY DEF Forgotten, DbTypes

\* What is answered waits no longer.
LEMMA Answers ==
  ASSUME DbTypes, NEW t \in LogTasks, Answered(t)
  PROVE  /\ wants' \in [LogTasks -> Statements \cup {NoStatement}] /\ creates' \in [LogTasks -> BOOLEAN]
         /\ ~Waiting(t)' /\ ~creates'[t]
         /\ \A o \in LogTasks \ {t} : wants'[o] = wants[o] /\ creates'[o] = creates[o]
BY DEF Answered, DbTypes, Waiting

\* A transaction is rolled back.
LEMMA RollsBack ==
  ASSUME DbTypes, Counted, NEW t \in LogTasks, Rollback(t)
  PROVE  /\ free' \in Nat /\ Counted' /\ context' \in [LogTasks -> {"none", "open", "lost"}]
         /\ context'[t] = "none" /\ \A o \in LogTasks \ {t} : context'[o] = context[o]
         /\ Forgotten(t) /\ rows' = rows
<1>1. CASE Holding(t)
  BY <1>1, Closes DEF Rollback
<1>2. CASE ~Holding(t)
  BY <1>2 DEF Rollback, DbTypes, Counted, Holders, Holding
<1> QED BY <1>1, <1>2

-----------------------------------------------------------------------------
(* Statements.                                                             *)

Found(t, s) == s.delete \cap Visible(t)
\* What the statement s deletes, with what depends on it.
Gone(t, s) == Found(t, s) \cup UNION {Attempts(r) \cap Visible(t) : r \in Found(t, s)}

Request(i) == <<"requests", i>>
Attempt(i) == <<"request_attempts", i>>

\* What t sees are rows.
LEMMA Sees ==
  ASSUME DbTypes, NEW t \in LogTasks
  PROVE  Visible(t) \subseteq LogRows
BY DEF DbTypes, Visible

\* What is gone was seen, was asked for or hangs on what was, and a request
\* takes its attempts with it.
LEMMA Goes ==
  ASSUME NEW t, NEW s
  PROVE  /\ Gone(t, s) \subseteq Visible(t) /\ Found(t, s) \subseteq Gone(t, s)
         /\ \A r \in Gone(t, s) : r \in s.delete \/ r[1] = "request_attempts"
         /\ s.delete = {} => Gone(t, s) = {}
         /\ \A i : Request(i) \in Gone(t, s) =>
              /\ Request(i) \in s.delete
              /\ Attempt(i) \in Visible(t) => Attempt(i) \in Gone(t, s)
<1>1. /\ Gone(t, s) \subseteq Visible(t) /\ Found(t, s) \subseteq Gone(t, s)
      /\ s.delete = {} => Gone(t, s) = {}
  BY DEF Gone, Found
<1>2. ASSUME NEW r \in Gone(t, s)
      PROVE  r \in s.delete \/ r[1] = "request_attempts"
  <2>1. CASE r \in Found(t, s)
    BY <2>1 DEF Found
  <2>2. CASE r \notin Found(t, s)
    <3>1. PICK q \in Found(t, s) : r \in Attempts(q)
      BY <2>2 DEF Gone
    <3> QED BY <3>1 DEF Attempts
  <2> QED BY <2>1, <2>2
<1>3. ASSUME NEW i, Request(i) \in Gone(t, s)
      PROVE  Request(i) \in s.delete /\ (Attempt(i) \in Visible(t) => Attempt(i) \in Gone(t, s))
  <2>1. Request(i) \in s.delete
    BY <1>2, <1>3 DEF Request
  <2>2. Request(i) \in Found(t, s)
    BY <1>1, <1>3, <2>1 DEF Found
  <2>3. Attempts(Request(i)) = {Attempt(i)}
    BY DEF Attempts, Request, Attempt
  <2> QED BY <2>1, <2>2, <2>3 DEF Gone
<1> QED BY <1>1, <1>2, <1>3

\* What a statement does.
LEMMA Changes ==
  ASSUME DbTypes, NEW t \in LogTasks, NEW s \in Statements, Does(t, s)
  PROVE  /\ rows' = rows
         /\ ins' \in [LogTasks -> SUBSET LogRows] /\ del' \in [LogTasks -> SUBSET LogRows]
         /\ locks' \in [LogTasks -> SUBSET LogRows]
         /\ ins'[t] = (ins[t] \cup s.insert) \ Gone(t, s)
         /\ del'[t] = del[t] \cup Gone(t, s)
         /\ locks'[t] = locks[t] \cup Gone(t, s) \cup s.share
         /\ \A o \in LogTasks \ {t} : ins'[o] = ins[o] /\ del'[o] = del[o] /\ locks'[o] = locks[o]
<1>1. PICK gone : gone = Gone(t, s)
  OBVIOUS
<1>2. gone \subseteq LogRows
  BY <1>1, Goes, Sees
<1>3. s.insert \subseteq LogRows /\ s.share \subseteq LogRows
  BY DEF Statements
<1>4. /\ ins' = [ins EXCEPT ![t] = (@ \cup s.insert) \ gone]
      /\ del' = [del EXCEPT ![t] = @ \cup gone]
      /\ locks' = [locks EXCEPT ![t] = @ \cup gone \cup s.share]
      /\ rows' = rows
  BY <1>1 DEF Does, Gone, Found
<1>5. /\ ins' \in [LogTasks -> SUBSET LogRows] /\ del' \in [LogTasks -> SUBSET LogRows]
      /\ locks' \in [LogTasks -> SUBSET LogRows]
      /\ ins'[t] = (ins[t] \cup s.insert) \ gone
      /\ del'[t] = del[t] \cup gone
      /\ locks'[t] = locks[t] \cup gone \cup s.share
      /\ \A o \in LogTasks \ {t} : ins'[o] = ins[o] /\ del'[o] = del[o] /\ locks'[o] = locks[o]
  BY <1>2, <1>3, <1>4 DEF DbTypes
<1> QED BY <1>1, <1>4, <1>5

\* What a step chooses, it sees.
LEMMA Chooses ==
  ASSUME NEW t, NEW s
  PROVE  /\ Chosen(t, s) \subseteq Visible(t)
         /\ s.do \in {"insert", "commit"} => Chosen(t, s) = {}
         /\ s.do = "all" => Chosen(t, s) = {r \in Visible(t) : r[1] = s.table}
         /\ s.do = "these" => Chosen(t, s) = {r \in Visible(t) : r[1] = s.table /\ r[2] \in ids[t]}
<1>1. \A S, n : Lowest(S, n) \subseteq S
  BY DEF Lowest
<1>2. \A T, S : Beyond(T, S) \subseteq S
  BY DEF Beyond
<1>3. \A T, S : Of(T, S) = {r \in S : r[1] = T}
  BY DEF Of
<1>4. s.do \in {"insert", "commit"} => Chosen(t, s) = {}
  BY Zenon DEF Chosen
<1>5. s.do = "all" => Chosen(t, s) = {r \in Visible(t) : r[1] = s.table}
  BY <1>3 DEF Chosen
<1>6. s.do = "these" => Chosen(t, s) = {r \in Visible(t) : r[1] = s.table /\ r[2] \in ids[t]}
  <2>1. s.do = "these" => Chosen(t, s) = {r \in Of(s.table, Visible(t)) : r[2] \in ids[t]}
    BY DEF Chosen
  <2> QED BY <1>3, <2>1
<1>7. Chosen(t, s) \subseteq Visible(t)
  <2>1. s.do = "old" => Chosen(t, s) = Lowest({r \in Of(s.table, Visible(t)) : r[2] <= expired[s.table]}, Batch)
    BY DEF Chosen
  <2>2. s.do = "excess" => Chosen(t, s) = Beyond(s.table, Of(s.table, Visible(t)))
    BY DEF Chosen
  <2>3. s.do \notin {"all", "these", "old", "excess"} => Chosen(t, s) = {}
    BY DEF Chosen
  <2>4. CASE s.do = "old"
    <3>1. {r \in Of(s.table, Visible(t)) : r[2] <= expired[s.table]} \subseteq Visible(t)
      BY <1>3
    <3> QED BY <1>1, <2>1, <2>4, <3>1
  <2>5. CASE s.do = "excess"
    <3>1. Of(s.table, Visible(t)) \subseteq Visible(t)
      BY <1>3
    <3> QED BY <1>2, <2>2, <2>5, <3>1
  <2> QED BY <1>5, <1>6, <2>3, <2>4, <2>5
<1> QED BY <1>4, <1>5, <1>6, <1>7

Writers == {"insert", "sample"}

\* The parts of a statement.
LEMMA Parts ==
  ASSUME NEW t, NEW s
  PROVE  /\ Statement(t, s).insert = IF s.do = "insert" THEN {<<s.table, Id(t)>>} ELSE {}
         /\ Statement(t, s).delete = Chosen(t, s)
         /\ Statement(t, s).share = IF s.table = "request_attempts" THEN {Request(Id(t))} ELSE {}
         /\ \A S : Statement(t, s).insert \subseteq S /\ Statement(t, s).delete \subseteq S
                     /\ Statement(t, s).share \subseteq S
              => Statement(t, s) \in [insert : SUBSET S, delete : SUBSET S, share : SUBSET S]
BY DEF Statement, Request

\* Who inserts has an id.
LEMMA Reads ==
  ASSUME Jobs, NEW t \in LogTasks, job[t] \in Writers
  PROVE  Id(t) \in ids[t] /\ Id(t) \in Ids
<1>1. ids[t] # {} /\ ids[t] \subseteq Ids
  BY DEF Jobs, Writers
<1>2. Id(t) \in ids[t]
  BY <1>1 DEF Id
<1> QED BY <1>1, <1>2

\* What is inserted is a row of the table.
LEMMA Step ==
  ASSUME Jobs, NEW t \in LogTasks, Busy(t), Head(todo[t]) # Save
  PROVE  /\ job[t] \in Writers <=> Head(todo[t]).do = "insert"
         /\ job[t] \notin Writers => Head(todo[t]).table \in Tables
         /\ Head(todo[t]).table \in Tables \cup {"request_attempts"}
         /\ Head(todo[t]).do \in {"insert", "all", "these", "old", "excess"}
         /\ job[t] \in Writers => Id(t) \in ids[t] /\ Id(t) \in Ids
<1>1. PICK h : h = Head(todo[t])
  OBVIOUS
<1>2. PICK n : n = Len(todo[t])
  OBVIOUS
<1>3. n > 1 /\ job[t] \in Kinds
  BY <1>2, NotLast, Working
<1>4. CASE job[t] = "insert"
  <2>1. h \in {Insert("requests"), Insert("request_stats"), Insert("request_attempts")}
    BY <1>1, <1>2, <1>3, <1>4, Heads
  <2> QED BY <1>1, <1>4, <2>1, Reads DEF Insert, Writers, Tables
<1>5. CASE job[t] = "sample"
  <2>1. h = Insert("queue_samples")
    BY <1>1, <1>2, <1>3, <1>5, Heads
  <2> QED BY <1>1, <1>5, <2>1, Reads DEF Insert, Writers, Tables
<1>6. CASE job[t] = "purge"
  <2>1. \E T \in Tables : h \in {Old(T), Excess(T)}
    BY <1>1, <1>2, <1>3, <1>6, Heads
  <2> QED BY <1>1, <1>6, <2>1 DEF Old, Excess, Writers
<1>7. CASE job[t] = "reset"
  <2>1. h \in {All("requests"), All("request_stats"), All("queue_samples")}
    BY <1>1, <1>2, <1>3, <1>7, Heads
  <2> QED BY <1>1, <1>7, <2>1 DEF All, Writers, Tables
<1>8. CASE job[t] \in {"delete", "delete_matching"}
  <2>1. h \in {These("requests"), These("request_stats")}
    BY <1>1, <1>2, <1>3, <1>8, Heads
  <2> QED BY <1>1, <1>8, <2>1 DEF These, Writers, Tables
<1> QED BY <1>3, <1>4, <1>5, <1>6, <1>7, <1>8 DEF Kinds

\* The next statement is one, and deletes nothing it does not see.
LEMMA States ==
  ASSUME DbTypes, Jobs, NEW t \in LogTasks, Busy(t), Head(todo[t]) # Save
  PROVE  /\ Statement(t, Head(todo[t])) \in Statements
         /\ Upcoming(t) \in Statements
<1>1. PICK h : h = Head(todo[t])
  OBVIOUS
<1>2. /\ h.table \in Tables \cup {"request_attempts"}
      /\ h.do = "insert" => Id(t) \in Ids
      /\ h.table = "request_attempts" => Id(t) \in Ids
  BY <1>1, Step DEF Tables
<1>3. PICK s : s = Statement(t, h)
  OBVIOUS
<1>4. /\ s.insert = IF h.do = "insert" THEN {<<h.table, Id(t)>>} ELSE {}
      /\ s.delete = Chosen(t, h)
      /\ s.share = IF h.table = "request_attempts" THEN {Request(Id(t))} ELSE {}
  BY <1>3, Parts
<1>5. /\ s.insert \subseteq LogRows /\ s.share \subseteq LogRows /\ s.delete \subseteq LogRows
  <2>1. s.insert \subseteq LogRows
    BY <1>2, <1>4 DEF LogRows
  <2>2. s.share \subseteq LogRows
    BY <1>2, <1>4 DEF LogRows, Request, Tables
  <2>3. s.delete \subseteq LogRows
    BY <1>4, Chooses, Sees
  <2> QED BY <2>1, <2>2, <2>3
<1>6. Statement(t, h) \in Statements
  BY <1>3, <1>5, Parts DEF Statements
<1>7. Waiting(t) => wants[t] \in Statements
  BY DEF DbTypes, Waiting
<1> QED BY <1>1, <1>6, <1>7 DEF Upcoming

-----------------------------------------------------------------------------
(* What the steps of a task change.                                        *)

\* Only the job of t changes.
OtherJobs(t) ==
  \A o \in LogTasks \ {t} : job'[o] = job[o] /\ ids'[o] = ids[o] /\ todo'[o] = todo[o]

\* The background tasks are two, and no handlers.
LEMMA TaskKinds ==
  /\ purger \in LogTasks /\ sampler \in LogTasks /\ purger # sampler
  /\ Handlers \subseteq LogTasks /\ purger \notin Handlers /\ sampler \notin Handlers
  /\ \A t \in LogTasks : t \in Handlers \/ t = purger \/ t = sampler
BY HandlersAssumption DEF LogTasks

\* A job begins.
LEMMA Sets ==
  ASSUME Jobs, NEW t \in LogTasks, NEW kind \in Kinds, NEW about \in SUBSET Ids,
         job[t] = "idle", Set(t, kind, about), kind \in Writers => about # {},
         t = purger => kind = "purge", t = sampler => kind = "sample",
         t \in Handlers => kind # "sample"
  PROVE  /\ Jobs' /\ OtherJobs(t) /\ ~Busy(t)
         /\ job'[t] = kind /\ ids'[t] = about /\ todo'[t] = Program(kind)
         /\ Len(todo'[t]) = Len(Program(kind)) /\ Busy(t)'
<1>1. PICK p : p = Program(kind)
  OBVIOUS
<1>2. p \in Seq(Steps) /\ Len(p) \in 1 .. 7
  BY <1>1, ProgramTypes
<1>3. /\ job' \in [LogTasks -> Kinds \cup Resting] /\ ids' \in [LogTasks -> SUBSET Ids]
      /\ todo' \in [LogTasks -> Seq(Steps)]
      /\ job'[t] = kind /\ ids'[t] = about /\ todo'[t] = p
      /\ OtherJobs(t)
  BY <1>1, <1>2 DEF Jobs, Set, OtherJobs
<1>4. /\ job'[purger] \in {"idle", "purge", "failed"} /\ job'[sampler] \in {"idle", "sample", "failed"}
      /\ \A o \in Handlers : job'[o] # "sample"
  BY <1>3, TaskKinds DEF Jobs, OtherJobs
<1>5. \A o \in LogTasks : job'[o] \in {"insert", "sample"} => ids'[o] # {}
  BY <1>3 DEF Jobs, OtherJobs, Writers
<1>6. ASSUME NEW o \in LogTasks PROVE OnProgram(o)'
  <2>1. CASE o = t
    <3>1. kind \notin Resting
      BY DEF Kinds, Resting
    <3>2. job'[o] = kind /\ todo'[o] = p
      BY <1>3, <2>1
    <3>3. PICK m \in 1 .. 7 : m = Len(p)
      BY <1>2
    <3>4. m \in 1 .. m /\ \A i \in 1 .. m : p[i] = p[i + m - m]
      BY <3>3
    <3>5. /\ Program(job'[o]) = p /\ job'[o] \notin Resting
          /\ Len(todo'[o]) \in 1 .. Len(p)
          /\ \A i \in 1 .. Len(todo'[o]) : todo'[o][i] = p[i + Len(p) - Len(todo'[o])]
      BY <1>1, <3>1, <3>2, <3>3, <3>4
    <3> QED BY <3>5 DEF OnProgram
  <2>2. CASE o # t
    <3>1. OnProgram(o) /\ job'[o] = job[o] /\ todo'[o] = todo[o]
      BY <1>3, <2>2 DEF Jobs, OtherJobs
    <3> QED BY <3>1 DEF OnProgram
  <2> QED BY <2>1, <2>2
<1>7. ~Busy(t) /\ Busy(t)'
  <2>1. p # <<>>
    <3>1. Len(<<>>) = 0
      BY EmptySeq
    <3>2. PICK m : m = Len(p)
      OBVIOUS
    <3>3. m \in 1 .. 7
      BY <1>2, <3>2
    <3>4. m # 0
      BY <3>3
    <3> QED BY <3>1, <3>2, <3>4
  <2>2. ~Busy(t)
    BY Working DEF Resting
  <2> QED BY <1>3, <2>1, <2>2 DEF Busy
<1> QED BY <1>1, <1>3, <1>4, <1>5, <1>6, <1>7 DEF Jobs

\* A job goes on.
LEMMA Advances ==
  ASSUME Jobs, NEW t \in LogTasks, Busy(t), Len(todo[t]) > 1,
         todo' = [todo EXCEPT ![t] = Tail(@)], UNCHANGED <<job, ids>>
  PROVE  /\ Jobs' /\ OtherJobs(t)
         /\ todo'[t] = Tail(todo[t]) /\ Len(todo'[t]) = Len(todo[t]) - 1 /\ Busy(t)'
<1>1. PICK q : q = todo[t]
  OBVIOUS
<1>2. PICK p : p = Program(job[t])
  OBVIOUS
<1>3. q \in Seq(Steps) /\ job[t] \in Kinds /\ job[t] \notin Resting /\ p \in Seq(Steps)
  BY <1>1, <1>2, Working, ProgramTypes
<1>4. Len(q) \in 1 .. Len(p) /\ \A i \in 1 .. Len(q) : q[i] = p[i + Len(p) - Len(q)]
  BY <1>1, <1>2, <1>3 DEF Jobs, OnProgram
<1>5. PICK r : r = Tail(q)
  OBVIOUS
<1>6. r \in Seq(Steps) /\ Len(r) = Len(q) - 1 /\ Len(q) > 1 /\ \A i \in 1 .. Len(r) : r[i] = q[i + 1]
  BY <1>1, <1>3, <1>5
<1>7. Len(r) \in 1 .. Len(p) /\ \A i \in 1 .. Len(r) : r[i] = p[i + Len(p) - Len(r)]
  BY <1>3, <1>4, <1>6
<1>8. /\ todo' \in [LogTasks -> Seq(Steps)] /\ todo'[t] = r /\ OtherJobs(t)
      /\ job' = job /\ ids' = ids
  BY <1>1, <1>5, <1>6 DEF Jobs, OtherJobs
<1>9. ASSUME NEW o \in LogTasks PROVE OnProgram(o)'
  <2>1. CASE o = t
    BY <1>2, <1>3, <1>7, <1>8, <2>1 DEF OnProgram
  <2>2. CASE o # t
    <3>1. OnProgram(o) /\ job'[o] = job[o] /\ todo'[o] = todo[o]
      BY <1>8, <2>2 DEF Jobs, OtherJobs
    <3> QED BY <3>1 DEF OnProgram
  <2> QED BY <2>1, <2>2
<1>10. r # <<>>
  BY <1>6
<1> QED BY <1>1, <1>5, <1>6, <1>8, <1>9, <1>10 DEF Jobs, Busy

\* A job is over.
LEMMA Overs ==
  ASSUME Jobs, NEW t \in LogTasks, NEW how \in {"done", "failed"}, Over(t, how)
  PROVE  /\ Jobs' /\ OtherJobs(t) /\ ~Busy(t)'
         /\ job'[t] = IF t \in Handlers \/ how = "failed" THEN how ELSE "idle"
         /\ job'[t] \in Resting /\ todo'[t] = <<>>
<1>1. PICK end : end = IF t \in Handlers \/ how = "failed" THEN how ELSE "idle"
  OBVIOUS
<1>2. end \in {"idle", "done", "failed"} /\ (t \notin Handlers => end \in {"idle", "failed"})
  BY <1>1
<1>3. <<>> \in Seq(Steps)
  OBVIOUS
<1>4. /\ job' \in [LogTasks -> Kinds \cup Resting] /\ ids' = ids
      /\ todo' \in [LogTasks -> Seq(Steps)]
      /\ job'[t] = end /\ todo'[t] = <<>> /\ OtherJobs(t)
  BY <1>1, <1>2, <1>3 DEF Jobs, Over, OtherJobs, Resting
<1>5. /\ job'[purger] \in {"idle", "purge", "failed"} /\ job'[sampler] \in {"idle", "sample", "failed"}
      /\ \A o \in Handlers : job'[o] # "sample"
      /\ \A o \in LogTasks : job'[o] \in {"insert", "sample"} => ids'[o] # {}
  BY <1>2, <1>4, TaskKinds DEF Jobs, OtherJobs
<1>6. ASSUME NEW o \in LogTasks PROVE OnProgram(o)'
  <2>1. CASE o = t
    BY <1>2, <1>4, <2>1 DEF OnProgram, Resting
  <2>2. CASE o # t
    <3>1. OnProgram(o) /\ job'[o] = job[o] /\ todo'[o] = todo[o]
      BY <1>4, <2>2 DEF Jobs, OtherJobs
    <3> QED BY <3>1 DEF OnProgram
  <2> QED BY <2>1, <2>2
<1> QED BY <1>1, <1>2, <1>4, <1>5, <1>6 DEF Jobs, Busy, Resting

\* What another task holds and waits for stays as it was.
LEMMA Elsewhere ==
  ASSUME NEW t, Others(t), OtherJobs(t), NEW o \in LogTasks \ {t}, Connected(o)
  PROVE  Connected(o)'
BY DEF Others, OtherJobs, Connected, Holding, Waiting, Busy

-----------------------------------------------------------------------------
(* The steps of the database keep its types and its connections.           *)

\* A statement is executed.
LEMMA Executes ==
  ASSUME DbTypes, Counted, NEW t \in LogTasks, NEW s \in Statements, Execute(t, s)
  PROVE  /\ DbTypes' /\ Counted' /\ Others(t)
         /\ Holding(t)' /\ wants' = wants /\ creates' = creates /\ Does(t, s)
<1>1. Join(t) /\ Does(t, s) /\ wants' = wants /\ creates' = creates
  BY DEF Execute
<1> QED BY <1>1, Joins, Changes DEF DbTypes, Others, Holding

\* A statement that waited is executed.
LEMMA Resumes ==
  ASSUME DbTypes, Counted, NEW t \in LogTasks, Resume(t)
  PROVE  /\ DbTypes' /\ Counted' /\ Others(t) /\ wants[t] \in Statements
         /\ context' = context /\ ~Waiting(t)' /\ ~creates'[t] /\ Does(t, wants[t])
<1>1. /\ Does(t, wants[t]) /\ Answered(t) /\ free' = free /\ context' = context
      /\ wants[t] \in Statements
  BY DEF Resume, DbTypes, Waiting
<1>2. Counted'
  BY <1>1 DEF Counted, Holders
<1> QED BY <1>1, <1>2, Answers, Changes DEF DbTypes, Others

\* A statement begins to wait.
LEMMA Queues ==
  ASSUME DbTypes, Counted, NEW t \in LogTasks, NEW s \in Statements, Queue(t, s)
  PROVE  /\ DbTypes' /\ Counted' /\ Others(t)
         /\ Holding(t)' /\ Waiting(t)' /\ wants'[t] = s /\ (creates'[t] <=> ~Holding(t))
         /\ rows' = rows /\ ins' = ins /\ del' = del /\ locks' = locks
<1>1. /\ Join(t) /\ rows' = rows /\ ins' = ins /\ del' = del /\ locks' = locks
      /\ wants' = [wants EXCEPT ![t] = s]
  BY DEF Queue
<1>2. creates' = [creates EXCEPT ![t] = ~Holding(t)]
  BY DEF Queue
<1>3. (~Holding(t)) \in BOOLEAN
  BY DEF Holding
<1>4. creates' \in [LogTasks -> BOOLEAN] /\ creates'[t] = ~Holding(t)
      /\ \A o \in LogTasks \ {t} : creates'[o] = creates[o]
  BY <1>2, <1>3 DEF DbTypes
<1>5. wants' \in [LogTasks -> Statements \cup {NoStatement}] /\ wants'[t] = s
      /\ \A o \in LogTasks \ {t} : wants'[o] = wants[o]
  BY <1>1 DEF DbTypes
<1>6. s # NoStatement
  BY DEF Statements, NoStatement
<1>7. Waiting(t)'
  BY <1>5, <1>6 DEF Waiting
<1> QED BY <1>1, <1>4, <1>5, <1>7, Joins DEF DbTypes, Others, Holding

\* A transaction ends without effect.
LEMMA Closing ==
  ASSUME DbTypes, Counted, NEW t \in LogTasks, CommitFails(t)
  PROVE  /\ DbTypes' /\ Counted' /\ Others(t)
         /\ ~Holding(t)' /\ wants' = wants /\ creates' = creates /\ rows' = rows /\ Forgotten(t)
<1>1. /\ Holding(t) /\ Close(t) /\ Forgotten(t)
      /\ wants' = wants /\ creates' = creates /\ rows' = rows
  BY DEF CommitFails, Holding
<1> QED BY <1>1, Closes, Forgets DEF DbTypes, Others, Holding

\* A transaction is committed.
LEMMA Commits ==
  ASSUME DbTypes, Counted, NEW t \in LogTasks, Commit(t)
  PROVE  /\ DbTypes' /\ Counted' /\ Others(t)
         /\ ~Holding(t)' /\ wants' = wants /\ creates' = creates /\ rows' = Visible(t) /\ Forgotten(t)
<1>1. /\ Holding(t) /\ Close(t) /\ Forgotten(t)
      /\ wants' = wants /\ creates' = creates /\ rows' = Visible(t)
  BY DEF Commit, Holding
<1> QED BY <1>1, Closes, Forgets, Sees DEF DbTypes, Others, Holding

\* A transaction is rolled back, the call answered or not.
LEMMA Returns ==
  ASSUME DbTypes, Counted, NEW t \in LogTasks, Rollback(t),
         Answered(t) \/ UNCHANGED <<wants, creates>>
  PROVE  /\ DbTypes' /\ Counted' /\ Others(t) /\ ~Holding(t)' /\ rows' = rows /\ Forgotten(t)
<1>1. /\ wants' \in [LogTasks -> Statements \cup {NoStatement}] /\ creates' \in [LogTasks -> BOOLEAN]
      /\ \A o \in LogTasks \ {t} : wants'[o] = wants[o] /\ creates'[o] = creates[o]
  BY Answers DEF DbTypes
<1> QED BY <1>1, RollsBack, Forgets DEF DbTypes, Others, Holding

\* A statement raises.
LEMMA Raising ==
  ASSUME DbTypes, Counted, NEW t \in LogTasks, Raises(t)
  PROVE  /\ DbTypes' /\ Counted' /\ Others(t)
         /\ ~Waiting(t)' /\ ~creates'[t] /\ rows' = rows /\ Forgotten(t)
         /\ creates[t] \/ ~Holding(t) => ~Holding(t)'
<1>1. Answered(t)
  BY DEF Raises
<1>2. CASE creates[t] \/ ~Holding(t)
  BY <1>1, <1>2, Returns, Answers DEF Raises
<1>3. CASE ~(creates[t] \/ ~Holding(t))
  <2>1. /\ context' = [context EXCEPT ![t] = "lost"] /\ Forgotten(t)
        /\ rows' = rows /\ free' = free
    BY <1>3 DEF Raises
  <2>2. /\ context' \in [LogTasks -> {"none", "open", "lost"}] /\ context'[t] = "lost"
        /\ \A o \in LogTasks \ {t} : context'[o] = context[o]
    BY <2>1 DEF DbTypes
  <2>3. Holders' = Holders
    BY <1>3, <2>2 DEF Holders, Holding
  <2>4. Counted'
    BY <2>1, <2>3 DEF Counted
  <2> QED BY <1>1, <1>3, <2>1, <2>2, <2>4, Answers, Forgets DEF DbTypes, Others
<1> QED BY <1>2, <1>3

-----------------------------------------------------------------------------
(* Every step keeps the base.                                              *)

\* Of the tasks, the others keep theirs.
LEMMA AllConnected ==
  ASSUME Base, NEW t \in LogTasks, Others(t), OtherJobs(t), Connected(t)'
  PROVE  \A o \in LogTasks : Connected(o)'
BY Elsewhere DEF Base

\* A step that leaves the database alone leaves it well.
LEMMA Untouched ==
  ASSUME DbTypes, Counted, UNCHANGED database
  PROVE  /\ DbTypes' /\ Counted' /\ \A t : Others(t)
         /\ \A t : Holding(t)' = Holding(t) /\ Waiting(t)' = Waiting(t)
BY DEF database, DbTypes, Counted, Holders, Others, Holding, Waiting

\* Handlers begin a job.
LEMMA BaseSets ==
  ASSUME Base, NEW t \in LogTasks, NEW kind \in Kinds, NEW about \in SUBSET Ids,
         job[t] = "idle", Set(t, kind, about), kind \in Writers => about # {},
         t = purger => kind = "purge", t = sampler => kind = "sample",
         t \in Handlers => kind # "sample",
         UNCHANGED database, Clocks'
  PROVE  Base'
<1>1. DbTypes /\ Jobs /\ Clocks /\ Counted /\ Connected(t)
  BY DEF Base
<1>2. /\ Jobs' /\ OtherJobs(t) /\ ~Busy(t) /\ job'[t] = kind
  BY <1>1, Sets
<1>3. ~Holding(t) /\ ~Waiting(t) /\ ~creates[t]
  BY <1>1, <1>2 DEF Connected
<1>4. DbTypes' /\ Counted' /\ Others(t) /\ ~Holding(t)' /\ ~Waiting(t)'
  BY <1>1, <1>3, Untouched
<1>5. ~creates'[t]
  BY <1>3 DEF database
<1>6. Connected(t)'
  BY <1>2, <1>4, <1>5 DEF Connected, Kinds
<1> QED BY <1>2, <1>4, <1>6, AllConnected DEF Base

\* An insert gets an id.
LEMMA BaseBeginInsert ==
  ASSUME Base, NEW t \in Handlers, BeginInsert(t)
  PROVE  Base'
<1>1. PICK i : i = next["requests"] + 1
  OBVIOUS
<1>2. next["requests"] \in Nat /\ next["requests"] < LastId["requests"] /\ LastId \in [Numberings -> Nat]
      /\ next \in [Numberings -> Nat]
  BY BoundsAssumption DEF BeginInsert, Base, Clocks, Numberings
<1>3. i \in Ids
  BY <1>1, <1>2 DEF Ids, Numberings
<1>4. /\ Set(t, "insert", {i}) /\ next' = [next EXCEPT !["requests"] = i]
      /\ UNCHANGED <<database, expired, erased, before>> /\ job[t] = "idle"
  BY <1>1 DEF BeginInsert
<1>5. next' \in [Numberings -> Nat] /\ \A n \in Numberings : next'[n] <= LastId[n]
  BY <1>1, <1>2, <1>4 DEF Base, Clocks, Numberings
<1>6. Clocks'
  BY <1>4, <1>5 DEF Base, Clocks
<1> QED BY <1>3, <1>4, <1>6, BaseSets, TaskKinds DEF Kinds

\* A sample gets an id.
LEMMA BaseBeginSample ==
  ASSUME Base, BeginSample
  PROVE  Base'
<1>1. PICK i : i = next["queue_samples"] + 1
  OBVIOUS
<1>2. next["queue_samples"] \in Nat /\ next["queue_samples"] < LastId["queue_samples"]
      /\ LastId \in [Numberings -> Nat] /\ next \in [Numberings -> Nat]
  BY BoundsAssumption DEF BeginSample, Base, Clocks, Numberings
<1>3. i \in Ids
  BY <1>1, <1>2 DEF Ids, Numberings
<1>4. /\ Set(sampler, "sample", {i}) /\ next' = [next EXCEPT !["queue_samples"] = i]
      /\ UNCHANGED <<database, expired, erased, before>> /\ job[sampler] = "idle"
  BY <1>1 DEF BeginSample
<1>5. next' \in [Numberings -> Nat] /\ \A n \in Numberings : next'[n] <= LastId[n]
  BY <1>1, <1>2, <1>4 DEF Base, Clocks, Numberings
<1>6. Clocks'
  BY <1>4, <1>5 DEF Base, Clocks
<1> QED BY <1>3, <1>4, <1>6, BaseSets, TaskKinds DEF Kinds

\* A deletion has its ids.
LEMMA KnownIds ==
  ASSUME DbTypes
  PROVE  Known \subseteq Ids
BY DEF DbTypes, Known, Of, LogRows

\* One request, or those that match, are to be deleted; or all.
LEMMA BaseBeginDeletes ==
  ASSUME Base, NEW t \in Handlers, BeginDelete(t) \/ BeginDeleteMatching(t) \/ BeginReset(t)
  PROVE  Base'
<1>1. Known \subseteq Ids /\ t \in LogTasks /\ t \notin {purger, sampler}
  BY KnownIds, TaskKinds DEF Base
<1>2. job[t] = "idle" /\ UNCHANGED database
  BY DEF BeginDelete, BeginDeleteMatching, BeginReset
<1>3. Clocks'
  <2>1. before' \in [LogTasks -> SUBSET LogRows]
    BY DEF BeginDelete, BeginDeleteMatching, BeginReset, Base, Clocks, DbTypes, Aside
  <2>2. UNCHANGED <<next, expired, erased>>
    BY DEF BeginDelete, BeginDeleteMatching, BeginReset, Aside
  <2> QED BY <2>1, <2>2 DEF Base, Clocks
<1>4. \E kind \in {"delete", "delete_matching", "reset"}, about \in SUBSET Ids : Set(t, kind, about)
  <2>1. CASE BeginDelete(t)
    <3>1. PICK i \in Known : Set(t, "delete", {i})
      BY <2>1 DEF BeginDelete
    <3> QED BY <1>1, <3>1
  <2>2. CASE BeginDeleteMatching(t)
    <3>1. PICK f \in Filters : Set(t, "delete_matching", f \cap Known)
      BY <2>2 DEF BeginDeleteMatching
    <3> QED BY <1>1, <3>1
  <2>3. CASE BeginReset(t)
    BY <2>3 DEF BeginReset
  <2> QED BY <2>1, <2>2, <2>3
<1>5. PICK kind \in {"delete", "delete_matching", "reset"}, about \in SUBSET Ids : Set(t, kind, about)
  BY <1>4
<1> QED BY <1>1, <1>2, <1>3, <1>5, BaseSets DEF Kinds, Writers

\* A purge takes a connection first, or finds another at it.
Takers == Handlers \cup {purger}
Skips(t) == job[t] = "idle" /\ Over(t, "done") /\ UNCHANGED <<database, next, expired, erased, before>>
Grabs(t) ==
  /\ job[t] = "idle" /\ Begin(t) /\ Set(t, "purge", {})
  /\ UNCHANGED <<next, expired, erased, before>>

LEMMA BaseBeginPurge ==
  ASSUME Base, NEW t \in Takers, BeginPurge(t)
  PROVE  /\ Base' /\ (Skips(t) \/ Grabs(t)) /\ t \in LogTasks
         /\ Skips(t) => Others(t) /\ OtherJobs(t) /\ ~Waiting(t)' /\ ~Waiting(t) /\ job'[t] \in Resting
<1>1. DbTypes /\ Jobs /\ Clocks /\ Counted /\ Connected(t) /\ t \in LogTasks /\ t # sampler
  BY TaskKinds DEF Base, Takers
<1>2. Skips(t) \/ Grabs(t)
  BY DEF BeginPurge, Skips, Grabs, Aside
<1>3. ~Busy(t) /\ ~Waiting(t) /\ ~creates[t] /\ ~Holding(t)
  <2>1. ~Busy(t)
    BY <1>1, <1>2, Working DEF Skips, Grabs, Resting
  <2> QED BY <1>1, <1>2, <2>1 DEF Connected, Skips, Grabs
<1>4. ASSUME Grabs(t) PROVE Base'
  <2>1. /\ job[t] = "idle" /\ Set(t, "purge", {}) /\ ~Holding(t) /\ Open(t)
        /\ UNCHANGED <<rows, wants, creates, ins, del, locks, next, expired, erased, before>>
    BY <1>4 DEF Grabs, Begin
  <2>2. Jobs' /\ OtherJobs(t) /\ job'[t] = "purge"
    BY <1>1, <2>1, Sets, TaskKinds DEF Kinds, Writers
  <2>3. /\ free' \in Nat /\ Counted' /\ context' \in [LogTasks -> {"none", "open", "lost"}]
        /\ \A o \in LogTasks \ {t} : context'[o] = context[o]
    BY <1>1, <2>1, Opens
  <2>4. DbTypes' /\ Others(t)
    BY <1>1, <2>1, <2>3 DEF DbTypes, Others
  <2>5. ~Waiting(t)' /\ ~creates'[t]
    BY <1>3, <2>1 DEF Waiting
  <2>6. Connected(t)'
    BY <1>1, <2>2, <2>5 DEF Connected
  <2> QED BY <1>1, <2>1, <2>2, <2>3, <2>4, <2>6, AllConnected DEF Base, Clocks
<1>5. ASSUME Skips(t)
      PROVE  Base' /\ Others(t) /\ OtherJobs(t) /\ ~Waiting(t)' /\ job'[t] \in Resting
  <2>1. Jobs' /\ OtherJobs(t) /\ job'[t] \in Resting /\ ~Busy(t)'
    BY <1>1, <1>5, Overs DEF Skips
  <2>2. DbTypes' /\ Counted' /\ Others(t) /\ ~Holding(t)' /\ ~Waiting(t)' /\ creates' = creates
    BY <1>1, <1>3, <1>5, Untouched DEF Skips, database
  <2>3. Clocks'
    BY <1>1, <1>5 DEF Clocks, Skips
  <2>4. Connected(t)'
    BY <1>3, <2>1, <2>2 DEF Connected
  <2> QED BY <1>1, <2>1, <2>2, <2>3, <2>4, AllConnected DEF Base
<1> QED BY <1>1, <1>2, <1>3, <1>4, <1>5

\* A statement is sent: it runs, ...
LEMMA BaseRuns ==
  ASSUME Base, NEW t \in LogTasks, Busy(t), Head(todo[t]) # Save,
         Execute(t, Upcoming(t)) \/ Resume(t), todo' = [todo EXCEPT ![t] = Tail(@)],
         UNCHANGED <<job, ids>>, Clocks'
  PROVE  /\ Base' /\ Others(t) /\ OtherJobs(t) /\ ~Waiting(t)' /\ Holding(t)'
         /\ Upcoming(t) \in Statements /\ Does(t, Upcoming(t))
         /\ Len(todo'[t]) = Len(todo[t]) - 1
<1>1. DbTypes /\ Jobs /\ Counted /\ Connected(t)
  BY DEF Base
<1>2. Len(todo[t]) > 1 /\ Upcoming(t) \in Statements
  BY <1>1, NotLast, States
<1>3. /\ Jobs' /\ OtherJobs(t) /\ Busy(t)' /\ job'[t] = job[t]
      /\ todo'[t] = Tail(todo[t]) /\ Len(todo'[t]) = Len(todo[t]) - 1
  BY <1>1, <1>2, Advances
<1>4. DbTypes' /\ Counted' /\ Others(t) /\ Holding(t)' /\ ~Waiting(t)' /\ ~creates'[t]
      /\ Does(t, Upcoming(t))
  <2>1. CASE Execute(t, Upcoming(t))
    <3>1. ~Waiting(t) /\ ~creates[t]
      BY <1>1, <2>1 DEF Execute, Connected
    <3> QED BY <1>1, <1>2, <2>1, <3>1, Executes DEF Waiting
  <2>2. CASE Resume(t)
    <3>1. Waiting(t) /\ Holding(t) /\ Upcoming(t) = wants[t]
      BY <1>1, <2>2 DEF Resume, Connected, Upcoming
    <3> QED BY <1>1, <2>2, <3>1, Resumes DEF Holding
  <2> QED BY <2>1, <2>2
<1>5. job[t] \in Kinds
  BY <1>1, Working
<1>6. t = sampler => Head(todo'[t]) = Save
  <2>1. SUFFICES ASSUME t = sampler PROVE Head(todo'[t]) = Save
    OBVIOUS
  <2>2. job[t] = "sample"
    BY <1>1, <1>5, <2>1 DEF Jobs, Kinds
  <2>3. PICK n : n = Len(todo[t])
    OBVIOUS
  <2>4. n \in 1 .. 2 /\ n > 1
    BY <1>1, <1>2, <2>2, <2>3, Heads
  <2>5. Len(todo'[t]) = 1
    <3>1. n - 1 = 1
      BY <2>4
    <3> QED BY <1>3, <2>3, <3>1
  <2>6. PICK q : q = todo'[t]
    OBVIOUS
  <2>7. q \in Seq(Steps) /\ Len(q) = 1 /\ OnProgram(t)' /\ job'[t] = "sample"
    BY <1>3, <2>2, <2>5, <2>6 DEF Jobs
  <2>8. "sample" \notin Resting
    BY DEF Resting
  <2>9. \A i \in 1 .. Len(q) : q[i] = Program("sample")[i + Len(Program("sample")) - Len(q)]
    BY <2>6, <2>7, <2>8 DEF OnProgram
  <2>10. q[1] = Program("sample")[2]
    <3>1. PICK p : p = Program("sample")
      OBVIOUS
    <3>2. Len(p) = 2 /\ Len(q) = 1 /\ \A i \in 1 .. Len(q) : q[i] = p[i + Len(p) - Len(q)]
      BY <2>7, <2>9, <3>1, Programs
    <3>3. q[1] = p[2]
      BY <3>2
    <3> QED BY <3>1, <3>3
  <2>11. Head(q) = q[1]
    BY <2>7
  <2> QED BY <2>6, <2>10, <2>11, Programs
<1>7. Connected(t)'
  BY <1>3, <1>4, <1>5, <1>6 DEF Connected, Kinds
<1> QED BY <1>2, <1>3, <1>4, <1>7, AllConnected DEF Base

\* ... or waits.
LEMMA BaseQueues ==
  ASSUME Base, NEW t \in LogTasks, Busy(t), Head(todo[t]) # Save,
         Queue(t, Upcoming(t)), UNCHANGED <<job, ids, todo>>, Clocks'
  PROVE  /\ Base' /\ Others(t) /\ OtherJobs(t) /\ ~Waiting(t) /\ Holding(t)'
         /\ Upcoming(t) = Statement(t, Head(todo[t]))
         /\ wants'[t] = Upcoming(t) /\ rows' = rows /\ ins' = ins /\ del' = del /\ locks' = locks
<1>1. DbTypes /\ Jobs /\ Counted /\ Connected(t)
  BY DEF Base
<1>2. ~Waiting(t) /\ Upcoming(t) = Statement(t, Head(todo[t])) /\ Upcoming(t) \in Statements
  BY <1>1, States DEF Queue, Upcoming
<1>3. /\ DbTypes' /\ Counted' /\ Others(t)
      /\ Holding(t)' /\ Waiting(t)' /\ wants'[t] = Upcoming(t) /\ (creates'[t] <=> ~Holding(t))
      /\ rows' = rows /\ ins' = ins /\ del' = del /\ locks' = locks
  BY <1>1, <1>2, Queues
<1>4. Jobs' /\ OtherJobs(t) /\ Busy(t)' /\ Head(todo'[t]) # Save /\ job'[t] = job[t]
  <2>1. Jobs'
    BY <1>1 DEF Jobs, OnProgram
  <2> QED BY <2>1 DEF OtherJobs, Busy
<1>5. job[t] \in Kinds
  BY <1>1, Working
<1>6. t = sampler => creates'[t]
  <2>1. t = sampler => ~Holding(t)
    BY <1>1, <1>2 DEF Connected
  <2> QED BY <1>3, <2>1
<1>7. Connected(t)'
  BY <1>3, <1>4, <1>5, <1>6 DEF Connected, Kinds
<1> QED BY <1>2, <1>3, <1>4, <1>7, AllConnected DEF Base

\* A transaction is committed.
LEMMA BaseFinish ==
  ASSUME Base, NEW t \in LogTasks, Finish(t)
  PROVE  /\ Base' /\ Others(t) /\ OtherJobs(t) /\ ~Waiting(t)'
         /\ rows' = Visible(t) /\ Forgotten(t) /\ before' = before
         /\ \/ /\ Len(todo[t]) > 1 /\ todo'[t] = Tail(todo[t]) /\ Len(todo'[t]) = Len(todo[t]) - 1
               /\ job' = job /\ ids' = ids /\ erased' = erased
            \/ /\ Len(todo[t]) = 1 /\ job'[t] \in Resting /\ erased' = erased \cup Reported(t)
<1>1. DbTypes /\ Jobs /\ Counted /\ Clocks /\ Connected(t)
  BY DEF Base
<1>2. /\ Busy(t) /\ Head(todo[t]) = Save /\ Commit(t) /\ UNCHANGED <<next, expired, before>>
  BY DEF Finish
<1>3. /\ DbTypes' /\ Counted' /\ Others(t) /\ ~Holding(t)' /\ rows' = Visible(t) /\ Forgotten(t)
      /\ wants' = wants /\ creates' = creates
  BY <1>1, <1>2, Commits
<1>4. ~Waiting(t) /\ ~creates[t]
  BY <1>1, <1>2 DEF Connected
<1>5. ~Waiting(t)' /\ ~creates'[t]
  BY <1>3, <1>4 DEF Waiting
<1>6. Connected(t)'
  BY <1>3, <1>5 DEF Connected
<1>7. PICK n : n = Len(todo[t])
  OBVIOUS
<1>8. n \in Nat /\ n >= 1
  <2>1. job[t] \in Kinds
    BY <1>1, <1>2, Working
  <2>2. PICK m \in 1 .. 7 : m = Len(Program(job[t]))
    BY <2>1, ProgramTypes
  <2>3. n \in 1 .. m
    BY <1>1, <1>2, <1>7, <2>2, Working
  <2> QED BY <2>2, <2>3
<1>9. CASE n > 1
  <2>1. todo' = [todo EXCEPT ![t] = Tail(@)] /\ UNCHANGED <<job, ids, erased>>
    BY <1>7, <1>9 DEF Finish
  <2>2. /\ Jobs' /\ OtherJobs(t) /\ todo'[t] = Tail(todo[t])
        /\ Len(todo'[t]) = Len(todo[t]) - 1
    BY <1>1, <1>2, <1>7, <1>9, <2>1, Advances
  <2>3. Clocks'
    BY <1>1, <1>2, <2>1 DEF Clocks
  <2>4. Base'
    BY <1>3, <1>6, <2>2, <2>3, AllConnected DEF Base
  <2> QED BY <1>2, <1>3, <1>5, <1>7, <1>9, <2>1, <2>2, <2>4
<1>10. CASE n = 1
  <2>1. Over(t, "done") /\ erased' = erased \cup Reported(t)
    BY <1>7, <1>10 DEF Finish
  <2>2. Jobs' /\ OtherJobs(t) /\ job'[t] \in Resting
    BY <1>1, <2>1, Overs
  <2>3. Reported(t) \subseteq LogRows
    <3>1. before[t] \subseteq LogRows /\ {"requests", "request_stats"} \X ids[t] \subseteq LogRows
      BY <1>1 DEF Clocks, Jobs, LogRows, Tables
    <3> QED BY <3>1 DEF Reported
  <2>4. Clocks'
    BY <1>1, <1>2, <2>1, <2>3 DEF Clocks
  <2>5. Base'
    BY <1>3, <1>6, <2>2, <2>4, AllConnected DEF Base
  <2> QED BY <1>2, <1>3, <1>5, <1>7, <1>10, <2>1, <2>2, <2>5
<1> QED BY <1>8, <1>9, <1>10

\* A job fails.
LEMMA BaseFails ==
  ASSUME Base, NEW t \in LogTasks, Over(t, "failed"), UNCHANGED <<next, expired, erased, before>>,
         \/ Head(todo[t]) = Save /\ Busy(t) /\ CommitFails(t)
         \/ Head(todo[t]) # Save /\ Busy(t) /\ Throws(t)
         \/ t \in Handlers /\ Cancelled(t)
  PROVE  /\ Base' /\ Others(t) /\ OtherJobs(t) /\ ~Waiting(t)' /\ job'[t] \in Resting
         /\ rows' = rows /\ (Forgotten(t) \/ UNCHANGED <<ins, del, locks>>)
<1>1. DbTypes /\ Jobs /\ Counted /\ Clocks /\ Connected(t)
  BY DEF Base
<1>2. Jobs' /\ OtherJobs(t) /\ ~Busy(t)' /\ job'[t] = "failed" /\ job'[t] \in Resting
  BY <1>1, Overs
<1>3. Clocks'
  BY <1>1 DEF Clocks
<1>4. /\ DbTypes' /\ Counted' /\ Others(t) /\ ~Waiting(t)' /\ ~creates'[t]
      /\ t \in {purger, sampler} => ~Holding(t)'
      /\ rows' = rows /\ (Forgotten(t) \/ UNCHANGED <<ins, del, locks>>)
  <2>1. CASE Head(todo[t]) = Save /\ Busy(t) /\ CommitFails(t)
    <3>1. ~Waiting(t) /\ ~creates[t]
      BY <1>1, <2>1 DEF Connected
    <3>2. /\ DbTypes' /\ Counted' /\ Others(t)
          /\ ~Holding(t)' /\ wants' = wants /\ creates' = creates /\ rows' = rows /\ Forgotten(t)
      BY <1>1, <2>1, Closing
    <3> QED BY <3>1, <3>2 DEF Waiting
  <2>2. CASE Head(todo[t]) # Save /\ Busy(t) /\ Throws(t)
    <3>1. CASE Purging(t)
      <4>1. Rollback(t) /\ Answered(t)
        BY <2>2, <3>1 DEF Throws
      <4> QED BY <1>1, <4>1, Returns, Answers
    <3>2. CASE ~Purging(t)
      <4>1. Raises(t)
        BY <2>2, <3>2 DEF Throws
      <4>2. t \in {purger, sampler} => creates[t] \/ ~Holding(t)
        <5>1. t # purger
          BY <1>1, <2>2, <3>2, Working DEF Jobs, Purging, Kinds, Resting
        <5> QED BY <1>1, <2>2, <5>1 DEF Connected
      <4>3. /\ DbTypes' /\ Counted' /\ Others(t)
            /\ ~Waiting(t)' /\ ~creates'[t] /\ rows' = rows /\ Forgotten(t)
            /\ creates[t] \/ ~Holding(t) => ~Holding(t)'
        BY <1>1, <4>1, Raising
      <4> QED BY <3>2, <4>2, <4>3
    <3> QED BY <3>1, <3>2
  <2>3. CASE t \in Handlers /\ Cancelled(t)
    <3>1. /\ Answered(t)
          /\ UNCHANGED <<rows, free, context, ins, del, locks>>
      BY <2>3 DEF Cancelled
    <3>2. Counted'
      BY <1>1, <3>1 DEF Counted, Holders
    <3>3. DbTypes' /\ Others(t) /\ ~Waiting(t)' /\ ~creates'[t]
      BY <1>1, <3>1, Answers DEF DbTypes, Others
    <3> QED BY <2>3, <3>1, <3>2, <3>3, TaskKinds
  <2> QED BY <2>1, <2>2, <2>3
<1>5. Connected(t)'
  BY <1>2, <1>4 DEF Connected
<1> QED BY <1>2, <1>3, <1>4, <1>5, AllConnected DEF Base

\* A task of a handler ends.
LEMMA BaseEndTask ==
  ASSUME Base, NEW t \in Handlers, EndTask(t)
  PROVE  /\ Base' /\ Others(t) /\ ~Waiting(t)' /\ rows' = rows /\ Forgotten(t)
<1>1. DbTypes /\ Jobs /\ Counted /\ Clocks /\ Connected(t) /\ t \in LogTasks /\ t \notin {purger, sampler}
  BY TaskKinds DEF Base
<1>2. /\ Rollback(t) /\ wants' = wants /\ creates' = creates /\ ~Waiting(t)
      /\ UNCHANGED <<job, ids, todo, next, expired, erased, before>>
  BY DEF EndTask, Collect, Aside
<1>3. DbTypes' /\ Counted' /\ Others(t) /\ ~Holding(t)' /\ rows' = rows /\ Forgotten(t)
  BY <1>1, <1>2, Returns
<1>4. Jobs' /\ Clocks' /\ OtherJobs(t)
  BY <1>1, <1>2 DEF Jobs, OnProgram, Clocks, OtherJobs
<1>5. ~Waiting(t)' /\ ~creates'[t]
  BY <1>1, <1>2 DEF Connected, Waiting
<1>6. Connected(t)'
  BY <1>1, <1>3, <1>5 DEF Connected
<1> QED BY <1>1, <1>3, <1>4, <1>5, <1>6, AllConnected DEF Base

\* Rows get older.
LEMMA BaseExpire ==
  ASSUME Base, NEW T \in Tables, Expire(T)
  PROVE  Base'
<1>1. /\ expired' = [expired EXCEPT ![T] = @ + 1] /\ expired[T] < Oldest[T]
      /\ UNCHANGED <<database, job, ids, todo, next, erased, before>>
  BY DEF Expire
<1>2. Clocks'
  <2>1. /\ expired \in [Tables -> Nat] /\ Oldest \in [Tables -> Nat]
        /\ \A S \in Tables : expired[S] <= Oldest[S]
    BY BoundsAssumption DEF Base, Clocks
  <2>2. expired[T] \in Nat /\ Oldest[T] \in Nat
    BY <2>1
  <2>3. expired[T] + 1 \in Nat /\ expired[T] + 1 <= Oldest[T]
    BY <1>1, <2>2
  <2>4. expired' \in [Tables -> Nat] /\ \A S \in Tables : expired'[S] <= Oldest[S]
    BY <1>1, <2>1, <2>3
  <2> QED BY <1>1, <2>4 DEF Base, Clocks
<1>3. Jobs' /\ \A t : OtherJobs(t)
  BY <1>1 DEF Base, Jobs, OnProgram, OtherJobs
<1>4. DbTypes' /\ Counted' /\ \A t : Others(t)
  BY <1>1, Untouched DEF Base
<1>5. ASSUME NEW t \in LogTasks PROVE Connected(t)'
  BY <1>1 DEF Base, Connected, Holding, Waiting, Busy, database
<1> QED BY <1>2, <1>3, <1>4, <1>5 DEF Base

\* What a task at work does: a statement runs, waits or raises, a commit
\* succeeds or fails.
LEMMA WorkSteps ==
  ASSUME Base, NEW t \in LogTasks, Works(t) \/ Fail(t)
  PROVE  \/ /\ Busy(t) /\ Head(todo[t]) # Save
            /\ Execute(t, Upcoming(t)) \/ Resume(t)
            /\ todo' = [todo EXCEPT ![t] = Tail(@)]
            /\ UNCHANGED <<job, ids, next, expired, erased, before>>
         \/ /\ Busy(t) /\ Head(todo[t]) # Save
            /\ Queue(t, Upcoming(t))
            /\ UNCHANGED <<job, ids, todo, next, expired, erased, before>>
         \/ Finish(t)
         \/ /\ Over(t, "failed") /\ UNCHANGED <<next, expired, erased, before>> /\ Busy(t)
            /\ \/ Head(todo[t]) = Save /\ CommitFails(t)
               \/ Head(todo[t]) # Save /\ Throws(t)
BY DEF Works, Send, Reject, Fail, Aside

\* The first state.
LEMMA BaseInit == Init => Base
<1> SUFFICES ASSUME Init PROVE Base
  OBVIOUS
<1>1. DbTypes
  BY BoundsAssumption DEF Init, Connect, DbTypes
<1>2. Jobs
  <2>1. /\ job = [t \in LogTasks |-> "idle"] /\ ids = [t \in LogTasks |-> {}]
        /\ todo = [t \in LogTasks |-> <<>>]
    BY DEF Init
  <2>2. "idle" \in Resting
    BY DEF Resting
  <2>3. \A t \in LogTasks : OnProgram(t)
    BY <2>1, <2>2 DEF OnProgram
  <2>4. <<>> \in Seq(Steps)
    OBVIOUS
  <2>5. todo \in [LogTasks -> Seq(Steps)]
    BY <2>1, <2>4
  <2> QED BY <2>1, <2>2, <2>3, <2>5, TaskKinds DEF Jobs
<1>3. Clocks
  BY BoundsAssumption DEF Init, Clocks, Numberings
<1>4. Counted
  <2>1. Holders = {} /\ free = PoolSize
    BY DEF Init, Connect, Holders
  <2>2. Cardinality({}) = 0
    BY FS_EmptySet
  <2> QED BY <2>1, <2>2, BoundsAssumption DEF Counted
<1>5. ASSUME NEW t \in LogTasks PROVE Connected(t)
  BY DEF Init, Connect, Connected, Holding, Waiting, Busy
<1> QED BY <1>1, <1>2, <1>3, <1>4, <1>5 DEF Base

\* Every step.
LEMMA BaseNext == Base /\ [Next]_vars => Base'
<1> SUFFICES ASSUME Base, [Next]_vars PROVE Base'
  OBVIOUS
<1>1. ASSUME NEW t \in Handlers, Begins(t) PROVE Base'
  BY <1>1, BaseBeginInsert, BaseBeginDeletes, BaseBeginPurge DEF Begins, Takers
<1>2. ASSUME NEW t \in Handlers, Disconnect(t) PROVE Base'
  <2>1. Over(t, "failed") /\ Cancelled(t) /\ UNCHANGED <<next, expired, erased, before>>
    BY <1>2 DEF Disconnect, Aside
  <2> QED BY <2>1, BaseFails, TaskKinds
<1>3. ASSUME NEW t \in LogTasks, Works(t) \/ Fail(t) PROVE Base'
  <2>1. UNCHANGED <<next, expired, erased, before>> => Clocks'
    BY DEF Base, Clocks
  <2> QED BY <1>3, <2>1, WorkSteps, BaseRuns, BaseQueues, BaseFinish, BaseFails
<1>4. CASE UNCHANGED vars
  <2>1. UNCHANGED <<database, job, ids, todo, next, expired, erased, before>>
    BY <1>4 DEF vars
  <2>2. DbTypes' /\ Counted'
    BY <2>1, Untouched DEF Base
  <2>3. Jobs' /\ Clocks'
    BY <2>1 DEF Base, Jobs, OnProgram, Clocks
  <2>4. ASSUME NEW t \in LogTasks PROVE Connected(t)'
    BY <2>1 DEF Base, Connected, Holding, Waiting, Busy, database
  <2> QED BY <2>2, <2>3, <2>4 DEF Base
<1> QED BY <1>1, <1>2, <1>3, <1>4, BaseEndTask, BaseBeginSample, BaseBeginPurge, BaseExpire DEF Next, Takers

\* The type invariant of the log: for any handlers, pool and limits, rows,
\* transactions, jobs and programs are what TypeOK says, and no more
\* connections are out than the pool has.
THEOREM TypeCorrect == Spec => []TypeOK
<1>1. Base => TypeOK
  <2> SUFFICES ASSUME Base PROVE TypeOK
    OBVIOUS
  <2>1. free \in 0 .. PoolSize
    BY FiniteTasks, BoundsAssumption DEF Base, Counted, DbTypes
  <2>2. DatabaseTypeOK
    BY <2>1 DEF Base, DbTypes, DatabaseTypeOK
  <2>3. ASSUME NEW t \in LogTasks
        PROVE  Len(todo[t]) \in 0 .. 7 /\ (todo[t] # <<>> <=> job[t] \notin {"idle", "done", "failed"})
    <3>1. todo[t] # <<>> <=> job[t] \notin {"idle", "done", "failed"}
      BY Working DEF Base, Busy, Resting
    <3>2. CASE ~Busy(t)
      <4>1. todo[t] = <<>>
        BY <3>2 DEF Busy
      <4>2. Len(<<>>) = 0
        BY EmptySeq
      <4> QED BY <3>1, <4>1, <4>2
    <3>3. CASE Busy(t)
      <4>1. PICK n : n = Len(todo[t])
        OBVIOUS
      <4>2. job[t] \in Kinds
        BY <3>3, Working DEF Base
      <4>3. PICK m : m = Len(Program(job[t]))
        OBVIOUS
      <4>4. m \in 1 .. 7 /\ n \in 1 .. m
        BY <3>3, <4>1, <4>2, <4>3, ProgramTypes, Working DEF Base
      <4>5. n \in 0 .. 7
        BY <4>4
      <4> QED BY <3>1, <4>1, <4>5
    <3> QED BY <3>2, <3>3
  <2> QED BY <2>2, <2>3 DEF Base, Jobs, Clocks, TypeOK, Kinds, Resting
<1> QED BY <1>1, BaseInit, BaseNext, PTL DEF Spec

\* Every connection is with a task or in the pool: commit and rollback close
\* what execute opened, a statement that raises closes what it opened itself,
\* and neither a finished handler nor an ended background task holds one.
THEOREM ConnectionsAlwaysExact == Spec => []ConnectionsExact
<1>1. Base /\ TypeOK => ConnectionsExact
  <2> SUFFICES ASSUME Base, TypeOK PROVE ConnectionsExact
    OBVIOUS
  <2>1. {t \in LogTasks : Holding(t)} = Holders
    BY DEF Holders, Holding
  <2>2. free = PoolSize - Cardinality({t \in LogTasks : Holding(t)})
    BY <2>1 DEF Base, Counted
  <2>3. ASSUME NEW t \in LogTasks
        PROVE  job[t] \in {"idle", "done"} \/ (t \in {purger, sampler} /\ job[t] = "failed") => ~Holding(t)
    BY DEF Base, Connected
  <2> QED BY <2>2, <2>3 DEF ConnectionsExact
<1> QED BY <1>1, TypeCorrect, BaseInit, BaseNext, PTL DEF Spec

-----------------------------------------------------------------------------
(* What is erased stays erased.                                            *)

Erasers == {"reset", "delete", "delete_matching"}

\* The id of the row r has been handed out.
Given(r) == r[2] <= next[Numbered(r[1])]

\* What the open transaction of t may insert.
Inserting(t) ==
  {r \in LogRows : r[2] \in ids[t] /\
     \/ job[t] = "insert" /\ Len(todo[t]) >= 3 /\ r[1] \in {"requests", "request_stats"}
     \/ job[t] = "insert" /\ Len(todo[t]) < 3 /\ r[1] = "request_attempts"
     \/ job[t] = "sample" /\ r[1] = "queue_samples"}

\* What t has still to store.
Pending(t) ==
  {r \in LogRows : r[2] \in ids[t] /\
     \/ job[t] = "insert" /\ Len(todo[t]) >= 3 /\ r[1] \in {"requests", "request_stats"}
     \/ job[t] = "insert" /\ r[1] = "request_attempts"
     \/ job[t] = "sample" /\ r[1] = "queue_samples"}

\* The tables an eraser has passed when n of its steps are left.
Passed(kind, n, T) ==
  \/ kind = "reset" /\ T = "requests" /\ n <= 3
  \/ kind = "reset" /\ T = "request_stats" /\ n <= 2
  \/ kind = "reset" /\ T = "queue_samples" /\ n <= 1
  \/ kind = "delete" /\ T = "request_stats" /\ n <= 2
  \/ kind = "delete" /\ T = "requests" /\ n <= 1
  \/ kind = "delete_matching" /\ T = "requests" /\ n <= 2
  \/ kind = "delete_matching" /\ T = "request_stats" /\ n <= 1

\* A statement is what the job of t means: it inserts new rows, an attempt
\* with a lock on its request, and erases what is to be reported.
Meant(t, s) ==
  /\ s.insert \subseteq Inserting(t)
  /\ job[t] \in Writers => s.delete = {}
  /\ \A i : Attempt(i) \in s.insert => Request(i) \in s.share
  /\ job[t] \in Erasers => \A r \in Reported(t) \cap Visible(t) : r[1] = Head(todo[t]).table => r \in s.delete

\* The transaction of t.
Own(t) ==
  /\ ~Holding(t) => ins[t] = {} /\ del[t] = {} /\ locks[t] = {}
  /\ del[t] \subseteq locks[t]
  /\ Busy(t) => ins[t] \subseteq Inserting(t)
  /\ job[t] \in Writers => del[t] = {}
  /\ Waiting(t) => Meant(t, wants[t])

\* Of what it will report, what it has passed is deleted.
Erasing(t) ==
  /\ job[t] \in Erasers =>
       \A r \in Reported(t) \cap rows : Passed(job[t], Len(todo[t]), r[1]) => r \in del[t]
  /\ job[t] = "reset" => \A i : Attempt(i) \in before[t] => Request(i) \in before[t]

\* Requests and their attempts.
Referring(t) ==
  /\ \A i : Request(i) \in del[t] /\ Attempt(i) \in rows => Attempt(i) \in del[t]
  /\ \A i : Attempt(i) \in ins[t] => Request(i) \in locks[t] /\ Request(i) \in rows

\* What t has still to store is new.
Fresh(t) ==
  /\ Pending(t) \cap (rows \cup erased) = {}
  /\ \A r \in Pending(t) \cup Reported(t) : Given(r)

\* Two tasks.
Apart(t, o) ==
  /\ Pending(t) \cap (Pending(o) \cup Reported(o)) = {}
  /\ \A i : Request(i) \in locks[t] => Request(i) \notin del[o]

\* What is stored.
Stored ==
  /\ rows \cap erased = {}
  /\ \A i : Attempt(i) \in rows => Request(i) \in rows
  /\ \A r \in rows \cup erased : Given(r)

Safe ==
  /\ Base /\ Stored
  /\ \A t \in LogTasks : Own(t) /\ Erasing(t) /\ Referring(t) /\ Fresh(t)
  /\ \A t, o \in LogTasks : t # o => Apart(t, o)

\* What is reported, by job.
LEMMA Reports ==
  ASSUME NEW t
  PROVE  /\ job[t] = "reset" => Reported(t) = before[t]
         /\ job[t] \in {"delete", "delete_matching"} => Reported(t) = {"requests", "request_stats"} \X ids[t]
         /\ job[t] \notin Erasers => Reported(t) = {}
<1>1. job[t] = "reset" => Reported(t) = before[t]
  BY DEF Reported
<1>2. job[t] \in {"delete", "delete_matching"} => Reported(t) = {"requests", "request_stats"} \X ids[t]
  BY DEF Reported
<1>3. job[t] \notin Erasers => Reported(t) = {}
  BY DEF Reported, Erasers
<1> QED BY <1>1, <1>2, <1>3

\* What is reported, are rows.
LEMMA ReportsRows ==
  ASSUME Base, NEW t \in LogTasks
  PROVE  Reported(t) \subseteq LogRows
<1>1. before[t] \subseteq LogRows /\ {"requests", "request_stats"} \X ids[t] \subseteq LogRows
  BY DEF Base, Clocks, Jobs, LogRows, Tables
<1> QED BY <1>1, Reports DEF Erasers

\* Requests and attempts are different rows.
LEMMA Different ==
  ASSUME NEW i, NEW j
  PROVE  /\ Request(i) # Attempt(j)
         /\ Request(i)[1] = "requests" /\ Request(i)[2] = i
         /\ Attempt(i)[1] = "request_attempts" /\ Attempt(i)[2] = i
BY DEF Request, Attempt

\* The next statement is meant, and it passes its table.
LEMMA Means ==
  ASSUME Base, NEW t \in LogTasks, Busy(t), Head(todo[t]) # Save
  PROVE  /\ Meant(t, Statement(t, Head(todo[t])))
         /\ job[t] = "insert" => Len(todo[t]) # 3
         /\ \A T : Passed(job[t], Len(todo[t]) - 1, T) => Passed(job[t], Len(todo[t]), T) \/ T = Head(todo[t]).table
<1>1. PICK h : h = Head(todo[t])
  OBVIOUS
<1>2. PICK n : n = Len(todo[t])
  OBVIOUS
<1>3. n > 1 /\ job[t] \in Kinds /\ Jobs
  BY <1>2, NotLast, Working DEF Base
<1>4. PICK s : s = Statement(t, h)
  OBVIOUS
<1>5. /\ s.insert = IF h.do = "insert" THEN {<<h.table, Id(t)>>} ELSE {}
      /\ s.delete = Chosen(t, h)
      /\ s.share = IF h.table = "request_attempts" THEN {Request(Id(t))} ELSE {}
  BY <1>4, Parts
<1>6. job[t] \in Writers => Id(t) \in ids[t] /\ Id(t) \in Ids
  BY <1>3, Reads
<1>7. job[t] \in Writers <=> h.do = "insert"
  BY <1>1, <1>3, Step
<1>8. job[t] = "insert" => n \in {2, 4, 5} /\ (n = 2 => h.table = "request_attempts")
                             /\ (n > 2 => h.table \in {"requests", "request_stats"})
  <2>1. SUFFICES ASSUME job[t] = "insert"
                 PROVE  n \in {2, 4, 5} /\ (n = 2 => h.table = "request_attempts")
                          /\ (n > 2 => h.table \in {"requests", "request_stats"})
    OBVIOUS
  <2>2. /\ n \in 1 .. 5 /\ n # 3 /\ (n = 2 => h = Insert("request_attempts"))
        /\ (n = 5 => h = Insert("requests")) /\ (n = 4 => h = Insert("request_stats"))
    BY <1>1, <1>2, <1>3, <2>1, Heads
  <2>3. n \in {2, 4, 5}
    BY <1>3, <2>2
  <2>4. /\ n = 2 => h.table = "request_attempts"
        /\ n \in {4, 5} => h.table \in {"requests", "request_stats"}
    BY <2>2 DEF Insert
  <2> QED BY <2>3, <2>4
<1>9. job[t] = "sample" => h.table = "queue_samples"
  <2>1. SUFFICES ASSUME job[t] = "sample" PROVE h.table = "queue_samples"
    OBVIOUS
  <2>2. n \in 1 .. 2 /\ (n = 2 => h = Insert("queue_samples"))
    BY <1>1, <1>2, <1>3, <2>1, Heads
  <2>3. h = Insert("queue_samples")
    BY <1>3, <2>2
  <2> QED BY <2>3 DEF Insert
<1>10. s.insert \subseteq Inserting(t)
  <2>1. CASE job[t] = "insert"
    <3>1. <<h.table, Id(t)>> \in LogRows
      BY <1>6, <1>8, <2>1 DEF LogRows, Tables, Writers
    <3>2. n < 3 <=> n = 2
      BY <1>8, <2>1
    <3>3. n >= 3 <=> n > 2
      BY <1>8, <2>1
    <3>4. <<h.table, Id(t)>> \in Inserting(t)
      BY <1>2, <1>6, <1>8, <2>1, <3>1, <3>2, <3>3 DEF Inserting, Writers
    <3> QED BY <1>5, <3>4
  <2>2. CASE job[t] = "sample"
    <3>1. <<h.table, Id(t)>> \in LogRows
      BY <1>6, <1>9, <2>2 DEF LogRows, Tables, Writers
    <3>2. <<h.table, Id(t)>> \in Inserting(t)
      BY <1>6, <1>9, <2>2, <3>1 DEF Inserting, Writers
    <3> QED BY <1>5, <3>2
  <2>3. CASE job[t] \notin Writers
    BY <1>5, <1>7, <2>3
  <2> QED BY <2>1, <2>2, <2>3 DEF Writers
<1>11. job[t] \in Writers => s.delete = {}
  BY <1>5, <1>7, Chooses
<1>12. ASSUME NEW i, Attempt(i) \in s.insert PROVE Request(i) \in s.share
  <2>1. Attempt(i) = <<h.table, Id(t)>>
    BY <1>5, <1>12
  <2>2. h.table = "request_attempts" /\ Id(t) = i
    BY <2>1 DEF Attempt
  <2> QED BY <1>5, <2>2
<1>13. ASSUME job[t] \in Erasers
       PROVE  /\ \A r \in Reported(t) \cap Visible(t) : r[1] = h.table => r \in s.delete
              /\ \A T : Passed(job[t], n - 1, T) => Passed(job[t], n, T) \/ T = h.table
  <2>1. CASE job[t] = "reset"
    <3>1. /\ n \in {2, 3, 4}
          /\ n = 4 => h = All("requests")
          /\ n = 3 => h = All("request_stats")
          /\ n = 2 => h = All("queue_samples")
      <4>1. /\ n \in 1 .. 4
            /\ n = 4 => h = All("requests")
            /\ n = 3 => h = All("request_stats")
            /\ n = 2 => h = All("queue_samples")
        BY <1>1, <1>2, <1>3, <2>1, Heads
      <4> QED BY <1>3, <4>1
    <3>2. /\ h.do = "all"
          /\ n = 4 => h.table = "requests"
          /\ n = 3 => h.table = "request_stats"
          /\ n = 2 => h.table = "queue_samples"
      BY <3>1 DEF All
    <3>3. \A r \in Visible(t) : r[1] = h.table => r \in s.delete
      BY <1>5, <3>2, Chooses
    <3>4. \A T : Passed("reset", n - 1, T) => Passed("reset", n, T) \/ T = h.table
      BY <3>1, <3>2 DEF Passed
    <3> QED BY <2>1, <3>3, <3>4
  <2>2. CASE job[t] \in {"delete", "delete_matching"}
    <3>1. /\ n \in {2, 3}
          /\ job[t] = "delete" => (n = 3 => h = These("request_stats")) /\ (n = 2 => h = These("requests"))
          /\ job[t] = "delete_matching" => (n = 3 => h = These("requests")) /\ (n = 2 => h = These("request_stats"))
      <4>1. n \in 1 .. 3
        BY <1>2, <1>3, <2>2, Heads
      <4>2. n \in {2, 3}
        BY <1>3, <4>1
      <4> QED BY <1>1, <1>2, <1>3, <4>2, Heads
    <3>2. /\ h.do = "these"
          /\ job[t] = "delete" =>
               (n = 3 => h.table = "request_stats") /\ (n = 2 => h.table = "requests")
          /\ job[t] = "delete_matching" =>
               (n = 3 => h.table = "requests") /\ (n = 2 => h.table = "request_stats")
      BY <2>2, <3>1 DEF These
    <3>3. \A r \in Reported(t) : r[2] \in ids[t]
      BY <2>2, Reports
    <3>4. \A r \in Reported(t) \cap Visible(t) : r[1] = h.table => r \in s.delete
      BY <1>5, <3>2, <3>3, Chooses
    <3>5. \A T : Passed(job[t], n - 1, T) => Passed(job[t], n, T) \/ T = h.table
      BY <2>2, <3>1, <3>2 DEF Passed
    <3> QED BY <3>4, <3>5
  <2> QED BY <1>13, <2>1, <2>2 DEF Erasers
<1>14. \A T : Passed(job[t], n - 1, T) => Passed(job[t], n, T) \/ T = h.table
  BY <1>13 DEF Passed, Erasers
<1>15. Meant(t, s)
  BY <1>1, <1>10, <1>11, <1>12, <1>13 DEF Meant
<1>16. job[t] = "insert" => n # 3
  BY <1>8
<1> QED BY <1>1, <1>2, <1>4, <1>14, <1>15, <1>16

\* What may be inserted is pending, and a task that has anything pending
\* reports nothing.
LEMMA Pends ==
  ASSUME NEW t
  PROVE  /\ Inserting(t) \subseteq Pending(t)
         /\ job[t] \notin Writers => Pending(t) = {} /\ Inserting(t) = {}
         /\ job[t] \in Writers => Reported(t) = {}
<1>1. Inserting(t) \subseteq Pending(t)
  BY DEF Inserting, Pending
<1>2. job[t] \notin Writers => Pending(t) = {} /\ Inserting(t) = {}
  BY DEF Inserting, Pending, Writers
<1>3. job[t] \in Writers => job[t] \notin Erasers
  BY DEF Writers, Erasers
<1> QED BY <1>1, <1>2, <1>3, Reports

\* What another task is at stays as it was.
LEMMA Same ==
  ASSUME NEW t, NEW o \in LogTasks \ {t}, Others(t), OtherJobs(t), before'[o] = before[o]
  PROVE  /\ Pending(o)' = Pending(o) /\ Inserting(o)' = Inserting(o) /\ Reported(o)' = Reported(o)
         /\ job'[o] = job[o] /\ ids'[o] = ids[o] /\ todo'[o] = todo[o]
         /\ Holding(o)' = Holding(o) /\ Waiting(o)' = Waiting(o) /\ wants'[o] = wants[o]
         /\ Busy(o)' = Busy(o) /\ ins'[o] = ins[o] /\ del'[o] = del[o] /\ locks'[o] = locks[o]
<1>1. /\ job'[o] = job[o] /\ ids'[o] = ids[o] /\ todo'[o] = todo[o]
      /\ context'[o] = context[o] /\ wants'[o] = wants[o]
      /\ ins'[o] = ins[o] /\ del'[o] = del[o] /\ locks'[o] = locks[o]
  BY DEF Others, OtherJobs
<1>2. Pending(o)' = Pending(o) /\ Inserting(o)' = Inserting(o)
  BY <1>1 DEF Pending, Inserting
<1>3. Reported(o)' = Reported(o)
  BY <1>1 DEF Reported
<1>4. Holding(o)' = Holding(o) /\ Waiting(o)' = Waiting(o) /\ Busy(o)' = Busy(o)
  BY <1>1 DEF Holding, Waiting, Busy
<1> QED BY <1>1, <1>2, <1>3, <1>4

\* The rows change only with a commit.
Committing(t) == rows' = rows \/ (rows' = Visible(t) /\ Busy(t))

\* What a commit stores was pending, and of requests that are locked by
\* others it removes none, nor does it add attempts to those they delete.
LEMMA Stores ==
  ASSUME Safe, NEW t \in LogTasks, Committing(t)
  PROVE  /\ rows' \subseteq rows \cup Pending(t)
         /\ \A o \in LogTasks \ {t} : \A i :
              /\ Request(i) \in locks[o] /\ Request(i) \in rows => Request(i) \in rows'
              /\ Request(i) \in del[o] /\ Attempt(i) \in rows' => Attempt(i) \in rows
<1>1. CASE rows' = rows
  BY <1>1
<1>2. CASE rows' = Visible(t) /\ Busy(t)
  <2>1. rows' = (rows \cup ins[t]) \ del[t] /\ ins[t] \subseteq Pending(t)
    BY <1>2, Pends DEF Visible, Safe, Own
  <2>2. ASSUME NEW o \in LogTasks \ {t}, NEW i
        PROVE  /\ Request(i) \in locks[o] /\ Request(i) \in rows => Request(i) \in rows'
               /\ Request(i) \in del[o] /\ Attempt(i) \in rows' => Attempt(i) \in rows
    <3>1. Apart(o, t) /\ Apart(t, o) /\ Referring(t)
      BY <2>2 DEF Safe
    <3>2. Request(i) \in locks[o] => Request(i) \notin del[t]
      BY <3>1 DEF Apart
    <3>3. Attempt(i) \in ins[t] => Request(i) \notin del[o]
      BY <3>1 DEF Apart, Referring
    <3> QED BY <2>1, <3>2, <3>3
  <2> QED BY <2>1, <2>2
<1> QED BY <1>1, <1>2 DEF Committing

\* Ids that were given stay given.
LEMMA Gives ==
  ASSUME Base, Base', \A n \in Numberings : next[n] <= next'[n], NEW r \in LogRows, Given(r)
  PROVE  Given(r)'
<1>1. Numbered(r[1]) \in Numberings
  BY DEF Numbered, Numberings
<1>2. next[Numbered(r[1])] \in Nat /\ next'[Numbered(r[1])] \in Nat /\ r[2] \in Nat
  <2>1. r[2] \in Ids
    BY DEF LogRows
  <2>2. \A i \in Ids : i \in Nat
    BY BoundsAssumption DEF Ids, Numberings
  <2> QED BY <1>1, <2>1, <2>2 DEF Base, Clocks
<1>3. r[2] <= next'[Numbered(r[1])]
  BY <1>1, <1>2 DEF Given
<1> QED BY <1>3 DEF Given

\* What holds of the other tasks still does.
LEMMA OthersSafe ==
  ASSUME Safe, Base', NEW t \in LogTasks, Others(t), OtherJobs(t), Committing(t),
         \A n \in Numberings : next[n] <= next'[n], erased' \subseteq erased \cup Reported(t),
         NEW o \in LogTasks \ {t}, before'[o] = before[o]
  PROVE  Own(o)' /\ Erasing(o)' /\ Referring(o)' /\ Fresh(o)'
<1>1. /\ Pending(o)' = Pending(o) /\ Inserting(o)' = Inserting(o) /\ Reported(o)' = Reported(o)
      /\ job'[o] = job[o] /\ ids'[o] = ids[o] /\ todo'[o] = todo[o]
      /\ Holding(o)' = Holding(o) /\ Waiting(o)' = Waiting(o) /\ wants'[o] = wants[o]
      /\ Busy(o)' = Busy(o) /\ ins'[o] = ins[o] /\ del'[o] = del[o] /\ locks'[o] = locks[o]
  BY Same
<1>2. Own(o) /\ Erasing(o) /\ Referring(o) /\ Fresh(o) /\ Apart(o, t) /\ Apart(t, o)
  BY DEF Safe
<1>3. rows' \subseteq rows \cup Pending(t)
  BY Stores
<1>4. rows' \cap Reported(o) \subseteq rows
  BY <1>2, <1>3 DEF Apart
<1>5. Visible(o)' \cap Reported(o) \subseteq Visible(o)
  BY <1>1, <1>4 DEF Visible
<1>6. Own(o)'
  <2>1. Waiting(o) => Meant(o, wants[o])'
    BY <1>1, <1>2, <1>5 DEF Own, Meant
  <2> QED BY <1>1, <1>2, <2>1 DEF Own, Meant
<1>7. Erasing(o)'
  BY <1>1, <1>2, <1>4 DEF Erasing
<1>8. Referring(o)'
  <2>1. ASSUME NEW i
        PROVE  /\ Request(i) \in locks[o] /\ Request(i) \in rows => Request(i) \in rows'
               /\ Request(i) \in del[o] /\ Attempt(i) \in rows' => Attempt(i) \in rows
    BY Stores
  <2> QED BY <1>1, <1>2, <2>1 DEF Referring
<1>9. Fresh(o)'
  <2>1. Pending(o) \cap (rows' \cup erased') = {}
    BY <1>2, <1>3 DEF Apart, Fresh
  <2>2. Pending(o) \cup Reported(o) \subseteq LogRows
    BY ReportsRows DEF Safe, Pending
  <2>3. ASSUME NEW r \in Pending(o) \cup Reported(o) PROVE Given(r)'
    <3>1. r \in LogRows /\ Given(r)
      BY <1>2, <2>2, <2>3 DEF Fresh
    <3> QED BY <3>1, Gives DEF Safe
  <2> QED BY <1>1, <2>1, <2>3 DEF Fresh
<1> QED BY <1>6, <1>7, <1>8, <1>9

\* And what holds between two of them.
LEMMA OthersApart ==
  ASSUME Safe, NEW t \in LogTasks, Others(t), OtherJobs(t),
         NEW o \in LogTasks \ {t}, NEW p \in LogTasks \ {t}, o # p,
         before'[o] = before[o], before'[p] = before[p]
  PROVE  Apart(o, p)'
<1>1. /\ Pending(o)' = Pending(o) /\ Pending(p)' = Pending(p) /\ Reported(p)' = Reported(p)
      /\ locks'[o] = locks[o] /\ del'[p] = del[p]
  BY Same
<1>2. Apart(o, p)
  BY DEF Safe
<1> QED BY <1>1, <1>2 DEF Apart

\* Safety is kept by a step of t, if it is kept for t.
LEMMA Together ==
  ASSUME Safe, Base', NEW t \in LogTasks, Others(t), OtherJobs(t), Committing(t),
         \A n \in Numberings : next[n] <= next'[n], erased' \subseteq erased \cup Reported(t),
         \A o \in LogTasks \ {t} : before'[o] = before[o],
         Stored', Own(t)', Erasing(t)', Referring(t)', Fresh(t)',
         \A o \in LogTasks \ {t} : Apart(t, o)' /\ Apart(o, t)'
  PROVE  Safe'
<1>1. \A o \in LogTasks : (Own(o) /\ Erasing(o) /\ Referring(o) /\ Fresh(o))'
  BY OthersSafe
<1>2. ASSUME NEW o \in LogTasks, NEW p \in LogTasks, o # p PROVE Apart(o, p)'
  <2>1. CASE o # t /\ p # t
    BY <1>2, <2>1, OthersApart
  <2> QED BY <1>2, <2>1
<1> QED BY <1>1, <1>2 DEF Safe

\* A statement runs.
LEMMA SafeRuns ==
  ASSUME Safe, NEW t \in LogTasks, Busy(t), Head(todo[t]) # Save,
         Execute(t, Upcoming(t)) \/ Resume(t), todo' = [todo EXCEPT ![t] = Tail(@)],
         UNCHANGED <<job, ids, next, expired, erased, before>>
  PROVE  Safe'
<1>1. /\ Base /\ Stored /\ Own(t) /\ Erasing(t) /\ Referring(t) /\ Fresh(t) /\ Jobs /\ DbTypes
      /\ \A o \in LogTasks \ {t} : Apart(t, o) /\ Apart(o, t) /\ Own(o)
  BY DEF Safe, Base
<1>2. Clocks'
  BY <1>1 DEF Base, Clocks
<1>3. /\ Base' /\ Others(t) /\ OtherJobs(t) /\ ~Waiting(t)' /\ Holding(t)'
      /\ Upcoming(t) \in Statements /\ Does(t, Upcoming(t))
      /\ Len(todo'[t]) = Len(todo[t]) - 1
  BY <1>1, <1>2, BaseRuns
<1>4. PICK s : s = Upcoming(t)
  OBVIOUS
<1>5. Meant(t, s)
  <2>1. CASE Waiting(t)
    BY <1>1, <1>4, <2>1 DEF Upcoming, Own
  <2>2. CASE ~Waiting(t)
    BY <1>1, <1>4, <2>2, Means DEF Upcoming
  <2> QED BY <2>1, <2>2
<1>6. ~Blocked(t, s) /\ s.share \subseteq Visible(t)
  BY <1>4 DEF Execute, Resume, Upcoming
<1>7. /\ rows' = rows
      /\ ins'[t] = (ins[t] \cup s.insert) \ Gone(t, s)
      /\ del'[t] = del[t] \cup Gone(t, s)
      /\ locks'[t] = locks[t] \cup Gone(t, s) \cup s.share
  BY <1>1, <1>3, <1>4, Changes
<1>8. PICK n : n = Len(todo[t])
  OBVIOUS
<1>9. /\ job[t] = "insert" => n # 3
      /\ \A T : Passed(job[t], n - 1, T) => Passed(job[t], n, T) \/ T = Head(todo[t]).table
      /\ Len(todo'[t]) = n - 1 /\ n \in Nat /\ job'[t] = job[t] /\ ids'[t] = ids[t]
  <2>1. n \in Nat
    BY <1>1, <1>8, Working
  <2> QED BY <1>1, <1>3, <1>8, <2>1, Means
<1>10. Inserting(t)' = Inserting(t) /\ Pending(t)' \subseteq Pending(t) /\ Reported(t)' = Reported(t)
  <2>1. Len(todo'[t]) >= 3 => n >= 3
    BY <1>9
  <2>2. job[t] = "insert" => (Len(todo'[t]) >= 3 <=> n >= 3) /\ (Len(todo'[t]) < 3 <=> n < 3)
    BY <1>9
  <2>3. Inserting(t)' = Inserting(t)
    BY <1>8, <1>9, <2>2 DEF Inserting
  <2>4. Pending(t)' \subseteq Pending(t)
    BY <1>8, <1>9, <2>1 DEF Pending
  <2>5. Reported(t)' = Reported(t)
    BY <1>9 DEF Reported
  <2> QED BY <2>3, <2>4, <2>5
<1>11. PICK gone : gone = Gone(t, s)
  OBVIOUS
<1>12. /\ gone \subseteq Visible(t) /\ s.delete \cap Visible(t) \subseteq gone
       /\ s.delete = {} => gone = {}
       /\ \A i : Request(i) \in gone =>
            Request(i) \in s.delete /\ (Attempt(i) \in Visible(t) => Attempt(i) \in gone)
  BY <1>11, Goes DEF Found
<1>13. \A o \in LogTasks \ {t} : locks[o] \cap (s.delete \cup s.share) = {}
  BY <1>6 DEF Blocked, Blocks
<1>14. Own(t)'
  <2>1. ins'[t] \subseteq Inserting(t)'
    BY <1>1, <1>5, <1>7, <1>10 DEF Own, Meant
  <2>2. job'[t] \in Writers => del'[t] = {}
    BY <1>1, <1>5, <1>7, <1>9, <1>11, <1>12 DEF Own, Meant
  <2>3. del'[t] \subseteq locks'[t]
    BY <1>1, <1>7 DEF Own
  <2> QED BY <1>3, <2>1, <2>2, <2>3 DEF Own
<1>15. Erasing(t)'
  <2>1. ASSUME job[t] \in Erasers, NEW r \in Reported(t) \cap rows, Passed(job[t], n - 1, r[1])
        PROVE  r \in del'[t]
    <3>1. CASE Passed(job[t], n, r[1])
      BY <1>1, <1>7, <1>8, <2>1, <3>1 DEF Erasing
    <3>2. CASE r[1] = Head(todo[t]).table
      <4>1. CASE r \in Visible(t)
        <5>1. r \in s.delete
          BY <1>5, <2>1, <3>2, <4>1 DEF Meant
        <5> QED BY <1>7, <1>11, <1>12, <4>1, <5>1
      <4>2. CASE r \notin Visible(t)
        BY <1>7, <2>1, <4>2 DEF Visible
      <4> QED BY <4>1, <4>2
    <3> QED BY <1>9, <2>1, <3>1, <3>2
  <2>2. before'[t] = before[t]
    OBVIOUS
  <2> QED BY <1>1, <1>7, <1>9, <1>10, <2>1, <2>2 DEF Erasing
<1>16. Referring(t)'
  <2>1. ASSUME NEW i, Request(i) \in del'[t], Attempt(i) \in rows PROVE Attempt(i) \in del'[t]
    <3>1. CASE Request(i) \in del[t]
      BY <1>1, <1>7, <2>1, <3>1 DEF Referring
    <3>2. CASE Request(i) \in gone
      BY <1>7, <1>11, <1>12, <2>1, <3>2 DEF Visible
    <3> QED BY <1>7, <1>11, <2>1, <3>1, <3>2
  <2>2. ASSUME NEW i, Attempt(i) \in ins'[t] PROVE Request(i) \in locks'[t] /\ Request(i) \in rows
    <3>1. CASE Attempt(i) \in ins[t]
      BY <1>1, <1>7, <3>1 DEF Referring
    <3>2. CASE Attempt(i) \in s.insert
      <4>1. Attempt(i) \in Inserting(t) /\ Request(i) \in s.share
        BY <1>5, <3>2 DEF Meant
      <4>2. job[t] = "insert" /\ Len(todo[t]) < 3
        BY <4>1, Different DEF Inserting
      <4>3. ~(Len(todo[t]) >= 3)
        BY <1>8, <1>9, <4>2
      <4>4. Request(i) \notin Inserting(t)
        BY <4>2, <4>3, Different DEF Inserting
      <4>5. Request(i) \notin ins[t]
        BY <1>1, <4>4 DEF Own
      <4> QED BY <1>6, <1>7, <4>1, <4>5 DEF Visible
    <3> QED BY <1>7, <2>2, <3>1, <3>2
  <2> QED BY <1>7, <2>1, <2>2 DEF Referring
<1>17. Fresh(t)'
  BY <1>1, <1>7, <1>10 DEF Fresh, Given
<1>18. ASSUME NEW o \in LogTasks \ {t} PROVE Apart(t, o)' /\ Apart(o, t)'
  <2>1. /\ Pending(o)' = Pending(o) /\ Reported(o)' = Reported(o)
        /\ del'[o] = del[o] /\ locks'[o] = locks[o]
    BY <1>3, Same
  <2>2. Apart(t, o) /\ Apart(o, t) /\ del[o] \subseteq locks[o]
    BY <1>1 DEF Own
  <2>3. ASSUME NEW i, Request(i) \in locks'[t] PROVE Request(i) \notin del[o]
    <3>1. CASE Request(i) \in locks[t]
      BY <2>2, <3>1 DEF Apart
    <3>2. CASE Request(i) \in gone \cup s.share
      BY <1>12, <1>13, <2>2, <3>2
    <3> QED BY <1>7, <1>11, <2>3, <3>1, <3>2
  <2>4. ASSUME NEW i, Request(i) \in locks[o] PROVE Request(i) \notin del'[t]
    <3>1. Request(i) \notin del[t]
      BY <2>2, <2>4 DEF Apart
    <3>2. Request(i) \notin gone
      BY <1>12, <1>13, <2>4
    <3> QED BY <1>7, <1>11, <3>1, <3>2
  <2> QED BY <1>10, <2>1, <2>2, <2>3, <2>4 DEF Apart
<1>19. Stored'
  BY <1>1, <1>7 DEF Stored, Given
<1>20. \A m \in Numberings : next[m] <= next'[m]
  BY <1>1 DEF Base, Clocks
<1>21. Committing(t)
  BY <1>7 DEF Committing
<1> QED BY <1>3, <1>14, <1>15, <1>16, <1>17, <1>18, <1>19, <1>20, <1>21, Together

\* What t is at stays as it was.
Kept(t) ==
  /\ Pending(t)' = Pending(t) /\ Inserting(t)' = Inserting(t) /\ Reported(t)' = Reported(t)
  /\ job'[t] = job[t] /\ todo'[t] = todo[t] /\ Busy(t)' = Busy(t)
  /\ rows' = rows /\ erased' = erased /\ before'[t] = before[t]
  /\ ins'[t] = ins[t] /\ del'[t] = del[t] /\ locks'[t] = locks[t]

\* A statement waits.
LEMMA SafeQueues ==
  ASSUME Safe, NEW t \in LogTasks, Busy(t), Head(todo[t]) # Save,
         Queue(t, Upcoming(t)), UNCHANGED <<job, ids, todo, next, expired, erased, before>>
  PROVE  Safe'
<1>1. /\ Base /\ Stored /\ Own(t) /\ Erasing(t) /\ Referring(t) /\ Fresh(t)
      /\ \A o \in LogTasks \ {t} : Apart(t, o) /\ Apart(o, t)
  BY DEF Safe
<1>2. Clocks'
  BY <1>1 DEF Base, Clocks
<1>3. /\ Base' /\ Others(t) /\ OtherJobs(t) /\ Holding(t)'
      /\ Upcoming(t) = Statement(t, Head(todo[t]))
      /\ wants'[t] = Upcoming(t) /\ rows' = rows /\ ins' = ins /\ del' = del /\ locks' = locks
  BY <1>1, <1>2, BaseQueues
<1>4. Kept(t)
  BY <1>3 DEF Kept, Pending, Inserting, Reported, Busy
<1>5. Meant(t, wants'[t])
  BY <1>1, <1>3, Means
<1>6. Visible(t)' = Visible(t)
  BY <1>3 DEF Visible
<1>7. Meant(t, wants[t])'
  BY <1>4, <1>5, <1>6 DEF Kept, Meant
<1>8. Own(t)'
  BY <1>1, <1>3, <1>4, <1>7 DEF Kept, Own
<1>9. Erasing(t)' /\ Referring(t)' /\ Fresh(t)' /\ Stored'
  BY <1>1, <1>3, <1>4 DEF Kept, Erasing, Referring, Fresh, Stored, Given
<1>10. ASSUME NEW o \in LogTasks \ {t} PROVE Apart(t, o)' /\ Apart(o, t)'
  <2>1. /\ Pending(o)' = Pending(o) /\ Reported(o)' = Reported(o)
        /\ del'[o] = del[o] /\ locks'[o] = locks[o]
    BY <1>3, Same
  <2> QED BY <1>1, <1>4, <2>1 DEF Kept, Apart
<1>11. \A m \in Numberings : next[m] <= next'[m]
  BY <1>1 DEF Base, Clocks
<1>12. Committing(t)
  BY <1>3 DEF Committing
<1> QED BY <1>3, <1>8, <1>9, <1>10, <1>11, <1>12, Together

\* A job is over without effect, or its task ends.
LEMMA SafeEnds ==
  ASSUME Safe, Base', NEW t \in LogTasks, Others(t), OtherJobs(t), job'[t] \in Resting, ~Waiting(t)',
         Forgotten(t) \/ UNCHANGED <<ins, del, locks>>, ~Holding(t)' => Forgotten(t) \/ ~Holding(t),
         UNCHANGED <<rows, next, expired, erased, before>>
  PROVE  Safe'
<1>1. /\ Base /\ Stored /\ Own(t) /\ Referring(t) /\ DbTypes
      /\ \A o \in LogTasks \ {t} : Apart(t, o) /\ Apart(o, t)
  BY DEF Safe, Base
<1>2. \/ ins'[t] = {} /\ del'[t] = {} /\ locks'[t] = {}
      \/ ins'[t] = ins[t] /\ del'[t] = del[t] /\ locks'[t] = locks[t] /\ (~Holding(t)' => ~Holding(t))
  BY <1>1, Forgets
<1>3. job'[t] \notin Writers /\ job'[t] \notin Erasers /\ job'[t] # "reset"
  BY DEF Resting, Writers, Erasers
<1>4. Pending(t)' = {} /\ Reported(t)' = {} /\ ~Busy(t)'
  <2>1. Pending(t)' = {}
    BY <1>3 DEF Pending, Writers
  <2>2. Reported(t)' = {}
    BY <1>3 DEF Reported, Erasers
  <2>3. todo'[t] = <<>>
    BY DEF Base, Jobs, OnProgram
  <2> QED BY <2>1, <2>2, <2>3 DEF Busy
<1>5. Own(t)'
  BY <1>1, <1>2, <1>3, <1>4 DEF Own
<1>6. Erasing(t)'
  BY <1>3 DEF Erasing
<1>7. Referring(t)'
  BY <1>1, <1>2 DEF Referring
<1>8. Fresh(t)'
  BY <1>4 DEF Fresh
<1>9. ASSUME NEW o \in LogTasks \ {t} PROVE Apart(t, o)' /\ Apart(o, t)'
  <2>1. del'[o] = del[o] /\ locks'[o] = locks[o]
    BY DEF Others
  <2> QED BY <1>1, <1>2, <1>4, <2>1 DEF Apart
<1>10. Stored'
  BY <1>1 DEF Stored, Given
<1>11. \A m \in Numberings : next[m] <= next'[m]
  BY <1>1 DEF Base, Clocks
<1>12. Committing(t)
  BY DEF Committing
<1> QED BY <1>5, <1>6, <1>7, <1>8, <1>9, <1>10, <1>11, <1>12, Together

\* A job begins.
LEMMA SafeBegins ==
  ASSUME Safe, Base', NEW t \in LogTasks, NEW kind \in Kinds, NEW about \in SUBSET Ids,
         job[t] = "idle", Set(t, kind, about), Others(t), OtherJobs(t), Committing(t),
         rows' = rows, UNCHANGED <<wants, ins, del, locks, erased>>,
         \A n \in Numberings : next[n] <= next'[n],
         \A o \in LogTasks \ {t} : before'[o] = before[o],
         \/ /\ kind = "insert" /\ \A i \in about : i > next["requests"] /\ i <= next'["requests"]
         \/ /\ kind = "sample" /\ \A i \in about : i > next["queue_samples"] /\ i <= next'["queue_samples"]
         \/ /\ kind = "purge"
         \/ /\ kind = "reset" /\ before'[t] = rows
         \/ /\ kind \in {"delete", "delete_matching"} /\ about \subseteq Known
  PROVE  Safe'
<1>1. /\ Base /\ Stored /\ Own(t) /\ Referring(t) /\ DbTypes /\ Jobs /\ Connected(t)
      /\ \A o \in LogTasks \ {t} : Apart(t, o) /\ Apart(o, t) /\ Own(o) /\ Fresh(o)
  BY DEF Safe, Base
<1>2. ~Holding(t) /\ ~Waiting(t)
  <2>1. ~Busy(t)
    BY <1>1, Working DEF Resting
  <2> QED BY <1>1, <2>1 DEF Connected
<1>3. ins'[t] = {} /\ del'[t] = {} /\ locks'[t] = {} /\ ~Waiting(t)'
  BY <1>1, <1>2 DEF Own, Waiting
<1>4. job'[t] = kind /\ ids'[t] = about /\ todo'[t] = Program(kind)
  BY <1>1 DEF Set, Jobs
<1>5. Own(t)'
  BY <1>3 DEF Own
<1>6. Referring(t)'
  BY <1>3 DEF Referring
<1>7. Reported(t)' = IF kind = "reset" THEN before'[t]
                     ELSE IF kind \in {"delete", "delete_matching"}
                     THEN {"requests", "request_stats"} \X about ELSE {}
  <2>1. kind = "reset" => Reported(t)' = before'[t]
    BY <1>4 DEF Reported
  <2>2. kind \in {"delete", "delete_matching"} => Reported(t)' = {"requests", "request_stats"} \X about
    BY <1>4 DEF Reported
  <2>3. kind \notin Erasers => Reported(t)' = {}
    BY <1>4 DEF Reported, Erasers
  <2> QED BY <2>1, <2>2, <2>3 DEF Erasers
<1>8. Erasing(t)'
  <2>1. ASSUME kind \in Erasers, NEW T PROVE ~Passed(kind, Len(todo'[t]), T)
    <3>1. CASE kind = "reset"
      <4>1. Len(todo'[t]) = 4
        BY <1>4, <3>1, Programs
      <4> QED BY <3>1, <4>1 DEF Passed
    <3>2. CASE kind \in {"delete", "delete_matching"}
      <4>1. Len(todo'[t]) = 3
        BY <1>4, <3>2, Programs
      <4> QED BY <3>2, <4>1 DEF Passed
    <3> QED BY <2>1, <3>1, <3>2 DEF Erasers
  <2>2. kind = "reset" => \A i : Attempt(i) \in before'[t] => Request(i) \in before'[t]
    BY <1>1 DEF Stored
  <2> QED BY <1>4, <2>1, <2>2 DEF Erasing
<1>9. /\ Pending(t)' \subseteq LogRows
      /\ \A r \in Pending(t)' : kind \in Writers /\ ~Given(r) /\ Given(r)'
  <2>1. ASSUME NEW r \in Pending(t)'
        PROVE  /\ r \in LogRows /\ r[2] \in about /\ kind \in Writers
               /\ kind = "insert" => r[1] \in {"requests", "request_stats", "request_attempts"}
               /\ kind = "sample" => r[1] = "queue_samples"
    BY <1>4, <2>1 DEF Pending, Writers
  <2>2. ASSUME NEW r \in Pending(t)' PROVE kind \in Writers /\ ~Given(r) /\ Given(r)'
    <3>1. r[2] \in about /\ kind \in Writers /\ r[2] \in Nat
      <4>1. r[2] \in Ids
        BY <2>1, <2>2
      <4>2. \A i \in Ids : i \in Nat
        BY BoundsAssumption DEF Ids, Numberings
      <4> QED BY <2>1, <2>2, <4>1, <4>2
    <3>2. Numbered(r[1]) = IF kind = "insert" THEN "requests" ELSE "queue_samples"
      BY <2>1, <2>2 DEF Numbered, Writers
    <3>3. r[2] > next[Numbered(r[1])] /\ r[2] <= next'[Numbered(r[1])]
      BY <3>1, <3>2 DEF Writers
    <3>4. next[Numbered(r[1])] \in Nat
      BY <1>1, <3>2 DEF Base, Clocks, Numberings
    <3>5. ~(r[2] <= next[Numbered(r[1])])
      BY <3>1, <3>3, <3>4
    <3> QED BY <3>1, <3>3, <3>5 DEF Given
  <2> QED BY <2>1, <2>2
<1>10. \A r \in Reported(t)' : r \in LogRows /\ Given(r)
  <2>1. kind = "reset" => \A r \in Reported(t)' : r \in LogRows /\ Given(r)
    BY <1>1, <1>7 DEF Stored, DbTypes
  <2>2. kind \in {"delete", "delete_matching"} => \A r \in Reported(t)' : r \in LogRows /\ Given(r)
    <3>1. SUFFICES ASSUME kind \in {"delete", "delete_matching"}, NEW r \in Reported(t)'
                   PROVE  r \in LogRows /\ Given(r)
      OBVIOUS
    <3>2. r \in {"requests", "request_stats"} \X Known
      BY <1>7, <3>1
    <3>3. PICK q \in rows : q[1] = "request_stats" /\ q[2] = r[2]
      BY <3>2 DEF Known, Of
    <3>4. Given(q)
      BY <1>1 DEF Stored
    <3>5. Numbered(r[1]) = Numbered(q[1])
      BY <3>2, <3>3 DEF Numbered
    <3>6. Given(r)
      BY <3>3, <3>4, <3>5 DEF Given
    <3>7. r \in LogRows
      BY <1>1, <3>2, KnownIds DEF LogRows, Tables
    <3> QED BY <3>6, <3>7
  <2> QED BY <1>7, <2>1, <2>2
<1>11. Fresh(t)'
  <2>1. Pending(t)' \cap (rows \cup erased) = {}
    BY <1>1, <1>9 DEF Stored
  <2>2. ASSUME NEW r \in Reported(t)' PROVE Given(r)'
    BY <1>1, <1>10, Gives
  <2> QED BY <1>9, <2>1, <2>2 DEF Fresh
<1>12. ASSUME NEW o \in LogTasks \ {t} PROVE Apart(t, o)' /\ Apart(o, t)'
  <2>1. /\ Pending(o)' = Pending(o) /\ Reported(o)' = Reported(o)
        /\ del'[o] = del[o] /\ locks'[o] = locks[o]
    BY Same
  <2>2. \A r \in Pending(o) \cup Reported(o) : Given(r)
    BY <1>1 DEF Fresh
  <2>3. Pending(t)' \cap (Pending(o) \cup Reported(o)) = {}
    BY <1>9, <2>2
  <2>4. Pending(o) \cap Reported(t)' = {}
    <3>1. kind = "reset" => Pending(o) \cap Reported(t)' = {}
      BY <1>1, <1>7 DEF Fresh
    <3>2. ASSUME kind \in {"delete", "delete_matching"}, NEW r \in Pending(o) \cap Reported(t)'
          PROVE  FALSE
      <4>1. r \in {"requests", "request_stats"} \X Known
        BY <1>7, <3>2
      <4>2. PICK q \in rows : q[1] = "request_stats" /\ q[2] = r[2]
        BY <4>1 DEF Known, Of
      <4>3. q \in LogRows /\ q \in Pending(o)
        <5>1. q \in LogRows
          BY <1>1 DEF DbTypes
        <5>2. job[o] = "insert" /\ Len(todo[o]) >= 3 /\ r[2] \in ids[o]
          BY <3>2, <4>1 DEF Pending
        <5> QED BY <4>2, <5>1, <5>2 DEF Pending
      <4> QED BY <1>1, <4>3 DEF Fresh
    <3> QED BY <1>7, <3>1, <3>2
  <2> QED BY <1>3, <2>1, <2>3, <2>4 DEF Apart
<1>13. Stored'
  <2>1. ASSUME NEW r \in rows \cup erased PROVE Given(r)'
    <3>1. r \in LogRows /\ Given(r)
      BY <1>1, <2>1 DEF Stored, DbTypes, Base, Clocks
    <3> QED BY <1>1, <3>1, Gives
  <2> QED BY <1>1, <2>1 DEF Stored
<1> QED BY <1>5, <1>6, <1>8, <1>11, <1>12, <1>13, Together

\* A commit is the last step, or the first of the two of an insert.
LEMMA Saves ==
  ASSUME Jobs, NEW t \in LogTasks, Busy(t), Head(todo[t]) = Save
  PROVE  Len(todo[t]) > 1 => job[t] = "insert" /\ Len(todo[t]) = 3
<1>1. PICK n : n = Len(todo[t])
  OBVIOUS
<1>2. job[t] \in Kinds
  BY Working
<1>3. SUFFICES ASSUME n > 1 PROVE job[t] = "insert" /\ n = 3
  BY <1>1
<1>4. CASE job[t] = "insert"
  <2>1. /\ n \in 1 .. 5
        /\ n = 5 => Head(todo[t]) = Insert("requests")
        /\ n = 4 => Head(todo[t]) = Insert("request_stats")
        /\ n = 2 => Head(todo[t]) = Insert("request_attempts")
    BY <1>1, <1>4, Heads
  <2>2. n # 5 /\ n # 4 /\ n # 2
    BY <2>1, NotSave
  <2> QED BY <1>3, <1>4, <2>1, <2>2
<1>5. CASE job[t] = "sample"
  <2>1. n \in 1 .. 2 /\ (n = 2 => Head(todo[t]) = Insert("queue_samples"))
    BY <1>1, <1>5, Heads
  <2> QED BY <1>3, <2>1, NotSave
<1>6. CASE job[t] = "purge"
  <2>1. \E T \in Tables : Head(todo[t]) \in {Old(T), Excess(T)}
    BY <1>1, <1>3, <1>6, Heads
  <2> QED BY <2>1, NotSave
<1>7. CASE job[t] = "reset"
  <2>1. /\ n \in 1 .. 4
        /\ n = 4 => Head(todo[t]) = All("requests")
        /\ n = 3 => Head(todo[t]) = All("request_stats")
        /\ n = 2 => Head(todo[t]) = All("queue_samples")
    BY <1>1, <1>7, Heads
  <2>2. n # 4 /\ n # 3 /\ n # 2
    BY <2>1, NotSave
  <2> QED BY <1>3, <2>1, <2>2
<1>8. CASE job[t] \in {"delete", "delete_matching"}
  <2>1. /\ n \in 1 .. 3
        /\ n = 3 => Head(todo[t]) \in {These("requests"), These("request_stats")}
        /\ n = 2 => Head(todo[t]) \in {These("requests"), These("request_stats")}
    BY <1>1, <1>8, Heads
  <2>2. n # 3 /\ n # 2
    BY <2>1, NotSave
  <2> QED BY <1>3, <2>1, <2>2
<1> QED BY <1>1, <1>2, <1>4, <1>5, <1>6, <1>7, <1>8 DEF Kinds

\* A transaction is committed: what it stored was new, and what is reported
\* is gone.
LEMMA SafeFinish ==
  ASSUME Safe, NEW t \in LogTasks, Finish(t)
  PROVE  Safe'
<1>1. /\ Base /\ Stored /\ Own(t) /\ Erasing(t) /\ Referring(t) /\ Fresh(t) /\ DbTypes /\ Jobs
      /\ \A o \in LogTasks \ {t} : Apart(t, o) /\ Apart(o, t) /\ Own(o)
  BY DEF Safe, Base
<1>2. /\ Base' /\ Others(t) /\ OtherJobs(t) /\ ~Waiting(t)'
      /\ rows' = Visible(t) /\ Forgotten(t) /\ before' = before
      /\ \/ /\ Len(todo[t]) > 1 /\ todo'[t] = Tail(todo[t]) /\ Len(todo'[t]) = Len(todo[t]) - 1
            /\ job' = job /\ ids' = ids /\ erased' = erased
         \/ /\ Len(todo[t]) = 1 /\ job'[t] \in Resting /\ erased' = erased \cup Reported(t)
  BY <1>1, BaseFinish
<1>3. Busy(t) /\ Head(todo[t]) = Save /\ next' = next
  BY DEF Finish
<1>4. ins'[t] = {} /\ del'[t] = {} /\ locks'[t] = {}
  BY <1>1, <1>2, Forgets
<1>5. Committing(t) /\ rows' = (rows \cup ins[t]) \ del[t] /\ ins[t] \subseteq Inserting(t)
  BY <1>1, <1>2, <1>3 DEF Committing, Visible, Own
<1>6. PICK n : n = Len(todo[t])
  OBVIOUS
<1>7. /\ n \in Nat /\ n >= 1 /\ job[t] \in Kinds
      /\ n > 1 => job'[t] = job[t] /\ ids'[t] = ids[t] /\ Len(todo'[t]) = n - 1 /\ erased' = erased
      /\ n = 1 => job'[t] \in Resting /\ erased' = erased \cup Reported(t)
  <2>1. job[t] \in Kinds
    BY <1>1, <1>3, Working
  <2>2. PICK m : m = Len(Program(job[t]))
    OBVIOUS
  <2>3. m \in 1 .. 7 /\ n \in 1 .. m
    BY <1>1, <1>3, <1>6, <2>1, <2>2, ProgramTypes, Working
  <2>4. n \in Nat /\ n >= 1 /\ ~(n > 1 /\ n = 1)
    BY <2>3
  <2>5. n > 1 => job'[t] = job[t] /\ ids'[t] = ids[t] /\ Len(todo'[t]) = n - 1 /\ erased' = erased
    BY <1>2, <1>6, <2>4
  <2>6. n = 1 => job'[t] \in Resting /\ erased' = erased \cup Reported(t)
    BY <1>2, <1>6, <2>4
  <2> QED BY <2>1, <2>4, <2>5, <2>6
<1>8. n > 1 => job[t] = "insert" /\ n = 3
  BY <1>1, <1>3, <1>6, Saves
<1>9. Pending(t)' \subseteq Pending(t) /\ Pending(t)' \cap Inserting(t) = {} /\ Reported(t)' = {}
  <2>1. CASE n > 1
    <3>1. /\ job[t] = "insert" /\ job'[t] = "insert" /\ ids'[t] = ids[t]
          /\ Len(todo[t]) = 3 /\ Len(todo'[t]) = 2
      <4>1. n = 3 /\ Len(todo'[t]) = n - 1
        BY <1>7, <1>8, <2>1
      <4>2. n - 1 = 2
        BY <4>1
      <4> QED BY <1>6, <1>7, <1>8, <2>1, <4>1, <4>2
    <3>2. Pending(t)' = {r \in LogRows : r[2] \in ids[t] /\ r[1] = "request_attempts"}
      BY <3>1 DEF Pending
    <3>3. Inserting(t) = {r \in LogRows : r[2] \in ids[t] /\ r[1] \in {"requests", "request_stats"}}
      BY <3>1 DEF Inserting
    <3>4. Pending(t)' \subseteq Pending(t)
      BY <3>1, <3>2 DEF Pending
    <3>5. Reported(t)' = {}
      BY <3>1 DEF Reported
    <3> QED BY <3>2, <3>3, <3>4, <3>5
  <2>2. CASE ~(n > 1)
    <3>1. job'[t] \in Resting
      BY <1>7, <2>2
    <3>2. job'[t] \notin Writers /\ job'[t] \notin Erasers
      BY <3>1 DEF Resting, Writers, Erasers
    <3>3. Pending(t)' = {}
      BY <3>2 DEF Pending, Writers
    <3>4. Reported(t)' = {}
      BY <3>2 DEF Reported, Erasers
    <3> QED BY <3>3, <3>4
  <2> QED BY <2>1, <2>2
<1>10. job'[t] \notin Erasers /\ job'[t] # "reset"
  <2>1. CASE n > 1
    BY <1>7, <1>8, <2>1 DEF Erasers
  <2>2. CASE ~(n > 1)
    <3>1. job'[t] \in Resting
      BY <1>7, <2>2
    <3> QED BY <3>1 DEF Resting, Erasers
  <2> QED BY <2>1, <2>2
<1>11. Own(t)' /\ Erasing(t)' /\ Referring(t)'
  BY <1>2, <1>4, <1>10 DEF Own, Erasing, Referring
<1>12. Inserting(t) \subseteq Pending(t)
  BY Pends
<1>13. \A i : Attempt(i) \in rows' => Request(i) \in rows'
  <2>1. ASSUME NEW i, Attempt(i) \in rows' PROVE Request(i) \in rows'
    <3>1. CASE Attempt(i) \in rows
      BY <1>1, <1>5, <2>1, <3>1 DEF Stored, Referring
    <3>2. CASE Attempt(i) \in ins[t]
      <4>1. Request(i) \in rows
        BY <1>1, <3>2 DEF Referring
      <4>2. job[t] \in Writers
        BY <1>5, <3>2, Pends
      <4>3. del[t] = {}
        BY <1>1, <4>2 DEF Own
      <4> QED BY <1>5, <4>1, <4>3
    <3> QED BY <1>5, <2>1, <3>1, <3>2
  <2> QED BY <2>1
<1>14. (rows \cup ins[t]) \cap erased = {}
  BY <1>1, <1>5, <1>12 DEF Stored, Fresh
<1>15. n = 1 => rows' \cap Reported(t) = {}
  <2>1. SUFFICES ASSUME n = 1, NEW r \in rows' \cap Reported(t) PROVE FALSE
    OBVIOUS
  <2>2. job[t] \in Erasers
    BY <2>1, Reports
  <2>3. job[t] \notin Writers
    BY <2>2 DEF Erasers, Writers
  <2>4. r \in rows /\ r \notin del[t] /\ r \in LogRows
    BY <1>1, <1>5, <2>1, <2>3, Pends DEF DbTypes
  <2>5. ~Passed(job[t], 1, r[1])
    BY <1>1, <1>6, <2>1, <2>2, <2>4 DEF Erasing
  <2>6. job[t] \in {"delete", "delete_matching"} => r[1] \in {"requests", "request_stats"}
    BY <2>1, Reports
  <2>7. job[t] = "reset" /\ r[1] \notin Tables
    BY <2>2, <2>5, <2>6 DEF Passed, Erasers, Tables
  <2>8. PICK i : r = Attempt(i)
    BY <2>4, <2>7 DEF LogRows, Attempt
  <2>9. Request(i) \in before[t] /\ Request(i) \in rows
    BY <1>1, <2>1, <2>4, <2>7, <2>8, Reports DEF Erasing, Stored
  <2>10. Passed(job[t], 1, Request(i)[1])
    BY <2>7, Different DEF Passed
  <2>11. Request(i) \in del[t]
    BY <1>1, <1>6, <2>1, <2>2, <2>7, <2>9, <2>10, Reports DEF Erasing
  <2> QED BY <1>1, <2>4, <2>8, <2>11 DEF Referring
<1>16. rows' \cap erased' = {}
  <2>1. CASE n > 1
    BY <1>5, <1>7, <1>14, <2>1
  <2>2. CASE n = 1
    BY <1>5, <1>7, <1>14, <1>15, <2>2
  <2> QED BY <1>7, <2>1, <2>2
<1>17. erased' \subseteq erased \cup Reported(t) /\ rows' \subseteq rows \cup Pending(t)
  BY <1>2, <1>5, <1>12
<1>18. Stored'
  <2>1. \A r \in rows' \cup erased' : Given(r)
    BY <1>1, <1>17 DEF Stored, Fresh
  <2> QED BY <1>3, <1>13, <1>16, <2>1 DEF Stored, Given
<1>19. Fresh(t)'
  <2>1. Pending(t)' \cap (rows' \cup erased') = {}
    <3>1. Pending(t)' \cap rows' = {}
      BY <1>1, <1>5, <1>9 DEF Fresh
    <3>2. CASE n > 1
      BY <1>1, <1>7, <1>9, <3>1, <3>2 DEF Fresh
    <3>3. CASE ~(n > 1)
      <4>1. job'[t] \notin Writers
        BY <1>7, <3>3 DEF Resting, Writers
      <4>2. Pending(t)' = {}
        BY <4>1 DEF Pending, Writers
      <4> QED BY <4>2
    <3> QED BY <3>2, <3>3
  <2>2. \A r \in Pending(t)' : Given(r)
    BY <1>1, <1>9 DEF Fresh
  <2> QED BY <1>3, <1>9, <2>1, <2>2 DEF Fresh, Given
<1>20. ASSUME NEW o \in LogTasks \ {t} PROVE Apart(t, o)' /\ Apart(o, t)'
  <2>1. /\ Pending(o)' = Pending(o) /\ Reported(o)' = Reported(o)
        /\ del'[o] = del[o] /\ locks'[o] = locks[o]
    BY <1>2, Same
  <2> QED BY <1>1, <1>4, <1>9, <2>1 DEF Apart
<1>21. \A m \in Numberings : next[m] <= next'[m]
  BY <1>1, <1>3 DEF Base, Clocks
<1> QED BY <1>2, <1>5, <1>11, <1>17, <1>18, <1>19, <1>20, <1>21, Together

\* The first state: everything stored was given, and nobody has begun.
LEMMA SafeInit == Init => Safe
<1> SUFFICES ASSUME Init PROVE Safe
  OBVIOUS
<1>1. Base
  BY BaseInit
<1>2. /\ job = [t \in LogTasks |-> "idle"] /\ todo = [t \in LogTasks |-> <<>>]
      /\ ins = [t \in LogTasks |-> {}] /\ del = [t \in LogTasks |-> {}]
      /\ locks = [t \in LogTasks |-> {}] /\ wants = [t \in LogTasks |-> NoStatement]
      /\ erased = {} /\ next = Backlog
      /\ rows = {r \in LogRows : r[1] \in Tables /\ r[2] <= Backlog[Numbered(r[1])]}
  BY DEF Init, Connect
<1>3. Stored
  <2>1. \A i : Attempt(i) \notin rows
    BY <1>2, Different DEF Tables
  <2> QED BY <1>2, <2>1 DEF Stored, Given
<1>4. ASSUME NEW t \in LogTasks
      PROVE  /\ job[t] = "idle" /\ ~Waiting(t) /\ ~Busy(t) /\ ins[t] = {} /\ del[t] = {} /\ locks[t] = {}
             /\ Pending(t) = {} /\ Inserting(t) = {} /\ Reported(t) = {}
  <2>1. /\ job[t] = "idle" /\ ~Waiting(t) /\ ~Busy(t) /\ ins[t] = {} /\ del[t] = {} /\ locks[t] = {}
    BY <1>2 DEF Waiting, Busy
  <2>2. job[t] \notin Writers /\ job[t] \notin Erasers
    BY <2>1 DEF Writers, Erasers
  <2> QED BY <2>1, <2>2, Pends, Reports
<1>5. ASSUME NEW t \in LogTasks PROVE Own(t) /\ Erasing(t) /\ Referring(t) /\ Fresh(t)
  BY <1>4 DEF Own, Erasing, Referring, Fresh, Erasers, Writers
<1>6. ASSUME NEW t \in LogTasks, NEW o \in LogTasks PROVE Apart(t, o)
  BY <1>4 DEF Apart
<1> QED BY <1>1, <1>3, <1>5, <1>6 DEF Safe

\* Steps that touch neither rows nor jobs.
LEMMA SafeStill ==
  ASSUME Safe, Base', UNCHANGED <<database, job, ids, todo, next, erased, before>>
  PROVE  Safe'
<1>1. /\ rows' = rows /\ context' = context /\ wants' = wants
      /\ ins' = ins /\ del' = del /\ locks' = locks
      /\ UNCHANGED <<job, ids, todo, next, erased, before>>
  BY DEF database
<1>2. ASSUME NEW t \in LogTasks
      PROVE  /\ Kept(t) /\ Visible(t)' = Visible(t) /\ Holding(t)' = Holding(t) /\ Waiting(t)' = Waiting(t)
             /\ wants'[t] = wants[t]
  BY <1>1 DEF Kept, Pending, Inserting, Reported, Busy, Visible, Holding, Waiting
<1>3. ASSUME NEW t \in LogTasks PROVE Own(t)' /\ Erasing(t)' /\ Referring(t)' /\ Fresh(t)'
  <2>1. Own(t) /\ Erasing(t) /\ Referring(t) /\ Fresh(t)
    BY DEF Safe
  <2>2. Waiting(t) => Meant(t, wants[t])'
    BY <1>2, <2>1 DEF Own, Meant, Kept
  <2>3. Own(t)'
    BY <1>2, <2>1, <2>2 DEF Own, Kept
  <2>4. Erasing(t)' /\ Referring(t)'
    BY <1>2, <2>1 DEF Erasing, Referring, Kept
  <2>5. Fresh(t)'
    BY <1>1, <1>2, <2>1 DEF Fresh, Given, Kept
  <2> QED BY <2>3, <2>4, <2>5
<1>4. ASSUME NEW t \in LogTasks, NEW o \in LogTasks, t # o PROVE Apart(t, o)'
  <2>1. Apart(t, o)
    BY <1>4 DEF Safe
  <2> QED BY <1>2, <2>1 DEF Apart, Kept
<1>5. Stored'
  BY <1>1 DEF Safe, Stored, Given
<1> QED BY <1>3, <1>4, <1>5 DEF Safe

\* The task t begins a job of this kind, about these ids: those of an insert
\* are new.
Begun(t, kind, about) ==
  /\ job[t] = "idle" /\ Set(t, kind, about) /\ Others(t) /\ OtherJobs(t) /\ Committing(t)
  /\ UNCHANGED <<rows, wants, ins, del, locks, erased, expired, raced>>
  /\ \A n \in Numberings : next[n] <= next'[n]
  /\ \A o \in LogTasks \ {t} : before'[o] = before[o]
  /\ \/ kind = "insert" /\ \E i : about = {i} /\ i > next["requests"] /\ i <= next'["requests"]
     \/ kind = "sample" /\ \E i : about = {i} /\ i > next["queue_samples"] /\ i <= next'["queue_samples"]
     \/ kind = "purge"
     \/ kind = "reset" /\ before'[t] = rows
     \/ kind \in {"delete", "delete_matching"} /\ about \subseteq Known

\* A handler, the sampler or the purge begins, or the purge finds another at it.
LEMMA Starts ==
  ASSUME Base, (\E t \in Handlers : Begins(t)) \/ BeginSample \/ BeginPurge(purger)
  PROVE  \/ \E t \in LogTasks, kind \in Kinds, about \in SUBSET Ids : Begun(t, kind, about)
         \/ \E t \in Takers : BeginPurge(t) /\ Skips(t)
<1>1. Base /\ Jobs /\ Clocks /\ DbTypes
  BY DEF Base
<1>2. Known \subseteq Ids
  BY <1>1, KnownIds
<1>3. ASSUME NEW t \in LogTasks, NEW kind \in Kinds, NEW about \in SUBSET Ids, Set(t, kind, about)
      PROVE  OtherJobs(t)
  BY <1>1, <1>3 DEF Set, OtherJobs, Jobs
<1>4. UNCHANGED database => rows' = rows /\ UNCHANGED <<wants, ins, del, locks>> /\ \A t : Others(t)
  BY DEF database, Others
<1>5. rows' = rows => \A t : Committing(t)
  BY DEF Committing
<1>6. next' = next => \A n \in Numberings : next[n] <= next'[n]
  BY <1>1 DEF Clocks
<1> DEFINE Goal == \E t \in LogTasks, kind \in Kinds, about \in SUBSET Ids : Begun(t, kind, about)
<1>7. ASSUME NEW t \in Handlers, BeginInsert(t) PROVE Goal
  <2>1. PICK i : i = next["requests"] + 1
    OBVIOUS
  <2>2. /\ job[t] = "idle" /\ Set(t, "insert", {i}) /\ next' = [next EXCEPT !["requests"] = i]
        /\ next["requests"] < LastId["requests"] /\ UNCHANGED <<database, erased, expired, raced, before>>
    BY <1>7, <2>1 DEF BeginInsert
  <2>3. next \in [Numberings -> Nat] /\ LastId \in [Numberings -> Nat] /\ "requests" \in Numberings
    BY <1>1, BoundsAssumption DEF Clocks, Numberings
  <2>4. next["requests"] \in Nat /\ LastId["requests"] \in Nat
    BY <2>3
  <2>5. i \in Ids /\ i > next["requests"] /\ i \in Nat
    BY <2>1, <2>2, <2>4 DEF Ids
  <2>6. next'["requests"] = i /\ \A n \in Numberings : next[n] <= next'[n]
    BY <2>1, <2>2, <2>3, <2>4
  <2>7. i <= next'["requests"]
    BY <2>5, <2>6
  <2>8. t \in LogTasks /\ "insert" \in Kinds /\ {i} \in SUBSET Ids
    BY <2>5, TaskKinds DEF Kinds
  <2>9. Begun(t, "insert", {i})
    BY <1>3, <1>4, <1>5, <2>2, <2>5, <2>6, <2>7, <2>8 DEF Begun
  <2> QED BY <2>8, <2>9
<1>8. ASSUME BeginSample PROVE Goal
  <2>1. PICK i : i = next["queue_samples"] + 1
    OBVIOUS
  <2>2. /\ job[sampler] = "idle" /\ Set(sampler, "sample", {i})
        /\ next' = [next EXCEPT !["queue_samples"] = i]
        /\ next["queue_samples"] < LastId["queue_samples"]
        /\ UNCHANGED <<database, erased, expired, raced, before>>
    BY <1>8, <2>1 DEF BeginSample
  <2>3. next \in [Numberings -> Nat] /\ LastId \in [Numberings -> Nat] /\ "queue_samples" \in Numberings
    BY <1>1, BoundsAssumption DEF Clocks, Numberings
  <2>4. next["queue_samples"] \in Nat /\ LastId["queue_samples"] \in Nat
    BY <2>3
  <2>5. i \in Ids /\ i > next["queue_samples"] /\ i \in Nat
    BY <2>1, <2>2, <2>4 DEF Ids
  <2>6. next'["queue_samples"] = i /\ \A n \in Numberings : next[n] <= next'[n]
    BY <2>1, <2>2, <2>3, <2>4
  <2>7. i <= next'["queue_samples"]
    BY <2>5, <2>6
  <2>8. sampler \in LogTasks /\ "sample" \in Kinds /\ {i} \in SUBSET Ids
    BY <2>5, TaskKinds DEF Kinds
  <2>9. Begun(sampler, "sample", {i})
    BY <1>3, <1>4, <1>5, <2>2, <2>5, <2>6, <2>7, <2>8 DEF Begun
  <2> QED BY <2>8, <2>9
<1>9. ASSUME NEW t \in Handlers, BeginDelete(t) PROVE Goal
  <2>1. PICK i \in Known : Set(t, "delete", {i})
    BY <1>9 DEF BeginDelete
  <2>2. job[t] = "idle" /\ UNCHANGED <<database, next, erased, expired, raced, before>>
    BY <1>9 DEF BeginDelete, Aside
  <2>3. t \in LogTasks /\ "delete" \in Kinds /\ {i} \in SUBSET Ids /\ {i} \subseteq Known
    BY <1>2, TaskKinds DEF Kinds
  <2>4. Begun(t, "delete", {i})
    BY <1>3, <1>4, <1>5, <1>6, <2>1, <2>2, <2>3 DEF Begun
  <2> QED BY <2>3, <2>4
<1>10. ASSUME NEW t \in Handlers, BeginDeleteMatching(t) PROVE Goal
  <2>1. PICK f \in Filters : Set(t, "delete_matching", f \cap Known)
    BY <1>10 DEF BeginDeleteMatching
  <2>2. job[t] = "idle" /\ UNCHANGED <<database, next, erased, expired, raced, before>>
    BY <1>10 DEF BeginDeleteMatching, Aside
  <2>3. t \in LogTasks /\ "delete_matching" \in Kinds /\ f \cap Known \in SUBSET Ids /\ f \cap Known \subseteq Known
    BY <1>2, TaskKinds DEF Kinds
  <2>4. Begun(t, "delete_matching", f \cap Known)
    BY <1>3, <1>4, <1>5, <1>6, <2>1, <2>2, <2>3 DEF Begun
  <2> QED BY <2>3, <2>4
<1>11. ASSUME NEW t \in Handlers, BeginReset(t) PROVE Goal
  <2>1. /\ job[t] = "idle" /\ Set(t, "reset", {}) /\ UNCHANGED <<database, next, erased, expired, raced>>
        /\ before' = [before EXCEPT ![t] = rows]
    BY <1>11 DEF BeginReset
  <2>2. t \in LogTasks /\ "reset" \in Kinds /\ {} \in SUBSET Ids
    BY TaskKinds DEF Kinds
  <2>3. before'[t] = rows /\ \A o \in LogTasks \ {t} : before'[o] = before[o]
    BY <1>1, <2>1, <2>2 DEF Clocks
  <2>4. Begun(t, "reset", {})
    BY <1>3, <1>4, <1>5, <1>6, <2>1, <2>2, <2>3 DEF Begun
  <2> QED BY <2>2, <2>4
<1>12. ASSUME NEW t \in Takers, BeginPurge(t) PROVE Goal \/ Skips(t)
  <2>1. CASE Grabs(t)
    <3>1. /\ job[t] = "idle" /\ Set(t, "purge", {}) /\ Open(t)
          /\ UNCHANGED <<rows, wants, creates, ins, del, locks, next, erased, expired, raced, before>>
      BY <1>12, <2>1 DEF BeginPurge, Grabs, Begin, Aside
    <3>2. t \in LogTasks /\ "purge" \in Kinds /\ {} \in SUBSET Ids
      BY TaskKinds DEF Kinds, Takers
    <3>3. \A o \in LogTasks \ {t} : context'[o] = context[o]
      BY <1>1, <3>1 DEF Open, DbTypes
    <3>4. Others(t)
      BY <3>1, <3>3 DEF Others
    <3>5. Begun(t, "purge", {})
      BY <1>3, <1>5, <1>6, <3>1, <3>2, <3>4 DEF Begun
    <3> QED BY <3>2, <3>5
  <2> QED BY <1>12, <2>1, BaseBeginPurge
<1> HIDE DEF Goal
<1>13. Goal \/ \E t \in Takers : BeginPurge(t) /\ Skips(t)
  BY <1>7, <1>8, <1>9, <1>10, <1>11, <1>12 DEF Begins, Takers
<1> QED BY <1>13 DEF Goal

\* They begin safely.
LEMMA SafeStarts ==
  ASSUME Safe, Base', (\E t \in Handlers : Begins(t)) \/ BeginSample \/ BeginPurge(purger)
  PROVE  Safe'
<1>1. CASE \E t \in Takers : BeginPurge(t) /\ Skips(t)
  <2>1. PICK t \in Takers : BeginPurge(t) /\ Skips(t)
    BY <1>1
  <2>2. /\ Others(t) /\ OtherJobs(t) /\ ~Waiting(t)' /\ job'[t] \in Resting /\ t \in LogTasks
        /\ UNCHANGED <<rows, context, ins, del, locks, next, expired, erased, before>>
    BY <2>1, BaseBeginPurge DEF Safe, Skips, database
  <2> QED BY <2>2, SafeEnds DEF Holding, Safe
<1>2. ASSUME NEW t \in LogTasks, NEW kind \in Kinds, NEW about \in SUBSET Ids, Begun(t, kind, about)
      PROVE  Safe'
  <2>1. /\ job[t] = "idle" /\ Set(t, kind, about) /\ Others(t) /\ OtherJobs(t) /\ Committing(t)
        /\ rows' = rows /\ UNCHANGED <<wants, ins, del, locks, erased>>
        /\ \A n \in Numberings : next[n] <= next'[n]
        /\ \A o \in LogTasks \ {t} : before'[o] = before[o]
        /\ \/ /\ kind = "insert" /\ \A i \in about : i > next["requests"] /\ i <= next'["requests"]
           \/ /\ kind = "sample" /\ \A i \in about : i > next["queue_samples"] /\ i <= next'["queue_samples"]
           \/ /\ kind = "purge"
           \/ /\ kind = "reset" /\ before'[t] = rows
           \/ /\ kind \in {"delete", "delete_matching"} /\ about \subseteq Known
    BY <1>2 DEF Begun
  <2> QED BY <2>1, SafeBegins
<1> QED BY <1>1, <1>2, Starts DEF Safe

\* Every step.
LEMMA SafeNext == Safe /\ [Next]_vars => Safe'
<1> SUFFICES ASSUME Safe, [Next]_vars PROVE Safe'
  OBVIOUS
<1>1. Base /\ Base'
  BY BaseNext DEF Safe
<1>2. ASSUME NEW t \in LogTasks, Over(t, "failed"), UNCHANGED <<next, expired, erased, before>>,
             \/ Head(todo[t]) = Save /\ Busy(t) /\ CommitFails(t)
             \/ Head(todo[t]) # Save /\ Busy(t) /\ Throws(t)
             \/ t \in Handlers /\ Cancelled(t)
      PROVE  Safe'
  <2>1. /\ Others(t) /\ OtherJobs(t) /\ ~Waiting(t)' /\ job'[t] \in Resting
        /\ rows' = rows /\ (Forgotten(t) \/ UNCHANGED <<ins, del, locks>>)
    BY <1>1, <1>2, BaseFails
  <2>2. Forgotten(t) \/ context' = context
    BY <1>2 DEF CommitFails, Throws, Rollback, Raises, Cancelled
  <2>3. ~Holding(t)' => Forgotten(t) \/ ~Holding(t)
    BY <2>2 DEF Holding
  <2> QED BY <1>1, <1>2, <2>1, <2>3, SafeEnds
<1>3. ASSUME NEW t \in Handlers, Disconnect(t) PROVE Safe'
  <2>1. /\ Over(t, "failed") /\ Cancelled(t) /\ UNCHANGED <<next, expired, erased, before>>
        /\ t \in LogTasks
    BY <1>3, TaskKinds DEF Disconnect, Aside
  <2> QED BY <1>2, <2>1
<1>4. ASSUME NEW t \in LogTasks, Works(t) \/ Fail(t) PROVE Safe'
  BY <1>1, <1>2, <1>4, WorkSteps, SafeRuns, SafeQueues, SafeFinish
<1>5. ASSUME NEW t \in Handlers, EndTask(t) PROVE Safe'
  <2>1. Others(t) /\ ~Waiting(t)' /\ rows' = rows /\ Forgotten(t) /\ t \in LogTasks
    BY <1>1, <1>5, BaseEndTask, TaskKinds
  <2>2. job[t] \in {"done", "failed"} /\ UNCHANGED <<job, ids, todo, next, expired, erased, before>>
    BY <1>5 DEF EndTask, Aside
  <2>3. OtherJobs(t) /\ job'[t] \in Resting
    BY <2>2 DEF OtherJobs, Resting
  <2> QED BY <1>1, <2>1, <2>2, <2>3, SafeEnds
<1>6. ASSUME NEW T \in Tables, Expire(T) PROVE Safe'
  <2>1. UNCHANGED <<database, job, ids, todo, next, erased, before>>
    BY <1>6 DEF Expire
  <2> QED BY <1>1, <2>1, SafeStill
<1>7. CASE UNCHANGED vars
  <2>1. UNCHANGED <<database, job, ids, todo, next, erased, before>>
    BY <1>7 DEF vars
  <2> QED BY <1>1, <2>1, SafeStill
<1>8. CASE (\E t \in Handlers : Begins(t)) \/ BeginSample \/ BeginPurge(purger)
  BY <1>1, <1>8, SafeStarts
<1> QED BY <1>3, <1>4, <1>5, <1>6, <1>7, <1>8 DEF Next

\* What a deletion or a reset reported as done never comes back, whatever
\* inserts, purges, other deletions and failures run beside it.
THEOREM ErasedAlwaysStaysErased == Spec => []ErasedStaysErased
<1>1. Safe => ErasedStaysErased
  BY DEF Safe, Stored, ErasedStaysErased
<1> QED BY <1>1, SafeInit, SafeNext, PTL DEF Spec
\* No attempt is ever without its request: the lock of the foreign key and the
\* cascade of deletions keep them together, for whoever deletes the request.
THEOREM AttemptsHaveRequests == Spec => [](\A i : Attempt(i) \in rows => Request(i) \in rows)
<1>1. Safe => \A i : Attempt(i) \in rows => Request(i) \in rows
  BY DEF Safe, Stored
<1> QED BY <1>1, SafeInit, SafeNext, PTL DEF Spec

-----------------------------------------------------------------------------
(* Payloads are found by their statistics.                                 *)

Stat(i) == <<"request_stats", i>>
Both == {"requests", "request_stats"}
\* The requests the log started with.
Early == 1 .. Backlog["requests"]

\* What t has deleted, or waits to delete.
Takes(t) == del[t] \cup (IF Waiting(t) THEN wants[t].delete ELSE {})
\* How many steps it has still to send.
Left(t) == IF Waiting(t) THEN Len(todo[t]) - 1 ELSE Len(todo[t])

\* The two cases of PurgeKeepsUp.
AllFit == LastId["requests"] <= MaxRows["request_stats"]
Prompt ==
  /\ LastId["requests"] <= MaxRows["requests"] + Batch
  /\ LastId["requests"] - Backlog["requests"] <= MaxRows["request_stats"] - MaxRows["requests"]

\* An insert is of one request, later than those the log started with; at
\* its first commit it has the statistics too.
Inserts(t) ==
  job[t] = "insert" =>
    /\ \E i : ids[t] = {i}
    /\ \A i \in ids[t] : i > Backlog["requests"]
    /\ Waiting(t) => Len(todo[t]) = 2
    /\ Len(todo[t]) = 3 => Stat(Id(t)) \in ins[t]

\* The requests an eraser is after.
Aims(t, i) == job[t] = "reset" \/ i \in ids[t]

\* An eraser takes what it is after and no other, of the tables it has
\* passed all that is stored.
Sweeping(t) ==
  job[t] \in Erasers =>
    \A T \in Both : \A i :
      /\ <<T, i>> \in Takes(t) => Aims(t, i)
      /\ <<T, i>> \in rows /\ Aims(t, i) /\ Passed(job[t], Left(t), T) => <<T, i>> \in Takes(t)

\* The purge takes statistics only of requests whose payload is gone, or goes
\* with them; ...
TakesBoth(p) ==
  \A i : Stat(i) \in Takes(p) =>
    /\ Given(Stat(i)) /\ \A o \in LogTasks : Stat(i) \notin Pending(o)
    /\ Request(i) \in rows => Request(i) \in Takes(p)

\* ... for after its first statement it has the payloads of all statistics
\* that are too old, ...
TakesOld(p) ==
  Left(p) <= 6 =>
    \A i : Request(i) \in rows /\ i <= expired["request_stats"] => Request(i) \in Takes(p)

\* ... it takes no payload before an older one, ...
TakesInOrder(p) ==
  Prompt => \A i, j \in Early : i < j /\ Request(j) \in Takes(p) /\ Request(i) \in rows => Request(i) \in Takes(p)

\* ... and after its second it leaves only those with few newer statistics.
Later(i) == {j \in Early : i < j /\ Stat(j) \in rows}
TakesExcess(p) ==
  Prompt /\ Left(p) <= 5 =>
    \A i \in Early : Request(i) \in rows /\ Request(i) \notin Takes(p) => Cardinality(Later(i)) < MaxRows["requests"]

Tidy(p) == job[p] = "purge" => TakesBoth(p) /\ TakesOld(p) /\ TakesInOrder(p) /\ TakesExcess(p)

\* Payloads are found, and there are none older than one that is missing.
Paired == \A i : Request(i) \in rows => Stat(i) \in rows
Ladder == Prompt => \A i, j \in Early : i < j /\ Request(i) \in rows /\ Stat(j) \in rows => Request(j) \in rows

Ages == expired["request_stats"] <= expired["requests"] /\ Backlog["requests"] <= next["requests"]

Sound ==
  /\ Ages /\ Paired /\ Ladder
  /\ \A t \in LogTasks : Inserts(t) /\ Sweeping(t) /\ Tidy(t)

\* There are as many rows as ids.
LEMMA RowCount ==
  ASSUME NEW T, NEW K, IsFiniteSet(K)
  PROVE  /\ IsFiniteSet({<<T, j>> : j \in K})
         /\ Cardinality({<<T, j>> : j \in K}) = Cardinality(K) /\ Cardinality(K) \in Nat
<1> DEFINE R == {<<T, j>> : j \in K}
<1>1. PICK g : g = [r \in R |-> r[2]]
  OBVIOUS
<1>2. g \in Injection(R, K)
  <2>1. \A r \in R : r = <<T, r[2]>> /\ r[2] \in K
    OBVIOUS
  <2>2. g \in [R -> K]
    BY <1>1, <2>1
  <2>3. ASSUME NEW a \in R, NEW b \in R, g[a] = g[b] PROVE a = b
    BY <1>1, <2>1, <2>3
  <2> QED BY <2>2, <2>3 DEF Injection, IsInjective
<1>3. IsFiniteSet(R) /\ Cardinality(R) <= Cardinality(K)
  BY <1>2, FS_Injection
<1>4. PICK f : f = [j \in K |-> <<T, j>>]
  OBVIOUS
<1>5. f \in Injection(K, R)
  <2>1. f \in [K -> R]
    BY <1>4
  <2>2. ASSUME NEW a \in K, NEW b \in K, f[a] = f[b] PROVE a = b
    BY <1>4, <2>2
  <2> QED BY <2>1, <2>2 DEF Injection, IsInjective
<1>6. Cardinality(K) <= Cardinality(R)
  BY <1>3, <1>5, FS_Injection
<1> HIDE DEF R
<1>7. Cardinality(R) \in Nat /\ Cardinality(K) \in Nat
  BY <1>3, FS_CardinalityType
<1>8. IsFiniteSet(R) /\ Cardinality(R) = Cardinality(K) /\ Cardinality(K) \in Nat
  BY <1>3, <1>6, <1>7
<1> QED BY <1>8 DEF R

\* Rows whose ids are among a to b are at most as many as these.
LEMMA RowsBetween ==
  ASSUME NEW T, NEW a \in Int, NEW b \in Int, a <= b + 1,
         NEW S, \A r \in S : \E j \in a .. b : r = <<T, j>>
  PROVE  IsFiniteSet(S) /\ Cardinality(S) \in Nat /\ Cardinality(S) <= b - a + 1
<1>1. IsFiniteSet(a .. b) /\ Cardinality(a .. b) = b - a + 1
  BY FS_Interval
<1>2. PICK n : n = Cardinality(a .. b)
  OBVIOUS
<1>3. S \in SUBSET {<<T, j>> : j \in a .. b}
  OBVIOUS
<1>4. PICK R : R = {<<T, j>> : j \in a .. b}
  OBVIOUS
<1>5. IsFiniteSet(R) /\ Cardinality(R) = n
  BY <1>1, <1>2, <1>4, RowCount
<1>6. S \in SUBSET R
  BY <1>3, <1>4
<1>7. IsFiniteSet(S) /\ Cardinality(S) <= Cardinality(R) /\ Cardinality(S) \in Nat
  BY <1>5, <1>6, FS_Subset, FS_CardinalityType
<1> QED BY <1>1, <1>2, <1>5, <1>7

\* The ids are numbers, from one.
LEMMA IdsAreNumbers ==
  /\ \A i \in Ids : i \in Nat /\ i >= 1
  /\ LastId["requests"] \in Nat /\ Backlog["requests"] \in Nat /\ Backlog["requests"] <= LastId["requests"]
  /\ \A T \in Tables : MaxRows[T] \in Nat /\ Oldest[T] \in Nat
  /\ Batch \in Nat /\ Batch >= 1 /\ "requests" \in Tables /\ "request_stats" \in Tables
  /\ MaxRows["requests"] < MaxRows["request_stats"]
BY BoundsAssumption, LimitsAssumption DEF Ids, Numberings, Tables

\* The steps of the purge.
LEMMA PurgeHeads ==
  ASSUME Jobs, NEW t \in LogTasks, Busy(t), job[t] = "purge"
  PROVE  /\ Len(todo[t]) \in 1 .. 7
         /\ Len(todo[t]) = 7 => Head(todo[t]) = Old("requests")
         /\ Len(todo[t]) = 6 => Head(todo[t]) = Excess("requests")
         /\ Len(todo[t]) = 5 => Head(todo[t]) = Old("request_stats")
         /\ Len(todo[t]) = 4 => Head(todo[t]) = Excess("request_stats")
         /\ Len(todo[t]) = 3 => Head(todo[t]) = Old("queue_samples")
         /\ Len(todo[t]) = 2 => Head(todo[t]) = Excess("queue_samples")
<1>1. PICK n : n = Len(todo[t])
  OBVIOUS
<1>2. PICK h : h = Head(todo[t])
  OBVIOUS
<1>3. n \in 1 .. 7 /\ h = Program("purge")[1 + 7 - n]
  <2>1. /\ Len(todo[t]) \in 1 .. Len(Program("purge"))
        /\ Head(todo[t]) = Program("purge")[1 + Len(Program("purge")) - Len(todo[t])]
    BY Working
  <2> QED BY <1>1, <1>2, <2>1, Programs
<1>4. /\ n = 7 => h = Old("requests")
      /\ n = 6 => h = Excess("requests")
      /\ n = 5 => h = Old("request_stats")
      /\ n = 4 => h = Excess("request_stats")
      /\ n = 3 => h = Old("queue_samples")
      /\ n = 2 => h = Excess("queue_samples")
  BY <1>3, Programs
<1> QED BY <1>1, <1>2, <1>3, <1>4

\* What the purge chooses.
LEMMA PurgeChooses ==
  ASSUME NEW t, NEW T
  PROVE  /\ Chosen(t, Old(T)) = Lowest({r \in Visible(t) : r[1] = T /\ r[2] <= expired[T]}, Batch)
         /\ Chosen(t, Excess(T)) = Beyond(T, {r \in Visible(t) : r[1] = T})
<1>1. /\ Old(T).do = "old" /\ Old(T).table = T
      /\ Excess(T).do = "excess" /\ Excess(T).table = T
  BY DEF Old, Excess
<1>2. Of(T, Visible(t)) = {r \in Visible(t) : r[1] = T}
  BY DEF Of
<1>3. {r \in Of(T, Visible(t)) : r[2] <= expired[T]} = {r \in Visible(t) : r[1] = T /\ r[2] <= expired[T]}
  BY <1>2
<1>4. Chosen(t, Old(T)) = Lowest({r \in Of(T, Visible(t)) : r[2] <= expired[T]}, Batch)
  BY <1>1 DEF Chosen
<1>5. Chosen(t, Excess(T)) = Beyond(T, Of(T, Visible(t)))
  BY <1>1 DEF Chosen
<1> QED BY <1>2, <1>3, <1>4, <1>5

\* What a step chooses is of its table.
LEMMA ChoosesFrom ==
  ASSUME NEW t, NEW s, NEW r \in Chosen(t, s)
  PROVE  r[1] = s.table /\ r \in Visible(t)
<1>1. \A T, S : Of(T, S) = {q \in S : q[1] = T}
  BY DEF Of
<1>2. s.do \notin {"insert", "commit"}
  BY Chooses
<1>3. \A S, n : Lowest(S, n) \subseteq S
  BY DEF Lowest
<1>4. \A T, S : Beyond(T, S) \subseteq S
  BY DEF Beyond
<1>5. CASE s.do \in {"all", "these"}
  BY <1>5, Chooses
<1>6. CASE s.do = "old"
  <2>1. Chosen(t, s) = Lowest({q \in Of(s.table, Visible(t)) : q[2] <= expired[s.table]}, Batch)
    BY <1>6 DEF Chosen
  <2> QED BY <1>1, <1>3, <2>1
<1>7. CASE s.do = "excess"
  <2>1. Chosen(t, s) = Beyond(s.table, Of(s.table, Visible(t)))
    BY <1>7 DEF Chosen
  <2> QED BY <1>1, <1>4, <2>1
<1>8. s.do \notin {"all", "these", "old", "excess"} => Chosen(t, s) = {}
  BY DEF Chosen
<1> QED BY <1>5, <1>6, <1>7, <1>8

-----------------------------------------------------------------------------
(* What a step does to what is taken.                                      *)

\* Who erases or purges has inserted nothing.
LEMMA InsertsNothing ==
  ASSUME Safe, NEW t \in LogTasks, Busy(t), job[t] \notin Writers
  PROVE  ins[t] = {} /\ Visible(t) = rows \ del[t]
BY Pends DEF Safe, Own, Visible

\* A statement that is sent takes what it chooses, at once or later.
LEMMA SendTakes ==
  ASSUME Base, NEW t \in LogTasks, Busy(t), Head(todo[t]) # Save, ~Waiting(t),
         UNCHANGED <<job, ids, next, expired, erased, before>>,
         \/ /\ Execute(t, Upcoming(t)) \/ Resume(t)
            /\ todo' = [todo EXCEPT ![t] = Tail(@)]
         \/ Queue(t, Upcoming(t)) /\ UNCHANGED todo
  PROVE  /\ rows' = rows /\ Left(t)' = Left(t) - 1 /\ Left(t) = Len(todo[t])
         /\ \A T \in Both : \A i :
              <<T, i>> \in Takes(t)' <=> <<T, i>> \in Takes(t) \/ <<T, i>> \in Chosen(t, Head(todo[t]))
<1>1. DbTypes /\ Jobs /\ Clocks'
  BY DEF Base, Clocks
<1>2. PICK h : h = Head(todo[t])
  OBVIOUS
<1>3. PICK s : s = Statement(t, h)
  OBVIOUS
<1>4. Upcoming(t) = s /\ s.delete = Chosen(t, h) /\ Chosen(t, h) \subseteq Visible(t)
  BY <1>2, <1>3, Parts, Chooses DEF Upcoming
<1>5. Takes(t) = del[t] /\ Left(t) = Len(todo[t])
  BY DEF Takes, Left
<1>6. CASE (Execute(t, Upcoming(t)) \/ Resume(t)) /\ todo' = [todo EXCEPT ![t] = Tail(@)]
  <2>1. /\ ~Waiting(t)' /\ s \in Statements /\ Does(t, s) /\ Len(todo'[t]) = Len(todo[t]) - 1
    BY <1>1, <1>4, <1>6, BaseRuns
  <2>2. rows' = rows /\ del'[t] = del[t] \cup Gone(t, s)
    BY <1>1, <2>1, Changes
  <2>3. Takes(t)' = del'[t] /\ Left(t)' = Len(todo'[t])
    BY <2>1 DEF Takes, Left
  <2>4. Found(t, s) = Chosen(t, h)
    BY <1>4 DEF Found
  <2>5. ASSUME NEW T \in Both, NEW i
        PROVE  <<T, i>> \in Gone(t, s) <=> <<T, i>> \in Chosen(t, h)
    <3>1. <<T, i>>[1] # "request_attempts"
      BY DEF Both
    <3> QED BY <1>4, <2>4, <3>1, Goes
  <2> QED BY <1>2, <1>5, <2>1, <2>2, <2>3, <2>5
<1>7. CASE Queue(t, Upcoming(t)) /\ UNCHANGED todo
  <2>1. wants'[t] = s /\ rows' = rows /\ del' = del
    BY <1>1, <1>4, <1>7, BaseQueues
  <2>2. Waiting(t)'
    <3>1. s \in Statements
      BY <1>1, <1>2, <1>3, States
    <3>2. s # NoStatement
      BY <3>1 DEF Statements, NoStatement
    <3> QED BY <2>1, <3>2 DEF Waiting
  <2>3. Takes(t)' = del'[t] \cup wants'[t].delete /\ Left(t)' = Len(todo'[t]) - 1
    BY <2>2 DEF Takes, Left
  <2>4. Takes(t)' = Takes(t) \cup Chosen(t, h)
    BY <1>4, <1>5, <2>1, <2>3
  <2> QED BY <1>2, <1>5, <1>7, <2>1, <2>3, <2>4
<1> QED BY <1>6, <1>7

\* A statement that has waited takes what is still there of it.
LEMMA ResumeTakes ==
  ASSUME Base, NEW t \in LogTasks, Busy(t), Head(todo[t]) # Save, Waiting(t),
         UNCHANGED <<job, ids, next, expired, erased, before>>,
         Execute(t, Upcoming(t)) \/ Resume(t), todo' = [todo EXCEPT ![t] = Tail(@)]
  PROVE  /\ rows' = rows /\ Left(t)' = Left(t)
         /\ \A T \in Both : \A i :
              /\ <<T, i>> \in Takes(t)' => <<T, i>> \in Takes(t)
              /\ <<T, i>> \in Takes(t) /\ <<T, i>> \in rows => <<T, i>> \in Takes(t)'
<1>1. DbTypes /\ Jobs /\ Clocks'
  BY DEF Base, Clocks
<1>2. PICK s : s = wants[t]
  OBVIOUS
<1>3. Upcoming(t) = s /\ Takes(t) = del[t] \cup s.delete /\ Left(t) = Len(todo[t]) - 1
  BY <1>2 DEF Upcoming, Takes, Left
<1>4. /\ ~Waiting(t)' /\ s \in Statements /\ Does(t, s) /\ Len(todo'[t]) = Len(todo[t]) - 1
  BY <1>1, <1>3, BaseRuns
<1>5. rows' = rows /\ del'[t] = del[t] \cup Gone(t, s)
  BY <1>1, <1>4, Changes
<1>6. Takes(t)' = del'[t] /\ Left(t)' = Len(todo'[t])
  BY <1>4 DEF Takes, Left
<1>7. ASSUME NEW T \in Both, NEW i
      PROVE  /\ <<T, i>> \in Gone(t, s) => <<T, i>> \in s.delete
             /\ <<T, i>> \in s.delete /\ <<T, i>> \in rows => <<T, i>> \in Gone(t, s) \/ <<T, i>> \in del[t]
  <2>1. <<T, i>>[1] # "request_attempts"
    BY DEF Both
  <2> QED BY <2>1, Goes DEF Found, Visible
<1> QED BY <1>3, <1>4, <1>5, <1>6, <1>7

\* What another task takes stays as it was.
LEMMA SameTakes ==
  ASSUME NEW t, NEW o \in LogTasks \ {t}, Others(t), OtherJobs(t)
  PROVE  /\ Takes(o)' = Takes(o) /\ Left(o)' = Left(o)
         /\ job'[o] = job[o] /\ ids'[o] = ids[o] /\ todo'[o] = todo[o]
         /\ Waiting(o)' = Waiting(o) /\ ins'[o] = ins[o]
BY DEF Others, OtherJobs, Takes, Left, Waiting

\* Payload and statistics are pending together.
LEMMA PendsBoth ==
  ASSUME NEW t \in LogTasks, NEW T \in Both, NEW i, <<T, i>> \in Pending(t)
  PROVE  job[t] = "insert" /\ i \in ids[t] /\ Request(i) \in Pending(t) /\ Stat(i) \in Pending(t)
<1>1. <<T, i>>[1] = T /\ <<T, i>>[2] = i /\ T # "queue_samples" /\ T # "request_attempts"
  BY DEF Both
<1>2. <<T, i>> \in LogRows /\ i \in ids[t] /\ job[t] = "insert" /\ Len(todo[t]) >= 3
  BY <1>1 DEF Pending
<1>3. i \in Ids
  BY <1>2 DEF LogRows
<1>4. Request(i) \in LogRows /\ Stat(i) \in LogRows
  BY <1>3 DEF LogRows, Request, Stat, Tables
<1> QED BY <1>2, <1>4 DEF Pending, Request, Stat

\* What a commit adds of the two tables is a new request.
LEMMA Adds ==
  ASSUME Safe, NEW t \in LogTasks, Committing(t), Inserts(t),
         NEW T \in Both, NEW i, <<T, i>> \in rows', <<T, i>> \notin rows
  PROVE  /\ rows' # rows /\ job[t] = "insert" /\ i \in ids[t]
         /\ Request(i) \in Pending(t) /\ Stat(i) \in Pending(t) /\ i > Backlog["requests"]
<1>1. <<T, i>> \in Pending(t)
  BY Stores
<1>2. job[t] = "insert" /\ i \in ids[t] /\ Request(i) \in Pending(t) /\ Stat(i) \in Pending(t)
  BY <1>1, PendsBoth
<1> QED BY <1>2 DEF Inserts

-----------------------------------------------------------------------------
(* The other tasks.                                                        *)

\* A step of t that is none of a reset racing an insert, and what it may
\* newly have to store is new.
Quiet(t) ==
  /\ Others(t) /\ OtherJobs(t) /\ Committing(t)
  /\ rows' # rows /\ job[t] = "insert" => \A o \in LogTasks : job[o] # "reset"
  /\ \A r \in Pending(t)' : r \in Pending(t) \/ ~Given(r)
  /\ \A o \in LogTasks \ {t} : before'[o] = before[o]

\* Inserts and erasers are not disturbed.
LEMMA OthersSweep ==
  ASSUME Safe, Sound, NEW t \in LogTasks, Quiet(t), NEW o \in LogTasks \ {t}
  PROVE  Inserts(o)' /\ Sweeping(o)'
<1>1. /\ Takes(o)' = Takes(o) /\ Left(o)' = Left(o)
      /\ job'[o] = job[o] /\ ids'[o] = ids[o] /\ todo'[o] = todo[o]
      /\ Waiting(o)' = Waiting(o) /\ ins'[o] = ins[o]
  BY SameTakes DEF Quiet
<1>2. Inserts(o) /\ Sweeping(o) /\ Inserts(t) /\ Apart(t, o)
  BY DEF Sound, Safe
<1>3. Inserts(o)'
  BY <1>1, <1>2 DEF Inserts, Id
<1>4. ASSUME job[o] \in Erasers, NEW T \in Both, NEW i, <<T, i>> \in rows', Aims(o, i)
      PROVE  <<T, i>> \in rows
  <2>1. SUFFICES ASSUME <<T, i>> \notin rows PROVE FALSE
    OBVIOUS
  <2>2. /\ rows' # rows /\ job[t] = "insert" /\ Request(i) \in Pending(t) /\ Stat(i) \in Pending(t)
    BY <1>2, <1>4, <2>1, Adds DEF Quiet
  <2>3. job[o] # "reset"
    BY <2>2 DEF Quiet
  <2>4. job[o] \in {"delete", "delete_matching"} /\ i \in ids[o]
    BY <1>4, <2>3 DEF Erasers, Aims
  <2>5. Request(i) \in Reported(o)
    BY <2>4, Reports DEF Request
  <2> QED BY <1>2, <2>2, <2>5 DEF Apart
<1>5. Sweeping(o)'
  <2>1. SUFFICES ASSUME job[o] \in Erasers, NEW T \in Both, NEW i
                 PROVE  /\ <<T, i>> \in Takes(o)' => Aims(o, i)'
                        /\ <<T, i>> \in rows' /\ Aims(o, i)' /\ Passed(job'[o], Left(o)', T) => <<T, i>> \in Takes(o)'
    BY <1>1 DEF Sweeping
  <2>2. Aims(o, i)' = Aims(o, i)
    BY <1>1 DEF Aims
  <2>3. /\ <<T, i>> \in Takes(o) => Aims(o, i)
        /\ <<T, i>> \in rows /\ Aims(o, i) /\ Passed(job[o], Left(o), T) => <<T, i>> \in Takes(o)
    BY <1>2, <2>1 DEF Sweeping
  <2> QED BY <1>1, <1>4, <2>1, <2>2, <2>3
<1> QED BY <1>3, <1>5

\* Of the requests that the log started with, none comes back.
LEMMA NoneReturns ==
  ASSUME Safe, NEW t \in LogTasks, Committing(t), Inserts(t)
  PROVE  /\ \A T \in Both : \A i \in Early : <<T, i>> \in rows' => <<T, i>> \in rows
         /\ \A i : (Later(i))' \subseteq Later(i) /\ IsFiniteSet(Later(i)) /\ Cardinality(Later(i)) \in Nat
<1>1. ASSUME NEW T \in Both, NEW i \in Early, <<T, i>> \in rows' PROVE <<T, i>> \in rows
  <2>1. SUFFICES ASSUME <<T, i>> \notin rows PROVE FALSE
    OBVIOUS
  <2>2. i > Backlog["requests"]
    BY <1>1, <2>1, Adds
  <2> QED BY <2>2, IdsAreNumbers DEF Early
<1>2. ASSUME NEW i PROVE (Later(i))' \subseteq Later(i)
  <2>1. "request_stats" \in Both
    BY DEF Both
  <2>2. \A j \in Early : Stat(j) \in rows' => Stat(j) \in rows
    BY <1>1, <2>1 DEF Stat
  <2> QED BY <2>2 DEF Later
<1>3. ASSUME NEW i PROVE IsFiniteSet(Later(i)) /\ Cardinality(Later(i)) \in Nat
  <2>1. IsFiniteSet(Early)
    <3>1. Backlog["requests"] \in Int /\ 1 \in Int
      BY IdsAreNumbers
    <3> QED BY <3>1, FS_Interval DEF Early
  <2>2. Later(i) \in SUBSET Early
    BY DEF Later
  <2> QED BY <2>1, <2>2, FS_Subset, FS_CardinalityType
<1> QED BY <1>1, <1>2, <1>3

\* What nobody was to store, nobody is.
LEMMA StaysAside ==
  ASSUME Safe, Base', NEW t \in LogTasks, Quiet(t), \A n \in Numberings : next[n] <= next'[n],
         NEW i, Stat(i) \in LogRows, Given(Stat(i)), \A o \in LogTasks : Stat(i) \notin Pending(o)
  PROVE  Given(Stat(i))' /\ \A o \in LogTasks : Stat(i) \notin Pending(o)'
<1>1. Given(Stat(i))'
  BY Gives DEF Safe
<1>2. ASSUME NEW o \in LogTasks PROVE Stat(i) \notin Pending(o)'
  <2>1. CASE o = t
    BY <2>1 DEF Quiet
  <2>2. CASE o # t
    <3>1. Pending(o)' = Pending(o)
      BY <2>2, Same DEF Quiet
    <3> QED BY <3>1
  <2> QED BY <2>1, <2>2
<1> QED BY <1>1, <1>2

\* The purge is not disturbed.
LEMMA OthersPurge ==
  ASSUME PurgeKeepsUp, Safe, Sound, NEW t \in LogTasks, Quiet(t), NEW p \in LogTasks \ {t},
         \A n \in Numberings : next[n] <= next'[n], Base', job[p] = "purge" => expired' = expired
  PROVE  Tidy(p)'
<1>1. SUFFICES ASSUME job'[p] = "purge" PROVE (TakesBoth(p) /\ TakesOld(p) /\ TakesInOrder(p) /\ TakesExcess(p))'
  BY DEF Tidy
<1>2. p \in LogTasks \ {t}
  OBVIOUS
<1>3. /\ Takes(p)' = Takes(p) /\ Left(p)' = Left(p) /\ job'[p] = job[p]
  BY <1>2, SameTakes DEF Quiet
<1>4. TakesBoth(p) /\ TakesOld(p) /\ TakesInOrder(p) /\ TakesExcess(p) /\ Inserts(t) /\ expired' = expired /\ Committing(t)
  BY <1>1, <1>3 DEF Sound, Tidy, Quiet
<1>5. "requests" \in Both /\ "request_stats" \in Both
  BY DEF Both
<1>6. \A i \in Early : Request(i) \in rows' => Request(i) \in rows
  BY <1>4, <1>5, NoneReturns DEF Request
<1>7. TakesBoth(p)'
  <2>1. SUFFICES ASSUME NEW i, Stat(i) \in Takes(p)
                 PROVE  /\ Given(Stat(i))' /\ \A o \in LogTasks : Stat(i) \notin Pending(o)'
                        /\ Request(i) \in rows' => Request(i) \in Takes(p)
    BY <1>3 DEF TakesBoth
  <2>2. /\ Given(Stat(i)) /\ \A o \in LogTasks : Stat(i) \notin Pending(o)
        /\ Request(i) \in rows => Request(i) \in Takes(p)
    BY <1>4, <2>1 DEF TakesBoth
  <2>3. Stat(i) \in LogRows
    <3>1. Stat(i) \in Takes(p) /\ DbTypes
      BY <2>1 DEF Safe, Base
    <3> QED BY <1>2, <3>1 DEF Takes, DbTypes, Waiting, Statements
  <2>4. Given(Stat(i))' /\ \A o \in LogTasks : Stat(i) \notin Pending(o)'
    BY <2>2, <2>3, StaysAside
  <2>5. ASSUME Request(i) \in rows' PROVE Request(i) \in Takes(p)
    <3>1. Request(i) \in rows
      <4>1. SUFFICES ASSUME Request(i) \notin rows PROVE FALSE
        OBVIOUS
      <4>2. Stat(i) \in Pending(t)
        BY <1>4, <1>5, <2>5, <4>1, Adds DEF Request
      <4> QED BY <2>2, <4>2
    <3> QED BY <2>2, <3>1
  <2> QED BY <2>4, <2>5
<1>8. TakesOld(p)'
  <2>1. SUFFICES ASSUME Left(p) <= 6, NEW i, Request(i) \in rows', i <= expired["request_stats"]
                 PROVE  Request(i) \in Takes(p)
    BY <1>3, <1>4 DEF TakesOld
  <2>2. i \in Early
    <3>1. rows' \subseteq LogRows /\ Clocks
      BY DEF Base, DbTypes, Safe
    <3>2. i \in Nat /\ i >= 1
      BY <2>1, <3>1, IdsAreNumbers DEF LogRows, Request
    <3>3. expired["request_stats"] \in Nat /\ expired["request_stats"] <= Oldest["request_stats"]
      BY <3>1, IdsAreNumbers DEF Clocks
    <3>4. Oldest["request_stats"] <= Backlog["requests"]
      BY DEF PurgeKeepsUp
    <3> QED BY <2>1, <3>2, <3>3, <3>4, IdsAreNumbers DEF Early
  <2> QED BY <1>4, <1>6, <2>1, <2>2 DEF TakesOld
<1>9. TakesInOrder(p)'
  BY <1>3, <1>4, <1>6 DEF TakesInOrder
<1>10. TakesExcess(p)'
  <2>1. SUFFICES ASSUME Prompt, Left(p) <= 5, NEW i \in Early, Request(i) \in rows', Request(i) \notin Takes(p)
                 PROVE  Cardinality((Later(i))') < MaxRows["requests"]
    BY <1>3 DEF TakesExcess
  <2>2. Cardinality(Later(i)) < MaxRows["requests"]
    BY <1>4, <1>6, <2>1 DEF TakesExcess
  <2>3. PICK L, M : L = Later(i) /\ M = (Later(i))'
    OBVIOUS
  <2>4. M \in SUBSET L /\ IsFiniteSet(L) /\ Cardinality(L) \in Nat
    BY <1>4, <2>3, NoneReturns
  <2>5. Cardinality(M) <= Cardinality(L) /\ Cardinality(M) \in Nat
    BY <2>4, FS_Subset, FS_CardinalityType
  <2>6. Cardinality(M) < MaxRows["requests"]
    BY <2>2, <2>3, <2>4, <2>5, IdsAreNumbers
  <2> QED BY <2>3, <2>6
<1> QED BY <1>7, <1>8, <1>9, <1>10

\* Nobody's part is lost.
LEMMA SoundTogether ==
  ASSUME PurgeKeepsUp, Safe, Sound, Base', NEW t \in LogTasks, Quiet(t),
         \A n \in Numberings : next[n] <= next'[n],
         \A p \in LogTasks \ {t} : job[p] = "purge" => expired' = expired,
         Ages', Paired', Ladder', Inserts(t)', Sweeping(t)', Tidy(t)'
  PROVE  Sound'
<1>1. \A o \in LogTasks : Inserts(o)' /\ Sweeping(o)'
  BY OthersSweep
<1>2. \A o \in LogTasks : Tidy(o)'
  BY OthersPurge
<1> QED BY <1>1, <1>2 DEF Sound

-----------------------------------------------------------------------------
(* A statement of the purge.                                               *)

\* The rows it sees.
LEMMA PurgeSees ==
  ASSUME Safe, NEW t \in LogTasks, Busy(t), job[t] = "purge"
  PROVE  /\ Visible(t) = rows \ del[t]
         /\ \A T \in Both : \A r \in Visible(t) : r[1] = T =>
              \E j \in 1 .. LastId["requests"] : r = <<T, j>> /\ r[2] = j
<1>1. Visible(t) = rows \ del[t]
  BY InsertsNothing DEF Writers
<1>2. ASSUME NEW T \in Both, NEW r \in Visible(t), r[1] = T
      PROVE  \E j \in 1 .. LastId["requests"] : r = <<T, j>> /\ r[2] = j
  <2>1. r \in rows /\ r \in LogRows /\ Given(r)
    BY <1>1, <1>2 DEF Safe, Base, DbTypes, Stored
  <2>2. r = <<T, r[2]>> /\ r[2] \in Ids
    BY <1>2, <2>1 DEF LogRows
  <2>3. Numbered(r[1]) = "requests"
    BY <1>2 DEF Numbered, Both
  <2>4. r[2] <= next["requests"] /\ next["requests"] <= LastId["requests"] /\ next["requests"] \in Nat
    BY <2>1, <2>3 DEF Given, Safe, Base, Clocks, Numberings
  <2>5. r[2] \in 1 .. LastId["requests"]
    BY <2>2, <2>4, IdsAreNumbers
  <2> QED BY <2>2, <2>5
<1> QED BY <1>1, <1>2

\* The rows with lower, or higher, ids are finitely many.
Below(t, T, i) == {r \in Visible(t) : r[1] = T /\ r[2] < i}
Above(t, T, i) == {r \in Visible(t) : r[1] = T /\ r[2] > i}

\* They are no more than these ids.
LEMMA BelowAbove ==
  ASSUME Safe, NEW t \in LogTasks, Busy(t), job[t] = "purge", NEW T \in Both,
         NEW i \in 1 .. LastId["requests"]
  PROVE  /\ IsFiniteSet(Below(t, T, i)) /\ Cardinality(Below(t, T, i)) \in Nat
         /\ Cardinality(Below(t, T, i)) <= i - 1
         /\ IsFiniteSet(Above(t, T, i)) /\ Cardinality(Above(t, T, i)) \in Nat
         /\ Cardinality(Above(t, T, i)) <= LastId["requests"] - i
<1>1. PICK n \in Nat : n = LastId["requests"]
  BY IdsAreNumbers
<1>2. i \in 1 .. n /\ i \in Nat /\ i >= 1 /\ i <= n
  BY <1>1
<1>3. \A r \in Visible(t) : r[1] = T => \E j \in 1 .. n : r = <<T, j>> /\ r[2] = j
  BY <1>1, PurgeSees
<1>4. \A r \in Below(t, T, i) : \E j \in 1 .. i - 1 : r = <<T, j>>
  BY <1>2, <1>3 DEF Below
<1>5. \A r \in Above(t, T, i) : \E j \in i + 1 .. n : r = <<T, j>>
  BY <1>2, <1>3 DEF Above
<1>6. /\ IsFiniteSet(Below(t, T, i)) /\ Cardinality(Below(t, T, i)) \in Nat
      /\ Cardinality(Below(t, T, i)) <= (i - 1) - 1 + 1
  <2>1. 1 \in Int /\ i - 1 \in Int /\ 1 <= (i - 1) + 1
    BY <1>2
  <2> HIDE DEF Below
  <2> QED BY <1>4, <2>1, RowsBetween
<1>7. /\ IsFiniteSet(Above(t, T, i)) /\ Cardinality(Above(t, T, i)) \in Nat
      /\ Cardinality(Above(t, T, i)) <= n - (i + 1) + 1
  <2>1. n \in Int /\ i + 1 \in Int /\ i + 1 <= n + 1
    BY <1>2
  <2> QED BY <1>5, <2>1, RowsBetween
<1>8. (i - 1) - 1 + 1 = i - 1 /\ n - (i + 1) + 1 = n - i
  BY <1>2
<1> QED BY <1>1, <1>6, <1>7, <1>8

\* What is too old is taken if there are less than a batch before it; ...
LEMMA OldTakes ==
  ASSUME Safe, NEW t \in LogTasks, Busy(t), job[t] = "purge", NEW i,
         Request(i) \in Visible(t), i <= expired["requests"]
  PROVE  /\ i \in 1 .. LastId["requests"]
         /\ i <= Batch => Request(i) \in Chosen(t, Old("requests"))
         /\ \A j : i < j /\ Request(j) \in Chosen(t, Old("requests")) => Request(i) \in Chosen(t, Old("requests"))
<1>1. PICK S : S = {r \in Visible(t) : r[1] = "requests" /\ r[2] <= expired["requests"]}
  OBVIOUS
<1>2. Chosen(t, Old("requests")) = {r \in S : Cardinality({o \in S : o[2] < r[2]}) < Batch}
  <2>1. Chosen(t, Old("requests")) = Lowest(S, Batch)
    BY <1>1, PurgeChooses
  <2> QED BY <2>1 DEF Lowest
<1>3. /\ "requests" \in Both /\ \A k : Request(k)[1] = "requests" /\ Request(k)[2] = k
  BY DEF Both, Request
<1>4. i \in 1 .. LastId["requests"]
  BY <1>3, PurgeSees
<1>5. Request(i) \in S
  BY <1>1, <1>3
<1>6. /\ IsFiniteSet(Below(t, "requests", i)) /\ Cardinality(Below(t, "requests", i)) \in Nat
      /\ Cardinality(Below(t, "requests", i)) <= i - 1
  BY <1>3, <1>4, BelowAbove
<1>7. PICK P : P = {o \in S : o[2] < i}
  OBVIOUS
<1>8. P \in SUBSET Below(t, "requests", i)
  BY <1>1, <1>7 DEF Below
<1>9. IsFiniteSet(P) /\ Cardinality(P) \in Nat /\ Cardinality(P) <= Cardinality(Below(t, "requests", i))
  BY <1>6, <1>8, FS_Subset, FS_CardinalityType
<1>10. i \in Nat /\ i >= 1
  BY <1>4, IdsAreNumbers
<1>11. ASSUME i <= Batch PROVE Request(i) \in Chosen(t, Old("requests"))
  <2>1. Cardinality(P) < Batch
    BY <1>6, <1>9, <1>10, <1>11, IdsAreNumbers
  <2> QED BY <1>2, <1>3, <1>5, <1>7, <2>1
<1>12. ASSUME NEW j, i < j, Request(j) \in Chosen(t, Old("requests"))
       PROVE  Request(i) \in Chosen(t, Old("requests"))
  <2>1. PICK Q : Q = {o \in S : o[2] < j}
    OBVIOUS
  <2>2. Cardinality(Q) < Batch /\ Request(j) \in Visible(t)
    BY <1>1, <1>2, <1>3, <1>12, <2>1
  <2>3. j \in 1 .. LastId["requests"]
    BY <1>3, <2>2, PurgeSees
  <2>4. IsFiniteSet(Below(t, "requests", j))
    BY <1>3, <2>3, BelowAbove
  <2>5. Q \in SUBSET Below(t, "requests", j)
    BY <1>1, <2>1 DEF Below
  <2>6. IsFiniteSet(Q) /\ Cardinality(Q) \in Nat
    BY <2>4, <2>5, FS_Subset, FS_CardinalityType
  <2>7. P \in SUBSET Q
    <3>1. ASSUME NEW o \in P PROVE o \in Q
      <4>1. o \in S /\ o[2] < i
        BY <1>7, <3>1
      <4>2. o \in Visible(t) /\ o[1] = "requests"
        BY <1>1, <4>1
      <4>3. o[2] \in 1 .. LastId["requests"]
        BY <1>3, <4>2, PurgeSees
      <4>4. o[2] \in Nat /\ j \in Nat
        BY <2>3, <4>3, IdsAreNumbers
      <4>5. o[2] < j
        BY <1>10, <1>12, <4>1, <4>4
      <4> QED BY <2>1, <4>1, <4>5
    <3> QED BY <3>1
  <2>8. Cardinality(P) <= Cardinality(Q)
    BY <2>6, <2>7, FS_Subset
  <2>9. Cardinality(P) < Batch
    BY <1>9, <2>2, <2>6, <2>8, IdsAreNumbers
  <2> QED BY <1>2, <1>3, <1>5, <1>7, <2>9
<1> QED BY <1>4, <1>11, <1>12

\* ... what is beyond the limit is taken up to a batch, and of those that are
\* left few are newer; ...
LEMMA ExcessTakes ==
  ASSUME Prompt, Safe, NEW t \in LogTasks, Busy(t), job[t] = "purge", NEW i, Request(i) \in Visible(t)
  PROVE  /\ i \in 1 .. LastId["requests"]
         /\ \A j : i < j /\ Request(j) \in Chosen(t, Excess("requests")) => Request(i) \in Chosen(t, Excess("requests"))
         /\ Request(i) \notin Chosen(t, Excess("requests")) => Cardinality(Above(t, "requests", i)) < MaxRows["requests"]
<1>1. PICK S : S = {r \in Visible(t) : r[1] = "requests"}
  OBVIOUS
<1>2. PICK m \in Nat : m = MaxRows["requests"]
  BY IdsAreNumbers
<1>3. Chosen(t, Excess("requests")) = {r \in S : Cardinality({o \in S : o[2] > r[2]}) \in m .. m + Batch - 1}
  <2>1. Chosen(t, Excess("requests")) = Beyond("requests", S)
    BY <1>1, PurgeChooses
  <2> QED BY <1>2, <2>1 DEF Beyond
<1>4. /\ "requests" \in Both /\ \A k : Request(k)[1] = "requests" /\ Request(k)[2] = k
  BY DEF Both, Request
<1>5. i \in 1 .. LastId["requests"] /\ Request(i) \in S
  BY <1>1, <1>4, PurgeSees
<1>6. \A k : {o \in S : o[2] > k} = Above(t, "requests", k)
  BY <1>1 DEF Above
<1>7. PICK c : c = Cardinality(Above(t, "requests", i))
  OBVIOUS
<1>8. c \in Nat /\ c <= LastId["requests"] - i
  BY <1>4, <1>5, <1>7, BelowAbove
<1>9. c < m + Batch
  BY <1>2, <1>5, <1>8, IdsAreNumbers DEF Prompt
<1>10. Request(i) \in Chosen(t, Excess("requests")) <=> c >= m
  <2>1. Request(i) \in Chosen(t, Excess("requests")) <=> c \in m .. m + Batch - 1
    BY <1>3, <1>4, <1>5, <1>6, <1>7
  <2> QED BY <1>2, <1>8, <1>9, <2>1, IdsAreNumbers
<1>11. ASSUME NEW j, i < j, Request(j) \in Chosen(t, Excess("requests"))
       PROVE  Request(i) \in Chosen(t, Excess("requests"))
  <2>1. PICK d : d = Cardinality(Above(t, "requests", j))
    OBVIOUS
  <2>2. Request(j) \in Visible(t) /\ d \in m .. m + Batch - 1
    BY <1>1, <1>3, <1>4, <1>6, <1>11, <2>1
  <2>3. j \in 1 .. LastId["requests"]
    BY <1>4, <2>2, PurgeSees
  <2>4. IsFiniteSet(Above(t, "requests", i))
    BY <1>4, <1>5, BelowAbove
  <2>5. Above(t, "requests", j) \in SUBSET Above(t, "requests", i)
    <3>1. ASSUME NEW o \in Above(t, "requests", j) PROVE o \in Above(t, "requests", i)
      <4>1. o \in Visible(t) /\ o[1] = "requests" /\ o[2] > j
        BY <3>1 DEF Above
      <4>2. o[2] \in 1 .. LastId["requests"]
        BY <1>4, <4>1, PurgeSees
      <4>3. o[2] \in Nat /\ i \in Nat /\ j \in Nat
        BY <1>5, <2>3, <4>2, IdsAreNumbers
      <4>4. o[2] > i
        BY <1>11, <4>1, <4>3
      <4> QED BY <4>1, <4>4 DEF Above
    <3> QED BY <3>1
  <2>6. d <= c
    BY <1>7, <2>1, <2>4, <2>5, FS_Subset
  <2>7. c >= m
    BY <1>2, <1>8, <2>2, <2>6, IdsAreNumbers
  <2> QED BY <1>10, <2>7
<1>12. ASSUME Request(i) \notin Chosen(t, Excess("requests")) PROVE Cardinality(Above(t, "requests", i)) < MaxRows["requests"]
  BY <1>2, <1>7, <1>8, <1>10, <1>12
<1> QED BY <1>5, <1>11, <1>12

\* ... the statistics beyond their limit are taken; ...
LEMMA StatsTaken ==
  ASSUME Safe, NEW t \in LogTasks, Busy(t), job[t] = "purge", NEW i, Stat(i) \in Chosen(t, Excess("request_stats"))
  PROVE  /\ Stat(i) \in Visible(t) /\ i \in 1 .. LastId["requests"]
         /\ Cardinality(Above(t, "request_stats", i)) >= MaxRows["request_stats"]
<1>1. PICK S : S = {r \in Visible(t) : r[1] = "request_stats"}
  OBVIOUS
<1>2. PICK m \in Nat : m = MaxRows["request_stats"]
  BY IdsAreNumbers
<1>3. Chosen(t, Excess("request_stats")) = {r \in S : Cardinality({o \in S : o[2] > r[2]}) \in m .. m + Batch - 1}
  <2>1. Chosen(t, Excess("request_stats")) = Beyond("request_stats", S)
    BY <1>1, PurgeChooses
  <2> QED BY <1>2, <2>1 DEF Beyond
<1>4. /\ "request_stats" \in Both /\ Stat(i)[1] = "request_stats" /\ Stat(i)[2] = i
  BY DEF Both, Stat
<1>5. Stat(i) \in S
  BY <1>3
<1>6. i \in 1 .. LastId["requests"] /\ Stat(i) \in Visible(t)
  BY <1>1, <1>4, <1>5, PurgeSees
<1>7. {o \in S : o[2] > i} = Above(t, "request_stats", i)
  BY <1>1 DEF Above
<1>8. Cardinality(Above(t, "request_stats", i)) \in m .. m + Batch - 1
  BY <1>3, <1>4, <1>7
<1>9. PICK c : c = Cardinality(Above(t, "request_stats", i))
  OBVIOUS
<1>10. c >= m
  BY <1>2, <1>8, <1>9, IdsAreNumbers
<1> QED BY <1>2, <1>6, <1>9, <1>10

\* ... and these are not of payloads that it leaves.
LEMMA StatsSpared ==
  ASSUME PurgeKeepsUp, Safe, NEW t \in LogTasks, Busy(t), job[t] = "purge",
         NEW i, Stat(i) \in Chosen(t, Excess("request_stats")), Prompt /\ i \in Early => Cardinality(Later(i)) < MaxRows["requests"]
  PROVE  FALSE
<1>1. /\ i \in 1 .. LastId["requests"]
      /\ Cardinality(Above(t, "request_stats", i)) >= MaxRows["request_stats"]
  BY StatsTaken
<1>2. PICK n \in Nat : n = LastId["requests"]
  BY IdsAreNumbers
<1>3. PICK b \in Nat : b = Backlog["requests"] /\ b <= n
  BY <1>2, IdsAreNumbers
<1>4. PICK m, k \in Nat : m = MaxRows["request_stats"] /\ k = MaxRows["requests"]
  BY IdsAreNumbers
<1>5. PICK A : A = Above(t, "request_stats", i)
  OBVIOUS
<1>6. "request_stats" \in Both
  BY DEF Both
<1>7. IsFiniteSet(A) /\ Cardinality(A) \in Nat /\ Cardinality(A) <= n - i /\ Cardinality(A) >= m
  BY <1>1, <1>2, <1>4, <1>5, <1>6, BelowAbove
<1>8. i \in Nat /\ i >= 1
  BY <1>1, IdsAreNumbers
<1>9. CASE AllFit
  <2>1. n <= m
    BY <1>2, <1>4, <1>9 DEF AllFit
  <2> QED BY <1>7, <1>8, <2>1
<1>10. CASE Prompt
  <2>1. n - b <= m - k
    BY <1>2, <1>3, <1>4, <1>10 DEF Prompt
  <2>2. CASE i > b
    BY <1>7, <1>8, <2>1, <2>2
  <2>3. CASE ~(i > b)
    <3>1. i \in Early
      BY <1>3, <1>8, <2>3 DEF Early
    <3>2. PICK L : L = Later(i)
      OBVIOUS
    <3>3. IsFiniteSet(L) /\ Cardinality(L) \in Nat /\ Cardinality(L) < k
      <4>1. IsFiniteSet(Early)
        BY <1>3, FS_Interval DEF Early
      <4>2. L \in SUBSET Early
        BY <3>2 DEF Later
      <4> QED BY <1>4, <1>10, <3>1, <3>2, <4>1, <4>2, FS_Subset, FS_CardinalityType
    <3>4. PICK P : P = {<<"request_stats", j>> : j \in L}
      OBVIOUS
    <3>5. PICK Q : Q = {r \in A : r[2] > b}
      OBVIOUS
    <3>6. IsFiniteSet(P) /\ Cardinality(P) \in Nat /\ Cardinality(P) < k
      BY <3>3, <3>4, RowCount
    <3>7. \A r \in A : \E j \in 1 .. n : r = <<"request_stats", j>> /\ r[2] = j /\ j > i /\ r \in rows
      <4>1. ASSUME NEW r \in A PROVE \E j \in 1 .. n : r = <<"request_stats", j>> /\ r[2] = j /\ j > i /\ r \in rows
        <5>1. r \in Visible(t) /\ r[1] = "request_stats" /\ r[2] > i
          BY <1>5, <4>1 DEF Above
        <5>2. \E j \in 1 .. n : r = <<"request_stats", j>> /\ r[2] = j
          BY <1>2, <1>6, <5>1, PurgeSees
        <5>3. r \in rows
          BY <5>1, PurgeSees
        <5> QED BY <5>1, <5>2, <5>3
      <4> QED BY <4>1
    <3>8. IsFiniteSet(Q) /\ Cardinality(Q) \in Nat /\ Cardinality(Q) <= n - (b + 1) + 1
      <4>1. \A r \in Q : \E j \in b + 1 .. n : r = <<"request_stats", j>>
        BY <1>3, <3>5, <3>7
      <4>2. b + 1 \in Int /\ n \in Int /\ b + 1 <= n + 1
        BY <1>3
      <4> QED BY <4>1, <4>2, RowsBetween
    <3>9. A \in SUBSET (P \cup Q)
      <4>1. ASSUME NEW r \in A, r \notin Q PROVE r \in P
        <5>1. PICK j \in 1 .. n : r = <<"request_stats", j>> /\ r[2] = j /\ j > i /\ r \in rows
          BY <3>7, <4>1
        <5>2. j <= b
          BY <1>3, <3>5, <4>1, <5>1
        <5>3. j \in Early /\ i < j /\ Stat(j) \in rows
          BY <1>3, <1>8, <5>1, <5>2 DEF Early, Stat
        <5>4. j \in L
          BY <3>2, <5>3 DEF Later
        <5> QED BY <3>4, <5>1, <5>4
      <4> QED BY <4>1
    <3>10. /\ IsFiniteSet(P \cup Q)
           /\ Cardinality(P \cup Q) = Cardinality(P) + Cardinality(Q) - Cardinality(P \cap Q)
      BY <3>6, <3>8, FS_Union
    <3>11. Cardinality(P \cap Q) \in Nat
      <4>1. P \cap Q \in SUBSET P
        OBVIOUS
      <4> QED BY <3>6, <4>1, FS_Subset, FS_CardinalityType
    <3>12. Cardinality(A) <= Cardinality(P \cup Q)
      BY <3>9, <3>10, FS_Subset
    <3>13. PICK a, p, q, u, w : /\ a = Cardinality(A) /\ p = Cardinality(P) /\ q = Cardinality(Q)
                                /\ u = Cardinality(P \cup Q) /\ w = Cardinality(P \cap Q)
      OBVIOUS
    <3>14. /\ a \in Nat /\ p \in Nat /\ q \in Nat /\ w \in Nat /\ u = p + q - w
           /\ a >= m /\ a <= u /\ p < k /\ q <= n - (b + 1) + 1
      BY <1>7, <3>6, <3>8, <3>10, <3>11, <3>12, <3>13
    <3> QED BY <1>3, <1>4, <2>1, <3>14
  <2> QED BY <2>2, <2>3
<1> QED BY <1>9, <1>10 DEF PurgeKeepsUp, AllFit, Prompt

\* A statement that the purge sends takes statistics only with their payloads.
LEMMA PurgeSends ==
  ASSUME PurgeKeepsUp, Safe, Sound, Base', NEW t \in LogTasks, Quiet(t), Busy(t), job[t] = "purge",
         Head(todo[t]) # Save, ~Waiting(t), UNCHANGED <<job, next, expired, rows>>,
         Left(t)' = Left(t) - 1, Left(t) = Len(todo[t]),
         \A T \in Both : \A i :
           <<T, i>> \in Takes(t)' <=>
             <<T, i>> \in Takes(t) \/ <<T, i>> \in Chosen(t, Head(todo[t]))
  PROVE  Tidy(t)'
<1>1. /\ t \in LogTasks /\ TakesBoth(t) /\ TakesOld(t) /\ TakesInOrder(t) /\ TakesExcess(t)
      /\ Ages /\ Ladder /\ Base /\ Jobs /\ DbTypes /\ Clocks /\ Stored
  BY TaskKinds DEF Sound, Tidy, Safe, Base
<1>2. PICK n : n = Len(todo[t])
  OBVIOUS
<1>3. PICK h : h = Head(todo[t])
  OBVIOUS
<1>4. /\ n \in 2 .. 7
      /\ n = 7 => h = Old("requests")
      /\ n = 6 => h = Excess("requests")
      /\ n = 5 => h = Old("request_stats")
      /\ n = 4 => h = Excess("request_stats")
      /\ n = 3 => h = Old("queue_samples")
      /\ n = 2 => h = Excess("queue_samples")
  <2>1. /\ n \in 1 .. 7
        /\ n = 7 => h = Old("requests")
        /\ n = 6 => h = Excess("requests")
        /\ n = 5 => h = Old("request_stats")
        /\ n = 4 => h = Excess("request_stats")
        /\ n = 3 => h = Old("queue_samples")
        /\ n = 2 => h = Excess("queue_samples")
    BY <1>1, <1>2, <1>3, PurgeHeads
  <2>2. n > 1
    BY <1>1, <1>2, NotLast
  <2>3. n \in 2 .. 7
    BY <2>1, <2>2
  <2> QED BY <2>1, <2>3
<1>5. Left(t) = n /\ Left(t)' = n - 1
  BY <1>2
<1>6. /\ \A i : Request(i) \in Takes(t)' <=> Request(i) \in Takes(t) \/ Request(i) \in Chosen(t, h)
      /\ \A i : Stat(i) \in Takes(t)' <=> Stat(i) \in Takes(t) \/ Stat(i) \in Chosen(t, h)
  BY <1>3 DEF Both, Request, Stat
<1>7. h.table = IF n \in {6, 7} THEN "requests" ELSE IF n \in {4, 5} THEN "request_stats" ELSE "queue_samples"
  BY <1>4 DEF Old, Excess
<1>8. /\ \A i : Request(i) \in Chosen(t, h) => n \in {6, 7}
      /\ \A i : Stat(i) \in Chosen(t, h) => n \in {4, 5}
  <2>1. ASSUME NEW i, Request(i) \in Chosen(t, h) PROVE n \in {6, 7}
    <3>1. Request(i)[1] = h.table
      BY <2>1, ChoosesFrom
    <3> QED BY <1>7, <3>1 DEF Request
  <2>2. ASSUME NEW i, Stat(i) \in Chosen(t, h) PROVE n \in {4, 5}
    <3>1. Stat(i)[1] = h.table
      BY <2>2, ChoosesFrom
    <3> QED BY <1>7, <3>1 DEF Stat
  <2> QED BY <2>1, <2>2
<1>9. Visible(t) = rows \ Takes(t) /\ Chosen(t, h) \subseteq Visible(t)
  <2>1. Visible(t) = rows \ del[t]
    BY <1>1, PurgeSees
  <2>2. Takes(t) = del[t]
    BY DEF Takes
  <2> QED BY <2>1, <2>2, Chooses
<1>10. \A i : Request(i) \in rows => i \in Nat /\ i >= 1
  <2>1. ASSUME NEW i, Request(i) \in rows PROVE i \in Ids
    BY <1>1, <2>1 DEF DbTypes, LogRows, Request
  <2> QED BY <2>1, IdsAreNumbers
<1>11. ASSUME NEW i, Request(i) \in Chosen(t, Old("requests")) PROVE i <= expired["requests"]
  <2>1. PICK S : S = {r \in Visible(t) : r[1] = "requests" /\ r[2] <= expired["requests"]}
    OBVIOUS
  <2>2. Chosen(t, Old("requests")) = Lowest(S, Batch)
    BY <2>1, PurgeChooses
  <2>3. Request(i) \in S
    BY <1>11, <2>2 DEF Lowest
  <2>4. Request(i)[2] <= expired["requests"]
    BY <2>1, <2>3
  <2> QED BY <2>4 DEF Request
<1>12. ASSUME NEW i, Stat(i) \in Chosen(t, Old("request_stats")) PROVE i <= expired["request_stats"]
  <2>1. PICK S : S = {r \in Visible(t) : r[1] = "request_stats" /\ r[2] <= expired["request_stats"]}
    OBVIOUS
  <2>2. Chosen(t, Old("request_stats")) = Lowest(S, Batch)
    BY <2>1, PurgeChooses
  <2>3. Stat(i) \in S
    BY <1>12, <2>2 DEF Lowest
  <2>4. Stat(i)[2] <= expired["request_stats"]
    BY <2>1, <2>3
  <2> QED BY <2>4 DEF Stat
<1>13. TakesBoth(t)'
  <2>1. SUFFICES ASSUME NEW i, Stat(i) \in Takes(t)'
                 PROVE  /\ Given(Stat(i))' /\ \A o \in LogTasks : Stat(i) \notin Pending(o)'
                        /\ Request(i) \in rows => Request(i) \in Takes(t)'
    BY DEF TakesBoth
  <2>2. CASE Stat(i) \in Takes(t)
    <3>1. /\ Given(Stat(i)) /\ \A o \in LogTasks : Stat(i) \notin Pending(o)
          /\ Request(i) \in rows => Request(i) \in Takes(t)
      BY <1>1, <2>2 DEF TakesBoth
    <3>2. Stat(i) \in LogRows
      BY <1>1, <2>2 DEF Takes, DbTypes
    <3>3. \A m \in Numberings : next[m] <= next'[m]
      BY <1>1 DEF Clocks
    <3> QED BY <1>1, <1>6, <3>1, <3>2, <3>3, StaysAside
  <2>3. CASE Stat(i) \in Chosen(t, h)
    <3>1. Stat(i) \in rows /\ n \in {4, 5}
      BY <1>8, <1>9, <2>3
    <3>2. Given(Stat(i)) /\ Stat(i) \in LogRows /\ \A o \in LogTasks : Stat(i) \notin Pending(o)
      BY <1>1, <3>1 DEF Stored, DbTypes, Safe, Fresh
    <3>3. \A m \in Numberings : next[m] <= next'[m]
      BY <1>1 DEF Clocks
    <3>4. Given(Stat(i))' /\ \A o \in LogTasks : Stat(i) \notin Pending(o)'
      BY <1>1, <3>2, <3>3, StaysAside
    <3>5. ASSUME Request(i) \in rows, Request(i) \notin Takes(t) PROVE FALSE
      <4>1. CASE n = 5
        <5>1. i <= expired["request_stats"]
          BY <1>4, <1>12, <2>3, <4>1
        <5>2. Left(t) <= 6
          BY <1>5, <4>1
        <5> QED BY <1>1, <3>5, <5>1, <5>2 DEF TakesOld
      <4>2. CASE n = 4
        <5>1. Stat(i) \in Chosen(t, Excess("request_stats"))
          BY <1>4, <2>3, <4>2
        <5>2. Left(t) <= 5
          BY <1>5, <4>2
        <5>3. Prompt /\ i \in Early => Cardinality(Later(i)) < MaxRows["requests"]
          BY <1>1, <3>5, <5>2 DEF TakesExcess
        <5> QED BY <1>1, <5>1, <5>3, StatsSpared
      <4> QED BY <3>1, <4>1, <4>2
    <3> QED BY <1>6, <3>4, <3>5
  <2> QED BY <1>6, <2>1, <2>2, <2>3
<1>14. TakesOld(t)'
  <2>1. SUFFICES ASSUME NEW i, Request(i) \in rows, i <= expired["request_stats"]
                 PROVE  Request(i) \in Takes(t)'
    BY DEF TakesOld
  <2>2. CASE n <= 6
    <3>1. Request(i) \in Takes(t)
      BY <1>1, <1>5, <2>1, <2>2 DEF TakesOld
    <3> QED BY <1>6, <3>1
  <2>3. CASE n = 7
    <3>1. SUFFICES ASSUME Request(i) \notin Takes(t) PROVE Request(i) \in Chosen(t, Old("requests"))
      BY <1>4, <1>6, <2>3
    <3>2. Request(i) \in Visible(t)
      BY <1>9, <2>1, <3>1
    <3>3. /\ expired["request_stats"] \in Nat /\ expired["requests"] \in Nat
          /\ expired["request_stats"] <= Oldest["request_stats"]
      BY <1>1, IdsAreNumbers DEF Clocks
    <3>4. i <= expired["requests"]
      BY <1>1, <1>10, <2>1, <3>3 DEF Ages
    <3>5. i <= Batch
      BY <1>10, <2>1, <3>3, IdsAreNumbers DEF PurgeKeepsUp
    <3> QED BY <1>1, <3>2, <3>4, <3>5, OldTakes
  <2> QED BY <1>4, <2>2, <2>3
<1>15. TakesInOrder(t)'
  <2>1. SUFFICES ASSUME Prompt, NEW i \in Early, NEW j \in Early, i < j,
                        Request(j) \in Takes(t)', Request(i) \in rows
                 PROVE  Request(i) \in Takes(t)'
    BY DEF TakesInOrder
  <2>2. CASE Request(j) \in Takes(t)
    BY <1>1, <1>6, <2>1, <2>2 DEF TakesInOrder
  <2>3. CASE Request(j) \in Chosen(t, h)
    <3>1. SUFFICES ASSUME Request(i) \notin Takes(t) PROVE Request(i) \in Chosen(t, h)
      BY <1>6
    <3>2. Request(i) \in Visible(t) /\ Request(j) \in rows
      BY <1>9, <2>1, <2>3, <3>1
    <3>3. CASE n = 7
      <4>1. Request(j) \in Chosen(t, Old("requests"))
        BY <1>4, <2>3, <3>3
      <4>2. j <= expired["requests"]
        BY <1>11, <4>1
      <4>3. expired["requests"] \in Nat /\ i \in Nat /\ j \in Nat
        BY <1>1, <1>10, <2>1, <3>2, IdsAreNumbers DEF Clocks
      <4>4. i <= expired["requests"]
        BY <2>1, <4>2, <4>3
      <4> QED BY <1>1, <1>4, <2>1, <3>2, <3>3, <4>1, <4>4, OldTakes
    <3>4. CASE n = 6
      BY <1>1, <1>4, <2>1, <2>3, <3>2, <3>4, ExcessTakes
    <3> QED BY <1>8, <2>3, <3>3, <3>4
  <2> QED BY <1>6, <2>1, <2>2, <2>3
<1>16. TakesExcess(t)'
  <2>1. SUFFICES ASSUME Prompt, Left(t)' <= 5, NEW i \in Early, Request(i) \in rows, Request(i) \notin Takes(t)'
                 PROVE  Cardinality(Later(i)) < MaxRows["requests"]
    <3>1. \A i : (Later(i))' = Later(i)
      BY DEF Later
    <3> QED BY <3>1 DEF TakesExcess
  <2>2. Request(i) \notin Takes(t) /\ Request(i) \notin Chosen(t, h)
    BY <1>6, <2>1
  <2>3. CASE n <= 5
    BY <1>1, <1>5, <2>1, <2>2, <2>3 DEF TakesExcess
  <2>4. CASE n = 6
    <3>1. Request(i) \in Visible(t)
      BY <1>9, <2>1, <2>2
    <3>2. PICK A : A = Above(t, "requests", i)
      OBVIOUS
    <3>3. i \in 1 .. LastId["requests"] /\ Cardinality(A) < MaxRows["requests"]
      BY <1>1, <1>4, <2>1, <2>2, <2>4, <3>1, <3>2, ExcessTakes
    <3>4. IsFiniteSet(A) /\ Cardinality(A) \in Nat
      BY <1>1, <3>2, <3>3, BelowAbove DEF Both
    <3>5. PICK L : L = Later(i)
      OBVIOUS
    <3>6. IsFiniteSet(L) /\ Cardinality(L) \in Nat
      <4>1. IsFiniteSet(Early)
        <5>1. Backlog["requests"] \in Int /\ 1 \in Int
          BY IdsAreNumbers
        <5> QED BY <5>1, FS_Interval DEF Early
      <4>2. L \in SUBSET Early
        BY <3>5 DEF Later
      <4> QED BY <4>1, <4>2, FS_Subset, FS_CardinalityType
    <3>7. PICK P : P = {<<"requests", j>> : j \in L}
      OBVIOUS
    <3>8. Cardinality(P) = Cardinality(L)
      BY <3>6, <3>7, RowCount
    <3>9. ASSUME NEW j \in L PROVE <<"requests", j>> \in A
      <4>1. j \in Early /\ i < j /\ Stat(j) \in rows
        BY <3>5, <3>9 DEF Later
      <4>2. Request(j) \in rows
        BY <1>1, <2>1, <4>1 DEF Ladder
      <4>3. Request(j) \notin Takes(t)
        BY <1>1, <2>1, <2>2, <4>1 DEF TakesInOrder
      <4>4. Request(j) \in Visible(t)
        BY <1>9, <4>2, <4>3
      <4>5. j > i
        BY <1>10, <2>1, <4>1, <4>2
      <4> QED BY <3>2, <4>4, <4>5 DEF Above, Request
    <3>10. P \in SUBSET A
      BY <3>7, <3>9
    <3>11. Cardinality(P) <= Cardinality(A)
      BY <3>4, <3>10, FS_Subset
    <3>12. Cardinality(L) < MaxRows["requests"]
      BY <3>3, <3>4, <3>6, <3>8, <3>11, IdsAreNumbers
    <3> QED BY <3>5, <3>12
  <2> QED BY <1>4, <1>5, <2>1, <2>3, <2>4
<1> QED BY <1>13, <1>14, <1>15, <1>16 DEF Tidy

\* A statement of the purge that has waited takes what is left of it.
LEMMA PurgeResumes ==
  ASSUME Safe, Sound, Base', NEW t \in LogTasks, Quiet(t), job[t] = "purge", UNCHANGED <<job, next, expired, rows>>,
         Left(t)' = Left(t),
         \A T \in Both : \A i :
           /\ <<T, i>> \in Takes(t)' => <<T, i>> \in Takes(t)
           /\ <<T, i>> \in Takes(t) /\ <<T, i>> \in rows => <<T, i>> \in Takes(t)'
  PROVE  Tidy(t)'
<1>1. /\ t \in LogTasks /\ TakesBoth(t) /\ TakesOld(t) /\ TakesInOrder(t) /\ TakesExcess(t)
      /\ DbTypes /\ Clocks
  BY TaskKinds DEF Sound, Tidy, Safe, Base
<1>2. /\ \A i : Request(i) \in Takes(t)' => Request(i) \in Takes(t)
      /\ \A i : Request(i) \in Takes(t) /\ Request(i) \in rows => Request(i) \in Takes(t)'
      /\ \A i : Stat(i) \in Takes(t)' => Stat(i) \in Takes(t)
  BY DEF Both, Request, Stat
<1>3. TakesBoth(t)'
  <2>1. SUFFICES ASSUME NEW i, Stat(i) \in Takes(t)'
                 PROVE  /\ Given(Stat(i))' /\ \A o \in LogTasks : Stat(i) \notin Pending(o)'
                        /\ Request(i) \in rows => Request(i) \in Takes(t)'
    BY DEF TakesBoth
  <2>2. /\ Given(Stat(i)) /\ \A o \in LogTasks : Stat(i) \notin Pending(o)
        /\ Request(i) \in rows => Request(i) \in Takes(t) /\ Stat(i) \in Takes(t)
    BY <1>1, <1>2, <2>1 DEF TakesBoth
  <2>3. Stat(i) \in LogRows
    <3>1. Stat(i) \in Takes(t)
      BY <1>2, <2>1
    <3> QED BY <1>1, <3>1 DEF Takes, DbTypes, Waiting, Statements
  <2>4. \A m \in Numberings : next[m] <= next'[m]
    BY <1>1 DEF Clocks
  <2>5. Given(Stat(i))' /\ \A o \in LogTasks : Stat(i) \notin Pending(o)'
    BY <1>1, <2>2, <2>3, <2>4, StaysAside
  <2> QED BY <1>2, <2>2, <2>5
<1>4. TakesOld(t)'
  BY <1>1, <1>2 DEF TakesOld
<1>5. TakesInOrder(t)'
  BY <1>1, <1>2 DEF TakesInOrder
<1>6. TakesExcess(t)'
  <2>1. \A i : (Later(i))' = Later(i)
    BY DEF Later
  <2> QED BY <1>1, <1>2, <2>1 DEF TakesExcess
<1> QED BY <1>3, <1>4, <1>5, <1>6 DEF Tidy

-----------------------------------------------------------------------------
(* A statement of any task.                                                *)

\* What an eraser chooses is what it is after.
LEMMA EraserChooses ==
  ASSUME Safe, NEW t \in LogTasks, Busy(t), Head(todo[t]) # Save, job[t] \in Erasers, NEW T, NEW i
  PROVE  <<T, i>> \in Chosen(t, Head(todo[t])) <=>
           <<T, i>> \in rows /\ <<T, i>> \notin del[t] /\ T = Head(todo[t]).table /\ Aims(t, i)
<1>1. Jobs
  BY DEF Safe, Base
<1>2. PICK h : h = Head(todo[t])
  OBVIOUS
<1>3. PICK n : n = Len(todo[t])
  OBVIOUS
<1>4. n > 1
  BY <1>1, <1>3, NotLast
<1>5. Visible(t) = rows \ del[t]
  BY InsertsNothing DEF Erasers, Writers
<1>6. CASE job[t] = "reset"
  <2>1. /\ n \in 1 .. 4
        /\ n = 4 => h = All("requests")
        /\ n = 3 => h = All("request_stats")
        /\ n = 2 => h = All("queue_samples")
    BY <1>1, <1>2, <1>3, <1>6, Heads
  <2>2. n \in {2, 3, 4}
    BY <1>4, <2>1
  <2>3. h.do = "all"
    BY <2>1, <2>2 DEF All
  <2>4. Chosen(t, h) = {r \in Visible(t) : r[1] = h.table}
    BY <2>3, Chooses
  <2> QED BY <1>2, <1>5, <1>6, <2>4 DEF Aims
<1>7. CASE job[t] \in {"delete", "delete_matching"}
  <2>1. /\ n \in 1 .. 3
        /\ n = 3 => h \in {These("requests"), These("request_stats")}
        /\ n = 2 => h \in {These("requests"), These("request_stats")}
    BY <1>1, <1>2, <1>3, <1>7, Heads
  <2>2. n \in {2, 3}
    BY <1>4, <2>1
  <2>3. h.do = "these"
    BY <2>1, <2>2 DEF These
  <2>4. Chosen(t, h) = {r \in Visible(t) : r[1] = h.table /\ r[2] \in ids[t]}
    BY <2>3, Chooses
  <2> QED BY <1>2, <1>5, <1>7, <2>4 DEF Aims
<1> QED BY <1>6, <1>7 DEF Erasers

\* A statement runs or waits, ...
LEMMA Moves ==
  ASSUME Safe, NEW t \in LogTasks, Busy(t), Head(todo[t]) # Save,
         UNCHANGED <<job, ids, next, expired, erased, before>>,
         \/ /\ Execute(t, Upcoming(t)) \/ Resume(t)
            /\ todo' = [todo EXCEPT ![t] = Tail(@)]
         \/ Queue(t, Upcoming(t)) /\ UNCHANGED todo
  PROVE  /\ Base' /\ rows' = rows /\ Quiet(t)
         /\ \/ /\ ~Waiting(t)' /\ Len(todo'[t]) = Len(todo[t]) - 1
               /\ ins'[t] = (ins[t] \cup Upcoming(t).insert) \ Gone(t, Upcoming(t))
            \/ /\ ~Waiting(t) /\ Blocked(t, Upcoming(t)) /\ todo' = todo
<1>1. Base /\ DbTypes /\ Jobs /\ Clocks'
  BY DEF Safe, Base, Clocks
<1>2. PICK n : n = Len(todo[t])
  OBVIOUS
<1>3. /\ Base' /\ rows' = rows /\ Others(t) /\ OtherJobs(t)
      /\ \/ /\ ~Waiting(t)' /\ Len(todo'[t]) = n - 1
            /\ ins'[t] = (ins[t] \cup Upcoming(t).insert) \ Gone(t, Upcoming(t))
         \/ /\ ~Waiting(t) /\ Blocked(t, Upcoming(t)) /\ todo' = todo
  <2>1. CASE (Execute(t, Upcoming(t)) \/ Resume(t)) /\ todo' = [todo EXCEPT ![t] = Tail(@)]
    <3>1. /\ Base' /\ Others(t) /\ OtherJobs(t) /\ ~Waiting(t)'
          /\ Upcoming(t) \in Statements /\ Does(t, Upcoming(t)) /\ Len(todo'[t]) = Len(todo[t]) - 1
      BY <1>1, <2>1, BaseRuns
    <3>2. rows' = rows /\ ins'[t] = (ins[t] \cup Upcoming(t).insert) \ Gone(t, Upcoming(t))
      BY <1>1, <3>1, Changes
    <3> QED BY <1>2, <3>1, <3>2
  <2>2. CASE Queue(t, Upcoming(t)) /\ UNCHANGED todo
    <3>1. Base' /\ Others(t) /\ OtherJobs(t) /\ rows' = rows
      BY <1>1, <2>2, BaseQueues
    <3> QED BY <2>2, <3>1 DEF Queue
  <2> QED BY <2>1, <2>2
<1>4. n \in Nat /\ (job[t] = "insert" => n # 3)
  BY <1>1, <1>2, Working, Means
<1>5. Pending(t)' \subseteq Pending(t)
  <2>1. job'[t] = job[t] /\ ids'[t] = ids[t] /\ (Len(todo'[t]) = n - 1 \/ Len(todo'[t]) = n)
    BY <1>2, <1>3
  <2>2. Len(todo'[t]) >= 3 => n >= 3
    BY <1>4, <2>1
  <2> QED BY <1>2, <2>1, <2>2 DEF Pending
<1>6. Quiet(t)
  BY <1>3, <1>5 DEF Quiet, Committing
<1> QED BY <1>2, <1>3, <1>6

\* ... an insert has the statistics before it commits, ...
LEMMA InsertsWork ==
  ASSUME Safe, Sound, NEW t \in LogTasks, Busy(t), Head(todo[t]) # Save, UNCHANGED <<job, ids>>,
         \/ /\ ~Waiting(t)' /\ Len(todo'[t]) = Len(todo[t]) - 1
            /\ ins'[t] = (ins[t] \cup Upcoming(t).insert) \ Gone(t, Upcoming(t))
         \/ /\ ~Waiting(t) /\ Blocked(t, Upcoming(t)) /\ todo' = todo
  PROVE  Inserts(t)'
<1>1. Base /\ Jobs /\ Own(t) /\ Inserts(t)
  BY DEF Safe, Base, Sound
<1>2. SUFFICES ASSUME job[t] = "insert" PROVE Inserts(t)'
  BY DEF Inserts
<1>3. PICK n : n = Len(todo[t])
  OBVIOUS
<1>4. PICK h : h = Head(todo[t])
  OBVIOUS
<1>5. PICK s : s = Upcoming(t)
  OBVIOUS
<1>6. /\ n \in {2, 4, 5} /\ (n = 5 => h = Insert("requests")) /\ (n = 4 => h = Insert("request_stats"))
  <2>1. n \in 1 .. 5 /\ (n = 5 => h = Insert("requests")) /\ (n = 4 => h = Insert("request_stats"))
    BY <1>1, <1>2, <1>3, <1>4, Heads
  <2>2. n > 1
    BY <1>1, <1>3, NotLast
  <2>3. n # 3
    BY <1>1, <1>2, <1>3, Means
  <2>4. n \in {2, 4, 5}
    BY <2>1, <2>2, <2>3
  <2> QED BY <2>1, <2>4
<1>7. (Waiting(t) => n = 2) /\ (\E i : ids[t] = {i}) /\ \A i \in ids[t] : i > Backlog["requests"]
  BY <1>1, <1>2, <1>3 DEF Inserts
<1>8. Id(t)' = Id(t)
  BY DEF Id
<1>9. Meant(t, s)
  BY <1>1, <1>5, Means DEF Upcoming, Own
<1>10. s.delete = {}
  BY <1>2, <1>9 DEF Meant, Writers
<1>11. ~Waiting(t) =>
         /\ s.insert = IF h.do = "insert" THEN {<<h.table, Id(t)>>} ELSE {}
         /\ s.share = IF h.table = "request_attempts" THEN {Request(Id(t))} ELSE {}
  BY <1>4, <1>5, Parts DEF Upcoming
<1>12. CASE ~Waiting(t)' /\ Len(todo'[t]) = n - 1 /\ ins'[t] = (ins[t] \cup s.insert) \ Gone(t, s)
  <2>1. ASSUME n - 1 = 3 PROVE Stat(Id(t)) \in ins'[t]
    <3>1. n = 4 /\ ~Waiting(t)
      BY <1>6, <1>7, <2>1
    <3>2. h.do = "insert" /\ h.table = "request_stats"
      BY <1>6, <3>1 DEF Insert
    <3>3. s.insert = {Stat(Id(t))}
      BY <1>11, <3>1, <3>2 DEF Stat
    <3>4. Gone(t, s) = {}
      BY <1>10, Goes
    <3> QED BY <1>12, <3>3, <3>4
  <2> QED BY <1>7, <1>8, <1>12, <2>1 DEF Inserts
<1>13. CASE ~Waiting(t) /\ Blocked(t, s) /\ todo' = todo
  <2>1. s.share # {}
    BY <1>10, <1>13 DEF Blocked, Blocks
  <2>2. h.table = "request_attempts"
    BY <1>11, <1>13, <2>1
  <2>3. n = 2
    BY <1>6, <2>2 DEF Insert
  <2>4. Len(todo'[t]) = 2
    BY <1>3, <1>13, <2>3
  <2> QED BY <1>7, <2>4 DEF Inserts
<1> QED BY <1>3, <1>5, <1>12, <1>13

\* ... and an eraser takes of the table what is there.
LEMMA EraserWorks ==
  ASSUME Safe, Sound, NEW t \in LogTasks, Busy(t), Head(todo[t]) # Save,
         UNCHANGED <<job, ids, next, expired, erased, before>>,
         \/ /\ Execute(t, Upcoming(t)) \/ Resume(t)
            /\ todo' = [todo EXCEPT ![t] = Tail(@)]
         \/ Queue(t, Upcoming(t)) /\ UNCHANGED todo
  PROVE  Sweeping(t)'
<1>1. Base /\ Sweeping(t)
  BY DEF Safe, Sound
<1>2. SUFFICES ASSUME job[t] \in Erasers PROVE Sweeping(t)'
  BY DEF Sweeping
<1>3. \A i : Aims(t, i)' = Aims(t, i)
  BY DEF Aims
<1>4. CASE ~Waiting(t)
  <2>1. /\ rows' = rows /\ Left(t)' = Left(t) - 1 /\ Left(t) = Len(todo[t])
        /\ \A T \in Both : \A i :
             <<T, i>> \in Takes(t)' <=> <<T, i>> \in Takes(t) \/ <<T, i>> \in Chosen(t, Head(todo[t]))
    BY <1>1, <1>4, SendTakes
  <2>2. Takes(t) = del[t]
    BY <1>4 DEF Takes
  <2>3. ASSUME NEW T \in Both, NEW i
        PROVE  /\ <<T, i>> \in Takes(t)' => Aims(t, i)
               /\ <<T, i>> \in rows /\ Aims(t, i) /\ Passed(job[t], Left(t) - 1, T) => <<T, i>> \in Takes(t)'
    <3>1. <<T, i>> \in Chosen(t, Head(todo[t])) <=>
            <<T, i>> \in rows /\ <<T, i>> \notin del[t] /\ T = Head(todo[t]).table /\ Aims(t, i)
      BY <1>2, EraserChooses
    <3>2. Passed(job[t], Left(t) - 1, T) => Passed(job[t], Left(t), T) \/ T = Head(todo[t]).table
      BY <1>1, <2>1, Means
    <3>3. /\ <<T, i>> \in Takes(t) => Aims(t, i)
          /\ <<T, i>> \in rows /\ Aims(t, i) /\ Passed(job[t], Left(t), T) => <<T, i>> \in Takes(t)
      BY <1>1, <1>2 DEF Sweeping
    <3> QED BY <2>1, <2>2, <3>1, <3>2, <3>3
  <2> QED BY <1>3, <2>1, <2>3 DEF Sweeping
<1>5. CASE Waiting(t)
  <2>1. (Execute(t, Upcoming(t)) \/ Resume(t)) /\ todo' = [todo EXCEPT ![t] = Tail(@)]
    BY <1>5 DEF Queue
  <2>2. /\ rows' = rows /\ Left(t)' = Left(t)
        /\ \A T \in Both : \A i :
             /\ <<T, i>> \in Takes(t)' => <<T, i>> \in Takes(t)
             /\ <<T, i>> \in Takes(t) /\ <<T, i>> \in rows => <<T, i>> \in Takes(t)'
    BY <1>1, <1>5, <2>1, ResumeTakes
  <2> QED BY <1>1, <1>3, <2>2 DEF Sweeping
<1> QED BY <1>4, <1>5

\* The payloads are found as before.
LEMMA SoundMoves ==
  ASSUME PurgeKeepsUp, Safe, Sound, NEW t \in LogTasks, Busy(t), Head(todo[t]) # Save,
         UNCHANGED <<job, ids, next, expired, erased, before>>,
         \/ /\ Execute(t, Upcoming(t)) \/ Resume(t)
            /\ todo' = [todo EXCEPT ![t] = Tail(@)]
         \/ Queue(t, Upcoming(t)) /\ UNCHANGED todo
  PROVE  Sound'
<1>1. Base /\ Clocks /\ Ages /\ Paired /\ Ladder
  BY DEF Safe, Sound, Base
<1>2. /\ Base' /\ rows' = rows /\ Quiet(t)
      /\ \/ /\ ~Waiting(t)' /\ Len(todo'[t]) = Len(todo[t]) - 1
            /\ ins'[t] = (ins[t] \cup Upcoming(t).insert) \ Gone(t, Upcoming(t))
         \/ /\ ~Waiting(t) /\ Blocked(t, Upcoming(t)) /\ todo' = todo
  BY Moves
<1>3. Inserts(t)'
  BY <1>2, InsertsWork
<1>4. Sweeping(t)'
  BY EraserWorks
<1>5. Tidy(t)'
  <2>1. SUFFICES ASSUME job[t] = "purge" PROVE Tidy(t)'
    BY DEF Tidy
  <2>2. UNCHANGED <<job, next, expired, rows>>
    BY <1>2
  <2>3. CASE ~Waiting(t)
    <3>1. /\ Left(t)' = Left(t) - 1 /\ Left(t) = Len(todo[t])
          /\ \A T \in Both : \A i :
               <<T, i>> \in Takes(t)' <=> <<T, i>> \in Takes(t) \/ <<T, i>> \in Chosen(t, Head(todo[t]))
      BY <1>1, <2>3, SendTakes
    <3> QED BY <1>2, <2>1, <2>2, <2>3, <3>1, PurgeSends
  <2>4. CASE Waiting(t)
    <3>1. (Execute(t, Upcoming(t)) \/ Resume(t)) /\ todo' = [todo EXCEPT ![t] = Tail(@)]
      BY <2>4 DEF Queue
    <3>2. /\ Left(t)' = Left(t)
          /\ \A T \in Both : \A i :
               /\ <<T, i>> \in Takes(t)' => <<T, i>> \in Takes(t)
               /\ <<T, i>> \in Takes(t) /\ <<T, i>> \in rows => <<T, i>> \in Takes(t)'
      BY <1>1, <2>4, <3>1, ResumeTakes
    <3> QED BY <1>2, <2>1, <2>2, <3>2, PurgeResumes
  <2> QED BY <2>3, <2>4
<1>6. Ages' /\ Paired' /\ Ladder'
  BY <1>1, <1>2 DEF Ages, Paired, Ladder
<1>7. \A m \in Numberings : next[m] <= next'[m]
  BY <1>1 DEF Clocks
<1> QED BY <1>2, <1>3, <1>4, <1>5, <1>6, <1>7, SoundTogether

-----------------------------------------------------------------------------
(* Commits, failures and new jobs.                                         *)

\* A commit stores payloads with their statistics, or erases them with these.
LEMMA SoundFinish ==
  ASSUME PurgeKeepsUp, Safe, Sound, NEW t \in LogTasks, Finish(t), ~raced'
  PROVE  Sound'
<1>1. /\ Base /\ Jobs /\ DbTypes /\ Clocks /\ Ages /\ Paired /\ Ladder /\ Own(t) /\ Inserts(t) /\ Sweeping(t)
      /\ Connected(t)
  BY DEF Safe, Base, Sound
<1>2. /\ Base' /\ Others(t) /\ OtherJobs(t) /\ ~Waiting(t)' /\ rows' = Visible(t) /\ before' = before
      /\ \/ /\ Len(todo[t]) > 1 /\ Len(todo'[t]) = Len(todo[t]) - 1 /\ job' = job /\ ids' = ids
         \/ /\ Len(todo[t]) = 1 /\ job'[t] \in Resting
  BY <1>1, BaseFinish
<1>3. Busy(t) /\ Head(todo[t]) = Save /\ next' = next /\ expired' = expired
  BY DEF Finish
<1>4. PICK n : n = Len(todo[t])
  OBVIOUS
<1>5. /\ n \in {1, 3} /\ (n = 3 => job[t] = "insert") /\ job[t] \in Kinds
      /\ n = 3 => Len(todo'[t]) = 2 /\ job'[t] = job[t] /\ ids'[t] = ids[t]
      /\ n = 1 => job'[t] \in Resting
  <2>1. n > 1 => job[t] = "insert" /\ n = 3
    BY <1>1, <1>3, <1>4, Saves
  <2>2. (n > 1 /\ Len(todo'[t]) = n - 1 /\ job' = job /\ ids' = ids) \/ (n = 1 /\ job'[t] \in Resting)
    BY <1>2, <1>4
  <2>3. job[t] \in Kinds
    BY <1>1, <1>3, Working
  <2>4. CASE n = 1
    <3>1. job'[t] \in Resting
      BY <2>2, <2>4
    <3> QED BY <2>3, <2>4, <3>1
  <2>5. CASE n # 1
    <3>1. n > 1 /\ Len(todo'[t]) = n - 1 /\ job' = job /\ ids' = ids
      BY <2>2, <2>5
    <3>2. n = 3 /\ job[t] = "insert"
      BY <2>1, <3>1
    <3>3. Len(todo'[t]) = 2
      BY <3>1, <3>2
    <3> QED BY <2>3, <3>1, <3>2, <3>3
  <2> QED BY <2>4, <2>5
<1>6. ~Waiting(t) /\ Takes(t) = del[t] /\ Left(t) = n
  <2>1. ~Waiting(t)
    BY <1>1, <1>3 DEF Connected
  <2> QED BY <1>4, <2>1 DEF Takes, Left
<1>7. /\ rows' = (rows \cup ins[t]) \ del[t] /\ ins[t] \subseteq Inserting(t)
      /\ job[t] \in Writers => del[t] = {}
      /\ job[t] \notin Writers => ins[t] = {}
  BY <1>1, <1>2, <1>3, Pends DEF Own, Visible
<1>8. Quiet(t)
  <2>1. Committing(t)
    BY <1>2, <1>3 DEF Committing
  <2>2. job[t] = "insert" => \A o \in LogTasks : job[o] # "reset"
    <3>1. job[t] = "insert" => \A o \in Handlers : job[o] # "reset"
      BY DEF Finish
    <3> QED BY <1>1, <3>1, TaskKinds DEF Jobs
  <2>3. Pending(t)' \subseteq Pending(t)
    <3>1. CASE n = 3
      BY <1>4, <1>5, <3>1 DEF Pending
    <3>2. CASE n = 1
      <4>1. job'[t] \notin Writers
        BY <1>5, <3>2 DEF Resting, Writers
      <4>2. Pending(t)' = {}
        BY <4>1 DEF Pending, Writers
      <4> QED BY <4>2
    <3> QED BY <1>5, <3>1, <3>2
  <2> QED BY <1>2, <2>1, <2>2, <2>3 DEF Quiet
<1>9. Inserts(t)' /\ Sweeping(t)' /\ Tidy(t)'
  <2>1. CASE n = 3
    <3>1. job'[t] = "insert"
      BY <1>1, <1>5, <2>1 DEF Jobs
    <3>2. (\E i : ids[t] = {i}) /\ \A i \in ids[t] : i > Backlog["requests"]
      BY <1>1, <1>5, <2>1 DEF Inserts
    <3>3. Len(todo'[t]) # 3 /\ ids'[t] = ids[t] /\ ~Waiting(t)'
      <4>1. PICK m : m = Len(todo'[t])
        OBVIOUS
      <4>2. m = 2 /\ ids'[t] = ids[t]
        BY <1>5, <2>1, <4>1
      <4>3. m # 3
        BY <4>2
      <4> QED BY <1>2, <4>1, <4>2, <4>3
    <3>4. Inserts(t)'
      BY <3>2, <3>3 DEF Inserts
    <3> QED BY <3>1, <3>4 DEF Sweeping, Erasers, Tidy
  <2>2. CASE n = 1
    BY <1>5, <2>2 DEF Resting, Inserts, Sweeping, Erasers, Tidy
  <2> QED BY <1>5, <2>1, <2>2
<1>10. Paired'
  <2>1. SUFFICES ASSUME NEW i, Request(i) \in rows' PROVE Stat(i) \in rows'
    BY DEF Paired
  <2>2. CASE job[t] = "insert"
    <3>1. CASE Request(i) \in rows
      BY <1>1, <1>7, <2>2, <3>1 DEF Paired, Writers
    <3>2. CASE Request(i) \in ins[t]
      <4>1. Request(i) \in Inserting(t)
        BY <1>7, <3>2
      <4>2. i \in ids[t] /\ Len(todo[t]) >= 3
        BY <2>2, <4>1 DEF Inserting, Request
      <4>3. n = 3
        <5>1. n >= 3
          BY <1>4, <4>2
        <5> QED BY <1>5, <5>1
      <4>4. Stat(Id(t)) \in ins[t] /\ Id(t) = i
        BY <1>1, <1>4, <2>2, <4>2, <4>3 DEF Inserts, Id
      <4> QED BY <1>7, <2>2, <4>4 DEF Writers
    <3> QED BY <1>7, <2>1, <3>1, <3>2
  <2>3. CASE job[t] = "sample"
    <3>1. Request(i) \notin Inserting(t)
      BY <2>3 DEF Inserting, Request
    <3> QED BY <1>1, <1>7, <2>1, <2>3, <3>1 DEF Paired, Writers
  <2>4. CASE job[t] \in Erasers
    <3>1. n = 1 /\ ins[t] = {}
      BY <1>5, <1>7, <2>4 DEF Erasers, Writers
    <3>2. Request(i) \in rows /\ Request(i) \notin Takes(t)
      BY <1>6, <1>7, <2>1, <3>1
    <3>3. Passed(job[t], Left(t), "requests")
      BY <1>6, <2>4, <3>1 DEF Passed, Erasers
    <3>4. ~Aims(t, i)
      BY <1>1, <2>4, <3>2, <3>3 DEF Sweeping, Both, Request
    <3>5. Stat(i) \notin Takes(t)
      BY <1>1, <2>4, <3>4 DEF Sweeping, Both, Stat
    <3> QED BY <1>1, <1>6, <1>7, <3>1, <3>2, <3>5 DEF Paired
  <2>5. CASE job[t] = "purge"
    <3>1. ins[t] = {}
      BY <1>7, <2>5 DEF Writers
    <3>2. TakesBoth(t)
      BY <2>5 DEF Sound, Tidy
    <3>3. Request(i) \in rows /\ Request(i) \notin Takes(t)
      BY <1>6, <1>7, <2>1, <3>1
    <3>4. Stat(i) \notin Takes(t)
      BY <3>2, <3>3 DEF TakesBoth
    <3> QED BY <1>1, <1>6, <1>7, <3>3, <3>4 DEF Paired
  <2> QED BY <1>5, <2>2, <2>3, <2>4, <2>5 DEF Kinds, Erasers
<1>11. Ladder'
  <2>1. SUFFICES ASSUME Prompt, NEW i \in Early, NEW j \in Early, i < j, Request(i) \in rows', Stat(j) \in rows'
                 PROVE  Request(j) \in rows'
    BY DEF Ladder
  <2>2. Request(i) \in rows /\ Stat(j) \in rows
    <3>1. \A T \in Both : \A k \in Early : <<T, k>> \in rows' => <<T, k>> \in rows
      BY <1>1, <1>8, NoneReturns DEF Quiet
    <3> QED BY <2>1, <3>1 DEF Both, Request, Stat
  <2>3. Request(j) \in rows
    BY <1>1, <2>1, <2>2 DEF Ladder
  <2>4. SUFFICES ASSUME Request(j) \in Takes(t) PROVE FALSE
    BY <1>6, <1>7, <2>3
  <2>5. job[t] \notin Writers
    BY <1>6, <1>7, <2>4
  <2>6. Request(i) \notin Takes(t) /\ Stat(j) \notin Takes(t)
    BY <1>6, <1>7, <2>1
  <2>7. CASE job[t] \in Erasers
    <3>1. Aims(t, j)
      BY <1>1, <2>4, <2>7 DEF Sweeping, Both, Request
    <3>2. n = 1
      BY <1>5, <2>7 DEF Erasers
    <3>3. Passed(job[t], Left(t), "request_stats")
      BY <1>6, <2>7, <3>2 DEF Passed, Erasers
    <3> QED BY <1>1, <2>2, <2>6, <2>7, <3>1, <3>3 DEF Sweeping, Both, Stat
  <2>8. CASE job[t] = "purge"
    <3>1. TakesInOrder(t)
      BY <2>8 DEF Sound, Tidy
    <3> QED BY <2>1, <2>2, <2>4, <2>6, <3>1 DEF TakesInOrder
  <2> QED BY <1>5, <2>5, <2>7, <2>8 DEF Kinds, Erasers, Writers
<1>12. Ages'
  BY <1>1, <1>3 DEF Ages
<1>13. \A m \in Numberings : next[m] <= next'[m]
  BY <1>1, <1>3 DEF Clocks
<1> QED BY <1>2, <1>3, <1>8, <1>9, <1>10, <1>11, <1>12, <1>13, SoundTogether

\* A job that is over leaves everything in place.
LEMMA SoundEnds ==
  ASSUME PurgeKeepsUp, Safe, Sound, Base', NEW t \in LogTasks, Others(t), OtherJobs(t), job'[t] \in Resting,
         UNCHANGED <<rows, next, expired, erased, before>>
  PROVE  Sound'
<1>1. Clocks /\ Ages /\ Paired /\ Ladder
  BY DEF Safe, Base, Sound
<1>2. Inserts(t)' /\ Sweeping(t)' /\ Tidy(t)'
  BY DEF Resting, Inserts, Sweeping, Erasers, Tidy
<1>3. Quiet(t)
  <2>1. job'[t] \notin Writers
    BY DEF Resting, Writers
  <2>2. Pending(t)' = {}
    BY <2>1 DEF Pending, Writers
  <2> QED BY <2>2 DEF Quiet, Committing
<1>4. Ages' /\ Paired' /\ Ladder'
  BY <1>1 DEF Ages, Paired, Ladder
<1>5. \A m \in Numberings : next[m] <= next'[m]
  BY <1>1 DEF Clocks
<1> QED BY <1>2, <1>3, <1>4, <1>5, SoundTogether

\* A job that begins has taken nothing.
LEMMA SoundBegins ==
  ASSUME PurgeKeepsUp, Safe, Sound, Base', NEW t \in LogTasks, NEW kind \in Kinds, NEW about \in SUBSET Ids,
         job[t] = "idle", Set(t, kind, about), Others(t), OtherJobs(t),
         rows' = rows, expired' = expired, UNCHANGED <<wants, ins, del>>,
         \A n \in Numberings : next[n] <= next'[n],
         \A o \in LogTasks \ {t} : before'[o] = before[o],
         kind = "insert" => \E i : about = {i} /\ i > next["requests"],
         kind = "sample" => \A i \in about : i > next["queue_samples"]
  PROVE  Sound'
<1>1. /\ Base /\ Jobs /\ DbTypes /\ Clocks /\ Connected(t) /\ Own(t) /\ Ages /\ Paired /\ Ladder
  BY DEF Safe, Base, Sound
<1>2. ~Holding(t) /\ ~Waiting(t)
  <2>1. ~Busy(t)
    BY <1>1, Working DEF Resting
  <2> QED BY <1>1, <2>1 DEF Connected
<1>3. ~Waiting(t)' /\ del'[t] = {}
  BY <1>1, <1>2 DEF Own, Waiting
<1>4. job'[t] = kind /\ ids'[t] = about /\ todo'[t] = Program(kind)
  BY <1>1 DEF Set, Jobs
<1>5. Takes(t)' = {} /\ Left(t)' = Len(Program(kind))
  BY <1>3, <1>4 DEF Takes, Left
<1>6. next["requests"] \in Nat /\ next["queue_samples"] \in Nat /\ Backlog["requests"] <= next["requests"]
      /\ next'["requests"] >= next["requests"] /\ next'["requests"] \in Nat
  BY <1>1 DEF Clocks, Numberings, Ages, Base
<1>7. Inserts(t)'
  <2>1. SUFFICES ASSUME kind = "insert" PROVE Inserts(t)'
    BY <1>4 DEF Inserts
  <2>2. PICK i : about = {i} /\ i > next["requests"]
    BY <2>1
  <2>3. i \in Nat
    BY <2>2, IdsAreNumbers
  <2>4. i > Backlog["requests"]
    BY <1>6, <2>2, <2>3, IdsAreNumbers
  <2>5. Len(todo'[t]) = 5
    BY <1>4, <2>1, Programs
  <2> QED BY <1>3, <1>4, <2>2, <2>4, <2>5 DEF Inserts
<1>8. Sweeping(t)'
  <2>1. ASSUME kind \in Erasers, NEW T PROVE ~Passed(kind, Len(Program(kind)), T)
    <3>1. CASE kind = "reset"
      BY <3>1, Programs DEF Passed
    <3>2. CASE kind \in {"delete", "delete_matching"}
      BY <3>2, Programs DEF Passed
    <3> QED BY <2>1, <3>1, <3>2 DEF Erasers
  <2> QED BY <1>4, <1>5, <2>1 DEF Sweeping
<1>9. Tidy(t)'
  <2>1. SUFFICES ASSUME kind = "purge" PROVE Tidy(t)'
    BY <1>4 DEF Tidy
  <2>2. Takes(t)' = {} /\ Left(t)' = 7
    BY <1>5, <2>1, Programs
  <2>3. TakesBoth(t)' /\ TakesInOrder(t)'
    BY <2>2 DEF TakesBoth, TakesInOrder
  <2>4. TakesOld(t)' /\ TakesExcess(t)'
    BY <2>2 DEF TakesOld, TakesExcess
  <2> QED BY <2>3, <2>4 DEF Tidy
<1>10. Quiet(t)
  <2>1. ASSUME NEW r \in Pending(t)' PROVE ~Given(r)
    <3>1. /\ r \in LogRows /\ r[2] \in about /\ kind \in Writers
          /\ kind = "insert" => r[1] \in {"requests", "request_stats", "request_attempts"}
          /\ kind = "sample" => r[1] = "queue_samples"
      BY <1>4, <2>1 DEF Pending, Writers
    <3>2. Numbered(r[1]) = IF kind = "insert" THEN "requests" ELSE "queue_samples"
      BY <3>1 DEF Numbered, Writers
    <3>3. r[2] > next[Numbered(r[1])]
      BY <3>1, <3>2 DEF Writers
    <3>4. r[2] \in Nat /\ next[Numbered(r[1])] \in Nat
      BY <1>6, <3>1, <3>2, IdsAreNumbers
    <3> QED BY <3>3, <3>4 DEF Given
  <2> QED BY <2>1 DEF Quiet, Committing
<1>11. Ages' /\ Paired' /\ Ladder'
  BY <1>1, <1>6, IdsAreNumbers DEF Ages, Paired, Ladder
<1> QED BY <1>7, <1>8, <1>9, <1>10, <1>11, SoundTogether

\* A job that starts keeps the payloads found.
LEMMA SoundStarts ==
  ASSUME PurgeKeepsUp, Safe, Sound, Base', (\E t \in Handlers : Begins(t)) \/ BeginSample \/ BeginPurge(purger)
  PROVE  Sound'
<1>1. CASE \E t \in Takers : BeginPurge(t) /\ Skips(t)
  <2>1. PICK t \in Takers : BeginPurge(t) /\ Skips(t)
    BY <1>1
  <2>2. /\ Others(t) /\ OtherJobs(t) /\ job'[t] \in Resting /\ t \in LogTasks
        /\ UNCHANGED <<rows, next, expired, erased, before>>
    BY <2>1, BaseBeginPurge DEF Safe, Skips, database
  <2> QED BY <2>2, SoundEnds
<1>2. ASSUME NEW t \in LogTasks, NEW kind \in Kinds, NEW about \in SUBSET Ids, Begun(t, kind, about)
      PROVE  Sound'
  <2>1. /\ job[t] = "idle" /\ Set(t, kind, about) /\ Others(t) /\ OtherJobs(t)
        /\ rows' = rows /\ expired' = expired /\ UNCHANGED <<wants, ins, del>>
        /\ \A n \in Numberings : next[n] <= next'[n]
        /\ \A o \in LogTasks \ {t} : before'[o] = before[o]
    BY <1>2 DEF Begun
  <2>2. /\ kind = "insert" => \E i : about = {i} /\ i > next["requests"]
        /\ kind = "sample" => \A i \in about : i > next["queue_samples"]
    BY <1>2 DEF Begun
  <2> QED BY <2>1, <2>2, SoundBegins
<1> QED BY <1>1, <1>2, Starts DEF Safe

\* Time that passes, but for the purge, changes the ages only.
LEMMA SoundStill ==
  ASSUME Sound, UNCHANGED <<database, job, ids, todo, next>>, Ages',
         \A t \in LogTasks : job[t] = "purge" => expired' = expired
  PROVE  Sound'
<1>1. /\ rows' = rows /\ wants' = wants /\ ins' = ins /\ del' = del /\ job' = job /\ ids' = ids /\ todo' = todo
      /\ next' = next
  BY DEF database
<1>2. \A t : /\ Takes(t)' = Takes(t) /\ Left(t)' = Left(t) /\ Waiting(t)' = Waiting(t)
             /\ Pending(t)' = Pending(t) /\ Id(t)' = Id(t)
  BY <1>1 DEF Takes, Left, Waiting, Pending, Id
<1>3. (\A t, i : Aims(t, i)' = Aims(t, i)) /\ (\A i : (Later(i))' = Later(i)) /\ \A r : Given(r)' = Given(r)
  BY <1>1 DEF Aims, Later, Given
<1>4. ASSUME NEW t \in LogTasks PROVE Inserts(t)' /\ Sweeping(t)'
  <2>1. Inserts(t) /\ Sweeping(t)
    BY DEF Sound
  <2>2. Inserts(t)'
    BY <1>1, <1>2, <2>1 DEF Inserts
  <2>3. Sweeping(t)'
    BY <1>1, <1>2, <1>3, <2>1 DEF Sweeping
  <2> QED BY <2>2, <2>3
<1>5. ASSUME NEW p \in LogTasks PROVE Tidy(p)'
  <2>1. SUFFICES ASSUME job[p] = "purge" PROVE (TakesBoth(p) /\ TakesOld(p) /\ TakesInOrder(p) /\ TakesExcess(p))'
    BY <1>1 DEF Tidy
  <2>2. TakesBoth(p) /\ TakesOld(p) /\ TakesInOrder(p) /\ TakesExcess(p) /\ expired' = expired
    BY <2>1 DEF Sound, Tidy
  <2>3. TakesBoth(p)'
    BY <1>1, <1>2, <1>3, <2>2 DEF TakesBoth
  <2>4. TakesOld(p)'
    BY <1>1, <1>2, <2>2 DEF TakesOld
  <2>5. TakesInOrder(p)'
    BY <1>1, <1>2, <2>2 DEF TakesInOrder
  <2>6. TakesExcess(p)'
    BY <1>1, <1>2, <1>3, <2>2 DEF TakesExcess
  <2> QED BY <2>3, <2>4, <2>5, <2>6
<1>6. Paired' /\ Ladder'
  BY <1>1 DEF Sound, Paired, Ladder
<1> QED BY <1>4, <1>5, <1>6 DEF Sound

\* Statistics that have not expired before a payload still have not.
LEMMA AgesExpire ==
  ASSUME Base, Ages, NEW T \in Tables, Expire(T), ~overtaken'
  PROVE  Ages'
<1>1. ~(expired'["request_stats"] > expired'["requests"]) /\ next' = next
  BY DEF Expire
<1>2. expired' = [expired EXCEPT ![T] = @ + 1] /\ expired \in [Tables -> Nat]
  BY DEF Expire, Base, Clocks
<1>3. expired'["request_stats"] \in Nat /\ expired'["requests"] \in Nat
  BY <1>2 DEF Tables
<1> QED BY <1>1, <1>3 DEF Ages

\* Until a request is logged during a reset, or statistics expire before their
\* payloads, a purge that keeps up leaves the payloads found.
Findable == PurgeKeepsUp /\ ~raced /\ ~overtaken => Sound

\* They are found at first.
LEMMA FindableInit == Init => Findable
<1> SUFFICES ASSUME Init PROVE Sound
  BY DEF Findable
<1>1. /\ job = [t \in LogTasks |-> "idle"] /\ next = Backlog /\ expired = [T \in Tables |-> 0]
      /\ rows = {r \in LogRows : r[1] \in Tables /\ r[2] <= Backlog[Numbered(r[1])]}
  BY DEF Init, Connect
<1>2. Ages
  BY <1>1, IdsAreNumbers DEF Ages
<1>3. \A i : Request(i) \in rows <=> Stat(i) \in rows
  <2>1. ASSUME NEW i PROVE Request(i) \in LogRows <=> Stat(i) \in LogRows
    BY DEF LogRows, Request, Stat, Tables
  <2>2. ASSUME NEW i
        PROVE  /\ Request(i)[1] = "requests" /\ Request(i)[2] = i /\ Numbered("requests") = "requests"
               /\ Stat(i)[1] = "request_stats" /\ Stat(i)[2] = i /\ Numbered("request_stats") = "requests"
    BY DEF Request, Stat, Numbered
  <2> QED BY <1>1, <2>1, <2>2, IdsAreNumbers
<1>4. Paired /\ Ladder
  BY <1>3 DEF Paired, Ladder
<1>5. \A t \in LogTasks : job[t] = "idle"
  BY <1>1
<1>6. \A t \in LogTasks : Inserts(t) /\ Sweeping(t) /\ Tidy(t)
  BY <1>5 DEF Tidy, Inserts, Sweeping, Erasers
<1> QED BY <1>2, <1>4, <1>6 DEF Sound

\* What has happened, has.
LEMMA HistoryStays ==
  ASSUME Base, [Next]_vars
  PROVE  (raced => raced') /\ (overtaken => overtaken')
<1>1. ASSUME NEW t \in Handlers, Begins(t) \/ Disconnect(t) \/ EndTask(t)
      PROVE  raced' = raced /\ overtaken' = overtaken
  BY <1>1 DEF Begins, BeginInsert, BeginDelete, BeginDeleteMatching, BeginReset, BeginPurge, Disconnect, EndTask,
              Aside
<1>2. ASSUME NEW t \in LogTasks, Works(t) \/ Fail(t)
      PROVE  (raced => raced') /\ overtaken' = overtaken
  <2>1. CASE Send(t) \/ Reject(t) \/ Fail(t)
    BY <2>1 DEF Send, Reject, Fail, Aside
  <2>2. CASE Finish(t)
    <3>1. /\ raced' = (raced \/ (job[t] = "insert" /\ \E o \in Handlers : job[o] = "reset"))
          /\ overtaken' = overtaken
      BY <2>2 DEF Finish
    <3> QED BY <3>1, Zenon
  <2> QED BY <1>2, <2>1, <2>2 DEF Works
<1>3. ASSUME BeginSample \/ BeginPurge(purger) PROVE raced' = raced /\ overtaken' = overtaken
  BY <1>3 DEF BeginSample, BeginPurge, Aside
<1>4. ASSUME NEW T \in Tables, Expire(T) PROVE raced' = raced /\ (overtaken => overtaken')
  <2>1. raced' = raced /\ overtaken' = (overtaken \/ expired'["request_stats"] > expired'["requests"])
    BY <1>4 DEF Expire
  <2> QED BY <2>1, Zenon
<1>5. CASE UNCHANGED vars
  BY <1>5 DEF vars
<1> QED BY <1>1, <1>2, <1>3, <1>4, <1>5 DEF Next

\* Every step.
LEMMA FindableNext == Safe /\ Findable /\ [Next]_vars => Findable'
<1> SUFFICES ASSUME Safe, Findable, [Next]_vars, PurgeKeepsUp, ~raced', ~overtaken' PROVE Sound'
  BY DEF Findable, PurgeKeepsUp
<1>1. Base /\ Base'
  BY BaseNext DEF Safe
<1>2. Sound /\ Ages
  BY <1>1, HistoryStays DEF Findable, Sound
<1>3. ASSUME NEW t \in LogTasks, Over(t, "failed"), UNCHANGED <<next, expired, erased, before>>,
             \/ Head(todo[t]) = Save /\ Busy(t) /\ CommitFails(t)
             \/ Head(todo[t]) # Save /\ Busy(t) /\ Throws(t)
             \/ t \in Handlers /\ Cancelled(t)
      PROVE  Sound'
  <2>1. Others(t) /\ OtherJobs(t) /\ job'[t] \in Resting /\ rows' = rows
    BY <1>1, <1>3, BaseFails
  <2> QED BY <1>1, <1>2, <1>3, <2>1, SoundEnds
<1>4. ASSUME NEW t \in Handlers, Disconnect(t) PROVE Sound'
  <2>1. /\ Over(t, "failed") /\ Cancelled(t) /\ UNCHANGED <<next, expired, erased, before>>
        /\ t \in LogTasks
    BY <1>4, TaskKinds DEF Disconnect, Aside
  <2> QED BY <1>3, <2>1
<1>5. ASSUME NEW t \in LogTasks, Works(t) \/ Fail(t) PROVE Sound'
  BY <1>1, <1>2, <1>3, <1>5, WorkSteps, SoundMoves, SoundFinish
<1>6. ASSUME NEW t \in Handlers, EndTask(t) PROVE Sound'
  <2>1. Others(t) /\ rows' = rows /\ t \in LogTasks
    BY <1>1, <1>6, BaseEndTask, TaskKinds
  <2>2. job[t] \in {"done", "failed"} /\ UNCHANGED <<job, ids, todo, next, expired, erased, before>>
    BY <1>6 DEF EndTask, Aside
  <2>3. OtherJobs(t) /\ job'[t] \in Resting
    BY <2>2 DEF OtherJobs, Resting
  <2> QED BY <1>1, <1>2, <2>1, <2>2, <2>3, SoundEnds
<1>7. ASSUME NEW T \in Tables, Expire(T) PROVE Sound'
  <2>1. UNCHANGED <<database, job, ids, todo, next>> /\ \A t \in LogTasks : job[t] # "purge"
    BY <1>7 DEF Expire, Purging
  <2>2. Ages'
    BY <1>1, <1>2, <1>7, AgesExpire
  <2> QED BY <1>2, <2>1, <2>2, SoundStill
<1>8. CASE UNCHANGED vars
  <2>1. UNCHANGED <<database, job, ids, todo, next, expired>>
    BY <1>8 DEF vars
  <2>2. Ages'
    BY <1>2, <2>1 DEF Ages
  <2> QED BY <1>2, <2>1, <2>2, SoundStill
<1>9. CASE (\E t \in Handlers : Begins(t)) \/ BeginSample \/ BeginPurge(purger)
  BY <1>1, <1>2, <1>9, SoundStarts
<1> QED BY <1>4, <1>5, <1>6, <1>7, <1>8, <1>9 DEF Next

\* Every payload can be found: no attempt is without its request and, unless
\* a request was logged during a reset, the settings let statistics expire
\* before payloads, or the purge falls behind, no payload without its
\* statistics, whatever purges, deletions, resets, rejected statements and
\* failures run beside the inserts, and for any sizes of the tables.
THEOREM PayloadsAlwaysFindable == Spec => []PayloadsFindable
<1>1. Safe /\ Findable => PayloadsFindable
  <2> SUFFICES ASSUME Safe, Findable PROVE PayloadsFindable
    OBVIOUS
  <2>1. \A r \in rows : r = <<r[1], r[2]>>
    BY DEF Safe, Base, DbTypes, LogRows
  <2>2. /\ {r[2] : r \in Of("request_attempts", rows)} \subseteq {r[2] : r \in Of("requests", rows)}
    <3>1. ASSUME NEW r \in rows, r[1] = "request_attempts"
          PROVE  \E q \in Of("requests", rows) : q[2] = r[2]
      <4>1. r = Attempt(r[2])
        BY <2>1, <3>1 DEF Attempt
      <4>2. Request(r[2]) \in rows
        BY <3>1, <4>1 DEF Safe, Stored
      <4> QED BY <4>2 DEF Of, Request
    <3> QED BY <3>1 DEF Of
  <2>3. ASSUME PurgeKeepsUp, ~raced, ~overtaken
        PROVE  {r[2] : r \in Of("requests", rows)} \subseteq {r[2] : r \in Of("request_stats", rows)}
    <3>1. Paired
      BY <2>3 DEF Findable, Sound
    <3>2. ASSUME NEW r \in rows, r[1] = "requests"
          PROVE  \E q \in Of("request_stats", rows) : q[2] = r[2]
      <4>1. r = Request(r[2])
        BY <2>1, <3>2 DEF Request
      <4>2. Stat(r[2]) \in rows
        BY <3>1, <3>2, <4>1 DEF Paired
      <4> QED BY <4>2 DEF Of, Stat
    <3> QED BY <3>2 DEF Of
  <2> QED BY <2>2, <2>3 DEF PayloadsFindable
<1>2. Safe /\ [Next]_vars => Safe'
  BY SafeNext
<1>3. Safe /\ Findable /\ [Next]_vars => Findable'
  BY FindableNext
<1> QED BY <1>1, <1>2, <1>3, SafeInit, FindableInit, PTL DEF Spec

-----------------------------------------------------------------------------
(* What the purge spares.                                                  *)

\* The purge may take a row that is too old, and one with as many newer ids
\* as its table keeps.
MayGo(r) ==
  r[1] \in Tables => r[2] <= expired[r[1]] \/ next[Numbered(r[1])] - r[2] >= MaxRows[r[1]]

\* It has taken no other, and waits to take no other.
Spares(p) == job[p] = "purge" => \A r \in Takes(p) : MayGo(r)
Sparing == \A p \in LogTasks : Spares(p)

\* What is beyond the limit has that many newer rows, of ids handed out.
LEMMA ExcessMayGo ==
  ASSUME Safe, NEW t \in LogTasks, Busy(t), job[t] = "purge",
         NEW T \in Tables, NEW r \in Chosen(t, Excess(T))
  PROVE  MayGo(r)
<1>1. PICK S : S = {q \in Visible(t) : q[1] = T}
  OBVIOUS
<1>2. PICK N : N = {o \in S : o[2] > r[2]}
  OBVIOUS
<1>3. PICK m \in Nat, k \in Nat : m = MaxRows[T] /\ k = next[Numbered(T)]
  <2>1. Numbered(T) \in Numberings
    BY DEF Numbered, Numberings
  <2> QED BY <2>1, BoundsAssumption DEF Safe, Base, Clocks
<1>4. r \in S /\ Cardinality(N) \in m .. m + Batch - 1
  <2>1. Chosen(t, Excess(T)) = Beyond(T, S)
    BY <1>1, PurgeChooses
  <2> QED BY <1>2, <1>3, <2>1 DEF Beyond
<1>5. ASSUME NEW q \in S
      PROVE  q = <<T, q[2]>> /\ q[1] = T /\ q[2] \in Nat /\ q[2] <= k
  <2>1. q \in rows /\ q[1] = T
    BY <1>1, <1>5, InsertsNothing DEF Writers
  <2>2. q \in LogRows /\ Given(q)
    BY <2>1 DEF Safe, Base, DbTypes, Stored
  <2>3. q = <<q[1], q[2]>> /\ q[2] \in Nat
    BY <2>2, IdsAreNumbers DEF LogRows
  <2> QED BY <1>3, <2>1, <2>2, <2>3 DEF Given
<1>6. PICK i \in Nat : i = r[2] /\ i <= k
  BY <1>4, <1>5
<1>7. \A q \in N : \E j \in i + 1 .. k : q = <<T, j>>
  BY <1>2, <1>5, <1>6
<1>8. Cardinality(N) \in Nat /\ Cardinality(N) <= k - (i + 1) + 1
  <2>1. i + 1 \in Int /\ k \in Int /\ i + 1 <= k + 1
    BY <1>6
  <2> QED BY <1>7, <2>1, RowsBetween
<1>9. k - i >= m
  BY <1>4, <1>6, <1>8, IdsAreNumbers
<1>10. r[1] = T
  BY <1>4, <1>5
<1> QED BY <1>3, <1>6, <1>9, <1>10 DEF MayGo

\* Whatever the purge chooses may go.
LEMMA ChosenMayGo ==
  ASSUME Safe, NEW t \in LogTasks, Busy(t), Head(todo[t]) # Save, job[t] = "purge",
         NEW r \in Chosen(t, Head(todo[t]))
  PROVE  MayGo(r)
<1>1. Jobs
  BY DEF Safe, Base
<1>2. PICK h : h = Head(todo[t])
  OBVIOUS
<1>3. \E T \in Tables : h \in {Old(T), Excess(T)}
  BY <1>1, <1>2, NotLast, Heads DEF Tables
<1>4. ASSUME NEW T \in Tables, h = Old(T) PROVE MayGo(r)
  <2>1. PICK S : S = {q \in Visible(t) : q[1] = T /\ q[2] <= expired[T]}
    OBVIOUS
  <2>2. r \in Lowest(S, Batch)
    <3>1. Chosen(t, Old(T)) = Lowest(S, Batch)
      BY <2>1, PurgeChooses
    <3> QED BY <1>2, <1>4, <3>1
  <2>3. r[1] = T /\ r[2] <= expired[T]
    BY <2>1, <2>2 DEF Lowest
  <2> QED BY <2>3 DEF MayGo
<1>5. ASSUME NEW T \in Tables, h = Excess(T) PROVE MayGo(r)
  BY <1>2, <1>5, ExcessMayGo
<1> QED BY <1>3, <1>4, <1>5

\* What the next statement of the purge deletes may go.
LEMMA UpcomingMayGo ==
  ASSUME Safe, NEW p \in LogTasks, Spares(p), Busy(p), Head(todo[p]) # Save, job[p] = "purge"
  PROVE  \A r \in Takes(p) \cup Upcoming(p).delete : MayGo(r)
<1>1. CASE Waiting(p)
  BY <1>1 DEF Upcoming, Takes, Spares
<1>2. CASE ~Waiting(p)
  <2>1. Upcoming(p).delete = Chosen(p, Head(todo[p]))
    BY <1>2, Parts DEF Upcoming
  <2> QED BY <2>1, ChosenMayGo DEF Spares
<1> QED BY <1>1, <1>2

\* Times of the purge stand still and ids are only ever added: what may go
\* still may.
LEMMA SparingKept ==
  ASSUME Base, Base', NEW p \in LogTasks, \A n \in Numberings : next[n] <= next'[n], expired' = expired,
         \A r \in Takes(p)' : r[1] \in Tables => MayGo(r) /\ r \in LogRows
  PROVE  Spares(p)'
<1>1. ASSUME NEW r \in Takes(p)', r[1] \in Tables PROVE MayGo(r)'
  <2>1. PICK n \in Numberings : n = Numbered(r[1])
    BY DEF Numbered, Numberings
  <2>2. r[2] \in Nat
    BY <1>1, IdsAreNumbers DEF LogRows
  <2>3. next[n] \in Nat /\ next'[n] \in Nat /\ MaxRows[r[1]] \in Nat /\ next[n] <= next'[n]
    BY <1>1, IdsAreNumbers DEF Base, Clocks
  <2>4. r[2] <= expired[r[1]] \/ next[n] - r[2] >= MaxRows[r[1]]
    BY <1>1, <2>1 DEF MayGo
  <2>5. r[2] <= expired[r[1]] \/ next'[n] - r[2] >= MaxRows[r[1]]
    BY <2>2, <2>3, <2>4
  <2> QED BY <2>1, <2>5 DEF MayGo
<1>2. \A r \in Takes(p)' : MayGo(r)'
  BY <1>1 DEF MayGo
<1> QED BY <1>2 DEF Spares

\* What is taken are rows.
LEMMA TakesRows ==
  ASSUME DbTypes, NEW t \in LogTasks
  PROVE  Takes(t) \subseteq LogRows
<1>1. Waiting(t) => wants[t] \in Statements
  BY DEF DbTypes, Waiting
<1> QED BY <1>1 DEF Takes, DbTypes, Statements

\* A statement of the purge runs, or waits.
LEMMA SparingMoves ==
  ASSUME Safe, NEW p \in LogTasks, Spares(p), Busy(p), Head(todo[p]) # Save,
         UNCHANGED <<job, ids, next, expired, erased, before>>,
         \/ /\ Execute(p, Upcoming(p)) \/ Resume(p)
            /\ todo' = [todo EXCEPT ![p] = Tail(@)]
         \/ Queue(p, Upcoming(p)) /\ UNCHANGED todo
  PROVE  Spares(p)'
<1> SUFFICES ASSUME job[p] = "purge" PROVE Spares(p)'
  BY DEF Spares
<1>1. Base /\ Base' /\ DbTypes /\ DbTypes' /\ Clocks'
  BY Moves DEF Safe, Base
<1>2. PICK s : s = Upcoming(p)
  OBVIOUS
<1>3. \A r \in Takes(p) \cup s.delete : MayGo(r)
  BY <1>2, UpcomingMayGo
<1>4. \A r \in Takes(p)' : r \in Takes(p) \/ r \in s.delete \/ r[1] = "request_attempts"
  <2>1. del[p] \subseteq Takes(p)
    BY DEF Takes
  <2>2. CASE (Execute(p, s) \/ Resume(p)) /\ todo' = [todo EXCEPT ![p] = Tail(@)]
    <3>1. ~Waiting(p)' /\ s \in Statements /\ Does(p, s)
      BY <1>1, <1>2, <2>2, BaseRuns
    <3>2. del'[p] = del[p] \cup Gone(p, s)
      BY <1>1, <3>1, Changes
    <3>3. Takes(p)' = del'[p]
      BY <3>1 DEF Takes
    <3> QED BY <2>1, <3>2, <3>3, Goes
  <2>3. CASE Queue(p, s) /\ UNCHANGED todo
    <3>1. wants'[p] = s /\ del' = del
      BY <1>1, <1>2, <2>3, BaseQueues
    <3>2. Takes(p)' \subseteq del'[p] \cup wants'[p].delete
      BY DEF Takes
    <3> QED BY <2>1, <3>1, <3>2
  <2> QED BY <1>2, <2>2, <2>3
<1>5. \A r \in Takes(p)' : r[1] \in Tables => MayGo(r)
  BY <1>3, <1>4 DEF Tables
<1>6. Takes(p)' \subseteq LogRows
  <2>1. Waiting(p)' => wants'[p] \in Statements
    BY <1>1 DEF DbTypes, Waiting
  <2> QED BY <1>1, <2>1 DEF Takes, DbTypes, Statements
<1>7. (\A n \in Numberings : next[n] <= next'[n]) /\ expired' = expired
  BY <1>1 DEF Clocks
<1> QED BY <1>1, <1>5, <1>6, <1>7, SparingKept

\* A purge that has committed has nothing left that it took.
LEMMA SparingFinish ==
  ASSUME Safe, NEW p \in LogTasks, Finish(p)
  PROVE  Spares(p)'
<1>1. Base /\ DbTypes
  BY DEF Safe, Base
<1>2. ~Waiting(p)' /\ Forgotten(p)
  BY <1>1, BaseFinish
<1>3. del'[p] = {}
  BY <1>1, <1>2, Forgets
<1>4. Takes(p)' = {}
  BY <1>2, <1>3 DEF Takes
<1> QED BY <1>4 DEF Spares

\* A step of another task, or of none, while the times stand still.
LEMMA SparingBeside ==
  ASSUME Safe, NEW p \in LogTasks, Spares(p), Base', Takes(p)' = Takes(p), job'[p] = job[p],
         \A n \in Numberings : next[n] <= next'[n], job[p] = "purge" => expired' = expired
  PROVE  Spares(p)'
<1> SUFFICES ASSUME job[p] = "purge" PROVE Spares(p)'
  BY DEF Spares
<1>1. Base /\ DbTypes /\ expired' = expired
  BY DEF Safe, Base
<1>2. Takes(p)' \subseteq LogRows
  BY <1>1, TakesRows
<1>3. \A r \in Takes(p)' : MayGo(r)
  BY DEF Spares
<1> QED BY <1>1, <1>2, <1>3, SparingKept

\* A step of the task t: only a commit changes the rows, only jobs that begin
\* change what there is to delete, and the times stand still.
LEMMA SparingTasks ==
  ASSUME Safe, [Next]_vars
  PROVE  \/ UNCHANGED vars
         \/ \E T \in Tables : Expire(T)
         \/ \E t \in LogTasks :
              /\ Others(t) /\ OtherJobs(t) /\ expired' = expired
              /\ \A n \in Numberings : next[n] <= next'[n]
              /\ \/ /\ Busy(t) /\ Head(todo[t]) # Save
                    /\ UNCHANGED <<job, ids, next, expired, erased, before>>
                    /\ \/ /\ Execute(t, Upcoming(t)) \/ Resume(t)
                          /\ todo' = [todo EXCEPT ![t] = Tail(@)]
                       \/ Queue(t, Upcoming(t)) /\ UNCHANGED todo
                    /\ rows' = rows
                 \/ Finish(t)
                 \/ rows' = rows /\ (job'[t] \in Resting \/ (job[t] = "idle" /\ UNCHANGED <<wants, del>>))
<1>1. Base /\ DbTypes /\ Clocks
  BY DEF Safe, Base
<1>2. next' = next => \A n \in Numberings : next[n] <= next'[n]
  BY <1>1 DEF Clocks
<1>3. ASSUME NEW t \in LogTasks, Over(t, "failed"), UNCHANGED <<next, expired, erased, before>>,
             \/ Head(todo[t]) = Save /\ Busy(t) /\ CommitFails(t)
             \/ Head(todo[t]) # Save /\ Busy(t) /\ Throws(t)
             \/ t \in Handlers /\ Cancelled(t)
      PROVE  Others(t) /\ OtherJobs(t) /\ job'[t] \in Resting /\ rows' = rows
  BY <1>1, <1>3, BaseFails
<1>4. CASE (\E t \in Handlers : Begins(t)) \/ BeginSample \/ BeginPurge(purger)
  <2>1. CASE \E t \in Takers : BeginPurge(t) /\ Skips(t)
    <3>1. PICK t \in Takers : BeginPurge(t) /\ Skips(t)
      BY <2>1
    <3>2. /\ Others(t) /\ OtherJobs(t) /\ job'[t] \in Resting /\ t \in LogTasks
          /\ UNCHANGED <<rows, next, expired>>
      BY <1>1, <3>1, BaseBeginPurge DEF Skips, database
    <3> QED BY <1>2, <3>2
  <2>2. ASSUME NEW t \in LogTasks, NEW kind \in Kinds, NEW about \in SUBSET Ids, Begun(t, kind, about)
        PROVE  /\ Others(t) /\ OtherJobs(t) /\ expired' = expired /\ rows' = rows
               /\ \A n \in Numberings : next[n] <= next'[n]
               /\ job[t] = "idle" /\ UNCHANGED <<wants, del>>
    BY <2>2 DEF Begun
  <2> QED BY <1>1, <1>4, <2>1, <2>2, Starts
<1>5. ASSUME NEW t \in Handlers, Disconnect(t)
      PROVE  t \in LogTasks /\ Others(t) /\ OtherJobs(t) /\ job'[t] \in Resting /\ rows' = rows
             /\ next' = next /\ expired' = expired
  <2>1. /\ Over(t, "failed") /\ Cancelled(t) /\ UNCHANGED <<next, expired, erased, before>>
        /\ t \in LogTasks
    BY <1>5, TaskKinds DEF Disconnect, Aside
  <2> QED BY <1>3, <1>5, <2>1
<1>6. ASSUME NEW t \in Handlers, EndTask(t)
      PROVE  t \in LogTasks /\ Others(t) /\ OtherJobs(t) /\ job'[t] \in Resting /\ rows' = rows
             /\ next' = next /\ expired' = expired
  <2>1. Others(t) /\ rows' = rows /\ t \in LogTasks
    BY <1>1, <1>6, BaseEndTask, TaskKinds
  <2>2. job[t] \in {"done", "failed"} /\ UNCHANGED <<job, ids, todo, next, expired, erased, before>>
    BY <1>6 DEF EndTask, Aside
  <2> QED BY <2>1, <2>2 DEF OtherJobs, Resting
<1>7. ASSUME NEW t \in LogTasks, Finish(t)
      PROVE  Others(t) /\ OtherJobs(t) /\ next' = next /\ expired' = expired
  BY <1>1, <1>7, BaseFinish DEF Finish
<1>8. ASSUME NEW t \in LogTasks, Works(t) \/ Fail(t)
      PROVE  /\ Others(t) /\ OtherJobs(t) /\ next' = next /\ expired' = expired
             /\ \/ /\ Busy(t) /\ Head(todo[t]) # Save
                   /\ UNCHANGED <<job, ids, next, expired, erased, before>>
                   /\ \/ /\ Execute(t, Upcoming(t)) \/ Resume(t)
                         /\ todo' = [todo EXCEPT ![t] = Tail(@)]
                      \/ Queue(t, Upcoming(t)) /\ UNCHANGED todo
                   /\ rows' = rows
                \/ Finish(t)
                \/ rows' = rows /\ job'[t] \in Resting
  <2>1. CASE Finish(t)
    BY <1>7, <2>1
  <2>2. CASE /\ Busy(t) /\ Head(todo[t]) # Save
             /\ UNCHANGED <<job, ids, next, expired, erased, before>>
             /\ \/ /\ Execute(t, Upcoming(t)) \/ Resume(t)
                   /\ todo' = [todo EXCEPT ![t] = Tail(@)]
                \/ Queue(t, Upcoming(t)) /\ UNCHANGED todo
    BY <2>2, Moves DEF Quiet
  <2>3. CASE /\ Over(t, "failed") /\ UNCHANGED <<next, expired, erased, before>> /\ Busy(t)
             /\ \/ Head(todo[t]) = Save /\ CommitFails(t)
                \/ Head(todo[t]) # Save /\ Throws(t)
    BY <1>3, <2>3
  <2> QED BY <1>1, <1>8, <2>1, <2>2, <2>3, WorkSteps
<1> QED BY <1>2, <1>4, <1>5, <1>6, <1>8, TaskKinds DEF Next

\* Every step.
LEMMA SparingNext == Safe /\ Sparing /\ [Next]_vars => Sparing'
<1> SUFFICES ASSUME Safe, Sparing, [Next]_vars, NEW p \in LogTasks PROVE Spares(p)'
  BY DEF Sparing
<1>1. Base /\ Base' /\ DbTypes /\ Clocks /\ Spares(p)
  BY BaseNext DEF Safe, Base, Sparing
<1>2. UNCHANGED <<database, job, next>> => Takes(p)' = Takes(p) /\ job' = job
  BY DEF database, Takes, Waiting
<1>3. next' = next => \A n \in Numberings : next[n] <= next'[n]
  BY <1>1 DEF Clocks
<1>4. CASE UNCHANGED vars
  <2>1. UNCHANGED <<database, job, next>> /\ next' = next /\ expired' = expired
    BY <1>4 DEF vars
  <2> QED BY <1>1, <1>2, <1>3, <2>1, SparingBeside
<1>5. ASSUME NEW T \in Tables, Expire(T) PROVE Spares(p)'
  <2>1. UNCHANGED <<database, job, next>> /\ next' = next /\ job[p] # "purge"
    BY <1>5 DEF Expire, Purging
  <2> QED BY <1>1, <1>2, <1>3, <2>1, SparingBeside
<1>6. ASSUME NEW t \in LogTasks \ {p}, Others(t), OtherJobs(t), expired' = expired,
             \A n \in Numberings : next[n] <= next'[n]
      PROVE  Spares(p)'
  <2>1. Takes(p)' = Takes(p) /\ job'[p] = job[p]
    BY <1>1, <1>6, SameTakes
  <2> QED BY <1>1, <1>6, <2>1, SparingBeside
<1>7. ASSUME job[p] = "idle", UNCHANGED <<wants, del>> PROVE Spares(p)'
  <2>1. ~Busy(p) /\ ~Holding(p) /\ ~Waiting(p)
    BY <1>1, <1>7, Working DEF Base, Connected, Resting
  <2>2. del[p] = {}
    BY <1>1, <2>1 DEF Safe, Own
  <2>3. Takes(p)' = {}
    BY <1>7, <2>1, <2>2 DEF Takes, Waiting
  <2> QED BY <2>3 DEF Spares
<1>8. job'[p] \in Resting => Spares(p)'
  BY DEF Spares, Resting
<1> QED BY <1>1, <1>4, <1>5, <1>6, <1>7, <1>8, SparingTasks, SparingMoves, SparingFinish

\* No purge, of the background task or of a handler that saves settings, takes
\* a payload, statistics or a sample before its time: of what is not too old
\* only rows with as many newer ids as their table keeps, whatever is logged,
\* deleted or reset while its statements run and wait.
THEOREM PurgeAlwaysSparesNewest == Spec => PurgeSparesNewest
<1> DEFINE SparesStep ==
      \A t \in LogTasks, r \in rows \ rows' :
        Purging(t) /\ ~Purging(t)' /\ r[1] \in Tables /\ r[2] > expired[r[1]]
          => next[Numbered(r[1])] - r[2] >= MaxRows[r[1]]
<1>1. Init => Sparing
  <2> SUFFICES ASSUME Init, NEW p \in LogTasks PROVE job[p] # "purge"
    BY DEF Sparing, Spares
  <2> QED BY DEF Init
<1>2. Safe /\ Sparing /\ [Next]_vars => [SparesStep]_vars
  <2> SUFFICES ASSUME Safe, Sparing, [Next]_vars, NEW p \in LogTasks,
                      NEW r \in rows \ rows', job[p] = "purge", job'[p] # "purge",
                      r[1] \in Tables, r[2] > expired[r[1]]
               PROVE  next[Numbered(r[1])] - r[2] >= MaxRows[r[1]]
    BY DEF Purging
  <2>1. Base /\ rows \in SUBSET LogRows /\ expired[r[1]] \in Nat
    BY DEF Safe, Base, DbTypes, Clocks
  <2>2. Finish(p)
    <3>1. ~UNCHANGED vars
      BY DEF vars, database
    <3>2. \A T \in Tables : ~Expire(T)
      BY DEF Expire, database
    <3>3. PICK t \in LogTasks : OtherJobs(t) /\ (rows' = rows \/ Finish(t))
      BY <3>1, <3>2, SparingTasks
    <3>4. t = p
      BY <2>1, <3>3 DEF OtherJobs
    <3> QED BY <3>3, <3>4
  <2>3. rows' = Visible(p)
    BY <2>1, <2>2, BaseFinish
  <2>4. r \in Takes(p)
    BY <2>3 DEF Visible, Takes
  <2>5. MayGo(r)
    BY <2>4 DEF Sparing, Spares
  <2>6. r[2] \in Nat
    BY <2>1, IdsAreNumbers DEF LogRows
  <2>7. ~(r[2] <= expired[r[1]])
    BY <2>1, <2>6
  <2> QED BY <2>5, <2>7 DEF MayGo
<1>3. Safe /\ [Next]_vars => Safe'
  BY SafeNext
<1>4. Safe /\ Sparing /\ [Next]_vars => Sparing'
  BY SparingNext
<1>5. Spec => [][SparesStep]_vars
  BY <1>1, <1>2, <1>3, <1>4, SafeInit, PTL DEF Spec
<1> QED BY <1>5 DEF PurgeSparesNewest

=============================================================================
