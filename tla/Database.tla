------------------------------ MODULE Database ------------------------------
(***************************************************************************)
(* The database adapter (app/database.py) over its pool and PostgreSQL.    *)
(*                                                                         *)
(* The first mutation of a task opens a transaction and leaves it in the   *)
(* task's context; later statements of the task join it until commit or    *)
(* rollback.  A statement that fails rolls back only a transaction it      *)
(* opened itself: any other stays in the context, its connection is not    *)
(* returned, until the task is gone.                                       *)
(*                                                                         *)
(* The server runs statements READ COMMITTED: a statement fixes its rows   *)
(* when it is sent, waits for the transactions that hold locks on them,    *)
(* and passes over those which are gone by then; when nobody holds any it  *)
(* is one step.  A ring of waiting transactions is broken by failing a     *)
(* statement in it.                                                        *)
(***************************************************************************)
EXTENDS Integers, FiniteSets

CONSTANTS
  Tasks,           \* tasks of the event loop
  Rows,            \* rows any table may ever have
  Dependent(_),    \* rows the server deletes with a row: ON DELETE CASCADE
  Connections      \* pool_size + max_overflow

VARIABLES
  rows,            \* committed
  free,            \* connections the pool can still give
  context,         \* Database._transaction of each task, "lost" once the server rolled it back
  wants,           \* the statement each task waits for
  creates,         \* created_state of that call of execute
  ins, del,        \* what each open transaction has inserted and deleted
  locks            \* rows it has locked

Statements == [insert : SUBSET Rows, delete : SUBSET Rows, share : SUBSET Rows]
NoStatement == [insert |-> {}, delete |-> {}, share |-> {}, none |-> TRUE]

DatabaseTypeOK ==
  /\ rows \subseteq Rows
  /\ free \in 0 .. Connections
  /\ context \in [Tasks -> {"none", "open", "lost"}]
  /\ wants \in [Tasks -> Statements \cup {NoStatement}]
  /\ creates \in [Tasks -> BOOLEAN]
  /\ ins \in [Tasks -> SUBSET Rows]
  /\ del \in [Tasks -> SUBSET Rows]
  /\ locks \in [Tasks -> SUBSET Rows]

Connect(initial) ==
  /\ rows = initial
  /\ free = Connections
  /\ context = [t \in Tasks |-> "none"]
  /\ wants = [t \in Tasks |-> NoStatement]
  /\ creates = [t \in Tasks |-> FALSE]
  /\ ins = [t \in Tasks |-> {}] /\ del = [t \in Tasks |-> {}] /\ locks = [t \in Tasks |-> {}]

Holding(t) == context[t] # "none"
Waiting(t) == wants[t] # NoStatement
\* What a statement of the transaction of t sees.
Visible(t) == (rows \cup ins[t]) \ del[t]
Blocks(o, t, s) == o # t /\ locks[o] \cap (s.delete \cup s.share) # {}
Blocked(t, s) == \E o \in Tasks : Blocks(o, t, s)

-----------------------------------------------------------------------------
(* The transaction in the context.                                         *)

\* The server forgets what the transaction of t did.
Forgotten(t) ==
  /\ ins' = [ins EXCEPT ![t] = {}]
  /\ del' = [del EXCEPT ![t] = {}]
  /\ locks' = [locks EXCEPT ![t] = {}]

\* engine.connect and connection.begin.
Open(t) ==
  /\ free > 0
  /\ free' = free - 1
  /\ context' = [context EXCEPT ![t] = "open"]

\* connection.close, once the context is cleared.
Close(t) ==
  /\ free' = free + 1
  /\ context' = [context EXCEPT ![t] = "none"]

\* Mutant of Rollback: the connection is not closed.
RollbackKeepsConnection(t) ==
  /\ context' = [context EXCEPT ![t] = "none"]
  /\ Forgotten(t)
  /\ UNCHANGED <<rows, free>>

\* rollback
Rollback(t) ==
  /\ IF Holding(t) THEN Close(t) ELSE UNCHANGED <<free, context>>
  /\ Forgotten(t)
  /\ UNCHANGED rows

\* begin
Begin(t) ==
  /\ ~Holding(t)
  /\ Open(t)
  /\ UNCHANGED <<rows, wants, creates, ins, del, locks>>

\* commit
Commit(t) ==
  /\ context[t] = "open"
  /\ rows' = Visible(t)
  /\ Close(t)
  /\ Forgotten(t)
  /\ UNCHANGED <<wants, creates>>

\* commit, when the server does not answer.
CommitFails(t) ==
  /\ context[t] = "open"
  /\ Close(t)
  /\ Forgotten(t)
  /\ UNCHANGED <<rows, wants, creates>>

-----------------------------------------------------------------------------
(* execute and executemany.                                                *)

\* The transaction of the context, or a new one.
Join(t) == IF Holding(t) THEN UNCHANGED <<free, context>> ELSE Open(t)

\* What the statement s changes and locks.
Does(t, s) ==
  LET found == s.delete \cap Visible(t)
      gone == found \cup UNION {Dependent(r) \cap Visible(t) : r \in found}
  IN  /\ ins' = [ins EXCEPT ![t] = (@ \cup s.insert) \ gone]
      /\ del' = [del EXCEPT ![t] = @ \cup gone]
      /\ locks' = [locks EXCEPT ![t] = @ \cup gone \cup s.share]
      /\ UNCHANGED rows

Execute(t, s) ==
  /\ ~Waiting(t) /\ ~Blocked(t, s) /\ s.share \subseteq Visible(t)
  /\ Join(t)
  /\ Does(t, s)
  /\ UNCHANGED <<wants, creates>>

\* The statement s has to wait.
Queue(t, s) ==
  /\ ~Waiting(t) /\ Blocked(t, s)
  /\ Join(t)
  /\ wants' = [wants EXCEPT ![t] = s]
  /\ creates' = [creates EXCEPT ![t] = ~Holding(t)]
  /\ UNCHANGED <<rows, ins, del, locks>>

Answered(t) ==
  /\ wants' = [wants EXCEPT ![t] = NoStatement]
  /\ creates' = [creates EXCEPT ![t] = FALSE]

Resume(t) ==
  /\ Waiting(t) /\ ~Blocked(t, wants[t]) /\ wants[t].share \subseteq Visible(t)
  /\ Does(t, wants[t])
  /\ Answered(t)
  /\ UNCHANGED <<free, context>>

\* The statement raises: a call that opened the transaction rolls it back.
Raises(t) ==
  /\ IF creates[t] \/ ~Holding(t)
     THEN Rollback(t)
     ELSE /\ context' = [context EXCEPT ![t] = "lost"]
          /\ Forgotten(t)
          /\ UNCHANGED <<rows, free>>
  /\ Answered(t)

\* Whether a row the statement s refers to is gone.
Refused(t, s) == ~Blocked(t, s) /\ ~(s.share \subseteq Visible(t))

\* Whether t is one of a ring of tasks that wait for each other.
Deadlocked(t) ==
  /\ Waiting(t)
  /\ \E ring \in SUBSET {o \in Tasks : Waiting(o)} :
       /\ t \in ring
       /\ \A o \in ring : \E p, q \in ring : Blocks(p, o, wants[o]) /\ Blocks(o, q, wants[q])

\* The task is cancelled in await: no except clause sees it.
Cancelled(t) == Answered(t) /\ UNCHANGED <<rows, free, context, ins, del, locks>>

\* The task is gone, its context with it; the pool takes the connection back.
Collect(t) ==
  /\ Holding(t) /\ ~Waiting(t)
  /\ Rollback(t)
  /\ UNCHANGED <<wants, creates>>
=============================================================================
