---------------------------- MODULE TokenBucket -----------------------------
(***************************************************************************)
(* The acquire protocol of TokenBucket (app/limiter.py) with several       *)
(* callers: a caller that finds too few tokens sleeps outside the lock and *)
(* tries again when it wakes, competing with whoever else is there.        *)
(* A caller that has been answered may call again; what it was granted it  *)
(* may give back once, before its next call.                               *)
(***************************************************************************)
EXTENDS Bucket

CONSTANTS
  Callers,           \* the tasks that use the bucket
  Amounts,           \* the amounts they may ask for
  MaxCalls,          \* bound on their calls, all together
  InitialCapacity,
  Capacities,        \* the capacities reconfigure may install
  MaxReconfigures    \* bound on the number of reconfigurations

ASSUME AmountsAssumption == Amounts \subseteq Nat /\ MaxCalls \in Nat
ASSUME CapacityAssumption ==
  InitialCapacity \in Nat /\ Capacities \subseteq Nat /\ MaxReconfigures \in Nat

VARIABLES
  capacity,          \* self.capacity
  stage,             \* where each caller is in acquire
  want,              \* the amount each caller asked for last
  calls,             \* how many calls there have been
  reconfigures       \* how many reconfigurations have happened

vars == <<bucketVars, capacity, stage, want, calls, reconfigures>>

Init ==
  /\ capacity = InitialCapacity
  /\ Fill(InitialCapacity)
  /\ stage = [c \in Callers |-> "idle"]
  /\ want = [c \in Callers |-> 0]
  /\ calls = 0
  /\ reconfigures = 0

Move(c, s) == stage' = [stage EXCEPT ![c] = s]

\* acquire(n) up to its first suspension: the amount is checked against the
\* capacity here and nowhere else.
Call(c, n) ==
  /\ stage[c] # "waiting"
  /\ calls < MaxCalls
  /\ calls' = calls + 1
  /\ want' = [want EXCEPT ![c] = n]
  /\ \/ /\ n > 0 /\ n > capacity
        /\ Move(c, "rejected")
        /\ UNCHANGED bucketVars
     \/ /\ n <= capacity
        /\ Debit(n)
        /\ Move(c, "granted")
     \/ /\ n <= capacity /\ level < n
        /\ Move(c, "waiting")
        /\ UNCHANGED bucketVars
  /\ UNCHANGED <<capacity, reconfigures>>

\* Mutant of Wake: a bucket that holds just what is wanted is taken for too empty.
WakeWithMore(c) ==
  /\ stage[c] = "waiting"
  /\ level > want[c]
  /\ Debit(want[c])
  /\ Move(c, "granted")
  /\ UNCHANGED <<capacity, want, calls, reconfigures>>

\* A sleeper wakes and finds enough tokens (otherwise it sleeps again).
Wake(c) ==
  /\ stage[c] = "waiting"
  /\ Debit(want[c])
  /\ Move(c, "granted")
  /\ UNCHANGED <<capacity, want, calls, reconfigures>>

\* The task is cancelled while it sleeps; nothing was taken.
Cancel(c) ==
  /\ stage[c] = "waiting"
  /\ Move(c, "cancelled")
  /\ UNCHANGED <<bucketVars, capacity, want, calls, reconfigures>>

\* A granted caller gives back what it did not use.
Refund(c, n) ==
  /\ stage[c] = "granted"
  /\ n <= want[c]
  /\ Credit(capacity, n)
  /\ Move(c, "refunded")
  /\ UNCHANGED <<capacity, want, calls, reconfigures>>

Refill ==
  /\ Tick(capacity)
  /\ UNCHANGED <<capacity, stage, want, calls, reconfigures>>

Reconfigure(newCapacity) ==
  /\ reconfigures < MaxReconfigures
  /\ Resize(newCapacity)
  /\ capacity' = newCapacity
  /\ reconfigures' = reconfigures + 1
  /\ UNCHANGED <<stage, want, calls>>

\* Nothing is left to do: the bucket is full and nobody will call again or wait.
Quiescent ==
  /\ level = capacity
  /\ reconfigures = MaxReconfigures
  /\ calls = MaxCalls
  /\ \A c \in Callers : stage[c] # "granted"
  /\ UNCHANGED vars

Next ==
  \/ \E c \in Callers, n \in Amounts : Call(c, n) \/ Refund(c, n)
  \/ \E c \in Callers : Wake(c) \/ Cancel(c)
  \/ Refill
  \/ \E k \in Capacities : Reconfigure(k)
  \/ Quiescent

\* Time passes and sleepers wake; nobody has to call, cancel or refund.
Fairness ==
  /\ WF_vars(Refill)
  /\ \A c \in Callers : WF_vars(Wake(c))

Spec == Init /\ [][Next]_vars /\ Fairness

-----------------------------------------------------------------------------
Stages == {"idle", "waiting", "granted", "refunded", "rejected", "cancelled"}

\* Types.  The level stays within the capacity in force, whatever refunds,
\* refills and reconfigurations do (limiter.py:24,38,52).
TypeOK ==
  /\ capacity \in Nat
  /\ level \in 0 .. capacity
  /\ minted \in Nat
  /\ spent \in Int
  /\ stage \in [Callers -> Stages]
  /\ want \in [Callers -> Nat]
  /\ calls \in 0 .. MaxCalls
  /\ reconfigures \in 0 .. MaxReconfigures

\* The rate limit itself: what callers hold never exceeds the first burst plus
\* what time has refilled, and no burst exceeds the capacity.  Waking,
\* refunding and reconfiguring in any order never create tokens (acquire,
\* refund and reconfigure of limiter.py).
NoFreeTokens == TypeOK /\ level + spent <= InitialCapacity + minted

\* A caller that waits is served, unless its own task is cancelled, or a
\* reconfiguration has brought the capacity below what it waits for (the amount
\* is compared with the capacity on entry only, limiter.py:19, so such a caller
\* sleeps until the capacity is raised again).  Others come and take tokens
\* meanwhile, again and again up to their bound: no token is lost between a
\* refund, a lowered capacity and a sleeper that wakes, and nobody who wants
\* exactly what the bucket can hold is left behind.
QueuedCallersServed ==
  \A c \in Callers :
    stage[c] = "waiting" ~> stage[c] # "waiting" \/ want[c] > capacity
=============================================================================
