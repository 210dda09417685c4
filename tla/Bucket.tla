------------------------------- MODULE Bucket -------------------------------
(***************************************************************************)
(* The state of one TokenBucket object (app/limiter.py): how many tokens   *)
(* it holds, what it can hold, and what may happen to them between two     *)
(* suspension points of the event loop.  Every method takes the bucket's   *)
(* lock around code that never awaits, so the lock is never contended and  *)
(* each method body is one step.  The capacity is a parameter, so that a   *)
(* user of this module may keep it fixed or change it.                     *)
(*                                                                         *)
(* Amounts are integers.  The lazy refill of the code (tokens plus elapsed *)
(* time times rate, capped) is observed through the level only, so it is   *)
(* an eager refill here: Tick adds one unit whenever the bucket is not     *)
(* full.  `minted' and `spent' are history variables: all that refills     *)
(* have added, and all that callers took less what they gave back.         *)
(***************************************************************************)
EXTENDS Integers

VARIABLES
  level,        \* self.tokens, brought up to date
  minted,       \* history: units added by refills since the start
  spent         \* history: units taken and not refunded

bucketVars == <<level, minted, spent>>

AtMost(a, b) == IF a <= b THEN a ELSE b

\* __init__: a new bucket is full.
Fill(capacity) ==
  /\ level = capacity
  /\ minted = 0
  /\ spent = 0

\* The refill common to acquire, refund, level and reconfigure, one unit at a time.
Tick(capacity) ==
  /\ level < capacity
  /\ level' = level + 1
  /\ minted' = minted + 1
  /\ UNCHANGED spent

\* Mutant of Debit: the level is tested but the tokens are left in the bucket.
DebitWithoutTaking(amount) ==
  /\ level >= amount
  /\ spent' = spent + amount
  /\ UNCHANGED <<level, minted>>

\* The successful branch of the acquire loop.
Debit(amount) ==
  /\ level >= amount
  /\ level' = level - amount
  /\ spent' = spent + amount
  /\ UNCHANGED minted

\* refund: an amount that is not positive changes nothing.
Credit(capacity, amount) ==
  IF amount <= 0
  THEN UNCHANGED bucketVars
  ELSE /\ level' = AtMost(capacity, level + amount)
       /\ spent' = spent - amount
       /\ UNCHANGED minted

\* Mutant of Resize: the bucket starts full again.
ResizeAndFill(newCapacity) ==
  /\ level' = newCapacity
  /\ UNCHANGED <<minted, spent>>

\* reconfigure: the level is cut to the new capacity, never topped up.
Resize(newCapacity) ==
  /\ level' = AtMost(newCapacity, level)
  /\ UNCHANGED <<minted, spent>>
=============================================================================
