------------------------- MODULE TokenBucket_proofs -------------------------
(***************************************************************************)
(* Proofs about TokenBucket, for any callers, amounts, capacities and      *)
(* numbers of reconfigurations, lowering ones included.  NoFreeTokens is   *)
(* inductive as it stands: types and ranges are part of it.                *)
(***************************************************************************)
EXTENDS TokenBucket, TLAPS

\* The smaller of two numbers.
LEMMA AtMostBounds ==
  ASSUME NEW a \in Nat, NEW b \in Nat
  PROVE  /\ AtMost(a, b) \in 0 .. a
         /\ AtMost(a, b) <= b
BY DEF AtMost

\* Init == a full bucket that nobody has used.
LEMMA InitHolds == Init => NoFreeTokens
<1> SUFFICES ASSUME Init PROVE NoFreeTokens
  OBVIOUS
<1>1. /\ level \in 0 .. capacity /\ capacity \in Nat
      /\ reconfigures \in 0 .. MaxReconfigures /\ calls \in 0 .. MaxCalls
  BY CapacityAssumption, AmountsAssumption DEF Init, Fill
<1> QED BY <1>1, CapacityAssumption DEF Init, Fill, NoFreeTokens, TypeOK, Stages

\* Taking tokens lowers the level by what it adds to what is spent.
LEMMA DebitKeeps ==
  ASSUME NoFreeTokens, NEW n \in Nat, Debit(n)
  PROVE  /\ level' \in 0 .. capacity /\ minted' \in Nat /\ spent' \in Int
         /\ level' + spent' <= InitialCapacity + minted'
BY CapacityAssumption DEF NoFreeTokens, TypeOK, Debit

\* A refund never raises the level by more than it lowers what is spent, nor
\* above the capacity.
LEMMA CreditKeeps ==
  ASSUME NoFreeTokens, NEW n \in Nat, Credit(capacity, n)
  PROVE  /\ level' \in 0 .. capacity /\ minted' \in Nat /\ spent' \in Int
         /\ level' + spent' <= InitialCapacity + minted'
<1>1. capacity \in Nat /\ level \in 0 .. capacity /\ minted \in Nat /\ spent \in Int
      /\ InitialCapacity \in Nat /\ level + spent <= InitialCapacity + minted
  BY CapacityAssumption DEF NoFreeTokens, TypeOK
<1>2. CASE n <= 0
  BY <1>1, <1>2 DEF Credit, bucketVars
<1>3. CASE n > 0
  <2>1. AtMost(capacity, level + n) \in 0 .. capacity /\ AtMost(capacity, level + n) <= level + n
    <3>1. level + n \in Nat
      BY <1>1
    <3> QED BY <1>1, <3>1, AtMostBounds
  <2>2. level' = AtMost(capacity, level + n) /\ spent' = spent - n /\ minted' = minted
    BY <1>3 DEF Credit
  <2> QED BY <1>1, <2>1, <2>2
<1> QED BY <1>2, <1>3

\* An acquire that is served, refused or queued.
LEMMA CallKeeps ==
  ASSUME NoFreeTokens, NEW c \in Callers, NEW n \in Amounts, Call(c, n)
  PROVE  NoFreeTokens'
<1>1. n \in Nat
  BY AmountsAssumption
<1>2. stage' \in [Callers -> Stages] /\ want' \in [Callers -> Nat]
  BY <1>1 DEF NoFreeTokens, TypeOK, Call, Move, Stages
<1>3. /\ level' \in 0 .. capacity /\ minted' \in Nat /\ spent' \in Int
      /\ level' + spent' <= InitialCapacity + minted'
  <2>1. CASE Debit(n)
    BY <1>1, <2>1, DebitKeeps
  <2>2. CASE UNCHANGED bucketVars
    BY <2>2 DEF NoFreeTokens, TypeOK, bucketVars
  <2> QED BY <2>1, <2>2 DEF Call
<1>4. calls' \in 0 .. MaxCalls
  BY AmountsAssumption DEF NoFreeTokens, TypeOK, Call
<1> QED BY <1>2, <1>3, <1>4 DEF NoFreeTokens, TypeOK, Call

\* A sleeper that finds enough tokens.
LEMMA WakeKeeps ==
  ASSUME NoFreeTokens, NEW c \in Callers, Wake(c)
  PROVE  NoFreeTokens'
<1>1. stage' \in [Callers -> Stages]
  BY DEF NoFreeTokens, TypeOK, Wake, Move, Stages
<1>2. /\ level' \in 0 .. capacity /\ minted' \in Nat /\ spent' \in Int
      /\ level' + spent' <= InitialCapacity + minted'
  <2>1. want[c] \in Nat /\ Debit(want[c])
    BY DEF NoFreeTokens, TypeOK, Wake
  <2> QED BY <2>1, DebitKeeps
<1> QED BY <1>1, <1>2 DEF NoFreeTokens, TypeOK, Wake

\* A sleeper whose task is cancelled.
LEMMA CancelKeeps ==
  ASSUME NoFreeTokens, NEW c \in Callers, Cancel(c)
  PROVE  NoFreeTokens'
<1>1. stage' \in [Callers -> Stages]
  BY DEF NoFreeTokens, TypeOK, Cancel, Move, Stages
<1> QED BY <1>1 DEF NoFreeTokens, TypeOK, Cancel, bucketVars

\* A refund of no more than was taken.
LEMMA RefundKeeps ==
  ASSUME NoFreeTokens, NEW c \in Callers, NEW n \in Amounts, Refund(c, n)
  PROVE  NoFreeTokens'
<1>1. stage' \in [Callers -> Stages]
  BY DEF NoFreeTokens, TypeOK, Refund, Move, Stages
<1>2. /\ level' \in 0 .. capacity /\ minted' \in Nat /\ spent' \in Int
      /\ level' + spent' <= InitialCapacity + minted'
  BY AmountsAssumption, CreditKeeps DEF Refund
<1> QED BY <1>1, <1>2 DEF NoFreeTokens, TypeOK, Refund

\* Time refills no bucket beyond its capacity.
LEMMA RefillKeeps ==
  ASSUME NoFreeTokens, Refill
  PROVE  NoFreeTokens'
BY CapacityAssumption DEF NoFreeTokens, TypeOK, Refill, Tick

\* A new capacity cuts the level and never adds to it.
LEMMA ReconfigureKeeps ==
  ASSUME NoFreeTokens, NEW k \in Capacities, Reconfigure(k)
  PROVE  NoFreeTokens'
<1>1. k \in Nat /\ level \in Nat /\ InitialCapacity \in Nat
  BY CapacityAssumption DEF NoFreeTokens, TypeOK
<1>2. level' \in 0 .. k /\ level' <= level
  BY <1>1, AtMostBounds DEF Reconfigure, Resize
<1>3. reconfigures' \in 0 .. MaxReconfigures
  BY CapacityAssumption DEF NoFreeTokens, TypeOK, Reconfigure
<1> QED BY <1>1, <1>2, <1>3 DEF NoFreeTokens, TypeOK, Reconfigure, Resize

\* Every step of the specification.
LEMMA NextKeeps == NoFreeTokens /\ [Next]_vars => NoFreeTokens'
<1> SUFFICES ASSUME NoFreeTokens, [Next]_vars PROVE NoFreeTokens'
  OBVIOUS
<1>1. ASSUME NEW c \in Callers, NEW n \in Amounts, Call(c, n) \/ Refund(c, n)
      PROVE  NoFreeTokens'
  BY <1>1, CallKeeps, RefundKeeps
<1>2. ASSUME NEW c \in Callers, Wake(c) \/ Cancel(c) PROVE NoFreeTokens'
  BY <1>2, WakeKeeps, CancelKeeps
<1>3. CASE Refill
  BY <1>3, RefillKeeps
<1>4. ASSUME NEW k \in Capacities, Reconfigure(k) PROVE NoFreeTokens'
  BY <1>4, ReconfigureKeeps
<1>5. CASE UNCHANGED vars
  BY <1>5 DEF NoFreeTokens, TypeOK, vars, bucketVars
<1> QED BY <1>1, <1>2, <1>3, <1>4, <1>5 DEF Next, Quiescent

\* The rate limit of limiter.py: what callers hold never exceeds one burst plus
\* the refills, whatever they ask for, give back and however the capacity
\* changes.
THEOREM TokensAreNeverFree == Spec => []NoFreeTokens
BY InitHolds, NextKeeps, PTL DEF Spec
=============================================================================
