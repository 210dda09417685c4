--------------------------- MODULE Capacity_proofs ---------------------------
(***************************************************************************)
(* Theorems about Capacity, for any finite set of callers, any limits and  *)
(* any reservations.                                                       *)
(***************************************************************************)
EXTENDS Capacity, FiniteSetTheorems, SequenceTheorems, WellFoundedInduction, TLAPS

\* The request bucket's own books: what callers paid is what left the bucket.
\* A cancelled caller leaves Paid but its request token stays spent.
RequestBooks ==
  HasRequestBucket =>
    /\ requestLevel + requestSpent <= RequestBurst + requestMinted
    /\ RequestCost * Cardinality(Paid) <= requestSpent

\* The inductive invariant.  The bounds of slots, queued and active in TypeOK
\* need SlotsConserved and GaugesExact, so they are proved together.
IInv == TypeOK /\ SlotsConserved /\ GaugesExact /\ RequestBooks /\ TokensPaced

-----------------------------------------------------------------------------
\* The sets of callers are finite, so their cardinalities are naturals.
LEMMA CallersFinite ==
  ASSUME NEW S \in SUBSET Callers
  PROVE  IsFiniteSet(S) /\ Cardinality(S) \in Nat
BY CallersAssumption, FS_Subset, FS_CardinalityType

\* Adding a new caller to a set of callers, or removing one, counts one.
LEMMA CountOne ==
  ASSUME NEW S \in SUBSET Callers, NEW c \in Callers
  PROVE  /\ c \notin S => Cardinality(S \cup {c}) = Cardinality(S) + 1
         /\ c \in S => Cardinality(S \ {c}) = Cardinality(S) - 1 /\ Cardinality(S) >= 1
         /\ S \cup {c} \in SUBSET Callers /\ S \ {c} \in SUBSET Callers
<1>1. IsFiniteSet(S) /\ Cardinality(S) \in Nat
  BY CallersFinite
<1>2. c \notin S => Cardinality(S \cup {c}) = Cardinality(S) + 1
  BY <1>1, FS_AddElement
<1>3. c \in S => Cardinality(S \ {c}) = Cardinality(S) - 1
  BY <1>1, FS_RemoveElement
<1>4. Cardinality(S \ {c}) \in Nat
  BY CallersFinite
<1>5. c \in S => Cardinality(S) >= 1
  BY <1>1, <1>3, <1>4
<1> QED BY <1>2, <1>3, <1>5

\* What moving one caller does to the sets the invariants count.
LEMMA MoveSets ==
  ASSUME stage \in [Callers -> Stages], NEW c \in Callers, NEW s \in Stages, Move(c, s)
  PROVE  /\ stage' \in [Callers -> Stages]
         /\ Waiting' = IF s \in WaitingStages THEN Waiting \cup {c} ELSE Waiting \ {c}
         /\ Active' = IF s = "active" THEN Active \cup {c} ELSE Active \ {c}
         /\ Paid' = IF s \in {"tokens", "slot", "active", "done"}
                    THEN Paid \cup {c} ELSE Paid \ {c}
<1>1. stage' \in [Callers -> Stages] /\ stage'[c] = s
  BY DEF Move
<1>2. \A d \in Callers : d # c => stage'[d] = stage[d]
  BY DEF Move
<1>3. Waiting' = IF s \in WaitingStages THEN Waiting \cup {c} ELSE Waiting \ {c}
  BY <1>1, <1>2 DEF Waiting
<1>4. Active' = IF s = "active" THEN Active \cup {c} ELSE Active \ {c}
  BY <1>1, <1>2 DEF Active
<1>5. Paid' = IF s \in {"tokens", "slot", "active", "done"}
              THEN Paid \cup {c} ELSE Paid \ {c}
  BY <1>1, <1>2 DEF Paid
<1> QED BY <1>1, <1>3, <1>4, <1>5

\* Taking an element out of the middle of a sequence leaves a sequence.
LEMMA RemoveAtType ==
  ASSUME NEW S, NEW s \in Seq(S), NEW i \in DOMAIN s
  PROVE  RemoveAt(s, i) \in Seq(S)
BY DEF RemoveAt
-----------------------------------------------------------------------------
LEMMA InitIInv == Init => IInv
<1> SUFFICES ASSUME Init PROVE IInv
  OBVIOUS
<1>1. TypeOK
  BY LimitsAssumption, EmptySeq DEF Init, TypeOK, Stages, Requests!Fill, Tokens!Fill
<1>2. Waiting = {} /\ Active = {} /\ Paid = {}
  BY DEF Init, Waiting, Active, Paid, WaitingStages
<1>3. Cardinality({}) = 0
  BY FS_EmptySet
<1> QED
  BY <1>1, <1>2, <1>3, LimitsAssumption
  DEF Init, IInv, SlotsConserved, GaugesExact, RequestBooks, TokensPaced,
      Requests!Fill, Tokens!Fill

\* Every step keeps the inductive invariant, one action at a time.
LEMMA EnterIInv ==
  ASSUME IInv, NEW c \in Callers, NEW n \in Reservations, Enter(c, n)
  PROVE  IInv'
<1>1. stage \in [Callers -> Stages] /\ "request" \in Stages /\ Move(c, "request")
  BY DEF IInv, TypeOK, Stages, WaitingStages, Enter
<1>2. /\ stage' \in [Callers -> Stages]
      /\ Waiting' = Waiting \cup {c} /\ Active' = Active \ {c} /\ Paid' = Paid \ {c}
  BY <1>1, MoveSets DEF WaitingStages
<1>3. c \notin Waiting /\ c \notin Active /\ c \notin Paid
  BY DEF Enter, Waiting, Active, Paid, WaitingStages
<1>4. Cardinality(Waiting') = Cardinality(Waiting) + 1 /\ Active' = Active /\ Paid' = Paid
  BY <1>2, <1>3, CountOne DEF Waiting
<1>5. TypeOK'
  <2>1. n \in Nat
    BY ReservationsAssumption
  <2>2. reserved' \in [Callers -> Nat] /\ remaining' \in [Callers -> Nat] /\ queued' \in Nat
    BY <2>1 DEF IInv, TypeOK, Enter
  <2> QED
    BY <1>2, <2>2 DEF IInv, TypeOK, Enter, requestBucket, tokenBucket, semaphore
<1>6. SlotsConserved' /\ GaugesExact' /\ RequestBooks' /\ TokensPaced'
  BY <1>4 DEF IInv, SlotsConserved, GaugesExact, RequestBooks, TokensPaced, Enter,
              requestBucket, tokenBucket, semaphore
<1> QED BY <1>5, <1>6 DEF IInv

LEMMA RejectIInv ==
  ASSUME IInv, NEW c \in Callers, RejectRequest(c)
  PROVE  IInv'
<1>1. stage \in [Callers -> Stages] /\ "rejected" \in Stages /\ Move(c, "rejected")
  BY DEF IInv, TypeOK, Stages, WaitingStages, RejectRequest
<1>2. /\ stage' \in [Callers -> Stages]
      /\ Waiting' = Waiting \ {c} /\ Active' = Active \ {c} /\ Paid' = Paid \ {c}
  BY <1>1, MoveSets DEF WaitingStages
<1>3. c \in Waiting /\ c \notin Active /\ c \notin Paid
  BY DEF RejectRequest, Waiting, Active, Paid, WaitingStages
<1>4. /\ Cardinality(Waiting') = Cardinality(Waiting) - 1 /\ Cardinality(Waiting) >= 1
      /\ Active' = Active /\ Paid' = Paid
  BY <1>2, <1>3, CountOne DEF Waiting
<1>5. TypeOK'
  BY <1>2, <1>4 DEF IInv, TypeOK, GaugesExact, RejectRequest, requestBucket, tokenBucket, semaphore
<1>6. SlotsConserved' /\ GaugesExact' /\ RequestBooks' /\ TokensPaced'
  BY <1>4 DEF IInv, SlotsConserved, GaugesExact, RequestBooks, TokensPaced, RejectRequest,
              requestBucket, tokenBucket, semaphore
<1> QED BY <1>5, <1>6 DEF IInv

LEMMA TakeRequestIInv ==
  ASSUME IInv, NEW c \in Callers, TakeRequest(c)
  PROVE  IInv'
<1>1. stage \in [Callers -> Stages] /\ "tokens" \in Stages /\ Move(c, "tokens")
  BY DEF IInv, TypeOK, Stages, WaitingStages, TakeRequest
<1>2. /\ stage' \in [Callers -> Stages]
      /\ Waiting' = Waiting \cup {c} /\ Active' = Active \ {c} /\ Paid' = Paid \cup {c}
  BY <1>1, MoveSets DEF WaitingStages
<1>3. c \in Waiting /\ c \notin Active /\ c \notin Paid
  BY DEF TakeRequest, Waiting, Active, Paid, WaitingStages
<1>4. /\ Waiting' = Waiting /\ Active' = Active
      /\ Cardinality(Paid') = Cardinality(Paid) + 1 /\ Cardinality(Paid) \in Nat
  BY <1>2, <1>3, CountOne, CallersFinite DEF Paid
<1>5. TypeOK'
  BY <1>2, LimitsAssumption
  DEF IInv, TypeOK, TakeRequest, Requests!Debit, requestBucket, tokenBucket, semaphore
<1>6. SlotsConserved' /\ GaugesExact' /\ TokensPaced'
  BY <1>4 DEF IInv, SlotsConserved, GaugesExact, TokensPaced, TakeRequest,
              tokenBucket, semaphore
<1>7. RequestBooks'
  <2> SUFFICES ASSUME HasRequestBucket
               PROVE  /\ requestLevel' + requestSpent' <= RequestBurst + requestMinted'
                      /\ RequestCost * Cardinality(Paid') <= requestSpent'
    BY DEF RequestBooks
  <2>1. /\ requestLevel' = requestLevel - RequestCost
        /\ requestSpent' = requestSpent + RequestCost
        /\ requestMinted' = requestMinted
    BY DEF TakeRequest, Requests!Debit
  <2>2. /\ RequestCost \in Nat /\ requestSpent \in Int /\ requestMinted \in Nat
        /\ requestLevel \in Int /\ RequestBurst \in Nat
    BY LimitsAssumption DEF IInv, TypeOK
  <2>3. RequestCost * (Cardinality(Paid) + 1) = RequestCost * Cardinality(Paid) + RequestCost
    BY <1>4, <2>2
  <2>4. /\ requestLevel + requestSpent <= RequestBurst + requestMinted
        /\ RequestCost * Cardinality(Paid) <= requestSpent
    BY DEF IInv, RequestBooks
  <2>5. RequestCost * Cardinality(Paid) \in Int
    BY <1>4, <2>2
  <2>6. RequestCost * Cardinality(Paid') <= requestSpent'
    BY <1>4, <2>1, <2>2, <2>3, <2>4, <2>5
  <2> QED BY <2>1, <2>2, <2>4, <2>6
<1> QED BY <1>5, <1>6, <1>7 DEF IInv

LEMMA TakeTokensIInv ==
  ASSUME IInv, NEW c \in Callers, TakeTokens(c)
  PROVE  IInv'
<1>1. Waiting' = Waiting /\ Active' = Active /\ Paid' = Paid
  BY DEF TakeTokens, Waiting, Active, Paid
<1>2. Chunk(c) \in Nat /\ Chunk(c) <= remaining[c] /\ remaining[c] \in Nat
  BY LimitsAssumption DEF IInv, TypeOK, Chunk, Tokens!AtMost
<1>3. /\ tokenLevel >= Chunk(c)
      /\ tokenLevel' = tokenLevel - Chunk(c)
      /\ tokenSpent' = tokenSpent + Chunk(c) /\ tokenMinted' = tokenMinted
  BY DEF TakeTokens, Tokens!Debit
<1>4. tokenLevel' \in 0 .. TokenBurst /\ tokenSpent' \in Int /\ tokenMinted' \in Nat
  BY <1>2, <1>3, LimitsAssumption DEF IInv, TypeOK
<1>5. remaining' \in [Callers -> Nat]
  BY <1>2 DEF TakeTokens, IInv, TypeOK
<1>6. TypeOK'
  BY <1>4, <1>5 DEF IInv, TypeOK, TakeTokens, requestBucket, semaphore
<1>7. TokensPaced'
  BY <1>2, <1>3, LimitsAssumption DEF IInv, TypeOK, TokensPaced
<1>8. SlotsConserved' /\ GaugesExact' /\ RequestBooks'
  BY <1>1 DEF IInv, SlotsConserved, GaugesExact, RequestBooks, TakeTokens,
              requestBucket, semaphore
<1> QED BY <1>6, <1>7, <1>8 DEF IInv

LEMMA ReachSemaphoreIInv ==
  ASSUME IInv, NEW c \in Callers, ReachSemaphore(c)
  PROVE  IInv'
<1>1. stage \in [Callers -> Stages] /\ "slot" \in Stages /\ Move(c, "slot")
  BY DEF IInv, TypeOK, Stages, WaitingStages, ReachSemaphore
<1>2. /\ stage' \in [Callers -> Stages]
      /\ Waiting' = Waiting \cup {c} /\ Active' = Active \ {c} /\ Paid' = Paid \cup {c}
  BY <1>1, MoveSets DEF WaitingStages
<1>3. c \in Waiting /\ c \notin Active /\ c \in Paid
  BY DEF ReachSemaphore, Waiting, Active, Paid, WaitingStages
<1>4. Waiting' = Waiting /\ Active' = Active /\ Paid' = Paid
  BY <1>2, <1>3
<1>5. waiters' \in Seq(Callers)
  BY DEF ReachSemaphore, IInv, TypeOK
<1>6. TypeOK'
  BY <1>2, <1>5 DEF IInv, TypeOK, ReachSemaphore, requestBucket, tokenBucket
<1>7. SlotsConserved' /\ GaugesExact' /\ RequestBooks' /\ TokensPaced'
  BY <1>4 DEF IInv, SlotsConserved, GaugesExact, RequestBooks, TokensPaced, ReachSemaphore,
              requestBucket, tokenBucket
<1> QED BY <1>6, <1>7 DEF IInv

LEMMA TakeSlotIInv ==
  ASSUME IInv, NEW c \in Callers, TakeSlot(c)
  PROVE  IInv'
<1>1. stage \in [Callers -> Stages] /\ "active" \in Stages /\ Move(c, "active")
  BY DEF IInv, TypeOK, Stages, WaitingStages, TakeSlot
<1>2. /\ stage' \in [Callers -> Stages]
      /\ Waiting' = Waiting \ {c} /\ Active' = Active \cup {c} /\ Paid' = Paid \cup {c}
  BY <1>1, MoveSets DEF WaitingStages
<1>3. c \in Waiting /\ c \notin Active /\ c \in Paid
  BY DEF TakeSlot, Waiting, Active, Paid, WaitingStages
<1>4. /\ Cardinality(Waiting') = Cardinality(Waiting) - 1 /\ Cardinality(Waiting) >= 1
      /\ Cardinality(Active') = Cardinality(Active) + 1 /\ Cardinality(Active) \in Nat
      /\ Paid' = Paid
  BY <1>2, <1>3, CountOne, CallersFinite DEF Waiting, Active
<1>5. slots' \in 0 .. MaxConcurrency /\ waiters' \in Seq(Callers)
  <2>1. CASE HasSemaphore
    <3>1. slots \in 0 .. MaxConcurrency /\ MaxConcurrency \in Nat /\ waiters \in Seq(Callers)
      BY LimitsAssumption DEF IInv, TypeOK
    <3>2. slots > 0 /\ slots' = slots - 1 /\ waiters # <<>> /\ waiters' = Tail(waiters)
      BY <2>1 DEF TakeSlot
    <3>3. Tail(waiters) \in Seq(Callers)
      BY <3>1, <3>2, HeadTailProperties
    <3> QED BY <3>1, <3>2, <3>3
  <2>2. CASE ~HasSemaphore
    BY <2>2 DEF TakeSlot, IInv, TypeOK, semaphore
  <2> QED BY <2>1, <2>2
<1>6. TypeOK'
  <2>1. queued' \in Nat /\ active' \in Nat
    <3>1. queued \in Nat /\ active \in Nat /\ queued = Cardinality(Waiting)
      BY DEF IInv, TypeOK, GaugesExact
    <3>2. queued' = queued - 1 /\ active' = active + 1
      BY DEF TakeSlot
    <3> QED BY <1>4, <3>1, <3>2
  <2> QED
    BY <1>2, <1>5, <2>1 DEF IInv, TypeOK, TakeSlot, requestBucket, tokenBucket
<1>7. SlotsConserved'
  BY <1>4, LimitsAssumption DEF IInv, TypeOK, SlotsConserved, TakeSlot
<1>8. GaugesExact' /\ RequestBooks' /\ TokensPaced'
  BY <1>4 DEF IInv, GaugesExact, RequestBooks, TokensPaced, TakeSlot, requestBucket, tokenBucket
<1> QED BY <1>6, <1>7, <1>8 DEF IInv

LEMMA CancelIInv ==
  ASSUME IInv, NEW c \in Callers, Cancel(c)
  PROVE  IInv'
<1>1. stage \in [Callers -> Stages] /\ "cancelled" \in Stages /\ Move(c, "cancelled")
  BY DEF IInv, TypeOK, Stages, WaitingStages, Cancel
<1>2. /\ stage' \in [Callers -> Stages]
      /\ Waiting' = Waiting \ {c} /\ Active' = Active \ {c} /\ Paid' = Paid \ {c}
  BY <1>1, MoveSets DEF WaitingStages
<1>3. c \in Waiting /\ c \notin Active
  BY DEF Cancel, Waiting, Active, WaitingStages
<1>4. /\ Cardinality(Waiting') = Cardinality(Waiting) - 1 /\ Cardinality(Waiting) >= 1
      /\ Active' = Active
      /\ Cardinality(Paid') <= Cardinality(Paid)
      /\ Cardinality(Paid) \in Nat /\ Cardinality(Paid') \in Nat
  <2>1. c \notin Paid => Paid' = Paid
    BY <1>2
  <2>2. Paid \in SUBSET Callers /\ Paid' \in SUBSET Callers
    <3>1. Paid \in SUBSET Callers
      BY DEF Paid
    <3> QED BY <1>2, <3>1
  <2>3. Cardinality(Paid) \in Nat /\ Cardinality(Paid') \in Nat
    BY <2>2, CallersFinite
  <2>4. c \in Paid => Cardinality(Paid') = Cardinality(Paid) - 1
    BY <1>2, <2>2, CountOne
  <2>5. Cardinality(Paid') <= Cardinality(Paid)
    BY <2>1, <2>3, <2>4
  <2> QED BY <1>2, <1>3, <2>3, <2>5, CountOne DEF Waiting
<1>5. waiters' \in Seq(Callers)
  <2>1. waiters \in Seq(Callers)
    BY DEF IInv, TypeOK
  <2>2. CASE HasSemaphore /\ stage[c] = "slot"
    <3>1. PICK i \in DOMAIN waiters : waiters' = RemoveAt(waiters, i)
      BY <2>2 DEF Cancel, LeaveLine
    <3> QED BY <2>1, <3>1, RemoveAtType
  <2>3. CASE ~(HasSemaphore /\ stage[c] = "slot")
    BY <2>1, <2>3 DEF Cancel, LeaveLine
  <2> QED BY <2>2, <2>3
<1>6. TypeOK'
  BY <1>2, <1>4, <1>5 DEF IInv, TypeOK, GaugesExact, Cancel, requestBucket, tokenBucket
<1>7. SlotsConserved' /\ GaugesExact' /\ TokensPaced'
  BY <1>4 DEF IInv, SlotsConserved, GaugesExact, TokensPaced, Cancel, tokenBucket
<1>8. RequestBooks'
  <2>1. RequestCost * Cardinality(Paid') <= RequestCost * Cardinality(Paid)
    BY <1>4, LimitsAssumption
  <2>2. RequestCost * Cardinality(Paid') \in Int /\ RequestCost * Cardinality(Paid) \in Int
    BY <1>4, LimitsAssumption
  <2> QED BY <2>1, <2>2 DEF IInv, TypeOK, RequestBooks, Cancel, requestBucket
<1> QED BY <1>6, <1>7, <1>8 DEF IInv

LEMMA ReleaseIInv ==
  ASSUME IInv, NEW c \in Callers, NEW u \in Usages \cup {NoUsage}, Release(c, u)
  PROVE  IInv'
<1>1. stage \in [Callers -> Stages] /\ "done" \in Stages /\ Move(c, "done")
  BY DEF IInv, TypeOK, Stages, WaitingStages, Release
<1>2. /\ stage' \in [Callers -> Stages]
      /\ Waiting' = Waiting \ {c} /\ Active' = Active \ {c} /\ Paid' = Paid \cup {c}
  BY <1>1, MoveSets DEF WaitingStages
<1>3. c \notin Waiting /\ c \in Active /\ c \in Paid
  BY DEF Release, Waiting, Active, Paid, WaitingStages
<1>4. /\ Waiting' = Waiting /\ Paid' = Paid
      /\ Cardinality(Active') = Cardinality(Active) - 1 /\ Cardinality(Active) >= 1
  BY <1>2, <1>3, CountOne DEF Active
<1>5. Cardinality(Active) \in Nat /\ Cardinality(Active') \in Nat
  BY <1>2, CallersFinite DEF Active
<1>6. slots' \in 0 .. MaxConcurrency /\ SlotsConserved'
  <2>1. slots \in 0 .. MaxConcurrency /\ MaxConcurrency \in Nat
    BY LimitsAssumption DEF IInv, TypeOK
  <2>2. CASE HasSemaphore
    <3>1. slots' = slots + 1 /\ slots + Cardinality(Active) = MaxConcurrency
      BY <2>2 DEF Release, IInv, SlotsConserved
    <3> QED BY <1>4, <1>5, <2>1, <2>2, <3>1 DEF SlotsConserved
  <2>3. CASE ~HasSemaphore
    BY <2>1, <2>3 DEF Release, SlotsConserved
  <2> QED BY <2>2, <2>3
<1>7. active' \in Nat /\ GaugesExact'
  BY <1>4, <1>5 DEF IInv, TypeOK, GaugesExact, Release
<1>8. /\ tokenLevel' \in 0 .. TokenBurst /\ tokenSpent' \in Int /\ tokenMinted' \in Nat
      /\ TokensPaced'
  <2>1. /\ tokenLevel \in 0 .. TokenBurst /\ tokenSpent \in Int /\ tokenMinted \in Nat
        /\ TokensPaced /\ reserved[c] \in Nat /\ TokenBurst \in Nat
    BY LimitsAssumption DEF IInv, TypeOK
  <2>2. CASE HasTokenBucket /\ u # NoUsage
    <3>1. u \in Nat /\ reserved[c] - u \in Int
      BY <2>1, <2>2, UsagesAssumption
    <3>2. Tokens!Credit(TokenBurst, reserved[c] - u)
      BY <2>2 DEF Release
    <3> QED
      BY <2>1, <3>1, <3>2 DEF TokensPaced, Tokens!Credit, Tokens!AtMost, Tokens!bucketVars
  <2>3. CASE ~(HasTokenBucket /\ u # NoUsage)
    BY <2>1, <2>3 DEF Release, tokenBucket, TokensPaced
  <2> QED BY <2>2, <2>3
<1>9. usage' \in [Callers -> Usages \cup {NoUsage}]
  BY DEF IInv, TypeOK, Release
<1>10. TypeOK'
  BY <1>2, <1>4, <1>6, <1>7, <1>8, <1>9 DEF IInv, TypeOK, Release, requestBucket
<1>11. RequestBooks'
  BY <1>4 DEF IInv, RequestBooks, Release, requestBucket
<1> QED BY <1>6, <1>7, <1>8, <1>10, <1>11 DEF IInv

LEMMA RefillIInv ==
  ASSUME IInv, RefillRequests \/ RefillTokens
  PROVE  IInv'
<1>1. Waiting' = Waiting /\ Active' = Active /\ Paid' = Paid
  BY DEF RefillRequests, RefillTokens, Waiting, Active, Paid
<1>2. TypeOK' /\ TokensPaced'
  <2>1. CASE RefillRequests
    BY <2>1, LimitsAssumption
    DEF IInv, TypeOK, TokensPaced, RefillRequests, Requests!Tick, tokenBucket, semaphore
  <2>2. CASE RefillTokens
    BY <2>2, LimitsAssumption
    DEF IInv, TypeOK, TokensPaced, RefillTokens, Tokens!Tick, requestBucket, semaphore
  <2> QED BY <2>1, <2>2
<1>3. SlotsConserved' /\ GaugesExact'
  BY <1>1 DEF IInv, SlotsConserved, GaugesExact, RefillRequests, RefillTokens, semaphore
<1>4. RequestBooks'
  <2>1. CASE RefillRequests
    BY <1>1, <2>1, LimitsAssumption DEF IInv, TypeOK, RequestBooks, RefillRequests, Requests!Tick
  <2>2. CASE RefillTokens
    BY <1>1, <2>2 DEF IInv, RequestBooks, RefillTokens, requestBucket
  <2> QED BY <2>1, <2>2
<1> QED BY <1>2, <1>3, <1>4 DEF IInv

LEMMA StutterIInv ==
  ASSUME IInv, UNCHANGED vars
  PROVE  IInv'
<1>1. Waiting' = Waiting /\ Active' = Active /\ Paid' = Paid
  BY DEF vars, Waiting, Active, Paid
<1> QED
  BY <1>1 DEF vars, requestBucket, tokenBucket, semaphore, IInv, TypeOK, SlotsConserved,
              GaugesExact, RequestBooks, TokensPaced

LEMMA NextIInv == IInv /\ [Next]_vars => IInv'
<1> SUFFICES ASSUME IInv, [Next]_vars PROVE IInv'
  OBVIOUS
<1>1. CASE \E c \in Callers, n \in Reservations : Enter(c, n)
  BY <1>1, EnterIInv
<1>2. CASE \E c \in Callers : RejectRequest(c)
  BY <1>2, RejectIInv
<1>3. CASE \E c \in Callers : TakeRequest(c)
  BY <1>3, TakeRequestIInv
<1>4. CASE \E c \in Callers : TakeTokens(c)
  BY <1>4, TakeTokensIInv
<1>5. CASE \E c \in Callers : ReachSemaphore(c)
  BY <1>5, ReachSemaphoreIInv
<1>6. CASE \E c \in Callers : TakeSlot(c)
  BY <1>6, TakeSlotIInv
<1>7. CASE \E c \in Callers : Cancel(c)
  BY <1>7, CancelIInv
<1>8. CASE \E c \in Callers, u \in Usages \cup {NoUsage} : Release(c, u)
  BY <1>8, ReleaseIInv
<1>9. CASE RefillRequests \/ RefillTokens
  BY <1>9, RefillIInv
<1>10. CASE Quiescent \/ UNCHANGED vars
  BY <1>10, StutterIInv DEF Quiescent
<1> QED
  BY <1>1, <1>2, <1>3, <1>4, <1>5, <1>6, <1>7, <1>8, <1>9, <1>10 DEF Next

\* IInv holds in every state of every behaviour.
THEOREM Invariance == Spec => []IInv
BY InitIInv, NextIInv, PTL DEF Spec

\* Types and ranges for every instance: no level or slot count ever leaves
\* its bounds (TypeOK of Capacity).
THEOREM TypeCorrect == Spec => []TypeOK
BY Invariance, PTL DEF IInv

\* No order of cancellations, rejections and releases loses or invents a slot.
THEOREM SlotsAreConserved == Spec => []SlotsConserved
BY Invariance, PTL DEF IInv

\* The gauges `queued' and `active' always equal the numbers they stand for.
THEOREM GaugesAreExact == Spec => []GaugesExact
BY Invariance, PTL DEF IInv

\* The RPM limit holds for every burst, cost and number of callers.
THEOREM RequestsArePaced == Spec => []RequestsPaced
<1>1. IInv => RequestsPaced
  <2> SUFFICES ASSUME IInv, HasRequestBucket
               PROVE  RequestCost * Cardinality(Paid) <= RequestBurst + requestMinted
    BY DEF RequestsPaced
  <2>1. Cardinality(Paid) \in Nat
    BY CallersFinite DEF Paid
  <2>2. RequestCost * Cardinality(Paid) \in Int
    BY <2>1, LimitsAssumption
  <2>3. /\ requestLevel >= 0 /\ requestLevel \in Int /\ requestSpent \in Int
        /\ requestMinted \in Nat /\ RequestBurst \in Nat
    BY LimitsAssumption DEF IInv, TypeOK
  <2> QED BY <2>2, <2>3 DEF IInv, RequestBooks
<1> QED BY <1>1, Invariance, PTL

\* The TPM limit holds whatever is reserved, chunked, cancelled and refunded.
THEOREM TokensArePaced == Spec => []TokensPaced
BY Invariance, PTL DEF IInv

\* Both limits hold at once.
THEOREM CallsArePaced == Spec => []Paced
BY RequestsArePaced, TokensArePaced, PTL DEF Paced

-----------------------------------------------------------------------------
(* Sums over a finite set.  SumFunction is a recursive function on the     *)
(* subsets of its domain: that there is such a function, and what it adds  *)
(* up to, is by induction over the number of elements.                     *)

\* Induction over the naturals, stated for a set in place of a predicate.
LEMMA NaturalsIn ==
  ASSUME NEW G, 0 \in G, \A n \in Nat : n \in G => n + 1 \in G
  PROVE  Nat \subseteq G
<1> SUFFICES ASSUME Nat \ G # {} PROVE FALSE
  OBVIOUS
<1>1. PICK m \in Nat \ G : \A n \in Nat \ G : ~(<<n, m>> \in OpToRel(<, Nat))
  BY NatLessThanWellFounded, WFMin, Zenon
<1>2. m # 0 /\ m - 1 \in Nat /\ m - 1 < m /\ (m - 1) + 1 = m
  OBVIOUS
<1>3. m - 1 \notin G
  BY <1>2
<1>4. <<m - 1, m>> \in OpToRel(<, Nat)
  BY <1>2 DEF OpToRel
<1> QED BY <1>1, <1>2, <1>3, <1>4

\* The element a fold takes next.
First(S) == CHOOSE x \in S : TRUE

\* What a sum over a set is computed from.
Adds(iter, f, S) ==
  iter = [T \in SUBSET S |-> IF T = {} THEN 0 ELSE f[First(T)] + iter[T \ {First(T)}]]

\* A finite set has such a function.
LEMMA AddsExists ==
  ASSUME NEW S, IsFiniteSet(S), NEW f \in [S -> Int]
  PROVE  \E iter : Adds(iter, f, S)
<1> DEFINE More(g) == [T \in SUBSET S |-> IF T = {} THEN 0 ELSE f[First(T)] + g[T \ {First(T)}]]
           Upto(n) == \E g \in [SUBSET S -> Int] :
                        \A T \in SUBSET S : Cardinality(T) <= n => g[T] = More(g)[T]
           G == {n \in Nat : Upto(n)}
<1>1. \A T \in SUBSET S : /\ IsFiniteSet(T) /\ Cardinality(T) \in Nat
                          /\ T = {} <=> Cardinality(T) = 0
  BY FS_Subset, FS_CardinalityType, FS_EmptySet
<1>2. \A T \in SUBSET S : T # {} => /\ First(T) \in T /\ T \ {First(T)} \in SUBSET S
                                    /\ Cardinality(T \ {First(T)}) = Cardinality(T) - 1
  BY <1>1, FS_RemoveElement DEF First
<1>3. ASSUME NEW g \in [SUBSET S -> Int]
      PROVE  More(g) \in [SUBSET S -> Int]
  <2>1. ASSUME NEW T \in SUBSET S, T # {}
        PROVE  f[First(T)] + g[T \ {First(T)}] \in Int
    <3>1. First(T) \in S /\ T \ {First(T)} \in SUBSET S
      BY <1>2, <2>1
    <3>2. f[First(T)] \in Int /\ g[T \ {First(T)}] \in Int
      BY <3>1
    <3> QED BY <3>2
  <2> QED BY <2>1
<1>4. 0 \in G
  <2> DEFINE g == [T \in SUBSET S |-> 0]
  <2>1. g \in [SUBSET S -> Int]
    OBVIOUS
  <2>2. \A T \in SUBSET S : Cardinality(T) <= 0 => g[T] = More(g)[T]
    BY <1>1
  <2> QED BY <2>1, <2>2
<1>5. ASSUME NEW n \in Nat, n \in G
      PROVE  n + 1 \in G
  <2>1. PICK g \in [SUBSET S -> Int] :
               \A T \in SUBSET S : Cardinality(T) <= n => g[T] = More(g)[T]
    BY <1>5
  <2>2. ASSUME NEW T \in SUBSET S, Cardinality(T) <= n + 1
        PROVE  More(g)[T] = More(More(g))[T]
    <3>1. CASE T = {}
      BY <3>1
    <3>2. CASE T # {}
      <4>1. Cardinality(T \ {First(T)}) <= n
        BY <1>1, <1>2, <2>2, <3>2
      <4>2. g[T \ {First(T)}] = More(g)[T \ {First(T)}]
        BY <1>2, <2>1, <3>2, <4>1
      <4> QED BY <1>2, <3>2, <4>2
    <3> QED BY <3>1, <3>2
  <2>3. More(g) \in [SUBSET S -> Int]
    BY <1>3
  <2> HIDE DEF More
  <2> QED BY <2>2, <2>3
<1>6. Cardinality(S) \in Nat /\ Nat \subseteq G
  <2> HIDE DEF G
  <2> QED BY <1>1, <1>4, <1>5, NaturalsIn
<1>7. PICK g \in [SUBSET S -> Int] :
             \A T \in SUBSET S : Cardinality(T) <= Cardinality(S) => g[T] = More(g)[T]
  BY <1>6
<1>8. \A T \in SUBSET S : Cardinality(T) <= Cardinality(S)
  BY FS_Subset
<1>9. g = More(g)
  <2> HIDE DEF More
  <2>1. \A T \in SUBSET S : g[T] = More(g)[T]
    BY <1>7, <1>8
  <2>2. More(g) \in [SUBSET S -> Int]
    BY <1>3
  <2> QED BY <2>1, <2>2
<1> QED BY <1>9 DEF Adds

\* The partial sums: integers, zero for no element, one element at a time.
PartialSums(sum, f, S) ==
  /\ sum \in [SUBSET S -> Int]
  /\ sum[{}] = 0
  /\ \A T \in SUBSET S : T # {} =>
       /\ First(T) \in T /\ T \ {First(T)} \in SUBSET S
       /\ Cardinality(T \ {First(T)}) = Cardinality(T) - 1
       /\ sum[T] = f[First(T)] + sum[T \ {First(T)}]

LEMMA AddsFacts ==
  ASSUME NEW S, IsFiniteSet(S), NEW f \in [S -> Int], NEW iter, Adds(iter, f, S)
  PROVE  PartialSums(iter, f, S)
<1> DEFINE G == {n \in Nat : \A T \in SUBSET S : Cardinality(T) = n => iter[T] \in Int}
<1>1. \A T \in SUBSET S : /\ IsFiniteSet(T) /\ Cardinality(T) \in Nat
                          /\ T = {} <=> Cardinality(T) = 0
  BY FS_Subset, FS_CardinalityType, FS_EmptySet
<1>2. \A T \in SUBSET S : T # {} => /\ First(T) \in T /\ T \ {First(T)} \in SUBSET S
                                    /\ Cardinality(T \ {First(T)}) = Cardinality(T) - 1
  BY <1>1, FS_RemoveElement DEF First
<1>3. iter[{}] = 0
  BY DEF Adds
<1>4. \A T \in SUBSET S : T # {} => iter[T] = f[First(T)] + iter[T \ {First(T)}]
  BY DEF Adds
<1>5. 0 \in G
  BY <1>1, <1>3
<1>6. ASSUME NEW n \in Nat, n \in G
      PROVE  n + 1 \in G
  <2> SUFFICES ASSUME NEW T \in SUBSET S, Cardinality(T) = n + 1
               PROVE  iter[T] \in Int
    OBVIOUS
  <2>1. T # {}
    BY <1>1
  <2>2. Cardinality(T \ {First(T)}) = n /\ T \ {First(T)} \in SUBSET S /\ First(T) \in S
    BY <1>2, <2>1
  <2>3. iter[T \ {First(T)}] \in Int
    BY <1>6, <2>2
  <2>4. f[First(T)] \in Int
    BY <2>2
  <2> QED BY <1>4, <2>1, <2>3, <2>4
<1>7. Nat \subseteq G
  <2> HIDE DEF G
  <2> QED BY <1>5, <1>6, NaturalsIn
<1>8. \A T \in SUBSET S : iter[T] \in Int
  BY <1>1, <1>7
<1>9. iter = [T \in SUBSET S |-> iter[T]]
  BY DEF Adds
<1>10. iter \in [SUBSET S -> Int]
  BY <1>8, <1>9
<1> QED BY <1>2, <1>3, <1>4, <1>10 DEF PartialSums

\* SumFunction is the value of such a function at the whole domain.
LEMMA SumIsPartial ==
  ASSUME NEW S, IsFiniteSet(S), NEW f \in [S -> Int]
  PROVE  \E sum : PartialSums(sum, f, S) /\ SumFunction(f) = sum[S]
<1> DEFINE iter == CHOOSE iter : Adds(iter, f, S)
<1>1. Adds(iter, f, S)
  BY AddsExists
<1>2. DOMAIN f = S
  OBVIOUS
<1>3. SumFunction(f) = iter[S]
  BY <1>2 DEF SumFunction, SumFunctionOnSet, FoldFunctionOnSet, MapThenFoldSet, Adds, First
<1>4. PartialSums(iter, f, S)
  BY <1>1, AddsFacts
<1> QED BY <1>3, <1>4

\* A sum is an integer; of zeros it is zero.
LEMMA SumType ==
  ASSUME NEW S, IsFiniteSet(S), NEW f \in [S -> Int]
  PROVE  SumFunction(f) \in Int
<1>1. PICK sum : PartialSums(sum, f, S) /\ SumFunction(f) = sum[S]
  BY SumIsPartial
<1> QED BY <1>1 DEF PartialSums

\* Changing one term changes the sum by as much.
LEMMA SumChange ==
  ASSUME NEW S, IsFiniteSet(S), NEW f \in [S -> Int], NEW g \in [S -> Int], NEW c \in S,
         \A x \in S \ {c} : g[x] = f[x]
  PROVE  SumFunction(g) = SumFunction(f) + (g[c] - f[c])
<1>1. PICK a : PartialSums(a, f, S) /\ SumFunction(f) = a[S]
  BY SumIsPartial
<1>2. PICK b : PartialSums(b, g, S) /\ SumFunction(g) = b[S]
  BY SumIsPartial
<1> DEFINE d == g[c] - f[c]
           Holds(T) == b[T] = a[T] + (IF c \in T THEN d ELSE 0)
           G == {n \in Nat : \A T \in SUBSET S : Cardinality(T) = n => Holds(T)}
<1>3. \A T \in SUBSET S : /\ Cardinality(T) \in Nat /\ a[T] \in Int /\ b[T] \in Int
                          /\ T = {} <=> Cardinality(T) = 0
  BY <1>1, <1>2, FS_Subset, FS_CardinalityType, FS_EmptySet DEF PartialSums
<1>4. d \in Int
  OBVIOUS
<1>5. 0 \in G
  <2>1. a[{}] = 0 /\ b[{}] = 0
    BY <1>1, <1>2 DEF PartialSums
  <2>2. Holds({})
    BY <2>1
  <2>3. \A T \in SUBSET S : Cardinality(T) = 0 => T = {}
    BY <1>3
  <2> HIDE DEF Holds
  <2> QED BY <2>2, <2>3
<1>6. ASSUME NEW n \in Nat, n \in G
      PROVE  n + 1 \in G
  <2> SUFFICES ASSUME NEW T \in SUBSET S, Cardinality(T) = n + 1
               PROVE  Holds(T)
    OBVIOUS
  <2> DEFINE x == First(T)
             U == T \ {First(T)}
  <2>1. T # {}
    BY <1>3
  <2>2. x \in T /\ U \in SUBSET S /\ Cardinality(U) = n
    BY <1>1, <2>1 DEF PartialSums
  <2>3. a[T] = f[x] + a[U] /\ b[T] = g[x] + b[U]
    BY <1>1, <1>2, <2>1 DEF PartialSums
  <2>4. Holds(U)
    BY <1>6, <2>2
  <2>5. f[x] \in Int /\ g[x] \in Int /\ a[U] \in Int /\ b[U] \in Int
    BY <1>3, <2>2
  <2>6. CASE x = c
    <3>1. c \in T /\ c \notin U
      BY <2>2, <2>6
    <3> HIDE DEF x, U
    <3> QED BY <2>3, <2>4, <2>5, <2>6, <3>1
  <2>7. CASE x # c
    <3>1. (c \in T <=> c \in U) /\ g[x] = f[x]
      BY <2>2, <2>7
    <3> HIDE DEF x, U
    <3> QED BY <1>4, <2>3, <2>4, <2>5, <3>1
  <2> QED BY <2>6, <2>7
<1>7. Nat \subseteq G
  <2> HIDE DEF G
  <2> QED BY <1>5, <1>6, NaturalsIn
<1>8. Holds(S)
  BY <1>3, <1>7
<1> QED BY <1>1, <1>2, <1>8

\* The sum of zeros is zero.
LEMMA SumZero ==
  ASSUME NEW S, IsFiniteSet(S)
  PROVE  SumFunction([x \in S |-> 0]) = 0
<1> DEFINE f == [x \in S |-> 0]
<1>0. f \in [S -> Int]
  OBVIOUS
<1>1. PICK a : PartialSums(a, f, S) /\ SumFunction(f) = a[S]
  BY <1>0, SumIsPartial
<1> DEFINE G == {n \in Nat : \A T \in SUBSET S : Cardinality(T) = n => a[T] = 0}
<1>2. \A T \in SUBSET S : Cardinality(T) \in Nat /\ (T = {} <=> Cardinality(T) = 0)
  BY FS_Subset, FS_CardinalityType, FS_EmptySet
<1>3. 0 \in G
  BY <1>0, <1>1, <1>2 DEF PartialSums
<1>4. ASSUME NEW n \in Nat, n \in G
      PROVE  n + 1 \in G
  <2> SUFFICES ASSUME NEW T \in SUBSET S, Cardinality(T) = n + 1
               PROVE  a[T] = 0
    OBVIOUS
  <2>1. T # {}
    BY <1>2
  <2>2. /\ First(T) \in S /\ T \ {First(T)} \in SUBSET S
        /\ Cardinality(T \ {First(T)}) = n
        /\ a[T] = f[First(T)] + a[T \ {First(T)}]
    BY <1>0, <1>1, <2>1 DEF PartialSums
  <2>3. a[T \ {First(T)}] = 0 /\ f[First(T)] = 0
    BY <1>4, <2>2
  <2> QED BY <2>2, <2>3
<1>5. Nat \subseteq G
  <2> HIDE DEF G
  <2> QED BY <1>3, <1>4, NaturalsIn
<1>6. a[S] = 0
  BY <1>2, <1>5
<1> QED BY <1>1, <1>6

-----------------------------------------------------------------------------
(* The books of the token bucket.                                          *)

Charges == [c \in Callers |-> Charge(c)]

\* What TokensAccounted needs besides: nobody has taken tokens before the
\* request bucket has let them pass, nor holds a slot with tokens to take.
Collected ==
  \A c \in Callers :
    /\ stage[c] \in {"idle", "request", "rejected"} => remaining[c] = reserved[c]
    /\ HasTokenBucket /\ stage[c] \in {"slot", "active"} => remaining[c] = 0

Books == Collected /\ TokensAccounted

\* Charges are integers.
LEMMA ChargesType ==
  ASSUME TypeOK
  PROVE  Charges \in [Callers -> Int]
<1> SUFFICES ASSUME NEW c \in Callers PROVE Charge(c) \in Int
  BY DEF Charges
<1>1. reserved[c] \in Nat /\ remaining[c] \in Nat /\ (usage[c] = NoUsage \/ usage[c] \in Nat)
  BY UsagesAssumption DEF TypeOK
<1> QED BY <1>1 DEF Charge

\* One caller's charge changes by what the bucket is charged.
LEMMA OneCharge ==
  ASSUME TypeOK, TokensAccounted, NEW c \in Callers, NEW d \in Int,
         \A x \in Callers \ {c} : Charge(x)' = Charge(x),
         Charge(c)' = Charge(c) + d, tokenSpent' = tokenSpent + d
  PROVE  TokensAccounted'
<1>1. Charges \in [Callers -> Int] /\ Charges' \in [Callers -> Int]
  <2>1. Charges \in [Callers -> Int]
    BY ChargesType
  <2>2. ASSUME NEW x \in Callers PROVE Charge(x) \in Int
    BY <2>1 DEF Charges
  <2>3. ASSUME NEW x \in Callers PROVE Charge(x)' \in Int
    BY <2>2
  <2> QED BY <2>1, <2>3 DEF Charges
<1>2. /\ \A x \in Callers \ {c} : (Charges')[x] = Charges[x]
      /\ Charges[c] = Charge(c) /\ (Charges')[c] = Charge(c)'
  BY DEF Charges
<1>3. SumFunction(Charges') = SumFunction(Charges) + ((Charges')[c] - Charges[c])
  BY <1>1, <1>2, CallersAssumption, SumChange
<1>4. Charge(c) \in Int
  BY <1>1, <1>2
<1>5. (Charges')[c] - Charges[c] = d
  BY <1>2, <1>4
<1>6. SumFunction(Charges)' = SumFunction(Charges')
  OBVIOUS
<1> QED BY <1>3, <1>5, <1>6 DEF TokensAccounted, Charges

\* A step that takes no tokens, and after which no call has ended, charges nobody.
LEMMA NoCharge ==
  ASSUME TokensAccounted, UNCHANGED <<reserved, remaining, usage, tokenSpent>>,
         \A x \in Callers : stage'[x] = "done" <=> stage[x] = "done"
  PROVE  TokensAccounted'
<1>1. \A x \in Callers : Charge(x)' = Charge(x)
  BY DEF Charge
<1>2. Charges' = Charges
  BY <1>1 DEF Charges
<1> QED BY <1>2 DEF TokensAccounted, Charges

\* At the start nothing is taken and nobody is charged.
LEMMA BooksInit == Init => Books
<1> SUFFICES ASSUME Init PROVE Books
  OBVIOUS
<1>1. \A c \in Callers : Charge(c) = 0
  BY DEF Init, Charge
<1>2. Charges = [c \in Callers |-> 0]
  BY <1>1 DEF Charges
<1>3. SumFunction(Charges) = 0
  BY <1>2, CallersAssumption, SumZero
<1>4. TokensAccounted
  BY <1>3 DEF TokensAccounted, Charges, Init, Tokens!Fill
<1> QED BY <1>4 DEF Books, Collected, Init

\* A new caller has taken none of what it is to reserve.
LEMMA EnterBooks ==
  ASSUME TypeOK, Books, NEW c \in Callers, NEW n \in Reservations, Enter(c, n)
  PROVE  Books'
<1>1. /\ stage[c] = "idle" /\ stage' = [stage EXCEPT ![c] = "request"]
      /\ reserved' = [reserved EXCEPT ![c] = n] /\ remaining' = [remaining EXCEPT ![c] = n]
      /\ usage' = usage /\ tokenSpent' = tokenSpent
  BY DEF Enter, Move, tokenBucket
<1>2. /\ remaining[c] = reserved[c] /\ reserved[c] \in Nat /\ n \in Nat
      /\ \A x \in Callers \ {c} : /\ stage'[x] = stage[x] /\ reserved'[x] = reserved[x]
                                  /\ remaining'[x] = remaining[x]
      /\ stage'[c] = "request" /\ reserved'[c] = n /\ remaining'[c] = n
  BY <1>1, ReservationsAssumption DEF Books, Collected, TypeOK
<1>3. Collected'
  BY <1>2 DEF Books, Collected
<1>4. \A x \in Callers \ {c} : Charge(x)' = Charge(x)
  BY <1>1, <1>2 DEF Charge
<1>5. Charge(c) = 0 /\ Charge(c)' = 0
  BY <1>1, <1>2 DEF Charge
<1>6. tokenSpent \in Int
  BY DEF TypeOK
<1>7. TokensAccounted'
  BY <1>1, <1>4, <1>5, <1>6, OneCharge DEF Books
<1> QED BY <1>3, <1>7 DEF Books

\* A turn of the chunk loop charges the chunk.
LEMMA TakeTokensBooks ==
  ASSUME TypeOK, Books, NEW c \in Callers, TakeTokens(c)
  PROVE  Books'
<1>1. /\ stage[c] = "tokens" /\ stage' = stage /\ reserved' = reserved /\ usage' = usage
      /\ remaining' = [remaining EXCEPT ![c] = @ - Chunk(c)]
      /\ tokenSpent' = tokenSpent + Chunk(c)
  BY DEF TakeTokens, Tokens!Debit
<1>2. Chunk(c) \in Int /\ remaining[c] \in Nat /\ reserved[c] \in Nat
  BY LimitsAssumption DEF TypeOK, Chunk, Tokens!AtMost
<1>3. /\ remaining'[c] = remaining[c] - Chunk(c)
      /\ \A x \in Callers \ {c} : remaining'[x] = remaining[x]
  BY <1>1 DEF TypeOK
<1>4. Collected'
  BY <1>1, <1>3 DEF Books, Collected
<1>5. \A x \in Callers \ {c} : Charge(x)' = Charge(x)
  BY <1>1, <1>3 DEF Charge
<1>6. Charge(c)' = Charge(c) + Chunk(c)
  BY <1>1, <1>2, <1>3 DEF Charge
<1>7. TokensAccounted'
  BY <1>1, <1>2, <1>5, <1>6, OneCharge DEF Books
<1> QED BY <1>4, <1>7 DEF Books

\* A release takes off the charge what was reserved and not used.
LEMMA ReleaseBooks ==
  ASSUME TypeOK, Books, NEW c \in Callers, NEW u \in Usages \cup {NoUsage},
         Release(c, u)
  PROVE  Books'
<1>1. /\ stage[c] = "active" /\ stage' = [stage EXCEPT ![c] = "done"]
      /\ usage' = [usage EXCEPT ![c] = u]
      /\ UNCHANGED <<reserved, remaining>>
  BY DEF Release, Move
<1>2. /\ stage'[c] = "done" /\ usage'[c] = u
      /\ \A x \in Callers \ {c} : stage'[x] = stage[x] /\ usage'[x] = usage[x]
      /\ reserved[c] \in Nat /\ remaining[c] \in Nat /\ tokenSpent \in Int
      /\ u # NoUsage => u \in Nat
  BY <1>1, UsagesAssumption DEF TypeOK
<1>3. Collected'
  BY <1>1, <1>2 DEF Books, Collected
<1>4. \A x \in Callers \ {c} : Charge(x)' = Charge(x)
  BY <1>1, <1>2 DEF Charge
<1>5. TokensAccounted'
  <2> DEFINE d == Charge(c)' - Charge(c)
  <2>1. CASE ~HasTokenBucket
    BY <2>1 DEF TokensAccounted
  <2>2. CASE HasTokenBucket
    <3>1. remaining[c] = 0 /\ Charge(c) = reserved[c]
      BY <1>1, <1>2, <2>2 DEF Books, Collected, Charge
    <3>2. CASE u # NoUsage /\ u < reserved[c]
      <4>1. Charge(c)' = Charge(c) + (u - reserved[c])
        BY <1>1, <1>2, <3>1, <3>2 DEF Charge
      <4>2. tokenSpent' = tokenSpent + (u - reserved[c]) /\ u - reserved[c] \in Int
        BY <1>2, <2>2, <3>2 DEF Release, Tokens!Credit
      <4> QED BY <1>4, <4>1, <4>2, OneCharge DEF Books
    <3>3. CASE ~(u # NoUsage /\ u < reserved[c])
      <4>1. Charge(c)' = Charge(c) + 0
        BY <1>1, <1>2, <3>1, <3>3 DEF Charge
      <4>2. tokenSpent' = tokenSpent + 0
        BY <1>2, <2>2, <3>3 DEF Release, Tokens!Credit, Tokens!bucketVars, tokenBucket
      <4> QED BY <1>4, <4>1, <4>2, OneCharge DEF Books
    <3> QED BY <3>2, <3>3
  <2> QED BY <2>1, <2>2
<1> QED BY <1>3, <1>5 DEF Books

\* No other step takes tokens or ends a call.
LEMMA OtherBooks ==
  ASSUME TypeOK, Books,
         \/ \E c \in Callers : \/ RejectRequest(c) \/ TakeRequest(c) \/ ReachSemaphore(c)
                               \/ TakeSlot(c) \/ Cancel(c)
         \/ RefillRequests \/ RefillTokens \/ Quiescent \/ UNCHANGED vars
  PROVE  Books'
<1>1. UNCHANGED <<reserved, remaining, usage, tokenSpent>>
  BY DEF RejectRequest, TakeRequest, ReachSemaphore, TakeSlot, Cancel, RefillRequests,
         RefillTokens, Tokens!Tick, Quiescent, vars, tokenBucket
<1>2. \A x \in Callers : stage'[x] = "done" <=> stage[x] = "done"
  BY DEF TypeOK, RejectRequest, TakeRequest, ReachSemaphore, TakeSlot, Cancel, RefillRequests,
         RefillTokens, Quiescent, vars, Move, WaitingStages
<1>3. TokensAccounted'
  BY <1>1, <1>2, NoCharge DEF Books
<1>4. Collected'
  <2> SUFFICES ASSUME NEW x \in Callers
               PROVE  /\ stage'[x] \in {"idle", "request", "rejected"} => remaining[x] = reserved[x]
                      /\ HasTokenBucket /\ stage'[x] \in {"slot", "active"} => remaining[x] = 0
    BY <1>1 DEF Collected
  <2>1. \/ stage'[x] = stage[x]
        \/ stage[x] = "request" /\ stage'[x] \in {"rejected", "tokens"}
        \/ stage'[x] = "slot" /\ (HasTokenBucket => remaining[x] = 0)
        \/ stage[x] = "slot" /\ stage'[x] = "active"
        \/ stage'[x] = "cancelled"
    BY DEF TypeOK, RejectRequest, TakeRequest, ReachSemaphore, TakeSlot, Cancel, RefillRequests,
           RefillTokens, Quiescent, vars, Move
  <2> QED BY <2>1 DEF Books, Collected
<1> QED BY <1>3, <1>4 DEF Books

LEMMA NextBooks == IInv /\ Books /\ [Next]_vars => Books'
<1> SUFFICES ASSUME IInv, Books, [Next]_vars PROVE Books'
  OBVIOUS
<1>1. TypeOK
  BY DEF IInv
<1>2. CASE \E c \in Callers, n \in Reservations : Enter(c, n)
  BY <1>1, <1>2, EnterBooks
<1>3. CASE \E c \in Callers : TakeTokens(c)
  BY <1>1, <1>3, TakeTokensBooks
<1>4. CASE \E c \in Callers, u \in Usages \cup {NoUsage} : Release(c, u)
  BY <1>1, <1>4, ReleaseBooks
<1>5. CASE \/ \E c \in Callers : \/ RejectRequest(c) \/ TakeRequest(c) \/ ReachSemaphore(c)
                                 \/ TakeSlot(c) \/ Cancel(c)
           \/ RefillRequests \/ RefillTokens \/ Quiescent \/ UNCHANGED vars
  BY <1>1, <1>5, OtherBooks
<1> QED BY <1>2, <1>3, <1>4, <1>5 DEF Next

\* What has left the token bucket and not come back is exactly what the
\* callers are charged, for any number of callers, chunks and refunds.
THEOREM TokensAreAccounted == Spec => []TokensAccounted
<1>1. Spec => []Books
  BY BooksInit, NextBooks, Invariance, PTL DEF Spec
<1> QED BY <1>1, PTL DEF Books

-----------------------------------------------------------------------------
\* Each step is a step of the concurrency limit, or changes nothing it shows.
LEMMA StepRefines == IInv /\ [Next]_vars => [Limit!Next]_Limit!vars
<1> SUFFICES ASSUME IInv, [Next]_vars PROVE [Limit!Next]_Limit!vars
  OBVIOUS
<1>0. stage \in [Callers -> Stages]
  BY DEF IInv, TypeOK
<1>1. ASSUME NEW c \in Callers, NEW n \in Reservations, Enter(c, n) PROVE Limit!Arrive(c)
  <2>1. Move(c, "request") /\ "request" \in Stages
    BY <1>1 DEF Enter, Stages, WaitingStages
  <2>2. c \notin Waiting /\ c \notin Active
    BY <1>1 DEF Enter, Waiting, Active, WaitingStages
  <2>3. Waiting' = Waiting \cup {c} /\ Active' = Active \ {c}
    BY <1>0, <2>1, MoveSets DEF WaitingStages
  <2> QED BY <2>2, <2>3 DEF Limit!Arrive
<1>2. ASSUME NEW c \in Callers, RejectRequest(c) \/ Cancel(c) PROVE Limit!GiveUp(c)
  <2>1. PICK s \in {"rejected", "cancelled"} : Move(c, s)
    BY <1>2 DEF RejectRequest, Cancel
  <2>2. c \in Waiting /\ c \notin Active
    BY <1>2 DEF RejectRequest, Cancel, Waiting, Active, WaitingStages
  <2>3. Waiting' = Waiting \ {c} /\ Active' = Active \ {c}
    BY <1>0, <2>1, MoveSets DEF WaitingStages, Stages
  <2> QED BY <2>2, <2>3 DEF Limit!GiveUp
<1>3. ASSUME NEW c \in Callers, TakeRequest(c) \/ TakeTokens(c) \/ ReachSemaphore(c)
      PROVE  UNCHANGED Limit!vars
  <2>1. c \in Waiting /\ c \notin Active
    BY <1>3 DEF TakeRequest, TakeTokens, ReachSemaphore, Waiting, Active, WaitingStages
  <2>2. CASE TakeTokens(c)
    BY <2>2 DEF TakeTokens, Limit!vars, Waiting, Active
  <2>3. CASE TakeRequest(c) \/ ReachSemaphore(c)
    <3>1. PICK s \in {"tokens", "slot"} : Move(c, s)
      BY <2>3 DEF TakeRequest, ReachSemaphore
    <3>2. Waiting' = Waiting \cup {c} /\ Active' = Active \ {c}
      BY <1>0, <3>1, MoveSets DEF WaitingStages, Stages
    <3> QED BY <2>1, <3>2 DEF Limit!vars
  <2> QED BY <1>3, <2>2, <2>3
<1>4. ASSUME NEW c \in Callers, TakeSlot(c) PROVE Limit!Admit(c)
  <2>1. Move(c, "active") /\ "active" \in Stages
    BY <1>4 DEF TakeSlot, Stages
  <2>2. c \in Waiting
    BY <1>4 DEF TakeSlot, Waiting, WaitingStages
  <2>3. Waiting' = Waiting \ {c} /\ Active' = Active \cup {c}
    BY <1>0, <2>1, MoveSets DEF WaitingStages
  <2>4. HasSemaphore => Cardinality(Active) < MaxConcurrency
    <3>1. Cardinality(Active) \in Nat
      BY CallersFinite DEF Active
    <3>2. HasSemaphore => slots > 0 /\ slots \in Nat /\ slots + Cardinality(Active) = MaxConcurrency
      BY <1>4 DEF TakeSlot, IInv, TypeOK, SlotsConserved
    <3> QED BY <3>1, <3>2
  <2> QED BY <2>2, <2>3, <2>4 DEF Limit!Admit, Cardinality, Limit!Cardinality
<1>5. ASSUME NEW c \in Callers, NEW u \in Usages \cup {NoUsage}, Release(c, u)
      PROVE  Limit!Depart(c)
  <2>1. Move(c, "done") /\ "done" \in Stages
    BY <1>5 DEF Release, Stages
  <2>2. c \in Active /\ c \notin Waiting
    BY <1>5 DEF Release, Active, Waiting, WaitingStages
  <2>3. Waiting' = Waiting \ {c} /\ Active' = Active \ {c}
    BY <1>0, <2>1, MoveSets DEF WaitingStages
  <2> QED BY <2>2, <2>3 DEF Limit!Depart
<1>6. ASSUME RefillRequests \/ RefillTokens \/ Quiescent \/ UNCHANGED vars
      PROVE  UNCHANGED Limit!vars
  BY <1>6 DEF RefillRequests, RefillTokens, Quiescent, vars, Limit!vars, Waiting, Active
<1> QED
  BY <1>1, <1>2, <1>3, <1>4, <1>5, <1>6 DEF Next, Limit!Next

\* CapacityController is a concurrency limit: callers are only ever admitted
\* while fewer than max_concurrency of them are inside.
THEOREM ImplementsLimit == Spec => LimitSpec
<1>1. Init => Limit!Init
  BY DEF Init, Limit!Init, Waiting, Active, WaitingStages
<1> QED BY <1>1, StepRefines, Invariance, PTL DEF Spec, LimitSpec, Limit!Spec
=============================================================================
