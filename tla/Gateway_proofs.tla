--------------------------- MODULE Gateway_proofs ---------------------------
(***************************************************************************)
(* Theorems about Gateway, for any requests, providers, routing tables,    *)
(* limits, faults and numbers of reloads and resets.                       *)
(***************************************************************************)
EXTENDS Gateway, FiniteSetTheorems, SequenceTheorems, TLAPS

\* A request that is under way is at one of the targets it resolved.
AtInRange ==
  \A r \in Requests : stage[r] \notin {"new", "done"} => at[r] \in 1 .. Len(targets[r])

\* The first invariant.  That free never exceeds MaxConcurrency follows from
\* SlotsExact, which needs AtInRange to know where a request holds its slot.
IInv == TypeOK /\ AtInRange /\ SlotsExact

-----------------------------------------------------------------------------
\* Sets of requests are finite, so their cardinalities are naturals, and one
\* more or one less request counts one.
LEMMA CountOne ==
  ASSUME NEW S \in SUBSET Requests, NEW r \in Requests
  PROVE  /\ IsFiniteSet(S) /\ Cardinality(S) \in Nat
         /\ r \notin S => Cardinality(S \cup {r}) = Cardinality(S) + 1 /\ S \ {r} = S
         /\ r \in S => Cardinality(S \ {r}) = Cardinality(S) - 1 /\ S \cup {r} = S
         /\ r \in S => Cardinality(S) >= 1
<1>1. IsFiniteSet(S) /\ Cardinality(S) \in Nat
  BY RequestsAssumption, FS_Subset, FS_CardinalityType
<1>2. r \notin S => Cardinality(S \cup {r}) = Cardinality(S) + 1
  BY <1>1, FS_AddElement
<1>3. r \in S => Cardinality(S \ {r}) = Cardinality(S) - 1
  BY <1>1, FS_RemoveElement
<1>4. Cardinality(S \ {r}) \in Nat
  BY RequestsAssumption, FS_Subset, FS_CardinalityType
<1>5. r \in S => Cardinality(S) >= 1
  BY <1>1, <1>3, <1>4
<1> QED BY <1>1, <1>2, <1>3, <1>5

\* A step of request r leaves the position of the others alone.
Only(r) ==
  \A x \in Requests \ {r} :
    stage'[x] = stage[x] /\ targets'[x] = targets[x] /\ at'[x] = at[x]

\* A request under way has a runtime.
LEMMA CurrentType ==
  ASSUME TypeOK, AtInRange, NEW r \in Requests, stage[r] \notin {"new", "done"}
  PROVE  Current(r) \in Runtimes
BY DEF TypeOK, AtInRange, Current

\* What a step of one request does to the holders of a runtime.
LEMMA HoldersMove ==
  ASSUME NEW r \in Requests, Only(r), NEW rt \in Runtimes
  PROVE  Holders(rt)' = IF stage'[r] \in HoldingStages /\ Current(r)' = rt
                        THEN Holders(rt) \cup {r} ELSE Holders(rt) \ {r}
<1>1. \A x \in Requests \ {r} : x \in Holders(rt)' <=> x \in Holders(rt)
  BY DEF Only, Holders, Current
<1>2. r \in Holders(rt)' <=> stage'[r] \in HoldingStages /\ Current(r)' = rt
  BY DEF Holders
<1>3. Holders(rt)' \subseteq Requests /\ Holders(rt) \subseteq Requests
  BY DEF Holders
<1> QED BY <1>1, <1>2, <1>3

\* A step that neither takes nor gives back a slot.
LEMMA SlotsSame ==
  ASSUME TypeOK, SlotsExact, NEW r \in Requests, Only(r), UNCHANGED free,
         stage[r] \in HoldingStages <=> stage'[r] \in HoldingStages,
         stage[r] \in HoldingStages => Current(r)' = Current(r)
  PROVE  SlotsExact'
<1> SUFFICES ASSUME NEW rt \in Runtimes
             PROVE  free'[rt] + Cardinality(Holders(rt)') = MaxConcurrency
  BY DEF SlotsExact
<1>1. Holders(rt)' = Holders(rt)
  BY HoldersMove DEF Holders
<1> QED BY <1>1 DEF SlotsExact

\* A step that takes a free slot of the current runtime.
LEMMA SlotTaken ==
  ASSUME TypeOK, SlotsExact, NEW r \in Requests, Only(r),
         stage[r] \notin HoldingStages, stage'[r] \in HoldingStages,
         Current(r)' = Current(r),
         free' = [free EXCEPT ![Current(r)] = @ - 1]
  PROVE  SlotsExact'
<1> SUFFICES ASSUME NEW rt \in Runtimes
             PROVE  free'[rt] + Cardinality(Holders(rt)') = MaxConcurrency
  BY DEF SlotsExact
<1>1. r \notin Holders(rt) /\ Holders(rt) \in SUBSET Requests
  BY DEF Holders
<1>2. free[rt] \in Nat /\ Cardinality(Holders(rt)) \in Nat
  <2>1. free[rt] \in 0 .. MaxConcurrency
    BY DEF TypeOK
  <2>2. Cardinality(Holders(rt)) \in Nat
    BY <1>1, CountOne
  <2> QED BY <2>1, <2>2, BoundsAssumption
<1>3. CASE Current(r) = rt
  <2>1. Cardinality(Holders(rt)') = Cardinality(Holders(rt)) + 1
    BY <1>1, <1>3, HoldersMove, CountOne
  <2>2. free'[rt] = free[rt] - 1
    BY <1>3 DEF TypeOK
  <2> QED BY <1>2, <2>1, <2>2, BoundsAssumption DEF SlotsExact
<1>4. CASE Current(r) # rt
  <2>1. Holders(rt)' = Holders(rt)
    BY <1>1, <1>4, HoldersMove
  <2>2. free'[rt] = free[rt]
    BY <1>4 DEF TypeOK
  <2> QED BY <2>1, <2>2 DEF SlotsExact
<1> QED BY <1>3, <1>4

\* A step that gives the slot back to the runtime it was taken from.
LEMMA SlotGiven ==
  ASSUME TypeOK, AtInRange, SlotsExact, NEW r \in Requests, Only(r),
         stage[r] \in HoldingStages, stage'[r] \notin HoldingStages, Release(r)
  PROVE  /\ SlotsExact'
         /\ free' \in [Runtimes -> 0 .. MaxConcurrency]
<1>1. Current(r) \in Runtimes
  BY CurrentType DEF HoldingStages
<1>2. ASSUME NEW rt \in Runtimes
      PROVE  /\ free'[rt] + Cardinality(Holders(rt)') = MaxConcurrency
             /\ free'[rt] \in 0 .. MaxConcurrency
  <2>1. Holders(rt) \in SUBSET Requests /\ (r \in Holders(rt) <=> Current(r) = rt)
    BY DEF Holders
  <2>2. free[rt] \in Nat /\ Cardinality(Holders(rt)) \in Nat
    <3>1. free[rt] \in 0 .. MaxConcurrency
      BY DEF TypeOK
    <3>2. Cardinality(Holders(rt)) \in Nat
      BY <2>1, CountOne
    <3> QED BY <3>1, <3>2, BoundsAssumption
  <2>3. Holders(rt)' = Holders(rt) \ {r}
    BY HoldersMove
  <2>4. CASE Current(r) = rt
    <3>1. /\ Cardinality(Holders(rt)') = Cardinality(Holders(rt)) - 1
          /\ Cardinality(Holders(rt)) >= 1
      BY <2>1, <2>3, <2>4, CountOne
    <3>2. free'[rt] = free[rt] + 1
      BY <2>4 DEF Release, TypeOK
    <3> QED BY <2>2, <3>1, <3>2, BoundsAssumption DEF SlotsExact
  <2>5. CASE Current(r) # rt
    <3>1. Holders(rt)' = Holders(rt)
      BY <2>1, <2>3, <2>5
    <3>2. free'[rt] = free[rt]
      BY <2>5 DEF Release, TypeOK
    <3> QED BY <3>1, <3>2 DEF SlotsExact, TypeOK
  <2> QED BY <2>4, <2>5
<1>3. free' \in [Runtimes -> 0 .. MaxConcurrency]
  BY <1>1, <1>2 DEF TypeOK, Release
<1> QED BY <1>2, <1>3 DEF SlotsExact

-----------------------------------------------------------------------------
\* The invariant holds initially.
LEMMA InitIInv == Init => IInv
<1> SUFFICES ASSUME Init PROVE IInv
  OBVIOUS
<1>1. TypeOK
  <2>1. free \in [Runtimes -> 0 .. MaxConcurrency]
    <3>1. MaxConcurrency \in 0 .. MaxConcurrency
      BY BoundsAssumption
    <3> QED BY <3>1 DEF Init
  <2>2. targets \in [Requests -> Seq(Runtimes)]
    BY EmptySeq DEF Init
  <2>3. attempts \in [Requests -> Seq([runtime : Runtimes, outcome : Outcomes, fallback : BOOLEAN])]
    BY EmptySeq DEF Init
  <2>4. epoch \in 0 .. MaxReloads /\ resets \in 0 .. MaxResets
    BY BoundsAssumption DEF Init
  <2> QED BY <2>1, <2>2, <2>3, <2>4 DEF Init, TypeOK, Stages
<1>2. AtInRange
  BY DEF Init, AtInRange
<1>3. \A rt \in Runtimes : Holders(rt) = {}
  BY DEF Init, Holders, HoldingStages
<1>4. SlotsExact
  <2> SUFFICES ASSUME NEW rt \in Runtimes
               PROVE  free[rt] + Cardinality(Holders(rt)) = MaxConcurrency
    BY DEF SlotsExact
  <2>1. Cardinality(Holders(rt)) = 0 /\ free[rt] = MaxConcurrency
    BY <1>3, FS_EmptySet DEF Init
  <2> QED BY <2>1, BoundsAssumption
<1> QED BY <1>1, <1>2, <1>4 DEF IInv

\* Steps that move one request without touching slots or targets.
LEMMA QuietMove ==
  ASSUME IInv, NEW r \in Requests, NEW s \in Stages, Move(r, s), UNCHANGED <<free, plan, at>>,
         stage[r] \notin {"new", "done"},
         stage[r] \in HoldingStages <=> s \in HoldingStages
  PROVE  AtInRange' /\ SlotsExact' /\ stage' \in [Requests -> Stages]
<1>1. stage' \in [Requests -> Stages] /\ stage'[r] = s /\ Only(r)
  BY DEF IInv, TypeOK, Move, Only, plan
<1>2. AtInRange'
  BY <1>1 DEF IInv, AtInRange, Only, plan
<1>3. Current(r)' = Current(r)
  BY DEF Current, plan
<1>4. SlotsExact'
  BY <1>1, <1>3, SlotsSame DEF IInv
<1> QED BY <1>1, <1>2, <1>4

\* Resolving gives the request targets that are runtimes, and a first one.
LEMMA ResolveIInv ==
  ASSUME IInv, NEW r \in Requests, Resolve(r)
  PROVE  IInv'
<1> DEFINE names == table[selector[r]]
<1>1. names \in Seq(Providers)
  BY TablesAssumption DEF IInv, TypeOK
<1>2. targets'[r] \in Seq(Runtimes) /\ Len(targets'[r]) = Len(names)
  <2>1. targets'[r] = [i \in 1 .. Len(names) |-> <<names[i], epoch>>]
    BY <1>1 DEF Resolve, IInv, TypeOK
  <2>2. \A i \in 1 .. Len(names) : <<names[i], epoch>> \in Runtimes
    BY <1>1 DEF Runtimes, IInv, TypeOK
  <2>3. Len(names) \in Nat
    BY <1>1
  <2> QED BY <2>1, <2>2, <2>3, IsASeq
<1>3. targets' \in [Requests -> Seq(Runtimes)] /\ at' \in [Requests -> Nat]
  BY <1>2 DEF Resolve, IInv, TypeOK
<1>4. stage'[r] \in {"done", "prepare"} /\ stage' \in [Requests -> Stages]
  BY DEF Resolve, Finish, Move, IInv, TypeOK, Stages
<1>5. Only(r) /\ stage[r] = "new"
  BY DEF Resolve, Finish, Move, Only, IInv, TypeOK
<1>6. TypeOK'
  BY <1>3, <1>4 DEF Resolve, Finish, IInv, TypeOK, registry, queue, log
<1>7. AtInRange'
  <2>1. stage'[r] # "done" => names # <<>>
    BY DEF Resolve, Finish, Move, IInv, TypeOK
  <2>2. stage'[r] # "done" => at'[r] \in 1 .. Len(targets'[r])
    BY <1>1, <1>2, <2>1 DEF Resolve, IInv, TypeOK
  <2> QED BY <1>5, <2>2 DEF AtInRange, Only, IInv
<1>8. SlotsExact'
  BY <1>4, <1>5, SlotsSame DEF IInv, HoldingStages, Resolve
<1> QED BY <1>6, <1>7, <1>8 DEF IInv

\* The clamp of the gauge.
LEMMA ClampNat ==
  ASSUME NEW n \in Int
  PROVE  Clamp(n) \in Nat
BY DEF Clamp

\* Refusing an adapter ends the request.
LEMMA AdapterIInv ==
  ASSUME IInv, NEW r \in Requests, AdapterRefuses(r)
  PROVE  IInv'
<1>1. AtInRange' /\ SlotsExact' /\ stage' \in [Requests -> Stages]
  BY QuietMove DEF AdapterRefuses, Finish, Stages, HoldingStages
<1>2. TypeOK'
  BY <1>1 DEF IInv, TypeOK, AdapterRefuses, Finish, registry, queue, log, plan
<1> QED BY <1>1, <1>2 DEF IInv

\* Joining the queue.
LEMMA JoinIInv ==
  ASSUME IInv, NEW r \in Requests, JoinQueue(r)
  PROVE  IInv'
<1>1. AtInRange' /\ SlotsExact' /\ stage' \in [Requests -> Stages]
  BY QuietMove DEF JoinQueue, Stages, HoldingStages
<1>2. gauge' \in Nat /\ gaugeBy' \in [Selectors -> Nat]
  BY DEF IInv, TypeOK, JoinQueue, Inc
<1>3. TypeOK'
  BY <1>1, <1>2 DEF IInv, TypeOK, JoinQueue, registry, log, plan
<1> QED BY <1>1, <1>3 DEF IInv

\* Leaving the queue keeps the gauges natural numbers.
LEMMA DecType ==
  ASSUME TypeOK, NEW q \in Selectors, Dec(q)
  PROVE  gauge' \in Nat /\ gaugeBy' \in [Selectors -> Nat]
<1>1. gauge' \in Nat
  BY ClampNat DEF TypeOK, Dec
<1>2. Clamp(gaugeBy[q] - 1) \in Nat
  <2>1. gaugeBy[q] - 1 \in Int
    BY DEF TypeOK
  <2> QED BY <2>1, ClampNat
<1> QED BY <1>1, <1>2 DEF TypeOK, Dec

\* An acquire that raises.
LEMMA AcquireFailsIInv ==
  ASSUME IInv, NEW r \in Requests, AcquireFails(r)
  PROVE  IInv'
<1>1. AtInRange' /\ SlotsExact' /\ stage' \in [Requests -> Stages]
  BY QuietMove DEF AcquireFails, Finish, Stages, HoldingStages
<1>2. gauge' \in Nat /\ gaugeBy' \in [Selectors -> Nat]
  BY DecType DEF IInv, TypeOK, AcquireFails
<1>3. TypeOK'
  BY <1>1, <1>2 DEF IInv, TypeOK, AcquireFails, Finish, registry, log, plan
<1> QED BY <1>1, <1>3 DEF IInv

\* Admission takes a slot.
LEMMA AdmitIInv ==
  ASSUME IInv, NEW r \in Requests, Admit(r)
  PROVE  IInv'
<1>1. /\ stage' \in [Requests -> Stages] /\ stage'[r] = "calling" /\ Only(r)
      /\ stage[r] = "queued"
  BY DEF IInv, TypeOK, Admit, Move, Only, Stages, plan
<1>2. Current(r) \in Runtimes
  BY <1>1, CurrentType DEF IInv
<1>3. free' \in [Runtimes -> 0 .. MaxConcurrency]
  <2>1. free[Current(r)] \in 1 .. MaxConcurrency
    BY <1>2, BoundsAssumption DEF IInv, TypeOK, Admit
  <2>2. free[Current(r)] - 1 \in 0 .. MaxConcurrency
    BY <2>1, BoundsAssumption
  <2> QED BY <2>2 DEF IInv, TypeOK, Admit
<1>4. gauge' \in Nat /\ gaugeBy' \in [Selectors -> Nat]
  BY DecType DEF IInv, TypeOK, Admit
<1>5. TypeOK'
  BY <1>1, <1>3, <1>4 DEF IInv, TypeOK, Admit, registry, log, plan
<1>6. AtInRange'
  BY <1>1 DEF IInv, AtInRange, Admit, Only, plan
<1>7. SlotsExact'
  BY <1>1, SlotTaken DEF IInv, HoldingStages, Admit, Current, plan
<1> QED BY <1>5, <1>6, <1>7 DEF IInv

\* Recording an attempt appends one record of the right type.
AttemptRecords == [runtime : Runtimes, outcome : Outcomes, fallback : BOOLEAN]

\* RecordAttempt appends a well-formed record.
LEMMA RecordType ==
  ASSUME TypeOK, NEW r \in Requests, NEW o \in Outcomes, Current(r) \in Runtimes,
         RecordAttempt(r, o)
  PROVE  attempts' \in [Requests -> Seq(AttemptRecords)]
<1> DEFINE record == [runtime |-> Current(r), outcome |-> o, fallback |-> CanFallBack(r, o)]
<1>1. CanFallBack(r, o) \in BOOLEAN
  BY DEF CanFallBack
<1>2. record \in AttemptRecords
  BY <1>1 DEF AttemptRecords
<1>3. attempts \in [Requests -> Seq(AttemptRecords)]
  BY DEF TypeOK, AttemptRecords
<1>4. Append(attempts[r], record) \in Seq(AttemptRecords)
  <2> HIDE DEF record
  <2> QED BY <1>2, <1>3, AppendProperties
<1>5. attempts' = [attempts EXCEPT ![r] = Append(attempts[r], record)]
  BY DEF RecordAttempt
<1> HIDE DEF record
<1> QED BY <1>3, <1>4, <1>5

\* A call ends with outcome o: the slot is given back, the attempt is recorded,
\* and the request goes on to the next target, to the log or to its client.
LEMMA AfterIInv ==
  ASSUME IInv, NEW r \in Requests, NEW o \in Outcomes, stage[r] \in {"calling", "draining"},
         Release(r), RecordAttempt(r, o), AfterAttempt(r, o),
         UNCHANGED <<registry, queue, resets, resetting, plan, log>>
  PROVE  IInv'
<1>1. Current(r) \in Runtimes
  BY CurrentType DEF IInv
<1>2. /\ stage' \in [Requests -> Stages] /\ stage'[r] \in {"prepare", "logging", "done"}
      /\ at' \in [Requests -> Nat] /\ Only(r)
      /\ answer' \in [Requests -> {"none", "refused", "failed", "forwarded", "crash"}]
  <2>1. \E s \in {"prepare", "logging", "done"} : Move(r, s)
    BY DEF AfterAttempt, Finish
  <2>2. stage' \in [Requests -> Stages] /\ stage'[r] \in {"prepare", "logging", "done"}
    BY <2>1 DEF Move, IInv, TypeOK, Stages
  <2>3. at' = at \/ at' = [at EXCEPT ![r] = @ + 1]
    BY DEF AfterAttempt
  <2>4. at' \in [Requests -> Nat]
    BY <2>3 DEF IInv, TypeOK
  <2>5. Only(r)
    BY <2>1, <2>3 DEF Move, IInv, TypeOK, Only, plan
  <2>6. answer' = answer \/ answer' = [answer EXCEPT ![r] = "failed"]
    BY DEF AfterAttempt, Finish
  <2>7. answer' \in [Requests -> {"none", "refused", "failed", "forwarded", "crash"}]
    BY <2>6 DEF IInv, TypeOK
  <2> QED BY <2>2, <2>4, <2>5, <2>7
<1>3. SlotsExact' /\ free' \in [Runtimes -> 0 .. MaxConcurrency]
  BY <1>2, SlotGiven DEF IInv, HoldingStages
<1>4. attempts' \in [Requests -> Seq(AttemptRecords)]
  BY <1>1, RecordType DEF IInv
<1>5. TypeOK'
  BY <1>2, <1>3, <1>4 DEF IInv, TypeOK, AttemptRecords, registry, queue, log, plan
<1>6. AtInRange'
  <2>1. at[r] \in 1 .. Len(targets[r]) /\ Len(targets[r]) \in Nat
    <3>1. targets[r] \in Seq(Runtimes)
      BY DEF IInv, TypeOK
    <3> QED BY <3>1 DEF IInv, AtInRange
  <2>2. CASE CanFallBack(r, o)
    <3>1. at'[r] = at[r] + 1 /\ targets' = targets
      BY <2>2 DEF AfterAttempt, IInv, TypeOK, plan
    <3>2. at'[r] \in 1 .. Len(targets'[r])
      BY <2>1, <2>2, <3>1 DEF CanFallBack
    <3> QED BY <1>2, <3>2 DEF AtInRange, IInv, Only
  <2>3. CASE ~CanFallBack(r, o)
    <3>1. at' = at /\ targets' = targets
      BY <2>3 DEF AfterAttempt, plan
    <3> QED BY <1>2, <2>1, <3>1 DEF AtInRange, IInv, Only
  <2> QED BY <2>2, <2>3
<1> QED BY <1>3, <1>5, <1>6 DEF IInv

\* A call that raises.
LEMMA CallRaisesIInv ==
  ASSUME IInv, NEW r \in Requests, NEW e \in Exceptions, CallRaises(r, e)
  PROVE  IInv'
BY AfterIInv DEF CallRaises, Outcomes

\* A call that is answered.
LEMMA CallRepliesIInv ==
  ASSUME IInv, NEW r \in Requests, NEW o \in {"retryable", "final"}, CallReplies(r, o)
  PROVE  IInv'
BY AfterIInv DEF CallReplies, Outcomes, StreamOutcomes

\* A streamed answer that falls back.
LEMMA DrainedIInv ==
  ASSUME IInv, NEW r \in Requests, Drained(r)
  PROVE  IInv'
BY AfterIInv DEF Drained, Outcomes

\* The faults: the request keeps its slot.
LEMMA LeakIInv ==
  ASSUME IInv, NEW r \in Requests, CallCancelled(r) \/ BadBody(r) \/ DrainFails(r) \/ Abandon(r)
  PROVE  IInv'
<1>1. stage[r] \in {"calling", "draining", "opened"} /\ LeakSlot(r)
  BY DEF CallCancelled, BadBody, DrainFails, Abandon
<1>2. AtInRange' /\ SlotsExact' /\ stage' \in [Requests -> Stages]
  BY <1>1, QuietMove DEF LeakSlot, Stages, HoldingStages
<1>3. TypeOK'
  BY <1>1, <1>2 DEF IInv, TypeOK, LeakSlot, registry, queue, log, plan
<1> QED BY <1>2, <1>3 DEF IInv

\* Opening and starting a stream keep the slot.
LEMMA StreamIInv ==
  ASSUME IInv, NEW r \in Requests,
         StreamStarts(r) \/ \E o \in {"retryable", "final"} : StreamOpens(r, o)
  PROVE  IInv'
<1>1. /\ stage[r] \in {"calling", "opened"}
      /\ \E s \in {"draining", "opened", "streaming"} : Move(r, s)
      /\ UNCHANGED <<registry, free, queue, resets, resetting, plan, at, attempts, answer, log>>
  BY DEF StreamStarts, StreamOpens
<1>2. AtInRange' /\ SlotsExact' /\ stage' \in [Requests -> Stages]
  BY <1>1, QuietMove DEF Stages, HoldingStages
<1>3. TypeOK'
  BY <1>1, <1>2 DEF IInv, TypeOK, registry, queue, log, plan
<1> QED BY <1>2, <1>3 DEF IInv

\* The end of a stream gives the slot back.
LEMMA StreamEndsIInv ==
  ASSUME IInv, NEW r \in Requests, NEW o \in StreamOutcomes, StreamEnds(r, o)
  PROVE  IInv'
<1>1. Current(r) \in Runtimes
  BY CurrentType DEF IInv, StreamEnds
<1>2. /\ stage' \in [Requests -> Stages] /\ stage'[r] = "logging" /\ Only(r)
      /\ stage[r] = "streaming"
  BY DEF StreamEnds, Move, IInv, TypeOK, Stages, Only, plan
<1>3. SlotsExact' /\ free' \in [Runtimes -> 0 .. MaxConcurrency]
  BY <1>2, SlotGiven DEF IInv, HoldingStages, StreamEnds
<1>4. attempts' \in [Requests -> Seq(AttemptRecords)]
  BY <1>1, RecordType DEF IInv, StreamEnds, Outcomes
<1>5. TypeOK'
  BY <1>2, <1>3, <1>4 DEF StreamEnds, IInv, TypeOK, AttemptRecords, registry, queue, log, plan
<1>6. AtInRange'
  BY <1>2 DEF AtInRange, IInv, Only, StreamEnds, plan
<1> QED BY <1>3, <1>5, <1>6 DEF IInv

\* Writing the log and answering.
LEMMA LoggingIInv ==
  ASSUME IInv, NEW r \in Requests,
         InsertRequest(r) \/ InsertFails(r) \/ SaveFails(r) \/ Respond(r)
  PROVE  IInv'
<1>1. /\ stage[r] \in {"logging", "saving"}
      /\ \E s \in {"saving", "done"} : Move(r, s)
      /\ UNCHANGED <<registry, free, queue, resets, resetting, plan, at, attempts, saved>>
  BY DEF InsertRequest, InsertFails, SaveFails, Respond, Finish, log
<1>2. AtInRange' /\ SlotsExact' /\ stage' \in [Requests -> Stages]
  BY <1>1, QuietMove DEF Stages, HoldingStages
<1>3. /\ row' \in [Requests -> {"none", "present", "deleted"}]
      /\ answer' \in [Requests -> {"none", "refused", "failed", "forwarded", "crash"}]
  BY DEF InsertRequest, InsertFails, SaveFails, Respond, Finish, IInv, TypeOK, log
<1>4. TypeOK'
  BY <1>1, <1>2, <1>3 DEF IInv, TypeOK, registry, queue, plan
<1> QED BY <1>2, <1>4 DEF IInv

\* Steps that move nobody: they keep free, or the targets of the requests.
LEMMA SaveIInv ==
  ASSUME IInv, NEW r \in Requests, SaveAttempt(r)
  PROVE  IInv'
<1>1. TypeOK'
  <2>1. saved' = [saved EXCEPT ![r] = @ + 1]
    BY DEF SaveAttempt
  <2>2. saved' \in [Requests -> Nat]
    BY <2>1 DEF IInv, TypeOK
  <2> QED BY <2>2 DEF IInv, TypeOK, SaveAttempt, registry, queue, plan
<1>2. AtInRange' /\ SlotsExact'
  BY DEF IInv, AtInRange, SlotsExact, Holders, Current, SaveAttempt, plan
<1> QED BY <1>1, <1>2 DEF IInv

\* Reloads and resets move no request.
LEMMA AdminIInv ==
  ASSUME IInv, Reload \/ ResetLog \/ ResetGauge
  PROVE  IInv'
<1>1. UNCHANGED <<free, stage, plan, at, attempts, answer>>
  BY DEF Reload, ResetLog, ResetGauge
<1>2. AtInRange' /\ SlotsExact'
  BY <1>1 DEF IInv, AtInRange, SlotsExact, Holders, Current, plan
<1>3. epoch' \in 0 .. MaxReloads /\ table' \in Tables
  BY BoundsAssumption DEF Reload, ResetLog, ResetGauge, IInv, TypeOK, registry
<1>4. gauge' \in Nat /\ gaugeBy' \in [Selectors -> Nat]
  BY DEF Reload, ResetLog, ResetGauge, IInv, TypeOK, queue
<1>5. resets' \in 0 .. MaxResets /\ resetting' \in BOOLEAN
  <2>1. CASE ResetLog
    BY <2>1, BoundsAssumption DEF ResetLog, IInv, TypeOK
  <2>2. CASE Reload \/ ResetGauge
    BY <2>2 DEF Reload, ResetGauge, IInv, TypeOK
  <2> QED BY <2>1, <2>2
<1>6. row' \in [Requests -> {"none", "present", "deleted"}] /\ saved' \in [Requests -> Nat]
  <2>1. CASE ResetLog
    BY <2>1 DEF ResetLog, IInv, TypeOK
  <2>2. CASE Reload \/ ResetGauge
    BY <2>2 DEF Reload, ResetGauge, IInv, TypeOK, log
  <2> QED BY <2>1, <2>2
<1>7. TypeOK'
  BY <1>1, <1>3, <1>4, <1>5, <1>6 DEF IInv, TypeOK, plan
<1> QED BY <1>2, <1>7 DEF IInv

\* A stuttering step.
LEMMA StutterIInv ==
  ASSUME IInv, UNCHANGED vars
  PROVE  IInv'
BY DEF vars, registry, queue, plan, log, IInv, TypeOK, AtInRange, SlotsExact, Holders, Current

\* Every step keeps the invariant.
LEMMA NextIInv == IInv /\ [Next]_vars => IInv'
<1> SUFFICES ASSUME IInv, [Next]_vars PROVE IInv'
  OBVIOUS
<1>1. ASSUME NEW r \in Requests, Resolve(r) PROVE IInv'
  BY <1>1, ResolveIInv
<1>2. ASSUME NEW r \in Requests, AdapterRefuses(r) PROVE IInv'
  BY <1>2, AdapterIInv
<1>3. ASSUME NEW r \in Requests, CallCancelled(r) \/ BadBody(r) \/ DrainFails(r) \/ Abandon(r) PROVE IInv'
  BY <1>3, LeakIInv
<1>4. ASSUME NEW r \in Requests, InsertFails(r) PROVE IInv'
  BY <1>4, LoggingIInv
<1>5. ASSUME NEW r \in Requests, Resume(r) PROVE IInv'
  <2>1. CASE JoinQueue(r)
    BY <2>1, JoinIInv
  <2>2. CASE AcquireFails(r)
    BY <2>2, AcquireFailsIInv
  <2>3. CASE Admit(r)
    BY <2>3, AdmitIInv
  <2>4. ASSUME NEW e \in Exceptions, CallRaises(r, e) PROVE IInv'
    BY <2>4, CallRaisesIInv
  <2>5. ASSUME NEW o \in {"retryable", "final"}, CallReplies(r, o) PROVE IInv'
    BY <2>5, CallRepliesIInv
  <2>6. ASSUME NEW o \in {"retryable", "final"}, StreamOpens(r, o) PROVE IInv'
    BY <2>6, StreamIInv
  <2>7. CASE Drained(r)
    BY <2>7, DrainedIInv
  <2>8. CASE StreamStarts(r)
    BY <2>8, StreamIInv
  <2>9. ASSUME NEW o \in StreamOutcomes, StreamEnds(r, o) PROVE IInv'
    BY <2>9, StreamEndsIInv
  <2>10. CASE InsertRequest(r) \/ SaveFails(r) \/ Respond(r)
    BY <2>10, LoggingIInv
  <2>11. CASE SaveAttempt(r)
    BY <2>11, SaveIInv
  <2> QED BY <1>5, <2>1, <2>2, <2>3, <2>4, <2>5, <2>6, <2>7, <2>8, <2>9, <2>10, <2>11 DEF Resume
<1>6. CASE Reload \/ ResetLog \/ ResetGauge
  BY <1>6, AdminIInv
<1>7. CASE Quiescent \/ UNCHANGED vars
  BY <1>7, StutterIInv DEF Quiescent
<1> QED BY <1>1, <1>2, <1>3, <1>4, <1>5, <1>6, <1>7 DEF Next

\* IInv holds in every state of every behaviour.
THEOREM Invariance == Spec => []IInv
BY InitIInv, NextIInv, PTL DEF Spec

\* Types and ranges of the request path's state: in particular no runtime's
\* semaphore ever exceeds its initial value (multi_provider.py:164).
THEOREM TypeCorrect == Spec => []TypeOK
BY Invariance, PTL DEF IInv

\* Every slot of every runtime, current or replaced, is free or held by exactly
\* one request that resolved it (main.py:525-995 with multi_provider.py:161-167).
THEOREM SlotsAreExact == Spec => []SlotsExact
BY Invariance, PTL DEF IInv

-----------------------------------------------------------------------------
(* The queue gauge. *)

\* The second invariant.  /reset may let the gauge fall behind for good, but
\* until the first one it is exact.
GaugeInv ==
  /\ GaugeNeverOverstates
  /\ resets = 0 => GaugeExact /\ ~resetting

\* The gauge is exact initially.
LEMMA InitGauge == Init => GaugeInv
<1> SUFFICES ASSUME Init PROVE GaugeInv
  OBVIOUS
<1>1. AllQueued = {} /\ \A q \in Selectors : Queued(q) = {}
  BY DEF Init, AllQueued, Queued
<1>2. Cardinality(AllQueued) = 0 /\ \A q \in Selectors : Cardinality(Queued(q)) = 0
  BY <1>1, FS_EmptySet
<1> QED BY <1>2 DEF Init, GaugeInv, GaugeNeverOverstates, GaugeExact

\* What a step of one request does to the sets the gauge counts.
LEMMA QueueMove ==
  ASSUME NEW r \in Requests, \A x \in Requests \ {r} : stage'[x] = stage[x],
         UNCHANGED selector
  PROVE  /\ AllQueued' = IF stage'[r] = "queued" THEN AllQueued \cup {r} ELSE AllQueued \ {r}
         /\ \A q \in Selectors :
              Queued(q)' = IF stage'[r] = "queued" /\ selector[r] = q
                           THEN Queued(q) \cup {r} ELSE Queued(q) \ {r}
BY DEF AllQueued, Queued

\* Steps outside the queue keep the gauge and the queue.
LEMMA OutsideQueue ==
  ASSUME TypeOK, GaugeInv, NEW r \in Requests,
         \A x \in Requests \ {r} : stage'[x] = stage[x],
         stage[r] # "queued", stage'[r] # "queued",
         UNCHANGED <<queue, selector, resets, resetting>>
  PROVE  GaugeInv'
<1>1. AllQueued' = AllQueued /\ \A q \in Selectors : Queued(q)' = Queued(q)
  BY QueueMove DEF AllQueued, Queued
<1> QED BY <1>1 DEF GaugeInv, GaugeNeverOverstates, GaugeExact, queue

\* Most steps are outside the queue.
LEMMA OutsideSteps ==
  ASSUME TypeOK, NEW r \in Requests,
         \/ Resolve(r) \/ AdapterRefuses(r) \/ CallCancelled(r) \/ BadBody(r) \/ DrainFails(r) \/ Abandon(r)
         \/ InsertFails(r) \/ Drained(r) \/ StreamStarts(r)
         \/ \E e \in Exceptions : CallRaises(r, e)
         \/ \E o \in {"retryable", "final"} : CallReplies(r, o) \/ StreamOpens(r, o)
         \/ \E o \in StreamOutcomes : StreamEnds(r, o)
         \/ InsertRequest(r) \/ SaveAttempt(r) \/ SaveFails(r) \/ Respond(r)
  PROVE  /\ \A x \in Requests \ {r} : stage'[x] = stage[x]
         /\ stage[r] # "queued" /\ stage'[r] # "queued"
         /\ UNCHANGED <<queue, selector, resets, resetting>>
<1>1. ASSUME NEW s \in Stages \ {"queued"}, Move(r, s)
      PROVE  (\A x \in Requests \ {r} : stage'[x] = stage[x]) /\ stage'[r] # "queued"
  BY <1>1 DEF Move, TypeOK
<1>2. CASE Resolve(r) \/ AdapterRefuses(r)
  <2>1. \E s \in {"prepare", "done"} : Move(r, s)
    BY <1>2 DEF Resolve, AdapterRefuses, Finish
  <2> QED BY <1>1, <1>2, <2>1 DEF Resolve, AdapterRefuses, Stages, plan
<1>3. CASE CallCancelled(r) \/ BadBody(r) \/ DrainFails(r) \/ Abandon(r)
  BY <1>1, <1>3 DEF CallCancelled, BadBody, DrainFails, Abandon, LeakSlot, Stages, plan
<1>4. ASSUME NEW o, AfterAttempt(r, o)
      PROVE  \E s \in {"prepare", "logging", "done"} : Move(r, s)
  BY <1>4 DEF AfterAttempt, Finish
<1>5. CASE \/ Drained(r) \/ \E e \in Exceptions : CallRaises(r, e)
           \/ \E o \in {"retryable", "final"} : CallReplies(r, o)
  <2>1. \E o : AfterAttempt(r, o)
    BY <1>5 DEF Drained, CallRaises, CallReplies
  <2> QED BY <1>1, <1>4, <1>5, <2>1 DEF Drained, CallRaises, CallReplies, Stages, plan
<1>6. CASE \/ StreamStarts(r) \/ \E o \in {"retryable", "final"} : StreamOpens(r, o)
           \/ \E o \in StreamOutcomes : StreamEnds(r, o)
  BY <1>1, <1>6 DEF StreamStarts, StreamOpens, StreamEnds, Stages, plan
<1>7. CASE InsertFails(r) \/ InsertRequest(r) \/ SaveFails(r) \/ Respond(r)
  BY <1>1, <1>7 DEF InsertFails, InsertRequest, SaveFails, Respond, Finish, Stages, plan
<1>8. CASE SaveAttempt(r)
  BY <1>8 DEF SaveAttempt, plan
<1> QED BY <1>2, <1>3, <1>5, <1>6, <1>7, <1>8

\* One request leaves the queue: the gauge goes down by one, or stays at zero.
LEMMA LeaveQueue ==
  ASSUME TypeOK, GaugeInv, NEW r \in Requests, NEW s \in Stages \ {"queued"},
         stage[r] = "queued", Move(r, s), Dec(selector[r]),
         UNCHANGED <<selector, resets, resetting>>
  PROVE  GaugeInv'
<1> DEFINE q0 == selector[r]
<1>1. /\ \A x \in Requests \ {r} : stage'[x] = stage[x]
      /\ stage'[r] # "queued" /\ q0 \in Selectors
  BY DEF Move, TypeOK
<1>2. /\ AllQueued' = AllQueued \ {r}
      /\ \A q \in Selectors : Queued(q)' = Queued(q) \ {r}
  BY <1>1, QueueMove
<1>3. r \in AllQueued /\ \A q \in Selectors : r \in Queued(q) <=> q = q0
  BY DEF AllQueued, Queued
<1>4. /\ Cardinality(AllQueued) \in Nat /\ Cardinality(AllQueued) >= 1
      /\ Cardinality(AllQueued') = Cardinality(AllQueued) - 1
  <2>1. AllQueued \in SUBSET Requests
    BY DEF AllQueued
  <2> QED BY <1>2, <1>3, <2>1, CountOne
<1>5. ASSUME NEW q \in Selectors
      PROVE  /\ Cardinality(Queued(q)) \in Nat
             /\ q = q0 => Cardinality(Queued(q)) >= 1
             /\ Cardinality(Queued(q)') =
                  IF q = q0 THEN Cardinality(Queued(q)) - 1 ELSE Cardinality(Queued(q))
  <2>1. Queued(q) \in SUBSET Requests
    BY DEF Queued
  <2>2. CASE q = q0
    <3>1. r \in Queued(q) /\ Queued(q)' = Queued(q) \ {r}
      BY <1>2, <1>3, <2>2
    <3>2. Cardinality(Queued(q)) \in Nat /\ Cardinality(Queued(q)) >= 1
      BY <2>1, <3>1, CountOne
    <3>3. Cardinality(Queued(q) \ {r}) = Cardinality(Queued(q)) - 1
      BY <2>1, <3>1, CountOne
    <3> QED BY <2>2, <3>1, <3>2, <3>3
  <2>3. CASE q # q0
    <3>1. Queued(q)' = Queued(q)
      BY <1>2, <1>3, <2>3
    <3> QED BY <2>1, <2>3, <3>1, CountOne
  <2> QED BY <2>2, <2>3
<1>6. /\ gauge \in Nat /\ gaugeBy \in [Selectors -> Nat]
      /\ gauge' = (IF gauge = 0 THEN 0 ELSE gauge - 1)
      /\ \A q \in Selectors :
           gaugeBy'[q] = (IF q = q0 THEN (IF gaugeBy[q] = 0 THEN 0 ELSE gaugeBy[q] - 1)
                          ELSE gaugeBy[q])
  BY <1>1 DEF Dec, Clamp, TypeOK
<1>7. GaugeNeverOverstates'
  BY <1>4, <1>5, <1>6 DEF GaugeInv, GaugeNeverOverstates
<1>8. resets' = 0 => GaugeExact' /\ ~resetting'
  BY <1>4, <1>5, <1>6 DEF GaugeInv, GaugeExact
<1> QED BY <1>7, <1>8 DEF GaugeInv

\* Joining the queue counts one.
LEMMA JoinGauge ==
  ASSUME TypeOK, GaugeInv, NEW r \in Requests, JoinQueue(r)
  PROVE  GaugeInv'
<1> DEFINE q0 == selector[r]
<1>1. /\ \A x \in Requests \ {r} : stage'[x] = stage[x]
      /\ stage'[r] = "queued" /\ stage[r] # "queued" /\ q0 \in Selectors
      /\ UNCHANGED <<selector, resets, resetting>>
  BY DEF JoinQueue, Move, TypeOK, plan
<1>2. /\ AllQueued' = AllQueued \cup {r}
      /\ \A q \in Selectors :
           Queued(q)' = IF q = q0 THEN Queued(q) \cup {r} ELSE Queued(q) \ {r}
  BY <1>1, QueueMove
<1>3. r \notin AllQueued /\ \A q \in Selectors : r \notin Queued(q)
  BY <1>1 DEF AllQueued, Queued
<1>4. /\ Cardinality(AllQueued) \in Nat
      /\ Cardinality(AllQueued') = Cardinality(AllQueued) + 1
  <2>1. AllQueued \in SUBSET Requests
    BY DEF AllQueued
  <2> QED BY <1>2, <1>3, <2>1, CountOne
<1>5. ASSUME NEW q \in Selectors
      PROVE  /\ Cardinality(Queued(q)) \in Nat
             /\ Cardinality(Queued(q)') =
                  IF q = q0 THEN Cardinality(Queued(q)) + 1 ELSE Cardinality(Queued(q))
  <2>1. Queued(q) \in SUBSET Requests
    BY DEF Queued
  <2>2. /\ Cardinality(Queued(q)) \in Nat /\ Queued(q) \ {r} = Queued(q)
        /\ Cardinality(Queued(q) \cup {r}) = Cardinality(Queued(q)) + 1
    BY <1>3, <2>1, CountOne
  <2>3. Queued(q)' = IF q = q0 THEN Queued(q) \cup {r} ELSE Queued(q)
    BY <1>2, <2>2
  <2> QED BY <2>2, <2>3
<1>6. /\ gauge \in Nat /\ gaugeBy \in [Selectors -> Nat] /\ gauge' = gauge + 1
      /\ \A q \in Selectors :
           gaugeBy'[q] = IF q = q0 THEN gaugeBy[q] + 1 ELSE gaugeBy[q]
  BY <1>1 DEF JoinQueue, Inc, TypeOK
<1>7. GaugeNeverOverstates'
  BY <1>4, <1>5, <1>6 DEF GaugeInv, GaugeNeverOverstates
<1>8. resets' = 0 => GaugeExact' /\ ~resetting'
  BY <1>1, <1>4, <1>5, <1>6 DEF GaugeInv, GaugeExact
<1> QED BY <1>7, <1>8 DEF GaugeInv

\* The first half of a reset leaves the gauge alone, the second lowers it.
LEMMA AdminGauge ==
  ASSUME TypeOK, GaugeInv, Reload \/ ResetLog \/ ResetGauge
  PROVE  GaugeInv'
<1>1. AllQueued' = AllQueued /\ \A q \in Selectors : Queued(q)' = Queued(q)
  BY DEF AllQueued, Queued, Reload, ResetLog, ResetGauge, plan
<1>2. CASE Reload
  BY <1>1, <1>2 DEF GaugeInv, GaugeNeverOverstates, GaugeExact, Reload, queue
<1>3. CASE ResetLog
  BY <1>1, <1>3 DEF GaugeInv, GaugeNeverOverstates, GaugeExact, ResetLog, queue, TypeOK
<1>4. CASE ResetGauge
  <2>1. Cardinality(AllQueued) \in Nat /\ \A q \in Selectors : Cardinality(Queued(q)) \in Nat
    <3>1. AllQueued \in SUBSET Requests /\ \A q \in Selectors : Queued(q) \in SUBSET Requests
      BY DEF AllQueued, Queued
    <3> QED BY <3>1, RequestsAssumption, FS_Subset, FS_CardinalityType
  <2>2. gauge' = 0 /\ \A q \in Selectors : gaugeBy'[q] = 0
    BY <1>4 DEF ResetGauge
  <2>3. GaugeNeverOverstates'
    BY <1>1, <2>1, <2>2 DEF GaugeNeverOverstates
  <2>4. resets' # 0
    BY <1>4 DEF ResetGauge, GaugeInv
  <2> QED BY <2>3, <2>4 DEF GaugeInv
<1> QED BY <1>2, <1>3, <1>4

\* Every step keeps the second invariant.
LEMMA NextGauge == TypeOK /\ GaugeInv /\ [Next]_vars => GaugeInv'
<1> SUFFICES ASSUME TypeOK, GaugeInv, [Next]_vars PROVE GaugeInv'
  OBVIOUS
<1>1. ASSUME NEW r \in Requests,
             \/ Resolve(r) \/ AdapterRefuses(r) \/ CallCancelled(r) \/ BadBody(r) \/ DrainFails(r) \/ Abandon(r)
             \/ InsertFails(r) \/ Resume(r)
      PROVE  GaugeInv'
  <2>1. CASE JoinQueue(r)
    BY <2>1, JoinGauge
  <2>2. CASE AcquireFails(r)
    BY <2>2, LeaveQueue DEF AcquireFails, Finish, Stages, plan
  <2>3. CASE Admit(r)
    BY <2>3, LeaveQueue DEF Admit, Stages, plan
  <2>4. CASE ~(JoinQueue(r) \/ AcquireFails(r) \/ Admit(r))
    <3>1. /\ \A x \in Requests \ {r} : stage'[x] = stage[x]
          /\ stage[r] # "queued" /\ stage'[r] # "queued"
          /\ UNCHANGED <<queue, selector, resets, resetting>>
      BY <1>1, <2>4, OutsideSteps DEF Resume
    <3> QED BY <3>1, OutsideQueue
  <2> QED BY <2>1, <2>2, <2>3, <2>4
<1>2. CASE Reload \/ ResetLog \/ ResetGauge
  BY <1>2, AdminGauge
<1>3. CASE Quiescent \/ UNCHANGED vars
  BY <1>3 DEF Quiescent, vars, queue, plan, GaugeInv, GaugeNeverOverstates, GaugeExact,
              AllQueued, Queued
<1> QED BY <1>1, <1>2, <1>3 DEF Next

\* The second invariant holds in every state.
LEMMA GaugeInvariance == Spec => []GaugeInv
<1>1. Spec => []TypeOK
  BY TypeCorrect
<1> QED BY <1>1, InitGauge, NextGauge, PTL DEF Spec

\* The gauge never shows more than is queued, whatever /reset does
\* (queue_state.py:24-36, main.py:2268-2272).
THEOREM GaugeIsBounded == Spec => []GaugeNeverOverstates
BY GaugeInvariance, PTL DEF GaugeInv

\* Without /reset the gauge counts exactly the queued requests, in all and by
\* model (queue_state.py:5): every path that joins the queue leaves it once.
THEOREM GaugeIsExact == ASSUME MaxResets = 0 PROVE Spec => []GaugeExact
<1>1. TypeOK /\ GaugeInv => GaugeExact
  BY DEF TypeOK, GaugeInv
<1> QED BY <1>1, TypeCorrect, GaugeInvariance, PTL

-----------------------------------------------------------------------------
(* Failover. *)

\* The third invariant, for each request: how many attempts it has made by the
\* time it is in each stage, and what they were.
Trail(r) ==
  /\ stage[r] = "new" => at[r] = 0 /\ attempts[r] = <<>>
  /\ stage[r] \notin {"new", "logging", "saving", "done"} => Len(attempts[r]) = at[r] - 1
  /\ Len(attempts[r]) <= at[r]
  /\ \A i \in 1 .. Len(attempts[r]) :
       /\ attempts[r][i].runtime = targets[r][i]
       /\ i < at[r] => attempts[r][i].outcome \in Transient

TrailInv == \A r \in Requests : Trail(r)

\* A step that leaves the position and the attempts of r alone.
LEMMA SameTrail ==
  ASSUME NEW r \in Requests, Trail(r),
         attempts'[r] = attempts[r], at'[r] = at[r], targets'[r] = targets[r],
         stage'[r] # "new" \/ stage[r] = "new",
         stage'[r] \in {"new", "logging", "saving", "done"}
           \/ stage[r] \notin {"new", "logging", "saving", "done"}
  PROVE  Trail(r)'
BY DEF Trail

\* Recording an attempt on the current target.
LEMMA RecordTrail ==
  ASSUME IInv, NEW r \in Requests, NEW o \in Outcomes, Trail(r),
         stage[r] \notin {"new", "logging", "saving", "done"},
         RecordAttempt(r, o), UNCHANGED targets
  PROVE  /\ Len(attempts'[r]) = at[r] /\ at[r] \in Nat
         /\ \A i \in 1 .. at[r] :
              /\ attempts'[r][i].runtime = targets'[r][i]
              /\ i < at[r] => attempts'[r][i].outcome \in Transient
         /\ attempts'[r][at[r]].outcome = o
<1> DEFINE record == [runtime |-> Current(r), outcome |-> o, fallback |-> CanFallBack(r, o)]
<1>1. Current(r) \in Runtimes
  BY CurrentType DEF IInv
<1>2. record \in AttemptRecords
  BY <1>1 DEF AttemptRecords, CanFallBack
<1>3. attempts[r] \in Seq(AttemptRecords) /\ at[r] \in Nat
  BY DEF IInv, TypeOK, AttemptRecords
<1>4. attempts'[r] = Append(attempts[r], record)
  BY DEF RecordAttempt, IInv, TypeOK
<1>5. Len(attempts[r]) = at[r] - 1 /\ Len(attempts[r]) \in Nat
  BY <1>3 DEF Trail
<1>6. record.runtime = targets[r][at[r]] /\ record.outcome = o
  BY DEF Current
<1>7. /\ Len(attempts'[r]) = at[r]
      /\ \A i \in 1 .. Len(attempts[r]) : attempts'[r][i] = attempts[r][i]
      /\ attempts'[r][at[r]] = record
  <2> HIDE DEF record
  <2> QED BY <1>2, <1>3, <1>4, <1>5, AppendProperties
<1>8. ASSUME NEW i \in 1 .. at[r]
      PROVE  /\ attempts'[r][i].runtime = targets[r][i]
             /\ i < at[r] => attempts'[r][i].outcome \in Transient
  <2>1. CASE i = at[r]
    BY <1>6, <1>7, <2>1
  <2>2. CASE i # at[r]
    <3>1. i \in 1 .. Len(attempts[r])
      BY <1>3, <1>5, <2>2
    <3> QED BY <1>7, <3>1 DEF Trail
  <2> QED BY <2>1, <2>2
<1> QED BY <1>3, <1>6, <1>7, <1>8

\* The end of a call, wherever the request goes next.
LEMMA AfterTrail ==
  ASSUME IInv, NEW r \in Requests, NEW o \in Outcomes, Trail(r),
         stage[r] \in {"calling", "draining"},
         RecordAttempt(r, o), AfterAttempt(r, o), UNCHANGED targets
  PROVE  Trail(r)'
<1>1. /\ Len(attempts'[r]) = at[r] /\ at[r] \in Nat
      /\ \A i \in 1 .. at[r] :
           /\ attempts'[r][i].runtime = targets'[r][i]
           /\ i < at[r] => attempts'[r][i].outcome \in Transient
      /\ attempts'[r][at[r]].outcome = o
  BY RecordTrail
<1>2. CASE CanFallBack(r, o)
  <2>1. at'[r] = at[r] + 1 /\ stage'[r] = "prepare"
    BY <1>2 DEF AfterAttempt, Move, IInv, TypeOK
  <2>2. o \in Transient
    BY <1>2 DEF CanFallBack
  <2>3. \A i \in 1 .. at[r] : attempts'[r][i].outcome \in Transient
    <3> SUFFICES ASSUME NEW i \in 1 .. at[r] PROVE attempts'[r][i].outcome \in Transient
      OBVIOUS
    <3>1. i = at[r] \/ i < at[r]
      BY <1>1
    <3> QED BY <1>1, <2>2, <3>1
  <2> QED BY <1>1, <2>1, <2>3 DEF Trail
<1>3. CASE ~CanFallBack(r, o)
  <2>1. at'[r] = at[r] /\ stage'[r] \in {"logging", "done"}
    BY <1>3 DEF AfterAttempt, Finish, Move, IInv, TypeOK
  <2> QED BY <1>1, <2>1 DEF Trail
<1> QED BY <1>2, <1>3

\* The steps the scheduler takes for a request.
LEMMA ResumeTrail ==
  ASSUME IInv, TrailInv, NEW r \in Requests, Resume(r)
  PROVE  TrailInv'
<1> USE DEF TrailInv
<1>1. /\ targets' = targets
      /\ \A x \in Requests \ {r} :
           stage'[x] = stage[x] /\ at'[x] = at[x] /\ attempts'[x] = attempts[x]
  <2>1. UNCHANGED targets
    BY DEF Resume, JoinQueue, AcquireFails, Admit, CallRaises, CallReplies, StreamOpens, Drained,
           StreamStarts, StreamEnds, InsertRequest, SaveAttempt, SaveFails, Respond, plan
  <2>2. stage' = stage \/ \E s : Move(r, s)
    BY DEF Resume, JoinQueue, AcquireFails, Admit, CallRaises, CallReplies, StreamOpens, Drained,
           StreamStarts, StreamEnds, InsertRequest, SaveAttempt, SaveFails, Respond, AfterAttempt,
           Finish
  <2>3. at' = at \/ at' = [at EXCEPT ![r] = @ + 1]
    BY DEF Resume, JoinQueue, AcquireFails, Admit, CallRaises, CallReplies, StreamOpens, Drained,
           StreamStarts, StreamEnds, InsertRequest, SaveAttempt, SaveFails, Respond, AfterAttempt
  <2>4. attempts' = attempts \/ \E o : RecordAttempt(r, o)
    BY DEF Resume, JoinQueue, AcquireFails, Admit, CallRaises, CallReplies, StreamOpens, Drained,
           StreamStarts, StreamEnds, InsertRequest, SaveAttempt, SaveFails, Respond
  <2> QED BY <2>1, <2>2, <2>3, <2>4 DEF IInv, TypeOK, Move, RecordAttempt
<1>2. \A x \in Requests \ {r} : Trail(x)'
  BY <1>1, SameTrail
<1>3. Trail(r)'
  <2>1. CASE JoinQueue(r) \/ AcquireFails(r) \/ Admit(r)
    BY <1>1, <2>1, SameTrail DEF JoinQueue, AcquireFails, Admit, Finish, Move, IInv, TypeOK
  <2>2. ASSUME NEW e \in Exceptions, CallRaises(r, e) PROVE Trail(r)'
    BY <1>1, <2>2, AfterTrail DEF CallRaises, Outcomes
  <2>3. ASSUME NEW o \in {"retryable", "final"}, CallReplies(r, o) PROVE Trail(r)'
    BY <1>1, <2>3, AfterTrail DEF CallReplies, Outcomes, StreamOutcomes
  <2>4. CASE Drained(r)
    BY <1>1, <2>4, AfterTrail DEF Drained, Outcomes
  <2>5. CASE StreamStarts(r) \/ \E o \in {"retryable", "final"} : StreamOpens(r, o)
    BY <1>1, <2>5, SameTrail DEF StreamStarts, StreamOpens, Move, IInv, TypeOK
  <2>6. ASSUME NEW o \in StreamOutcomes, StreamEnds(r, o) PROVE Trail(r)'
    <3>1. /\ Len(attempts'[r]) = at[r] /\ at[r] \in Nat
          /\ \A i \in 1 .. at[r] :
               /\ attempts'[r][i].runtime = targets'[r][i]
               /\ i < at[r] => attempts'[r][i].outcome \in Transient
      BY <1>1, <2>6, RecordTrail DEF StreamEnds, Outcomes
    <3>2. at'[r] = at[r] /\ stage'[r] = "logging"
      BY <2>6 DEF StreamEnds, Move, IInv, TypeOK
    <3> QED BY <3>1, <3>2 DEF Trail
  <2>7. CASE InsertRequest(r) \/ SaveFails(r) \/ Respond(r)
    BY <1>1, <2>7, SameTrail DEF InsertRequest, SaveFails, Respond, Finish, Move, IInv, TypeOK
  <2>8. CASE SaveAttempt(r)
    BY <1>1, <2>8, SameTrail DEF SaveAttempt
  <2> QED BY <2>1, <2>2, <2>3, <2>4, <2>5, <2>6, <2>7, <2>8 DEF Resume
<1> QED BY <1>2, <1>3

\* Every step keeps the third invariant.
LEMMA NextTrail == IInv /\ TrailInv /\ [Next]_vars => TrailInv'
<1> SUFFICES ASSUME IInv, TrailInv, [Next]_vars PROVE TrailInv'
  OBVIOUS
<1> USE DEF TrailInv
<1>1. ASSUME NEW r \in Requests, Resolve(r) PROVE TrailInv'
  <2>1. \A x \in Requests \ {r} :
          /\ stage'[x] = stage[x] /\ at'[x] = at[x] /\ attempts'[x] = attempts[x]
          /\ targets'[x] = targets[x]
    BY <1>1 DEF Resolve, Finish, Move, IInv, TypeOK
  <2>2. \A x \in Requests \ {r} : Trail(x)'
    BY <2>1, SameTrail
  <2>3. stage'[r] \in {"prepare", "done"} /\ at'[r] = 1 /\ attempts'[r] = <<>>
    BY <1>1 DEF Resolve, Finish, Move, IInv, TypeOK, Trail
  <2>4. Trail(r)'
    <3>1. Len(attempts'[r]) = 0
      BY <2>3, EmptySeq
    <3> QED BY <2>3, <3>1 DEF Trail
  <2> QED BY <2>2, <2>4
<1>2. ASSUME NEW r \in Requests, \/ AdapterRefuses(r) \/ CallCancelled(r) \/ BadBody(r) \/ DrainFails(r)
                                \/ Abandon(r) \/ InsertFails(r)
      PROVE  TrailInv'
  <2>1. /\ UNCHANGED <<targets, at, attempts>>
        /\ \A x \in Requests \ {r} : stage'[x] = stage[x]
        /\ stage'[r] \in {"leaked", "done"}
        /\ stage[r] # "new"
        /\ stage[r] \in {"logging", "saving", "done"} => stage'[r] = "done"
    BY <1>2 DEF AdapterRefuses, CallCancelled, BadBody, DrainFails, Abandon, InsertFails, LeakSlot, Finish,
                Move, IInv, TypeOK, plan
  <2> QED BY <2>1, SameTrail
<1>3. ASSUME NEW r \in Requests, Resume(r) PROVE TrailInv'
  BY <1>3, ResumeTrail
<1>4. CASE Reload \/ ResetLog \/ ResetGauge \/ Quiescent \/ UNCHANGED vars
  <2>1. UNCHANGED <<stage, targets, at, attempts>>
    BY <1>4 DEF Reload, ResetLog, ResetGauge, Quiescent, vars, plan
  <2> QED BY <2>1, SameTrail
<1> QED BY <1>1, <1>2, <1>3, <1>4 DEF Next

\* No attempt has been made initially.
LEMMA InitTrail == Init => TrailInv
<1> SUFFICES ASSUME Init, NEW r \in Requests PROVE Trail(r)
  BY DEF TrailInv
<1>1. stage[r] = "new" /\ at[r] = 0 /\ attempts[r] = <<>>
  BY DEF Init
<1>2. Len(attempts[r]) = 0
  BY <1>1, EmptySeq
<1> QED BY <1>1, <1>2 DEF Trail

\* The attempts of a request are its first targets in order, and the next one
\* is only tried after a transient failure (main.py:556-601, 882-915).
THEOREM FailoverIsOrdered == Spec => []FailoverInOrder
<1>1. Spec => []TrailInv
  BY Invariance, InitTrail, NextTrail, PTL DEF Spec
<1>2. IInv /\ TrailInv => FailoverInOrder
  <2> SUFFICES ASSUME IInv, TrailInv, NEW r \in Requests
               PROVE  /\ Len(attempts[r]) <= at[r]
                      /\ \A i \in DOMAIN attempts[r] :
                           /\ attempts[r][i].runtime = targets[r][i]
                           /\ i < at[r] => attempts[r][i].outcome \in Transient
    BY DEF FailoverInOrder
  <2>1. DOMAIN attempts[r] = 1 .. Len(attempts[r])
    BY DEF IInv, TypeOK
  <2> QED BY <2>1 DEF TrailInv, Trail
<1> QED BY <1>1, <1>2, Invariance, PTL

-----------------------------------------------------------------------------
(* The log. *)

\* The fourth invariant: who saves attempts has a row, or had one.
LogInv ==
  /\ ForwardedIsLogged
  /\ \A r \in Requests :
       /\ stage[r] = "saving" => row[r] \in {"present", "deleted"}
       /\ answer[r] = "forwarded" => stage[r] = "done"

\* Nothing is logged or answered initially.
LEMMA InitLog == Init => LogInv
BY DEF Init, LogInv, ForwardedIsLogged

\* Every step keeps the fourth invariant.
LEMMA NextLog == TypeOK /\ LogInv /\ [Next]_vars => LogInv'
<1> SUFFICES ASSUME TypeOK, LogInv, [Next]_vars PROVE LogInv'
  OBVIOUS
<1> DEFINE Logged(r) ==
      /\ answer[r] = "forwarded" =>
           \/ row[r] = "present" /\ saved[r] = Len(attempts[r])
           \/ row[r] = "deleted"
      /\ stage[r] = "saving" => row[r] \in {"present", "deleted"}
      /\ answer[r] = "forwarded" => stage[r] = "done"
<1>1. \A r \in Requests : Logged(r)
  BY DEF LogInv, ForwardedIsLogged
<1>2. (\A r \in Requests : Logged(r)') => LogInv'
  BY DEF LogInv, ForwardedIsLogged
<1>3. ASSUME NEW r \in Requests,
             \A x \in Requests \ {r} :
               /\ stage'[x] = stage[x] /\ answer'[x] = answer[x] /\ attempts'[x] = attempts[x]
               /\ row'[x] = row[x] /\ saved'[x] = saved[x],
             Logged(r)'
      PROVE  LogInv'
  BY <1>1, <1>2, <1>3
<1>4. ASSUME NEW r \in Requests,
             \/ Resolve(r) \/ AdapterRefuses(r) \/ CallCancelled(r) \/ BadBody(r) \/ DrainFails(r) \/ Abandon(r)
             \/ InsertFails(r) \/ SaveFails(r)
             \/ JoinQueue(r) \/ AcquireFails(r) \/ Admit(r) \/ StreamStarts(r)
             \/ \E o \in {"retryable", "final"} : StreamOpens(r, o)
      PROVE  LogInv'
  <2>1. /\ UNCHANGED <<row, saved, attempts>>
        /\ \E s \in Stages \ {"saving"} : Move(r, s)
        /\ answer' = answer \/ \E a \in {"refused", "crash"} : answer' = [answer EXCEPT ![r] = a]
        /\ stage[r] # "done"
    BY <1>4 DEF Resolve, AdapterRefuses, CallCancelled, BadBody, DrainFails, Abandon, InsertFails, SaveFails,
                JoinQueue, AcquireFails, Admit, StreamStarts, StreamOpens, LeakSlot, Finish,
                Stages, log
  <2>2. answer[r] # "forwarded"
    BY <1>1, <2>1
  <2>3. /\ \A x \in Requests \ {r} : stage'[x] = stage[x] /\ answer'[x] = answer[x]
        /\ stage'[r] # "saving" /\ answer'[r] # "forwarded"
    BY <2>1, <2>2 DEF Move, TypeOK
  <2> QED BY <1>3, <2>1, <2>3
<1>5. ASSUME NEW r \in Requests,
             \/ Drained(r) \/ \E e \in Exceptions : CallRaises(r, e)
             \/ \E o \in {"retryable", "final"} : CallReplies(r, o)
             \/ \E o \in StreamOutcomes : StreamEnds(r, o)
      PROVE  LogInv'
  <2>1. /\ UNCHANGED <<row, saved>>
        /\ \E o : RecordAttempt(r, o)
        /\ \E s \in {"prepare", "logging", "done"} : Move(r, s)
        /\ answer' = answer \/ answer' = [answer EXCEPT ![r] = "failed"]
        /\ stage[r] # "done"
    BY <1>5 DEF Drained, CallRaises, CallReplies, StreamEnds, AfterAttempt, Finish, log
  <2>2. answer[r] # "forwarded"
    BY <1>1, <2>1
  <2>3. /\ \A x \in Requests \ {r} : stage'[x] = stage[x] /\ answer'[x] = answer[x]
                                       /\ attempts'[x] = attempts[x]
        /\ stage'[r] # "saving" /\ answer'[r] # "forwarded"
    BY <2>1, <2>2 DEF Move, RecordAttempt, TypeOK
  <2> QED BY <1>3, <2>1, <2>3
<1>6. ASSUME NEW r \in Requests, InsertRequest(r) PROVE LogInv'
  <2>1. /\ \A x \in Requests \ {r} : stage'[x] = stage[x] /\ row'[x] = row[x]
        /\ row'[r] = "present" /\ stage[r] = "logging" /\ UNCHANGED <<answer, attempts, saved>>
    BY <1>6 DEF InsertRequest, Move, TypeOK
  <2>2. answer[r] # "forwarded"
    BY <1>1, <2>1
  <2> QED BY <1>3, <2>1, <2>2
<1>7. ASSUME NEW r \in Requests, SaveAttempt(r) PROVE LogInv'
  <2>1. /\ \A x \in Requests \ {r} : saved'[x] = saved[x]
        /\ stage[r] = "saving" /\ UNCHANGED <<stage, answer, attempts, row>>
    BY <1>7 DEF SaveAttempt, TypeOK
  <2>2. answer[r] # "forwarded"
    BY <1>1, <2>1
  <2> QED BY <1>1, <1>3, <2>1, <2>2
<1>8. ASSUME NEW r \in Requests, Respond(r) PROVE LogInv'
  <2>1. /\ \A x \in Requests \ {r} : stage'[x] = stage[x] /\ answer'[x] = answer[x]
        /\ stage'[r] = "done" /\ stage[r] = "saving" /\ saved[r] = Len(attempts[r])
        /\ UNCHANGED <<row, saved, attempts>>
    BY <1>8 DEF Respond, Finish, Move, TypeOK, log
  <2> QED BY <1>1, <1>3, <2>1
<1>9. CASE ResetLog
  <2>1. /\ UNCHANGED <<stage, answer, attempts>>
        /\ \A r \in Requests : row'[r] = IF row[r] = "present" THEN "deleted" ELSE row[r]
    BY <1>9 DEF ResetLog
  <2> QED BY <1>1, <1>2, <2>1
<1>10. CASE Reload \/ ResetGauge \/ Quiescent \/ UNCHANGED vars
  <2>1. UNCHANGED <<stage, answer, attempts, row, saved>>
    BY <1>10 DEF Reload, ResetGauge, Quiescent, vars, log
  <2> QED BY <1>1, <1>2, <2>1
<1> QED BY <1>4, <1>5, <1>6, <1>7, <1>8, <1>9, <1>10 DEF Next, Resume

\* A forwarded answer is completely logged, or was erased by /reset
\* (main.py:617-628, 724-735, 963-973).
THEOREM ForwardedIsAlwaysLogged == Spec => []ForwardedIsLogged
<1>1. LogInv => ForwardedIsLogged
  BY DEF LogInv
<1> QED BY <1>1, InitLog, NextLog, TypeCorrect, PTL DEF Spec
-----------------------------------------------------------------------------
(* The concurrency limit. *)

\* The requests that wait for a runtime, as in the refinement Limit(rt).
Waiters(rt) == {r \in Requests : stage[r] = "queued" /\ Current(r) = rt}

\* What a step of one request does to the waiters of a runtime.
LEMMA WaitersMove ==
  ASSUME NEW r \in Requests, Only(r), NEW rt \in Runtimes
  PROVE  Waiters(rt)' = IF stage'[r] = "queued" /\ Current(r)' = rt
                        THEN Waiters(rt) \cup {r} ELSE Waiters(rt) \ {r}
<1>1. \A x \in Requests \ {r} : x \in Waiters(rt)' <=> x \in Waiters(rt)
  BY DEF Only, Waiters, Current
<1>2. r \in Waiters(rt)' <=> stage'[r] = "queued" /\ Current(r)' = rt
  BY DEF Waiters
<1>3. Waiters(rt)' \subseteq Requests /\ Waiters(rt) \subseteq Requests
  BY DEF Waiters
<1> QED BY <1>1, <1>2, <1>3

\* A step that keeps the waiters and the holders of a runtime.
LEMMA LimitSame ==
  ASSUME NEW rt \in Runtimes, Waiters(rt)' = Waiters(rt), Holders(rt)' = Holders(rt)
  PROVE  UNCHANGED Limit(rt)!vars
BY DEF Limit!vars, Waiters

\* A request that joins the queue arrives at its current runtime.
LEMMA JoinLimit ==
  ASSUME IInv, NEW r \in Requests, JoinQueue(r), NEW rt \in Runtimes
  PROVE  Limit(rt)!Next \/ UNCHANGED Limit(rt)!vars
<1>1. /\ Only(r) /\ stage[r] = "prepare" /\ stage'[r] = "queued" /\ Current(r)' = Current(r)
  BY DEF JoinQueue, Only, Move, Current, plan, IInv, TypeOK
<1>2. Holders(rt)' = Holders(rt) /\ r \notin Holders(rt) /\ r \notin Waiters(rt)
  BY <1>1, HoldersMove DEF Holders, HoldingStages, Waiters
<1>3. CASE Current(r) = rt
  <2>1. Waiters(rt)' = Waiters(rt) \cup {r}
    BY <1>1, <1>3, WaitersMove
  <2>2. Limit(rt)!Arrive(r)
    BY <1>2, <2>1 DEF Limit!Arrive, Waiters
  <2> QED BY <2>2 DEF Limit!Next
<1>4. CASE Current(r) # rt
  <2>1. Waiters(rt)' = Waiters(rt)
    BY <1>1, <1>2, <1>4, WaitersMove
  <2> QED BY <1>2, <2>1, LimitSame
<1> QED BY <1>3, <1>4

\* A request is admitted only while the limit is not reached.
LEMMA AdmitLimit ==
  ASSUME IInv, NEW r \in Requests, Admit(r), NEW rt \in Runtimes
  PROVE  Limit(rt)!Next \/ UNCHANGED Limit(rt)!vars
<1>1. /\ Only(r) /\ stage[r] = "queued" /\ stage'[r] = "calling" /\ Current(r)' = Current(r)
  BY DEF Admit, Only, Move, Current, plan, IInv, TypeOK
<1>2. Waiters(rt)' = Waiters(rt) \ {r} /\ (r \in Waiters(rt) <=> Current(r) = rt)
  BY <1>1, WaitersMove DEF Waiters
<1>3. CASE Current(r) = rt
  <2>1. Holders(rt)' = Holders(rt) \cup {r}
    BY <1>1, <1>3, HoldersMove DEF HoldingStages
  <2>2. Cardinality(Holders(rt)) < MaxConcurrency
    <3>1. free[rt] > 0 /\ free[rt] \in 0 .. MaxConcurrency
      BY <1>3 DEF Admit, IInv, TypeOK
    <3>2. Cardinality(Holders(rt)) \in Nat
      BY CountOne DEF Holders
    <3> QED BY <3>1, <3>2, BoundsAssumption DEF IInv, SlotsExact
  <2>3. Limit(rt)!Admit(r)
    BY <1>2, <1>3, <2>1, <2>2 DEF Limit!Admit, Waiters, Cardinality, Limit!Cardinality
  <2> QED BY <2>3 DEF Limit!Next
<1>4. CASE Current(r) # rt
  <2>1. Holders(rt)' = Holders(rt)
    BY <1>1, <1>4, HoldersMove DEF Holders, HoldingStages
  <2> QED BY <1>2, <1>4, <2>1, LimitSame
<1> QED BY <1>3, <1>4

\* An acquire that raises gives up.
LEMMA GiveUpLimit ==
  ASSUME IInv, NEW r \in Requests, AcquireFails(r), NEW rt \in Runtimes
  PROVE  Limit(rt)!Next \/ UNCHANGED Limit(rt)!vars
<1>1. Only(r) /\ stage[r] = "queued" /\ stage'[r] = "done"
  BY DEF AcquireFails, Only, Finish, Move, plan, IInv, TypeOK
<1>2. Waiters(rt)' = Waiters(rt) \ {r} /\ Holders(rt)' = Holders(rt)
  BY <1>1, WaitersMove, HoldersMove DEF Holders, HoldingStages
<1>3. CASE r \in Waiters(rt)
  <2>1. Limit(rt)!GiveUp(r)
    BY <1>2, <1>3 DEF Limit!GiveUp, Waiters
  <2> QED BY <2>1 DEF Limit!Next
<1>4. CASE r \notin Waiters(rt)
  BY <1>2, <1>4, LimitSame
<1> QED BY <1>3, <1>4

\* A request that gives its slot back departs.
LEMMA DepartLimit ==
  ASSUME NEW r \in Requests, Only(r), stage[r] \in HoldingStages,
         stage'[r] \notin HoldingStages \cup {"queued"}, NEW rt \in Runtimes
  PROVE  Limit(rt)!Next \/ UNCHANGED Limit(rt)!vars
<1>1. Waiters(rt)' = Waiters(rt) /\ Holders(rt)' = Holders(rt) \ {r}
  BY WaitersMove, HoldersMove DEF Waiters, HoldingStages
<1>2. CASE r \in Holders(rt)
  <2>1. Limit(rt)!Depart(r)
    BY <1>1, <1>2 DEF Limit!Depart, Waiters
  <2> QED BY <2>1 DEF Limit!Next
<1>3. CASE r \notin Holders(rt)
  BY <1>1, <1>3, LimitSame
<1> QED BY <1>2, <1>3

\* A step that neither enters nor leaves the queue or the limit.
LEMMA ElsewhereLimit ==
  ASSUME NEW r \in Requests, Only(r), stage[r] # "queued", stage'[r] # "queued",
         \/ stage[r] \notin HoldingStages /\ stage'[r] \notin HoldingStages
         \/ /\ stage[r] \in HoldingStages /\ stage'[r] \in HoldingStages
            /\ Current(r)' = Current(r),
         NEW rt \in Runtimes
  PROVE  UNCHANGED Limit(rt)!vars
<1>1. Waiters(rt)' = Waiters(rt) /\ Holders(rt)' = Holders(rt)
  BY WaitersMove, HoldersMove DEF Waiters, Holders
<1> QED BY <1>1, LimitSame

\* Every step uses every runtime's capacity as its limit allows.
LEMMA NextLimit ==
  ASSUME IInv, [Next]_vars, NEW rt \in Runtimes
  PROVE  Limit(rt)!Next \/ UNCHANGED Limit(rt)!vars
<1>1. ASSUME NEW r \in Requests,
             \/ Resolve(r) \/ AdapterRefuses(r) \/ InsertFails(r) \/ InsertRequest(r)
             \/ SaveAttempt(r) \/ SaveFails(r) \/ Respond(r)
      PROVE  UNCHANGED Limit(rt)!vars
  <2>1. /\ Only(r)
        /\ stage[r] \in {"new", "prepare", "logging", "saving"}
        /\ stage'[r] \in {"done", "prepare", "saving"}
    BY <1>1 DEF Resolve, AdapterRefuses, InsertFails, InsertRequest, SaveAttempt, SaveFails,
                Respond, Finish, Move, Only, plan, IInv, TypeOK
  <2> QED BY <2>1, ElsewhereLimit DEF HoldingStages
<1>2. ASSUME NEW r \in Requests,
             \/ CallCancelled(r) \/ BadBody(r) \/ DrainFails(r) \/ Abandon(r) \/ StreamStarts(r)
             \/ \E o \in {"retryable", "final"} : StreamOpens(r, o)
      PROVE  UNCHANGED Limit(rt)!vars
  <2>1. /\ Only(r) /\ Current(r)' = Current(r)
        /\ stage[r] \in {"calling", "draining", "opened"}
        /\ stage'[r] \in {"leaked", "streaming", "draining", "opened"}
    BY <1>2 DEF CallCancelled, BadBody, DrainFails, Abandon, StreamStarts, StreamOpens, LeakSlot, Move, Only,
                Current, plan, IInv, TypeOK
  <2> QED BY <2>1, ElsewhereLimit DEF HoldingStages
<1>3. ASSUME NEW r \in Requests,
             \/ Drained(r) \/ \E e \in Exceptions : CallRaises(r, e)
             \/ \E o \in {"retryable", "final"} : CallReplies(r, o)
             \/ \E o \in StreamOutcomes : StreamEnds(r, o)
      PROVE  Limit(rt)!Next \/ UNCHANGED Limit(rt)!vars
  <2>1. /\ UNCHANGED targets
        /\ at' = at \/ at' = [at EXCEPT ![r] = @ + 1]
        /\ stage[r] \in {"calling", "draining", "streaming"}
        /\ \E s \in {"prepare", "logging", "done"} : Move(r, s)
    BY <1>3 DEF Drained, CallRaises, CallReplies, StreamEnds, AfterAttempt, Finish, plan
  <2>2. Only(r) /\ stage'[r] \in {"prepare", "logging", "done"}
    BY <2>1 DEF Only, Move, IInv, TypeOK
  <2> QED BY <2>1, <2>2, DepartLimit DEF HoldingStages
<1>4. CASE Reload \/ ResetLog \/ ResetGauge \/ Quiescent \/ UNCHANGED vars
  <2>1. UNCHANGED <<stage, targets, at>>
    BY <1>4 DEF Reload, ResetLog, ResetGauge, Quiescent, vars, plan
  <2>2. Waiters(rt)' = Waiters(rt) /\ Holders(rt)' = Holders(rt)
    BY <2>1 DEF Waiters, Holders, Current
  <2> QED BY <2>2, LimitSame
<1> QED BY <1>1, <1>2, <1>3, <1>4, JoinLimit, AdmitLimit, GiveUpLimit DEF Next, Resume

\* The request path enters and leaves each runtime's capacity as
\* ConcurrencyLimit promises, the specification Capacity implements
\* (main.py:525-995 with multi_provider.py:138-167): never more than
\* MaxConcurrency inside, never out without having been in.
THEOREM LimitsAreKept == Spec => LimitsKept
<1>1. IInv /\ [Next]_vars
        => [\A rt \in Runtimes : Limit(rt)!Next \/ UNCHANGED Limit(rt)!vars]_vars
  BY NextLimit
<1> QED BY <1>1, Invariance, PTL DEF Spec, LimitsKept
=============================================================================
