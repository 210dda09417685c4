-------------------------- MODULE ConcurrencyLimit --------------------------
(***************************************************************************)
(* What a provider's concurrency limit promises to the request paths that  *)
(* use it: a caller waits, is admitted only while fewer than Limit callers *)
(* are inside, and leaves; a caller that waits may also give up or be      *)
(* turned away.  Capacity implements this (app/multi_provider.py,          *)
(* CapacityController), and the gateway is built on it.                    *)
(***************************************************************************)
EXTENDS Naturals, FiniteSets

CONSTANTS
  Callers,
  Limit,        \* max_concurrency
  Limited       \* FALSE when the provider has no concurrency limit

VARIABLES
  waiting,      \* callers inside acquire
  inside        \* callers between acquire and release

vars == <<waiting, inside>>

Init == waiting = {} /\ inside = {}

Arrive(c) ==
  /\ c \notin waiting \cup inside
  /\ waiting' = waiting \cup {c}
  /\ UNCHANGED inside

Admit(c) ==
  /\ c \in waiting
  /\ Limited => Cardinality(inside) < Limit
  /\ waiting' = waiting \ {c}
  /\ inside' = inside \cup {c}

GiveUp(c) ==
  /\ c \in waiting
  /\ waiting' = waiting \ {c}
  /\ UNCHANGED inside

Depart(c) ==
  /\ c \in inside
  /\ inside' = inside \ {c}
  /\ UNCHANGED waiting

Next == \E c \in Callers : Arrive(c) \/ Admit(c) \/ GiveUp(c) \/ Depart(c)

Spec == Init /\ [][Next]_vars
=============================================================================
