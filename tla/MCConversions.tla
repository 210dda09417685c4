--------------------------- MODULE MCConversions ---------------------------
(* What the gateway translates and what it counts, each by itself: a       *)
(* conversation of three messages with a reply of two blocks, or charts,   *)
(* alerts or pages over three requests; subject says which.                *)
EXTENDS Conversation

CONSTANTS Absent, Outcomes, Steps, Skew, MaxRows, MaxSteps, Limit

VARIABLES subject, log, now, ticks, lastId, pages, chart, alert

(* What is taken of the dashboard's constants: a status code is one of     *)
(* HTTP or none, a wait and a step of the clock are never negative, and a  *)
(* page has room for a row.                                                *)
ASSUME OutcomesAssumption ==
  /\ Absent \notin Int
  /\ \A outcome \in Outcomes :
       outcome.code \in {Absent} \cup 100 .. 599 /\ outcome.wait \in Nat /\ outcome.delay \in Nat
ASSUME StepsAssumption == Steps \subseteq Nat /\ Skew \in Int
ASSUME RowsAssumption == MaxRows \in Nat /\ Limit \in Nat \ {0}

D == INSTANCE Dashboard
shown == <<log, now, ticks, lastId, pages, chart, alert>>

MCSaid ==
  {[role |-> "system", types |-> <<"text">>],
   [role |-> "user", types |-> <<"image", "bare", "text">>],
   [role |-> "user", types |-> <<"image">>],
   [role |-> "user", types |-> <<"unsupported">>],
   [role |-> "tool", types |-> <<"text">>],
   [role |-> "other", types |-> <<"text">>]}

MCOutcomes ==
  {[code |-> Absent, wait |-> 2001, delay |-> 0], [code |-> 200, wait |-> 2000, delay |-> 9],
   [code |-> 399, wait |-> 2001, delay |-> 0], [code |-> 429, wait |-> 0, delay |-> 0],
   [code |-> 599, wait |-> 2001, delay |-> 0]}

MCInit == Init /\ D!Init /\ subject \in {"conversation", "charts", "alerts", "pages"}

MCNext ==
  \/ subject = "conversation" /\ Next /\ UNCHANGED <<subject, shown>>
  \/ subject = "charts" /\ (D!LogNext \/ D!ChartNext) /\ UNCHANGED <<subject, vars>>
  \/ subject = "alerts" /\ (D!LogNext \/ D!AlertNext) /\ UNCHANGED <<subject, vars>>
  \/ subject = "pages" /\ (D!LogNext \/ D!PagesNext) /\ UNCHANGED <<subject, vars>>

MCSpec == MCInit /\ [][MCNext]_<<subject, shown, vars>>

(* The properties of Dashboard.                                            *)

(* Charts, counters and alerts tell the same of the log.                   *)
StatisticsAgree == D!StatisticsAgree

(* Paging to the end gets every request that stays, and none twice.        *)
PagesComplete == D!PagesComplete
=============================================================================
