---------------------------- MODULE MCRequestLog ----------------------------
(* Two handlers, the purge and the sampler.  The log begins with two         *)
(* requests, one more than the payload limit, and one more can be logged;    *)
(* the statistics hold two.                                                  *)
EXTENDS RequestLog, TLC

CONSTANTS h1, h2

MCDuties == (h1 :> {"delete", "delete_matching", "purge"}) @@ (h2 :> {"insert", "reset", "delete_matching"})
MCMaxRows == [requests |-> 1, request_stats |-> 2, queue_samples |-> 1]
MCOldest == [requests |-> 1, request_stats |-> 1, queue_samples |-> 0]
MCFilters == {Ids}
MCLastId == [requests |-> 3, queue_samples |-> 2]
MCBacklog == [requests |-> 2, queue_samples |-> 1]
=============================================================================
