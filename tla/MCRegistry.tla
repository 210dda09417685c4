----------------------------- MODULE MCRegistry -----------------------------
(* A stored default provider d and one, p, that may be created. *)
EXTENDS Registry

CONSTANTS a1, a2, d, p

Creates == [kind : {"create"}, provider : {p}, default : BOOLEAN, enabled : {TRUE}]
Updates == [kind : {"update"}, provider : {d}, default : BOOLEAN, enabled : BOOLEAN]
  \cup [kind : {"update"}, provider : {p}, default : {TRUE}, enabled : BOOLEAN]
Deletes == [kind : {"delete"}, provider : {d, p}]
Lists == [kind : {"routes", "pricing"}, providers : {{p}}]
Settings == [kind : {"settings"}, providers : {{}, {d}}]

EveryOperation == Creates \cup Updates \cup Deletes \cup Lists \cup Settings
=============================================================================
