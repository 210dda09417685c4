------------------------------ MODULE MCAccess ------------------------------
(* Two users with accounts, who race to become the administrator, and one   *)
(* more who may be created; each request and login picks its own user.       *)
EXTENDS Access, TLC

CONSTANTS u, v, w, k, l1, l2, r1, r2, c1

Updates(users, spellings, row) ==
  [kind : {"update"}, target : users, canonical : spellings, row : {row}]
Demotions == Updates({u, v}, {TRUE}, [role |-> "viewer", disabled |-> FALSE])
  \cup Updates({u}, {FALSE}, [role |-> "viewer", disabled |-> FALSE])
Promotions == Updates({v}, {TRUE}, [role |-> "admin", disabled |-> FALSE])
Disabling == Updates({u}, {TRUE}, [role |-> "admin", disabled |-> TRUE])
Creations == [kind : {"create"}, target : {w}, role : {"operator"}]
Keyring == [kind : {"issue"}, key : {k}, expires : {FALSE}] \cup [kind : {"revoke"}, key : {k}]
MCOperations ==
  Demotions \cup Promotions \cup Disabling \cup Creations \cup Keyring \cup [kind : {"settings"}]
Interchangeable == Permutations(Logins) \cup Permutations(Requests)

ExpiringKeys == [kind : {"issue"}, key : {k}, expires : {TRUE}]
=============================================================================
