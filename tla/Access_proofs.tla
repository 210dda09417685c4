---------------------------- MODULE Access_proofs ----------------------------
(***************************************************************************)
(* Proofs about Access, for any users, clients, logins, requests, calls,   *)
(* keys and operations, any limit of attempts and any faults.              *)
(***************************************************************************)
EXTENDS Access, FiniteSetTheorems, TLAPS

\* The types of all but the history that Remember keeps.
StateTypeOK ==
  /\ accounts \subseteq Users /\ sessions \subseteq Users /\ founders \subseteq Users
  /\ roles \in [Users -> Row \cup {NoRow}]
  /\ keys \in [Keys -> [created : BOOLEAN, revoked : BOOLEAN, expires : BOOLEAN]]
  /\ audit \subseteq [request : Requests, by : Users, ok : BOOLEAN]
  /\ failures \in [Users -> Nat]
  /\ login \in [Logins -> {"idle", "throttled", "password", "role", "bootstrap", "gate",
                           "in", "denied"}]
  /\ name \in [Logins -> Clients] /\ sawNobody \in [Logins -> BOOLEAN]
  /\ stage \in [Requests -> {"idle", "arrived", "refused", "handle", "grant", "audit",
                             "answered", "unrecorded", "raised"}]
  /\ actor \in [Requests -> Clients] /\ op \in [Requests -> Operations]
  /\ succeeded \subseteq Requests
  /\ call \in [Calls -> {"idle", "lookup", "touch", "accepted", "refused", "error"}]
  /\ presented \in [Calls -> Keys]
  /\ late \subseteq Calls

-----------------------------------------------------------------------------
(* Types.                                                                  *)

\* A user who logs in is a user, and so is who makes a request.
LEMMA NamesAreUsers ==
  ASSUME StateTypeOK
  PROVE  /\ \A l \in Logins : name[l] \in Users /\ failures[name[l]] \in Nat
         /\ \A r \in Requests : actor[r] \in Users
BY UsersAssumption DEF StateTypeOK

\* Logging in.
LEMMA LoginTypes ==
  ASSUME StateTypeOK, NEW l \in Logins,
         \/ BeginLogin(l) \/ PasswordRefused(l) \/ PasswordAccepted(l)
         \/ ReadRole(l) \/ BeginBootstrap(l) \/ Bootstrap(l)
  PROVE  StateTypeOK'
<1> USE NamesAreUsers
<1>1. CASE BeginLogin(l)
  BY <1>1 DEF StateTypeOK, BeginLogin, To, tables, requesting, calling
<1>2. CASE PasswordRefused(l)
  BY <1>2 DEF StateTypeOK, PasswordRefused, Deny, To, Failure, requesting, calling
<1>3. CASE PasswordAccepted(l)
  BY <1>3 DEF StateTypeOK, PasswordAccepted, To, tables, requesting, calling
<1>4. CASE ReadRole(l)
  BY <1>4 DEF StateTypeOK, ReadRole, Deny, Admit, To, Failure, Success, requesting, calling
<1>5. CASE BeginBootstrap(l)
  <2>1. sawNobody' \in [Logins -> BOOLEAN]
    BY <1>5 DEF StateTypeOK, BeginBootstrap
  <2> QED BY <1>5, <2>1 DEF StateTypeOK, BeginBootstrap, To, tables, requesting, calling
<1>6. CASE Bootstrap(l)
  <2>1. [role |-> "admin", disabled |-> FALSE] \in Row
    BY DEF Row, Roles, Rank
  <2>2. CASE Founds(l)
    <3>1. roles' = [roles EXCEPT ![name[l]] = [role |-> "admin", disabled |-> FALSE]]
      BY <1>6, <2>2 DEF Bootstrap
    <3>2. roles' \in [Users -> Row \cup {NoRow}]
      BY <2>1, <3>1 DEF StateTypeOK
    <3>3. founders' \subseteq Users /\ sessions' \subseteq Users /\ sawNobody' = sawNobody
      BY <1>6, <2>2 DEF StateTypeOK, Bootstrap, Admit
    <3>4. failures' \in [Users -> Nat]
      BY <1>6, <2>2 DEF StateTypeOK, Bootstrap, Admit, Success
    <3> QED BY <1>6, <2>2, <3>2, <3>3, <3>4 DEF StateTypeOK, Bootstrap, Admit, To, requesting, calling
  <2>3. CASE ~Founds(l)
    BY <1>6, <2>3 DEF StateTypeOK, Bootstrap, Deny, To, Failure, requesting, calling
  <2> QED BY <2>2, <2>3
<1> QED BY <1>1, <1>2, <1>3, <1>4, <1>5, <1>6

\* What an operation is about.
LEMMA OperationTypes ==
  ASSUME StateTypeOK, NEW r \in Requests
  PROVE  /\ op[r].kind \in {"update", "create", "issue", "revoke", "settings"}
         /\ op[r].kind = "update" =>
              op[r] \in [kind : {"update"}, target : Users, canonical : BOOLEAN, row : Row]
         /\ op[r].kind = "create" => op[r] \in [kind : {"create"}, target : Users, role : Roles]
         /\ op[r].kind = "issue" => op[r] \in [kind : {"issue"}, key : Keys, expires : BOOLEAN]
         /\ op[r].kind = "revoke" => op[r] \in [kind : {"revoke"}, key : Keys]
<1>1. op[r] \in AllOperations
  BY OperationsAssumption DEF StateTypeOK
<1> QED BY <1>1 DEF AllOperations

\* Only the creation of an account is in stage grant.
GrantsCreate == \A r \in Requests : stage[r] = "grant" => op[r].kind = "create"

\* Dashboard requests.
LEMMA RequestTypes ==
  ASSUME StateTypeOK, GrantsCreate, NEW r \in Requests,
         \/ Arrive(r) \/ ReadPrincipal(r)
         \/ UpdateUser(r) \/ CreateAccount(r) \/ GrantRole(r) \/ GrantFails(r)
         \/ IssueKey(r) \/ RevokeKey(r) \/ ChangeSettings(r)
         \/ Audit(r) \/ AuditFails(r)
  PROVE  StateTypeOK'
<1>1. CASE Arrive(r) \/ ReadPrincipal(r) \/ GrantFails(r) \/ AuditFails(r)
  BY <1>1 DEF StateTypeOK, Arrive, ReadPrincipal, GrantFails, AuditFails, Move, tables, logging, calling
<1>2. CASE UpdateUser(r)
  <2>1. op[r].target \in Users /\ op[r].row \in Row
    BY <1>2, OperationTypes DEF UpdateUser
  <2>2. roles' = roles \/ roles' = [roles EXCEPT ![op[r].target] = op[r].row]
    BY <1>2 DEF UpdateUser
  <2>3. roles' \in [Users -> Row \cup {NoRow}]
    BY <2>1, <2>2 DEF StateTypeOK
  <2>4. stage' = [stage EXCEPT ![r] = "audit"]
        /\ (succeeded' = succeeded \/ succeeded' = succeeded \cup {r})
    BY <1>2 DEF UpdateUser, Answer, Move
  <2>5. UNCHANGED <<accounts, keys, audit, logging, actor, op, calling>>
    BY <1>2 DEF UpdateUser
  <2> QED BY <2>3, <2>4, <2>5 DEF StateTypeOK, logging, calling
<1>3. CASE CreateAccount(r)
  <2>1. op[r].target \in Users
    BY <1>3, OperationTypes DEF CreateAccount
  <2>2. accounts' = accounts \/ accounts' = accounts \cup {op[r].target}
    BY <1>3 DEF CreateAccount
  <2>3. (stage' = [stage EXCEPT ![r] = "audit"] \/ stage' = [stage EXCEPT ![r] = "grant"])
        /\ (succeeded' = succeeded \/ succeeded' = succeeded \cup {r})
    BY <1>3 DEF CreateAccount, Answer, Move
  <2>4. UNCHANGED <<roles, keys, audit, logging, actor, op, calling>>
    BY <1>3 DEF CreateAccount
  <2> QED BY <2>1, <2>2, <2>3, <2>4 DEF StateTypeOK, logging, calling
<1>4. CASE GrantRole(r)
  <2>1. op[r].target \in Users /\ [role |-> op[r].role, disabled |-> FALSE] \in Row
    BY <1>4, OperationTypes DEF GrantRole, GrantsCreate, Row
  <2> QED BY <1>4, <2>1 DEF StateTypeOK, GrantRole, Answer, Move, logging, calling
<1>5. CASE IssueKey(r)
  <2>1. [created |-> TRUE, revoked |-> FALSE, expires |-> op[r].expires]
          \in [created : BOOLEAN, revoked : BOOLEAN, expires : BOOLEAN]
    BY <1>5, OperationTypes DEF IssueKey
  <2>2. keys' \in [Keys -> [created : BOOLEAN, revoked : BOOLEAN, expires : BOOLEAN]]
    BY <1>5, <2>1 DEF StateTypeOK, IssueKey
  <2>3. stage' = [stage EXCEPT ![r] = "audit"] /\ succeeded' = succeeded \cup {r}
    BY <1>5 DEF IssueKey, Answer, Move
  <2>4. UNCHANGED <<accounts, roles, audit, logging, actor, op, calling>>
    BY <1>5 DEF IssueKey
  <2> QED BY <2>2, <2>3, <2>4 DEF StateTypeOK, logging, calling
<1>6. CASE RevokeKey(r)
  <2>1. keys' \in [Keys -> [created : BOOLEAN, revoked : BOOLEAN, expires : BOOLEAN]]
    <3>1. keys \in [Keys -> [created : BOOLEAN, revoked : BOOLEAN, expires : BOOLEAN]]
      BY DEF StateTypeOK
    <3>2. keys' = keys \/ keys' = [keys EXCEPT ![op[r].key].revoked = TRUE]
      BY <1>6 DEF RevokeKey
    <3> QED BY <3>1, <3>2
  <2>2. stage' = [stage EXCEPT ![r] = "audit"]
        /\ (succeeded' = succeeded \/ succeeded' = succeeded \cup {r})
    BY <1>6 DEF RevokeKey, Answer, Move
  <2>3. UNCHANGED <<accounts, roles, audit, logging, actor, op, calling>>
    BY <1>6 DEF RevokeKey
  <2> QED BY <2>1, <2>2, <2>3 DEF StateTypeOK, logging, calling
<1>7. CASE ChangeSettings(r)
  BY <1>7 DEF StateTypeOK, ChangeSettings, Answer, Move, tables, logging, calling
<1>8. CASE Audit(r)
  <2>1. Event(r) \in [request : Requests, by : Users, ok : BOOLEAN]
    BY NamesAreUsers DEF Event
  <2> QED BY <1>8, <2>1 DEF StateTypeOK, Audit, Move, logging, calling
<1> QED BY <1>1, <1>2, <1>3, <1>4, <1>5, <1>6, <1>7, <1>8

\* Machine calls.
LEMMA CallTypes ==
  ASSUME StateTypeOK, NEW c \in Calls, Present(c) \/ Lookup(c) \/ Touch(c)
  PROVE  StateTypeOK'
BY DEF StateTypeOK, Present, Lookup, Touch, tables, logging, requesting

\* Failures that leave the window.
LEMMA ForgetTypes ==
  ASSUME StateTypeOK, NEW u \in Users, Forget(u)
  PROVE  StateTypeOK'
<1>1. failures[u] - 1 \in Nat
  BY DEF StateTypeOK, Forget
<1> QED BY <1>1 DEF StateTypeOK, Forget, tables, requesting, calling

\* Every step keeps the types.
LEMMA StepTypes == StateTypeOK /\ GrantsCreate /\ Step => StateTypeOK'
BY LoginTypes, RequestTypes, CallTypes, ForgetTypes DEF Step

\* What is remembered has its types.
LEMMA HistoryTypes ==
  ASSUME TypeOK, StateTypeOK', Remember
  PROVE  TypeOK'
<1>1. grounds' \in [Requests -> SUBSET (Row \cup {NoRow})]
  <2> SUFFICES ASSUME NEW r \in Requests
               PROVE  grounds'[r] \subseteq Row \cup {NoRow}
    BY DEF Remember
  <2>1. grounds[r] \subseteq Row \cup {NoRow} /\ roles'[actor[r]] \in Row \cup {NoRow}
    BY UsersAssumption DEF TypeOK, StateTypeOK
  <2> QED BY <2>1 DEF Remember
<1>2. overlapped' \in BOOLEAN /\ slipped' \in BOOLEAN /\ raced' \in BOOLEAN
  BY DEF Remember
<1> QED BY <1>1, <1>2 DEF TypeOK, StateTypeOK
-----------------------------------------------------------------------------
(* What is true of every task.                                             *)

\* A login that Auth has accepted and a session are of somebody who has an
\* account; a request has a session; an account that is being created is not
\* that of who creates it.
Accounts ==
  /\ sessions \subseteq accounts
  /\ \A l \in Logins : login[l] \in {"role", "bootstrap", "gate"} => name[l] \in accounts
  /\ \A r \in Requests : stage[r] # "idle" => actor[r] \in sessions
  /\ \A r \in Requests : stage[r] = "grant" => op[r].kind = "create" /\ op[r].target # actor[r]

\* The first invariant: types, and who there is.
Base == TypeOK /\ Accounts

\* At the start nobody has a session and no task is under way.
LEMMA BaseInit == Init => Base
<1> SUFFICES ASSUME Init PROVE Base
  OBVIOUS
<1>1. roles \in [Users -> Row \cup {NoRow}] /\ keys \in [Keys -> [created : BOOLEAN, revoked : BOOLEAN, expires : BOOLEAN]]
  BY DEF Init, NoKey
<1>2. grounds \in [Requests -> SUBSET (Row \cup {NoRow})] /\ sawNobody \in [Logins -> BOOLEAN]
  BY DEF Init
<1>3. TypeOK
  BY <1>1, <1>2, UsersAssumption DEF Init, TypeOK
<1>4. Accounts
  BY DEF Init, Accounts
<1> QED BY <1>3, <1>4 DEF Base

\* A login leaves Accounts true.
LEMMA LoginAccounts ==
  ASSUME Base, NEW l \in Logins,
         \/ BeginLogin(l) \/ PasswordRefused(l) \/ PasswordAccepted(l)
         \/ ReadRole(l) \/ BeginBootstrap(l) \/ Bootstrap(l)
  PROVE  Accounts'
<1>1. /\ accounts' = accounts /\ name' = name /\ stage' = stage /\ actor' = actor /\ op' = op
      /\ sessions \subseteq sessions' /\ sessions' \subseteq accounts
  BY DEF Base, Accounts, BeginLogin, PasswordRefused, PasswordAccepted, ReadRole, BeginBootstrap,
         Bootstrap, Deny, Admit, tables, requesting
<1>2. \A m \in Logins : login'[m] \in {"role", "bootstrap", "gate"} => name[m] \in accounts
  BY DEF Base, TypeOK, Accounts, BeginLogin, PasswordRefused, PasswordAccepted, ReadRole,
         BeginBootstrap, Bootstrap, Deny, Admit, To
<1> QED BY <1>1, <1>2 DEF Base, Accounts

\* So does a dashboard request.
LEMMA RequestAccounts ==
  ASSUME Base, NEW r \in Requests,
         \/ Arrive(r) \/ ReadPrincipal(r)
         \/ UpdateUser(r) \/ CreateAccount(r) \/ GrantRole(r) \/ GrantFails(r)
         \/ IssueKey(r) \/ RevokeKey(r) \/ ChangeSettings(r)
         \/ Audit(r) \/ AuditFails(r)
  PROVE  Accounts'
<1>1. /\ login' = login /\ name' = name /\ sessions' = sessions /\ actor' = actor /\ op' = op
      /\ accounts \subseteq accounts'
  BY DEF Arrive, ReadPrincipal, UpdateUser, CreateAccount, GrantRole, GrantFails, IssueKey,
         RevokeKey, ChangeSettings, Audit, AuditFails, tables, logging
<1>2. \A x \in Requests \ {r} : stage'[x] = stage[x]
  BY DEF Base, TypeOK, Arrive, ReadPrincipal, UpdateUser, CreateAccount, GrantRole, GrantFails,
         IssueKey, RevokeKey, ChangeSettings, Audit, AuditFails, Move, Answer
<1>3. actor[r] \in sessions
  BY DEF Base, Accounts, Arrive, ReadPrincipal, UpdateUser, CreateAccount, GrantRole, GrantFails,
         IssueKey, RevokeKey, ChangeSettings, Audit, AuditFails
<1>4. stage'[r] = "grant" => op[r].kind = "create" /\ op[r].target # actor[r]
  BY <1>3 DEF Base, TypeOK, Accounts, Arrive, ReadPrincipal, UpdateUser, CreateAccount, GrantRole,
         GrantFails, IssueKey, RevokeKey, ChangeSettings, Audit, AuditFails, Move, Answer
<1> QED BY <1>1, <1>2, <1>3, <1>4 DEF Base, Accounts

\* Every step keeps the first invariant.
LEMMA BaseNext == Base /\ [Next]_vars => Base'
<1> SUFFICES ASSUME Base, [Next]_vars PROVE Base'
  OBVIOUS
<1>1. CASE Next
  <2>1. StateTypeOK /\ GrantsCreate
    BY DEF Base, TypeOK, StateTypeOK, Accounts, GrantsCreate
  <2>2. TypeOK'
    BY <1>1, <2>1, StepTypes, HistoryTypes DEF Base, Next
  <2>3. ASSUME NEW u \in Users, Forget(u) PROVE Accounts'
    BY <2>3 DEF Base, Accounts, Forget, tables, requesting
  <2>4. ASSUME NEW c \in Calls, Present(c) \/ Lookup(c) \/ Touch(c) PROVE Accounts'
    BY <2>4 DEF Base, Accounts, Present, Lookup, Touch, tables, logging, requesting
  <2>5. Accounts'
    BY <1>1, <2>3, <2>4, LoginAccounts, RequestAccounts DEF Next, Step
  <2> QED BY <2>2, <2>5 DEF Base
<1>2. CASE UNCHANGED vars
  BY <1>2 DEF Base, TypeOK, Accounts, vars, state, tables, logging, requesting, calling
<1> QED BY <1>1, <1>2

\* Types, for any number of users, tasks and keys.
THEOREM TypeCorrect == Spec => []TypeOK
<1>1. Base => TypeOK
  BY DEF Base
<1> QED BY <1>1, BaseInit, BaseNext, PTL DEF Spec

-----------------------------------------------------------------------------
(* Machine keys.                                                           *)

\* A key is created before it is revoked, and stays revoked: who came late
\* finds it so.
Revocation ==
  /\ \A k \in Keys : keys[k].revoked => keys[k].created
  /\ \A c \in late : keys[presented[c]].revoked /\ call[c] \in {"lookup", "refused"}

\* No call has been made yet.
LEMMA RevocationInit == Init => Revocation
BY DEF Init, Revocation, NoKey

\* A revoked key stays revoked, so Lookup refuses a call that came after it.
LEMMA RevocationNext == Base /\ Revocation /\ [Next]_vars => Revocation'
<1> SUFFICES ASSUME Base, Revocation, [Next]_vars PROVE Revocation'
  OBVIOUS
<1> USE DEF Revocation
<1>1. ASSUME UNCHANGED <<keys, calling>> PROVE Revocation'
  BY <1>1 DEF calling
<1>2. ASSUME NEW u \in Users, Forget(u) PROVE Revocation'
  BY <1>1, <1>2 DEF Forget, tables
<1>3. ASSUME NEW l \in Logins,
             \/ BeginLogin(l) \/ PasswordRefused(l) \/ PasswordAccepted(l)
             \/ ReadRole(l) \/ BeginBootstrap(l) \/ Bootstrap(l)
      PROVE  Revocation'
  BY <1>1, <1>3 DEF BeginLogin, PasswordRefused, PasswordAccepted, ReadRole, BeginBootstrap,
                    Bootstrap, tables
<1>4. ASSUME NEW r \in Requests,
             \/ Arrive(r) \/ ReadPrincipal(r) \/ UpdateUser(r) \/ CreateAccount(r) \/ GrantRole(r)
             \/ GrantFails(r) \/ ChangeSettings(r) \/ Audit(r) \/ AuditFails(r)
      PROVE  Revocation'
  BY <1>1, <1>4 DEF Arrive, ReadPrincipal, UpdateUser, CreateAccount, GrantRole, GrantFails,
                    ChangeSettings, Audit, AuditFails, tables
<1>5. ASSUME NEW r \in Requests, IssueKey(r) PROVE Revocation'
  BY <1>5 DEF Base, TypeOK, IssueKey, calling
<1>6. ASSUME NEW r \in Requests, RevokeKey(r) PROVE Revocation'
  <2>1. \A k \in Keys :
          /\ keys'[k].created = keys[k].created
          /\ keys[k].revoked => keys'[k].revoked
          /\ keys'[k].revoked => keys[k].revoked \/ keys[k].created
    <3>1. CASE ~Revocable(op[r].key)
      BY <1>6, <3>1 DEF RevokeKey
    <3>2. CASE Revocable(op[r].key)
      <4>1. keys' = [keys EXCEPT ![op[r].key].revoked = TRUE] /\ keys[op[r].key].created
        BY <1>6, <3>2 DEF RevokeKey, Revocable
      <4> QED BY <4>1 DEF Base, TypeOK
    <3> QED BY <3>1, <3>2
  <2>2. call' = call /\ presented' = presented /\ late' = late
    BY <1>6 DEF RevokeKey, calling
  <2>3. late \subseteq Calls /\ presented \in [Calls -> Keys]
    BY DEF Base, TypeOK
  <2> QED BY <2>1, <2>2, <2>3
<1>7. ASSUME NEW c \in Calls, Present(c) PROVE Revocation'
  BY <1>7 DEF Base, TypeOK, Present, tables
<1>8. ASSUME NEW c \in Calls, Lookup(c) \/ Touch(c) PROVE Revocation'
  BY <1>8 DEF Base, TypeOK, Lookup, Touch, tables
<1>9. CASE UNCHANGED vars
  BY <1>1, <1>9 DEF vars, state, tables
<1> QED BY <1>2, <1>3, <1>4, <1>5, <1>6, <1>7, <1>8, <1>9 DEF Next, Step

\* README.md:30, "revocable machine API keys": a call that comes after its key
\* was revoked is never accepted.
THEOREM RevokedIsAlwaysRefused == Spec => []RevokedIsRefused
<1>1. Revocation => RevokedIsRefused
  BY DEF Revocation, RevokedIsRefused
<1> QED BY <1>1, BaseInit, BaseNext, RevocationInit, RevocationNext, PTL DEF Spec

-----------------------------------------------------------------------------
(* Authority.                                                              *)

\* No request is handled yet.
LEMMA AuthorityInit == Init => AuthorityIsCurrent
BY DEF Init, AuthorityIsCurrent

\* A request comes to its handler with the role its actor has at that moment,
\* which Remember adds to its grounds; they only grow while it is in progress.
LEMMA AuthorityNext == Base /\ AuthorityIsCurrent /\ [Next]_vars => AuthorityIsCurrent'
<1> SUFFICES ASSUME Base, AuthorityIsCurrent, [Next]_vars PROVE AuthorityIsCurrent'
  OBVIOUS
<1> DEFINE Handling(r) == stage[r] \in {"handle", "grant", "audit"}
           Suffices(row, r) == ~row.disabled /\ Rank[row.role] >= Rank[Required(op[r])]
<1>1. CASE Next
  <2>1. op' = op /\ actor' = actor
    BY <1>1 DEF Next, Step, Forget, BeginLogin, PasswordRefused, PasswordAccepted, ReadRole,
       BeginBootstrap, Bootstrap, Arrive, ReadPrincipal, UpdateUser, CreateAccount, GrantRole,
       GrantFails, IssueKey, RevokeKey, ChangeSettings, Audit, AuditFails, Present, Lookup, Touch,
       requesting
  <2>2. ASSUME NEW r \in Requests, Handling(r)'
        PROVE  \/ Handling(r)
               \/ Suffices(roles'[actor[r]], r)
    <3>1. ASSUME NEW x \in Requests, ReadPrincipal(x) PROVE Handling(r) \/ Suffices(roles'[actor[r]], r)
      <4>1. CASE x = r
        BY <2>2, <3>1, <4>1 DEF Base, TypeOK, ReadPrincipal, Move, Permits, tables
      <4>2. CASE x # r
        BY <2>2, <3>1, <4>2 DEF Base, TypeOK, ReadPrincipal, Move
      <4> QED BY <4>1, <4>2
    <3>2. CASE \E x \in Requests :
                 \/ Arrive(x) \/ UpdateUser(x) \/ CreateAccount(x) \/ GrantRole(x) \/ GrantFails(x)
                 \/ IssueKey(x) \/ RevokeKey(x) \/ ChangeSettings(x) \/ Audit(x) \/ AuditFails(x)
      BY <2>2, <3>2 DEF Base, TypeOK, Arrive, UpdateUser, CreateAccount, GrantRole, GrantFails,
                        IssueKey, RevokeKey, ChangeSettings, Audit, AuditFails, Move, Answer
    <3>3. CASE stage' = stage
      BY <2>2, <3>3
    <3>4. Step => \/ stage' = stage
                  \/ \E x \in Requests : ReadPrincipal(x)
                  \/ \E x \in Requests :
                       \/ Arrive(x) \/ UpdateUser(x) \/ CreateAccount(x) \/ GrantRole(x) \/ GrantFails(x)
                       \/ IssueKey(x) \/ RevokeKey(x) \/ ChangeSettings(x) \/ Audit(x) \/ AuditFails(x)
      BY DEF Step, Forget, BeginLogin, PasswordRefused, PasswordAccepted, ReadRole, BeginBootstrap,
             Bootstrap, Present, Lookup, Touch, requesting
    <3> QED BY <1>1, <3>1, <3>2, <3>3, <3>4 DEF Next
  <2>3. ASSUME NEW r \in Requests, Handling(r)'
        PROVE  \E row \in grounds'[r] : Suffices(row, r)'
    <3>1. grounds'[r] = grounds[r] \cup {roles'[actor[r]]}
      BY <1>1, <2>3 DEF Next, Remember
    <3>2. Handling(r) => \E row \in grounds[r] : Suffices(row, r)
      BY DEF AuthorityIsCurrent
    <3>3. ASSUME NEW row, Suffices(row, r) PROVE Suffices(row, r)'
      BY <2>1, <3>3
    <3> HIDE DEF Suffices, Handling
    <3> QED BY <2>2, <2>3, <3>1, <3>2, <3>3
  <2> QED BY <2>3 DEF AuthorityIsCurrent
<1>2. CASE UNCHANGED vars
  BY <1>2 DEF AuthorityIsCurrent, vars, state, requesting
<1> QED BY <1>1, <1>2

\* Disabling or demoting somebody binds every request that arrives later,
\* although the token stays valid (main.py:334).
THEOREM AuthorityIsAlwaysCurrent == Spec => []AuthorityIsCurrent
BY BaseInit, BaseNext, AuthorityInit, AuthorityNext, PTL DEF Spec

-----------------------------------------------------------------------------
(* The first administrator.                                                *)

\* A set that does not count more than one has one element at most, and the
\* other way round.
LEMMA AtMostOne ==
  ASSUME NEW S, IsFiniteSet(S)
  PROVE  ~(Cardinality(S) > 1) <=> \A x, y \in S : x = y
<1>1. ASSUME ~(Cardinality(S) > 1), NEW x \in S, NEW y \in S PROVE x = y
  <2>1. /\ IsFiniteSet(S \ {x}) /\ Cardinality(S \ {x}) = Cardinality(S) - 1
        /\ Cardinality(S) \in Nat /\ Cardinality(S \ {x}) \in Nat
    BY FS_RemoveElement, FS_CardinalityType
  <2>2. Cardinality(S \ {x}) = 0
    BY <1>1, <2>1
  <2>3. S \ {x} = {}
    BY <2>1, <2>2, FS_EmptySet
  <2> QED BY <2>3
<1>2. ASSUME \A x, y \in S : x = y PROVE ~(Cardinality(S) > 1)
  <2>1. CASE S = {}
    BY <2>1, FS_EmptySet
  <2>2. CASE S # {}
    <3>1. PICK x \in S : S = {x}
      BY <1>2, <2>2
    <3> QED BY <3>1, FS_Singleton
  <2> QED BY <2>1, <2>2
<1> QED BY <1>1, <1>2

\* Logins that wait for the advisory lock, or hold it.
AtGate == {l \in Logins : login[l] = "gate"}

\* Founders have a role, so that no login that begins to bootstrap after them
\* sees nobody.  The one that is at the gate alone has seen nobody only if
\* there was no founder, and still is none.
Founding ==
  /\ \A u \in founders : roles[u] # NoRow
  /\ ~raced => /\ \A l, m \in AtGate : l = m
               /\ \A l \in AtGate : sawNobody[l] => founders = {}
               /\ \A u, v \in founders : u = v

\* Nobody has a role yet.
LEMMA FoundingInit == Init => Founding
BY DEF Init, Founding, AtGate

\* raced is up to date.
LEMMA GateKnown ==
  ASSUME Remember
  PROVE  /\ ~raced' => ~raced
         /\ ~raced' => \A l, m \in AtGate' : l = m
<1>1. IsFiniteSet(AtGate')
  BY TasksAssumption, FS_Subset DEF AtGate
<1>2. ~raced' => ~raced /\ ~(Cardinality(AtGate') > 1)
  BY DEF Remember, AtGate
<1> QED BY <1>1, <1>2, AtMostOne

\* A row is never taken away.
LEMMA RolesStay ==
  ASSUME Base, Step, NEW u \in Users, roles[u] # NoRow
  PROVE  roles'[u] # NoRow
<1> USE DEF Base, TypeOK
<1>1. ASSUME NEW r \in Requests, UpdateUser(r) PROVE roles'[u] # NoRow
  <2>1. op[r].row # NoRow
    <3>1. StateTypeOK
      BY DEF StateTypeOK
    <3>2. op[r].row \in Row
      BY <1>1, <3>1, OperationTypes DEF UpdateUser
    <3> QED BY <3>2 DEF Row, Roles, Rank, NoRow
  <2> QED BY <1>1, <2>1 DEF UpdateUser
<1>2. ASSUME NEW r \in Requests, GrantRole(r) PROVE roles'[u] # NoRow
  BY <1>2 DEF GrantRole, NoRow
<1>3. ASSUME NEW l \in Logins, Bootstrap(l) PROVE roles'[u] # NoRow
  BY <1>3 DEF Bootstrap, Deny, NoRow
<1>4. Step =>
        \/ roles' = roles
        \/ \E r \in Requests : UpdateUser(r) \/ GrantRole(r)
        \/ \E l \in Logins : Bootstrap(l)
  BY DEF Step, Forget, BeginLogin, PasswordRefused, PasswordAccepted, ReadRole, BeginBootstrap,
     Deny, Arrive, ReadPrincipal, CreateAccount, GrantFails, IssueKey, RevokeKey, ChangeSettings,
     Audit, AuditFails, Present, Lookup, Touch, tables
<1> QED BY <1>1, <1>2, <1>3, <1>4

\* What a login that goes through the gate does to the founders.
LEMMA FoundingBootstrap ==
  ASSUME Base, Founding, NEW l \in Logins, Bootstrap(l), Remember
  PROVE  Founding'
<1> USE DEF Base, TypeOK
<1>1. name[l] \in Users
  BY UsersAssumption
<1>2. \A u \in founders' : roles'[u] # NoRow
  BY <1>1 DEF Founding, Bootstrap, Deny, NoRow
<1>3. ASSUME ~raced'
      PROVE  /\ \A m \in AtGate' : sawNobody'[m] => founders' = {}
             /\ \A u, v \in founders' : u = v
  <2>1. ~raced /\ l \in AtGate
    BY <1>3, GateKnown DEF Bootstrap, AtGate
  <2>2. AtGate' = {}
    BY <2>1 DEF Founding, Bootstrap, Deny, Admit, To, AtGate
  <2>3. founders' = founders \/ (founders' = founders \cup {name[l]} /\ founders = {})
    BY <2>1 DEF Founding, Bootstrap, Deny, Founds
  <2> QED BY <2>1, <2>2, <2>3 DEF Founding
<1> QED BY <1>2, <1>3, GateKnown DEF Founding

\* A login that begins to bootstrap sees nobody only if there is no founder.
LEMMA FoundingBegin ==
  ASSUME Base, Founding, NEW l \in Logins, BeginBootstrap(l), Remember
  PROVE  Founding'
<1> USE DEF Base, TypeOK
<1>1. roles' = roles /\ founders' = founders
  BY DEF BeginBootstrap, tables
<1>2. ASSUME ~raced', NEW m \in AtGate', sawNobody'[m] PROVE founders' = {}
  <2>1. CASE m = l
    BY <1>1, <1>2, <2>1 DEF Founding, BeginBootstrap, AtGate
  <2>2. CASE m # l
    BY <1>1, <1>2, <2>2, GateKnown DEF Founding, BeginBootstrap, AtGate, To
  <2> QED BY <2>1, <2>2
<1> QED BY <1>1, <1>2, GateKnown DEF Founding

\* Only BeginBootstrap and Bootstrap touch what the invariant relates.
LEMMA FoundingNext == Base /\ Founding /\ [Next]_vars => Founding'
<1> SUFFICES ASSUME Base, Founding, [Next]_vars PROVE Founding'
  OBVIOUS
<1>1. CASE Next
  <2>1. ASSUME founders' = founders, sawNobody' = sawNobody, AtGate' \subseteq AtGate
        PROVE  Founding'
    <3>1. \A u \in founders' : roles'[u] # NoRow
      BY <1>1, <2>1, RolesStay DEF Base, TypeOK, Founding, Next
    <3> QED BY <1>1, <2>1, <3>1, GateKnown DEF Founding, Next
  <2>2. ASSUME NEW l \in Logins, Bootstrap(l) \/ BeginBootstrap(l) PROVE Founding'
    BY <1>1, <2>2, FoundingBootstrap, FoundingBegin DEF Next
  <2>3. ASSUME NEW l \in Logins,
               BeginLogin(l) \/ PasswordRefused(l) \/ PasswordAccepted(l) \/ ReadRole(l)
        PROVE  Founding'
    BY <2>1, <2>3 DEF Base, TypeOK, BeginLogin, PasswordRefused, PasswordAccepted, ReadRole,
                      Deny, Admit, To, AtGate
  <2>4. ASSUME UNCHANGED <<login, sawNobody, founders>> PROVE Founding'
    BY <2>1, <2>4 DEF AtGate
  <2>5. Step =>
          \/ \E l \in Logins : Bootstrap(l) \/ BeginBootstrap(l)
          \/ \E l \in Logins :
               BeginLogin(l) \/ PasswordRefused(l) \/ PasswordAccepted(l) \/ ReadRole(l)
          \/ UNCHANGED <<login, sawNobody, founders>>
    BY DEF Step, Forget, Arrive, ReadPrincipal, UpdateUser, CreateAccount, GrantRole, GrantFails,
       IssueKey, RevokeKey, ChangeSettings, Audit, AuditFails, Present, Lookup, Touch, logging
  <2> QED BY <1>1, <2>2, <2>3, <2>4, <2>5 DEF Next
<1>2. CASE UNCHANGED vars
  BY <1>2 DEF Founding, AtGate, vars, state, tables, logging
<1> QED BY <1>1, <1>2

\* docs/PRODUCTION_DEPLOYMENT.md:21, "atomically assigns": unless two first
\* logins wait for the lock at once, one user is made administrator.
THEOREM OneUserIsFounder == Spec => []OneFounder
<1>1. Base /\ Founding => OneFounder
  <2> SUFFICES ASSUME Base, Founding, ~raced PROVE Cardinality(founders) <= 1
    BY DEF OneFounder
  <2>1. IsFiniteSet(founders)
    BY UsersAssumption, FS_Subset DEF Base, TypeOK
  <2>2. ~(Cardinality(founders) > 1)
    BY <2>1, AtMostOne DEF Founding
  <2> QED BY <2>1, <2>2, FS_CardinalityType
<1> QED BY <1>1, BaseInit, BaseNext, FoundingInit, FoundingNext, PTL DEF Spec

-----------------------------------------------------------------------------
(* The last administrator.                                                 *)

AdminRow == [role |-> "admin", disabled |-> FALSE]

\* As long as requests do not overlap, the one that is being handled is that
\* of somebody who still is what the operation requires, and so remains.
Administration ==
  ~overlapped /\ ~slipped =>
    /\ \A r, s \in InProgress : r = s
    /\ \A r \in Requests :
         stage[r] \in {"handle", "grant"} /\ Required(op[r]) = "admin"
           => roles[actor[r]] = AdminRow
    /\ founders # {} => \E u \in Users : roles[u] = AdminRow

\* Nobody has been founded yet.
LEMMA AdministrationInit == Init => Administration
BY DEF Init, Administration, InProgress

\* overlapped and slipped are up to date.
LEMMA OverlapKnown ==
  ASSUME Remember
  PROVE  /\ ~overlapped' => ~overlapped
         /\ ~overlapped' => \A r, s \in InProgress' : r = s
         /\ ~slipped' => ~slipped
         /\ ~slipped' => \A r \in Requests :
              UpdateUser(r) /\ KeepsOneself(r) /\ op[r].kind = "update"
                /\ op[r].target = actor[r] /\ op[r].canonical \in BOOLEAN
                => ~Demotes(op[r].row)
<1>1. IsFiniteSet(InProgress')
  BY TasksAssumption, FS_Subset DEF InProgress
<1>2. ~overlapped' => ~overlapped /\ ~(Cardinality(InProgress') > 1)
  BY DEF Remember
<1>3. ~slipped' => ~slipped
  BY DEF Remember
<1>4. ASSUME ~slipped', NEW r \in Requests, UpdateUser(r), KeepsOneself(r), op[r].kind = "update",
             op[r].target = actor[r], op[r].canonical \in BOOLEAN
      PROVE  ~Demotes(op[r].row)
  BY <1>4 DEF Remember, KeepsOneself
<1> QED BY <1>1, <1>2, <1>3, <1>4, AtMostOne

\* Whoever has the rank of an administrator and is not disabled is one.
LEMMA PermittedAdmin ==
  ASSUME NEW row \in Row \cup {NoRow}, NEW o, Required(o) = "admin", Permits(row, o)
  PROVE  row = AdminRow
<1>1. row \in Row
  BY DEF Permits
<1>2. row.role \in {"viewer", "operator", "admin"} /\ ~row.disabled /\ Rank[row.role] >= 3
  BY <1>1 DEF Permits, Row, Roles, Rank
<1>3. row.role = "admin"
  BY <1>2 DEF Rank
<1>4. row = [role |-> row.role, disabled |-> row.disabled] /\ row.disabled \in BOOLEAN
  BY <1>1 DEF Row
<1> QED BY <1>2, <1>3, <1>4 DEF AdminRow

\* A request that changes no row.
LEMMA AdministrationQuiet ==
  ASSUME Base, Administration, Remember, NEW r \in Requests,
         UNCHANGED <<roles, founders, op, actor>>,
         \A x \in Requests \ {r} : stage'[x] = stage[x],
         stage'[r] \in {"handle", "grant"} =>
           stage[r] = "handle" \/ Permits(roles[actor[r]], op[r])
  PROVE  Administration'
<1> SUFFICES ASSUME ~overlapped', ~slipped' PROVE Administration'
  BY DEF Administration
<1>1. ASSUME NEW x \in Requests, stage'[x] \in {"handle", "grant"}, Required(op[x]) = "admin"
      PROVE  roles[actor[x]] = AdminRow
  <2>1. CASE x = r /\ Permits(roles[actor[r]], op[r])
    <3>1. roles[actor[r]] \in Row \cup {NoRow}
      BY UsersAssumption DEF Base, TypeOK
    <3> QED BY <1>1, <2>1, <3>1, PermittedAdmin
  <2>2. CASE stage[x] \in {"handle", "grant"}
    BY <1>1, <2>2, OverlapKnown DEF Administration
  <2> QED BY <1>1, <2>1, <2>2
<1>2. founders # {} => \E u \in Users : roles[u] = AdminRow
  BY OverlapKnown DEF Administration
<1>3. Required(op[r])' = Required(op[r]) /\ \A x \in Requests : Required(op[x])' = Required(op[x])
  BY DEF Required
<1> QED BY <1>1, <1>2, <1>3, OverlapKnown DEF Administration

\* A request that writes a row and is answered: alone, and its actor stays
\* what it is.
LEMMA AdministrationWrite ==
  ASSUME Base, Administration, Remember, NEW r \in Requests, NEW u \in Users, NEW row,
         UNCHANGED <<founders, op, actor>>, Required(op[r]) = "admin",
         stage[r] \in {"handle", "grant"}, stage' = [stage EXCEPT ![r] = "audit"],
         roles' = [roles EXCEPT ![u] = row], ~slipped' /\ u = actor[r] => row = AdminRow
  PROVE  Administration'
<1> SUFFICES ASSUME ~overlapped', ~slipped' PROVE Administration'
  BY DEF Administration
<1>1. roles[actor[r]] = AdminRow /\ actor[r] \in Users
  BY OverlapKnown, UsersAssumption DEF Administration, Base, TypeOK
<1>2. roles'[actor[r]] = AdminRow
  BY <1>1 DEF Base, TypeOK
<1>3. ASSUME NEW x \in Requests, stage'[x] \in {"handle", "grant"} PROVE FALSE
  <2>1. x # r /\ x \in InProgress /\ r \in InProgress
    BY <1>3 DEF Base, TypeOK, InProgress
  <2> QED BY <2>1, OverlapKnown DEF Administration
<1> QED BY <1>1, <1>2, <1>3, OverlapKnown DEF Administration

\* A user who had no row becomes administrator.
LEMMA AdministrationBootstrap ==
  ASSUME Base, Administration, Remember, NEW l \in Logins, Bootstrap(l)
  PROVE  Administration'
<1> SUFFICES ASSUME ~overlapped', ~slipped' PROVE Administration'
  BY DEF Administration
<1>1. name[l] \in Users /\ stage' = stage /\ actor' = actor /\ op' = op
  BY UsersAssumption DEF Base, TypeOK, Bootstrap, requesting
<1>2. CASE Founds(l)
  <2>1. roles' = [roles EXCEPT ![name[l]] = AdminRow] /\ roles[name[l]] = NoRow
    BY <1>2 DEF Bootstrap, Founds, AdminRow
  <2>2. \A u \in Users : roles[u] = AdminRow => roles'[u] = AdminRow
    BY <2>1 DEF Base, TypeOK
  <2>3. roles'[name[l]] = AdminRow
    BY <1>1, <2>1 DEF Base, TypeOK
  <2>4. \A r \in Requests : actor[r] \in Users
    BY UsersAssumption DEF Base, TypeOK
  <2>5. \A r \in Requests : Required(op[r])' = Required(op[r])
    BY <1>1 DEF Required
  <2> QED BY <1>1, <2>2, <2>3, <2>4, <2>5, OverlapKnown DEF Administration
<1>3. CASE ~Founds(l)
  <2>1. roles' = roles /\ founders' = founders
    BY <1>3 DEF Bootstrap, Deny
  <2>2. \A r \in Requests : Required(op[r])' = Required(op[r])
    BY <1>1 DEF Required
  <2> QED BY <1>1, <2>1, <2>2, OverlapKnown DEF Administration
<1> QED BY <1>2, <1>3

\* One request at a time: its actor is an administrator it cannot touch.
LEMMA AdministrationNext == Base /\ Administration /\ [Next]_vars => Administration'
<1> SUFFICES ASSUME Base, Administration, [Next]_vars PROVE Administration'
  OBVIOUS
<1>1. CASE Next
  <2>1. Remember
    BY <1>1 DEF Next
  <2>2. ASSUME NEW r \in Requests,
               \/ Arrive(r) \/ ReadPrincipal(r) \/ CreateAccount(r) \/ GrantFails(r) \/ IssueKey(r)
               \/ RevokeKey(r) \/ ChangeSettings(r) \/ Audit(r) \/ AuditFails(r)
        PROVE  Administration'
    <3>1. /\ UNCHANGED <<roles, founders, op, actor>>
          /\ \A x \in Requests \ {r} : stage'[x] = stage[x]
          /\ stage'[r] \in {"handle", "grant"} =>
               stage[r] = "handle" \/ Permits(roles[actor[r]], op[r])
      BY <2>2 DEF Base, TypeOK, Arrive, ReadPrincipal, CreateAccount, GrantFails, IssueKey,
         RevokeKey, ChangeSettings, Audit, AuditFails, Move, Answer, tables, logging
    <3> QED BY <2>1, <3>1, AdministrationQuiet
  <2>3. ASSUME NEW r \in Requests, UpdateUser(r) PROVE Administration'
    <3>1. op[r].target \in Users /\ op[r].row \in Row
      <4>1. StateTypeOK
        BY DEF Base, TypeOK, StateTypeOK
      <4> QED BY <2>3, <4>1, OperationTypes DEF UpdateUser
    <3>2. /\ UNCHANGED <<founders, op, actor>> /\ stage[r] = "handle"
          /\ stage' = [stage EXCEPT ![r] = "audit"] /\ Required(op[r]) = "admin"
      BY <2>3 DEF UpdateUser, Answer, Move, logging, Required
    <3>3. CASE KeepsOneself(r)
      <4>1. roles' = [roles EXCEPT ![op[r].target] = op[r].row]
        BY <2>3, <3>3 DEF UpdateUser
      <4>2. ~slipped' /\ op[r].target = actor[r] => op[r].row = AdminRow
        <5>1. op[r].kind = "update" /\ op[r].canonical \in BOOLEAN
          BY <2>3, OperationTypes DEF UpdateUser, Base, TypeOK, StateTypeOK
        <5>2. ~slipped' /\ op[r].target = actor[r] => ~Demotes(op[r].row)
          BY <2>1, <2>3, <3>3, <5>1, OverlapKnown
        <5> QED BY <3>1, <5>2 DEF Demotes, Row, AdminRow
      <4> QED BY <2>1, <3>1, <3>2, <4>1, <4>2, AdministrationWrite
    <3>4. CASE ~KeepsOneself(r)
      <4>1. roles' = roles
        BY <2>3, <3>4 DEF UpdateUser
      <4>2. /\ \A x \in Requests \ {r} : stage'[x] = stage[x]
            /\ stage'[r] \notin {"handle", "grant"}
        BY <3>2 DEF Base, TypeOK
      <4> QED BY <2>1, <3>2, <4>1, <4>2, AdministrationQuiet
    <3> QED BY <3>3, <3>4
  <2>4. ASSUME NEW r \in Requests, GrantRole(r) PROVE Administration'
    <3>1. op[r].kind = "create" /\ op[r].target # actor[r] /\ op[r].target \in Users
      <4>1. StateTypeOK
        BY DEF Base, TypeOK, StateTypeOK
      <4>2. op[r].kind = "create" /\ op[r].target # actor[r]
        BY <2>4 DEF Base, Accounts, GrantRole
      <4> QED BY <4>1, <4>2, OperationTypes
    <3>2. /\ UNCHANGED <<founders, op, actor>> /\ stage[r] = "grant"
          /\ stage' = [stage EXCEPT ![r] = "audit"] /\ Required(op[r]) = "admin"
          /\ roles' = [roles EXCEPT ![op[r].target] = [role |-> op[r].role, disabled |-> FALSE]]
      BY <2>4, <3>1 DEF GrantRole, Answer, Move, logging, Required
    <3> QED BY <2>1, <3>1, <3>2, AdministrationWrite
  <2>5. ASSUME NEW l \in Logins, Bootstrap(l) PROVE Administration'
    BY <2>1, <2>5, AdministrationBootstrap
  <2>6. ASSUME UNCHANGED <<roles, founders, requesting>> PROVE Administration'
    <3>1. \A r \in Requests : Required(op[r])' = Required(op[r])
      BY <2>6 DEF Required, requesting
    <3> QED BY <2>1, <2>6, <3>1, OverlapKnown DEF Administration, requesting
  <2>7. Step =>
          \/ \E r \in Requests :
               \/ Arrive(r) \/ ReadPrincipal(r) \/ CreateAccount(r) \/ GrantFails(r) \/ IssueKey(r)
               \/ RevokeKey(r) \/ ChangeSettings(r) \/ Audit(r) \/ AuditFails(r)
          \/ \E r \in Requests : UpdateUser(r) \/ GrantRole(r)
          \/ \E l \in Logins : Bootstrap(l)
          \/ UNCHANGED <<roles, founders, requesting>>
    BY DEF Step, Forget, BeginLogin, PasswordRefused, PasswordAccepted, ReadRole, BeginBootstrap,
       Deny, Present, Lookup, Touch, tables, logging
  <2> QED BY <1>1, <2>2, <2>3, <2>4, <2>5, <2>6, <2>7 DEF Next
<1>2. CASE UNCHANGED vars
  BY <1>2 DEF Administration, InProgress, Required, vars, state, tables, logging, requesting
<1> QED BY <1>1, <1>2

\* main.py:1307, "Administrators cannot disable or demote their own account":
\* whatever requests come one after the other, an administrator remains.
THEOREM AnAdministratorRemains == Spec => []AdministratorRemains
<1>1. Administration => AdministratorRemains
  BY DEF Administration, AdministratorRemains, AdminRow
<1> QED BY <1>1, BaseInit, BaseNext, AdministrationInit, AdministrationNext, PTL DEF Spec

-----------------------------------------------------------------------------
(* The audit log.                                                          *)

\* Requests that are recorded as successes, will be, or whose record failed.
Recorded ==
  {r \in Requests :
     \/ [request |-> r, by |-> actor[r], ok |-> TRUE] \in audit
     \/ stage[r] \in {"audit", "unrecorded"} /\ r \in succeeded}

\* A recorded request that did o.
Done(o) == \E r \in Recorded : op[r] = o

\* Why a user may have a row, and a key its state.
RowBacked(u, row) ==
  \/ u \in founders /\ row = AdminRow
  \/ \E b \in BOOLEAN : Done([kind |-> "update", target |-> u, canonical |-> b, row |-> row])
  \/ Done([kind |-> "create", target |-> u, role |-> row.role])
KeyBacked(k, key) ==
  /\ key.created => Done([kind |-> "issue", key |-> k, expires |-> key.expires])
  /\ key.revoked => Done([kind |-> "revoke", key |-> k])

\* ChangesAreAudited, row by row.
Audited ==
  /\ \A u \in Users : roles[u] # NoRow => RowBacked(u, roles[u])
  /\ \A k \in Keys : KeyBacked(k, keys[k])

\* There is no role and no key that would need a record.
LEMMA AuditedInit == Init => Audited
BY DEF Init, Audited, KeyBacked, NoKey

\* What is recorded stays recorded: it waits for its record, gets it, or has
\* been refused one.
LEMMA RecordedStays ==
  ASSUME Base, Step
  PROVE  /\ Recorded \subseteq Recorded' /\ UNCHANGED op
         /\ \A o : Done(o) => Done(o)'
<1> USE DEF Base, TypeOK
<1>1. ASSUME NEW r \in Requests, Audit(r) PROVE Recorded \subseteq Recorded' /\ op' = op
  BY <1>1 DEF Audit, Event, Move, Recorded, logging
<1>2. ASSUME NEW r \in Requests,
             \/ Arrive(r) \/ ReadPrincipal(r) \/ UpdateUser(r) \/ CreateAccount(r) \/ GrantRole(r)
             \/ GrantFails(r) \/ IssueKey(r) \/ RevokeKey(r) \/ ChangeSettings(r) \/ AuditFails(r)
      PROVE  Recorded \subseteq Recorded' /\ op' = op
  BY <1>2 DEF Arrive, ReadPrincipal, UpdateUser, CreateAccount, GrantRole, GrantFails, IssueKey,
     RevokeKey, ChangeSettings, AuditFails, Answer, Move, Recorded, tables
<1>3. ASSUME UNCHANGED <<audit, requesting>> PROVE Recorded \subseteq Recorded' /\ op' = op
  BY <1>3 DEF Recorded, requesting
<1>4. Step =>
        \/ \E r \in Requests : Audit(r)
        \/ \E r \in Requests :
             \/ Arrive(r) \/ ReadPrincipal(r) \/ UpdateUser(r) \/ CreateAccount(r) \/ GrantRole(r)
             \/ GrantFails(r) \/ IssueKey(r) \/ RevokeKey(r) \/ ChangeSettings(r) \/ AuditFails(r)
        \/ UNCHANGED <<audit, requesting>>
  BY DEF Step, Forget, BeginLogin, PasswordRefused, PasswordAccepted, ReadRole, BeginBootstrap,
     Bootstrap, Present, Lookup, Touch, tables
<1>5. Recorded \subseteq Recorded' /\ op' = op
  BY <1>1, <1>2, <1>3, <1>4
<1> QED BY <1>5 DEF Done

\* A request that has succeeded and is about to be audited is recorded.
LEMMA AnswerRecords ==
  ASSUME Base, NEW r \in Requests, Answer(r, TRUE), UNCHANGED op, NEW o, op[r] = o
  PROVE  Done(o)'
<1>1. stage'[r] = "audit" /\ r \in succeeded'
  BY DEF Base, TypeOK, Answer, Move
<1>2. r \in Recorded'
  BY <1>1 DEF Recorded
<1> QED BY <1>2 DEF Done

\* What backs a row or a key goes on doing so.
LEMMA BackedStays ==
  ASSUME Base, Step, founders \subseteq founders'
  PROVE  /\ \A u, row : RowBacked(u, row) => RowBacked(u, row)'
         /\ \A k, key : KeyBacked(k, key) => KeyBacked(k, key)'
BY RecordedStays DEF RowBacked, KeyBacked

\* One row that is written, and one key.
LEMMA RowWritten ==
  ASSUME Base, Audited, Step, NEW u \in Users, NEW row, keys' = keys, founders \subseteq founders',
         roles' = [roles EXCEPT ![u] = row], RowBacked(u, row)'
  PROVE  Audited'
<1>1. ASSUME NEW v \in Users, roles'[v] # NoRow PROVE RowBacked(v, roles[v])'
  <2>1. CASE v = u
    <3>1. roles'[v] = row
      BY <2>1 DEF Base, TypeOK
    <3> QED BY <2>1, <3>1 DEF RowBacked, Done
  <2>2. CASE v # u
    <3>1. roles'[v] = roles[v]
      BY <2>2 DEF Base, TypeOK
    <3>2. PICK old : old = roles[v]
      OBVIOUS
    <3>3. RowBacked(v, old)
      BY <1>1, <3>1, <3>2 DEF Audited
    <3>4. RowBacked(v, old)'
      BY <3>3, BackedStays
    <3> QED BY <3>1, <3>2, <3>4 DEF RowBacked, Done
  <2> QED BY <2>1, <2>2
<1>2. ASSUME NEW k \in Keys PROVE KeyBacked(k, keys[k])'
  <2>1. PICK key : key = keys[k]
    OBVIOUS
  <2>2. KeyBacked(k, key)'
    BY <2>1, BackedStays DEF Audited
  <2> QED BY <2>1, <2>2 DEF KeyBacked, Done
<1> QED BY <1>1, <1>2 DEF Audited

\* One key that is written; the others stay backed.
LEMMA KeyWritten ==
  ASSUME Base, Audited, Step, NEW k \in Keys, NEW key, roles' = roles, founders' = founders,
         keys'[k] = key, \A x \in Keys \ {k} : keys'[x] = keys[x], KeyBacked(k, key)'
  PROVE  Audited'
<1>1. ASSUME NEW v \in Users, roles'[v] # NoRow PROVE RowBacked(v, roles[v])'
  <2>1. PICK row : row = roles[v]
    OBVIOUS
  <2>2. RowBacked(v, row)'
    BY <1>1, <2>1, BackedStays DEF Audited
  <2> QED BY <2>1, <2>2 DEF RowBacked, Done
<1>2. ASSUME NEW x \in Keys PROVE KeyBacked(x, keys[x])'
  <2>1. CASE x = k
    BY <2>1 DEF KeyBacked, Done
  <2>2. CASE x # k
    <3>1. PICK old : old = keys[x]
      OBVIOUS
    <3>2. KeyBacked(x, old)'
      BY <3>1, BackedStays DEF Audited
    <3> QED BY <2>2, <3>1, <3>2 DEF KeyBacked, Done
  <2> QED BY <2>1, <2>2
<1> QED BY <1>1, <1>2 DEF Audited

\* Neither.
LEMMA NothingWritten ==
  ASSUME Base, Audited, Step, roles' = roles, keys' = keys, founders' = founders
  PROVE  Audited'
<1>1. ASSUME NEW v \in Users, roles'[v] # NoRow PROVE RowBacked(v, roles[v])'
  <2>1. PICK row : row = roles[v]
    OBVIOUS
  <2>2. RowBacked(v, row)'
    BY <1>1, <2>1, BackedStays DEF Audited
  <2> QED BY <2>1, <2>2 DEF RowBacked, Done
<1>2. ASSUME NEW k \in Keys PROVE KeyBacked(k, keys[k])'
  <2>1. PICK key : key = keys[k]
    OBVIOUS
  <2>2. KeyBacked(k, key)'
    BY <2>1, BackedStays DEF Audited
  <2> QED BY <2>1, <2>2 DEF KeyBacked, Done
<1> QED BY <1>1, <1>2 DEF Audited

\* Every row and key that a step writes has its request.
LEMMA AuditedNext == Base /\ Audited /\ [Next]_vars => Audited'
<1> SUFFICES ASSUME Base, Audited, [Next]_vars PROVE Audited'
  OBVIOUS
<1>1. CASE Next
  <2>1. Step /\ StateTypeOK
    BY <1>1 DEF Next, Base, TypeOK, StateTypeOK
  <2>2. ASSUME NEW r \in Requests, UpdateUser(r) PROVE Audited'
    <3>1. PICK u, b, row : u = op[r].target /\ b = op[r].canonical /\ row = op[r].row
      OBVIOUS
    <3>2. /\ u \in Users /\ b \in BOOLEAN
          /\ op[r] = [kind |-> "update", target |-> u, canonical |-> b, row |-> row]
      <4>1. op[r] \in [kind : {"update"}, target : Users, canonical : BOOLEAN, row : Row]
        BY <2>1, <2>2, OperationTypes DEF UpdateUser
      <4> QED BY <3>1, <4>1
    <3>3. UNCHANGED <<keys, founders, op>>
      BY <2>2 DEF UpdateUser, logging
    <3>4. CASE KeepsOneself(r)
      <4>1. Done([kind |-> "update", target |-> u, canonical |-> b, row |-> row])'
        BY <2>2, <3>2, <3>3, <3>4, AnswerRecords DEF UpdateUser
      <4>2. RowBacked(u, row)'
        BY <3>2, <4>1 DEF RowBacked
      <4>3. roles' = [roles EXCEPT ![u] = row]
        BY <2>2, <3>1, <3>4 DEF UpdateUser
      <4> QED BY <2>1, <3>2, <3>3, <4>2, <4>3, RowWritten
    <3>5. CASE ~KeepsOneself(r)
      BY <2>1, <2>2, <3>3, <3>5, NothingWritten DEF UpdateUser
    <3> QED BY <3>4, <3>5
  <2>3. ASSUME NEW r \in Requests, GrantRole(r) PROVE Audited'
    <3>1. PICK u, role : u = op[r].target /\ role = op[r].role
      OBVIOUS
    <3>2. u \in Users /\ op[r] = [kind |-> "create", target |-> u, role |-> role]
      <4>1. op[r].kind = "create"
        BY <2>3 DEF Base, Accounts, GrantRole
      <4>2. op[r] \in [kind : {"create"}, target : Users, role : Roles]
        BY <2>1, <4>1, OperationTypes
      <4> QED BY <3>1, <4>2
    <3>3. UNCHANGED <<keys, founders, op>>
      BY <2>3 DEF GrantRole, logging
    <3>4. Done([kind |-> "create", target |-> u, role |-> role])'
      BY <2>3, <3>2, <3>3, AnswerRecords DEF GrantRole
    <3>5. RowBacked(u, [role |-> role, disabled |-> FALSE])'
      BY <3>4 DEF RowBacked
    <3>6. roles' = [roles EXCEPT ![u] = [role |-> role, disabled |-> FALSE]]
      BY <2>3, <3>1 DEF GrantRole
    <3> QED BY <2>1, <3>2, <3>3, <3>5, <3>6, RowWritten
  <2>4. ASSUME NEW r \in Requests, IssueKey(r) PROVE Audited'
    <3>1. PICK k, expires : k = op[r].key /\ expires = op[r].expires
      OBVIOUS
    <3>2. k \in Keys /\ op[r] = [kind |-> "issue", key |-> k, expires |-> expires]
      <4>1. op[r] \in [kind : {"issue"}, key : Keys, expires : BOOLEAN]
        BY <2>1, <2>4, OperationTypes DEF IssueKey
      <4> QED BY <3>1, <4>1
    <3>3. UNCHANGED <<roles, founders, op>>
      BY <2>4 DEF IssueKey, logging
    <3>4. Done([kind |-> "issue", key |-> k, expires |-> expires])'
      BY <2>4, <3>2, <3>3, AnswerRecords DEF IssueKey
    <3>5. KeyBacked(k, [created |-> TRUE, revoked |-> FALSE, expires |-> expires])'
      BY <3>4 DEF KeyBacked
    <3>6. /\ keys'[k] = [created |-> TRUE, revoked |-> FALSE, expires |-> expires]
          /\ \A x \in Keys \ {k} : keys'[x] = keys[x]
      BY <2>4, <3>1, <3>2 DEF Base, TypeOK, IssueKey
    <3> QED BY <2>1, <3>2, <3>3, <3>5, <3>6, KeyWritten
  <2>5. ASSUME NEW r \in Requests, RevokeKey(r) PROVE Audited'
    <3>1. PICK k, old : k = op[r].key /\ old = keys[k]
      OBVIOUS
    <3>2. k \in Keys /\ op[r] = [kind |-> "revoke", key |-> k]
      <4>1. op[r] \in [kind : {"revoke"}, key : Keys]
        BY <2>1, <2>5, OperationTypes DEF RevokeKey
      <4> QED BY <3>1, <4>1
    <3>3. UNCHANGED <<roles, founders, op>>
      BY <2>5 DEF RevokeKey, logging
    <3>4. CASE Revocable(k)
      <4>1. Done([kind |-> "revoke", key |-> k])'
        BY <2>5, <3>1, <3>2, <3>3, <3>4, AnswerRecords DEF RevokeKey
      <4>2. PICK key : key = [old EXCEPT !.revoked = TRUE]
        OBVIOUS
      <4>3. key.created = old.created /\ key.expires = old.expires
        BY <3>1, <3>2, <4>2 DEF Base, TypeOK
      <4>4. KeyBacked(k, old)'
        BY <2>1, <3>1, <3>2, <3>3, BackedStays DEF Audited
      <4>5. KeyBacked(k, key)'
        BY <4>1, <4>3, <4>4 DEF KeyBacked
      <4>6. keys'[k] = key /\ \A x \in Keys \ {k} : keys'[x] = keys[x]
        BY <2>5, <3>1, <3>2, <3>4, <4>2 DEF Base, TypeOK, RevokeKey
      <4> QED BY <2>1, <3>2, <3>3, <4>5, <4>6, KeyWritten
    <3>5. CASE ~Revocable(k)
      BY <2>1, <2>5, <3>1, <3>3, <3>5, NothingWritten DEF RevokeKey
    <3> QED BY <3>4, <3>5
  <2>6. ASSUME NEW l \in Logins, Bootstrap(l) PROVE Audited'
    <3>1. CASE Founds(l)
      <4>1. PICK u : u = name[l]
        OBVIOUS
      <4>2. /\ roles' = [roles EXCEPT ![u] = AdminRow] /\ u \in Users
            /\ founders' = founders \cup {u} /\ keys' = keys
        BY <2>6, <3>1, <4>1, UsersAssumption DEF Base, TypeOK, Bootstrap, AdminRow
      <4>3. RowBacked(u, AdminRow)'
        BY <4>2 DEF RowBacked, AdminRow
      <4> QED BY <2>1, <4>2, <4>3, RowWritten
    <3>2. CASE ~Founds(l)
      BY <2>1, <2>6, <3>2, NothingWritten DEF Bootstrap, Deny
    <3> QED BY <3>1, <3>2
  <2>7. Step =>
          \/ \E r \in Requests : UpdateUser(r) \/ GrantRole(r) \/ IssueKey(r) \/ RevokeKey(r)
          \/ \E l \in Logins : Bootstrap(l)
          \/ UNCHANGED <<roles, keys, founders>>
    BY DEF Step, Forget, BeginLogin, PasswordRefused, PasswordAccepted, ReadRole, BeginBootstrap,
       Deny, Arrive, ReadPrincipal, CreateAccount, GrantFails, ChangeSettings, Audit, AuditFails,
       Present, Lookup, Touch, tables, logging
  <2> QED BY <2>1, <2>2, <2>3, <2>4, <2>5, <2>6, <2>7, NothingWritten
<1>2. CASE UNCHANGED vars
  <2>1. UNCHANGED <<roles, keys, founders, op>> /\ Recorded' = Recorded
    BY <1>2 DEF Recorded, vars, state, tables, logging, requesting
  <2>2. \A o : Done(o)' <=> Done(o)
    BY <2>1 DEF Done
  <2>3. /\ \A u, row : RowBacked(u, row)' <=> RowBacked(u, row)
        /\ \A k, key : KeyBacked(k, key)' <=> KeyBacked(k, key)
    BY <2>1, <2>2 DEF RowBacked, KeyBacked
  <2>4. ASSUME NEW u \in Users, roles'[u] # NoRow PROVE RowBacked(u, roles[u])'
    <3>1. PICK row : row = roles[u]
      OBVIOUS
    <3>2. RowBacked(u, row)'
      BY <2>1, <2>3, <2>4, <3>1 DEF Audited
    <3> QED BY <2>1, <3>1, <3>2 DEF RowBacked, Done
  <2>5. ASSUME NEW k \in Keys PROVE KeyBacked(k, keys[k])'
    <3>1. PICK key : key = keys[k]
      OBVIOUS
    <3>2. KeyBacked(k, key)'
      BY <2>3, <3>1 DEF Audited
    <3> QED BY <2>1, <3>1, <3>2 DEF KeyBacked, Done
  <2> QED BY <2>4, <2>5 DEF Audited
<1> QED BY <1>1, <1>2

\* README.md:30, "full audit log": no role, key or revocation without a
\* request that is recorded, unless the database refused the record.
THEOREM ChangesAreAlwaysAudited == Spec => []ChangesAreAudited
<1>1. ASSUME Audited PROVE ChangesAreAudited
  <2>1. ASSUME NEW o, NEW kind, Done(o), o.kind = kind
        PROVE  o \in {op[r] : r \in {q \in Recorded : op[q].kind = kind}}
    BY <2>1 DEF Done
  <2>2. ASSUME NEW u \in Users, roles[u] # NoRow
        PROVE  \/ u \in founders /\ roles[u] = AdminRow
               \/ \E o \in {op[r] : r \in {q \in Recorded : op[q].kind = "update"}} :
                    o.target = u /\ o.row = roles[u]
               \/ [kind |-> "create", target |-> u, role |-> roles[u].role]
                    \in {op[r] : r \in {q \in Recorded : op[q].kind = "create"}}
    <3>1. RowBacked(u, roles[u])
      BY <1>1, <2>2 DEF Audited
    <3>2. CASE u \in founders /\ roles[u] = AdminRow
      BY <3>2
    <3>3. CASE \E b \in BOOLEAN :
                 Done([kind |-> "update", target |-> u, canonical |-> b, row |-> roles[u]])
      BY <2>1, <3>3
    <3>4. CASE Done([kind |-> "create", target |-> u, role |-> roles[u].role])
      BY <2>1, <3>4
    <3> QED BY <3>1, <3>2, <3>3, <3>4 DEF RowBacked
  <2>3. ASSUME NEW k \in Keys
        PROVE  /\ keys[k].created =>
                    [kind |-> "issue", key |-> k, expires |-> keys[k].expires]
                      \in {op[r] : r \in {q \in Recorded : op[q].kind = "issue"}}
               /\ keys[k].revoked =>
                    [kind |-> "revoke", key |-> k]
                      \in {op[r] : r \in {q \in Recorded : op[q].kind = "revoke"}}
    <3>1. KeyBacked(k, keys[k])
      BY <1>1 DEF Audited
    <3> QED BY <2>1, <3>1 DEF KeyBacked
  <2> QED BY <2>2, <2>3 DEF ChangesAreAudited, Recorded, AdminRow
<1> QED BY <1>1, BaseInit, BaseNext, AuditedInit, AuditedNext, PTL DEF Spec

-----------------------------------------------------------------------------
(* The throttle.                                                           *)

\* The logins of a user that are under way, which may still fail.
Under(u) == {l \in LoggingIn : name[l] = u}

\* GuessesBounded without the types.
Bounded ==
  \A u \in Users : failures[u] + Cardinality(Under(u)) < Attempts + Cardinality(Logins)

\* Sets of logins are finite; one login more or less counts one.
LEMMA CountLogins ==
  ASSUME NEW S \in SUBSET Logins, NEW l \in Logins
  PROVE  /\ Cardinality(S) \in Nat /\ Cardinality(S) <= Cardinality(Logins)
         /\ Cardinality(Logins) \in Nat
         /\ l \in S => Cardinality(S \ {l}) = Cardinality(S) - 1
         /\ l \notin S => S \ {l} = S
BY TasksAssumption, FS_Subset, FS_CardinalityType, FS_RemoveElement

\* No failure has been counted and no login is under way.
LEMMA BoundedInit == Init => Bounded
<1> SUFFICES ASSUME Init, NEW u \in Users
             PROVE  failures[u] + Cardinality(Under(u)) < Attempts + Cardinality(Logins)
  BY DEF Bounded
<1>1. Under(u) = {} /\ failures[u] = 0
  BY DEF Init, Under, LoggingIn
<1>2. Cardinality(Under(u)) = 0 /\ Cardinality(Logins) \in Nat
  BY <1>1, FS_EmptySet, FS_CardinalityType, TasksAssumption
<1> QED BY <1>1, <1>2, AttemptsAssumption

\* A login that goes from one stage to another and leaves the failures alone.
LEMMA UnderSame ==
  ASSUME Base, Bounded, UNCHANGED <<failures, name>>, LoggingIn' = LoggingIn
  PROVE  Bounded'
<1>1. \A u : Under(u)' = Under(u)
  BY DEF Under
<1> QED BY <1>1 DEF Bounded

\* A login that ends, with a failure more or none.
LEMMA UnderEnds ==
  ASSUME Base, Bounded, NEW l \in LoggingIn, name' = name, LoggingIn' = LoggingIn \ {l},
         \/ failures' = [failures EXCEPT ![name[l]] = @ + 1]
         \/ failures' = [failures EXCEPT ![name[l]] = 0]
  PROVE  Bounded'
<1> SUFFICES ASSUME NEW u \in Users
             PROVE  failures'[u] + Cardinality(Under(u)') < Attempts + Cardinality(Logins)
  BY DEF Bounded
<1>1. l \in Logins /\ Under(u) \in SUBSET Logins /\ Under(u)' = Under(u) \ {l}
  BY DEF Under, LoggingIn
<1>2. /\ failures[u] \in Nat /\ failures[u] + Cardinality(Under(u)) < Attempts + Cardinality(Logins)
      /\ Cardinality(Under(u)) \in Nat /\ Cardinality(Logins) \in Nat /\ Attempts \in Nat
  BY <1>1, CountLogins, AttemptsAssumption DEF Base, TypeOK, Bounded
<1>3. CASE name[l] = u
  <2>1. Cardinality(Under(u)') = Cardinality(Under(u)) - 1
    BY <1>1, <1>3, CountLogins DEF Under
  <2>2. failures'[u] = failures[u] + 1 \/ failures'[u] = 0
    BY <1>3 DEF Base, TypeOK
  <2> QED BY <1>2, <2>1, <2>2
<1>4. CASE name[l] # u
  <2>1. Under(u)' = Under(u) /\ failures'[u] = failures[u]
    BY <1>1, <1>4 DEF Base, TypeOK, Under
  <2> QED BY <1>2, <2>1
<1> QED BY <1>3, <1>4

\* A login that passes the throttle: there was room for a failure of its own,
\* whatever the others become.
LEMMA UnderBegins ==
  ASSUME Base, Bounded, NEW l \in Logins, BeginLogin(l)
  PROVE  Bounded'
<1>1. failures' = failures /\ name' = name
  BY DEF BeginLogin
<1>2. CASE Allowed(name[l])
  <2> SUFFICES ASSUME NEW u \in Users
               PROVE  failures[u] + Cardinality(Under(u)') < Attempts + Cardinality(Logins)
    BY <1>1 DEF Bounded
  <2>1. /\ Under(u) \in SUBSET Logins /\ Under(u)' \in SUBSET Logins
        /\ failures[u] \in Nat /\ Attempts \in Nat
    BY AttemptsAssumption DEF Under, LoggingIn, Base, TypeOK
  <2>2. CASE name[l] = u
    <3>1. Cardinality(Under(u)') <= Cardinality(Logins) /\ Cardinality(Under(u)') \in Nat
          /\ Cardinality(Logins) \in Nat
      BY <2>1, CountLogins
    <3>2. failures[u] < Attempts
      BY <1>2, <2>2 DEF Allowed
    <3> QED BY <2>1, <3>1, <3>2
  <2>3. CASE name[l] # u
    <3>1. Under(u)' = Under(u)
      BY <1>1, <2>3 DEF Base, TypeOK, Under, LoggingIn, BeginLogin, To
    <3> QED BY <3>1 DEF Bounded
  <2> QED BY <2>2, <2>3
<1>3. CASE ~Allowed(name[l])
  <2>1. LoggingIn' = LoggingIn
    BY <1>3 DEF Base, TypeOK, LoggingIn, BeginLogin, To
  <2> QED BY <1>1, <2>1, UnderSame
<1> QED BY <1>2, <1>3

\* What the steps of a login do to the throttle.
LEMMA LoginThrottle ==
  ASSUME Base, NEW l \in Logins,
         \/ PasswordRefused(l) \/ PasswordAccepted(l)
         \/ ReadRole(l) \/ BeginBootstrap(l) \/ Bootstrap(l)
  PROVE  /\ l \in LoggingIn /\ name' = name
         /\ \/ failures' = failures /\ LoggingIn' = LoggingIn
            \/ /\ LoggingIn' = LoggingIn \ {l}
               /\ \/ failures' = [failures EXCEPT ![name[l]] = @ + 1]
                  \/ failures' = [failures EXCEPT ![name[l]] = 0] /\ login'[l] = "in"
<1> USE DEF Base, TypeOK, LoggingIn
<1>1. CASE PasswordAccepted(l) \/ BeginBootstrap(l)
  BY <1>1 DEF PasswordAccepted, BeginBootstrap, To
<1>2. ASSUME login[l] \in {"password", "role", "bootstrap", "gate"}, Deny(l), name' = name
      PROVE  /\ l \in LoggingIn /\ LoggingIn' = LoggingIn \ {l}
             /\ failures' = [failures EXCEPT ![name[l]] = @ + 1]
  BY <1>2 DEF Deny, To, Failure
<1>3. ASSUME login[l] \in {"password", "role", "bootstrap", "gate"}, Admit(l), name' = name
      PROVE  /\ l \in LoggingIn /\ LoggingIn' = LoggingIn \ {l}
             /\ failures' = [failures EXCEPT ![name[l]] = 0] /\ login'[l] = "in"
  BY <1>3 DEF Admit, To, Success
<1>4. CASE PasswordRefused(l)
  BY <1>2, <1>4 DEF PasswordRefused
<1>5. CASE ReadRole(l) /\ roles[name[l]] = NoRow
  BY <1>5 DEF ReadRole, To
<1>6. CASE ReadRole(l) /\ roles[name[l]] # NoRow
  BY <1>2, <1>3, <1>6 DEF ReadRole
<1>7. CASE Bootstrap(l)
  BY <1>2, <1>3, <1>7 DEF Bootstrap
<1> QED BY <1>1, <1>4, <1>5, <1>6, <1>7

\* Steps that are no login's leave the throttle alone, or forget a failure.
LEMMA OtherSteps ==
  ASSUME Step
  PROVE  \/ \E u \in Users : Forget(u)
         \/ \E l \in Logins :
              \/ BeginLogin(l) \/ PasswordRefused(l) \/ PasswordAccepted(l)
              \/ ReadRole(l) \/ BeginBootstrap(l) \/ Bootstrap(l)
         \/ UNCHANGED <<failures, login, name>>
BY DEF Step, Arrive, ReadPrincipal, UpdateUser, CreateAccount, GrantRole, GrantFails,
   IssueKey, RevokeKey, ChangeSettings, Audit, AuditFails, Present, Lookup, Touch, logging

\* Every step keeps failures plus logins under way below the bound.
LEMMA BoundedNext == Base /\ Bounded /\ [Next]_vars => Bounded'
<1> SUFFICES ASSUME Base, Bounded, [Next]_vars PROVE Bounded'
  OBVIOUS
<1>1. ASSUME UNCHANGED <<failures, login, name>> PROVE Bounded'
  BY <1>1, UnderSame DEF LoggingIn
<1>2. ASSUME NEW u \in Users, Forget(u) PROVE Bounded'
  <2> SUFFICES ASSUME NEW v \in Users
               PROVE  failures'[v] + Cardinality(Under(v)') < Attempts + Cardinality(Logins)
    BY DEF Bounded
  <2>1. Under(v)' = Under(v) /\ Under(v) \in SUBSET Logins
    BY <1>2 DEF Forget, Under, LoggingIn
  <2>2. failures'[v] <= failures[v] /\ failures'[v] \in Int /\ failures[v] \in Nat
    BY <1>2 DEF Base, TypeOK, Forget
  <2>3. Cardinality(Under(v)) \in Nat /\ Cardinality(Logins) \in Nat /\ Attempts \in Nat
    BY <2>1, AttemptsAssumption, TasksAssumption, FS_Subset, FS_CardinalityType
  <2> QED BY <2>1, <2>2, <2>3 DEF Bounded
<1>3. ASSUME NEW l \in Logins,
             PasswordRefused(l) \/ PasswordAccepted(l) \/ ReadRole(l) \/ BeginBootstrap(l) \/ Bootstrap(l)
      PROVE  Bounded'
  BY <1>3, LoginThrottle, UnderSame, UnderEnds
<1>4. CASE UNCHANGED vars
  BY <1>1, <1>4 DEF vars, state, logging
<1> QED BY <1>1, <1>2, <1>3, <1>4, OtherSteps, UnderBegins DEF Next

\* A lock-out ends by a failure that leaves the window or by a login of the
\* user that was let in before.
LEMMA LockoutStep == Base /\ [Next]_vars => StaysLockedOut \/ UNCHANGED vars
<1> SUFFICES ASSUME Base, Next, NEW u \in Users, ~Allowed(u), Allowed(u)'
             PROVE  \/ Forget(u)
                    \/ \E l \in LoggingIn : name[l] = u /\ login'[l] = "in"
  BY DEF StaysLockedOut
<1>1. failures \in [Users -> Nat] /\ Attempts \in Nat
  BY AttemptsAssumption DEF Base, TypeOK
<1>2. failures'[u] < failures[u]
  <2>1. failures'[u] < Attempts /\ ~(failures[u] < Attempts)
    BY DEF Allowed
  <2>2. failures'[u] \in Int
    BY BaseNext DEF Base, TypeOK
  <2> QED BY <1>1, <2>1, <2>2
<1>3. ASSUME NEW v \in Users, Forget(v), v # u PROVE FALSE
  BY <1>1, <1>2, <1>3 DEF Forget
<1>4. ASSUME NEW l \in Logins,
             PasswordRefused(l) \/ PasswordAccepted(l) \/ ReadRole(l) \/ BeginBootstrap(l) \/ Bootstrap(l)
      PROVE  l \in LoggingIn /\ name[l] = u /\ login'[l] = "in"
  <2>1. name[l] \in Users
    BY UsersAssumption DEF Base, TypeOK
  <2>2. failures'[u] # failures[u] /\ ~(failures'[u] = failures[u] + 1)
    BY <1>1, <1>2
  <2> QED BY <1>1, <1>4, <2>1, <2>2, LoginThrottle
<1>5. ASSUME failures' = failures PROVE FALSE
  BY <1>1, <1>2, <1>5
<1> QED BY <1>3, <1>4, <1>5, OtherSteps DEF Next, BeginLogin

\* auth.LoginThrottle: however logins interleave, the failures of a window,
\* with those that may still come, are less than the limit and one for each
\* login that can be under way; and a lock-out is kept.
THEOREM ThrottleAlwaysHolds == Spec => ThrottleHolds
<1>1. Base /\ Bounded => GuessesBounded
  BY DEF Base, Bounded, Under, GuessesBounded
<1>2. Base /\ Bounded /\ [Next]_vars => [GuessesBounded' /\ StaysLockedOut]_vars
  <2> SUFFICES ASSUME Base, Bounded, [Next]_vars, ~UNCHANGED vars
               PROVE  GuessesBounded' /\ StaysLockedOut
    OBVIOUS
  <2>1. Base' /\ Bounded'
    BY BaseNext, BoundedNext
  <2>2. GuessesBounded'
    BY <2>1 DEF Base, Bounded, Under, GuessesBounded
  <2> QED BY <2>2, LockoutStep
<1> QED BY <1>2, BaseInit, BaseNext, BoundedInit, BoundedNext, PTL DEF Spec, ThrottleHolds
=============================================================================
