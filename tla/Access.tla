------------------------------- MODULE Access -------------------------------
(***************************************************************************)
(* Who may use PRISMUX (app/auth.py; app/main.py: security_boundary, the   *)
(* login and /api/access handlers; app/db.py: user_roles, proxy_api_keys,  *)
(* audit_events).                                                          *)
(*                                                                         *)
(* A login passes the throttle, has its password checked by the external   *)
(* Auth service, and reads its role; the first one ever becomes            *)
(* administrator.  A dashboard request has its role read when it arrives,  *)
(* is handled and is audited.  A machine call has its key looked up.  All  *)
(* of them are tasks of one event loop, suspended wherever they wait for   *)
(* Auth or the database; one transaction is one step, except where a       *)
(* statement waits with an old snapshot.  Users stand for accounts, their  *)
(* e-mail and, all attempts coming from one address, for throttle keys.    *)
(* Tokens do not expire here, and signatures and digests are right.  The   *)
(* path of an update names its target by a UUID, which is spelled as in    *)
(* the tokens (canonical) or in another way (upper case, without hyphens). *)
(***************************************************************************)
EXTENDS Integers, FiniteSets

CONSTANTS
  Users,
  Initial,         \* those with an Auth account when the service starts
  Clients,         \* those who log in and use the dashboard
  Logins,          \* clients that try to log in, as one user each, until let in
  Requests,        \* dashboard requests that change something
  Operations,      \* what they may do, of AllOperations
  Calls,           \* calls with a machine key
  Keys,            \* machine keys that may be created
  Attempts,        \* settings.auth_login_attempts
  Faults           \* subset of {"audit", "grant"}: which database writes may fail

ASSUME UsersAssumption == IsFiniteSet(Users) /\ Initial \cup Clients \subseteq Users
ASSUME TasksAssumption == IsFiniteSet(Logins) /\ IsFiniteSet(Requests)
ASSUME AttemptsAssumption == Attempts \in Nat \ {0}

\* auth.ROLE_RANK
Rank == [viewer |-> 1, operator |-> 2, admin |-> 3]
Roles == DOMAIN Rank
Row == [role : Roles, disabled : BOOLEAN]
NoRow == [role |-> "none", disabled |-> TRUE]
NoKey == [created |-> FALSE, revoked |-> FALSE, expires |-> FALSE]

AllOperations ==
  [kind : {"update"}, target : Users, canonical : BOOLEAN, row : Row]
    \cup [kind : {"create"}, target : Users, role : Roles]
    \cup [kind : {"issue"}, key : Keys, expires : BOOLEAN]
    \cup [kind : {"revoke"}, key : Keys]
    \cup [kind : {"settings"}]

ASSUME OperationsAssumption == Operations \subseteq AllOperations

VARIABLES
  accounts,        \* the users of the Auth service
  roles,           \* user_roles
  keys,            \* proxy_api_keys
  audit,           \* audit_events of requests: who did what, and whether it succeeded
  failures,        \* LoginThrottle._events: failures in the window, in memory
  login, name,     \* of each login: its stage and the user it names
  sawNobody,       \* bootstrap_first_admin: the snapshot of its NOT EXISTS
  sessions,        \* users who hold a valid access token
  stage, actor, op,   \* of each request
  succeeded,       \* requests whose handler answered below 400
  call, presented, \* of each machine call: its stage and its key
  founders,        \* history: users bootstrapped as administrator
  grounds,         \* history: rows the actor of a request had since it arrived
  late,            \* history: calls that arrived when their key had been revoked
  overlapped,      \* history: two requests have been in progress at once
  slipped,         \* history: somebody has demoted or disabled himself
  raced            \* history: two bootstraps have been in progress at once

tables == <<accounts, roles, keys, audit>>
logging == <<failures, login, name, sawNobody, sessions, founders>>
requesting == <<stage, actor, op, succeeded>>
calling == <<call, presented, late>>
state == <<tables, logging, requesting, calling>>
vars == <<state, grounds, overlapped, slipped, raced>>

LoggingIn == {l \in Logins : login[l] \in {"password", "role", "bootstrap", "gate"}}
InProgress == {r \in Requests : stage[r] \in {"arrived", "handle", "grant", "audit"}}

Init ==
  /\ accounts = Initial
  /\ roles = [u \in Users |-> NoRow]
  /\ keys = [k \in Keys |-> NoKey]
  /\ audit = {}
  /\ failures = [u \in Users |-> 0]
  /\ login = [l \in Logins |-> "idle"]
  /\ name \in [Logins -> Clients]
  /\ sawNobody = [l \in Logins |-> FALSE]
  /\ sessions = {}
  /\ stage = [r \in Requests |-> "idle"]
  /\ actor \in [Requests -> Clients]
  /\ op \in [Requests -> Operations]
  /\ succeeded = {}
  /\ call = [c \in Calls |-> "idle"]
  /\ presented \in [Calls -> Keys]
  /\ founders = {}
  /\ grounds = [r \in Requests |-> {}]
  /\ late = {}
  /\ overlapped = FALSE /\ slipped = FALSE /\ raced = FALSE

-----------------------------------------------------------------------------
(* The login throttle.                                                     *)

\* Mutant of Allowed: one attempt too many.
AllowedOneMore(u) == failures[u] <= Attempts

Allowed(u) == failures[u] < Attempts

Failure(u) == failures' = [failures EXCEPT ![u] = @ + 1]

Success(u) == failures' = [failures EXCEPT ![u] = 0]

\* _trim: the oldest failure leaves the window.
Forget(u) ==
  /\ failures[u] > 0
  /\ failures' = [failures EXCEPT ![u] = @ - 1]
  /\ UNCHANGED <<tables, login, name, sawNobody, sessions, founders, requesting, calling>>

-----------------------------------------------------------------------------
(* auth_login                                                              *)

To(l, s) == login' = [login EXCEPT ![l] = s]

BeginLogin(l) ==
  /\ login[l] \in {"idle", "throttled", "denied"}
  /\ To(l, IF Allowed(name[l]) THEN "password" ELSE "throttled")
  /\ UNCHANGED <<tables, failures, name, sawNobody, sessions, founders, requesting, calling>>

\* AuthenticationError or an HTTP error on any of the steps below.
Deny(l) ==
  /\ To(l, "denied")
  /\ Failure(name[l])
  /\ UNCHANGED <<roles, sawNobody, sessions, founders>>

\* The throttle forgets the failures; the client gets its tokens.
Admit(l) ==
  /\ To(l, "in")
  /\ Success(name[l])
  /\ sessions' = sessions \cup {name[l]}
  /\ UNCHANGED sawNobody

\* Auth refuses the password or cannot be reached.
PasswordRefused(l) ==
  /\ login[l] = "password"
  /\ Deny(l)
  /\ UNCHANGED <<accounts, keys, audit, name, requesting, calling>>

PasswordAccepted(l) ==
  /\ login[l] = "password" /\ name[l] \in accounts
  /\ To(l, "role")
  /\ UNCHANGED <<tables, failures, name, sawNobody, sessions, founders, requesting, calling>>

ReadRole(l) ==
  /\ login[l] = "role"
  /\ LET row == roles[name[l]]
     IN  \/ /\ row = NoRow
            /\ To(l, "bootstrap")
            /\ UNCHANGED <<roles, failures, sawNobody, sessions, founders>>
         \/ row # NoRow /\ row.disabled /\ Deny(l)
         \/ row # NoRow /\ ~row.disabled /\ Admit(l) /\ UNCHANGED <<roles, founders>>
  /\ UNCHANGED <<accounts, keys, audit, name, requesting, calling>>

\* bootstrap_first_admin: the snapshot of the statement is taken before it
\* waits for the advisory lock ...
BeginBootstrap(l) ==
  /\ login[l] = "bootstrap"
  /\ To(l, "gate")
  /\ sawNobody' = [sawNobody EXCEPT ![l] = \A u \in Users : roles[u] = NoRow]
  /\ UNCHANGED <<tables, failures, name, sessions, founders, requesting, calling>>

\* Mutant of Founds: NOT EXISTS is left out.
FoundsAnyway(l) == roles[name[l]] = NoRow

\* ... and decides, with the lock held, whether to insert.
Founds(l) == sawNobody[l] /\ roles[name[l]] = NoRow

\* Inserted and committed while the lock is held.
Bootstrap(l) ==
  /\ login[l] = "gate"
  /\ IF Founds(l)
     THEN /\ roles' = [roles EXCEPT ![name[l]] = [role |-> "admin", disabled |-> FALSE]]
          /\ founders' = founders \cup {name[l]}
          /\ Admit(l)
     ELSE Deny(l)
  /\ UNCHANGED <<accounts, keys, audit, name, requesting, calling>>

-----------------------------------------------------------------------------
(* security_boundary and the handlers behind it                            *)

Move(r, s) == stage' = [stage EXCEPT ![r] = s]

Arrive(r) ==
  /\ stage[r] = "idle" /\ actor[r] \in sessions
  /\ Move(r, "arrived")
  /\ UNCHANGED <<tables, logging, actor, op, succeeded, calling>>

\* required_role
Required(o) == IF o.kind = "settings" THEN "operator" ELSE "admin"

\* Mutant of Permits: an account that has been disabled goes on.
PermitsDisabled(row, o) == row.role \in Roles /\ Rank[row.role] >= Rank[Required(o)]

\* user_principal, authorize_role
Permits(row, o) ==
  /\ row # NoRow /\ ~row.disabled
  /\ Rank[row.role] >= Rank[Required(o)]

\* The role is read from the table, not from the token.
ReadPrincipal(r) ==
  /\ stage[r] = "arrived"
  /\ Move(r, IF Permits(roles[actor[r]], op[r]) THEN "handle" ELSE "refused")
  /\ UNCHANGED <<tables, logging, actor, op, succeeded, calling>>

\* The handler answers; the response passes through the audit.
Answer(r, ok) ==
  /\ Move(r, "audit")
  /\ succeeded' = IF ok THEN succeeded \cup {r} ELSE succeeded

Demotes(row) == row.disabled \/ row.role # "admin"

\* Mutant of KeepsOneself: only disabling is refused.
KeepsEnabled(r) ==
  op[r].target = actor[r] /\ op[r].canonical => ~op[r].row.disabled

\* access_user_update: nobody demotes or disables themselves, if the path spells
\* their id as their token does (two strings are compared, while the database
\* takes either spelling for the same UUID).
KeepsOneself(r) ==
  op[r].target = actor[r] /\ op[r].canonical => ~Demotes(op[r].row)

UpdateUser(r) ==
  /\ stage[r] = "handle" /\ op[r].kind = "update" /\ op[r].target \in accounts
  /\ IF KeepsOneself(r)
     THEN Answer(r, TRUE) /\ roles' = [roles EXCEPT ![op[r].target] = op[r].row]
     ELSE Answer(r, FALSE) /\ UNCHANGED roles
  /\ UNCHANGED <<accounts, keys, audit, logging, actor, op, calling>>

\* access_user_create: the account first, in Auth ...
CreateAccount(r) ==
  /\ stage[r] = "handle" /\ op[r].kind = "create"
  /\ IF op[r].target \in accounts
     THEN Answer(r, FALSE) /\ UNCHANGED accounts
     ELSE /\ Move(r, "grant")
          /\ accounts' = accounts \cup {op[r].target}
          /\ UNCHANGED succeeded
  /\ UNCHANGED <<roles, keys, audit, logging, actor, op, calling>>

\* ... then its role.
GrantRole(r) ==
  /\ stage[r] = "grant"
  /\ roles' = [roles EXCEPT ![op[r].target] = [role |-> op[r].role, disabled |-> FALSE]]
  /\ Answer(r, TRUE)
  /\ UNCHANGED <<accounts, keys, audit, logging, actor, op, calling>>

\* The database fails in between: the exception passes the audit by.
GrantFails(r) ==
  /\ "grant" \in Faults
  /\ stage[r] = "grant"
  /\ Move(r, "raised")
  /\ UNCHANGED <<tables, logging, actor, op, succeeded, calling>>

IssueKey(r) ==
  /\ stage[r] = "handle" /\ op[r].kind = "issue" /\ ~keys[op[r].key].created
  /\ keys' = [keys EXCEPT ![op[r].key] =
                [created |-> TRUE, revoked |-> FALSE, expires |-> op[r].expires]]
  /\ Answer(r, TRUE)
  /\ UNCHANGED <<accounts, roles, audit, logging, actor, op, calling>>

\* revoke_proxy_api_key: the condition of its UPDATE
Revocable(k) == keys[k].created /\ ~keys[k].revoked

RevokeKey(r) ==
  /\ stage[r] = "handle" /\ op[r].kind = "revoke"
  /\ IF Revocable(op[r].key)
     THEN Answer(r, TRUE) /\ keys' = [keys EXCEPT ![op[r].key].revoked = TRUE]
     ELSE Answer(r, FALSE) /\ UNCHANGED keys
  /\ UNCHANGED <<accounts, roles, audit, logging, actor, op, calling>>

\* Anything an operator may do; what it changes is not of this module.
ChangeSettings(r) ==
  /\ stage[r] = "handle" /\ op[r].kind = "settings"
  /\ Answer(r, TRUE)
  /\ UNCHANGED <<tables, logging, actor, op, calling>>

\* Mutant of Event: success and failure swapped.
EventSwapped(r) == [request |-> r, by |-> actor[r], ok |-> r \notin succeeded]

Event(r) == [request |-> r, by |-> actor[r], ok |-> r \in succeeded]

Audit(r) ==
  /\ stage[r] = "audit"
  /\ audit' = audit \cup {Event(r)}
  /\ Move(r, "answered")
  /\ UNCHANGED <<accounts, roles, keys, logging, actor, op, succeeded, calling>>

\* A failed insert is swallowed.
AuditFails(r) ==
  /\ "audit" \in Faults
  /\ stage[r] = "audit"
  /\ Move(r, "unrecorded")
  /\ UNCHANGED <<tables, logging, actor, op, succeeded, calling>>

-----------------------------------------------------------------------------
(* machine_principal                                                       *)

Present(c) ==
  /\ call[c] = "idle"
  /\ call' = [call EXCEPT ![c] = "lookup"]
  /\ late' = IF keys[presented[c]].revoked THEN late \cup {c} ELSE late
  /\ UNCHANGED <<tables, logging, requesting, presented>>

\* Mutant of Lookup: revocation is not looked at.
LookupRevoked(c) ==
  /\ call[c] = "lookup"
  /\ LET key == keys[presented[c]]
     IN  call' = [call EXCEPT ![c] =
           IF ~key.created THEN "refused" ELSE IF key.expires THEN "error" ELSE "touch"]
  /\ UNCHANGED <<tables, logging, requesting, presented, late>>

\* The database adapter hands out an expiry without its time zone, which
\* cannot be compared with the current time: a TypeError.
Lookup(c) ==
  /\ call[c] = "lookup"
  /\ LET key == keys[presented[c]]
     IN  call' = [call EXCEPT ![c] =
           IF ~key.created \/ key.revoked THEN "refused"
           ELSE IF key.expires THEN "error" ELSE "touch"]
  /\ UNCHANGED <<tables, logging, requesting, presented, late>>

\* touch_proxy_api_key: last_used_at, whatever became of the key.
Touch(c) ==
  /\ call[c] = "touch"
  /\ call' = [call EXCEPT ![c] = "accepted"]
  /\ UNCHANGED <<tables, logging, requesting, presented, late>>

Step ==
  \/ \E u \in Users : Forget(u)
  \/ \E l \in Logins :
       \/ BeginLogin(l) \/ PasswordRefused(l) \/ PasswordAccepted(l)
       \/ ReadRole(l) \/ BeginBootstrap(l) \/ Bootstrap(l)
  \/ \E r \in Requests :
       \/ Arrive(r) \/ ReadPrincipal(r)
       \/ UpdateUser(r) \/ CreateAccount(r) \/ GrantRole(r) \/ GrantFails(r)
       \/ IssueKey(r) \/ RevokeKey(r) \/ ChangeSettings(r)
       \/ Audit(r) \/ AuditFails(r)
  \/ \E c \in Calls : Present(c) \/ Lookup(c) \/ Touch(c)

\* What the properties remember of the past.
Remember ==
  /\ grounds' = [r \in Requests |->
       IF stage'[r] \in {"arrived", "handle", "grant", "audit"}
       THEN grounds[r] \cup {roles'[actor[r]]} ELSE {}]
  /\ overlapped' = (overlapped \/ Cardinality(InProgress') > 1)
  /\ slipped' = (slipped \/ \E r \in Requests :
       op[r].kind = "update" /\ op[r].target = actor[r] /\ ~op[r].canonical
         /\ Demotes(op[r].row) /\ UpdateUser(r))
  /\ raced' = (raced \/ Cardinality({l \in Logins : login'[l] = "gate"}) > 1)

Next == Step /\ Remember

Spec == Init /\ [][Next]_vars
-----------------------------------------------------------------------------
TypeOK ==
  /\ accounts \subseteq Users /\ sessions \subseteq Users /\ founders \subseteq Users
  /\ roles \in [Users -> Row \cup {NoRow}]
  /\ keys \in [Keys -> [created : BOOLEAN, revoked : BOOLEAN, expires : BOOLEAN]]
  /\ audit \subseteq [request : Requests, by : Users, ok : BOOLEAN]
  /\ failures \in [Users -> Nat]
  /\ login \in [Logins -> {"idle", "throttled", "password", "role", "bootstrap", "gate",
                           "in", "denied"}]
  /\ name \in [Logins -> Clients] /\ sawNobody \in [Logins -> BOOLEAN]
  /\ stage \in [Requests -> {"idle", "arrived", "refused", "handle", "grant", "audit",
                             "answered", "unrecorded", "raised"}]
  /\ actor \in [Requests -> Clients] /\ op \in [Requests -> Operations]
  /\ succeeded \subseteq Requests
  /\ call \in [Calls -> {"idle", "lookup", "touch", "accepted", "refused", "error"}]
  /\ presented \in [Calls -> Keys]
  /\ grounds \in [Requests -> SUBSET (Row \cup {NoRow})] /\ late \subseteq Calls
  /\ overlapped \in BOOLEAN /\ slipped \in BOOLEAN /\ raced \in BOOLEAN

\* auth.LoginThrottle counts a failure only when Auth has answered, so logins
\* that were let in together are not counted against each other.  The failures
\* of a user in a window, with those that may still come, stay below the limit
\* plus the number of logins that can be under way.
GuessesBounded ==
  TypeOK /\ \A u \in Users :
    failures[u] + Cardinality({l \in LoggingIn : name[l] = u}) < Attempts + Cardinality(Logins)

\* A user who is locked out stays so until a failure leaves the window or a
\* login that was let in before succeeds.
StaysLockedOut ==
  \A u \in Users :
    ~Allowed(u) /\ Allowed(u)' =>
      \/ Forget(u)
      \/ \E l \in LoggingIn : name[l] = u /\ login'[l] = "in"

\* The throttle bounds the guesses and keeps out whoever made too many.
ThrottleHolds == [][GuessesBounded' /\ StaysLockedOut]_vars

\* docs/PRODUCTION_DEPLOYMENT.md:21: the application "atomically assigns" the
\* Admin role to a first login.  Unless two first logins wait for the lock at
\* once, nobody is given a role without an administrator but the first.
OneFounder == ~raced => Cardinality(founders) <= 1

\* main.py:1307, "Administrators cannot disable or demote their own account":
\* so that, whatever sequence of requests, somebody can administer users.  Two
\* ways around it exist and are excepted: two administrators demote each other
\* at the same time (overlapped), and one demotes himself under another spelling
\* of his id than his token has (slipped).
AdministratorRemains ==
  founders # {} /\ ~overlapped /\ ~slipped =>
    \E u \in Users : roles[u] = [role |-> "admin", disabled |-> FALSE]

\* A request is handled only if, at some moment since it arrived, its actor had
\* an enabled role of the required rank: disabling or demoting somebody binds
\* every request that comes later, although the session's token stays valid.
AuthorityIsCurrent ==
  \A r \in Requests :
    stage[r] \in {"handle", "grant", "audit"} =>
      \E row \in grounds[r] : ~row.disabled /\ Rank[row.role] >= Rank[Required(op[r])]

\* README.md:30, "revocable machine API keys": a call that comes after the
\* revocation is never accepted, whatever calls before it are still doing.
RevokedIsRefused == \A c \in late : call[c] # "accepted"

\* README.md:30, "full audit log": every role, key and revocation there is was
\* founded, or comes from a request that is recorded as a success, will be, or
\* whose record the database refused.
ChangesAreAudited ==
  LET recorded == {r \in Requests :
        \/ [request |-> r, by |-> actor[r], ok |-> TRUE] \in audit
        \/ stage[r] \in {"audit", "unrecorded"} /\ r \in succeeded}
      By(kind) == {op[r] : r \in {q \in recorded : op[q].kind = kind}}
  IN  /\ \A u \in Users : roles[u] # NoRow =>
           \/ u \in founders /\ roles[u] = [role |-> "admin", disabled |-> FALSE]
           \/ \E o \in By("update") : o.target = u /\ o.row = roles[u]
           \/ [kind |-> "create", target |-> u, role |-> roles[u].role] \in By("create")
      /\ \A k \in Keys :
           /\ keys[k].created =>
                [kind |-> "issue", key |-> k, expires |-> keys[k].expires] \in By("issue")
           /\ keys[k].revoked => [kind |-> "revoke", key |-> k] \in By("revoke")

\* main.py:1325, "Expiration must be in the future": a key whose expiry has not
\* come, as none does here, is not answered with a server error.
KeysWorkUntilExpiry == \A c \in Calls : call[c] # "error"
=============================================================================
