------------------------------ MODULE Registry ------------------------------
(***************************************************************************)
(* How provider configuration becomes effective in PRISMUX (app/main.py,   *)
(* app/multi_provider.py, app/db.py).  An administrative request checks    *)
(* the registry in memory or the tables, waits for the outbound policy or  *)
(* the database, writes, and reloads: reload_registry reads the providers, *)
(* then the routes, publishes a new ProviderRegistry, and reads the        *)
(* prices.  Only update_settings takes a lock, so these steps interleave.  *)
(*                                                                         *)
(* A provider's configuration is abstracted to its flags, default and      *)
(* enabled, and to who wrote it; the database is external: one transaction *)
(* is one step, and its foreign keys and its unique default index hold.    *)
(* Health is what is known of a runtime: when it was noted (at) and how    *)
(* old the information is (since); noting reads a clock that moves on by   *)
(* one.                                                                    *)
(***************************************************************************)
EXTENDS Integers, FiniteSets, Sequences, SequencesExt

CONSTANTS
  Admins,            \* administrative requests, one operation each
  Operations,        \* the ones they may be, of AllOperations
  Providers,
  InitialProviders,  \* stored when the process starts
  Default,           \* the default one of them
  CheckKinds,        \* which health checks there are: "refresh", "discover"
  MaxNotes           \* bound on the clock of health observations

ASSUME InitialAssumption ==
  InitialProviders \subseteq Providers /\ Default \in InitialProviders
ASSUME AdminsAssumption == IsFiniteSet(Admins) /\ "start" \notin Admins
ASSUME NotesAssumption == MaxNotes \in Nat
ASSUME KindsAssumption == CheckKinds \subseteq {"refresh", "discover"}

AllOperations ==
  [kind : {"create", "update"}, provider : Providers, default : BOOLEAN, enabled : BOOLEAN]
    \cup [kind : {"delete"}, provider : Providers]
    \cup [kind : {"routes", "pricing", "settings"}, providers : SUBSET Providers]

ASSUME OperationsAssumption == Operations \subseteq AllOperations

Absent == [present |-> FALSE]
Config(default, enabled, by) ==
  [present |-> TRUE, default |-> default, enabled |-> enabled, by |-> by]

VARIABLES
  stored, storedRoutes, storedPrices,   \* providers, route_targets, model_pricing
  registry,          \* app.state.registry: its configs and its routes
  prices,            \* app.state.provider_pricing
  health,            \* of the runtimes of each registry so far, the last one in use
  checks,            \* health checks under way: the runtime and when it started
  clock,             \* time.time(), in observations
  settingsLock,      \* app.state.settings_lock
  stage, op,         \* of each request: where it is and what it does
  default, kept,     \* update_settings: the default it read, and whether it was enabled
  previous,          \* reload_registry: the registry it started from
  gotConfigs, gotRoutes,  \* reload_registry: what it has read
  switchedOff,       \* history: the providers whose own create or update disabled them
  disturbed          \* history: two operations have been in progress at once, or
                     \* a statement has failed

tables == <<stored, storedRoutes, storedPrices, switchedOff>>
observations == <<health, checks, clock>>
locals == <<op, default, kept, previous, gotConfigs, gotRoutes>>
handled == <<tables, registry, prices, observations, settingsLock, stage, locals>>
vars == <<handled, disturbed>>

Present(configs) == {p \in Providers : configs[p].present}
Defaults(configs) == {p \in Present(configs) : configs[p].default}
Unknown == [at |-> 0, since |-> 0]

Move(a, s) == stage' = [stage EXCEPT ![a] = s]
InProgress == {a \in Admins : stage[a] \notin {"idle", "done", "error"}}

Init ==
  /\ stored = [p \in Providers |-> IF p \in InitialProviders
                                   THEN Config(p = Default, TRUE, "start") ELSE Absent]
  /\ storedRoutes = {} /\ storedPrices = {} /\ switchedOff = {}
  /\ registry = [configs |-> stored, routes |-> {}]
  /\ prices = {}
  /\ health = <<[p \in InitialProviders |-> Unknown]>>
  /\ checks = {} /\ clock = 0
  /\ settingsLock = FALSE
  /\ stage = [a \in Admins |-> "idle"]
  /\ op \in [Admins -> Operations]
  /\ default = [a \in Admins |-> Default] /\ kept = [a \in Admins |-> TRUE]
  /\ previous = [a \in Admins |-> 1]
  /\ gotConfigs = [a \in Admins |-> stored]
  /\ gotRoutes = [a \in Admins |-> {}]
  /\ disturbed = FALSE

Starts(a, kind) == stage[a] = "idle" /\ op[a].kind = kind

\* The checks an operation makes before its first suspension: it is answered
\* with an error, or goes on.
Check(a, ok, next) ==
  /\ Move(a, IF ok THEN next ELSE "error")
  /\ UNCHANGED <<tables, registry, prices, observations, settingsLock, locals>>

\* create_provider_api: the ID must be free in the table.
CreateChecks(a) ==
  Starts(a, "create") /\ Check(a, ~stored[op[a].provider].present, "write")

\* update_provider_api: the provider exists and, if it is the default, stays it.
UpdateChecks(a) ==
  /\ Starts(a, "update")
  /\ LET config == registry.configs[op[a].provider]
     IN  Check(a, config.present /\ (config.default => op[a].default), "write")

\* delete_provider_api: the provider exists and is not the default ...
DeleteChecks(a) ==
  /\ Starts(a, "delete")
  /\ LET config == registry.configs[op[a].provider]
     IN  Check(a, config.present /\ ~config.default, "references")

\* ... and then: no route refers to it.
ReferenceChecks(a) ==
  /\ stage[a] = "references"
  /\ Check(a, op[a].provider \notin storedRoutes, "write")

\* update_routes_api and update_pricing_api: the registry knows every provider.
ListChecks(a) ==
  \E kind \in {"routes", "pricing"} :
    Starts(a, kind) /\ Check(a, op[a].providers \subseteq Present(registry.configs), "write")

\* update_settings: under the lock, from the default of the registry.  The list
\* of providers stands for whether routes and prices are sent along.
SettingsChecks(a) ==
  /\ Starts(a, "settings")
  /\ ~settingsLock
  /\ IF Defaults(registry.configs) = {}
     THEN Move(a, "error") /\ UNCHANGED <<default, kept, settingsLock>>
     ELSE /\ Move(a, IF op[a].providers = {} THEN "write" ELSE "setprices")
          /\ \E p \in Defaults(registry.configs) :
               /\ default' = [default EXCEPT ![a] = p]
               /\ kept' = [kept EXCEPT ![a] = registry.configs[p].enabled]
          /\ settingsLock' = TRUE
  /\ UNCHANGED <<tables, registry, prices, observations, op, previous, gotConfigs, gotRoutes>>

\* Mutant of Raise: the lock is only left on success.
RaiseKeepsLock(a) == Move(a, "error") /\ UNCHANGED settingsLock

\* The handler raises: the lock, if any, is left.
Raise(a) ==
  /\ Move(a, "error")
  /\ settingsLock' = IF op[a].kind = "settings" THEN FALSE ELSE settingsLock

-----------------------------------------------------------------------------
\* db.upsert_provider: a new default takes the flag from all others.
Upsert(p, config) ==
  stored' = [x \in Providers |->
    IF x = p THEN config
    ELSE IF config.default /\ stored[x].present THEN [stored[x] EXCEPT !.default = FALSE]
    ELSE stored[x]]

\* The first provider there is becomes the default one.  Whether it is enabled
\* is as the request says, for the default one too.
WriteProvider(a) ==
  /\ stage[a] = "write" /\ op[a].kind \in {"create", "update"}
  /\ LET first == op[a].kind = "create" /\ Present(registry.configs) = {}
     IN  Upsert(op[a].provider, Config(op[a].default \/ first, op[a].enabled, a))
  /\ switchedOff' = IF op[a].enabled THEN switchedOff \ {op[a].provider}
                    ELSE switchedOff \cup {op[a].provider}
  /\ Move(a, "reload")
  /\ UNCHANGED <<storedRoutes, storedPrices, registry, prices, observations, settingsLock, locals>>

\* db.delete_provider: route targets restrict it, prices go with it.
WriteDelete(a) ==
  /\ stage[a] = "write" /\ op[a].kind = "delete"
  /\ IF op[a].provider \in storedRoutes
     THEN Raise(a) /\ UNCHANGED tables
     ELSE /\ stored' = [stored EXCEPT ![op[a].provider] = Absent]
          /\ storedPrices' = storedPrices \ {op[a].provider}
          /\ Move(a, "reload")
          /\ UNCHANGED <<storedRoutes, switchedOff, settingsLock>>
  /\ UNCHANGED <<registry, prices, observations, locals>>

\* db.replace_routes, db.replace_pricing: all or, with a foreign key that is
\* gone, nothing.
WriteList(a) ==
  /\ stage[a] = "write" /\ op[a].kind \in {"routes", "pricing"}
  /\ IF ~(op[a].providers \subseteq Present(stored))
     THEN Raise(a) /\ UNCHANGED tables
     ELSE /\ Move(a, "reload")
          /\ IF op[a].kind = "routes"
             THEN storedRoutes' = op[a].providers /\ UNCHANGED storedPrices
             ELSE storedPrices' = op[a].providers /\ UNCHANGED storedRoutes
          /\ UNCHANGED <<stored, switchedOff, settingsLock>>
  /\ UNCHANGED <<registry, prices, observations, locals>>

\* The optional half of update_settings: the prices of the default provider,
\* then the routes, each in a transaction of its own.
WriteSettingsPrices(a) ==
  /\ stage[a] = "setprices"
  /\ IF default[a] \notin Present(stored)
     THEN Raise(a) /\ UNCHANGED tables
     ELSE /\ storedPrices' = {default[a]}
          /\ Move(a, "setroutes")
          /\ UNCHANGED <<stored, storedRoutes, switchedOff, settingsLock>>
  /\ UNCHANGED <<registry, prices, observations, locals>>

WriteSettingsRoutes(a) ==
  /\ stage[a] = "setroutes"
  /\ IF default[a] \notin Present(stored)
     THEN Raise(a) /\ UNCHANGED tables
     ELSE /\ storedRoutes' = {default[a]}
          /\ Move(a, "write")
          /\ UNCHANGED <<stored, storedPrices, switchedOff, settingsLock>>
  /\ UNCHANGED <<registry, prices, observations, locals>>

\* Mutant of WriteSettings: what is written for the settings is enabled.
WriteSettingsEnabled(a) ==
  /\ stage[a] = "write" /\ op[a].kind = "settings"
  /\ Upsert(default[a], Config(TRUE, TRUE, a))
  /\ Move(a, "reload")
  /\ UNCHANGED <<storedRoutes, storedPrices, switchedOff, registry, prices, observations,
                 settingsLock, locals>>

\* The provider the settings belong to is written as the default, enabled or
\* not as it was, whatever became of it meanwhile.
WriteSettings(a) ==
  /\ stage[a] = "write" /\ op[a].kind = "settings"
  /\ Upsert(default[a], Config(TRUE, kept[a], a))
  /\ Move(a, "reload")
  /\ UNCHANGED <<storedRoutes, storedPrices, switchedOff, registry, prices, observations, settingsLock, locals>>

-----------------------------------------------------------------------------
\* reload_registry.  One SELECT reads all providers.
BeginReload(a) ==
  /\ stage[a] = "reload"
  /\ previous' = [previous EXCEPT ![a] = Len(health)]
  /\ Move(a, "providers")
  /\ UNCHANGED <<tables, registry, prices, observations, settingsLock, op, default, kept, gotConfigs, gotRoutes>>

ReadProviders(a) ==
  /\ stage[a] = "providers"
  /\ gotConfigs' = [gotConfigs EXCEPT ![a] = stored]
  /\ Move(a, "read")
  /\ UNCHANGED <<tables, registry, prices, observations, settingsLock, op, default, kept, previous, gotRoutes>>

ReadRoutes(a) ==
  /\ stage[a] = "read"
  /\ gotRoutes' = [gotRoutes EXCEPT ![a] = storedRoutes]
  /\ Move(a, "publish")
  /\ UNCHANGED <<tables, registry, prices, observations, settingsLock, op, default, kept, previous, gotConfigs>>

\* inherit_health: what is known by now of the previous registry's runtimes.
Inherit(configs, id) ==
  [p \in Present(configs) |-> IF p \in DOMAIN health[id] THEN health[id][p] ELSE Unknown]

\* The swap; looking up the default may then raise, before the prices are read.
Publish(a) ==
  /\ stage[a] = "publish"
  /\ registry' = [configs |-> gotConfigs[a], routes |-> gotRoutes[a]]
  /\ health' = Append(health, Inherit(gotConfigs[a], previous[a]))
  /\ IF Defaults(gotConfigs[a]) = {}
     THEN Raise(a)
     ELSE Move(a, "prices") /\ UNCHANGED settingsLock
  /\ UNCHANGED <<tables, prices, checks, clock, locals>>

\* Mutant of ReadPrices: the prices in memory are left as they were.
ReadPricesNever(a) ==
  /\ stage[a] = "prices"
  /\ Move(a, "done")
  /\ settingsLock' = IF op[a].kind = "settings" THEN FALSE ELSE settingsLock
  /\ UNCHANGED <<tables, registry, prices, observations, locals>>

ReadPrices(a) ==
  /\ stage[a] = "prices"
  /\ prices' = storedPrices
  /\ Move(a, "done")
  /\ settingsLock' = IF op[a].kind = "settings" THEN FALSE ELSE settingsLock
  /\ UNCHANGED <<tables, registry, observations, locals>>

-----------------------------------------------------------------------------
\* The runtimes somebody still refers to: those in use, and those a reload
\* under way will inherit from.
Referenced == {Len(health)} \cup
  {previous[a] : a \in {b \in Admins : stage[b] \in {"providers", "read", "publish"}}}

\* Bounds on health observations.  Requests do not read health, so what they
\* do when they overlap is explored without further observations.
MayObserve == clock < MaxNotes /\ ~disturbed

\* The outcome of a request, seen by the request path (mark_health, observe_status).
Note(i, p) ==
  /\ MayObserve
  /\ i \in Referenced /\ p \in DOMAIN health[i]
  /\ clock' = clock + 1
  /\ health' = [health EXCEPT ![i][p] = [at |-> clock + 1, since |-> clock + 1]]
  /\ UNCHANGED <<tables, registry, prices, checks, settingsLock, stage, locals>>

\* refresh_provider_health asks the enabled providers for their models,
\* discover_provider_models any.  (One of a kind at a time for each runtime;
\* refreshes are scheduled after some reloads only, which is not represented.
\* No more are started than the bound on the clock lets end.)
BeginCheck(k, p) ==
  /\ MayObserve /\ Cardinality(checks) < MaxNotes - clock
  /\ p \in DOMAIN Last(health)
  /\ k = "refresh" => registry.configs[p].enabled
  /\ \A c \in checks : <<c.kind, c.registry, c.provider>> # <<k, Len(health), p>>
  /\ checks' = checks \cup
       {[kind |-> k, registry |-> Len(health), provider |-> p, started |-> clock]}
  /\ UNCHANGED <<tables, registry, prices, health, clock, settingsLock, stage, locals>>

\* Mutant of Applies: the answer is noted whatever happened meanwhile.
AppliesAlways(c) == TRUE

\* Only a refresh compares its start with what is known by now.
Applies(c) == c.kind = "refresh" => health[c.registry][c.provider].at <= c.started

EndCheck(c) ==
  /\ MayObserve
  /\ c \in checks
  /\ checks' = checks \ {c}
  /\ clock' = clock + 1
  /\ health' = IF Applies(c)
       THEN [health EXCEPT ![c.registry][c.provider] = [at |-> clock + 1, since |-> c.started]]
       ELSE health
  /\ UNCHANGED <<tables, registry, prices, settingsLock, stage, locals>>

\* A statement of the handler fails, and so does the handler.
DatabaseFails(a) ==
  /\ a \in InProgress /\ stage[a] \notin {"reload", "publish"}
  /\ ~disturbed
  /\ Raise(a)
  /\ UNCHANGED <<tables, registry, prices, observations, locals>>

Quiescent ==
  /\ \A a \in Admins : stage[a] \in {"done", "error"}
  /\ UNCHANGED handled

Handle(a) ==
  \/ ReferenceChecks(a)
  \/ WriteProvider(a) \/ WriteDelete(a) \/ WriteList(a)
  \/ WriteSettingsPrices(a) \/ WriteSettingsRoutes(a) \/ WriteSettings(a)
  \/ BeginReload(a) \/ ReadProviders(a) \/ ReadRoutes(a) \/ Publish(a) \/ ReadPrices(a)

Step ==
  \/ \E a \in Admins :
       \/ CreateChecks(a) \/ UpdateChecks(a) \/ DeleteChecks(a)
       \/ ListChecks(a) \/ SettingsChecks(a)
       \/ Handle(a)
  \/ \E p \in Providers :
       \/ \E i \in DOMAIN health : Note(i, p)
       \/ \E k \in CheckKinds : BeginCheck(k, p)
  \/ \E c \in checks : EndCheck(c)
  \/ Quiescent

Next ==
  \/ Step /\ disturbed' = (disturbed \/ Cardinality(InProgress') > 1)
  \/ \E a \in Admins : DatabaseFails(a) /\ disturbed' = TRUE

\* A handler that has started runs to its end; the database answers.
Fairness == \A a \in Admins : WF_handled(Handle(a))

Spec == Init /\ [][Next]_vars /\ Fairness
-----------------------------------------------------------------------------
Stages == {"idle", "references", "setprices", "setroutes", "write", "reload",
           "providers", "read", "publish", "prices", "done", "error"}
Configs == {Absent} \cup
  [present : {TRUE}, default : BOOLEAN, enabled : BOOLEAN, by : Admins \cup {"start"}]
Observed == [at : 0 .. MaxNotes, since : 0 .. MaxNotes]

\* Types; a providers table or a registry with two defaults is ill-formed, as
\* the unique index and ProviderRegistry.default assume.
TypeOK ==
  /\ stored \in [Providers -> Configs] /\ Cardinality(Defaults(stored)) <= 1
  /\ storedRoutes \subseteq Providers /\ storedPrices \subseteq Providers
  /\ switchedOff \subseteq Providers
  /\ registry \in [configs : [Providers -> Configs], routes : SUBSET Providers]
  /\ Cardinality(Defaults(registry.configs)) <= 1
  /\ prices \subseteq Providers
  /\ \A i \in DOMAIN health :
       DOMAIN health[i] \subseteq Providers /\ \A p \in DOMAIN health[i] : health[i][p] \in Observed
  /\ checks \subseteq [kind : CheckKinds, registry : DOMAIN health,
                       provider : Providers, started : 0 .. MaxNotes]
  /\ clock \in 0 .. MaxNotes
  /\ settingsLock \in BOOLEAN
  /\ stage \in [Admins -> Stages] /\ op \in [Admins -> Operations]
  /\ default \in [Admins -> Providers] /\ kept \in [Admins -> BOOLEAN]
  /\ previous \in [Admins -> DOMAIN health]
  /\ gotConfigs \in [Admins -> [Providers -> Configs]]
  /\ gotRoutes \in [Admins -> SUBSET Providers]
  /\ disturbed \in BOOLEAN

\* settings.tsx:101 and 181, "saved and applied": when no operation is in
\* progress, the gateway routes, authenticates and prices by what is stored.
\* Two overlapping reloads break it.
SavedIsApplied ==
  InProgress = {} =>
    /\ registry = [configs |-> stored, routes |-> storedRoutes]
    /\ prices = storedPrices

\* The same for operations that came one after the other and did not fail.
SavedIsAppliedInTurn == ~disturbed => SavedIsApplied

\* main.py:1774, "The default provider cannot be deleted", and 1734, "Choose
\* another default provider before removing the current default": whatever
\* sequence of operations, one after the other, there is a default provider,
\* and however operations overlap, no more than one (TypeOK).  It also serves
\* (enabled_targets, multi_provider.py:576, passes over what is disabled) as
\* long as nobody has disabled that very provider: main.py:1733 allows it of the
\* default, which then answers no raw model name until it is enabled again, but
\* no other operation, the settings' rewriting of it included, ever changes it.
\* (Checked before an await, the default can be lost when two overlap.)
DefaultServes ==
  /\ TypeOK
  /\ ~disturbed =>
       /\ Defaults(registry.configs) # {} /\ Defaults(stored) # {}
       /\ \A p \in Present(stored) : stored[p].enabled <=> p \notin switchedOff

\* A discovery of this provider has just ended, with what it asked for since it
\* began (discover_provider_models notes what it learnt whatever was learnt
\* meanwhile, main.py:1807-1813).
JustDiscovered(p) ==
  \E c \in checks \ checks' :
    c.kind = "discover" /\ c.provider = p /\ Last(health')[p].since = c.started

\* multi_provider.py:547, "Preserve observed health when configuration reloads
\* recreate runtimes", and main.py:149, "Do not overwrite a newer inference/test
\* result with an older check": as long as reloads do not overlap, what the
\* gateway knows of a provider is never replaced by older information, neither
\* by a background check nor by a reload, but only by a discovery that an
\* administrator asked for, which makes no such comparison.
HealthNeverRegresses ==
  [][~disturbed' =>
       \A p \in DOMAIN Last(health) \cap DOMAIN Last(health') :
         Last(health')[p].since >= Last(health)[p].since \/ JustDiscovered(p)]_vars

\* The settings lock is never left taken, on any path out of update_settings:
\* whatever the other requests do meanwhile, and when a statement fails.
LockFreed == settingsLock ~> ~settingsLock
=============================================================================
