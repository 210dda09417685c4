--------------------------- MODULE Registry_proofs ---------------------------
(***************************************************************************)
(* Proofs about Registry, for any providers, administrative requests and   *)
(* operations, and any number of health observations.                      *)
(*                                                                         *)
(* Typed is what holds of tables, registry and handlers however they       *)
(* interleave, Noted the same of health.  InTurn says, stage by stage,     *)
(* what a handler may rely on as long as no other has been in progress     *)
(* beside it: that memory is what the tables were before its writes.       *)
(***************************************************************************)
EXTENDS Registry, FiniteSetTheorems, SequenceTheorems, TLAPS

\* No two default providers.
One(configs) == \A p, q \in Defaults(configs) : p = q

Notes == UNION {[S -> Observed] : S \in SUBSET Providers}

\* The part of the state that administrative requests share, and their own.
Typed ==
  /\ stored \in [Providers -> Configs] /\ One(stored)
  /\ storedRoutes \in SUBSET Providers /\ storedPrices \in SUBSET Providers
  /\ switchedOff \in SUBSET Providers
  /\ registry \in [configs : [Providers -> Configs], routes : SUBSET Providers]
  /\ One(registry.configs)
  /\ prices \in SUBSET Providers
  /\ settingsLock \in BOOLEAN
  /\ stage \in [Admins -> Stages] /\ op \in [Admins -> Operations]
  /\ default \in [Admins -> Providers] /\ kept \in [Admins -> BOOLEAN]
  /\ gotConfigs \in [Admins -> [Providers -> Configs]]
  /\ \A a \in Admins : One(gotConfigs[a])
  /\ gotRoutes \in [Admins -> SUBSET Providers]
  /\ disturbed \in BOOLEAN

\* Health: what is known of a runtime is not newer than when it was noted, and
\* neither that nor the start of a check is in the future.
Noted ==
  /\ health \in Seq(Notes) /\ Len(health) >= 1
  /\ previous \in [Admins -> 1 .. Len(health)]
  /\ checks \subseteq [kind : CheckKinds, registry : 1 .. Len(health),
                       provider : Providers, started : 0 .. MaxNotes]
  /\ clock \in 0 .. MaxNotes
  /\ \A i \in 1 .. Len(health) : \A p \in DOMAIN health[i] :
       health[i][p].since <= health[i][p].at /\ health[i][p].at <= clock
  /\ \A c \in checks : c.started <= clock

-----------------------------------------------------------------------------
(* Types.                                                                  *)

\* What is stored, read and written of a provider.
LEMMA ConfigTypes ==
  /\ Absent \in Configs
  /\ \A d, e \in BOOLEAN, by \in Admins \cup {"start"} :
       /\ Config(d, e, by) \in Configs
       /\ Config(d, e, by).present /\ Config(d, e, by).default = d /\ Config(d, e, by).enabled = e
  /\ \A c \in Configs : c.present \in BOOLEAN
  /\ \A c \in Configs : c.present =>
       c.default \in BOOLEAN /\ c.enabled \in BOOLEAN
         /\ [c EXCEPT !.default = FALSE] \in Configs
         /\ [c EXCEPT !.default = FALSE].enabled = c.enabled
         /\ [c EXCEPT !.default = FALSE].present /\ ~[c EXCEPT !.default = FALSE].default
  /\ ~Absent.present
<1> DEFINE Rows == [present : {TRUE}, default : BOOLEAN, enabled : BOOLEAN,
                    by : Admins \cup {"start"}]
<1>1. Absent.present = FALSE
  BY DEF Absent
<1>2. ASSUME NEW c \in Rows
      PROVE  /\ c.present = TRUE /\ c.default \in BOOLEAN
             /\ [c EXCEPT !.default = FALSE] \in Rows
             /\ [c EXCEPT !.default = FALSE].present = TRUE
             /\ [c EXCEPT !.default = FALSE].default = FALSE
             /\ c.enabled \in BOOLEAN /\ [c EXCEPT !.default = FALSE].enabled = c.enabled
  OBVIOUS
<1>3. ASSUME NEW d \in BOOLEAN, NEW e \in BOOLEAN, NEW by \in Admins \cup {"start"}
      PROVE  /\ Config(d, e, by) \in Rows /\ Config(d, e, by).present = TRUE
             /\ Config(d, e, by).default = d /\ Config(d, e, by).enabled = e
  BY DEF Config
<1>4. Configs = {Absent} \cup Rows
  BY DEF Configs
<1> HIDE DEF Rows
<1>5. ASSUME NEW c \in Configs PROVE c \in Rows \/ c = Absent
  BY <1>4
<1>6. \A c \in Configs : c.present \in BOOLEAN
  BY <1>1, <1>2, <1>5
<1>7. \A c \in Configs : c.present => c \in Rows
  BY <1>1, <1>5
<1> QED BY <1>1, <1>2, <1>3, <1>4, <1>6, <1>7

\* What an operation is about.
LEMMA OperationTypes ==
  ASSUME Typed, NEW a \in Admins
  PROVE  /\ op[a].kind \in {"create", "update", "delete", "routes", "pricing", "settings"}
         /\ op[a].kind \in {"create", "update"} =>
              op[a].default \in BOOLEAN /\ op[a].enabled \in BOOLEAN
         /\ op[a].kind \in {"create", "update", "delete"} => op[a].provider \in Providers
         /\ op[a].kind \in {"routes", "pricing", "settings"} => op[a].providers \in SUBSET Providers
<1>1. op[a] \in AllOperations
  BY OperationsAssumption DEF Typed
<1> QED BY <1>1 DEF AllOperations

\* A provider that is written: a new default takes the flag from all others.
LEMMA UpsertWrites ==
  ASSUME Typed, NEW p \in Providers, NEW d \in BOOLEAN, NEW e \in BOOLEAN,
         NEW by \in Admins \cup {"start"}, Upsert(p, Config(d, e, by))
  PROVE  /\ stored' \in [Providers -> Configs]
         /\ Present(stored') = Present(stored) \cup {p}
         /\ d => Defaults(stored') = {p}
         /\ ~d => Defaults(stored') = Defaults(stored) \ {p}
         /\ stored'[p].enabled = e
         /\ \A x \in Present(stored) : x # p => stored'[x].enabled = stored[x].enabled
         /\ One(stored')
<1>1. \A x \in Providers : stored[x] \in Configs /\ (stored[x].present => stored[x].default \in BOOLEAN)
  BY ConfigTypes DEF Typed
<1>2. stored'[p] = Config(d, e, by) /\ stored'[p] \in Configs
  BY ConfigTypes DEF Upsert
<1>3. stored'[p].present /\ stored'[p].default = d /\ stored'[p].enabled = e
  BY <1>2, ConfigTypes
<1>4. ASSUME NEW x \in Providers, x # p
      PROVE  /\ stored'[x] \in Configs
             /\ stored'[x].present <=> stored[x].present
             /\ stored'[x].present => (stored'[x].default <=> stored[x].default /\ ~d)
             /\ stored[x].present => stored'[x].enabled = stored[x].enabled
  <2>1. CASE d /\ stored[x].present
    <3>1. stored'[x] = [stored[x] EXCEPT !.default = FALSE]
      BY <1>4, <2>1, ConfigTypes DEF Upsert
    <3>2. PICK c \in Configs : c = stored[x]
      BY <1>1
    <3>3. /\ [c EXCEPT !.default = FALSE] \in Configs
          /\ [c EXCEPT !.default = FALSE].present /\ ~[c EXCEPT !.default = FALSE].default
          /\ [c EXCEPT !.default = FALSE].enabled = c.enabled
      BY <2>1, <3>2, ConfigTypes
    <3> QED BY <2>1, <3>1, <3>2, <3>3
  <2>2. CASE ~(d /\ stored[x].present)
    <3>1. stored'[x] = stored[x]
      BY <1>4, <2>2, ConfigTypes DEF Upsert
    <3> QED BY <1>1, <2>2, <3>1
  <2> QED BY <2>1, <2>2
<1>5. stored' \in [Providers -> Configs]
  <2>1. stored' = [x \in Providers |-> stored'[x]]
    BY DEF Upsert
  <2>2. \A x \in Providers : stored'[x] \in Configs
    BY <1>2, <1>4
  <2> QED BY <2>1, <2>2
<1>6. Present(stored') = Present(stored) \cup {p}
  BY <1>3, <1>4 DEF Present
<1>7. d => Defaults(stored') = {p}
  BY <1>3, <1>4, <1>6 DEF Defaults, Present
<1>8. ~d => Defaults(stored') = Defaults(stored) \ {p}
  BY <1>3, <1>4, <1>6 DEF Defaults, Present
<1>9. One(stored')
  BY <1>7, <1>8 DEF One, Typed
<1>10. \A x \in Present(stored) : x # p => stored'[x].enabled = stored[x].enabled
  BY <1>4 DEF Present
<1> QED BY <1>3, <1>5, <1>6, <1>7, <1>8, <1>9, <1>10

\* What the process starts with.
LEMMA InitialConfig ==
  ASSUME Init, NEW p \in Providers
  PROVE  /\ stored[p] \in Configs
         /\ stored[p].present <=> p \in InitialProviders
         /\ stored[p].present => (stored[p].default <=> p = Default) /\ stored[p].enabled
<1>1. CASE p \in InitialProviders
  <2>1. PICK d \in BOOLEAN, e \in BOOLEAN : d = (p = Default) /\ e = TRUE
    OBVIOUS
  <2>2. stored[p] = Config(d, e, "start")
    BY <1>1, <2>1 DEF Init
  <2>3. /\ Config(d, e, "start") \in Configs /\ Config(d, e, "start").present
        /\ Config(d, e, "start").default = d /\ Config(d, e, "start").enabled = e
    BY ConfigTypes
  <2>4. stored[p] \in Configs /\ stored[p].present
    BY <2>2, <2>3
  <2>5. (stored[p].default <=> p = Default) /\ stored[p].enabled
    BY <2>1, <2>2, <2>3
  <2> QED BY <1>1, <2>4, <2>5
<1>2. CASE p \notin InitialProviders
  <2>1. stored[p] = Absent
    BY <1>2 DEF Init
  <2> QED BY <1>2, <2>1, ConfigTypes
<1> QED BY <1>1, <1>2

\* The start.
LEMMA TypedInit == Init => Typed
<1> SUFFICES ASSUME Init PROVE Typed
  OBVIOUS
<1>2. stored \in [Providers -> Configs]
  <2>1. \A p \in Providers : stored[p] \in Configs
    BY InitialConfig
  <2> QED BY <2>1 DEF Init
<1>3. Defaults(stored) = {Default} /\ One(stored)
  <2>1. \A p \in Providers :
          /\ stored[p].present <=> p \in InitialProviders
          /\ stored[p].present => (stored[p].default <=> p = Default)
    BY InitialConfig
  <2> QED BY <2>1, InitialAssumption DEF One, Defaults, Present
<1>4. Default \in Providers
  BY InitialAssumption
<1>5. registry.configs = stored /\ registry \in [configs : [Providers -> Configs], routes : SUBSET Providers]
  BY <1>2 DEF Init
<1>6. gotConfigs \in [Admins -> [Providers -> Configs]] /\ \A a \in Admins : gotConfigs[a] = stored
  BY <1>2 DEF Init
<1>7. stage \in [Admins -> Stages] /\ op \in [Admins -> Operations] /\ default \in [Admins -> Providers]
      /\ kept \in [Admins -> BOOLEAN] /\ gotRoutes \in [Admins -> SUBSET Providers]
  BY <1>4 DEF Init, Stages
<1>8. /\ storedRoutes \in SUBSET Providers /\ storedPrices \in SUBSET Providers
      /\ switchedOff \in SUBSET Providers /\ prices \in SUBSET Providers
      /\ settingsLock \in BOOLEAN /\ disturbed \in BOOLEAN
  BY DEF Init
<1> QED BY <1>2, <1>3, <1>5, <1>6, <1>7, <1>8 DEF Typed

\* Where a handler may go next.
LEMMA MoveTypes ==
  ASSUME Typed, NEW a \in Admins, NEW s \in Stages, Move(a, s)
  PROVE  stage' \in [Admins -> Stages]
BY DEF Typed, Move

\* The checks before an operation write nothing but where it goes and, for the
\* settings, the default they are for.
LEMMA ChecksTypes ==
  ASSUME Typed, disturbed' \in BOOLEAN, NEW a \in Admins,
         CreateChecks(a) \/ UpdateChecks(a) \/ DeleteChecks(a) \/ ReferenceChecks(a)
           \/ ListChecks(a) \/ SettingsChecks(a)
  PROVE  Typed'
<1>1. ASSUME NEW ok, NEW next \in {"write", "references"}, Check(a, ok, next) PROVE Typed'
  <2>1. stage' \in [Admins -> Stages]
    BY <1>1, MoveTypes DEF Check, Stages
  <2> QED BY <1>1, <2>1 DEF Check, Typed, One, Defaults, Present, tables, locals
<1>2. CASE SettingsChecks(a)
  <2>1. stage' \in [Admins -> Stages]
    BY <1>2, MoveTypes DEF SettingsChecks, Stages
  <2>2. default' \in [Admins -> Providers]
    BY <1>2 DEF SettingsChecks, Typed, Defaults, Present
  <2>3. settingsLock' \in BOOLEAN /\ kept' \in [Admins -> BOOLEAN]
    <3>1. \A p \in Defaults(registry.configs) : registry.configs[p].enabled \in BOOLEAN
      BY ConfigTypes DEF Typed, Defaults, Present
    <3> QED BY <1>2, <3>1 DEF SettingsChecks, Typed
  <2> QED BY <1>2, <2>1, <2>2, <2>3
        DEF SettingsChecks, Typed, One, Defaults, Present, tables
<1> QED BY <1>1, <1>2
      DEF CreateChecks, UpdateChecks, DeleteChecks, ReferenceChecks, ListChecks

\* Whoever raises leaves the tables and what is in memory as they are.
LEMMA RaiseTypes ==
  ASSUME Typed, NEW a \in Admins, Raise(a)
  PROVE  stage' \in [Admins -> Stages] /\ settingsLock' \in BOOLEAN
<1>1. stage' \in [Admins -> Stages]
  BY MoveTypes DEF Raise, Stages
<1>2. settingsLock' \in BOOLEAN
  BY DEF Raise, Typed
<1> QED BY <1>1, <1>2

\* What is written to the tables.
LEMMA WriteTypes ==
  ASSUME Typed, disturbed' \in BOOLEAN, NEW a \in Admins,
         WriteProvider(a) \/ WriteDelete(a) \/ WriteList(a)
           \/ WriteSettingsPrices(a) \/ WriteSettingsRoutes(a) \/ WriteSettings(a)
  PROVE  Typed'
<1>1. /\ registry' = registry /\ prices' = prices /\ op' = op /\ default' = default
      /\ kept' = kept /\ gotConfigs' = gotConfigs /\ gotRoutes' = gotRoutes
  BY DEF WriteProvider, WriteDelete, WriteList, WriteSettingsPrices, WriteSettingsRoutes,
         WriteSettings, locals
<1>2. stage' \in [Admins -> Stages] /\ settingsLock' \in BOOLEAN
  <2>1. \/ Raise(a)
        \/ settingsLock' = settingsLock
             /\ \E s \in {"reload", "setroutes", "write"} : Move(a, s)
    BY DEF WriteProvider, WriteDelete, WriteList, WriteSettingsPrices, WriteSettingsRoutes,
           WriteSettings
  <2> QED BY <2>1, RaiseTypes, MoveTypes DEF Stages, Typed
<1>3. stored' \in [Providers -> Configs] /\ One(stored')
  <2>1. CASE WriteProvider(a)
    <3>1. PICK first \in BOOLEAN :
            Upsert(op[a].provider, Config(op[a].default \/ first, op[a].enabled, a))
      BY <2>1 DEF WriteProvider
    <3>2. /\ op[a].provider \in Providers /\ (op[a].default \/ first) \in BOOLEAN
          /\ op[a].enabled \in BOOLEAN
      BY <2>1, OperationTypes DEF WriteProvider
    <3> QED BY <3>1, <3>2, UpsertWrites
  <2>2. CASE WriteSettings(a)
    <3>1. default[a] \in Providers /\ kept[a] \in BOOLEAN
      BY DEF Typed
    <3> QED BY <2>2, <3>1, UpsertWrites DEF WriteSettings
  <2>3. CASE WriteDelete(a) /\ stored' # stored
    <3>1. stored' = [stored EXCEPT ![op[a].provider] = Absent]
      BY <2>3 DEF WriteDelete, tables
    <3>2. stored' \in [Providers -> Configs]
      BY <3>1, ConfigTypes DEF Typed
    <3>3. Defaults(stored') \subseteq Defaults(stored)
      BY <3>1, ConfigTypes DEF Typed, Defaults, Present
    <3> QED BY <3>2, <3>3 DEF One, Typed
  <2>4. CASE stored' = stored
    BY <2>4 DEF Typed
  <2> QED BY <2>1, <2>2, <2>3, <2>4
        DEF WriteList, WriteSettingsPrices, WriteSettingsRoutes, tables
<1>4. /\ storedRoutes' \in SUBSET Providers /\ storedPrices' \in SUBSET Providers
      /\ switchedOff' \in SUBSET Providers
  <2>1. CASE WriteList(a)
    BY <2>1, OperationTypes DEF WriteList, Typed, tables
  <2>2. CASE WriteDelete(a)
    BY <2>2 DEF WriteDelete, Typed, tables
  <2>3. CASE WriteSettingsPrices(a) \/ WriteSettingsRoutes(a)
    <3>1. default[a] \in Providers
      BY DEF Typed
    <3>2. \/ storedPrices' = storedPrices \/ storedPrices' = {default[a]}
      BY <2>3 DEF WriteSettingsPrices, WriteSettingsRoutes, tables
    <3>3. \/ storedRoutes' = storedRoutes \/ storedRoutes' = {default[a]}
      BY <2>3 DEF WriteSettingsPrices, WriteSettingsRoutes, tables
    <3>4. switchedOff' = switchedOff
      BY <2>3 DEF WriteSettingsPrices, WriteSettingsRoutes, tables
    <3> QED BY <3>1, <3>2, <3>3, <3>4 DEF Typed
  <2>4. CASE WriteProvider(a) \/ WriteSettings(a)
    BY <2>4, OperationTypes DEF WriteProvider, WriteSettings, Typed
  <2> QED BY <2>1, <2>2, <2>3, <2>4
<1> QED BY <1>1, <1>2, <1>3, <1>4 DEF Typed, One, Defaults, Present

\* What a reload reads and publishes.
LEMMA ReloadTypes ==
  ASSUME Typed, disturbed' \in BOOLEAN, NEW a \in Admins,
         BeginReload(a) \/ ReadProviders(a) \/ ReadRoutes(a) \/ Publish(a) \/ ReadPrices(a)
  PROVE  Typed'
<1>1. tables' = tables /\ op' = op /\ default' = default /\ kept' = kept
  BY DEF BeginReload, ReadProviders, ReadRoutes, Publish, ReadPrices, locals
<1>2. stage' \in [Admins -> Stages] /\ settingsLock' \in BOOLEAN
  <2>1. \/ Raise(a)
        \/ settingsLock' \in {settingsLock, FALSE}
             /\ \E s \in {"providers", "read", "publish", "prices", "done"} : Move(a, s)
    BY DEF BeginReload, ReadProviders, ReadRoutes, Publish, ReadPrices
  <2> QED BY <2>1, RaiseTypes, MoveTypes DEF Stages, Typed
<1>3. /\ gotConfigs' \in [Admins -> [Providers -> Configs]] /\ \A b \in Admins : One(gotConfigs'[b])
      /\ gotRoutes' \in [Admins -> SUBSET Providers]
  BY DEF BeginReload, ReadProviders, ReadRoutes, Publish, ReadPrices, locals, Typed
<1>4. /\ registry' \in [configs : [Providers -> Configs], routes : SUBSET Providers]
      /\ One(registry'.configs)
      /\ prices' \in SUBSET Providers
  <2>1. CASE Publish(a)
    <3>1. /\ registry' = [configs |-> gotConfigs[a], routes |-> gotRoutes[a]]
          /\ gotConfigs[a] \in [Providers -> Configs] /\ One(gotConfigs[a])
          /\ gotRoutes[a] \in SUBSET Providers
          /\ prices' = prices
      BY <2>1 DEF Publish, Typed
    <3>2. registry'.configs = gotConfigs[a]
      BY <3>1
    <3> QED BY <3>1, <3>2 DEF Typed
  <2>2. CASE ~Publish(a)
    BY <2>2 DEF BeginReload, ReadProviders, ReadRoutes, ReadPrices, Typed, tables
  <2> QED BY <2>1, <2>2
<1> QED BY <1>1, <1>2, <1>3, <1>4 DEF Typed, One, Defaults, Present, tables

\* Every step keeps the types.
LEMMA TypedNext == Typed /\ [Next]_vars => Typed'
<1> SUFFICES ASSUME Typed, [Next]_vars PROVE Typed'
  OBVIOUS
<1>1. CASE UNCHANGED vars
  BY <1>1 DEF vars, handled, tables, observations, locals, Typed, One, Defaults, Present
<1>2. CASE Next
  <2>0. disturbed' \in BOOLEAN
    BY <1>2 DEF Next, Typed
  <2>1. CASE UNCHANGED <<tables, registry, prices, settingsLock, stage, locals>>
    BY <2>0, <2>1 DEF tables, locals, Typed, One, Defaults, Present
  <2>2. ASSUME NEW a \in Admins, DatabaseFails(a) PROVE Typed'
    BY <2>0, <2>2, RaiseTypes DEF DatabaseFails, tables, locals, Typed, One, Defaults, Present
  <2>3. CASE \/ \E p \in Providers :
                  \/ \E i \in DOMAIN health : Note(i, p)
                  \/ \E k \in CheckKinds : BeginCheck(k, p)
             \/ \E c \in checks : EndCheck(c)
             \/ Quiescent
    BY <2>1, <2>3 DEF Note, BeginCheck, EndCheck, Quiescent, handled
  <2> QED BY <1>2, <2>0, <2>2, <2>3, ChecksTypes, WriteTypes, ReloadTypes DEF Next, Step, Handle
<1> QED BY <1>1, <1>2

\* What is known of a runtime of a registry.
LEMMA NoteTypes ==
  ASSUME Noted, NEW i \in 1 .. Len(health)
  PROVE  /\ health[i] \in [DOMAIN health[i] -> Observed] /\ DOMAIN health[i] \in SUBSET Providers
         /\ \A p \in DOMAIN health[i] :
              /\ health[i][p] \in Observed
              /\ health[i][p].at \in 0 .. MaxNotes /\ health[i][p].since \in 0 .. MaxNotes
<1>1. health[i] \in Notes
  BY DEF Noted
<1>2. PICK S \in SUBSET Providers : health[i] \in [S -> Observed]
  BY <1>1 DEF Notes
<1> QED BY <1>2 DEF Observed

\* A note about one runtime.
Noting(i, p, at, since) == [health EXCEPT ![i][p] = [at |-> at, since |-> since]]

\* What is known of that runtime changes, and nothing else.
OnlyNotes(i, p, at, since) ==
  /\ health' \in Seq(Notes) /\ Len(health') = Len(health)
  /\ \A j \in 1 .. Len(health) : DOMAIN health'[j] = DOMAIN health[j]
  /\ \A j \in 1 .. Len(health) : \A q \in DOMAIN health[j] :
       health'[j][q] = IF j = i /\ q = p THEN [at |-> at, since |-> since] ELSE health[j][q]

\* That is what the assignments of Note and EndCheck do.
LEMMA NoteWritten ==
  ASSUME Noted, NEW i \in 1 .. Len(health), NEW p, NEW at \in 0 .. MaxNotes, NEW since \in 0 .. MaxNotes,
         health' = Noting(i, p, at, since)
  PROVE  OnlyNotes(i, p, at, since)
<1> DEFINE new == [health[i] EXCEPT ![p] = [at |-> at, since |-> since]]
<1>1. health \in Seq(Notes) /\ health' = [health EXCEPT ![i] = new]
  BY DEF Noted, Noting
<1>2. new \in Notes
  <2>1. [at |-> at, since |-> since] \in Observed
    BY DEF Observed
  <2>2. new \in [DOMAIN health[i] -> Observed]
    BY <2>1, NoteTypes
  <2> QED BY <2>2, NoteTypes DEF Notes
<1>3. health' \in Seq(Notes) /\ Len(health') = Len(health)
  BY <1>1, <1>2
<1>4. ASSUME NEW j \in 1 .. Len(health)
      PROVE  /\ DOMAIN health'[j] = DOMAIN health[j]
             /\ \A q \in DOMAIN health[j] :
                  health'[j][q] = IF j = i /\ q = p THEN [at |-> at, since |-> since] ELSE health[j][q]
  <2>1. health'[j] = IF j = i THEN new ELSE health[j]
    BY <1>1
  <2> QED BY <2>1
<1> QED BY <1>3, <1>4 DEF OnlyNotes

\* At the start nothing is known.
LEMMA NotedInit == Init => Noted
<1> SUFFICES ASSUME Init PROVE Noted
  OBVIOUS
<1> DEFINE first == [p \in InitialProviders |-> Unknown]
<1>1. Unknown \in Observed /\ Unknown.since = 0 /\ Unknown.at = 0
  BY NotesAssumption DEF Unknown, Observed
<1>2. first \in Notes
  BY <1>1, InitialAssumption DEF Notes
<1>3. health = <<first>> /\ clock = 0 /\ checks = {} /\ previous = [a \in Admins |-> 1]
  BY DEF Init
<1>4. health \in Seq(Notes) /\ Len(health) = 1 /\ health[1] = first
  BY <1>2, <1>3
<1>5. \A p \in DOMAIN first : first[p].since = 0 /\ first[p].at = 0
  BY <1>1
<1> HIDE DEF first
<1> QED BY <1>3, <1>4, <1>5, NotesAssumption DEF Noted

\* What requests and checks note.
LEMMA NotedObserve ==
  ASSUME Noted,
         \/ \E p \in Providers :
              \/ \E i \in DOMAIN health : Note(i, p)
              \/ \E k \in CheckKinds : BeginCheck(k, p)
         \/ \E c \in checks : EndCheck(c)
  PROVE  Noted'
<1>0. /\ health \in Seq(Notes) /\ DOMAIN health = 1 .. Len(health) /\ clock \in 0 .. MaxNotes
      /\ Len(health) \in Nat /\ Len(health) >= 1 /\ MaxNotes \in Nat
  BY NotesAssumption DEF Noted
<1>1. ASSUME NEW p \in Providers, NEW i \in 1 .. Len(health), Note(i, p) PROVE Noted'
  <2>1. clock + 1 \in 0 .. MaxNotes /\ clock' = clock + 1 /\ checks' = checks /\ previous' = previous
    BY <1>0, <1>1 DEF Note, MayObserve, locals
  <2>2. health' = [health EXCEPT ![i][p] = [at |-> clock + 1, since |-> clock + 1]]
    BY <1>1 DEF Note
  <2>3. /\ health' \in Seq(Notes) /\ Len(health') = Len(health)
        /\ \A j \in 1 .. Len(health) : DOMAIN health'[j] = DOMAIN health[j]
        /\ \A j \in 1 .. Len(health) : \A q \in DOMAIN health[j] :
             health'[j][q] = IF j = i /\ q = p THEN [at |-> clock + 1, since |-> clock + 1]
                             ELSE health[j][q]
    <3>1. PICK n \in 0 .. MaxNotes : n = clock + 1
      BY <2>1
    <3>2. health' = Noting(i, p, n, n)
      BY <2>2, <3>1 DEF Noting
    <3>3. OnlyNotes(i, p, n, n)
      BY <3>1, <3>2, NoteWritten
    <3> QED BY <3>1, <3>3 DEF OnlyNotes
  <2>4. ASSUME NEW j \in 1 .. Len(health), NEW q \in DOMAIN health[j]
        PROVE  health'[j][q].since <= health'[j][q].at /\ health'[j][q].at <= clock'
    <3>1. health[j][q].since <= health[j][q].at /\ health[j][q].at <= clock
          /\ health[j][q].at \in 0 .. MaxNotes
      BY NoteTypes DEF Noted
    <3> QED BY <1>0, <2>1, <2>3, <3>1
  <2>5. \A c \in checks : c.started <= clock'
    <3>1. \A c \in checks : c.started <= clock /\ c.started \in 0 .. MaxNotes
      BY DEF Noted
    <3> QED BY <1>0, <2>1, <3>1
  <2> QED BY <2>1, <2>3, <2>4, <2>5 DEF Noted
<1>2. ASSUME NEW p \in Providers, NEW k \in CheckKinds, BeginCheck(k, p) PROVE Noted'
  <2>1. /\ checks' = checks \cup
             {[kind |-> k, registry |-> Len(health), provider |-> p, started |-> clock]}
        /\ health' = health /\ clock' = clock /\ previous' = previous
    BY <1>2 DEF BeginCheck, locals
  <2> QED BY <1>0, <2>1 DEF Noted
<1>3. ASSUME NEW c \in checks, EndCheck(c) PROVE Noted'
  <2>1. /\ clock + 1 \in 0 .. MaxNotes /\ clock' = clock + 1
        /\ checks' \subseteq checks /\ previous' = previous
    BY <1>0, <1>3 DEF EndCheck, MayObserve, locals
  <2>2. c.registry \in 1 .. Len(health) /\ c.started \in 0 .. MaxNotes /\ c.started <= clock
    BY DEF Noted
  <2>3. /\ health' \in Seq(Notes) /\ Len(health') = Len(health)
        /\ \A j \in 1 .. Len(health) : DOMAIN health'[j] = DOMAIN health[j]
        /\ \A j \in 1 .. Len(health) : \A q \in DOMAIN health[j] :
             health'[j][q] \in {[at |-> clock + 1, since |-> c.started], health[j][q]}
    <3>1. CASE Applies(c)
      <4>1. health' = [health EXCEPT ![c.registry][c.provider] = [at |-> clock + 1, since |-> c.started]]
        BY <1>3, <3>1 DEF EndCheck
      <4>2. PICK n \in 0 .. MaxNotes : n = clock + 1
        BY <2>1
      <4>3. PICK i, p, since : i = c.registry /\ p = c.provider /\ since = c.started
        OBVIOUS
      <4>4. /\ health' = Noting(i, p, n, since)
            /\ i \in 1 .. Len(health) /\ since \in 0 .. MaxNotes
        BY <2>2, <4>1, <4>2, <4>3 DEF Noting
      <4>5. OnlyNotes(i, p, n, since)
        BY <4>4, NoteWritten
      <4> QED BY <4>2, <4>3, <4>5 DEF OnlyNotes
    <3>2. CASE ~Applies(c)
      BY <1>0, <1>3, <3>2 DEF EndCheck
    <3> QED BY <3>1, <3>2
  <2>4. ASSUME NEW j \in 1 .. Len(health), NEW q \in DOMAIN health[j]
        PROVE  health'[j][q].since <= health'[j][q].at /\ health'[j][q].at <= clock'
    <3>1. health[j][q].since <= health[j][q].at /\ health[j][q].at <= clock
          /\ health[j][q].at \in 0 .. MaxNotes
      BY NoteTypes DEF Noted
    <3> QED BY <1>0, <2>1, <2>2, <2>3, <3>1
  <2>5. \A x \in checks' : x.started <= clock'
    <3>1. \A x \in checks : x.started <= clock /\ x.started \in 0 .. MaxNotes
      BY DEF Noted
    <3> QED BY <1>0, <2>1, <3>1
  <2> QED BY <2>1, <2>3, <2>4, <2>5 DEF Noted
<1> QED BY <1>0, <1>1, <1>2, <1>3

\* A new registry inherits what is known.
LEMMA NotedPublish ==
  ASSUME Typed, Noted, NEW a \in Admins, Publish(a)
  PROVE  /\ Noted'
         /\ Len(health') = Len(health) + 1
         /\ health'[Len(health')] = Inherit(gotConfigs[a], previous[a])
<1> DEFINE new == Inherit(gotConfigs[a], previous[a])
<1>0. /\ health \in Seq(Notes) /\ clock \in 0 .. MaxNotes /\ previous[a] \in 1 .. Len(health)
      /\ Len(health) \in Nat /\ MaxNotes \in Nat
  BY NotesAssumption DEF Noted
<1>1. /\ health' = Append(health, new)
      /\ checks' = checks /\ clock' = clock /\ previous' = previous
  BY DEF Publish, locals
<1>2. Unknown \in Observed /\ Unknown.since = 0 /\ Unknown.at = 0
  BY NotesAssumption DEF Unknown, Observed
<1>3. \A p \in DOMAIN new : new[p] \in Observed /\ new[p].since <= new[p].at /\ new[p].at <= clock
  <2>1. ASSUME NEW p \in DOMAIN new
        PROVE  new[p] \in Observed /\ new[p].since <= new[p].at /\ new[p].at <= clock
    <3>1. CASE p \in DOMAIN health[previous[a]]
      <4>1. new[p] = health[previous[a]][p]
        BY <2>1, <3>1 DEF Inherit
      <4>2. /\ health[previous[a]][p] \in Observed
            /\ health[previous[a]][p].since <= health[previous[a]][p].at
            /\ health[previous[a]][p].at <= clock
        BY <1>0, <3>1, NoteTypes DEF Noted
      <4> QED BY <4>1, <4>2
    <3>2. CASE p \notin DOMAIN health[previous[a]]
      <4>1. new[p] = Unknown
        BY <2>1, <3>2 DEF Inherit
      <4> QED BY <1>0, <1>2, <4>1
    <3> QED BY <3>1, <3>2
  <2> QED BY <2>1
<1>4. new \in Notes
  <2>1. DOMAIN new = Present(gotConfigs[a]) /\ Present(gotConfigs[a]) \in SUBSET Providers
    BY DEF Inherit, Present
  <2>2. new \in [DOMAIN new -> Observed]
    BY <1>3 DEF Inherit
  <2> QED BY <2>1, <2>2 DEF Notes
<1> HIDE DEF new
<1>5. /\ health' \in Seq(Notes) /\ Len(health') = Len(health) + 1
      /\ \A i \in 1 .. Len(health) : health'[i] = health[i]
      /\ health'[Len(health) + 1] = new
  BY <1>0, <1>1, <1>4
<1>6. \A i \in 1 .. Len(health') : \A p \in DOMAIN health'[i] :
        health'[i][p].since <= health'[i][p].at /\ health'[i][p].at <= clock'
  <2>1. ASSUME NEW i \in 1 .. Len(health'), NEW p \in DOMAIN health'[i]
        PROVE  health'[i][p].since <= health'[i][p].at /\ health'[i][p].at <= clock'
    <3>1. CASE i \in 1 .. Len(health)
      BY <1>1, <1>5, <2>1, <3>1 DEF Noted
    <3>2. CASE i = Len(health) + 1
      BY <1>1, <1>3, <1>5, <2>1, <3>2
    <3> QED BY <1>0, <1>5, <2>1, <3>1, <3>2
  <2> QED BY <2>1
<1>7. Noted'
  BY <1>0, <1>1, <1>5, <1>6 DEF Noted
<1> QED BY <1>5, <1>7 DEF new

\* Every step keeps what is known of health.
LEMMA NotedNext == Typed /\ Noted /\ [Next]_vars => Noted'
<1> SUFFICES ASSUME Typed, Noted, [Next]_vars PROVE Noted'
  OBVIOUS
<1>1. CASE UNCHANGED <<health, checks, clock, previous>>
  BY <1>1 DEF Noted
<1>2. ASSUME NEW a \in Admins, BeginReload(a) PROVE Noted'
  <2>1. health' = health /\ checks' = checks /\ clock' = clock
        /\ previous' = [previous EXCEPT ![a] = Len(health)]
    BY <1>2 DEF BeginReload, observations
  <2>2. Len(health) \in 1 .. Len(health)
    BY DEF Noted
  <2> QED BY <2>1, <2>2 DEF Noted
<1>3. CASE \E a \in Admins :
             \/ CreateChecks(a) \/ UpdateChecks(a) \/ DeleteChecks(a) \/ ReferenceChecks(a)
             \/ ListChecks(a) \/ SettingsChecks(a)
             \/ WriteProvider(a) \/ WriteDelete(a) \/ WriteList(a)
             \/ WriteSettingsPrices(a) \/ WriteSettingsRoutes(a) \/ WriteSettings(a)
             \/ ReadProviders(a) \/ ReadRoutes(a) \/ ReadPrices(a) \/ DatabaseFails(a)
  BY <1>1, <1>3
     DEF CreateChecks, UpdateChecks, DeleteChecks, ReferenceChecks, ListChecks, SettingsChecks,
         Check, WriteProvider, WriteDelete, WriteList, WriteSettingsPrices, WriteSettingsRoutes,
         WriteSettings, ReadProviders, ReadRoutes, ReadPrices, DatabaseFails, observations, locals
<1>4. CASE UNCHANGED vars \/ Quiescent
  BY <1>1, <1>4 DEF Quiescent, vars, handled, observations, locals
<1> QED BY <1>2, <1>3, <1>4, NotedObserve, NotedPublish DEF Next, Step, Handle

\* Both together.
Sound == Typed /\ Noted

\* From the start, and through every step.
LEMMA SoundInvariant == Spec => []Sound
<1>1. Init => Sound
  BY TypedInit, NotedInit DEF Sound
<1>2. Sound /\ [Next]_vars => Sound'
  BY TypedNext, NotedNext DEF Sound
<1> QED BY <1>1, <1>2, PTL DEF Spec

\* Types, and never two default providers, for any providers and requests.
THEOREM TypeCorrect == Spec => []TypeOK
<1>1. ASSUME NEW S, \A x, y \in S : x = y PROVE Cardinality(S) <= 1
  <2>1. CASE S = {}
    BY <2>1, FS_EmptySet
  <2>2. CASE S # {}
    <3>1. PICK x \in S : S = {x}
      BY <1>1, <2>2
    <3> QED BY <3>1, FS_Singleton
  <2> QED BY <2>1, <2>2
<1>2. ASSUME Sound PROVE TypeOK
  <2>1. Cardinality(Defaults(stored)) <= 1 /\ Cardinality(Defaults(registry.configs)) <= 1
    BY <1>1, <1>2 DEF Sound, Typed, One
  <2>2. DOMAIN health = 1 .. Len(health)
    BY <1>2 DEF Sound, Noted
  <2>3. \A i \in DOMAIN health :
          DOMAIN health[i] \subseteq Providers /\ \A p \in DOMAIN health[i] : health[i][p] \in Observed
    BY <1>2, <2>2, NoteTypes DEF Sound
  <2> QED BY <1>2, <2>1, <2>2, <2>3 DEF Sound, Typed, Noted, TypeOK
<1> QED BY <1>2, SoundInvariant, PTL

-----------------------------------------------------------------------------
(* Operations in turn.                                                     *)

Solo == \A a, b \in InProgress : a = b

\* What the gateway works by is what is stored.
Applied ==
  /\ registry.configs = stored /\ registry.routes = storedRoutes
  /\ prices = storedPrices

\* What a handler that is alone relies on, by its stage: before it writes,
\* memory is what is stored, and what it checked still holds; the settings
\* are written to the provider that is the default; what a reload has read
\* is still stored when it is published.
Promises(a) ==
  /\ stage[a] = "references" => op[a].kind = "delete"
  /\ stage[a] \in {"setprices", "setroutes"} => op[a].kind = "settings"
  /\ stage[a] \in {"references", "setprices", "setroutes", "write"} => registry.configs = stored
  /\ stage[a] \in {"references", "setprices"} \/ (stage[a] = "write" /\ op[a].kind # "settings")
       => Applied
  /\ stage[a] = "write" /\ op[a].kind = "create" => op[a].provider \notin Present(stored)
  /\ stage[a] = "write" /\ op[a].kind = "update" =>
       (op[a].provider \in Defaults(stored) => op[a].default)
  /\ stage[a] \in {"references", "write"} /\ op[a].kind = "delete" =>
       op[a].provider \notin Defaults(stored)
  /\ stage[a] \in {"setprices", "setroutes", "write"} /\ op[a].kind = "settings" =>
       default[a] \in Defaults(stored) /\ kept[a] = stored[default[a]].enabled
  /\ stage[a] \in {"providers", "read", "publish"} => previous[a] = Len(health)
  /\ stage[a] \in {"read", "publish"} => gotConfigs[a] = stored
  /\ stage[a] = "publish" => gotRoutes[a] = storedRoutes
  /\ stage[a] = "prices" => registry.configs = stored /\ registry.routes = storedRoutes

\* Who is stored is enabled unless its own create or update disabled it.
SwitchesKept == \A p \in Present(stored) : stored[p].enabled <=> p \notin switchedOff

\* There are defaults, and whoever is in progress has what it relies on.
Order ==
  /\ SwitchesKept
  /\ Defaults(stored) # {} /\ Defaults(registry.configs) # {}
  /\ InProgress = {} => Applied
  /\ \A a \in InProgress : Promises(a)

\* All of that, as long as operations have not overlapped or failed.
InTurn == ~disturbed => Solo /\ Order

\* At the start the default provider is stored and in use.
LEMMA InTurnInit == Init => InTurn
<1> SUFFICES ASSUME Init PROVE Solo /\ Order
  BY DEF InTurn
<1>1. InProgress = {}
  BY DEF Init, InProgress
<1>2. registry.configs = stored /\ registry.routes = storedRoutes /\ prices = storedPrices
  BY DEF Init
<1>3. Default \in Defaults(stored)
  BY InitialAssumption, InitialConfig DEF Defaults, Present
<1>4. SwitchesKept
  <2>1. switchedOff = {}
    BY DEF Init
  <2> QED BY <2>1, InitialConfig DEF SwitchesKept, Present
<1> QED BY <1>1, <1>2, <1>3, <1>4 DEF Solo, Order, Applied

\* disturbed is up to date.
LEMMA SoloKnown ==
  ASSUME disturbed' = (disturbed \/ Cardinality(InProgress') > 1), ~disturbed'
  PROVE  ~disturbed /\ Solo'
<1>0. ~disturbed /\ ~(Cardinality(InProgress') > 1)
  OBVIOUS
<1>1. IsFiniteSet(InProgress')
  <2>1. InProgress' \in SUBSET Admins
    BY DEF InProgress
  <2> QED BY <2>1, AdminsAssumption, FS_Subset
<1>2. ASSUME NEW a \in InProgress', NEW b \in InProgress' PROVE a = b
  <2>1. /\ IsFiniteSet(InProgress' \ {a}) /\ Cardinality(InProgress' \ {a}) = Cardinality(InProgress') - 1
        /\ Cardinality(InProgress') \in Nat /\ Cardinality(InProgress' \ {a}) \in Nat
    BY <1>1, FS_RemoveElement, FS_CardinalityType
  <2>2. Cardinality(InProgress' \ {a}) = 0
    BY <1>0, <2>1
  <2>3. InProgress' \ {a} = {}
    BY <2>1, <2>2, FS_EmptySet
  <2> QED BY <2>3
<1> QED BY <1>0, <1>2 DEF Solo

\* One handler that moves, when no other is in progress.
LEMMA AloneMoves ==
  ASSUME Typed, Solo, NEW a \in InProgress, NEW s \in Stages, Move(a, s)
  PROVE  /\ stage'[a] = s
         /\ InProgress' = IF s \in {"done", "error", "idle"} THEN {} ELSE {a}
<1>1. \A b \in Admins : stage'[b] = IF b = a THEN s ELSE stage[b]
  BY DEF Typed, Move, InProgress
<1>2. InProgress = {a}
  BY DEF Solo
<1> QED BY <1>1, <1>2 DEF InProgress

\* An operation that begins, or is refused.
LEMMA BeginsInOrder ==
  ASSUME Typed, Order, Solo', NEW a \in Admins,
         CreateChecks(a) \/ UpdateChecks(a) \/ DeleteChecks(a) \/ ListChecks(a) \/ SettingsChecks(a)
  PROVE  Order'
<1>1. /\ stage[a] = "idle" /\ tables' = tables /\ registry' = registry /\ prices' = prices
      /\ health' = health /\ op' = op /\ previous' = previous
      /\ gotConfigs' = gotConfigs /\ gotRoutes' = gotRoutes
      /\ \A b \in Admins : b # a => default'[b] = default[b] /\ kept'[b] = kept[b]
      /\ \E s \in {"write", "references", "setprices", "error"} : Move(a, s)
  BY DEF CreateChecks, UpdateChecks, DeleteChecks, ListChecks, SettingsChecks, Starts, Check,
         observations, locals, Typed
<1>2. \A b \in Admins : b # a => stage'[b] = stage[b]
  BY <1>1 DEF Typed, Move
<1>3. /\ stored' = stored /\ storedRoutes' = storedRoutes /\ storedPrices' = storedPrices
      /\ switchedOff' = switchedOff
  BY <1>1 DEF tables
<1>4. Defaults(stored') # {} /\ Defaults(registry'.configs) # {} /\ SwitchesKept'
  BY <1>1, <1>3 DEF Order, SwitchesKept, Defaults, Present
<1>5. \A b \in InProgress : b # a /\ b \in InProgress'
  BY <1>1, <1>2 DEF InProgress
<1>6. ASSUME InProgress' = {} PROVE Applied'
  <2>1. InProgress = {}
    BY <1>5, <1>6
  <2> QED BY <1>1, <1>3, <2>1 DEF Order, Applied
<1>7. ASSUME NEW b \in InProgress', b # a PROVE Promises(b)'
  <2>1. b \in Admins /\ b \in InProgress
    BY <1>2, <1>7 DEF InProgress
  <2>2. Promises(b)
    BY <2>1 DEF Order
  <2> QED BY <1>1, <1>2, <1>3, <1>7, <2>1, <2>2 DEF Promises, Applied, Defaults, Present
<1>8. ASSUME a \in InProgress' PROVE Promises(a)'
  <2>1. InProgress = {}
    BY <1>5, <1>8 DEF Solo
  <2>2. Applied
    BY <2>1 DEF Order
  <2>3. stage'[a] \in {"write", "references", "setprices", "error"} /\ stage'[a] # "error"
    BY <1>1, <1>8 DEF Typed, Move, InProgress
  <2>4. CASE CreateChecks(a)
    <3>1. stage'[a] = "write" /\ op[a].kind = "create" /\ ~stored[op[a].provider].present
      BY <1>1, <2>3, <2>4 DEF CreateChecks, Check, Starts, Move, Typed
    <3> QED BY <1>1, <1>3, <2>2, <3>1 DEF Promises, Applied, Present
  <2>5. CASE UpdateChecks(a)
    <3>1. /\ stage'[a] = "write" /\ op[a].kind = "update"
          /\ registry.configs[op[a].provider].default => op[a].default
      BY <1>1, <2>3, <2>5 DEF UpdateChecks, Check, Starts, Move, Typed
    <3> QED BY <1>1, <1>3, <2>2, <3>1 DEF Promises, Applied, Defaults, Present
  <2>6. CASE DeleteChecks(a)
    <3>1. /\ stage'[a] = "references" /\ op[a].kind = "delete"
          /\ ~registry.configs[op[a].provider].default
      BY <1>1, <2>3, <2>6 DEF DeleteChecks, Check, Starts, Move, Typed
    <3> QED BY <1>1, <1>3, <2>2, <3>1 DEF Promises, Applied, Defaults, Present
  <2>7. CASE ListChecks(a)
    <3>1. stage'[a] = "write" /\ op[a].kind \in {"routes", "pricing"}
      BY <1>1, <2>3, <2>7 DEF ListChecks, Check, Starts, Move, Typed
    <3> QED BY <1>1, <1>3, <2>2, <3>1 DEF Promises, Applied
  <2>8. CASE SettingsChecks(a)
    <3>1. stage'[a] \in {"write", "setprices"} /\ op[a].kind = "settings"
      BY <1>1, <2>3, <2>8 DEF SettingsChecks, Starts, Move, Typed
    <3>2. /\ default'[a] \in Defaults(registry.configs)
          /\ kept'[a] = registry.configs[default'[a]].enabled
      <4>1. PICK p \in Defaults(registry.configs) :
              /\ default' = [default EXCEPT ![a] = p]
              /\ kept' = [kept EXCEPT ![a] = registry.configs[p].enabled]
        BY <1>1, <2>3, <2>8 DEF SettingsChecks, Move, Typed
      <4> QED BY <4>1 DEF Typed
    <3> QED BY <1>1, <1>3, <2>2, <3>1, <3>2 DEF Promises, Applied, Defaults, Present
  <2> QED BY <2>4, <2>5, <2>6, <2>7, <2>8
<1> QED BY <1>4, <1>6, <1>7, <1>8 DEF Order

\* An operation that writes, alone.
LEMMA WritesInOrder ==
  ASSUME Typed, Solo, Order, NEW a \in InProgress,
         ReferenceChecks(a) \/ WriteProvider(a) \/ WriteDelete(a) \/ WriteList(a)
           \/ WriteSettingsPrices(a) \/ WriteSettingsRoutes(a) \/ WriteSettings(a)
  PROVE  Order'
<1>0. a \in Admins /\ Promises(a)
  BY DEF InProgress, Order
<1>1. /\ registry' = registry /\ prices' = prices /\ op' = op
      /\ default' = default /\ kept' = kept
      /\ Defaults(registry'.configs) # {}
  <2>1. /\ registry' = registry /\ prices' = prices /\ op' = op
        /\ default' = default /\ kept' = kept
    BY DEF ReferenceChecks, Check, WriteProvider, WriteDelete, WriteList, WriteSettingsPrices,
           WriteSettingsRoutes, WriteSettings, locals
  <2> QED BY <2>1 DEF Order, Defaults, Present
<1>2. ASSUME tables' = tables, Applied, Move(a, "error")
      PROVE  Order'
  <2>1. InProgress' = {}
    BY <1>2, AloneMoves DEF Stages
  <2> QED BY <1>1, <1>2, <2>1 DEF Order, SwitchesKept, Applied, Defaults, Present, tables
<1>3. ASSUME Defaults(stored') # {}, SwitchesKept', Move(a, "reload") PROVE Order'
  <2>1. InProgress' = {a} /\ stage'[a] = "reload"
    BY <1>3, AloneMoves DEF Stages
  <2> QED BY <1>1, <1>3, <2>1 DEF Order, Promises
<1>4. CASE ReferenceChecks(a)
  <2>1. /\ tables' = tables /\ Applied /\ op[a].kind = "delete" /\ op[a].provider \notin Defaults(stored)
        /\ registry.configs = stored
    BY <1>0, <1>4 DEF ReferenceChecks, Check, Promises
  <2>2. CASE Move(a, "write")
    <3>1. InProgress' = {a} /\ stage'[a] = "write"
      BY <2>2, AloneMoves DEF Stages
    <3>2. Promises(a)'
      BY <1>1, <2>1, <3>1 DEF Promises, Applied, Defaults, Present, tables
    <3> QED BY <1>1, <2>1, <3>1, <3>2 DEF Order, SwitchesKept, Defaults, Present, tables
  <2> QED BY <1>2, <1>4, <2>1, <2>2 DEF ReferenceChecks, Check
<1>5. CASE WriteProvider(a)
  <2>1. /\ stage[a] = "write" /\ op[a].kind \in {"create", "update"} /\ Move(a, "reload")
        /\ registry.configs = stored
    BY <1>0, <1>5 DEF WriteProvider, Promises
  <2>2. PICK first \in BOOLEAN :
          /\ Upsert(op[a].provider, Config(op[a].default \/ first, op[a].enabled, a))
          /\ first => Present(registry.configs) = {}
    BY <1>5 DEF WriteProvider
  <2>3. op[a].provider \in Providers /\ op[a].default \in BOOLEAN /\ op[a].enabled \in BOOLEAN
    BY <1>0, <2>1, OperationTypes
  <2>4. ~first
    BY <2>2 DEF Order, Defaults
  <2>5. PICK d \in BOOLEAN : d = (op[a].default \/ first)
    BY <2>3
  <2>6. /\ d => Defaults(stored') = {op[a].provider}
        /\ ~d => Defaults(stored') = Defaults(stored) \ {op[a].provider}
        /\ Present(stored') = Present(stored) \cup {op[a].provider}
        /\ stored'[op[a].provider].enabled = op[a].enabled
        /\ \A x \in Present(stored) : x # op[a].provider => stored'[x].enabled = stored[x].enabled
    BY <1>0, <2>2, <2>3, <2>5, UpsertWrites
  <2>7. ~d => op[a].provider \notin Defaults(stored)
    BY <1>0, <2>1, <2>4, <2>5 DEF Promises, Defaults
  <2>8. Defaults(stored') # {}
    BY <2>6, <2>7 DEF Order
  <2>9. SwitchesKept'
    <3>1. switchedOff' = IF op[a].enabled THEN switchedOff \ {op[a].provider}
                         ELSE switchedOff \cup {op[a].provider}
      BY <1>5 DEF WriteProvider
    <3>2. ASSUME NEW x \in Present(stored') PROVE stored'[x].enabled <=> x \notin switchedOff'
      <4>1. CASE x = op[a].provider
        BY <2>3, <2>6, <3>1, <4>1
      <4>2. CASE x # op[a].provider
        BY <2>6, <3>1, <3>2, <4>2 DEF Order, SwitchesKept
      <4> QED BY <4>1, <4>2
    <3> QED BY <3>2 DEF SwitchesKept
  <2> QED BY <1>3, <2>1, <2>8, <2>9
<1>6. CASE WriteDelete(a)
  <2>1. /\ stage[a] = "write" /\ op[a].kind = "delete" /\ Applied
        /\ op[a].provider \notin Defaults(stored)
    BY <1>0, <1>6 DEF WriteDelete, Promises
  <2>2. CASE op[a].provider \in storedRoutes
    <3>1. Raise(a) /\ tables' = tables
      BY <1>6, <2>2 DEF WriteDelete
    <3> QED BY <1>2, <2>1, <3>1 DEF Raise
  <2>3. CASE op[a].provider \notin storedRoutes
    <3>1. /\ stored' = [stored EXCEPT ![op[a].provider] = Absent] /\ Move(a, "reload")
          /\ switchedOff' = switchedOff
      BY <1>6, <2>3 DEF WriteDelete
    <3>2. \A p \in Providers : p # op[a].provider => stored'[p] = stored[p]
      BY <3>1 DEF Typed
    <3>3. Defaults(stored) \subseteq Defaults(stored')
      BY <2>1, <3>2 DEF Defaults, Present
    <3>4. SwitchesKept'
      <4>1. op[a].provider \in Providers
        BY <1>0, <2>1, OperationTypes
      <4>2. op[a].provider \notin Present(stored')
        BY <3>1, <4>1, ConfigTypes DEF Present, Typed
      <4> QED BY <3>1, <3>2, <4>2 DEF Order, SwitchesKept, Present
    <3> QED BY <1>3, <3>1, <3>3, <3>4 DEF Order
  <2> QED BY <2>2, <2>3
<1>7. CASE WriteList(a)
  <2>1. /\ stage[a] = "write" /\ op[a].kind # "settings" /\ Applied
    BY <1>0, <1>7 DEF WriteList, Promises
  <2>2. CASE op[a].providers \subseteq Present(stored)
    <3>1. stored' = stored /\ switchedOff' = switchedOff /\ Move(a, "reload")
      BY <1>7, <2>2 DEF WriteList
    <3> QED BY <1>3, <3>1 DEF Order, SwitchesKept, Defaults, Present
  <2>3. CASE ~(op[a].providers \subseteq Present(stored))
    <3>1. Raise(a) /\ tables' = tables
      BY <1>7, <2>3 DEF WriteList
    <3> QED BY <1>2, <2>1, <3>1 DEF Raise
  <2> QED BY <2>2, <2>3
<1>8. CASE WriteSettingsPrices(a) \/ WriteSettingsRoutes(a)
  <2>1. /\ op[a].kind = "settings" /\ default[a] \in Defaults(stored) /\ registry.configs = stored
        /\ kept[a] = stored[default[a]].enabled
    BY <1>0, <1>8 DEF WriteSettingsPrices, WriteSettingsRoutes, Promises
  <2>2. default[a] \in Present(stored)
    BY <2>1 DEF Defaults
  <2>3. stored' = stored /\ switchedOff' = switchedOff /\ \E s \in {"setroutes", "write"} : Move(a, s)
    BY <1>8, <2>2 DEF WriteSettingsPrices, WriteSettingsRoutes
  <2>4. InProgress' = {a} /\ stage'[a] \in {"setroutes", "write"}
    BY <2>3, AloneMoves DEF Stages
  <2>5. Promises(a)'
    BY <1>1, <2>1, <2>3, <2>4 DEF Promises, Defaults, Present
  <2> QED BY <1>1, <2>3, <2>4, <2>5 DEF Order, SwitchesKept, Defaults, Present
<1>9. CASE WriteSettings(a)
  <2>1. /\ Upsert(default[a], Config(TRUE, kept[a], a)) /\ Move(a, "reload")
        /\ default[a] \in Providers /\ kept[a] \in BOOLEAN /\ switchedOff' = switchedOff
    BY <1>0, <1>9 DEF WriteSettings, Typed
  <2>2. /\ Defaults(stored') = {default[a]}
        /\ Present(stored') = Present(stored) \cup {default[a]}
        /\ stored'[default[a]].enabled = kept[a]
        /\ \A x \in Present(stored) : x # default[a] => stored'[x].enabled = stored[x].enabled
    BY <1>0, <2>1, UpsertWrites
  <2>3. default[a] \in Present(stored) /\ kept[a] = stored[default[a]].enabled
    BY <1>0, <1>9 DEF WriteSettings, Promises, Defaults
  <2>4. SwitchesKept'
    BY <2>1, <2>2, <2>3 DEF Order, SwitchesKept
  <2> QED BY <1>3, <2>1, <2>2, <2>4
<1> QED BY <1>4, <1>5, <1>6, <1>7, <1>8, <1>9

\* A reload, alone: what it publishes and returns with is what is stored.
LEMMA ReloadsInOrder ==
  ASSUME Typed, Noted, Solo, Order, NEW a \in InProgress,
         BeginReload(a) \/ ReadProviders(a) \/ ReadRoutes(a) \/ Publish(a) \/ ReadPrices(a)
  PROVE  Order'
<1>0. a \in Admins /\ Promises(a)
  BY DEF InProgress, Order
<1>1. /\ stored' = stored /\ storedRoutes' = storedRoutes /\ storedPrices' = storedPrices
      /\ switchedOff' = switchedOff /\ op' = op /\ default' = default /\ kept' = kept
  BY DEF BeginReload, ReadProviders, ReadRoutes, Publish, ReadPrices, tables, locals
<1>2. Defaults(stored') # {} /\ SwitchesKept'
  BY <1>1 DEF Order, SwitchesKept, Defaults, Present
<1>3. CASE BeginReload(a)
  <2>1. registry' = registry /\ health' = health /\ previous'[a] = Len(health) /\ Move(a, "providers")
    BY <1>0, <1>3 DEF BeginReload, observations, Noted
  <2>2. InProgress' = {a} /\ stage'[a] = "providers"
    BY <2>1, AloneMoves DEF Stages
  <2> QED BY <1>2, <2>1, <2>2 DEF Order, Promises, Defaults, Present
<1>4. CASE ReadProviders(a)
  <2>1. /\ registry' = registry /\ health' = health /\ previous' = previous /\ Move(a, "read")
        /\ gotConfigs'[a] = stored /\ previous[a] = Len(health)
    BY <1>0, <1>4 DEF ReadProviders, observations, Typed, Promises
  <2>2. InProgress' = {a} /\ stage'[a] = "read"
    BY <2>1, AloneMoves DEF Stages
  <2> QED BY <1>1, <1>2, <2>1, <2>2 DEF Order, Promises, Defaults, Present
<1>5. CASE ReadRoutes(a)
  <2>1. /\ registry' = registry /\ health' = health /\ previous' = previous /\ Move(a, "publish")
        /\ gotConfigs' = gotConfigs /\ gotRoutes'[a] = storedRoutes
        /\ gotConfigs[a] = stored /\ previous[a] = Len(health)
    BY <1>0, <1>5 DEF ReadRoutes, observations, Typed, Promises
  <2>2. InProgress' = {a} /\ stage'[a] = "publish"
    BY <2>1, AloneMoves DEF Stages
  <2> QED BY <1>1, <1>2, <2>1, <2>2 DEF Order, Promises, Defaults, Present
<1>6. CASE Publish(a)
  <2>1. gotConfigs[a] = stored /\ gotRoutes[a] = storedRoutes
    BY <1>0, <1>6 DEF Publish, Promises
  <2>2. /\ registry'.configs = stored /\ registry'.routes = storedRoutes /\ Move(a, "prices")
        /\ Defaults(registry'.configs) # {}
    <3>1. registry' = [configs |-> stored, routes |-> storedRoutes]
      BY <1>6, <2>1 DEF Publish
    <3>2. Defaults(gotConfigs[a]) # {}
      BY <2>1 DEF Order
    <3>3. Move(a, "prices")
      BY <1>6, <3>2 DEF Publish
    <3>4. registry'.configs = stored /\ registry'.routes = storedRoutes
      BY <3>1
    <3> QED BY <3>3, <3>4 DEF Order, Defaults, Present
  <2>3. InProgress' = {a} /\ stage'[a] = "prices"
    BY <2>2, AloneMoves DEF Stages
  <2> QED BY <1>1, <1>2, <2>2, <2>3 DEF Order, Promises
<1>7. CASE ReadPrices(a)
  <2>1. /\ registry' = registry /\ prices' = storedPrices /\ Move(a, "done")
        /\ registry.configs = stored /\ registry.routes = storedRoutes
    BY <1>0, <1>7 DEF ReadPrices, Promises
  <2>2. InProgress' = {}
    BY <2>1, AloneMoves DEF Stages
  <2> QED BY <1>1, <1>2, <2>1, <2>2 DEF Order, Applied, Defaults, Present
<1> QED BY <1>3, <1>4, <1>5, <1>6, <1>7

\* Observations and stutters change nothing of it.
LEMMA ObservesInOrder ==
  ASSUME Noted, Solo, Order,
         UNCHANGED <<tables, registry, prices, stage, locals>>, Len(health') = Len(health)
  PROVE  Solo' /\ Order'
<1>1. InProgress' = InProgress /\ Solo'
  BY DEF InProgress, Solo
<1>2. ASSUME NEW a \in InProgress PROVE Promises(a)'
  BY DEF Order, Promises, Applied, Defaults, Present, tables, locals
<1> QED BY <1>1, <1>2 DEF Order, SwitchesKept, Applied, Defaults, Present, tables

\* A handler that goes on is in progress.
LEMMA HandlesInProgress ==
  ASSUME NEW a \in Admins, Handle(a)
  PROVE  a \in InProgress
BY DEF Handle, ReferenceChecks, WriteProvider, WriteDelete, WriteList, WriteSettingsPrices,
       WriteSettingsRoutes, WriteSettings, BeginReload, ReadProviders, ReadRoutes, Publish,
       ReadPrices, InProgress

\* Observing health makes no registry.
LEMMA ObserveLength ==
  ASSUME Noted,
         \/ \E p \in Providers :
              \/ \E i \in DOMAIN health : Note(i, p)
              \/ \E k \in CheckKinds : BeginCheck(k, p)
         \/ \E c \in checks : EndCheck(c)
  PROVE  Len(health') = Len(health)
<1>1. health \in Seq(Notes) /\ DOMAIN health = 1 .. Len(health)
  BY DEF Noted
<1>2. ASSUME NEW i \in 1 .. Len(health), NEW note, health' = [health EXCEPT ![i] = note]
      PROVE  Len(health') = Len(health)
  <2>1. DOMAIN health' = 1 .. Len(health) /\ Len(health) \in Nat
    BY <1>1, <1>2
  <2> QED BY <2>1, <1>1, <1>2
<1>3. \A c \in checks : c.registry \in 1 .. Len(health)
  BY DEF Noted
<1> QED BY <1>1, <1>2, <1>3 DEF Note, BeginCheck, EndCheck

\* Every step keeps the order of operations in turn.
LEMMA InTurnNext == Sound /\ InTurn /\ [Next]_vars => InTurn'
<1> SUFFICES ASSUME Sound, InTurn, [Next]_vars, ~disturbed' PROVE Solo' /\ Order'
  BY DEF InTurn
<1>1. CASE UNCHANGED vars
  BY <1>1, ObservesInOrder DEF InTurn, Sound, vars, handled, observations
<1>2. CASE Step /\ disturbed' = (disturbed \/ Cardinality(InProgress') > 1)
  <2>1. Solo' /\ Solo /\ Order /\ Typed /\ Noted
    BY <1>2, SoloKnown DEF InTurn, Sound
  <2>2. CASE \E a \in Admins : Handle(a)
    BY <2>1, <2>2, HandlesInProgress, WritesInOrder, ReloadsInOrder DEF Handle
  <2>3. CASE \E a \in Admins : CreateChecks(a) \/ UpdateChecks(a) \/ DeleteChecks(a)
                                 \/ ListChecks(a) \/ SettingsChecks(a)
    BY <2>1, <2>3, BeginsInOrder
  <2>4. CASE \/ \E p \in Providers :
                  \/ \E i \in DOMAIN health : Note(i, p)
                  \/ \E k \in CheckKinds : BeginCheck(k, p)
             \/ \E c \in checks : EndCheck(c)
    <3>1. UNCHANGED <<tables, registry, prices, stage, locals>>
      BY <2>4 DEF Note, BeginCheck, EndCheck
    <3> QED BY <2>1, <2>4, <3>1, ObserveLength, ObservesInOrder
  <2>5. CASE Quiescent
    BY <2>1, <2>5, ObservesInOrder DEF Quiescent, handled, observations
  <2> QED BY <1>2, <2>2, <2>3, <2>4, <2>5 DEF Step
<1>3. CASE \E a \in Admins : DatabaseFails(a) /\ disturbed' = TRUE
  BY <1>3
<1> QED BY <1>1, <1>2, <1>3 DEF Next

\* Operations in turn, from the start.
LEMMA InTurnInvariant == Spec => [](Sound /\ InTurn)
<1>1. Init => InTurn
  BY InTurnInit
<1>2. Sound /\ InTurn /\ [Next]_vars => InTurn'
  BY InTurnNext
<1> QED BY <1>1, <1>2, SoundInvariant, PTL DEF Spec

\* After operations that did not overlap and did not fail, the gateway routes,
\* authenticates and prices by what is stored.
THEOREM SavedIsAlwaysApplied == Spec => []SavedIsAppliedInTurn
<1>1. ASSUME Sound, InTurn PROVE SavedIsAppliedInTurn
  <2> SUFFICES ASSUME ~disturbed, InProgress = {}
               PROVE  registry = [configs |-> stored, routes |-> storedRoutes] /\ prices = storedPrices
    BY DEF SavedIsAppliedInTurn, SavedIsApplied
  <2>1. registry.configs = stored /\ registry.routes = storedRoutes /\ prices = storedPrices
    BY <1>1 DEF InTurn, Order, Applied
  <2>2. registry \in [configs : [Providers -> Configs], routes : SUBSET Providers]
    BY <1>1 DEF Sound, Typed
  <2> QED BY <2>1, <2>2
<1> QED BY <1>1, InTurnInvariant, PTL

\* There is a default provider as long as operations do not overlap, providers
\* are enabled or not as they themselves were last saved, and however operations
\* overlap there are never two defaults.
THEOREM DefaultAlwaysServes == Spec => []DefaultServes
<1>1. ASSUME TypeOK, InTurn PROVE DefaultServes
  BY <1>1 DEF InTurn, Order, SwitchesKept, DefaultServes
<1> QED BY <1>1, TypeCorrect, InTurnInvariant, PTL

\* What is known of a provider is never replaced by older information, as long
\* as reloads do not overlap, but for a discovery that has just ended.
THEOREM HealthAlwaysAdvances == Spec => HealthNeverRegresses
<1> DEFINE Advances ==
      ~disturbed' => \A p \in DOMAIN Last(health) \cap DOMAIN Last(health') :
                       Last(health')[p].since >= Last(health)[p].since \/ JustDiscovered(p)
<1>1. ASSUME Sound, InTurn, [Next]_vars PROVE Advances
  <2> SUFFICES ASSUME ~disturbed', NEW p \in DOMAIN Last(health) \cap DOMAIN Last(health')
               PROVE  Last(health')[p].since >= Last(health)[p].since \/ JustDiscovered(p)
    OBVIOUS
  <2> DEFINE n == Len(health)
  <2>1. /\ n \in Nat /\ n \in 1 .. n /\ health \in Seq(Notes) /\ Last(health) = health[n]
        /\ DOMAIN health = 1 .. n /\ Last(health') = health'[Len(health')]
    BY <1>1 DEF Sound, Noted, Last
  <2>2. /\ health[n][p].since \in 0 .. MaxNotes /\ health[n][p].at \in 0 .. MaxNotes
        /\ health[n][p].since <= health[n][p].at /\ health[n][p].at <= clock
        /\ clock \in 0 .. MaxNotes /\ MaxNotes \in Nat
    BY <1>1, <2>1, NoteTypes, NotesAssumption DEF Sound, Noted
  <2>3. CASE health' = health
    BY <2>1, <2>2, <2>3
  <2>4. ASSUME NEW i \in 1 .. n, NEW q, Note(i, q) PROVE Last(health')[p].since >= Last(health)[p].since
    <3>1. PICK k \in 0 .. MaxNotes : k = clock + 1
      BY <2>2, <2>4 DEF MayObserve, Note
    <3>2. health' = Noting(i, q, k, k)
      BY <2>4, <3>1 DEF Note, Noting
    <3>3. OnlyNotes(i, q, k, k)
      BY <1>1, <3>1, <3>2, NoteWritten DEF Sound
    <3>4. Len(health') = n /\ health'[n][p] \in {[at |-> k, since |-> k], health[n][p]}
      BY <2>1, <3>3 DEF OnlyNotes
    <3> QED BY <2>1, <2>2, <3>1, <3>4
  <2>5. ASSUME NEW c \in checks, EndCheck(c), Applies(c)
        PROVE  Last(health')[p].since >= Last(health)[p].since \/ JustDiscovered(p)
    <3>1. PICK k \in 0 .. MaxNotes : k = clock + 1
      BY <2>2, <2>5 DEF MayObserve, EndCheck
    <3>2. PICK i, q, since : i = c.registry /\ q = c.provider /\ since = c.started
      OBVIOUS
    <3>3. i \in 1 .. n /\ since \in 0 .. MaxNotes
      BY <1>1, <3>2 DEF Sound, Noted
    <3>4. c.kind = "refresh" => health[i][q].at <= since
      BY <2>5, <3>2 DEF Applies
    <3>5. health' = Noting(i, q, k, since)
      BY <2>5, <3>1, <3>2 DEF EndCheck, Noting
    <3>6. OnlyNotes(i, q, k, since)
      BY <1>1, <3>3, <3>5, NoteWritten DEF Sound
    <3>7. /\ Len(health') = n
          /\ health'[n][p] = IF n = i /\ p = q THEN [at |-> k, since |-> since] ELSE health[n][p]
      BY <2>1, <3>6 DEF OnlyNotes
    <3>8. CASE n = i /\ p = q
      <4>1. Last(health')[p].since = since
        BY <2>1, <3>7, <3>8
      <4>2. CASE c.kind = "refresh"
        <5>1. health[n][p].at <= since
          BY <3>4, <3>8, <4>2
        <5> QED BY <2>1, <2>2, <3>3, <4>1, <5>1
      <4>3. CASE c.kind # "refresh"
        <5>1. c.kind = "discover"
          BY <1>1, <4>3, KindsAssumption DEF Sound, Noted
        <5>2. c \in checks \ checks'
          BY <2>5 DEF EndCheck
        <5> QED BY <3>2, <3>8, <4>1, <5>1, <5>2 DEF JustDiscovered
      <4> QED BY <4>2, <4>3
    <3>9. CASE ~(n = i /\ p = q)
      <4>1. Last(health')[p] = health[n][p]
        BY <2>1, <3>7, <3>9
      <4> QED BY <2>1, <2>2, <4>1
    <3> QED BY <3>8, <3>9
  <2>6. ASSUME NEW a \in Admins, Publish(a), Step,
               disturbed' = (disturbed \/ Cardinality(InProgress') > 1)
        PROVE  Last(health')[p].since >= Last(health)[p].since
    <3>1. ~disturbed
      BY <2>6, SoloKnown
    <3>2. previous[a] = n
      <4>1. a \in InProgress /\ stage[a] = "publish"
        BY <2>6 DEF Publish, InProgress
      <4> QED BY <1>1, <3>1, <4>1 DEF InTurn, Order, Promises
    <3>3. Last(health') = Inherit(gotConfigs[a], n)
      BY <1>1, <2>1, <2>6, <3>2, NotedPublish DEF Sound
    <3>4. Last(health')[p] = health[n][p]
      BY <2>1, <3>3 DEF Inherit
    <3> QED BY <2>1, <2>2, <3>4
  <2>7. CASE Step /\ disturbed' = (disturbed \/ Cardinality(InProgress') > 1)
    <3>1. CASE \E a \in Admins : Publish(a)
      BY <2>6, <2>7, <3>1
    <3>2. CASE \E q \in Providers, i \in DOMAIN health : Note(i, q)
      BY <2>1, <2>4, <3>2
    <3>3. CASE \E c \in checks : EndCheck(c)
      BY <2>3, <2>5, <3>3 DEF EndCheck
    <3>4. CASE \/ \E a \in Admins :
                    \/ CreateChecks(a) \/ UpdateChecks(a) \/ DeleteChecks(a) \/ ReferenceChecks(a)
                    \/ ListChecks(a) \/ SettingsChecks(a)
                    \/ WriteProvider(a) \/ WriteDelete(a) \/ WriteList(a)
                    \/ WriteSettingsPrices(a) \/ WriteSettingsRoutes(a) \/ WriteSettings(a)
                    \/ BeginReload(a) \/ ReadProviders(a) \/ ReadRoutes(a) \/ ReadPrices(a)
               \/ \E q \in Providers : \E k \in CheckKinds : BeginCheck(k, q)
               \/ Quiescent
      BY <2>3, <3>4
         DEF CreateChecks, UpdateChecks, DeleteChecks, ReferenceChecks, ListChecks, SettingsChecks,
             Check, WriteProvider, WriteDelete, WriteList, WriteSettingsPrices, WriteSettingsRoutes,
             WriteSettings, BeginReload, ReadProviders, ReadRoutes, ReadPrices, BeginCheck,
             Quiescent, handled, observations
    <3> QED BY <2>7, <3>1, <3>2, <3>3, <3>4 DEF Step, Handle
  <2>8. CASE UNCHANGED vars \/ \E a \in Admins : DatabaseFails(a)
    BY <2>3, <2>8 DEF vars, handled, observations, DatabaseFails
  <2> QED BY <1>1, <2>7, <2>8 DEF Next
<1>2. Sound /\ InTurn /\ [Next]_vars => [Advances]_vars
  BY <1>1
<1> QED BY <1>2, InTurnInvariant, PTL DEF Spec, HealthNeverRegresses

=============================================================================
