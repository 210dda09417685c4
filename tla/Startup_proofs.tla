---------------------------- MODULE Startup_proofs ----------------------------
(***************************************************************************)
(* Proofs about Startup, for any addresses, keys, ciphers and providers    *)
(* and any number of starts, crashes and requests.                         *)
(*                                                                         *)
(* The inductive invariant says, phase by phase, what the transactions so  *)
(* far have left: Progress for what the process is about to write, Asked   *)
(* for what its requests are, Tables for the addresses, Held for the       *)
(* providers' keys and what requests carry of them, Merged for a key that  *)
(* is in memory only, Removed for the key in plain text.                   *)
(***************************************************************************)
EXTENDS Startup, TLAPS

Starting == {"down", "read", "save", "seed"}
Writing == {"seed", "insert"}
Serving == {"forget", "load", "running"}

Progress ==
  /\ phase = "read" => env.url \in Urls
  /\ phase \in {"save"} \cup Writing => runtime.url \in Urls /\ runtime.key \in AnyKey
  /\ phase \in Writing =>
       runtime.url = settings.url /\ (settings.key # None => runtime.key = settings.key)
  /\ phase \in Serving => providers[Seeded].url # None

\* What a request is to write; one for the settings at a time, and its address
\* is in their table before it is in the provider's.
Asks(r) ==
  /\ phase = "running"
  /\ body[r] \in Bodies
  /\ body[r].change # "keep" => body[r].key \in AnyKey
  /\ body[r].change = "clear" => body[r].key = NoKey
  /\ body[r].change \in Keys \cup {"seal"} => env.cipher # None
  /\ body[r].settings => body[r].default /\ body[r].change # "seal"
  /\ stage[r] = "saving" => body[r].settings
  /\ stage[r] = "writing" /\ body[r].settings => settings.url = body[r].url
  /\ stage[r] = "publishing" => got[r] \in Registries

Asked ==
  /\ \A r \in InProgress : Asks(r)
  /\ \A r, o \in InProgress : body[r].settings /\ body[o].settings => r = o
  /\ ~overlapped => \A r, o \in InProgress : r = o

Tables ==
  /\ settings.url = None => settings = Unset /\ \A p \in Providers : providers[p].url = None
  /\ phase = "save" => settings = Unset
  /\ main # None => providers[main].url # None
  /\ (\E p \in Providers : providers[p].url # None) => providers[Seeded].url # None
  /\ AddressesAgree

\* The key of p is in its row: it was not seeded without a cipher.
Kept(p) == ~overlapped /\ ~(p = Seeded /\ unsealed)

Held ==
  \A p \in Providers : Kept(p) =>
    /\ providers[p].key = intended[p]
    /\ \A r \in Requests :
         /\ stage[r] = "writing" /\ body[r].provider = p /\ body[r].change = "seal" =>
              body[r].key = intended[p]
         /\ stage[r] = "publishing" /\ providers[p].url # None =>
              got[r].rows[p] = [url |-> providers[p].url, key |-> intended[p]]

Merged ==
  /\ phase \in Starting => legacy = None
  /\ legacy # None =>
       /\ env.cipher = None
       /\ phase = "insert" => legacy = runtime.key
       /\ phase # "insert" => unsealed /\ providers[Seeded].key = NoKey
       /\ \A r \in Requests : stage[r] = "publishing" => got[r].rows[Seeded].key = legacy

\* No provider is deleted: what a registry was made of is still there.
Found ==
  \A p \in Providers : providers[p].url = None =>
    /\ served.rows[p].url = None
    /\ \A r \in Requests : stage[r] = "publishing" => got[r].rows[p].url = None

Removed == providers[Seeded].url # None /\ phase # "forget" /\ ~left => settings.key \notin Keys

IInv ==
  /\ TypeOK /\ Progress /\ Asked /\ Tables /\ Held /\ Merged /\ Found /\ Removed
  /\ SavedKeyServed /\ SeededKeyServed

-----------------------------------------------------------------------------
(* Facts used throughout.                                                  *)

\* What reload_registry reads is a registry, with the keys the rows hold and
\* the seeded one merged in.
LEMMA LoadedIs ==
  ASSUME IInv, phase # "insert"
  PROVE  /\ Loaded \in Registries
         /\ \A p \in Providers : Kept(p) /\ providers[p].url # None =>
              Loaded.rows[p] = [url |-> providers[p].url, key |-> intended[p]]
         /\ legacy # None /\ providers[Seeded].url # None => Loaded.rows[Seeded].key = legacy
         /\ \A p \in Providers : providers[p].url = None => Loaded.rows[p].url = None
<1>1. ASSUME NEW p \in Providers PROVE providers[p] \in Rows /\ MergedKey(p) \in AnyKey
  BY <1>1 DEF IInv, TypeOK, Rows, MergedKey, AnyKey
<1>2. ASSUME NEW p \in Providers, providers[p].url # None
      PROVE  [url |-> providers[p].url, key |-> MergedKey(p)] \in [url : Urls, key : AnyKey]
  BY <1>1, <1>2 DEF Rows
<1>3. Loaded \in Registries
  BY <1>2 DEF Loaded, Registries, IInv, TypeOK
<1>4. ASSUME NEW p \in Providers, Kept(p), providers[p].url # None
      PROVE  Loaded.rows[p] = [url |-> providers[p].url, key |-> intended[p]]
  <2>1. providers[p].key = intended[p]
    BY <1>4 DEF IInv, Held
  <2>2. MergedKey(p) = intended[p]
    BY <1>4, <2>1 DEF MergedKey, Kept, IInv, Merged
  <2> QED BY <1>4, <2>2 DEF Loaded
<1>5. ASSUME legacy # None, providers[Seeded].url # None PROVE Loaded.rows[Seeded].key = legacy
  <2>1. MergedKey(Seeded) = legacy
    BY <1>5 DEF MergedKey, IInv, Merged
  <2> QED BY <1>5, <2>1, SeededAssumption DEF Loaded
<1>6. \A p \in Providers : providers[p].url = None => Loaded.rows[p].url = None
  BY DEF Loaded, Unset
<1> QED BY <1>3, <1>4, <1>5, <1>6

\* While no request is in progress there is nothing to say of them.
LEMMA NoneAsked ==
  ASSUME \A r \in Requests : stage'[r] \in {"idle", "done"}
  PROVE  Asked' /\ InProgress' = {} /\ ~Between'
BY DEF Asked, InProgress, Between

\* Before a process runs no request is in progress.
LEMMA NotRunning ==
  ASSUME IInv, phase # "running"
  PROVE  \A r \in Requests : stage[r] \in {"idle", "done"}
BY DEF IInv, Asked, Asks, InProgress

-----------------------------------------------------------------------------
(* The inductive invariant holds at the start and after every step.        *)

\* Before the first deployment nothing is stored and no process runs.
LEMMA InitIInv == Init => IInv
<1> SUFFICES ASSUME Init PROVE IInv
  OBVIOUS
<1>1. TypeOK
  <2>1. Unset \in SettingsRows /\ NoProvider \in Rows
    BY DEF Unset, SettingsRows, NoProvider, Rows, AnyKey
  <2>2. NoRegistry \in Registries
    BY DEF NoRegistry, Registries
  <2>3. starts \in 0 .. MaxStarts
    BY BoundsAssumption DEF Init
  <2> QED BY <2>1, <2>2, <2>3 DEF Init, TypeOK, NoProvider, Phases, AnyKey
<1>2. Progress /\ SavedKeyServed /\ SeededKeyServed
  BY DEF Init, Progress, Writing, Serving, SavedKeyServed, SeededKeyServed
<1>3. Asked /\ ~Between
  BY DEF Init, Asked, InProgress, Between
<1>4. Tables /\ Held /\ Merged /\ Found /\ Removed
  BY SeededAssumption
  DEF Init, Tables, AddressesAgree, Held, Merged, Found, Removed, Unset, NoProvider, NoRegistry
<1> QED BY <1>1, <1>2, <1>3, <1>4 DEF IInv

\* A new environment touches no table, and the process has loaded nothing yet.
LEMMA DeployKeeps ==
  ASSUME IInv, NEW e \in Environments, Deploy(e)
  PROVE  IInv'
<1>1. TypeOK'
  BY BoundsAssumption
  DEF IInv, TypeOK, Deploy, Environments, Rows, Phases, stored, memory, requests, history
<1>2. Progress' /\ SavedKeyServed' /\ SeededKeyServed'
  BY DEF Progress, SavedKeyServed, SeededKeyServed, Deploy, Environments, Writing, Serving
<1>3. Asked' /\ ~Between' /\ \A r \in Requests : stage[r] \in {"idle", "done"} /\ stage' = stage
  BY NotRunning, NoneAsked DEF Deploy, requests
<1>4. Tables' /\ Removed'
  BY <1>3 DEF IInv, Tables, Removed, AddressesAgree, Between, Deploy, stored, history
<1>5. Held' /\ Merged' /\ Found'
  BY <1>3 DEF IInv, Held, Kept, Merged, Found, Deploy, Starting, stored, memory, history
<1> QED BY <1>1, <1>2, <1>3, <1>4, <1>5 DEF IInv

\* What a process forgets when it ends.
LEMMA ForgottenIs ==
  ASSUME IInv, Forgotten
  PROVE  /\ stage' \in [Requests -> {"idle", "saving", "writing", "reading", "publishing", "done"}]
         /\ \A r \in Requests : stage'[r] \in {"idle", "done"}
         /\ body' \in [Requests -> Bodies \cup {None}] /\ got' \in [Requests -> Registries \cup {None}]
         /\ runtime' \in SettingsRows /\ served' \in Registries /\ legacy' = None
<1>1. Unset \in SettingsRows /\ NoRegistry \in Registries
  BY DEF Unset, SettingsRows, NoRegistry, Registries
<1> QED BY <1>1 DEF Forgotten, InProgress, IInv, TypeOK

\* A process that ends anywhere leaves the tables, and two facts about them.
LEMMA CrashKeeps ==
  ASSUME IInv, Crash
  PROVE  IInv'
<1>1. TypeOK'
  BY ForgottenIs DEF IInv, TypeOK, Crash, Phases, stored
<1>2. Progress' /\ SavedKeyServed' /\ SeededKeyServed'
  BY DEF Progress, SavedKeyServed, SeededKeyServed, Crash, Writing, Serving
<1>3. Asked' /\ ~Between' /\ \A r \in Requests : stage'[r] \in {"idle", "done"}
  BY ForgottenIs, NoneAsked DEF Crash
<1>4. Tables' /\ Removed'
  BY <1>3 DEF IInv, Tables, Removed, AddressesAgree, Crash, stored
<1>5. Held' /\ Merged' /\ Found'
  BY <1>3 DEF IInv, Held, Kept, Merged, Found, Crash, Forgotten, NoRegistry, Unset, stored
<1> QED BY <1>1, <1>2, <1>3, <1>4, <1>5 DEF IInv

\* What is read is what will be saved, or what was.
LEMMA ReadSettingsKeeps ==
  ASSUME IInv, ReadSettings
  PROVE  IInv'
<1>1. TypeOK'
  BY DEF IInv, TypeOK, ReadSettings, FromSources, Phases, SettingsRows, Rows, stored, requests, history
<1>2. Progress'
  BY DEF IInv, TypeOK, Progress, Tables, ReadSettings, FromSources, SettingsRows, Rows, Writing, Serving, stored
<1>3. SavedKeyServed' /\ SeededKeyServed'
  BY DEF SavedKeyServed, SeededKeyServed, ReadSettings
<1>4. Asked' /\ ~Between' /\ \A r \in Requests : stage[r] \in {"idle", "done"} /\ stage' = stage
  BY NotRunning, NoneAsked DEF ReadSettings, requests
<1>5. Tables' /\ Removed'
  BY <1>4 DEF IInv, Tables, Removed, AddressesAgree, Between, ReadSettings, stored, history
<1>6. Held' /\ Merged' /\ Found'
  BY <1>4 DEF IInv, Held, Kept, Merged, Found, ReadSettings, Starting, stored, history
<1> QED BY <1>1, <1>2, <1>3, <1>4, <1>5, <1>6 DEF IInv

\* The first save meets an empty table and no provider.
LEMMA SaveSettingsKeeps ==
  ASSUME IInv, SaveSettings
  PROVE  IInv'
<1>1. TypeOK'
  BY DEF IInv, TypeOK, SaveSettings, Phases, memory, requests, history
<1>2. Progress' /\ SavedKeyServed' /\ SeededKeyServed'
  BY DEF IInv, Progress, SavedKeyServed, SeededKeyServed, SaveSettings, Writing, Serving, memory
<1>3. Asked' /\ ~Between' /\ \A r \in Requests : stage[r] \in {"idle", "done"} /\ stage' = stage
  BY NotRunning, NoneAsked DEF SaveSettings, requests
<1>4. Tables' /\ Removed'
  <2>1. /\ \A p \in Providers : providers[p].url = None
        /\ main \in Providers \cup {None} /\ UNCHANGED <<providers, main>>
        /\ settings'.url \in Urls /\ phase' = "seed"
    BY DEF IInv, TypeOK, Progress, Tables, SaveSettings, Unset
  <2>2. settings'.url # None /\ main = None
    BY <2>1, NamesAssumption DEF IInv, Tables
  <2> QED BY <2>1, <2>2, SeededAssumption DEF Tables, Removed, AddressesAgree
<1>5. Held' /\ Merged' /\ Found'
  BY <1>3 DEF IInv, Held, Kept, Merged, Found, SaveSettings, Starting, memory, history
<1> QED BY <1>1, <1>2, <1>3, <1>4, <1>5 DEF IInv

\* Only the first start has a provider to make, and only an unsealed key stays
\* in memory.
LEMMA SeedKeeps ==
  ASSUME IInv, Seed
  PROVE  IInv'
<1>1. TypeOK'
  BY DEF IInv, TypeOK, Progress, Seed, Phases, AnyKey, Writing, stored, requests, history
<1>2. Progress' /\ SavedKeyServed' /\ SeededKeyServed'
  BY SeededAssumption
  DEF IInv, Progress, Tables, SavedKeyServed, SeededKeyServed, Seed, Writing, Serving, stored
<1>3. Asked' /\ ~Between' /\ \A r \in Requests : stage[r] \in {"idle", "done"} /\ stage' = stage
  BY NotRunning, NoneAsked DEF Seed, requests
<1>4. Tables' /\ Removed'
  BY <1>3 DEF IInv, Tables, Removed, AddressesAgree, Between, Seed, stored, history
<1>5. Held' /\ Merged' /\ Found'
  BY <1>3 DEF IInv, Held, Kept, Merged, Found, Seed, Starting, stored, history
<1> QED BY <1>1, <1>2, <1>3, <1>4, <1>5 DEF IInv

\* The provider is made of the address in the table and holds the key that was
\* sealed, or the key stays in memory.
LEMMA InsertProviderKeeps ==
  ASSUME IInv, InsertProvider
  PROVE  IInv'
<1>1. /\ Seeded \in Providers /\ runtime.url \in Urls /\ runtime.key \in AnyKey /\ runtime.url # None
      /\ providers \in [Providers -> Rows] /\ intended \in [Providers -> AnyKey]
      /\ phase' \in {"forget", "load"} /\ runtime.url = settings.url
  BY SeededAssumption, NamesAssumption DEF IInv, TypeOK, Progress, InsertProvider, Writing
<1>2. /\ providers' \in [Providers -> Rows] /\ providers'[Seeded].url = runtime.url
      /\ providers'[Seeded].key = IF Sealed(runtime.key) THEN runtime.key ELSE NoKey
      /\ intended' \in [Providers -> AnyKey] /\ intended'[Seeded] = runtime.key
      /\ \A p \in Providers \ {Seeded} : providers'[p] = providers[p] /\ intended'[p] = intended[p]
  <2>1. [url |-> runtime.url,
         key |-> IF Sealed(runtime.key) THEN runtime.key ELSE NoKey,
         cipher |-> IF Sealed(runtime.key) THEN env.cipher ELSE None] \in Rows
    BY <1>1 DEF IInv, TypeOK, Rows, AnyKey
  <2> QED BY <1>1, <2>1 DEF InsertProvider
<1>3. TypeOK'
  BY <1>1, <1>2 DEF IInv, TypeOK, InsertProvider, Phases, memory, requests
<1>4. Progress' /\ SavedKeyServed' /\ SeededKeyServed'
  BY <1>1, <1>2 DEF Progress, SavedKeyServed, SeededKeyServed, Writing
<1>5. Asked' /\ ~Between' /\ \A r \in Requests : stage[r] \in {"idle", "done"} /\ stage' = stage
  BY NotRunning, NoneAsked DEF InsertProvider, requests
<1>6. Tables'
  BY <1>1, <1>2 DEF Tables, AddressesAgree, InsertProvider
<1>7. Held'
  <2>1. ASSUME NEW p \in Providers, Kept(p)' PROVE providers'[p].key = intended'[p]
    <3>1. CASE p = Seeded
      BY <1>1, <1>2, <2>1, <3>1 DEF Kept, InsertProvider, AnyKey
    <3>2. CASE p # Seeded
      BY <1>2, <2>1, <3>2 DEF IInv, Held, Kept, InsertProvider
    <3> QED BY <3>1, <3>2
  <2> QED BY <1>5, <2>1 DEF Held
<1>8. Merged' /\ Found'
  <2>1. legacy # None => env.cipher = None /\ legacy = runtime.key /\ legacy # NoKey
    BY NamesAssumption DEF IInv, TypeOK, Merged, InsertProvider
  <2>2. legacy # None => unsealed' /\ providers'[Seeded].key = NoKey
    BY <1>2, <2>1 DEF InsertProvider, Sealed
  <2>3. Merged'
    BY <1>1, <1>5, <2>1, <2>2 DEF Merged, InsertProvider, Starting, memory
  <2>4. Found'
    BY <1>1, <1>2, <1>5 DEF IInv, Found, InsertProvider, memory
  <2> QED BY <2>3, <2>4
<1>9. Removed'
  BY <1>1, NamesAssumption DEF IInv, Progress, Removed, InsertProvider, Writing
<1> QED BY <1>3, <1>4, <1>5, <1>6, <1>7, <1>8, <1>9 DEF IInv

\* Removing the key from the table leaves its address.
LEMMA ForgetKeyKeeps ==
  ASSUME IInv, ForgetKey
  PROVE  IInv'
<1>1. settings' = [settings EXCEPT !.key = None] /\ settings'.url = settings.url /\ settings'.key = None
      /\ settings' \in SettingsRows /\ settings.url # None /\ providers[Seeded].url # None
  BY SeededAssumption DEF IInv, TypeOK, Progress, Tables, ForgetKey, SettingsRows, Serving
<1>2. TypeOK'
  BY <1>1 DEF IInv, TypeOK, ForgetKey, Phases, memory, requests, history
<1>3. Progress' /\ SavedKeyServed' /\ SeededKeyServed'
  BY DEF IInv, Progress, SavedKeyServed, SeededKeyServed, ForgetKey, Writing, Serving
<1>4. Asked' /\ ~Between' /\ \A r \in Requests : stage[r] \in {"idle", "done"} /\ stage' = stage
  BY NotRunning, NoneAsked DEF ForgetKey, requests
<1>5. Tables'
  BY <1>1, <1>4 DEF IInv, Tables, AddressesAgree, Between, ForgetKey, history
<1>6. Held' /\ Removed'
  BY <1>1, <1>4, NamesAssumption DEF IInv, Held, Kept, Removed, ForgetKey, history
<1>7. Merged' /\ Found'
  BY <1>4 DEF IInv, Merged, Found, ForgetKey, Starting, memory, history
<1> QED BY <1>2, <1>3, <1>4, <1>5, <1>6, <1>7 DEF IInv

\* What the registry serves is the provider's key, or the seed's where there is
\* none: here what the tables hold becomes what requests are sent with.
LEMMA LoadRegistryKeeps ==
  ASSUME IInv, LoadRegistry
  PROVE  IInv'
<1>1. TypeOK'
  BY LoadedIs DEF IInv, TypeOK, LoadRegistry, Phases, stored, requests, history
<1>2. Progress'
  BY DEF IInv, Progress, LoadRegistry, Writing, Serving, stored
<1>3. Asked' /\ ~Between' /\ \A r \in Requests : stage[r] \in {"idle", "done"} /\ stage' = stage
  BY NotRunning, NoneAsked DEF LoadRegistry, requests
<1>4. Tables' /\ Removed'
  BY <1>3 DEF IInv, Tables, Removed, AddressesAgree, Between, LoadRegistry, stored, history
<1>5. Held' /\ Merged' /\ Found'
  BY <1>3, LoadedIs DEF IInv, Held, Kept, Merged, Found, LoadRegistry, Starting, stored, history
<1>6. SavedKeyServed'
  BY LoadedIs DEF SavedKeyServed, Kept, LoadRegistry, stored, history
<1>7. SeededKeyServed'
  BY LoadedIs DEF IInv, Progress, Serving, SeededKeyServed, LoadRegistry
<1> QED BY <1>1, <1>2, <1>3, <1>4, <1>5, <1>6, <1>7 DEF IInv

\* A start that cannot read the keys ends as a crash does.
LEMMA LoadFailsKeeps ==
  ASSUME IInv, LoadFails
  PROVE  IInv'
<1>1. TypeOK'
  BY ForgottenIs DEF IInv, TypeOK, LoadFails, Phases, stored, history
<1>2. Progress' /\ SavedKeyServed' /\ SeededKeyServed'
  BY DEF Progress, SavedKeyServed, SeededKeyServed, LoadFails, Writing, Serving
<1>3. Asked' /\ ~Between' /\ \A r \in Requests : stage[r] \in {"idle", "done"} /\ stage'[r] \in {"idle", "done"}
  BY ForgottenIs, NotRunning, NoneAsked DEF LoadFails
<1>4. Tables' /\ Removed'
  BY <1>3 DEF IInv, Tables, Removed, AddressesAgree, Between, LoadFails, stored, history
<1>5. Held' /\ Merged' /\ Found'
  BY <1>3 DEF IInv, Held, Kept, Merged, Found, LoadFails, Forgotten, NoRegistry, Unset, stored, history
<1> QED BY <1>1, <1>2, <1>3, <1>4, <1>5 DEF IInv

\* A request that begins has written nothing; alone, it finds in memory the key
\* it is to keep.
LEMMA BeginKeeps ==
  ASSUME IInv, NEW r \in Requests, NEW p \in Providers, NEW url \in Urls, NEW default \in BOOLEAN,
         NEW change \in Changes, NEW isSettings \in BOOLEAN, Begin(r, p, url, default, change, isSettings),
         isSettings => default /\ change # "seal" /\ \A o \in InProgress : ~body[o].settings,
         change = "seal" => served.rows[p].url # None
  PROVE  IInv'
<1> DEFINE b == [provider |-> p, url |-> url, default |-> default, change |-> change, settings |-> isSettings,
                 key |-> CASE change \in {"keep", "seal"} -> served.rows[p].key
                           [] change = "clear" -> NoKey
                           [] OTHER -> change]
           s == IF isSettings THEN "saving" ELSE "writing"
<1>1. /\ stage' = [stage EXCEPT ![r] = s] /\ body' = [body EXCEPT ![r] = b]
      /\ stage[r] = "idle" /\ phase = "running" /\ phase' = "running"
      /\ overlapped' = (overlapped \/ InProgress # {})
      /\ change \in Keys \cup {"seal"} => env.cipher # None
      /\ UNCHANGED <<stored, env, memory, got, starts, intended, unsealed, left, torn, apart>>
  BY DEF Begin, Go
<1>2. /\ served.rows[p] \in [url : Urls, key : AnyKey] \cup {Unset}
      /\ change = "seal" => served.rows[p].key \in AnyKey
  BY DEF IInv, TypeOK, Registries, Unset
<1>3. /\ b \in Bodies /\ b.provider = p /\ b.change = change /\ b.settings = isSettings /\ b.default = default
      /\ b.url = url
      /\ change # "keep" => b.key \in AnyKey
      /\ change = "clear" => b.key = NoKey
      /\ change = "seal" => b.key = served.rows[p].key
  <2>1. served.rows[p].key \in AnyKey \cup {None}
    BY <1>2 DEF Unset
  <2>2. b.key \in AnyKey \cup {None}
    BY <2>1 DEF Changes, AnyKey
  <2>3. b \in Bodies
    BY <2>2 DEF Bodies
  <2>4. change \notin {"keep", "seal", "clear"} => b.key = change /\ change \in Keys
    BY DEF Changes
  <2> QED BY <1>2, <2>3, <2>4 DEF AnyKey, Changes
<1> HIDE DEF b
<1>4. /\ stage \in [Requests -> {"idle", "saving", "writing", "reading", "publishing", "done"}]
      /\ body \in [Requests -> Bodies \cup {None}]
  BY DEF IInv, TypeOK
<1>5. /\ stage'[r] = s /\ body'[r] = b /\ s \in {"saving", "writing"}
      /\ \A o \in Requests \ {r} : stage'[o] = stage[o] /\ body'[o] = body[o]
      /\ InProgress' = InProgress \cup {r} /\ r \notin InProgress
  BY <1>1, <1>4 DEF InProgress
<1>6. TypeOK'
  BY <1>1, <1>3, <1>4 DEF IInv, TypeOK, stored, memory
<1>7. Progress' /\ Removed' /\ SeededKeyServed'
  BY <1>1 DEF IInv, Progress, Removed, SeededKeyServed, Writing, Serving, stored, memory
<1>8. Asked'
  <2>1. Asks(r)'
    BY <1>1, <1>3, <1>5 DEF Asks, InProgress
  <2>2. ASSUME NEW o \in InProgress PROVE Asks(o)' /\ o \in Requests \ {r}
    BY <1>1, <1>5, <2>2 DEF IInv, Asked, Asks, InProgress, stored
  <2>3. \A o \in InProgress : isSettings => ~body[o].settings
    OBVIOUS
  <2> QED BY <1>1, <1>3, <1>5, <2>1, <2>2, <2>3 DEF IInv, Asked
<1>9. ~Between => ~Between'
  BY <1>3, <1>5 DEF Between
<1>10. Tables'
  <2>1. Between => Between'
    BY <1>1, <1>5 DEF Between
  <2> QED BY <1>1, <2>1 DEF IInv, Tables, AddressesAgree, stored
<1>11. Held'
  <2>1. SUFFICES ASSUME NEW q \in Providers, Kept(q)', NEW o \in Requests
                 PROVE  /\ providers[q].key = intended[q]
                        /\ stage'[o] = "writing" /\ body'[o].provider = q /\ body'[o].change = "seal" =>
                             body'[o].key = intended[q]
                        /\ stage'[o] = "publishing" /\ providers[q].url # None =>
                             got[o].rows[q] = [url |-> providers[q].url, key |-> intended[q]]
    BY <1>1 DEF Held, stored
  <2>2. Kept(q) /\ InProgress = {} /\ ~overlapped
    BY <1>1, <2>1 DEF Kept
  <2>3. CASE o # r
    BY <1>5, <2>2, <2>3 DEF IInv, Held
  <2>4. CASE o = r
    <3>1. change = "seal" /\ p = q => served.rows[p].key = intended[p]
      <4>1. ASSUME change = "seal", p = q PROVE served.rows[p].key = intended[p]
        <5>1. providers[p].url # None => served.rows[p] = [url |-> providers[p].url, key |-> intended[p]]
          BY <1>1, <2>2, <4>1 DEF IInv, SavedKeyServed, Kept
        <5> QED BY <4>1, <5>1 DEF IInv, Found
      <4> QED BY <4>1
    <3> QED BY <1>3, <1>5, <2>2, <2>4, <3>1 DEF IInv, Held
  <2> QED BY <2>3, <2>4
<1>12. Merged' /\ Found'
  BY <1>1, <1>5 DEF IInv, Merged, Found, Starting, stored, memory
<1>13. SavedKeyServed'
  BY <1>5 DEF SavedKeyServed
<1> QED BY <1>6, <1>7, <1>8, <1>10, <1>11, <1>12, <1>13 DEF IInv

\* The requests of a running process are begun like that.
LEMMA StartsKeeps ==
  ASSUME IInv, NEW r \in Requests, Starts(r)
  PROVE  IInv'
<1> PICK url \in Urls, change \in Changes :
           \/ BeginSettings(r, url, change)
           \/ \E p \in Providers, default \in BOOLEAN :
                BeginCreate(r, p, url, default, change) \/ BeginChange(r, p, url, default, change)
  BY DEF Starts
<1>1. CASE BeginSettings(r, url, change)
  <2>1. served.main \in Providers
    BY <1>1 DEF BeginSettings, IInv, TypeOK, Registries
  <2> QED BY <1>1, <2>1, BeginKeeps DEF BeginSettings
<1>2. ASSUME NEW p \in Providers, NEW default \in BOOLEAN, BeginCreate(r, p, url, default, change)
      PROVE  IInv'
  <2>1. change # "seal"
    BY <1>2, NamesAssumption DEF BeginCreate
  <2> QED BY <1>2, <2>1, BeginKeeps DEF BeginCreate
<1>3. ASSUME NEW p \in Providers, NEW default \in BOOLEAN, BeginChange(r, p, url, default, change)
      PROVE  IInv'
  BY <1>3, BeginKeeps DEF BeginChange
<1> QED BY <1>1, <1>2, <1>3

\* A request that moves on leaves the others where they are, and no new one.
LEMMA GoIs ==
  ASSUME IInv, NEW r \in Requests, NEW s, Go(r, s), stage[r] \notin {"idle", "done"},
         s \in {"writing", "reading", "publishing", "done"}
  PROVE  /\ stage' \in [Requests -> {"idle", "saving", "writing", "reading", "publishing", "done"}]
         /\ stage'[r] = s /\ \A o \in Requests \ {r} : stage'[o] = stage[o]
         /\ r \in InProgress /\ InProgress' \subseteq InProgress
         /\ phase = "running" /\ Asks(r)
         /\ ~overlapped => InProgress = {r}
<1>1. stage' = [stage EXCEPT ![r] = s]
  BY DEF Go
<1>2. stage'[r] = s /\ \A o \in Requests \ {r} : stage'[o] = stage[o]
  BY <1>1 DEF IInv, TypeOK
<1>3. r \in InProgress /\ InProgress' \subseteq InProgress
  BY <1>2 DEF InProgress
<1>4. phase = "running" /\ Asks(r)
  BY <1>3 DEF IInv, Asked, Asks
<1>5. ~overlapped => InProgress = {r}
  BY <1>3 DEF IInv, Asked
<1> QED BY <1>1, <1>2, <1>3, <1>4, <1>5 DEF IInv, TypeOK

\* The settings are saved first: from here the two transactions lie apart.
LEMMA SaveUpdateKeeps ==
  ASSUME IInv, NEW r \in Requests, SaveUpdate(r)
  PROVE  IInv'
<1>1. /\ settings' = [settings EXCEPT !.url = body[r].url] /\ Go(r, "writing") /\ stage[r] = "saving"
      /\ UNCHANGED <<providers, main, env, phase, memory, body, got, starts, history>>
  BY DEF SaveUpdate
<1>2. /\ stage' \in [Requests -> {"idle", "saving", "writing", "reading", "publishing", "done"}]
      /\ stage'[r] = "writing" /\ \A o \in Requests \ {r} : stage'[o] = stage[o]
      /\ r \in InProgress /\ InProgress' \subseteq InProgress
      /\ phase = "running" /\ Asks(r) /\ r \in InProgress'
      /\ ~overlapped => InProgress = {r}
  BY <1>1, GoIs DEF InProgress
<1>3. /\ body[r] \in Bodies /\ body[r].url \in Urls /\ body[r].settings
      /\ settings' \in SettingsRows /\ settings'.url = body[r].url /\ settings'.key = settings.key
  BY <1>1, <1>2 DEF Asks, Bodies, IInv, TypeOK, SettingsRows
<1>4. TypeOK'
  BY <1>1, <1>2, <1>3 DEF IInv, TypeOK, memory, history
<1>5. Progress' /\ Removed' /\ SavedKeyServed' /\ SeededKeyServed'
  BY <1>1, <1>2, <1>3
  DEF IInv, Progress, Removed, SavedKeyServed, SeededKeyServed, Writing, Serving, memory, history
<1>6. Asked'
  <2>1. ASSUME NEW o \in InProgress' PROVE Asks(o)'
    <3>1. CASE o = r
      BY <1>1, <1>2, <1>3, <3>1 DEF Asks, history
    <3>2. CASE o # r
      BY <1>1, <1>2, <1>3, <2>1, <3>2 DEF IInv, Asked, Asks, InProgress
    <3> QED BY <3>1, <3>2
  <2> QED BY <1>1, <1>2, <2>1 DEF IInv, Asked, history
<1>7. Tables'
  <2>1. Between'
    BY <1>1, <1>2, <1>3 DEF Between
  <2>2. settings'.url # None
    BY <1>3, NamesAssumption
  <2> QED BY <1>1, <1>2, <2>1, <2>2 DEF IInv, Tables, AddressesAgree
<1>8. Held'
  <2>1. SUFFICES ASSUME NEW p \in Providers, Kept(p), NEW o \in Requests
                 PROVE  /\ providers[p].key = intended[p]
                        /\ stage'[o] = "writing" /\ body[o].provider = p /\ body[o].change = "seal" =>
                             body[o].key = intended[p]
                        /\ stage'[o] = "publishing" /\ providers[p].url # None =>
                             got[o].rows[p] = [url |-> providers[p].url, key |-> intended[p]]
    BY <1>1 DEF Held, Kept, history
  <2>2. CASE o = r
    BY <1>2, <1>3, <2>1, <2>2 DEF Asks, IInv, Held
  <2>3. CASE o # r
    BY <1>2, <2>1, <2>3 DEF IInv, Held
  <2> QED BY <2>2, <2>3
<1>9. Merged' /\ Found'
  BY <1>1, <1>2 DEF IInv, Merged, Found, Starting, memory, history
<1> QED BY <1>4, <1>5, <1>6, <1>7, <1>8, <1>9 DEF IInv

\* The provider's transaction: the row, and the key by its three forms.
LEMMA UpsertProviderKeeps ==
  ASSUME IInv, NEW r \in Requests, UpsertProvider(r)
  PROVE  IInv'
<1> DEFINE b == body[r]
           c == Credentials(b)
<1>1. /\ providers' = [providers EXCEPT ![b.provider] = [url |-> b.url, key |-> c.key, cipher |-> c.cipher]]
      /\ main' = IF b.default THEN b.provider ELSE IF main = b.provider THEN None ELSE main
      /\ runtime' = IF b.settings THEN [url |-> b.url, key |-> b.key] ELSE runtime
      /\ intended' = [intended EXCEPT ![b.provider] = IF b.change \in {"keep", "seal"} THEN @ ELSE b.key]
      /\ unsealed' = (unsealed /\ (b.provider # Seeded \/ b.change \in {"keep", "seal"} \/ legacy # None))
      /\ torn' = (torn /\ ~b.settings)
      /\ apart' = IF b.settings THEN FALSE
                  ELSE \/ apart \/ main' # main
                       \/ b.provider = main /\ b.url # providers[main].url
      /\ stage[r] = "writing" /\ Go(r, "reading")
      /\ UNCHANGED <<settings, env, phase, legacy, served, body, got, starts, left, overlapped>>
  BY DEF UpsertProvider
<1>2. /\ stage' \in [Requests -> {"idle", "saving", "writing", "reading", "publishing", "done"}]
      /\ stage'[r] = "reading" /\ \A o \in Requests \ {r} : stage'[o] = stage[o]
      /\ r \in InProgress /\ InProgress' \subseteq InProgress
      /\ phase = "running" /\ Asks(r) /\ r \in InProgress'
      /\ ~overlapped => InProgress = {r}
  BY <1>1, GoIs DEF InProgress
<1>3. /\ b \in Bodies /\ b.provider \in Providers /\ b.url \in Urls /\ b.url # None
      /\ b.default \in BOOLEAN /\ b.settings \in BOOLEAN /\ b.change \in Changes
      /\ b.key \in AnyKey \cup {None}
      /\ b.change # "keep" => b.key \in AnyKey
      /\ b.change = "clear" => b.key = NoKey
      /\ b.change \in Keys \cup {"seal"} => env.cipher # None
      /\ b.settings => b.default /\ settings.url = b.url
  BY <1>1, <1>2, NamesAssumption DEF Asks, Bodies
<1>4. providers \in [Providers -> Rows] /\ intended \in [Providers -> AnyKey] /\ env \in Rows
  BY DEF IInv, TypeOK
<1>5. /\ b.change = "keep" => c.key = providers[b.provider].key /\ c.cipher = providers[b.provider].cipher
      /\ b.change = "clear" => c.key = NoKey /\ c.cipher = None
      /\ b.change \notin {"keep", "clear"} => c.key = b.key /\ c.cipher = env.cipher
  BY DEF Credentials
<1>6. [url |-> b.url, key |-> c.key, cipher |-> c.cipher] \in Rows
  BY <1>3, <1>4, <1>5 DEF Rows, AnyKey
<1> HIDE DEF c, b
<1>7. /\ providers' \in [Providers -> Rows]
      /\ providers'[b.provider].url = b.url /\ providers'[b.provider].key = c.key
      /\ \A p \in Providers \ {b.provider} : providers'[p] = providers[p]
  BY <1>1, <1>3, <1>4, <1>6
<1>8. /\ intended' \in [Providers -> AnyKey]
      /\ intended'[b.provider] = IF b.change \in {"keep", "seal"} THEN intended[b.provider] ELSE b.key
      /\ \A p \in Providers \ {b.provider} : intended'[p] = intended[p]
  BY <1>1, <1>3, <1>4
<1>9. TypeOK'
  <2>1. [url |-> b.url, key |-> b.key] \in SettingsRows
    BY <1>3 DEF SettingsRows
  <2> QED BY <1>1, <1>2, <1>3, <1>7, <1>8, <2>1 DEF IInv, TypeOK
<1>10. /\ providers[Seeded].url # None /\ providers'[Seeded].url # None /\ settings.url # None
       /\ \A p \in Providers : providers[p].url # None => providers'[p].url # None
  BY <1>2, <1>3, <1>7, SeededAssumption DEF IInv, Progress, Serving, Tables
<1>11. Progress' /\ Removed' /\ SavedKeyServed' /\ SeededKeyServed'
  BY <1>1, <1>2, <1>10 DEF IInv, Progress, Removed, SavedKeyServed, SeededKeyServed, Writing
<1>12. Asked'
  <2>1. ASSUME NEW o \in InProgress' PROVE Asks(o)'
    <3>1. CASE o = r
      BY <1>1, <1>2, <3>1 DEF Asks
    <3>2. CASE o # r
      BY <1>1, <1>2, <2>1, <3>2 DEF IInv, Asked, Asks, InProgress
    <3> QED BY <3>1, <3>2
  <2> QED BY <1>1, <1>2, <2>1 DEF IInv, Asked
<1>13. Tables'
  <2>1. main' # None => main' \in Providers /\ providers'[main'].url # None
    BY <1>1, <1>3, <1>7 DEF IInv, TypeOK, Tables
  <2>2. AddressesAgree'
    <3>1. CASE b.settings
      BY <1>1, <1>3, <1>7, <3>1 DEF AddressesAgree
    <3>2. CASE ~b.settings
      <4>1. SUFFICES ASSUME main' # None, ~Between', ~torn', ~apart' PROVE providers'[main'].url = settings'.url
        BY DEF AddressesAgree
      <4>2. ~Between
        BY <1>1, <1>2, <3>2, <4>1 DEF Between, b
      <4>3. main' = main /\ ~apart /\ ~torn /\ (b.provider = main => b.url = providers[main].url)
        BY <1>1, <3>2, <4>1
      <4>4. providers[main].url = settings.url
        BY <4>1, <4>2, <4>3 DEF IInv, Tables, AddressesAgree
      <4> QED BY <1>1, <1>7, <2>1, <4>1, <4>3, <4>4
    <3> QED BY <3>1, <3>2
  <2> QED BY <1>1, <1>2, <1>10, <2>1, <2>2 DEF IInv, Tables
<1>14. Held'
  <2>1. ASSUME NEW p \in Providers, Kept(p)' PROVE providers'[p].key = intended'[p]
    <3>1. CASE p # b.provider
      <4>1. Kept(p)
        BY <1>1, <2>1, <3>1 DEF Kept
      <4> QED BY <1>7, <1>8, <3>1, <4>1 DEF IInv, Held
    <3>2. CASE p = b.provider /\ b.change \in {"keep", "seal"}
      <4>1. Kept(p)
        BY <1>1, <2>1, <3>2 DEF Kept
      <4>2. providers[p].key = intended[p] /\ (b.change = "seal" => b.key = intended[p])
        BY <1>1, <3>2, <4>1 DEF IInv, Held, b
      <4> QED BY <1>5, <1>7, <1>8, <3>2, <4>2
    <3>3. CASE p = b.provider /\ b.change \notin {"keep", "seal"}
      BY <1>3, <1>5, <1>7, <1>8, <3>3
    <3> QED BY <3>1, <3>2, <3>3
  <2>2. ASSUME NEW p \in Providers, Kept(p)', NEW o \in Requests
        PROVE  stage'[o] \notin {"writing", "publishing"}
    BY <1>1, <1>2, <2>2 DEF Kept, InProgress
  <2> QED BY <2>1, <2>2 DEF Held
<1>15. Merged'
  <2>1. ASSUME legacy # None PROVE unsealed' /\ providers'[Seeded].key = NoKey
    <3>1. unsealed /\ providers[Seeded].key = NoKey /\ env.cipher = None
      BY <1>2, <2>1 DEF IInv, Merged
    <3>2. b.change \in {"keep", "clear"}
      BY <1>3, <3>1 DEF Changes
    <3> QED BY <1>1, <1>5, <1>7, <2>1, <3>1, <3>2, SeededAssumption
  <2> QED BY <1>1, <1>2, <2>1 DEF IInv, Merged, Starting
<1>16. Found'
  BY <1>1, <1>2, <1>10 DEF IInv, Found
<1> QED BY <1>9, <1>11, <1>12, <1>13, <1>14, <1>15, <1>16 DEF IInv

\* What a reload reads is what the tables hold.
LEMMA ReadKeeps ==
  ASSUME IInv, NEW r \in Requests, Read(r)
  PROVE  IInv'
<1>1. /\ got' = [got EXCEPT ![r] = Loaded] /\ Go(r, "publishing") /\ stage[r] = "reading"
      /\ UNCHANGED <<stored, env, phase, memory, body, starts, history>>
  BY DEF Read
<1>2. /\ stage' \in [Requests -> {"idle", "saving", "writing", "reading", "publishing", "done"}]
      /\ stage'[r] = "publishing" /\ \A o \in Requests \ {r} : stage'[o] = stage[o]
      /\ r \in InProgress /\ InProgress' \subseteq InProgress
      /\ phase = "running" /\ Asks(r) /\ r \in InProgress'
  BY <1>1, GoIs DEF InProgress
<1>3. /\ Loaded \in Registries
      /\ \A p \in Providers : Kept(p) /\ providers[p].url # None =>
           Loaded.rows[p] = [url |-> providers[p].url, key |-> intended[p]]
      /\ legacy # None => Loaded.rows[Seeded].key = legacy
      /\ \A p \in Providers : providers[p].url = None => Loaded.rows[p].url = None
  BY <1>2, LoadedIs DEF IInv, Progress, Serving
<1>4. /\ got' \in [Requests -> Registries \cup {None}] /\ got'[r] = Loaded
      /\ \A o \in Requests \ {r} : got'[o] = got[o]
  BY <1>1, <1>3 DEF IInv, TypeOK
<1>5. TypeOK'
  BY <1>1, <1>2, <1>4 DEF IInv, TypeOK, stored, memory, history
<1>6. Progress' /\ Removed' /\ SavedKeyServed' /\ SeededKeyServed'
  BY <1>1, <1>2
  DEF IInv, Progress, Removed, SavedKeyServed, SeededKeyServed, Writing, Serving, stored, memory, history
<1>7. Asked'
  <2>1. ASSUME NEW o \in InProgress' PROVE Asks(o)'
    <3>1. CASE o = r
      BY <1>1, <1>2, <1>3, <1>4, <3>1 DEF Asks, stored
    <3>2. CASE o # r
      BY <1>1, <1>2, <1>4, <2>1, <3>2 DEF IInv, Asked, Asks, InProgress, stored
    <3> QED BY <3>1, <3>2
  <2> QED BY <1>1, <1>2, <2>1 DEF IInv, Asked, history
<1>8. Tables'
  <2>1. Between => Between'
    BY <1>1, <1>2 DEF Between
  <2> QED BY <1>1, <1>2, <2>1 DEF IInv, Tables, AddressesAgree, stored, history
<1>9. Held'
  BY <1>1, <1>2, <1>3, <1>4 DEF IInv, Held, Kept, stored, history
<1>10. Merged' /\ Found'
  BY <1>1, <1>2, <1>3, <1>4 DEF IInv, Merged, Found, Starting, stored, memory, history
<1> QED BY <1>5, <1>6, <1>7, <1>8, <1>9, <1>10 DEF IInv

\* What was read is served: alone, it is what the tables hold.
LEMMA PublishKeeps ==
  ASSUME IInv, NEW r \in Requests, Publish(r)
  PROVE  IInv'
<1>1. /\ served' = got[r] /\ got' = [got EXCEPT ![r] = None] /\ body' = [body EXCEPT ![r] = None]
      /\ Go(r, "done") /\ stage[r] = "publishing"
      /\ UNCHANGED <<stored, env, phase, runtime, legacy, starts, history>>
  BY DEF Publish
<1>2. /\ stage' \in [Requests -> {"idle", "saving", "writing", "reading", "publishing", "done"}]
      /\ stage'[r] = "done" /\ \A o \in Requests \ {r} : stage'[o] = stage[o]
      /\ r \in InProgress /\ InProgress' \subseteq InProgress \ {r}
      /\ phase = "running" /\ Asks(r)
  BY <1>1, GoIs DEF InProgress
<1>3. /\ body' \in [Requests -> Bodies \cup {None}] /\ got' \in [Requests -> Registries \cup {None}]
      /\ \A o \in Requests \ {r} : body'[o] = body[o] /\ got'[o] = got[o]
      /\ served' \in Registries
  BY <1>1, <1>2 DEF IInv, TypeOK, Asks
<1>4. TypeOK'
  BY <1>1, <1>2, <1>3 DEF IInv, TypeOK, stored, history
<1>5. Progress' /\ Removed'
  BY <1>1, <1>2 DEF IInv, Progress, Removed, Writing, Serving, stored, history
<1>6. SavedKeyServed'
  BY <1>1 DEF IInv, Held, Kept, SavedKeyServed, stored, history
<1>7. SeededKeyServed'
  BY <1>1 DEF IInv, Merged, SeededKeyServed
<1>8. Asked'
  <2>1. ASSUME NEW o \in InProgress' PROVE Asks(o)' /\ o \in InProgress \ {r} /\ body'[o] = body[o]
    BY <1>1, <1>2, <1>3, <2>1 DEF IInv, Asked, Asks, InProgress, stored
  <2> QED BY <1>1, <2>1 DEF IInv, Asked, history
<1>9. Tables'
  <2>1. Between => Between'
    BY <1>1, <1>2, <1>3 DEF Between
  <2> QED BY <1>1, <2>1 DEF IInv, Tables, AddressesAgree, stored, history
<1>10. Held' /\ Merged' /\ Found'
  BY <1>1, <1>2, <1>3 DEF IInv, Held, Kept, Merged, Found, Starting, stored, history
<1> QED BY <1>4, <1>5, <1>6, <1>7, <1>8, <1>9, <1>10 DEF IInv

LEMMA NextIInv == IInv /\ [Next]_vars => IInv'
<1> SUFFICES ASSUME IInv, [Next]_vars PROVE IInv'
  OBVIOUS
<1>1. CASE \E e \in Environments : Deploy(e)
  BY <1>1, DeployKeeps
<1>2. CASE Crash
  BY <1>2, CrashKeeps
<1>3. CASE Startup
  BY <1>3, ReadSettingsKeeps, SaveSettingsKeeps, SeedKeeps, InsertProviderKeeps, ForgetKeyKeeps,
     LoadRegistryKeeps, LoadFailsKeeps DEF Startup
<1>4. ASSUME NEW r \in Requests, Starts(r) \/ SaveUpdate(r) \/ UpsertProvider(r) \/ Read(r) \/ Publish(r)
      PROVE  IInv'
  BY <1>4, StartsKeeps, SaveUpdateKeeps, UpsertProviderKeeps, ReadKeeps, PublishKeeps
<1>5. CASE UNCHANGED vars
  <2>1. TypeOK' /\ Progress' /\ Removed' /\ SavedKeyServed' /\ SeededKeyServed' /\ InProgress' = InProgress
    BY <1>5
    DEF IInv, TypeOK, Progress, Removed, SavedKeyServed, SeededKeyServed, InProgress, vars, stored, memory,
        requests, history
  <2>2. Asked'
    BY <1>5, <2>1 DEF IInv, Asked, Asks, vars, stored, requests, history
  <2>3. Tables'
    BY <1>5 DEF IInv, Tables, AddressesAgree, Between, vars, stored, requests, history
  <2>4. Held' /\ Merged' /\ Found'
    BY <1>5 DEF IInv, Held, Kept, Merged, Found, vars, stored, memory, requests, history
  <2> QED BY <2>1, <2>2, <2>3, <2>4 DEF IInv
<1> QED BY <1>1, <1>2, <1>3, <1>4, <1>5 DEF Next

LEMMA Invariance == Spec => []IInv
BY InitIInv, NextIInv, PTL DEF Spec

-----------------------------------------------------------------------------
(* The theorems.                                                           *)

(* TypeCorrect: every variable keeps its type.                             *)
THEOREM TypeCorrect == Spec => []TypeOK
BY Invariance, PTL DEF IInv

(* AddressesAlwaysAgree: whatever is seeded, crashes, is redeployed and is *)
(* changed at once, the settings and the default provider have one         *)
(* address, unless an update of the settings is between its transactions   *)
(* or was cut short there, or a request for a provider parted them since   *)
(* the settings were last saved.                                           *)
THEOREM AddressesAlwaysAgree == Spec => []AddressesAgree
<1>1. IInv => AddressesAgree
  BY DEF IInv, Tables
<1> QED BY <1>1, Invariance, PTL

(* KeyIsServed: a process that no request is changing serves every         *)
(* provider with the key last seeded, set or cleared for it, unless that   *)
(* key was seeded without a cipher or requests have overlapped; and the    *)
(* process that seeded a key without a cipher serves with it to its end.   *)
THEOREM KeyIsServed == Spec => []KeyServed
<1>1. IInv => KeyServed
  BY DEF IInv, KeyServed
<1> QED BY <1>1, Invariance, PTL

(* PlainKeyIsRemoved: no running process leaves a key it sealed in plain   *)
(* text in the settings table, unless the process that seeded it ended     *)
(* just before removing it.                                                *)
THEOREM PlainKeyIsRemoved == Spec => []PlainKeyRemoved
<1>1. IInv => PlainKeyRemoved
  BY DEF IInv, Progress, Serving, Removed, PlainKeyRemoved
<1> QED BY <1>1, Invariance, PTL
=============================================================================
