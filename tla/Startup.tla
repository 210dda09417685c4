------------------------------ MODULE Startup ------------------------------
(***************************************************************************)
(* How PRISMUX starts, and what a crash leaves behind (app/main.py         *)
(* lifespan, seed_provider_registry, reload_registry, update_settings,     *)
(* create_provider_api, update_provider_api; app/config.py; app/db.py;     *)
(* app/multi_provider.py CredentialCipher).                                *)
(*                                                                         *)
(* The first start saves the deployment's settings, makes a provider of    *)
(* them, seals its API key and removes the key from the settings table:    *)
(* three transactions, each an await.  Later starts take the stored values *)
(* over the environment's.  A running process changes the settings and the *)
(* providers: update_settings both, under its lock, the provider handlers  *)
(* only their own table, beside it.  The process may end between any two   *)
(* steps and be deployed again with another address, key or cipher.        *)
(*                                                                         *)
(* A settings or provider row is its address and its key; the other fields *)
(* follow the address.  Secret headers are left out, except that whoever   *)
(* changes them seals the key again.  A transaction is one step, and one   *)
(* process runs at a time.  A startup step that fails (database,           *)
(* authentication service) ends the process: Crash.  Deletions, and        *)
(* statements failing in a running process, are in Registry.               *)
(***************************************************************************)
EXTENDS Integers

CONSTANTS
  Urls, Keys, Ciphers,
  Providers, Seeded,   \* the ids of providers, and that of the first start's
  Requests,     \* bound: requests that change settings or a provider
  None,         \* no row, no cipher, no request
  NoKey,        \* the empty API key
  MaxStarts     \* bound

ASSUME NamesAssumption ==
  /\ None \notin Urls \cup Keys \cup Ciphers \cup Providers /\ None # NoKey
  /\ Keys \cap {NoKey, "keep", "clear", "seal"} = {}
ASSUME SeededAssumption == Seeded \in Providers
ASSUME BoundsAssumption == MaxStarts \in Nat

VARIABLES
  settings,     \* app_settings: an address and a key, None where no row
  providers,    \* providers and provider_credentials: of each the address, the
                \* key and the cipher that sealed it
  main,         \* the default one of them
  env,          \* the environment of this process
  phase,        \* what the process does next
  runtime,      \* app.state.runtime_settings
  legacy,       \* app.state.legacy_api_keys
  served,       \* app.state.registry: what requests are sent with, and the default
  stage,        \* where each request is
  body,         \* what it is to write
  got,          \* reload_registry: what it has read
  starts,       \* counter of the bound
  intended,     \* history: of each provider, the key last seeded, set or cleared
  unsealed,     \* history: the seeded one's key was seeded without a cipher
  left,         \* history: a key was left in app_settings, seeded without a
                \* cipher or by a process that ended before removing it
  torn,         \* history: a process ended between the two transactions of
                \* update_settings, which has not run since
  apart,        \* history: since update_settings last ran, a request for a
                \* provider moved the default or its address
  overlapped    \* history: two requests have been in progress at once

stored == <<settings, providers, main>>
memory == <<runtime, legacy, served>>
requests == <<stage, body, got>>
history == <<intended, unsealed, left, torn, apart, overlapped>>
vars == <<stored, env, phase, memory, requests, starts, history>>

AnyKey == Keys \cup {NoKey}
Unset == [url |-> None, key |-> None]
NoProvider == [url |-> None, key |-> NoKey, cipher |-> None]
NoRegistry == [rows |-> [p \in Providers |-> Unset], main |-> None]
Phases == {"down", "read", "save", "seed", "insert", "forget", "load", "running"}
Changes == {"keep", "clear", "seal"} \cup Keys
InProgress == {r \in Requests : stage[r] \notin {"idle", "done"}}

Init ==
  /\ settings = Unset /\ providers = [p \in Providers |-> NoProvider] /\ main = None
  /\ env = [url |-> None, key |-> NoKey, cipher |-> None] /\ phase = "down"
  /\ runtime = Unset /\ legacy = None /\ served = NoRegistry
  /\ stage = [r \in Requests |-> "idle"]
  /\ body = [r \in Requests |-> None] /\ got = [r \in Requests |-> None]
  /\ starts = 0
  /\ intended = [p \in Providers |-> NoKey] /\ unsealed = FALSE /\ left = FALSE
  /\ torn = FALSE /\ apart = FALSE /\ overlapped = FALSE

(* A deployment starts: some environment, nothing in memory.               *)
Deploy(e) ==
  /\ phase = "down" /\ starts < MaxStarts
  /\ env' = e /\ phase' = "read" /\ starts' = starts + 1
  /\ UNCHANGED <<stored, memory, requests, history>>

Forgotten ==
  /\ runtime' = Unset /\ legacy' = None /\ served' = NoRegistry
  /\ stage' = [r \in Requests |-> IF r \in InProgress THEN "done" ELSE stage[r]]
  /\ body' = [r \in Requests |-> None] /\ got' = [r \in Requests |-> None]

\* The settings are saved, and their provider is not.
Between == \E r \in Requests : stage[r] = "writing" /\ body[r].settings

(* The process ends wherever it is: killed, or on an error at startup.     *)
Crash ==
  /\ phase # "down" /\ phase' = "down"
  /\ Forgotten
  /\ left' = (left \/ phase = "forget") /\ torn' = (torn \/ Between)
  /\ UNCHANGED <<stored, env, starts, intended, unsealed, apart, overlapped>>

-----------------------------------------------------------------------------
(* Startup.                                                                *)

\* Mutant of FromSources: the environment wins.
FromSourcesEnvironment(e, saved) == [url |-> e.url, key |-> e.key]

(* RuntimeSettings.from_sources: what is stored wins, key by key.          *)
FromSources(e, saved) ==
  [url |-> IF saved.url # None THEN saved.url ELSE e.url,
   key |-> IF saved.key # None THEN saved.key ELSE e.key]

ReadSettings ==
  /\ phase = "read"
  /\ runtime' = FromSources(env, settings)
  /\ phase' = IF settings = Unset THEN "save" ELSE "seed"
  /\ UNCHANGED <<stored, env, legacy, served, requests, starts, history>>

SaveSettings ==
  /\ phase = "save" /\ settings' = runtime /\ phase' = "seed"
  /\ UNCHANGED <<providers, main, env, memory, requests, starts, history>>

(* seed_provider_registry: only where there is no provider.  Without a     *)
(* cipher the key stays in memory.                                         *)
Seed ==
  /\ phase = "seed"
  /\ IF \E p \in Providers : providers[p].url # None
       THEN phase' = "load" /\ UNCHANGED legacy
       ELSE /\ phase' = "insert"
            /\ legacy' = IF runtime.key # NoKey /\ env.cipher = None
                           THEN runtime.key ELSE legacy
  /\ UNCHANGED <<stored, env, runtime, served, requests, starts, history>>

Sealed(key) == key # NoKey /\ env.cipher # None

InsertProvider ==
  /\ phase = "insert"
  /\ providers' = [providers EXCEPT ![Seeded] =
       [url |-> runtime.url,
        key |-> IF Sealed(runtime.key) THEN runtime.key ELSE NoKey,
        cipher |-> IF Sealed(runtime.key) THEN env.cipher ELSE None]]
  /\ main' = Seeded
  /\ phase' = IF Sealed(runtime.key) THEN "forget" ELSE "load"
  /\ intended' = [intended EXCEPT ![Seeded] = runtime.key]
  /\ unsealed' = (runtime.key # NoKey /\ ~Sealed(runtime.key))
  /\ left' = (left \/ unsealed')
  /\ UNCHANGED <<settings, env, memory, requests, starts, torn, apart, overlapped>>

ForgetKey ==
  /\ phase = "forget"
  /\ settings' = [settings EXCEPT !.key = None]
  /\ phase' = "load"
  /\ UNCHANGED <<providers, main, env, memory, requests, starts, history>>

(* CredentialCipher.decrypt: only the cipher that sealed a key reads it.   *)
Readable == \A p \in Providers : providers[p].cipher \in {None, env.cipher}

(* reload_registry: a key of the seed that was not sealed is merged in.    *)
MergedKey(p) ==
  IF providers[p].key = NoKey /\ p = Seeded /\ legacy # None THEN legacy ELSE providers[p].key

Loaded ==
  [rows |-> [p \in Providers |->
     IF providers[p].url = None THEN Unset ELSE [url |-> providers[p].url, key |-> MergedKey(p)]],
   main |-> main]

LoadRegistry ==
  /\ phase = "load" /\ Readable /\ main # None
  /\ served' = Loaded /\ phase' = "running"
  /\ UNCHANGED <<stored, env, runtime, legacy, requests, starts, history>>

(* An unreadable key, or no default provider, ends the startup.            *)
LoadFails ==
  /\ phase = "load" /\ ~(Readable /\ main # None)
  /\ phase' = "down" /\ Forgotten
  /\ UNCHANGED <<stored, env, starts, history>>

-----------------------------------------------------------------------------
(* Requests of a running process.                                          *)

Go(r, s) == stage' = [stage EXCEPT ![r] = s]

\* A request is to write this of p: the address, and the key kept, cleared,
\* replaced or, when secret headers change, sealed again as it is in memory.  A
\* key is sealed by a cipher.
Begin(r, p, url, default, change, isSettings) ==
  /\ phase = "running" /\ stage[r] = "idle"
  /\ change \in Keys \cup {"seal"} => env.cipher # None
  /\ body' = [body EXCEPT ![r] =
       [provider |-> p, url |-> url, default |-> default, change |-> change, settings |-> isSettings,
        key |-> CASE change \in {"keep", "seal"} -> served.rows[p].key
                  [] change = "clear" -> NoKey
                  [] OTHER -> change]]
  /\ Go(r, IF isSettings THEN "saving" ELSE "writing")
  /\ overlapped' = (overlapped \/ InProgress # {})
  /\ UNCHANGED <<stored, env, phase, memory, got, starts, intended, unsealed, left, torn, apart>>

(* PUT /api/settings, under its lock: an address and a key for what is     *)
(* then the default provider.                                              *)
BeginSettings(r, url, change) ==
  /\ \A o \in InProgress : ~body[o].settings
  /\ served.main # None /\ change # "seal"
  /\ Begin(r, served.main, url, TRUE, change, TRUE)

(* POST /api/providers: an id that no row has.                             *)
BeginCreate(r, p, url, default, change) ==
  /\ providers[p].url = None /\ change \in {"keep"} \cup Keys
  /\ Begin(r, p, url, default, change, FALSE)

(* PUT /api/providers/{id}: the default provider stays the default.        *)
BeginChange(r, p, url, default, change) ==
  /\ served.rows[p].url # None /\ (served.main = p => default)
  /\ Begin(r, p, url, default, change, FALSE)

\* Mutant of SaveUpdate: the key is saved with the other values.
SaveUpdateKey(r) ==
  /\ stage[r] = "saving" /\ settings' = [url |-> body[r].url, key |-> body[r].key]
  /\ Go(r, "writing")
  /\ UNCHANGED <<providers, main, env, phase, memory, body, got, starts, history>>

(* stored_values leaves the key out.                                       *)
SaveUpdate(r) ==
  /\ stage[r] = "saving"
  /\ settings' = [settings EXCEPT !.url = body[r].url]
  /\ Go(r, "writing")
  /\ UNCHANGED <<providers, main, env, phase, memory, body, got, starts, history>>

\* Mutant of Credentials: a cleared key keeps its row.
CredentialsKept(b) ==
  IF b.change \in {"keep", "clear"}
    THEN [key |-> providers[b.provider].key, cipher |-> providers[b.provider].cipher]
    ELSE [key |-> b.key, cipher |-> env.cipher]

(* The three forms of upsert_provider's encrypted_credentials: None keeps  *)
(* the row, "" deletes it, a token replaces it.                            *)
Credentials(b) ==
  CASE b.change = "keep" -> [key |-> providers[b.provider].key, cipher |-> providers[b.provider].cipher]
    [] b.change = "clear" -> [key |-> NoKey, cipher |-> None]
    [] OTHER -> [key |-> b.key, cipher |-> env.cipher]

(* upsert_provider: a new default takes the flag from the others.          *)
UpsertProvider(r) ==
  LET b == body[r]
      c == Credentials(b)
  IN  /\ stage[r] = "writing"
      /\ providers' = [providers EXCEPT ![b.provider] = [url |-> b.url, key |-> c.key, cipher |-> c.cipher]]
      /\ main' = IF b.default THEN b.provider ELSE IF main = b.provider THEN None ELSE main
      /\ runtime' = IF b.settings THEN [url |-> b.url, key |-> b.key] ELSE runtime
      /\ Go(r, "reading")
      /\ intended' = [intended EXCEPT ![b.provider] = IF b.change \in {"keep", "seal"} THEN @ ELSE b.key]
      /\ unsealed' = (unsealed /\ (b.provider # Seeded \/ b.change \in {"keep", "seal"} \/ legacy # None))
      /\ torn' = (torn /\ ~b.settings)
      /\ apart' = IF b.settings THEN FALSE
                  ELSE \/ apart \/ main' # main
                       \/ b.provider = main /\ b.url # providers[main].url
      /\ UNCHANGED <<settings, env, phase, legacy, served, body, got, starts, left, overlapped>>

(* reload_registry reads the providers, then the routes, and publishes; it *)
(* may raise afterwards.                                                   *)
Read(r) ==
  /\ stage[r] = "reading"
  /\ got' = [got EXCEPT ![r] = Loaded]
  /\ Go(r, "publishing")
  /\ UNCHANGED <<stored, env, phase, memory, body, starts, history>>

Publish(r) ==
  /\ stage[r] = "publishing"
  /\ served' = got[r]
  /\ Go(r, "done")
  /\ got' = [got EXCEPT ![r] = None] /\ body' = [body EXCEPT ![r] = None]
  /\ UNCHANGED <<stored, env, phase, runtime, legacy, starts, history>>

Environments == [url : Urls, key : AnyKey, cipher : Ciphers \cup {None}]

Startup ==
  ReadSettings \/ SaveSettings \/ Seed \/ InsertProvider \/ ForgetKey \/ LoadRegistry \/ LoadFails

Starts(r) ==
  \E url \in Urls, change \in Changes :
    \/ BeginSettings(r, url, change)
    \/ \E p \in Providers, default \in BOOLEAN :
         BeginCreate(r, p, url, default, change) \/ BeginChange(r, p, url, default, change)

Next ==
  \/ \E e \in Environments : Deploy(e)
  \/ Crash \/ Startup
  \/ \E r \in Requests : Starts(r) \/ SaveUpdate(r) \/ UpsertProvider(r) \/ Read(r) \/ Publish(r)

Spec == Init /\ [][Next]_vars

-----------------------------------------------------------------------------
(* Properties.                                                             *)

SettingsRows == [url : Urls \cup {None}, key : AnyKey \cup {None}]
Rows == [url : Urls \cup {None}, key : AnyKey, cipher : Ciphers \cup {None}]
Registries == [rows : [Providers -> [url : Urls, key : AnyKey] \cup {Unset}], main : Providers \cup {None}]
Bodies ==
  [provider : Providers, url : Urls, default : BOOLEAN, change : Changes, settings : BOOLEAN,
   key : AnyKey \cup {None}]

(* Every variable has its type.                                            *)
TypeOK ==
  /\ settings \in SettingsRows /\ runtime \in SettingsRows /\ served \in Registries
  /\ providers \in [Providers -> Rows] /\ main \in Providers \cup {None}
  /\ env \in Rows
  /\ phase \in Phases /\ legacy \in Keys \cup {None}
  /\ stage \in [Requests -> {"idle", "saving", "writing", "reading", "publishing", "done"}]
  /\ body \in [Requests -> Bodies \cup {None}] /\ got \in [Requests -> Registries \cup {None}]
  /\ starts \in 0 .. MaxStarts
  /\ intended \in [Providers -> AnyKey] /\ unsealed \in BOOLEAN /\ left \in BOOLEAN
  /\ torn \in BOOLEAN /\ apart \in BOOLEAN /\ overlapped \in BOOLEAN

(* Wherever the first starts were cut short, and whatever the environment  *)
(* was by then, the default provider has the address of the settings       *)
(* table.  They part while update_settings is between its transactions,    *)
(* and stay apart if the process ends just there; and a request for a      *)
(* provider parts them when it moves the default provider, or makes        *)
(* another one the default: it does not write the settings (main.py:1725). *)
(* The next update_settings that gets through brings them together,        *)
(* whatever ran beside it.                                                 *)
AddressesAgree ==
  main # None /\ ~Between /\ ~torn /\ ~apart => providers[main].url = settings.url

(* A process that no request is changing serves every provider with the    *)
(* key that was last seeded, set or cleared, by the settings or by the     *)
(* provider's own page, across crashes and new deployments.  Two           *)
(* exceptions: a key seeded without a cipher, which no row holds; and      *)
(* requests that have overlapped, of which one publishes what it read      *)
(* before the other wrote, or seals again the key it found in memory.      *)
SavedKeyServed ==
  phase = "running" /\ InProgress = {} /\ ~overlapped =>
    \A p \in Providers : providers[p].url # None /\ ~(p = Seeded /\ unsealed) =>
      served.rows[p] = [url |-> providers[p].url, key |-> intended[p]]

(* The process that seeded a key without a cipher serves with it until it  *)
(* ends, although no row holds it and whatever requests overlap.           *)
SeededKeyServed == phase = "running" /\ legacy # None => served.rows[Seeded].key = legacy

(* Requests go out with the key the deployment or an administrator gave.   *)
KeyServed == SavedKeyServed /\ SeededKeyServed

(* Once a process runs, the settings table holds no API key in plain text: *)
(* it goes when the key is sealed and no update writes it back.  A key     *)
(* seeded without a cipher stays, and so does one whose removal was cut    *)
(* short: no later start looks for it.                                     *)
PlainKeyRemoved == phase = "running" /\ ~left => settings.key \notin Keys
=============================================================================
