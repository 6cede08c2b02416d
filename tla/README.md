# emvault-securosys in TLA+

This directory holds the formal model of `emvault-securosys`, the connector
between the emvault signer and a Securosys CloudHSM. The modules are translated
from the crate's sources (`src/pkcs11/backend.rs`, `src/pkcs11/connect.rs`,
`src/tsb/mod.rs`, `src/config.rs`) and two of its examples; line numbers below
are those of the modelled commit, in `backend.rs` where no file is named.

## 1. The system

| Component | State | Operations | Modelled in |
|---|---|---|---|
| **SecurosysBackend** (`backend.rs`) | `lib_path`, `ffi`, `pub_of`, `taproot` | `new`, `derive_master_key`, `derive_path`, `read_xpub`, `master_fingerprint`, `segwit_signer`, `taproot_signer` | `SecurosysBackend`, `TaprootVault` |
| **PubMap** (`:117-122, :203-214`) | FIFO `order`, hash `map`, both behind one mutex | `record_pair`, the lookup in `pub_handle_for` | `PubMap` |
| **Ffi** (`:101-107, :176-201`) | one `OnceLock<Ffi>` per backend, the process's library handles | `ffi`, the calls through the two pointers | `Ffi`, abstract `InitOnce` |
| **TsbClient** (`tsb/mod.rs:77-258`) | base URL, JWT provider, HTTP client; nothing of its own changes | `import_slip10_master`, `sign_bip340`, `derived_public_key`, `bearer` | `TsbClient`, abstract `ImportOnce` |
| **SecurosysTaprootSigner** (`tsb/mod.rs:287-384`) | a client | `from_env`, `sign_key_name`, `sign_schnorr` | `TsbClient` (its requests), `TaprootVault` (against the vault's xpub), `Config` (`from_env`) |
| **EC point** (`:216-246, :621-637`, `tsb/mod.rs:243-258`) | none | `parse_ec_point`, `build_xpub`, the SPKI decoding | `EcPoint` |
| **SecurosysConfig, `pkcs11_config`, errors** (`config.rs`, `connect.rs`, `error.rs`) | the process environment it changes | `from_env` with its `.env` | `Config` |
| **Registrar** (`connect.rs:12-33`) | a library path | a factory that builds one backend per signer | `Ffi` (`Replace`); the registry is external |
| **slip10_probe** (`examples/`) | a session, its objects | one run from `C_Initialize` to `C_Finalize` | `Slip10Probe`, `EcPoint` |
| **mixed_taproot_spend_regtest** (`examples/`) | a wallet, a regtest node | one run: fund, sign, broadcast, confirm | `MixedSpend` |
| **Token and TSB broker** (external) | objects with class, label, key, lifetime; registered masters; bearer tokens | the PKCS#11 calls, the broker's requests | `Token`, `SecurosysBackend`, `TsbClient` |
| **Pkcs11Signer, Fleet** (external, emvault-pkcs11) | handles of its master and account, its session | create, load by label, derive and `read_xpub`, sign | entry points of `SecurosysBackend` and `TaprootVault` |

### How the parts interact

The signer hands the backend a PKCS#11 session and a handle, label or seed. The
backend is `&self` throughout, so several threads may be inside it. It makes
blocking PKCS#11 calls through the session and the vendor pointers, and one
blocking HTTP request when a master is provisioned with TSB configured. The
only state it shares between calls is `pub_of` (held for one `record_pair` or
one lookup, never across a call to the token) and the `OnceLock`. The token's
objects are shared by everyone: other threads, the broker, and the process
before the last restart.

A master lives on the token in one of two labelings. A *native* one
(`CKM_EC_SLIP10_KEY_PAIR_GEN`) has its public key under the `.pub` sibling label
and cannot be derived from over TSB. An *imported* one has both objects under
the same label and is TSB-derivable. Derived keys are unlabelled session
objects, whose public half is known only through `pub_of`.

A taproot vault uses both transports: its account xpub is read over PKCS#11 by
handle, and its spends are signed over TSB by name, the master's label and the
full path below it. Nothing but that label, that path and the token connects
the two. The bearer token of a TSB request comes from a `JwtProvider` the client
asks before every request; whether a backend has a taproot signer at all is
decided once, in `new`, by what the process environment holds by then, and the
only thing in the crate that loads a `.env` into it is `SecurosysConfig::from_env`.

### What is hard here, and what has to be right

* **PubMap.** The queue and the map are two structures updated together; one
  that drifted from the other would leak or evict twice. The FIFO is bounded on
  the argument that an account is looked up "right after it is derived"
  (`:109-114`), which has to survive other threads deriving leaves meanwhile,
  a handle that is recorded again and keeps its old place (`:205`), and a token
  that issues the handle of a dead object anew.
* **An xpub is read in two calls on two objects** (`:236-237`). Both halves have to
  come from the key the caller asked about, whether the pair is found in the
  map or by label after a restart.
* **Provisioning ignores the import's outcome** and goes by what is on the token
  (`:298-313`). The import may be rejected, lost, applied without the answer
  being received, or applied after the client has given up; other callers may
  import the same label; the token may hold a native master from a time when
  TSB was not, or only half, configured.
* **A vault is signed for by name.** What TSB derives from the label and the path has
  to be the key whose xpub PKCS#11 read, on every path through restarts, failed
  imports and changes of the environment.
* **The TSB client is shared, and its requests get lost.** What a call returns has to be
  for the key its caller named, a timed-out import may be applied later, and a
  token may expire at any moment.
* **The lazy load is not locked** (`:176-201`): several threads may open the
  library and resolve its symbols, one wins the `OnceLock`, and the losers'
  handles have to be closed without unmapping what the winner points into.
* **The environment has layers and an order**: the shell before the `.env`, but the
  preferred name of a variable before either; a `.env` that stops at a bad line;
  a value that stays for the life of the process.
* **The examples fail half-way**: a call that fails ends the program at once, with
  objects on the token or coins on the chain, and other processes may take its
  session.

`PROJECT.json` lists each of these hazards at its line, with the properties that
would catch it.

## 2. The modules

| Module | Contents |
|---|---|
| `Token` | SLIP-10 keys as (seed, path); labels as sequences of words, with `pub_sibling_label`; the token's objects and the effects of the calls that create and find them |
| `PubMap` | the bounded map as pure operators: `InsertPair` is `record_pair`, with the eviction loop; `WellFormed` |
| `SecurosysBackend` | the backend as a state machine over one token; extends the two above |
| `TaprootVault` | composes the backend with the taproot signer: a vault made of an account, signed for over TSB |
| `ImportOnce` | abstract specification of importing: a label gets one master, of a seed somebody asked for, and only a caller whose seed it is is told "ok" |
| `TsbClient` | the client and the broker, request by request; its imports implement `ImportOnce` |
| `InitOnce` | abstract specification of `ffi`: resolve once, share with all, fail only if entered before |
| `Ffi` | `ffi` in detail, for several threads and several backends of one process; implements `InitOnce` for each backend |
| `EcPoint` | the decoders of public keys, on the bytes a token or broker may answer with, over any curve with 32-byte coordinates |
| `Config` | the shell, the `.env`, and everything that reads them |
| `Slip10Probe`, `MixedSpend` | the two example programs |
| `MCSecurosysBackend`, `MCTaprootVault`, `MCTsbClient`, `MCConfig`, `MCEcPoint` | values of constants for TLC |
| `SecurosysBackend_proofs` | theorems about the map and the backend: types, evictions, keys |
| `TaprootVault_proofs` | theorems about registration with TSB and about the vault, on top of those of the backend |
| `TsbClient_proofs`, `Ffi_proofs` | theorems about the client and its imports, and about the load |
| `Config_proofs`, `EcPoint_proofs`, `Slip10Probe_proofs`, `MixedSpend_proofs` | theorems about the module each is named after |

### SecurosysBackend, action by action

Each PKCS#11 call, each TSB request and each hold of the mutex is one step of the
calling thread; the local code between two of them is part of the step.

| Action | Code |
|---|---|
| `Init`, `Restart` | `new` `:163-174`, with `from_env` (`tsb/mod.rs:319-345`): a signer only if URL and JWT are set and the HTTP client can be built; the other cases are logged and become `None` |
| `DeriveMasterKey` | `:347-361`: empty seed rejected, then import or native generation |
| `Import` | `import_slip10_master` (`tsb/mod.rs:183-212`), the outcome kept and not acted on |
| `FindPriv`, `FindPub` | the two `find_one` calls of `import_master_via_tsb`, `:300-313` |
| `Generate` | `C_GenerateKeyPair`, `:362-436`: two token objects under sibling labels |
| `DerivePath`, `Derive` | `:449-509`: the empty path returns the parent; otherwise two unlabelled session objects |
| `Record` | `record_pair`, and what its caller goes on with |
| `ReadXpub` | `read_xpub` or `master_fingerprint` of a master found by label |
| `LookupPub`, `ReadLabel`, `FindCandidate` | `pub_handle_for` `:256-278`: the map, else the label and its two candidates in order |
| `ReadPoint`, `ReadChain` | `build_xpub` `:236-237` |
| `HsmFault` | any PKCS#11 call fails, and `?` or the `rv` check returns the error |
| `Take` | the caller takes the result |
| `TsbApply` | the broker applies a request its client gave up on |
| `LoseSession` | the session is invalidated: session objects go, calls under way can only fail |

`call[t]` is the local state of thread `t`: where it is (`pc`), the handles it
holds and what it has read. `want` is the key the caller asked about; only
properties read it and the history variables. `age` counts the entries of the
map's queue that are behind the one this call recorded, and by how many more it
has been pushed back since. `outdated` is the set of mapped handles whose entry
is not about the object that now has the handle: the token has issued the handle
anew and the new pair is yet to be recorded, or a call whose session was lost has
recorded an old pair over it. `old` says that the map answered a call with such
an entry. `Sure` puts these together: what a call knows of its point when the
map could still answer it, and answered with an entry that is not outdated. An *account* call is `derive_path` followed by `read_xpub`
of the returned handle, the way the signer uses them.

`find_one` takes the first match; which object a token lists first is not
defined, so the model takes any. An EC point, a chain code and a fingerprint are
abstracted to the key they come from, so "the xpub mixes two keys" is visible as
`point # chain`. What bytes they come in is the subject of `EcPoint`.

### TaprootVault

It adds four variables to the backend's: the vault that a signer has published
(the account's name, path and xpub, and whether it was `Sure`), the label each derivation started from, the
labels for which `derive_master_key` succeeded with TSB configured, and the last
answer to a signing request. `TakeResult` is the signer taking what the backend
returned; `SignSchnorr` is `sign_schnorr` (`tsb/mod.rs:367-384`) with
`sign_key_name` (`:347-364`), answered by TSB from the masters registered under
the label. `RestartSigner` keeps the vault's descriptor over a restart of the
process. Authentication and lost answers are left to `TsbClient`, as a request
that is not answered signs nothing.

### TsbClient

| Action | Code (`tsb/mod.rs`) |
|---|---|
| `ImportSlip10Master`, `SignSchnorr`, `DerivedPublicKey` | the entry points `:183`, `:368` with `:128`, `:219`: what the request says |
| `Send` | `bearer()` and `send()`, `:115-117`, `:143-146`: the token is read when the request goes out |
| `GiveUp` | `send()` or `text()` fails: nothing is retried |
| `Receive` | the status is looked at first; an import ignores the body, the others decode it or return `TsbError::Decode` |
| `Refuse`, `ServeImport`, `ServeKey`, `ServeLate` | the broker, external |
| `Issue`, `Expire` | the authorization service, external |

The broker derives the key for a request from the request's own label and path,
whereas `want` keeps the label, path and digest the caller passed in. So a name
put together wrongly, or a body that is believed in spite of its status, is
visible in what the call returns. That the answer to a request reaches the
thread that sent it is HTTP's part (one blocking `reqwest` call per request) and
built into the model. Of a call that is answered only what the code still needs
is kept, and of one that is done its result.

### Ffi

A library handle is named by who owns it: the thread that opened it or the
backend whose `Ffi` took it over. `mapping` numbers the times the library was
mapped: `dlopen` counts references, so the library stays mapped while any
handle is open and is mapped anew after the last was closed. A pointer is the
number of the mapping it was resolved in. `Replace` is the drop of a signer with
its backend, which nothing may be borrowing, and the registrar's factory
building the next.

### EcPoint, Config and the examples

`EcPoint` is about bytes: points are sequences of 33 or 65 of them with the real
tags and lengths, and a `PublicKey::from_slice` that knows which of the sequences
are keys. The curve is a parameter: a set of x coordinates of 32 bytes, and for
each the two y's. secp256k1 is one value of it, `MCEcPoint` a small other one,
whose coordinates vary in their first and last byte. The state is one key and
what the two transports made of it.

`Config` reduces a variable to absent, accepted, rejected or not Unicode, and to
where it came from. `Checks` lists the early returns of `from_env`
(`config.rs:71-112`) in their order; `Dotenv` is what `dotenvy` does to the
process; `NewBackend` reads the TSB settings the way `new` does.

`Slip10Probe` has one step per PKCS#11 call of the probe: the two calls of
`C_GetSlotList`, the choice of a slot, the session, and the calls between
`Login` and `Verify`, any of which may `Fail` and end the process without its
clean-up. `Reap` is the HSM noticing that a process died; `Unplug` a token that
goes away.

`MixedSpend` has one step per call of `bitcoin-cli` and one for the signing
round. Every call may fail before (`Fail`) or after (`Lost`) it took effect, and
the program may be run again on what is left. Fleets are all sequences of
members, so that missing vendors and two members with one key are among them.

## 3. What the runs check

| Run | Question | Instance | Distinct states |
|---|---|---|---|
| `signing` | Does a native backend under two threads ever mix keys, or lose an account too early, also on a token that reissues handles? | 2 threads (symmetric), 6 handles, map of 2, an empty and a one-step path up to depth 2, one seed, up to 2 native masters, no TSB, `Reissue` | 4.17 million |
| `provisioning` | Is a provisioned master the seed's own, reloadable and TSB-derivable, and can the vault made of it be signed for? | 1 thread, 6 handles, map of 1, two labels with a seed each and the empty seed, all four environments, up to 2 native copies, a late import | 3.06 million |
| `concurrent_import` | And when two callers provision one label with two seeds, and does every call come back? | 2 threads, 4 handles, map of 1, one label without `.priv`, 2 seeds, all environments, a late import | 538 thousand |
| `ffi` | Is the race in the lazy load harmless? | 3 threads, 2 backends, 2 mappings | 9.6 thousand |
| `tsb` | Does each caller of a shared client get what it asked for? | 2 threads, 2 labels, 2 seeds under one of them, a master and an account below one label, 2 digests, 2 bearer tokens, a late import | 1.11 million |
| `ec_point` | Which bytes are read as which key? | 7 first and 3 last bytes of a coordinate, every length form, 4 lengths of a chain code | 3.7 thousand |
| `config` | Which value wins, and does an error name its cause? | all settings that differ from a plain one in 2 of 10 variables, a whole or a half-read `.env`, 1 edit | 1.64 million |
| `slip10_probe` | Does the probe leave the token as it was, wherever it stops? | 2 processes, 2 slots, 2 labels, 1 token that disappears | 215 thousand |
| `mixed_spend` | Does "passed" mean what the example says it shows? | fleets of up to 3 members, 3 vendors, 3 keys, 2 runs | 41 thousand |
| `native_then_tsb` | Does a duplicate import "proceed with the on-token key"? **No.** | see 3.2 | |
| `other_seed` | Is a master that an import refused as a duplicate returns still the seed's? **No.** | | |
| `evicted_account` | Is a still-needed entry never evicted? **It may be, and the xpub is then mixed.** | | |

### 3.1 The properties

There is one type invariant for each of the three components that have
theorems; the runs check it where the theorem covers other instances too.
Definitions whose comment says "Mutant" are altered forms of the definition that
follows them, each a plausible mistake in that code. `PROJECT.json` pairs every
property with one that breaks it, which shows that the run would notice.

The backend:

* `PubMapOK`: queue and map hold the same handles, each once, at most
  `PUB_MAP_CAP`.
* `PairsMatch`: a mapped handle that is a private key's and the handle it maps to
  are the two halves of one key, unless the entry is outdated. The token may
  issue the handle of a dead object again at any time, also while the map or a
  call whose session was lost remembers it; `record_pair` then has to replace
  what the map has, and eviction to take the right entry.
* `AccountResolves`: the argument of `:109-114` made exact. The account's entry is at
  the place its age says, as long as fewer than `PUB_MAP_CAP` entries are behind
  it. A new entry starts with none behind it; a handle that was already mapped
  keeps its place and starts with as many as there are.
* `XpubIsOwn`: the xpub that `read_xpub` returns has both halves from the key that was
  asked about, for a persisted master and for an account, unless the account's
  entry may have been evicted or the map answered with an outdated one (`Sure`).
* `MasterIsFromSeed`: a native `derive_master_key` returns the master of its seed,
  also under a label that holds another's; over TSB it returns a master of a
  seed that the label was used for, which need not be its own (3.2).
* `MasterReloads`: a persisted master found by its label always has a public key
  that the fallback finds, whichever way it was created.
* `TsbMasterDerivable`: a master returned while TSB is configured is registered
  with TSB under its label, though the code never looks at whether the import
  worked: what makes it true is that only imported masters have their public key
  under the private key's label, so a native one is turned down by `FindPub`.

The vault over both transports:

* `SchnorrVerifies`: a signature that TSB returns is by the leaf of the very xpub
  the vault was published with (of its chain code only, if the account's entry
  may have been evicted before the xpub was read).
* `ProvisionedSigns`: once `derive_master_key` has returned a vault's master with
  TSB configured, TSB never again answers "unknown key" for it.

The client:

* `TypeOK` includes that every request that was sent carries a bearer token.
* `AnswersOwnKey`: what a successful call returns belongs to the label, full path
  and digest its caller passed in.
* `DuplicateIsForeign`: who is told "already exists" did not create the label with
  the same call, since nothing is sent twice.
* `RefreshIsTransparent`: with a refreshing provider, in no step is a call refused
  for a token that had expired before the call began.
* `ImplementsImportOnce`: the refinement. The requests under way and the abandoned
  ones are `pending`; a call is asked, waiting, "ok" or "failed"; the broker
  registering a master is `Apply`.

The load: `PointersValid`, `NoHandleLeaks` and `ImplementsInitOnce` say that no
thread calls through a pointer into a library that was unmapped, that the open
handles are exactly those of loads under way and of published cells, and that
each backend's cell is set once and a call that finds it set does not fail.

The decoders:

* `WrappedRoundTrips`: every OCTET STRING form of a point, and a bare compressed
  one, is read as its key.
* `MisreadOnlyIfAligned`: the one way to read a *wrong* key, exactly: a bare
  uncompressed point (its tag 0x04 is also that of an OCTET STRING) whose x
  starts with 0x9e and ends with the tag of a compressed point. All other bare
  uncompressed points are refused.
* `SpkiIsOwn`: the SPKI of an uncompressed point gives its key, that of a compressed
  one an error.
* `ProbeAgrees`: what the probe's simpler parser can read, the backend reads alike.

The configuration:

* `FieldsAreLayered`: which variable and which layer each field comes from, also when
  half of the `.env` was lost.
* `TaprootAfterConfig`: a backend built after `from_env` sees the TSB settings of
  shell and `.env`.
* `ErrorNamesCause`: what an error asked for and the operator then set is never asked
  for again, so that repairing by the messages terminates. An error names its
  variable, save that of a path that does not parse (`error.rs:25-27`); the
  operator then sets the only path there is.

The examples: `ObjectsNeedSession` (what a probe has made exists only as long as its
own session is valid, wherever it stops and whoever takes the session),
`NothingPersisted` (in the end no object of a run is left, although failing runs
skip the clean-up), `EveryRunEnds`, and `PassedIsThresholdSpend` (a run that
passes has a confirmed spend of its own coin with one valid signature of each
vendor's cosigner; two members with one key do not pass).

Liveness: `EveryCallReturns` of the backend and of the client, `EveryLoadReturns`,
`NothingPersisted`, `EveryRunEnds`.

### 3.2 Where the comments and the code disagree

Shown by a run:

* `native_then_tsb`. `:284-286` says that if TSB rejects a duplicate but the key is on
  the token, the code proceeds with it. If that key was made natively, before
  TSB was configured, its public key is under the sibling label; `:310` looks
  under the same label only and the call fails, each time. (`TsbMasterDerivable`
  depends on that failure: accepting the sibling would return a master that TSB
  cannot derive from, which is the mutant of that property.)
* `other_seed`. `:345` says both ways of provisioning yield the byte-identical master for
  a seed. When a second seed is provisioned under a label in use, TSB rejects
  it as a duplicate; the code drops that error because *a* private key with the
  label exists (`:301`), and returns the first seed's master for the second.
* `evicted_account`. `:112-114` says that the bounded FIFO can never evict a still-needed
  entry. With other threads at work it can, and then the fallback (`:271`) does
  not fail: the account's label is empty, so is that of every derived public
  key, and the xpub gets the point of whichever the token lists first. With a
  capacity of 4096 this takes as many recorded pairs between one `record_pair`
  and its lookup; the run has a capacity of one.

Read in the code, and not run:

* `:253` says the *paired* public key is resolved; nothing stops a second native
  generation under a label in use (`:417`), and after a restart the first public
  key under the label is taken (`:271`). With one seed per label, which every
  run but `other_seed` and `concurrent_import` has, the two copies are the same
  key; with two, a reload may mix their halves, which `XpubIsOwn` is not asked
  about there.
* `:112-114` also says that what is looked up is among the most recent entries; a
  handle that is already mapped keeps its place in the queue (`:205`), which is
  why `AccountResolves` counts from that place.
* `:253` again: on a token that issues the handles of dead objects anew, the map can
  answer for the wrong object, in two ways. A thread that finds a new master by
  its label between `C_GenerateKeyPair` and `record_pair` (`:439`) looks its
  handle up before it is recorded, and gets the public key of the handle's
  former object. And a call whose session was lost after `C_DeriveKeyPair`
  still records its dead pair (`:510`): thread A derives (3, 4), the session is
  lost, B derives, is issued 3 again and records 3 -> 5, and A's `record_pair`
  makes it 3 -> 4. `outdated` follows both. Without the exemption for entries
  that A's late record made outdated, `signing` violates `PairsMatch` after 11
  steps, and `XpubIsOwn` after 18. `MapIsCurrent` (section 4) says that no other
  token makes an entry outdated.
* `tsb/mod.rs:28-31` presents the provider as what makes a refresh transparent;
  `from_env` (`tsb/mod.rs:334`) always builds a `StaticJwt`, so that a backend's
  own signer stops signing when its token expires. `RefreshIsTransparent` is
  about clients with a refreshing provider.
* `config.rs:67` documents an error for a variable that is malformed; `from_env` treats a variable that is set but not Unicode as missing where
  it is required, and as the default where it is optional (`:108`).
* `config.rs:71` drops every error of loading the `.env`, a bad line as well as a
  missing file.
* `slip10_probe.rs:123` promises the slot with the label "or else the first"; with a
  label set and no token of that label, `:140` stops instead.
* `mixed_taproot_spend_regtest.rs:145` says it spends everything; `:153` drains a wallet that knows only this run's
  coin: coins of earlier, failed runs stay at the vault's address. Its `:214`
  counts an error of the last query as "not confirmed".

### 3.3 Bounds, and why they are enough

* **Handles** (4 or 6) and `InOrder`. A real token has 2^64 handles. A handle that
  nothing remembers is as good as one never issued, and handles are only
  compared for equality, so `InOrder` makes the token choose the lowest ones and
  loses nothing. When no two are free the creating call can only fail, as on a
  full token. Six handles are three key pairs, a master and two children with a
  map of one or two: eviction and re-creation both happen.
* **Reissue.** `TRUE` (`signing`): the token issues any handle without an object, also
  one that the map has an entry for or that a call, with or without its
  session, still holds; with `InOrder`, the lowest for the private half and one
  of the next two for the public one, so that a handle comes back with another
  partner. `FALSE` (the others): only handles that this process does not
  remember. The theorems hold for either.
* **Cap** (1 or 2) stands for 4096; the smallest capacities make eviction happen
  within a few steps. The theorems about the map hold for every capacity.
* **MaxDepth** (1 or 2): the empty path, one step from a master, a child of a child.
* **MaxCopies** (1 or 2): native masters per label; two are what a crash after
  `C_GenerateKeyPair` and a retry leave. `concurrent_import` has one, which
  keeps it to two minutes; it was also checked with two (1.04 million
  states), with the same result.
* **MaxWire** (0 or 1): imports that may still be applied later. One is enough for
  an import to overtake a restart, a retry and a native generation.
* **MaxTokens** (2): a token that expires and one that replaces it.
* **MaxMappings** (2): one mapping to go stale and one to replace it.
* **MaxOdd** (2): what is wrong with the environment. The checks read one or two
  variables each, and a preference relates two.
* **MaxEdits**, **MaxUnplug** (1): one change of the `.env`, one token lost.
* **MaxSize** (3) is what the example requires, and smaller fleets are refused;
  **MaxRuns** (2): one run after what another left.
* Labels: one with the `.priv` suffix and one without are used, but never two with
  the same public sibling (`x` and `x.priv`): callers pass
  `emvault.v1.<name>.priv`. What is provisioned in every run but `other_seed` and
  `concurrent_import`, where a label has two seeds, meets `LabelsApart` of
  section 4.

`signing` uses symmetry between its two threads; it checks invariants only.
Deadlock is checked in every run but `slip10_probe` and `mixed_spend`, whose
programs really end.

### 3.4 Interleaving and fairness

Nothing in the backend or the client serialises their callers: they are `Send +
Sync`, take `&self`, and the backend receives the session as an argument. The
live tests note that the provider invalidates a session when another to the same
token is opened (`tests/securosys_live.rs:184-188`): callers that keep to one
session serialise their calls, and the model's interleavings include those runs;
for the others there is `LoseSession`.

`FairSpec` is weak fairness of each thread's own `Step`, one thread at a time: a
thread inside the backend keeps running, a PKCS#11 call returns (with an error
if need be, `HsmFault`), and an HTTP request ends, as the blocking `reqwest`
client times out after 30 seconds by default. No fairness is assumed of the
broker, of restarts or of callers, and none that a call succeeds. `Slip10Probe`
assumes the same of each process, and that the HSM eventually notices that a
process with a session died, without which a dead process's session objects
would stay.

## 4. What is proved

With TLAPS, for every value of the constants:

| Theorem | Module | Says |
|---|---|---|
| `InsertPairWellFormed` | `SecurosysBackend_proofs` | `record_pair` preserves `WellFormed` |
| `TypeCorrect` | `SecurosysBackend_proofs` | `Spec => []TypeOK` |
| `PubMapCorrect` | `SecurosysBackend_proofs` | `Spec => []PubMapOK` |
| `AccountsResolve` | `SecurosysBackend_proofs` | `Spec => []AccountResolves` |
| `MapPairsHalves` † | `SecurosysBackend_proofs` | `Spec => []PairsMatch` |
| `MapIsCurrent` †‡ | `SecurosysBackend_proofs` | the same without the exception for outdated entries |
| `MastersAreTheirSeeds` | `SecurosysBackend_proofs` | `Spec => []MasterIsFromSeed` |
| `MastersReload` | `SecurosysBackend_proofs` | `Spec => []MasterReloads` |
| `XpubsAreTheirKeys` * | `SecurosysBackend_proofs` | `Spec => []XpubIsOwn` |
| `MastersAreDerivable` * | `TaprootVault_proofs` | `Spec => TsbMasterDerivable` |
| `BackendOfVault` | `TaprootVault_proofs` | `VaultSpec => Spec` of the backend |
| `SignaturesVerify` * | `TaprootVault_proofs` | `VaultSpec => []SchnorrVerifies` |
| `ProvisionedVaultsSign` * | `TaprootVault_proofs` | `VaultSpec => []ProvisionedSigns` |
| `FfiTypeCorrect`, `FfiPointersValid`, `FfiNoHandleLeaks` | `Ffi_proofs` | the three invariants of `Ffi` |
| `FfiImplementsInitOnce` | `Ffi_proofs` | `Ffi` implements `InitOnce` for each backend |
| `TsbTypeCorrect`, `TsbAnswersOwnKey`, `TsbDuplicateIsForeign`, `TsbRefreshIsTransparent` | `TsbClient_proofs` | three invariants and an action property of `TsbClient` |
| `TsbImplementsImportOnce` | `TsbClient_proofs` | `Spec => ImplementsImportOnce` |
| `WrappedPointsRead`, `MisreadsAreAligned`, `SpkisAreOwn`, `ProbeAndBackendAgree` | `EcPoint_proofs` | the four invariants of `EcPoint`, for any curve with 32-byte coordinates |
| `FieldsLayered`, `TaprootLayered`, `ErrorsNameCauses` | `Config_proofs` | the three invariants of `Config`, for any shell and any `.env` |
| `ObjectsDieWithSession` | `Slip10Probe_proofs` | `Spec => []ObjectsNeedSession` |
| `PassedSpends` | `MixedSpend_proofs` | `Spec => []PassedIsThresholdSpend` |

**Assumptions.** `None` is no handle, object, seed, status or outcome of an import; the
capacity is positive (`CapAssumption`, it is 4096); what is provisioned is a pair
of a seed (or the empty one) and a non-empty label; the keys that callers of the
client name have a label and a path of naturals; thread and backend names differ
(`OwnersAssumption`); at least one bearer token is issued; the coordinates of the
curve have 32 bytes and the two y's of an x differ (`XsAssumption`,
`YsAssumption`); the provider has finitely many slots, one of them with id 0
(`SlotsAssumption`); `None` is no variable of the environment and no outcome of a
run. TLC evaluates each on the runs. Some theorems state a further condition,
which the code does not check:

* `LabelsApart` (*): no label is provisioned with two seeds, and a label's public sibling
  is neither a provisioned label nor the sibling of another seed's. Without the
  first, `other_seed` shows what happens; without the second, the label fallback
  cannot tell two masters' public keys apart: callers name labels
  `emvault.v1.<name>.priv`, which keeps siblings apart.
* `LabelsApart`, or `NativeOnly` (†): no environment the process may find has both the
  URL and the JWT.
* `NoReissue` (‡, `Reissue = FALSE`): the token does not issue a handle again that this
  process remembers. Handles of lost sessions stay in the map (`backend.rs:262`).

Nothing else that is said of the backend has a condition: types, the map,
evictions, which seed a master is of and whether it reloads hold for any labels
and any token.

**The backend's invariant.** `TypeOK` alone is not inductive: `Record` puts the call's
two handles into the map, so it needs to know that they are handles. `HeldOK`
says what a call holds at each point of its code. `WellFormed` of the map is then
preserved because `InsertPair` is the only way it grows; its proof follows
the eviction loop: the queue without repetitions, the pushed handle new, the
evicted ones exactly those in front. `AccountResolves` is inductive on top of
these three. A handle that is mapped already has the place `Behind` says
(`BehindPlace`), a new one the last; every later push moves an entry forward by
one at most, which is what `age` counts, and evicts at most the front, so the
entry `age` places from the end is still there while `age < Cap`.

**What is said of keys** comes in layers, each on top of those before it.

* `Sources`, without conditions. An object with a label is a token object and of a
  seed that was provisioned under the label or, if it is public, beside it;
  every labelled private key has a public one under its label or beside it
  (`StoreOK`). A call for a master holds handles of, and has read, masters that
  its label was used for, and its own seed's if there was no import (`MasterOK`);
  a reload holds a master that stays (`ReloadOK`). The steps fall into those that
  move one call and leave the token alone, those that create a pair at free
  handles, and the loss of session objects, which are never labelled.
* `Pairs`: an entry of the map that is not outdated has the halves of one key, and a
  call that is about to record holds such halves, unless its session was lost
  (`RecordsHalves`). Creating a pair at a handle outdates its entry, recording the
  pair brings it up to date, and a late record outdates it again. A call that
  found its pair by label needs `FoundIsOwn`: by `LabelsApart` whatever is found
  under a label, or beside it, has its key. Where TSB is never configured nothing
  is recorded that was found (`Native`), hence †.
* `Keys`: a call for an account, a leaf or a reload whose session is valid holds
  handles of the key it is about, and has read it, *unless* it is not `Sure` -
  that `AccountResolves` leaves no other way to miss the map ties this layer to
  the evictions.
* `Current`: on a token that reissues nothing that is remembered, no outdated entry
  is of a handle with an object. A session object of a lost session stays dead,
  since the call that holds its handle, or the map, remembers it.

**Registration with TSB** is `Imports`, on top of `Sources`: a public key under a
provisioned label itself (rather than beside it) came from the broker, with its
private half (`PublicsOK`). `FindPub` accepts nothing else, so a master that gets
past it is registered; nothing takes that away (`Stays`).

**The vault's invariant** says that an account call is about a path from the master
its caller named (`AccountsOK`), that the published xpub is derived from the
master provisioned under the vault's name (`VaultOK`), that what was signed is by
a leaf of it (`SignedOK`), and that provisioned labels stay derivable. A signature
is then by the right leaf because the key under the name is that same master
(`FoundIsOwn`) and deriving in two steps over PKCS#11 is deriving once over TSB
(`ChildOfChild`). The vault's steps are the backend's (`BackendOfVault`), so that
all its theorems carry over.

**The load's invariant.** `PointersValid` is not inductive either: it needs
`NoHandleLeaks` (a published cell means its backend owns a handle, so the
library has not been unmapped) and `Current` (every published cell
points into the current mapping, and a thread in a call keeps its backend's
cell set). The refinement is proved action by action from the same invariant.

**The client's invariant** has three parts beside the types, each about one call:
`Named` (the request is for the label, path and digest its caller passed in, which
the model keeps apart from the request; `NameParts` is the lemma that the broker takes a key name apart into what it was put together
from), `Fresh` (what had expired when the call began stays expired, and the
provider never returns it) and `Honest` (what the broker did, what it answered
and what the caller is told agree). A master, once registered, stays, so that
`Honest` survives every other call's step (`RegisteredOK`).

**The client implements `ImportOnce`.** `Pending` is the union of the late requests
and of those of calls under way; a step moves one call, so the proof splits it
into that call's request and the `Rest`. A step that does not move an import is
a stutter (`StaysPut`); the broker registering a master is `Apply`; an answer
other than that settles a request (`Settled`), which leaves `Pending` unless
another copy of it is there; `Receive` of an answered "ok" is `Succeed`, which needs
`Credit`: an import that was answered "ok" has its own seed under its label.

**The decoders.** The state is one key and what was read of it (`Answered`), so the
theorems come down to facts about strings of bytes. Points have 33 or 65 bytes
and an SPKI 23 more, so that of a compressed point is too short to be read. What
`from_slice` accepts is settled by length and first byte: a serialization of one
key is never one of another (`FromSlice` of it is the key), and what `Unwrap`
leaves of each form of answer has the length of a point in the right cases and in
no others. The one exception is worked out byte by byte: of a bare uncompressed
point 33 bytes are left only if the second byte is 128 + 30, and they are a
point's only if the last byte of x is a compressed point's tag.

**The configuration's invariant** is `Settings`. While nobody has edited the `.env`, the
process has the environment of the shell or, once `from_env` has run, the
layering of the two (`EnvOK`): `from_env` a second time changes nothing, since
what it set before it now leaves alone. `last` is what `Parse` makes of that
environment, so that fields are the layering's. What the shell sets, the process
has (`ShellOK`): a variable once repaired is accepted, and no early return of
`Parse` is about an accepted one (`ErrorIsCaused`).

**The probe's invariant** (`Sound`) is that no object is a token object and an object's
owner is the probe whose session is valid; whoever takes a session away, or ends
it, takes the objects with it.

**The spend's invariant** (`Runs`) follows a run: each check it has passed holds from
there on (`Progress`), because fleet, coin and signatures stay, and the chain
only grows (`PassedStays`).

**Only model-checked.** The liveness properties (`EveryCallReturns`, `EveryLoadReturns`,
`NothingPersisted`, `EveryRunEnds`): liveness under fairness is out of the
prover's reach. And `TsbMasterDerivable` where a label is used with two seeds
(`concurrent_import`): the theorem has `LabelsApart`. No module has recursive
operators.

## 5. What is not modelled

* The HTTP and JSON layers, attribute templates beyond class, label and lifetime,
  the formatting of labels beyond their suffix, hashes (fingerprints), the
  bytes of signatures and transactions.
* Signing over PKCS#11: `CKM_ECDSA` with a leaf's handle is the signer's call
  (emvault-pkcs11), of which this crate only names the mechanism.
* Destruction of token objects: nothing in `src/src` destroys one; the live tests
  and `taproot_probe` clean up after themselves. Session objects go with their
  session only, and how many a token can hold is a fault like any other.
* `taproot_probe` and the tests themselves: straight-line scripts against live
  hardware, from which the modules take how the backend is called.
* The registry, `Fleet` and the node behind the examples, beyond what they answer.
* `lib.rs` and `pkcs11/mod.rs`: re-exports and feature gates.
* `master_fingerprint` is `read_xpub` followed by a pure function of the point,
  so it is the same action.

## 6. Plan

Every component with logic of its own is modelled, and every safety property that a
run checks is proved. What is left is to prove `TsbMasterDerivable` and
`ProvisionedSigns` with only the second half of `LabelsApart`, as one label used
with two seeds does not seem to matter to them.
