# Verification of the Expo/Postgres agent harness

The repository is an installer that lays a template into a project and keeps it up to date. The template has two layers: a harness (gates, the runner that executes them, a ramp that decides when a new check becomes fatal) and an application (an Expo mobile app and a Postgres-backed server). This directory holds TLA+ modules of the parts that keep state or decide what ships, TLC runs over small instances, and TLAPS proofs of the properties that matter most.

Every definition is written from the code under `src/`; `PROJECT.json` names the lines it stands for (`map`), the hazards of the code and what covers them (`hazards`), and what each run shows (`runs`).

To check a run: `tlc -workers 2 -config X.cfg M`, with the module and cfg that `PROJECT.json` pairs. To check proofs: `tlapm M.tla` for `InstallerProofs`, `ValidateRunnerProofs`, `GatesProofs`, `SessionProofs`, `KeysetListProofs`, `HomeScreenProofs`, `ServerProofs` and `ListingProofs`.

Paths below are abbreviated: `installer/` is `src/installer/`, `tools/` is `src/template/base/tools/`, `mobile/` is `src/template/stack/apps/mobile/`, `server/` is `src/template/stack/apps/server/src/`.

## 1. The system

### Components

| Component | State it keeps | Operations | What is hard about it | What makes it correct |
|---|---|---|---|---|
| Installer (`installer/commands`, `lib/reconcile`, `lib/migrations`) | the project's files; `.harness/manifest.json`: a sha per file, module tags, modules, versions, mode; copies parked beside files | `init`, `update`, `update --refresh-seeded`, `enable`, `disable` | the manifest is read once and written once, at the end, so a crash leaves files ahead of it; people edit between and during commands; each command judges by shas that others recorded; releases remove, rename and promote | no text of the project is lost unless asked for; an untouched file always upgrades; the manifest never vouches for text people wrote |
| Gate runner (`tools/validate.mjs`) | the chain, the pool, the resource keys, the results | default run, `--report-all`, `--min-floor`, `--list` | children exit in any order; exclusive steps; a shared git lock; a config the agent may edit | exclusions hold, results in canonical order, floor not bypassed, always an exit code |
| Version ramp and stamps (`tools/lib/gate.mjs`, `installer/commands/graduate.mjs`) | `.harness/<gate>.ok` stamps, `baseVersion` | `rampNote`, `stampGate`, `skipOrFail`, `graduate` | a stamp outlives what it was taken of; a check is new, ramped and fatal in turn | CI never trusts a stamp; updates turn nothing red; the vintage advances only over clean projects |
| Screen gates and device lane (`check-route-manifest`, `check-mobile-perf`, `check-e2e-device`, `measure-startup`) | the manifest, flows and caps in git; what the app on the device shows | compare; open and time every screen | five places name one screen; a process that keeps an old verdict | a green lane has seen what it vouches for |
| Design gate and theme generator (`check-styleguide-manifest`, `gen-theme`) | the manifest and the generated tokens | generate, compare, scan | two texts that must stay one | what is reviewed is what is painted |
| Native surface gates (`check-expo-policy`, `check-native-deps`, `check-eas-update`) | stamps; reviewed lists and profiles in git | compare the resolved config with what was reviewed | inputs outside the stamp; chains of `extends` | a green says something of the tree as it stands |
| Mutation and vintage ratchets (`check-mutation-ratchet`, `mutation-scope`, part of `check-gate-integrity`) | the baseline, reports on disk, the manifest's history | mutate, `--write`, compare | a report of some files, or of an older tree | a record only tightens |
| Diff coverage (`check-diff-coverage`) | coverage maps on disk | find changed files, merge two maps, hold floors | maps that are lost, partial, or of two runners | no changed file is left unexecuted |
| Perf budget (`check-perf-budget`, `perf-subject-cli`) | the budget in git | scan effects, measure, measure again | noise, a second chance | the verdict is the truth while noise is bounded |
| Text gates (`check-sources`, `check-migrations`, `check-i18n`, ...) | none | scan texts against a list | texts that almost match | a drift is reported |
| Generators (`gen-*`, `build-check`, ...) | none | write derived text | none | output is a function of input |
| Session and API client (`mobile/src/lib/api-client.ts`, `auth/`, `host/`) | two credentials in the secure store | `apiFetch` with one retry, sign-in, sign-out, account deletion | every step awaits; nothing locks the store; the store may fail; the app may be killed | a sign-out sticks; one person's token is not used for another; no retry loop |
| Paged list (`mobile/src/features/matrix`) and `server/dal/notes.ts` | rows, cursor, status; the table | first load, `reload`, `loadMore`; list, create, remove | stale closures, aborts, answers after a reload, inserts that become visible late | order, no duplicate, no gap, no endless spinner |
| Home screen and toasts (`mobile/src/features/notes`, `components/Toast.tsx`) | the list query, the optimistic overlay, the draft, the queue of toasts | load, create, dismiss; the screen comes and goes | an answer against a list fetched in between; an answer after the screen is gone | a note is shown once; nothing goes without a word |
| Event stream parser (`mobile/src/lib/sse.ts`) | a text buffer | feed a chunk, end | a line, a CRLF or a BOM split between chunks | the same events however the text is cut |
| Other components, i18n, theme, probes | lookup tables, the answer of the last probe | render, format, measure | none | |
| Server pipeline (`server/app.ts`, `middleware/`, `auth/verify.ts`) | none across requests | guards in order, routes, streams, error envelope | what runs before authentication | a stranger learns nothing |
| Data access (`server/dal`, `db/client.ts`, `db/context.ts`) | pooled connections with a per-transaction user id | `withUserContext` and the five data routes | a connection another person used before; row locks; lost commits | one store per person |
| Server process and dev auth (`server/index.ts`, `auth/dev-auth.ts`, `auth/dev-token.ts`) | a listening socket, a pool; a key file | start, shutdown; mint, verify | requests in flight at a signal; who reads the file when | a clean exit has answered; a minted token verifies |
| Merges, packages, opt-in modules, self-checks | none | parse, merge, score, scan | none | |

### How they interact

The installer writes the gate scripts, the chain's config and the manifest. The runner executes the chain and knows the gates only as child processes. A gate reads the manifest's vintage to decide what is ramped and writes its own stamp. `graduate` runs the runner and rewrites the vintage. The mobile app's screens call `apiFetch`, which reads the secure store for every attempt and calls the provider to renew; the server authenticates the bearer and opens one transaction per request, in which row level security sees that user only.

## 2. Modules

| Module | Models | Proved about in |
|---|---|---|
| `Installer` | the five installer commands on one project | `InstallerProofs` |
| `GateChain` | what a run of `validate` promises (an abstract specification) | |
| `ValidateRunner` | how `validate.mjs` keeps it | `ValidateRunnerProofs` |
| `VersionRamp` | ramp, stamps, skips, `graduate` | `GatesProofs` |
| `Session` | credentials, `apiFetch`, sign-in, sign-out, deletion | `SessionProofs` |
| `KeysetList` | pages of the server and the hook that appends them | `KeysetListProofs` |
| `Sse` | the event stream parser and `streamApiSse` | `KeysetListProofs` |
| `HomeScreen` | list, optimistic create, composer, toasts | `HomeScreenProofs` |
| `UserStore` | what the API promises each person (an abstract specification) | `ServerProofs` |
| `Server` | how guards, transactions, pool and shutdown keep it | `ServerProofs` |
| `DevAuth` | the key file of stub authentication | |
| `Screens`, `Design`, `Native`, `Ratchets`, `DiffCoverage`, `Budgets` | the gates that hold a project together | `GatesProofs` |
| `Listing` | numbers in their order, medians, what a filter leaves of a sequence | `ListingProofs` |
| `TreeEdits` | how a working tree changes | |
| `MC...` | values of the CONSTANTS for TLC | |

Definitions named `Wrong...` are the definition that follows with one plausible bug in it. No specification refers to them: they show that a property would notice the bug.

Two MC modules put components that share no state beside each other: an initial state names the `area` that moves, and the others stand still. `MCKeysetList` has the list and the event stream, `MCGates` the version ramp and the six gate modules. The states are the sum of the areas', not the product.

### Installer

*State.* `disk`, `parked` and `touched` are the project; `rec`, `tag`, `mods`, `hv`, `mode` are `manifest.json`; `newRec`, `newTag`, `newMods` are the manifest a command builds in memory; `cmd` and `todo` are the command and the rest of its plan. A content is who wrote it and from which release; sha256 is taken to be injective, so a recorded sha is represented by the content it is the sha of. `touched` is history: what people changed since the installer last wrote it.

*Actions.* A command is `Start...`, one `...Step(p)` per file of its plan, and `Finish...`, which saves the manifest unless `--dry-run`. Between any two of them people may edit (`Edit`) and the process may die (`Crash`: what was written stays, memory is lost). The files of a plan are distinct, so `todo` is a set and TLC tries every order: that is more than the code does, and is what makes every part of a plan a possible crash state. `ClassifyDrift` is `reconcile.mjs` word for word; `StartUpdate`/`MigrateStep` are `migrations.mjs`, `SweepStep` the loop of `update.mjs`.

*Abstracted.* What a merge writes (`Merged`), which patterns of `.gitignore` are missing (either outcome), the text of a gate config (`steps`: up to which release steps were injected).

### GateChain and ValidateRunner

`GateChain` promises: steps are judged, in order unless every red is asked for; the exit code is green only when all were green; an exit always comes. `ValidateRunner` has the runner's loop: `SpawnSync`/`SpawnSyncReturns` for a serial step, `StartBatch`, `Launch` (one iteration of the loop in `pump`), `PumpReturns`, `Settle` (the callback of a child) and `Flush` for `runBatch`. `pumping` says that JavaScript is on the stack: no callback runs then, but children exit (`ChildExits`) at any time. `ImplementsGateChain` is the refinement, with `verdict` mapped to what each child came to.

### VersionRamp

One record `run` for a run of `validate` by the Stop hook (`local`), in CI, or by `graduate`. `HashInputs` and `CheckInputs` are separate steps, as in `stampGate`: the inputs may be edited between them. A gate's inputs are one of a few `Contents`, and a check is the set of contents it rejects, the release that brought it, and whether it is made before the gate asks for its prerequisite (`Static`). `edited` is history: gates whose inputs changed during the run.

### Session

Everything between two awaits is one step. A call goes `reading` (the token, anew for each attempt), `sent`, and after a first 401 `renewing` (the stored grant is read), `refreshing` (the provider is asked), `storing`, `storingGrant`, and back to `reading` with `attempt = 2`. A sign-in, a sign-out and a confirmed deletion are three `flow`s beside it. No step waits for a screen: the routes look at no credential (`_layout.tsx:56-58`, `sign-in.tsx:26-46`), and a deep link or going back opens any of them at any time, so a person can sign in over a session, and sign out while a sign-in is pending. One sign-in and one sign-out at a time is a bound (`pending` is a state of one mounted screen). Only the secure store survives `Kill`. The provider and the server are external: they answer, refuse or fail.

`torn` is history: a sign-out did not have the store to itself (a refresh or a sign-in was about to store, a delete failed and was swallowed, or the app was killed in between). Two properties are conditional on it, because the code gives no guarantee otherwise; what then goes wrong is the finding of `SessionSignOut`.

`session` is history too: the people whose session it is. A sign-out empties it. A sign-in leaves only the one who signed in, unless credentials of somebody else stay (`LeftOver`: their grant in the store, or a call that renews with it): then both are in it, because the next 401 may renew as either. `OwnRequests` is about the session in that sense.

### KeysetList and Sse

A note is the rank of its key `(created_at, id)`. `created_at` is the start of the inserting transaction, so `BeginCreate` gives out the key and `CommitCreate` makes the row visible later, possibly behind a cursor. `state` is the hook's state with all queued updates applied; `shown` is the state of the last render, which is what the closures on screen see; `Effect` runs the cleanup and the load once the reload is rendered.

`raced` is history: `loadMore` ran in a closure older than the state, or a loadMore that is not the latest outlived a reload. The order of rows is not guaranteed then (see "Deviations").

In `Sse` a text is a sequence of atoms: line ends, a BOM, a field name with its colon, a digit, a space, a NUL, other text. `ChunkArrives` cuts it anywhere. `feedSse` walks buffer and chunk as the code does, with a last CR deferred: `walk[i]` is the parser and the start of the line under construction once the atom i has been looked at. The reference reads the whole text by its lines and keeps no state: `LineEnds` are the places of the ends, `LineAt` is what stands between two of them, and an event is what the data lines since the last blank one, the last event line among them and the last id line ever say (`EventAt`, `EventsOf`). The decoding of bytes, which drops a BOM of its own before the parser sees one, is external.

### HomeScreen

`list` and `current` are the query and its controller, `load` the requests it has sent, those it aborted too; `rows` is the overlay, `post` the creates under way with `alive` for the hook that waits for them; `toasts` and `timers` belong to the root layout and outlive the screen. `Unmount` leaves creates on their way; their answers then find no hook and, if they failed, show a toast all the same. The server and other devices (`OtherCreates`, `OtherRemoves`) change `notes` at any time.

### UserStore and Server

`UserStore` is what a person may rely on: `Ask`, `Look` and `Effect` concern the caller's own store, an answer tells what happened there between the call and the answer, and only an error answer leaves open whether the call took effect.

In `Server` a step is what runs between two awaits. A request takes a slot and goes through `Arrive` (the guards before the first await), `Verified` (the token, the size, the route, the body), `queued`, `Begin`, `Bind` (`set_config`), `Run`, `Commit`. `user[c]` is `app.user_id` on connection `c`; no statement names an owner, `Visible` is the policies. Any await on a connection may `Fail`, a COMMIT may take effect and its answer be lost (`CommitLost`), the driver refuses what is not begun when the client is being closed (`Ended`). Streams tick, clients hang up, `Shutdown` drains against a timer, `Killed` takes everything with it. External: READ COMMITTED, the row lock of an uncommitted deletion (`Locked`; the second deletion waits, and passes over what is gone), the first-in first-out queue of the pool.

`ImplementsUserStore` maps each person's store to the rows with that owner, and a request to a call from the moment the guards admit it (`AbstractCall`).

### DevAuth

The key file holds the most recent keys. The route's signer and the verifier's key set are each loaded once per process; the process may be restarted in between while people keep its tokens, keys are made on the command line, and people may remove the file.

### The gate modules

Each has a tree that people change one fact at a time, up to a bound, and gates that judge it as it stands. Every list a gate compares is a set, a sequence or a function in the tree; the gate is a conjunction of its checks, in the code's words.

- `Screens`: files, manifest, allowlist, flows, caps; then the lane on a green tree: `OpenRoute`, `TimeRoute` (three cold starts, one of them disturbed, and their `Median`; or one that prints no time, and the lane is red), `PerfHarness` (which shows the verdict of a mounted harness again), and the phase run a second time with another bundle.
- `Design`: the manifest, `Rendered` of it, and the marks the scans find in each source. A colour is its luminance, the generated byte is half of it.
- `Native`: one field per file or place a gate reads; local runs, which a stamp may spare, and CI. `Declared` is `stamp-inputs.mjs`; a stamp is the set of what it is a digest of, empty while there is none.
- `Ratchets`: mutants of each file in source order, the rows of the baseline, a report that may be of some files or of an older tree, `Written` for `--write`, the lanes' scopes, `Merge`; and the vintages of the history.
- `DiffCoverage`: base, head, index and work tree with what tests execute of them (`Stage`, `Commit`), the maps on disk, two runners that count the statements of a file differently. `RunnerOf` reads the configs as the gate does, which is not always as the runners do: a mobile file at the top level has no runner.
- `Budgets`: effects as the pairs they register and tear down, feature directories, their subjects, and a measurement of three samples with one repetition.

## 3. Runs

The last column is distinct states and the time on two workers.

| Run | Shows | Bounds, and why they are enough | States |
|---|---|---|---|
| InstallerModules | `TagsFollowModules`, `WorkSurvives` over enable, disable, promotion, crashes, edits | 2 releases (one promotion), package.json and one module file, 2 edits, 1 crash, one text. A file's fate depends on its own row, record and text, and on command-wide flags; a second module file would repeat the first | 788 k, 15 s |
| InstallerUpdates | `PristineMatchesRecord`, `UnmodifiedUpgrades`, `UpdateSettles` over updates, refreshes, forced re-inits | 3 releases, so that a file can be two behind, be removed in the last, and a config be injected twice; one edit at any moment; no crash (see "Deviations") | 1.46 M, 40 s |
| InstallerRetrofit | `RetrofitKeepsTheirs`, `NoProjectTextRecorded` | one path per kind a retrofit tells apart, all combinations present or absent, dry or not | 67 k, 7 s |
| ValidateRunner | `ResourceMutex`, `ExclusiveRunsAlone`, `ResultsInOrder`, `FloorHolds`, `ImplementsGateChain` | 7 steps: exclusive ones at both ends of a batch and alone, a batch of 4 of which two share the git key, a lone read-only step; an edited config that drops, hollows, reorders and adds; pool of 2, so that a slot can be free with only blocked steps left | 5.8 k, 1 s |
| Session | `RetryNeverRepeats`, `SignOutSticks`, `OwnRequests`, `CallsSettle` | 2 people, a call beside a deletion, 3 mints: a sign-in, another over it, and a renewal | 2.7 M, 2 min 20 s |
| KeysetList | `ListIsWhole`, `EventsSurviveChunks`, `LoadsEnd` | 3 notes, pages of 1, so three pages; one reload; two loadMores in flight. Streams of 6 atoms in chunks of at most 2, over three alphabets: line ends with a BOM, ids, and types with retry times and comments. Six atoms hold two events, or one with a CRLF at both its line ends | 1.24 M, 1 min 10 s |
| Server | `IdentityIsScoped`, `StrangersLearnNothing`, `CleanExitAnswers`, `ImplementsUserStore`, `RequestsEnd` | 2 people, 1 note (so that everybody is after the same row), 2 connections. Two requests of any kind at a time, one of which changes a store, on connections either may reuse after the other; and a list by the other person that arrives only when the pool is full and one transaction waits for the other's row, so that a queue behind a full pool occurs. `Arrivals` in `MCServer` says which requests come when; it restricts clients, not the server | 163 k, 2 min 35 s |
| HomeScreen | `ShownOnce`, `PendingIsInFlight`, `NewestLoadShown`, `NothingVanishes`, `NothingLingers` | 2 notes on a page of 1, so that a created row and a fetched one differ or are the same; 2 loads and 2 creates under way, one of them of a screen that is gone; 2 toasts | 615 k, 2 min |
| Gates | one area each: `CITruth`, `GraduateSweeps`, `UpdatesDoNotAmbush`; `ScreensAreCovered`, `LaneVouches`; `PaintIsReadable`; `GreenIsCurrent`, `SurfaceAgrees`; `SurvivorsAccounted`; `FloorsHold`; `RenderBudgetHolds` | ramp: 3 releases, a gate that stamps and skips and one that does neither, 2 edits, so that one can fall between hash and check and one between runs. Screens: 3 facts, from one screen, from two, and from one beside chrome: a new screen takes three, and so does a swap that hides behind another entry. Design: 2 changes, one to break a rule and one to hide it. Native: one change of the scaffold, and two of an app that adopted EAS Update and tracks, which has more to break. Coverage: 2 changes of a clean tree or of one with a file edited, a top-level mobile file among them, with staging, commits and lanes between: one can be staged, taken back and left in the index, or edited, tested and lose its map. The others: 3 changes, with lanes between them | 2.17 M, 1 min 25 s |

Deadlock is checked except in `KeysetList`, `Gates` and `PolicyStamp`: with no reload left and the list complete the screen may really rest, and where the bounded number of changes is used up nothing is left to do. `ValidateRunner` stutters after `exit` (`Exited`); the others are never done.

### What the code does and the repository denies

Three runs expect a violation. Each checks one property that a comment or a test states.

| Run | Statement | What happens |
|---|---|---|
| SessionSignOut | `session.ts:16` "Drop the stored credential" | a refresh in flight stores its answer behind the sign-out's deletes (`entra.ts:180`, `193`); the store never fails in this run, and nobody signs in (`NobodySignsIn`) |
| DevToken | `dev-token.ts:25-27` "a minted token verifies end-to-end against the file this route just wrote" | the verifier keeps the key set it loaded for the first token it saw (`verify.ts:145-159`): a token of an earlier key, made by the process before a restart or on the command line, that is verified before the route mints its first leaves the process without the route's key |
| PolicyStamp | `stamp-inputs.mjs:1-4`: an input class missing from a gate's list means edits "could ride a stale green stamp locally" | `check-expo-policy.mjs` scans the app's sources for secret-shaped names (333-351), which are not in its list (`stamp-inputs.mjs:71`). CI does not read stamps and finds them |

### Deviations

Met while modelling. No run states them, because no sentence of the repository promises otherwise, or because an instance in which they occur would break an otherwise useful property.

Installer and ramp:

- `update.mjs:2-4` says "local drift is preserved with the incoming version parked", but a file without a record is classified `update-clean` (`reconcile.mjs:16`): an owned path that is new in a release, or whose conflict was parked at init, is overwritten. `WorkSurvives` is about text the installer can recognise (`Vouched`).
- `merge-claude-settings.mjs:5-6` says "never replacing an existing choice", but init records the merged file's own sha (`init.mjs:195`), so the next update takes it for untouched and writes the bare template.
- `cli.mjs:49-50`: graduate "refuses while any ramp NOTE remains", but a run whose only findings are ramped stamps the gate green (`check-licenses.mjs:183`); a second `graduate` meets the stamp, sees no NOTE, and advances. Latent while every ramp is at 0.1.0. `GraduateSweeps` is about gates that do not stamp.
- `init.mjs:51`: `--consume` clears `.github` under `--dry-run` too.
- `init.mjs:253`: `--consume` removes `tests/` after the copy loop has filled and recorded it. No path of an instance lies there.
- `init.mjs:56`: a bootstrap that dies leaves a `package.json` and no manifest; the next `init` detects a retrofit and treats the harness's own files as the project's.
- `update.mjs:169`: to an update, a file that a retrofit left out on purpose is just absent, and is created (`layout.mjs` withholds only the init-only exemplars).
- `migrations.mjs:123`: a release's removal deletes a file without a record, whoever wrote it (`Vouched` excludes it).
- `migrations.mjs:169` and `update.mjs:214`: an update that dies after injecting a config and before saving the manifest leaves the injected text unrecorded, and the next one skips it as already injected: it looks edited from then on. This is why InstallerUpdates has no crash.
- `migrations.mjs:222`: an injection goes into a gate config people have edited too, and the result is re-hashed, so the manifest vouches for their edits. A later `update --refresh-seeded tools/harness.config.mjs` finds the config untouched and overwrites them, where `update.mjs:5-7` says "park-on-drift when locally modified". Latent while `migrations.json` has no record. `MigrateConfig` does this in InstallerUpdates; `NoProjectTextRecorded` and `WorkSurvives` except configs, and no property catches it.
- `graduate.mjs:35`: the vintage is set to the release of the installer at hand, which may be ahead of the scripts. `UpdatesDoNotAmbush` assumes that it is not.
- `stamp-inputs.mjs:7`: neither the vintage nor the gate script is among a stamp's inputs, so a local stamp stays warm across a graduation or an update.
- `gate.mjs:182`: inputs are read for the digest and again for the check; an edit in between stamps text nobody checked. `CITruth` and `GraduateSweeps` except gates edited during the run.

Mobile app and server:

- `actions.tsx:158`: a deletion confirmed by one person and answered after another signed in drops the other's session; if it was refused with a 401 it is retried with the other's token. `OwnRequests` allows any person signed in since the call was made.
- `entra.ts:121-125`: a sign-in over somebody's session stores the access token before the grant. A 401 in between, after a crash in between, or if the response has no refresh token, renews with the other's grant, and the calls of whoever signed in are then made as the other. Nothing in the repository says what should happen, so no run fails on it: the states are in `Session`, and `OwnRequests` counts both as people of the `session` then. (With `session` left to the one who signed in last, TLC finds a call with the other's token in a few steps.)
- `MatrixList.tsx:45` says "loadMore itself single-flights repeats", but its guard reads the state of the last render (`useKeysetQuery.ts:106`): two triggers before a render send two requests for one page. `ListIsWhole` excludes what follows from it (`raced`).
- `NotesPanel.tsx:163`: a created row stays in the overlay until the screen goes; when another device removes the note, a reload does not take it away.
- `useCreateNote.ts:149`: a create whose answer was lost is told as a failure; sent again, it makes a second note.

Gates:

- `check-route-manifest.mjs`: a chrome file the router serves at a screen's URL goes unnoticed; no gate derives the URL of chrome. `LaneVouches` excepts such screens.
- `gen-theme.mjs`: contrast is computed before colours are rounded to bytes, so a painted pair may miss its ratio by the rounding.
- `check-expo-policy.mjs`: a production profile that inherits `distribution: internal` through `extends` passes; of several target SDK settings only the last counts. `stamp-inputs.mjs`: the list of native-deps has `plugins`, not `apps/mobile/plugins`.
- `check-styleguide-manifest.mjs:35`: the scans leave out all of `src/theme`, the files written by hand there too. `Sources` has none of them, and `PaintIsReadable` says nothing of them.
- `stamp-inputs.mjs:71`: the resolved config counts as an input in `Declared`, since its text is `app.config.ts`; the code of a local plugin that `expo config` executes (`apps/mobile/plugins`) is in no list. The model holds it fixed, so `GreenIsCurrent` says nothing of an edit there.
- `check-eas-update.mjs:184`: profiles in a cycle of `extends`, and those another profile extends, are not looked at for a channel.
- `check-mutation-ratchet.mjs:143`: an occurrence index counts surviving siblings only, so a reason may come to stand for a like mutant next to its own. A pull request that touches only tests runs no mutation lane, and diff coverage does not see it either.
- `check-perf-budget.mjs`: the cleanup of an effect begins at its first `return`, so after an early one what the body tears down counts; `RenderBudgetHolds` excepts early returns. A red may come of one measurement over for the mount and one over for the update.
- `check-diff-coverage.mjs:103-109`: `globToRe` wants a directory where jest's `**` matches none, so files directly in `apps/mobile/src` and `apps/mobile/app` (`TopLevel`) are held to no floor, whatever the config says; `check-diff-coverage.test.mjs:280-295` pins it as an oddity. `FloorsHold` excepts them.
- `check-diff-coverage.mjs`: files without statements pass unexecuted; run alone, on maps of an older tree, the gate speaks of those maps and not of the tree, and so does `FloorsHold` then.

## 4. Fairness

- **ValidateRunner**: `WF(Runner)`: the event loop never rests while it has work. `WF(Children)`: every gate is a command that ends. `validate.mjs` has no timeout of its own, so the second is an assumption about the gates, not something the runner ensures: a hung gate hangs the run.
- **Session**: `WF` of the steps of each call: every await of `apiFetch` comes back with an answer or an error. No fairness for people or kills.
- **KeysetList**: `WF` of React (what is queued is rendered, and its effects run) and of each request. No fairness for people or for other writers. `LoadsEnd` speaks of the list; the event stream is checked for safety only, and its behaviours are not bound to be fair.
- **HomeScreen**: `WF` of each load, each create and each toast's timer: a request ends with an answer or an error, an interval fires. Whoever reloads for ever keeps the skeleton, which `NothingLingers` allows.
- **Server**: `WF` of the steps of each request: the awaits of a handler come back. `SF` of `Unblock`: Postgres gives a row lock to whoever waits for it, although others may take it in between. `WF` of `Exit1`: the timer of a shutdown fires. No fairness for clients, signals, or a free connection as such: the queue moves because each holder's own request does.
- **Installer, VersionRamp, DevAuth, the gate modules**: safety only. A command may stop anywhere.

## 5. Proofs

### InstallerProofs

From `InstallerAssumption` (the shape of the layout and of releases; a path removed in a release does not come back; package.json rows are seeded) and nothing about sizes:

- `TypeCorrect`: `Spec => []TypeOK`. `StepTypes` treats a step on one file for all walks by way of `WriteFile`, `RemoveFile`, `Park`, `Record` and `Forget`.
- `RecordsAreNotProjectText`: `Spec => []NoProjectTextRecorded`. The property holds of the records in memory as well as of those saved, which makes it inductive on top of `TypeOK`: a save can only save what a step recorded. `StepRecords` shows for each kind of step that it records either a template, a merge, or what was already recorded.
- `ProjectWorkSurvives`: `Spec => WorkSurvives`. This needs one more conjunct of `IInv`: `WorkSurvives` speaks of the manifest on disk, a migration compares with the records in memory, and `MigrationsReadManifest` says that these agree for every file it has not reached yet. Then: where the code writes or deletes without `--force`, it has compared the text with a record; the record is not by people, so neither is the text. The files for which the code makes no such comparison are the ones `Vouched` leaves out.
- `TagsFollow`: `Spec => []TagsFollowModules`. A saved tag was a tag in memory, so `TagInv` follows those (`TagsInMemory`): each names a recorded file of a module that will be enabled, or of one being disabled whose files are still to do. `PlanFollowsModules` says why: the plan of a command is of the modules it will record, and a migration drops only those the release folded into the base.
- `RetrofitKeeps`: `Spec => RetrofitKeepsTheirs`, with `ConsumeBootstraps`: only a bootstrap clears what is there.
- `UpdatesSettle`: `Spec => UpdateSettles`, crashes included. `SettledSoFar`: the files the sweep is through with are recorded at the new text, or gone, or parked; `RecordsOnlyDropped`: until the sweep reaches a file, a migration has at most dropped its record.
- `PristineRecords`: `Spec /\ Undisturbed => []PristineMatchesRecord`, and `UpgradesUnmodified`: `Spec /\ Undisturbed => UnmodifiedUpgrades`. `Undisturbed` says that no command dies and none is `init --consume`, the two ways in which files and manifest come apart (see "Deviations"); everything else may happen, dry runs and edits in the middle of a command included. `PristineInv`: a command that writes keeps the records in memory in step with the files, a dry run leaves those of the manifest in step (`Matches`); and what the sweep will compare, the record the command read, is either still the file or the migrations have removed the file (`SweepMeets`).

### ValidateRunnerProofs

From `RunnerAssumption`, for every chain, every set of read-only gates, every assignment of resource keys and every pool size from 1 to 4:

- `RunnerInvariant`: `Spec => []IInv`. A child that has begun and is not settled is either of the batch or the one `spawnSync` waits for (`OneAtATime`); `busy` is exactly the keys of the batch's begun steps (`BusyIsHeld`), each held once (`HeldOnce`); they fit the pool (`HasRoom`). Each part is needed: without `BusyIsHeld`, settling one child might free the key of another; without `OneAtATime`, a batch could start beside a serial child.
- `ResourceMutexHolds`, `ExclusiveRunsAloneHolds`, `PoolBoundHolds` follow from it.
- `RunnerAccount`: `Spec => []Account`. What a step came to, what was told of it and what the exit code will be are three records of one run, and `Account` relates them: where the runner is in the chain (`Place`), that a result is what the step's child came to (`Told`), that without `--report-all` nothing red has been passed by (`Strict`), and what an exit code stands for (`Ended`).
- `ResultsInOrderHolds`: `Spec => []ResultsInOrder`. Results are appended as batches end, in the order of the chain.
- `FloorIsRun`: `Spec => []FloorHolds`. The chain that runs has the floor, whatever the edited config says (`HasFloor`).
- `KeepsGateChain`: `Spec => Chain!Init /\ [][Chain!Next]_(Chain!vars)`: the safety half of `ImplementsGateChain`, step by step. That an exit comes stays with TLC.

### GatesProofs

The ramp and the six gate modules, each of its own specification (`MCGates` runs them beside each other), for every value of the constants that the assumptions of the modules admit: any chain, number of releases, of files, of edits, of samples.

- `RampTypeCorrect`: `Spec => []TypeOK`.
- `CITruthHolds`: `Spec => []CITruth`. The end of a run says nothing of how it got there, so the invariant is `JudgedSoFar`: a CI run that is not red has, for every gate behind it that nobody edited since, the prerequisite and no live finding. An edit puts its gate into `edited`; an update or the end of a graduation, which change what is live, never fall into a CI run.
- `UpdatesDoNotAmbushHolds`: `Spec => UpdatesDoNotAmbush`. From `ToolsAreInstalled` (the scripts and `harnessVersion` are of one release): a check that is live after the update is not newer than the vintage, hence not newer than the scripts that were there, which would have found it.
- `GraduateSweepsHolds`: `Spec => GraduateSweeps`, by what `graduate`'s own run has seen so far (`SweptSoFar`).
- `ScreensAreCoveredHolds`: `ScreensSpec => []ScreensAreCovered`. The five places a screen is named in are compared in pairs; that together they leave no screen out is the argument (`GreenIsSo`).
- `LaneVouchesHolds`: `ScreensSpec => []LaneVouches`. A lane is a walk, so `LaneInv` says what it has seen, and timed, of the routes behind it (`SweptTo`, `TimedTo`, `AllSeen`); that one disturbed sample of three does not move a median out of the undisturbed ones is `MedianIs`.
- `PaintIsReadableHolds`: `DesignSpec => []PaintIsReadable`. A green says that the generated module is the manifest's, and that every themed pair keeps its ratio; `BytesApart` carries the ratio through the rounding to bytes, but for one step of the scale.
- `GreenIsCurrentHolds`: `NativeSpec => []GreenIsCurrent`. `NativeInv`: whatever tree has the inputs a stamp is the digest of, the gate passes over it, for what the gate decides is decided by these inputs (`InputsDecide`). It would fail for the whole of `expo-policy`, which is the finding of `PolicyStamp`.
- `SurfaceAgreesHolds`: `NativeSpec => []SurfaceAgrees`. What is to be shown is of the walk of `resolveField`: `AboveIs` (a climb of `extends` is a recursive function, which the proof shows to exist), `ResolvedIsOfLine` (what a field resolves to is what the first profile of the line that sets it says).
- `SurvivorsAccountedHolds`: `RatchetsSpec => []SurvivorsAccounted`. A report is compared by occurrence, so the argument counts: the n-th survivor of a kind is where the n-th row of that kind is (`NthGrows`, `RowsSuffice`); a history that never goes back has no vintage above the present one (`NeverBackIs`).
- `FloorsHoldHolds`: `CoverageSpec => []FloorsHold`. Merging the maps of two runners never lowers what a statement has (`MergingRaises`), so a green is of what the tests of the tree execute, or, for the gate alone, of what the maps it found say.
- `RenderVerdictHolds`: `BudgetsSpec => []RenderBudgetHolds`. The median of three samples, one of them disturbed, is no better or worse than an undisturbed one (`TimedMedian`); `PerfInv` says what a second measurement knows of the first.

### SessionProofs

From `SessionAssumption`, for any number of people, calls and tokens, with a store that may fail:

- `TypeCorrect`: `Spec => []TypeOK`.
- `NoRepeat`: `Spec => []RetryNeverRepeats`. The argument is `Tokens`: a token about to be stored is unseen, that is, nobody else stores it, the store does not hold it, and no call carries it or had it refused. So once a call has stored its new token, the refused one cannot come back to the store, and `Retries` can say of a second attempt that it will not find it there.
- `NothingLeft`: `Spec => []SignOutSticks`, and `NobodyElses`: `Spec => []OwnRequests`. Both rest on `Owned`: while sign-outs had the store to themselves (`~torn`), what the store holds, and what renewing calls carry, belongs to people of the `session`, and nothing is about to write while a sign-out is under way. `Joins` says that a sign-in puts nobody else into the session and leaves nobody out of it who has left a credential over; `Known` adds that a call under way knows of the whole session, `StubHasNoGrant` that the stub provider has no second credential to be left over.

### KeysetListProofs

From `KeysetAssumption`, for any number of notes, of reloads, of requests in flight and any size of a page:

- `KeysetInvariant`: `Spec => []Inv`. The parts: `Stage` (what a status of the hook allows), `FirstPage` (the first load, aborted or not), `Flight` (unless one raced, there is one loadMore in flight: it asks from where the rows end, and its page takes up there), `Ready` (the rows are in order, none twice, and of the notes that were there at the first load none is missing down to the cursor).
- `TypeCorrect`: `Spec => []TypeOK`.
- `ListIsWholeHolds`: `Spec => []ListIsWhole`. Pages are filters of the table in order, so this rests on `DescendingIs` and `KeepIs` of `ListingProofs`.

From `SseAssumption`, for any alphabets, any text and any chunks, empty ones included (`StreamSpec` is the stream alone):

- `StreamInvariant`: `StreamSpec => []StreamInv`. The property alone is not inductive: it does not say what the buffer holds, nor that the fields under construction fit the lines read. `State(b, bs, L)` is the parser that has read the lines L and has b in its buffer, every field of it a function of L. `Parsed(T, bs, p)` says that there is a cut s of the text T, past a whole terminator of which no second half can come any more (`Cut`), such that p is the `State` of the lines before s with the atoms from s on in its buffer, and that no atom from s on ends a line but a CR at the very end. The steps:
  - `StateGrows`: `applyLine` on the state of L is the state of L and that line. It rests on what one more line does to each part of the reference (`NamedGrows`, `ValuesGrow`, `EventsGrow`).
  - `NextLine`: past the first terminator after a cut the text has exactly one line more, the atoms between them, whether it was CR, LF or CRLF. `SameLines`: no line without a terminator.
  - `WalkIs`: by induction on the place, `feedSse` goes from cut to cut (`Reaches`). `FeedParses`: so a chunk takes a parser of the text so far to one of the text with the chunk, the BOM taken off once, also when the first chunks are empty.
  - `EndParses`: at the end the deferred CR is a line end, by feeding LF in its place.
- `EventsSurviveChunksHolds`: `StreamSpec => []EventsSurviveChunks`, because between the cut and what is decided of the text there is no terminator (`ParserIs`).
- `StreamTypeCorrect`: `StreamSpec => []StreamTypeOK`: an event has data, an id has no NUL, a delay is digits or absent.

### HomeScreenProofs

From `HomeScreenAssumption`, for any number of loads, creates, notes and toasts:

- `NewestShown`: `Spec => []NewestLoadShown`. `LoadShape` says what each state of a load allows; `HasLoad` that a screen has a controller. A load that counts is the current one, and a load that does not leaves the list alone.
- `ScreenInvHolds`: `Spec => []ScreenInv`. `RowsInv` is about the overlay: no two rows share an id (`OneRowEach`); a pending row is of a create whose hook waits, any other has an id the server gave out (`RowsStand`); a create that is waited for has its row, is the only one, and the id it was answered with is not in the overlay yet (`AliveStand`); the form is pending with it (`FormStands`). `PagesOnce`: no page has a note twice.
- `TypeCorrect`, `ShownOnceHolds` (`Spec => []ShownOnce`), `PendingHolds` (`Spec => []PendingIsInFlight`) and `NothingVanishesHolds` (`Spec => NothingVanishes`) follow from it.

### ServerProofs

From `ServerAssumption`, for any number of people, requests, connections and notes:

- `TypeCorrect`: `Spec => []TypeOK`.
- `Scoped`: `Spec => []IdentityIsScoped`. No two requests share a connection (`Apart`); a request has one exactly while its transaction is open (`Placed`), and that connection has no user until `set_config` and its own user from then on; one in the pool has none (`PoolIsClean`). `Apart` is what lets the end of one transaction clear its user without touching another's, `QueueWaits` what lets `Begin` take the head of the queue.
- `Guards`: `Spec => []StrangersLearnNothing`, by `Guarded`: what is past a guard has satisfied it.
- `CleanExit`: `Spec => CleanExitAnswers`, by `Served`: once the client is being closed, nobody who is still there is served.
- `Refines`: `Spec => ImplementsUserStore`. Each person's store is the rows with that owner, each admitted request a call. On top of `IInv` it needs `JInv`: deletions that have found their rows hold disjoint locks (`LocksApart`), so that when one commits the other's rows are still there, as `Effect` demands; an id being created has never been anybody's (`NewIds`), so that it is in nobody's `had`; and what a request has found agrees with how far it is (`Asked`), so that a deletion which had to wait has at least what it found and is not gone. Then each action is a step of `UserStore` or a stutter: `Verified` is `Ask`, `Run` and `Unblock` are `Look`, `Commit` is `Finish`, `Fail`, `CommitLost` and `Ended` are `Fail`, `Sent` is `Done`, the end of the process is `Stop`.

### ListingProofs

Lemmas the other proofs cite. The library's induction theorems take an operator as a parameter, which the installed provers cannot instantiate; well-foundedness of the order of the naturals is stated of sets, and gives the least number principle (`Least`) and induction for a predicate that is given as a set (`Induct`). From these: the members of a finite set of numbers in their order (`AscendingIs`, `DescendingIs`), what a filter leaves of a sequence and in which order (`KeepIs`), what one greater member adds to them (`AscendingAppend`), what is kept of an interval of places (`KeepInterval`), parts of parts and of joined sequences (`PartOfPart`, `PartOfJoin`), and the median of an odd number of samples (`MedianIs`, with `ValuesFinite`). This is why `Listing` defines filters and orders by sets of places and not by `SelectSeq` and `SortSeq`, whose operators nothing could be proved about.

### Only model-checked

- Liveness (`CallsSettle`, `LoadsEnd`, `NothingLingers`, `RequestsEnd`, termination in `ImplementsGateChain`) is out of this prover's reach.
- Every safety property a passing run checks is also proved. `PristineMatchesRecord` and `UnmodifiedUpgrades` are proved of undisturbed behaviours; with a crash they do not hold.

## 6. Not modelled

`PROJECT.json` lists each component with its reason. In short:

- Text gates scan texts against a list in one step and keep no state; what can be wrong in them is a text pattern, which a test reaches. Generators but for the theme's, doctor, prompts, i18n, probes and the harness's own checks read, print or compute text.
- Merges, the contracts, schema, importer and eval packages and the opt-in modules (but for the gate of eas-update) are pure functions of a text or a tree.
- `ConnectionStatus` probes every ten seconds with a timeout of three, so probes do not overlap; other components render.
- In modelled components: `--list` of the runner; envelope decoding and transport injection of `apiFetch`; the globbing and hashing of stamp inputs; the texts of merges; CORS, limits and log lines of the server; what a token is made of; the arithmetic of OKLCH and the scanners' regular expressions; the `fullyDrawn` caps of the startup budgets; branches and functions in diff coverage, which are held as statements are.

## 7. Plan

| Step | Modules | Abstract specification | Runs | Theorems |
|---|---|---|---|---|
| 1 (done) | Installer | | Modules, Updates, Retrofit | types, records, survival of work, tags, retrofit, settling, pristine files |
| 2 (done) | ValidateRunner | GateChain | one, with the refinement | exclusions, pool, order of results, floor, safety of the refinement |
| 3 (done) | VersionRamp | | in Gates | types, `CITruth`, `UpdatesDoNotAmbush`, `GraduateSweeps` |
| 4 (done) | Session | | one, and one violation | types and its three safety properties |
| 5 (done) | KeysetList | | one | types, `ListIsWhole` |
| 6 (done) | HomeScreen | | one | types and its four safety properties |
| 7 (done) | Server, DevAuth | UserStore | one with the refinement, and one violation | types, three safety properties, the refinement |
| 8 (done) | Sse | a reading of the whole text by its lines, `EventsOf` | with KeysetList | types, `EventsSurviveChunks` |
| 9 (done) | Screens, Design, Native, Ratchets, DiffCoverage, Budgets | | Gates, and one violation | each module's safety properties |

What is left is worth less than what is there: the type invariants of `DevAuth` and `Native`; the merges and the importer as operators checked against a reference definition; the text gates whose patterns carry a rule of order or uniqueness (`check-migrations`, `check-i18n`).
