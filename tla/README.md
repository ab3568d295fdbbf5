# TLA+ models of instancez

instancez is one Go binary that serves a Supabase-compatible backend from a
declarative configuration: a REST and RPC API over Postgres, authentication,
object storage, server functions, migrations and an admin API. Several
replicas may run against one database. These modules model what makes it hard:
statements of concurrent requests that interleave in the database, caches and
pools shared by goroutines, configurations that change under running
instances, and the pure algorithms (diff planner, validation, listing, ranges,
merging) that decide what those steps do. TLC checks them on small instances
and TLAPS proves what matters most of sessions, accounts, signing keys, the
function runtime, object storage, the API's requests, the engine and the file
watcher for every instance.

Source paths are relative to the repository (`adapter/...`, `app/...`,
`config/...`, `cli/...` stand for `internal/adapter/...` and so on); `build/x.md`
stands for `docs/site/src/content/docs/build/x.md`. `PROJECT.json` names the
lines each definition stands for, the hazards and the mutants.

## Inventory

| Component | State | Operations | Hard behaviour | What makes it correct |
|---|---|---|---|---|
| Refresh tokens and sessions (`adapter/auth/service.go`, `adapter/http/auth_handler.go`, `mfa_handler.go`) | `auth.refresh_tokens`, `auth.users` | login, step-up, refresh, sign-outs, password change, ban, delete | statements of several requests interleave under READ COMMITTED; lost responses; replays | one live token per line; reuse revokes; an honest client keeps its session; sign-outs are complete |
| JWT signing keys (`app/jwtkeys.go`) | `auth.jwt_keys`, a cache per process | `Active`, `Get`, reload, `RotateActive` | reload outside the mutex, several processes, clocks | live tokens verify, retired keys stop |
| Function runtime (`adapter/funcs/runtime.go`, `swap.go`) | worker slots, in-flight gate, restart goroutines | `Invoke`, restart, probe, `Close`, `Swap` | crash against restart against close, drain, hot swap | one restart per crash, no worker survives `Close`, calls return |
| Accounts: one-time tokens, OTP, PKCE, OAuth, identities (`auth_handler.go`, `admin_handler.go`, `oauth.go`) | `auth.users`, `auth.identities`, `auth.one_time_tokens`, flow states | sign up, log in, verify, recover, link, unlink, administer | check-then-act over statements, attempt caps, an allowlist or address that changes under a flow | a code opens one session; verified means proven; a user keeps a way to sign in |
| Multi-factor authentication (`mfa_handler.go`) | `auth.mfa_factors`, `auth.mfa_challenges` | enroll, challenge, verify, unenroll | caps under concurrency, time-step replay, promotion | caps hold, one use per code, guards hold when the row changes |
| Object storage (`storage_v1_handler.go`, `storage_list.go`, `adapter/s3`) | `storage.objects`, bytes | upload, move, copy, delete, signed URLs, listings | row and bytes commit apart; computed key ranges between pages | a row has its bytes; access is granted; listings are complete |
| Engine (`app/engine.go`, `drift.go`, `cli/serve.go`) | live configuration, drift status, extracted bundle | boot, reload, watch, save, fall back | several instances, one source; each call may fail | the live configuration is the last accepted one; no edit is lost |
| Migrations (`app/migrate*.go`) | `_instancez_migrations`, the schema | plan, apply, provision, heal, harden | the order of statements, the advisory lock, crash | the ledger matches the schema; plans run; data survives |
| Configuration sources (`config/source.go`, `include.go`, `cli/bundle_source.go`) | a file with includes, an S3 object, a bundle | load, write with a version, watch | edits between a read and a watch; links; directories made later | the last change is seen |
| Configuration rules (`config/loader.go`, `validate.go`, `sqlcheck.go`) | none | interpolate, expand, default, validate | rules that Postgres would judge otherwise, after the fact | what is accepted can be applied |
| REST and RPC, SQL editor (`crud_handler.go`, `rpc_handler.go`, `plan.go`, `middleware.go`, `adapter/postgres/pool.go`) | handler cache, pooled connections | read, write, call, count, explain, query | pooled session state, row waits, integer ranges, reload | a caller sees its rows; a write is all or nothing and says so |
| CLI, telemetry, cloud client, type generation, vet, templates, dashboard | | glue, I/O, generation | | not modelled |

Interactions. Every grant that issues a session (`Accounts`, `Factors`) goes
through `buildSession`, which stores a refresh token (`AuthSessions`) and signs
an access token with the key `Active` returns (`JWTKeys`); the middleware
verifies it with `Get` and gives a request its role (`Requests`). A document is
read and merged (`FileWatch`) and validated (`Rules`); the engine plans its
migration against the last one applied (`Planner`), applies it under the lock,
installs it (`Deploy`), rebuilds the REST handlers on the next request
(`Requests`) and has the function runtime swapped (`FuncRuntime`).

## Modules

| Module | What it is |
|---|---|
| `AuthSessions` | refresh tokens, sessions, and everything that issues, rotates or revokes them, statement by statement |
| `TokenLocks` | the row locks of those transactions, row by row, and Postgres's deadlock detector |
| `TokenLines` | what refresh tokens promise; `AuthSessions` and `TokenLocks` implement it (`ImplementsLines`, `LocksKeepPromises`) |
| `AuthSessionsProofs` | theorems about `AuthSessions`: its invariants, the refinement of `TokenLines`, what rests on it, and the modes of `MCAuthModes` |
| `JWTKeys`, `JWTKeysProofs` | signing keys: the table, one cache per process, rotation; theorems about them |
| `FuncRuntime`, `FuncRuntimeProofs` | the worker pool, its restarts and its drain, and the swap of pools; theorems about them |
| `Accounts` | accounts, mailed codes, OAuth and PKCE flows, identities |
| `Factors` | TOTP factors and challenges |
| `AccountsProofs` | theorems about `Accounts`, `Factors` and the two side by side |
| `Storage`, `StorageProofs` | object rows and bytes, policies, signed URLs; theorems about them |
| `Listing` | the two object listings over an ordered set of names, with a reference definition |
| `Planner` | the diff of two configurations and what its statements do to a schema |
| `Deploy`, `DeployProofs` | engines, sources, lock, ledger and faults, over `Planner`; theorems about them |
| `Rules` | reading and validating one document, and Postgres's verdict on it, over `Planner` |
| `FileWatch`, `FileWatchProofs` | includes, links, `.env`, and the file watcher; theorems about it |
| `Requests`, `RequestsProofs` | the REST and RPC API and the SQL editor over pooled connections; theorems about them |
| `MCAuthSessions`, `MCAuthModes`, `MCJWTKeys`, `MCFuncRuntime`, `MCAccounts`, `MCStorage`, `MCDeploy`, `MCRules`, `MCFileWatch`, `MCRequests` | the instances TLC checks |

`MCAccounts` composes `Accounts` with `Factors`, and `MCStorage` composes
`Storage` with `Listing`: each configuration puts one of the two to work.

In every module an action is one atomic step of the code: a statement or a
transaction step where the database decides, a critical section where a mutex
does, a call to the disk or the object store. Mutants of a definition stand
beside it, each marked `\* Mutant:`; nothing else uses them.

## Runs

| Run | Instance | What it shows |
|---|---|---|
| `auth` | `MCAuthModes`, `AuthModes.cfg` | one live token per line, answers that keep a session, bans, complete sign-outs, the refinement of `TokenLines`, an on-time client keeps its session |
| `auth_locks` | `TokenLocks`, `TokenLocks.cfg` | transactions that wait for each other in a circle cost one request its answer and no token's promise; every request returns |
| `auth_reuse_race` | `MCAuthSessions`, `AuthSessionsReuse.cfg` | the finding: a violation |
| `keys_one_process` | `MCJWTKeys`, `JWTKeysOne.cfg` | reloads against first use, rotation and verification, with failing statements; every request returns |
| `keys_two_processes` | `MCJWTKeys`, `JWTKeysTwo.cfg` | a retired key covers its tokens, and a manager that reloads after a retirement knows of it |
| `functions` | `MCFuncRuntime`, `FuncRuntime.cfg` | restart, drain, swap and shutdown, with liveness |
| `accounts` | `MCAccounts`, `Accounts.cfg` | any two of the account operations, any two of the factor operations |
| `storage` | `MCStorage`, `Storage.cfg` | any two storage operations, failures included; both listings |
| `deploy` | `MCDeploy`, `Deploy.cfg` | two instances, edits, saves, faults; histories of three migrations |
| `config_rules` | `MCRules`, `Rules.cfg` | 5053 documents, each read in both ways, against Postgres's verdict |
| `config_watch` | `MCFileWatch`, `FileWatch.cfg` | three edits of a project with links and nested patterns |
| `requests` | `MCRequests`, `Requests.cfg` | pairs of requests, pages at the edge of the integers, a reload |

### AuthSessions

`users` holds the columns of `auth.users` that decide anything here (existence,
ban, the password as a version); `rt` is `auth.refresh_tokens`; `req` is what
each server goroutine holds between two statements, `held` the tokens clients
have received with the session and level they were told, `clock` the time.
`NOW()` and the rows' ages are in ticks. Token and session names are numbers
in order of issue: their randomness is not modelled.

A request is a sequence of actions, one per SQL statement or transaction step,
as in the code. `ConsumeRefreshToken` is one transaction of several statements:
`RotateToken` (the guarded `UPDATE` with its row lock), then for a miss
`LookupParent`, `FindChild`, then `LoadUser`, `CommitRefresh`. A rotation that
has not committed keeps its row lock (`Locked`) and its child is invisible to
every other request. A `DELETE` takes its snapshot in `RevokeStart` and deletes
in `RevokeFinish`, when the locked rows are free: it re-checks the rows of its
snapshot and never sees rows committed since. That is READ COMMITTED as
Postgres defines it, and the finding depends on it.

`handlePasswordGrant` checks the password (one statement) and `issueSession`
stores the session (a later one); `handleVerifyFactor` steps a session up and
revokes its lower-level tokens; `handleUpdateUser`, `handleLogout` (scopes
local, others, global), `handleAdminSignOut`, `handleDisableUser` and
`DeleteUser` revoke. `RequestFails` covers a failing statement and a client
that goes away; where the code logs the error of a `DELETE` and answers as if
it had worked (`handleUpdateUser`, `handleLogout`, `DeleteUser`), the answer
"error" stands for that answer too. `Deliver` either gives the response to the
client or loses it.

The run `auth` has five modes, chosen in the initial state (`MCAuthModes`):

| Mode | At once | Last instant | Who |
|---|---|---|---|
| `races` | 2 | 0 | everything but password changes and bans |
| `bans` | 2 | 0 | logins, refreshes, factors and bans |
| `alone` | 1 | 2 | everything but factors, and a legacy token without a session |
| `late` | 2 | 2 | logins and refreshes |
| `honest` | 3 | 2 | three tabs that refresh on time, no factors and no administrator |

One user, three tokens, a grace of two ticks and a life of two. Three tokens
are a parent, its child and a competitor: a fork takes two children of one
parent; a reuse takes a parent, its child and the replay. Two concurrent
requests suffice for the races of pairs; the honest run has three tabs.
`races` and `bans` keep the clock still, since their races fit inside the grace period;
`alone` and `late` reach past the grace and the expiry, so both sides of each
comparison occur. Transactions last less than the grace period (`TxMax`): a
rotation open for ten seconds is outside the model. Deadlock is not checked in
that run, for a bound that is used up ends a behaviour.

Locks are coarser here than in Postgres: a `DELETE` takes all its rows in one
step (`RevokeFinish`), the prune of a rotation never waits for a row (`LoadUser`
removes what it may), and the deletion of a user and its cascade are one step
(`DeleteUserRow`). What that leaves out is who waits for whom, which `TokenLocks`
has.

### TokenLocks

The transactions of `AuthSessions` that take more than one row lock, with the
locks taken one at a time and kept to the end: the rotation (parent, the user's
row by the child's foreign key, then the prune's rows), the answers to a spent
token (the parent, then the prune's or the reuse's rows), a sign-out (the rows
its snapshot holds), the deletion of a user (its tokens; then, in another
transaction, the user's row and the cascade's rows). A statement takes its rows
in any order, as a scan may find them. `locks` is who holds each row, `req.at`
the row a statement waits for, `rest` and `dels` the rows of its snapshot it has
yet to take and has deleted.

Circles do occur. A rotation's prune waits for an expired row that a sign-out
holds while the sign-out waits for the rotation's parent; the `INSERT` of a
child waits for the user's row that a deletion holds while its cascade waits
for the parent; two deletions meet in opposite orders. Nothing in the code
orders the locks: only Postgres's detector breaks a circle, by failing one
statement that waits in it (`DeadlockDetected`, any of them). The run shows that
this costs one request its answer and nothing more: with locks taken row by row
the table still implements `TokenLines`, nothing of a deleted user stays, no
lock outlives its request, and every request returns. It does cost a sign-out
its effect: `handleLogout` drops the error and answers 204 (`TokenLocksSignOut.cfg`).

Fairness is strong, per request, of its own steps and of the detector taken
together: Postgres queues the waiters of a row, so a request that can go on
again and again does, and looks for circles for as long as someone waits. A
failing statement, a client and time owe nothing. One user, two requests (a
circle needs two), one session in the liveness run and two in the other, three
and four tokens, of which two may expire, in the order of their issue: so a
prune has a parent before it to remove. Levels, bans, passwords and rows without
a session are in `AuthSessions` only.

### JWTKeys

`keys` is `auth.jwt_keys`, `mgr` the fields of each `JWTKeyManager` (one per
process, and one more while the engine boots), `proc` the goroutines, `expiry`
the expiry of the last token each key signed (a history variable). The mutex
is held across statements only by `Active` on first use and by
`RotateActive` (`mu`); reloads query without it, and the generation counter
discards the ones a local write overtook. A waiting `Get` whose client goes
away is dropped. Key material and the JWKS document are left out. `Slow`
bounds how long a request lasts, in ticks; a key that a failed transaction
drops gives its number back.

One process: two goroutines, two keys (a rotation, and a first use that races
it), four instants, any statement may fail. Two processes: a goroutine each,
five instants, no faults. The horizon exceeds grace plus reload plus `Slow`,
the longest interval after which a retired key or a stale cache still matters;
the one-process run takes the miss interval (one second) as less than a tick. The liveness assumption is strong
fairness of each goroutine: one that can proceed again and again does. It is
what Go's mutex gives (a waiter is granted it after bounded barging) together
with statements that end; nothing makes a client give up or a statement fail.

### FuncRuntime

`rt` is each `Runtime` ever built (its slots, how far `Close` has come, the
in-flight slots it has drained), `wk` each node process with its probe and
restart goroutines, `cur` and `swapClosed` the `SwapRuntime`, `call` and
`reload` the goroutines of calls and of watchers. A call loads `cur`, takes a
slot of the gate, sends, and ends by an answer, a deadline or a transport
error, which asks for a restart of the worker, dead or not; a probe does too. A restart reaps, backs off,
spawns, waits for health and installs, giving up when its runtime closes.
`Close` drains, waits for the restarts and kills.

One pool of one worker, a gate of two, one goroutine that calls again and
again, one reloader, two runtimes and one fault (a crash, a hang, a broken
connection or a slow probe): the properties speak of one slot, of the two
actors that may replace its worker, a call and the probe an earlier one left
behind, of the two slots a drain takes one after the other, and of one swap.
Calls wait for the worker and not for each other, since a full gate refuses;
the safety properties are proved for any number of them. Fairness:
weak for calls, for each restart step and for drain, kill and close, which are
timers and code; strong for the health check, since a worker that starts again
and again is healthy eventually. Nothing makes a worker crash or a call arrive.
Payloads, headers, the bundler and the HTTP front are left out.

### Accounts and Factors

`users`, `ident`, `tokens` and `flows` are the four tables; a request holds
what it read. Each handler is its statements in order, so whatever may run
between two of them does: a second redemption of the same code, a resend, an
unlink, a deletion, a new password. Configurations choose the operations in
use and the switches (`allow_signup`, anonymous sign-in, `verify_email`,
`redirect_urls`); worlds are databases a deployment can be found in (empty,
unconfirmed, with codes out, with two identities, invited, banned). Mail
cooldowns are modelled by a token's age; rate limits by address are not.
Providers answer with any subject and address.

`Factors` has one user with two factors, two challenges, and any two of
enroll, challenge, verify, unenroll and the administrator's deletion, with the
time step moving on. Two requests are the pair each race needs; `MaxAttempts`
and `MaxChallenges` are small so that both sides of each cap are met.

Races its statements allow are marked in the state and
excused by name in the properties (`stale` accounts, the other unlink of a
pair); "Divergences" lists them.

### Storage and Listing

`rows` is `storage.objects`, `bytes` the object store, `lock` the row locks of
open transactions. An upload writes its row, then its bytes, then commits; a
removal deletes rows, commits, then bytes; a move and a copy hold the rows they
read. Every store call may fail, be torn or succeed and a commit may fail after it took
effect. Policies are sets of operations for everyone or for the owner, per
bucket. Two buckets of one object each, three configurations of operations, any
two requests.

`Listing` orders names as the listing's SQL does and pages through them with a
cursor, in both APIs, while one object comes or goes between pages; the
reference is the set of names and folders a reader expects. Universe: six
names over an alphabet of a letter in both cases, the slash and the character
after it, which is where the computed bounds bite; every bucket of these names,
every query. Fairness is weak, of the server's steps.

### Planner and Deploy

A configuration is tables (columns, keys, indexes, guards, policies with the
columns they use), functions, buckets and auth switches; a schema is what
statements made of it, each column with the history of its data (`was`).
`planStatements` is the planner: renames, drops, additions, alterations in its
order and its destructive gate. `Run` is Postgres, which refuses a statement
when what it refers to is not there, and, since the planner never says
`CASCADE`, when something depends on what goes: a key on a table, a column or
the only index that makes its target unique (`KeysInto`, `References`,
`KeysOn`), a policy on a column that is dropped or retyped (`Readers`) or on a
function. A new type must be one any value can take (`Castable`) and one its
keys can compare (`Comparable`). A transaction is a fold. Not modelled: stored
values (a cast that depends on them, nulls under `SET NOT NULL`, duplicates,
orphans), policies that read other tables, and triggers of the user's own.

`Deploy` runs engines that boot, apply under the advisory lock (one action: the
lock is held from the read of the ledger to the commit), provision, fall back,
heal, harden and report; a watcher that polls, keeps the last version it saw
and queues; dashboard saves with a version; edits outside; any call may fail
once and an engine may crash once per fault. Scenarios: one engine through
every history of three out of ten configurations, and out of another six; a
database left by an older release; two engines with an edit, a save and a
fault; a bundle with a fault. The configurations form one application's life
and are chosen so that every kind of statement depends on another: tables and
columns are renamed, retyped and dropped under policies, indexes and keys, and
in the six (`Moved`) keys come to live columns and leave them.

`SchemaFollowsLedger` compares the live schema with the configuration of the
ledger: tables, columns, types, nullability, indexes, guards, row security,
functions, buckets. Of keys it says what the planner does: a column's key is
that of some configuration that declared the column, since none is ever made,
changed or dropped on a live one; that it is the ledger's is `KeysFollowLedger`,
which fails (`DeployKeys.cfg`). `AcceptedPlansRun` looks at every migration
about to be attempted, by an engine or a save: when Postgres would stop it, the
statement it stops at is one of those its comment lists (`Explained`), each of
which some history meets: a key that the new configuration no longer declares
and nobody dropped; a key or policy that the same plan removes or replaces only
afterwards, which `RemovalsRun` denies (`DeployRemovals.cfg`); a policy a
rename left under the old name, which no later plan finds; a type that does not
fit. `NoEditIsLost` is a safety
surrogate of "edits are applied eventually": at rest nothing is skipped.

### Rules

One behaviour per document: read (three interpolations), expand, default,
validate, and, if accepted, the statements of the first migration judged by
Postgres. The documents are a small valid one and families that depart from it
in one section each (references, types, indexes, policies and their SQL,
functions, buckets, providers, templates, environment), read by `inz serve` and
by the development server. `Refused` is Postgres's verdict on keys, columns,
indexes (a method must have an operator class for the type), policies, and
functions (the types of arguments and results, which may be those of tables;
the body, as its language reads it when the function is made; the rows an sql
body yields are taken to be of the declared type). `LeftToPostgres` names what
validation leaves to Postgres, and the families have a document for each item:
targets that nothing makes unique, rings of keys, keys into `storage` or,
untyped, into `auth`; defaults and enums that do not fit; `double`; an index on
a type its method cannot index, or with a condition on no column; types that
functions name; plpgsql bodies; expressions beyond `checkSQLExpr`. Formats of
single values (URLs, sizes, durations) are valid or not.

### FileWatch

`disk` is edited at any moment; the kernel queues an event only for a watched
directory. The watcher handles an event, debounces, loads, merges, recomputes
what it watches (`refreshIncludes`) and emits. The project has nested
directories that may not exist yet, a link into another directory and a main
file that is itself a link. Three edits: one to be lost, one that hides it, one
after. `gap` marks the moments in which the watcher cannot see (a directory
that is made between the look at it and the watch on it; the start); nothing is
claimed after one. Link targets are not removed.

### Requests

A request passes the guards (key, bearer, role, profile, headers), takes the
handlers of the live configuration (`current`, with its rebuild), is parsed,
begins on a pooled connection with `buildSessionSetup`, runs one statement,
counts if asked, and commits, rolls back, or loses its connection before or
after the commit took effect. A table of two rows has the one policy
`owner = auth.uid()`; a write waits for a row another transaction has written
and then judges it again. Functions write or read, set `app.user_id`, are
stable or volatile; the SQL editor's buffer may hold its own COMMIT.

Instances: every pair of 25 requests on one and two connections over three
initial tables; every refusal alone; `offset`, `limit`, `Range` and `max_limit`
combined over the edges of an integer of four bits (`MaxInt` 7) with wraparound;
pairs around a reload. `HandlersAreFresh` speaks of every configuration that was
live since the request arrived, `ReadsChangeNothing` of the configuration its
function was looked up in. Only a call that returns rows has a page. Fairness is weak, of a request's own steps; that no
connection or row lock is kept is what `RequestsAreAnswered` shows. Filters,
embedded resources and column lists shape the text of one statement and are
left out.

`CHECK_DEADLOCK FALSE` appears where the bounds or the end of the traffic stop
the system; each of those configurations that can wait for something has a
liveness property instead, `Deploy` and `FileWatch` excepted, whose steps wait
for nothing but the lock, which is one action.

## Findings

`auth_reuse_race` is a run TLC finds violated; `PROJECT.json` has the quote.
Reuse of an old refresh token does not revoke the session when its live token
is being rotated at that moment: the `DELETE` waits for the parent's row and
never sees the child.

Further counterexamples are kept as configurations, each for one property
that a document or a comment of the repository states and the code does not
keep (`tlc -config <file> <module>`):

| Configuration, module | Property | Said | Done |
|---|---|---|---|
| `AuthSessionsPassword.cfg`, `MCAuthSessions` | `PasswordChangeSignsOut` | "signs out the account's other sessions" (build/auth.md:63) | a login that checked the old password stores its session after the change |
| `AuthSessionsHonestMFA.cfg`, `MCAuthSessions` | `HonestClientKeepsSession` | re-use "within 10 seconds (two tabs refreshing at once) is allowed" (build/auth.md:151) | a second tab's refresh during a factor verification is taken for reuse and revokes the session |
| `TokenLocksSignOut.cfg`, `TokenLocks` | `SignOutInvalidates` | "`signOut` invalidates the refresh token server-side" (build/auth.md:151) | a sign-out that Postgres fails, to break a circle of waiting transactions, answers 204 (auth_handler.go:630 drops the error), and the session lives on |
| `JWTKeysRotations.cfg`, `MCJWTKeys` | `RotationRetiresAll` | "Every previously active key is marked retired" (app/jwtkeys.go) | two processes rotate at once and leave two active keys |
| `JWTKeysIdle.cfg`, `MCJWTKeys` | `TokensVerify` | tokens "still verify until they expire" (app/jwtkeys.go:377) | a replica idle since a rotation signs with the retired key while it reloads |
| `StorageSigned.cfg`, `MCStorage` | `SignedUploadRespectsUpsert` | without `upsert: true` "returns a 409 error" (build/storage.md:82) | redeeming a signed upload always replaces (storage_v1_handler.go:1626) |
| `DeployPolicies.cfg`, `MCDeploy` | `BucketPoliciesEnforced` | "Bucket policies enforced by RLS" (build/storage.md:3) | a bucket's `_default_all` policy stays when the bucket gets policies of its own (migrate.go:1695) |
| `DeployKeys.cfg`, `MCDeploy` | `KeysFollowLedger` | "Define tables, fields, types, and foreign keys in instancez.yaml. Changes apply automatically" (build/schema.md:3) | a foreign key that an edit gives to a live column, changes or takes away yields no statement (migrate_config_diff.go:677), while the ledger records the edit as applied |
| `DeployRemovals.cfg`, `MCDeploy` | `RemovalsRun` | "applies any changes automatically" (build/schema.md:8) | an edit that drops a column and rewrites the policy that used it is refused: the policy is replaced after `DROP COLUMN` (migrate_config_diff.go:195) |
| `DeployTwoSaves.cfg`, `MCDeploy` | `NoEditIsLost` | "a newer SetConfig wins" (app/engine.go:306) | of two saves during one reload, the reload migrates the database back to the first after the second was answered |
| `RequestsSingular.cfg`, `MCRequests` | `NonSingularIsNotCommitted` | "callers must not commit" (crud_handler.go:1475) | a function call commits before its 406 (rpc_handler.go:197) |

### Divergences met while modelling

The models follow the code in each of these, and the properties excuse or do
not speak of them.

- Accounts: a magic link mailed to the old address marks the new one verified
  (auth_handler.go:727); a session below aal2 is lifted by a factor another
  request deletes (mfa_handler.go:142); two unlinks at once take both
  identities (auth_handler.go:2277); two requests may pass the mail cooldown
  together; a PKCE code may be exchanged twice (auth_handler.go:418).
- Functions: a call that loaded a pool just before a swap may be answered
  saturated; two development reloaders may install the older build last; a
  shutdown during a reload leaves the new pool's processes behind.
- Storage: `s3.Download` does not map a missing key to not found
  (adapter/s3/s3.go:844); a deletion or move that overlaps an upload removes
  the new bytes. The policy `<bucket>_default_all` that a bucket keeps from a
  time without policies (migrate.go:1695) is in `Deploy` and not in `Storage`,
  whose databases are those of one configuration.
- Deploy: a rename leaves policies and indexes under the old name
  (migrate_config_diff.go:87); a blocked configuration's storage is
  provisioned all the same; the fallback overwrites a configuration saved
  meanwhile (engine.go:230); a reload that has reached its migration takes the
  configuration of a save made since (engine.go:297), and applies it after a
  later save did; a save that fails after its migration strands the
  schema; a bundle's directory is read when the callback runs, not when it was
  extracted (serve.go:292); changes of a live column's key, default, enum or
  check are not applied (migrate_config_diff.go:677), so a parent cannot be
  dropped once its child has lost the key in the configuration; an index goes
  before the tables and columns whose keys rest on it
  (migrate_config_diff.go:48), and a column before the policies that are
  replaced; the type of a key and of its target change in two statements, each
  of which Postgres judges alone; removing a bucket's policies never disables
  row security.
- Rules: an untyped key to `auth.users.email`, `auth.mfa_factors.id` or
  `storage.objects.id` is accepted (validate.go:1469) and inferred as bigint
  (migrate.go:1268); a key to `storage.objects` fails on a fresh database;
  cycles of keys and keys to a column that is not unique pass; so do the types
  that functions name, `double`, a unique `json` column and a `gin` index on a
  type without an operator class (migrate.go:1213).
- Files: a fragment made between a look and its watch is missed until the next
  event; `.env` entries that are removed stay in the process.
- Requests: the total of a count is a second statement; the schemas a profile
  header may name are fixed at start (crud_handler.go:118); the statement
  timeout is that of the boot configuration; an editor buffer with a COMMIT
  keeps what precedes an error (build/sql-editor.md:14 says it rolls back); a
  function call ignores `tx=rollback` and `max-affected` (build/querying.md:476).

## Proofs

Each theorem holds for all values of the constants that satisfy the module's
named assumption (`SessionsAssumption`, `FuncAssumption`, `KeysAssumption`,
`StorageAssumption`, `RequestsAssumption`, `AccountsAssumption`,
`FactorsAssumption`, `DeployAssumption`, `WorldAssumption`), which TLC evaluates
in every run of the module. The invariants were checked by TLC on the module's run before they were proved.

| Module | Theorem | What is proved |
|---|---|---|
| `AuthSessionsProofs` | `TypeCorrect`, `NoForkHolds`, `BannedGetsNothingHolds` | types; no two unspent tokens of a line; a request that began under a ban that lasted answers with no session |
| `AuthSessionsProofs` | `TableImplementsLines`, `AnswerKeepsSessionHolds`, `DeletedUsersAreSignedOut` | `AuthSessions` implements `TokenLines`; an answer keeps user, session, level and password proof; nothing of a deleted user stays |
| `AuthSessionsProofs` | `RevocationsAreCompleteHolds`, `OnTimeKeepsSessionHolds` | the modes of the run, any users, requests, ids and times: what a sign-out, ban, password change or reuse that races with none names is gone when it answers; clients that refresh on time keep their session |
| `FuncRuntimeProofs` | `TypeCorrect`, `CrashIsRepaired`, `CloseSparesRunningCalls`, `RuntimesAreOwned` | at most one restart per worker, which one that failed in a slot always has; `Close` kills under no call unless its timer fired; no runtime is lost by reload or shutdown |
| `JWTKeysProofs` | `TypeCorrect`, `ActiveVerifiesHolds`, `GraceCoversTokensHolds` | any number of processes, faults included: `Active` signs with a key its own `Get` accepts; the grace covers what a key signed before its retirement |
| `JWTKeysProofs` | `OneProcessAgrees`, `OneProcessRotates`, `OneProcessVerifies` | one process: one key in use; a rotation retires all others; live tokens verify |
| `JWTKeysProofs` | `RetirementIsTimelyHolds` | any number of processes, no failing statement: a manager that reloads knows of a retirement |
| `StorageProofs` | `TypeCorrect`, `AccessIsGrantedHolds`, `RowAndBytesAgreeHolds` | a row lock has its owner; who reads bytes or changes rows may; rows and bytes agree |
| `RequestsProofs` | `OwnRowsOnlyHolds`, `WritesAreAllOrNothingHolds`, `ReadsChangeNothingHolds` | any requests on any connections: only rows of the token's user are met; a write is kept whole or not at all and says which; what only reads writes nothing |
| `RequestsProofs` | `HandlersAreFreshHolds`, `PagesAreRangesHolds` | a table that stays configured is served around reloads; pages are exact for integers of any width |
| `AccountsProofs` | `TypeCorrect`, `OneTimeTokensHold`, `VerifiedMeansProvenHolds`, `SessionsLandHomeHolds` | `Accounts`, any requests over any well-formed database: references name rows that exist; a mailed code opens one session; a verified address was proven; sessions stay within the allowlist |
| `AccountsProofs` | `SignupDisabledHolds`, `UnlinkKeepsMethodHolds` | with sign-up off only administrators make accounts; one unlink keeps a way to sign in |
| `AccountsProofs` | `FactorsTypeCorrect`, `CodesAreSpentHolds`, `FirstFactorOnlyHolds`, `UnenrollNeedsAAL2Holds` | `Factors`, any calls, factors and challenges: no orphan challenge; a TOTP code lifts one session, challenges stay under the cap; below aal2 only a first factor is verified and none that is verified goes |
| `AccountsProofs` | `CodesOpenOnceHolds`, `MethodsAreGuardedHolds` | the same of the composition the run `accounts` checks |
| `DeployProofs` | `TypeCorrect`, `EditsAreNotLost`, `NoEditIsLostHolds` | any configurations, instances, edits, saves, faults and crashes, whatever the plans do: a watcher skips nothing; instances that have caught up serve what the database was migrated to, without exception when at most one save is made |
| `FileWatchProofs` | `WatcherKnows`, `EditsAreSeenHolds` | any project and any edits: a watcher that could look misses no difference; at rest the engine was given what the disk holds |

`AuthSessions`. `NoFork` is not inductive: it says nothing of a rotation in
flight. `IInv` adds that a rotating request holds the lock of a parent that is
still unspent and a child nobody else sees (`RotationsOK`), that two rotations
in flight have different parents and children (`RotationsApart`), that a
request about to answer names a stored token (`AnswersExist`), that the
snapshot of a `DELETE` contains stored rows only (`TargetsOK`), and that a
row's root is stored or spent (`RootsExist`). The argument: a second rotation
of the parent is refused while the first holds its lock and, after the commit,
by the `revoked_at IS NULL` guard; a `DELETE` cannot remove a locked row.
`BInv` strengthens the ban property with what each program counter knows of the
ban.

`TokenLines`. The table changes in four ways (`TableStep`): rows are deleted,
a login inserts one, a rotation commits, nothing. Each maps to a step of the
abstract lines under `IInv` or stutters. `SInv` says that the tokens of one
session agree in user and password proof, and what each request has proved of
the token it was given. `DInv` adds that every uncommitted row is a rotation's:
the cascade of a deletion waits for the rotation's lock, and the foreign key
refuses rows that come late.

The modes. A step of any mode is a step of `Next`, so the invariants above hold
in each. `AloneInv` (mode `alone`) says that at most one request is not idle,
that a `DELETE` under way has named every row it must remove and that none is
left when it is done (`Deletions`), and which scope each operation passes
(`Signs`): nobody else inserts a row between the snapshot and the answer.
`HonestInv` (mode `honest`) follows the clock. Each line has an unspent token
(`HonestRows`), which expires no sooner than a lifetime after any of its line
was spent (`Renewed`); what a request presented is unspent or in its grace by
the request's own time, and the unspent token has not expired by then
(`Timely`), so the lookup finds a child and no reuse is declared. It rests on
two hypotheses of the theorem: a refresh commits within the grace
(`TxMax < Grace`), for the grace runs from `NOW()`, the start of the rotation
that spent the token; and a token lives at least as long as the grace
(`Grace <= Life`), or its child has expired when the second tab asks. Both are
limits of the environment and the configuration that the code does not check.

`FuncRuntime`. The properties speak of slots; `IInv` ties each slot to the
restart of its worker (`SlotsOK`, `WorkersOK`), says that a replacement is its
restart's alone until it is installed, so nothing calls, probes or restarts it
(`NextsOK`), that in-flight slots and drained slots fill the gate (`DrainsOK`),
and who holds each runtime that runs (`OwnersOK`). Calls in flight are counted
with cardinalities of finite sets.

`JWTKeys`. `KInv` holds for any number of managers: what a reload's snapshot or
a cache says of a key is what the table says, or said before the key was
retired (`SnapOK`, `CacheOK`); the holder of the mutex is alone, and the
generation of a reload that a local write overtook differs. `OneInv` adds, for
one process, that a rotation has read all keys in use and first use saw none.
`TokenInv` dates the tokens: what a retired key signed expires before its grace
ends. `LearnInv` says what a snapshot or a cache loaded after a retirement
knows. The hypotheses are the code's limits and not of the proof: `OneProcess`,
as `RotationRetiresAll` and `TokensVerify` are false with two
(`JWTKeysRotations.cfg`, `JWTKeysIdle.cfg`); `Slow <= Leeway`, since a request
that lasts longer between reading the key and signing outlives the leeway;
`~Faults`, since a failed reload stamps `loadedAt` without data.

`Storage`. Each action is one of eleven kinds of step (`Quiet`, `Locks`,
`Stores`, `Abandons`, `Commits`, `Deletes`, `Wipes`, `Records`, `Presigns`,
`ClientPuts`, and a key rotation); `StepKinds` shows it once, and the
invariants are proved from the kinds. `AccessInv`: a row is locked exactly by
the request that has written it (`LocksHeld`), and what was found when it was
locked still holds (`GrantsStand`), since nobody else writes a locked row.
`AgreeInv`: between its two steps a request knows one half of the key (the
bytes are those of the row it will commit; the row is gone while the bytes
remain, `HalvesKnown`), the source of a copy keeps its row (`SourceStands`), and
two requests that meet outside the row lock are excused (`ClashesKnown`). The
argument: on a key that is not excused a request that works without the lock is
alone, so what another has half done is left as it is (`Undisturbed`).

`Requests`. `ReqInv` says of each job what its program counter entitles it to:
a job that is inside passed the mount's guards, so its token is not a bad one,
and one that runs has the role and user of that token, whatever the connection
was left with (`SessionOK`); its configuration was live after it arrived
(`ServedOK`); what only reads has nothing pending (`SilentOK`); a change counts
what it has pending and is kept only if its checks pass (`CountedOK`); a page
is what was asked for (`PagedOK`). Every action is one of nine kinds of step of
one job (`Acts`), shown once, and each part is kept by each kind.
The arithmetic of pages is a chain of lemmas: a sum of two ints wraps at most
once (`WrapsOnce`), so `addSat` saturates (`AddSaturates`); the bounds
`intersectRange` computes hold exactly the positions asked for below `MaxInt`
(`PageIsAsked`), `max_limit` keeps the first of them (`CappedPage`), and the
guard, which saturates what it cannot parse, refuses nothing more
(`GuardRefuses`).

`Accounts`. The statements are described once each, by what they do to
their request (`HandlersAdvance`), to codes and flows (`Stores`: rows go, one
comes with the next id, or one ages or spends an attempt), to accounts
(`KeepsRows`: one row is updated, made or deleted, and vouched for if it is
verified), to identities (`KeepsIdent`) and to the right to answer for a code
(`Answers`); each part of `AccountsInv` follows from the kinds. Once-only codes
rest on `HoldersOK`: ids are handed out once (`IdsOK`), the `DELETE` gives a code
to one request, and a code that is held or has opened a session is in no table,
where it never comes back (`TakenStays`). An address outside the allowlist is
carried only by requests that have yet to judge it (`AddressOK`); an account
about to be made was allowed to be (`MakerOK`), since the configuration does not
change under a request; whoever may unlink has counted two identities or found a
password, which no request takes
away while the row is there (`UnlinkOK`). The assumption on the
databases to start from (`WellFormed`) is what the schema's keys enforce.

`Factors`. A verification that has passed `ConsumeTOTPStep` holds its step; a
step that is held or spent is not ahead of the factor's last one, or the factor
is gone for good, so no second call can consume it (`SpentOK`). The cap is kept
by the count under the factor's lock (`CapsOK`, with cardinalities). While a call
below aal2 is on its way to promote an unverified factor no factor is verified
(`FirstOK`): the one that becomes so deletes the unverified ones in the same
statement. `MCSpec` implements both specifications, as each of its steps is a
step of one and a stutter of the other.

`Deploy`. The property speaks of rest, so the invariant says who still has to
move. `LedgerOwed`: unless a save stranded its migration, some instance owes the
ledger something (`Owes`): it is not done and so will migrate or report drift;
its watcher has an event queued, or has read just what the ledger says; it took
that in itself; or it carries the save that wrote it. A migration is the only
step that changes the ledger, and `AttemptOK` says that what an engine migrates
to comes from its watcher, from its boot or from its save, so it takes over the
debt (`ApplyKeeps`); a crash owes by being down. `WatcherOK` is the half of one
engine: what it took in or has queued is what its watcher recorded or, for a
bundle, what lies under the name it recorded. What the plans do to the schema
plays no part, except that they end in a verdict. `saves <= 1` is the code's
limit (`DeployTwoSaves.cfg`): two saves are not serialised with the reload
between them; `EditsAreNotLost` holds for any number and excuses an engine whose
last change was such a save.

`FileWatch`. `WatchInv` says what the watcher knows while nothing has happened
where it could not look. `Known`: a disk that differs from what was emitted is
announced (`WillRead`): the reload is armed or under way, or an event in the
queue is one the watcher will take for a change. The patterns it works with are
those of the main file, or it will look again (`WillLook`). `Covered`: every
directory on the way to a pattern that exists is watched or about to be, and so
is the directory of each link's target; or a new directory is in the queue
(`Made`), whose event has the watcher look again and arms the reload before it
is matched (`MatchOK`). An edit of a covered file is therefore either announced
or of no file that is read (`UnseenChangesNothing`); a directory that goes is
announced after its files; the steps of the watcher hand the debt from the
queue to the timer, from the timer to the read. What a document merges to
plays no part but for being a function of the files read (`SameSources`). The
assumption is about the world: files are finite in number, each file and
pattern lies in a directory of the project, and a link leads to a file that is
no link.

Only model-checked:

- liveness (`RequestsReturn` of `TokenLocks` and of `JWTKeys`, `WritersReturn`,
  `RuntimeMakesProgress`, `RequestsAreAnswered`), which needs fairness, and with
  it the rest of `TokenLocks`, where circles of waiting requests are computed;
- `Rules`, `Planner` and `Listing`, `MergeIsFaithful` of `FileWatch`, and of
  `Deploy` what the plans do (`SchemaFollowsLedger`, `AcceptedPlansRun`,
  `DataSurvives`, and the two that fail): they compute over configurations, names and entries with
  folds and recursive functions, and what those compute for every input is an
  induction over data.

## Not modelled

The command line's flags and output, telemetry, the cloud client, type
generation, vet, templates and the dashboard keep no state a property would
relate. Of modelled parts, what is left out is said in each section above and
in the notes of `PROJECT.json`: key material, rate limits by address, CORS and
logging, image transformation, the text of filters, embeds and SQL, the
embedded Postgres process, the unpacking of bundles. Isolation is READ
COMMITTED throughout (`adapter/postgres/pool.go`); failover of Postgres is
outside. Liveness of `Deploy` and `FileWatch` is left out: what an edit leads
to is stated at rest instead. Not covered by `FileWatch`: an overflow of the
kernel's queue, a write between a file's read and its stat, a dangling link
whose target appears after half a second, a change of a link after start.

## Plan

What remains: the parts `PROJECT.json` lists as partly modelled, and the hazards
it lists without a property.
