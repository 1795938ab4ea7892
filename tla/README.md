# A verification project for fiducia-test-config

`@fiducia/test-config` is what the Fiducia repositories test with: a harness
that boots a real application server and tears it down, stub services the
server talks to, a scanner for committed secrets, recipes for encrypted
environments, lint drivers and a verifier of release evidence. A wrong harness
leaks processes into the next test, and a wrong stub lets a service pass that
loses updates in production, so both are modelled first.

Paths below are relative to the repository. Everything is checked with TLC 2
and, where a theorem is named, proved with TLAPS.

## Inventory

| part | state | operations | talks to |
|---|---|---|---|
| Harness, `src/harness.mjs` | the child, its process group, `stopped`, `stopPromise` | `startServer()`, `stop()` | kernel (spawn, kill), the server (HTTP), concurrent tests |
| Stub KV, `src/stubs.mjs:463-517` | `entries`, `revisionCounter` | GET and PUT of `/v1/kv`, `stop()` | the service under test, over HTTP |
| Stub Supabase, `src/stubs.mjs:136-450` | `accounts` with factors, `challenges`, `issuedRefreshTokens` | grants, OTP, enroll, challenge, verify, unenroll | the service under test, over HTTP |
| Stub shared auth, `src/shared-auth-stub.mjs` | identities by provider token, request counts, its key | start, exchange, introspect, JWKS, tokens signed for the test, `stop()` | the service under test |
| Secret policy, `src/secret-policy.mjs`, `scripts/check-secret-policy.mjs` | findings of the scan in progress | classify paths, look at and read tracked files, exit | git, a file system that others change |
| Environment recipes, `.just/env.just` | `env/enc`, `env/dec`, temporary files | decrypt, encrypt, new, edit, rekey, clean | sops, the file system, a developer |
| Entrypoint, `scripts/sops-entrypoint.sh` | environment variables | decrypt and exec | sops |
| Lint drivers and rules, `.ores-lint/` | report log; pending log events per scope | lint, strict mode, `analyzeSource()` | linters |
| Release evidence, `tools/verify_release_evidence.py` | none | validate | |
| Assertions, presets, CI, nix | none | | |

What is hard here: a process group forks and dies between two system calls of
the harness; several tests share one `stop()`; every stub is an `async` handler
that awaits its body, and in that await everything else is served; answers get
lost and are retried; nothing catches a rejected handler. PROJECT.json lists
these hazards at their lines, with the properties that would catch each.

What makes each part correct, in a sentence: a resolved `stop()` means that the
group is gone, whoever called it and however often; a compare-and-set that was
acknowledged saw the write before it; a challenge makes one stepped-up session,
of its own account; an introspection says what holds when it answers; a scan
that passes has seen every file; a recipe that fails leaves what was committed,
or other whole ciphertext; a log event that nobody sends is reported and one
that is sent is not.

## Modules

| module | models | how it corresponds to the code |
|---|---|---|
| `ServerLifecycle` | what callers of the harness rely on | a server that comes up or fails; a group that a successful stop leaves gone; a failed stop can be retried |
| `Harness` | `startServer`, `waitForHttp`, `terminateProcessTree`, `stop` | one action per system call or await; `phase` is the place in `startServer`, `pc[a]` the place in the `a`-th `terminateProcessTree` in flight |
| `Harness_proofs` | | the theorems about `Harness` |
| `AtomicKv` | an atomic store with conditional writes | each request takes effect at one moment or is dropped |
| `KvStub` | `startStubFiduciaKv` | one action per stretch of the handler between awaits; `stage[r]` is where request `r` is, `log` is a history of the writes |
| `KvClients` | external: services that use the wire contract documented at `src/stubs.mjs:452-460` | read, compare-and-set, retry on mismatch, give up on a timeout |
| `KvStub_proofs`, `KvClients_proofs` | | the theorems about `KvStub` and `KvClients` |
| `SupabaseStub` | sessions, factors and challenges of `startStubSupabase` | a handler that awaits its body is two actions, any other is one |
| `SupabaseStub_proofs` | | the theorems about `SupabaseStub` |
| `SharedAuthStub` | `startStubSharedAuth` | one action per route, two for introspection: let in (`stage` is "body"), and the body |
| `SharedAuthStub_proofs` | | the theorems about `SharedAuthStub` |
| `SecretPolicy` | `scanTrackedRepository` and its command | one action per stretch between awaits: the name, `lstat`, `readFile`; `Change` is somebody who works in the tree |
| `SecretPolicy_proofs` | | the theorems about `SecretPolicy` |
| `EnvFiles` | the recipes that write | one action per command; `recipe` is where the script stands, `Interrupt` ends it there |
| `EnvFiles_proofs` | | the theorems about `EnvFiles` |
| `NameMaps` | the JavaScript `Map` from names to lines | `With` is `set()`, `Forget` is `delete()` |
| `SendProgram` | external: programs that log, and what becomes of each event | one action per statement |
| `SendScanner` | `analyzeSource` in `.ores-lint/require-send.mjs` | `scopeStack` and `findings` are its own; one action per statement it reads |
| `SendRule` | `ores/require-send` in `.ores-lint/eslint/plugin.mjs` | the visitor's `scopes` and `knownLoggers`; one action per statement it visits |
| `RequireSend` | both checks on one program | every step is a statement, written and read |
| `RequireSend_proofs` | | the theorems about `RequireSend` |
| `MCKvStub`, `MCKvClients`, `MCSupabaseStub`, `MCSharedAuthStub`, `MCSecretPolicy`, `MCEnvFiles`, `MCRequireSend` | | constants and symmetry for TLC |

`Harness` is composed with a model of the kernel: `Fork`, `Escape`, `Exit`,
`Reap` and `ReapLeader` interleave with the harness between any two system
calls. A zombie is a member of its group until it is reaped, `kill` reports
ESRCH for a group without members and EPERM when it may signal none of them.
JavaScript is not interrupted by JavaScript (`JsFree`), so the steps of
`terminateProcessTree` that no await separates cannot meet a `stop()` call, but
they do meet the kernel. Deadlines pass at any time. `KvClients` extends
`KvStub` and drives it.

`SharedAuthStub` has a clock that ticks between any two steps, so a token can
expire while the body that asks about it is on its way. A body ends as a token,
as something that `readJson()` throws on, or as JSON `null`, which is the one
that ends the process.

`SecretPolicy` keeps what the rules tell apart: a directory and a kind of name
instead of a path, keys and well-formed values instead of lines, "holds a
credential" instead of the patterns. What may be committed (`MayBeTracked`:
the name is allowed and the content shown to be harmless) is stated from
`env/README.md`, by what is allowed in each directory, which is nothing in
`env/dec`, and not by the order of the scanner's tests. `readFile` follows what
replaced the file after `lstat`: a directory, an unreadable file or a link that
does not lead to a file makes it throw, and then the scan rejects.

`EnvFiles` takes each command as a step that works or fails. A redirection makes
its file before sops runs, so a first encryption is two steps with an empty
file between them, and so is the overwriting in `env-clean`: the plaintext is
`Empty` before `head` writes zeros, and stays so if `head` fails or the recipe
ends there. What sops does is external: it writes its output once or
not at all, and `sops edit` and `sops updatekeys` replace a file whole. One
recipe runs at a time; the developer may write or remove plaintext in the
middle of it, and fetches ciphertext between recipes.

In `RequireSend` TLC writes every program up to a length, statement by
statement. `SendProgram` resolves names lexically and says which events are
sent (in their own chain, by a level method that sends, or later), handed on or
lost; the two checks go by names and braces. The value of a block in Rust or
Gleam counts as handed on. In Gleam that is the chain before a closing brace, so
the scanner looks one token ahead, and `ahead` commits the program to what it
saw. `traits` collects
what a program does that such a check must mistake, and each property names
the traits it excludes.

Definitions marked `(mutant)` are not part of the model: they state a plausible
bug of the definition after them, and show that the property named with them in
PROJECT.json notices it.

## Runs

| run | question | distinct states |
|---|---|---|
| `Harness` | are the reports of start and stop true, do they settle, is the lifecycle implemented? | 63,097 |
| `Harness_killable` | does a teardown empty the group when nothing resists SIGKILL? | 17,937 |
| `Harness_escape` | violated: no descendant survives a resolved stop | |
| `Harness_stranger` | violated: the answer that ends the wait is the booted server's | |
| `KvStub` | is compare-and-set atomic over awaits, losses and crashes? | 401,878 |
| `KvClients` | do retrying clients lose updates or starve? | 30,270 |
| `SupabaseStub` | do overlapping verify requests share a challenge or an account? | 588,575 |
| `SupabaseStub_stepup` | violated: a step-up session comes with a verified factor | |
| `SharedAuthStub` | is "active" true when it is said, and for as long as the exchange promised? | 1,118,800 |
| `SecretPolicy` | does a passing scan vouch for the files, and is every finding real? | 409,254 |
| `EnvFiles` | what do failing and interrupted recipes lose, and are their reports true? | 2,502,721 |
| `RequireSend` | which events that nobody sends are reported, and which are that somebody does? | 6,098,619 |

Bounds. `Harness` has two processes (a launcher that SIGKILL need not end and a
server that may not be signalled), two callers of `stop()` and names for two
teardowns, one more than the code may ever run at once, which is what
`OneAttempt` is about. `Harness_killable` has three processes, so that a member
can fork another while the launcher is being reaped. `KvStub` has three
requests on two keys: two that race and one that separates them; every
`prev_revision` up to the second revision is sent, including ones that were
never issued. In `KvClients` two clients make at most eight calls each and one
call is given up on; eight is what the retries of one client can need, so the
bound never stops a client. `SupabaseStub` has three sessions, because two
step-ups need a login before them, and two requests that await a body.

`SharedAuthStub` has two requests in flight, two signed tokens and three moments
with a lifetime of one, so that a token is valid, about to expire and expired;
of its three identities two share a provider token and one is malformed.
`SecretPolicy` scans one path of every kind with every content: a document as
sops writes it, each line of it missing or damaged, and lines added that must
or must not be there; and two files side by side, so that one can change while
the other is looked at. Two changes replace a file before each await. `EnvFiles`
has two environments, one to stop at and one not reached, and two
things that a file may say: what `env-new` writes, and nothing, which a truncated
plaintext says. No action tells other values apart; nothing else is bounded. `RequireSend` takes programs
of five statements in two blocks below the top: a name, its shadow in a block,
a use, and the end of both. Each trait that a property excludes was needed: with
any one admitted there is a counterexample, within these bounds except for
`reuse` in `RuleRaisesNoFalseAlarm`, which takes seven statements.

All runs but `EnvFiles` set `CHECK_DEADLOCK FALSE`: a stopped server with no
caller, a stub whose requests are all answered, accounts whose tokens have all
expired, a scan that exited and a program that ended have nothing left to do.
The symmetry sets contain interchangeable model values only,
and the runs that use them check no liveness.

Fairness. In `Harness`, weak fairness of the JavaScript steps is the event loop
going on, that of the deadlines is time passing, that of `Reap` is init. Exit is
fair only for a process that SIGKILL was delivered to and can end. `ReapLeader`
is strongly fair: it needs the moments in which no JavaScript runs, which come
again and again as callers retry. A fetch is assumed to end. Nobody has to call
`stop()` and no server has to exit or to become ready. In `KvClients` clients go
on and the stub serves every request while it runs; losing, giving up and
stopping are never forced. The other runs have no fairness, and their properties are safety
properties.

## Disagreements found

* `Harness_escape`. `src/README.md:24-26` promises that cleanup "verifies that no
  descendant remains before resolving". The code looks at the process group
  (`src/harness.mjs:166`), and a descendant that called `setsid()` is not in it.
* `Harness_stranger`. `startServer()` is documented (`src/harness.mjs:59`) to
  "wait until it answers"; the random port is not checked to be free, and any
  2xx on it ends the wait, even if the child was never spawned.
* `SupabaseStub_stepup`. `src/stubs.mjs:393` documents verify as "mark verified +
  step-up session". A challenge outlives the unenrolling of its factor, and
  redeeming it returns an aal2 session although nothing is marked.

Not runs, but modelled as they are:

* A refresh token stays redeemable after its use (`src/stubs.mjs:260`,
  `RefreshGrant`).
* An introspection whose body is JSON `null`, or whose token has a header that
  is, throws outside the `try` (`src/shared-auth-stub.mjs:307` and `:94`) and
  ends the process (`BodyIsNull`).
* `env-clean` promises to "wipe decrypted plaintext from env/dec"
  (`.just/env.just:315`), but an `env-decrypt` that stopped between `sops decrypt`
  and `mv` leaves it under a temporary name that `*.env` does not match. In
  `EnvFiles` `leftovers` never becomes false again, and `CleanRemovesListed`
  speaks of the files that the recipe lists and no others.
* An `env-clean` that is interrupted behind its redirection (`.just/env.just:327`)
  leaves an empty plaintext, and nothing tells it from one that the developer
  emptied: a later `env-encrypt` may put it in the place of the ciphertext. The
  file stays whole ciphertext (`WholeCiphertextSurvives`), of nothing.
* An `env-encrypt` or `env-new` that stopped behind its redirection leaves an
  empty ciphertext, which neither can replace: `env-encrypt` then takes the edit
  branch and fails, and `env-new` refuses (`.just/env.just:100`, `:130`). Somebody
  has to remove the file (`Checkout`).
* `env/dec/.env.example` passes the scan (`src/secret-policy.mjs:71`), although
  `env/README.md:57` says "Never commit anything under `env/dec/`" (and `:13` that
  it is git-ignored). `MayBeTracked` forbids it, and `SuccessMeansClean` names it as
  the one exception (`ExampleInDec`).
* A body over the limit is answered with 413 in
  `tests/shared-auth-stub.test.mjs:124-133`. Leaving the loop over it destroys the
  stream of the request, so the answer may be lost with the connection; the model
  leaves that open (`BodyRejected`).
* The two require-send checks have the "same contract" (`.ores-lint/require-send.mjs:5`)
  and differ. A statement such as `x.send()` or `f(x)` is consumed twice by the
  ESLint rule (`eslint/plugin.mjs:277` and `:287`), so that it also clears a pending
  event of the same name in an outer function. The scanner does not take
  `f(x)`, `return x` and `x.field().send()` as deliveries, misses Rust and Dart
  chains that begin with another call, and ends a name's life at the brace.
  Neither reports an event that another one overwrites. The rule reports level
  calls with three arguments, which send by themselves; the scanner knows that in
  Rust and Dart (`.ores-lint/require-send.mjs:382-384`), and reports them in Gleam.
  The rule does not know a logger that is produced further down.

## Theorems

The assumptions are the named `ASSUME`s of the modules: the leader is one of the
processes, `undefined` is no attempt, the sets of hazards are sets of processes,
`null` is no revision, no route, no token and no name, and no file, a torn
ciphertext and a zeroed plaintext are told from each other and from what an
environment may say, which includes the blank file of `env-new` and nothing.
Git lists at least one path. `log` is a logger that both checks know, a chain
reaches a level method once, and a call that sends returns nothing that a chain
could go on with. Nothing is assumed finite but the bounds that are
numbers (tries, lines, depth), and those may be any number. The proofs of
`KvClients` also use that a client sends a revision that is in `Prevs`, which is
a guard of `Write`.

`Harness_proofs` proves the type invariant and five safety properties of the run
`Harness` for every tree of processes and every number of callers. None is
inductive by itself. The invariant adds which attempt may be in flight in which
phase (`AttemptInv`), that callers wait for it alone (`CallerInv`), where the
code takes the group to be gone (`GoneInv`) and what is late by the time SIGKILL
is sent (`GraceInv`). Its core is the lemma `GoneStaysGone`: only members fork
members, so what the last look of a round saw still holds when the reactions of
the promise run and when callers resume.

`LifecycleSafety` is the safety part of `ImplementsLifecycle`: under the mapping of
that property every step of the harness, of a caller or of the kernel is a step
of `ServerLifecycle` or none. A group that a caller was told is gone must stay
gone, which is `GoneInv` again; `RefInv` adds that the tree grows from its leader,
that an attempt made once the server is up is some caller's, and that a stopped
handle has none left that could act.

`KvStub_proofs` proves the type invariant, `CasSucceedsOnLastWrite`,
`EntriesAreLastWrites`, `AnswersAreTrue` and the refinement of `AtomicKv` for all
keys, values and requests. The invariant says that the counter is the length of
the history, that a key holds its last write, and that a request which has no
answer is in no write (`UnansweredAreUnwritten`), which is what makes the
comparison after the await safe.

`EnvFiles_proofs` proves the type invariant and the four properties of the run
`EnvFiles` for all sets of environments and values. The invariant says that
`recipe` stands at a command of its own kind (`PlaceInv`), and follows the loop:
the environments behind it are done, the one it is at is in between, and those
still in `todo` are as they were (`EncryptInv`, `RekeyInv`, `CleanInv`). It holds
the loop to its promise only while the recipe has not failed (`Going`), since a
failed one promises nothing. `WholeCiphertextSurvives` rests on one fact, that a
redirection is chosen only where there is no file (`SurviveStep`).

`KvClients_proofs` puts clients on top. `ClientsAreCallers` shows that whatever the
clients do is what callers of the stub may do, so every theorem about the stub
holds with them. That no update is lost is not inductive: a client may still
send what it read long ago. The invariant says what makes that harmless: what
a client saw, or was answered, is what the record said at that revision
(`IsBase`), a PUT that is under way adds its caller to such a base, and the store
accepts it only if that base is the last write. So every write contains the
one before, and those that clients were told of are in the last.

`SupabaseStub_proofs` proves the type invariant and the four invariants of the
run for any number of accounts and requests. A verify request that awaits its
body knows only names, so the invariant says what those still mean: an opened challenge is of a factor that was enrolled, of the account
that owns it, whatever became of the factor since (`ChallengeInv`), and a
step-up names a challenge that is redeemed, which nothing undoes (`StepUpInv`).

`SharedAuthStub_proofs` proves the type invariant and the four invariants of the
run. That a token lives as long as its client was told follows from the moment
an exchange stamps on it, which nothing signs over (`LifetimeInv`).
`CountsAreComplete` is about sets that need not be finite, so the invariant adds
that only finitely many requests have arrived (`CountInv`); that an exchange is
unambiguous rests on what the fixture serves for each provider token
(`ServedInv`, `IssuedInv`), and on a token being signed once.

`SecretPolicy_proofs` proves the three invariants for any list of paths and any
document. `SopsJudged` says that the line-by-line `validateSopsDotenv()` accepts
exactly what sops writes (`Ciphertext`), for documents of every length.
`SuccessMeansClean` holds only at the end, so the invariant says it of the paths
behind the position (`PassedInv`), and of the one at it, what was checked before
each await (`HereInv`); both only for files that did not change, `seen` having one
content.

`RequireSend_proofs` proves the four properties of the run for every set of names
and of chains, and for programs of any length and depth. `Invariance` states
what both checks need: the scanner has a scope for each open block, the rule
one for each function (`FnDepth`, a cardinality), and an event is held by one
name, its own, in one block. Each property then has an invariant under the
traits that it excludes. `Holding`: the scanner holds the live events that the
names of the same block hold, no more and no less. `Unsent`: what it holds was
not sent, in its own chain or later, and no other name has it, so a send
elsewhere cannot make it stale; both need `Follows`, that its entries are names
of the block. `Tracking`: the rule holds each
live event by its name in some function. `Earned`: all that it holds is live, in
the function that declares the name, so leaving a function reports nothing that
can still be used. The lemma `Steps` reduces a statement to what it does to
events and pending maps, and each invariant is checked against those seven
kinds of step.

Every invariant and action property of the passing runs is a theorem. Only
model-checked are the liveness properties (`StartSettles`, `StopSettles`,
`TeardownEndsGroup`, `UpdatesGetIn`) and the fairness part of `ImplementsLifecycle`, since liveness under fairness is out of the prover's
reach. The type invariants of `SharedAuthStub`, `SecretPolicy`, `EnvFiles` and
`RequireSend` are theorems that no run repeats.

## Not modelled

* In the harness: the `win32` branches, the log buffer, the search for Chrome,
  reuse of process ids, and how long anything takes (only the order of a
  deadline and other events).
* In the stubs: routes without state (health, JWKS, `GET /user`, `/rest`,
  logout, OTP dispatch), cryptography (a signature is taken as unforgeable), the
  text of bodies beyond what the handlers compare.
* In the scanner: what the regular expressions match, and the check that a path
  stays inside the repository (`src/secret-policy.mjs:271-282`), which no path
  that git prints fails.
* In the recipes: those that only read, `env-keygen`, the container recipes,
  `.just/dotenv.py`, and two recipes at once.
* In the require-send checks: the tokenizer, the choice of files, what looks like
  a logger, imports of loggers, and the report. The other rules of the plugin
  look at one node at a time.
* The container entrypoint is one pass over variables that ends in `exec`; the
  lint driver starts other linters and searches what they print; the release
  evidence verifier is a conjunction over one document. None of them keeps state or
  meets anything concurrent, so a model would repeat the code. Assertions,
  presets, CI and packaging have no behaviour of their own.

## Plan

1. `KvClients`: that a client gives up its tries only after as many writes of
   others, the safety core of `UpdatesGetIn`, as a theorem.
2. `Harness`: the bound on processes that a teardown may meet, the safety core of
   `TeardownEndsGroup`.
3. `LintStrict`: findings that strict mode must not lose (`.ores-lint/lint.sh:69`),
   if the reports it searches get a fixed form.
