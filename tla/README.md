# A verification project for KylinShield Ops (kylin-agent)

TLA+ models of the parts of the backend that decide and that keep state, the
TLC runs that check them on small instances, and TLAPS proofs for every size of
the instance. Paths are relative to the repository; `backend/` (below `src/`)
holds nearly all the code (Python, FastAPI). `PROJECT.json` lists the runs, the
seeded faults that show each property can fail, the lines each definition
translates, the findings and the hazards.

## 1. The system

One uvicorn process serves HTTP, SSE and WebSocket clients on one asyncio event
loop. A request passes T0 (input filter), perception, an LLM classifier and
reasoner, then T1 to T3: risk score, constraints and guardrail, sandbox.
Commands that change the system wait for a human (`POST /api/confirm`) and run
through the execution gateway with a single-use capability token. Every stage
writes to a hash-chained audit log, whose tail the next perception reads.

What can interleave:

* Handlers without an `await` (chat, confirm, MCP) are atomic with respect to
  each other. SSE generators are suspended at each `yield`, WebSocket code at
  each `await`.
* Three background tasks (`main.py`): the hourly posture regulation, the nightly
  baseline, the inspection every few minutes.
* A second process, the key-management command line, shares the key file.
* The process can die anywhere and be restarted; a file write can raise.
* Classes that take a lock (token store, circuit breaker, pending store) offer
  themselves to threads, and are modelled with threads where the lock does not
  cover the whole operation.

### Inventory

| Component | State | Operations | Hard part | What makes it correct | Module |
|---|---|---|---|---|---|
| Capability tokens (`security/capability_token.py`) | burned nonces, JSON file | issue, verify, consume, cleanup, load | clock read twice, save under the lock, restart | one grant a nonce; burned until expired | `CapabilityToken` |
| Confirmation (`routers/confirm.py`, `deps.py`, `security/pending.py`, `security/idempotency.py`) | pending table and file, idempotency keys | add, list, approve, deny, expire | crash between removal and answer, order of checks, in-place save | at most one execution; denial is final; nothing too late | `ConfirmFlow`, `Approval` |
| Execution gateway (`security/execution_gateway.py`) | none | execute_tool | token burned before a refusal; two outputs inspected | runs only with a granted token; a blocked output stops its request | `ConfirmFlow`, `Pipelines` |
| Guardrail (`security/guardrail.py`, `constraints.py`, `file_knowledge.py`, `agent/tools_manifest.py`) | posture | validate_commands | many checks, of which some return early | strictness is monotone; only harmless writes run unasked | `Constraints`, `Guardrail` |
| Pipelines (`routers/chat.py`, `stream.py`, `agent/loop.py`, `security/tool_gateway.py`, `mcp/`) | the request in progress | request to answer | suspension at yields, batches stopped midway, many ways out | a batch runs whole or not at all; chains closed once; every request ends | `Pipelines` |
| Risk posture (`agent/risk_posture.py`, `main.py`) | posture, veto count, two times | on_veto, on_permit, auto_regress, alerts | decay happens only on requests | two vetoes lock; regression after the waits; regression happens | `RiskPosture` |
| Perception (`agent/perception.py`) and output guard (`security/indirect_injection.py`) | the tail of the audit log | build, inspect | what users type comes back as outside data | what the log shows as hostile is stopped, and fades | `OutputGuard`, `Perception` |
| Audit store (`audit/store.py`, `chain.py`, `foia.py`) | daily files, last hash | write_event, seed, read, verify | restart, midnight, torn lines | chain unbroken but for failed appends; nothing acknowledged lost | `AuditChain` |
| API keys (`auth/key_store.py`, `cli.py`, `middleware/auth.py`) | key table and file | create, validate, revoke | two processes, no lock, times of files | a revoked key stays revoked | `KeyStore` |
| Rollback (`security/rollback.py`, `routers/rollback_api.py`) | manifest, backups | snapshot, restore, cleanup | every operation is several effects | a saved entry is restorable; no overwrite without one | `Rollback` |
| Circuit breaker (`security/circuit_breaker.py`) | state, counters, opened_at | call, state, stats, reset | function runs outside the lock | probe limit, cool-down, not stuck | `CircuitBreaker` |
| Sessions (`agent/session_store.py`) | sessions with history | get_or_create, add_turn, cleanup | expiry during use | history stays with its owner | none |
| WebSocket push (`routers/ws.py`) | client list | register, broadcast | list changes while a send awaits | each eligible client gets each event | none |
| Baseline (`audit/baseline.py`) | profiles and file | learn, check | none: one loop and one endpoint, no await inside | a profile a day | none |
| Parallel executor (`agent/parallel_executor.py`) | thread pool | execute_all | order, timeouts | results complete and ordered | none |
| Sensors, LLM access, sandbox, filters, trace, config, frontend | none worth a model | text and process I/O | | | none |

Interactions: chat, stream, loop and MCP validate a batch with the guardrail in
the posture of the moment and put what needs a human into the pending store;
confirm takes entries out, takes a snapshot, builds a token scope and calls the
gateway, which consumes the token and calls the runtime. Vetoes from validation
and from the output guard go to the posture engine. Everything writes to the
audit store; perception reads from it.

`Pipelines` composes the decision (`Constraints`) with the posture engine and
the output guard's verdicts; `Perception` composes `OutputGuard` with the audit
tail and the posture; `ConfirmFlow` implements `Approval`. The posture counts of
`Pipelines` and `Perception` are coarser than `RiskPosture`: time is any moment
between two handlers, and the count stops at two, above which nothing depends
on it.

## 2. Plan

Written, in this order: `CapabilityToken`, `Approval` and `ConfirmFlow`,
`RiskPosture`, `CircuitBreaker`, `AuditChain`; then `Constraints` and
`Guardrail`, `Pipelines`, `KeyStore`, `Rollback`, `OutputGuard` and
`Perception`. Proofs, in this order: `CapabilityToken`, `RiskPosture`,
`CircuitBreaker`, `Perception`, `Guardrail`, `ConfirmFlow`, `Pipelines`,
`KeyStore`, `AuditChain`, `Rollback`.

Every safety property that a run checks is proved. Not written, since their
failures are visible to users but reach no operation: `WsBroadcast`,
`SessionStore`, `Baseline`.

Every run stays within a few minutes; two actors, two objects and one restart
suffice for the races listed as hazards.

## 3. The modules

### CapabilityToken

A token is its payload; `minted` plays the HMAC secret. A thread goes through
`Verify`, `ConsumeFresh` (nonce entered, lock kept), `Save`, `Grant`, or leaves
through `ConsumeReplay` or `SaveFails`; `Cleanup` and `Restart` may come between
any two. `liveGrants` and `lateGrants` count grants whose nonce was burned
before and after the expiry.

* `MCCapabilityToken.cfg`: two threads, two nonces, two scopes, life 2, clock up
  to 4, so that both tokens expire in every phase of both calls. A nonce burned
  in time is granted once (`SingleUseWhileLive`), stays burned in memory and file
  until it expires (`BurnedUntilExpiry`), and at the boundary at most one more
  grant a thread is possible (`LateGrantsBounded`).
* `MCCapabilityTokenReplay.cfg` (violated): `SingleUse` without qualification.
  verify sees a live token, the clock passes the expiry, consume removes the
  nonce as expired and accepts it again.

`CapabilityTokenProofs` proves types and the three properties for all constants.
None is inductive. The invariant adds that nonces are fresh, that a thread past
verify holds an issued token, that the lock is held exactly by a thread that
saves, and that a thread about to be granted is the only one with its nonce,
which is burned and not yet granted. The key lemma is that a cleanup keeps every
unexpired entry (`CleanupKeeps`). For `LateGrantsBounded` the late grants of a
nonce and the calls still on their way to one are counted together
(`RoomForLate`): after the expiry verify lets no new call in, so their sum never
exceeds the number of threads.

### ConfirmFlow and Approval

`Approval` is the promise for one operation: unseen, pending, claimed, executed
or dropped, and nothing leaves the last two. `ConfirmFlow` is the code: the table,
the file with its two-step save (`SaveOpen` truncates, `SaveWrite` fills), the
handler of `POST /api/confirm` as a sequence of stages, the idempotency keys. The
handler is atomic on the event loop; its stages are separate because the clock,
an exception (`Raise`) and the death of the process (`Restart`) can come between
them. A claim is mapped to `claimed` once the table without the entry is in the
file: until then a restart brings the entry back.

* `MCConfirmFlow.cfg`: two operations, two event ids that they may share, users
  among owner, stranger, admin and viewer, one key, expiry and key eviction
  within the clock. `ExecutedAtMostOnce`; `DenialIsFinal`; `ExecutesInTime`
  (nothing runs that had outlived its TTL when approved, and a key whose
  execution was answered runs nothing again until it expires); and
  `ImplementsApproval`: every step is a step of `Approval` or a stutter.

No fairness is assumed: nothing in the code makes a user answer.

`ConfirmFlowProofs` proves all of this, the refinement included, for any
operations, users, event ids, keys and times. The inductive invariant
(`WellFormed`, `Settled`) says where an operation can be: in at most one entry of
the table and of the file; out of the table as soon as it is popped, and out of
the file once the save is over; nowhere once it ended. A job runs only from
`cleared`, with its entry gone from both, so neither a second request nor a
restart can bring an executed or denied operation back. For `ExecutesInTime` the
records of answered executions stay in the key store while they live. The
refinement goes step by step: an action keeps every operation's status
(`Kept`), or moves that of one along `Approval`, or, for a restart and a lost
save, drops several.

### Constraints and Guardrail

`Constraints` holds no state: `Decide` is one round of `validate_commands`, from
the manifest and the normalisation of parameters to the tier. A call is
described by what the checks tell apart (kind of tool, where the resolved path
lies, category in the file knowledge base, what its texts contain). `ToolVerdict`
keeps the order of `_validate_tool_call`: a path below `/var` or `/usr` and a
content with an indicator return before the checks of scripts, roles and
protected paths, and the file's category counts last. The checks for names and
flags that no schema admits are unreachable after normalisation and left out,
as are scores that only choose a label. `Guardrail` is the context: posture,
role and intent profile.

* `MCGuardrail.cfg`: every described call in every posture, role and intent
  (216 contexts), with the default `ROLE_CONFIRM_OFFSET`. `StricterNeverLoosens`:
  a stricter posture or more suspicious intent never loosens a decision,
  through all early returns. `UnaskedWritesAreHarmless`: what runs without a
  human. `OnlyEarlyReturnsMask`: a refusal by any check stands, but for those the
  two early returns hide; then a human is asked or the threshold is above 7.

`PipelinesProofs` proves the three for any offsets the environment may set, after
those of `Pipelines`, with which they share the facts about `Decide`. The argument for the first: the threshold is monotone in posture and intent
(`ThresholdFollows`), and only `SystemVerdict` reads it, so that a lower
threshold can replace one approval by a confirmation and nothing else
(`DecisionFollows`). `UnaskedWritesAreHarmless` goes through the tools: what has
tier `auto` and writes is `write_file`, which runs on an approval alone; offsets
matter below `/var` and `/usr` only, where the property asks for a threshold above
7.

### Pipelines

One slot is one request: its kind (chat, loop, stream, MCP), its stage, the
batch of the LLM's answer, how far it ran. `holder` is the request whose handler
runs; only streams give it up (`Judge`, `StreamReason`) and are resumed or left
by their client. Any stage may raise. `Perceive` and `Execute` count one veto for
each blocked source or output. Each answer of the LLM brings a batch and an
`intent_profile` of its own, in the loop one each round; the batch is judged by
that profile (`Decision`). MCP passes `External`, an answer without a profile
amounts to `Normal`.

* `MCPipelines.cfg`: two requests, batches of up to two among three calls
  (diagnosis, write that needs a human, vetoed call), three rounds, two intent
  profiles (the plain one, and the one that lowers the threshold most; all 216
  contexts are `MCGuardrail.cfg`'s). `RunsTogether`: once one command of a batch has run, all may run
  unasked, in the posture of the moment too, although a stream was suspended
  after it validated. This rests on two facts of the code: a stricter posture
  turns only writes below `/var` from `run` to `confirm`, and with the default
  offsets these are above the threshold unless the posture is permissive, which
  nothing sets. `BlockStopsRequest`, `VetoesPerRequest`, `ChainsClose`, and
  `EveryRequestEnds`.

Fairness: a running handler runs on (weak, on `Step`); a suspended stream is
resumed or left (strong, on `Resume \/ Leave`, since the event loop is busy again
and again): asyncio takes its ready queue in order, so other requests cannot
keep a ready task from running. That a suspended stream is resumed or left
assumes a client that reads or disconnects: one that keeps the connection open
and reads nothing would hold its generator for ever, and nothing in the code
ends it. `EveryRequestEnds` says nothing of such a client.

`PipelinesProofs` proves the safety properties for any number of requests, any
calls, roles and intent profiles, and any bounds of the batch and the loop. The
invariant (`Sound`) says of one request, by its stage, what can be true of it: nothing of a
batch has run before it was judged, what runs and what waits for a human exclude
each other, nothing is counted or closed before the answer but the vetoes of a
blocked output, and a blocked output leaves only stages that answer. Since a
step changes one request and gives or takes the loop (`OneRequestForms`), each
handler needs to be looked at for its own request only. All but one of these
theorems hold for any offsets.

`RunsTogetherAlways` holds for any set of intent profiles, since a profile only
lowers the threshold. It has a hypothesis, `MildOffsets`: the balanced threshold of a
role is at most 7, that is, no `ROLE_CONFIRM_OFFSET_*` is above 2. The default
offsets (`security/constraints.py:28`) satisfy it. It is needed: with an operator's
offset of 3 a write below `/var` may pass the balanced posture, a blocked output
of another command of the batch locks the posture, and the rest of the batch is
then judged by a posture in which it would have to wait. The proof shows that
under the hypothesis no decision depends on the posture (`PostureDecidesNothing`),
so that a batch once cleared stays cleared (`Judged`).

### RiskPosture

Times are kept as ages in hours, capped one past the limit they are compared
with, so no bound on time is needed. `Consult` stands for `on_permit` and
`posture_for_prompt`, the only calls that let a veto decay, besides `on_veto`
whose decay cannot fire. `Tick` and `Regulate` are the sleep and the round of
the regulation loop; `Alert` is the critical finding of the inspection loop.

* `MCRiskPosture.cfg`: a day of six hours, decay after one, regression after six,
  three vetoes, two alerts. `VetoesLock`, `NoHastyRegress`, and `AutoRegresses`
  under `BusySpec`: weak fairness of the loop (an endless task that catches its
  exceptions) and of `Consult` (requests keep coming). Without requests the
  engine does not regress, see section 5.

`RiskPostureProofs` proves types, `VetoesLock` and `NoHastyRegress`, assuming
only that the decay time is not after the regression time. The invariant relates
the count of vetoes to the bound, and the age the engine keeps to that of the
last real veto, which is never younger than the engine thinks.

### OutputGuard and Perception

`OutputGuard` is the scoring of a text and the verdict by mode; `Disguises` are
the same signals encoded or with hidden characters. `Perception` is `build` and
the handlers around it, one action for each event: the four inspections in their
order, the tail of ten events read between the first and the second, the events
of the handlers themselves. Every append may fail and leave nothing, half a
line, a line without its newline or half a character; the handlers' own appends
then raise, while those of an inspection are swallowed by `_record`. Midnight
and a restart may come between any two events. Of the log only what matters for
the next reading is kept: how many events ago the newest tainted line was
written (`age`), and how the file ends (`tail`). Reading the log and the event
of its inspection are one step: nothing else runs between them.

What the guard sees of an input is what the log shows of it: the first 120
characters of the redacted text (`perception.py:129`, `audit/store.py:58`).
`Inputs` are these, and `Tainted` speaks of them; the reasoner receives the whole
text, so that hostile words further back are never inspected. That is a limit of
the code, not one of the model, and no property claims more.

* `MCPerception.cfg`: texts with signals of every weight, encoded and hidden ones,
  both modes, at most two failures since the newest tainted line.
  `TaintFades`: a tainted text blocks at most three perceptions, of whatever
  users, and one more for every two events that were lost or perceptions cut
  short (a lost event spoils no more than the next one). Context reads on their
  own write no event but those of the inspections: while appends fail without
  end they are blocked without end, and the property says at which rate.
  `TaintedInputIsStopped`: what the log shows as hostile is not reasoned about,
  unless a gap named in `Gap` let it through: the request's event was glued to a
  broken line, midnight passed before the log was read, or the log could not be
  read or decoded, which `_load_recent_audit` answers with an empty tail
  (`perception.py:134`). `DisguiseNeverHelps`: encoding never lowers the verdict,
  for payloads that decode within the guard's depth limit.

`PerceptionProofs` proves types and the three for any set of texts and any bound
of the failures. `TaintFades` needs a stronger invariant (`Pushed`): each block
has pushed the tainted event four events further away but for those that failed,
so that after three it is no longer read. `TaintedInputIsStopped` follows the
request's own event from its writing to the reading (`Own`, `Seen`). For
`DisguiseNeverHelps` the fold behind the score is shown to be an explicit sum
(`WeightsSum`: the sum satisfies the fold's equation, and a least set of signals
where the two differ cannot exist). The points of a text are then divided
between its plain and its encoded part, the two points for decoding make up for
a dangerous payload that no longer counts when it stays alone (`DisguiseScores`),
and the verdict is monotone in the score.

### AuditChain

Files are sequences of lines; a hash is the number of its event. A write is one
step with four ends: done (`Write`), not begun (`WriteRaises`), broken off, maybe
inside a character or just before the newline (`WriteBreaks`), or not reached because the seeding raised
(`SeedFails`). A whole line without its newline is read like any other, until
the next event is glued to it. `SearchEnds` and `SeedHash` are `_seed_from_disk`; `ReadRange` and
`Breaks` are the readers and `verify_chain`, as sets of places in the files.

* `MCAuditChain.cfg`: three days, six events, three failures, any restarts.
  `BreaksAreFailures`: restarts and midnights never break the chain, only failed
  appends do, once each. `LossIsBounded`: a torn line costs at most one
  acknowledged event.

`StorageProofs` proves both and the types for any days, events and failures.
Neither is inductive, because a failure shows only later: a line broken off
leaves the chain as it was, and breaks it with the event that follows; it loses
the event that is glued to it. `BreaksPaid` therefore counts the breaks and one
more unless the chain is `Smooth`: the last file ends with a whole event, which
is the last one read and the one in memory. From a smooth chain any restart
finds the seed that continues it (`SmoothSeed`), and whatever ends smoothness is
a failed append. `LossPaid` counts the lost events and one more while the day's
file ends within a line; a file that cannot be decoded stays so.

### KeyStore

The server and the processes of the command line share one file that nothing
guards. A load is two steps (time, then content), a save is two steps (truncate,
write), a validation of a known key saves the whole table for its
`last_used_at`. Of two writers that both truncated before either wrote, the
later may leave the end of the longer text behind its own: the file is then
`mixed`, and no table. `faults` records what a single user would not see:
processes that overlapped, two writes in one tick of the file clock, a death
within a save. The user names are taken to decode; a file cut inside a
multi-byte name raises in the reader, which is not modelled.

* `MCKeyStore.cfg`: two keys, two command-line processes, three ticks, one kill.
  `StaleIsNoticed`: without ties, a table that differs from the file is always
  noticed by the next request, however saves and loads interleave and whoever
  dies within a save. It speaks of whole files: a torn or mixed one is kept out,
  and until the next whole write the server goes on with its old table, so that a
  key whose revocation was torn by a kill stays accepted.
  `SequentialUseIsExact`: used by one person at a time, a token is accepted if
  and only if its key was shown and not revoked. Processes end and keys are not
  reused, so the model may stop (`CHECK_DEADLOCK FALSE`).
* `MCKeyStoreRevoked.cfg` (violated): `RevokedIsRefused`. A request in progress
  writes a revoked key back, and later requests with it are granted.

`KeyStoreProofs` proves types and both properties of the first run for any keys,
processes and bounds. Types rest on `Secret`: a key being added is known to its
process alone until it is shown, hence nobody can have revoked it. `Believed`
extends `StaleIsNoticed` to every moment but the one between the time and the
content of a load: a write of the command line is younger than what the server
has seen, or the tick is shared (`WriteIsYounger`). `SequentialUseIsExact` needs
both: while nothing is at fault one process is at work (`Alone`), the file is torn
exactly during a save, and everything that was loaded holds the valid keys
(`HoldValid`); that a request may skip loading is `Believed`.

### Rollback

`RollbackManager` has no memory: every operation reads the manifest and writes
it back as a whole. `op` is the operation in progress, one effect a step;
`Fail` ends it after any of them, `CopyFails` and `RestoreFails` are copies that
raise, `Edit` is anybody else. `owed` is what has been promised: entries saved,
neither restored nor expired. An id holds the time when the copy began, an entry
the time when it was hashed (`Hashed`), and expiry compares the latter; the
number of days may be negative, which puts the cutoff into the future.

* `MCRollback.cfg`: two equally named files, two contents, two milliseconds,
  three entries, two mishaps; symmetric in files and contents. `Recoverable`: a
  promised entry has an intact backup and is found by its id, unless the id was
  given twice; a save of the manifest that is cut off ends all promises made
  before it (it is then read as empty). `OverwritesAreCovered`: at the moment of a
  tool's write, an entry in the manifest has an intact backup of the content that
  is overwritten, whatever was lost or torn before, unless the copy for this very
  write failed or somebody edited the file after it began. `RestoresLatest`: a restore
  brings back what the file's own snapshot had, and `restore_last` passes over no
  later one.

`StorageProofs` proves the types and the three for any files, contents, times and
bounds. The types include that the manifest is in the order of its ids. The
invariant says of the manifest that what is promised has an intact backup and an
id of its own (`Listed`), and of each operation in progress what it is about to
do: the entry being appended has its backup, the list being written holds all
that is promised, a cleanup spares it (`Prepared`); `Listed` alone is broken by
the second half of an operation whose first half nothing is known of. `Covered`
follows an entry from its copy to the write it was made for. The cleanup rebuilds
the manifest in a loop (`Unexpired`, a recursive function); that the loop keeps
order and every entry that is not expired is an induction on its turns
(`KeptExists`, `UnexpiredIs`). `RestoresLatest` needs the order: the last entry
of a file in the manifest is the latest.

### CircuitBreaker

`call` is split where the code releases the lock: `Refuse` or `Admit`, then
`Succeed` or `Fail` at any later time. A call remembers as what it was admitted;
a new half-open window makes running calls stale. `StateNow` is `_transition`.

* `MCCircuitBreaker.cfg`: three threads, threshold 2, recovery 1, two probes.
  `ProbeLimit`, `CoolDown`, and `NeverStuck` if not all callers hang. Fairness:
  time passes and a caller that is free calls again; a running function need
  not return, because nothing enforces the timeout.

`CircuitBreakerProofs` proves types, `ProbeLimit` and `CoolDown` for any threads
and limits. The invariant says that a circuit not closed has seen a failure at
or after `opened_at`, and that the probe counter is at least the number of
probes running in the present window.

## 4. What is proved and what is only checked

Proved for all constants: types and every safety property of CapabilityToken,
ConfirmFlow, Pipelines, KeyStore, RiskPosture, CircuitBreaker, AuditChain,
Rollback and Perception that a run checks; that ConfirmFlow implements Approval;
the three properties of Guardrail for every offset. The assumptions are those
named in the modules (positive lives, bounds and thresholds, finite sets of
threads, null values outside the sets, integer offsets); TLC evaluates them on
every run. One theorem has a hypothesis beyond them, `MildOffsets` of
`RunsTogetherAlways`.

The proofs have the same shape: an inductive invariant in named parts, which TLC
checked on the small instance first; one lemma for each action, or for each step
that several actions share; and a temporal step that combines them.

Inductions over data (the order of a list that a loop filters, the sum over a set)
are done on a set of counterexamples: it has a least member, by `WFMin` of the
library, which is then shown not to be one. The induction theorems that take a
predicate as a parameter cannot be instantiated by the installed provers.

Only model-checked: all liveness (`EveryRequestEnds`, `AutoRegresses`,
`NeverStuck`). Reasoning under fairness needs ENABLED, which the prover does not
handle.

Violated properties are findings and stay with TLC.

Bounds: clocks are bounded where a value is compared with an absolute time
(`MaxClock`, `MaxTime`); events, vetoes, alerts, failures, kills and mishaps by
the constants of that name, batches by `MaxBatch` (two: one command run, one
left); `MaxIterations` is the code's own 3; ages need none. Each is large enough
for every limit to be passed at least once in every phase of the actors, which
the seeded faults confirm: each property has one, and TLC finds every one of
them within the same bounds.

## 5. What was noticed and is not a run

Disagreements between code and text that are visible by reading the lines, and
follow from the models:

* A repeated confirmation is answered `not_found`, because the entry is looked up
  before the idempotency key (`routers/confirm.py:46`), where `docs/defense.md:67`
  promises the original result. Nothing is executed twice.
* `pending.json` is truncated before it is written (`deps.py:236`): a death in
  between loses every entry. Nothing lost is executed.
* Without requests no veto decays, and the hourly regulation never eases the
  posture (`agent/risk_posture.py:53`).
* At night the regulation eases to balanced only (`agent/risk_posture.py:62`);
  the README speaks of a lock.
* Failures in the closed state are counted over any successes between them
  (`security/circuit_breaker.py:103`); the comment says consecutive.
* After a torn last line the chain is seeded from the line before
  (`audit/store.py:50`).
* The output guard inspects 120 characters of a redacted input while the reasoner
  gets all of it (`agent/perception.py:129`), and a log that cannot be read counts
  as an empty one (`agent/perception.py:134`). An inspection whose event cannot be
  written goes unrecorded (`security/indirect_injection.py:311`).
* A request without a token never reloads the key table (`middleware/auth.py`);
  with a torn key file the server keeps its old table, a new process has none.
* A copy that fails is no snapshot, and the write it was meant to cover is done
  all the same (`security/rollback.py:78`).
* `Perception.build` passes a dictionary to an evaluation that reads attributes,
  so that it reports no anomalies.
* The filter of `broadcast` looks at the role of the event's actor, not at that
  of the receiving client (`routers/ws.py:80`).

## 6. What is not modelled

* Sessions: histories kept for an hour and only read into prompts; a race with
  the expiry loses turns, not operations.
* WebSocket push: copies of audit events for browsers. The client list may change
  while a send is awaited; what is lost or sent twice is a display.
* Baseline learner and proactive inspection: statistics and thresholds over
  sensor output; the one effect on decisions, the critical alert, is `Alert`.
* Parallel executor: no production code calls it.
* Sensors, anomaly and knowledge rules, input patterns, redaction, prompt
  assembly, argument lists and subprocesses, trace ids, settings, read-only
  endpoints, frontend: text and process I/O without state to check. In the
  models they are inputs (any answer of the LLM, any output blocked or not, any
  input rejected or not) or effects.

## 7. Running

    tlc -config MCConfirmFlow.cfg MCConfirmFlow.tla
    tlapm CapabilityTokenProofs.tla
