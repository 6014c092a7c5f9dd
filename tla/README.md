# Campfire: TLA+ models, model checking and proofs

Campfire is a self-hosted campaign tracker for tabletop role-playing games: a
NestJS server (`src/apps/server`) on one SQLite file, a React client
(`src/apps/web`) and a shared schema package (`src/packages/schema`). One Node
process serves everything. This directory models the parts of the server whose
correctness depends on the *order* in which things happen, checks the models
with TLC and proves the most important facts about them with TLAPS.

Five parts are modelled:

* the **AI driver**, the optional seat in which an AI runs the table: streams
  that last minutes, a queue of waiting callers, levers that must interrupt
  them, a kill switch, durable control state that has to come back safely after
  a crash. A wrong interleaving here is felt by people: an AI that goes on
  talking after someone stopped the table;
* the **token budget** that every AI call is paid from;
* the **review queue**, where a proposal is claimed, applied and audited in
  separate steps that may race or fail;
* **encounters**: the turn engine with its undos and resent clicks, resolved
  actions with what they cost, what they break and how they are undone, the one
  live fight of a campaign, and the hit points that live both in a fight and on
  a character sheet;
* **files**: uploads and their erasure, backups and whole-server restores,
  with a crash anywhere.

Contents: [1 Inventory](#1-inventory) · [2 What makes this code hard](#2-what-makes-this-code-hard) ·
[3 Modules](#3-modules-and-how-they-correspond-to-the-code) · [4 Runs](#4-runs) ·
[5 Disagreements](#5-where-the-code-and-its-comments-disagree) · [6 Proofs](#6-what-is-proved) ·
[7 Plan](#7-plan) · [8 Not modelled](#8-not-modelled)

## 1 Inventory

Paths are below `src/apps/server/src/modules/` unless they start with `src/`.

| Component | State | Operations | Interacts with | Correct when |
|---|---|---|---|---|
| **AI driver, control state** (`ai-driver/ai-driver.service.ts`) | per campaign: an in-process session record (`sessions`), its row in `ai_driver_control_state`, the last input | pause/resume, takeover/handback, vote, collaborative mode, session phases, secret-read approvals, tool confirmations, hydration after a restart, teardown | safety holds (callback), seat configuration (teardown callback), notifications, audit, stream | frozen stays frozen until a human thaws it, across crashes; the mode survives unrelated levers; authority that was spent never comes back; a greeting always ends |
| **AI driver, turns** (same file) | the turn slot (`session.status`), `actionQueues`, `activeGenerations`, running `runTurn` calls | message, queue, drain, provider step, retry, tool call, stop | spend lock, providers, MCP tools | one turn at a time; a stop is final; every caller is answered |
| **Table safety** (`safety/table-safety.service.ts`) | one `table_safety_holds` row per campaign | activate, release | driver's freeze hook, gates in play-advancing services | a hold is durable before anything else happens, and a seat under a hold takes no input |
| **AI seat and token budget** (`ai-dm/ai-dm.service.ts`) | `ai_dm_seats` counters (used, reserved, unknown, refunded, overage), reservations, per-campaign spend locks | configure, reserve, meter, mark unknown, reclaim, reset | driver, scribe, co-DM, server cap | no two spenders use the same tokens; every call is charged once, whatever fails; a dead process's reservations are charged, not forgotten |
| AI console (`ai-console/`) | the experimental flag, caps | kill switch, overview | driver | off means off, at once |
| Scribe, co-DM, inbox sweep (`scribe/`, `ai-dm/co-dm.service.ts`, `inbox-sweep/`) | drafts, a sweep ledger | draft, sweep, classify | proposals, budget, notes | a note is swept once; a failed sweep can be retried |
| Providers, pricing, maps, portraits (`ai-provider-config/`, `ai-pricing/`, `ai-map/`, `ai-portrait/`) | configuration rows | CRUD, calls to external services | driver, budget | configuration look-ups |
| Proposals (`proposals/`) | a proposal's status and snapshot | propose, approve, reject, revert | every canon service | approved once, applied once, or back to pending |
| Encounters, action resolver (`encounters/`) | encounter, combatants, turn index, action chains, idempotency keys | start, next turn, damage, resolve, apply, undo, end | characters, safety hold, driver | one running encounter; a retried write happens once; undo reverses exactly one apply |
| Attachments, file deletion (`attachments/`) | metadata rows, files, held and armed deletions | upload, delete, sweep | backup | no row without its file, no file deleted that a row still names |
| Backup, restore, boot guard (`backup/`, `src/apps/server/src/db/boot-guard.ts`) | staged archive, database file, markers | backup, stage, apply at boot, roll back | attachments, migrations | after a crash at any point a boot ends with the old data or the new, whole |
| Authentication, OAuth, OIDC, reset (`auth/`, `oauth/`) | sessions, codes, refresh tokens, reset tokens | login, exchange, rotate, redeem, revoke | users | single-use things are used once |
| Membership, roles, invites (`membership/`) | members, invites with use counts | invite, accept, promote, demote, remove, leave | every permission check | a campaign keeps a DM; an invite is not over-used |
| Sessions, scheduling, organized play (`sessions/`) | series, occurrences, RSVPs, rooms | extend, reschedule, cancel | notifications, scribe | an occurrence is generated once; stale edits are refused |
| Session zero, safety tools (`session-zero/`, `safety/safety.service.ts`) | charter versions, consents | publish, consent, withdraw | driver prompt | a consent belongs to the version it was given for |
| Inventory, characters, tokens (`inventory/`, `characters/`, `tokens/`) | rows | CRUD, transfer, HP | encounters | a transfer neither loses nor doubles an item |
| Revisions (`revisions/`) | revision log | record, restore | canon services | a restore does not silently overwrite a newer edit |
| Notifications and push (`notifications/`) | rows, subscriptions | fan-out, send, expire | everything | bounded work; dead subscriptions go |
| Campaigns and content (`campaigns/`, `quests/`, `npcs/`, `locations/`, `factions/`, `notes/`, `comments/`, `storylines/`, `timeline/`, `search/`) | rows | CRUD with permission filters | proposals, revisions | secrecy filters (data, not control) |
| Libraries, modules, catalog, export, rules | rows, archives | import, export, look-up | content | conversions round-trip |
| Moderation, audit, users, settings, MCP server, events, health, observability | rows, counters | administration | all | record keeping |
| Database (`src/apps/server/src/db`) | schema, migrations | boot | all | one-off migrations |
| Web client, schema package | view state; types | rendering; validation | REST | nothing the server trusts |

`PROJECT.json` lists the same components with their status.

**How the driver's parts talk to each other.** Levers, messages and holds are
HTTP handlers of the one process. `TableSafetyService` writes its row and then
calls the driver's freeze hook synchronously. `AiDmService.configure` calls the
driver's teardown hook when the seat leaves Driver mode. The console's kill
switch clears the experimental flag and aborts every generation. A turn and a
lever share the session *object*: a lever writes it while the turn is suspended
in an await, and the turn notices at its next authority check. A turn started
from the queue is a recursive `runTurn`, whose result answers the queued
caller's promise.

**How the other parts meet.** Proposals call the services of the entities they
change, which know nothing of proposals; the row and the entity are linked by
ids only. Encounters and characters write each other's copy of the hit points
and compare `updatedAt` tokens to find out who is behind. Attachments, backups
and restores share the database file and the uploads tree: the erasure queue
lives in the database that a restore replaces. A whole-server restore is the one
operation that closes the database under everybody else.

## 2 What makes this code hard

* **Interleaving at awaits.** One process, so code between two awaits is
  atomic; but a turn awaits for minutes. Everything it read before an await may
  be stale after it: the slot, the queue array, the session object, the budget.
* **Three fields say "frozen"** (`status`, `state`, `actingDm`) and two say
  which mode the seat is in (`state`, `collaborative`). Nine levers rewrite
  them. A lost freeze or a silently widened autonomy is one missing line.
* **Crashes.** The row is written after every lever; holds are written before
  the seat is; hydration writes the row back and announces after. Each gap is a
  place where the process can die.
* **Liveness by hand-off.** Queued callers are answered only because some turn
  that ends drains the queue, one entry at a time.
* **Stops racing everything.** A stop may arrive during set-up, a stream, a
  backoff, between two tool calls, or with the queue half drained, and may be
  lifted again before the turn noticed.
* **Two copies of one truth.** The turn pointer and its index, a combatant's hit
  points and the sheet's, an attachment's row and its bytes, a proposal's row
  and what was applied: each pair is kept in step by hand, in several places.
* **Undo.** A turn and a removal can be taken back after other things happened;
  what is put back is a snapshot of a state that may be gone.
* **Steps without a transaction around them.** A file system and a database
  change one after the other; a claim, an entity write and an audit are three
  writes. Any of them may fail, and the process may die between any two.

`PROJECT.json` `hazards` lists them at their lines with the properties that cover them.

**Why the awaits are cut where they are.** better-sqlite3 is synchronous, so
most `await`s of this code resolve in the same turn of the event loop. Those
that really suspend are the provider stream, the DNS look-up in provider
resolution, the campaign spend lock, the retry sleep and tool calls.
`DriverControl` treats a lever as one action accordingly. `DriverTurns` cuts
`runTurn` at all of those, and also at `assertRunnable` and
`getActionQueueDepth`: these resolve without I/O today, but the code defends
against interleaving there (its comments cite issues #1497 and #1586), so the
model lets it happen. The disagreements of section 5 never need one of the
latter two cuts. `Proposals` likewise lets other requests in between a
handler's reads and writes, which today follow each other without leaving the
event loop in most services: what it shows does not rest on that. `Uploads`
and `Restore` do the opposite, since the file calls there are synchronous: only
a crash or a failure comes between two steps, except where a thumbnail is
rendered and while a backup copies files.

## 3 Modules and how they correspond to the code

| Module | What it is |
|---|---|
| `DriverSession` | Pure operators: the session record, what each lever does to it, what is persisted, what hydration reads back. Used by both state machines. |
| `DriverControl` | State machine of one seat's control state: memory, row, hold, two-step writes, crashes and restarts. |
| `DriverControlProofs` | Theorems about `DriverControl` and their proofs. |
| `DriverTurns` | State machine of concurrent messages on one seat: slot, queue, generation handle, spend lock, stops. |
| `DriverTurnsProofs` | Theorems about `DriverTurns` and their proofs. |
| `TokenBudget` | State machine of the seats' counters, the server-wide cap, the spend lock and the provider calls that spend. |
| `TokenBudgetProofs` | Theorems about `TokenBudget` and their proofs. |
| `Review` | What a review queue promises: content changes by direct edits or by a proposal nobody has decided yet. |
| `Proposals` | State machine of the review queue: rows, requests between their steps, entities. Implements `Review`. |
| `ProposalsProofs` | The refinement and the other theorems about `Proposals`. |
| `TurnOrder` | State machine of one running encounter's turns. |
| `TurnOrderProofs` | Theorems about `TurnOrder` and their proofs. |
| `ActionChain` | State machine of resolved actions: previewed, applied, undone. |
| `ActionChainProofs` | Theorems about `ActionChain` and their proofs. |
| `LiveFight` | State machine of one campaign's fights around one character's sheet. |
| `LiveFightProofs` | Theorems about `LiveFight` and their proofs. |
| `Uploads` | State machine of attachments, their files and the erasure queue. |
| `Restore` | Extends `Uploads` with backups, restores, crashes and boots. |
| `RestoreProofs` | Theorems about `Uploads` and `Restore` and their proofs. |
| `MCDriverTurns`, `MCTokenBudget`, `MCTurnOrder`, `MCActionChain`, `MCLiveFight`, `MCProposals` | Symmetry of identities for TLC. |

### DriverSession

One record, one operator per lever: `Paused` and `Resumed` are `setPaused`,
`VotePassed` is the passed branch of `resolveVote`, `TurnClassified` is
`detectAndTransition`, `Hydrated` is `loadPersistedControlState`, `Persisted`
is what `persistControlState` writes. `SettledShape`, `ShapeOf`, `RecoveryOf`,
`Announces` and `RecordedShape` are the restart announcements.

Abstractions: a resolved vote is no vote (nothing reads it again); the two maps
of outstanding authority are one set `grants`; the last input is only "a
player's", "the greeting's", "the wrap-up's" or none; scene, narration,
counters, the advisory takeover request and the aftermath window are left out,
but the levers that write only those are actions, since they save the row and
so clear the announcement marker (`CastBallot`, `RequestTakeover`).

### DriverControl

| Variable | In the code |
|---|---|
| `session`, `loaded` | the entry in `sessions`, and whether this process has hydrated it |
| `row` | the `ai_driver_control_state` row; a missing row equals a fresh one |
| `held` | `table_safety_holds.active` |
| `hook` | a hold change whose freeze hook has not run yet |
| `pending` | notices `ensureSession` still has to send after writing the row back |
| `turns` | running `runTurn` calls: set-up, generating, returned (slot given back, not settled) |
| `approving` | approved confirmations whose tool call is still out |
| `fate`, `quiet` | ghosts: what became of each grant; a recovery was announced and nobody acted since |

Every handler is an action (`Pause`, `Resume`, `GrantTakeover`, `Handback`,
`OpenVote`, `CastBallot`, `PassVote`, `FailVote`, `SetCollaborative`,
`EmergencyPause`, `Teardown`, `AddGrant`, `DropGrant`, `ApproveConfirmation`,
`RaiseHold`, `ReleaseHold`, `StartSession`, `WrapUpSession`, `Message`,
`ReplayLifecycle`) and the continuations of suspended ones are others
(`BeginGeneration`, `FailSetup`, `FinishGeneration`, `SettleTurn`,
`ExecuteConfirmed`). Two handlers write twice in a row and can die in between:
a hold (row, then hook: `RaiseHold`/`ReleaseHold` then `ApplySafetyHold`) and
hydration (row, then notices: `Hydrate` then `AnnounceRestart`). Nothing else
runs between the two writes (`LoopFree`), except a crash. `Crash` keeps the two
rows and nothing else. Lifecycle turns are never queued, so the queue is not
needed here.

### DriverTurns

A request is a process; `pc` names the await it is suspended in (the module's
header lists them). `sessions`/`cur` are session *objects*, because teardown
replaces the map entry while turns keep the object they have. `queue` and
`installed` are the array in `actionQueues`; a caller suspended in
`getActionQueueDepth` holds a reference to an array that may meanwhile have been
dropped (drained empty) or flushed, which `ticket` records. `gen` and `stopped`
are the generation handle and its flags; `lock` the spend lock; `armed`,
`killed`, `broke` what `assertRunnable` reads; `caught` a ghost of the requests
a stop has caught and that have not begun to unwind. `Env` names what the environment may do in a run, so that
each run exercises its question and the disagreements of section 5 can be
switched on one at a time.

Abstractions: the stuck classification and the phases are in `DriverControl`;
the scribe's use of the spend lock is left out (it can only delay); a step's
tool calls are one visible call each time authority is checked at dispatch.

### TokenBudget

A spender is one provider call. Driver steps (`runAttempt`) and scribe runs join
the campaign's spend lock (`Join`), look at the budget again when it is theirs
(`Enter`) and release it (`Leave`); a narrated turn (`takeTurn`) and a co-DM
draft just start (`Begin`). All of them reserve (`Reserve`), wait for the
provider (`Answer`) and settle: `MeterTurn` with the measured cost, or
`MarkUnknown`, which consumes the whole hold. Either transaction may throw
(`MeterFails`, `MarkFails`): metering falls back to marking inside `meterTurn`,
and a scribe run has one more fallback of its own, also when only the audit row
after a committed transaction failed, which is where the `settled` flag matters.

| Variable | In the code |
|---|---|
| `seat` | the counters of each `ai_dm_seats` row |
| `cap` | `settings.aiServerTokenCap`, 0 for none |
| `call` | each call's place, its reservation (`hold`, `settled`) and its predecessor in the lock |
| `tail` | `spendLockTails`; the promise chain is `pred` |
| `up` | whether the process has booted and run `reclaimStaleReservations` |
| `granted`, `ceiling`, `arrivals`, `place`, `owes` | ghosts: the highest budget and cap the counters have lived under, the order of arrival, what a call is on the books for |

`Crash` keeps the rows and the cap; `Reclaim` turns what is left reserved into
unknown spend before the server listens again. People change budgets and caps
(`SetBudget`, `SetCap`) and zero the counters (`ResetUsage`). A call's
settlement is one transaction and the flag is set in the same turn of the event
loop, so no crash comes between them that anyone could observe.

Abstractions: `refunded` and `turnCount` (counters nobody decides by), the usage
history, models and prices; a seat switched off refuses like one with an empty
budget. The inbox sweep's classifier calls its provider without a reservation and
is no spender here.

### Review and Proposals

A request is one call of approve, reject, withdraw or revise. It reads the row
(`ReadToApprove`, `ReadToDecide`, `ReadToRevise`), then compares and sets the
status (`Claim`, `Decide`, `Revise`); an approver goes on to write the entity
(`Write`, `WriteFails`), to put the proposal back where that failed (`Revert`)
or to record what was applied (`Finalize`). Any of the three may fail, and
`Crash` takes every request with it.

| Variable | In the code |
|---|---|
| `row` | the `proposals` row: status, action, target, payload (its revision), base snapshot |
| `content` | the entities' rows, `updatedAt` included |
| `req` | requests between their steps, and what each has read |
| `audited` | `proposal.approve` audit rows |
| `applied`, `stranded` | ghosts: what a proposal's entity write did; claims lost to a crash or a failed revert |

`Review` knows neither claims nor failures. The refinement maps a claimed but
unapplied proposal to an open one: the decision happens when the entity is
written, and the claim before it is no more than a lock. Two values of `Env`
stay out of the run, `late_failure` and `revise_overlaps` (section 5).

### TurnOrder

Every handler is one transaction and one action: `AdvanceCurrentTurn`,
`UndoTurn`, `RemoveCombatant`, `UndoRemoveCombatant`, `AddCombatant`,
`SetInitiative`, `HpWrite`. The exception is the index an initiative write
recomputes after its commit (`Reindex`). A client's click carries a key and the
combatant it saw; it may be sent again whether or not the answer was lost
(`Click`, `Resend`, `Replay`, `Refuse`).

| Variable | In the code |
|---|---|
| `roster`, `init`, `down`, `timers` | the `combatants` rows |
| `enc` | the `encounters` row: pointer, phase, resume, index, round, versions |
| `ticks` | turn events that still carry a tick snapshot |
| `claims` | `encounter_op_idempotency` |
| `intent` | the clients |
| `receipt` | the last `combatant_removal_undos` row |
| `reindex` | an initiative write between its commit and its recomputed index |
| `moved`, `prior`, `ready`, `acted` | ghosts: how often a click moved the pointer; what there was before its last move; who was able when the round began and who has had a turn |

### ActionChain

What an action does to a fight, from its preview to its undo. Apply and undo are
one transaction each; what makes them hard is everything that may happen between
the three. `Apply` follows the order of the code: claim, check the turn, check
the costs, pay and break the actor's concentration, hurt and queue the saves of
the shaken, break the concentration of the dropped. `Undo` puts the stored rows
back by the code's rules (`Reverts`, `Restored`, `Refocused`), which differ for
targets, bystanders and the actor, and gives the costs back.

| Variable | In the code |
|---|---|
| `there` | which `combatants` rows there are |
| `board` | of each row: hit points; `turnState.concentration`; the ids in `pendingConcentrationChecks`; whose concentration sustains a condition instance |
| `used`, `slots` | `turnState.used` of the action's slot; the sheet's used spell slots |
| `turn` | `encounters`: the pointer and `turnVersion`, which stands for the round too |
| `chain` | `action_pending_resolutions` (pending) and `action_apply_chains` (applied, undone) |
| `passed`, `fresh` | ghosts: previews whose turn is over; applied chains whose actor has not begun another turn |

A snapshot keeps the whole fight before the action and after it (`was`,
`after`); `Restored` reads of `was` only what the code stores, and `after` only
says when an undo ought to be exact. The label of a concentration is "cast" for
one that an action began and "spell" for any other. The saves that the tracker
queues for one combatant count as one (`Damage`). A new concentration begins
only where there is none, since one that replaces another first ends it.

### LiveFight

One character in several fights of one campaign. A fight is created, started,
ended, reopened, trashed and restored; hit points are written in a fight
(`UpdateCombatant`), on the sheet (`EditSheet`) or for the whole party
(`RestParty`); conditions and spell slots move tokens only (`StampCombatant`,
`EditConditions`, `EditNotes`). A token is `characters.updatedAt`, which
`nextUpdatedAt` always advances. `known` is a ghost: what each fight has heard
of the sheet. `revived` is another: running fights that came back from the trash.

### Uploads and Restore

`loop` is the handler the event loop is in the middle of; a step of it either
succeeds or, where `Env` allows, fails. An upload reserves its row, stages,
links, unlinks and commits; a deletion holds its paths in the erasure queue,
commits and arms; the drain, the cleanup of orphans and the boot reconcile. A
restore moves the database and the uploads aside, moves the archive's in,
checks, and reopens; `failing` leads it into the rollback. `Crash` and `Boot`
come between any two steps; the boot guard refuses a database that is missing
where files say there was one. Ghosts: `acked` (uploads the server confirmed),
`before` (what a restore began with), `late` and `torn` (section 5).

## 4 Runs

All bounds are named constants of the configurations.

| Run | Question | Bounds |
|---|---|---|
| `DriverControlRestarts` | Is the mode kept; does a crash at any point come back frozen when it must; is spent or discarded authority gone from memory and disk; is a recovery announced once; who can thaw; is a transient phase (greeting, wrap-up) always ended? | one member, the vote to override (a vote to pause does what the lever does), one turn, one approval, one confirmation, two deaths. Two deaths make "restart after a restart" happen, which is what the announcement marker is about. |
| `DriverTurnsStops` | One turn at a time; no leaked slot; stopped streams are aborted; a stop is final and reaches every waiter; every queued caller is in the installed queue, once | three requests, queue of one, one step, two attempts, one teardown, every kind of stop, exhausted budget, expiry, failing set-up |
| `DriverTurnsAnswers` | Is every caller answered? | three requests, queue of two, holds, teardown, expiry, failing set-up |
| `TokenBudgetLedger` | Is every call on the books exactly once; do reservations equal the holds of unsettled calls; are budget and cap kept up to measured overage? | one scribe run, two calls outside the lock, two seats, budgets 1 and 2, no cap or a cap of 2, costs up to 2, failing transactions, one death, one move by a person |
| `TokenBudgetLock` | Is the spend lock first come, first served; does everyone get through? | three driver steps, one scribe run, one seat, failing transactions, one death |
| `Proposals` | Does the queue implement `Review`; is no approval hollow, no audited row false, no storyline edit overwritten unseen? | two proposals, two entities (one of them a story arc), three requests, one edit, two revisions, failing writes, reverts and finalizations, one death. Three requests make an approver, a rival and an author. |
| `TurnOrderPlay` | Does a click count once; does the index follow the pointer; does undoing a turn put it and its timers back? | three combatants, one with lair actions, initiatives 10 and 20, four clicks sent at most twice, racing; one hit, one undo, timers of two rounds |
| `TurnOrderRoster` | Does the pointer always name somebody there; is nobody passed over; is undoing a removal exact or harmless? | four combatants, one joining late, one lair, three clicks, one hit, two joins, removals or initiative writes |
| `ActionChain` | Are actions paid for however often they are undone; do the dropped stop concentrating; does an undo put back everything the chain took; does a player's action land in the turn of its preview? | two combatants, two chains, two hit points, one action a turn, one slot, two new turns, two writes by the tracker |
| `LiveFight` | Does the pointer name the live fight; do tracker and sheet agree as far as they were told; does an end never overwrite what a fight has not seen? | three fights, three hit point values, five writes to the sheet. Three fights make one that is over, one that runs and one being prepared. |
| `Restore` | Do acknowledged uploads stay, deleted bytes go, and does a restore that fails or dies lose nothing? | two attachments, one failure of a file operation or of a restore's step, one death, one backup and restore |
| `RestoreFails` | *violated*: section 5 | one attachment, one failure |

**What the passing runs leave out**, because each is the trigger of a
disagreement in section 5 and would hide every other question behind it. It is
named in `Env`, so it can be switched on:

| `Env` value | Module | What it is |
|---|---|---|
| `early_resume` | `DriverTurns` | resuming or handing back while a turn of the seat still unwinds |
| `early_teardown` | `DriverTurns` | tearing the seat down while a request is still being set up |
| `pause`, `kill`, `budget` | `DriverTurns`, liveness run only | gates that refuse a drained entry |
| `early_reset` | `TokenBudget` | zeroing the counters while a call is in flight |
| `late_failure` | `Proposals` | an entity service that throws after its write has landed |
| `revise_overlaps` | `Proposals` | a revision between an approver's read and its claim |
| `initiative` | `TurnOrder`, `TurnOrderPlay` only | an initiative written while turns go on |
| `stale_resume` | `TurnOrder` | undoing a removal that gives the lair slot back its successor after the turn has moved |
| `self_drop` | `ActionChain` | a concentrating actor that is a target of its own action and drops |
| `queued_saves` | `ActionChain` | a target that drops while older saves of its concentration are queued |
| `orphan_saves` | `ActionChain` | a downed actor that drops saves of a concentration it no longer has |
| `late_undo` | `ActionChain` | an undo after the actor's next turn has begun |
| `stale_undo` | `ActionChain` | an undo of a fight that has changed since |
| `stale_stamps` | `LiveFight` | a fight that gets the sheet's token without its hit points |
| `snapshot_fails`, `cleanup_fails` | `Restore` | setting the old state aside, or removing it, fails |

`TurnOrderPlay` undoes turns and `TurnOrderRoster` removes combatants; the two
together are a disagreement too.

**Why the bounds are enough.** Two requests can contend for the slot and a third
makes one queued while another joins; with one step per turn every await of the
loop is visited, and a second attempt visits the backoff. In the budget, two
calls hold reservations side by side while a third finds what is left, and a
cost of two against a hold of one is an overage; on two seats the cap of two is
exhausted by one of them. In the lock, a queue of three behind an owner has a
first, a middle and a last. In a turn order of three there is a current one, a
next one and one to pass over; the initiatives put combatants before and after
the lair slot. Five writes let a sheet be changed, a fight end, another end
over it and a third be reopened. Two combatants are an actor and a bystander who
may each be a target, concentrate on something that the other suffers, and act
in turn; two chains are nested or made one after the other, two turns leave and
come back to the same combatant, two hit points separate hurt from dropped.
Nothing compares identities where symmetry is
used; the runs with a liveness property do not use it.

**Deadlock** checking is off except in the `DriverControl` runs: when every
request has been answered, every fight is in the trash or every bounded move is
used up, the system may stop.

**Fairness.** Liveness assumes that every await settles: provider calls, sleeps
and DNS look-ups have timeouts and the spend lock is first come, first served.
Each request's (turn's) continuation is therefore strongly fair; strong because
other handlers may take the event loop in between, but the ready queue is
first in, first out. A call that spends needs only weak fairness: once its
predecessor has released the lock, or its provider or transaction has answered,
nothing disables its next step. The boot after a death is weakly fair: a
supervisor restarts the process. In `Restore` a handler at work goes on
(weakly fair), and the drain, which a timer runs every fifteen minutes, is
strongly fair in the form in which no path resists: files may refuse to go, but
not for ever. People promise nothing: no lever, message, release or refill is
fair.

Every property of a passing run has a mutant in `PROJECT.json`: a plausible
slip in the code (a missing save, a dropped guard, a status written without its
state) that the run catches.

## 5 Where the code and its comments disagree

One has a run that TLC finds violated, with the quoted lines in `PROJECT.json`
`findings`:

1. `RestoreFails`: `applyRestoredState` notes that it has set the previous state
   aside only after all its moves. If the uploads cannot be moved aside, the
   database already is; nothing is rolled back, the boot guard rightly refuses
   an empty place, and the server is left without a database. If removing the
   set-aside state fails half way, the rollback restores what is left of it.
   (Read in the code and not modelled: the `finally` deletes the rollback
   directory even where putting it back failed.)

The others are reached by changing a configuration as described; runs are kept
for questions whose answer is yes.

2. *Resume over a takeover.* A DM grants a takeover, pauses, resumes:
   `setPaused` overwrote `human_control`, so the resume un-freezes the AI
   although the acting-DM grant stands. The comment says resuming never takes
   the seat from a human who holds it. `DriverControl` states it
   (`ResumeKeepsHuman`); add it to `DriverControlRestarts`.
3. *Lost notice.* The grants are cleared from the row before the notice that
   they were discarded; a death in between loses the notice. The comment claims
   the opposite order of loss (`DiscardsAreAnnounced`).
4. *Two turns at once.* Pause and resume while a turn is being set up put
   `status` back to `idle` with the turn still there; the next message runs
   beside it (`OneTurnAtATime` with `early_resume`).
5. *Orphaned stream.* A turn torn down during its set-up later registers its
   generation handle over the new session's; a pause then aborts the wrong
   stream (`StreamsAreStopped` with `early_teardown`).
6. *Stranded callers.* A drained entry that is refused at a gate ends no turn,
   so nothing drains the entries behind it (`CallersAreAnswered` with `pause`,
   `kill` or `budget`).
7. *Reset under a call.* Resetting the counters while a call is in flight zeroes
   its reservation. The same tokens can be reserved again, and when the old
   call settles it takes its hold off a newer call's reservation
   (`HoldsAreReserved` with `early_reset`; one campaign, one scribe run, one
   direct call and a budget of 2 suffice).
8. *Stale hit points win.* `hp-sync.ts` (lines 4 to 9) says that ending a fight
   must not silently overwrite newer sheet hit points, and trusts a fight whose
   `sheetSyncedUpdatedAt` equals the sheet's `updatedAt`. But writing a
   condition in the fight (`updateCombatant`), breaking a concentration,
   spending or refunding a spell slot (`action-resolver.service.ts`) and editing
   conditions on the sheet (`syncActiveCombatantConditions`) all give the fight
   the sheet's new token without comparing hit points. A fight is prepared, the
   party rests (only running fights are told), the fight starts, somebody gets
   a condition, the fight ends: the hit points from before the rest replace the
   sheet's, where without the condition the end would have been refused
   (`EndKeepsUnseenSheet` with `stale_stamps`, six states).
9. *Two live fights.* Restoring a fight that was trashed while it ran asks
   nobody whether another is live (issue 744 is about starting and reopening).
   `LiveFight` excepts such fights (`revived`).
10. *Applied twice.* An entity service that throws after its write landed sends
    the approval into its revert, and the next approval applies the proposal
    again (`ReviewIsKept` with `late_failure`).
11. *Audited otherwise than applied.* A revision between an approver's read and
    its claim leaves the new payload in the row and the old one applied
    (`AuditedRowIsTrue` with `revise_overlaps`).
12. *A stale index.* After an initiative write commits, `turnIndex` is computed
    from the pointer read before it; if the turn moved meanwhile the index names
    somebody else (`IndexFollowsPointer` in `TurnOrderPlay` with `initiative` and
    `MaxMoves` 1). The pointer is right, and the next turn corrects the index.
13. *Undo into an empty seat.* When everybody is down the turn is nobody's. Undoing
    that may retreat into a lair slot that has nobody to resume from
    (`PointerNamesTheRoster` in `TurnOrderRoster` with `MaxUndos` 1).
    `PointersNameTheRoster` is proved for histories in which no such turn is
    undone; undoing any other is harmless.
14. *A thumbnail after the deletion.* A rendering that outlives its attachment
    writes its file without another look at the row (`late`, excepted by
    `NoOrphanBytes`).
15. *Death between the two swaps of a restore.* The database is the archive's
    and the uploads are not there yet; the next boot starts on that pair
    (`torn`, excepted by `AcknowledgedStays` and `NoOrphanBytes`). Nothing is
    lost: `PreviousStateKept` holds there, but somebody has to look.

16. *Felled by one's own spell.* An actor's concentration is broken before its
    targets are hit, by a comparison with the hit points it had before. A comment
    in the target loop (`action-resolver.service.ts`, at line 2286) leaves an
    actor that drops itself to "the actor break below", which is now above: it
    lies there and concentrates (`DownDoNotConcentrate` with `self_drop`).
17. *Saves lost in an undo.* A target that drops loses its concentration and the
    saves queued for it. The undo gives back the concentration, but the older
    saves only if the *actor's* concentration was touched
    (`chain.startedConcentration`): it goes on concentrating with nothing to
    roll (`UndoIsExact` with `queued_saves`). An actor that lies down and breaks
    loses whatever saves it still has, and gets them back only with a
    concentration: saves of one that it no longer has, since the combatant it
    held a spell on was removed, stay lost (`UndoIsExact` with `orphan_saves`,
    three combatants, one chain, single targets, no new turn and four writes by
    the tracker).
18. *Refunded twice.* An undo takes one from the actor's used actions, whenever it
    comes. After the actor's next turn has begun that is an action of the new
    turn, which may then be taken twice (`SpendsAreCovered` with `late_undo`).
19. *Undo over newer writes.* An undo puts back hit points from before the action
    whatever happened since, and a concentration where there is none now. Somebody
    who was felled in between is up again, or down and concentrating
    (`DownDoNotConcentrate` with `stale_undo`).
20. *A late successor.* `undoRemoveCombatant` gives a waiting lair slot its old
    successor back "only if no later write has chosen a different lair resume
    target" (`encounters.service.ts`, lines 7150 to 7158), and tells that by the
    combatant now waited for. A later lair slot may wait for the same one: with
    combatants 1 (lair, on 20) and 2 (on 10), 2 is removed in the lair slot, 1
    acts, the next lair slot waits for 1, the removal is undone, and that slot
    now waits for 2: 1 is passed over (`NobodyIsPassedOver` with
    `stale_resume`).

Smaller ones in the turn engine: undoing out of the lair slot from the wrap goes
back a round too far and may hand the turn to a downed combatant; legendary uses
are not given back; the lair slot leads the first round only when nobody rolled
20 or more; a turn is guarded by the combatant's id, so a sole able combatant's
next turn can be ended by a second click meant for the first. In the file queue,
a hundred paths that cannot be erased keep newer ones from being tried
(`FS_DRAIN_BATCH_LIMIT`), and thumbnails that a restored database calls ready
have no files, since a backup does not copy them. In the action resolver, an
undo also refunds slots and uses that a rest has already given back (rests are
not in `ActionChain`).

In the AI driver: A handback does not
look at the safety hold, so the seat reads healthy under a standing hold (new
turns are still refused by the hold itself). Releasing a hold with `resume`
leaves the seat paused like every other recovery, although the endpoint's
description says it un-freezes. A replay of a greeting that is refused because
the greeting is still running advances the phase in its own clean-up
(`RefuseReplay`). `meterTurn` promises that a hold handed to it is always
settled, but if the fallback's own transaction throws as well the hold stays
until a reset or a restart (`MarkFails`), and its body does not look at
`settled` as the field's comment says; no caller settles first and meters after.

## 6 What is proved

`DriverControlProofs` proves, for any sets of members, turns, votes and grants
and any number of crashes (assumptions: `NoOne` is not a member, vote kinds are
the code's two, approvals and confirmations are different things,
`MaxCrashes` is a natural number):

* `TypeCorrect`, `SeatShapeHolds`, `ModeRestoredHolds`, `DurableHolds`;
* `FreezeSurvives`: dying at any moment never thaws a frozen seat or an
  interrupted turn and never takes the seat from the human who holds it;
* `GoneStaysGone`: authority that was spent or discarded is neither in memory nor
  in the row again;
* `AnnouncedOnce`: a boot after which nothing happened is not announced again by
  the next;
* `ThawedByPeople`: only a resume, a handback, a teardown, or the release of a hold
  before the seat is loaded, turns frozen into not frozen.

The argument. None of the invariants is inductive alone: that the row equals
the persisted session is needed to know what a boot reads, the shape of the seat
is needed to know that what is read back has that shape, and the types hold the
two together. `IInv` is therefore the conjunction of a condition on the seat
(`SeatInv`: a `Sound` session, a well-typed row, the row durable) and the types
of the rest (`ServerInv`). One lemma per `DriverSession` operator says that it
keeps a session `Sound`; `SaveKeepsSeat` and `LeverKeepsInv` lift that to the
state machine; one lemma per action group follows; `NextKeepsInv` collects
them. `FreezeSurvives` is then a fact about one record (`FrozenComesBack`: what
`Hydrated` makes of `Persisted` of a coherent session) together with `IInv`.

The other three need what `IInv` does not say (`MoreInv`): grants in memory or in
the row are live, and none are left while a boot has some to announce
(`GrantInv`); before the first request nothing is under way (`ColdInv`); and what
another boot would find equals what was announced last (`QuietInv`). Most
handlers save the seat and touch no grant; `Handled` is the form they share, and
is shown once to keep all three.

`DriverTurnsProofs` proves, for any requests, depth of the queue, steps, attempts
and session objects (assumptions: `NoOne` is no request, the bounds are natural
numbers, and there is room for one entry and one attempt):

* `TypeCorrect`;
* `NobodyIsStranded`: whoever waits in a queue is in the installed one, once, or
  has been told otherwise;
* `TurnsTakeTurns`, `NoSlotIsLeaked`, provided nobody resumes a seat while a turn
  of it unwinds (disagreement 4);
* `StreamsObeyStops`, `StopsAreFinal`, provided also that nobody tears the seat
  down during a set-up (disagreement 5).

The argument has three layers, each built on the one below. `QueueInv` is about
waiting and holds whatever `Env` allows. `SlotInv` is about the slot: nobody is
ahead of the session in the map, spare session objects are fresh, and a turn
that has the seat shows in its status (`SeatIsTaken`), so that only an idle seat
is taken. `StopInv` is about streams: whoever is about to get the slot or sets
up holds the session in the map (`Attached`), so the handle it registers is the
one a stop will find (`HandleIsMine`), and an abort that was caught bars what
comes after it (`CaughtIsBarred`).

`TokenBudgetProofs` proves, for any finite sets of campaigns and calls, any budgets
and caps and any number of deaths (assumptions: `NoOne` is no call, no call is both
in and outside the lock, amounts are natural numbers, and the largest request a
call may make is positive):

* `TypeCorrect`;
* `SpendLockServesInOrder`: at most one call is inside a campaign's spend lock,
  and it came before everyone else who holds or awaits it;
* the ledger, provided nobody zeroes the counters under a call in flight
  (disagreement 7): `ReservationIsTheHolds`, `CallsAreBookedOnce`,
  `SeatStaysWithinBudget`, `SeatsStayWithinCap`.

The argument. "First come, first served" speaks of calls that are inside; to
know that the one let in is the oldest, one must know whom everyone waits for.
`LockInv` says that places differ (`PlacesDiffer`), that the map entry is the
youngest of its queue and absent only when the queue is empty (`TailIsLast`),
and that whoever has someone ahead waits for the nearest of them
(`WaitsForNext`). Joining uses `TailIsLast` to establish `WaitsForNext` for the
newcomer; leaving uses that nobody is ahead of the owner (`NobodyAhead`), so
nobody waits for it who has another one ahead; every other step leaves the queue
alone (`QuietKeepsLock`).

The ledger's properties equate a row with a sum over calls. The prover cannot use
an induction rule that takes a predicate, but it can use a fact about sets: a
nonempty family of subsets of a finite set has a minimal member (`NoDescent`), so
a smallest set on which a claim about sums fails leads to a contradiction. That
gives: any member may be taken out first (`SumTakesOut`), equal summands give
equal sums and zeros sum to zero (`SumsSame`, `SumOfZeros`), and a sum moves with
its one summand that changes (`SumMoves`). Each step then changes one
call and one row (`TotalsMove`); `LedgerInv` adds what the guards promise of the
row (`Books`, `Limits`) and what each call's place says of its hold
(`CallsAgree`).

`TurnOrderProofs` proves, for any finite set of combatants, any initiatives, lairs,
timers, clicks and tries (assumptions: combatants are positive ids, in the order
they were added; a fight starts with somebody; the bounds are natural numbers):

* `TypeCorrect`, `PointersAreThere`;
* `PointersNameTheRoster`: the turn or the lair slot's successor is always
  somebody, provided no undo takes back a turn that was nobody's (disagreement
  13);
* `ClicksCountOnce`: however often a click is sent, the pointer moves once for it;
* `TheIndexFollows`, provided no initiative is written while turns go on
  (disagreement 12);
* `RemovalUndosAreExact`;
* `UndoneTurnsRevert` and `NobodyPassedOver`, provided no removal's undo gives a
  later lair slot an old successor (`stale_resume`, disagreement 20).

The argument. The handlers search a sorted list; the properties speak of the order
itself. The first part of the module shows that `Sorted` is that order
(`IsOrder`: every id once, `Precedes` between neighbours and so between any two)
and what the searches return: the first able one after the pointer, the first of
all on a wrap, the last one before it on an undo. The rest uses only these.
`BaseInv` says that pointer and receipt name combatants who are there or were
removed; `WaitInv` that lair slots have a successor; `ClaimInv` that the claims
are the clicks that moved; `IndexInv` and `ExactInv` that versions only grow, so
that a receipt whose versions still match describes the present; `WentInv` what
the last turn did to the timers, so that undoing reverses it; `ResumeInv` and
`GoInv` that everyone before the pointer who was able has had a turn.

`RestoreProofs` proves, for any number of attachments, failures, deaths and
restores (assumptions: `Missing` is no database, tree, copy or archive; the bounds
are natural numbers):

* `TypeCorrect`, `NothingIsOrphaned`, `PreviousSurvives`;
* `UploadsStay`, provided the removal of what was set aside does not fail;
* `FailuresAreUndone`, provided setting the old state aside does not fail either
  (disagreement 1 is why).

The argument. Between handlers, the database and the tree agree (`PlaceInv`): what
was acknowledged is there and every byte has an owner. A handler breaks that and
mends it; `HandlerInv` says how far each has come. A restore moves both aside;
`RestoreInv` says for each of its steps where the old and the new are, and
`BeforeInv` that what was set aside agreed when it began, so that putting it
back restores agreement. `BackupInv` is why the archive agrees too. A death
anywhere forgets the handler and leaves a state that one of these describes.

`LiveFightProofs` proves, for any fights, any hit points and any number of
writes (assumptions: `NoFight` is no fight, `MaxWrites` is a natural number):

* `TypeCorrect`, `PointerFollows`, `OneFightIsLive`, `TrackerFollowsSheet`;
* `EndNeverOverwrites`, provided no fight takes the sheet's token without its
  hit points (`StampsAreEarned`; disagreement 8 is why it must be assumed).

The argument. That a refused end is refused whenever it must be is a fact about
tokens, not about hit points: a fight that missed a write holds a token strictly
older than the sheet's (`UnseenIsStale`). Every write to the sheet is one of two
forms, a value that some fights take over (`Told`) or a token that some fights
take over (`Stamped`); `SheetWriteForms` says so, and each form is shown once to
keep what is claimed. The first form keeps `UnseenIsStale` by itself, the second
only if the fights it stamps have missed nothing.

`ProposalsProofs` proves, for any proposals, entities, requests, edits,
revisions and crashes, with writes, reverts and finalizations failing at will:

* `TypeCorrect` and `HollowApprovalsAreKnown`, without further assumptions;
* `ImplementsReview`: `Proposals` implements `Review`, provided no entity
  service fails after it has written (`FailuresComeFirst`);
* `AuditsAreTrue`, provided also that no revision lands between an approval's
  read and its claim (`RevisionsKeepOut`);
* `StorylinesSurvive`.

The argument. The refinement needs to know that a write is the first: a request
past its claim holds an approved, unapplied proposal (`ClaimsAreTrue`), no other
request holds it too (`ClaimsAreSole`), and what was applied stays approved
(`AppliedIsApproved`). With these (`ClaimInv`) each action is a step of `Review`
or a stutter: `Write` is `Approve`, `Decide` is `Refuse`, `File` and `Edit` are
themselves, and a claim, a revert, a revision, a finalization and a crash change
nothing `Review` can see. For the audits, what an approver has read is still in
the row unless it was amended (`ReadsAreFiled`, `ReadsAreCurrent`), and a link
is to what was applied (`LinksAreTrue`). Hollow approvals need less: whoever
holds a claim is at it or stranded (`HollowInv`).

`ActionChainProofs` proves, for any combatants, chains, hit points, costs and
`Env` (assumptions: the bounds are natural numbers and the model values differ):

* `ActionsLandInTheirTurn`: a player's action lands in the turn it was previewed
  in, though the pointer may have gone on and come back to the same combatant;
* `TheDownDoNotConcentrate`: nobody who is down concentrates, provided no actor
  drops itself while it concentrates and undos come while the fight is as their
  chain left it (`Env` without `self_drop` and `stale_undo`; disagreements 16 and
  19 are why that must be assumed; `late_undo` and `queued_saves` may happen);
* `TypeCorrect`;
* `ActionsArePaidFor`: the chains that stand are no more than what is spent,
  provided no chain is undone once its actor's next turn has begun (`late_undo`,
  disagreement 18);
* `UndosAreExact`: an undo that finds the fight as its chain left it gives
  everything back, provided no chain drops queued saves that it does not store
  (`queued_saves`, `orphan_saves`, disagreement 17; undos may come late or over
  newer writes in between).

The argument. The pointer alone cannot tell the turns of one combatant apart;
`turnVersion` can, because nothing lowers it, `undoTurn` included. `VersionsAge`
says that a pending preview bears a version no greater than the turn's, and a
strictly smaller one once its turn is over; `StaleIsRefused` then is the
comparison in `SameTurn`.

That nobody who is down concentrates is not inductive, because of undo: it
puts back a snapshot over what the chain left. `CalmInv` therefore says that the
snapshots are calm as well, whoever has left since, and that what the chain left
is contained in its snapshot (`OnlyTakes`: fewer links, no new concentration for
somebody who was down, untouched hit points of those who were no targets).
`AppliedTakes` and `BrokenTakes` say this of the operators, `UndoTakes` that an
undo mixes the two without exceeding the snapshot; one lemma per handler
follows.

Payment is a count: `SpendInv` adds that the chains that stand are finitely many,
and an undo takes one from the count and one from what is spent. Exactness is a
fact about the two rows that a chain kept, for each combatant: what the undo does
not put back, the chain left alone (`GivesBack`). It is settled when the chain is
applied, field by field (`AppliedRow`), and used when it is undone (`UndoneRow`).
The saves need one more thing: a chain's id queues no save before the chain is
applied (`SavesAreOld`), or taking the id out would take too much.

Only model-checked: liveness (`CallersAreAnswered`, `SpendersFinish`,
`ErasureHappens`, `TransientPhaseSettles`), since fairness and ENABLED are
outside what TLAPS proves here. Every safety property and every action property
that a run checks is proved. `SeatShape`, `PointerIsThere` and the type
invariants need no run: they are proved. What the theorems assume of `Env` is
what the runs leave out, and each of these provisos is a disagreement of section
5, reached by switching it on.

## 7 Plan

Done: `DriverSession`, `DriverControl`, `DriverTurns`, `TokenBudget`, `Review`,
`Proposals`, `TurnOrder`, `ActionChain`, `LiveFight`, `Uploads`, `Restore`, and
the proofs of section 6. What would come next, in order:

1. `TableVote`: ballots, thresholds, churn of members, expiry; a vote is decided
   once. `ToolConfirmation`: identities that restart with the process.
2. `InboxSweep` with the scribe's leases.
3. An abstract seat that `DriverTurns` and `DriverControl` both implement.
4. Rests, limited uses and timed effects in `ActionChain`.

## 8 Not modelled

Rendering, wording, logging, notification texts; permission filters and content
records (data, not order); provider protocols (a call answers, fails or is
aborted); the tool policy tables (look-ups); rules import and export
conversions; migrations; the web client.

Single use of OAuth codes, refresh tokens, password-reset tokens and invites,
and the last DM of a campaign: each is checked and claimed in one synchronous
transaction of the one process. A model of it would be that transaction and
would hold by its shape; two processes on one database, which would make it
interesting, are not a supported deployment.

The sweep of the scribe's inbox, tool confirmations with their identities,
legendary and recharge counters, maps and tokens, aftermath. Of the action
resolver: targeting, plain conditions and timed effects, limited uses, the
lifetime and the cap of previews nobody applies, rests and corrections of the
economy by hand, and the sheets, whose side of it is in `LiveFight`. In the
modelled parts: quotas, the AI key file, the purge of a
campaign, archive validation and the override that lets a server boot on a fresh
database; the redaction of proposals for players and their creation in batches.
Removing a file and taking it off the erasure queue are one step, since both are
repeatable. The reason for each component is in `PROJECT.json`.
