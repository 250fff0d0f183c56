# Verification of Crewhelm's control plane

Crewhelm lets one owner operate a fleet of AI agents on a serverless platform.
Every owner has one *OwnerControlPlane* Durable Object, which decides what may
run; every Agent has a *CrewAgent* object with a directory of sessions; every
session is a *CrewSession* object in which a Run works. Around them are the
Registry of published Recipes and the CLI that brings an installation up. The
objects share no memory. They call each other, any call may fail or lose its
answer after it has taken effect, any object may be evicted between two storage
operations, and all timed behaviour of an object hangs on its single alarm.

This directory holds TLA+ models of the protocols between those parts, TLC
configurations that check them on small instances, and proofs that hold for
instances of any size.

| file | content |
| --- | --- |
| `RunLife.tla`, `RunLifeRefinement.tla` | what the owner promises of a Run, and the mapping of the ledger to it |
| `RunAdmissions.tla` | the admission ledger of one owner |
| `ToolExecutions.tla` | external tool calls and approvals, composed with the admission ledger |
| `RuntimeToolExecutions.tla` | native tools and their Sandboxes, composed with the two ledgers above |
| `SessionTools.tla` | the tool calls of a session between model, owner and provider, composed with all three |
| `AdmittedRuns.tla` | one Run in its session |
| `AgentInbox.tla` | the owner's inbox and the outboxes that write to it |
| `SessionDirectory.tla` | the sessions of one Agent |
| `ScheduleDispatch.tla` | one Schedule and the alarm that turns its occurrences into Runs |
| `EventTriggers.tla` | Event triggers, the provider's trigger instance, the alarm that turns events into Runs |
| `Workflows.tla` | one Workflow, its runtime, its deliverable and its deletion |
| `Briefs.tla` | Briefs in database and bucket, and who holds them |
| `Skills.tla`, `RecipeInstallations.tla` | the Skill library, and the installation of a Recipe on top of it |
| `Publications.tla` | the publication of a Recipe at the Registry and its maintenance |
| `AgentConnections.tla` | Connections and the grants of one Agent; extended by the next two |
| `ConnectionLinks.tla` | links to accounts at Composio |
| `RemoteMcpConnections.tla` | Connections to remote MCP servers and their OAuth requests |
| `ProviderConfigs.tla` | authentication configurations at the provider |
| `Installations.tla` | `up` and the two rehearsals of the CLI |
| `*_proofs.tla` | theorems about them, one module for each group of components |
| `MC*.tla`, `*.cfg` | instances for TLC |
| `PROJECT.json` | the index: components, runs, mutants, source lines, hazards, theorems |

Run one instance with `tlc -config MCRunAdmissions.cfg MCRunAdmissions`, the
proofs of one module with `tlapm RunAdmissions_proofs.tla`.

## Inventory

Paths are relative to `src/apps/worker/src/` unless they begin with `src/`.

### Owner control plane (`owner/`)

| part | state | operations | what is hard | correct when |
| --- | --- | --- | --- | --- |
| Run admissions, `runs/module.ts` | `run_admissions` | create (new, replayed, stale, answered), cancellation in three steps, verify, confirm, verifyActive, releaseBriefContext, cleanup | clients repeat create; permits arrive late or twice; verify awaits a load between two transactions; authority changes between any two calls | a key names one Run, only the newest permit starts it, capacity holds, cancellation and revocation are final, nothing is kept for ever |
| External calls, `runs/tool-execution.ts`, `policy.ts` | `tool_executions`, `tool_approvals` | reserve (awaits the policy), dispatch, complete, reconcileExpired, reconcile, approvals | concurrent reservations, cancellation against dispatch, dead sessions, writes whose outcome nobody knows | a permit is spent once and never after a cancellation, budgets are exact, unknown writes are neither forgotten nor settled by a guess |
| Runtime calls, `runs/runtime-tool-execution.ts`, `sandbox.ts` | `runtime_tool_executions`, a Sandbox object each | reserve, dispatch, complete, reconcileExpired, reconcileCleanup | the alarm destroys Sandboxes over RPC that hangs and fails, while others do too | a Sandbox that may have started is destroyed before its row is forgotten |
| Authority, `configuration`, `agents`, `recovery`, `model-catalog` | revisions of fleet and Agents, Connections, grants | idempotent mutations | a change falls between any two steps of a Run | a change takes effect on every later decision, a revoked Connection stays bare |
| Schedules, `schedules/` | rows, revisions, occurrences | configure, claimDue, recordDispatch, recordSkipped | the alarm claims, asks other objects and records in separate steps; it is late, retried, or dies | one open occurrence, dispatched at most once, Runs do not overlap |
| Event triggers, `event-triggers/` | rows, revisions, occurrences | create, update, pause, resume, delete, recover, receive, claimDue, record | provider operations outlive their callers; deliveries repeat | the provider's instance is that of the live trigger, an event runs once |
| Workflows, `workflows/`, `agent-workflows/` | rows, stages, intents, deliverable | start, prepare, dispatch, complete, defer, cancel, delete, recover | runtime, alarm and owner advance the same stage | stages run once and in order |
| Agent channel, `agent-channel/` | inbox items, acknowledgements | project, defer, repair, acknowledge, prune | projections are late, lost, doubled, overtaken | a status never goes back, what needs the owner stays |
| Briefs, `briefs/` | rows, revisions, objects, intents | create, revise, delete, freeze, release | three steps over an object store | what a Run has frozen is neither changed nor deleted |
| Skills and Recipes, `skills/`, `recipes/` | library, objects, installations, receipts | publish, import, install, recover, publish a Recipe | several callers continue one installation | the library keeps its bounds, receipts are true |
| Connections, links, remote MCP, provider setup, `connections`, `remote-mcp-connections`, `provider-auth-setup`, `http/` | rows, requests, tokens | reserve, complete, return, activate, exchange, refresh, delete | a return arrives twice or late; a crash in the exchange; a refresh beside a replacement | a token is used once and for its reservation, rows agree with the provider |
| AI gateway usage, blueprints, authoring drafts | documents, counters | idempotent mutations, polling | little | |
| Owner object and alarm, `durable-object.ts` | one storage alarm | alarm, routing of owner calls | one alarm for all deadlines above | no deadline is lost |

### Agents and sessions (`agent/`)

**CrewAgent session directory** (`session-directory.ts`): mappings of Runs to
sessions, preparation, acceptance, rollback, deletion. Hard: each step is a call
to another object. Correct when no routed Run loses its session.

**CrewSession** (`admitted-runs/module.ts`): the record of a Run, its submission,
the turn, structured output, its outbox and schedules. Hard: eviction between any
two steps, two callers of one Run. Correct when a Run is completed only over a
valid output, ends once, and its storage goes only when nothing works in it.

### Around them

The Registry (`src/apps/registry`), the CLI (`src/apps/cli`), contracts
(`src/packages/contracts`), the Composio client (`src/packages/composio`), the
capability compiler, inference adapters, the MCP facade and HTTP routing, the
owner's OAuth server, the site and the design system. Of these the first two keep
state across crashes and are modelled; the others translate, validate or compile.

## The models

### RunAdmissions and RunLife

`admissions[r]` is the row of Run `r`. A Run id is drawn at random, so an id has
status `none` until create draws it and `deleted` once the cleanup removed its
row. Each operation is one SQLite transaction and one action; verify is two,
`Verify` and `VerifyLoaded`, since it loads Skill packages in between, and
`loading` holds the permits that wait there. A permit is the number of its issue,
and the permits in flight are all that were ever issued: they may be lost,
repeated and overtaken without a channel to model that.

Most operations run `#cleanup` first. `Cleaned` is its effect on the admissions
and `CleanLedgers` on the ledgers that share the database; it expires permits,
keeps rows with unknown writes, undestroyed Sandboxes or Briefs, and deletes the
others. Time is kept in each row: `age` since the issue, `runAge` since the
redemption, `keep` until the cleanup; all three saturate, so no clock bounds the
behaviours. `authority` is what the checks read of the rest of the owner;
`ChangeAuthority` changes one part of it at any time, as far as `Volatile` lets
the instance. Abstracted: digests, denial codes, the contents of permits, and the
instant create reads before it awaits a digest.

`RunLife` is the abstract specification: a Run is queued, works, is cancelled or
refused, is collected, and its budget is spent only between its start and its
cancellation. `RunLifeRefinement` maps each row to such a life.

### ToolExecutions

Adds the external ledger. `ReserveBegin` reads the gate and evaluates the policy,
`ReserveCommit` reads it again in the transaction that claims the call. `Gate` is
that snapshot with the counts the code recomputes: calls of the Run, active
reservations of the grant, equal calls. `Dispatch` is resolveConnection and
claimRemoteMcp. `Complete` may be late, oversized, or about a call that was never
dispatched. `ReconcileExpired` is the alarm, at most `AlarmLag` ticks late;
`InspectRun` is a start or an inspection of one Run, which settles the same calls
and repairs one inbox entry only. Left out: usage windows of a day and thirty
days, costs, output limits other than "too large".

### RuntimeToolExecutions

Adds web research and sandboxed code, which draw on the same budget, and the
object behind each code call. A Sandbox is purged in three storage steps (mark and
own alarm, stop, drop storage); the owner's alarm awaits such a purge for five
seconds at most, and the session, the object's own alarm and purges the owner no
longer waits for are its `background`. The owner's alarm is split where the code
awaits: `AlarmBegins`, the awaited RPC, `AlarmEnds`, deciding with the time it
began at (`alarm.final`, `alarm.due`). Assumed: a Sandbox opens within
`OpenWindow` of its deadline, less than the `Horizon` after which it is forgotten
(the contracts give 120 s and 180 s). Left out: inputs and digests (all calls of
one tool are duplicates), output, the order within a batch.

### SessionTools

The tool calls of a turn: authorized, waiting for approval, checked, reserved,
dispatched, executed, completed. Every call of the owner may be lost before or
after its effect; the provider may apply an effect after the session stopped
waiting; a restart takes what the session held in memory. Composed with the
owner's ledgers, so that what the model is told can be compared with them.

### AdmittedRuns, AgentInbox, SessionDirectory

`AdmittedRuns` is one Run in its session, from acceptance to the deletion of the
storage. A handler runs uninterrupted between two awaits of another object, a
model or a tool, and such a stretch is one action. `crew` is everything the
session keeps; what is in memory only is lost by a restart. The owner's answers
and the Think framework are external and arbitrary.

`AgentInbox` has one outbox slot per Run, the timers that carry projections, and
deliveries in flight; items are written by projections, cancellations, alarm
repairs, inspections and a Schedule's deferral, and pruned at a capacity.

`SessionDirectory` routes starts to sessions: prepare, accept, roll back, end,
delete by owner or expiry, and deliver the end of a stage to its Workflow.

### ScheduleDispatch and EventTriggers

One Schedule of one Agent. The alarm claims (`ClaimRecoverable`, `ClaimDue`) and
walks through inspect, start and record; `Abandon` is an error or eviction at any
of them, `StartFailed(reached)` an error answer with the Run admitted or not.
Left out: calendar recurrences, pruning, the limit of five per alarm.

Event triggers of one source: a lifecycle request writes the wanted operation into
its row, a recovery calls the provider and finalises it. What was sent may fail
before or after the provider acted or land late; recoveries of the caller, of its
replay and of the alarm overlap. Late requests of one trigger land in any order, a
deletion before the creation it followed included. The one assumption is on a trigger
deleted before its creation was confirmed (`LastSearch`): an upsert, which the code
gives up after 5 s, has landed or never does when the last search begins, four
minutes later (four retries of 60 s, `event-triggers/module.ts:1417`). `stray` is a
history variable: it marks an instance made by a late upsert of a trigger that
already had one. Events are received, claimed and tried like occurrences. Left out:
signatures and the webhook subscription.

### Workflows, Briefs, Skills, RecipeInstallations, Publications

`Workflows`: the runtime, whose steps are retried while the first call still runs,
the alarm and the owner are three workers that read the row, await, and write.
`Briefs`: the object is put first and the row committed after it; deletion seals,
removes objects, removes rows; holders are the frozen contexts of Runs and
Workflows and the definitions of Schedules and triggers. `Skills`: bytes are
reserved, the package put, the version committed; rows and objects stay.
`RecipeInstallations` extends it by the row of an installation, which any client
continues from the receipt it read. `Publications`: authorization, plan,
publishBundle with each request to database and bucket, and the hourly maintenance
with quarantine, clean-up and index, with time in hours. Assumed there: one
publisher, a request takes at most an hour, publishBundle two, the maintenance one
at a time; `RequestCalls` says in which invocations a request is repeated.

### AgentConnections, ConnectionLinks, RemoteMcpConnections, ProviderConfigs

`AgentConnections` has the rows of Connections and the grants of one Agent's
revisions, with attaching, detaching and revocation. `ConnectionLinks` adds links:
reserve, dispatch, complete, the browser's return, activation, expiry; a token is
the number of its issue. `RemoteMcpConnections` adds OAuth requests, direct
creations and replacements, refreshes of rotating credentials and deletion; a
credential is the number of its issue at the provider. `ProviderConfigs` has
enablements and setups in a browser, each of which reserves a place, asks the
provider, and asks again when the answer was lost. Left out: cryptography and
transport, listing.

### Installations

Cloudflare, the metadata file, the receipts of the rehearsals, and three kinds of
process (`up`, the rehearsal of a fresh installation, the rehearsal of an upgrade)
that may die between any two of their calls. Assumed: a call takes effect when it
is made or never, one process of each kind runs at a time, an owner confirms only
a database an `up` has left. Left out: Sandboxes, prompts, the doctor, the amount
of a spend limit.

### Composition

Components that share state are composed by extension: `SessionTools` on
`RuntimeToolExecutions` on `ToolExecutions` on `RunAdmissions`, links and remote
Connections on `AgentConnections`, installations of Recipes on `Skills`.
Components that share none are checked side by side in one instance: the MC module
adds a variable, `focus` (`standingFocus` in `MCStandingWork`), that names the
component a behaviour is about and never changes. `MCStandingWork`, `MCOwnerWork`,
`MCOwnerSetup` and `MCAgentRuns` are such sums; `MCSessionTools` has four parts of
one composition.


## Runs

| run | instance | states, depth | shows |
| --- | --- | --- | --- |
| `admissions` | 2 Runs, 2 keys, 2 payloads, 2 permits each, capacity 1 | 72,319, 21 | a key names one Run, the newest permit starts it, capacity holds, and the ledger implements `RunLife` |
| `authority` | 1 Run, Skills, Briefs, 6 kinds of change, 2 revisions | 228,496, 20 | no start and no claim under superseded authority or on what was found before the Skill load; every Run is collected in the end |
| `session_tools` | 2 calls of one Run; 2 Runs with one grant; a session's external call; its runtime call | 179,547, 27 | cancellation excludes dispatch, outcomes are final, grants hold across the await, the model is told the truth |
| `runtime_tools` | 1 Run, a runtime and an external call, budget 1 | 60,536, 26 | the shared budget; a Sandbox is not forgotten while it may run; both ledgers settle |
| `standing_work` | 3 occurrences, 2 revisions, 2 attempts; 1 trigger, 2 events, 3 revisions, history 2 | 307,537, 34 | one open occurrence, no overlap, one Run for an event, both settle |
| `owner_work` | 2 triggers, 2 late requests; a Workflow of 2 stages; a Brief with 2 keys, 2 revisions, 2 callers; 3 packages, 1 installation, 2 callers; 2 publications over 4 hours | 689,977, 47 | the provider agrees, stages keep their order, frozen Briefs stand, the library is bounded and consistent, receipts are true, the Registry stays whole |
| `owner_setup` | 2 links, 2 tokens; 2 remote Connections, 2 requests, 3 credentials, 2 dispatches; grants; 2 enablements, 2 setups; `up` beside a rehearsal of either kind | 626,958, 72 | tokens serve their reservation, revoked Connections stay bare, rows agree with the provider, an installation that was brought up keeps working |
| `agent_runs` | a Run in its session; 1 Run, 1 item, 3 moments; 2 Runs, 1 session; one Run started twice | 194,174, 18 | completed means validated, storage goes last, the inbox keeps what matters, no routed Run is lost, all settle |
| `unresolved_runs`, `package_deleted`, `rehearsal_cleanup`, `recipe_resumable` | small | | the four findings below |

Two of each kind suffice for the races: a property relates at most two Runs, two
calls, or a call and what it works on, and a third adds more of the same. A
capacity or a budget of one makes the second contend, two permits make one late,
two revisions make one stale, three occurrences give a previous, a pending and a
next one. Limits of time are one to three ticks, chosen so that each order of two
deadlines occurs that the contracts allow; in `session_tools` the retention
exceeds the longest Run and the lateness of the alarm together. Counters are
capped by constants that the guards name (`MaxAttempts`, `MaxRevision`, ...). The
theorems below do without these bounds.

Symmetry is used for Runs and keys in `admissions` and for calls and Runs in
`session_tools`, and never where liveness is checked. Deadlock is not checked: an
owner without work rests, and an instance stops when its ids are used up. Each
property of a passing run has a mutant in `PROJECT.json`, a plausible mistake in
the code that the property catches in the same instance.

### Fairness

Fair are the clock, the alarms and the retries, and nothing a client, a model or a
provider decides.

* Clocks (`Tick`, `RuntimeTick`, `RunTimePasses`). `RuntimeTick` is strongly fair,
  since one reservation after the other, each ended by a restart, could hold it up.
* Alarms (`Cleanup`, `AlarmBegins`, `EventAlarm`, `EventDue`, `ClaimRecoverable`,
  `AlarmReconciles`, `AlarmRepairs`): the code sets them to the earliest deadline in
  the operation that makes it, and the platform retries an alarm that throws.
  `AlarmEnds` and the awaited purge are strongly fair: the Sandbox stores a mark
  before it stops and both alarms try again.
* What a session retries by a schedule of its own until it is acknowledged:
  `ReleaseBriefContext`, `ExpireAdmittedRun`, `TimerFires`, and the answered delivery
  of the current projection (strongly fair: each attempt may be lost, not all of
  them). In the directory `ReadEnd` and `SendEvent`, answered.
* A suspended step of the owner (`DispatchStep`, the commit of a reservation) goes
  on or is dropped by a restart.

### Findings

Four runs check a statement of the documentation or the code and violate it;
`PROJECT.json` quotes them.

* `unresolved_runs`: an inspection or a start of one Run settles the overdue call of
  another as unknown without repairing the other's inbox entry. The alarm finds
  nothing overdue any more, and the other Run stays completed in the inbox.
* `package_deleted`: of two calls that publish one bundle side by side, the slower
  reserves an upload after the faster has committed. The clean-up of that
  reservation deletes the package that is listed.
* `rehearsal_cleanup`: a rehearsal whose creation of the database is answered
  uncleanly takes a database of that name that `up` made meanwhile for its own, and
  deletes it.
* `recipe_resumable`: of two calls that continue one installation of a Recipe, the
  slower writes its older receipt over the installed one, which no recovery accepts.

### Observations

Met while modelling, not the subject of a run.

Runs and tools. An admission with a Brief of which no session has a record is
never collected (`runs/module.ts:1334`, against `guides/schedules.md:79`). Of two
equivalent writes reserved side by side the second is dispatched although the first
became unknown (`tool-execution.ts:868`). With the shortest retention and the
longest duration a dispatched write that is still open is deleted with its
admission (`runs/module.ts:1348`); this is why `OutcomeIsFinal` needs a
hypothesis. A late completion is answered `completed: true`
(`tool-execution.ts:558`). Cancelling relabels a Run the inbox calls completed
(`agent-channel/module.ts:1531`).

Sessions. A start whose answer is lost may end as skipped while its Run works
(`durable-object.ts:1962`). A prepared session is rolled back while its acceptance
may still succeed, so a Run works unrouted (`session-directory.ts:1392`). An
overdue deletion of a session answers `run_missing` for ever (562). A cancelled
Run of a trigger is shown as one that needs action.

Event triggers. If the upsert of a creation times out, its replay settles the trigger
and the owner deletes it at once (`event-triggers/module.ts:694`, 1581-1585), the
first upsert may land after that and leaves an instance at the provider that no
trigger knows, against "deletion removes the provider trigger"
(`docs/architecture/system.md:183`). The same happens if a search finds the instance
early. `owner_work` reaches this state; `InstanceAgrees` names it by `stray` and says
that it is the only way an instance is left over.

Workflows and Briefs. A Workflow whose deletion met a missing object stays in
deletion (`workflows/module.ts:1574`). A failed Workflow returns to waiting, since
the deferral of a stage does not look at the status. A Schedule's or a trigger's
configuration is committed with Briefs read before an await
(`schedules/module.ts:217`). A refused create of a Brief deletes the object of a
concurrent one (`briefs/module.ts:379`). Pruning the history of events lets an old
event, delivered again, start a second Run under a later revision.

Connections. Two refreshes of one rotating token run side by side
(`remote-mcp-connections/module.ts:964`). Tokens of an exchange whose commit fails
are not revoked. Links and remote Connections count the capacity separately. A setup
whose session expired while its outcome was unknown keeps its reservation
(`provider-auth-setup/module.ts:130`). An enablement repeated after it was given up
is not preceded by a list.

Recipes, Registry and CLI. A lost answer of a publication makes its retry answer
`no_changes` (`publications.ts:684`); reverting to an earlier content fails at the
commit and blocks the coordinates for hours; keys that the facade derives from a
JSON-RPC id collide between sessions. Two concurrent `up` replace each other's
secret; `up` may adopt a gateway that a rehearsal is about to delete
(`bootstrap.ts:2718`); Worker, bucket and gateway are deleted by name after an
unresolved verification; the end of an upgrade rehearsal overwrites the metadata
without its spend limit. It also writes the coordinates it began with over a route
that `up` has saved meanwhile (`rehearsal/public/upgrade.ts:932`), and the next `up`
deploys without that route, which upgrades should preserve
(`docs/security/threat-model.md:348`). The proof of `InstallationKept` failed there,
and TLC showed it with four versions; the property now says nothing of the route
after such an end.

## Proofs

The theorems hold for all values of the constants that satisfy the named
assumptions of the modules (`LimitsAssumption`, `TimeAssumption`, ...), so for any
number of Runs, calls, keys, callers and ticks. They are stated over each
component's specification; `StandingTypeCorrect`, `OwnerTypeCorrect`,
`OwnerSetupTypeCorrect` and `AgentRunsTypeCorrect` are about the sums that TLC runs.
Each proof has an inductive invariant, which TLC checked before, and one step for
each action. Every leaf is checked by tlapm, nothing is assumed beside what is
listed here.

| module | theorems about | argument |
| --- | --- | --- |
| `RunAdmissions_proofs` | types, key, permit, capacity, cancellation, revocation, stale load, `RunLife` | what a step may do to a row is one of five things (`RowStep`); `Consistent`: unused and deleted ids are bare, no row is ahead of the owner. Capacity is counted. The refinement says that one Run moves, one is admitted, or all are swept (`OneRunMoves`, `OneRunAdmitted`, `AllSwept`) |
| `ToolExecutions_proofs` | cancellation, budgets, grants, outcomes, and the admissions beside calls | `LedgerInv`: counters are the number of calls, and what was decided before the await is decided again at the commit; `LedgerStep` says what a step may do to a call |
| `RuntimeToolExecutions_proofs` | Sandboxes, and all of that beside an awaiting alarm | `SandboxSafe`: what is forgotten has a deadline a horizon ago and cannot open again, and what the alarm awaits is not forgotten |
| `SessionTools_proofs` | what the model is told, and all of that with sessions | `CrewInv`: what a session holds or told agrees with what the ledger settled and the provider did |
| `StandingWork_proofs` | Schedules, events, the provider's instance | `InOrder`; `EventFollows` and `RunsKnown`; `InstanceInv`: what a leased or given-up provider call may still do fits the row and the instance, which has a trigger that knows or will find it, or is a stray |
| `AgentRuns_proofs` | completion, deletion, inbox, routing | `CrewSound` per turn, output and report; `BoardSound`, `AckSound` for the inbox; `Linked` for sessions and their starts |
| `OwnerWork_proofs` | Workflows, Briefs, Skills, Recipes, publications | `WorkflowInv`: a worker holds only a stage whose predecessors completed; `BriefsInv`; `RecipesInv`: an import under way reserved its name, a receipt names what its calls imported; `LibraryFits`: who puts or commits a package has reserved it; `PublicationsInv` |
| `OwnerSetup_proofs` | links, remote Connections, configurations, installations | `LinkInv`; `RemoteInv`, on the rows and grants both share (`AgentInv`); `ConfigInv`: an enablement that is not settled knows what the provider may have made; `InstallationInv`: ids and versions are given once, a migrated database stays migrated, and what a process knows of its database, its secret and the metadata is still so while it may deploy |

The guarantees of the admission ledger are proved of each system it is part of, not
only of the ledger alone. `AdmissionStep` bounds what a step may do to rows,
revisions and loads, and maps it to `RunLife`; `AdmissionBehaviour` is any
behaviour of such steps, and has all of them: key, permit, capacity,
cancellation, revocation, status, stale load, refinement. `ToolAdmissions`,
`RuntimeAdmissions` and `SessionAdmissions` then show that a reservation which
spends a Run's budget after an await, a settlement that repairs an inbox entry
and an alarm that erases what it chose some awaits ago are such steps
(`ToolNextStep`, `RuntimeNextStep`, `SessionNextStep`). The argument needs the
composed ledgers: a call that is committed late is within the budget only because
`LedgerInv` counts it.

`PublicationsInv` deserves a word. A call that may still write has bounds on the
hours of its requests. From them follows that no clean-up has quarantined or
claimed an upload a call holds, so a package that is listed, or is about to be,
is not deleted; and the contents of a key that has not published are published
nowhere, so a clean-up that deletes by content deletes nothing of another key.

Hypotheses of single theorems, each with its reason:

* `MaxDuration + AlarmLag < Retention` in `OutcomesStand`, `RuntimeOutcomesStand` and
  `SessionOutcomesStand`: the contracts allow equality, and then the third part of
  `OutcomeIsFinal` fails (see the observations). The bound is tight and holds in the
  run.
* `HistoryFits` in `EventsRunOnce`: there are finitely many events and the history
  has room for them. The code prunes the history, and an event delivered again
  after that is a new one to it.
* `OneCallEach` and `OwnContents` in the theorems about publications and in
  `OwnerTypeCorrect`: a request is carried out by one invocation, and different
  requests publish different contents. Without the first, `package_deleted` is a
  behaviour; the second is the same under two keys. The code checks neither.

Only model-checked is liveness (`NothingRetainedForever`, `LedgersSettle`,
`StandingWorkSettles`, `AgentRunsSettle`): the prover has no rule for fairness or
ENABLED. Every other property of a passing run is the property of a theorem. The
bytes of the Skill library are counted as the cardinality of a set, each byte being
one of a package at a place: a sum over a set is a fold, of which only induction
could tell more than its definition.

## Not modelled

| part | why |
| --- | --- |
| AI gateway usage | it polls and counts, and guards no decision |
| Blueprints, authoring drafts | each operation is one transaction over one document |
| Agent capability compiler | a pure function; whether it succeeds is nondeterministic in the models |
| Owner OAuth server | configuration of a library that keeps the protocol state |
| MCP facade, HTTP routing | translation of calls; the keys it derives are among the observations |
| Inference, model access | streaming adaptation; answers of a model are arbitrary in the models |
| Site, design system | static |
| drivers of the CLI's rehearsals and the end-to-end scripts | they call what is modelled, and check answers |

## Plan

1. Blueprints beside retirement, and the drafts the facade edits.
2. The rehearsals' own drivers, which call what `Installations` models.
