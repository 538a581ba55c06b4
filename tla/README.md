# TLA+ models of relay-mere-run

relay-mere-run places AI work on machines its users own. Each account has one
Cloudflare Durable Object, the **relay** (`src/MereRunRelay.ts` and the
`src/relay-*.ts` handlers it delegates to). Owners submit work over HTTP;
**nodes** (`node/`, a desktop app and a headless daemon over one Rust agent)
hold a WebSocket to the object, execute what they are sent and report back.

This directory holds TLA+ modules of the parts of that system where order,
failure and concurrency decide whether it is correct, the TLC configurations
that check them, and TLAPS proofs for every value of the constants.

    tlc -workers 2 -config <X.cfg> <Module>.tla     # one run of PROJECT.json
    tlapm <Module>.tla                              # one proof module

## 1. Inventory

For each part: its state, its operations, what is hard about it, and what makes
it correct. The last column says where that is modelled.

### 1.1 The relay (one Durable Object per account)

The object keeps `ctx.jobs`, `ctx.chats`, `ctx.graphJobs`, ... in memory (maps
of what it lately handled), the same records in Durable Object storage (the
truth), and for each agent an *attachment* on its WebSocket (identity,
capability, `status`, `current_job_id`), which survives hibernation. Hibernation
or a restart empties the maps; a restart also drops the sockets.

| Part | State and operations | Hard behaviour | Correct if | Module |
|---|---|---|---|---|
| Generation jobs (`relay-api-jobs`, `relay-queue`, `relay-agent-job`, `relay-lifecycle`) | job record {status, agent, lease, attempts}; submit, place, dispatch, progress, result, cancel, requeue | dispatch suspends in R2; late results; lost nodes; a cache that forgets; nodes without leases | terminal stays terminal, only the latest holder is believed, retries bounded | `JobDispatch`, `LeasedWork` |
| Agent connections (`relay-agent-auth`, `relay-websocket`, `relay-agent-attachment`, `relay-api-status`) | attachment: connected, reserved for what; auth, supersede, availability, inventory, close, stale reset | frames reorder against results; frames name a job and not a lease; sockets outlive the object's memory | a device is only freed of the work it reports | `JobDispatch`, `Requests`, `SpeechStreams` (as far as each kind of work sees it) |
| Graph jobs (`relay-api-graph`, `relay-graph-operations`, `relay-graph-storage`) | planned → queued → assigned → running → finished / failed / cancelled; assets, commit, events, artifacts, result, retry, retention | nearly every handler suspends in R2 holding a job object; cancellation must settle at the worker | a suspended handler or a superseded worker neither undoes what others did nor doubles the work | `GraphJobs`; what a submission, an artifact and the event log must be like in `GraphRequests` |
| Graph custody and publication (`relay-graph-custody*`, `relay-graph-publication`) | assignment token, acknowledged payload that Relay then forgets, replay | token fencing; payload gone while the job must be retried | an assignment's upload is refused once it is superseded; the payload is there until it is confirmed, and nowhere afterwards | `GraphJobs`, `CustodiedWork` |
| Webhooks, alarm (`relay-webhooks`, `relay-alarm`) | delivery state {attempts, next_attempt_at}; one alarm for three timers | a delivery overlaps with changes of the work it reports; retries; the alarm is a minimum | what must be delivered is retried up to its limit, and the receiver of work that ends once is told one story | `Webhooks` |
| Chat, talk, asr, embed, ocr, tool (`relay-api-*`, `relay-agent-*`) | the same queue without leases or retries; a chat's idempotency key; a chat's answer is claimed, hashed, stored | answers that come late, from a node that was given up, or twice; cancels that cross them | terminal stays terminal, a key names one chat, a placed node stays with its request | `Requests` |
| Live speech (`relay-asr-stream`) | ticket, session {browser, agent, deadlines} | three parties close in any order; timers; the node's frames never name Relay's reservation | the browser is told one end, the agent is released, every session has a deadline | `SpeechStreams` |
| Model plans (`relay-model-plans`) | plan over targets, attempts; apply, cancel, event, result | results of old attempts, lost targets, nodes released by other work | only this attempt is believed, and a target that is applying is waited for with reason | `ModelPlans` |
| Capabilities, scoring, policy (`relay-queue`, `relay-fleet`) | what a node reports, its policy; choose a candidate, explain why there is none | six kinds of checks over optional fields, versions, two readings of the same rules | an eligible node is found, and the report says of a node what the scheduler does | `Placement`; policies also in `Requests` |
| Forwarding between accounts (`relay-lifecycle`, `relay-agent`) | a job of one object on a node of another | two objects, one lost call | as jobs | not modelled |
| HTTP front, auth, grants, R2 helpers, types, console, clients | stateless | – | – | not modelled |

### 1.2 The node

| Part | State and operations | Hard behaviour | Correct if | Module |
|---|---|---|---|---|
| Work gate (`work_gate.rs`) | semaphore of one permit + watched {busy, accepting, owner}; `acquire`, `try_acquire`, drop, `begin_drain`, `resume` | two variables changed at different moments by different threads | one execution at a time, none starts while draining, the published state is true, waiters start | `WorkGate`, `WorkSlot` |
| Headless daemon (`daemon.rs`) | drain file, ticker, SIGTERM, stop channel | file changes between read and use; kills | drain survives restarts; SIGTERM waits for work and ends | `NodeDaemon` |
| Desktop commands (`lib.rs`, `App.tsx`) | running, stop channel, `busy` of the UI | commands use the gate they close | commands return | `NodeDesktop` |
| Agent (`agent.rs`) | tasks, availability publisher, teardown | permit dropped before the result is queued; teardown reports failures | Relay's view converges on the gate's | `JobDispatch`, `Requests` (tasks, publisher), `NodeDaemon` (teardown) |
| Graph worker, plan worker (`graph.rs`, `graph_custody.rs`, `model_plan.rs`) | active ids, uploads | detached tasks outlive the connection | – | `GraphJobs`, `ModelPlans` (their tasks) |
| Live transcription (`asr_stream.rs`) | one process under the gate | ends by itself, by cancel, by limit, at once | – | `SpeechStreams` |
| Runtime driver, plugins, hardware, config, sign-in | processes, files | I/O | – | not modelled |

How they interact: owners → relay by HTTP; relay → node by WebSocket messages
(`job_request`, `cancel`, ...); node → relay by frames (`auth`, `availability`,
`progress`, `result`, ...) and HTTP uploads; relay → owner by webhooks; within
the object handlers share the maps, the storage and the attachments; within the
node the agent, the daemon and the UI share the gate.

PROJECT.json lists every part under `components` and 40 hazards, each at its
line; section 6 says which no property covers yet.

## 2. Modules

| Module | Models | Extends / instantiates |
|---|---|---|
| `WorkSlot` | abstract: one slot behind a switch | |
| `WorkGate` | the device work gate | refines `WorkSlot` (`ImplementsSlot`) |
| `WorkGateProofs` | theorems on both | EXTENDS `WorkGate` |
| `NodeDaemon` | daemon + gate + agent's life cycle + operator | EXTENDS `WorkGate` |
| `NodeDaemonProofs` | theorems | EXTENDS `NodeDaemon`, `WorkGateProofs` |
| `NodeDesktop` | desktop commands + gate | EXTENDS `WorkGate` |
| `LeasedWork` | abstract: work granted to one worker at a time | |
| `JobDispatch` | jobs in the object + connections + nodes | refines `LeasedWork` (`ImplementsLeasedWork`) |
| `MCJobDispatch` | the instances for TLC | EXTENDS `JobDispatch` |
| `JobDispatchProofs` | theorems: safety, refinement, inline images | EXTENDS `JobDispatch` |
| `CustodiedWork` | abstract: a payload held until it is confirmed, work placed only with it | |
| `GraphJobs` | one graph job in the object + its nodes | refines `CustodiedWork` (`ImplementsCustodiedWork`) |
| `GraphJobsProofs` | theorems: safety, refinement | EXTENDS `GraphJobs` |
| `GraphRequests` | what Relay takes for a graph job, an artifact, a log: pure operators | |
| `MCGraphJobs` | the instances for TLC, checks of `GraphRequests` | EXTENDS `GraphJobs`, instantiates `GraphRequests`, `Placement` |
| `Requests` | chat, talk, asr, embed, ocr and tool requests, connections, policies, nodes | |
| `ModelPlans` | a fleet model plan on the same nodes | EXTENDS `Requests` |
| `SpeechStreams` | a live speech session on the same nodes | EXTENDS `Requests` |
| `Account` | the three together | EXTENDS `ModelPlans`, `SpeechStreams` |
| `Placement` | which node may run what, and which gets it: pure operators | |
| `MCAccount` | the instances for TLC, checks of `Placement` | EXTENDS `Account`, instantiates `Placement` |
| `AccountProofs`, `AccountOutcomes` | theorems | EXTEND `Account` and `AccountProofs` |
| `PlacementProofs` | theorems on both modules of operators | EXTENDS `Placement`, `GraphRequests` |
| `Webhooks` | deliveries and the shared alarm | |
| `WebhookProofs` | theorems | EXTENDS `Webhooks` |

A definition named `Name_what` is a mutated form of `Name`; the mutants of
PROJECT.json put it in the place of `Name`, and the property then fails.

### 2.1 `WorkGate`

`permit` is the semaphore, `gate` the watched state (`owner` stands for the pair
source/work_id), `pc` where each task stands. An action is the code between two
points where another thread can run: `acquire` is `Call`, `SeeAccepting` (the
`wait_for`), `Grab` (the semaphore), `Admit` or `Refuse` (the second look inside
`send_if_modified`); dropping a permit is `Finish` (the state) and then `Release`
(the semaphore permit, a field dropped after the body of `drop`); `try_acquire`
is `TryCall`, `TryGrab` / `TryBusy`, then the same second look. `Worker` tasks
execute relay work; `Barrier` tasks acquire as `node-control`. tokio's FIFO
semaphore is weakened to strong fairness of each waiter's `Grab`.

### 2.2 `NodeDaemon`

The gate with its own actions, plus one process. A tick is three steps —
`TickLooks` reads the drain file, `TickObeys` acts on what was read, `TickEnds`
writes the health file and, after a signal, tells the agent to stop if the gate
names `node-control` — so the operator's `drain` and `resume`, another process,
fall in between. `Kill` may come at any time; `Boot` is `serve` up to its loop.
The agent is what the daemon sees of it: it brings work while it is up, ends by
itself only if sign-in is required, and cancels its waiting tasks while closing.

### 2.3 `NodeDesktop`

`start_node`, `drain_node`, `resume_node`, `stop_node`, `sign_out` with the UI's
`busy` flag, which disables the buttons between a click and the command's return.

### 2.4 `JobDispatch`

State: `job` (the stored record), `mem` (which jobs the object has in memory),
`connected` and `reserved` (sockets and `current_job_id` of their attachments),
`todo` (the rest of a running `assignQueuedWork`), `parked` (dispatches suspended
in an R2 upload); at the nodes `linked`, `tasks`, `gate`, `last` and `dirty` (the
availability publisher), and `wire` (results under way).

| Code | Action |
|---|---|
| `handleSubmitJob` + `finishSubmission` | `Submit`; the end of a suspended one in `Resume` |
| `assignQueuedWork`, one job of its loop | `PlaceNext` (nothing else runs while `todo` is not empty) |
| `sendJobToAgent` | `Dispatch`, or `Park` and later `Resume` |
| `cancelWork` | `Cancel` |
| `getJob` (reads) | `Poll` |
| `handleProgress`, `handleResult` | `HandleProgress`, `HandleResult`, `IgnoreResult` |
| `handleAvailabilityUpdate`, `handleInventoryUpdate`, `handleAuth` | `HandleAvailability`, `HandleInventory`, `HandleAuth` |
| `handleRelayWebSocketClose`, `failStaleAgentWork` | `HandleClose`, `CleanupStale`, both through `FailWork` (`failInProgressWork`) |
| the runtime | `Hibernate`, `Restart` |
| agent.rs | `TaskStarts`, `TaskEnds`, `TaskAbandoned`, `NodeDrop`, `GateChanged`, `LocalStarts`, `LocalEnds`, `ResultLost` |

What the model assumes of the platform, and why:

- **A step is what the object does without yielding to another event.** A
  Durable Object runs one thread, and its input gate holds events back while a
  storage operation is awaited, so a handler that only awaits storage is one
  step. `fetch`, R2 and calls to another object do yield. In the path of a job
  without webhook the only such await is `IMAGES.put` of an inline input image
  (`relay-queue.ts:652`): `Park` / `Resume`.
- **Relay's frames to a node arrive at once or never; a node's frames take any
  time.** Delaying the first kind adds nothing Relay can see: the node's reaction
  is itself delayed. Results wait in `wire`; an availability frame shows the gate
  when it is handled, and a result and a frame may be handled in either order.
- **The node's tasks.** A node drops a second request for an image or video job
  it still has (`agent.rs:901-909`); a second request of any other kind becomes a
  second task, and both run and report (`Takes`, `Deliver`; the constant
  `Uncancelled` names the jobs of those kinds, which a `cancel` frame does not
  stop either). So `gate` holds the task that owns it, and `Owner` is the job's
  id that the node's frames show of it. Between taking the permit and reporting
  there is one step, `TaskEnds`, that frees the gate and puts the result on the
  wire; the frame that tells of the free gate is still independent of it. A
  tracked task that waits may end at any moment (`TaskAbandoned`), with a failure
  result: that is more than the code does, which needs a cancel frame or a
  teardown.
- **Data.** A lease is the number of the dispatch it was drawn for (the code
  draws a UUID); capability, policy and routing are the constant `CanRun`, and
  the scorer's choice among the candidates is free; progress, images and results
  carry nothing.
- **Left out:** other kinds of work in the same queue (they could only be placed
  in between), jobs with `webhook_url` (`afterPersist` may suspend in `fetch`),
  forwarding, policy changes while the model runs, revoked nodes.

### 2.5 `LeasedWork`

What an owner may rely on: a job is granted to one worker at a time and at most
`MaxAttempts` times; only the worker that has the latest grant can report on it;
`complete` and `cancelled` are final. A worker that was given up may still
correct the assumed failure (`handleResult` accepts a result for a failed job
with its current lease). `phase` maps `assigned` and `generating` to "leased";
`working` is `tasks \cup wire`.

### 2.6 `GraphJobs`

One job, portable or under local custody (`custody`, chosen at the start). What
is hard in this code is that nearly every handler of a portable job suspends in
R2 while it holds a *JavaScript object*, and that the object it holds need not
stay the one `ctx.graphJobs` holds: cancel, result and error evict it, reads
load a copy, maintenance reads its own copy. So objects have identity: `heap`
holds them, `cur` is the one in the map, `disk` the stored record, and
`handler` says for each suspended handler which object it goes on with.
`getGraphJob` is `Current`, `At`, `Kept`; `saveGraphJob` is `SaveAt` (with the
redaction of `prepareGraphForStorage`); "save, then delete from the map" is
`SaveAndEvict`.

| Code | Action |
|---|---|
| `handleCreateGraphJob`, `recoverGraphReplay` | `CreateStarts`, `Create`, `Replay` |
| `handleUploadGraphAsset` | `UploadStarts`, `Upload` |
| `handleCommitGraphJob` | `CommitStarts`, then `CommitFindsMissing` or `CommitGoesOn`; `Commit` under custody |
| `assignGraphToAgent`, `sendGraphToAgent` | `Assign`, then `Dispatch` for a portable job |
| `assignQueuedWork` | `AssignQueuedWork` or `Collected` (the list), `LoopPlaces` (this job's turn) |
| `handleGetGraphJob`, `handleCancelGraphJob`, `handleRetryGraphJob` | `Poll`, `Cancel`, `Retry` |
| `handleGraphEvent`, `handleGraphError` | `HandleEvent`, `HandleError` (`Settle`) |
| `handleGraphResult` | `HandleResult`, then `ArtifactMissing` or `Verified`, then `Publish` |
| node requests | `Fetch`, `Acknowledge`, `StoreUpload`, `ManifestStarts`, `Manifest` |
| `failInProgressWork` and its callers | `FailWork` in `Connect`, `Close`, `Stale` |
| `handleAvailabilityUpdate` | `Available` |
| `handleGraphMaintenanceAlarm` | `Maintain`, `SweepEnds` |
| the runtime | `Hibernate`, `Restart` |
| agent.rs, graph.rs | `Request`, `Fetch` … as above, `TaskEnds`, `Drop` |

Simplifications, beyond those of `JobDispatch`:

- Only R2 suspends. A digest resolves without another event being handled, and
  a handler that suspends just for a request's body, and looks at the job again
  afterwards, is one step. The wait for a document of a custody bundle is a
  digest, so a job under custody is dispatched in one step; its only suspended
  handlers are the submission and the verification of a result.
- Nodes name the token of their request in every message; the branch for nodes
  that name none is not modelled. Workers report that they run; an external
  worker may put other states in its events, which Relay would take over for a
  portable job. An event may always be dropped, which covers sequence gaps.
- `Available` may clear the reservation at any time, `Connect` frees the device
  (a node that authenticates as busy is then simply not chosen), and after a
  `Restart` all sockets are gone at once.
- A task survives its connection (`up` is false): teardown tells it to stop, and
  until it does it may finish the request it is making.

### 2.7 `CustodiedWork`

What `docs/local-custody.md` promises: Relay holds the payload until the node
confirms it; work is placed only with its payload; a payload that is gone comes
back only with an exact resubmission; nothing finishes before a confirmed
delivery; a terminal job stays terminal, has no holder and no payload. `stage`
maps `planned` and `queued` to "waiting", `assigned` and `running` to "placed";
everything is read through `Current`, that is through what a client would be
told at that moment, memory or storage, so the refinement also says that
hibernation and restart are invisible. A portable job maps to "absent"
throughout: nothing is promised for it here.

### 2.8 `Requests`

State as in `JobDispatch`: `work` (the stored record), `mem`, `connected`,
`reserved`, `todo` in the object; `linked`, `tasks`, `gate`, `last`, `dirty` at
the nodes. New are `policy`, `keyed` (the chat an idempotency record names) and
`wire`, now one queue per connection, since a WebSocket keeps the order of what
a node sends. `setup`, chosen at the start and never changed, says which account
the behaviour is of: what is submitted, on which nodes, who else uses them.

| Code | Action |
|---|---|
| `handleSubmitChat` ... `handleSubmitTool` + `finishSubmission` | `SubmitChat` ... `SubmitTool`; `RepeatChat` for a known key |
| `assignQueuedWork`, `send...ToAgent` | `PlaceNext`, `Dispatch` |
| reads of a request | `PollChat` ... `PollTool` |
| `cancelWork` and the node's handling of `cancel` | `CancelChat` ... `CancelTool` |
| `handleChatResponse`, `handleChatError` | `HandleChatResponse` (claims), `ChatHashed` (after the digest), `HandleChatError` |
| `relay-agent-talk`, `-asr`, `-embed`, `-ocr`, `-tool` | `HandleTalkAnswer` ... `HandleToolAnswer`, `HandleToolProgress` |
| `handleAuth`, `handleAvailabilityUpdate`, `handleInventoryUpdate` | `HandleAuth`, `HandleAvailability`, `HandleInventory` |
| `updateFleetNodePolicy` | `SetPolicy` |
| `handleRelayWebSocketClose`, `failStaleAgentWork` | `HandleClose`, `CleanupStale` |
| the runtime | `Hibernate`, `Restart` |
| agent.rs | `TaskStarts`, `ChatReports` ... `PlanReports`, `ToolStops`, `TaskLeaves`, `Publish`, `NodeDrop`, `LocalStarts`, `LocalEnds` |

What differs from generation jobs, and so from `JobDispatch`:

- There is no lease, no retry and no requeue: a request is placed once, and its
  node's loss fails it.
- The kinds check late answers differently. A chat believes only the node it was
  given to, and only while it is processing; talk, asr, embed and ocr protect
  only a cancelled request; a tool's answer is taken whatever became of it.
- The node sends the answer first and gives its gate up afterwards (`Reports`,
  `TaskLeaves`), so that over one connection a frame that says "online" follows
  the answer it belongs to.
- The publisher looks at the gate when it was changed and sends what it sees
  then (`Publish`): several changes become one frame, that names the last work
  it saw. `MaxWire` keeps it from publishing into a full connection; nothing
  else is bounded by it.
- `closed` stands for a policy that is disabled or draining: both exclude the
  node from new work. A revoked node's socket is closed later, by `NodeDrop`.

Simplifications: bodies, models and results carry nothing; the deletion and the
upload of results in R2 change no record here; performance and
activity records are left out.

### 2.9 `ModelPlans`, `SpeechStreams`, `Account`

`ModelPlans` adds one plan: `plan` (state, attempt), `target` (each device), and
`sent`, the devices that still have the connection over which they were asked.
`createFleetModelPlan`, `applyFleetModelPlan`, `cancelFleetModelPlan` and
`handleFleetModelPlanResult` are `CreatePlan`, `ApplyPlan`, `CancelPlan`,
`HandlePlanResult`; `updatePlanState` is `PlanStateOf`. A node's pulls are one
task under its gate (`Plan`), with the attempt's number. Such a task survives
its connection: `connect_and_serve` does not return before it has ended, and
what it sends then is lost. So is a result with an inventory Relay cannot read:
`validateModelIds` throws (more than 128 models, or a malformed name,
`relay-model-plans.ts:344`) after the message was taken and before anything is
saved, and the message loop swallows the exception (`relay-websocket.ts:156`).
`HandlePlanResult` has that as an outcome of its own: the target stays
`applying`, leaves `sent`, and nothing more comes of it. `MaxApply` bounds the
attempts.

`SpeechStreams` adds one session: `session` (ticket, then the attachment of the
browser's socket), `live` (the node's process), `asrAlarm` (the deadline stored
for the alarm) and `told`, a history of the ends the browser was told. Relay's
reservation (`Stream`) and the gate's owner at the node (`Session`) have
different names in the code, `asr_stream:<id>` and `<id>`; the model keeps that,
because it is why a node's frames never release the session. Deadlines may pass
at any time. Audio, partial texts and sequence numbers are data.

`Account` puts them over one set of nodes. What ends a connection concerns all
three, and is one action there: `Closes`, `Drops`, `Restarts`.

### 2.10 `Placement`

Capability checks (`SupportsJob` ... `SupportsGraph`, with `compareVersions` as
`Older` and `resolveAsrBackend` as `ResolveBackend`), candidates and choice
(`Eligible`, `Capable`, `Score`, `GraphScore`, `Chosen`) and the placement
report (`CapabilityBlockers`, `Blockers`, `Diagnostic`). It has no state. A node
and a work are records of the fields the checks read. `MCAccount` computes
`CanRun` and `CanStream` with it from what two nodes report, and checks by
`ASSUME`, which TLC evaluates at the start of each run, that `Older` agrees with the order
of the numbers that versions of up to three parts spell (`VersionsAreOrdered`),
and that for 128 nodes taken by two and 8 graphs the report agrees with the
scheduler (`ReportAgrees`).

### 2.11 `Webhooks`

`record` (the stored record: outcome, agent set or not, `webhook_sent`),
`pending` (the stored `WebhookDeliveryState`), `attempts` (requests on their
way, each with the *work object* it will write back), `alarm`, `running`,
`sweep` (where the alarm handler is), `deadlines` (of the alarm's other users).

| Code | Action |
|---|---|
| a handler that ends a work, `scheduleWebhookIfNeeded` | `Finish`, `Cancel`, `FailStale`; of a lost one that answers late, `Finish`, too |
| `attemptWebhookDelivery` after its `fetch` | `Accepted`, `Refused` |
| settlement and retry of a graph | `Settle`, `Retry` |
| `failInProgressWork` (no webhook), progress of a lost job | `Lose`, `Progress` |
| an answer to a cancelled tool (`relay-agent-tool.ts:33-120`), or of the second of two nodes a job was given to | `AnswerAgain` |
| a dispatch that suspends in an upload and goes on with a job that has ended (`relay-queue.ts:652-681`) | `Redispatch` |
| a commit, upload or publication that saves the graph it had read before a cancel (`relay-api-graph.ts:640-666`) | `Overwrite` |
| `alarm`, `handleGraphMaintenanceAlarm`, `handleWebhookAlarm` | `AlarmFires`, `ListPending`, `SweepNext`, `AlarmEnds` |
| `scheduleGraphMaintenance`, `scheduleAsrStreamAlarm` | `SetDeadline`, `EndSpeech` |
| the runtime | `Restart` |

A job's object is still in its map while its webhook is under way, so that later
changes are seen in it (`live`); a graph's was evicted before, so that what the
attempt writes back is a copy. The last four rows let work that has ended end a
second time (`again` counts that; a retry is the intended case): the receiver is
told "cancelled" and later "completed", with two signed notifications. `told`
records what a receiver accepted of work that has ended once, each time with the
event and the state in the payload, which is built before the request and may
differ from the record by then. Times are left out: the alarm handler tries every
stored delivery, due or not, and so only *whether* an alarm is set matters.

### 2.12 `GraphRequests`

The pure part of graph jobs, over records with the fields the checks read. A
value is the sequence of its leaves (references, secrets, plain data), so that
the code's recursive walks over JSON become sets of leaves; that identifiers,
digests and paths match their patterns is the field `wellFormed`.

| Code | Operator |
|---|---|
| `validateCreateRequest`: manifest, inputs, nodes and their policies, requirements, references, outputs, assets, custody | `CreateRequestAccepted`, a conjunct per check: `ProviderRequirements`, `InputsMatch`, `NodesAccepted`, `RequirementsMatch`, `DependenciesResolve`, `OutputsMatch`, `AssetsAccepted`, `CustodyAccepted` |
| its loop that eliminates nodes without dependencies | `Eliminated` (one round), `Elimination`, `NoCycle` |
| `missingDigests` | `MissingDigests` |
| `hasStoredGraphArtifact`, the parts of an upload, `graphArtifactError` | `HasStoredGraphArtifact`, `VerifiedPartMetadata`, `ArtifactsVerified` |
| `retainGraphEvent` | `RetainGraphEvent` |

`MCGraphJobs` checks them by `ASSUME` over bounded inputs: the elimination finds
a chain of dependencies back to where it began exactly when there is one
(`CyclesAreFound`: every dependency relation on three nodes, listed in two
orders); of two-node
submissions of a few hundred shapes, those that are taken can run on every
worker that `Placement` finds able (`AcceptedCanRun`); two artifacts are
believed exactly if both were uploaded, one of them in parts
(`BelievedWasUploaded`); and the event log gives up progress before outcomes
(`ProgressIsDroppedFirst`: every log of up to three events).

## 3. Runs

| Run | Instance | Shows |
|---|---|---|
| `work_gate` | 3 workers, 1 barrier | `PermitAccounted`, `GateTellsTruth`, refinement of `WorkSlot`; under fairness `WaiterStarts`, `DrainQuiesces` |
| `node_daemon` | 2 workers | `StopIsQuiet`, `DrainPersists`; under fairness `SignalEnds`, `FileIsObeyed` |
| `desktop_commands` | 1 worker | **violated**: `CommandsReturn` |
| `jobs` | 1 job of a kind a node runs twice if it is sent twice, 2 devices that others use too, one without leases, 3 attempts | `LeaseDiscipline`, `LeaseNamesHolder`, refinement of `LeasedWork` |
| `jobs_inline` | 2 jobs, one with an inline image, the other of a kind a node runs twice if it is sent twice, 2 dispatches | `LeaseNamesHolder` with suspended dispatches |
| `job_cancel` | 1 job with an inline image, 1 device | **violated**: `CancelFinal` |
| `job_disconnect` | 1 job, 1 device | **violated**: `DisconnectRequeues` |
| `graph_jobs` | 1 job, portable or custody, 2 devices, 2 suspended handlers, 2 dispatches | `CacheCoherent`, `TokenNamesHolder`, `PayloadForgotten`, `Deliverable`, refinement of `CustodiedWork` |
| `graph_once` | the same | **violated**: `PlacedOnce` |
| `nodes` | 10 accounts: 2 requests, 1 or 2 nodes, with or without a plan, a session, policy changes, other users, restarts | `OutcomeFinal`, `ReservationKept`, `OneChatPerKey`, `PlanUnderway`, `EndToldOnce`, `NoDeadReservation`, `SessionHasAlarm` |
| `plan_excludes` | 1 account: a tool, a chat, a plan, 1 node | **violated**: `PlanExcludes` |
| `webhooks` | a job or tool and a portable graph, 2 attempts, 1 restart, either work taken up again once | `DueHasAlarm`, `OutcomeOwed`, `OneStory`; under fairness `DeliveryEnds` |

**Why these bounds.** Three workers on one permit give one that executes, one
between the semaphore and the second look, and one that waits or overtakes. Two
devices give an old and a new holder; two jobs (`jobs_inline`) give a job placed
by a loop that another job started, and a device released of work that is not
the work just reported. Three attempts give a first, a middle and a last lease. One lease-aware device and one without the protocol mix
both branches of `hasCurrentLease` and of the retry rule. No action needs a
third device or job: a hand-over has two sides. `DispatchCap` bounds the
dispatches of one job. Without inline images it never bites (a job is queued only
with attempts left, which `LeaseDiscipline` states); with them a cancelled or
completed job can be dispatched again without limit, and the cap cuts that off.

For graphs, `Slot` bounds the handlers suspended at once (two give a handler
that is overtaken by another one, or a placement loop behind a dispatch),
`MaxTokens` the dispatches (two give a superseded and a current assignment, and
the second attempt is the last), `MaxCreates = 1` the submissions suspended at
once, and `MaxAttempts` is two instead of three. `MaxTokens` also bounds
`attempt`. The devices and the slots are symmetric. With these, TLC visits 1.4
million states; a third dispatch is out of reach of a run of a few minutes.

For requests, what an account can do is split over ten accounts, because
everything at once is out of reach: each pair of features that meet on one
attachment (two requests; a keyed pair with policies and a restart; a request
and another user of the device; a tool and a plan; a chat and a session; a plan
and a session; two nodes) is in one of them, and no rule of the code relates
three. Two requests on one node give an answer of the first that comes while
the second is placed. `MaxWire = 2` gives an answer and a frame in the same
connection; `MaxApply = 2` an old and a current attempt of a plan. The run
visits 0.9 million states.

For webhooks, one job and one graph differ in everything that the code
distinguishes (eviction, limit of attempts, retry); the first is a generation job
and a tool at once, so that it may be taken up again in every way either may.
Two attempts give a repeated delivery and its exhaustion. `MaxAgain = 1`: one of
the two works, not both, is taken up again once, which gives its first
notification and its second outcome on the way together. The run visits 0.4
million states.

**Deadlock** is checked in the gate, daemon and `nodes` runs. The job and
webhook runs switch it off: when all work is terminal and delivered and all
nodes gone, the system may rest. So may the desktop, whose run shows that it
hangs.

**Fairness.** The node modules and `Webhooks` claim liveness. The former assume that the runtime
polls ready futures (weak fairness of every step that cannot be disabled by
others, strong fairness of taking the permit, which the FIFO semaphore gives),
that work ends, and that the ticker ticks. Nobody owes a request, a drain, a
resume, a signal or a restart. `Webhooks` assumes that the platform fires a set
alarm and runs its handler on (an alarm that was cut off is run again), that
every webhook request ends, since it is aborted after a timeout, and, for
graphs only, whose delivery is repeated without limit, that a receiver that is
asked again and again accepts (strong fairness of `Received`). For jobs,
requests and graphs no liveness is claimed: placement waits for the next event
of a client or a node, and nothing in the code promises one.

### 3.1 What the violated runs say

- `desktop_commands`: stop and sign-out call `begin_drain` and then `acquire`
  the gate as `node-control`. `acquire` waits for an accepting gate; `begin_drain`
  made it refuse; the button that resumes is disabled until the command returns.
  `node/README.md` says a stalled render cannot trap the UI; an idle device does.
- `job_cancel`: a job cancelled while its input image is uploaded is dispatched
  when the upload is done (`relay-queue.ts:652-689` does not look again).
  ADR-003 says that cancellation remains terminal.
- `job_disconnect`: `failInProgressWork` finds a lost node's job in `ctx.jobs`
  only. If the object hibernated since it last handled the job, the job stays
  assigned to a device that is gone, against the test that names the requeue.
- `graph_once`: a portable job is committed (or retried); its dispatch draws a
  token and waits for R2. The job is queued in memory and its device still
  free, so a placement that any node or client triggers dispatches it again.
  Both requests are built after the second token was drawn and carry it. Two
  nodes execute the graph with a token that is good for both, against
  `docs/graph-jobs.md`, "The complete graph is placed on one compatible node".
  `TokenNamesHolder` shows that local custody, which does not suspend, is safe.
- `plan_excludes`: a tool is cancelled, its node is free in Relay's eyes, a plan
  is applied there and waits at the node's gate. Then the tool's last answer
  arrives. `relay-agent-tool.ts` takes it in any state, and `releaseAgent` clears
  whatever the node is reserved for: the next request is placed on a node whose
  plan is active, against `docs/graph-jobs.md`, "Nodes are unavailable to the
  scheduler while an apply attempt is active". The request only waits there.

`OutcomeFinal` leaves a cancelled tool out for the same reason: a late answer
reopens it as complete or failed. `ReservationKept` allows a node to be taken
from a request by a step in which other work that was given to that very node,
or the plan's task there, ends (`EndsLate`); the node must be free after it, so
that a second placement on it is never excused. `OneStory` excepts, beside
retries, the works of the last rows of the table in section 2.11, which the code
ends twice.

Other behaviour of graph jobs that the model shows and no document excludes, so
that no run is about it: an asset upload or a commit that was suspended while
its portable job was cancelled saves the job again as it had it, and the commit
dispatches it; two submissions of one job that are suspended together
(`MaxCreates = 2`) both create it, and the later one resets what happened to
the first; a placement loop that comes late places a job that is already
assigned, running or at the end of its attempts, since it looks at the map and
not at the state; a job cancelled while its node's close is handled after a
hibernation keeps its agent, and its retry answers 409 from then on.

## 4. Proofs

TLAPS checks thirty theorems in eight modules, for any finite or infinite sets
of tasks, jobs, requests and devices (the slots of suspended graph handlers, and
what the operators of section 4.3 count, are finite). Those about a
specification have the shape `Init => I`, `I /\ [Next]_v => I'`, `I => Property`.

### 4.1 The node

- `WorkGateProofs!GateInvariant`: `Spec => [](TypeOK /\ PermitAccounted /\
  GateTellsTruth)`. The three are inductive together and not alone: a running
  worker keeps its name on the gate since nobody else can own the permit.
- `WorkGateProofs!GateImplementsSlot`: `Spec => ImplementsSlot`. `Admit` by a
  worker is `Start`, its `Finish` is `End`, drain and resume are `Switch`, the
  rest stutters; `Admit` may start only because the permit was taken, which the
  invariant turns into "nobody occupies the slot".
- `NodeDaemonProofs!DaemonStopsQuietly` (`StopIsQuiet`) and
  `DrainIntentPersists` (`DrainPersists`). The gate's invariant is reused as it
  is; what the daemon adds to it is `StoppingDrains`, that a signal leaves a
  drained gate and no tick that still acts on what it read of the file before,
  and `StopFindsDrained`, that an agent told to stop finds the gate drained and
  empty, which no step of a task can change.

### 4.2 The relay

- `JobDispatchProofs!DispatchSafety`: `LeaseDiscipline` and `LeaseNamesHolder`.
  The invariant strengthens them by what each status says of a record (`JobOK`),
  of each task or result how old its lease may be (`TaskOK`: never newer than the
  job's; if it is the newest it is the job's agent's; a node without leases only
  ever holds the newest, because such a job is not retried), and by "whatever the
  placement loop still holds is queued".
- `JobDispatchProofs!DispatchImplementsLeasedWork`. Beyond that invariant
  it needs `Believable`: a task does not also have a result on the wire, and
  once a job is complete nobody holds its latest lease any more, so that no
  message with a current lease can reopen it.
- `JobDispatchProofs!LeasesFenceInlineWork`: `LeaseNamesHolder` with inline
  images. A record then says little: a job can be dispatched twice, and again
  when it is over. What remains is `FenceInv`: the leases at work are no newer
  than the record, and whoever has the record's lease is its agent. It needs
  `OneWithoutLeases`, that at most one device a job may go to does not echo
  leases: of two, both given one job, both would be believed.
- `GraphJobsProofs!MemoryAgreesWithStorage`: `CacheCoherent`. `BaseInv` says of
  each suspended handler whether it holds an object and that the object exists,
  of the map's object that it agrees with storage (`Agree`, but for a token
  just drawn, and while a publication is being written), and of every object and
  the stored record that attempts do not outrun the tokens drawn (`Counts`: a
  suspended dispatch will count one more). Every handler is one of a look, a
  save or an assignment followed by a change of the handlers, and `BaseInv` is
  proved for these three.
- `GraphJobsProofs!CustodyKept`: `TokenNamesHolder`, `PayloadForgotten`,
  `Deliverable`. Under custody no handler holds an object while suspended
  (`OnlyMap`), so memory is the map's object and nothing else. `CustodyInv` then
  says who may know a token: nobody one that was not drawn (`TokensOK`), one task
  each one (`OneTaskPerToken`), and for a job under way the task that knows the
  stored one is its agent's and, until it has fetched, finds the payload
  (`HolderOK`); a result that is verified was delivered (`VerifiersOK`).
- `GraphJobsProofs!CustodyImplementsPromise`: `Spec => ImplementsCustodiedWork`.
  Each step, read through `Current`, is a step of `CustodiedWork` or a stutter.
  It assumes `MaxCreates = 1`, that two first submissions of one job are not
  suspended at once: two that are both create it, and the later one restarts a
  job that may be placed (section 3.1). `LoneCreate` carries that assumption.
- `WebhookProofs!HookTypes`, `AlarmIsSet`, `OutcomesAreOwed`, `OneStoryIsTold`.
  The first three are inductive one upon the other: every action that stores a
  delivery or a deadline ends in `ScheduleAlarm`, and an attempt leaves
  `attempts` only for `pending`, for a delivery, or for `lapsed`, also when the
  work ends a second time. The last needs to say what the copies in flight and
  the stored deliveries can still tell: of a work that was not taken up again
  after its end they all name the outcome on record.
- `AccountProofs!AccountTypes`: `AccountTypeOK`. The part that is not mere
  typing is that gates and messages never carry `Stream`.
- `AccountProofs!EndIsToldOnce` (once the browser was told, the session has
  ended, and no step tells an ended session), `SessionsHaveAlarm`,
  `ReservationIsAlive` (nothing but `StartStream` reserves a node as `Stream`,
  and every step that ends a session releases its agent or finds it gone),
  `KeyNamesOneChat` (a taken chat of the key is the one the record names, and
  what is in `todo` is queued, so that a refused chat is not placed later).
- `AccountOutcomes!OutcomesAreFinal`: `OutcomeFinal`. A complete talk, asr,
  embed, ocr or tool request stays complete not because Relay checks (it does
  not) but because no second answer can come: a request has at most one task
  that has still to report *or* one answer on its way, and a request that was
  not placed has neither (`AnswerInv`). Each step is first classified by its
  effect on tasks, answers and states (`Effect`), and each effect keeps
  `AnswerInv`; so a new action costs one lemma.
- `AccountOutcomes!PlansAreUnderway`: `PlanUnderway`. The strengthening
  (`PlanInv`) says which plan tasks there can be (none newer than the attempt;
  one that has still to report belongs to the current one), that a node has one
  plan task at work, that reports on the wire are of no later attempt, that no
  target is applying once the plan is at rest, and finally that what is sent is
  at work or reported. A target whose result came with an unreadable inventory
  has left `sent`, and the property says nothing of it: it stays applying.
- `AccountOutcomes!NodesStayReserved`: `ReservationKept`. A frame that says
  "online" and names a request would free its node. The node names a request
  only after its task left the gate, after it reported; so over one connection
  the answer is ahead of the frame and ends the request first. `OrderInv` says
  that of every place in `wire` (`AnswerFirst`) and what it rests on: who has
  started and not left owns the gate alone (`GateHeld`), a node without a
  connection has nothing of a request (`OfflineForgets`), and none knows of a
  request that was not placed (`UnplacedUnknown`). With it go facts about Relay: what is
  reserved is connected, what was given out names its node, and what was not
  names none, so that a request that leaves `processing` in the step that frees
  the node is one that was given to this node.

### 4.3 Operators

- `PlacementProofs!OlderIsAnOrder`: `compareVersions` is irreflexive and
  transitive for versions of any length. `ReportTellsTruth`: for any set of
  nodes and any graph that is queued, the report finds no blocker on some node
  exactly when the scheduler has an eligible one, although the two are written
  twice in the code.
- `CyclesAreRefused`: for graphs of any size, listed in any order, the
  elimination empties the graph exactly if no set of nodes is such that each of
  it waits for another of it. `AcceptedGraphsCanRun`: so of whatever nodes of an
  accepted graph are still to be run, one waits for none of them. The recursive
  function is shown to unfold (`EliminationUnfolds`); where a fact is about
  every round, the proof takes the first round of which it fails (`LeastNat`),
  which needs no induction theorem, only that a nonempty set of numbers has a
  least one.
- `AbleWorkersServeEveryNode` (a worker without a blocker offers every node's
  provider and kind), `CustodyBindsTheGraph` (nothing of a job under custody can
  be stored as a portable artifact), `OutcomesOutliveProgress` (the log stays
  within its bound and gives up an outcome only without progress to give up),
  `VerifiedArtifactsAreStored` (an artifact that is not looked up, because an
  earlier one has its digest, is stored, too, if the job has local custody or
  recorded an upload of the digest; without either, artifacts are found by name
  and only the first of a digest is known to be stored: an alias may be missing,
  of which `MCGraphJobs` has the example, `LegacyAliasesHide`).

### 4.4 Assumptions, and what is only model-checked

The named `ASSUME`s of the modules (`GateConstants`, `DispatchConstants`,
`GraphConstants`, `RequestConstants`, `PlanConstants`, `StreamConstants`,
`HookConstants`) say what kind of value a constant is, and which set is part of
which. Four say more:

- `DaemonConstants`, `Barrier = {}`: the headless process has no task that takes
  the gate as `node-control`; only the desktop's commands do (`lib.rs`).
- `InlineInput = {}` in `DispatchSafety` and `DispatchImplementsLeasedWork`. It
  is necessary: with inline images `CancelFinal`, `LeaseDiscipline` and the
  refinement fail, as run `job_cancel` shows.
- `OneWithoutLeases` in `LeasesFenceInlineWork` and `MaxCreates = 1` in
  `CustodyImplementsPromise`, above. Without them TLC finds the properties
  violated, on two devices without leases and with two submissions suspended.

Only model-checked: everything temporal under fairness (`WaiterStarts`,
`DrainQuiesces`, `SignalEnds`, `FileIsObeyed`, `DeliveryEnds`; liveness is out of
the prover's reach), and the `ASSUME`s of `MCAccount` and `MCGraphJobs` that no
theorem of section 4.3 states (`VersionsAreOrdered`, `BelievedWasUploaded` for
artifacts in parts). Every safety property a passing run checks is a theorem.

## 5. Plan

What is left, in order of what matters most to the system:

1. **Portable graph jobs**: what still holds of them when handlers overlap, as an
   abstract specification of its own; `CustodiedWork` promises nothing of them.
2. **Artifact parts** as a module of their own: lists that two uploads read and
   write, completion, the deletion of expired jobs.
3. **Two relays**: forwarding between accounts as a composition of two
   dispatchers over one lost call.
4. Finer steps: the publisher's subscription after the authentication snapshot;
   the policy a closing socket writes back.

## 6. Not covered yet

Eight hazards have no property; PROJECT.json says of each why.

- Five of graph jobs: a suspended commit or asset upload overwrites a cancel
  (`relay-api-graph.ts:653`, `:647`), event sequences across a requeue (`:750`), a
  cancelled graph whose worker is gone cannot be retried (`:729`), and two
  artifact parts uploaded at once (`:977`). `GraphJobs` contains the first two and
  the one about the retry, sections 2.6 and 3.1; no document excludes them.
  `CacheCoherent` does not catch them: what overwrites a cancel is in memory and
  in storage alike.
- A queued job or request is tried at events only, and from memory only
  (`relay-queue.ts:541`): the model has it, and a liveness property would be
  one the code does not promise.
- The publisher merges changes of the gate (`agent.rs:545`): a "busy" frame may
  reserve a node for work that is over, and where others use the device nothing
  need ever free it. The model has it; `NoDeadReservation` speaks of sessions,
  which have no such frame.
- The close handler writes back the policy it found in the attachment
  (`relay-websocket.ts:176`); `Requests` keeps one policy per device.

Reached by the models and excluded by no document, so that no run is about it:
a delivered webhook of a graph that was retried meanwhile writes back the record
it had read before (`relay-webhooks.ts:421`), which ends the retried run in the
record, and the receiver of work that ended twice is told both ends; `OneStory`
therefore speaks of works that end once. A ticket and
a speech session ask for no policy: a drained node takes them.

Not modelled at all: forwarding between accounts; the runtime driver (child processes and their output),
plugins, hardware probing, configuration and sign-in of the node; HTTP routing,
token verification and grants; R2 key layout, receipts, canonical JSON; types;
the console and the client libraries. They are stateless or I/O.
