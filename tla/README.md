# A verification model of st-proxy

st-proxy sits between SillyTavern (and MCP clients) on one side and one GPU's
two users on the other: an LLM backend (KoboldCpp, TabbyAPI, Prism, Strata,
Ollama, or a combination of them) and ComfyUI. It queues chat and image
requests in one FIFO, hands the GPU from one program to the other, and relays
everything else. These TLA+ modules model that program from its Python source
(`src/src/st_proxy/`), TLC checks them on small instances, and TLAPS proves
theorems about them for every value of the constants.

All source paths below are relative to `src/src/st_proxy/` unless they start with `src/`.

## 1. Inventory

### How the parts interact

```
 HTTP clients        MCP clients
      |                   |
  service.py          mcp_server.py
  http.py relay           |
      |              media_jobs.py -- reference_images.py, workflows.py,
      |                   |           workflow_modes.py, model_profiles.py
      +--------+----------+
               |  chat_lease, submit_image, image_batch, side leases
        coordinator.py  (one FIFO, one dispatcher task)
          |                          |
   LlmBackend (llm/*.py)      ComfyClient (comfy.py)
   acquire, release,          submit, wait_for_prompt,
   observe, validate          interrupt, free_models
          |                          |
      LLM server                  ComfyUI            <- share the GPU
```

Everything runs in one asyncio event loop: there is no preemption, but any
`await` that suspends lets every other task run. Futures connect the clients'
tasks with the dispatcher (`ChatWork.ready`, `ImageWork.submitted`,
`ImageWork.completion`); one `asyncio.Condition` connects everyone with the
dispatcher's waits.

### Components

| Component | State | Operations | What is hard | What makes it correct |
|---|---|---|---|---|
| FIFO coordinator (`coordinator.py`) | owner, state, restore point, error flags, FIFO and its counters, active leases, current work, active prompt | `chat_lease`, `submit_image`, `image_batch`, `passive_llm_metadata`, `router_control`, `comfy_control_lease`, `wait_before_history_delete`, `initialize`, `close`, the dispatcher | every lease can be cancelled at any suspension; the dispatcher is cancelled by shutdown anywhere; every call to a backend can fail or time out with its effect still to come | one user of the GPU at a time; leases granted only by a confirmed owner; counters exact; everyone answered; FIFO order |
| LLM backend contract (`llm/base.py`) | none of its own | `acquire_gpu`, `release_gpu`, `observe_ready`, `validate_control` | a failed call promises nothing | a success establishes what the docstring says |
| KoboldCpp (`llm/koboldcpp.py`, `kobold_router.py`) | none | unload through the admin API, poll until a model answers; router mode | restart of the process in the middle of polls | released means no model in memory |
| TabbyAPI (`llm/tabbyapi.py`) | load in progress and its uncertainty, selected model | streaming load, unload, observation, reconciliation | a lost load stream leaves the server loading | an uncertain load is reconciled before anything is promised |
| Prism, Strata (`llm/prism.py`, `llm/strata.py`) | uncertainty latch | change of model, per-model states | a half-done change of model | uncertain means refuse |
| Ollama (`llm/ollama.py`) | restore point fixed at start | load, unload, poll `/api/ps` | asynchronous unload | released means no running model |
| Combined backend (`llm/multi.py`) | active and pending target, saved restore points, whether KoboldCpp is released or a request failed there | release of every other engine, load or reservation of the target's | partial failure over several engines; KoboldCpp's adapter answers while its router loads | one engine holds the GPU, and a lease's engine serves its target |
| Backend registry (`llm/registry.py`) | none | construct a backend | - | - |
| ComfyUI client (`comfy.py`) | none | submit, poll history, interrupt, free, wait for idle | consecutive poll failures; an accepted prompt whose response is lost | completion only reported for a finished prompt; memory free when it says so |
| HTTP service (`service.py`) | requests in flight | routes to leases; disconnect polling; conflict checks | disconnect races the grant | a lease is held exactly as long as upstream work is in flight |
| Relay (`http.py`) | sockets | stream proxy, WebSocket relay | upstream must be drained before the lease ends | no upstream work outside a lease |
| Route policy (`comfy_routes.py`) | none | classify a ComfyUI path | encodings and prefixes | exactly the allowed routes pass |
| Media jobs (`media_jobs.py`) | jobs by request id, tasks, closing flag | start, resume, batch, save results, shutdown | idempotence across awaits; staging and cleanup under cancellation | one job per request id; a job ends once |
| Reference images (`reference_images.py`) | registered files | register, verify, stage | a file that changes between check and use | what is uploaded is what was registered |
| Workflow catalog (`workflows.py`, `workflow_modes.py`) | loaded at start | resolve parameters, build a job's graph | five writers patch one copy of the graph | each control lands where the manifest maps it, and nothing else changes |
| Model profiles (`model_profiles.py`) | loaded at start | merge profiles into a request | each engine has spellings and precedences of its own | the caller's word counts; the profile's block fits what the engine then does |
| MCP server (`mcp_server.py`) | listener | argument checks around media jobs | - | - |
| Configuration (`config.py`, `cli.py`, `errors.py`, `logging.py`) | constants | parse and check | - | - |
| Stack script (`src/st-stack.zsh`, `src/scripts/`) | processes | start, stop | outside the program | - |

`PROJECT.json` lists each with its status; its `hazards` list, line by line,
what in this code a test hardly reaches and which property would catch it.

## 2. What is modelled

| Module | Models | Extends |
|---|---|---|
| `BackendKinds` | the backend differences the coordinator decides by | |
| `GpuBackends` | the two programs on the GPU as the coordinator can observe them: each call of `LlmBackend` and `ComfyClient`, one operator per outcome | `BackendKinds` |
| `Coordinator` | `HandoffCoordinator`: requests, side leases, dispatcher, start and shutdown | `GpuBackends` |
| `CoordinatorProps`, `CoordinatorInv` | its properties; the inductive invariant, in named parts | `Coordinator` |
| `LeaseQueue` | what a lease manager promises, as an abstract specification: one line for chats and images | |
| `CoordinatorQueue` | the coordinator as an implementation of `LeaseQueue` | `CoordinatorInv` |
| `MCCoordinator` | instances for TLC | `CoordinatorQueue` |
| `CoordinatorTypes`, `CoordinatorSafety` | proofs: types; the FIFO and the counting of leases, the invariant and what follows | `CoordinatorInv` |
| `CoordinatorQueueProofs` | proofs: the refinement of `LeaseQueue`; that nobody waits in vain; that the counters are exact | `CoordinatorQueue` |
| `Service` | `BrokerService` around the coordinator: the handlers of chats and workflows, clients that leave, the streaming relay | `CoordinatorInv` |
| `ServiceProps`, `MCService`, `ServiceProofs` | its properties; instances for TLC; proofs, with the refinement of `Coordinator` | `Service` |
| `LlmContract` | what an adapter owes the coordinator, as an abstract specification over the operators of `GpuBackends` | `GpuBackends` |
| `TabbyApi` | the TabbyAPI adapter against a model of its server | |
| `TabbyApiProps` | its properties, with the refinement mapping to `LlmContract` | `TabbyApi` |
| `WorkerAdapters` | the Prism and Strata adapters against models of their servers | |
| `WorkerAdaptersProps`, `WorkerAdaptersProofs` | as above | `WorkerAdapters` |
| `MultiBackend` | the combined backend over engines given by their contracts | |
| `MultiBackendProps`, `MultiBackendProofs` | its properties and invariant; their proofs | `MultiBackend` |
| `ComfyPolling` | `wait_for_prompt` and `free_models` of the ComfyUI client, poll by poll | |
| `WebSocketRelay` | `proxy_websocket` with its two tasks | |
| `ComfyRoutes` | the ComfyUI route policy | |
| `Overlays` | dictionaries written over one another: the operators `:>` and `@@` of the module TLC, defined where the proof system can expand them | |
| `ChatRequests` | the rewriting of a chat request by model profiles and for TabbyAPI | `Overlays` |
| `Workflows` | loading a workflow's manifest, building a job's graph | `Overlays` |
| `MCClients` | `TabbyApi` and these five in one specification, and its instances for TLC | |
| `ClientsProofs` | proofs: each of the six parts, and the specification made of them | `MCClients` |
| `MediaJobs` | `MediaJobs`: jobs, batches, files and shutdown | |
| `MediaJobsProps`, `MCMediaJobs`, `MediaJobsProofs` | its properties; instances for TLC; proofs | `MediaJobs` |

How the modules fit together: `Coordinator` calls backends through the outcomes
of `GpuBackends`. `LlmContract` is made of the same operators, and TabbyAPI,
Prism and Strata are shown to implement it, which is what entitles `Coordinator` to
use them. `MultiBackend` is built over engines that satisfy the contract, and
`ComfyPolling` accounts for the outcomes of ComfyUI's calls. `Service` composes
the coordinator with handlers and clients, and implements its specification, so
what holds of the coordinator holds there; the coordinator in turn implements
`LeaseQueue`. `MediaJobs` stands on tickets of the coordinator, whose images are
built by `Workflows`.

### Steps

A step is the code a task runs between two suspensions. The coordinator's
condition lock is never held across an await that leaves the process, so
`async with self._condition` is no scheduling point; the suspensions are
`condition.wait()`, the futures, and calls to a backend or to ComfyUI. `pc`
names the dispatcher's suspension:

| pc | suspended in | code |
|---|---|---|
| `next` | the wait for work | `_next_work` |
| `chatDrain` | the serial wait for earlier leases and metadata reads | `_dispatch_chat` |
| `controlDrain`, `cleanup` | the wait for ComfyUI controls, then `free_models` | `_restore_llm` |
| `restoreValidate`, `restoreRelease`, `restoreObserve`, `acquire` | the calls that follow it | `_restore_llm` |
| `imageDrain` | the wait for chats and metadata reads | `_activate_comfy` |
| `imageValidate`, `imageAcquire`, `imageObserve`, `release` | the calls that follow it | `_activate_comfy` |
| `submit`, `prompt` | `submit`, `wait_for_prompt` | `_dispatch_image` |
| `interrupt` | the interrupt of an active prompt at shutdown | `_dispatch_image` |
| `boot`, `dead` | before `initialize()`, after the task ended | |

`notified` is the pending wake-up of a waiting dispatcher: `Notify` is
`notify_all()`, `DispatcherWaits` is the `while ...: await condition.wait()`
that found its condition true. `cancelled` is the flag of the work in hand;
work cancelled while queued leaves the queue in the same step. The futures are
functions from requests to `none | pending | ok | error`.

A stretch of dispatcher code that would run on through several loop iterations
is cut at `_next_work` and at the wait loops even when nothing suspends there;
this only adds interleavings. The awaits of `initialize()` are one step,
because no listener is open before it returns.

### The environment

`GpuBackends` gives each call its outcomes. A success establishes what the
protocol's docstring promises (`release_gpu`: nothing loaded; `acquire_gpu(m)`:
m loaded, or a reservation for router and combined backends). A failure
establishes nothing: the effect may have happened, or may happen later
(`late`, completed by `LateLoad`). The environment also loads models for lease
holders (`NativeLoad`) and finishes prompts (`PromptFinishes`).

Assumptions about adapters made here, and what became of them:

- A release or load that is reported as verified rules out an earlier load
  that was given up, and an observation that succeeds is not overtaken by one.
  For TabbyAPI, Prism and Strata this is `ImplementsContract`, checked and
  proved. For the combined backend `ReleasedMeansFree`, `LoadsAlone` and
  `ServesTarget` say it engine by engine; there is no refinement mapping, since `GpuBackends` has one
  loaded model and the combined backend may find several engines loaded at
  start. For Ollama the coordinator never reaches a release with such a load pending, which is
  part of the checked and proved invariant (`LateInv`).
- Still assumed: that KoboldCpp's unload, which restarts its process, leaves
  nothing of an earlier load behind; and Ollama's and KoboldCpp's polling, in
  which everything depends on what a server shows at which moment. KoboldCpp's wait for an
  unload takes a failed model query for an unloaded model
  (`llm/koboldcpp.py:121-125`), provided the version endpoint answers.
- `free_models` leaves ComfyUI's memory free if and only if no prompt is
  executing. TabbyAPI and the combined backend wait for ComfyUI's queue to empty
  first (`WaitsForIdle`), and `FreedMeansFree` shows that this wait and the two equal memory samples
  after it are enough, provided ComfyUI, once it gives memory back, does not
  stall for a whole poll interval before it has finished (the guard of `StatsPauseEnds`: nothing
  executes there any more, since `/queue` was empty and nobody submits, so the guard is about memory only). A
  submission that the broker gave up on is taken to have reached ComfyUI by then or never: one that
  arrives after `/queue` was seen empty is not in the models. For the other backends
  a prompt that the broker stopped monitoring, or whose submission timed out, may execute
  under a chat lease; `CleanLease` is checked and proved where the code promises it.

### The service

A handler runs the request in the coordinator's terms and is not cancelled when
its client disconnects: `gone` are the requests in progress whose client has
left, which a handler learns only where it looks. The handlers of serial backends
(`Polls`) run the lease in a task of its own, look after the client while it
waits, and once more when it enters; the plain handler does neither. Router and
TabbyAPI handlers read the request's body under the lease (`ReadsInLease`). `relay` are the
chats with an upstream exchange open in `proxy_stream`, `serving` those the
LLM server still works for: the relay ends when the answer was read to its end,
whether or not the client still takes it, or when the exchange failed, which is
reported to the coordinator if KoboldCpp was asked. A server whose connection breaks is taken to
stop working, except that KoboldCpp may go on loading. `_image_handler` is the same for
workflows; batches come from media jobs, which have no client to lose.

### Parts with a state of their own

`ComfyPolling`: `step` is the await of the call, `failures` is
`consecutive_failures`, `previous` the memory sample before. `polls` records the
history polls of a call and whether they were answered; the time of a call is not counted, so the
deadline may pass in any pause. The coordinator makes one such call at a time.

`WebSocketRelay`: the handler's await, the await of either task, which tasks
were told to stop, and the state of the two sockets. The handler may be cancelled
at any of its awaits. One session follows the other.

`ComfyRoutes`, `ChatRequests`, `Workflows`: pure algorithms of the code as
operators over a bounded set of inputs, each in a loop that takes any input, computes, and
starts again (`RoutesSpec`, `ChatSpec`, `WorkflowSpec`). A route is a name with or without `/api` and something after it,
one name for the routes of custom nodes that the tables list alike;
`Effect` is what the ComfyUI behind the gateway does with the route it gets, and is the reference
for the policy. It knows the names of the routes and which spelling a ComfyUI serves, not the policy's tables: an older one
has its own routes without `/api`, and those of custom nodes in the spelling their frontend
uses; a newer one has every route in both. Paths are taken as decoded (the code classifies the decoded
path and rewrites the raw one). A chat
request has the fields and thinking controls that profiles and adapter read, in
all combinations of up to `ControlBound` controls; the reference is what the
caller said. A workflow has one input of each role the manifest can map; the reference is the graph
value by value. A workflow whose generator is also its saver node is left out.

### The adapters

A call is in the models what it is in the code: a sequence of awaits. A
request is sent in the step that decides to, the server answers in another,
and the answer is read in a third; between any two the server may move on,
and at any await the call may be given up (timeout, cancellation, lost connection). The
server goes on with a request whose client is gone.

`TabbyApi`: `uncertain`, `pendingLoad` and `loadFailed` are `_uncertain`,
`_pending_load` and `_load_failed`. `pc` names the await (an observation, the
unload, the load stream) and `nested` the release inside `acquire_gpu`. The
load parameters of a card are one value out of `Settings`. Loads that fail may keep
memory (`residue`), which only an unload or a good load frees. `NativeSelection` is
a client of TabbyAPI that selects a model during a lease.

`WorkerAdapters`: `kind` tells the adapters apart. Both set `_uncertain`
before they send a change and clear it on confirmation only, so after a call that was given up
every later call refuses until the broker is restarted.
Prism accepts at once and is polled: a worker appears while it still loads
(`stable` is FALSE then, and for a worker that sleeps). Strata answers when it is done. `snapshot_ready`,
`validate_control` and the catalogs only observe and are left out.

`MultiBackend`: the fields have the code's names. An engine is a loaded model
and what a failed call left `outstanding`. Engines are visited in any order,
where the code has the order of its dictionary; observation and release of a native engine are one
step, since its contract says that nothing happens in between; restore
points of KoboldCpp are left out, since its reservation ignores them. A load
that failed at a native engine makes that engine refuse (`Observes`); KoboldCpp
always answers. A failed *unload* of KoboldCpp is not remembered by the code
(only failed requests are), hence `outstanding # "load"` in `ServesTarget`: such an unload may still take effect under a
later reservation, and then only empties the engine, which loads again on demand.

### The media jobs

A job id maps to its `request` (the fingerprint of `_generate`). A client's
call first resolves references (`resolving`, an await), then attaches to a job or
creates one, and waits (`waiting`) or gives up; the job goes on. A batch has a task
(`new`, `first`, `gather`, `unwind`, `done`) and one task per image (`new`,
`submit`, `generate`, `write`, `publish`, `dropFinal`, `dropStaging`, `done`); a
single job is the task of its image. File operations run in threads: `disk` holds those
not finished, `ThreadEnds` finishes one, and cancelling the task does not stop
it. `ticket` is the coordinator's side of an image: queued in the order
of a batch, one running at a time, ended in any way, or withdrawn by a
cancelled batch. `stop` follows `BrokerService.stop` and `MediaJobs.close`:
`serving`, `closing` (no new jobs), `drained` (the coordinator has closed),
`cancelling`, `closed`. A broker whose coordinator could not be initialized has no dispatcher: it starts
`unattended`, refuses what jobs submit, and its `stop()` cancels tasks that never got a turn
(`CancelUnbegun`), where the wait for the dispatcher lets every task begin first (`CancelJobs`).

Creating the staging directory and the resolution of references are merged
with the awaits next to them; removals succeed (the code ignores their errors).

### Left out of the modelled components

- `_mark_fatal` from the dispatcher's outermost handler: it answers an
  exception that escaped the handlers of both dispatch functions, and no call in the
  model raises past them.
- Error texts, status snapshots, timing of drains: an elapsed timeout is a
  choice that may be taken at any moment of the wait.
- Numbers of bytes: a workflow's body has a size from a small set.
- Of the adapters and the combined backend: `snapshot_ready`, `validate_control`,
  `available_models`, `request_target`, `model_catalog`, which read and keep
  nothing, and the reports of usage (`request_usage`).
- Of the service: `start()`, the status documents, and requests that are
  answered without a lease. Of the relay: headers, URLs and buffered responses.
- Of the workflow catalog: parsing, the checks of single values, the scan of the
  directory. Of the model profiles: reading and validating the file.
- Of the media jobs: registering and checking reference images, checks of
  the transferred data, error texts, and the eviction of nothing: jobs are kept for the life of the
  broker, as in the code.

## 3. Properties and runs

| Run | Module, instance | Checks | Shows |
|---|---|---|---|
| `ollama_safety` | `MCCoordinator`, Ollama, 2 chats, 2 images | `Accounting`, `NoLostWakeup`, `NoOrphan`, `ServesInOrder` | counters, wake-ups and answers stay right under every cancellation, timeout, failed start and shutdown; requests are served in order |
| `service_router` | `MCService`, KoboldCpp router, 2 chats, 1 image | `ServiceInv`, `Exclusion`, `LeaseOwnsGpu`, `MetadataQuiet`, `WorkHasGpu`, `WorkStartsWanted` | one user of the GPU although each chat may load a model and a failed request may go on loading; no server works outside a lease; no lease and no submission begins for a request that was given up |
| `service_combined` | `MCService`, combined, 2 chats, 1 image, 2 models | `CleanLease`, `LeaseServesModel`, `ControlsPinOwner` | leases with targets start without leftovers of ComfyUI; controls hold off cleanup |
| `kobold_live` | `MCCoordinator`, KoboldCpp, 1 chat, 1 image | `ChatsAnswered`, `ImagesAnswered`, `ShutdownCompletes`, `DeletionProceeds` | everyone is answered; shutdown ends |
| `clients` | `MCClients`, six parts that share no state; one moves in each behaviour | `ClientsInv`, `OneJobAtATime`, `ImplementsContract` (TabbyAPI, 2 models in 2 settings), `AbortedOnlyBlind`, `FreedMeansFree` (ComfyUI's client), `SocketsOutliveTasks`, `CloseSpreads` (WebSocket), `EffectsCoordinated` (routes), `BlockFitsRequest`, `CallerDecides` (chat requests), `EveryControlLands` (workflows) | the adapter keeps its contract whatever calls are given up; what the ComfyUI client reports is so; a session ends as a whole; the algorithms agree with their references |
| `worker_adapters` | `WorkerAdaptersProps`, 2 presets, both kinds | `OneJobAtATime`, `ImplementsContract` | the contract for Prism and Strata |
| `engines` | `MultiBackendProps`, 3 engines, 2 models | `ReleasedMeansFree`, `LoadsAlone`, `ServesTarget` | one engine at a time has the GPU, whatever was found running and whatever failed half way |
| `media_jobs` | `MCMediaJobs`, 2 job ids, batches of 2 | `VerdictHolds`, `WithinCapacity`, `NoTaskSurvives`, `NoRegeneration` | verdicts are right and stay; the capacity holds; no task outlives the broker |
| `media_files` | `MCMediaJobs`, 1 job of up to 2 images with 2 files each, 2 clients | `EndedIsFinal`, `PublishedWhole`, `JobsEnd` | all files of a result or none, in the face of threads that cannot be cancelled; every job ends |
| `ollama_unreleased` | `MCCoordinator`, Ollama | `ReleasedBeforeGrant` (violated) | finding 1 |
| `router_starvation` | `MCCoordinator`, router, 2 metadata reads | `GenerationProceeds` (violated) | finding 2 |
| `media_leftover` | `MCMediaJobs`, 1 job | `FailedPublishesNothing` (violated) | finding 3 |

### Bounds

Coordinator: two chats (requests are reused after they end, and two give leases, queue order, and a
dispatcher holding one of them), two images of 1 and 2 bytes with a batch of
both, 3 bytes and 2 images of queue (so both limits are reached exactly), one
metadata read and one ComfyUI control at a time. Chats and models are symmetric;
images are not, because of their sizes and places in the batch. The liveness
runs use no symmetry. The backends chosen differ in what matters: Ollama is contacted at
start, KoboldCpp's router serves one request at a time and only reserves, the combined backend has targets and waits
for ComfyUI's queue, plain KoboldCpp does none of these. The proofs cover all kinds.

Service: the router takes batches of one image (`OneImageBatches`); of the
combined backend's two models KoboldCpp serves one (`KoboldModels`), so that a failed
request is reported for one and not for the other.

`MCClients` puts parts that have nothing to do with each other into one run: `part` is
chosen at the start, and only that part moves, so the run is the sum of six. `FailureLimit` 2 and `PollBound` 5
let failed polls add up to the limit with and without an answer in between; `MemoryBound` 2 gives a memory that falls
in two steps. `InboxBound` 2 lets a message wait while another is being sent.
`ControlBound` 2 has every pair of contradicting controls.

Adapters: two models are enough to have one to leave and one to load, and two
settings (TabbyAPI) to have the same model loaded differently. Three engines: KoboldCpp
with its memory of the release, and two native ones, so that one can be the target while
the other is left over. There is no bound on the number of calls or failures.

Media jobs: two ids contend for two places, with batches of up to two; for the files, one job of
two images with two files each, so that publication has something to leave incomplete.

Deadlock checking is on in every run; the only states without
another step of the program are `Stopped` (coordinator) and the end of shutdown (media jobs), which
stutter explicitly.

### What the runs do not reach

- `ollama_safety`: Ollama has no targets and its chats are not serial, so neither metadata reads nor the
  serial wait meet `NoLostWakeup` there; `NoWakeupLost` covers every kind.
- `service_combined`: the combined backend may reserve its engine, so the second part of `LeaseServesModel`,
  that the loaded model is the restore point, only counts in `LeaseServesModelHolds`.
- `kobold_live` is not serial: its `ChatsAnswered` says nothing about the serial wait, which has no timeout;
  `GenerationProceeds` does, and fails. `MediaJobs!Fairness` takes the coordinator's answers from this
  run as well.
- The combined backend's engines select no model by themselves (`NativeSelection` belongs to the single-engine
  models); `ServesTarget` rests on that.
- `media_jobs` has one client. Two clients that race with the same id, or for the last place, are covered by
  `NothingRegenerated` and `CapacityHolds`, for any number.

### Fairness

`Coordinator!Fairness` is weak fairness of the dispatcher's steps and of the two drains'
timeouts. The code justifies it: the event loop runs every ready task, and
every call the dispatcher makes is under a timeout of the configuration
(`chat_drain_timeout`, `cleanup_timeout`, `unload_timeout`, `reload_timeout`,
`request_timeout`, `image_timeout`), so each call returns or fails. `DrainTimeout` is separate, because a drain
that finds its condition true over and over is disabled as a wait but still
ends by its deadline. The serial wait of `chatDrain` has no timeout, and gets
no such fairness. `PatientSpec`, used by `router_starvation` only, adds the clients' part: each lease
and each metadata read ends, and the dispatcher gets a turn if the drain's
condition keeps becoming false. The violation needs none of them to misbehave: the reads overlap.

`MediaJobs!Fairness` is weak fairness of every task, of each thread's operation, of the
coordinator (which answers each ticket: `ImagesAnswered`) and of `stop()` once
it was called. Clients need not do anything.

`WebSocketRelay!RelayFairness` is weak fairness of the handler and of both tasks. A
task that sends to a peer that takes nothing any more is not stuck for ever, because both
sockets have a heartbeat of 30 seconds that ends the connection.

### Findings

1. `ollama_unreleased`: after a failed release Ollama's owner is unknown, and
   the next image is granted ComfyUI without observation or release, although
   `src/docs/GATEWAY_AND_GPU_LEASES.md` says the destination is never granted before the source
   release succeeds.
2. `router_starvation`: the next generation waits for open metadata reads, and
   new ones are admitted while it waits; the document says reads are excluded
   during transitions and that the generation waits for existing ones.
3. `media_leftover`: a cancellation that arrives while `_save` removes the
   staging directory, after the results were published, makes the job fail
   and leaves its result directory behind.

Four observations that no run is spent on. A prompt that the broker stopped
monitoring may execute under a later chat lease for the backends that do not wait for
ComfyUI's queue, although `src/docs/USER_GUIDE.md` promises one owner of the
GPU. And `src/docs/GATEWAY_AND_GPU_LEASES.md` says that a passive 503 never
clears an uncertain TabbyAPI load, while `llm/tabbyapi.py:150` lets one clear it for an
acquisition after the server reported that the load failed; `ImplementsContract` shows that this
does no harm. Under the transparent policy a custom node's release, unload or optimize route is forwarded in the spelling
that its frontend does not use (`/api/helto_director/prompt_optimizer/optimize`), which a newer ComfyUI serves:
`src/docs/GATEWAY_AND_GPU_LEASES.md` calls prompt-optimizer execution "Always HTTP 403", names the
path without `/api`, and disclaims unknown extension routes in this mode. `EffectsCoordinated` leaves
these spellings out for the transparent policy, and covers them for the strict one. And a batch whose task is cancelled before
it began fails with its images still `preparing` (`NeverBegan`), since the `finally` of `_run_batch` that would
fail them never runs; only `stop()` without a dispatcher gets there.

## 4. Proofs

Every theorem holds for any sets of chats, images, batches, models, settings and engines, any
limits and any kind of backend. The assumptions are named in the modules that declare the
constants: `KindAssumption` (the backend is one of the supported kinds),
`PointAssumption` (there is a model; models, the absence of one and a reservation are different
things), `WorkAssumption` (chats, images and `None` are different things, and there are finitely
many), `BatchAssumption` (a batch is a sequence of distinct images of its own: `image_batch`
makes new `ImageWork` objects for each), `SizeAssumption` (sizes and limits are natural numbers:
`config.py:163-172` refuses limits that are not positive), `PollAssumption` and `InboxAssumption`
(the limit of failed polls is positive, as `config.py` checks, and so are the bounds of the
environment), `TabbyAssumption`, `WorkerAssumption`, `EngineAssumption`
(`None` is not a model; KoboldCpp is an engine), `KoboldAssumption` (KoboldCpp's models are models)
and `MediaAssumption` (a workflow and the largest batch have an image at least; job ids, images and requests are
different things). TLC evaluates them on the runs that have these constants.

| Theorem | Module | Statement |
|---|---|---|
| `TypeCorrect` | `CoordinatorTypes` | `Spec => []TypeOK` |
| `InductiveInvariant` | `CoordinatorSafety` | `Spec => []IInv` |
| `ExclusionHolds`, `ReleasedBeforeGrantHolds` | `CoordinatorSafety` | `Passive /\ Spec => []Exclusion`; the same of `ReleasedBeforeGrant` |
| `LeaseOwnsGpuHolds`, `LeaseServesModelHolds` | `CoordinatorSafety` | what a chat lease is worth |
| `MetadataQuietHolds`, `ControlsPinOwnerHolds`, `HistoryHeldHolds` | `CoordinatorSafety` | side requests and handoffs |
| `CleanLeaseHolds` | `CoordinatorSafety` | `WaitsForIdle /\ Spec => []CleanLease` |
| `ServedInOrder` | `CoordinatorQueueProofs` | `Spec => Lease!LeaseSpec` |
| `NoWakeupLost`, `NobodyOrphaned` | `CoordinatorQueueProofs` | nobody waits in vain |
| `StartsWanted` | `CoordinatorQueueProofs` | `Spec => WorkStartsWanted` |
| `AccountsBalance` | `CoordinatorQueueProofs` | `Spec => []Accounting` |
| `ServiceImplements`, `ServiceInvariant` | `ServiceProofs` | `ServiceSpec => Spec`; the service's invariant |
| `WorkHasGpuHolds` | `ServiceProofs` | upstream work and leases |
| `StateNamesOwnerHolds` | `CoordinatorSafety` | the state that admission reads names the owner |
| `AdapterInvariant`, `LatchSoundHolds`, `OneJobHolds`, `ContractKept` | `ClientsProofs` | TabbyAPI's latch, its jobs, and the refinement of `LlmContract` |
| `WorkerInvariant`, `WorkerLatchSound`, `WorkerOneJob`, `WorkerContractKept` | `WorkerAdaptersProofs` | the same of Prism and Strata |
| `EnginesInvariant`, `ReleaseHolds`, `EnginesAlone`, `TargetServed`, `KoboldUndisturbed` | `MultiBackendProofs` | the combined backend's fields and what they promise |
| `GivenUpBlind`, `FreedIsFree` | `ClientsProofs` | `PollSpec`: ComfyUI's client, `AbortedOnlyBlind` and `FreedMeansFree` |
| `TasksFirst` | `ClientsProofs` | `RelaySpec => []SocketsOutliveTasks` |
| `EffectsTreated` | `ClientsProofs` | `RoutesSpec => []EffectsCoordinated` |
| `BlockAlwaysFits`, `CallerAlwaysDecides` | `ClientsProofs` | `ChatSpec`: the rewriting of chat requests |
| `ControlsAlwaysLand` | `ClientsProofs` | `WorkflowSpec => []EveryControlLands` |
| `ClientsInvariant`, `ClientsSafety` | `ClientsProofs` | `ClientsSpec`, the composition that the run `clients` checks: `[]ClientsInv`, and all its safety properties |
| `JobsInvariant`, `EndsAreFinal`, `WholeOrNothing`, `NothingOutlivesStop`, `VerdictsHold`, `CapacityHolds`, `NothingRegenerated` | `MediaJobsProofs` | the media jobs |

### The coordinator

`TypeOK` is inductive by itself: it ties the work in the dispatcher's hands to
the suspension it is in. None of the other properties is. `LeaseOwnsGpu`
fails to be preserved by a grant unless one knows that the granted chat was
still waiting and not yet counted, that no handoff is in progress, and that an
owner without recovery has no load pending. `IInv` adds this, in two groups:

- `RequestInv`: the FIFO holds each work once and only work that waits
  (`FifoInv`); the chat in hand still waits unless it was cancelled
  (`CurrentInv`); a lease is counted exactly for the chats granted one (`GrantInv`).
- `OwnershipInv`: for each suspension, who owns the GPU (`OwnerInv`), that an abandoned
  load is possible only while recovery is outstanding (`LateInv`), that handoffs run
  in states that admit nobody and after everyone left (`QuietInv`), which model is loaded
  (`ModelInv`), that a prompt is known exactly while it is monitored
  (`PromptInv`), and that leases exist only under a confirmed owner
  (`LeaseInv`); `BootInv` covers the time before `initialize()`.

The proof has one lemma per group of actions (`ChatStepSafe`, `ImageStepSafe`,
`SideStepSafe`, `TakeChatSafe`, `RestoreStepSafe`, `TakeImageSafe`,
`ServeImageStepSafe`, `ShutdownSafe`, `CloseSafe`, `EnvironmentSafe`), each with one step per action.
Most actions disturb one of the two groups only: `RequestsKept` and
`OwnershipFrame` say what must be unchanged for the other to survive. `ServedRequests`
and `GrantRequests` are the queue's side of answering and granting a request,
`GrantOwnership` the owner's side of a grant, `HandoffContinues` the step from
one call of a handoff to the next. The facts about sequences and
cardinalities are at the top of `CoordinatorSafety`.

`ExclusionHolds` needs `Passive`, a backend that is observed before use: for
Ollama, finding 1 is a counterexample. `CleanLeaseHolds` needs `WaitsForIdle`, and adds `CleanInv`:
nothing of ComfyUI is on the GPU while the LLM owns it, nor between the cleanup and the grant. The other
theorems hold for every kind.

`ServedInOrder` maps the coordinator to `LeaseQueue`: the line is the FIFO
behind the request that is being dispatched, and a request has left it once it was
cancelled. Beyond `IInv` it needs `HandsInv`, that a cancelled flag never outlives
the work it belongs to: a flag that stayed set would let the next request vanish from
the line while it is served. The `Keeps` lemmas say what leaves a sequence in its order; then each action
joins, leaves, begins, ends or stutters (`LineJoined`, `QueueLeft`, `ChatBegins`, `ImageBegins`, `LeaseEnds`, `LineKept`).

`NoWakeupLost` needs that every step that ends a wait notifies the dispatcher in the same step (`ClientWakeups`) and that
the dispatcher looks at its condition before it waits (`DispatcherWakeups`). `NobodyOrphaned` strengthens
`NoOrphan` to `WaitsInv`, which follows a request through the FIFO and the dispatcher's hands, and needs
`StopInv`: shutdown leaves the FIFO empty, and the task ends for no other
reason, so nobody can be queued for a dispatcher that is not there.

`StartsWanted` is about three clocks: the client leaves, its handler cleans up behind it, and the dispatcher
goes on with what it has in hand. `HeldInv` says that before the submission the work in hand is still wanted unless
the flag `cancelled` is up, for every await of the handoff; with `HandsInv` (a flag belongs to the work in
hand) this decides the step to the submission, and for chats `CurrentInv` does the same. A batch is the hard case:
one call gives up tickets that are queued and one that is in hand.

`AccountsBalance` has three layers. `Bytes`, the sum that `queuedBytes` is compared with, folds over
a set in an order of its own choosing. It is shown to be a cardinality: `Units(S)` has one element for
each byte of each image of S, counting them satisfies the equation of the fold (`TotalExists`), and the
equation has one solution, because at a smallest subset where two solutions differed they would
agree (`TotalUnique`). From there sums behave as cardinalities do (`BytesJoin`, `BytesLess`).
`Counted` then says what the counters are; `CountedLess`, `CountedChat` and `CountedImages` are the only ways in which
a step may change them, and every action that touches the FIFO is one of the three. `BatchInv` strengthens the last
part of `Accounting`: a batch is wholly submitted or wholly gone (its images were all
idle when it was, and only `BatchLeave` takes its status away), so new work can join
behind what is left of one, but never between. A stretch cut out of the FIFO leaves the rest of a batch
together (`CutTogether`). That no request is queued twice comes from `FifoInv`.

`ReleasedBeforeGrantHolds` is the other side of finding 1: for every kind but Ollama what the document says is so.

### The service

`ServiceImplements` shows that every step of the composition is a step of the
coordinator or one that it does not see, and `ServiceSpec => Spec` carries every
theorem above over to the service, `ServedInOrder` included. The service's own invariant
`RelayInv` ties the exchanges to entered leases; with `IInv` it gives `WorkHasGpu`.

### The adapters

For TabbyAPI, Prism and Strata `IInv` relates the latch to the server's work
(`JobInv`), says what an answer that has been read or is in flight still
means when it is used (`AnswerInv`), which await belongs to which call
(`CallInv`, `AwaitInv`), and what the last call established (`GrantInv`). `AnswerInv` is the heart of it: an
observation is made in one step and used in another, and only the latch
says that nothing moved in between. The refinement maps what the server holds to `llm`, its unfinished work to `late`, and the call in
progress to `phase`; initial states map to initial states, and one step per
action shows a step of the contract or a stutter.

For the combined backend `IInv` adds to the properties: the remembered release
still holds (`FlagSound`), a load outstanding at KoboldCpp is remembered both by
the failure flag and by the pending target (`RouterInv`), restore points name
their own model (`SavedInv`), the engines a call has visited are free (`VisitInv`), and what a grant
rests on (`GrantInv`).

### ComfyUI's client and the WebSocket relay

`BlindInv` ties `consecutive_failures` to the history it is computed from: the counter is
the length of the run of unanswered polls at the end, and among the last `FailureLimit` polls of a prompt
that was not given up one was answered. `SettlingInv` makes
`FreedMeansFree` inductive: from the first memory sample on nothing executes, so the memory can
only shrink, and once it has moved it is below that sample, or zero. `SessionInv` says in which awaits of the handler its tasks exist
and which sockets it may already have closed; a socket that is still to be closed while
a task runs is what `SocketsOutliveTasks` needs.

### The algorithms

Each of the three has an invariant that says no more than that the result is the algorithm's on
the input (`TreatmentInv`, `ForwardInv`, `BuiltInv`); the content is in the lemmas about the operators.
The policy's cases are matched with `Effect` name by name, for both generations of ComfyUI. For chats the
proof goes through what the profile leaves of the caller's controls, which of them
the translation for TabbyAPI then finds first, and what a caller may have said at the same
time; the theorem holds for every `ControlBound`. For workflows it follows one entry of the graph through the five
writers, and needs what `load()` checked of the manifest: a later writer never takes an entry of an
earlier one. `ClientsSafety` carries the six parts over to the specification in which TLC checks them.

### The media jobs

`JobsInv` has these parts: which tasks exist (`TaskInv`); for each await of `_save`,
what the thread may still do and what is on disk (`FileInv`); verdicts belong to tasks that
have ended (`StatusInv`, `EndInv`, `VerdictInv`), and images of a batch that has not begun have none
(`FreshInv`, `UnknownInv`); cancellations that have not been delivered
belong to tasks that wait, and to shutdown (`CancelInv`); an image has
no place in the FIFO before its task starts (`TicketInv`); and no task begins
after `close()` looked for them (`StopInv`, which is where the second check of `_generate`
is used), nor gets anywhere without a dispatcher. `FileInv` is what makes `PublishedWhole` inductive: the directory is renamed by
a thread that nobody can stop, so at each await the invariant says which operation is still out.
`VerdictStays` is the delicate step: `close()` marks jobs whose task goes on, and must not touch
those that have ended. `CapacityHolds` counts the places with the
cardinality theorems of finite sets, over `LiveMoves`: jobs only ever end, or one is admitted.

### What is not proved

Every safety property that a passing run checks, invariant, action property or refinement, is a theorem. Checked by
TLC only, because fairness and `ENABLED` are out of the prover's reach: the liveness properties `ChatsAnswered`,
`ImagesAnswered`, `ShutdownCompletes`, `DeletionProceeds`, `JobsEnd` and `CloseSpreads`. The proofs
use no induction theorem: where something is computed over data (`Bytes`, the FIFO's
elements) they argue from a smallest counterexample or with the cardinality theorems. The inductive invariants were checked with TLC
on the instances of the runs before they were proved. Proved but not the property
of a run: `TypeOK` of the coordinator and of the media jobs, `HistoryHeld`, `StateNamesOwner`, `LatchSound`,
`KoboldLeftAlone`, and the parts of the invariants. No module uses RECURSIVE operators.

## 5. Not modelled

- **Ollama's and KoboldCpp's polling** (`llm/ollama.py`, `llm/koboldcpp.py`): each call is one
  request and then polls of the server. When a server shows a model, or a restarting process answers, is not in
  this code, and a model of it would check its own assumption. Their calls appear by their outcomes in `GpuBackends`;
  KoboldCpp's router also in `MultiBackend`.
- **Reference images** (`reference_images.py`): hashing, copying and checking of files. The
  registrations are independent of each other, and `MediaJobs` has the await of `resolve()`.
- **MCP server** (`mcp_server.py`): argument validation and framing around the media
  jobs, with no state but its listener.
- **Backend registry, configuration, command line, logging, errors**: tables, parsing and wording; nothing concurrent.
- **Stack script** (`src/st-stack.zsh`, `src/scripts/`): process supervision outside the program.
- **Broker crashes**: jobs and registrations live in memory and are lost; only published files stay. A restart begins at `Init`.
