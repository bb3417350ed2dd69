# TLA+ models of dbtester

This directory holds TLA+ models of the dbtester controller and agent. It has
TLC configurations that check the models on small instances, and TLAPS proofs
that hold for every value of the constants.

## The system

dbtester benchmarks etcd v2/v3, ZooKeeper and Consul. It has two programs:

- **Controller** (`src/unnamed/part_000`, package `control`). `CommandFunc`
  runs three steps, and any of them can be skipped:
  - step1 broadcasts `Start` to every agent (`bcastReq`, `sendReq`).
  - step2 runs the benchmark against the database cluster.
  - step3 broadcasts `Stop`.

  In step2, a phase is a write phase or a read phase. It makes an unbuffered
  `results` channel and a `requests` channel buffered to `Clients`. It then
  starts these goroutines:
  - the report goroutine `printReport`;
  - one worker per handler (`doHandler`, wrapped in `wg.Add(1)` / `defer
    wg.Done()`);
  - the generator (`generateWrites` or `generateReads`).

  On etcdv3 the write generator also starts a compaction goroutine every
  `Etcdv3CompactionCycle` operations, adding it to the same package-level
  `wg`. The main goroutine waits on `wg` and closes `results`. It then waits
  for the report. A read phase, and a ZooKeeper write phase with same-key
  writes, first prime the key with a write of at most 7 attempts. If every
  attempt fails, the process exits.
- **Agent** (`src/agent/agent.go`). It serves the gRPC call
  `Transfer(Request)`:
  - `Start` records the request in `t.req` and resets the database's files.
    It opens `database.log` as `t.logfile`, spawns the database and records
    `t.cmd` and `t.pid`.
  - `Restart` re-runs `t.cmd`.
  - `Stop` sleeps 3 s and sends SIGTERM to `t.pid`. It closes the log, then
    sends on the package-level unbuffered channel `databaseStopped`.

  Every successful Start or Restart leaves a monitor goroutine behind. It
  samples the process once, then selects on three cases: a 1 s tick, a signal
  notifier, and `databaseStopped`. On `databaseStopped` it uploads
  `database.log`, `monitor.csv` and `agent.log`, with up to 30 attempts per
  file.

The two programs interact in three ways:
- The controller's step1 and step3 are Transfer calls to every agent, each
  with a 15 s deadline.
- Step2 talks to the databases the agents started.
- gRPC runs each Transfer call on its own goroutine, so calls to one agent are
  not serialised once the controller has timed out.

## Modules

| Module | Models | State | Actions |
|---|---|---|---|
| `Benchmark` | step2 of the controller: one phase | `mainPC`, `primeTries`; generator `genPC`, `genI`; the `requests` buffer as the index range `taken..genI-1` and `reqClosed`; workers `wpc`, `wop`; `wg`, `compactors`; report `received`, `reported`, `resultsClosed`, `aggDone`; `crashed` (the process died of a panic) | `PrimeSucceed`, `PrimeFail`, `CloseResults`, `AwaitReport`, `NextOp`, `SendOp`, `CloseRequests`, `CompactDone`, `Receive`, `NilHandlerCall`, `WorkerExit`, `Publish`, `FinishReport`, `Crash` |
| `Pipeline` | what one phase promises, without goroutines: operations issued in order with a bounded window, each completed once, then the report | `phase`, `issued`, `done`, `outstanding` | `Ready`, `GiveUp`, `Issue`, `Complete(op)`, `Report` |
| `BenchmarkProofs` | TLAPS proofs about `Benchmark` | | |
| `Agent` | `Transfer`, the database processes, the monitor goroutines, one agent per node (every variable is a function of the node) | `req` (which Start `t.req` holds), `cmd`, `pid`, `logfile`, `openLogs`, `procs`, `termed`, `mons` (one record per monitor goroutine), `stopWaiting` (request numbers of the Stop handlers blocked in the send, oldest first, as Go queues blocked senders), `signaled` | `Start(n, db)`, `Restart(n)`, `StopSignal(n)`, `StopNotify(n)`, `MonitorFirstSample`, `MonitorSignal`, `UploadConnect`, `UploadAttempt`, `AgentSignal`, `ProcessExit` |
| `Cluster` | `CommandFunc`'s steps, `bcastReq`, `sendReq`, composed with `Agent` | `ctl` (the step of the current invocation), `runs`, `bc` (broadcast id), `call` (per node, the sendReq goroutine: sent, blocked in a Stop, or its answer), `inbox` (per node, requests sent and not yet served) | `Invoke`, `Broadcast`, `Serve(n, r)` (the agent's `Start` or `StopSignal` plus the answer), `Notify(n)` (`StopNotify` plus the answer), `Timeout(n)`, `Drop(n, r)`, `Collect`, `Step2` |
| `ClusterProofs` | TLAPS proofs about `Cluster` (one invocation) | | |
| `AgentProofs` | TLAPS proofs about `Agent` | | |
| `ClusterAgentProofs` | TLAPS proofs that `AgentProofs`' results hold under `Cluster`, for any number of invocations | | |

How the modules correspond to the code:

- **Benchmark.** Each action is one goroutine step between two channel
  operations.
  - `Init` is the state right after the goroutines of the phase have been
    started. When priming is needed, it is the state before the priming
    write.
  - An operation is abstracted to its index. Keys, values and backend calls are
    left out.
  - `doHandler` and `printReport` are not in the source tree. `Receive`,
    `Publish` and `FinishReport` follow the specification of the worker pool
    and of the aggregator, and are marked `spec_modelled`.
  - `newReadHandlers`/`newWriteHandlers` allocate `Clients` handlers. On
    etcdv2, ZooKeeper and Consul they fill only the first `Connections`
    (`Handled`). A worker without a handler calls a nil func on its first
    operation (`NilHandlerCall`). The panic unwinds through the deferred
    `wg.Done()`, so `wg` drops while the operation is lost. The runtime then
    ends the process (`Crash`). Until then the other goroutines keep running,
    which `Running(A)` expresses: no step after the crash.
  - `Abstract` maps the phase onto `Pipeline`. The phase is `prime`,
    `exited`, `run`, or `reported` once `printReport` has finished. `issued`
    is `genI`, `done` is `received`, and `outstanding` is
    `genI - Cardinality(received)`. The window is `2 * Clients`: `Clients`
    operations in the buffer plus one in each worker's hands.
- **Agent.**
  - A Transfer call is one atomic step up to the send on `databaseStopped`.
    The send is a step of its own (`StopNotify`), because a blocked Stop does
    not keep later calls out.
  - Each system call that can fail is a nondeterministic outcome at the point
    where the code returns:
    - an unknown database, a failure before `openToAppend`, or `cmd.Start`
      failing after the log was opened;
    - `Kill` returning ESRCH, or succeeding on a reused pid;
    - a failed first sample;
    - `NewGoogleCloudStorage` failing;
    - writing the GCS key file, which every call does first once `t.req`
      holds a Start's request (`KeyWriteFails`): the Stop handler then
      returns before it sends SIGTERM;
    - each `UploadFile` attempt.
  - Database processes exit at any time (`ProcessExit`).
  - The agent may receive one SIGINT or SIGTERM. `signal.Notify` hands it to
    every monitor registered so far.
  - `AgentNext` lets a client send any of `Operations`, up to `MaxRequests`
    calls per agent. `Cluster` replaces that client by the controller.
- **Cluster.** `Cluster` EXTENDS `Agent`, and a request reaches a handler only
  when the controller sent it.
  - `Broadcast` starts one `sendReq` per node. The 1 s stagger between them
    only orders when the calls start, so it is left out. `grpc.Dial` without
    `WithBlock` does not fail for a well-formed address.
  - `Timeout` is the 15 s deadline. It can fire before the agent has served
    the request, or while a Stop handler is blocked.
  - A request whose call has ended may still be served later (`Serve`), or
    never (`Drop`).
  - `Collect` is the loop that takes one answer per node and returns
    `errs[0]`.
  - step2 is reduced to its two outcomes: it returns, or it calls `os.Exit`.
    `Benchmark` shows that the phase ends in one of them.

## Runs

| Run | Configuration | Checks | Shows |
|---|---|---|---|
| benchmark_write | etcdv3, write, 2 workers, 2 connections, 5 operations, compaction every 2 | TypeOK, ReportComplete, NoSendOnClosed, CompactionJoined, Termination, ImplementsPipeline | The phase ends. Each operation is reported exactly once. No worker is about to send on a closed `results`. All three compactions finish before the report. The phase implements `Pipeline`, fairness included. |
| benchmark_read | zookeeper, read, 2 workers, 2 connections, 3 operations | ReportComplete, NoSendOnClosed, Termination, ImplementsPipeline | The same for the read phase, including 7 failed priming attempts and the exit. |
| benchmark_few_conns | zookeeper, write, 2 workers, 1 connection, 3 operations | NoSendOnClosed | Even when a worker without a handler panics and its deferred `wg.Done()` lets main close `results`, no live worker is about to send on it. |
| benchmark_nil_handler (violation) | as benchmark_few_conns | Termination | The phase can end in a panic instead of its report. |
| agent_any | Start/Restart/Stop, etcdv3 and an unknown database, 3 calls | TypeOK, SignalsOnlySpawned, SignalsLatest, UploadTerminates | Stop never signals pid 0 or a pid the agent's own cmd.Start did not return, and of those only the latest. Every upload phase ends, whatever the uploads return. |
| agent_orphan (violation) | Start only | NoOrphanProcess | Start;Start leaves a live process that `t.pid` no longer names. |
| agent_stop_hang (violation) | Start/Stop | StopCompletes | A Stop blocks forever on `databaseStopped`. |
| agent_double_stop (violation) | Start/Stop | NoRepeatedStop | A second Stop signals the same process again. |
| cluster_run | 2 nodes, one invocation of all steps, upload retries cut to 2 | CleanAfterSuccess, InvocationEnds | Every invocation ends, even when a Stop handler hangs. When it returns success, every database process it started was sent SIGTERM. |
| cluster_rerun_clean (violation) | 2 nodes, two invocations | CleanAfterSuccess | A rerun after a partly failed step1 succeeds but leaves a process running. |
| agent_upload_name (violation) | Start/Stop | UploadNamedForOwnRun | A later Start, even a failing one, renames the artifacts a monitor is uploading. |
| agent_log_leak (violation) | Start only | OneOpenLog | Start;Start leaves the first `database.log` handle open with nothing holding it. |

**Bounds.**
- Two workers with a buffer of two is enough to see these cases:
  - the generator blocking on a full buffer;
  - workers racing for the last operation;
  - a worker exiting while another still holds an operation.
- Five operations with a cycle of 2 start three compactions (at indices 0,
  2 and 4). The last one overlaps the last sends and the closing of `requests`. Five operations
  also exceed the window of `2 * Clients = 4`, so a buffer of the wrong
  capacity breaks `ImplementsPipeline`.
- One connection for two clients is the smallest case with a worker that has
  no handler, and it is the whole case: every unhandled worker behaves alike.
- Three agent calls cover these sequences:
  - Start;Start;Stop
  - Start;Stop;Stop
  - Start;Restart;Stop
- The upload loop keeps the code's bound of 30 attempts in the agent runs, so
  the exhaustion branch is reached. In `cluster_run` the bound is 2 (the
  constant `UploadRetries`). No cluster property looks at uploads, and both
  the retry and the exhaustion branch are still taken.
- Two nodes are enough for one node to fail or time out while the other
  succeeds.
- With a single invocation, `cluster_run` covers everything one run of the
  controller can meet. Two invocations exceed the five-minute budget for
  liveness. The violation run with two invocations finds its counterexample
  quickly.

**Fairness.**
- Benchmark: every goroutine of the phase has weak fairness (Go schedules
  runnable goroutines), and so does each worker. The crash after a panic
  is weakly fair too: the runtime always ends the process.
- Agent: the monitors and the rendezvous on `databaseStopped` have weak
  fairness.
- The client, the database processes and signals have no fairness: the agent
  cannot make any of them act.
- Cluster: the controller's goroutines, the agents' handlers and monitors
  have weak fairness, and so does `Timeout`, since the deadline always
  expires. Invoking the controller and dropping a request have no fairness.
- Deadlock checking is off. A phase really stops, in `done` or `exited`, and
  `Termination` checks that it does. The agent stops when the bounded client
  has sent its calls.

## Findings

1. **Orphaned database process** (`agent.go:261`, and `:433` for Restart).
   Start and Restart overwrite `t.cmd` and `t.pid` without stopping the
   recorded process. The spec says an agent has at most one supervised process.
2. **Stop can hang** (`agent.go:458`). The send on the unbuffered
   `databaseStopped` waits for a monitor in its select. There may be none:
   - its first sample failed (`:486`);
   - the agent was signalled (`:499`);
   - an earlier Stop took it.

   The controller then times out after 15 s, and the handler goroutine leaks.
3. **Stop does not empty the record** (`agent.go:448`). A second Stop passes
   the nil check and sends SIGTERM to the old pid again.
4. **`t.req` changes under an uploading monitor** (`agent.go:193`, read at
   `:505`). Start assigns `t.req` before it validates anything. The monitor
   reads the test name, bucket and key when it uploads.

5. **A successful rerun leaves the previous run's process running.** This
   is `cluster_rerun_clean`, at `agent.go:257` with `part_000:343`. step1 may
   fail on one node, through a start error or a timeout. `bcastReq` then
   returns the error without stopping the nodes that did start, which the
   spec allows. On the next invocation, those nodes get a second process.
   Stop signals only the new one.
6. **Start leaks the previous log handle** (`agent.go:218`, and `:423` for
   Restart). `t.logfile` is overwritten without closing it, so after two
   Starts only the second handle is ever closed (`agent_log_leak`).
7. **Fewer connections than clients panics** (`part_000:379`). The handler
   slice has `Clients` entries, but on etcdv2, ZooKeeper and Consul only the
   first `Connections` are filled. step2 starts a worker for each entry, and
   a worker with a nil handler panics on its first operation
   (`benchmark_nil_handler`). The spec describes one worker per connection.
   Because the deferred `wg.Done()` runs during the panic, main may close
   `results` and `printReport` may finish an incomplete report before the
   process dies. `benchmark_few_conns` shows that even then no live worker
   sends on the closed channel.

## Proofs (`BenchmarkProofs`, checked by `tlapm`)

Every `Benchmark` property except Termination holds for every value of the
constants, under `ConfigAssumption`:
- `Clients >= 1`, and `Connections \in 1..Clients`;
- `TotalRequests` and `CompactionCycle` are natural numbers;
- the database and benchmark type are among the supported ones.

The invariants are not inductive on their own. For example, `NoSendOnClosed`
needs `wg = 0` when `results` is closed, and that needs the wait-group
accounting. The strengthening `IInv` is the conjunction of these parts:

- `IPhase`: the goroutines are spawned exactly when the phase has passed
  priming. Before that, everything is in its initial state.
- `IWaitGroup`: `wg` is the number of live workers plus the running
  compactions. This is why the generator's `wg.Add(1)` cannot race `wg.Wait`:
  while the generator runs, `requests` is not closed, so every worker is
  alive and `wg > 0`.
- `IAccount`: the operations taken from the buffer are split into two
  disjoint parts, those received by the report and those held by a busy
  worker. Each is held by one worker, and `reported` counts `received`.
  Operations taken by a panicked worker form a third part, `Lost`.
- `IHandled`: only a worker without a handler panics.
- `IClosing`:
  - `reqClosed` holds exactly when the generator is done;
  - an exited worker implies that `requests` is closed and drained;
  - `results` is closed exactly in the report phase, and then `wg = 0`.

The proof has three parts:
- `InitIInv`: both initial states satisfy IInv.
- `NextIInv`: one step per action, each split by the part of IInv it can
  disturb.
- Each property follows from IInv through a lemma.

The theorems are:
- `IInvariant`, `TypeCorrect`, `NoSendOnClosedHolds` and
  `CompactionJoinedHolds`, for every value of the constants, panics
  included.
- `ReportCompleteHolds`, under `HandlersComplete` (etcdv3, or as many
  connections as clients). Without it the property is false, as explained
  in finding 7. `NoPanic` shows that then no worker panics.
- `Refinement`, also under `HandlersComplete`: `Spec => Abstract!Spec`.
  Initial states map to initial states. `RefineStep` shows that each step
  maps to a `Pipeline` step or a stutter: `SendOp` is `Issue`, because the
  operations in flight are the buffered ones (`HeldBound`, `TakenBound`)
  and so at most `2 * Clients`. `Publish` is `Complete`, `FinishReport` is
  `Report`, and every other step is a stutter. The fairness part of
  `ImplementsPipeline` is checked by TLC only.

Cardinality facts come from `FiniteSetTheorems`. IInv was checked with TLC as
an invariant of both benchmark runs before it was proved.

## Proofs (`ClusterProofs`, checked by `tlapm`)

`CleanAfterSuccessHolds` proves `CleanAfterSuccess` for one invocation of
the controller (`MaxRuns <= 1`). It holds for any set of nodes, any bound on
the calls an agent accepts, any retry bound and any skip flags. Agents can
still do everything: time out, serve requests late, lose them, leave a Stop
handler blocked, and exit processes. With two invocations the property is
false (`cluster_rerun_clean`), so the bound is stated as the theorem's
hypothesis.

The strengthening `IInv` follows one invocation:
- `IFresh`: before the first invocation nothing has been sent or spawned.
- `IStartPending`, `IOneProcess`:
  - the only Start is that of step1's broadcast (id 1);
  - it is pending only at an agent that has not spawned;
  - so each agent spawns at most one process, and `t.pid` names it.
- `IStep1`, `IBeforeStop`, `IStartServed`, `INoLateStart`, `IStep2`:
  - step1 broadcasts once;
  - no Stop exists before step3;
  - a Start answered with success has been served;
  - so once step1 succeeded, no Start is left to spawn a process late.
- `IStopped`: in step3, a call that is blocked or has succeeded got there
  through a Stop handler that sent SIGTERM to `t.pid`. That is every process
  the agent has.

The proof:
- Lemmas give the effect of the agent's handlers on processes and SIGTERMs
  (`StartEffect`, `StopEffect`, `InternalEffect`).
- There is one lemma per action, split by the conjuncts it can disturb.
- `NextIInv` combines them.
- `SingleInvocationInvariant` and `CleanAfterSuccessHolds` close the argument
  with PTL.

IInv was checked with TLC before it was proved, on the `cluster_run`
instance and with step1 and/or step2 skipped.

## Proofs (`AgentProofs`, `ClusterAgentProofs`, checked by `tlapm`)

`AgentProofs` proves, for any set of nodes, any set of operations and
databases, any `MaxRequests` and any `UploadRetries >= 1`:
- `AgentTypeCorrect`: `TypeOK`;
- `SignalsOnlySpawnedHolds`: `SignalsOnlySpawned`. Stop never calls
  `syscall.Kill` with pid 0 (`agent.go:450`), which would signal the agent's
  own process group;
- `SignalsLatestHolds`: the action property `SignalsLatest`. Stop signals
  only the process that the latest successful Start or Restart spawned.

None of these is inductive by itself.
`SignalsOnlySpawned` is about pid values. The pid of a process that has exited may be
reused, and `StopSignal`'s reused-pid branch then reaches an unrelated process. The strengthening `IInv` is the
function types of the variables (`ATypeOK`) and, per node, `INode`:
- `nreq <= MaxRequests`, and `req`, `spawned`, `opened <= nreq`: each call
  allocates at most one pid and one log handle;
- `pid = spawned`: `t.pid` is written only by a successful `cmd.Start`, with
  the pid just allocated. This gives `SignalsLatest`;
- `logfile <= opened`, and `openLogs` is within `1..opened`;
- `cmd # "nil" => pid # 0`: `t.cmd` is written only together with `t.pid`;
- `procs` and `termed` are within `1..spawned`;
- `Len(mons) = spawned`, and monitor `i` has pid `i`.

The type invariant needs the counting conjuncts, because pids and handles
must stay in `1..MaxRequests`. `SignalsOnlySpawned` needs the `cmd`/`pid`
link, because Stop adds `t.pid` to `termed` once `t.cmd` is set.
The type invariant's `Len(mons) <= spawned` needs `Len(mons) = spawned`,
because `Spawn` appends the monitor of pid `spawned + 1`.

The proof is organised as follows:
- Record lemmas (`MonSetPc`, ...) state that a monitor stays a `Monitor` when
  one field changes.
- Effect lemmas give each handler's effect on the counters (`ArriveEffect`,
  `OpenLogEffect`, `SpawnEffect`).
- Three lemmas cover the ways a Transfer call can end: it returns before
  opening the log (`NoEffectStep`), it opens the log and `cmd.Start` fails
  (`OpenOnlyStep`), or it spawns (`SpawnStep`). `StartIInv` and
  `RestartIInv` split into these cases.
- There is one lemma for each of the other actions. `NextIInv` combines
  them.

`IInv` was checked with TLC on the `agent_any` instance (36904 states)
before it was proved.

`ClusterAgentProofs` proves that `IInv` holds in the composed system for any
`MaxRuns` (`ClusterAgentInvariant`). This covers reruns of the controller,
calls that time out, requests served late and lost requests. The reason is
that the controller reaches an agent only through `Serve` (the agent's
`Start` or `StopSignal`) and `Notify` (its `StopNotify`). All of the
controller's own steps leave `agentVars` unchanged. So
`ClusterSignalsOnlySpawned` and `ClusterSignalsLatest` hold for every number of invocations. The `Cluster`
runs bound the invocations to keep liveness checkable.

## Only model-checked

- Liveness (`Termination`, `UploadTerminates`, `InvocationEnds`, and the
  fairness conjuncts of `ImplementsPipeline`) is beyond TLAPS here.
- The agents' violated properties (`NoOrphanProcess`, `StopCompletes`,
  `NoRepeatedStop`, `UploadNamedForOwnRun`, `OneOpenLog`) are counterexamples
  found by TLC, and there is nothing to prove about them.
- `CleanAfterSuccess` is proved for one invocation only. It is false for two.

## Not modelled yet, and the plan

- **Refinement of the agent.** An abstract process-lifecycle
  specification of `Transfer` (a process runs, is signalled, exits), with
  `Agent` shown to implement it, would state what Stop promises. It is not
  written yet.
- **Data-level parts.** These are not modelled: rendering of configuration
  and command lines, key and value generation, `getTotalKeys*`. Backend
  connections are not state of the model, so the ZooKeeper priming loop's
  leak of the connections of each failed attempt (`part_000:251`, `:449`)
  is listed as a hazard only.
- **Agent path globals.** Concurrent Transfer calls rewrite the package
  path variables without a lock (`agent.go:165`). The model treats the
  paths as constants.
