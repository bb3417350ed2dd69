------------------------------ MODULE Benchmark ------------------------------
(***************************************************************************)
(* One benchmark phase of the controller: step2 of control (part_000),     *)
(* the write phase (generateWrites) or the read phase (priming write, then *)
(* generateReads).  Goroutines: the generator, one doHandler worker per    *)
(* client, printReport (the aggregator), the etcdv3 compaction goroutines, *)
(* and the main goroutine that waits on wg, closes results and waits for   *)
(* the report.                                                             *)
(*                                                                         *)
(* Data abstraction: an operation is its index i in 0..TotalRequests-1     *)
(* (its key is sequentialKey(i) or sameKey; its payload does not matter to *)
(* the pipeline).  The requests channel is FIFO and the generator sends    *)
(* the indices in increasing order, so its buffer is always the run of     *)
(* indices taken .. genI-1: it is represented by the two counters.         *)
(***************************************************************************)
EXTENDS Naturals, FiniteSets

CONSTANTS
    Database,        \* cfg.Database
    BenchType,       \* cfg.Step2.BenchType
    SameKey,         \* cfg.Step2.SameKey
    Clients,         \* cfg.Step2.Clients: workers, and capacity of requests
    Connections,     \* cfg.Step2.Connections: backend connections
    TotalRequests,   \* cfg.Step2.TotalRequests
    CompactionCycle  \* cfg.Step2.Etcdv3CompactionCycle (0: no compaction)

Databases == {"etcdv2", "etcdv3", "zookeeper", "consul"}

ASSUME ConfigAssumption ==
    /\ Database \in Databases
    /\ BenchType \in {"write", "read"}
    /\ SameKey \in BOOLEAN
    /\ Clients \in Nat \ {0}
    /\ Connections \in 1 .. Clients
    /\ TotalRequests \in Nat
    /\ CompactionCycle \in Nat

\* The literal retry budget of the priming write loops (for i := 0; i < 7).
PrimingRetries == 7

Workers == 1 .. Clients
OpIds == 0 .. (TotalRequests - 1)

VARIABLES
    mainPC,        \* main goroutine of step2
    primeTries,    \* failed attempts of the priming write
    genPC,         \* generator goroutine: "idle", "top", "send", "done"
    genI,          \* loop index i of the generator = operations sent
    taken,         \* operations received from requests by workers
    reqClosed,     \* close(requests) has run
    wpc,           \* worker goroutine state: "idle", "recv", "send", "exited"
    wop,           \* operation held by a worker
    wg,            \* the package-level sync.WaitGroup counter
    compactors,    \* running compaction goroutines
    received,      \* operations whose outcome printReport consumed
    reported,      \* number of outcomes printReport counted
    resultsClosed, \* close(results) has run
    aggDone,       \* printReport finished (pdoneC closed)
    crashed        \* a panic ended the process

vars == <<mainPC, primeTries, genPC, genI, taken, reqClosed, wpc, wop, wg,
          compactors, received, reported, resultsClosed, aggDone, crashed>>

-----------------------------------------------------------------------------
(* A priming write of the read key precedes the read phase; in the write   *)
(* phase newWriteHandlers does the same for ZooKeeper in same-key mode.    *)
NeedsPriming == BenchType = "read" \/ (Database = "zookeeper" /\ SameKey)

(* generateWrites starts a compaction before operation i when this holds;  *)
(* generateReads never does.                                               *)
CompactionDue(i) ==
    /\ BenchType = "write"
    /\ Database = "etcdv3"
    /\ CompactionCycle > 0
    /\ i % CompactionCycle = 0

(* newReadHandlers / newWriteHandlers: rhs has Clients entries; etcdv3     *)
(* fills every one (one client per worker), the other databases fill       *)
(* rhs[i] only for i over their Connections connections.  step2 starts a   *)
(* worker for every entry, so the workers above Connections hold nil.      *)
Handled ==
    IF Database = "etcdv3" THEN Workers ELSE 1 .. Connections

(* bar.Start; go printReport; wg.Add(1) and go doHandler per handler;      *)
(* go generate*: the goroutines of the phase are running.                  *)
SpawnPhase ==
    /\ mainPC' = "wait"
    /\ genPC' = "top"
    /\ wpc' = [w \in Workers |-> "recv"]
    /\ wg' = Clients

Init ==
    /\ primeTries = 0
    /\ genI = 0
    /\ taken = 0
    /\ reqClosed = FALSE
    /\ wop = [w \in Workers |-> 0]
    /\ compactors = 0
    /\ received = {}
    /\ reported = 0
    /\ resultsClosed = FALSE
    /\ aggDone = FALSE
    /\ crashed = FALSE
    /\ \/ /\ NeedsPriming
          /\ mainPC = "prime"
          /\ genPC = "idle"
          /\ wpc = [w \in Workers |-> "idle"]
          /\ wg = 0
       \/ /\ ~NeedsPriming
          /\ mainPC = "wait"
          /\ genPC = "top"
          /\ wpc = [w \in Workers |-> "recv"]
          /\ wg = Clients

-----------------------------------------------------------------------------
(* Main goroutine.                                                         *)

(* One attempt of the priming write that succeeds: break, then start the   *)
(* phase.                                                                  *)
PrimeSucceed ==
    /\ mainPC = "prime"
    /\ primeTries < PrimingRetries
    /\ SpawnPhase
    /\ UNCHANGED <<primeTries, genI, taken, reqClosed, wop, compactors,
                   received, reported, resultsClosed, aggDone>>

(* One attempt that fails: continue; after the last one, os.Exit(1).       *)
PrimeFail ==
    /\ mainPC = "prime"
    /\ primeTries < PrimingRetries
    /\ primeTries' = primeTries + 1
    /\ mainPC' = IF primeTries' = PrimingRetries THEN "exited" ELSE "prime"
    /\ UNCHANGED <<genPC, genI, taken, reqClosed, wpc, wop, wg, compactors,
                   received, reported, resultsClosed, aggDone>>

(* Mutant: close(results) without waiting on wg.                          *)
CloseResultsNoWait ==
    /\ mainPC = "wait"
    /\ resultsClosed' = TRUE
    /\ mainPC' = "report"
    /\ UNCHANGED <<primeTries, genPC, genI, taken, reqClosed, wpc, wop, wg,
                   compactors, received, reported, aggDone>>

(* wg.Wait() returns; bar.Finish(); close(results).                        *)
CloseResults ==
    /\ mainPC = "wait"
    /\ wg = 0
    /\ resultsClosed' = TRUE
    /\ mainPC' = "report"
    /\ UNCHANGED <<primeTries, genPC, genI, taken, reqClosed, wpc, wop, wg,
                   compactors, received, reported, aggDone>>

(* <-pdoneC returns: the phase is over.                                    *)
AwaitReport ==
    /\ mainPC = "report"
    /\ aggDone
    /\ mainPC' = "done"
    /\ UNCHANGED <<primeTries, genPC, genI, taken, reqClosed, wpc, wop, wg,
                   compactors, received, reported, resultsClosed, aggDone>>

-----------------------------------------------------------------------------
(* Generator goroutine (generateWrites / generateReads).                   *)

(* Mutant: the compaction goroutine is started without wg.Add(1).         *)
NextOpNoAdd ==
    /\ genPC = "top"
    /\ genI < TotalRequests
    /\ genPC' = "send"
    /\ \/ /\ CompactionDue(genI)
          /\ compactors' = compactors + 1
       \/ /\ ~CompactionDue(genI)
          /\ UNCHANGED compactors
    /\ UNCHANGED <<mainPC, primeTries, genI, taken, reqClosed, wpc, wop, wg,
                   received, reported, resultsClosed, aggDone>>

(* Head of loop iteration i: in the write phase on etcdv3, every           *)
(* CompactionCycle-th index does wg.Add(1) and starts a compaction.        *)
NextOp ==
    /\ genPC = "top"
    /\ genI < TotalRequests
    /\ genPC' = "send"
    /\ \/ /\ CompactionDue(genI)
          /\ wg' = wg + 1
          /\ compactors' = compactors + 1
       \/ /\ ~CompactionDue(genI)
          /\ UNCHANGED <<wg, compactors>>
    /\ UNCHANGED <<mainPC, primeTries, genI, taken, reqClosed, wpc, wop,
                   received, reported, resultsClosed, aggDone>>

(* Mutant: off by one in the channel capacity.                            *)
SendOpOverfull ==
    /\ genPC = "send"
    /\ genI - taken <= Clients
    /\ genI' = genI + 1
    /\ genPC' = "top"
    /\ UNCHANGED <<mainPC, primeTries, taken, reqClosed, wpc, wop, wg,
                   compactors, received, reported, resultsClosed, aggDone>>

(* requests <- op: blocks while the buffer holds Clients operations.       *)
SendOp ==
    /\ genPC = "send"
    /\ genI - taken < Clients
    /\ genI' = genI + 1
    /\ genPC' = "top"
    /\ UNCHANGED <<mainPC, primeTries, taken, reqClosed, wpc, wop, wg,
                   compactors, received, reported, resultsClosed, aggDone>>

(* Mutant: the generator returns without close(requests).                *)
CloseRequestsForgotten ==
    /\ genPC = "top"
    /\ genI = TotalRequests
    /\ genPC' = "done"
    /\ UNCHANGED <<mainPC, primeTries, genI, taken, reqClosed, wpc, wop, wg,
                   compactors, received, reported, resultsClosed, aggDone>>

(* The loop ends; the deferred close(requests) runs.                       *)
CloseRequests ==
    /\ genPC = "top"
    /\ genI = TotalRequests
    /\ reqClosed' = TRUE
    /\ genPC' = "done"
    /\ UNCHANGED <<mainPC, primeTries, genI, taken, wpc, wop, wg, compactors,
                   received, reported, resultsClosed, aggDone>>

(* A compaction goroutine finishes compactKV: defer wg.Done().             *)
CompactDone ==
    /\ compactors > 0
    /\ compactors' = compactors - 1
    /\ wg' = wg - 1
    /\ UNCHANGED <<mainPC, primeTries, genPC, genI, taken, reqClosed, wpc,
                   wop, received, reported, resultsClosed, aggDone>>

-----------------------------------------------------------------------------
(* Worker goroutines (doHandler).                                          *)

(* Receive the next operation and execute it against the connection.      *)
Receive(w) ==
    /\ wpc[w] = "recv"
    /\ taken < genI
    /\ w \in Handled
    /\ wop' = [wop EXCEPT ![w] = taken]
    /\ taken' = taken + 1
    /\ wpc' = [wpc EXCEPT ![w] = "send"]
    /\ UNCHANGED <<mainPC, primeTries, genPC, genI, reqClosed, wg, compactors,
                   received, reported, resultsClosed, aggDone>>

(* Receive the next operation and call the nil ReqHandler on it: the      *)
(* call panics; while the panic unwinds, the deferred wg.Done() runs.      *)
NilHandlerCall(w) ==
    /\ wpc[w] = "recv"
    /\ taken < genI
    /\ w \notin Handled
    /\ wop' = [wop EXCEPT ![w] = taken]
    /\ taken' = taken + 1
    /\ wpc' = [wpc EXCEPT ![w] = "panic"]
    /\ wg' = wg - 1
    /\ UNCHANGED <<mainPC, primeTries, genPC, genI, reqClosed, compactors,
                   received, reported, resultsClosed, aggDone>>

(* The unrecovered panic ends the process: every goroutine stops.         *)
Crash ==
    /\ \E w \in Workers : wpc[w] = "panic"
    /\ crashed' = TRUE
    /\ UNCHANGED <<mainPC, primeTries, genPC, genI, taken, reqClosed, wpc,
                   wop, wg, compactors, received, reported, resultsClosed,
                   aggDone>>

(* Mutant: a worker leaves as soon as requests is closed, undrained.      *)
WorkerExitUndrained(w) ==
    /\ wpc[w] = "recv"
    /\ reqClosed
    /\ wpc' = [wpc EXCEPT ![w] = "exited"]
    /\ wg' = wg - 1
    /\ UNCHANGED <<mainPC, primeTries, genPC, genI, taken, reqClosed, wop,
                   compactors, received, reported, resultsClosed, aggDone>>

(* The range over requests ends when it is closed and drained: wg.Done().  *)
WorkerExit(w) ==
    /\ wpc[w] = "recv"
    /\ taken = genI
    /\ reqClosed
    /\ wpc' = [wpc EXCEPT ![w] = "exited"]
    /\ wg' = wg - 1
    /\ UNCHANGED <<mainPC, primeTries, genPC, genI, taken, reqClosed, wop,
                   compactors, received, reported, resultsClosed, aggDone>>

(* results <- outcome: results is unbuffered, so the send is a rendezvous  *)
(* with printReport, which counts it.  A send on the closed channel would  *)
(* panic; the guard leaves that case to the property NoSendOnClosed.       *)
Publish(w) ==
    /\ wpc[w] = "send"
    /\ ~resultsClosed
    /\ received' = received \cup {wop[w]}
    /\ reported' = reported + 1
    /\ wpc' = [wpc EXCEPT ![w] = "recv"]
    /\ UNCHANGED <<mainPC, primeTries, genPC, genI, taken, reqClosed, wop, wg,
                   compactors, resultsClosed, aggDone>>

(* printReport: the range over results ends once it is closed; the report  *)
(* is printed and pdoneC is closed.                                        *)
FinishReport ==
    /\ resultsClosed
    /\ ~aggDone
    /\ aggDone' = TRUE
    /\ UNCHANGED <<mainPC, primeTries, genPC, genI, taken, reqClosed, wpc, wop,
                   wg, compactors, received, reported, resultsClosed>>

-----------------------------------------------------------------------------
(* A step of a goroutine of the live process.                             *)
Running(A) == ~crashed /\ A /\ UNCHANGED crashed

GoroutineStep ==
    \/ PrimeSucceed \/ PrimeFail \/ CloseResults \/ AwaitReport
    \/ NextOp \/ SendOp \/ CloseRequests \/ CompactDone
    \/ \E w \in Workers :
          Receive(w) \/ NilHandlerCall(w) \/ WorkerExit(w) \/ Publish(w)
    \/ FinishReport

Next == Running(GoroutineStep) \/ (~crashed /\ Crash)

(* Every goroutine that can run eventually runs (Go's scheduler), and an   *)
(* unrecovered panic does end the process.                                 *)
Fairness ==
    /\ WF_vars(Running(PrimeSucceed \/ PrimeFail))
    /\ WF_vars(Running(CloseResults)) /\ WF_vars(Running(AwaitReport))
    /\ WF_vars(Running(NextOp)) /\ WF_vars(Running(SendOp))
    /\ WF_vars(Running(CloseRequests)) /\ WF_vars(Running(CompactDone))
    /\ WF_vars(Running(FinishReport))
    /\ \A w \in Workers :
          WF_vars(Running(Receive(w) \/ NilHandlerCall(w) \/ WorkerExit(w)
                          \/ Publish(w)))
    /\ WF_vars(~crashed /\ Crash)

Spec == Init /\ [][Next]_vars

FairSpec == Spec /\ Fairness

-----------------------------------------------------------------------------
(* Properties.                                                             *)

TypeOK ==
    /\ mainPC \in {"prime", "wait", "report", "done", "exited"}
    /\ primeTries \in 0 .. PrimingRetries
    /\ genPC \in {"idle", "top", "send", "done"}
    /\ genI \in 0 .. TotalRequests
    /\ taken \in 0 .. genI
    /\ genI - taken <= Clients
    /\ reqClosed \in BOOLEAN
    /\ wpc \in [Workers -> {"idle", "recv", "send", "exited", "panic"}]
    /\ wop \in [Workers -> Nat]
    /\ wg \in Nat
    /\ compactors \in Nat
    /\ received \subseteq OpIds
    /\ reported \in Nat
    /\ resultsClosed \in BOOLEAN
    /\ aggDone \in BOOLEAN
    /\ crashed \in BOOLEAN

(* The report is final only once it holds one outcome for every operation  *)
(* the generator produced: printReport ends after close(results), which    *)
(* main runs after wg.Wait(), which waits for every doHandler to drain the *)
(* requests channel.                                                       *)
ReportComplete ==
    aggDone => (received = OpIds /\ reported = TotalRequests)

(* close(results) never happens while a worker still has an outcome to     *)
(* send on it (which would panic): wg covers every worker.                 *)
NoSendOnClosed ==
    resultsClosed => \A w \in Workers : wpc[w] # "send"

(* The compaction goroutines started by generateWrites are joined before   *)
(* the report: they wg.Add(1) while the workers still hold wg above zero.  *)
CompactionJoined ==
    mainPC \in {"report", "done"} => compactors = 0

(* Every phase ends: the report is printed, or the priming write exhausts  *)
(* its retries and the process exits.                                      *)
Termination ==
    <>(mainPC \in {"done", "exited"})

-----------------------------------------------------------------------------
(* Refinement mapping onto Pipeline: the generator's index is the number   *)
(* of operations issued, the outcomes printReport consumed are the         *)
(* completed ones, and at most Clients operations wait in the requests     *)
(* buffer while each of the Clients workers holds at most one more.        *)
PipelinePhase ==
    CASE mainPC = "prime"                                -> "prime"
      [] mainPC = "exited"                               -> "exited"
      [] mainPC \notin {"prime", "exited"} /\ aggDone    -> "reported"
      [] mainPC \notin {"prime", "exited"} /\ ~aggDone   -> "run"

Abstract == INSTANCE Pipeline
    WITH phase <- PipelinePhase, issued <- genI, done <- received,
         outstanding <- genI - Cardinality(received), Window <- 2 * Clients

(* The phase does what Pipeline promises, under the fairness of Go's       *)
(* scheduler: operations are issued in order, at most 2*Clients            *)
(* outstanding (the buffered requests channel and the workers), each one   *)
(* reaches printReport once and only after it was sent, the report comes   *)
(* after the last one, and every phase reports or exits.                   *)
ImplementsPipeline == Abstract!FairSpec

-----------------------------------------------------------------------------
(* Inductive invariant behind ReportComplete and NoSendOnClosed: wg counts *)
(* the live workers and the running compactions; every operation taken    *)
(* from requests is either held by exactly one worker or was received by  *)
(* printReport; a worker exits only from a closed and drained channel.    *)

Alive == {w \in Workers : wpc[w] \in {"recv", "send"}}
Busy == {w \in Workers : wpc[w] = "send"}
Held == {wop[w] : w \in Busy}
Dead == {w \in Workers : wpc[w] = "panic"}
Lost == {wop[w] : w \in Dead}

(* Before the priming write succeeds no goroutine of the phase runs.     *)
IPhase ==
    /\ (genPC = "idle") <=> (mainPC \in {"prime", "exited"})
    /\ genPC = "idle" =>
          /\ wpc = [w \in Workers |-> "idle"]
          /\ wg = 0 /\ compactors = 0 /\ genI = 0 /\ ~reqClosed
          /\ received = {} /\ reported = 0
    /\ genPC # "idle" => \A w \in Workers : wpc[w] # "idle"

(* wg counts the live workers and the running compactions.                *)
IWaitGroup == wg = Cardinality(Alive) + compactors

(* Every operation taken is held by one worker, was received, or went    *)
(* down with a worker that panicked.                                      *)
IAccount ==
    /\ received \cup Held \cup Lost = 0 .. (taken - 1)
    /\ received \cap Held = {} /\ received \cap Lost = {} /\ Held \cap Lost = {}
    /\ \A v, w \in Busy : v # w => wop[v] # wop[w]
    /\ reported = Cardinality(received)

(* The order of the closes: requests, then every worker exits, then wg    *)
(* reaches zero, then results, then the report.                           *)
IClosing ==
    /\ reqClosed <=> (genPC = "done")
    /\ genPC = "send" => genI < TotalRequests
    /\ genPC = "done" => genI = TotalRequests
    /\ (\E w \in Workers : wpc[w] = "exited") => (reqClosed /\ taken = genI)
    /\ resultsClosed <=> (mainPC \in {"report", "done"})
    /\ resultsClosed => wg = 0
    /\ aggDone => resultsClosed

(* Only a worker without a handler panics.                                 *)
IHandled == Dead \cap Handled = {}

IInv == TypeOK /\ IPhase /\ IWaitGroup /\ IAccount /\ IClosing /\ IHandled

=============================================================================
