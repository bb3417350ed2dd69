------------------------------- MODULE Agent -------------------------------
(***************************************************************************)
(* The agents (src/agent/agent.go), one per node: transporterServer        *)
(* .Transfer handling Start, Restart and Stop requests, the database       *)
(* processes it spawns, and the monitor goroutine each successful Start or *)
(* Restart leaves behind, which samples the process and, when it receives  *)
(* from the package-level unbuffered channel databaseStopped, uploads the  *)
(* logs.  Every variable is a function of the node.                        *)
(*                                                                         *)
(* gRPC runs every call on its own goroutine, so a Stop blocked in         *)
(* databaseStopped <- struct{}{} does not keep later calls out.  A handler *)
(* is one atomic step up to that send; the send is a step of its own.      *)
(*                                                                         *)
(* Data abstraction: a process is its pid, a log file handle an id; paths, *)
(* command lines and file contents are left out.  Every system call that   *)
(* can fail is a nondeterministic outcome at the point where it happens.   *)
(***************************************************************************)
EXTENDS Naturals, Sequences, FiniteSets

CONSTANTS
    Nodes,        \* the agents
    Databases,    \* values of Request.Database the client may send
    Operations,   \* values of Request.Operation the client may send
    MaxRequests,  \* bound on the number of Transfer calls per agent
    UploadRetries \* the attempts per file: k < 30 in the code

Supported == {"etcdv2", "etcdv3", "zookeeper", "consul"}

ASSUME AgentAssumption ==
    /\ Nodes # {}
    /\ Databases \subseteq Supported \cup {"unknown"}
    /\ Operations \subseteq {"Start", "Restart", "Stop"}
    /\ MaxRequests \in Nat
    /\ UploadRetries \in Nat \ {0}

\* The three files database.log, monitor.csv and agent.log.
UploadFiles == 3

\* Every Transfer call spawns at most one process and opens at most one
\* file, so ids 1..MaxRequests suffice; 0 stands for nil.
Ids == 1 .. MaxRequests

VARIABLES
    req,          \* t.req: the number of the Start call it holds (0: none)
    cmd,          \* t.cmd: "nil", or the database whose command it runs
    pid,          \* t.pid (0 before the first process)
    logfile,      \* t.logfile (0 for nil)
    openLogs,     \* database.log handles opened and not closed
    procs,        \* database processes alive
    termed,       \* processes sent SIGTERM by Stop
    spawned,      \* processes spawned so far (the last pid used)
    opened,       \* log handles opened so far (the last handle used)
    mons,         \* monitor goroutines, in the order they were started
    stopWaiting,  \* Stop handlers blocked in the send, oldest first
    nreq,         \* Transfer calls so far
    signaled      \* the agent received SIGINT or SIGTERM

agentVars == <<req, cmd, pid, logfile, openLogs, procs, termed, spawned,
               opened, mons, stopWaiting, nreq, signaled>>

(* A monitor goroutine: the pid it samples, the request t.req held when it *)
(* started (whose test name its artifacts belong to), where it is, whether *)
(* its notifier channel holds a signal, and its upload progress.           *)
MonitorStates == {"first", "loop", "upload", "uploading", "exited"}

NewMonitor(p, r) ==
    [pid |-> p, run |-> r, pc |-> "first", sig |-> FALSE, file |-> 1, tries |-> 0]

-----------------------------------------------------------------------------
AgentInit ==
    /\ req = [n \in Nodes |-> 0]
    /\ cmd = [n \in Nodes |-> "nil"]
    /\ pid = [n \in Nodes |-> 0]
    /\ logfile = [n \in Nodes |-> 0]
    /\ openLogs = [n \in Nodes |-> {}]
    /\ procs = [n \in Nodes |-> {}]
    /\ termed = [n \in Nodes |-> {}]
    /\ spawned = [n \in Nodes |-> 0]
    /\ opened = [n \in Nodes |-> 0]
    /\ mons = [n \in Nodes |-> <<>>]
    /\ stopWaiting = [n \in Nodes |-> <<>>]
    /\ nreq = [n \in Nodes |-> 0]
    /\ signaled = [n \in Nodes |-> FALSE]

(* A call reaches the handler: it gets the next request number.            *)
Arrive(n) ==
    /\ nreq[n] < MaxRequests
    /\ nreq' = [nreq EXCEPT ![n] = @ + 1]

(* openToAppend(databaseLogPath) succeeds: t.logfile = f.                  *)
OpenLog(n) ==
    /\ opened' = [opened EXCEPT ![n] = @ + 1]
    /\ logfile' = [logfile EXCEPT ![n] = opened'[n]]
    /\ openLogs' = [openLogs EXCEPT ![n] = @ \cup {opened'[n]}]

(* A spawn that leaves out t.pid = cmd.Process.Pid: t.pid keeps its value. *)
SpawnKeepsPid(n, db, r) ==
    /\ spawned' = [spawned EXCEPT ![n] = @ + 1]
    /\ pid' = pid
    /\ cmd' = [cmd EXCEPT ![n] = db]
    /\ procs' = [procs EXCEPT ![n] = @ \cup {spawned'[n]}]
    /\ mons' = [mons EXCEPT ![n] = Append(@, NewMonitor(spawned'[n], r))]

(* cmd.Start() succeeds: t.cmd = cmd, t.pid = cmd.Process.Pid, the        *)
(* cmd.Wait goroutine only logs; after the switch, go func(processPID)     *)
(* starts the monitor of the new process.                                  *)
Spawn(n, db, r) ==
    /\ spawned' = [spawned EXCEPT ![n] = @ + 1]
    /\ pid' = [pid EXCEPT ![n] = spawned'[n]]
    /\ cmd' = [cmd EXCEPT ![n] = db]
    /\ procs' = [procs EXCEPT ![n] = @ \cup {spawned'[n]}]
    /\ mons' = [mons EXCEPT ![n] = Append(@, NewMonitor(spawned'[n], r))]

(* Mutant: t.cmd = cmd is assigned before cmd.Start(), so a failing      *)
(* start leaves t.cmd set while t.pid is still that of no process.        *)
StartCmdEarly(n, db) ==
    /\ Arrive(n)
    /\ req' = [req EXCEPT ![n] = nreq'[n]]
    /\ \/ /\ db \notin Supported
          /\ UNCHANGED <<cmd, pid, logfile, openLogs, spawned, opened, procs,
                         mons>>
       \/ /\ db \in Supported
          /\ UNCHANGED <<cmd, pid, logfile, openLogs, spawned, opened, procs,
                         mons>>
       \/ /\ db \in Supported
          /\ OpenLog(n)
          /\ cmd' = [cmd EXCEPT ![n] = db]
          /\ UNCHANGED <<pid, spawned, procs, mons>>
       \/ /\ db \in Supported
          /\ OpenLog(n)
          /\ Spawn(n, db, req'[n])
    /\ UNCHANGED <<termed, stopWaiting, signaled>>

(* Start: t.req = *r first; then, by t.req.Database, the binary check, the *)
(* data directory reset (or the ZooKeeper files), openToAppend and         *)
(* cmd.Start, each of which may fail and return the error.                 *)
Start(n, db) ==
    /\ Arrive(n)
    /\ req' = [req EXCEPT ![n] = nreq'[n]]
    /\ \/ /\ db \notin Supported                 \* unknown database
          /\ UNCHANGED <<cmd, pid, logfile, openLogs, spawned, opened, procs,
                         mons>>
       \/ /\ db \in Supported                    \* fails before openToAppend
          /\ UNCHANGED <<cmd, pid, logfile, openLogs, spawned, opened, procs,
                         mons>>
       \/ /\ db \in Supported                    \* cmd.Start fails
          /\ OpenLog(n)
          /\ UNCHANGED <<cmd, pid, spawned, procs, mons>>
       \/ /\ db \in Supported                    \* the process runs
          /\ OpenLog(n)
          /\ Spawn(n, db, req'[n])
    /\ UNCHANGED <<termed, stopWaiting, signaled>>

(* Mutant: Restart leaves out t.pid = cmd.Process.Pid.                   *)
RestartKeepsPid(n) ==
    /\ Arrive(n)
    /\ \/ /\ cmd[n] = "nil"                      \* "nil command"
          /\ UNCHANGED <<cmd, pid, logfile, openLogs, spawned, opened, procs,
                         mons>>
       \/ /\ cmd[n] # "nil"                      \* Chdir or openToAppend fails
          /\ UNCHANGED <<cmd, pid, logfile, openLogs, spawned, opened, procs,
                         mons>>
       \/ /\ cmd[n] # "nil"                      \* cmd.Start fails
          /\ OpenLog(n)
          /\ UNCHANGED <<cmd, pid, spawned, procs, mons>>
       \/ /\ cmd[n] # "nil"                      \* the process runs
          /\ OpenLog(n)
          /\ SpawnKeepsPid(n, cmd[n], req[n])
    /\ UNCHANGED <<req, termed, stopWaiting, signaled>>

(* Restart: refused while t.cmd is nil; otherwise a new process runs the   *)
(* recorded command line with a newly opened log.  The process t.pid had   *)
(* is not stopped, and t.req is not changed.                               *)
Restart(n) ==
    /\ Arrive(n)
    /\ \/ /\ cmd[n] = "nil"                      \* "nil command"
          /\ UNCHANGED <<cmd, pid, logfile, openLogs, spawned, opened, procs,
                         mons>>
       \/ /\ cmd[n] # "nil"                      \* Chdir or openToAppend fails
          /\ UNCHANGED <<cmd, pid, logfile, openLogs, spawned, opened, procs,
                         mons>>
       \/ /\ cmd[n] # "nil"                      \* cmd.Start fails
          /\ OpenLog(n)
          /\ UNCHANGED <<cmd, pid, spawned, procs, mons>>
       \/ /\ cmd[n] # "nil"                      \* the process runs
          /\ OpenLog(n)
          /\ Spawn(n, cmd[n], req[n])
    /\ UNCHANGED <<req, termed, stopWaiting, signaled>>

(* toFile(t.req.GoogleCloudStorageKey, ...) runs first in every call and  *)
(* returns its error: it can fail once t.req holds a Start's request.      *)
KeyWriteFails(n) == req[n] # 0

(* Stop, up to the send on databaseStopped: after the 3 s sleep, refused   *)
(* while t.cmd is nil; syscall.Kill(t.pid, SIGTERM) fails with ESRCH once  *)
(* the process is gone, unless the pid was reused by another process; on   *)
(* success t.logfile is closed (but t.cmd, t.pid, t.logfile keep their     *)
(* values) and the handler goes on to the send.                            *)
StopSignal(n) ==
    /\ Arrive(n)
    /\ \/ /\ KeyWriteFails(n)                     \* the key file
          /\ UNCHANGED <<openLogs, termed, stopWaiting>>
       \/ /\ cmd[n] = "nil"                      \* "nil command"
          /\ UNCHANGED <<openLogs, termed, stopWaiting>>
       \/ /\ cmd[n] # "nil"                      \* kill: ESRCH
          /\ pid[n] \notin procs[n]
          /\ UNCHANGED <<openLogs, termed, stopWaiting>>
       \/ /\ cmd[n] # "nil"                      \* kill succeeds
          /\ \/ pid[n] \in procs[n]
             \/ pid[n] \notin procs[n]           \* the pid was reused
          /\ termed' = [termed EXCEPT ![n] = @ \cup {pid[n]}]
          /\ openLogs' = [openLogs EXCEPT ![n] = @ \ {logfile[n]}]
          /\ stopWaiting' = [stopWaiting EXCEPT ![n] = Append(@, nreq'[n])]
    /\ UNCHANGED <<req, cmd, pid, logfile, procs, spawned, opened, mons,
                   signaled>>

(* databaseStopped <- struct{}{}: the unbuffered send completes when some  *)
(* monitor goroutine is in its select; the runtime queues blocked senders  *)
(* in order, so the oldest Stop handler returns success and that monitor   *)
(* starts the upload.                                                      *)
StopNotify(n) ==
    /\ stopWaiting[n] # <<>>
    /\ \E m \in DOMAIN mons[n] :
          /\ mons[n][m].pc = "loop"
          /\ mons' = [mons EXCEPT ![n][m].pc = "upload"]
    /\ stopWaiting' = [stopWaiting EXCEPT ![n] = Tail(@)]
    /\ UNCHANGED <<req, cmd, pid, logfile, openLogs, procs, termed, spawned,
                   opened, nreq, signaled>>

-----------------------------------------------------------------------------
(* Monitor goroutines: monitor m of node n.                                *)

(* The first rFunc() before the loop: an error ends the goroutine.         *)
MonitorFirstSample(n, m) ==
    /\ mons[n][m].pc = "first"
    /\ \E ok \in BOOLEAN :
          mons' = [mons EXCEPT ![n][m].pc = IF ok THEN "loop" ELSE "exited"]
    /\ UNCHANGED <<req, cmd, pid, logfile, openLogs, procs, termed, spawned,
                   opened, stopWaiting, nreq, signaled>>

(* case sig := <-notifier: return.                                         *)
MonitorSignal(n, m) ==
    /\ mons[n][m].pc = "loop"
    /\ mons[n][m].sig
    /\ mons' = [mons EXCEPT ![n][m].pc = "exited"]
    /\ UNCHANGED <<req, cmd, pid, logfile, openLogs, procs, termed, spawned,
                   opened, stopWaiting, nreq, signaled>>

(* NewGoogleCloudStorage: an error ends the goroutine without uploading.   *)
UploadConnect(n, m) ==
    /\ mons[n][m].pc = "upload"
    /\ \E ok \in BOOLEAN :
          mons' = [mons EXCEPT ![n][m].pc = IF ok THEN "uploading" ELSE "exited"]
    /\ UNCHANGED <<req, cmd, pid, logfile, openLogs, procs, termed, spawned,
                   opened, stopWaiting, nreq, signaled>>

(* The next file is uploaded, or the goroutine returns after the last.     *)
NextFile(mon) ==
    IF mon.file = UploadFiles
    THEN [mon EXCEPT !.pc = "exited", !.tries = 0]
    ELSE [mon EXCEPT !.file = @ + 1, !.tries = 0]

(* Mutant: the retry loop has no bound and retries a failing file forever. *)
UploadAttemptUnbounded(n, m) ==
    /\ mons[n][m].pc = "uploading"
    /\ \/ mons' = [mons EXCEPT ![n][m] = NextFile(@)]
       \/ mons' = [mons EXCEPT ![n][m].tries = (@ + 1) % UploadRetries]
    /\ UNCHANGED <<req, cmd, pid, logfile, openLogs, procs, termed, spawned,
                   opened, stopWaiting, nreq, signaled>>

(* Mutant: off by one in the retry bound, k <= 30.                         *)
UploadAttemptOffByOne(n, m) ==
    /\ mons[n][m].pc = "uploading"
    /\ \/ mons' = [mons EXCEPT ![n][m] = NextFile(@)]
       \/ /\ mons[n][m].tries + 1 <= UploadRetries
          /\ mons' = [mons EXCEPT ![n][m].tries = @ + 1]
       \/ /\ mons[n][m].tries + 1 > UploadRetries
          /\ mons' = [mons EXCEPT ![n][m] = NextFile(@)]
    /\ UNCHANGED <<req, cmd, pid, logfile, openLogs, procs, termed, spawned,
                   opened, stopWaiting, nreq, signaled>>

(* One u.UploadFile attempt: success breaks out of the retry loop; a       *)
(* failure sleeps 2 s and retries, UploadRetries attempts in all.          *)
UploadAttempt(n, m) ==
    /\ mons[n][m].pc = "uploading"
    /\ \/ mons' = [mons EXCEPT ![n][m] = NextFile(@)]
       \/ /\ mons[n][m].tries + 1 < UploadRetries
          /\ mons' = [mons EXCEPT ![n][m].tries = @ + 1]
       \/ /\ mons[n][m].tries + 1 = UploadRetries
          /\ mons' = [mons EXCEPT ![n][m] = NextFile(@)]
    /\ UNCHANGED <<req, cmd, pid, logfile, openLogs, procs, termed, spawned,
                   opened, stopWaiting, nreq, signaled>>

(* A step of a monitor goroutine of node n.                                *)
MonitorStep(n) ==
    \E m \in DOMAIN mons[n] :
        \/ MonitorFirstSample(n, m) \/ MonitorSignal(n, m)
        \/ UploadConnect(n, m) \/ UploadAttempt(n, m)

-----------------------------------------------------------------------------
(* Environment of the agent process.                                       *)

(* SIGINT or SIGTERM to the agent: signal.Notify delivers it to the        *)
(* notifier of every monitor started so far (and the agent, which has      *)
(* registered them, keeps running).                                        *)
AgentSignal(n) ==
    /\ ~signaled[n]
    /\ mons[n] # <<>>
    /\ signaled' = [signaled EXCEPT ![n] = TRUE]
    /\ mons' = [mons EXCEPT ![n] =
                  [m \in DOMAIN @ |-> [@[m] EXCEPT !.sig = TRUE]]]
    /\ UNCHANGED <<req, cmd, pid, logfile, openLogs, procs, termed, spawned,
                   opened, stopWaiting, nreq>>

(* A database process exits, on SIGTERM or on its own.                     *)
ProcessExit(n, p) ==
    /\ p \in procs[n]
    /\ procs' = [procs EXCEPT ![n] = @ \ {p}]
    /\ UNCHANGED <<req, cmd, pid, logfile, openLogs, termed, spawned,
                   opened, mons, stopWaiting, nreq, signaled>>

(* What the agents do by themselves, whoever the client is.                *)
AgentInternal(n) ==
    \/ StopNotify(n)
    \/ MonitorStep(n)
    \/ AgentSignal(n)
    \/ \E p \in procs[n] : ProcessExit(n, p)

(* Goroutines of the agent are scheduled; the database processes and       *)
(* signals are not obliged to do anything.                                 *)
AgentFairness ==
    \A n \in Nodes :
        /\ WF_agentVars(StopNotify(n))
        /\ \A m \in Ids :
              WF_agentVars(m \in DOMAIN mons[n] /\
                   (MonitorFirstSample(n, m) \/ MonitorSignal(n, m) \/
                    UploadConnect(n, m) \/ UploadAttempt(n, m)))

-----------------------------------------------------------------------------
(* The agents alone, under a client that may send any of Operations.       *)

AgentNext ==
    \E n \in Nodes :
        \/ "Start" \in Operations /\ \E db \in Databases : Start(n, db)
        \/ "Restart" \in Operations /\ Restart(n)
        \/ "Stop" \in Operations /\ StopSignal(n)
        \/ AgentInternal(n)

AgentSpec == AgentInit /\ [][AgentNext]_agentVars

AgentFairSpec == AgentSpec /\ AgentFairness

-----------------------------------------------------------------------------
(* Properties.                                                             *)

Monitor == [pid : Ids, run : 0 .. MaxRequests, pc : MonitorStates,
            sig : BOOLEAN, file : 1 .. UploadFiles, tries : 0 .. UploadRetries - 1]

AgentTypeOK ==
    \A n \in Nodes :
        /\ req[n] \in 0 .. MaxRequests
        /\ cmd[n] \in {"nil"} \cup Supported
        /\ pid[n] \in {0} \cup Ids
        /\ logfile[n] \in {0} \cup Ids
        /\ openLogs[n] \subseteq Ids
        /\ procs[n] \subseteq Ids
        /\ termed[n] \subseteq Ids
        /\ spawned[n] \in 0 .. MaxRequests
        /\ opened[n] \in 0 .. MaxRequests
        /\ mons[n] \in Seq(Monitor)
        /\ Len(mons[n]) <= spawned[n]
        /\ stopWaiting[n] \in Seq(Ids)
        /\ nreq[n] \in 0 .. MaxRequests
        /\ signaled[n] \in BOOLEAN

TypeOK ==
    /\ DOMAIN req = Nodes /\ DOMAIN cmd = Nodes /\ DOMAIN pid = Nodes
    /\ DOMAIN mons = Nodes /\ DOMAIN stopWaiting = Nodes
    /\ AgentTypeOK

(* Upload is best effort but bounded: a monitor that received from         *)
(* databaseStopped ends, whatever NewGoogleCloudStorage and UploadFile     *)
(* return, after at most 30 attempts per file.                             *)
UploadTerminates ==
    \A n \in Nodes, m \in Ids :
        (m \in DOMAIN mons[n] /\ mons[n][m].pc = "upload")
            ~> (m \in DOMAIN mons[n] /\ mons[n][m].pc = "exited")

(* Spec: at most one supervised process per agent.  Every database        *)
(* process that is alive and was never sent SIGTERM by Stop is the one     *)
(* t.pid records; Start and Restart spawn a process without stopping the  *)
(* recorded one.                                                           *)
NoOrphanProcess ==
    \A n \in Nodes : \A p \in procs[n] \ termed[n] : p = pid[n]

(* Spec: Stop signals the monitor loop and returns, errors being returned  *)
(* to the caller.  Every Stop handler blocked in the send on the           *)
(* unbuffered databaseStopped eventually completes.                        *)
StopCompletes ==
    \A n \in Nodes : stopWaiting[n] # <<>> ~> stopWaiting[n] = <<>>

(* Spec: Stop empties the supervised process record, so a Stop with no     *)
(* Start after the previous one fails with no process action.  No Stop     *)
(* sends SIGTERM to a process an earlier Stop already signalled.           *)
NoRepeatedStop ==
    [][\A n \in Nodes :
          Len(stopWaiting'[n]) > Len(stopWaiting[n]) => pid[n] \notin termed[n]
      ]_agentVars

(* Spec: one supervised-process record per agent, which a Start          *)
(* overwrites and a Stop tears down, closing its log.  Every database.log  *)
(* handle still open is the one t.logfile holds: Start and Restart assign  *)
(* t.logfile = f without closing the handle it held.                       *)
OneOpenLog ==
    \A n \in Nodes : openLogs[n] \subseteq {logfile[n]}

(* Stop sends SIGTERM only to a process this agent spawned: t.cmd, which   *)
(* Stop checks, is set together with t.pid, after cmd.Start succeeded, so  *)
(* syscall.Kill is never called with pid 0, which would signal the agent's *)
(* own process group.  This is about pid values: once a process has      *)
(* exited, the system may give its pid to an unrelated process.           *)
SignalsOnlySpawned ==
    \A n \in Nodes : termed[n] \subseteq 1 .. spawned[n]

(* Stop's SIGTERM goes to the process the latest successful Start or      *)
(* Restart spawned and to no earlier one: t.pid is overwritten by every    *)
(* cmd.Start that succeeds and by nothing else, so once a process has been *)
(* replaced in t.pid no Stop ever signals it again.                        *)
SignalsLatest ==
    [][\A n \in Nodes : termed'[n] \ termed[n] \subseteq {spawned[n]}]_agentVars

(* Spec: the monitor reads the request fields, and they are not updated    *)
(* after being read by it.  A monitor that uploads names the artifacts     *)
(* after the test of the Start it was monitoring: t.req still holds that   *)
(* request while it is in its upload phase.                                *)
UploadNamedForOwnRun ==
    \A n \in Nodes : \A m \in DOMAIN mons[n] :
        mons[n][m].pc \in {"upload", "uploading"} => mons[n][m].run = req[n]

=============================================================================
