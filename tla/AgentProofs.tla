---------------------------- MODULE AgentProofs ----------------------------
(***************************************************************************)
(* Proofs about Agent, for every set of nodes, every bound on the calls    *)
(* and every retry bound:                                                  *)
(*   - the agents' state is type-correct (TypeOK);                         *)
(*   - Stop sends SIGTERM only to processes the agent spawned, never to    *)
(*     pid 0 (SignalsOnlySpawned);                                         *)
(*   - Stop signals only the latest process spawned (SignalsLatest).       *)
(*                                                                         *)
(* None of them is inductive.  The strengthening IInv bounds every counter *)
(* by the number of calls, every pid and handle by the counter that        *)
(* allocated it, and records that t.cmd is set only together with t.pid.  *)
(***************************************************************************)
EXTENDS Agent, TLAPS, SequenceTheorems

USE AgentAssumption

-----------------------------------------------------------------------------
(* Monitor records.                                                        *)

\* A monitor record with its control state replaced.
LEMMA MonSetPc ==
    ASSUME NEW mon \in Monitor, NEW v \in MonitorStates
    PROVE  /\ [mon EXCEPT !.pc = v] \in Monitor
           /\ [mon EXCEPT !.pc = v].pid = mon.pid
    BY DEF Monitor

\* A monitor record with its notifier holding a signal.
LEMMA MonSetSig ==
    ASSUME NEW mon \in Monitor
    PROVE  /\ [mon EXCEPT !.sig = TRUE] \in Monitor
           /\ [mon EXCEPT !.sig = TRUE].pid = mon.pid
    BY DEF Monitor

\* One more failed attempt at the current file, below the bound.
LEMMA MonRetry ==
    ASSUME NEW mon \in Monitor, mon.tries + 1 < UploadRetries
    PROVE  /\ [mon EXCEPT !.tries = @ + 1] \in Monitor
           /\ [mon EXCEPT !.tries = @ + 1].pid = mon.pid
    BY DEF Monitor

\* Starting over the attempts, or moving on to the next file.
LEMMA MonSetTries0 ==
    ASSUME NEW mon \in Monitor
    PROVE  /\ [mon EXCEPT !.tries = 0] \in Monitor
           /\ [mon EXCEPT !.tries = 0].pid = mon.pid
    BY DEF Monitor

LEMMA MonSetFile ==
    ASSUME NEW mon \in Monitor, NEW f \in 1 .. UploadFiles
    PROVE  /\ [mon EXCEPT !.file = f] \in Monitor
           /\ [mon EXCEPT !.file = f].pid = mon.pid
    BY DEF Monitor

\* Moving on to the next file, or exiting after the last.
LEMMA MonNextFile ==
    ASSUME NEW mon \in Monitor
    PROVE  /\ NextFile(mon) \in Monitor
           /\ NextFile(mon).pid = mon.pid
<1>1. CASE mon.file = UploadFiles
    <2>1. NextFile(mon) = [mon EXCEPT !.pc = "exited", !.tries = 0]
        BY <1>1 DEF NextFile
    <2>2. [mon EXCEPT !.pc = "exited", !.tries = 0]
            = [[mon EXCEPT !.pc = "exited"] EXCEPT !.tries = 0]
        BY Zenon
    <2>3. [mon EXCEPT !.pc = "exited"] \in Monitor
          /\ [mon EXCEPT !.pc = "exited"].pid = mon.pid
        BY MonSetPc DEF MonitorStates
    <2>4. QED
        BY <2>1, <2>2, <2>3, MonSetTries0
<1>2. CASE mon.file # UploadFiles
    <2>1. NextFile(mon) = [mon EXCEPT !.file = @ + 1, !.tries = 0]
        BY <1>2 DEF NextFile
    <2>2. [mon EXCEPT !.file = @ + 1, !.tries = 0]
            = [[mon EXCEPT !.file = mon.file + 1] EXCEPT !.tries = 0]
        BY Zenon
    <2>3. mon.file + 1 \in 1 .. UploadFiles
        BY <1>2 DEF Monitor, UploadFiles
    <2>4. [mon EXCEPT !.file = mon.file + 1] \in Monitor
          /\ [mon EXCEPT !.file = mon.file + 1].pid = mon.pid
        BY <2>3, MonSetFile
    <2>5. QED
        BY <2>1, <2>2, <2>4, MonSetTries0
<1>3. QED
    BY <1>1, <1>2

\* Replacing one monitor of one node by a record with the same pid.
LEMMA MonsUpdate ==
    ASSUME NEW s \in Seq(Monitor), NEW m \in 1 .. Len(s),
           NEW x \in Monitor, x.pid = s[m].pid
    PROVE  /\ [s EXCEPT ![m] = x] \in Seq(Monitor)
           /\ Len([s EXCEPT ![m] = x]) = Len(s)
           /\ \A i \in 1 .. Len(s) : [s EXCEPT ![m] = x][i].pid = s[i].pid
    BY ExceptSeq

-----------------------------------------------------------------------------
(* The inductive invariant.                                                *)

\* The variables as functions of the node, with the types the proof needs.
ATypeOK ==
    /\ req \in [Nodes -> Nat]
    /\ cmd \in [Nodes -> {"nil"} \cup Supported]
    /\ pid \in [Nodes -> Nat]
    /\ logfile \in [Nodes -> Nat]
    /\ openLogs \in [Nodes -> SUBSET Nat]
    /\ procs \in [Nodes -> SUBSET Nat]
    /\ termed \in [Nodes -> SUBSET Nat]
    /\ spawned \in [Nodes -> Nat]
    /\ opened \in [Nodes -> Nat]
    /\ mons \in [Nodes -> Seq(Monitor)]
    /\ stopWaiting \in [Nodes -> Seq(Ids)]
    /\ nreq \in [Nodes -> Nat]
    /\ signaled \in [Nodes -> BOOLEAN]

\* Per node: each call allocates at most one pid and one handle, so the
\* counters stay below the number of calls; t.pid is the last pid
\* allocated; t.logfile, the live processes, the signalled ones and the open
\* handles were allocated; t.cmd is set only with t.pid; monitor i watches
\* process i.
INode(n) ==
    /\ nreq[n] <= MaxRequests
    /\ req[n] <= nreq[n]
    /\ spawned[n] <= nreq[n]
    /\ opened[n] <= nreq[n]
    /\ pid[n] = spawned[n]
    /\ logfile[n] <= opened[n]
    /\ cmd[n] # "nil" => pid[n] # 0
    /\ procs[n] \subseteq 1 .. spawned[n]
    /\ termed[n] \subseteq 1 .. spawned[n]
    /\ openLogs[n] \subseteq 1 .. opened[n]
    /\ Len(mons[n]) = spawned[n]
    /\ \A i \in 1 .. Len(mons[n]) : mons[n][i].pid = i

IInv == ATypeOK /\ \A n \in Nodes : INode(n)

LEMMA InitIInv == AgentInit => IInv
    BY EmptySeq DEF AgentInit, IInv, ATypeOK, INode

\* A step of the monitors alone: each keeps its pid.
MonsPreserved ==
    /\ mons' \in [Nodes -> Seq(Monitor)]
    /\ \A k \in Nodes :
          /\ Len(mons'[k]) = Len(mons[k])
          /\ \A i \in 1 .. Len(mons[k]) : mons'[k][i].pid = mons[k][i].pid

LEMMA MonitorsOnly ==
    ASSUME IInv, MonsPreserved,
           stopWaiting' \in [Nodes -> Seq(Ids)],
           signaled' \in [Nodes -> BOOLEAN],
           req' = req, cmd' = cmd, pid' = pid, logfile' = logfile,
           openLogs' = openLogs, procs' = procs, termed' = termed,
           spawned' = spawned, opened' = opened, nreq' = nreq
    PROVE  IInv'
<1>1. ATypeOK'
    BY DEF IInv, ATypeOK, MonsPreserved
<1>2. ASSUME NEW k \in Nodes PROVE INode(k)'
    <2>1. INode(k)
        BY DEF IInv
    <2>2. Len(mons'[k]) = Len(mons[k])
          /\ \A i \in 1 .. Len(mons[k]) : mons'[k][i].pid = mons[k][i].pid
        BY DEF MonsPreserved
    <2>3. QED
        BY <2>1, <2>2 DEF INode
<1>3. QED
    BY <1>1, <1>2 DEF IInv

\* One monitor of node n replaced by a record with the same pid.
LEMMA OneMonitor ==
    ASSUME IInv, NEW n \in Nodes, NEW m \in DOMAIN mons[n],
           NEW x \in Monitor, x.pid = mons[n][m].pid,
           mons' = [mons EXCEPT ![n] = [mons[n] EXCEPT ![m] = x]]
    PROVE  MonsPreserved
<1>1. mons[n] \in Seq(Monitor) /\ m \in 1 .. Len(mons[n])
    BY LenProperties DEF IInv, ATypeOK
<1>2. /\ [mons[n] EXCEPT ![m] = x] \in Seq(Monitor)
      /\ Len([mons[n] EXCEPT ![m] = x]) = Len(mons[n])
      /\ \A i \in 1 .. Len(mons[n]) :
            [mons[n] EXCEPT ![m] = x][i].pid = mons[n][i].pid
    BY <1>1, MonsUpdate
<1>3. QED
    BY <1>2 DEF IInv, ATypeOK, MonsPreserved

\* Setting the control state of one monitor.
LEMMA SetPcPreserves ==
    ASSUME IInv, NEW n \in Nodes, NEW m \in DOMAIN mons[n],
           NEW v \in MonitorStates,
           mons' = [mons EXCEPT ![n][m].pc = v]
    PROVE  MonsPreserved
<1>1. mons[n][m] \in Monitor
    BY LenProperties, ElementOfSeq DEF IInv, ATypeOK
<1>2. mons' = [mons EXCEPT ![n] = [mons[n] EXCEPT ![m] = [mons[n][m] EXCEPT !.pc = v]]]
    BY Zenon
<1>3. QED
    BY <1>1, <1>2, MonSetPc, OneMonitor

\* The monitors' steps that touch nothing but their own record.
LEMMA MonitorStepIInv ==
    ASSUME IInv, NEW n \in Nodes, MonitorStep(n)
    PROVE  IInv'
<1>1. PICK m \in DOMAIN mons[n] :
        \/ MonitorFirstSample(n, m) \/ MonitorSignal(n, m)
        \/ UploadConnect(n, m) \/ UploadAttempt(n, m)
    BY DEF MonitorStep
<1>2. mons[n][m] \in Monitor
    BY LenProperties, ElementOfSeq DEF IInv, ATypeOK
<1>3. /\ req' = req /\ cmd' = cmd /\ pid' = pid /\ logfile' = logfile
      /\ openLogs' = openLogs /\ procs' = procs /\ termed' = termed
      /\ spawned' = spawned /\ opened' = opened /\ nreq' = nreq
      /\ stopWaiting' = stopWaiting /\ signaled' = signaled
    BY <1>1 DEF MonitorFirstSample, MonitorSignal, UploadConnect, UploadAttempt
<1>4. MonsPreserved
    <2>1. CASE MonitorFirstSample(n, m)
        <3>1. PICK ok \in BOOLEAN :
                mons' = [mons EXCEPT ![n][m].pc = IF ok THEN "loop" ELSE "exited"]
            BY <2>1 DEF MonitorFirstSample
        <3>2. (IF ok THEN "loop" ELSE "exited") \in MonitorStates
            BY DEF MonitorStates
        <3>3. QED
            BY <3>1, <3>2, SetPcPreserves
    <2>2. CASE MonitorSignal(n, m)
        BY <2>2, SetPcPreserves DEF MonitorSignal, MonitorStates
    <2>3. CASE UploadConnect(n, m)
        <3>1. PICK ok \in BOOLEAN :
                mons' = [mons EXCEPT ![n][m].pc = IF ok THEN "uploading" ELSE "exited"]
            BY <2>3 DEF UploadConnect
        <3>2. (IF ok THEN "uploading" ELSE "exited") \in MonitorStates
            BY DEF MonitorStates
        <3>3. QED
            BY <3>1, <3>2, SetPcPreserves
    <2>4. CASE UploadAttempt(n, m)
        <3>1. CASE mons' = [mons EXCEPT ![n][m] = NextFile(@)]
            <4>1. mons' = [mons EXCEPT ![n] = [mons[n] EXCEPT ![m] = NextFile(mons[n][m])]]
                BY <3>1, Zenon
            <4>2. QED
                BY <4>1, <1>2, MonNextFile, OneMonitor
        <3>2. CASE /\ mons[n][m].tries + 1 < UploadRetries
                   /\ mons' = [mons EXCEPT ![n][m].tries = @ + 1]
            <4>1. mons' = [mons EXCEPT ![n] = [mons[n] EXCEPT ![m] =
                            [mons[n][m] EXCEPT !.tries = @ + 1]]]
                BY <3>2, Zenon
            <4>2. QED
                BY <3>2, <4>1, <1>2, MonRetry, OneMonitor
        <3>3. QED
            BY <2>4, <3>1, <3>2 DEF UploadAttempt
    <2>5. QED
        BY <1>1, <2>1, <2>2, <2>3, <2>4
<1>5. QED
    BY <1>3, <1>4, MonitorsOnly DEF IInv, ATypeOK

\* Appending the monitor of the next process.
LEMMA AppendMonitor ==
    ASSUME NEW s \in Seq(Monitor), \A i \in 1 .. Len(s) : s[i].pid = i,
           NEW x \in Monitor, x.pid = Len(s) + 1
    PROVE  /\ Append(s, x) \in Seq(Monitor)
           /\ Len(Append(s, x)) = Len(s) + 1
           /\ \A i \in 1 .. Len(Append(s, x)) : Append(s, x)[i].pid = i
    BY AppendProperties

\* A node other than the one that stepped keeps its part of the invariant.
LEMMA OtherNode ==
    ASSUME IInv, NEW k \in Nodes,
           req'[k] = req[k], cmd'[k] = cmd[k], pid'[k] = pid[k],
           logfile'[k] = logfile[k], openLogs'[k] = openLogs[k],
           procs'[k] = procs[k], termed'[k] = termed[k],
           spawned'[k] = spawned[k], opened'[k] = opened[k],
           mons'[k] = mons[k], nreq'[k] = nreq[k]
    PROVE  INode(k)'
    BY DEF IInv, INode

\* What every handler shares: the call is counted and t.req, if it
\* changes, holds a call already counted.
HandlerFrame(n) ==
    /\ Arrive(n)
    /\ req' \in [Nodes -> Nat]
    /\ req'[n] <= nreq'[n]
    /\ \A k \in Nodes \ {n} : req'[k] = req[k]

LEMMA ArriveEffect ==
    ASSUME nreq \in [Nodes -> Nat], NEW n \in Nodes, Arrive(n)
    PROVE  /\ nreq' \in [Nodes -> Nat]
           /\ nreq'[n] = nreq[n] + 1
           /\ nreq[n] < MaxRequests
           /\ \A k \in Nodes \ {n} : nreq'[k] = nreq[k]
    BY DEF Arrive

LEMMA OpenLogEffect ==
    ASSUME opened \in [Nodes -> Nat], logfile \in [Nodes -> Nat],
           openLogs \in [Nodes -> SUBSET Nat], NEW n \in Nodes, OpenLog(n)
    PROVE  /\ opened' \in [Nodes -> Nat]
           /\ logfile' \in [Nodes -> Nat]
           /\ openLogs' \in [Nodes -> SUBSET Nat]
           /\ opened'[n] = opened[n] + 1
           /\ logfile'[n] = opened[n] + 1
           /\ openLogs'[n] = openLogs[n] \cup {opened[n] + 1}
           /\ \A k \in Nodes \ {n} : /\ opened'[k] = opened[k]
                                     /\ logfile'[k] = logfile[k]
                                     /\ openLogs'[k] = openLogs[k]
    BY DEF OpenLog

LEMMA SpawnEffect ==
    ASSUME spawned \in [Nodes -> Nat], pid \in [Nodes -> Nat],
           cmd \in [Nodes -> {"nil"} \cup Supported],
           procs \in [Nodes -> SUBSET Nat],
           NEW n \in Nodes, NEW db \in Supported, NEW r, Spawn(n, db, r)
    PROVE  /\ spawned' \in [Nodes -> Nat]
           /\ pid' \in [Nodes -> Nat]
           /\ cmd' \in [Nodes -> {"nil"} \cup Supported]
           /\ procs' \in [Nodes -> SUBSET Nat]
           /\ spawned'[n] = spawned[n] + 1
           /\ pid'[n] = spawned[n] + 1
           /\ cmd'[n] = db
           /\ procs'[n] = procs[n] \cup {spawned[n] + 1}
           /\ mons' = [mons EXCEPT ![n] = Append(mons[n], NewMonitor(spawned[n] + 1, r))]
           /\ \A k \in Nodes \ {n} : /\ spawned'[k] = spawned[k]
                                     /\ pid'[k] = pid[k]
                                     /\ cmd'[k] = cmd[k]
                                     /\ procs'[k] = procs[k]
    BY DEF Spawn

\* A handler that returns before it opens the log.
LEMMA NoEffectStep ==
    ASSUME IInv, NEW n \in Nodes, HandlerFrame(n),
           UNCHANGED <<cmd, pid, logfile, openLogs, spawned, opened, procs,
                       mons, termed, stopWaiting, signaled>>
    PROVE  IInv'
<1>0. /\ cmd' = cmd /\ pid' = pid /\ logfile' = logfile
      /\ openLogs' = openLogs /\ spawned' = spawned /\ opened' = opened
      /\ procs' = procs /\ mons' = mons /\ termed' = termed
      /\ stopWaiting' = stopWaiting /\ signaled' = signaled
    OBVIOUS
<1>1. ATypeOK /\ INode(n)
    BY DEF IInv
<1>2. /\ nreq' \in [Nodes -> Nat]
      /\ nreq'[n] = nreq[n] + 1
      /\ nreq[n] < MaxRequests
      /\ \A k \in Nodes \ {n} : nreq'[k] = nreq[k]
    BY <1>1, ArriveEffect DEF ATypeOK, HandlerFrame
<1>3. ATypeOK'
    BY <1>0, <1>1, <1>2, Zenon DEF ATypeOK, HandlerFrame
<1>4. INode(n)'
    <2>1. /\ nreq[n] \in Nat /\ req'[n] \in Nat /\ spawned[n] \in Nat
          /\ opened[n] \in Nat /\ req[n] \in Nat
        BY <1>1 DEF ATypeOK, HandlerFrame
    <2>2. nreq'[n] <= MaxRequests /\ req'[n] <= nreq'[n]
          /\ spawned[n] <= nreq'[n] /\ opened[n] <= nreq'[n]
        BY <1>1, <1>2, <2>1 DEF INode, HandlerFrame
    <2>3. QED
        BY <1>0, <1>1, <2>2 DEF INode
<1>5. ASSUME NEW k \in Nodes \ {n} PROVE INode(k)'
    BY <1>0, <1>2, OtherNode DEF HandlerFrame
<1>6. QED
    BY <1>3, <1>4, <1>5 DEF IInv

\* A handler that opens the log and then fails to start the process.
LEMMA OpenOnlyStep ==
    ASSUME IInv, NEW n \in Nodes, HandlerFrame(n), OpenLog(n),
           UNCHANGED <<cmd, pid, spawned, procs, mons, termed, stopWaiting,
                       signaled>>
    PROVE  IInv'
<1>0. /\ cmd' = cmd /\ pid' = pid /\ spawned' = spawned /\ procs' = procs
      /\ mons' = mons /\ termed' = termed /\ stopWaiting' = stopWaiting
      /\ signaled' = signaled
    OBVIOUS
<1>1. ATypeOK /\ INode(n)
    BY DEF IInv
<1>2. /\ nreq' \in [Nodes -> Nat]
      /\ nreq'[n] = nreq[n] + 1
      /\ nreq[n] < MaxRequests
      /\ \A k \in Nodes \ {n} : nreq'[k] = nreq[k]
    BY <1>1, ArriveEffect DEF ATypeOK, HandlerFrame
<1>3. /\ opened' \in [Nodes -> Nat]
      /\ logfile' \in [Nodes -> Nat]
      /\ openLogs' \in [Nodes -> SUBSET Nat]
      /\ opened'[n] = opened[n] + 1
      /\ logfile'[n] = opened[n] + 1
      /\ openLogs'[n] = openLogs[n] \cup {opened[n] + 1}
      /\ \A k \in Nodes \ {n} : /\ opened'[k] = opened[k]
                                /\ logfile'[k] = logfile[k]
                                /\ openLogs'[k] = openLogs[k]
    BY <1>1, OpenLogEffect DEF ATypeOK
<1>4. ATypeOK'
    BY <1>0, <1>1, <1>2, <1>3, Zenon DEF ATypeOK, HandlerFrame
<1>5. INode(n)'
    <2>1. /\ nreq[n] \in Nat /\ req'[n] \in Nat /\ spawned[n] \in Nat
          /\ opened[n] \in Nat
        BY <1>1 DEF ATypeOK, HandlerFrame
    <2>2. /\ nreq'[n] <= MaxRequests /\ req'[n] <= nreq'[n]
          /\ spawned[n] <= nreq'[n] /\ opened'[n] <= nreq'[n]
          /\ logfile'[n] <= opened'[n]
        <3>1. /\ nreq'[n] = nreq[n] + 1 /\ nreq[n] < MaxRequests
              /\ req'[n] <= nreq'[n]
              /\ opened'[n] = opened[n] + 1 /\ logfile'[n] = opened[n] + 1
            BY <1>2, <1>3 DEF HandlerFrame
        <3>2. spawned[n] <= nreq[n] /\ opened[n] <= nreq[n]
            BY <1>1 DEF INode
        <3>3. QED
            BY <2>1, <3>1, <3>2
    <2>3. openLogs'[n] \subseteq 1 .. opened'[n]
        <3>1. /\ openLogs'[n] = openLogs[n] \cup {opened[n] + 1}
              /\ opened'[n] = opened[n] + 1
            BY <1>3
        <3>2. openLogs[n] \subseteq 1 .. opened[n]
            BY <1>1 DEF INode
        <3>3. QED
            BY <2>1, <3>1, <3>2
    <2>4. QED
        BY <1>0, <1>1, <2>2, <2>3 DEF INode
<1>6. ASSUME NEW k \in Nodes \ {n} PROVE INode(k)'
    BY <1>0, <1>2, <1>3, OtherNode DEF HandlerFrame
<1>7. QED
    BY <1>4, <1>5, <1>6 DEF IInv

\* A handler that opens the log and spawns the process, with its monitor.
LEMMA SpawnStep ==
    ASSUME IInv, NEW n \in Nodes, NEW db \in Supported,
           NEW r \in 0 .. MaxRequests,
           HandlerFrame(n), OpenLog(n), Spawn(n, db, r),
           UNCHANGED <<termed, stopWaiting, signaled>>
    PROVE  IInv'
<1> DEFINE x == NewMonitor(spawned[n] + 1, r)
<1>0. termed' = termed /\ stopWaiting' = stopWaiting /\ signaled' = signaled
    OBVIOUS
<1>1. ATypeOK /\ INode(n)
    BY DEF IInv
<1>2. /\ nreq' \in [Nodes -> Nat]
      /\ nreq'[n] = nreq[n] + 1
      /\ nreq[n] < MaxRequests
      /\ \A k \in Nodes \ {n} : nreq'[k] = nreq[k]
    BY <1>1, ArriveEffect DEF ATypeOK, HandlerFrame
<1>3. /\ opened' \in [Nodes -> Nat]
      /\ logfile' \in [Nodes -> Nat]
      /\ openLogs' \in [Nodes -> SUBSET Nat]
      /\ opened'[n] = opened[n] + 1
      /\ logfile'[n] = opened[n] + 1
      /\ openLogs'[n] = openLogs[n] \cup {opened[n] + 1}
      /\ \A k \in Nodes \ {n} : /\ opened'[k] = opened[k]
                                /\ logfile'[k] = logfile[k]
                                /\ openLogs'[k] = openLogs[k]
    BY <1>1, OpenLogEffect DEF ATypeOK
<1>4. /\ spawned' \in [Nodes -> Nat]
      /\ pid' \in [Nodes -> Nat]
      /\ cmd' \in [Nodes -> {"nil"} \cup Supported]
      /\ procs' \in [Nodes -> SUBSET Nat]
      /\ spawned'[n] = spawned[n] + 1
      /\ pid'[n] = spawned[n] + 1
      /\ cmd'[n] = db
      /\ procs'[n] = procs[n] \cup {spawned[n] + 1}
      /\ mons' = [mons EXCEPT ![n] = Append(mons[n], x)]
      /\ \A k \in Nodes \ {n} : /\ spawned'[k] = spawned[k]
                                /\ pid'[k] = pid[k]
                                /\ cmd'[k] = cmd[k]
                                /\ procs'[k] = procs[k]
    BY <1>1, SpawnEffect DEF ATypeOK
<1>5. /\ mons[n] \in Seq(Monitor)
      /\ Len(mons[n]) = spawned[n]
      /\ \A i \in 1 .. Len(mons[n]) : mons[n][i].pid = i
      /\ spawned[n] \in Nat /\ nreq[n] \in Nat
    BY <1>1 DEF ATypeOK, INode
<1>6. x \in Monitor /\ x.pid = Len(mons[n]) + 1
    <2>1. spawned[n] + 1 \in Ids
        BY <1>1, <1>2, <1>5 DEF INode, Ids
    <2>2. QED
        BY <1>5, <2>1 DEF NewMonitor, Monitor, MonitorStates, UploadFiles
<1>7. /\ Append(mons[n], x) \in Seq(Monitor)
      /\ Len(Append(mons[n], x)) = Len(mons[n]) + 1
      /\ \A i \in 1 .. Len(Append(mons[n], x)) : Append(mons[n], x)[i].pid = i
    BY <1>5, <1>6, AppendMonitor
<1>8. /\ mons' \in [Nodes -> Seq(Monitor)]
      /\ mons'[n] = Append(mons[n], x)
      /\ \A k \in Nodes \ {n} : mons'[k] = mons[k]
    BY <1>1, <1>4, <1>7 DEF ATypeOK
<1>9. ATypeOK'
    BY <1>0, <1>1, <1>2, <1>3, <1>4, <1>8, Zenon DEF ATypeOK, HandlerFrame
<1>10. INode(n)'
    <2>1. /\ nreq[n] \in Nat /\ req'[n] \in Nat /\ opened[n] \in Nat
          /\ spawned[n] \in Nat
        BY <1>1 DEF ATypeOK, HandlerFrame
    <2>2. /\ nreq'[n] <= MaxRequests /\ req'[n] <= nreq'[n]
          /\ spawned'[n] <= nreq'[n] /\ opened'[n] <= nreq'[n]
          /\ logfile'[n] <= opened'[n] /\ pid'[n] = spawned'[n]
          /\ pid'[n] # 0
        <3>1. /\ nreq'[n] = nreq[n] + 1 /\ nreq[n] < MaxRequests
              /\ req'[n] <= nreq'[n]
              /\ spawned'[n] = spawned[n] + 1 /\ pid'[n] = spawned[n] + 1
              /\ opened'[n] = opened[n] + 1 /\ logfile'[n] = opened[n] + 1
            BY <1>2, <1>3, <1>4 DEF HandlerFrame
        <3>2. spawned[n] <= nreq[n] /\ opened[n] <= nreq[n]
            BY <1>1 DEF INode
        <3>3. QED
            BY <2>1, <3>1, <3>2
    <2>3. /\ openLogs'[n] \subseteq 1 .. opened'[n]
          /\ procs'[n] \subseteq 1 .. spawned'[n]
          /\ termed'[n] \subseteq 1 .. spawned'[n]
        <3>1. /\ openLogs'[n] = openLogs[n] \cup {opened[n] + 1}
              /\ procs'[n] = procs[n] \cup {spawned[n] + 1}
              /\ opened'[n] = opened[n] + 1 /\ spawned'[n] = spawned[n] + 1
              /\ termed'[n] = termed[n]
            BY <1>0, <1>3, <1>4
        <3>2. /\ openLogs[n] \subseteq 1 .. opened[n]
              /\ procs[n] \subseteq 1 .. spawned[n]
              /\ termed[n] \subseteq 1 .. spawned[n]
            BY <1>1 DEF INode
        <3>3. QED
            BY <2>1, <3>1, <3>2
    <2>4. /\ Len(mons'[n]) = spawned'[n]
          /\ \A i \in 1 .. Len(mons'[n]) : mons'[n][i].pid = i
        BY <1>4, <1>5, <1>7, <1>8
    <2>5. QED
        BY <2>2, <2>3, <2>4 DEF INode
<1>11. ASSUME NEW k \in Nodes \ {n} PROVE INode(k)'
    BY <1>0, <1>2, <1>3, <1>4, <1>8, OtherNode DEF HandlerFrame
<1>12. QED
    BY <1>9, <1>10, <1>11 DEF IInv

LEMMA StartIInv ==
    ASSUME IInv, NEW n \in Nodes, NEW db, Start(n, db)
    PROVE  IInv'
<1>0. nreq \in [Nodes -> Nat] /\ req \in [Nodes -> Nat]
    BY DEF IInv, ATypeOK
<1>1. /\ nreq' \in [Nodes -> Nat]
      /\ nreq'[n] = nreq[n] + 1
      /\ nreq[n] < MaxRequests
    BY <1>0, ArriveEffect DEF Start
<1>2. req' = [req EXCEPT ![n] = nreq'[n]]
    BY DEF Start
<1>3. HandlerFrame(n)
    BY <1>0, <1>1, <1>2 DEF Start, HandlerFrame
<1>4. req'[n] \in 0 .. MaxRequests
    BY <1>0, <1>1, <1>2
<1>5. UNCHANGED <<termed, stopWaiting, signaled>>
    BY DEF Start
<1>6. CASE UNCHANGED <<cmd, pid, logfile, openLogs, spawned, opened, procs, mons>>
    BY <1>3, <1>5, <1>6, NoEffectStep
<1>7. CASE OpenLog(n) /\ UNCHANGED <<cmd, pid, spawned, procs, mons>>
    BY <1>3, <1>5, <1>7, OpenOnlyStep
<1>8. CASE db \in Supported /\ OpenLog(n) /\ Spawn(n, db, req'[n])
    BY <1>3, <1>4, <1>5, <1>8, SpawnStep
<1>9. QED
    BY <1>6, <1>7, <1>8 DEF Start

LEMMA RestartIInv ==
    ASSUME IInv, NEW n \in Nodes, Restart(n)
    PROVE  IInv'
<1>1. HandlerFrame(n)
    BY DEF Restart, HandlerFrame, Arrive, IInv, ATypeOK, INode
<1>2. req[n] \in 0 .. MaxRequests
    BY DEF IInv, ATypeOK, INode
<1>3. cmd[n] # "nil" => cmd[n] \in Supported
    BY DEF IInv, ATypeOK
<1>4. QED
    BY <1>1, <1>2, <1>3, NoEffectStep, OpenOnlyStep, SpawnStep DEF Restart

\* Stop: SIGTERM goes to t.pid, which t.cmd being set makes a spawned pid.
LEMMA StopSignalIInv ==
    ASSUME IInv, NEW n \in Nodes, StopSignal(n)
    PROVE  IInv'
<1>0. ATypeOK /\ INode(n)
    BY DEF IInv
<1>1. /\ nreq' \in [Nodes -> Nat]
      /\ nreq'[n] = nreq[n] + 1
      /\ nreq[n] < MaxRequests
      /\ \A k \in Nodes \ {n} : nreq'[k] = nreq[k]
    BY <1>0, ArriveEffect DEF StopSignal, ATypeOK
<1>2. /\ req' = req /\ cmd' = cmd /\ pid' = pid /\ logfile' = logfile
      /\ procs' = procs /\ spawned' = spawned /\ opened' = opened
      /\ mons' = mons /\ signaled' = signaled
    BY DEF StopSignal
<1>3. HandlerFrame(n)
    <2>1. req \in [Nodes -> Nat] /\ req[n] <= nreq[n] /\ nreq[n] \in Nat
        BY <1>0 DEF ATypeOK, INode
    <2>2. QED
        BY <1>1, <1>2, <2>1 DEF StopSignal, HandlerFrame
<1>4. CASE UNCHANGED <<openLogs, termed, stopWaiting>>
    BY <1>2, <1>3, <1>4, NoEffectStep
<1>5. CASE /\ cmd[n] # "nil"
           /\ termed' = [termed EXCEPT ![n] = @ \cup {pid[n]}]
           /\ openLogs' = [openLogs EXCEPT ![n] = @ \ {logfile[n]}]
           /\ stopWaiting' = [stopWaiting EXCEPT ![n] = Append(@, nreq'[n])]
    <2>1. /\ nreq[n] \in Nat /\ spawned[n] \in Nat /\ pid[n] \in Nat
          /\ termed \in [Nodes -> SUBSET Nat]
          /\ openLogs \in [Nodes -> SUBSET Nat]
          /\ stopWaiting \in [Nodes -> Seq(Ids)]
        BY <1>0 DEF ATypeOK
    <2>2. nreq'[n] \in Ids /\ pid[n] \in 1 .. spawned[n]
        <3>1. pid[n] # 0 /\ pid[n] = spawned[n]
            BY <1>0, <1>5 DEF INode
        <3>2. QED
            BY <1>1, <2>1, <3>1 DEF Ids
    <2>3. Append(stopWaiting[n], nreq'[n]) \in Seq(Ids)
        BY <2>1, <2>2, AppendProperties
    <2>4. /\ termed' \in [Nodes -> SUBSET Nat]
          /\ openLogs' \in [Nodes -> SUBSET Nat]
          /\ stopWaiting' \in [Nodes -> Seq(Ids)]
        BY <1>5, <2>1, <2>2, <2>3
    <2>5. ATypeOK'
        BY <1>0, <1>1, <1>2, <1>3, <2>4, Zenon DEF ATypeOK, HandlerFrame
    <2>6. INode(n)'
        <3>1. /\ termed'[n] = termed[n] \cup {pid[n]}
              /\ openLogs'[n] = openLogs[n] \ {logfile[n]}
            BY <1>5, <2>1
        <3>2. /\ termed'[n] \subseteq 1 .. spawned[n]
              /\ openLogs'[n] \subseteq 1 .. opened[n]
            BY <1>0, <2>2, <3>1 DEF INode
        <3>3. /\ nreq'[n] <= MaxRequests /\ req[n] <= nreq'[n]
              /\ spawned[n] <= nreq'[n] /\ opened[n] <= nreq'[n]
            <4>1. req[n] \in Nat /\ opened[n] \in Nat
                BY <1>0 DEF ATypeOK
            <4>2. QED
                BY <1>0, <1>1, <2>1, <4>1 DEF INode
        <3>4. QED
            BY <1>0, <1>2, <3>2, <3>3 DEF INode
    <2>7. ASSUME NEW k \in Nodes \ {n} PROVE INode(k)'
        <3>1. /\ termed'[k] = termed[k] /\ openLogs'[k] = openLogs[k]
            BY <1>5, <2>1
        <3>2. QED
            BY <1>1, <1>2, <3>1, OtherNode
    <2>8. QED
        BY <2>5, <2>6, <2>7 DEF IInv
<1>6. QED
    BY <1>4, <1>5 DEF StopSignal

\* The rendezvous on databaseStopped: a blocked Stop returns, a monitor
\* starts uploading.
LEMMA StopNotifyIInv ==
    ASSUME IInv, NEW n \in Nodes, StopNotify(n)
    PROVE  IInv'
<1>1. PICK m \in DOMAIN mons[n] : mons' = [mons EXCEPT ![n][m].pc = "upload"]
    BY DEF StopNotify
<1>2. MonsPreserved
    BY <1>1, SetPcPreserves DEF MonitorStates
<1>3. Tail(stopWaiting[n]) \in Seq(Ids)
    BY HeadTailProperties DEF StopNotify, IInv, ATypeOK
<1>4. stopWaiting' \in [Nodes -> Seq(Ids)]
    BY <1>3 DEF StopNotify, IInv, ATypeOK
<1>5. QED
    BY <1>2, <1>4, MonitorsOnly DEF StopNotify, IInv, ATypeOK

\* signal.Notify delivers the signal to every monitor's notifier.
LEMMA AgentSignalIInv ==
    ASSUME IInv, NEW n \in Nodes, AgentSignal(n)
    PROVE  IInv'
<1> DEFINE s == mons[n]
           t == [i \in 1 .. Len(s) |-> [s[i] EXCEPT !.sig = TRUE]]
<1>1. s \in Seq(Monitor) /\ DOMAIN s = 1 .. Len(s) /\ Len(s) \in Nat
    BY LenProperties DEF IInv, ATypeOK
<1>2. mons' = [mons EXCEPT ![n] = t]
    BY <1>1 DEF AgentSignal
<1>3. \A i \in 1 .. Len(s) : t[i] \in Monitor /\ t[i].pid = s[i].pid
    BY <1>1, ElementOfSeq, MonSetSig
<1>4. t \in Seq(Monitor)
    <2>1. t \in [1 .. Len(s) -> Monitor]
        BY <1>3
    <2>2. QED
        BY <1>1, <2>1, SeqDef
<1>5. Len(t) = Len(s)
    BY <1>1, <1>4, LenProperties
<1>6. MonsPreserved
    BY <1>2, <1>3, <1>4, <1>5 DEF IInv, ATypeOK, MonsPreserved
<1>7. QED
    BY <1>6, MonitorsOnly DEF AgentSignal, IInv, ATypeOK

LEMMA ProcessExitIInv ==
    ASSUME IInv, NEW n \in Nodes, NEW p \in procs[n], ProcessExit(n, p)
    PROVE  IInv'
<1>1. ATypeOK'
    BY DEF ProcessExit, IInv, ATypeOK
<1>2. INode(n)'
    BY DEF ProcessExit, IInv, ATypeOK, INode
<1>3. ASSUME NEW k \in Nodes \ {n} PROVE INode(k)'
    BY OtherNode DEF ProcessExit, IInv, ATypeOK
<1>4. QED
    BY <1>1, <1>2, <1>3 DEF IInv

LEMMA NextIInv == IInv /\ [AgentNext]_agentVars => IInv'
<1> SUFFICES ASSUME IInv, [AgentNext]_agentVars PROVE IInv'
    OBVIOUS
<1>1. CASE AgentNext
    <2>1. PICK n \in Nodes :
            \/ "Start" \in Operations /\ \E db \in Databases : Start(n, db)
            \/ "Restart" \in Operations /\ Restart(n)
            \/ "Stop" \in Operations /\ StopSignal(n)
            \/ AgentInternal(n)
        BY <1>1 DEF AgentNext
    <2>2. CASE AgentInternal(n)
        BY <2>2, StopNotifyIInv, MonitorStepIInv, AgentSignalIInv,
           ProcessExitIInv DEF AgentInternal
    <2>3. QED
        BY <2>1, <2>2, StartIInv, RestartIInv, StopSignalIInv
<1>2. CASE UNCHANGED agentVars
    BY <1>2 DEF agentVars, IInv, ATypeOK, INode
<1>3. QED
    BY <1>1, <1>2

-----------------------------------------------------------------------------
(* The properties follow from IInv.                                        *)

LEMMA IInvTypeOK == IInv => TypeOK
<1> SUFFICES ASSUME IInv PROVE TypeOK
    OBVIOUS
<1>1. DOMAIN req = Nodes /\ DOMAIN cmd = Nodes /\ DOMAIN pid = Nodes
      /\ DOMAIN mons = Nodes /\ DOMAIN stopWaiting = Nodes
    BY DEF IInv, ATypeOK
<1>2. ASSUME NEW n \in Nodes
      PROVE  /\ req[n] \in 0 .. MaxRequests
             /\ cmd[n] \in {"nil"} \cup Supported
             /\ pid[n] \in {0} \cup Ids
             /\ logfile[n] \in {0} \cup Ids
             /\ openLogs[n] \subseteq Ids
             /\ procs[n] \subseteq Ids
             /\ termed[n] \subseteq Ids
             /\ spawned[n] \in 0 .. MaxRequests
             /\ opened[n] \in 0 .. MaxRequests
             /\ mons[n] \in Seq(Monitor)
             /\ Len(mons[n]) <= spawned[n]
             /\ stopWaiting[n] \in Seq(Ids)
             /\ nreq[n] \in 0 .. MaxRequests
             /\ signaled[n] \in BOOLEAN
    <2>1. /\ req[n] \in Nat /\ cmd[n] \in {"nil"} \cup Supported
          /\ pid[n] \in Nat /\ logfile[n] \in Nat
          /\ openLogs[n] \subseteq Nat /\ procs[n] \subseteq Nat
          /\ termed[n] \subseteq Nat /\ spawned[n] \in Nat
          /\ opened[n] \in Nat /\ mons[n] \in Seq(Monitor)
          /\ stopWaiting[n] \in Seq(Ids) /\ nreq[n] \in Nat
          /\ signaled[n] \in BOOLEAN
        BY DEF IInv, ATypeOK
    <2>2. INode(n)
        BY DEF IInv
    <2>3. /\ nreq[n] \in 0 .. MaxRequests
          /\ req[n] \in 0 .. MaxRequests
          /\ spawned[n] \in 0 .. MaxRequests
          /\ opened[n] \in 0 .. MaxRequests
          /\ pid[n] \in 0 .. MaxRequests
          /\ logfile[n] \in 0 .. MaxRequests
        BY <2>1, <2>2 DEF INode
    <2>4. /\ procs[n] \subseteq Ids /\ termed[n] \subseteq Ids
          /\ openLogs[n] \subseteq Ids
        BY <2>2, <2>3 DEF INode, Ids
    <2>5. /\ pid[n] \in {0} \cup Ids /\ logfile[n] \in {0} \cup Ids
        BY <2>3 DEF Ids
    <2>6. Len(mons[n]) <= spawned[n]
        BY <2>2 DEF INode
    <2>7. QED
        BY <2>1, <2>3, <2>4, <2>5, <2>6
<1>3. QED
    BY <1>1, <1>2 DEF TypeOK, AgentTypeOK

\* Stop's SIGTERM goes to spawned processes only: never to pid 0 (the
\* agent's own process group), because t.cmd is set only with t.pid.
LEMMA IInvSignalsOnlySpawned == IInv => SignalsOnlySpawned
    BY DEF IInv, INode, SignalsOnlySpawned

\* IInv holds in every state the agents can reach, for every set of nodes,
\* bound on the calls and retry bound.
THEOREM AgentInvariant == AgentSpec => []IInv
    BY InitIInv, NextIInv, PTL DEF AgentSpec

\* The agents' state is type-correct: the counters, pids, handles, monitor
\* records and the queue of blocked Stop handlers stay in their ranges.
THEOREM AgentTypeCorrect == AgentSpec => []TypeOK
    BY AgentInvariant, IInvTypeOK, PTL

\* Stop sends SIGTERM only to a process the agent spawned (agent.go:450).
THEOREM SignalsOnlySpawnedHolds == AgentSpec => []SignalsOnlySpawned
    BY AgentInvariant, IInvSignalsOnlySpawned, PTL


-----------------------------------------------------------------------------
(* Stop signals the latest process only.                                   *)

\* The step SignalsLatest constrains.
LatestSignal == \A n \in Nodes : termed'[n] \ termed[n] \subseteq {spawned[n]}

LEMMA InternalKeepsTermed ==
    ASSUME NEW n \in Nodes, AgentInternal(n)
    PROVE  termed' = termed
    BY DEF AgentInternal, StopNotify, MonitorStep, MonitorFirstSample,
           MonitorSignal, UploadConnect, UploadAttempt, AgentSignal,
           ProcessExit

\* Only Stop adds to termed, and what it adds is t.pid, which IInv says is
\* the last pid allocated.
LEMMA LatestSignalStep ==
    ASSUME IInv, NEW k \in Nodes,
           \/ \E db : Start(k, db)
           \/ Restart(k)
           \/ StopSignal(k)
           \/ AgentInternal(k)
    PROVE  LatestSignal
<1> SUFFICES ASSUME NEW n \in Nodes
             PROVE  termed'[n] \ termed[n] \subseteq {spawned[n]}
    BY DEF LatestSignal
<1>1. CASE \/ \E db : Start(k, db)
           \/ Restart(k)
           \/ AgentInternal(k)
    <2>1. termed' = termed
        BY <1>1, InternalKeepsTermed DEF Start, Restart
    <2>2. QED
        BY <2>1
<1>2. CASE StopSignal(k)
    <2>1. termed \in [Nodes -> SUBSET Nat] /\ pid[k] = spawned[k]
        BY DEF IInv, ATypeOK, INode
    <2>2. termed' = termed \/ termed' = [termed EXCEPT ![k] = @ \cup {pid[k]}]
        BY <1>2 DEF StopSignal
    <2>3. QED
        BY <2>1, <2>2
<1>3. QED
    BY <1>1, <1>2

LEMMA NextLatestSignal == IInv /\ [AgentNext]_agentVars => [LatestSignal]_agentVars
<1> SUFFICES ASSUME IInv, AgentNext PROVE LatestSignal
    OBVIOUS
<1>1. PICK k \in Nodes :
        \/ \E db \in Databases : Start(k, db)
        \/ Restart(k)
        \/ StopSignal(k)
        \/ AgentInternal(k)
    BY DEF AgentNext
<1>2. QED
    BY <1>1, LatestSignalStep

\* Stop's SIGTERM reaches the process the latest successful Start or
\* Restart spawned, never one that t.pid no longer holds (agent.go:433,
\* agent.go:450), for every number of nodes and calls.
THEOREM SignalsLatestHolds == AgentSpec => SignalsLatest
<1>1. IInv /\ [AgentNext]_agentVars => [LatestSignal]_agentVars
    BY NextLatestSignal
<1>2. QED
    BY AgentInvariant, <1>1, PTL DEF AgentSpec, SignalsLatest, LatestSignal

=============================================================================
