--------------------------- MODULE ClusterProofs ---------------------------
(***************************************************************************)
(* Proofs about Cluster: a single invocation of the controller that       *)
(* returns success after step3 leaves no database process it started      *)
(* without SIGTERM, for any set of nodes and any bound on the calls.       *)
(*                                                                         *)
(* The argument follows the invocation.  step1 broadcasts one Start per    *)
(* node, so each agent spawns at most one process and t.pid names it.  If  *)
(* step1 succeeds, every Start has been served and none is left to be      *)
(* served late.  In step3 a call is blocked or succeeds only after its     *)
(* Stop handler sent SIGTERM to t.pid, that is, to every process the      *)
(* agent has.                                                              *)
(***************************************************************************)
EXTENDS Cluster, TLAPS

Status == {"none", "sent", "blocked", "ok", "err"}
CtlStates == {"init", "step1", "step2", "step3", "ok", "failed", "exited"}
Request == [op : {"Start", "Stop"}, id : Nat]

\* The part of the state the argument reads, with its types.
CTypeOK ==
    /\ ctl \in CtlStates
    /\ runs \in Nat
    /\ bc \in Nat
    /\ call \in [Nodes -> [st : Status, id : Nat, rid : Nat]]
    /\ inbox \in [Nodes -> SUBSET Request]
    /\ procs \in [Nodes -> SUBSET Nat]
    /\ termed \in [Nodes -> SUBSET Nat]
    /\ spawned \in [Nodes -> Nat]
    /\ pid \in [Nodes -> Nat]
    /\ nreq \in [Nodes -> Nat]

\* Nothing has happened before the controller is first invoked.
IFresh ==
    runs = 0 => /\ ctl = "init" /\ bc = 0
                /\ \A n \in Nodes : /\ call[n] = NoCall /\ inbox[n] = {}
                                    /\ spawned[n] = 0

\* Each agent has spawned at most one process, and t.pid names it.
IOneProcess ==
    \A n \in Nodes : /\ spawned[n] <= 1
                     /\ procs[n] \subseteq 1 .. spawned[n]
                     /\ pid[n] = spawned[n]

\* The only Start is the one of the first broadcast, to an agent that has
\* not spawned yet.
IStartPending ==
    \A n \in Nodes : \A r \in inbox[n] :
        r.op = "Start" => r.id = 1 /\ spawned[n] = 0

\* step1 before and after its broadcast.
IStep1 ==
    ctl = "step1" =>
        \/ /\ bc = 0
           /\ \A n \in Nodes : /\ call[n] = NoCall /\ inbox[n] = {}
                               /\ spawned[n] = 0
        \/ /\ bc = 1
           /\ \A n \in Nodes : call[n].st # "none"

\* Before step3 no Stop has been sent.
IBeforeStop ==
    ctl \in {"init", "step1", "step2"} =>
        \A n \in Nodes : /\ \A r \in inbox[n] : r.op = "Start"
                         /\ call[n].st # "blocked"

\* A Start answered with success has been served.
IStartServed ==
    ctl = "step1" =>
        \A n \in Nodes : call[n].st = "ok" => \A r \in inbox[n] : r.op # "Start"

\* After step1 no Start is left to be served late.
INoLateStart ==
    ctl \in {"step2", "step3", "ok"} =>
        \A n \in Nodes : \A r \in inbox[n] : r.op # "Start"

\* step2 runs with every sendReq idle.
IStep2 ==
    ctl = "step2" => \A n \in Nodes : call[n] = NoCall

\* A Stop call blocked or answered with success in step3 has signalled
\* every process of its agent.
IStopped ==
    ctl = "step3" =>
        \A n \in Nodes : call[n].st \in {"blocked", "ok"} =>
                             procs[n] \subseteq termed[n]

IInv ==
    /\ CTypeOK
    /\ runs <= MaxRuns
    /\ IFresh
    /\ IOneProcess
    /\ IStartPending
    /\ IStep1
    /\ IBeforeStop
    /\ IStartServed
    /\ INoLateStart
    /\ IStep2
    /\ IStopped
    /\ CleanAfterSuccess

USE AgentAssumption, ClusterAssumption

\* A sendReq goroutine whose status changes keeps its request.
LEMMA SetStatus ==
    ASSUME NEW c \in [st : Status, id : Nat, rid : Nat], NEW x
    PROVE  [c EXCEPT !.st = x] = [st |-> x, id |-> c.id, rid |-> c.rid]
BY SMT

\* The same, for the sendReq goroutine of node n.
LEMMA SetCallStatus ==
    ASSUME NEW f \in [Nodes -> [st : Status, id : Nat, rid : Nat]],
           NEW n \in Nodes, NEW x
    PROVE  [f EXCEPT ![n].st = x]
             = [f EXCEPT ![n] = [st |-> x, id |-> f[n].id, rid |-> f[n].rid]]
BY SetStatus

-----------------------------------------------------------------------------
(* What the agent's actions do to the processes, the SIGTERMs and t.pid.   *)

\* Start spawns a process, with the next pid, or none; it signals nothing.
LEMMA StartEffect ==
    ASSUME NEW n \in Nodes, NEW db, Start(n, db)
    PROVE  /\ termed' = termed
           /\ nreq' = [nreq EXCEPT ![n] = @ + 1]
           /\ \/ spawned' = spawned /\ pid' = pid /\ procs' = procs
              \/ /\ spawned' = [spawned EXCEPT ![n] = @ + 1]
                 /\ pid' = [pid EXCEPT ![n] = spawned'[n]]
                 /\ procs' = [procs EXCEPT ![n] = @ \cup {spawned'[n]}]
BY DEF Start, Arrive, OpenLog, Spawn

\* Stop spawns nothing; the handler goes on to the send only after
\* sending SIGTERM to t.pid.
LEMMA StopEffect ==
    ASSUME NEW n \in Nodes, StopSignal(n)
    PROVE  /\ spawned' = spawned /\ pid' = pid /\ procs' = procs
           /\ nreq' = [nreq EXCEPT ![n] = @ + 1]
           /\ \/ termed' = termed /\ stopWaiting' = stopWaiting
              \/ termed' = [termed EXCEPT ![n] = @ \cup {pid[n]}]
BY DEF StopSignal, Arrive

\* The monitors, the signal to the agent and the send on databaseStopped
\* neither spawn nor signal a process.
LEMMA InternalEffect ==
    ASSUME NEW n \in Nodes,
           \/ MonitorStep(n) \/ AgentSignal(n) \/ StopNotify(n)
    PROVE  /\ procs' = procs /\ termed' = termed /\ spawned' = spawned
           /\ pid' = pid /\ nreq' = nreq
<1>1. CASE MonitorStep(n)
  BY <1>1 DEF MonitorStep, MonitorFirstSample, MonitorSignal, UploadConnect,
              UploadAttempt
<1>2. CASE AgentSignal(n)
  BY <1>2 DEF AgentSignal
<1>3. CASE StopNotify(n)
  BY <1>3 DEF StopNotify
<1>4. QED
  BY <1>1, <1>2, <1>3

\* The step the controller goes to after step k.
LEMMA AfterStepFacts ==
    /\ AfterStep(0) \in {"step1", "step2", "step3", "ok"}
    /\ AfterStep(1) \in {"step2", "step3", "ok"}
    /\ AfterStep(2) \in {"step3", "ok"}
    /\ AfterStep(3) = "ok"
    /\ \A k \in 0 .. 2 : AfterStep(k) = "ok" => Skip3
BY DEF AfterStep

-----------------------------------------------------------------------------
(* The invariant holds initially and is preserved by every step, when the *)
(* controller is invoked at most once.                                     *)

\* The agents and the controller start with nothing running.
LEMMA InitIInv == Init => IInv
BY AgentAssumption, ClusterAssumption
   DEF Init, AgentInit, IInv, CTypeOK, CtlStates, Status, NoCall, IFresh,
       IOneProcess, IStartPending, IStep1, IBeforeStop, IStartServed,
       INoLateStart, IStep2, IStopped, CleanAfterSuccess

\* The operator invokes the controller, which can only be its first
\* invocation: the steps start from the fresh state.
LEMMA InvokeIInv ==
    ASSUME MaxRuns <= 1, IInv, Invoke
    PROVE  IInv'
<1>1. runs = 0
  BY ClusterAssumption DEF IInv, CTypeOK, Invoke
<1>2. /\ ctl = "init" /\ bc = 0
      /\ \A n \in Nodes : call[n] = NoCall /\ inbox[n] = {} /\ spawned[n] = 0
  BY <1>1 DEF IInv, IFresh
<1>3. ctl' \in {"step1", "step2", "step3", "ok"} /\ (ctl' = "ok" => Skip3)
  BY AfterStepFacts DEF Invoke
<1>4. UNCHANGED <<agentVars, bc, call, inbox>> /\ runs' = 1
  BY <1>1 DEF Invoke
<1>5. CTypeOK'
  BY <1>3, <1>4 DEF IInv, CTypeOK, CtlStates, agentVars
<1>6. (runs <= MaxRuns /\ IFresh)'
  BY <1>1, <1>4 DEF Invoke, IFresh, IInv, CTypeOK
<1>7. (IOneProcess /\ IStartPending)'
  BY <1>4 DEF IInv, IOneProcess, IStartPending, agentVars
<1>8. IStep1'
  BY <1>2, <1>4 DEF IStep1, agentVars
<1>9. (IBeforeStop /\ IStartServed /\ INoLateStart /\ IStep2 /\ IStopped)'
  BY <1>2, <1>4 DEF IBeforeStop, IStartServed, INoLateStart, IStep2,
                    IStopped, NoCall
<1>10. CleanAfterSuccess'
  BY <1>2, <1>3, <1>4 DEF CleanAfterSuccess, IInv, IOneProcess, agentVars
<1>11. QED
  BY <1>5, <1>6, <1>7, <1>8, <1>9, <1>10 DEF IInv

\* bcastReq sends one request per node: a Start in step1, whose broadcast
\* comes first, a Stop in step3.
LEMMA BroadcastIInv ==
    ASSUME IInv, Broadcast
    PROVE  IInv'
<1>1. ctl = "step1" => bc = 0 /\ \A n \in Nodes : spawned[n] = 0
  BY AgentAssumption DEF Broadcast, agentVars, IInv, IStep1
<1>2. ctl = "step1" => \A n \in Nodes : call[n] = NoCall /\ inbox[n] = {}
  BY AgentAssumption DEF Broadcast, IInv, IStep1
<1>3. /\ UNCHANGED <<agentVars, ctl, runs>> /\ bc' = bc + 1 /\ runs # 0
  BY DEF Broadcast, IInv, IFresh
<1>4. call' = [n \in Nodes |-> [st |-> "sent", id |-> bc + 1, rid |-> 0]]
  BY DEF Broadcast
<1>5. inbox' = [n \in Nodes |->
                  inbox[n] \cup {[op |-> IF ctl = "step1" THEN "Start"
                                                        ELSE "Stop",
                                  id |-> bc + 1]}]
  BY DEF Broadcast
<1>6. CTypeOK'
  BY <1>3, <1>4, <1>5 DEF IInv, CTypeOK, Request, Status, agentVars
<1>7. (runs <= MaxRuns /\ IFresh /\ IOneProcess)'
  BY <1>3 DEF IInv, IFresh, IOneProcess, agentVars
<1>8. IStartPending'
  BY <1>1, <1>3, <1>5 DEF Broadcast, IInv, CTypeOK, IStartPending, agentVars
<1>9. IStep1'
  BY <1>1, <1>3, <1>4 DEF IStep1
<1>10. (IBeforeStop /\ IStartServed)'
  BY <1>3, <1>4, <1>5 DEF Broadcast, IInv, IBeforeStop, IStartServed
<1>11. (INoLateStart /\ IStep2 /\ IStopped /\ CleanAfterSuccess)'
  BY <1>3, <1>4, <1>5 DEF Broadcast, IInv, CTypeOK, INoLateStart, IStep2,
                          IStopped, CleanAfterSuccess, agentVars
<1>12. QED
  BY <1>6, <1>7, <1>8, <1>9, <1>10, <1>11 DEF IInv

\* bcastReq returns: an error ends the invocation; success moves to the
\* next step with every sendReq idle.
LEMMA CollectIInv ==
    ASSUME IInv, Collect
    PROVE  IInv'
<1>1. CASE \E n \in Nodes : call[n].st = "err"
  BY <1>1 DEF Collect, agentVars, IInv, CTypeOK, CtlStates, Status, NoCall,
              IFresh,
              IOneProcess, IStartPending, IStep1, IBeforeStop, IStartServed,
              INoLateStart, IStep2, IStopped, CleanAfterSuccess
<1>2. CASE ~\E n \in Nodes : call[n].st = "err"
  <2>1. \A n \in Nodes : call[n].st = "ok"
    BY <1>2 DEF Collect
  <2>2. CASE ctl = "step1"
    <3>1. \A n \in Nodes : \A r \in inbox[n] : r.op # "Start"
      BY <2>1, <2>2 DEF IInv, IStartServed
    <3>2. ctl' \in {"step2", "step3", "ok"} /\ (ctl' = "ok" => Skip3)
      BY <1>2, <2>2, AfterStepFacts DEF Collect
    <3>3. UNCHANGED <<agentVars, runs, bc, inbox>> /\ runs # 0
          /\ \A n \in Nodes : call'[n] = NoCall
      BY <2>2 DEF Collect, IInv, IFresh
    <3>8. \A n \in Nodes : inbox[n] = {}
      BY <2>2, <3>1 DEF IInv, IBeforeStop
    <3>4. (CTypeOK /\ runs <= MaxRuns /\ IFresh /\ IOneProcess)'
      BY <3>2, <3>3 DEF Collect, IInv, CTypeOK, CtlStates, Status, NoCall,
                        IFresh,
                        IOneProcess, agentVars
    <3>5. (IStartPending /\ IStep1 /\ IBeforeStop /\ IStartServed)'
      BY <3>2, <3>3, <3>8 DEF IStartPending, IStep1, IBeforeStop,
                              IStartServed, NoCall
    <3>6. (INoLateStart /\ IStep2 /\ IStopped /\ CleanAfterSuccess)'
      BY <3>1, <3>2, <3>3 DEF INoLateStart, IStep2, IStopped, NoCall,
                              CleanAfterSuccess
    <3>7. QED
      BY <3>4, <3>5, <3>6 DEF IInv
  <2>3. CASE ctl = "step3"
    <3>1. \A n \in Nodes : procs[n] \subseteq termed[n]
      BY <2>1, <2>3 DEF IInv, IStopped
    <3>2. ctl' = "ok"
      BY <1>2, <2>3, AfterStepFacts DEF Collect
    <3>3. QED
      BY <3>1, <3>2 DEF Collect, agentVars, IInv, CTypeOK, CtlStates, Status,
                        NoCall,
            IFresh, IOneProcess, IStartPending, IStep1, IBeforeStop,
            IStartServed, INoLateStart, IStep2, IStopped, CleanAfterSuccess
  <2>4. QED
    BY <2>2, <2>3 DEF Collect
<1>3. QED
  BY <1>1, <1>2

\* step2 ends with every sendReq idle.
LEMMA Step2IInv ==
    ASSUME IInv, Step2
    PROVE  IInv'
<1>1. ctl' \in {"step3", "ok", "exited"} /\ (ctl' = "ok" => Skip3)
  BY AfterStepFacts DEF Step2
<1>2. QED
  BY <1>1 DEF Step2, agentVars, IInv, CTypeOK, CtlStates, NoCall, IFresh,
              IOneProcess,
              IStartPending, IStep1, IBeforeStop, IStartServed, INoLateStart,
              IStep2, IStopped, CleanAfterSuccess

\* The agent serves the one Start of step1: it spawns at most one process,
\* and that Start is no longer pending.
LEMMA ServeStartIInv ==
    ASSUME IInv, NEW n \in Nodes, NEW r \in inbox[n], Serve(n, r),
           r.op = "Start"
    PROVE  IInv'
<1>1. /\ Start(n, Database)
      /\ Answer(n, r, IF spawned'[n] > spawned[n] THEN "ok" ELSE "err", 0)
      /\ inbox' = [inbox EXCEPT ![n] = @ \ {r}]
      /\ UNCHANGED <<ctl, runs, bc>>
  BY DEF Serve
<1>2. r = [op |-> "Start", id |-> 1] /\ spawned[n] = 0
  BY DEF IInv, IStartPending, CTypeOK, Request
<1>3. ctl \in {"init", "step1", "failed", "exited"} /\ runs # 0
  BY DEF IInv, INoLateStart, CTypeOK, CtlStates, IFresh
<1>4. /\ termed' = termed
      /\ nreq' = [nreq EXCEPT ![n] = @ + 1]
      /\ \/ spawned' = spawned /\ pid' = pid /\ procs' = procs
         \/ /\ spawned' = [spawned EXCEPT ![n] = @ + 1]
            /\ pid' = [pid EXCEPT ![n] = spawned'[n]]
            /\ procs' = [procs EXCEPT ![n] = @ \cup {spawned'[n]}]
  BY <1>1, StartEffect
<1>5. /\ spawned' \in [Nodes -> Nat] /\ pid' \in [Nodes -> Nat]
      /\ procs' \in [Nodes -> SUBSET Nat]
      /\ IOneProcess'
  <2>1. CASE spawned' = spawned /\ pid' = pid /\ procs' = procs
    BY <2>1 DEF IInv, CTypeOK, IOneProcess
  <2>2. CASE /\ spawned' = [spawned EXCEPT ![n] = @ + 1]
             /\ pid' = [pid EXCEPT ![n] = spawned'[n]]
             /\ procs' = [procs EXCEPT ![n] = @ \cup {spawned'[n]}]
    <3>1. spawned'[n] = 1 /\ pid'[n] = 1 /\ procs'[n] = {1}
      BY <1>2, <2>2 DEF IInv, CTypeOK, IOneProcess
    <3>2. QED
      BY <2>2, <3>1 DEF IInv, CTypeOK, IOneProcess
  <2>3. QED
    BY <1>4, <2>1, <2>2
<1>6. \A m \in Nodes : m # n => spawned'[m] = spawned[m]
  BY <1>4 DEF IInv, CTypeOK
<1>7. \A q \in inbox'[n] : q.op # "Start"
  BY <1>1, <1>2 DEF IInv, CTypeOK, Request, IStartPending
<1>8. call' = IF call[n].st = "sent" /\ call[n].id = 1
              THEN [call EXCEPT ![n] = [st |-> IF spawned'[n] > spawned[n]
                                               THEN "ok" ELSE "err",
                                        id |-> 1, rid |-> 0]]
              ELSE call
  BY <1>1, <1>2 DEF Answer
<1>9. CTypeOK'
  <2>1. call' \in [Nodes -> [st : Status, id : Nat, rid : Nat]]
    BY <1>8 DEF IInv, CTypeOK, Status
  <2>2. inbox' \in [Nodes -> SUBSET Request] /\ nreq' \in [Nodes -> Nat]
    BY <1>1, <1>4 DEF IInv, CTypeOK
  <2>3. QED
    BY <1>1, <1>4, <1>5, <2>1, <2>2 DEF IInv, CTypeOK
<1>10. (runs <= MaxRuns /\ IFresh /\ IStartPending)'
  BY <1>1, <1>3, <1>6, <1>7 DEF IInv, IFresh, IStartPending
<1>11. (IStep1 /\ IBeforeStop /\ IStartServed)'
  BY <1>1, <1>3, <1>7, <1>8 DEF IInv, CTypeOK, IStep1, IBeforeStop,
                                IStartServed
<1>12. (INoLateStart /\ IStep2 /\ IStopped /\ CleanAfterSuccess)'
  BY <1>1, <1>3 DEF INoLateStart, IStep2, IStopped, CleanAfterSuccess
<1>13. QED
  BY <1>5, <1>9, <1>10, <1>11, <1>12 DEF IInv

\* The agent serves a Stop: it spawns nothing, and its call is blocked
\* only after SIGTERM went to t.pid, the only process the agent has.
LEMMA ServeStopIInv ==
    ASSUME IInv, NEW n \in Nodes, NEW r \in inbox[n], Serve(n, r),
           r.op = "Stop"
    PROVE  IInv'
<1>1. /\ StopSignal(n)
      /\ IF Len(stopWaiting'[n]) > Len(stopWaiting[n])
         THEN Answer(n, r, "blocked", nreq'[n])
         ELSE Answer(n, r, "err", 0)
      /\ inbox' = [inbox EXCEPT ![n] = @ \ {r}]
      /\ UNCHANGED <<ctl, runs, bc>>
  BY DEF Serve
<1>2. ctl \in {"step3", "ok", "failed", "exited"} /\ runs # 0
  BY DEF IInv, IBeforeStop, CTypeOK, CtlStates, IFresh
<1>3. /\ spawned' = spawned /\ pid' = pid /\ procs' = procs
      /\ nreq' = [nreq EXCEPT ![n] = @ + 1]
      /\ \/ termed' = termed /\ stopWaiting' = stopWaiting
         \/ termed' = [termed EXCEPT ![n] = @ \cup {pid[n]}]
  BY <1>1, StopEffect
<1>4. /\ termed' \in [Nodes -> SUBSET Nat]
      /\ \A m \in Nodes : termed[m] \subseteq termed'[m]
  <2>1. CASE termed' = termed
    BY <2>1 DEF IInv, CTypeOK
  <2>2. CASE termed' = [termed EXCEPT ![n] = @ \cup {pid[n]}]
    <3>1. pid[n] \in Nat /\ termed \in [Nodes -> SUBSET Nat]
      BY DEF IInv, CTypeOK
    <3>2. QED
      BY <2>2, <3>1
  <2>3. QED
    BY <1>3, <2>1, <2>2
<1>5. \/ call' = call
      \/ /\ call[n].st = "sent" /\ call[n].id = r.id
         /\ \/ call' = [call EXCEPT ![n] = [st |-> "err", id |-> r.id,
                                              rid |-> 0]]
            \/ /\ call' = [call EXCEPT ![n] = [st |-> "blocked", id |-> r.id,
                                               rid |-> nreq'[n]]]
               /\ termed'[n] = termed[n] \cup {pid[n]}
  BY <1>1, <1>3 DEF Answer, IInv, CTypeOK
<1>6. procs[n] \subseteq {pid[n]}
  BY DEF IInv, CTypeOK, IOneProcess
<1>7. CTypeOK'
  <2>1. nreq' \in [Nodes -> Nat] /\ nreq'[n] \in Nat
    BY <1>3 DEF IInv, CTypeOK
  <2>2. call' \in [Nodes -> [st : Status, id : Nat, rid : Nat]]
    <3>1. r.id \in Nat /\ call \in [Nodes -> [st : Status, id : Nat, rid : Nat]]
      BY DEF IInv, CTypeOK, Request
    <3>2. /\ [st |-> "err", id |-> r.id, rid |-> 0]
               \in [st : Status, id : Nat, rid : Nat]
          /\ [st |-> "blocked", id |-> r.id, rid |-> nreq'[n]]
               \in [st : Status, id : Nat, rid : Nat]
      BY <2>1, <3>1 DEF Status
    <3>3. QED
      BY <1>5, <3>1, <3>2
  <2>3. inbox' \in [Nodes -> SUBSET Request]
    BY <1>1 DEF IInv, CTypeOK
  <2>4. QED
    BY <1>1, <1>3, <1>4, <2>1, <2>2, <2>3 DEF IInv, CTypeOK
<1>8. (runs <= MaxRuns /\ IFresh /\ IOneProcess /\ IStartPending)'
  BY <1>1, <1>2, <1>3 DEF IInv, IFresh, IOneProcess, IStartPending
<1>9. (IStep1 /\ IBeforeStop /\ IStartServed /\ INoLateStart /\ IStep2)'
  BY <1>1, <1>2 DEF IInv, IStep1, IBeforeStop, IStartServed, INoLateStart,
                    IStep2
<1>10. IStopped'
  <2>1. SUFFICES ASSUME ctl' = "step3", NEW m \in Nodes,
                        call'[m].st \in {"blocked", "ok"}
                 PROVE  procs'[m] \subseteq termed'[m]
    BY DEF IStopped
  <2>2. CASE call' = call
    BY <1>1, <1>3, <1>4, <2>1, <2>2 DEF IInv, IStopped
  <2>3. CASE call' = [call EXCEPT ![n] = [st |-> "err", id |-> r.id, rid |-> 0]]
    BY <1>1, <1>3, <1>4, <2>1, <2>3 DEF IInv, CTypeOK, IStopped
  <2>4. CASE /\ call' = [call EXCEPT ![n] = [st |-> "blocked", id |-> r.id,
                                             rid |-> nreq'[n]]]
             /\ termed'[n] = termed[n] \cup {pid[n]}
    BY <1>1, <1>3, <1>4, <1>6, <2>1, <2>4 DEF IInv, CTypeOK, IStopped
  <2>5. QED
    BY <1>5, <2>2, <2>3, <2>4
<1>11. CleanAfterSuccess'
  BY <1>1, <1>3, <1>4 DEF IInv, CleanAfterSuccess
<1>12. QED
  BY <1>7, <1>8, <1>9, <1>10, <1>11 DEF IInv

\* A request nobody waits for is lost: pending requests only go away.
LEMMA DropIInv ==
    ASSUME IInv, NEW n \in Nodes, NEW r \in inbox[n], Drop(n, r)
    PROVE  IInv'
<1>1. /\ inbox' = [inbox EXCEPT ![n] = @ \ {r}]
      /\ UNCHANGED <<ctl, runs, bc, call>>
      /\ procs' = procs /\ termed' = termed /\ spawned' = spawned
      /\ pid' = pid /\ nreq' = nreq
  BY DEF Drop, agentVars
<1>2. \A m \in Nodes : /\ inbox'[m] \subseteq inbox[m]
                     /\ inbox[m] = {} => inbox'[m] = {}
  BY <1>1 DEF IInv, CTypeOK
<1>3. CTypeOK'
  BY <1>1 DEF IInv, CTypeOK
<1>4. QED
  BY <1>1, <1>2, <1>3 DEF IInv, IFresh, IOneProcess, IStartPending, IStep1,
                          IBeforeStop, IStartServed, INoLateStart, IStep2,
                          IStopped, CleanAfterSuccess

\* A blocked Stop handler completes its send: its call, if still waiting,
\* succeeds, and nothing else changes that the argument reads.
LEMMA NotifyIInv ==
    ASSUME IInv, NEW n \in Nodes, Notify(n)
    PROVE  IInv'
<1>1. /\ procs' = procs /\ termed' = termed /\ spawned' = spawned
      /\ pid' = pid /\ nreq' = nreq
      /\ UNCHANGED <<ctl, runs, bc, inbox>>
  BY InternalEffect DEF Notify
<1>2. \/ call' = call
      \/ /\ call[n].st = "blocked"
         /\ call' = [call EXCEPT ![n] = [st |-> "ok", id |-> call[n].id,
                                         rid |-> call[n].rid]]
  BY SetCallStatus DEF Notify, IInv, CTypeOK
<1>3. CASE call' = call
  BY <1>1, <1>3 DEF IInv, CTypeOK, IFresh, IOneProcess, IStartPending, IStep1,
                    IBeforeStop, IStartServed, INoLateStart, IStep2, IStopped,
                    CleanAfterSuccess
<1>4. CASE /\ call[n].st = "blocked"
           /\ call' = [call EXCEPT ![n] = [st |-> "ok", id |-> call[n].id,
                                           rid |-> call[n].rid]]
  <2>1. ctl \notin {"init", "step1", "step2"} /\ runs # 0
    BY <1>4 DEF IInv, IBeforeStop, IFresh, NoCall
  <2>2. CTypeOK'
    BY <1>1, <1>4 DEF IInv, CTypeOK, Status
  <2>3. IStopped'
    BY <1>1, <1>4 DEF IInv, CTypeOK, IStopped
  <2>4. QED
    BY <1>1, <1>4, <2>1, <2>2, <2>3 DEF IInv, CTypeOK, IFresh, IOneProcess,
                                        IStartPending, IStep1, IBeforeStop,
                                        IStartServed, INoLateStart, IStep2,
                                        IStopped, CleanAfterSuccess
<1>5. QED
  BY <1>2, <1>3, <1>4

\* The 15 s deadline of sendReq expires: the call fails.
LEMMA TimeoutIInv ==
    ASSUME IInv, NEW n \in Nodes, Timeout(n)
    PROVE  IInv'
<1>1. /\ call[n].st \in {"sent", "blocked"}
      /\ call' = [call EXCEPT ![n] = [st |-> "err", id |-> call[n].id,
                                      rid |-> call[n].rid]]
      /\ UNCHANGED <<ctl, runs, bc, inbox>>
      /\ procs' = procs /\ termed' = termed /\ spawned' = spawned
      /\ pid' = pid /\ nreq' = nreq
  BY SetCallStatus DEF Timeout, IInv, CTypeOK, agentVars
<1>2. runs # 0 /\ ctl # "step2"
  BY <1>1 DEF IInv, IFresh, IStep2, NoCall
<1>3. CTypeOK'
  BY <1>1 DEF IInv, CTypeOK, Status
<1>4. (runs <= MaxRuns /\ IFresh /\ IOneProcess /\ IStartPending)'
  BY <1>1, <1>2 DEF IInv, IFresh, IOneProcess, IStartPending
<1>5. IStep1'
  BY <1>1 DEF IInv, CTypeOK, IStep1, NoCall
<1>8. (IBeforeStop /\ IStartServed)'
  BY <1>1 DEF IInv, CTypeOK, IBeforeStop, IStartServed
<1>6. (INoLateStart /\ IStep2 /\ IStopped /\ CleanAfterSuccess)'
  BY <1>1, <1>2 DEF IInv, CTypeOK, INoLateStart, IStep2, IStopped,
                    CleanAfterSuccess
<1>7. QED
  BY <1>3, <1>4, <1>5, <1>6, <1>8 DEF IInv

\* The monitors, the signal to the agent and the exit of a database
\* process: no process is spawned and no SIGTERM is taken back.
LEMMA AgentStepIInv ==
    ASSUME IInv, NEW n \in Nodes,
           \/ MonitorStep(n)
           \/ AgentSignal(n)
           \/ \E p \in procs[n] : ProcessExit(n, p),
           UNCHANGED ctlVars
    PROVE  IInv'
<1>1. /\ UNCHANGED <<ctl, runs, bc, call, inbox>>
      /\ termed' = termed /\ spawned' = spawned /\ pid' = pid /\ nreq' = nreq
      /\ \A m \in Nodes : procs'[m] \subseteq procs[m]
      /\ procs' \in [Nodes -> SUBSET Nat]
  <2>1. CASE MonitorStep(n) \/ AgentSignal(n)
    BY <2>1, InternalEffect DEF ctlVars, IInv, CTypeOK
  <2>2. CASE \E p \in procs[n] : ProcessExit(n, p)
    BY <2>2 DEF ProcessExit, ctlVars, IInv, CTypeOK
  <2>3. QED
    BY <2>1, <2>2
<1>2. QED
  BY <1>1 DEF IInv, CTypeOK, IFresh, IOneProcess, IStartPending, IStep1,
              IBeforeStop, IStartServed, INoLateStart, IStep2, IStopped,
              CleanAfterSuccess

\* Every step of the controller and the agents preserves the invariant,
\* when the controller is invoked at most once.
LEMMA NextIInv ==
    ASSUME MaxRuns <= 1, IInv, [Next]_vars
    PROVE  IInv'
<1>1. CASE Invoke
  BY <1>1, InvokeIInv
<1>2. CASE Broadcast
  BY <1>2, BroadcastIInv
<1>3. CASE Collect
  BY <1>3, CollectIInv
<1>4. CASE Step2
  BY <1>4, Step2IInv
<1>5. ASSUME NEW n \in Nodes, NEW r \in inbox[n], Serve(n, r) \/ Drop(n, r)
      PROVE  IInv'
  <2>1. r.op \in {"Start", "Stop"}
    BY DEF IInv, CTypeOK, Request
  <2>2. QED
    BY <1>5, <2>1, ServeStartIInv, ServeStopIInv, DropIInv
<1>6. ASSUME NEW n \in Nodes, Notify(n) \/ Timeout(n)
      PROVE  IInv'
  BY <1>6, NotifyIInv, TimeoutIInv
<1>7. ASSUME NEW n \in Nodes,
             \/ MonitorStep(n)
             \/ AgentSignal(n)
             \/ \E p \in procs[n] : ProcessExit(n, p),
             UNCHANGED ctlVars
      PROVE  IInv'
  BY <1>7, AgentStepIInv
<1>8. CASE UNCHANGED vars
  BY <1>8 DEF vars, agentVars, ctlVars, IInv, CTypeOK, IFresh, IOneProcess,
              IStartPending, IStep1, IBeforeStop, IStartServed, INoLateStart,
              IStep2, IStopped, CleanAfterSuccess
<1>9. QED
  BY <1>1, <1>2, <1>3, <1>4, <1>5, <1>6, <1>7, <1>8 DEF Next

\* IInv holds in every state of a single invocation.
THEOREM SingleInvocationInvariant ==
    ASSUME MaxRuns <= 1
    PROVE  Spec => []IInv
BY InitIInv, NextIInv, PTL DEF Spec

\* Spec: the controller finally tears the cluster down.  Whatever the
\* number of nodes and of calls an agent accepts, a single invocation of
\* the controller that runs step3 and returns success has sent SIGTERM to
\* every database process its Start spawned: step1 spawns at most one per
\* agent and leaves none to spawn late, and every Stop call that succeeded
\* signalled t.pid.
THEOREM CleanAfterSuccessHolds ==
    ASSUME MaxRuns <= 1
    PROVE  Spec => []CleanAfterSuccess
<1>1. IInv => CleanAfterSuccess
  BY DEF IInv
<1>2. QED
  BY <1>1, SingleInvocationInvariant, PTL

=============================================================================
