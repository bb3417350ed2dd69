------------------------- MODULE ClusterAgentProofs -------------------------
(***************************************************************************)
(* The agents' invariants of AgentProofs hold when the controller drives   *)
(* the agents, for every number of invocations: the controller reaches an  *)
(* agent only through Transfer (Serve runs Start or Stop, Notify completes *)
(* a blocked Stop), and its own steps leave the agents alone.  However     *)
(* often the controller is rerun and whatever its calls' deadlines do,     *)
(* Stop signals only processes the agent spawned, and of those only the   *)
(* latest.                                                                 *)
(***************************************************************************)
EXTENDS AgentProofs, Cluster

\* A step of the composed system is a step of one agent's handlers or
\* goroutines, or leaves every agent alone.
LEMMA ClusterNextIInv == IInv /\ [Next]_vars => IInv'
<1> SUFFICES ASSUME IInv, [Next]_vars PROVE IInv'
    OBVIOUS
<1>1. CASE UNCHANGED agentVars
    BY <1>1 DEF agentVars, IInv, ATypeOK, INode
<1>2. CASE \E n \in Nodes : \E r \in inbox[n] : Serve(n, r)
    <2>1. PICK n \in Nodes : \E r \in inbox[n] : Serve(n, r)
        BY <1>2
    <2>2. PICK r \in inbox[n] : Serve(n, r)
        BY <2>1
    <2>3. QED
        BY <2>2, StartIInv, StopSignalIInv DEF Serve
<1>3. CASE \E n \in Nodes : Notify(n)
    BY <1>3, StopNotifyIInv DEF Notify
<1>4. CASE \E n \in Nodes :
             \/ MonitorStep(n)
             \/ AgentSignal(n)
             \/ \E p \in procs[n] : ProcessExit(n, p)
    BY <1>4, MonitorStepIInv, AgentSignalIInv, ProcessExitIInv
<1>5. QED
    BY <1>1, <1>2, <1>3, <1>4
       DEF Next, vars, Invoke, Broadcast, Collect, Step2, Drop, Timeout

LEMMA ClusterInitIInv == Init => IInv
    BY InitIInv DEF Init

\* IInv holds in every state of the composed system, for every number of
\* invocations of the controller.
THEOREM ClusterAgentInvariant == Spec => []IInv
    BY ClusterInitIInv, ClusterNextIInv, PTL DEF Spec

\* Under the controller, rerun any number of times, Stop sends SIGTERM only
\* to processes the agent spawned (agent.go:450).
THEOREM ClusterSignalsOnlySpawned == Spec => []SignalsOnlySpawned
    BY ClusterAgentInvariant, IInvSignalsOnlySpawned, PTL

\* Every step of the composed system that changes an agent is one of that
\* agent's handlers or goroutines.
LEMMA ClusterNextLatestSignal ==
    IInv /\ [Next]_vars => [LatestSignal]_agentVars
<1> SUFFICES ASSUME IInv, [Next]_vars PROVE [LatestSignal]_agentVars
    OBVIOUS
<1>1. CASE UNCHANGED agentVars
    BY <1>1
<1>2. CASE \E n \in Nodes : \E r \in inbox[n] : Serve(n, r)
    <2>1. PICK n \in Nodes : \E r \in inbox[n] : Serve(n, r)
        BY <1>2
    <2>2. PICK r \in inbox[n] : Serve(n, r)
        BY <2>1
    <2>3. QED
        BY <2>2, LatestSignalStep DEF Serve
<1>3. CASE \E n \in Nodes : Notify(n)
    BY <1>3, LatestSignalStep DEF Notify, AgentInternal
<1>4. CASE \E n \in Nodes :
             \/ MonitorStep(n)
             \/ AgentSignal(n)
             \/ \E p \in procs[n] : ProcessExit(n, p)
    BY <1>4, LatestSignalStep DEF AgentInternal
<1>5. QED
    BY <1>1, <1>2, <1>3, <1>4
       DEF Next, vars, Invoke, Broadcast, Collect, Step2, Drop, Timeout

\* Under the controller, rerun any number of times and with calls that time
\* out and are served late, Stop's SIGTERM reaches only the process the
\* latest successful Start spawned (agent.go:450).
THEOREM ClusterSignalsLatest == Spec => SignalsLatest
    BY ClusterAgentInvariant, ClusterNextLatestSignal, PTL
       DEF Spec, SignalsLatest, LatestSignal

=============================================================================
