------------------------------ MODULE Cluster ------------------------------
(***************************************************************************)
(* The controller (src/unnamed/part_000, CommandFunc, bcastReq, sendReq)   *)
(* driving one agent per node.  An invocation runs step1 (broadcast        *)
(* Start), step2 (the benchmark, whose outcome is all that matters here:   *)
(* Benchmark shows it ends, in success or in os.Exit(1)) and step3         *)
(* (broadcast Stop), each unless skipped; an error ends the invocation.    *)
(*                                                                         *)
(* bcastReq runs one sendReq goroutine per node and receives exactly one   *)
(* answer from each.  sendReq gives Transfer a 15 s deadline: the call     *)
(* may time out while the request is still on its way to the agent or     *)
(* while the handler runs, and the agent still serves it later, or never  *)
(* if the request is dropped with the cancelled call.  The controller may *)
(* be invoked again, up to MaxRuns times, against the same agents.         *)
(***************************************************************************)
EXTENDS Agent

CONSTANTS
    Database,     \* cfg.Database
    Skip1,        \* cfg.Step1.Skip
    Skip2,        \* cfg.Step2.Skip
    Skip3,        \* cfg.Step3.Skip
    MaxRuns       \* bound on the invocations of the controller

ASSUME ClusterAssumption ==
    /\ Database \in Supported
    /\ {Skip1, Skip2, Skip3} \subseteq BOOLEAN
    /\ MaxRuns \in Nat

VARIABLES
    ctl,          \* where the current invocation is
    runs,         \* invocations so far
    bc,           \* broadcasts so far: the id of the current one
    call,         \* per node, the sendReq goroutine of the current broadcast
    inbox         \* per node, requests sent and not yet served

ctlVars == <<ctl, runs, bc, call, inbox>>

vars == <<agentVars, ctlVars>>

Ended == {"init", "ok", "failed", "exited"}

\* A sendReq goroutine: idle, waiting for the answer to request id (of the
\* handler that got request number rid, when it is blocked in Stop), or
\* holding its answer for bcastReq.
NoCall == [st |-> "none", id |-> 0, rid |-> 0]

\* The step after step k, skipping the ones the configuration skips.
AfterStep(k) ==
    CASE k < 1 /\ ~Skip1 -> "step1"
      [] k < 2 /\ ~Skip2 -> "step2"
      [] k < 3 /\ ~Skip3 -> "step3"
      [] OTHER           -> "ok"

-----------------------------------------------------------------------------
Init ==
    /\ AgentInit
    /\ ctl = "init"
    /\ runs = 0
    /\ bc = 0
    /\ call = [n \in Nodes |-> NoCall]
    /\ inbox = [n \in Nodes |-> {}]

(* The operator runs the controller: CommandFunc starts with the first     *)
(* step the configuration does not skip.                                   *)
Invoke ==
    /\ ctl \in Ended
    /\ runs < MaxRuns
    /\ runs' = runs + 1
    /\ ctl' = AfterStep(0)
    /\ UNCHANGED <<agentVars, bc, call, inbox>>

(* bcastReq: go sendReq for every node; each sends its Transfer call.      *)
Broadcast ==
    /\ ctl \in {"step1", "step3"}
    /\ \A n \in Nodes : call[n].st = "none"
    /\ bc' = bc + 1
    /\ LET op == IF ctl = "step1" THEN "Start" ELSE "Stop"
       IN  inbox' = [n \in Nodes |-> inbox[n] \cup {[op |-> op, id |-> bc']}]
    /\ call' = [n \in Nodes |-> [st |-> "sent", id |-> bc', rid |-> 0]]
    /\ UNCHANGED <<agentVars, ctl, runs>>

(* The answer reaches the sendReq goroutine still waiting for request r.   *)
Answer(n, r, st, rid) ==
    call' = IF call[n].st = "sent" /\ call[n].id = r.id
            THEN [call EXCEPT ![n] = [st |-> st, id |-> r.id, rid |-> rid]]
            ELSE call

(* The agent of node n serves request r: Transfer runs to its return, or,  *)
(* for a Stop that signalled the process, to the send on databaseStopped.  *)
Serve(n, r) ==
    /\ r \in inbox[n]
    /\ inbox' = [inbox EXCEPT ![n] = @ \ {r}]
    /\ \/ /\ r.op = "Start"
          /\ Start(n, Database)
          /\ Answer(n, r, IF spawned'[n] > spawned[n] THEN "ok" ELSE "err", 0)
       \/ /\ r.op = "Stop"
          /\ StopSignal(n)
          /\ IF Len(stopWaiting'[n]) > Len(stopWaiting[n])
             THEN Answer(n, r, "blocked", nreq'[n])
             ELSE Answer(n, r, "err", 0)
    /\ UNCHANGED <<ctl, runs, bc>>

(* A blocked Stop handler completes its send: if it serves the call that   *)
(* is still waiting, that call gets success.                               *)
Notify(n) ==
    /\ StopNotify(n)
    /\ call' = IF call[n].st = "blocked" /\ call[n].rid = Head(stopWaiting[n])
               THEN [call EXCEPT ![n].st = "ok"]
               ELSE call
    /\ UNCHANGED <<ctl, runs, bc, inbox>>

(* Mutant: the deadline covers the call only until the handler has it.    *)
TimeoutBeforeServed(n) ==
    /\ call[n].st = "sent"
    /\ call' = [call EXCEPT ![n].st = "err"]
    /\ UNCHANGED <<agentVars, ctl, runs, bc, inbox>>

(* context.WithTimeout(15 s) expires: cli.Transfer returns an error.       *)
Timeout(n) ==
    /\ call[n].st \in {"sent", "blocked"}
    /\ call' = [call EXCEPT ![n].st = "err"]
    /\ UNCHANGED <<agentVars, ctl, runs, bc, inbox>>

(* A request whose call has been cancelled never reaches the handler.      *)
Drop(n, r) ==
    /\ r \in inbox[n]
    /\ ~(call[n].st = "sent" /\ call[n].id = r.id)
    /\ inbox' = [inbox EXCEPT ![n] = @ \ {r}]
    /\ UNCHANGED <<agentVars, ctl, runs, bc, call>>

(* Mutant: bcastReq drops the errors it collected and returns nil.        *)
CollectIgnoringErrors ==
    /\ ctl \in {"step1", "step3"}
    /\ \A n \in Nodes : call[n].st \in {"ok", "err"}
    /\ ctl' = AfterStep(IF ctl = "step1" THEN 1 ELSE 3)
    /\ call' = [n \in Nodes |-> NoCall]
    /\ UNCHANGED <<agentVars, runs, bc, inbox>>

(* bcastReq has received an answer from every node: it returns errs[0] if  *)
(* any failed, and CommandFunc returns it; otherwise the next step.        *)
Collect ==
    /\ ctl \in {"step1", "step3"}
    /\ \A n \in Nodes : call[n].st \in {"ok", "err"}
    /\ ctl' = IF \E n \in Nodes : call[n].st = "err"
              THEN "failed"
              ELSE AfterStep(IF ctl = "step1" THEN 1 ELSE 3)
    /\ call' = [n \in Nodes |-> NoCall]
    /\ UNCHANGED <<agentVars, runs, bc, inbox>>

(* step2 returns, or the priming write exhausts its 7 attempts and the     *)
(* controller calls os.Exit(1).                                            *)
Step2 ==
    /\ ctl = "step2"
    /\ \/ ctl' = AfterStep(2)
       \/ ctl' = "exited"
    /\ UNCHANGED <<agentVars, runs, bc, call, inbox>>

-----------------------------------------------------------------------------
Next ==
    \/ Invoke
    \/ Broadcast
    \/ Collect
    \/ Step2
    \/ \E n \in Nodes :
          \/ \E r \in inbox[n] : Serve(n, r) \/ Drop(n, r)
          \/ Notify(n)
          \/ Timeout(n)
          \/ /\ \/ MonitorStep(n)
                \/ AgentSignal(n)
                \/ \E p \in procs[n] : ProcessExit(n, p)
             /\ UNCHANGED ctlVars

(* The controller's goroutines and the agents' handlers are scheduled, and *)
(* every call ends by its deadline; the operator, lost requests, database  *)
(* processes and signals are not obliged to do anything.                   *)
Fairness ==
    /\ WF_vars(Broadcast)
    /\ WF_vars(Collect)
    /\ WF_vars(Step2)
    /\ \A n \in Nodes :
          /\ WF_vars(Notify(n))
          /\ WF_vars(Timeout(n))
          /\ WF_vars(\E r \in inbox[n] : Serve(n, r))
          /\ \A m \in Ids :
                WF_vars(/\ m \in DOMAIN mons[n]
                        /\ \/ MonitorFirstSample(n, m) \/ MonitorSignal(n, m)
                           \/ UploadConnect(n, m) \/ UploadAttempt(n, m)
                        /\ UNCHANGED ctlVars)

Spec == Init /\ [][Next]_vars

FairSpec == Spec /\ Fairness

-----------------------------------------------------------------------------
(* Properties.                                                             *)

(* Every invocation of the controller ends (returns or exits), whatever    *)
(* the agents do: a Stop handler blocked forever on databaseStopped is cut *)
(* off by the 15 s deadline of sendReq, and bcastReq gets one answer per   *)
(* node.                                                                   *)
InvocationEnds ==
    ctl \notin Ended ~> ctl \in Ended

(* Spec: the controller finally tears the cluster down.  When an           *)
(* invocation that runs step3 returns success, no database process it     *)
(* started is left running without having been sent SIGTERM.               *)
CleanAfterSuccess ==
    (ctl = "ok" /\ ~Skip3) => \A n \in Nodes : procs[n] \subseteq termed[n]

=============================================================================
