------------------------------ MODULE Pipeline -------------------------------
(***************************************************************************)
(* What one benchmark phase of the controller promises, without its        *)
(* goroutines, channels or wait group: after an optional priming step the  *)
(* operations 0 .. TotalRequests-1 are issued in order, never more than    *)
(* Window of them outstanding; each issued operation completes exactly     *)
(* once; the report is produced once every operation has completed.  If    *)
(* the priming step gives up, nothing is issued.                           *)
(*                                                                         *)
(* Benchmark implements this specification: see Benchmark!Abstract.       *)
(***************************************************************************)
EXTENDS Naturals

CONSTANTS
    TotalRequests,  \* operations of the phase
    Window          \* operations issued but not yet completed, at most

VARIABLES
    phase,       \* "prime", "run", "reported" or "exited"
    issued,      \* operations issued so far: 0 .. issued-1
    done,        \* operations completed
    outstanding  \* operations issued and not completed

pvars == <<phase, issued, done, outstanding>>

Ops == 0 .. (TotalRequests - 1)

Init ==
    /\ phase \in {"prime", "run"}
    /\ issued = 0
    /\ done = {}
    /\ outstanding = 0

(* The priming step succeeds: the phase runs.                              *)
Ready ==
    /\ phase = "prime"
    /\ phase' = "run"
    /\ UNCHANGED <<issued, done, outstanding>>

(* The priming step gives up: the process ends with nothing issued.        *)
GiveUp ==
    /\ phase = "prime"
    /\ phase' = "exited"
    /\ UNCHANGED <<issued, done, outstanding>>

(* The next operation is issued, while the window has room.               *)
Issue ==
    /\ phase = "run"
    /\ issued < TotalRequests
    /\ outstanding < Window
    /\ issued' = issued + 1
    /\ outstanding' = outstanding + 1
    /\ UNCHANGED <<phase, done>>

(* An issued operation completes; none completes twice.                   *)
Complete(op) ==
    /\ phase = "run"
    /\ op \in 0 .. (issued - 1)
    /\ op \notin done
    /\ done' = done \cup {op}
    /\ outstanding' = outstanding - 1
    /\ UNCHANGED <<phase, issued>>

(* The report, once every operation has completed.                        *)
Report ==
    /\ phase = "run"
    /\ done = Ops
    /\ phase' = "reported"
    /\ UNCHANGED <<issued, done, outstanding>>

Next ==
    \/ Ready \/ GiveUp \/ Issue \/ (\E op \in Ops : Complete(op)) \/ Report

Spec == Init /\ [][Next]_pvars

(* Every phase progresses until it reports or gives up.                    *)
FairSpec ==
    /\ Spec
    /\ WF_pvars(Ready \/ GiveUp)
    /\ WF_pvars(Issue)
    /\ WF_pvars(\E op \in Ops : Complete(op))
    /\ WF_pvars(Report)

=============================================================================
