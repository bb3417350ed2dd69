--------------------------- MODULE BenchmarkProofs ---------------------------
(***************************************************************************)
(* Proofs about one benchmark phase (Benchmark.tla), for every value of    *)
(* the constants: IInv is inductive, hence the type invariant and the two  *)
(* pipeline invariants hold in every reachable state.                      *)
(***************************************************************************)
EXTENDS Benchmark, FiniteSetTheorems, TLAPS

(* Sets of workers and sets of operations are finite.                      *)
LEMMA WorkerSetFinite ==
    ASSUME NEW S \in SUBSET Workers
    PROVE  IsFiniteSet(S)
<1>1. IsFiniteSet(Workers)
    BY ConfigAssumption, FS_Interval DEF Workers
<1> QED
    BY <1>1, FS_Subset

LEMMA OpSetFinite ==
    ASSUME NEW S \in SUBSET OpIds
    PROVE  IsFiniteSet(S)
<1>1. IsFiniteSet(OpIds)
    BY ConfigAssumption, FS_Interval DEF OpIds
<1> QED
    BY <1>1, FS_Subset

LEMMA WorkersCardinality == Cardinality(Workers) = Clients
BY ConfigAssumption, FS_Interval DEF Workers

LEMMA OpIdsCardinality == Cardinality(OpIds) = TotalRequests
BY ConfigAssumption, FS_Interval DEF OpIds

-----------------------------------------------------------------------------
(* TypeOK in four groups: the provers take it one group at a time.        *)
TypeCtl ==
    /\ mainPC \in {"prime", "wait", "report", "done", "exited"}
    /\ genPC \in {"idle", "top", "send", "done"}
    /\ reqClosed \in BOOLEAN
    /\ resultsClosed \in BOOLEAN
    /\ aggDone \in BOOLEAN
    /\ crashed \in BOOLEAN
TypeCount ==
    /\ primeTries \in 0 .. PrimingRetries
    /\ genI \in 0 .. TotalRequests
    /\ taken \in 0 .. genI
    /\ genI - taken <= Clients
    /\ wg \in Nat
    /\ compactors \in Nat
    /\ reported \in Nat
TypeFun ==
    /\ wpc \in [Workers -> {"idle", "recv", "send", "exited", "panic"}]
    /\ wop \in [Workers -> Nat]
TypeSet == received \subseteq OpIds

LEMMA TypeSplit == TypeOK <=> TypeCtl /\ TypeCount /\ TypeFun /\ TypeSet
BY DEF TypeOK, TypeCtl, TypeCount, TypeFun, TypeSet

(* The same for the next state.                                           *)
LEMMA TypeSplitPrime == TypeOK' <=> TypeCtl' /\ TypeCount' /\ TypeFun' /\ TypeSet'
BY DEF TypeOK, TypeCtl, TypeCount, TypeFun, TypeSet

(* The workers alive form a finite set, counted by a natural.             *)
LEMMA AliveFinite ==
    ASSUME TypeOK
    PROVE  /\ IsFiniteSet(Alive)
           /\ Cardinality(Alive) \in Nat
<1>1. Alive \in SUBSET Workers
    BY DEF Alive
<1>2. IsFiniteSet(Alive)
    BY <1>1, WorkerSetFinite
<1> QED
    BY <1>2, FS_CardinalityType

(* wg at zero: no worker is alive and no compaction runs.                 *)
LEMMA WgZero ==
    ASSUME IInv, wg = 0
    PROVE  Alive = {} /\ compactors = 0
<1>1. IsFiniteSet(Alive) /\ Cardinality(Alive) \in Nat /\ compactors \in Nat
    BY AliveFinite, TypeSplit DEF IInv, TypeCount
<1>2. Cardinality(Alive) = 0 /\ compactors = 0
    BY <1>1 DEF IInv, IWaitGroup
<1> QED
    BY <1>1, <1>2, FS_EmptySet

(* Once results is closed no worker is alive and no compaction runs.      *)
LEMMA ClosedMeansIdle ==
    ASSUME IInv, resultsClosed
    PROVE  /\ Alive = {} /\ compactors = 0 /\ wg = 0
           /\ mainPC \in {"report", "done"} /\ genPC # "idle"
<1>1. wg = 0 /\ mainPC \in {"report", "done"}
    BY DEF IInv, IClosing
<1>2. Alive = {} /\ compactors = 0
    BY <1>1, WgZero
<1>3. genPC # "idle"
    BY <1>1 DEF IInv, IPhase
<1> QED
    BY <1>1, <1>2, <1>3

(* Once results is closed, and no worker panicked, every worker has       *)
(* exited and the generator has closed requests after its last operation. *)
LEMMA ClosedMeansDrained ==
    ASSUME IInv, resultsClosed, Dead = {}
    PROVE  /\ \A w \in Workers : wpc[w] = "exited"
           /\ genPC = "done"
           /\ taken = genI
           /\ genI = TotalRequests
           /\ compactors = 0
<1>1. wg = 0 /\ mainPC \in {"report", "done"}
    BY DEF IInv, IClosing
<1>2. Alive = {} /\ compactors = 0
    BY <1>1, WgZero
<1>3. genPC # "idle"
    BY <1>1 DEF IInv, IPhase
<1>4. \A w \in Workers : wpc[w] = "exited"
    BY <1>2, <1>3, TypeSplit DEF IInv, IPhase, Alive, Dead, TypeFun
<1>5. \E w \in Workers : wpc[w] = "exited"
    BY <1>4, ConfigAssumption DEF Workers
<1> QED
    BY <1>2, <1>4, <1>5 DEF IInv, IClosing

-----------------------------------------------------------------------------
(* The state shared by both initial states.                               *)
InitCommon ==
    /\ primeTries = 0 /\ genI = 0 /\ taken = 0 /\ reqClosed = FALSE
    /\ wop = [w \in Workers |-> 0] /\ compactors = 0
    /\ received = {} /\ reported = 0
    /\ resultsClosed = FALSE /\ aggDone = FALSE /\ crashed = FALSE

(* The two initial states: before the priming write, or with the phase's  *)
(* goroutines already running.                                            *)
LEMMA InitIInv == Init => IInv
<1> SUFFICES ASSUME Init PROVE IInv
    OBVIOUS
<1> USE ConfigAssumption
<1>0. InitCommon
    BY DEF Init, InitCommon
<1>1. Busy = {} /\ Held = {} /\ Dead = {} /\ Lost = {}
    BY DEF Init, Busy, Held, Dead, Lost
<1>2. IAccount /\ IHandled
    BY <1>0, <1>1, FS_EmptySet DEF IAccount, IHandled, InitCommon
<1>3. TypeSet
    BY <1>0 DEF InitCommon, TypeSet
<1>7. CASE /\ mainPC = "prime" /\ genPC = "idle"
          /\ wpc = [w \in Workers |-> "idle"] /\ wg = 0
    <2>1. Alive = {}
        BY <1>7 DEF Alive
    <2>2. IPhase
        BY <1>0, <1>7 DEF IPhase, InitCommon
    <2>3. IWaitGroup
        BY <1>0, <1>7, <2>1, FS_EmptySet DEF IWaitGroup, InitCommon
    <2>4. IClosing
        BY <1>0, <1>7 DEF IClosing, InitCommon
    <2>5. TypeCtl
        BY <1>0, <1>7 DEF InitCommon, TypeCtl
    <2>7. TypeCount
        BY <1>0, <1>7 DEF InitCommon, TypeCount, PrimingRetries
    <2>6. TypeFun
        BY <1>0, <1>7 DEF InitCommon, TypeFun
    <2> QED
        BY <1>2, <1>3, <2>2, <2>3, <2>4, <2>5, <2>6, <2>7, TypeSplit DEF IInv
<1>8. CASE /\ mainPC = "wait" /\ genPC = "top"
          /\ wpc = [w \in Workers |-> "recv"] /\ wg = Clients
    <2>1. Alive = Workers
        BY <1>8 DEF Alive
    <2>2. IPhase
        BY <1>0, <1>8 DEF IPhase, InitCommon
    <2>3. IWaitGroup
        BY <1>0, <1>8, <2>1, WorkersCardinality DEF IWaitGroup, InitCommon
    <2>4. IClosing
        BY <1>0, <1>8 DEF IClosing, InitCommon
    <2>5. TypeCtl
        BY <1>0, <1>8 DEF InitCommon, TypeCtl
    <2>7. TypeCount
        BY <1>0, <1>8 DEF InitCommon, TypeCount, PrimingRetries
    <2>6. TypeFun
        BY <1>0, <1>8 DEF InitCommon, TypeFun
    <2> QED
        BY <1>2, <1>3, <2>2, <2>3, <2>4, <2>5, <2>6, <2>7, TypeSplit DEF IInv
<1> QED
    BY <1>7, <1>8 DEF Init

-----------------------------------------------------------------------------
(* Actions that leave the workers, the operations and the report alone.   *)
LEMMA WorkersUnchanged ==
    ASSUME UNCHANGED <<wpc, wop, received, reported, taken>>
    PROVE  /\ Alive' = Alive /\ Busy' = Busy /\ Held' = Held
           /\ Dead' = Dead /\ Lost' = Lost
           /\ IAccount' = IAccount /\ IHandled' = IHandled
BY DEF Alive, Busy, Held, Dead, Lost, IAccount, IHandled

(* IInv is preserved by every step of a goroutine of the live process.   *)
LEMMA StepIInv ==
    ASSUME IInv, GoroutineStep, crashed' = crashed
    PROVE  IInv'
<1> USE ConfigAssumption
<1>0. TypeCtl /\ TypeCount /\ TypeFun /\ TypeSet
    BY TypeSplit DEF IInv
<1>1. CASE PrimeSucceed
    <2>1. mainPC = "prime" /\ genPC = "idle"
        BY <1>1 DEF PrimeSucceed, IInv, IPhase
    <2>2. wpc = [w \in Workers |-> "idle"] /\ wg = 0 /\ compactors = 0
          /\ genI = 0 /\ taken = 0 /\ ~reqClosed /\ received = {} /\ reported = 0
        BY <2>1, <1>0 DEF IInv, IPhase, TypeCount
    <2>3. ~resultsClosed /\ ~aggDone
        BY <2>1 DEF IInv, IClosing
    <2>4. Alive' = Workers /\ Busy' = {} /\ Held' = {} /\ Dead' = {} /\ Lost' = {}
        BY <1>1 DEF PrimeSucceed, SpawnPhase, Alive, Busy, Held, Dead, Lost
    <2>5. TypeCtl' /\ TypeFun' /\ TypeSet'
        BY <1>1, <1>0 DEF PrimeSucceed, SpawnPhase, TypeCtl, TypeFun, TypeSet
    <2>6. TypeCount'
        BY <1>1, <1>0 DEF PrimeSucceed, SpawnPhase, TypeCount
    <2>7. IPhase'
        BY <1>1 DEF PrimeSucceed, SpawnPhase, IPhase
    <2>8. IWaitGroup'
        BY <1>1, <2>2, <2>4, WorkersCardinality DEF PrimeSucceed, SpawnPhase, IWaitGroup
    <2>9. IAccount'
        BY <1>1, <2>2, <2>4, FS_EmptySet DEF PrimeSucceed, IAccount
    <2>10. IClosing'
        BY <1>1, <2>2, <2>3 DEF PrimeSucceed, SpawnPhase, IClosing
    <2>11. IHandled'
        BY <2>4 DEF IHandled
    <2> QED
        BY <2>5, <2>6, <2>7, <2>8, <2>9, <2>10, <2>11, TypeSplitPrime DEF IInv
<1>2. CASE PrimeFail
    <2>1. genPC = "idle"
        BY <1>2 DEF PrimeFail, IInv, IPhase
    <2>2. TypeCtl' /\ TypeFun' /\ TypeSet'
        BY <1>2, <1>0 DEF PrimeFail, TypeCtl, TypeFun, TypeSet
    <2>3. TypeCount'
        BY <1>2, <1>0 DEF PrimeFail, TypeCount, PrimingRetries
    <2>4. IPhase'
        BY <1>2, <2>1 DEF PrimeFail, IInv, IPhase
    <2>5. IWaitGroup' /\ IAccount' /\ IHandled'
        BY <1>2, WorkersUnchanged DEF PrimeFail, IInv, IWaitGroup
    <2>6. IClosing'
        BY <1>2 DEF PrimeFail, IInv, IClosing
    <2> QED
        BY <2>2, <2>3, <2>4, <2>5, <2>6, TypeSplitPrime DEF IInv
<1>3. CASE CloseResults
    <2>1. TypeCtl' /\ TypeFun' /\ TypeSet' /\ TypeCount'
        BY <1>3, <1>0 DEF CloseResults, TypeCtl, TypeFun, TypeSet, TypeCount
    <2>2. IPhase'
        BY <1>3 DEF CloseResults, IInv, IPhase
    <2>3. IWaitGroup' /\ IAccount' /\ IHandled'
        BY <1>3, WorkersUnchanged DEF CloseResults, IInv, IWaitGroup
    <2>4. IClosing'
        BY <1>3 DEF CloseResults, IInv, IClosing
    <2> QED
        BY <2>1, <2>2, <2>3, <2>4, TypeSplitPrime DEF IInv
<1>4. CASE AwaitReport
    <2>1. TypeCtl' /\ TypeFun' /\ TypeSet' /\ TypeCount'
        BY <1>4, <1>0 DEF AwaitReport, TypeCtl, TypeFun, TypeSet, TypeCount
    <2>2. IPhase'
        BY <1>4 DEF AwaitReport, IInv, IPhase
    <2>3. IWaitGroup' /\ IAccount' /\ IHandled'
        BY <1>4, WorkersUnchanged DEF AwaitReport, IInv, IWaitGroup
    <2>4. IClosing'
        BY <1>4 DEF AwaitReport, IInv, IClosing
    <2> QED
        BY <2>1, <2>2, <2>3, <2>4, TypeSplitPrime DEF IInv
<1>5. CASE NextOp
    <2>1. ~resultsClosed \/ wg' = wg
        <3>1. CASE Dead = {}
            <4>1. SUFFICES ASSUME resultsClosed PROVE FALSE
                OBVIOUS
            <4> QED
                BY <1>5, <3>1, <4>1, ClosedMeansDrained DEF NextOp
        <3>2. CASE Dead # {}
            <4>1. Database # "etcdv3"
                BY <3>2 DEF IInv, IHandled, Handled, Dead
            <4> QED
                BY <1>5, <4>1 DEF NextOp, CompactionDue
        <3> QED
            BY <3>1, <3>2
    <2>2. TypeCtl' /\ TypeFun' /\ TypeSet'
        BY <1>5, <1>0 DEF NextOp, TypeCtl, TypeFun, TypeSet
    <2>3. TypeCount'
        BY <1>5, <1>0 DEF NextOp, TypeCount
    <2>4. IPhase'
        BY <1>5 DEF NextOp, IInv, IPhase
    <2>5. IWaitGroup'
        <3>1. Alive' = Alive
            BY <1>5, WorkersUnchanged DEF NextOp
        <3>2. Cardinality(Alive) \in Nat /\ compactors \in Nat
            BY <1>0, AliveFinite, TypeSplit DEF IInv, TypeCount
        <3> QED
            BY <1>5, <3>1, <3>2 DEF NextOp, IInv, IWaitGroup
    <2>6. IAccount' /\ IHandled'
        BY <1>5, WorkersUnchanged DEF NextOp, IInv
    <2>7. IClosing'
        BY <1>5, <2>1 DEF NextOp, IInv, IClosing
    <2> QED
        BY <2>2, <2>3, <2>4, <2>5, <2>6, <2>7, TypeSplitPrime DEF IInv
<1>6. CASE SendOp
    <2>1. ~\E w \in Workers : wpc[w] = "exited"
        BY <1>6 DEF SendOp, IInv, IClosing
    <2>2. TypeCtl' /\ TypeFun' /\ TypeSet'
        BY <1>6, <1>0 DEF SendOp, TypeCtl, TypeFun, TypeSet
    <2>3. TypeCount'
        BY <1>6, <1>0 DEF SendOp, TypeCount, IInv, IClosing
    <2>4. IPhase'
        BY <1>6 DEF SendOp, IInv, IPhase
    <2>5. IWaitGroup' /\ IAccount' /\ IHandled'
        BY <1>6, WorkersUnchanged DEF SendOp, IInv, IWaitGroup
    <2>6. IClosing'
        BY <1>6, <2>1 DEF SendOp, IInv, IClosing
    <2> QED
        BY <2>2, <2>3, <2>4, <2>5, <2>6, TypeSplitPrime DEF IInv
<1>7. CASE CloseRequests
    <2>1. TypeCtl' /\ TypeFun' /\ TypeSet' /\ TypeCount'
        BY <1>7, <1>0 DEF CloseRequests, TypeCtl, TypeFun, TypeSet, TypeCount
    <2>2. IPhase'
        BY <1>7 DEF CloseRequests, IInv, IPhase
    <2>3. IWaitGroup' /\ IAccount' /\ IHandled'
        BY <1>7, WorkersUnchanged DEF CloseRequests, IInv, IWaitGroup
    <2>4. IClosing'
        BY <1>7 DEF CloseRequests, IInv, IClosing
    <2> QED
        BY <2>1, <2>2, <2>3, <2>4, TypeSplitPrime DEF IInv
<1>8. CASE CompactDone
    <2>1. Cardinality(Alive) \in Nat
        BY AliveFinite DEF IInv
    <2>2. wg > 0
        BY <1>8, <2>1, <1>0 DEF CompactDone, IInv, IWaitGroup, TypeCount
    <2>3. ~resultsClosed
        BY <2>2 DEF IInv, IClosing
    <2>4. TypeCtl' /\ TypeFun' /\ TypeSet'
        BY <1>8, <1>0 DEF CompactDone, TypeCtl, TypeFun, TypeSet
    <2>5. TypeCount'
        BY <1>8, <1>0, <2>2 DEF CompactDone, TypeCount
    <2>6. IPhase'
        BY <1>8 DEF CompactDone, IInv, IPhase
    <2>7. IWaitGroup' /\ IAccount' /\ IHandled'
        <3>1. Alive' = Alive /\ IAccount' = IAccount /\ IHandled' = IHandled
            BY <1>8, WorkersUnchanged DEF CompactDone
        <3> QED
            BY <1>8, <2>1, <3>1, <1>0 DEF CompactDone, IInv, IWaitGroup, TypeCount
    <2>8. IClosing'
        BY <1>8, <2>3 DEF CompactDone, IInv, IClosing
    <2> QED
        BY <2>4, <2>5, <2>6, <2>7, <2>8, TypeSplitPrime DEF IInv
<1>9. ASSUME NEW w \in Workers, Receive(w) PROVE IInv'
    <2>1. ~\E v \in Workers : wpc[v] = "exited"
        BY <1>9 DEF Receive, IInv, IClosing
    <2>2. genPC # "idle"
        BY <1>9 DEF Receive, IInv, IPhase
    <2>3. ~resultsClosed
        BY <1>9, ClosedMeansIdle DEF Receive, Alive
    <2>4. TypeCtl' /\ TypeSet'
        BY <1>9, <1>0 DEF Receive, TypeCtl, TypeSet
    <2>5. TypeCount'
        BY <1>9, <1>0 DEF Receive, TypeCount
    <2>6. TypeFun'
        BY <1>9, <1>0 DEF Receive, TypeFun, TypeCount
    <2>7. IPhase'
        BY <1>9, <2>2 DEF Receive, IInv, IPhase
    <2>8. Alive' = Alive /\ Dead' = Dead
        BY <1>9 DEF Receive, Alive, Dead
    <2>9. IWaitGroup'
        BY <1>9, <2>8 DEF Receive, IInv, IWaitGroup
    <2>10. IAccount'
        <3>1. w \notin Busy /\ w \notin Dead /\ Busy' = Busy \cup {w}
            BY <1>9, <1>0 DEF Receive, Busy, Dead, TypeFun
        <3>2. Held' = Held \cup {taken} /\ Lost' = Lost
            BY <1>9, <2>8, <3>1, <1>0 DEF Receive, Held, Lost, TypeFun
        <3>3. /\ Held \subseteq 0 .. (taken - 1)
              /\ received \subseteq 0 .. (taken - 1)
              /\ Lost \subseteq 0 .. (taken - 1)
            BY DEF IInv, IAccount
        <3>4. received' \cup Held' \cup Lost' = 0 .. taken
            BY <1>9, <3>2, <1>0 DEF Receive, IInv, IAccount, TypeCount
        <3>5. /\ received' \cap Held' = {}
              /\ received' \cap Lost' = {}
              /\ Held' \cap Lost' = {}
            BY <1>9, <3>2, <3>3, <1>0 DEF Receive, IInv, IAccount, TypeCount
        <3>6. \A u, v \in Busy' : u # v => wop'[u] # wop'[v]
            <4>1. \A v \in Busy : wop[v] \in 0 .. (taken - 1) /\ v # w
                BY <3>1, <3>3 DEF Held
            <4> QED
                BY <1>9, <3>1, <4>1, <1>0 DEF Receive, IInv, IAccount, TypeFun, TypeCount
        <3>7. reported' = Cardinality(received')
            BY <1>9 DEF Receive, IInv, IAccount
        <3> QED
            BY <1>9, <3>4, <3>5, <3>6, <3>7, <1>0 DEF Receive, IAccount, TypeCount
    <2>11. IClosing'
        BY <1>9, <2>1, <2>3 DEF Receive, IInv, IClosing
    <2>12. IHandled'
        BY <2>8 DEF IInv, IHandled
    <2> QED
        BY <2>4, <2>5, <2>6, <2>7, <2>9, <2>10, <2>11, <2>12, TypeSplitPrime
        DEF IInv
<1>10. ASSUME NEW w \in Workers, WorkerExit(w) PROVE IInv'
    <2>1. genPC = "done"
        BY <1>10 DEF WorkerExit, IInv, IClosing
    <2>2. ~resultsClosed
        BY <1>10, ClosedMeansIdle DEF WorkerExit, Alive
    <2>3. w \in Alive /\ Alive' = Alive \ {w}
        BY <1>10, <1>0 DEF WorkerExit, Alive, TypeFun
    <2>4. IsFiniteSet(Alive) /\ Cardinality(Alive) \in Nat
        BY AliveFinite DEF IInv
    <2>5. Cardinality(Alive') = Cardinality(Alive) - 1
          /\ Cardinality(Alive') \in Nat
        BY <2>3, <2>4, FS_RemoveElement, FS_CardinalityType
    <2>6. IWaitGroup'
        BY <1>10, <2>4, <2>5, <1>0 DEF WorkerExit, IInv, IWaitGroup, TypeCount
    <2>7. TypeCtl' /\ TypeSet'
        BY <1>10, <1>0 DEF WorkerExit, TypeCtl, TypeSet
    <2>8. TypeCount'
        BY <1>10, <2>5, <2>6, <1>0 DEF WorkerExit, TypeCount, IWaitGroup
    <2>9. TypeFun'
        BY <1>10, <1>0 DEF WorkerExit, TypeFun
    <2>10. IPhase'
        BY <1>10, <2>1 DEF WorkerExit, IInv, IPhase
    <2>11. IAccount' /\ IHandled'
        <3>1. Busy' = Busy /\ Dead' = Dead
            BY <1>10 DEF WorkerExit, Busy, Dead
        <3>2. Held' = Held /\ Lost' = Lost
            BY <1>10, <3>1 DEF WorkerExit, Held, Lost
        <3> QED
            BY <1>10, <3>1, <3>2 DEF WorkerExit, IInv, IAccount, IHandled
    <2>12. IClosing'
        BY <1>10, <2>1, <2>2 DEF WorkerExit, IInv, IClosing
    <2> QED
        BY <2>6, <2>7, <2>8, <2>9, <2>10, <2>11, <2>12, TypeSplitPrime DEF IInv
<1>11. ASSUME NEW w \in Workers, Publish(w) PROVE IInv'
    <2>1. genPC # "idle"
        BY <1>11 DEF Publish, IInv, IPhase
    <2>2. w \in Busy /\ Busy' = Busy \ {w}
        BY <1>11, <1>0 DEF Publish, Busy, TypeFun
    <2>3. wop[w] \in Held /\ wop[w] \notin received /\ wop[w] \notin Lost
        BY <2>2 DEF Held, IInv, IAccount
    <2>4. Held' = Held \ {wop[w]}
        BY <1>11, <2>2 DEF Publish, Held, IInv, IAccount
    <2>5. wop[w] \in OpIds
        <3>1. wop[w] \in 0 .. (taken - 1)
            BY <2>3 DEF IInv, IAccount
        <3> QED
            BY <3>1, <1>0 DEF TypeCount, OpIds
    <2>6. IsFiniteSet(received)
        BY <1>0, OpSetFinite DEF TypeSet
    <2>7. Cardinality(received') = Cardinality(received) + 1
        BY <1>11, <2>3, <2>6, FS_AddElement DEF Publish
    <2>8. TypeCtl'
        BY <1>11, <1>0 DEF Publish, TypeCtl
    <2>9. TypeSet'
        BY <1>11, <1>0, <2>5 DEF Publish, TypeSet
    <2>10. TypeCount'
        BY <1>11, <1>0 DEF Publish, TypeCount
    <2>11. TypeFun'
        BY <1>11, <1>0 DEF Publish, TypeFun
    <2>12. IPhase'
        BY <1>11, <2>1 DEF Publish, IInv, IPhase
    <2>13. IWaitGroup'
        <3>1. Alive' = Alive
            BY <1>11 DEF Publish, Alive
        <3> QED
            BY <1>11, <3>1 DEF Publish, IInv, IWaitGroup
    <2>14. IAccount' /\ IHandled'
        <3>0. Dead' = Dead /\ Lost' = Lost
            <4>1. w \notin Dead
                BY <2>2 DEF Busy, Dead
            <4> QED
                BY <1>11, <4>1 DEF Publish, Dead, Lost
        <3>1. received' \cup Held' \cup Lost' = 0 .. (taken' - 1)
            BY <1>11, <2>3, <2>4, <3>0 DEF Publish, IInv, IAccount
        <3>2. /\ received' \cap Held' = {}
              /\ received' \cap Lost' = {}
              /\ Held' \cap Lost' = {}
            BY <1>11, <2>3, <2>4, <3>0 DEF Publish, IInv, IAccount
        <3>3. \A u, v \in Busy' : u # v => wop'[u] # wop'[v]
            BY <1>11, <2>2 DEF Publish, IInv, IAccount
        <3>4. reported' = Cardinality(received')
            BY <1>11, <2>7 DEF Publish, IInv, IAccount
        <3>5. IHandled'
            BY <3>0 DEF IInv, IHandled
        <3> QED
            BY <3>1, <3>2, <3>3, <3>4, <3>5 DEF IAccount
    <2>15. IClosing'
        BY <1>11 DEF Publish, IInv, IClosing
    <2> QED
        BY <2>8, <2>9, <2>10, <2>11, <2>12, <2>13, <2>14, <2>15, TypeSplitPrime
        DEF IInv
<1>12. CASE FinishReport
    <2>1. TypeCtl' /\ TypeFun' /\ TypeSet' /\ TypeCount'
        BY <1>12, <1>0 DEF FinishReport, TypeCtl, TypeFun, TypeSet, TypeCount
    <2>2. IPhase'
        BY <1>12 DEF FinishReport, IInv, IPhase
    <2>3. IWaitGroup' /\ IAccount' /\ IHandled'
        BY <1>12, WorkersUnchanged DEF FinishReport, IInv, IWaitGroup
    <2>4. IClosing'
        BY <1>12 DEF FinishReport, IInv, IClosing
    <2> QED
        BY <2>1, <2>2, <2>3, <2>4, TypeSplitPrime DEF IInv
<1>13. ASSUME NEW w \in Workers, NilHandlerCall(w) PROVE IInv'
    <2>1. ~\E v \in Workers : wpc[v] = "exited"
        BY <1>13 DEF NilHandlerCall, IInv, IClosing
    <2>2. genPC # "idle"
        BY <1>13 DEF NilHandlerCall, IInv, IPhase
    <2>3. ~resultsClosed
        BY <1>13, ClosedMeansIdle DEF NilHandlerCall, Alive
    <2>4. w \in Alive /\ Alive' = Alive \ {w}
        BY <1>13, <1>0 DEF NilHandlerCall, Alive, TypeFun
    <2>5. IsFiniteSet(Alive) /\ Cardinality(Alive) \in Nat
        BY AliveFinite DEF IInv
    <2>6. Cardinality(Alive') = Cardinality(Alive) - 1
          /\ Cardinality(Alive') \in Nat
        BY <2>4, <2>5, FS_RemoveElement, FS_CardinalityType
    <2>7. IWaitGroup'
        BY <1>13, <2>5, <2>6, <1>0 DEF NilHandlerCall, IInv, IWaitGroup, TypeCount
    <2>8. TypeCtl' /\ TypeSet'
        BY <1>13, <1>0 DEF NilHandlerCall, TypeCtl, TypeSet
    <2>9. TypeCount'
        BY <1>13, <2>6, <2>7, <1>0 DEF NilHandlerCall, TypeCount, IWaitGroup
    <2>10. TypeFun'
        BY <1>13, <1>0 DEF NilHandlerCall, TypeFun, TypeCount
    <2>11. IPhase'
        BY <1>13, <2>2 DEF NilHandlerCall, IInv, IPhase
    <2>12. IAccount'
        <3>1. w \notin Busy /\ w \notin Dead
              /\ Busy' = Busy /\ Dead' = Dead \cup {w}
            BY <1>13, <1>0 DEF NilHandlerCall, Busy, Dead, TypeFun
        <3>2. Held' = Held /\ Lost' = Lost \cup {taken}
            BY <1>13, <3>1, <1>0 DEF NilHandlerCall, Held, Lost, TypeFun
        <3>3. /\ Held \subseteq 0 .. (taken - 1)
              /\ received \subseteq 0 .. (taken - 1)
              /\ Lost \subseteq 0 .. (taken - 1)
            BY DEF IInv, IAccount
        <3>4. received' \cup Held' \cup Lost' = 0 .. taken
            BY <1>13, <3>2, <1>0 DEF NilHandlerCall, IInv, IAccount, TypeCount
        <3>5. /\ received' \cap Held' = {}
              /\ received' \cap Lost' = {}
              /\ Held' \cap Lost' = {}
            BY <1>13, <3>2, <3>3, <1>0 DEF NilHandlerCall, IInv, IAccount, TypeCount
        <3>6. \A u, v \in Busy' : u # v => wop'[u] # wop'[v]
            BY <1>13, <3>1 DEF NilHandlerCall, IInv, IAccount
        <3>7. reported' = Cardinality(received')
            BY <1>13 DEF NilHandlerCall, IInv, IAccount
        <3> QED
            BY <1>13, <3>4, <3>5, <3>6, <3>7, <1>0 DEF NilHandlerCall, IAccount, TypeCount
    <2>13. IClosing'
        BY <1>13, <2>1, <2>3 DEF NilHandlerCall, IInv, IClosing
    <2>14. IHandled'
        <3>1. Dead' = Dead \cup {w}
            BY <1>13, <1>0 DEF NilHandlerCall, Dead, TypeFun
        <3> QED
            BY <1>13, <3>1 DEF NilHandlerCall, IInv, IHandled
    <2> QED
        BY <2>7, <2>8, <2>9, <2>10, <2>11, <2>12, <2>13, <2>14, TypeSplitPrime
        DEF IInv
<1> QED
    BY <1>1, <1>2, <1>3, <1>4, <1>5, <1>6, <1>7, <1>8, <1>9, <1>10, <1>11,
       <1>12, <1>13 DEF GoroutineStep

(* IInv is preserved by every step: a goroutine's, or the crash, which    *)
(* only stops the process.                                                *)
LEMMA NextIInv == IInv /\ [Next]_vars => IInv'
<1> SUFFICES ASSUME IInv, [Next]_vars PROVE IInv'
    OBVIOUS
<1>1. CASE Running(GoroutineStep)
    BY <1>1, StepIInv DEF Running
<1>2. CASE ~crashed /\ Crash
    <2>1. TypeOK'
        BY <1>2 DEF Crash, IInv, TypeOK
    <2>2. IAccount' /\ IHandled'
        BY <1>2, WorkersUnchanged DEF Crash, IInv
    <2>3. IPhase' /\ IWaitGroup' /\ IClosing'
        BY <1>2, WorkersUnchanged DEF Crash, IInv, IPhase, IWaitGroup, IClosing
    <2> QED
        BY <2>1, <2>2, <2>3 DEF IInv
<1>3. CASE UNCHANGED vars
    BY <1>3, WorkersUnchanged
    DEF vars, IInv, TypeOK, IPhase, IWaitGroup, IClosing
<1> QED
    BY <1>1, <1>2, <1>3 DEF Next

-----------------------------------------------------------------------------
(* IInv holds in every state of every behaviour of the phase.             *)
THEOREM IInvariant == Spec => []IInv
BY InitIInv, NextIInv, PTL DEF Spec

(* Type correctness of the phase.                                         *)
THEOREM TypeCorrect == Spec => []TypeOK
BY IInvariant, PTL DEF IInv

(* Every worker has a handler: etcdv3, or as many connections as clients. *)
HandlersComplete == Handled = Workers

(* With a handler for every worker, no worker panics.                      *)
LEMMA NoPanic ==
    ASSUME IInv, HandlersComplete
    PROVE  Dead = {}
BY DEF IInv, IHandled, HandlersComplete, Dead

(* printReport's report, once final, holds exactly one outcome for every  *)
(* operation the generator produced, for every worker count and total,    *)
(* when every worker has a handler.                                       *)
LEMMA IInvReportComplete ==
    ASSUME HandlersComplete
    PROVE  IInv => ReportComplete
<1> SUFFICES ASSUME IInv, aggDone PROVE received = OpIds /\ reported = TotalRequests
    BY DEF ReportComplete
<1>1. resultsClosed /\ Dead = {}
    BY NoPanic DEF IInv, IClosing
<1>2. /\ \A w \in Workers : wpc[w] = "exited"
      /\ taken = genI /\ genI = TotalRequests
    BY <1>1, ClosedMeansDrained
<1>3. Held = {}
    BY <1>2 DEF Held, Busy
<1>4. received = OpIds
    BY <1>1, <1>2, <1>3 DEF IInv, IAccount, OpIds, Lost
<1>5. reported = Cardinality(OpIds)
    BY <1>4 DEF IInv, IAccount
<1> QED
    BY <1>4, <1>5, OpIdsCardinality

THEOREM ReportCompleteHolds ==
    ASSUME HandlersComplete
    PROVE  Spec => []ReportComplete
<1>1. IInv => ReportComplete
    BY IInvReportComplete
<1> QED
    BY <1>1, IInvariant, PTL

(* main closes results only after every worker has published its last    *)
(* outcome, or panicked, so no send on the closed channel can happen.     *)
LEMMA IInvNoSendOnClosed == IInv => NoSendOnClosed
BY ClosedMeansIdle DEF NoSendOnClosed, Alive

THEOREM NoSendOnClosedHolds == Spec => []NoSendOnClosed
BY IInvariant, IInvNoSendOnClosed, PTL

(* The etcdv3 compaction goroutines are joined by wg.Wait() before main   *)
(* closes results and waits for the report.                               *)
LEMMA IInvCompactionJoined == IInv => CompactionJoined
<1> SUFFICES ASSUME IInv, mainPC \in {"report", "done"} PROVE compactors = 0
    BY DEF CompactionJoined
<1>1. resultsClosed
    BY DEF IInv, IClosing
<1> QED
    BY <1>1, ClosedMeansIdle

THEOREM CompactionJoinedHolds == Spec => []CompactionJoined
BY IInvariant, IInvCompactionJoined, PTL

-----------------------------------------------------------------------------
(* Refinement: Benchmark implements Pipeline under Abstract's mapping.    *)

(* The operations held by workers are at most one per worker.             *)
LEMMA HeldBound ==
    ASSUME TypeOK
    PROVE  /\ IsFiniteSet(Held)
           /\ Cardinality(Held) <= Clients
<1>1. Busy \in SUBSET Workers
    BY DEF Busy
<1>2. IsFiniteSet(Busy) /\ Cardinality(Busy) <= Clients
    BY <1>1, WorkerSetFinite, WorkersCardinality, FS_Subset, ConfigAssumption
       DEF Workers
<1>3. [w \in Busy |-> wop[w]] \in Surjection(Busy, Held)
    BY DEF Surjection, Held
<1>4. IsFiniteSet(Held) /\ Cardinality(Held) <= Cardinality(Busy)
    BY <1>2, <1>3, FS_Surjection
<1>5. Cardinality(Busy) \in Nat /\ Cardinality(Held) \in Nat
    BY <1>2, <1>4, FS_CardinalityType
<1> QED
    BY <1>2, <1>4, <1>5, ConfigAssumption

(* An operation taken from requests and not yet received is held by a    *)
(* worker: at most Clients of them.                                       *)
LEMMA TakenBound ==
    ASSUME IInv, Dead = {}
    PROVE  /\ IsFiniteSet(received)
           /\ Cardinality(received) \in Nat
           /\ taken - Cardinality(received) <= Clients
<1>1. TypeOK
    BY DEF IInv
<1>2. IsFiniteSet(received) /\ Cardinality(received) \in Nat
    BY <1>1, OpSetFinite, FS_CardinalityType DEF TypeOK
<1>3. IsFiniteSet(Held) /\ Cardinality(Held) <= Clients /\ Cardinality(Held) \in Nat
    BY <1>1, HeldBound, FS_CardinalityType
<1>4. taken \in Nat
    BY <1>1 DEF TypeOK
<1>5. Cardinality(received \cup Held) = taken
  <2>1. received \cup Held = 0 .. (taken - 1)
    BY DEF IInv, IAccount, Lost
  <2>2. Cardinality(0 .. (taken - 1)) = taken
    BY <1>4, FS_Interval
  <2> QED
    BY <2>1, <2>2
<1>6. Cardinality(received \cap Held) = 0
    BY FS_EmptySet DEF IInv, IAccount
<1>7. Cardinality(received \cup Held)
        = Cardinality(received) + Cardinality(Held) - Cardinality(received \cap Held)
    BY <1>2, <1>3, FS_Union
<1> QED
    BY <1>2, <1>3, <1>5, <1>6, <1>7

(* Once results is closed, printReport has received every operation.     *)
LEMMA ClosedMeansAllReceived ==
    ASSUME IInv, resultsClosed, Dead = {}
    PROVE  received = OpIds
<1>1. /\ \A w \in Workers : wpc[w] = "exited"
      /\ taken = genI /\ genI = TotalRequests
    BY ClosedMeansDrained
<1>2. Held = {}
    BY <1>1 DEF Held, Busy
<1> QED
    BY <1>1, <1>2 DEF IInv, IAccount, OpIds, Lost

(* While some goroutine of the phase runs and the report is not printed,  *)
(* the abstract phase is "run".                                           *)
LEMMA PhaseRun ==
    ASSUME IInv, genPC # "idle", ~aggDone
    PROVE  PipelinePhase = "run"
<1>1. mainPC \notin {"prime", "exited"}
    BY DEF IInv, IPhase
<1> QED
    BY <1>1 DEF PipelinePhase

(* The steps that change neither the controller's phase, nor the index of *)
(* the generator, nor the outcomes received are abstract stutters.         *)
Silent ==
    /\ mainPC' = mainPC /\ aggDone' = aggDone
    /\ genI' = genI /\ received' = received

LEMMA SilentStutter ==
    ASSUME Silent
    PROVE  UNCHANGED Abstract!pvars
BY DEF Silent, PipelinePhase, Abstract!pvars

(* Every step of Benchmark is a step of Pipeline or leaves its state alone. *)
LEMMA RefineStep ==
    ASSUME HandlersComplete, IInv, IInv', [Next]_vars
    PROVE  [Abstract!Next]_Abstract!pvars
<1> DEFINE AVars == Abstract!pvars
<1>0. Dead = {}
    BY NoPanic
<1>1. CASE PrimeSucceed
  <2>1. ~aggDone
    BY <1>1 DEF PrimeSucceed, IInv, IClosing
  <2>2. PipelinePhase = "prime" /\ PipelinePhase' = "run"
    BY <1>1, <2>1 DEF PrimeSucceed, SpawnPhase, PipelinePhase
  <2> QED
    BY <1>1, <2>2 DEF PrimeSucceed, Abstract!Next, Abstract!Ready
<1>2. CASE PrimeFail
  <2>1. PipelinePhase = "prime"
    BY <1>2 DEF PrimeFail, PipelinePhase
  <2>2. CASE primeTries' = PrimingRetries
    <3>1. PipelinePhase' = "exited"
      BY <1>2, <2>2 DEF PrimeFail, PipelinePhase
    <3> QED
      BY <1>2, <2>1, <3>1 DEF PrimeFail, Abstract!Next, Abstract!GiveUp
  <2>3. CASE primeTries' # PrimingRetries
    <3>1. PipelinePhase' = "prime"
      BY <1>2, <2>3 DEF PrimeFail, PipelinePhase
    <3> QED
      BY <1>2, <2>1, <3>1 DEF PrimeFail, Abstract!pvars
  <2> QED
    BY <2>2, <2>3
<1>3. CASE CloseResults
  <2>1. ~aggDone
    BY <1>3 DEF CloseResults, IInv, IClosing
  <2>2. PipelinePhase = "run" /\ PipelinePhase' = "run"
    BY <1>3, <2>1 DEF CloseResults, PipelinePhase
  <2> QED
    BY <1>3, <2>2 DEF CloseResults, Abstract!pvars
<1>4. CASE AwaitReport
  <2>1. PipelinePhase = "reported" /\ PipelinePhase' = "reported"
    BY <1>4 DEF AwaitReport, PipelinePhase
  <2> QED
    BY <1>4, <2>1 DEF AwaitReport, Abstract!pvars
<1>5. CASE SendOp
  <2>1. ~aggDone
    <3>1. SUFFICES ASSUME aggDone PROVE FALSE
      OBVIOUS
    <3>2. resultsClosed
      BY <3>1 DEF IInv, IClosing
    <3> QED
      BY <1>5, <3>2, <1>0, ClosedMeansDrained DEF SendOp
  <2>2. PipelinePhase = "run" /\ PipelinePhase' = "run"
    BY <1>5, <2>1, PhaseRun DEF SendOp, PipelinePhase
  <2>3. genI < TotalRequests
    BY <1>5 DEF SendOp, IInv, IClosing
  <2>4. genI - Cardinality(received) < 2 * Clients
    <3>1. genI - taken < Clients /\ genI \in Nat /\ taken \in Nat
      BY <1>5 DEF SendOp, IInv, TypeOK
    <3> QED
      BY <3>1, TakenBound, <1>0, ConfigAssumption
  <2>5. genI' = genI + 1 /\ received' = received /\ genI \in Nat
    BY <1>5 DEF SendOp, IInv, TypeOK
  <2>6. (genI - Cardinality(received))' = (genI - Cardinality(received)) + 1
    BY <2>5, <1>0, TakenBound
  <2>7. Abstract!Issue
    BY <2>2, <2>3, <2>4, <2>5, <2>6 DEF Abstract!Issue
  <2> QED
    BY <2>7 DEF Abstract!Next
<1>6. CASE \E w \in Workers : Publish(w)
  <2>1. PICK w \in Workers : Publish(w)
    BY <1>6
  <2>2. ~aggDone /\ genPC # "idle"
    BY <2>1 DEF Publish, IInv, IClosing, IPhase
  <2>3. PipelinePhase = "run" /\ PipelinePhase' = "run"
    BY <2>1, <2>2, PhaseRun DEF Publish, PipelinePhase
  <2>4. wop[w] \in 0 .. (taken - 1) /\ wop[w] \notin received
    <3>1. wop[w] \in Held
      BY <2>1 DEF Publish, Held, Busy
    <3> QED
      BY <3>1 DEF IInv, IAccount
  <2>5. wop[w] \in 0 .. (genI - 1) /\ wop[w] \in Abstract!Ops
    <3>1. taken \in 0 .. genI /\ genI \in 0 .. TotalRequests
      BY DEF IInv, TypeOK
    <3> QED
      BY <2>4, <3>1, ConfigAssumption DEF Abstract!Ops
  <2>6. Cardinality(received') = Cardinality(received) + 1
    <3>1. IsFiniteSet(received)
      BY <1>0, TakenBound
    <3> QED
      BY <2>1, <2>4, <3>1, FS_AddElement DEF Publish
  <2>7. (genI - Cardinality(received))' = (genI - Cardinality(received)) - 1
    BY <2>1, <2>6, <1>0, TakenBound DEF Publish, IInv, TypeOK
  <2>8. Abstract!Complete(wop[w])
    BY <2>1, <2>3, <2>4, <2>5, <2>7 DEF Publish, Abstract!Complete
  <2> QED
    BY <2>5, <2>8 DEF Abstract!Next
<1>7. CASE FinishReport
  <2>1. mainPC \in {"report", "done"} /\ received = OpIds
    BY <1>7, <1>0, ClosedMeansAllReceived DEF FinishReport, IInv, IClosing
  <2>2. PipelinePhase = "run" /\ PipelinePhase' = "reported"
    BY <1>7, <2>1 DEF FinishReport, PipelinePhase
  <2> QED
    BY <1>7, <2>1, <2>2 DEF FinishReport, Abstract!Next, Abstract!Report,
       Abstract!Ops, OpIds
<1>8. CASE \/ NextOp \/ CloseRequests \/ CompactDone \/ UNCHANGED vars
           \/ \E w \in Workers : Receive(w) \/ WorkerExit(w)
  <2>1. Silent
    BY <1>8 DEF NextOp, CloseRequests, CompactDone, Receive, WorkerExit,
       vars, Silent
  <2> QED
    BY <2>1, SilentStutter
<1>9. CASE \E w \in Workers : NilHandlerCall(w)
    BY <1>9 DEF NilHandlerCall, HandlersComplete
<1>10. CASE Crash
    BY <1>10, <1>0 DEF Crash, Dead
<1> QED
    BY <1>1, <1>2, <1>3, <1>4, <1>5, <1>6, <1>7, <1>8, <1>9, <1>10
    DEF Next, Running, GoroutineStep

(* Benchmark implements the safety part of Pipeline: every behaviour of   *)
(* the phase's goroutines, seen through the generator's index, the        *)
(* outcomes printReport received and the controller's phase, issues the   *)
(* operations in order with at most 2*Clients outstanding, completes each *)
(* once after it was issued, and reports only after the last one.         *)
THEOREM Refinement ==
    ASSUME HandlersComplete
    PROVE  Spec => Abstract!Spec
<1>1. Init => Abstract!Init
    BY FS_EmptySet DEF Init, PipelinePhase, Abstract!Init
<1>2. IInv /\ IInv' /\ [Next]_vars => [Abstract!Next]_Abstract!pvars
    BY RefineStep
<1> QED
    BY <1>1, <1>2, IInvariant, PTL DEF Spec, Abstract!Spec

=============================================================================
