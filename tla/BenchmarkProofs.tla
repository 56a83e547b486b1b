-------------------------- MODULE BenchmarkProofs --------------------------
(***************************************************************************)
(* Proofs about Benchmark, for every set of requests, any number of runs   *)
(* and of failures: the types, the whole sessions and the outcome shown.   *)
(* That a run ends is a liveness property and is left to model checking.   *)
(***************************************************************************)
EXTENDS Benchmark, SequenceTheorems, FiniteSetTheorems, TLAPS

Early  == {"queued", "setup", "warmup", "warming"}
InLoop == {"allocate", "Encrypt", "prepare", "Decrypt"}
Steps  == Early \cup {"check"} \cup InLoop \cup {"ended"}

Messages == Progress \cup {"end"}
-----------------------------------------------------------------------------
(* Types *)

Workers == [at : Steps, request : Requests \cup {NoRequest}, iteration : Nat, rows : Seq(RowSet)]

\* Where the worker is in its loop.
Counting ==
  /\ worker.at # "ended" => worker.request \in Requests
  /\ worker.at \in Early => worker.iteration = 1
  /\ worker.at \in InLoop => worker.iteration <= worker.request.iterations
  /\ worker.iteration \in 1 .. worker.request.iterations + 1

UiTypes ==
  /\ ui \in {"loop", "starting", "box"} /\ running \in BOOLEAN
  /\ posts \in Seq(Messages)
  /\ label \in {"ready", "preparing", "exported", "imported"} \cup Progress \cup Outcomes
  /\ outcome \in {"none"} \cup Outcomes
  /\ worker.at = "ended" /\ runs > 0 => outcome # "none"
  /\ running => runs > 0
  /\ token \in BOOLEAN /\ late \in BOOLEAN /\ tooLate \in BOOLEAN
  /\ runs \in 0 .. MaxRuns /\ faults \in 0 .. MaxFaults
  /\ origin \in [session : Origins, csv : Origins]

TypeInv == worker \in Workers /\ Counting /\ UiTypes

LEMMA Mod3 == \A n \in Nat : (n % 3) + 1 \in 1 .. 3
  OBVIOUS

\* A size in megabytes, as 32 bits hold it.
LEMMA WrapTyped == ASSUME NEW n \in Int PROVE ToInt32(n) \in Int
  BY DEF ToInt32

LEMMA WrapsToNothing ==
  ASSUME NEW n \in Int, 1 <= n, n <= 4096, ToInt32(n) >= 0
  PROVE  ToInt32(n) = IF n = 4096 THEN 0 ELSE n
  BY DEF ToInt32

LEMMA RequestFacts ==
  \A r \in Requests \cup {NoRequest} :
    /\ r.iterations \in Nat /\ PayloadSize(r) \in Int
    /\ r \in Requests => /\ r.iterations >= 1
                         /\ r.size \in Int /\ 1 <= r.size /\ r.size <= 4096
<1>1. \A r \in Requests : /\ r.iterations \in Nat /\ r.iterations >= 1
                          /\ r.size \in Int /\ 1 <= r.size /\ r.size <= 4096
  BY RequestsAssumption
<1>2. NoRequest.iterations \in Nat /\ NoRequest.size \in Int
  BY DEF NoRequest
<1>3. \A r \in Requests \cup {NoRequest} : PayloadSize(r) \in Int
  BY <1>1, <1>2, WrapTyped DEF PayloadSize
<1> QED
  BY <1>1, <1>2, <1>3

LEMMA EngineFacts ==
  /\ Engines[1] = "NativeCpu" /\ Engines[2] = "OpenCl" /\ Engines[3] = "ManagedAes"
  /\ \A i \in 1 .. 3 : Engines[i] \in EngineSet
  BY DEF Engines, EngineSet

LEMMA TurnIsAnEngine == ASSUME TypeInv PROVE Turn \in EngineSet
<1>1. Len(worker.rows) \in Nat
  BY LenProperties DEF TypeInv, Workers
<1>2. (Len(worker.rows) % 3) + 1 \in 1 .. 3
  BY <1>1, Mod3
<1> QED
  BY <1>2, EngineFacts DEF Turn

LEMMA RowTyped ==
  ASSUME TypeInv, NEW e \in EngineSet, NEW d \in Directions, NEW n \in Notes
  PROVE  Row(e, d, n) \in RowSet
  BY RequestFacts DEF TypeInv, Workers, Row, RowSet

LEMMA TypesInit == Init => TypeInv
<1> SUFFICES ASSUME Init PROVE TypeInv
  OBVIOUS
<1>1. worker \in Workers
  BY EmptySeq DEF Init, Idle, Workers, Steps
<1>2. Counting
  BY DEF Init, Idle, Counting, NoRequest, Early, InLoop
<1>3. posts \in Seq(Messages)
  BY EmptySeq DEF Init
<1>4. runs \in 0 .. MaxRuns /\ faults \in 0 .. MaxFaults /\ ~(runs > 0)
  BY BoundsAssumption DEF Init
<1>4a. origin \in [session : Origins, csv : Origins]
  BY DEF Init, Origins
<1>5. UiTypes
  BY <1>3, <1>4, <1>4a, Zenon DEF Init, UiTypes
<1> QED
  BY <1>1, <1>2, <1>5 DEF TypeInv

\* A step of the worker that moves it on within one iteration.
LEMMA Moves ==
  ASSUME TypeInv, NEW s \in Steps, At(s),
         s \in InLoop => worker.iteration <= worker.request.iterations,
         s \in Early => worker.at \in Early,
         s # "ended" => worker.at # "ended"
  PROVE  /\ worker' \in Workers /\ Counting'
         /\ worker'.at = s /\ worker'.request = worker.request
         /\ worker'.iteration = worker.iteration /\ worker'.rows = worker.rows
<1>1. /\ worker'.at = s /\ worker'.request = worker.request
      /\ worker'.iteration = worker.iteration /\ worker'.rows = worker.rows
      /\ worker' \in Workers
  BY DEF TypeInv, Workers, At
<1>2. Counting'
  BY <1>1 DEF TypeInv, Counting
<1> QED
  BY <1>1, <1>2

LEMMA Posted ==
  ASSUME TypeInv, NEW m \in Messages
  PROVE  Append(posts, m) \in Seq(Messages)
  BY AppendProperties DEF TypeInv, UiTypes

\* What a step of the worker leaves to the UI thread.
LEMMA UiKept ==
  ASSUME TypeInv, UNCHANGED UiVars, posts' \in Seq(Messages),
         outcome' \in {"none"} \cup Outcomes,
         worker'.at = "ended" => outcome' # "none",
         faults' \in 0 .. MaxFaults
  PROVE  UiTypes'
  BY DEF TypeInv, UiTypes, UiVars

-----------------------------------------------------------------------------
(* What a step of the worker does, as far as the UI thread can tell *)

\* There is an iteration to come, at whose head the token is looked at.
MoreToCome ==
  \/ worker.at \in Early
  \/ worker.at = "check" /\ worker.iteration <= worker.request.iterations
  \/ worker.at \in InLoop /\ worker.iteration < worker.request.iterations

GoesOn ==
  /\ worker'.at # "ended" /\ outcome' = outcome
  /\ posts' = posts \/ \E m \in Progress : posts' = Append(posts, m)
  /\ token /\ MoreToCome => MoreToCome'

Ends ==
  /\ worker'.at = "ended" /\ outcome' \in Outcomes
  /\ posts' = IF ui = "starting" THEN posts ELSE Append(posts, "end")
  /\ token /\ MoreToCome => outcome' # "completed"

WorkerFacts ==
  /\ UNCHANGED UiVars /\ worker.at # "ended"
  /\ worker' \in Workers /\ Counting' /\ worker'.request = worker.request
  /\ faults' \in 0 .. MaxFaults
  /\ GoesOn \/ Ends

LEMMA Ending ==
  ASSUME TypeInv, worker.at # "ended", NEW result \in Outcomes, EndWith(result),
         UNCHANGED UiVars, faults' \in 0 .. MaxFaults,
         result = "completed" => ~MoreToCome
  PROVE  WorkerFacts
<1>1. /\ worker' \in Workers /\ Counting'
      /\ worker'.at = "ended" /\ worker'.request = worker.request
  BY Moves DEF EndWith, Steps, Early, InLoop
<1>2. Ends
  BY <1>1 DEF EndWith, Ends
<1> QED
  BY <1>1, <1>2 DEF WorkerFacts

LEMMA Going ==
  ASSUME TypeInv, worker.at # "ended", NEW s \in Steps \ {"ended"}, At(s),
         s \in InLoop => worker.iteration <= worker.request.iterations,
         s \in Early => worker.at \in Early,
         UNCHANGED UiVars, UNCHANGED outcome, faults' \in 0 .. MaxFaults,
         posts' = posts \/ \E m \in Progress : posts' = Append(posts, m),
         token /\ MoreToCome => MoreToCome'
  PROVE  WorkerFacts
<1>1. /\ worker' \in Workers /\ Counting'
      /\ worker'.at = s /\ worker'.request = worker.request
  BY Moves
<1>2. GoesOn
  BY <1>1 DEF GoesOn
<1> QED
  BY <1>1, <1>2 DEF WorkerFacts

LEMMA FaultCounted ==
  ASSUME TypeInv, UNCHANGED faults \/ Fault
  PROVE  faults' \in 0 .. MaxFaults
  BY BoundsAssumption DEF TypeInv, UiTypes, Fault

LEMMA StartTaskFacts == ASSUME TypeInv, StartTask PROVE WorkerFacts
<1>1. faults' \in 0 .. MaxFaults /\ worker.at = "queued" /\ UNCHANGED UiVars
  BY FaultCounted DEF StartTask
<1>2. CASE EndWith("cancelled")
  BY <1>1, <1>2, Ending DEF Outcomes
<1>3. CASE At("setup") /\ UNCHANGED <<posts, outcome>>
<2>1. MoreToCome'
  BY <1>1, <1>3, Moves DEF MoreToCome, Early, Steps, InLoop
<2> QED
  BY <1>1, <1>3, <2>1, Going DEF Early, Steps, InLoop
<1> QED
  BY <1>2, <1>3 DEF StartTask

LEMMA SetupFacts == ASSUME TypeInv, Setup PROVE WorkerFacts
<1>1. faults' \in 0 .. MaxFaults /\ worker.at = "setup" /\ UNCHANGED UiVars
  BY FaultCounted DEF Setup
<1>2. CASE EndWith("failed")
  BY <1>1, <1>2, Ending DEF Outcomes
<1>3. ASSUME NEW s \in {"warmup", "check"}, At(s), Report("payload"), UNCHANGED outcome
      PROVE  WorkerFacts
<2>1. MoreToCome'
  BY <1>1, <1>3, Moves, RequestFacts DEF MoreToCome, Early, Steps, InLoop, TypeInv, Counting
<2> QED
  BY <1>1, <1>3, <2>1, Going DEF Early, Steps, InLoop, Report, Progress
<1> QED
  BY <1>2, <1>3 DEF Setup

LEMMA ReportWarmupFacts == ASSUME TypeInv, ReportWarmup PROVE WorkerFacts
<1>1. /\ faults' \in 0 .. MaxFaults /\ worker.at = "warmup" /\ UNCHANGED UiVars
      /\ UNCHANGED outcome /\ posts' = Append(posts, "warmup") /\ At("warming")
  BY FaultCounted DEF ReportWarmup, Report
<1>2. MoreToCome'
  BY <1>1, Moves DEF MoreToCome, Early, Steps, InLoop
<1> QED
  BY <1>1, <1>2, Going DEF Early, Steps, InLoop, Progress

LEMMA RunWarmupFacts == ASSUME TypeInv, RunWarmup PROVE WorkerFacts
<1>1. /\ faults' \in 0 .. MaxFaults /\ worker.at = "warming" /\ UNCHANGED UiVars
  BY FaultCounted DEF RunWarmup
<1>2. CASE EndWith("failed")
  BY <1>1, <1>2, Ending DEF Outcomes
<1>3. CASE At("check") /\ UNCHANGED <<posts, outcome, faults>>
<2>1. MoreToCome'
  BY <1>1, <1>3, Moves, RequestFacts DEF MoreToCome, Early, Steps, InLoop, TypeInv, Counting
<2> QED
  BY <1>1, <1>3, <2>1, Going DEF Early, Steps, InLoop
<1> QED
  BY <1>2, <1>3 DEF RunWarmup

\* The only place that completes a run, and the only one that looks at the token.
LEMMA CheckTokenFacts == ASSUME TypeInv, CheckToken PROVE WorkerFacts
<1>1. /\ faults' \in 0 .. MaxFaults /\ worker.at = "check" /\ UNCHANGED UiVars
      /\ worker.iteration \in Nat /\ worker.request.iterations \in Nat
  BY FaultCounted, RequestFacts DEF CheckToken, TypeInv, Workers
<1>2. CASE worker.iteration > worker.request.iterations
<2>1. ~MoreToCome /\ EndWith("completed")
  BY <1>1, <1>2 DEF MoreToCome, CheckToken, Early, InLoop
<2> QED
  BY <1>1, <2>1, Ending DEF Outcomes
<1>3. CASE token /\ ~(worker.iteration > worker.request.iterations)
  BY <1>1, <1>3, Ending DEF CheckToken, Outcomes
<1>4. CASE ~token /\ ~(worker.iteration > worker.request.iterations)
<2>1. /\ posts' = Append(posts, "iteration") /\ At("allocate") /\ UNCHANGED outcome
      /\ worker.iteration <= worker.request.iterations
  BY <1>1, <1>4 DEF CheckToken, Report
<2> QED
  BY <1>1, <1>4, <2>1, Going DEF Early, Steps, InLoop, Progress
<1> QED
  BY <1>2, <1>3, <1>4

LEMMA CreateRandomPayloadFacts == ASSUME TypeInv, CreateRandomPayload PROVE WorkerFacts
<1>1. /\ faults' \in 0 .. MaxFaults /\ worker.at = "allocate" /\ UNCHANGED UiVars
      /\ worker.iteration <= worker.request.iterations
  BY FaultCounted DEF CreateRandomPayload, TypeInv, Counting, InLoop
<1>2. CASE EndWith("failed")
  BY <1>1, <1>2, Ending DEF Outcomes
<1>3. CASE At("Encrypt") /\ UNCHANGED <<posts, outcome, faults>>
<2>1. MoreToCome => MoreToCome'
  BY <1>1, <1>3, Moves DEF MoreToCome, Early, Steps, InLoop
<2> QED
  BY <1>1, <1>3, <2>1, Going DEF Early, Steps, InLoop
<1> QED
  BY <1>2, <1>3 DEF CreateRandomPayload

WorkerAt(s, i, rows) ==
  [at |-> s, request |-> worker.request, iteration |-> i, rows |-> rows]

\* Where the worker goes when it has added rows.
Goes(s, i) ==
  \/ s \in {"Encrypt", "prepare", "Decrypt"} /\ i = worker.iteration
  \/ s = "check" /\ i = worker.iteration + 1

\* Rows are added without a message; the worker stays in this iteration or begins the next.
LEMMA AddingRows ==
  ASSUME TypeInv, worker.at \in {"Encrypt", "prepare", "Decrypt"},
         NEW s \in Steps, NEW i \in Nat, NEW rows \in Seq(RowSet),
         worker' = WorkerAt(s, i, rows), Goes(s, i),
         UNCHANGED <<posts, outcome>>, UNCHANGED UiVars, faults' \in 0 .. MaxFaults
  PROVE  WorkerFacts
<1>1. /\ worker.iteration \in Nat /\ worker.request \in Requests
      /\ worker.request.iterations \in Nat
      /\ worker.iteration >= 1 /\ worker.iteration <= worker.request.iterations
  BY RequestFacts DEF TypeInv, Workers, Counting, InLoop
<1>2. /\ worker'.at = s /\ worker'.iteration = i /\ worker'.request = worker.request
      /\ worker' \in Workers
  BY DEF WorkerAt, TypeInv, Workers
<1>3. Counting' /\ s # "ended"
  BY <1>1, <1>2 DEF Goes, Counting, Early, InLoop
<1>4. MoreToCome => MoreToCome'
  BY <1>1, <1>2 DEF Goes, MoreToCome, Early, InLoop
<1> QED
  BY <1>2, <1>3, <1>4 DEF WorkerFacts, GoesOn

\* A row that the worker may add now.
FairRow(row, d) ==
  /\ row \in RowSet /\ row.iteration = worker.iteration
  /\ row.direction = d
  /\ row.ok => /\ Supported(row.engine, worker.request)
               /\ row.input = PayloadSize(worker.request)

LEMMA RowIsFair ==
  ASSUME TypeInv, NEW e \in EngineSet, NEW d \in Directions, NEW n \in Notes,
         n = "none" => Supported(e, worker.request)
  PROVE  FairRow(Row(e, d, n), d) /\ Row(e, d, n).engine = e
  BY RowTyped DEF FairRow, Row

\* One engine's turn, whose rows come in the order of the engines.
LEMMA RunEngineFacts ==
  ASSUME TypeInv, NEW d \in Directions, NEW t \in Steps, NEW j \in Nat, Goes(t, j),
         RunEngine(d, WorkerAt(t, j, worker.rows))
  PROVE  /\ WorkerFacts /\ worker.at = d
         /\ \E row : /\ FairRow(row, d) /\ row.engine = Turn
                     /\ worker' = IF Turn = "ManagedAes"
                                    THEN WorkerAt(t, j, Append(worker.rows, row))
                                    ELSE WorkerAt(d, worker.iteration, Append(worker.rows, row))
<1> DEFINE after == IF Turn = "ManagedAes" THEN WorkerAt(t, j, worker.rows) ELSE worker
<1>1. PICK n \in Notes :
        /\ n = "none" => Supported(Turn, worker.request)
        /\ worker' = [after EXCEPT !.rows = Append(worker.rows, Row(Turn, d, n))]
  BY DEF RunEngine, Notes, FailureNotes
<1>2. /\ worker.at = d /\ UNCHANGED <<posts, outcome>> /\ UNCHANGED UiVars
      /\ UNCHANGED faults \/ Fault
  BY DEF RunEngine
<1> DEFINE row == Row(Turn, d, n)
<1>3. FairRow(row, d) /\ row.engine = Turn
  BY <1>1, RowIsFair, TurnIsAnEngine
<1>4. Append(worker.rows, row) \in Seq(RowSet)
  BY <1>3, AppendProperties DEF TypeInv, Workers, FairRow
<1>5. worker = WorkerAt(worker.at, worker.iteration, worker.rows)
  BY DEF TypeInv, Workers, WorkerAt
<1>5a. worker' = [after EXCEPT !.rows = Append(worker.rows, row)]
  BY <1>1
<1> DEFINE rows == Append(worker.rows, row)
<1> HIDE DEF row, rows
<1>6. worker' = IF Turn = "ManagedAes"
                  THEN WorkerAt(t, j, Append(worker.rows, row))
                  ELSE WorkerAt(d, worker.iteration, Append(worker.rows, row))
<2>1. CASE Turn = "ManagedAes"
<3>1. worker' = [WorkerAt(t, j, worker.rows) EXCEPT !.rows = rows]
  BY <1>5a, <2>1 DEF rows
<3>2. worker' = WorkerAt(t, j, rows)
  BY <3>1 DEF WorkerAt
<3> QED
  BY <2>1, <3>2 DEF rows
<2>2. CASE Turn # "ManagedAes"
<3>1. worker' = [WorkerAt(d, worker.iteration, worker.rows) EXCEPT !.rows = rows]
  BY <1>5a, <1>2, <1>5, <2>2 DEF rows
<3>2. worker' = WorkerAt(d, worker.iteration, rows)
  BY <3>1 DEF WorkerAt
<3> QED
  BY <2>2, <3>2 DEF rows
<2> QED
  BY <2>1, <2>2
<1>7. d \in Steps /\ worker.iteration \in Nat /\ Goes(d, worker.iteration)
  BY DEF Directions, Steps, InLoop, TypeInv, Workers, Goes
<1>8. faults' \in 0 .. MaxFaults
  BY <1>2, FaultCounted
<1>9. WorkerFacts
  BY <1>2, <1>4, <1>6, <1>7, <1>8, AddingRows DEF Directions
<1> QED
  BY <1>2, <1>3, <1>6, <1>9

LEMMA NextWorkers ==
  ASSUME TypeInv
  PROVE  /\ [worker EXCEPT !.at = "prepare"] = WorkerAt("prepare", worker.iteration, worker.rows)
         /\ NextIteration(worker) = WorkerAt("check", worker.iteration + 1, worker.rows)
         /\ worker.iteration \in Nat /\ worker.iteration + 1 \in Nat
<1>1. worker.iteration \in Nat /\ worker.iteration + 1 \in Nat
  BY DEF TypeInv, Workers
<1> DEFINE next == worker.iteration + 1
<1>2. [worker EXCEPT !.at = "prepare"] = WorkerAt("prepare", worker.iteration, worker.rows)
  BY DEF TypeInv, Workers, WorkerAt
<1> DEFINE checked == [worker EXCEPT !.at = "check"]
<1> HIDE DEF next
<1>3. checked = WorkerAt("check", worker.iteration, worker.rows)
  BY DEF TypeInv, Workers, WorkerAt
<1>4. [WorkerAt("check", worker.iteration, worker.rows) EXCEPT !.iteration = next]
        = WorkerAt("check", next, worker.rows)
  BY DEF WorkerAt
<1>5. NextIteration(worker) = [checked EXCEPT !.iteration = next]
  BY DEF NextIteration, next
<1> HIDE DEF checked
<1>6. NextIteration(worker) = WorkerAt("check", next, worker.rows)
  BY <1>3, <1>4, <1>5
<1> QED
  BY <1>1, <1>2, <1>6 DEF next

\* The rows a step of the worker adds: one of the engine whose turn it is.
OneRow(d) ==
  \E row : /\ FairRow(row, d) /\ row.engine = Turn
          /\ worker'.rows = Append(worker.rows, row)

LEMMA RunEncryptFacts ==
  ASSUME TypeInv, RunEncrypt
  PROVE  /\ WorkerFacts /\ worker.at = "Encrypt" /\ OneRow("Encrypt")
         /\ worker'.at = IF Turn = "ManagedAes" THEN "prepare" ELSE "Encrypt"
         /\ worker'.iteration = worker.iteration
<1>1. RunEngine("Encrypt", WorkerAt("prepare", worker.iteration, worker.rows))
  BY NextWorkers DEF RunEncrypt
<1>2. /\ "Encrypt" \in Directions /\ "prepare" \in Steps
      /\ Goes("prepare", worker.iteration) /\ worker.iteration \in Nat
  BY NextWorkers DEF Directions, Steps, InLoop, Goes
<1> QED
  BY <1>1, <1>2, RunEngineFacts DEF OneRow, WorkerAt

LEMMA RunDecryptFacts ==
  ASSUME TypeInv, RunDecrypt
  PROVE  /\ WorkerFacts /\ worker.at = "Decrypt" /\ OneRow("Decrypt")
         /\ worker'.at = IF Turn = "ManagedAes" THEN "check" ELSE "Decrypt"
         /\ worker'.iteration = worker.iteration + IF Turn = "ManagedAes" THEN 1 ELSE 0
<1>1. RunEngine("Decrypt", WorkerAt("check", worker.iteration + 1, worker.rows))
  BY NextWorkers DEF RunDecrypt
<1>2. /\ "Decrypt" \in Directions /\ "check" \in Steps /\ worker.iteration \in Nat
      /\ Goes("check", worker.iteration + 1) /\ worker.iteration + 1 \in Nat
  BY NextWorkers DEF Directions, Steps, Goes
<1>3. worker.iteration + 0 = worker.iteration
  BY <1>2
<1> QED
  BY <1>1, <1>2, <1>3, RunEngineFacts DEF OneRow, WorkerAt

\* Or the three rows of a decryption that could not be prepared.
ThreeRows ==
  \E new \in [1 .. 3 -> RowSet] :
    /\ \A k \in 1 .. 3 : FairRow(new[k], "Decrypt") /\ new[k].engine = Engines[k]
    /\ worker'.rows = worker.rows \o new

LEMMA PrepareFacts ==
  ASSUME TypeInv, PrepareDecryptInput
  PROVE  /\ WorkerFacts /\ worker.at = "prepare"
         /\ \/ /\ worker'.at = "Decrypt" /\ worker'.rows = worker.rows
               /\ worker'.iteration = worker.iteration
            \/ /\ worker'.at = "check" /\ ThreeRows
               /\ worker'.iteration = worker.iteration + 1
<1>1. /\ worker.at = "prepare" /\ UNCHANGED <<posts, outcome>> /\ UNCHANGED UiVars
      /\ faults' \in 0 .. MaxFaults /\ worker.iteration \in Nat /\ worker.rows \in Seq(RowSet)
      /\ worker.iteration <= worker.request.iterations
  BY FaultCounted DEF PrepareDecryptInput, TypeInv, Workers, Counting, InLoop
<1>2. CASE At("Decrypt")
<2>1. WorkerFacts
<3>1. MoreToCome => MoreToCome'
  BY <1>1, <1>2, Moves DEF MoreToCome, Early, Steps, InLoop
<3> QED
  BY <1>1, <1>2, <3>1, Going DEF Early, Steps, InLoop
<2> QED
  BY <1>1, <1>2, <2>1, Moves DEF Steps, InLoop, Early
<1> DEFINE new == [k \in 1 .. 3 |-> Row(Engines[k], "Decrypt", "line")]
<1>3. CASE worker' = [NextIteration(worker) EXCEPT !.rows = worker.rows \o new]
<2>1. \A k \in 1 .. 3 : FairRow(new[k], "Decrypt") /\ new[k].engine = Engines[k]
<3>1. ASSUME NEW k \in 1 .. 3
      PROVE  /\ FairRow(Row(Engines[k], "Decrypt", "line"), "Decrypt")
             /\ Row(Engines[k], "Decrypt", "line").engine = Engines[k]
  <4>1. Engines[k] \in EngineSet /\ "Decrypt" \in Directions /\ "line" \in Notes
    BY EngineFacts DEF Directions, Notes
  <4> QED
    BY <4>1, RowIsFair
<3> QED
  BY <3>1
<2>2. new \in [1 .. 3 -> RowSet]
  BY <2>1 DEF FairRow
<2> DEFINE rows == worker.rows \o new
           next == worker.iteration + 1
<2>3. new \in Seq(RowSet)
  BY <2>2, SeqDef
<2>4. rows \in Seq(RowSet)
  BY <1>1, <2>3, ConcatProperties
<2>5. worker' = [WorkerAt("check", next, worker.rows) EXCEPT !.rows = rows]
  BY <1>3, NextWorkers
<2>6. next \in Nat /\ Goes("check", next) /\ "check" \in Steps
  BY <1>1 DEF Goes, Steps
<2>7. ThreeRows /\ worker'.at = "check" /\ worker'.iteration = next
  <3> HIDE DEF next, new
  <3>1. worker'.rows = rows /\ worker'.at = "check" /\ worker'.iteration = next
    BY <2>5 DEF WorkerAt
  <3> QED
    BY <2>1, <2>2, <3>1 DEF ThreeRows
<2> HIDE DEF rows, next
<2>8. worker' = WorkerAt("check", next, rows)
  BY <2>5 DEF WorkerAt
<2>9. WorkerFacts
  BY <1>1, <2>4, <2>6, <2>8, AddingRows
<2> QED
  BY <1>1, <2>7, <2>9 DEF next
<1> QED
  BY <1>2, <1>3 DEF PrepareDecryptInput

LEMMA WorkerStepFacts == ASSUME TypeInv, WorkerStep PROVE WorkerFacts
  BY StartTaskFacts, SetupFacts, ReportWarmupFacts, RunWarmupFacts, CheckTokenFacts,
     CreateRandomPayloadFacts, RunEncryptFacts, PrepareFacts, RunDecryptFacts
  DEF WorkerStep

-----------------------------------------------------------------------------
(* The type invariant *)

LEMMA WorkerKeepsTypes == ASSUME TypeInv, WorkerFacts PROVE TypeInv'
<1>1. posts' \in Seq(Messages)
<2>1. ASSUME NEW m \in Messages PROVE Append(posts, m) \in Seq(Messages)
  BY Posted
<2>2. posts \in Seq(Messages)
  BY DEF TypeInv, UiTypes
<2> QED
  BY <2>1, <2>2 DEF WorkerFacts, GoesOn, Ends, Messages
<1>2. /\ outcome' \in {"none"} \cup Outcomes
      /\ worker'.at = "ended" => outcome' # "none"
  BY DEF WorkerFacts, GoesOn, Ends, TypeInv, UiTypes, Outcomes
<1> QED
  BY <1>1, <1>2, UiKept DEF WorkerFacts, TypeInv

LEMMA QueueTail ==
  ASSUME TypeInv, posts # <<>>
  PROVE  /\ Tail(posts) \in Seq(Messages) /\ Head(posts) \in Messages
         /\ Head(posts) = posts[1] /\ Len(posts) \in Nat \ {0}
         /\ Len(Tail(posts)) = Len(posts) - 1
         /\ \A k \in 1 .. Len(posts) - 1 : Tail(posts)[k] = posts[k + 1]
<1>1. posts \in Seq(Messages)
  BY DEF TypeInv, UiTypes
<1> QED
  BY <1>1, HeadTailProperties, EmptySeq, LenProperties

-----------------------------------------------------------------------------
(* The UI thread and the worker *)

\* The end of a task is the last message it posts.
Endless(q) == \A k \in 1 .. Len(q) : q[k] # "end"
EndLast(q) ==
  /\ Len(q) # 0 /\ q[Len(q)] = "end"
  /\ \A k \in 1 .. Len(q) - 1 : q[k] # "end"

\* While the click handler has not awaited its task, no message is dispatched.
Starting ==
  ui = "starting" =>
    running /\ ~late /\ label = "preparing" /\ session = before /\ Endless(posts)

\* The handler waits for the end of its task, and nothing has touched the session.
Waiting ==
  ui = "loop" /\ running =>
    /\ ~late /\ session = before /\ label \in Progress \cup {"preparing"}
    /\ IF worker.at = "ended" THEN EndLast(posts) ELSE Endless(posts)

\* The handler has shown the outcome: of a task it waited for, no message is left.
Shown ==
  /\ worker.at = "ended" /\ Endless(posts)
  /\ ~late /\ runs > 0 => posts = <<>>

InBox == ui = "box" /\ running =>
  /\ Shown /\ session = before /\ outcome = "failed"
  /\ ~late => label = "failed"

Resting == ui \in {"loop", "box"} /\ ~running =>
  /\ Shown
  /\ ~late /\ runs > 0 => label \in Outcomes \cup {"exported", "imported"}

\* A cancellation that is not too late finds a look at the token still to come.
CancelHeard ==
  token /\ ~tooLate => IF worker.at = "ended" THEN outcome # "completed" ELSE MoreToCome

\* What a label that tells an outcome says of the session.
LabelTrue ==
  /\ label \in Outcomes => label = outcome /\ worker.at = "ended"
  /\ label = "completed" => session = Measured
  /\ label \in {"cancelled", "failed"} => session = before

Control == Starting /\ Waiting /\ InBox /\ Resting /\ CancelHeard /\ LabelTrue

LEMMA EmptyIsEndless == Endless(<<>>)
  BY DEF Endless

LEMMA AppendEndless ==
  ASSUME NEW q \in Seq(Messages), Endless(q), NEW m \in Messages
  PROVE  /\ m # "end" => Endless(Append(q, m))
         /\ m = "end" => EndLast(Append(q, m))
<1>1. /\ Len(q) \in Nat /\ Len(Append(q, m)) = Len(q) + 1
      /\ \A k \in 1 .. Len(q) : Append(q, m)[k] = q[k]
      /\ Append(q, m)[Len(q) + 1] = m
  BY AppendProperties, LenProperties
<1> QED
  BY <1>1 DEF Endless, EndLast

LEMMA ControlInit == Init => Control
<1> SUFFICES ASSUME Init PROVE Control
  OBVIOUS
<1>1. ~(runs > 0)
  BY DEF Init
<1> QED
  BY <1>1, EmptyIsEndless, Zenon
  DEF Init, Control, Starting, Waiting, InBox, Resting, Shown, CancelHeard, LabelTrue, Idle,
      Outcomes

LEMMA WorkerKeepsControl == ASSUME TypeInv, Control, WorkerFacts PROVE Control'
<1>1. /\ ui' = ui /\ running' = running /\ label' = label /\ session' = session
      /\ token' = token /\ runs' = runs /\ before' = before /\ late' = late
      /\ tooLate' = tooLate /\ worker.at # "ended"
  BY DEF WorkerFacts, UiVars
\* The handler is starting or waiting.
<1>2. /\ ui \in {"starting", "loop"} /\ running /\ Endless(posts) /\ label \notin Outcomes
      /\ posts \in Seq(Messages)
  BY <1>1 DEF Control, Starting, Waiting, InBox, Resting, Shown, LabelTrue, TypeInv, UiTypes
<1>3. CASE GoesOn
<2>1. Endless(posts')
<3>1. ASSUME NEW m \in Progress PROVE Endless(Append(posts, m))
  BY <1>2, AppendEndless DEF Progress, Messages
<3> QED
  BY <1>2, <1>3, <3>1 DEF GoesOn
<2>2. worker'.at # "ended" /\ (token /\ MoreToCome => MoreToCome')
  BY <1>3 DEF GoesOn
<2> QED
  BY <1>1, <1>2, <2>1, <2>2
  DEF Control, Starting, Waiting, InBox, Resting, CancelHeard, LabelTrue, Outcomes
<1>4. CASE Ends
<2>1. /\ worker'.at = "ended" /\ (token /\ MoreToCome => outcome' # "completed")
      /\ ui = "starting" => Endless(posts')
      /\ ui = "loop" => EndLast(posts')
  BY <1>2, <1>4, AppendEndless DEF Ends, Messages
<2> QED
  BY <1>1, <1>2, <2>1
  DEF Control, Starting, Waiting, InBox, Resting, CancelHeard, LabelTrue, Outcomes
<1> QED
  BY <1>3, <1>4 DEF WorkerFacts

\* The handler goes on after its await: the task has ended and its messages are out.
LEMMA ResumeKeeps ==
  ASSUME TypeInv, Control, Resume, running, worker.at = "ended", session = before,
         UNCHANGED <<worker, outcome, csv, token, runs, before, tooLate, faults>>,
         posts' \in Seq(Messages), Endless(posts'), late' \in BOOLEAN,
         ~late' => posts' = <<>>
  PROVE  TypeInv' /\ Control'
<1>1. /\ outcome \in Outcomes /\ label' = outcome
      /\ session' = IF outcome = "completed" THEN Measured ELSE session
      /\ ui' = (IF outcome = "failed" THEN "box" ELSE "loop")
      /\ running' = (outcome = "failed")
<2>1. runs > 0 /\ outcome \in {"none"} \cup Outcomes /\ outcome # "none"
  BY DEF TypeInv, UiTypes
<2> QED
  BY <2>1 DEF Resume, KeepSession
<1>2. TypeInv'
<2>1. worker' \in Workers /\ Counting'
  BY DEF TypeInv, Counting
<2>2. origin' \in [session : Origins, csv : Origins]
  BY DEF Resume, KeepSession, TypeInv, UiTypes, Origins
<2>3. UiTypes'
  BY <1>1, <2>2 DEF TypeInv, UiTypes
<2> QED
  BY <2>1, <2>3 DEF TypeInv
<1>3. Shown'
  BY DEF Shown
<1>4. LabelTrue' /\ CancelHeard'
  BY <1>1 DEF LabelTrue, Outcomes, Measured, Control, CancelHeard
<1>5. Starting' /\ Waiting' /\ InBox' /\ Resting'
  BY <1>1, <1>3 DEF Starting, Waiting, InBox, Resting, Outcomes
<1> QED
  BY <1>2, <1>4, <1>5 DEF Control

LEMMA AwaitTaskKeeps == ASSUME TypeInv, Control, AwaitTask PROVE TypeInv' /\ Control'
<1>1. /\ ui = "starting" /\ running /\ Endless(posts) /\ session = before /\ ~late
      /\ label = "preparing" /\ posts \in Seq(Messages)
      /\ UNCHANGED <<worker, outcome, posts, faults, csv, token, runs, before, tooLate>>
  BY DEF AwaitTask, WorkerVars, Control, Starting, TypeInv, UiTypes
<1>2. CASE worker.at = "ended"
<2>1. Resume /\ late' = TRUE
  BY <1>2 DEF AwaitTask
<2> QED
  BY <1>1, <1>2, <2>1, ResumeKeeps
<1>3. CASE worker.at # "ended"
<2>1. ui' = "loop" /\ UNCHANGED <<running, label, session, late, origin>>
  BY <1>3 DEF AwaitTask
<2>2. TypeInv'
<3>1. worker' \in Workers /\ Counting'
  BY <1>1 DEF TypeInv, Counting
<3>2. UiTypes'
  BY <1>1, <2>1 DEF TypeInv, UiTypes
<3> QED
  BY <3>1, <3>2 DEF TypeInv
<2>3. Control'
  BY <1>1, <1>3, <2>1
  DEF Control, Starting, Waiting, InBox, Resting, CancelHeard, MoreToCome, LabelTrue, Outcomes
<2> QED
  BY <2>2, <2>3
<1> QED
  BY <1>2, <1>3

LEMMA DispatchKeeps == ASSUME TypeInv, Control, Dispatch PROVE TypeInv' /\ Control'
<1>1. /\ ui \in {"loop", "box"} /\ posts # <<>> /\ posts' = Tail(posts)
      /\ UNCHANGED <<worker, outcome, csv, token, runs, faults, before, late, tooLate>>
  BY DEF Dispatch
<1>2. /\ posts' \in Seq(Messages) /\ posts[1] \in Messages /\ Head(posts) = posts[1]
      /\ Len(posts) \in Nat \ {0} /\ Len(posts') = Len(posts) - 1
      /\ \A k \in 1 .. Len(posts) - 1 : posts'[k] = posts[k + 1]
  BY <1>1, QueueTail
<1>3. CASE Head(posts) = "end"
<2>1. Resume
  BY <1>3 DEF Dispatch
<2>2. ~Endless(posts)
  BY <1>2, <1>3 DEF Endless
\* Only a handler that waits has an end in its queue, and it is the last message.
<2>3. /\ running /\ worker.at = "ended" /\ session = before /\ ~late /\ EndLast(posts)
  BY <1>1, <2>2 DEF Control, Waiting, InBox, Resting, Shown
<2>4. Len(posts) = 1
  BY <1>2, <1>3, <2>3 DEF EndLast
<2>5. posts' = <<>>
  BY <1>2, <2>4, EmptySeq
<2> QED
  BY <1>1, <2>1, <2>3, <2>5, <1>2, ResumeKeeps, EmptyIsEndless DEF TypeInv, UiTypes
<1>4. CASE Head(posts) # "end"
<2>1. UNCHANGED <<ui, running, session, origin>> /\ label' \in Progress
  BY <1>2, <1>4 DEF Dispatch, Messages
<2>2. Endless(posts) => Endless(posts')
  BY <1>2 DEF Endless
<2>3. EndLast(posts) => EndLast(posts')
  BY <1>2, <1>4 DEF EndLast
<2>4. TypeInv'
<3>1. worker' \in Workers /\ Counting'
  BY <1>1 DEF TypeInv, Counting
<3>2. UiTypes'
  BY <1>1, <1>2, <2>1 DEF TypeInv, UiTypes
<3> QED
  BY <3>1, <3>2 DEF TypeInv
<2>5. Starting' /\ Waiting'
  BY <1>1, <2>1, <2>2, <2>3 DEF Control, Starting, Waiting
\* A message that is still there is one of a task nobody waited for.
<2>6. InBox' /\ Resting'
<3>1. running => runs > 0
  BY DEF TypeInv, UiTypes
<3> QED
  BY <1>1, <2>1, <2>2, <3>1 DEF Control, InBox, Resting, Shown
<2>7. CancelHeard' /\ LabelTrue'
  BY <1>1, <2>1 DEF Control, CancelHeard, MoreToCome, LabelTrue, Progress, Outcomes
<2> QED
  BY <2>4, <2>5, <2>6, <2>7 DEF Control
<1> QED
  BY <1>3, <1>4

LEMMA RunClickKeeps == ASSUME TypeInv, Control, RunClick PROVE TypeInv' /\ Control'
<1>1. PICK r \in Requests :
        worker' = [at |-> "queued", request |-> r, iteration |-> 1, rows |-> <<>>]
  BY DEF RunClick
<1>2. /\ ui = "loop" /\ ~running /\ ui' = "starting" /\ running' = TRUE
      /\ label' = "preparing" /\ token' = FALSE /\ outcome' = "none"
      /\ before' = session /\ session' = session /\ late' = FALSE /\ tooLate' = FALSE
      /\ posts' = posts /\ faults' = faults /\ origin' = origin
  BY DEF RunClick
<1>3. runs' \in 0 .. MaxRuns /\ runs' > 0
  BY BoundsAssumption DEF RunClick, TypeInv, UiTypes
<1>4. worker' \in Workers
  BY <1>1, EmptySeq DEF Workers, Steps, Early
<1>5. Counting'
  BY <1>1, RequestFacts DEF Counting, Early, InLoop
<1>6. UiTypes'
  BY <1>1, <1>2, <1>3 DEF TypeInv, UiTypes
<1>7. Endless(posts)
  BY <1>2 DEF Control, Resting, Shown
<1>8. Control'
  BY <1>1, <1>2, <1>7
  DEF Control, Starting, Waiting, InBox, Resting, CancelHeard, LabelTrue, Outcomes
<1> QED
  BY <1>4, <1>5, <1>6, <1>8 DEF TypeInv

LEMMA DismissBoxKeeps == ASSUME TypeInv, Control, DismissBox PROVE TypeInv' /\ Control'
<1>1. /\ ui = "box" /\ ui' = "loop" /\ running' = FALSE
      /\ UNCHANGED <<posts, worker, outcome, faults, label, session, token, runs, before, late,
                     tooLate, origin>>
  BY DEF DismissBox, WorkerVars
<1>2. TypeInv'
<2>1. worker' \in Workers /\ Counting'
  BY <1>1 DEF TypeInv, Counting
<2>2. UiTypes'
  BY <1>1 DEF TypeInv, UiTypes
<2> QED
  BY <2>1, <2>2 DEF TypeInv
<1>3. Control'
  BY <1>1
  DEF Control, Starting, Waiting, InBox, Resting, Shown, CancelHeard, MoreToCome, LabelTrue,
      Measured, Outcomes
<1> QED
  BY <1>2, <1>3

LEMMA CancelClickKeeps == ASSUME TypeInv, Control, CancelClick PROVE TypeInv' /\ Control'
<1>1. /\ ui = "loop" /\ running /\ token' = TRUE
      /\ tooLate' = IF token THEN tooLate ELSE PastLastCheck
      /\ UNCHANGED <<posts, worker, outcome, faults, ui, running, label, session, runs, before,
                     late, origin>>
  BY DEF CancelClick, WorkerVars
<1>2. TypeInv'
<2>1. worker' \in Workers /\ Counting'
  BY <1>1 DEF TypeInv, Counting
<2>2. UiTypes'
  BY <1>1 DEF TypeInv, UiTypes, PastLastCheck
<2> QED
  BY <2>1, <2>2 DEF TypeInv
<1>3. ~PastLastCheck => worker.at # "ended" /\ MoreToCome
<2>1. /\ worker.iteration \in Nat /\ worker.request.iterations \in Nat /\ worker.at \in Steps
  BY RequestFacts DEF TypeInv, Workers
<2> QED
  BY <2>1 DEF PastLastCheck, MoreToCome, Steps, Early, InLoop
<1>4. CancelHeard'
  BY <1>1, <1>3 DEF Control, CancelHeard, MoreToCome
<1>5. Control'
  BY <1>1, <1>4
  DEF Control, Starting, Waiting, InBox, Resting, Shown, LabelTrue, Measured, Outcomes
<1> QED
  BY <1>2, <1>5

\* Export and import: the session changes hands and the outcome is no longer shown, or a
\* box tells of the failure and both stay.
LEMMA FileClickKeeps ==
  ASSUME TypeInv, Control, ExportClick \/ ImportClick
  PROVE  TypeInv' /\ Control'
<1>1. /\ ui = "loop" /\ ~running
      /\ UNCHANGED <<posts, worker, outcome, running, token, runs, before, late, tooLate>>
  BY DEF ExportClick, ImportClick
<1>2. \/ ui' = ui /\ label' \in {"exported", "imported"}
      \/ ui' = "box" /\ UNCHANGED <<label, session>>
  BY DEF ExportClick, ImportClick
<1>3. TypeInv'
<2>1. worker' \in Workers /\ Counting'
  BY <1>1 DEF TypeInv, Counting
<2>2. faults' \in 0 .. MaxFaults
<3>1. UNCHANGED faults \/ Fault
  BY DEF ExportClick, ImportClick
<3> QED
  BY <3>1, FaultCounted
<2>3. origin' \in [session : Origins, csv : Origins]
  BY DEF ExportClick, ImportClick, TypeInv, UiTypes, Origins
<2>4. UiTypes'
  BY <1>1, <1>2, <2>2, <2>3 DEF TypeInv, UiTypes
<2> QED
  BY <2>1, <2>4 DEF TypeInv
<1>4. Shown'
  BY <1>1 DEF Control, Resting, Shown
<1>5. Control'
  BY <1>1, <1>2, <1>4
  DEF Control, Starting, Waiting, InBox, Resting, CancelHeard, MoreToCome, LabelTrue,
      Measured, Outcomes
<1> QED
  BY <1>3, <1>5

LEMMA ControlNext == ASSUME TypeInv, Control, [Next]_vars PROVE TypeInv' /\ Control'
<1>1. CASE WorkerStep
  BY <1>1, WorkerStepFacts, WorkerKeepsTypes, WorkerKeepsControl
<1>2. CASE UiStep
  BY <1>2, AwaitTaskKeeps, DispatchKeeps DEF UiStep
<1>3. CASE User
  BY <1>3, RunClickKeeps, DismissBoxKeeps, CancelClickKeeps, FileClickKeeps DEF User
<1>4. CASE UNCHANGED vars
<2>1. TypeInv'
<3>1. worker' \in Workers /\ Counting'
  BY <1>4 DEF TypeInv, Counting, vars
<3>2. UiTypes'
  BY <1>4 DEF TypeInv, UiTypes, vars, history
<3> QED
  BY <3>1, <3>2 DEF TypeInv
<2>2. Control'
  BY <1>4
  DEF Control, Starting, Waiting, InBox, Resting, Shown, CancelHeard, MoreToCome, LabelTrue,
      Measured, vars, history
<2> QED
  BY <2>1, <2>2
<1> QED
  BY <1>1, <1>2, <1>3, <1>4 DEF Next

LEMMA ControlInvariant == Spec => [](TypeInv /\ Control)
<1>1. Init => TypeInv /\ Control
  BY TypesInit, ControlInit
<1>2. (TypeInv /\ Control) /\ [Next]_vars => (TypeInv /\ Control)'
  BY ControlNext
<1> QED
  BY <1>1, <1>2, PTL DEF Spec

\* The types of every variable, for any requests and any number of runs.
THEOREM TypeCorrect == Spec => []TypeOK
<1>1. TypeInv => TypeOK
<2> SUFFICES ASSUME TypeInv PROVE TypeOK
  OBVIOUS
<2>1. posts \in Seq(Progress \cup {"end"})
  BY DEF TypeInv, UiTypes, Messages
<2>2. /\ worker.at \in {"queued", "setup", "warmup", "warming", "check", "allocate", "Encrypt",
                        "prepare", "Decrypt", "ended"}
      /\ worker.request \in Requests \cup {NoRequest}
      /\ worker.iteration \in 1 .. worker.request.iterations + 1
      /\ worker.rows \in Seq(RowSet)
  BY DEF TypeInv, Workers, Counting, Steps, Early, InLoop
<2> QED
  BY <2>1, <2>2 DEF TypeInv, UiTypes, TypeOK
<1> QED
  BY <1>1, ControlInvariant, PTL

\* The label and the session agree when the controls come back: a cancelled or failed run
\* leaves the session alone, a cancellation in time is heard, and a task's last message is
\* its end, so that no progress is shown after the outcome.
THEOREM OutcomeIsShown == Spec => []OutcomeShown
<1>1. TypeInv /\ Control => OutcomeShown
<2> SUFFICES ASSUME TypeInv, Control PROVE OutcomeShown
  OBVIOUS
<2>1. ~running => ui \in {"loop", "box"}
  BY DEF TypeInv, UiTypes, Control, Starting
<2> QED
  BY <2>1 DEF Control, Resting, LabelTrue, CancelHeard, OutcomeShown, Outcomes
<1> QED
  BY <1>1, ControlInvariant, PTL

-----------------------------------------------------------------------------
(* The rows *)

\* The place of a row: iterations of six rows, the directions of three, in the order of
\* the engines.
Place(i, d, e) == ((6 * (i - 1)) + (3 * d)) + e

Direction(d) == IF d = 0 THEN "Encrypt" ELSE "Decrypt"

InPlace(rows) ==
  \A i \in Nat \ {0}, d \in {0, 1}, e \in 1 .. 3 :
    Place(i, d, e) <= Len(rows) =>
      /\ rows[Place(i, d, e)].iteration = i
      /\ rows[Place(i, d, e)].direction = Direction(d)
      /\ rows[Place(i, d, e)].engine = Engines[e]

\* A successful row is of the data that was asked for.
Honest(rows, r) ==
  \A k \in 1 .. Len(rows) : rows[k].ok =>
    Supported(rows[k].engine, r) /\ rows[k].input = PayloadSize(r)

\* How many rows of this iteration there are at each step of the worker.
Within(at, n) ==
  /\ at \in Early \cup {"check", "allocate"} => n = 0
  /\ at = "Encrypt" => n \in 0 .. 2
  /\ at = "prepare" => n = 3
  /\ at = "Decrypt" => n \in 3 .. 5

RowsInv ==
  /\ InPlace(worker.rows) /\ Honest(worker.rows, worker.request)
  /\ worker.at # "ended" => Within(worker.at, Len(worker.rows) - (6 * (worker.iteration - 1)))
  /\ worker.at \in {"Encrypt", "prepare", "Decrypt"} \/ Len(worker.rows) # 0
       => PayloadSize(worker.request) >= 0
  /\ outcome = "completed" =>
       /\ worker.at = "ended" /\ worker.request \in Requests
       /\ Len(worker.rows) = 6 * worker.request.iterations

LEMMA RowAppended ==
  ASSUME NEW rows \in Seq(RowSet), InPlace(rows), NEW r, Honest(rows, r),
         NEW i \in Nat \ {0}, NEW d \in {0, 1}, NEW e \in 1 .. 3,
         Len(rows) + 1 = Place(i, d, e),
         NEW row \in RowSet, row.iteration = i, row.direction = Direction(d),
         row.engine = Engines[e],
         row.ok => Supported(row.engine, r) /\ row.input = PayloadSize(r)
  PROVE  /\ Append(rows, row) \in Seq(RowSet) /\ Len(Append(rows, row)) = Len(rows) + 1
         /\ InPlace(Append(rows, row)) /\ Honest(Append(rows, row), r)
<1> DEFINE more == Append(rows, row)
<1>1. /\ more \in Seq(RowSet) /\ Len(rows) \in Nat /\ Len(more) = Len(rows) + 1
      /\ \A k \in 1 .. Len(rows) : more[k] = rows[k]
      /\ more[Len(rows) + 1] = row
  BY AppendProperties, LenProperties
<1> HIDE DEF more
<1>2. ASSUME NEW j \in Nat \ {0}, NEW c \in {0, 1}, NEW f \in 1 .. 3,
             Place(j, c, f) <= Len(more)
      PROVE  /\ more[Place(j, c, f)].iteration = j
             /\ more[Place(j, c, f)].direction = Direction(c)
             /\ more[Place(j, c, f)].engine = Engines[f]
<2>1. Place(j, c, f) \in 1 .. Len(rows) + 1
  BY <1>1, <1>2 DEF Place
<2>2. CASE Place(j, c, f) <= Len(rows)
<3>1. more[Place(j, c, f)] = rows[Place(j, c, f)]
  BY <1>1, <2>1, <2>2
<3> QED
  BY <2>2, <3>1 DEF InPlace
<2>3. CASE Place(j, c, f) = Place(i, d, e)
<3>1. j = i /\ c = d /\ f = e
  BY <2>3 DEF Place
<3>2. more[Place(j, c, f)] = row
  BY <1>1, <2>3
<3> QED
  BY <3>1, <3>2
<2> QED
  BY <1>1, <2>1, <2>2, <2>3
<1>3. InPlace(more)
  BY <1>2 DEF InPlace
<1>4. ASSUME NEW k \in 1 .. Len(more), more[k].ok
      PROVE  Supported(more[k].engine, r) /\ more[k].input = PayloadSize(r)
<2>1. CASE k \in 1 .. Len(rows)
<3>1. more[k] = rows[k]
  BY <1>1, <2>1
<3> QED
  BY <1>4, <2>1, <3>1 DEF Honest
<2>2. CASE k = Len(rows) + 1
  BY <1>1, <1>4, <2>2
<2> QED
  BY <1>1, <2>1, <2>2
<1>5. Honest(more, r)
  BY <1>4 DEF Honest
<1> QED
  BY <1>1, <1>3, <1>5 DEF more

LEMMA TurnIs ==
  ASSUME NEW i \in Nat \ {0}, NEW x \in 0 .. 5, Len(worker.rows) = (6 * (i - 1)) + x
  PROVE  Turn = Engines[IF x < 3 THEN x + 1 ELSE x - 2]
<1>1. (Len(worker.rows) % 3) + 1 = IF x < 3 THEN x + 1 ELSE x - 2
<2>1. ((6 * (i - 1)) + x) % 3 = IF x < 3 THEN x ELSE x - 3
  OBVIOUS
<2> QED
  BY <2>1
<1> QED
  BY <1>1 DEF Turn

\* A row of the engine whose turn it is, at the place that is its own.
LEMMA RowInTurn ==
  ASSUME TypeInv, RowsInv, NEW x \in 0 .. 5, NEW d \in {0, 1},
         Len(worker.rows) = (6 * (worker.iteration - 1)) + x,
         d = 0 <=> x < 3, OneRow(Direction(d))
  PROVE  /\ Len(worker'.rows) = Len(worker.rows) + 1
         /\ InPlace(worker'.rows) /\ Honest(worker'.rows, worker.request)
         /\ Turn = "ManagedAes" <=> x \in {2, 5}
<1>1. /\ worker.rows \in Seq(RowSet) /\ worker.iteration \in Nat \ {0}
      /\ Len(worker.rows) \in Nat
  BY LenProperties DEF TypeInv, Workers, Counting
<1> DEFINE e == IF x < 3 THEN x + 1 ELSE x - 2
<1>2. e \in 1 .. 3 /\ Turn = Engines[e]
<2>1. Turn = Engines[e]
  BY <1>1, TurnIs, Zenon
<2> QED
  BY <2>1
<1>3. Len(worker.rows) + 1 = Place(worker.iteration, d, e)
  BY <1>1 DEF Place
<1>4. Turn = "ManagedAes" <=> e = 3
<2> HIDE DEF e
<2>1. e = 1 \/ e = 2 \/ e = 3
  BY <1>2
<2> QED
  BY <1>2, <2>1, EngineFacts
<1>5. PICK row : /\ FairRow(row, Direction(d)) /\ row.engine = Turn
                 /\ worker'.rows = Append(worker.rows, row)
  BY DEF OneRow
<1> HIDE DEF e
<1>6. /\ Len(worker'.rows) = Len(worker.rows) + 1
      /\ InPlace(worker'.rows) /\ Honest(worker'.rows, worker.request)
<2>1. /\ row \in RowSet /\ row.iteration = worker.iteration /\ row.direction = Direction(d)
      /\ row.engine = Engines[e]
      /\ row.ok => Supported(row.engine, worker.request) /\ row.input = PayloadSize(worker.request)
  BY <1>2, <1>5 DEF FairRow
<2>2. InPlace(worker.rows) /\ Honest(worker.rows, worker.request)
  BY DEF RowsInv
<2> DEFINE rows == worker.rows
           i    == worker.iteration
           r    == worker.request
<2>3. /\ rows \in Seq(RowSet) /\ InPlace(rows) /\ Honest(rows, r) /\ i \in Nat \ {0}
      /\ e \in 1 .. 3 /\ Len(rows) + 1 = Place(i, d, e)
      /\ row \in RowSet /\ row.iteration = i /\ row.direction = Direction(d)
      /\ row.engine = Engines[e]
      /\ row.ok => Supported(row.engine, r) /\ row.input = PayloadSize(r)
  BY <1>1, <1>2, <1>3, <2>1, <2>2
<2> HIDE DEF rows, i, r
<2>4. /\ Len(Append(rows, row)) = Len(rows) + 1
      /\ InPlace(Append(rows, row)) /\ Honest(Append(rows, row), r)
  BY <2>3, RowAppended
<2> QED
  BY <1>5, <2>4 DEF rows, r
<1>7. e = 3 <=> x \in {2, 5}
  BY DEF e
<1> QED
  BY <1>4, <1>6, <1>7

\* The decryptions that could not be prepared fail in the same places.
LEMMA ThreeAppended ==
  ASSUME TypeInv, InPlace(worker.rows), Honest(worker.rows, worker.request), ThreeRows,
         Len(worker.rows) = (6 * (worker.iteration - 1)) + 3
  PROVE  /\ InPlace(worker'.rows) /\ Honest(worker'.rows, worker.request)
         /\ Len(worker'.rows) = Len(worker.rows) + 3
<1> DEFINE rows == worker.rows
           i    == worker.iteration
<1>1. PICK new \in [1 .. 3 -> RowSet] :
        /\ \A k \in 1 .. 3 : FairRow(new[k], "Decrypt") /\ new[k].engine = Engines[k]
        /\ worker'.rows = rows \o new
  BY DEF ThreeRows
<1>2. /\ rows \in Seq(RowSet) /\ new \in Seq(RowSet) /\ Len(new) = 3 /\ i \in Nat \ {0}
<2>1. new \in Seq(RowSet)
  BY <1>1, SeqDef
<2>2. Len(new) = 3
  BY <1>1, <2>1, LenProperties
<2> QED
  BY <2>1, <2>2 DEF TypeInv, Workers, Counting
<1> DEFINE more == worker'.rows
<1>3. /\ Len(rows) \in Nat /\ Len(more) = Len(rows) + 3
      /\ \A k \in 1 .. Len(rows) : more[k] = rows[k]
      /\ \A k \in 1 .. 3 : more[Len(rows) + k] = new[k]
<2>1. /\ Len(rows \o new) = Len(rows) + Len(new)
      /\ \A k \in 1 .. Len(rows) + Len(new) :
           (rows \o new)[k] = IF k <= Len(rows) THEN rows[k] ELSE new[k - Len(rows)]
  BY <1>2, ConcatProperties
<2>2. Len(rows) \in Nat
  BY <1>2, LenProperties
<2> HIDE DEF rows
<2> QED
  BY <1>1, <1>2, <2>1, <2>2
<1>4. Len(rows) = (6 * (i - 1)) + 3
  OBVIOUS
<1>5. InPlace(rows) /\ Honest(rows, worker.request)
  OBVIOUS
<1>6. \A k \in 1 .. 3 :
        /\ new[k].iteration = i /\ new[k].direction = "Decrypt" /\ new[k].engine = Engines[k]
        /\ new[k].ok => /\ Supported(new[k].engine, worker.request)
                        /\ new[k].input = PayloadSize(worker.request)
  BY <1>1 DEF FairRow
<1> HIDE DEF rows, i, more
<1>7. ASSUME NEW j \in Nat \ {0}, NEW c \in {0, 1}, NEW f \in 1 .. 3,
             Place(j, c, f) <= Len(more)
      PROVE  /\ more[Place(j, c, f)].iteration = j
             /\ more[Place(j, c, f)].direction = Direction(c)
             /\ more[Place(j, c, f)].engine = Engines[f]
<2>1. CASE Place(j, c, f) <= Len(rows)
<3>1. Place(j, c, f) \in 1 .. Len(rows)
  BY <1>3, <2>1 DEF Place
<3>2. more[Place(j, c, f)] = rows[Place(j, c, f)]
  BY <1>3, <3>1
<3> QED
  BY <1>5, <2>1, <3>2 DEF InPlace
<2>2. CASE ~(Place(j, c, f) <= Len(rows))
<3>1. j = i /\ c = 1 /\ Place(j, c, f) = Len(rows) + f
  BY <1>2, <1>3, <1>4, <1>7, <2>2, SMTT(60) DEF Place
<3>2. more[Place(j, c, f)] = new[f]
  BY <1>3, <3>1
<3>3. Direction(1) = "Decrypt"
  BY DEF Direction
<3> QED
  BY <1>6, <3>1, <3>2, <3>3
<2> QED
  BY <2>1, <2>2
<1>8. ASSUME NEW k \in 1 .. Len(more), more[k].ok
      PROVE  /\ Supported(more[k].engine, worker.request)
             /\ more[k].input = PayloadSize(worker.request)
<2>1. CASE k \in 1 .. Len(rows)
<3>1. more[k] = rows[k]
  BY <1>3, <2>1
<3> QED
  BY <1>5, <1>8, <2>1, <3>1 DEF Honest
<2>2. CASE k \notin 1 .. Len(rows)
<3>1. PICK f \in 1 .. 3 : k = Len(rows) + f
<4>1. k - Len(rows) \in 1 .. 3 /\ k = Len(rows) + (k - Len(rows))
  BY <1>3, <2>2
<4> QED
  BY <4>1
<3>2. more[k] = new[f]
  BY <1>3, <3>1
<3> QED
  BY <1>6, <1>8, <3>2
<2> QED
  BY <2>1, <2>2
<1>9. InPlace(more) /\ Honest(more, worker.request)
  BY <1>7, <1>8 DEF InPlace, Honest
<1> QED
  BY <1>3, <1>9 DEF more, rows

\* A step of the worker that adds no row.
LEMMA NoRow ==
  ASSUME TypeInv, RowsInv, NEW s \in Steps, At(s),
         s # "ended" => Within(s, Len(worker.rows) - (6 * (worker.iteration - 1))),
         s \in {"Encrypt", "prepare", "Decrypt"} => PayloadSize(worker.request) >= 0,
         worker.at # "ended",
         outcome' = outcome \/ s = "ended",
         outcome' = "completed" => Len(worker.rows) = 6 * worker.request.iterations
  PROVE  RowsInv'
<1>1. /\ worker'.at = s /\ worker'.request = worker.request
      /\ worker'.iteration = worker.iteration /\ worker'.rows = worker.rows
  BY DEF TypeInv, Workers, At
<1>2. outcome # "completed" /\ worker.request \in Requests
  BY DEF RowsInv, TypeInv, Counting
<1> QED
  BY <1>1, <1>2 DEF RowsInv

LEMMA WorkerKeepsRows == ASSUME TypeInv, RowsInv, WorkerStep PROVE RowsInv'
<1>1. /\ worker.rows \in Seq(RowSet) /\ worker.iteration \in Nat \ {0}
      /\ Len(worker.rows) \in Nat /\ worker.request.iterations \in Nat
      /\ PayloadSize(worker.request) \in Int
      /\ worker.iteration <= worker.request.iterations + 1
  BY LenProperties, RequestFacts DEF TypeInv, Workers, Counting
<1>2. CASE StartTask \/ Setup \/ ReportWarmup \/ RunWarmup
<2>1. worker.at \in Early
  BY <1>2 DEF StartTask, Setup, ReportWarmup, RunWarmup, Early
<2>2. \/ \E s \in {"setup", "warmup", "warming", "check"} : At(s) /\ outcome' = outcome
      \/ At("ended") /\ outcome' \in {"cancelled", "failed"}
  BY <1>2 DEF StartTask, Setup, ReportWarmup, RunWarmup, EndWith
<2>3. outcome # "completed"
  BY <2>1 DEF RowsInv, Early
<2> QED
  BY <2>1, <2>2, <2>3, NoRow DEF RowsInv, Within, Early, Steps
<1>3. CASE CheckToken
<2>1. worker.at = "check" /\ Len(worker.rows) = 6 * (worker.iteration - 1) /\ outcome # "completed"
  BY <1>1, <1>3 DEF CheckToken, RowsInv, Within
<2>2. CASE worker.iteration > worker.request.iterations
<3>1. At("ended") /\ Len(worker.rows) = 6 * worker.request.iterations
  BY <1>1, <1>3, <2>1, <2>2 DEF CheckToken, EndWith
<3> QED
  BY <2>1, <3>1, NoRow DEF Steps
<2>3. CASE ~(worker.iteration > worker.request.iterations)
<3>1. \/ At("ended") /\ outcome' = "cancelled"
      \/ At("allocate") /\ outcome' = outcome
  BY <1>3, <2>3 DEF CheckToken, EndWith
<3>2. Within("allocate", Len(worker.rows) - (6 * (worker.iteration - 1)))
  BY <1>1, <2>1 DEF Within
<3> QED
  BY <2>1, <3>1, <3>2, NoRow DEF Steps, InLoop
<2> QED
  BY <2>2, <2>3
<1>4. CASE CreateRandomPayload
<2>1. /\ worker.at = "allocate" /\ outcome # "completed"
      /\ Len(worker.rows) - (6 * (worker.iteration - 1)) = 0
  BY <1>1, <1>4 DEF CreateRandomPayload, RowsInv, Within
<2>2. \/ At("ended") /\ outcome' = "failed"
      \/ At("Encrypt") /\ outcome' = outcome /\ PayloadSize(worker.request) >= 0
  BY <1>4 DEF CreateRandomPayload, EndWith
<2>3. Within("Encrypt", Len(worker.rows) - (6 * (worker.iteration - 1)))
  BY <2>1 DEF Within, Early
<2> QED
  BY <2>1, <2>2, <2>3, NoRow DEF Steps, InLoop
<1>5. CASE RunEncrypt
<2>1. /\ worker.at = "Encrypt" /\ OneRow("Encrypt") /\ worker'.iteration = worker.iteration
      /\ worker'.at = IF Turn = "ManagedAes" THEN "prepare" ELSE "Encrypt"
      /\ worker'.request = worker.request
  BY <1>5, RunEncryptFacts DEF WorkerFacts
<2> DEFINE x == Len(worker.rows) - (6 * (worker.iteration - 1))
<2>2. x \in 0 .. 2 /\ Len(worker.rows) = (6 * (worker.iteration - 1)) + x
  BY <1>1, <2>1 DEF RowsInv, Within
<2> HIDE DEF x
<2>3. /\ Len(worker'.rows) = Len(worker.rows) + 1
      /\ InPlace(worker'.rows) /\ Honest(worker'.rows, worker.request)
      /\ Turn = "ManagedAes" <=> x \in {2, 5}
<3>1. OneRow(Direction(0)) /\ 0 \in {0, 1} /\ x \in 0 .. 5 /\ x < 3
  BY <2>1, <2>2 DEF Direction
<3> QED
  BY <2>2, <3>1, RowInTurn
<2>4. Len(worker'.rows) - (6 * (worker'.iteration - 1)) = x + 1
  BY <1>1, <2>1, <2>2, <2>3
<2>5. Within(worker'.at, x + 1)
  BY <2>1, <2>2, <2>3 DEF Within, Early
<2>6. outcome' # "completed" /\ PayloadSize(worker.request) >= 0
  BY <1>5, <2>1 DEF RowsInv, RunEncrypt, RunEngine
<2> QED
  BY <2>1, <2>3, <2>4, <2>5, <2>6 DEF RowsInv
<1>6. CASE PrepareDecryptInput
<2>1. /\ worker.at = "prepare" /\ worker'.request = worker.request
      /\ \/ /\ worker'.at = "Decrypt" /\ worker'.rows = worker.rows
            /\ worker'.iteration = worker.iteration
         \/ /\ worker'.at = "check" /\ ThreeRows /\ worker'.iteration = worker.iteration + 1
      /\ outcome' = outcome
  BY <1>6, PrepareFacts DEF WorkerFacts, PrepareDecryptInput
<2>2. /\ Len(worker.rows) = (6 * (worker.iteration - 1)) + 3
      /\ outcome' # "completed" /\ PayloadSize(worker.request) >= 0
  BY <1>1, <2>1 DEF RowsInv, Within
<2>3. CASE worker'.at = "Decrypt"
<3>1. Within("Decrypt", Len(worker.rows) - (6 * (worker.iteration - 1)))
  BY <1>1, <2>2 DEF Within, Early
<3> QED
  BY <2>1, <2>2, <2>3, <3>1 DEF RowsInv
<2>4. CASE worker'.at = "check"
<3>1. /\ InPlace(worker'.rows) /\ Honest(worker'.rows, worker.request)
      /\ Len(worker'.rows) = Len(worker.rows) + 3
  BY <1>1, <2>1, <2>2, <2>4, ThreeAppended DEF RowsInv
<3>2. Len(worker'.rows) - (6 * (worker'.iteration - 1)) = 0
  BY <1>1, <2>1, <2>2, <2>4, <3>1
<3>3. Within("check", 0)
  BY DEF Within, Early
<3> QED
  BY <2>1, <2>2, <2>4, <3>1, <3>2, <3>3 DEF RowsInv
<2> QED
  BY <2>1, <2>3, <2>4
<1>7. CASE RunDecrypt
<2>1. /\ worker.at = "Decrypt" /\ OneRow("Decrypt")
      /\ worker'.at = IF Turn = "ManagedAes" THEN "check" ELSE "Decrypt"
      /\ worker'.iteration = worker.iteration + IF Turn = "ManagedAes" THEN 1 ELSE 0
      /\ worker'.request = worker.request
  BY <1>7, RunDecryptFacts DEF WorkerFacts
<2> DEFINE x == Len(worker.rows) - (6 * (worker.iteration - 1))
<2>2. x \in 3 .. 5 /\ Len(worker.rows) = (6 * (worker.iteration - 1)) + x
  BY <1>1, <2>1 DEF RowsInv, Within
<2> HIDE DEF x
<2>3. /\ Len(worker'.rows) = Len(worker.rows) + 1
      /\ InPlace(worker'.rows) /\ Honest(worker'.rows, worker.request)
      /\ Turn = "ManagedAes" <=> x \in {2, 5}
<3>1. OneRow(Direction(1)) /\ 1 \in {0, 1} /\ x \in 0 .. 5 /\ ~(x < 3)
  BY <2>1, <2>2 DEF Direction
<3> QED
  BY <2>2, <3>1, RowInTurn
<2>4. outcome' # "completed" /\ PayloadSize(worker.request) >= 0
  BY <1>7, <2>1 DEF RowsInv, RunDecrypt, RunEngine
<2>5. CASE x = 5
<3>1. worker'.at = "check" /\ worker'.iteration = worker.iteration + 1
  BY <2>1, <2>3, <2>5
<3>2. Len(worker'.rows) - (6 * (worker'.iteration - 1)) = 0
  BY <1>1, <2>2, <2>3, <2>5, <3>1
<3>3. Within("check", 0)
  BY DEF Within, Early
<3> QED
  BY <2>1, <2>3, <2>4, <3>1, <3>2, <3>3 DEF RowsInv
<2>6. CASE x \in {3, 4}
<3>1. worker'.at = "Decrypt" /\ worker'.iteration = worker.iteration
  BY <1>1, <2>1, <2>3, <2>6
<3>2. Len(worker'.rows) - (6 * (worker'.iteration - 1)) = x + 1
  BY <1>1, <2>2, <2>3, <2>6, <3>1
<3>3. Within("Decrypt", x + 1)
  BY <2>6 DEF Within, Early
<3> QED
  BY <2>1, <2>3, <2>4, <3>1, <3>2, <3>3 DEF RowsInv
<2> QED
  BY <2>2, <2>5, <2>6
<1> QED
  BY <1>2, <1>3, <1>4, <1>5, <1>6, <1>7 DEF WorkerStep

-----------------------------------------------------------------------------
(* Sessions *)

\* The first rows of a run of that request, of one that ended or was cut short.
Started(rows, r) ==
  /\ r \in Requests /\ rows \in Seq(RowSet)
  /\ Len(rows) <= 6 * r.iterations
  /\ Len(rows) # 0 => PayloadSize(r) >= 0
  /\ InPlace(rows) /\ Honest(rows, r)

\* What the origin of rows says of them.
Sound(rows, r, from) ==
  /\ from \in {"run", "cut"} => Started(rows, r)
  /\ from = "run" => Len(rows) = 6 * r.iterations

Kept ==
  /\ session.summaries = Summaries(session.rows)
  /\ Sound(session.rows, session.request, origin.session)
  /\ origin.session = "none" => session = NoSession
  /\ csv = NoFile \/ (origin.csv # "none" /\ Sound(csv.rows, csv.request, origin.csv))

LEMMA MeasuredIsSound ==
  ASSUME TypeInv, RowsInv, outcome = "completed"
  PROVE  /\ Sound(Measured.rows, Measured.request, "run")
         /\ Measured.summaries = Summaries(Measured.rows)
<1>1. /\ worker.request \in Requests /\ Len(worker.rows) = 6 * worker.request.iterations
      /\ worker.request.iterations \in Nat
      /\ worker.rows \in Seq(RowSet)
  BY RequestFacts DEF TypeInv, Workers, RowsInv
<1>2. Len(worker.rows) # 0 => PayloadSize(worker.request) >= 0
  BY DEF RowsInv
<1>3. InPlace(worker.rows) /\ Honest(worker.rows, worker.request)
  BY DEF RowsInv
<1>4. Started(worker.rows, worker.request)
  BY <1>1, <1>2, <1>3 DEF Started
<1>5. Sound(worker.rows, worker.request, "run")
  BY <1>1, <1>4 DEF Sound
<1> QED
  BY <1>5 DEF Measured

\* The same but for its note.
Alike(row, old) ==
  /\ row.iteration = old.iteration /\ row.engine = old.engine
  /\ row.direction = old.direction /\ row.ok = old.ok /\ row.input = old.input

LEMMA Renoted ==
  ASSUME NEW old \in RowSet, NEW n \in Notes
  PROVE  [old EXCEPT !.note = n] \in RowSet /\ Alike([old EXCEPT !.note = n], old)
  BY DEF RowSet, Alike

\* A file gives back the first rows that were written to it.
LEMMA BeginningStarted ==
  ASSUME NEW old, NEW r, Started(old, r), NEW rows \in Seq(RowSet), Len(rows) <= Len(old),
         \A k \in 1 .. Len(rows) : Alike(rows[k], old[k])
  PROVE  Started(rows, r)
<1>1. /\ old \in Seq(RowSet) /\ Len(old) \in Nat /\ Len(rows) \in Nat
      /\ r \in Requests /\ r.iterations \in Nat /\ Len(old) <= 6 * r.iterations
      /\ Len(old) # 0 => PayloadSize(r) >= 0
      /\ InPlace(old) /\ Honest(old, r)
  BY LenProperties, RequestFacts DEF Started
<1>2. InPlace(rows)
<2> SUFFICES ASSUME NEW i \in Nat \ {0}, NEW d \in {0, 1}, NEW e \in 1 .. 3,
                    Place(i, d, e) <= Len(rows)
             PROVE  /\ rows[Place(i, d, e)].iteration = i
                    /\ rows[Place(i, d, e)].direction = Direction(d)
                    /\ rows[Place(i, d, e)].engine = Engines[e]
  BY DEF InPlace
<2>1. Place(i, d, e) \in 1 .. Len(rows) /\ Place(i, d, e) <= Len(old)
  BY <1>1 DEF Place
<2>2. Alike(rows[Place(i, d, e)], old[Place(i, d, e)])
  BY <2>1
<2> QED
  BY <1>1, <2>1, <2>2 DEF InPlace, Alike
<1>3. Honest(rows, r)
  BY <1>1 DEF Honest, Alike
<1>4. Len(rows) <= 6 * r.iterations /\ (Len(rows) # 0 => PayloadSize(r) >= 0)
  BY <1>1
<1> QED
  BY <1>1, <1>2, <1>3, <1>4 DEF Started

\* Reading a file back changes nothing but notes.
LEMMA ParseKeeps ==
  ASSUME NEW file, NEW from, Sound(file.rows, file.request, from)
  PROVE  /\ Sound(ParseCsv(file).rows, ParseCsv(file).request, from)
         /\ ParseCsv(file).summaries = Summaries(ParseCsv(file).rows)
<1> DEFINE old  == file.rows
           line == [k \in 1 .. Len(old) |->
                      [old[k] EXCEPT !.note = IF @ = "lines" THEN "line" ELSE @]]
<1>1. /\ ParseCsv(file).rows = line /\ ParseCsv(file).request = file.request
      /\ ParseCsv(file).summaries = Summaries(line)
  BY DEF ParseCsv
<1>2. ASSUME from \in {"run", "cut"}
      PROVE  Started(line, file.request) /\ Len(line) = Len(old)
<2>1. Started(old, file.request)
  BY <1>2 DEF Sound
<2>2. old \in Seq(RowSet) /\ Len(old) \in Nat /\ \A k \in 1 .. Len(old) : old[k] \in RowSet
  BY <2>1, LenProperties, ElementOfSeq DEF Started
<2> HIDE DEF old
<2>3. ASSUME NEW k \in 1 .. Len(old) PROVE line[k] \in RowSet /\ Alike(line[k], old[k])
<3> DEFINE note == IF old[k].note = "lines" THEN "line" ELSE old[k].note
<3>1. note \in Notes /\ line[k] = [old[k] EXCEPT !.note = note]
  BY <2>2 DEF RowSet, Notes
<3> HIDE DEF note, line
<3> QED
  BY <2>2, <3>1, Renoted
<2>4. line \in [1 .. Len(old) -> RowSet]
  BY <2>3
<2> HIDE DEF line
<2>5. line \in Seq(RowSet) /\ Len(line) = Len(old)
<3>1. line \in Seq(RowSet)
  BY <2>2, <2>4, SeqDef
<3> QED
  BY <2>2, <2>4, <3>1, LenProperties
<2> QED
  BY <2>1, <2>2, <2>3, <2>5, BeginningStarted
<1>3. Sound(line, file.request, from)
  BY <1>2 DEF Sound
<1> QED
  BY <1>1, <1>3

LEMMA ShortenedNotes == \A n \in Notes : Shortened(n) \subseteq Notes
  BY DEF Notes, Shortened

\* A file whose writing failed has the first rows, or nothing that can be read.
LEMMA CutStarted ==
  ASSUME NEW whole, Started(whole.rows, whole.request),
         whole = [header |-> TRUE, request |-> whole.request, rows |-> whole.rows],
         NEW file \in Beginnings(whole)
  PROVE  file = NoFile \/ (Started(file.rows, file.request) /\ file.request = whole.request)
<1> DEFINE old == whole.rows
<1>1. old \in Seq(RowSet) /\ Len(old) \in Nat /\ \A k \in 1 .. Len(old) : old[k] \in RowSet
  BY LenProperties, ElementOfSeq DEF Started
<1>2. CASE file = NoFile
  BY <1>2
<1>3. CASE file = [whole EXCEPT !.rows = <<>>]
<2>1. file.rows = <<>> /\ file.request = whole.request
  BY <1>3
<2> DEFINE none == <<>>
<2>2. none \in Seq(RowSet) /\ Len(none) = 0
  BY EmptySeq
<2> HIDE DEF none
<2>3. Len(none) <= Len(old) /\ \A k \in 1 .. Len(none) : Alike(none[k], old[k])
  BY <1>1, <2>2
<2>4. Started(none, whole.request)
  BY <2>2, <2>3, BeginningStarted
<2>5. Started(<<>>, whole.request)
  BY <2>4 DEF none
<2> QED
  BY <2>1, <2>5
<1>4. ASSUME NEW n \in 1 .. Len(old), NEW note \in Shortened(old[n].note),
             file = [whole EXCEPT !.rows =
                      Append(SubSeq(@, 1, n - 1), [@[n] EXCEPT !.note = note])]
      PROVE  Started(file.rows, file.request) /\ file.request = whole.request
<2> DEFINE row == [old[n] EXCEPT !.note = note]
           few == SubSeq(old, 1, n - 1)
<2>1. file.rows = Append(few, row) /\ file.request = whole.request
  BY <1>4
<2>2. row \in RowSet /\ Alike(row, old[n])
<3>1. note \in Notes
  BY <1>1, <1>4, ShortenedNotes DEF RowSet
<3> QED
  BY <1>1, <3>1, Renoted
<2>3. few \in Seq(RowSet) /\ Len(few) = n - 1 /\ \A k \in 1 .. n - 1 : few[k] = old[k]
<3>1. \A k \in 1 .. n - 1 : old[k] \in RowSet
  BY <1>1
<3> QED
  BY <1>1, <3>1, SubSeqProperties
<2> HIDE DEF row, few, old
<2> DEFINE rows == Append(few, row)
<2>4. /\ rows \in Seq(RowSet) /\ Len(rows) = n
      /\ \A k \in 1 .. n - 1 : rows[k] = old[k]
      /\ rows[n] = row
  BY <2>2, <2>3, AppendProperties
<2> HIDE DEF rows
<2>5. \A k \in 1 .. Len(rows) : Alike(rows[k], old[k])
  BY <2>2, <2>4 DEF Alike
<2>6. Started(rows, whole.request)
  BY <1>1, <1>4, <2>4, <2>5, BeginningStarted DEF old
<2> QED
  BY <2>1, <2>6 DEF rows
<1> QED
  BY <1>2, <1>3, <1>4 DEF Beginnings

LEMMA KeptInit == Init => Kept
  BY DEF Init, Kept, Sound, NoSession

LEMMA ExportKeeps == ASSUME TypeInv, Kept, ExportClick PROVE Kept'
<1> DEFINE whole == CreateCsv(session)
<1>1. /\ whole.rows = session.rows /\ whole.request = session.request
      /\ whole = [header |-> TRUE, request |-> whole.request, rows |-> whole.rows]
  BY DEF CreateCsv
<1>2. /\ UNCHANGED session /\ origin \in [session : Origins, csv : Origins]
      /\ origin.session # "none"
  BY DEF ExportClick, TypeInv, UiTypes, Kept
<1>3. CASE UNCHANGED <<csv, origin>>
  BY <1>2, <1>3 DEF Kept
<1>4. CASE csv' = whole /\ origin' = [origin EXCEPT !.csv = origin.session]
<2> HIDE DEF whole
<2>1. origin'.session = origin.session /\ origin'.csv = origin.session
  BY <1>2, <1>4
<2> QED
  BY <1>1, <1>2, <1>4, <2>1 DEF Kept
<1>5. CASE /\ csv' \in Beginnings(whole)
           /\ origin' = [origin EXCEPT !.csv = IF origin.session = "other" THEN "other" ELSE "cut"]
<2>1. /\ origin'.session = origin.session
      /\ origin'.csv = IF origin.session = "other" THEN "other" ELSE "cut"
  BY <1>2, <1>5
<2>2. CASE origin.session = "other"
  BY <1>2, <2>1, <2>2 DEF Kept, Sound
<2>3. CASE origin.session \in {"run", "cut"}
<3>1. Started(whole.rows, whole.request)
  BY <1>1, <2>3 DEF Kept, Sound
<3> HIDE DEF whole
<3>2. csv' = NoFile \/ Started(csv'.rows, csv'.request)
  BY <1>1, <1>5, <3>1, CutStarted
<3> QED
  BY <1>2, <2>1, <2>3, <3>2 DEF Kept, Sound
<2> QED
  BY <1>2, <2>2, <2>3 DEF Origins
<1> QED
  BY <1>3, <1>4, <1>5 DEF ExportClick

LEMMA ImportKeeps == ASSUME TypeInv, Kept, ImportClick PROVE Kept'
<1>1. UNCHANGED csv /\ origin \in [session : Origins, csv : Origins]
  BY DEF ImportClick, TypeInv, UiTypes
<1>2. CASE UNCHANGED <<session, origin>>
  BY <1>1, <1>2 DEF Kept
<1>3. ASSUME NEW file \in {csv} \cup OtherFiles, Readable(file), session' = ParseCsv(file),
             origin' = [origin EXCEPT !.session = IF file = csv THEN origin.csv ELSE "other"]
      PROVE  Kept'
<2> DEFINE from == IF file = csv THEN origin.csv ELSE "other"
<2>1. origin'.session = from /\ origin'.csv = origin.csv
  BY <1>1, <1>3
<2>2. file # NoFile
  BY <1>3 DEF Readable, NoFile
<2>3. from # "none" /\ Sound(file.rows, file.request, from)
  BY <2>2 DEF Kept, Sound
<2> HIDE DEF from
<2>4. /\ Sound(session'.rows, session'.request, from)
      /\ session'.summaries = Summaries(session'.rows)
  BY <1>3, <2>3, ParseKeeps
<2> QED
  BY <1>1, <2>1, <2>3, <2>4 DEF Kept
<1> QED
  BY <1>2, <1>3 DEF ImportClick

LEMMA KeptNext == ASSUME TypeInv, RowsInv, Kept, [Next]_vars PROVE Kept'
<1>1. CASE UNCHANGED <<session, csv, origin>>
  BY <1>1 DEF Kept
<1>2. CASE UNCHANGED csv /\ Resume
<2>1. CASE outcome = "completed"
<3>1. session' = Measured /\ origin' = [origin EXCEPT !.session = "run"]
  BY <1>2, <2>1 DEF Resume, KeepSession
<3>2. origin'.session = "run" /\ origin'.csv = origin.csv
  BY <3>1 DEF TypeInv, UiTypes
<3>3. /\ Sound(session'.rows, session'.request, "run")
      /\ session'.summaries = Summaries(session'.rows)
  BY <2>1, <3>1, MeasuredIsSound
<3> QED
  BY <1>2, <3>2, <3>3 DEF Kept
<2>2. CASE outcome # "completed"
  BY <1>1, <1>2, <2>2 DEF Resume, KeepSession
<2> QED
  BY <2>1, <2>2
<1>3. CASE WorkerStep
  BY <1>1, <1>3, WorkerStepFacts DEF WorkerFacts, UiVars
<1>4. CASE UiStep
  BY <1>1, <1>2, <1>4 DEF UiStep, AwaitTask, Dispatch
<1>5. CASE RunClick \/ DismissBox \/ CancelClick
  BY <1>1, <1>5 DEF RunClick, DismissBox, CancelClick
<1>6. CASE UNCHANGED vars
  BY <1>1, <1>6 DEF vars, history
<1> QED
  BY <1>3, <1>4, <1>5, <1>6, ExportKeeps, ImportKeeps DEF Next, User

LEMMA NoRowsInPlace == InPlace(<<>>) /\ \A r : Honest(<<>>, r)
<1>1. \A i \in Nat \ {0}, d \in {0, 1}, e \in 1 .. 3 : ~(Place(i, d, e) <= 0)
  BY DEF Place
<1>2. Len(<<>>) = 0
  BY EmptySeq
<1> QED
  BY <1>1, <1>2 DEF InPlace, Honest

LEMMA RowsInit == Init => RowsInv
  BY NoRowsInPlace, EmptySeq DEF Init, Idle, RowsInv

LEMMA RowsNext == ASSUME TypeInv, RowsInv, [Next]_vars PROVE RowsInv'
<1>1. CASE WorkerStep
  BY <1>1, WorkerKeepsRows
<1>2. CASE RunClick
<2>1. PICK r \in Requests :
        worker' = [at |-> "queued", request |-> r, iteration |-> 1, rows |-> <<>>]
  BY <1>2 DEF RunClick
<2>2. outcome' = "none"
  BY <1>2 DEF RunClick
<2>3. Len(<<>>) = 0 /\ 0 - (6 * (1 - 1)) = 0
  BY EmptySeq
<2>4. Within("queued", 0)
  BY DEF Within, Early
<2>5. /\ worker'.at = "queued" /\ worker'.rows = <<>> /\ worker'.iteration = 1
  BY <2>1
<2> QED
  BY <2>2, <2>3, <2>4, <2>5, NoRowsInPlace DEF RowsInv
<1>3. CASE UNCHANGED <<worker, outcome>>
  BY <1>3 DEF RowsInv
<1>4. CASE UiStep \/ DismissBox \/ CancelClick \/ ExportClick \/ ImportClick
  BY <1>3, <1>4
  DEF UiStep, AwaitTask, Dispatch, DismissBox, CancelClick, ExportClick, ImportClick, WorkerVars
<1>5. CASE UNCHANGED vars
  BY <1>3, <1>5 DEF vars
<1> QED
  BY <1>1, <1>2, <1>4, <1>5 DEF Next, User

LEMMA RowsInvariant == Spec => [](RowsInv /\ Kept)
<1>1. Init => RowsInv /\ Kept
  BY RowsInit, KeptInit
<1>2. TypeInv /\ (RowsInv /\ Kept) /\ [Next]_vars => (RowsInv /\ Kept)'
  BY RowsNext, KeptNext
<1>3. Spec => []TypeInv
  BY ControlInvariant, PTL
<1> QED
  BY <1>1, <1>2, <1>3, PTL DEF Spec

LEMMA AllHaveEveryCell ==
  ASSUME NEW s, Started(s.rows, s.request), Len(s.rows) = 6 * s.request.iterations
  PROVE  EveryCellOnce(s)
<1> DEFINE n == s.request.iterations
           rows == s.rows
<1>1. n \in Nat /\ Len(rows) = 6 * n /\ InPlace(rows)
  BY RequestFacts DEF Started
<1> HIDE DEF n, rows
<1>2. ASSUME NEW i \in 1 .. n, NEW x \in EngineSet, NEW y \in Directions
      PROVE  \E k \in 1 .. Len(rows) :
               rows[k].iteration = i /\ rows[k].engine = x /\ rows[k].direction = y
<2>1. PICK e \in 1 .. 3 : Engines[e] = x
  BY EngineFacts DEF EngineSet
<2>2. PICK d \in {0, 1} : Direction(d) = y
  BY DEF Direction, Directions
<2>3. i \in Nat \ {0} /\ Place(i, d, e) \in 1 .. Len(rows)
  BY <1>1 DEF Place
<2>4. Place(i, d, e) <= Len(rows)
  BY <1>1, <2>3
<2>5. /\ rows[Place(i, d, e)].iteration = i /\ rows[Place(i, d, e)].direction = y
      /\ rows[Place(i, d, e)].engine = x
  BY <1>1, <2>1, <2>2, <2>3, <2>4 DEF InPlace
<2> QED
  BY <2>3, <2>5
<1> QED
  BY <1>1, <1>2 DEF EveryCellOnce, n, rows

\* Which cell the k-th row is.
LEMMA PlaceOf ==
  ASSUME NEW k \in Nat \ {0}
  PROVE  LET i == ((k - 1) \div 6) + 1
             d == IF (k - 1) % 6 < 3 THEN 0 ELSE 1
             e == ((k - 1) % 3) + 1
         IN  i \in Nat \ {0} /\ d \in {0, 1} /\ e \in 1 .. 3 /\ Place(i, d, e) = k
<1> DEFINE q == (k - 1) \div 6
           x == (k - 1) % 6
           y == (k - 1) % 3
<1>1. q \in Nat /\ x \in 0 .. 5 /\ k - 1 = (6 * q) + x
  OBVIOUS
<1>2. y = IF x < 3 THEN x ELSE x - 3
  BY <1>1
<1> HIDE DEF q, x, y
<1>3. /\ q + 1 \in Nat \ {0} /\ y + 1 \in 1 .. 3
      /\ Place(q + 1, IF x < 3 THEN 0 ELSE 1, y + 1) = k
  BY <1>1, <1>2 DEF Place
<1> QED
  BY <1>3 DEF q, x, y

LEMMA StartedAreFirst ==
  ASSUME NEW s, Started(s.rows, s.request)
  PROVE  FirstCells(s) /\ RowsHonest(s)
<1> DEFINE rows == s.rows
           r == s.request
<1>1. /\ r \in Requests /\ rows \in Seq(RowSet) /\ Len(rows) \in Nat
      /\ Len(rows) <= 6 * r.iterations /\ InPlace(rows) /\ Honest(rows, r)
      /\ Len(rows) # 0 => PayloadSize(r) >= 0
  BY LenProperties DEF Started
<1> HIDE DEF rows, r
<1>2. ASSUME NEW k \in 1 .. Len(rows)
      PROVE  /\ rows[k].iteration = ((k - 1) \div 6) + 1
             /\ rows[k].direction = IF (k - 1) % 6 < 3 THEN "Encrypt" ELSE "Decrypt"
             /\ rows[k].engine = Engines[((k - 1) % 3) + 1]
<2> DEFINE i == ((k - 1) \div 6) + 1
           d == IF (k - 1) % 6 < 3 THEN 0 ELSE 1
           e == ((k - 1) % 3) + 1
<2>1. k \in Nat \ {0} /\ k <= Len(rows)
  BY <1>1
<2>2. i \in Nat \ {0} /\ d \in {0, 1} /\ e \in 1 .. 3 /\ Place(i, d, e) = k
  BY <2>1, PlaceOf
<2>3. Direction(d) = IF (k - 1) % 6 < 3 THEN "Encrypt" ELSE "Decrypt"
  BY DEF Direction
<2> HIDE DEF i, d, e
<2>4. rows[k].iteration = i /\ rows[k].direction = Direction(d) /\ rows[k].engine = Engines[e]
  BY <1>1, <2>1, <2>2 DEF InPlace
<2> QED
  BY <2>3, <2>4 DEF i, e
<1>3. ASSUME NEW k \in 1 .. Len(rows), rows[k].ok
      PROVE  /\ Supported(rows[k].engine, r)
             /\ rows[k].input = IF r.size = 4096 THEN 0 ELSE r.size
<2>1. PayloadSize(r) = IF r.size = 4096 THEN 0 ELSE r.size
<3>1. PayloadSize(r) >= 0 /\ r.size \in Int /\ 1 <= r.size /\ r.size <= 4096
  BY <1>1, RequestFacts
<3> QED
  BY <3>1, WrapsToNothing DEF PayloadSize
<2> QED
  BY <1>1, <1>3, <2>1 DEF Honest
<1> QED
  BY <1>1, <1>2, <1>3 DEF FirstCells, RowsHonest, rows, r

LEMMA SomeSample ==
  ASSUME NEW rows, NEW e, NEW d, Samples(rows, e, d) > 0
  PROVE  \E k \in 1 .. Len(rows) : rows[k].engine = e /\ rows[k].direction = d /\ rows[k].ok
<1> SUFFICES ASSUME ~ \E k \in 1 .. Len(rows) :
                      rows[k].engine = e /\ rows[k].direction = d /\ rows[k].ok
             PROVE  FALSE
  OBVIOUS
<1>1. {k \in 1 .. Len(rows) : rows[k].engine = e /\ rows[k].direction = d /\ rows[k].ok} = {}
  OBVIOUS
<1>2. Samples(rows, e, d) = 0
  BY <1>1, FS_EmptySet DEF Samples
<1> QED
  BY <1>2

LEMMA SpeedupsSampled ==
  ASSUME NEW rows, NEW e \in EngineSet, NEW d \in Directions
  PROVE  Summaries(rows)[e][d].speedup
           => Samples(rows, e, d) > 0 /\ Samples(rows, "NativeCpu", d) > 0
  BY DEF Summaries

LEMMA SummariesGrounded ==
  ASSUME NEW s, s.summaries = Summaries(s.rows) PROVE SpeedupsGrounded(s)
  BY SpeedupsSampled, SomeSample DEF SpeedupsGrounded

LEMMA SoundAccounted ==
  ASSUME NEW s, NEW from, Sound(s.rows, s.request, from), s.summaries = Summaries(s.rows)
  PROVE  Accounted(s, from)
<1>1. SpeedupsGrounded(s)
  BY SummariesGrounded
<1> QED
  BY <1>1, StartedAreFirst, AllHaveEveryCell DEF Accounted, Sound

\* A session that is shown or would be imported has every measurement once, of the data
\* asked for, and compares only what was measured, as long as no file on its way was cut
\* short or comes from elsewhere; a file cut short gives the first measurements: for every
\* number of iterations, every file and whatever fails.
THEOREM SessionsAreWhole == Spec => []SessionWhole
<1>1. Kept => SessionWhole
<2> SUFFICES ASSUME Kept PROVE SessionWhole
  OBVIOUS
<2>1. Accounted(session, origin.session)
  BY SoundAccounted DEF Kept
<2>2. ASSUME Readable(csv) PROVE Accounted(ParseCsv(csv), origin.csv)
<3>1. Sound(csv.rows, csv.request, origin.csv)
  BY <2>2 DEF Kept, Readable, NoFile
<3> QED
  BY <3>1, ParseKeeps, SoundAccounted
<2> QED
  BY <2>1, <2>2 DEF SessionWhole
<1> QED
  BY <1>1, RowsInvariant, PTL
=============================================================================
