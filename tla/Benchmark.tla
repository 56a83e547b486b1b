----------------------------- MODULE Benchmark -----------------------------
(***************************************************************************)
(* The benchmark tab of Form1.cs and BenchmarkService.cs: a run goes on in *)
(* a worker task, which posts progress to the UI thread and ends with a    *)
(* session, a cancellation or an exception; the UI thread awaits it, shows *)
(* the outcome and keeps the session, which it can export and import.      *)
(*                                                                         *)
(* External: the task scheduler, the cancellation token, the queue of the  *)
(* UI thread, the engines, whose calls succeed or throw, and the files of  *)
(* the disk.  The inspection of the machine that begins a run is taken to  *)
(* end: it waits for a child process, whose output it reads to the end.    *)
(***************************************************************************)
EXTENDS Integers, Sequences, FiniteSets

CONSTANTS
  Requests,   \* [algorithm, padding, size, iterations, blank, warmup]
  OtherFiles, \* what other files the user may import: [header, request, rows]
  MaxRuns,    \* bound: times the run button is pressed
  MaxFaults   \* bound: steps that fail for a reason outside the program

\* What the controls of the tab let the user ask for.
ASSUME RequestsAssumption ==
  \A r \in Requests :
    /\ r.algorithm \in {"Cbc", "Ctr", "Gcm"}
    /\ r.padding \in {"Pkcs7", "AnsiX923", "Iso7816_4", "Zero", "None"}
    /\ r.size \in Nat \ {0} /\ r.size <= 4096
    /\ r.iterations \in Nat \ {0} /\ r.iterations <= 250
    /\ r.blank \in BOOLEAN /\ r.warmup \in BOOLEAN
ASSUME BoundsAssumption == MaxRuns \in Nat /\ MaxFaults \in Nat

VARIABLES
  ui,         \* "loop", "starting" until the click handler awaits, "box" in MessageBox
  running,    \* what ToggleBenchmarkUi last enabled the controls for
  posts,      \* the UI thread's queue: progress messages and the awaited task's end
  label,      \* _benchmarkStatusLabel
  session,    \* _currentBenchmarkSession
  csv,        \* the file the last export wrote, or has left
  token,      \* the cancellation of this run is requested
  worker,     \* [at, request, iteration, rows]
  outcome,    \* how the task ended
  runs,       \* runs begun
  faults,     \* steps that failed
  before,     \* the session when this run began
  late,       \* the task had ended when the handler came to await it
  tooLate,    \* the cancellation came after the task's last look at the token
  origin      \* where the session and the file's content come from

history == <<runs, faults, before, late, tooLate, origin>>
vars == <<ui, running, posts, label, session, csv, token, worker, outcome, history>>

-----------------------------------------------------------------------------
(* Requests and rows *)

Engines    == <<"NativeCpu", "OpenCl", "ManagedAes">>
EngineSet  == {"NativeCpu", "OpenCl", "ManagedAes"}
Directions == {"Encrypt", "Decrypt"}

\* The two services' IsSupported; AesGcm is there on the platforms the program runs on.
Supported(engine, r) ==
  CASE engine = "NativeCpu"  -> TRUE
    [] engine = "OpenCl"     -> r.algorithm \in {"Ctr", "Gcm"}
    [] engine = "ManagedAes" -> \/ r.algorithm = "Gcm"
                                \/ r.algorithm = "Cbc" /\ r.padding # "Iso7816_4"

\* size * 1024 * 1024 in a 32-bit signed integer, in units of a megabyte.
ToInt32(megabytes) ==
  LET low == megabytes % 4096 IN IF low >= 2048 THEN low - 4096 ELSE low

PayloadSize(r) == ToInt32(r.size)

\* A failure's note: BuildDetailedOpenClNote may add a build log, which has lines, and one
\* of them may have commas enough to be taken for a row of a file.
Notes == {"none", "line", "lines", "wide"}
FailureNotes(engine) == IF engine = "OpenCl" THEN {"line", "lines", "wide"} ELSE {"line"}

RowSet == [iteration : Nat, engine : EngineSet, direction : Directions,
           input : Int, ok : BOOLEAN, note : Notes]

Row(engine, direction, note) ==
  [iteration |-> worker.iteration, engine |-> engine, direction |-> direction,
   input |-> PayloadSize(worker.request), ok |-> note = "none", note |-> note]

\* Samples, and whether a speed-up is shown, per engine and direction.
Samples(rows, e, d) ==
  Cardinality({k \in 1 .. Len(rows) : rows[k].engine = e /\ rows[k].direction = d /\ rows[k].ok})

\* BuildSummaries, with the baseline ApplyRelativeMetrics finds.
Summaries(rows) ==
  [e \in EngineSet |-> [d \in Directions |->
     [samples |-> Samples(rows, e, d),
      speedup |-> /\ e = "OpenCl"
                  /\ Samples(rows, e, d) > 0 /\ Samples(rows, "NativeCpu", d) > 0]]]

NoRequest == [algorithm |-> "none", padding |-> "none", size |-> 0, iterations |-> 0,
              blank |-> TRUE, warmup |-> FALSE]

NoSession == [request |-> NoRequest, rows |-> <<>>, summaries |-> Summaries(<<>>)]

-----------------------------------------------------------------------------
(* Files: BenchmarkCsvService *)

\* No file, or one without the metadata that a reader needs.
NoFile == [header |-> FALSE, request |-> NoRequest, rows |-> <<>>]

ASSUME OtherFilesAssumption ==
  \A f \in OtherFiles :
    f.header \in BOOLEAN /\ f.request # NoRequest /\ f.rows \in Seq(RowSet)

CreateCsv(s) == [header |-> TRUE, request |-> s.request, rows |-> s.rows]

\* What is left of a note whose end is missing.
Shortened(note) ==
  CASE note = "none"  -> {"none"}
    [] note = "line"  -> {"none", "line"}
    [] note = "lines" -> {"none", "line", "lines"}
    [] note = "wide"  -> Notes

\* What a write that fails leaves: a row without all of its fields is none.
Beginnings(file) ==
  {NoFile, [file EXCEPT !.rows = <<>>]} \cup
    UNION {{[file EXCEPT !.rows = Append(SubSeq(@, 1, n - 1), [@[n] EXCEPT !.note = note])] :
              note \in Shortened(file.rows[n].note)} : n \in 1 .. Len(file.rows)}

\* A line with fifteen fields that is no row makes ParseCsv throw.
Readable(file) == file.header /\ \A k \in 1 .. Len(file.rows) : file.rows[k].note # "wide"

\* CreateCsv quotes a note with several lines, ParseCsv reads line by line: the note
\* loses all lines but the first, and the others, with too few fields, are passed over.
ParseCsv(file) ==
  LET rows == [k \in 1 .. Len(file.rows) |->
                 [file.rows[k] EXCEPT !.note = IF @ = "lines" THEN "line" ELSE @]]
  IN [request |-> file.request, rows |-> rows, summaries |-> Summaries(rows)]

-----------------------------------------------------------------------------
(* The worker: BenchmarkService.Run *)

WorkerVars == <<posts, worker, outcome, faults>>
UiVars     == <<ui, running, label, session, csv, token, runs, before, late, tooLate, origin>>

At(step) == worker' = [worker EXCEPT !.at = step]

\* The task ends; a handler that awaits it is resumed through the queue.
EndWith(result) ==
  /\ outcome' = result
  /\ At("ended")
  /\ posts' = IF ui = "starting" THEN posts ELSE Append(posts, "end")

Report(message) == posts' = Append(posts, message)

Fault == faults < MaxFaults /\ faults' = faults + 1

\* Task.Run gives up a task whose token is cancelled before it starts.
StartTask ==
  /\ worker.at = "queued"
  /\ IF token
       THEN EndWith("cancelled")
       ELSE At("setup") /\ UNCHANGED <<posts, outcome>>
  /\ UNCHANGED faults /\ UNCHANGED UiVars

\* ValidateRequest passes what the controls admit; DeriveKey wants a password.
Setup ==
  /\ worker.at = "setup"
  /\ IF worker.request.blank
       THEN EndWith("failed")
       ELSE /\ Report("payload")
            /\ At(IF worker.request.warmup THEN "warmup" ELSE "check")
            /\ UNCHANGED outcome
  /\ UNCHANGED faults /\ UNCHANGED UiVars

\* At most 8 MB; TryRun swallows what the engines throw, the allocation is outside it.
ReportWarmup ==
  /\ worker.at = "warmup"
  /\ Report("warmup") /\ At("warming")
  /\ UNCHANGED <<outcome, faults>> /\ UNCHANGED UiVars

RunWarmup ==
  /\ worker.at = "warming"
  /\ \/ At("check") /\ UNCHANGED <<posts, outcome, faults>>
     \/ Fault /\ EndWith("failed")
  /\ UNCHANGED UiVars

\* Mutant: the loop goes round once more.
CheckTokenPast ==
  /\ worker.at = "check"
  /\ IF worker.iteration > worker.request.iterations + 1
       THEN EndWith("completed")
       ELSE IF token
         THEN EndWith("cancelled")
         ELSE Report("iteration") /\ At("allocate") /\ UNCHANGED outcome
  /\ UNCHANGED faults /\ UNCHANGED UiVars

\* Mutant: the token is looked at in the first iteration only.
CheckTokenOnce ==
  /\ worker.at = "check"
  /\ IF worker.iteration > worker.request.iterations
       THEN EndWith("completed")
       ELSE IF token /\ worker.iteration = 1
         THEN EndWith("cancelled")
         ELSE Report("iteration") /\ At("allocate") /\ UNCHANGED outcome
  /\ UNCHANGED faults /\ UNCHANGED UiVars

\* The head of the loop.
CheckToken ==
  /\ worker.at = "check"
  /\ IF worker.iteration > worker.request.iterations
       THEN EndWith("completed")
       ELSE IF token
         THEN EndWith("cancelled")
         ELSE Report("iteration") /\ At("allocate") /\ UNCHANGED outcome
  /\ UNCHANGED faults /\ UNCHANGED UiVars

\* A negative length throws, and so does the lack of memory.
CreateRandomPayload ==
  /\ worker.at = "allocate"
  /\ \/ PayloadSize(worker.request) < 0 /\ EndWith("failed") /\ UNCHANGED faults
     \/ /\ PayloadSize(worker.request) >= 0
        /\ At("Encrypt") /\ UNCHANGED <<posts, outcome, faults>>
     \/ /\ PayloadSize(worker.request) > 0
        /\ Fault /\ EndWith("failed")
  /\ UNCHANGED UiVars

\* The engine whose turn it is: each direction runs them in the same order.
Turn == Engines[(Len(worker.rows) % 3) + 1]

\* RunNativeCpu..., RunOpenCl... and RunManaged...: whatever happens there is a row.  An
\* engine that is given no data at all succeeds as with any other.
RunEngine(direction, next) ==
  LET turn  == Turn
      after == IF turn = "ManagedAes" THEN next ELSE worker
      Add(note) == worker' = [after EXCEPT !.rows = Append(worker.rows, Row(turn, direction, note))]
  IN
  /\ worker.at = direction
  /\ \/ Supported(turn, worker.request) /\ Add("none") /\ UNCHANGED faults
     \/ ~Supported(turn, worker.request) /\ Add("line") /\ UNCHANGED faults
     \/ /\ Supported(turn, worker.request) /\ Fault
        /\ \E note \in FailureNotes(turn) : Add(note)
  /\ UNCHANGED <<posts, outcome>> /\ UNCHANGED UiVars

NextIteration(w) ==
  LET checked == [w EXCEPT !.at = "check"] IN [checked EXCEPT !.iteration = w.iteration + 1]

RunEncrypt == RunEngine("Encrypt", [worker EXCEPT !.at = "prepare"])
RunDecrypt == RunEngine("Decrypt", NextIteration(worker))

\* Mutant: the iteration is left without its decryption rows.
PrepareOrSkip ==
  /\ worker.at = "prepare"
  /\ \/ At("Decrypt") /\ UNCHANGED faults
     \/ Fault /\ worker' = NextIteration(worker)
  /\ UNCHANGED <<posts, outcome>> /\ UNCHANGED UiVars

\* The shared input of the decryptions; without it each engine gets a failure row.
PrepareDecryptInput ==
  /\ worker.at = "prepare"
  /\ \/ At("Decrypt") /\ UNCHANGED faults
     \/ /\ Fault
        /\ worker' = [NextIteration(worker) EXCEPT !.rows =
             worker.rows \o [k \in 1 .. 3 |-> Row(Engines[k], "Decrypt", "line")]]
  /\ UNCHANGED <<posts, outcome>> /\ UNCHANGED UiVars

WorkerStep ==
  \/ StartTask \/ Setup \/ ReportWarmup \/ RunWarmup \/ CheckToken
  \/ CreateRandomPayload \/ RunEncrypt \/ PrepareDecryptInput \/ RunDecrypt

\* What Run returns.
Measured ==
  [request |-> worker.request, rows |-> worker.rows, summaries |-> Summaries(worker.rows)]

-----------------------------------------------------------------------------
(* The UI thread: Form1 *)

\* RunBenchmarkAsync until it awaits: the controls are off, the task is queued.
RunClick ==
  /\ ui = "loop" /\ ~running /\ runs < MaxRuns
  /\ \E r \in Requests :
       worker' = [at |-> "queued", request |-> r, iteration |-> 1, rows |-> <<>>]
  /\ ui' = "starting" /\ running' = TRUE
  /\ label' = "preparing"
  /\ token' = FALSE
  /\ outcome' = "none"
  /\ runs' = runs + 1
  /\ before' = session /\ late' = FALSE /\ tooLate' = FALSE
  /\ UNCHANGED <<posts, session, csv, faults, origin>>

\* _currentBenchmarkSession = session, when the task has one.
KeepSession ==
  IF outcome = "completed"
    THEN session' = Measured /\ origin' = [origin EXCEPT !.session = "run"]
    ELSE UNCHANGED <<session, origin>>

\* Mutant: a cancelled run leaves without the finally block.
ResumeNotFinally ==
  /\ KeepSession
  /\ label' = outcome
  /\ ui' = IF outcome = "failed" THEN "box" ELSE "loop"
  /\ running' = (outcome # "completed")

\* The rest of RunBenchmarkAsync, up to the message box of a failure.
Resume ==
  /\ KeepSession
  /\ label' = outcome
  /\ \/ /\ outcome # "failed"
        /\ ui' = "loop" /\ running' = FALSE
     \/ /\ outcome = "failed"
        /\ ui' = "box" /\ UNCHANGED running

\* await: a task that has ended is not waited for, what it posted is still queued.
AwaitTask ==
  /\ ui = "starting"
  /\ IF worker.at = "ended"
       THEN Resume /\ late' = TRUE
       ELSE ui' = "loop" /\ UNCHANGED <<running, label, session, late, origin>>
  /\ UNCHANGED <<WorkerVars, csv, token, runs, before, tooLate>>

\* The message loop; the message box runs one too.
Dispatch ==
  /\ ui \in {"loop", "box"} /\ posts # <<>>
  /\ posts' = Tail(posts)
  /\ IF Head(posts) = "end"
       THEN Resume
       ELSE label' = Head(posts) /\ UNCHANGED <<ui, running, session, origin>>
  /\ UNCHANGED <<worker, outcome, csv, token, runs, faults, before, late, tooLate>>

\* The box of a failed run, of a failed import, or of an exception nobody caught, which
\* the user lets the program continue from.
DismissBox ==
  /\ ui = "box"
  /\ ui' = "loop" /\ running' = FALSE
  /\ UNCHANGED <<WorkerVars, label, session, csv, token, runs, before, late, tooLate, origin>>

\* The worker is past the last look it takes at the token.
PastLastCheck ==
  \/ worker.at = "ended"
  \/ /\ worker.at \notin {"queued", "setup", "warmup", "warming"}
     /\ worker.iteration + (IF worker.at = "check" THEN 0 ELSE 1) > worker.request.iterations

CancelClick ==
  /\ ui = "loop" /\ running
  /\ token' = TRUE
  /\ tooLate' = IF token THEN tooLate ELSE PastLastCheck
  /\ UNCHANGED <<WorkerVars, ui, running, label, session, csv, runs, before, late, origin>>

\* File.WriteAllText may fail before it opens the file or at any byte of it, and nobody
\* catches what it throws.
ExportClick ==
  /\ ui = "loop" /\ ~running /\ session # NoSession
  /\ \/ /\ csv' = CreateCsv(session)
        /\ origin' = [origin EXCEPT !.csv = origin.session]
        /\ label' = "exported" /\ UNCHANGED <<ui, faults>>
     \/ /\ Fault /\ ui' = "box"
        /\ \/ UNCHANGED <<csv, origin>>
           \/ /\ csv' \in Beginnings(CreateCsv(session))
              /\ origin' = [origin EXCEPT !.csv =
                              IF origin.session = "other" THEN "other" ELSE "cut"]
        /\ UNCHANGED label
  /\ UNCHANGED <<posts, worker, outcome, running, session, token, runs, before, late, tooLate>>

\* The file of the last export or another: the session is replaced when it has been read.
ImportClick ==
  /\ ui = "loop" /\ ~running
  /\ \E file \in {csv} \cup OtherFiles :
       \/ /\ Readable(file)
          /\ session' = ParseCsv(file)
          /\ origin' = [origin EXCEPT !.session = IF file = csv THEN origin.csv ELSE "other"]
          /\ label' = "imported" /\ UNCHANGED <<ui, faults>>
       \/ /\ (~Readable(file) /\ UNCHANGED faults) \/ Fault
          /\ ui' = "box" /\ UNCHANGED <<session, origin, label>>
  /\ UNCHANGED <<posts, worker, outcome, running, csv, token, runs, before, late, tooLate>>

UiStep == AwaitTask \/ Dispatch
User   == RunClick \/ DismissBox \/ CancelClick \/ ExportClick \/ ImportClick

-----------------------------------------------------------------------------

Idle == [at |-> "ended", request |-> NoRequest, iteration |-> 1, rows |-> <<>>]

Init ==
  /\ ui = "loop" /\ running = FALSE /\ posts = <<>> /\ label = "ready"
  /\ session = NoSession /\ csv = NoFile /\ token = FALSE
  /\ worker = Idle /\ outcome = "none"
  /\ runs = 0 /\ faults = 0 /\ before = NoSession /\ late = FALSE /\ tooLate = FALSE
  /\ origin = [session |-> "none", csv |-> "none"]

Next == WorkerStep \/ UiStep \/ User

Spec == Init /\ [][Next]_vars

\* The thread pool runs a queued task and every task goes on; the UI thread takes its
\* messages.  The user need never press a button, and may leave a message box open.
Fairness == WF_vars(WorkerStep) /\ WF_vars(UiStep)

FairSpec == Spec /\ Fairness

-----------------------------------------------------------------------------
(* Properties *)

Progress == {"payload", "warmup", "iteration"}
Outcomes == {"completed", "cancelled", "failed"}

\* Of nothing, of a run, of a file whose writing failed, of a file from elsewhere.
Origins == {"none", "run", "cut", "other"}

\* The type invariant.
TypeOK ==
  /\ ui \in {"loop", "starting", "box"} /\ running \in BOOLEAN
  /\ posts \in Seq(Progress \cup {"end"})
  /\ label \in {"ready", "preparing", "exported", "imported"} \cup Progress \cup Outcomes
  /\ outcome \in {"none"} \cup Outcomes
  /\ token \in BOOLEAN /\ late \in BOOLEAN /\ tooLate \in BOOLEAN
  /\ runs \in 0 .. MaxRuns /\ faults \in 0 .. MaxFaults
  /\ origin \in [session : Origins, csv : Origins]
  /\ worker.at \in {"queued", "setup", "warmup", "warming", "check", "allocate", "Encrypt",
                     "prepare", "Decrypt", "ended"}
  /\ worker.request \in Requests \cup {NoRequest}
  /\ worker.iteration \in 1 .. worker.request.iterations + 1
  /\ worker.rows \in Seq(RowSet)

\* One row for each engine, direction and iteration, and none besides.
EveryCellOnce(s) ==
  /\ Len(s.rows) = 6 * s.request.iterations
  /\ \A i \in 1 .. s.request.iterations, e \in EngineSet, d \in Directions :
       \E k \in 1 .. Len(s.rows) :
         s.rows[k].iteration = i /\ s.rows[k].engine = e /\ s.rows[k].direction = d

\* The rows are the first of these cells, in the order in which they were measured.
FirstCells(s) ==
  /\ Len(s.rows) <= 6 * s.request.iterations
  /\ \A k \in 1 .. Len(s.rows) :
       /\ s.rows[k].iteration = ((k - 1) \div 6) + 1
       /\ s.rows[k].direction = IF (k - 1) % 6 < 3 THEN "Encrypt" ELSE "Decrypt"
       /\ s.rows[k].engine = Engines[((k - 1) % 3) + 1]

\* A successful row measured what was asked for, by an engine that can do it; 4096 MB are
\* not measured at all: the rows that succeed are of no bytes.
RowsHonest(s) ==
  \A k \in 1 .. Len(s.rows) : s.rows[k].ok =>
    /\ Supported(s.rows[k].engine, s.request)
    /\ s.rows[k].input = IF s.request.size = 4096 THEN 0 ELSE s.request.size

\* A speed-up compares two engines that both have succeeded in that direction.
SpeedupsGrounded(s) ==
  \A e \in EngineSet, d \in Directions : s.summaries[e][d].speedup =>
    \A x \in {e, "NativeCpu"} : \E k \in 1 .. Len(s.rows) :
      s.rows[k].engine = x /\ s.rows[k].direction = d /\ s.rows[k].ok

\* What may be said of a session with that origin.
Accounted(s, from) ==
  /\ SpeedupsGrounded(s)
  /\ from \in {"run", "cut"} => FirstCells(s) /\ RowsHonest(s)
  /\ from = "run" => EveryCellOnce(s)

\* The session the form shows, and the one an import of its last export would show: as
\* measured, or read back from a file that was written to its end, it is whole, whichever
\* engines, preparations and allocations failed on the way: no measurement is lost, none
\* is counted twice, none is of other data than was asked for, with the exception of
\* 4096 MB, which the product of BenchmarkService.cs:404 wraps to 0.  A file whose writing
\* failed is refused or gives the first of these measurements, without a word of the
\* others; of a file from elsewhere nothing is known, but a speed-up compares two engines
\* that it has measured.
SessionWhole ==
  /\ Accounted(session, origin.session)
  /\ Readable(csv) => Accounted(ParseCsv(csv), origin.csv)

\* When the controls come back the label tells how the run ended and the session goes
\* with it: a cancelled or failed run leaves the one of before, a cancellation that is
\* asked for before the last iteration begins is never lost, and no progress message
\* comes after the outcome, unless the task had ended before the handler awaited it.
OutcomeShown ==
  /\ ~running /\ runs > 0 /\ ~late => label \in Outcomes \cup {"exported", "imported"}
  /\ label \in Outcomes => label = outcome
  /\ label = "completed" => session = Measured /\ (token => tooLate)
  /\ label \in {"cancelled", "failed"} => session = before

\* A run that was started ends, cancelled or not, whatever fails: the form gets its
\* controls back, or has told the user of the failure and waits for him.
RunEnds == running ~> (~running \/ ui = "box")
=============================================================================
