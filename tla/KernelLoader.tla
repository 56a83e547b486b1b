---------------------------- MODULE KernelLoader ----------------------------
(***************************************************************************)
(* kl_create_kernel_from_file (kernel_loader.c) as the states of one call: *)
(* where it is, and how many of each thing it has to close, free, release  *)
(* or hand over.  Every step may fail; After gives what a step leads to.   *)
(***************************************************************************)
EXTENDS Integers

Loaders ==
  [at : {"idle", "measure", "read", "create", "build", "kernel", "done", "failed"},
   file : Nat, text : Nat, program : Nat, log : Nat]

Unloaded == [at |-> "idle", file |-> 0, text |-> 0, program |-> 0, log |-> 0]

Ended(l) == l.at \in {"done", "failed"}

At(l, step)    == [l EXCEPT !.at = step]
Takes(l, what) == [l EXCEPT ![what] = @ + 1]
Drops(l, what) == [l EXCEPT ![what] = @ - 1]

\* kl_read_text_file: fopen, then the length and the memory for it, then fread.
OpenFile(l) == {At(l, "failed"), At(Takes(l, "file"), "measure")}

Measure(l) == {At(Drops(l, "file"), "failed"), At(Takes(l, "text"), "read")}

ReadText(l) ==
  LET closed == Drops(l, "file") IN {At(Drops(closed, "text"), "failed"), At(closed, "create")}

\* kl_build_program_from_file: the text is not needed once there is a program, or none.
CreateProgram(l) ==
  LET freed == Drops(l, "text") IN {At(freed, "failed"), At(Takes(freed, "program"), "build")}

\* Mutant: the program of a failed build is forgotten.
BuildKeepsProgram(l) ==
  UNION {{At(m, "failed"), At(m, "kernel")} : m \in {l, Takes(l, "log")}}

\* A build that fails has a log too, unless there is no memory for it.
BuildProgram(l) ==
  UNION {{At(Drops(m, "program"), "failed"), At(m, "kernel")} : m \in {l, Takes(l, "log")}}

\* kl_create_kernel_from_file: the log is the caller's either way.
CreateKernel(l) == {At(Drops(l, "program"), "failed"), At(l, "done")}

After(l) ==
  CASE l.at = "idle"    -> OpenFile(l)
    [] l.at = "measure" -> Measure(l)
    [] l.at = "read"    -> ReadText(l)
    [] l.at = "create"  -> CreateProgram(l)
    [] l.at = "build"   -> BuildProgram(l)
    [] l.at = "kernel"  -> CreateKernel(l)
    [] OTHER            -> {}

\* The caller frees the log and takes the program of a call that succeeded.
TakenOver(l) ==
  LET handed == IF l.at = "done" THEN Drops(l, "program") ELSE l IN
  At([handed EXCEPT !.log = 0], "idle")
=============================================================================
