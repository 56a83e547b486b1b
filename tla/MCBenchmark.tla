---------------------------- MODULE MCBenchmark ----------------------------
(* A small instance of Benchmark: each mode, both sides of the 32-bit size, with  *)
(* and without warm-up, a padding the managed service lacks, no password, and      *)
(* a file from elsewhere.                                                          *)
EXTENDS Benchmark

Request(algorithm, padding, size, iterations, blank, warmup) ==
  [algorithm |-> algorithm, padding |-> padding, size |-> size, iterations |-> iterations,
   blank |-> blank, warmup |-> warmup]

SomeRequests ==
  {Request("Gcm", "None", 2047, 1, FALSE, FALSE),
   Request("Cbc", "Iso7816_4", 4096, 2, FALSE, FALSE),
   Request("Ctr", "Zero", 2048, 1, FALSE, TRUE),
   Request("Ctr", "Pkcs7", 1, 1, TRUE, FALSE)}

Cell(iteration, engine, direction, ok, note) ==
  [iteration |-> iteration, engine |-> engine, direction |-> direction, input |-> 64,
   ok |-> ok, note |-> note]

\* A file of another program or hand, with rows missing and out of order.
SomeFiles ==
  {[header |-> TRUE, request |-> Request("Ctr", "Pkcs7", 64, 3, FALSE, TRUE),
    rows |-> <<Cell(2, "OpenCl", "Decrypt", TRUE, "none"),
               Cell(1, "NativeCpu", "Encrypt", TRUE, "none"),
               Cell(2, "OpenCl", "Encrypt", FALSE, "lines")>>]}
=============================================================================
