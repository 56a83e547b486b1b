----------------------------- MODULE OclContext -----------------------------
(***************************************************************************)
(* The OpenCL library's process-wide context (g_ctx, opencl_aes_ctr.c) and *)
(* the entry points that share it.  The context is built lazily by a       *)
(* ladder of OpenCL calls, any of which may fail; it caches the expanded   *)
(* key that is on the device and the buffers of the previous call.  Every  *)
(* entry point is a sequence of steps over it, one action per step, each   *)
(* with its failure branch.                                                *)
(*                                                                         *)
(* A step is one OpenCL call, or the run of calls that releases and        *)
(* creates the same fields: Release, Recreate and what is built on them.   *)
(* Such a run is one step by assumption.  The code tests, releases and     *)
(* clears a handle in three statements, and its failure branches release   *)
(* without a test, so calls that overlap could both release an object      *)
(* inside a run.  Handles are therefore claimed for serialised calls only; *)
(* between the steps, overlapping calls do interleave.                     *)
(*                                                                         *)
(* External, modelled from how the code uses it: the OpenCL runtime, which *)
(* counts the live objects behind each handle and holds the buffers.       *)
(***************************************************************************)
EXTENDS AesReference, KernelLoader, FiniteSets

CONSTANTS
  Callers,        \* threads that call the library
  Keys,           \* expanded keys of a supported length
  BadKey,         \* a key of another length
  Requests,       \* argument lists a caller may pass
  None,
  Untouched,
  Serialized,     \* callers wait for each other's calls (nothing in the code makes them)
  TornKeyWrites,  \* a failed write of the round keys may have changed the device's copy
  SmallChunk,     \* gcm_choose_chunk_blocks, its four tiers scaled to two
  LargeChunk,
  LargeFrom

ASSUME ChunkAssumption ==
  /\ SmallChunk \in Nat \ {0}
  /\ LargeChunk \in Nat \ {0}
  /\ LargeFrom \in Nat

ASSUME KeyAssumption == BadKey \notin Keys /\ None \notin Keys /\ Undefined \notin Keys

Ops == {"ctr_xor", "ctr_xor_round_keys", "gcm_ctr_xor_round_keys", "gcm_encrypt", "gcm_decrypt"}

\* valid is FALSE when a pointer the entry point needs is NULL.
ASSUME RequestAssumption ==
  /\ None \notin Requests
  /\ \A r \in Requests :
       /\ r.op \in Ops
       /\ r.key \in Keys \cup {BadKey}
       /\ r.text.len \in Nat /\ r.aad.len \in Nat
       /\ r.valid \in BOOLEAN

ASSUME TextsAssumption ==
  \A r \in Requests : r.text = [id |-> r.text.id, len |-> r.text.len, ks |-> r.text.ks]

VARIABLES
  inited, cached_key, last_error,       \* g_ctx
  io_capacity, ghash_blocks_capacity, ghash_chunks_capacity,
  held,           \* the fields of g_ctx that hold a handle
  live,           \* live[s]: objects created for field s and not released
  size,           \* size[b]: what buffer b was created with
  rk_dev,         \* the round keys on the device
  in_dev, out_dev, blocks_dev,          \* the buffers' contents
  chosen,         \* g_ctx names a platform and a device
  loader,         \* loader[c]: the kernel loader's call for c
  pc,             \* pc[c]: the step c's call is at
  goal, stage,    \* where lazy initialisation leads, and how far it is
  verified,       \* gcm_decrypt: the tag has matched
  req, result     \* the call's arguments and what its caller sees

keyVars    == <<cached_key, rk_dev>>
handleVars == <<inited, chosen, held, live>>
bufferVars == <<io_capacity, ghash_blocks_capacity, ghash_chunks_capacity, size>>
dataVars   == <<in_dev, out_dev, blocks_dev>>
contextVars == <<handleVars, bufferVars, dataVars, keyVars>>
callVars   == <<pc, goal, stage, verified, req, result>>
vars       == <<contextVars, last_error, callVars, loader>>

-----------------------------------------------------------------------------
(* The fields of g_ctx that hold OpenCL objects *)

IoBufs    == {"in_buf", "out_buf"}
GhashBufs == {"ghash_blocks_buf", "ghash_chunks_buf", "ghash_final_buf"}
Sized     == IoBufs \cup {"ghash_blocks_buf", "ghash_chunks_buf"}

\* What stage k of ocl_init_if_needed creates.
Makes == <<{"context"}, {"queue"}, {"round_keys_buf"}, {"program", "kernel"},
           {"kernel_gcm_ctr"}, {"ghash_program", "ghash_kernel"}, {"ghash_reduce_kernel"}>>

Stages == 1 .. 7
Core   == UNION {Makes[k] : k \in Stages}
Slots  == Core \cup IoBufs \cup GhashBufs

\* Mutant: stage 6 forgets the kernel that stage 5 created.
UndoesNotKernelGcm(k) ==
  UNION {Makes[j] : j \in 1 .. k - 1} \ (IF k = 6 THEN {"kernel_gcm_ctr"} ELSE {})

\* What the failure branch of stage k releases, as each branch lists it.
Undoes(k) ==
  CASE k = 1 -> {}
    [] k = 2 -> {"context"}
    [] k = 3 -> {"queue", "context"}
    [] k = 4 -> {"round_keys_buf", "queue", "context"}
    [] k = 5 -> {"kernel", "program", "round_keys_buf", "queue", "context"}
    [] k = 6 -> {"kernel_gcm_ctr", "kernel", "program", "round_keys_buf", "queue", "context"}
    [] k = 7 -> {"ghash_kernel", "ghash_program", "kernel_gcm_ctr", "kernel", "program",
                 "round_keys_buf", "queue", "context"}

\* Mutant: no test for NULL.
AfterReleaseUnchecked(S) == [s \in Slots |-> IF s \in S THEN live[s] - 1 ELSE live[s]]

\* clRelease... on every non-NULL field of S; clCreate... for every field of S.
AfterRelease(S) == [s \in Slots |-> IF s \in S \cap held THEN live[s] - 1 ELSE live[s]]

AfterCreate(counts, S) == [s \in Slots |-> IF s \in S THEN counts[s] + 1 ELSE counts[s]]

Release(S) ==
  /\ held' = held \ S
  /\ live' = AfterRelease(S)

\* Mutant: the old buffers are overwritten, not released.
RecreateOver(S) ==
  /\ held' = held \cup S
  /\ live' = AfterCreate(live, S)

\* Release the fields of S and create them anew: on failure all of S is released again.
Recreate(S) ==
  /\ held' = held \cup S
  /\ live' = AfterCreate(AfterRelease(S), S)

\* OpenCL refuses a call that is given NULL for a handle it needs.
Given(S) == S \subseteq held

\* What the creation of stage k's objects is given.
Builds(k) == CASE k = 1 -> {} [] k = 7 -> {"ghash_program"} [] OTHER -> {"context"}

-----------------------------------------------------------------------------
(* Sizes *)

NumBlocks(r)   == BlockCount(r.aad.len) + BlockCount(r.text.len) + 1
ChunkBlocks(n) == IF n >= LargeFrom THEN LargeChunk ELSE SmallChunk
ChunkCount(n)  == (n + ChunkBlocks(n) - 1) \div ChunkBlocks(n)

\* Mutant: a buffer of exactly the length is made anew.
IoBuffersFitStrictly(len) == io_capacity > len /\ IoBufs \subseteq held

IoBuffersFit(len) == io_capacity >= len /\ IoBufs \subseteq held

\* Mutant: only the blocks are compared, as if a longer message had more chunks.
GhashBuffersFitBlocks(n) == ghash_blocks_capacity >= n /\ GhashBufs \subseteq held

GhashBuffersFit(n) ==
  /\ ghash_blocks_capacity >= n
  /\ ghash_chunks_capacity >= ChunkCount(n)
  /\ GhashBufs \subseteq held

\* Mutant: some key is cached.
KeyCachedAny(key) == cached_key # None

KeyCached(key) == cached_key = key

-----------------------------------------------------------------------------
(* The course of a call *)

IsGcm(r)  == r.op \in {"gcm_encrypt", "gcm_decrypt"}

\* These entry points expand the key themselves, the others are given round keys.
ExpandsKey(r) == IsGcm(r) \/ r.op = "ctr_xor"

GoTo(c, step) ==
  /\ pc' = [pc EXCEPT ![c] = step]
  /\ UNCHANGED <<goal, stage, verified, req, result>>

\* Call ocl_init_if_needed and go on at step g.
InitThen(c, g) ==
  /\ pc' = [pc EXCEPT ![c] = "init"]
  /\ goal' = [goal EXCEPT ![c] = g]
  /\ UNCHANGED <<stage, verified, req>>

Return(c, res) ==
  /\ pc' = [pc EXCEPT ![c] = "idle"]
  /\ goal' = [goal EXCEPT ![c] = "none"]
  /\ stage' = [stage EXCEPT ![c] = 0]
  /\ verified' = [verified EXCEPT ![c] = FALSE]
  /\ req' = [req EXCEPT ![c] = None]
  /\ result' = [result EXCEPT ![c] = res]

ReturnStatus(c, status) == Return(c, [result[c] EXCEPT !.status = status])

\* Mutant: the message is forgotten.
FailSilently(c, status) ==
  /\ UNCHANGED last_error
  /\ ReturnStatus(c, status)

\* ocl_set_error or format_cl_error, then return.
Fail(c, status) ==
  /\ last_error' = "own"
  /\ ReturnStatus(c, status)

NoResult == [status |-> "none", out |-> Untouched, tag |-> None]

\* A message that is there already was left by an earlier call.
Start(c) ==
  /\ pc[c] = "idle"
  /\ Serialized => \A d \in Callers : pc[d] = "idle"
  /\ \E r \in Requests : req' = [req EXCEPT ![c] = r]
  /\ pc' = [pc EXCEPT ![c] = "enter"]
  /\ result' = [result EXCEPT ![c] = NoResult]
  /\ last_error' = IF last_error = "none" THEN "none" ELSE "stale"
  /\ UNCHANGED <<goal, stage, verified, contextVars>>

\* Argument checks, the empty text, the key schedule: in each entry point's order.
Rejects(r)    == ~r.valid
NothingToDo(r) == ~IsGcm(r) /\ r.text.len = 0

Enter(c) ==
  LET r == req[c] IN
  /\ pc[c] = "enter"
  /\ \/ /\ Rejects(r)
        /\ Fail(c, "INVALID_ARG")
     \/ /\ ~Rejects(r) /\ NothingToDo(r)
        /\ ReturnStatus(c, "OK")
        /\ UNCHANGED last_error
     \/ /\ ~Rejects(r) /\ ~NothingToDo(r) /\ ExpandsKey(r) /\ r.key = BadKey
        /\ Fail(c, "UNSUPPORTED")
     \/ /\ ~Rejects(r) /\ ~NothingToDo(r) /\ ~(ExpandsKey(r) /\ r.key = BadKey)
        /\ InitThen(c, IF r.text.len = 0 THEN "ghash_io" ELSE "io")
        /\ UNCHANGED <<last_error, result>>
  /\ UNCHANGED contextVars

-----------------------------------------------------------------------------
(* ocl_init_if_needed and crypto_ocl_shutdown *)

NoBlocks == [i \in {} |-> Undefined]

\* Mutant: the cached key outlives the buffer it describes.
MemsetButCache ==
  /\ held' = {}
  /\ io_capacity' = 0 /\ ghash_blocks_capacity' = 0 /\ ghash_chunks_capacity' = 0
  /\ UNCHANGED cached_key

\* memset(&g_ctx, 0, sizeof g_ctx), but for last_error and inited: fields become
\* NULL whether or not the objects behind them were released.
Memset ==
  /\ held' = {}
  /\ io_capacity' = 0 /\ ghash_blocks_capacity' = 0 /\ ghash_chunks_capacity' = 0
  /\ cached_key' = None

InitReady(c) ==
  /\ pc[c] = "init" /\ inited
  /\ GoTo(c, goal[c])
  /\ UNCHANGED <<contextVars, last_error>>

\* ocl_choose_platform_device finds the platform and device the environment names, or the
\* first ones, unless the driver has none; then it leaves a message.
Choices == {"found", "none"}

\* Clear the context and choose a platform and a device.
InitBegin(c) ==
  /\ pc[c] = "init" /\ ~inited
  /\ Memset
  /\ UNCHANGED <<inited, live, size, dataVars, rk_dev>>
  /\ \E choice \in Choices :
       \/ /\ choice = "found" /\ chosen' = TRUE
          /\ pc' = [pc EXCEPT ![c] = "build"]
          /\ stage' = [stage EXCEPT ![c] = 1]
          /\ last_error' = "none"
          /\ UNCHANGED <<goal, verified, req, result>>
       \/ /\ choice = "none" /\ chosen' = FALSE
          /\ Fail(c, "UNSUPPORTED")

\* Stages 4 and 6 have the kernel loader make their program and kernel.
Loads(k) == k \in {4, 6}

LoadStep(c) ==
  /\ pc[c] = "build" /\ Loads(stage[c]) /\ ~Ended(loader[c])
  /\ \E l \in After(loader[c]) : loader' = [loader EXCEPT ![c] = l]
  /\ UNCHANGED <<contextVars, last_error, callVars>>

\* One rung of the ladder: create the stage's objects, or undo the stages before it.
BuildStage(c) ==
  LET k == stage[c] IN
  /\ pc[c] = "build"
  /\ Loads(k) => Ended(loader[c])
  /\ loader' = [loader EXCEPT ![c] = TakenOver(@)]
  /\ \/ /\ Loads(k) => loader[c].at = "done"
        /\ Given(Builds(k))
        /\ held' = held \cup Makes[k]
        /\ live' = AfterCreate(live, Makes[k])
        /\ rk_dev' = IF "round_keys_buf" \in Makes[k] THEN Undefined ELSE rk_dev
        /\ IF k = 7
             THEN /\ inited' = TRUE
                  /\ pc' = [pc EXCEPT ![c] = goal[c]]
                  /\ stage' = [stage EXCEPT ![c] = 0]
             ELSE /\ stage' = [stage EXCEPT ![c] = k + 1]
                  /\ UNCHANGED <<inited, pc>>
        /\ UNCHANGED <<last_error, goal, verified, req, result>>
     \/ /\ Loads(k) => loader[c].at = "failed"
        /\ Release(Undoes(k))
        /\ Fail(c, "INTERNAL_ERROR")
        /\ UNCHANGED <<inited, rk_dev>>
  /\ UNCHANGED <<chosen, bufferVars, dataVars, cached_key>>

\* Without a context there is nothing to shut down; the buffers go with their contents.
\* Nobody shuts the library down while a call is under way.
Shutdown(c) ==
  /\ inited /\ \A d \in Callers : pc[d] = "idle"
  /\ live' = AfterRelease(Slots)
  /\ Memset
  /\ size' = [b \in Sized |-> 0] /\ rk_dev' = Undefined
  /\ in_dev' = Undefined /\ out_dev' = Undefined /\ blocks_dev' = NoBlocks
  /\ inited' = FALSE /\ chosen' = FALSE
  /\ last_error' = "none"
  /\ UNCHANGED callVars

\* crypto_ocl_platform_name and its like: without a chosen device they choose one for
\* the occasion, and a choice that fails leaves a message, though they return no status.
Query(c) ==
  /\ pc[c] = "idle"
  /\ Serialized => \A d \in Callers : pc[d] = "idle"
  /\ \E choice \in Choices :
       last_error' = IF ~chosen /\ choice = "none" THEN "stale" ELSE last_error
  /\ UNCHANGED <<contextVars, callVars>>

-----------------------------------------------------------------------------
(* The counter-mode stage: buffers, round keys, input, kernel, output *)

\* A decryption has put its input on the device before it verifies the tag.
AfterIo(c) ==
  IF req[c].op = "gcm_decrypt" /\ ~verified[c] THEN "write" ELSE "upload"

EnsureIo(c) ==
  LET len == req[c].text.len IN
  /\ pc[c] = "io"
  /\ \/ /\ IoBuffersFit(len)
        /\ GoTo(c, AfterIo(c))
        /\ UNCHANGED <<contextVars, last_error>>
     \/ /\ ~IoBuffersFit(len)
        /\ \/ /\ Given({"context"}) /\ Recreate(IoBufs)
              /\ io_capacity' = len
              /\ size' = [b \in Sized |-> IF b \in IoBufs THEN len ELSE size[b]]
              /\ GoTo(c, AfterIo(c))
              /\ UNCHANGED last_error
           \/ /\ Release(IoBufs)
              /\ io_capacity' = 0
              /\ UNCHANGED size
              /\ Fail(c, "INTERNAL_ERROR")
        /\ in_dev' = Undefined /\ out_dev' = Undefined
        /\ UNCHANGED <<inited, chosen, ghash_blocks_capacity, ghash_chunks_capacity, blocks_dev, keyVars>>

UploadKey(c) ==
  LET key == req[c].key
      next == IF req[c].op = "gcm_decrypt" THEN "launch" ELSE "write"
  IN
  /\ pc[c] = "upload"
  /\ \/ /\ key = BadKey
        /\ Fail(c, "UNSUPPORTED")
        /\ UNCHANGED keyVars
     \/ /\ key # BadKey /\ KeyCached(key)
        /\ GoTo(c, next)
        /\ UNCHANGED <<keyVars, last_error>>
     \/ /\ key # BadKey /\ ~KeyCached(key) /\ Given({"queue", "round_keys_buf"})
        /\ rk_dev' = key /\ cached_key' = key
        /\ GoTo(c, next)
        /\ UNCHANGED last_error
     \/ /\ key # BadKey /\ ~KeyCached(key)
        /\ rk_dev' \in {rk_dev} \cup (IF TornKeyWrites THEN {Undefined} ELSE {})
        /\ UNCHANGED cached_key
        /\ Fail(c, "INTERNAL_ERROR")
  /\ UNCHANGED <<handleVars, bufferVars, dataVars>>

\* A failed write leaves the buffer as it was, or with anything in it.
WriteInput(c) ==
  /\ pc[c] = "write"
  /\ \/ /\ Given({"queue", "in_buf"}) /\ size["in_buf"] >= req[c].text.len
        /\ in_dev' = req[c].text
        /\ IF req[c].op = "gcm_decrypt"
             THEN InitThen(c, "ghash_io") /\ UNCHANGED result
             ELSE GoTo(c, "launch")
        /\ UNCHANGED last_error
     \/ /\ in_dev' \in {in_dev, Undefined}
        /\ Fail(c, "INTERNAL_ERROR")
  /\ UNCHANGED <<handleVars, bufferVars, keyVars, out_dev, blocks_dev>>

\* The first len bytes of a buffer, as one text; Undefined when they are not one.
DeviceText(dev, len) ==
  IF dev = Undefined THEN Undefined ELSE IF dev.len = len THEN dev ELSE Undefined

Mode(r) == IF r.op \in {"ctr_xor", "ctr_xor_round_keys"} THEN "ctr" ELSE "gcm"

\* What the kernel computes from what is on the device.
KernelOutput(r) ==
  LET in    == DeviceText(in_dev, r.text.len)
      first == IF IsGcm(r) THEN 1 ELSE r.offset
  IN  IF in = Undefined \/ rk_dev = Undefined
        THEN Undefined ELSE Xor(in, Keystream(rk_dev, r.iv, Mode(r), first))

\* The handles a launch is given: the queue, the kernel and its buffers.
LaunchUses(r) ==
  {"queue", "round_keys_buf", IF Mode(r) = "ctr" THEN "kernel" ELSE "kernel_gcm_ctr"} \cup IoBufs

Launch(c) ==
  /\ pc[c] = "launch"
  /\ \/ /\ Given(LaunchUses(req[c]))
        /\ out_dev' = KernelOutput(req[c])
        /\ GoTo(c, "read")
        /\ UNCHANGED last_error
     \/ /\ Fail(c, "INTERNAL_ERROR")
        /\ UNCHANGED out_dev
  /\ UNCHANGED <<handleVars, bufferVars, keyVars, in_dev, blocks_dev>>

\* A failed read may have written part of the caller's buffer.
ReadOutput(c) ==
  /\ pc[c] = "read"
  /\ \/ LET res == [result[c] EXCEPT !.out = DeviceText(out_dev, req[c].text.len)] IN
        /\ Given({"queue", "out_buf"})
        /\ \/ /\ req[c].op = "gcm_encrypt"
              /\ InitThen(c, "ghash_io")
              /\ result' = [result EXCEPT ![c] = res]
           \/ /\ req[c].op # "gcm_encrypt"
              /\ Return(c, [res EXCEPT !.status = "OK"])
        /\ UNCHANGED last_error
     \/ \E out \in {Untouched, Undefined} :
        /\ Return(c, [status |-> "INTERNAL_ERROR", out |-> out, tag |-> result[c].tag])
        /\ last_error' = "own"
  /\ UNCHANGED contextVars

-----------------------------------------------------------------------------
(* gcm_ghash_opencl: gather the blocks on the device, hash them, use the tag *)

GhashEnsure(c) ==
  LET n == NumBlocks(req[c]) IN
  /\ pc[c] = "ghash_io"
  /\ \/ /\ GhashBuffersFit(n)
        /\ GoTo(c, "ghash_aad")
        /\ UNCHANGED <<contextVars, last_error>>
     \/ /\ ~GhashBuffersFit(n)
        /\ \/ /\ Given({"context"}) /\ Recreate(GhashBufs)
              /\ ghash_blocks_capacity' = n
              /\ ghash_chunks_capacity' = ChunkCount(n)
              /\ size' = [b \in Sized |-> CASE b = "ghash_blocks_buf" -> n
                                            [] b = "ghash_chunks_buf" -> ChunkCount(n)
                                            [] OTHER -> size[b]]
              /\ blocks_dev' = [i \in 0 .. n - 1 |-> Undefined]
              /\ GoTo(c, "ghash_aad")
              /\ UNCHANGED last_error
           \/ /\ Release(GhashBufs)
              /\ ghash_blocks_capacity' = 0 /\ ghash_chunks_capacity' = 0
              /\ blocks_dev' = NoBlocks
              /\ UNCHANGED size
              /\ Fail(c, "INTERNAL_ERROR")
        /\ UNCHANGED <<inited, chosen, io_capacity, in_dev, out_dev, keyVars>>

\* Write the blocks of f over the device's and go on, or fail with them in any state.
Overlay(f) == [i \in DOMAIN blocks_dev |-> IF i \in DOMAIN f THEN f[i] ELSE blocks_dev[i]]

Gather(c, f, next) ==
  /\ \/ /\ DOMAIN f # {} => Given({"queue", "ghash_blocks_buf"})
        /\ DOMAIN f \subseteq DOMAIN blocks_dev
        /\ blocks_dev' = Overlay(f)
        /\ GoTo(c, next)
        /\ UNCHANGED last_error
     \/ /\ DOMAIN f # {}
        /\ blocks_dev' \in {blocks_dev, Overlay([i \in DOMAIN f |-> Undefined])}
        /\ Fail(c, "INTERNAL_ERROR")
  /\ UNCHANGED <<handleVars, bufferVars, keyVars, in_dev, out_dev>>

AadBlocks(r) == [i \in 0 .. BlockCount(r.aad.len) - 1 |-> Block(r.aad, i)]

GhashAad(c) == pc[c] = "ghash_aad" /\ Gather(c, AadBlocks(req[c]), "ghash_ct")

\* Block i of a buffer's contents: beyond the last whole block there may be anything.
DeviceBlock(text, i) ==
  IF text # Undefined /\ (i + 1) * BlockBytes <= text.len THEN Block(text, i) ELSE Undefined

\* The whole blocks are copied from the device, the partial one comes padded from the
\* caller's buffer: the ciphertext just read back, or the one to decrypt.
CtBlocks(c) ==
  LET r      == req[c]
      first  == BlockCount(r.aad.len)
      device == IF r.op = "gcm_encrypt" THEN out_dev ELSE in_dev
      host   == IF r.op = "gcm_encrypt" THEN result[c].out ELSE r.text
  IN  [i \in first .. first + BlockCount(r.text.len) - 1 |->
         IF i - first < FullBlocks(r.text.len) THEN DeviceBlock(device, i - first)
                                               ELSE Block(host, i - first)]

GhashCt(c) == pc[c] = "ghash_ct" /\ Gather(c, CtBlocks(c), "ghash_len")

LenBlock(r) == [i \in {NumBlocks(r) - 1} |-> LengthBlock(r.aad.len, r.text.len)]

GhashLen(c) == pc[c] = "ghash_len" /\ Gather(c, LenBlock(req[c]), "ghash_run")

\* The tag of the first NumBlocks blocks on the device.
DeviceTag(r) ==
  GcmTag(r.key, r.iv, [i \in 0 .. NumBlocks(r) - 1 |->
                         IF i \in DOMAIN blocks_dev THEN blocks_dev[i] ELSE Undefined])

TagMatches(r) == DeviceTag(r) = r.tag

GhashUses == {"queue", "ghash_kernel", "ghash_reduce_kernel"} \cup GhashBufs

\* Both kernels, the read of their result, and what the entry point does with the tag.
GhashRun(c) ==
  LET r == req[c] IN
  /\ pc[c] = "ghash_run"
  /\ \/ /\ Given(GhashUses)
        /\ \/ /\ r.op = "gcm_encrypt"
              /\ Return(c, [status |-> "OK", out |-> result[c].out, tag |-> DeviceTag(r)])
              /\ UNCHANGED last_error
           \/ /\ r.op = "gcm_decrypt" /\ ~TagMatches(r)
              /\ ReturnStatus(c, "AUTH_FAILED")
              /\ UNCHANGED last_error
           \/ /\ r.op = "gcm_decrypt" /\ TagMatches(r) /\ r.text.len = 0
              /\ ReturnStatus(c, "OK")
              /\ UNCHANGED last_error
           \/ /\ r.op = "gcm_decrypt" /\ TagMatches(r) /\ r.text.len > 0
              /\ pc' = [pc EXCEPT ![c] = "init"]
              /\ goal' = [goal EXCEPT ![c] = "io"]
              /\ verified' = [verified EXCEPT ![c] = TRUE]
              /\ UNCHANGED <<stage, req, result, last_error>>
     \/ Fail(c, "INTERNAL_ERROR")
  /\ UNCHANGED contextVars

-----------------------------------------------------------------------------

Init ==
  /\ inited = FALSE /\ chosen = FALSE /\ cached_key = None /\ last_error = "none"
  /\ io_capacity = 0 /\ ghash_blocks_capacity = 0 /\ ghash_chunks_capacity = 0
  /\ held = {} /\ live = [s \in Slots |-> 0] /\ size = [b \in Sized |-> 0]
  /\ rk_dev = Undefined /\ in_dev = Undefined /\ out_dev = Undefined
  /\ blocks_dev = NoBlocks
  /\ loader = [c \in Callers |-> Unloaded]
  /\ pc = [c \in Callers |-> "idle"]
  /\ goal = [c \in Callers |-> "none"]
  /\ stage = [c \in Callers |-> 0]
  /\ verified = [c \in Callers |-> FALSE]
  /\ req = [c \in Callers |-> None]
  /\ result = [c \in Callers |-> NoResult]

\* Every step but those of the ladder's rungs leaves the kernel loader alone.
OtherStep(c) ==
  /\ \/ Start(c) \/ Shutdown(c) \/ Query(c) \/ Enter(c)
     \/ InitReady(c) \/ InitBegin(c)
     \/ EnsureIo(c) \/ UploadKey(c) \/ WriteInput(c) \/ Launch(c) \/ ReadOutput(c)
     \/ GhashEnsure(c) \/ GhashAad(c) \/ GhashCt(c) \/ GhashLen(c) \/ GhashRun(c)
  /\ UNCHANGED loader

Next == \E c \in Callers : LoadStep(c) \/ BuildStage(c) \/ OtherStep(c)

Spec == Init /\ [][Next]_vars

-----------------------------------------------------------------------------
(* Properties *)

Steps == {"idle", "enter", "init", "build", "io", "upload", "write", "launch", "read",
          "ghash_io", "ghash_aad", "ghash_ct", "ghash_len", "ghash_run"}

ContextTypes ==
  /\ inited \in BOOLEAN
  /\ cached_key \in Keys \cup {None}
  /\ last_error \in {"none", "stale", "own"}
  /\ io_capacity \in Nat /\ ghash_blocks_capacity \in Nat /\ ghash_chunks_capacity \in Nat
  /\ held \subseteq Slots
  /\ live \in [Slots -> Nat]
  /\ size \in [Sized -> Nat]
  /\ rk_dev \in Keys \cup {Undefined}
  /\ pc \in [Callers -> Steps]
  /\ goal \in [Callers -> {"none", "io", "ghash_io"}]
  /\ stage \in [Callers -> 0 .. 7]
  /\ verified \in [Callers -> BOOLEAN]
  /\ req \in [Callers -> Requests \cup {None}]

\* The type invariant; a count below zero is a double release, free or fclose.
TypeOK ==
  /\ ContextTypes
  /\ chosen \in BOOLEAN
  /\ loader \in [Callers -> Loaders]

FieldsOwn == \A s \in Slots : live[s] = IF s \in held THEN 1 ELSE 0

\* Every OpenCL object that exists is reachable through its field of g_ctx and no
\* field dangles: nothing leaks and nothing is released twice, on every path through
\* ocl_init_if_needed's failure branches, the reallocations and crypto_ocl_shutdown.
\* The kernel loader's file, text, program and log are gone, or its caller's, when a
\* call is not in the ladder.
HandlesOwned ==
  /\ FieldsOwn
  /\ \A c \in Callers : pc[c] # "build" => loader[c] = Unloaded

\* Between calls the context is complete or empty: a failed initialisation leaves
\* nothing for the next call's memset to lose, and an initialised context has every
\* object the kernels' steps use.
InitAllOrNothing ==
  (\A c \in Callers : pc[c] = "idle") => IF inited THEN Core \subseteq held ELSE held = {}

\* The key the upload would skip is the key on the device, through failed uploads,
\* shutdowns and new contexts (ocl_upload_round_keys_if_needed).
CacheCoherent == cached_key # None => "round_keys_buf" \in held /\ rk_dev = cached_key

\* No step reads or writes past the end of a device buffer: the capacities g_ctx
\* remembers are those of the buffers it holds, and reuse checks what this call needs,
\* though a longer message may need fewer chunks than a shorter one.
InBounds ==
  \A c \in Callers :
    LET r == req[c]
        n == NumBlocks(r)
    IN
    /\ pc[c] \in {"upload", "write", "launch", "read"} =>
         /\ IoBufs \subseteq held
         /\ size["in_buf"] >= r.text.len /\ size["out_buf"] >= r.text.len
    /\ pc[c] \in {"ghash_aad", "ghash_ct", "ghash_len", "ghash_run"} =>
         /\ GhashBufs \subseteq held
         /\ size["ghash_blocks_buf"] >= n /\ size["ghash_chunks_buf"] >= ChunkCount(n)

\* gcm_decrypt runs the kernel on the input it verified: initialisation, buffer and key
\* steps between the tag check and the launch leave the ciphertext on the device.
VerifiedInputStays ==
  \A c \in Callers :
    verified[c] /\ pc[c] \in {"init", "io", "upload", "launch"} => in_dev = req[c].text

\* A call that fails leaves a message of its own for the caller to show: none that an
\* earlier call left, and none that the context's memset has erased.
FailureExplained ==
  [][\A c \in Callers :
       pc[c] # "idle" /\ pc'[c] = "idle" /\ result'[c].status \notin {"OK", "AUTH_FAILED"}
         => last_error' = "own"]_vars

\* The library keeps the promise of AesService: a call answers from its own arguments,
\* whatever earlier calls, failed or not, left in the context and on the device.
Service == INSTANCE AesService WITH
  asked  <- req,
  answer <- [c \in Callers |-> IF pc[c] = "idle" THEN result[c] ELSE NoResult]

\* Undefined, what a buffer holds that nobody has written, is none of the texts.
ASSUME UndefinedAssumption == \A r \in Requests : Undefined \notin {r.text, Service!Output(r)}

ImplementsService == Service!Spec

\* The same promise as a state predicate: a call that returned OK gave its caller the
\* bytes that call asked for.
AnswersRight == [][\A c \in Callers :
  pc[c] # "idle" /\ pc'[c] = "idle" => Service!Permitted(req[c], result'[c])]_vars
=============================================================================
