# Parallel AES: a TLA+ model of the engines and of the program around them

The repository is an AES-CTR / AES-GCM file encryptor with two engines, a CPU
library (`aeslib`) and an OpenCL library (`crypto_aes_opencl`), and a Windows
program (`AES.WinForms`) that encrypts single files and benchmarks the engines.
The modules beside this file model what is hard to test in it; TLC checks them
on small instances and TLAPS proves the most important invariants for all.

## 1. The system

### Components

| component | state it keeps | operations | what makes it correct |
|---|---|---|---|
| OpenCL context (`opencl_aes_ctr.c`, `g_ctx`) | one per process: the OpenCL objects, the expanded key that was last uploaded, two pools of device buffers with their capacities, the last error message | lazy `ocl_init_if_needed`, `crypto_ocl_shutdown`, five entry points | every object has one owner; cache and capacities describe the device; a call answers from its own arguments |
| kernels (`aes_ctr_xor.cl`, `gcm_ghash_chunk.cl`) | the device buffers | CTR over a range of blocks; GHASH of chunks, then a reduction | every block once; the same value as sequential GHASH |
| kernel loader (`kernel_loader.c`) | none between calls; within one the open file, the text, the program, the build log | file -> text -> program -> kernel | all or nothing, and nothing left behind |
| CPU library (`aes_ctr.c`, `aes_gcm.c`, `crypto_ctr_stream.c`, `crypto_gcm_stream.c`) | a stream: counter, GHASH accumulator, lengths | one-shot and streaming CTR and GCM | a stream gives what the one-shot call gives, whatever the chunks |
| CBC and padding (`cbc.c`, `crypto_padding.c`) | the previous block | padding applied and removed, file encryption by chunks | removing undoes applying; chunked equals one-shot |
| file interface (`crypto_ffi.c`, `crypto_ffi_opencl.c`) | two open files, chunk buffers | encrypt or decrypt a file, chunk by chunk | file round trip; nothing unverified reported as success |
| single-file service (`SingleFileCryptoService.cs`, `NativeCryptoFacade.cs`) | the package, two temporary files, the output | encrypt, decrypt, replace the output | a failure or a stop leaves either the old or the new output |
| benchmark service (`BenchmarkService.cs`) | the list of rows, the cancellation token | warm up, measure, summarise | only complete measurements are summarised |
| benchmark files (`BenchmarkCsvService.cs`) | the exported file | export, import | a session read back is the session, but for notes of several lines |
| user interface (`Form1.cs`) | which controls are enabled, the session shown, the queue of messages | start a file job, a benchmark, the diagnostics; cancel, export, import | jobs do not disturb each other; what is shown is how the run ended |

### How they interact

The user interface starts a file job or a benchmark on a worker thread; each
calls the native libraries through P/Invoke. The OpenCL library's state is one
process-wide variable, `static crypto_ocl_ctx_t g_ctx` (`opencl_aes_ctr.c:52`),
which every call reads and changes without a lock; the two tabs of the program
disable only their own controls (`Form1.cs:364`, `:801`). The file interface of
the OpenCL library drives the CPU library's stream with a callback that calls
the context's entry points once per chunk.

### What is hard

* Every OpenCL call may fail, at any stage of a seven-stage initialisation with
  hand-written clean-up, and the next call starts over.
* State is kept between calls for speed: the key, the buffers, a GHASH buffer
  that still holds blocks of an earlier message. Any of it may be stale.
* The chunk size of GHASH grows with the message, so capacity is not monotone.
* `gcm_decrypt` verifies the input on the device, then initialises, ensures and
  uploads again before it decrypts what it verified.
* Calls of two threads interleave.
* Files are processed by chunks, with one block of look-ahead for the padding.
* A file's last bytes may be lost in `fclose`, whose result nobody looks at.
* The output of a file job is replaced by a delete and a move.
* A benchmark runs in a task that posts its progress, and its end, to the queue
  of the UI thread, which meanwhile takes clicks; engines, preparations and
  allocations fail one by one and each failure must still give its row.

`PROJECT.json` lists these hazards line by line, with the properties that cover
them and those that none covers yet.

## 2. Modules

| module | models | state |
|---|---|---|
| `AesReference` | the values both engines compute, as symbolic terms read off `aeslib` | done |
| `AesService` | the promise every engine makes to a caller (the abstract specification) | done |
| `OclContext` | `opencl_aes_ctr.c`: `g_ctx`, its initialisation, pools, cache and entry points | done |
| `MCOclContext` | small instances of `OclContext` | done |
| `KernelLoader` | `kernel_loader.c`, one call of it; `OclContext` takes its steps | done |
| `OclContextProofs` | the invariants of the context, what a failing call leaves, what `gcm_decrypt` decrypts, and that the library keeps `AesService`'s promise, proved | done |
| `GhashChunks` | the two GHASH kernels, the powers the host computes for them, the CPU loop beside them | done |
| `MCGhashChunks` | a small instance | done |
| `NDRange` | how many work items both kernels are launched with | done |
| `Bytes`, `Counters` | blocks, keystream on bytes; the three ways of counting | done |
| `ChunkSize`, `Padding` | `parse_chunk_size`; `crypto_padding.c` | done |
| `CtrStream`, `MCCtrStream` | `crypto_ctr_stream.c` over the two CTR kernels, work item by work item | done |
| `CtrFile`, `MCCtrFile` | CTR files by chunks, next to the calls on buffers | done |
| `KernelProofs` | all properties of `GhashChunks` and `CtrStream`, proved | done |
| `BytesProofs` | lemmas about division into blocks, parts of sequences, padding and the ways of counting | done |
| `CtrFileProofs` | all properties of `CtrFile`, proved | done |
| `GcmFile`, `MCGcmFile` | GCM files by chunks with the CTR and GHASH streams, next to the one-shot calls | done |
| `GcmFileProofs` | all its properties, proved | done |
| `SingleFile`, `MCSingleFile` | `SingleFileCryptoService.cs` with the facade's statuses, a crash and other programs at every step | done |
| `SingleFileProofs` | all its properties, proved | done |
| `CbcFile`, `MCCbcFile` | CBC files by buffers and block by block, next to the calls on buffers | done |
| `CbcFileProofs` | all its properties, proved | done |
| `Benchmark`, `MCBenchmark` | `BenchmarkService.cs` as a task, the benchmark tab of `Form1.cs` that awaits it, export and import | done |
| `BenchmarkProofs` | its safety properties, proved | done |

### AesReference: texts, keystreams, tags

A text is `[id, len, ks]`: `len` bytes of the string called `id`, combined with
the keystreams in `ks`. A keystream is named by everything that generates it:
key, IV, counter mode, first block. `Xor` toggles membership of a keystream, so
decryption undoes encryption and two different keystreams never cancel. A tag
is the key, the IV and the sequence of 16-byte blocks that were hashed; partial
blocks are blocks of the text they pad. Two terms are equal exactly when the
code feeds the same inputs to the cipher or to GHASH. The number of bytes in a
block is the constant `BlockBytes` (16 in the code, 2 in the runs).

### AesService: the promise

A caller asks, and later gets an answer `[status, out, tag]` that is `Permitted`
for the arguments of that call alone: OK means the reference's bytes and tag,
AUTH_FAILED only for a tag that does not match, and for such a tag no plaintext.
Any other status is allowed at any time; when the library may fail is a matter
of the OpenCL runtime.

### OclContext: one variable for all calls

| in the model | in the code |
|---|---|
| `held` | the fields of `g_ctx` that are not NULL |
| `live[s]` | OpenCL's reference count of what was created for field `s` (a leak or a double release shows as `live[s] # 0` for an empty field, or below zero) |
| `size[b]` | the size `clCreateBuffer` was given |
| `io_capacity`, `ghash_blocks_capacity`, `ghash_chunks_capacity` | the fields of that name, in bytes, blocks and chunks |
| `cached_key`, `rk_dev` | `cached_round_keys` with its flag; what the device's buffer holds |
| `in_dev`, `out_dev`, `blocks_dev` | the contents of the buffers, `Undefined` when nobody has written them |
| `last_error` | whether the message is empty, an earlier call's, or this call's own |
| `chosen` | `g_ctx` names a platform and a device |
| `loader[c]` | the state of `kl_create_kernel_from_file`, called by `c` |
| `pc`, `goal`, `stage`, `verified` | where each thread's call is; `goal` is the step to go to when `ocl_init_if_needed` returns |
| `req`, `result` | the arguments, and what the caller sees in its buffers |

An action is one step of a call with its success and its failure branch, for
the most part one OpenCL call or one function without any: `InitBegin` and
`BuildStage` (the seven stages
`Makes[k]`, each with what its failure branch releases, `Undoes(k)`, copied
stage by stage from the source), `EnsureIo`, `UploadKey`, `WriteInput`,
`Launch`, `ReadOutput`, the four `Ghash...` steps, `GhashRun` with the use of
the tag, `Shutdown`, and `Query`, the functions that only name the device (they
choose one for the occasion when none is chosen, and their failure leaves a
message). In stages 4 and 6 the ladder calls the kernel loader, whose steps are
actions of their own (`LoadStep`). Between two steps of one call any other thread's step
may come.

`EnsureIo`, `GhashEnsure`, `Gather` (the writes of one text), `GhashRun` and
`Shutdown` are several OpenCL calls in one action, and so are the releases of a failure branch. A release tests the
field, calls OpenCL and sets the field to NULL in three steps (`:717-724`), and
the branches of the ladder release without a test (`:566-568`, `:588-595`,
`:648-658`). For calls that follow one another this grouping loses nothing. For
calls that overlap it is an assumption: two of them could release an object
twice in the code where they cannot in the model, so nothing is claimed of
releases without `Serialized`. Every OpenCL call is `Given` the handles it uses,
or fails: what a launch, a read or a write needs and the context no longer holds
gives INTERNAL_ERROR. `Shutdown` comes only when no call is on its way, as its
only caller has it (`tests/profile_opencl_aes.c:159`); the Windows program never
calls it.

The five entry points share these steps and differ in the order:

    ctr_xor, ctr_xor_round_keys, gcm_ctr_xor_round_keys:
        init, io, upload, write, launch, read
    gcm_encrypt:  the same, then init, ghash_io, aad, ct, len, run
    gcm_decrypt:  init, io, write, init, ghash_io, aad, ct, len, run,
                  then init, io, upload, launch, read

A failed write leaves in the buffer what was there or anything at all. The one
exception is the key buffer, whose failed write may change the device only when
`TornKeyWrites` is TRUE; the run `torn_key` shows what the code does then.

### KernelLoader: what one call has to give back

`kl_create_kernel_from_file` is three functions deep. The record of a call says
where it is and how many files, texts, programs and logs it has to close, free,
release or hand over. `After(l)` are the states the next step may lead to, with
its failure: `OpenFile`, `Measure`, `ReadText`, `CreateProgram`, `BuildProgram`,
`CreateKernel`. A build that fails may have a log, which is the caller's, and
has a program, which is not. `TakenOver` is what `ocl_init_if_needed` does with
the result: it frees the log and keeps the program and the kernel, or neither.

### GhashChunks: one hash, computed twice

`OclContext` takes GHASH of the blocks on the device as one value.
`GhashChunks` opens that step. `Begin` chooses the number of blocks, the chunk
size and the work-group size and rounds the NDRange (`GlobalSize` of `NDRange`,
shared with `CtrStream`); `PowStep` is a turn of
`crypto_gf128_pow`'s square-and-multiply, run once for the full chunks and once
for the last; `ChunkStep(g)` and `ChunkDone(g)` are a turn of `gcm_ghash_chunk`'s
loop in work item `g` and its return; `ReduceStep` is a turn of
`gcm_ghash_reduce`; `CpuStep` is a turn of `aes_gcm.c`'s loop over the same
blocks. Work items and the CPU loop interleave freely. A hash is the set of
its terms, `<<j, e>>` for block `j` times H to the power `e`, and addition is
symmetric difference, as in a field of characteristic 2. The exponent of a power
of H is a number, so multiplication by that power adds it to every term. The
chunk buffer starts with the hashes of an earlier message.

### Bytes, Counters, ChunkSize, Padding

In the modules about files a byte is a record: a value, and the set `ks` of
keystream bytes it is combined with. `Combine` toggles membership, so that a
byte is itself again only after it met the same keystream byte twice. A counter
block is a pair of halves. `Add128` is `u128_add_u64` with its carry, `Counted`
is `gcm_inc32` once per block as the CPU library's loop does it, and `Add32` is
the kernel's one addition to the last word. `Padding` has what each mode appends
and what it removes; a byte that is still under a keystream equals none of the
values it compares.

### CtrStream: pieces, launches, work items

`Update(n)` is a call of `crypto_ctr_stream_xor` with `n` bytes up to its first
callback: the kept keystream block is used up first (`keystream_offset` is
`BlockBytes` when none is kept). Whole blocks are one launch, `BulkDone`; a
partial block at the end is a launch of one block of zeros whose result is kept,
`TailDone`. A launch makes the work items of the rounded NDRange; `ItemStep(g)` is a
turn of the kernel's loop in item `g`, with its early return, in any order with
the other items. `cells[i]` collects everything stored for byte `i`, so a byte
stored twice or never, or with the wrong counter, shows. `Direct(n)` is a
one-shot entry point, whose last block may be partial inside the kernel. The
input bytes are left out.

### CtrFile: chunks and the last block

| in the model | in the code |
|---|---|
| `fin`, `broken` | the part of the input not yet read; `ferror` |
| `held` | `leftover` (encryption), `rem` (decryption) |
| `offset` | `block_offset` |
| `out`, `created` | the output file |
| `fault` | a call to the file system, the allocator or the engine failed |

`Turn` is a turn of the loop, with a whole chunk, the rest of the file, or less
when the read fails on the way; `EndOfFile` leaves it; `EncryptLast` and
`DecryptLast` are what follows. Each has a failing companion. Both libraries
contain these loops (`crypto_ffi.c`, `crypto_ffi_opencl.c`), line by line the
same but for the engine's call. `EncryptAlloc` and `DecryptAlloc` are the calls
on buffers, as functions. `CloseFails` is an `fclose` that cannot write what
stdio still buffers: `lost` is set, the output loses its end, and the status
stays OK, because the code ignores the result. `GcmFile` and `CbcFile` have the
same action. A failed `fwrite` may leave part of its bytes; that part is not
modelled, and nothing is claimed of the output after a failure that is
reported.

### GcmFile: two streams over one file

`ctr` and `gcm` are the two stream states. `StreamXor` is a whole call of
`crypto_ctr_stream_xor` (`CtrStream` opens it), `StreamHash` a call of
`crypto_gcm_stream_update_ciphertext`. A tag is what it is computed from: the
blocks hashed, the two lengths and the counter block that masks it. `Return` is
everything after the loop, with `remove(output_path)` unless the status is OK;
the removal may fail and nobody looks. Decryption is given encrypted files that
are intact, truncated, lengthened or altered, under the right and the wrong AAD.

### CbcFile: the chain across buffers

`EncryptTurn` is a turn of `crypto_cbc_encrypt_file`: a buffer is read behind
the carried bytes (`held`), whole blocks are chained to `prev`, the rest is
carried; a buffer that is not full ends the loop. `DecryptTurn` is a turn of
`crypto_cbc_decrypt_file`, which holds one decrypted block back (`held` is
`last_plain`, empty until `have_last`). A byte is the set of the values added to
form it, so a block chained to the wrong one has another value; the cipher is an
injection of blocks with its inverse. `EncryptBuffer` and `DecryptBuffer` are the
calls on buffers. `ReadFails` is a read that breaks off: encryption has by then
written the whole blocks of what the read delivered (`TurnBlocks`), because
`ferror` is looked at afterwards. `WriteFails` leaves a beginning of what the turn
writes (`TurnWrites`). `crypto_cbc_encrypt_alloc` asks `malloc` for no bytes when the
result is empty or the size is refused; that `malloc(0)` is not NULL, as in the
C libraries the program is built with, is taken as given.

### SingleFile: two temporary files and one output

| in the model | in the code |
|---|---|
| `files` | what the paths of the user's files contain |
| `temp` | the files at `tempPayloadPath` and `tempOutputPath` |
| `package` | the `SingleFilePackageInfo` that is written or was read |
| `outcome` | the result; "failure" is set by the exception, before `catch` and `finally` have run |
| `faults` | the steps whose failure came from outside (history) |
| `start`, `seen`, `meddled`, `made` | history, for the properties |

`Begin` is `Execute` with `ValidateRequest`. A contents is a text, a package,
what an engine made of a text under a key, or part of something; `From(file,
offset)` is the payload only when the offset is that file's own header length,
so a package replaced between the two times `DecryptFile` opens it gives what
the code would read. A native call returns a status (`Decrypted`) and its file;
`EnsureSuccess` turns other statuses than OK into the exception. What the engines
make of a file depends on its padding: None refuses a file that is no whole
number of blocks (`RefusedFile`), a payload of no bytes, as Zero and None make it
of an empty file, is refused as BAD_PADDING (`RefusedPayload`), and Zero takes
the zeros at the end of the data with its own (`Stripped`). Which files are
empty, ragged or end in zeros are the constants `Empty`, `Ragged` and
`EndsInZeros`; GCM knows no padding. `Move` is a
rename, or for another volume (`job.cross`) a copy with a moment in which part
of the output is there. `Crash` may come at any step, `Meddle` once in a job
replaces the input or the output, `Cancel` sets the token (the program passes
none, the service's interface allows one). The engines are taken to read a file
as it is at one moment; the service itself opens it with `FileShare.Read`. One
of the faults is the engine's `fclose`: the call returns OK and the temporary
file lacks its end, which the service cannot see (`Closed`).

### Benchmark: a task, its messages, and the form that awaits it

| in the model | in the code |
|---|---|
| `worker.at` | where `BenchmarkService.Run` is; "queued" before the thread pool takes the task, "ended" after |
| `worker.rows`, `worker.iteration` | `results`, the loop's counter |
| `posts` | the UI thread's queue: progress messages and the continuation of the `await` |
| `ui` | "loop" in the message loop, "starting" in `RunBenchmarkAsync` before the `await`, "box" in the message box of a failure |
| `running` | what `ToggleBenchmarkUi` last set |
| `session`, `label`, `csv` | `_currentBenchmarkSession`, `_benchmarkStatusLabel`, the exported file |
| `token` | the cancellation is requested |
| `before`, `late`, `tooLate`, `origin`, `runs`, `faults` | history and bounds |

The worker's actions follow `Run` from top to bottom, one per look at the token,
per progress message and per measurement. `RunEngine` adds a row whatever the
engine does: a measurement, "not supported", or a failure with a note of one
line or, from the OpenCL build log, of several. `PrepareDecryptInput` makes the
shared input of the decryptions or gives each engine its failure row.
`CreateRandomPayload` has the length as the 32-bit product it is: 2048 MB are
negative and throw, 4096 MB are no bytes at all. `Resume` is what follows the
`await`, with the `catch` blocks and `finally`; `Dispatch` takes a message from
the queue, also while the message box is open. A task that has ended before the
handler awaits it is not waited for (`late`), and its messages then come after
the outcome; that is what the code does. Times are abstracted to whether there
is a measurement. `Setup` contains the inspection of the machine, which reads
the output of a child process to its end before it waits with a time limit
(`EnvironmentInspectionService.cs:487`): that the process closes its output is an
assumption on the environment, on which `RunEnds` rests.

An export (`CreateCsv`) may fail before it opens the file or leave any beginning
of it (`Beginnings`), because nothing guards the write; what it throws reaches the
message box of the program's message loop, which the user lets go on. An import
reads the last export, whole or cut off, or one of `OtherFiles`. The reader goes
line by line: the further lines of a note are passed over as rows with too few
fields, or make `ParseCsv` throw when one of them has fifteen (a note that is
"wide"); then, or when there are no metadata or the read fails, the box says so
and the session stays. `origin` records whether the session and the file come
from a run, from an export that was cut off, or from elsewhere.

## 3. Runs

### ocl_context (passes)

One caller, two keys and a key of a wrong length, fifteen argument lists that
reach every entry point, every early return, the empty text, one whole block
and one and a half, with and without AAD, tags that are right, forged, or right
for another AAD. Calls and shutdowns come in any order and number, and every
OpenCL call and every step of the kernel loader may fail. Blocks have two bytes, and the table of
`gcm_choose_chunk_blocks` (2048, 16384, 262144 blocks) is scaled to two tiers:
`SmallChunk` = 1 below `LargeFrom` = 4 blocks, `LargeChunk` = 4 from there. A
message of three blocks then needs three chunks and one of four needs one: the
case where the number of chunks falls as the message grows.

There is one caller because calls that overlap break the library (below);
`Serialized` states that assumption, and nothing in the code enforces it. More
keys, longer texts or more callers in turn add no behaviour: the context
remembers one key, one pair of capacities, and only whether each suffices.

| property | says |
|---|---|
| `TypeOK` | types; no count of live objects goes below zero |
| `HandlesOwned` | each object is reachable through its field, and no field dangles; no file, text, program or log of the kernel loader is left |
| `InitAllOrNothing` | between calls the context is complete or empty |
| `CacheCoherent` | the key whose upload would be skipped is on the device |
| `InBounds` | no step uses a buffer that is too small for its call |
| `VerifiedInputStays` | `gcm_decrypt` decrypts the bytes it verified |
| `FailureExplained` | a failing branch sets a message of its own; it is set in the step that returns, so one that the same call erases again would not show |
| `ImplementsService` | refinement: the library behaves as `AesService` |

`ImplementsService` maps `asked` to `req` and `answer` to the result of a call
that has returned.

### two_threads (violated: a finding)

Two callers, two keys, `Serialized` = FALSE, as the file tab and the benchmark
tab run. TLC finds that a call returns CRYPTO_OK with bytes made from the other
call's round keys, because nothing protects `g_ctx` between the upload and the
launch. Nothing is shut down meanwhile and every step has its handles: in the
trace the second call uploads its key between the first call's write of its
input and its launch.

### torn_key (violated: a finding)

One caller; the failed upload of a second key may have changed the device's
copy. `ocl_upload_round_keys_if_needed` returns without clearing its cache
flag, so the next call with the first key skips the upload and answers
CRYPTO_OK with other bytes.

### ghash_chunks (passes)

Messages of one to six blocks, chunks of one to three, work groups of one, two
and four items: one chunk and several, a last chunk that is full, one block
long or in between, surplus items, and several messages in a row. The code's
chunk sizes are 64 to 16384 and its work groups 1 to 256 or what the
environment says; the theorems below need no bound.

| property | says |
|---|---|
| `GhashTypeOK` | types; an exponent is never negative, where the code's unsigned one would wrap |
| `HashesFit` | the surplus items of the rounded NDRange store nothing |
| `PowersMatch` | the powers of H are those of a full chunk and of the last one |
| `SameAsCpu` | the device's hash is the CPU library's |

### ctr_file (passes)

Blocks of two bytes, chunks of one and of two blocks (`MinChunk` = 2, wishes of
1 and 5 bytes, which are rounded up and down), the marker 128, every text of up
to five bytes over 0, 1, 2 and 128: all values a padding looks at (zero, the two
possible counts, the marker), and files below, at and above one and two chunks.
Both directions, every padding and an unsupported one, with and without the IV
in front of the file; decryption is given every text under the IV, so also texts
that are no encryption at all.

| property | says |
|---|---|
| `TypeOK` | types; a chunk is a positive whole number of blocks |
| `BuffersFit` | what the loops keep fits into `leftover[16]` and `rem[32]` |
| `EncryptsAsOneShot` | a file gives the status and the bytes of the call on a buffer; after OK only a failed `fclose` can have left it without its end |
| `DecryptsAsOneShot` | so does decryption, but for the empty file and zero padding |
| `RoundTrip` | the encryption of a text decrypts to it, less zeros under zero padding |
| `NothingIgnored` | an accepted file is byte for byte the encryption of what comes out |

The two exceptions in `DecryptsAsOneShot` are what the code does: zero padding
is removed from the last block only, where the call on a buffer removes zeros
from the whole text, and a file without a last block is refused.

### ctr_file_empty (violated: a finding)

`RoundTripOfAll` does not leave the empty file out. With zero padding or none an
empty text becomes an empty file, which the decryption of the same library
refuses as BAD_PADDING although the call on a buffer accepts it.

### gcm_file (passes)

Words of three values, blocks of two bytes, texts of up to five bytes, chunks of
one and two blocks, AAD of no byte and one, counter blocks whose last word
overflows within the text and some whose last word does not. The kept keystream
block is used again only after a ragged update, which a file has at its end;
`ctr_stream` has all other divisions.

| property | says |
|---|---|
| `TypeOK` | types |
| `EncryptsAsOneShot` | the file and the tag of the one-shot call, unless `Exempt` |
| `DecryptsAsOneShot` | accepted exactly when the one-shot tag of these bytes, lengths and AAD is the given one, and then decrypted as the one-shot call does |
| `NothingLeftBehind` | a failing call leaves no text, unless the file cannot be removed |
| `StreamsInStep` | both streams have taken exactly the bytes read, block by block |

`Exempt` is the CPU engine with a counter whose last word overflows.

### gcm_file_wrap (violated: a finding)

Without `Exempt`: the CPU library's callback counts on into the next word of the
counter block. The file gets a valid tag over other ciphertext than
`crypto_aes_gcm_encrypt` and the OpenCL library produce, and they would decrypt
it to something else with status OK. The Windows program always uses 12-byte
IVs, whose last word starts at 1; the library accepts others.

### ctr_stream (passes)

Streams of up to eleven bytes in pieces of every length, blocks of two bytes,
two blocks per work item, work groups of one and two, words of four values, and
counter blocks just below an overflow of the last word, of the lower half and of
all 128 bits. Three items with two turns each, surplus items, a partial last
block in the kernel, a kept keystream block used over several updates: all fit.

| property | says |
|---|---|
| `TypeOK` | types; a keystream block is kept whenever its use is possible |
| `StoresFit` | no item stores beyond the call's bytes |
| `StreamIsOneShot` | every byte meets the keystream of the CPU library's single pass |

### cbc_file (passes)

Blocks of two bytes, a buffer of two blocks, all texts of up to four bytes over
the values padding looks at and some of five and six: files below, at and above
a block and a buffer, with a buffer that ends exactly at the end of the file.
Decryption is given encryptions of any blocks, cut within a block or before it,
with the first or the last byte replaced, and files too short for the IV.

| property | says |
|---|---|
| `TypeOK` | types; the carry and the block held back fit their arrays |
| `EncryptsAsOneShot` | a file gives the status and the bytes of the call on a buffer |
| `DecryptsAsOneShot` | so does decryption, but for empty and ragged files and zero padding |
| `RoundTrip` | exactly the encryptions are accepted, and give the text back |

### single_file (passes)

Two paths and two jobs in a row, so that a job reads what the one before has
written and replaces a file that exists; both engines, all three modes, a wrong
password, a blank one, equal paths, keys of several sizes, moves within a volume
and across. One request pads CTR with Zero and one CBC with None, and of the two
texts one has no bytes and one is ragged and ends in a zero, so that a job
strips a text, refuses one, and is given a payload of no bytes that the job
before has made. The files of other programs are these texts, a GCM and a CTR
package, whose headers differ in length, a GCM package that lacks its end, and a
package with a header that must be refused. 4 040 339 states. Deadlock is not
checked, because the program rests when `MaxJobs` jobs have been done.

| property | says |
|---|---|
| `TypeOK` | types; every package at work is one that `ReadHeader` accepts |
| `SuccessIsWhole` | success means a complete output, made from one version of the input, unless the engine's `fclose` has lost its end; see below |
| `OneVersionSurvives` | at every moment the old output or the complete new one exists, unless a move failed |
| `FailureIsHarmless` | after a failure the output is the old one, with two exceptions |
| `NoLitter` | no temporary file is left that could be deleted |
| `NoNeedlessFailure` | undisturbed, a valid request succeeds and a job's package is accepted by the next, but for what None and Zero refuse |

What comes out of a successful decryption is the text of one version of the
input, with two exceptions that need another program at the input: `DecryptFile`
opens the package twice, so the header may be one version's and the payload
another's, if the two fit each other; and without authentication a payload that
does not belong to the key, or is cut short, decrypts to garbled text.

The other exceptions too are what the code does. When `File.Move` fails after
`File.Delete`, `catch` deletes the temporary file, so neither output is left.
When the deletion in `finally` throws, a job that has replaced its output is
reported as failed. A job that is left alone fails for a ragged file under None,
and for the package that a job has made of an empty file with Zero or None: the
engine's refusal of `ctr_file_empty`, which reaches the user here. With Zero
padding the file that comes out is the one that went in less its last zeros.

### benchmark (passes)

Four requests: GCM of 2047 MB, the largest size whose product does not wrap; two
iterations of CBC of 4096 MB with a padding the managed engine lacks; CTR of 2048
MB, whose length is negative, with a warm-up; no password. Two runs, so that the
second starts over a session, a message box or an exported file the first has
left, and one step that fails for a reason outside the program. The file from
elsewhere lacks rows, has others out of order and a note of several lines.
Cancel, export, import and the message box may come at every moment the controls
admit. 312 396 states. Deadlock is not checked: the user need not press anything.

| property | says |
|---|---|
| `TypeOK` | types; the iteration within the request's |
| `SessionWhole` | a session from a run or a complete export has each engine, direction and iteration once and measured what was asked for; one from a cut export has the first of these rows; every session compares only what it has measured |
| `OutcomeShown` | label and session tell how the last run ended, and no cancellation that came in time is lost |
| `RunEnds` | a run that was started ends, and the controls come back or the user has been told |

`RunEnds` is liveness, under `WF_vars(WorkerStep)` and `WF_vars(UiStep)`: the
thread pool runs a queued task and a thread that can go on does, and the UI
thread takes its messages while it is in a message loop, in the form's or in the
message box's. Nothing is assumed of the user.

`SessionWhole` has one exception, and that is a finding. The form offers 4096 MB
(`Form1.cs:27`), the product at `BenchmarkService.cs:404` wraps to 0, and rows of
no bytes count as successes, although the message at `:426` says that the
generated data size must be larger than zero; the check before it looks at the
megabytes. A session that an import takes from a cut export misses rows without
a word; the property says which it still has.

## 4. Proofs

`OclContextProofs` proves for every set of callers, keys and requests, every
block size and every chunk table:

* `TypeCorrect`: `Spec => []TypeOK`, under `Serialized`. It holds `live` and the
  loader's counts in the naturals: on no path of calls that do not overlap is
  anything released twice.
* `HandlesAreOwned`, `InitialisationIsAtomic`, `CacheIsCoherent`,
  `BuffersAreLargeEnough`: under `Serialized` and `TornKeyWrites` = FALSE.

None of these is inductive. The invariant that is adds where the context is on
the ladder (in stage `k` exactly the objects of the stages before are held, in
any other step of a call the context is complete), that at most one call is
inside the library, and that the capacities are the sizes of the buffers held.
Of the kernel loader it says, for each point it may be at, exactly what it has
in hand. Each action has one step in the proof, and under it one step per
conjunct it disturbs.

Two more theorems are about calls. `FailuresAreExplained` is
`FailureExplained` under `Serialized`: every step that ends a call is `Return`
with a good status or has set the message.
`VerifiedInputIsDecrypted` is `VerifiedInputStays`, under `Serialized` and
`TornKeyWrites` = FALSE. Its invariant follows the ciphertext from the write that put it
on the device to the launch: in between the context stays initialised, the
buffers fit the same text and are not made again, and no step writes to them.

`LibraryImplementsService` is the refinement, `Spec => ImplementsService`, under
the same two assumptions; the findings of `two_threads` and `torn_key` are that
without either it does not hold. The mapping takes `asked` to `req` and `answer`
to the result of a call that is done. `Start` maps to `Ask`, a step that ends a
call to `Answer`, every other step to a stutter, and the work is in showing
that what a call returns is permitted for its arguments. `AnswerInv` says this
for each step a call may be at:

* `Course`: which calls come there (only a text that is not empty is launched,
  and `gcm_decrypt` launches only when it has verified);
* `SoFar`: what the caller has by then: nothing, or for `gcm_encrypt` on its way
  to the tag the ciphertext; and that what was verified is authentic;
* `OnDevice`: what the buffers hold for the step that is next to read them, the
  key in `rk_dev`, the input at a launch, the reference's output at a read;
* `Blocks`: how many of the blocks that GHASH reads are in their place
  (`Gathered`), whatever an earlier message left behind them.

`KernelComputes` and `TagIsExpected` then give the bytes and the tag of
`AesService` from what is on the device, and one lemma per action carries the
invariant on. `TextsAssumption` says that a request's text is a record of an
identifier, a length and keystreams, and `UndefinedAssumption` that no text that
is asked for or promised is the marker of a buffer nobody has written.

`KernelProofs` proves all four properties of `GhashChunks` for every number
of blocks, chunk size and work-group size. The invariant names each
accumulator in closed form: `Horner(s, e)`, the hash of blocks `s` to `e - 1`,
is the set of terms `<<j, e - j>>`. An item that has taken `n` blocks holds
`Horner(start, start + n)` (lemma `AbsorbHorner`), the reduction after `i`
chunks holds `Horner(0, end of chunk i)` (`CombineHorner`, which needs the
power to equal the length of the chunk, hence `PowersMatch`), and the CPU loop
holds `Horner(0, n)`. `PowStepKeeps` is the invariant of square-and-multiply:
result plus base times exponent is constant. `LastLenBounds` shows that the
code's correction for an empty last chunk (`last_len == 0`) never applies,
which is why `LastLen` leaves it out.

`CtrFileProofs` proves all six properties of `CtrFile`
for every text, padding, chunk size, block size and marker. The invariant
`Streams` says where the bytes are between two turns: those before `Cut` (a
whole number of blocks) are written, combined with the keystream of their place,
those from `Cut` to `ReadTo` are in `held`, the others are unread; `KeepsBlock`
says that decryption which has written anything holds a block back. At the end
of the file this determines `held` (`HeldAtEnd`), and what follows is about one
block: `ApplyFacts` gives the bytes that padding appends, `RemoveOfTail` shows
that taking the padding off the last block is taking it off the whole text
(the case of zeros apart), `RemoveOfApplied` and `RemoveSays` that removing
undoes applying and accepts nothing else. `RoundTripHolds` then follows from
`XorTwice`; `NothingIsIgnored` also needs that what is decrypted was made from
plain bytes (`PlainFile`), as every file of `Init` is. The assumptions are those
`CtrFile` states of its constants.

`GcmFileProofs` proves all five properties of `GcmFile` for every text, AAD,
counter block, block size, word and chunk size. `Xored` is the whole file under
the keystream as the stream counts it. `InStep` says that between two turns the
output is the first bytes of `Xored`, as many as have been read (`Read`), that
the CTR stream stands at the counter of the next block, and that the accumulator
is what GHASH makes of all blocks so far, with a ragged one only at the end of
the file. `BlocksJoin` is the lemma behind it: the blocks of a whole number of
blocks and those of the rest are the blocks of both together. At the end this
gives the one-shot tag, and the one-shot bytes wherever `Xored` is
`OneShotXor`, which `CallbackIsOneShot` shows of every call that is not
`Exempt`; for that `CountedIsAdd32` of `BytesProofs` shows that one increment per
block is one addition to the last word. `AadsAssumption` says that an AAD is a
sequence of plain bytes.

`KernelProofs` also proves all three properties of `CtrStream` for every word,
block size, blocks per item, local size and start, in both ways of counting.
`Met(p)` is the counter block and the place in it that byte `p` of a stream must
meet. `OutRight` says it of what has been put out, `StreamRight` of the offset
at which the stream stands, `KeptRight` of the kept block as far as it is not
used up. `JobRight` is about the launch: byte `i` of its buffer has been stored,
once and rightly, exactly if the item that has it (`ItemOf`) has done the turn
that has it (`TurnOf`), so that the order of the items does not matter and
surplus items store nothing. That the kernel's one addition to the 128-bit
counter is the CPU's count is `Add128Facts`: `Add128` with its carry is addition
modulo the square of the half.

`CbcFileProofs` proves all four properties of `CbcFile` for every text, padding,
IV, marker, block size and buffer size. There is no set of all bytes here, because
the byte of an encrypted block contains the block: `IsText` says only that
something is a sequence, `IsByte` and `FileByte` say of one byte that it is a
finite set of numbers and of images under the cipher. `Chain` is a recursive
function; `Follows` says of a function that each of its blocks is linked to the
one before. Exactly one function does so (`LinksExist`, by a least
counterexample, and `LinksUnique`), and from this `ChainJoin` follows: the chain
of a whole number of blocks, continued from its last block, is the chain of both
parts together.

The inductive invariant is the loop's own account of the file. `EncryptedTo(r)`:
`r` bytes have been read; the output is the chain of the whole blocks among
them, `held` is what is left of them, `prev` is the last block written.
`DecryptedTo(k)`: `k` blocks have been read; all decrypted blocks but the last
are written, the last is in `held`, and `prev` is the block that was read. None
of the four properties is inductive without it, because they speak only of a
call that has returned. `GivenFile` adds what decryption may be given: each
block of the file is the encryption of a block that could stand in a file, or of
no block at all (`KnownBlock`), and this survives the cuts and the altered bytes of
`InputFiles`. The step that puts the padding in its place is
`LastBlockCompletes`; for decryption, `StripTail` shows that removing the
padding from the last block is removing it from the whole text, but for the
zeros before it (`LeavesZeros`). `CloseFails` takes an end off the output, which
is what `Written` allows.

For `RoundTrip` the cipher has to be undone in both directions. `BlockBack` does
it for one block of the file, `ChainOfDecrypted` for all of it: encrypting what
was decrypted gives the file back. `DecryptedOfChain` is the converse, that no
other text has this chain: hence `OriginFills`, that a text whose encryption the
file is becomes `Unchain` of the file once it is padded. What is left is about
the last block: `WayBack`, that padding put on is accepted and taken off, and
`ThereAgain`, that what was taken off would be put on again, which holds for
every mode but zeros. Of the constants are assumed that texts are sequences of
numbers (`TextsAssumption`) and that the IV is a block of numbers
(`IvAssumption`).

`BytesProofs` has what the proofs about files and streams share: quotients and
blocks, parts of sequences, combined bytes, padding, and the ways of counting. Where a count goes by
single steps (`CountedIsAdd32`), the proof is by a least counterexample
(`Least`), because the library's induction theorems take an operator.

`SingleFileProofs` proves all six properties of `SingleFile` for any paths,
requests, contents and number of jobs. For `OneVersionSurvives`,
`FailureIsHarmless` and `NoLitter` the invariant says for each stretch of the
job where the versions are: before the delete the old output is untouched
(`BeforeDelete`), from the last write to the end of the move the temporary file
is the whole output (`TempIsWhole`), and `catch` is reached only with the old
output in place or after a failed move (`InCatch`). `JInv` adds what the job has
read and made: `InputKept` (the input is one of the versions seen),
`PackageChosen` and `PackageRead` (the package written is what the request asks
for, the package read is some version's), `MadeAsPromised` (what was made is
what `SuccessIsWhole` promises, under Zero padding the stripped file),
`FailureHasReason` (a failure of an undisturbed job is one of the request's, or
the engine's refusal of this file or payload). `Empty`, `Ragged` and
`EndsInZeros` may be any predicates of files. `NoNeedlessFailure` is also about the job before:
`Origin` says that the packages in the user's files are another program's or
were made by a job from such files, to any depth of packages in packages. It
states this as the existence of a set of contents that is `Sound` and `Covers`
the files, which each job extends by what it made, because a recursive
definition could not be reasoned about. The assumptions are that requests name
paths in `Files` and settings that the form offers (`RequestsAssumption`), and
that a package which somebody has encrypted was a file before
(`OutsideAssumption`).

`BenchmarkProofs` proves `TypeOK`, `SessionWhole` and `OutcomeShown` for any
requests the form admits (`RequestsAssumption`), any other files
(`OtherFilesAssumption`), any number of runs and of failures. `Control` relates the two threads:
the controls are off exactly while a handler is before its `await`, waits or
shows its box, the end of a task is the last message in the queue, and the
label is the outcome once it was taken. `RowsInv` gives the number of rows for
each point of the loop (six per iteration done, the engines in their order
behind them), from which each cell is there once. `InPlace` says where each row
belongs, so that the beginning of a file is the first rows of the measurement
(`CutStarted`); `Kept` carries this from the worker to the session, through
exports that stop anywhere, and back through the reader (`ParseKeeps`).
`WrapsToNothing` shows that 4096 is the one size offered whose rows are of no
bytes. `SpeedupsGrounded` follows from the
cardinality of a set of samples being positive only if it has an element.

Only model-checked: `RunEnds`, which is liveness. `KernelLoader` is proved about as part of `OclContext`. Of the native
library no liveness is claimed: it is called and returns, it has no scheduler,
and the OpenCL runtime may block for as long as it likes.

## 5. Not modelled, and why

* The AES rounds, the field multiplication and every byte: arithmetic on tables
  that a test vector covers and TLC cannot enumerate.
* Wording of messages, profiling and timers: no decision reads them.
* Argument errors below the entry points (NULL or too small a device buffer in
  `ocl_write_buffer`) are joined with the failure of the OpenCL call they guard.
* CRYPTO_OCL_GHASH_CHUNK_BLOCKS is fixed during a run.
* Chunk sizes within a few blocks of SIZE_MAX, where the buffer sizes the file
  loops add up would wrap.
* The part of a block that a failed `fwrite` leaves of a CTR or GCM file; the call
  reports it.
* The single-file tab's controls, the diagnostics text and the layout of the
  form: the finding of `two_threads` is about what the two tabs may do together,
  and the model takes calls that overlap for granted.
* Marshalling in the P/Invoke facade and the key derivation: `SingleFile` has the
  statuses the facade turns into results and exceptions, nothing below them.
* `crypto_ffi_opencl_warmup` and `shutdown`, which forward to `OclContext`.
* The number formats of benchmark files and the metadata beside the request, and
  the statistics script, which the program does not use.

## 6. Plan

One thing is left: the two tabs of the form in one module with `OclContext`, so
that the finding of `two_threads` starts from the controls the program leaves
enabled.
