----------------------------- MODULE SingleFile -----------------------------
(***************************************************************************)
(* SingleFileCryptoService.cs: one file is encrypted into a package, or a  *)
(* package decrypted, through two temporary files, and the result replaces *)
(* the output by a delete and a move.  NativeCryptoFacade.cs, which calls  *)
(* the engines, is modelled by the statuses it gets.                       *)
(*                                                                         *)
(* While a job runs, any step may fail, the process may stop, the caller   *)
(* may cancel and another program may replace the files it works on.       *)
(***************************************************************************)
EXTENDS Naturals, FiniteSets

CONSTANTS
  Files,      \* the paths a request may name
  Requests,   \* [encrypt, engine, algorithm, padding, keySizeBits, password, input,
              \*  output, cross]
  Outside,    \* what other programs, or earlier jobs, put into files
  Empty(_),   \* of a file's contents: there are none
  Ragged(_),  \* of a file's contents: they are no whole number of 16-byte blocks
  EndsInZeros(_),  \* of a file's contents: the last byte is zero
  MaxJobs     \* bound: jobs in a row

ASSUME MaxJobsAssumption == MaxJobs \in Nat

\* CryptoPaddingMode, and the key sizes that the user interface offers.
Paddings == {"Pkcs7", "AnsiX923", "Iso7816_4", "Zero", "None"}
KeySizes == {128, 192, 256}

ASSUME RequestsAssumption ==
  \A r \in Requests :
    {r.input, r.output} \subseteq Files /\ r.padding \in Paddings /\ r.keySizeBits \in KeySizes

\* A package that somebody has encrypted was a file before.
ASSUME OutsideAssumption ==
  \A f \in Outside :
    f.kind = "package" /\ f.payload.kind = "cipher" /\ f.payload.text.kind = "package" =>
      f.payload.text \in Outside

VARIABLES
  files,      \* [Files -> contents]
  temp,       \* [payload, output]: the two temporary files of this job
  job,        \* the request
  jobs,       \* jobs begun; also what is random in each
  pc,         \* "idle" or the next step
  package,    \* SingleFilePackageInfo, chosen or read
  cancelled,  \* the cancellation token
  outcome,    \* "none", "failure" from the throw on, "success", "crashed"
  faults,     \* the steps that failed for a reason outside the program
  start,      \* files when the job began
  seen,       \* what the input file has contained during the job
  meddled,    \* the files another program has replaced during the job
  made        \* <<>>, or the complete output once the job has it, as a sequence

history == <<start, seen, meddled, made>>
vars == <<files, temp, job, jobs, pc, package, cancelled, outcome, faults, history>>

-----------------------------------------------------------------------------
(* Contents *)

None    == [kind |-> "none"]
Partial == [kind |-> "partial"]
Text(t) == [kind |-> "text", text |-> t]

\* DeriveKey: PBKDF2 of these values.
KeyOf(info, password) == <<password, info.salt, info.iterationCount, info.keySizeBits>>

\* What an engine makes of a file.
Encrypted(file, info, password) ==
  [kind |-> "cipher", text |-> file, key |-> KeyOf(info, password),
   mode |-> <<info.algorithm, info.padding, info.iv>>]

Garbled(payload, info, password) ==
  [kind |-> "garbled", payload |-> payload, info |-> info, password |-> password]

NoTag == [len |-> 0, val |-> None]
TagOf(payload, info) ==
  IF info.algorithm = "Gcm" THEN [len |-> 16, val |-> payload] ELSE NoTag

\* These encryptions of an empty file have no bytes.
NoBytes(payload) ==
  payload.kind = "cipher" /\ Empty(payload.text) /\ payload.mode[2] \in {"Zero", "None"}

\* What CBC and CTR refuse: without padding, a file that does not end with a block; to
\* decrypt, a payload without a last block.
RefusedFile(file, info) ==
  info.algorithm # "Gcm" /\ info.padding = "None" /\ Ragged(file)
RefusedPayload(payload, info) == info.algorithm # "Gcm" /\ NoBytes(payload)

\* crypto_padding_remove, given the last block, cannot tell the zeros of Zero padding from
\* those the file ended in.  A package loses the end of its payload.
Stripped(file) ==
  CASE ~EndsInZeros(file) -> file
    [] EndsInZeros(file) /\ file.kind = "package" /\ ~NoBytes(file.payload) ->
         [file EXCEPT !.payload = [kind |-> "stripped", of |-> file.payload]]
    [] OTHER -> [kind |-> "stripped", of |-> file]

\* The file that a payload decrypts to.
Returned(payload, info) ==
  IF info.padding = "Zero" THEN Stripped(payload.text) ELSE payload.text

\* The payload is what these parameters encrypt, and under GCM has this tag.
Matches(payload, info, password) ==
  /\ payload.kind = "cipher"
  /\ payload = Encrypted(payload.text, info, password)
  /\ info.tag = TagOf(payload, info)

\* WriteHeader, and the position after ReadHeader: twenty bytes and three arrays.
HeaderLen(info) == 20 + info.salt.len + info.iv.len + info.tag.len

PackageFile(info, payload) == [kind |-> "package", info |-> info, payload |-> payload]

\* What a file contains from an offset on.
From(file, offset) ==
  IF file.kind = "package" /\ offset = HeaderLen(file.info)
    THEN file.payload
    ELSE [kind |-> "rest", of |-> file, from |-> offset]

\* Mutant: GCM packages are expected to have the IV length of the other modes.
ReadHeaderLongIv(info) == info.iv.len = 16

\* The checks of ReadHeader.
ReadHeader(info) ==
  /\ info.algorithm \in {"Cbc", "Ctr", "Gcm"}
  /\ info.padding \in Paddings
  /\ info.keySizeBits \in KeySizes
  /\ info.iterationCount > 0
  /\ info.salt.len # 0
  /\ IF info.algorithm = "Gcm"
       THEN info.padding = "None" /\ info.iv.len = 12 /\ info.tag.len = 16
       ELSE info.iv.len = 16 /\ info.tag.len = 0

\* Mutant: every mode gets the IV length of CBC and CTR.
LongIv(algorithm) == 16

IvLength(algorithm) == IF algorithm = "Gcm" THEN 12 ELSE 16

DefaultIterationCount == 200000

\* What EncryptFile chooses; n stands for the random bytes of the n-th job.
Chosen(r, n) ==
  [algorithm |-> r.algorithm,
   padding |-> IF r.algorithm = "Gcm" THEN "None" ELSE r.padding,
   keySizeBits |-> r.keySizeBits, iterationCount |-> DefaultIterationCount,
   salt |-> [len |-> 16, val |-> n], iv |-> [len |-> IvLength(r.algorithm), val |-> n],
   tag |-> NoTag]

\* ProcessFile: what the facade passes on to a library; the rest throws.
Supported(engine, algorithm) ==
  \/ engine = "NativeCpu" /\ algorithm \in {"Cbc", "Ctr", "Gcm"}
  \/ engine = "OpenCl" /\ algorithm \in {"Ctr", "Gcm"}

\* Mutant: the status of the native call is not looked at.
IgnoresStatus(status) == TRUE

EnsureSuccess(status) == status = "Ok"

-----------------------------------------------------------------------------
(* The job *)

Init ==
  /\ files \in [Files -> Outside \cup {None}]
  /\ temp = [payload |-> None, output |-> None]
  /\ job \in Requests /\ jobs = 0 /\ pc = "idle"
  /\ package = Chosen(job, 0)
  /\ cancelled = FALSE /\ outcome = "none" /\ faults = {}
  /\ start = files /\ seen = {} /\ meddled = {} /\ made = <<>>

\* ValidateRequest; a blank password is "".
ValidateRequest(r) ==
  files[r.input] # None /\ r.input # r.output /\ r.password # ""

Begin ==
  /\ pc = "idle" /\ jobs < MaxJobs
  /\ \E r \in Requests :
       /\ job' = r /\ jobs' = jobs + 1
       /\ package' = Chosen(r, jobs + 1)
       /\ seen' = {files[r.input]}
       /\ IF ValidateRequest(r)
            THEN /\ outcome' = "none"
                 /\ pc' = IF r.encrypt THEN "encryptPayload" ELSE "readPackage"
            ELSE /\ outcome' = "failure" /\ pc' = "idle"
  /\ temp' = [payload |-> None, output |-> None]
  /\ start' = files /\ meddled' = {} /\ made' = <<>>
  /\ cancelled' = FALSE /\ faults' = {}
  /\ UNCHANGED files

\* An exception inside try: the catch block is next.
Throw == pc' = "catch" /\ outcome' = "failure"

Fault(step) == faults' = faults \cup {step}

\* The native libraries do not look at the result of fclose: a file can lose its end in a
\* call whose status is Ok.
Closed(file, left) ==
  /\ left \in {file, Partial}
  /\ IF left = file THEN UNCHANGED faults ELSE Fault("close")

\* Mutant: the token is looked at once more, between the delete and the move.
CheckedLater == {"encryptPayload", "copyPayload", "finish", "move"}

\* The steps that begin with ThrowIfCancellationRequested.
Checked == {"encryptPayload", "copyPayload", "finish"}

Proceeds == ~(cancelled /\ pc \in Checked)

Interrupted ==
  /\ pc # "idle" /\ ~Proceeds /\ Throw
  /\ UNCHANGED <<files, temp, job, jobs, package, cancelled, faults, history>>

Unsupported ==
  /\ pc \in {"encryptPayload", "decryptPayload"} /\ Proceeds
  /\ ~Supported(job.engine, package.algorithm) /\ Throw
  /\ UNCHANGED <<files, temp, job, jobs, package, cancelled, faults, history>>

-----------------------------------------------------------------------------
(* EncryptFile *)

\* The native call returns an error status and leaves what it has written.
NativeError(status) ==
  /\ \E left \in {None, Partial} : temp' = [temp EXCEPT !.payload = left]
  /\ IF EnsureSuccess(status)
       THEN pc' = "writePackage" /\ UNCHANGED outcome ELSE Throw
  /\ UNCHANGED package

\* The native call: the whole payload, a refusal or a failure.
EncryptPayload ==
  /\ pc = "encryptPayload" /\ Proceeds /\ Supported(job.engine, package.algorithm)
  /\ \/ /\ files[job.input] # None /\ ~RefusedFile(files[job.input], package)
        /\ LET payload == Encrypted(files[job.input], package, job.password) IN
             /\ \E left \in {payload, Partial} :
                  Closed(payload, left) /\ temp' = [temp EXCEPT !.payload = left]
             /\ package' = [package EXCEPT !.tag = TagOf(payload, package)]
        /\ pc' = "writePackage" /\ UNCHANGED outcome
     \/ /\ files[job.input] # None /\ RefusedFile(files[job.input], package)
        /\ NativeError("InvalidArg") /\ UNCHANGED faults
     \/ NativeError("IoError") /\ Fault(pc)
  /\ UNCHANGED <<files, job, jobs, cancelled, history>>

\* Header and payload, flushed to the disk.
WritePackage ==
  /\ pc = "writePackage"
  /\ temp' = [temp EXCEPT !.output = PackageFile(package, temp.payload)]
  /\ made' = <<temp'.output>> /\ pc' = "finish"
  /\ UNCHANGED <<files, job, jobs, package, cancelled, outcome, faults,
                 start, seen, meddled>>

-----------------------------------------------------------------------------
(* DecryptFile *)

\* Before the try block: nothing is there to clean up.
ReadPackage ==
  /\ pc = "readPackage"
  /\ LET file == files[job.input] IN
     \/ /\ file.kind = "package" /\ ReadHeader(file.info)
        /\ package' = file.info /\ pc' = "copyPayload"
        /\ UNCHANGED <<outcome, faults>>
     \/ /\ ~(file.kind = "package" /\ ReadHeader(file.info))
        /\ pc' = "idle" /\ outcome' = "failure" /\ UNCHANGED <<package, faults>>
     \/ /\ Fault(pc) /\ pc' = "idle" /\ outcome' = "failure" /\ UNCHANGED package
  /\ UNCHANGED <<files, temp, job, jobs, cancelled, history>>

\* The input is opened a second time; it need not be the file the header came from.
CopyPayload ==
  /\ pc = "copyPayload" /\ Proceeds /\ files[job.input] # None
  /\ temp' = [temp EXCEPT !.payload = From(files[job.input], HeaderLen(package))]
  /\ pc' = "decryptPayload"
  /\ UNCHANGED <<files, job, jobs, package, cancelled, outcome, faults, history>>

\* An error status, with or without a beginning of the output.
Refusal(status) == {<<status, None>>, <<status, Partial>>}

\* The statuses and outputs of the native call, without a fault.
Decrypted(payload, info, password) ==
  IF RefusedPayload(payload, info)
    THEN Refusal("BadPadding")
  ELSE IF Matches(payload, info, password)
    THEN {<<"Ok", Returned(payload, info)>>}
  ELSE IF info.algorithm = "Gcm"
    THEN Refusal("AuthFailed")
  ELSE {<<"Ok", Garbled(payload, info, password)>>} \cup Refusal("BadPadding")

DecryptPayload ==
  /\ pc = "decryptPayload" /\ Supported(job.engine, package.algorithm)
  /\ \E r \in Decrypted(temp.payload, package, job.password) \cup Refusal("IoError") :
       \E left \in {r[2], Partial} :
         /\ temp' = [temp EXCEPT !.output = left]
         /\ IF r[1] = "Ok" THEN Closed(r[2], left)
            ELSE left = r[2] /\ IF r[1] = "IoError" THEN Fault(pc) ELSE UNCHANGED faults
         /\ IF EnsureSuccess(r[1])
              THEN pc' = "finish" /\ made' = <<left>> /\ UNCHANGED outcome
              ELSE Throw /\ UNCHANGED made
  /\ UNCHANGED <<files, job, jobs, package, cancelled, start, seen, meddled>>

\* The file each managed step writes, which a failure leaves missing or partial.
WrittenBy == [writePackage |-> "output", copyPayload |-> "payload"]

WriteFails ==
  /\ pc \in DOMAIN WrittenBy /\ Proceeds
  /\ \E left \in {None, Partial} : temp' = [temp EXCEPT ![WrittenBy[pc]] = left]
  /\ Throw /\ Fault(pc)
  /\ UNCHANGED <<files, job, jobs, package, cancelled, history>>

-----------------------------------------------------------------------------
(* FinalizeOutputFile, catch and finally *)

\* The directory is there, and the old output is not.
DeleteOld ==
  /\ pc = "finish" /\ Proceeds
  /\ files' = [files EXCEPT ![job.output] = None] /\ pc' = "move"
  /\ UNCHANGED <<temp, job, jobs, package, cancelled, outcome, faults, history>>

DeleteOldFails ==
  /\ pc = "finish" /\ Proceeds /\ Throw /\ Fault(pc)
  /\ UNCHANGED <<files, temp, job, jobs, package, cancelled, history>>

\* A rename, or the beginning of a copy to another volume.
Move ==
  /\ pc = "move" /\ Proceeds /\ files[job.output] = None
  /\ IF job.cross
       THEN /\ files' = [files EXCEPT ![job.output] = Partial]
            /\ pc' = "copying" /\ UNCHANGED temp
       ELSE /\ files' = [files EXCEPT ![job.output] = temp.output]
            /\ temp' = [temp EXCEPT !.output = None] /\ pc' = "finally"
  /\ UNCHANGED <<job, jobs, package, cancelled, outcome, faults, history>>

\* The copy is complete; the source is deleted, or stays and nobody is told.
MoveCopied ==
  /\ pc = "copying"
  /\ files' = [files EXCEPT ![job.output] = temp.output]
  /\ \/ temp' = [temp EXCEPT !.output = None] /\ UNCHANGED faults
     \/ Fault("cleanup") /\ UNCHANGED temp
  /\ pc' = "finally"
  /\ UNCHANGED <<job, jobs, package, cancelled, outcome, history>>

\* Also when another program has put a file there since the delete.
MoveFails ==
  /\ pc \in {"move", "copying"} /\ Proceeds
  /\ files' = IF pc = "copying" THEN [files EXCEPT ![job.output] = None] ELSE files
  /\ Throw /\ Fault("move")
  /\ UNCHANGED <<temp, job, jobs, package, cancelled, history>>

\* Mutant: a failed job removes its output, not its temporary file.
CatchOutput ==
  /\ pc = "catch" /\ files' = [files EXCEPT ![job.output] = None] /\ pc' = "finally"
  /\ UNCHANGED <<temp, job, jobs, package, cancelled, outcome, faults, history>>

Catch ==
  /\ pc = "catch" /\ pc' = "finally"
  /\ temp' = [temp EXCEPT !.output = None]
  /\ UNCHANGED <<files, job, jobs, package, cancelled, outcome, faults, history>>

\* Mutant: the payload is removed by the jobs that succeed.
FinallyOnSuccess ==
  /\ pc = "finally" /\ pc' = "idle"
  /\ temp' = IF outcome = "none" THEN [temp EXCEPT !.payload = None] ELSE temp
  /\ outcome' = IF outcome = "none" THEN "success" ELSE outcome
  /\ UNCHANGED <<files, job, jobs, package, cancelled, faults, history>>

Finally ==
  /\ pc = "finally" /\ pc' = "idle"
  /\ temp' = [temp EXCEPT !.payload = None]
  /\ outcome' = IF outcome = "none" THEN "success" ELSE outcome
  /\ UNCHANGED <<files, job, jobs, package, cancelled, faults, history>>

\* A temporary file cannot be deleted: that exception replaces any other, and makes a
\* job that has replaced its output a failure.
CleanupFails ==
  /\ \/ pc = "catch" /\ temp.output # None /\ pc' = "finally"
     \/ pc = "finally" /\ temp.payload # None /\ pc' = "idle"
  /\ outcome' = "failure" /\ Fault("cleanup")
  /\ UNCHANGED <<files, temp, job, jobs, package, cancelled, history>>

-----------------------------------------------------------------------------
(* The world around the job *)

Cancel ==
  /\ pc # "idle" /\ ~cancelled /\ cancelled' = TRUE
  /\ UNCHANGED <<files, temp, job, jobs, pc, package, outcome, faults, history>>

Crash ==
  /\ pc # "idle" /\ pc' = "idle" /\ outcome' = "crashed"
  /\ UNCHANGED <<files, temp, job, jobs, package, cancelled, faults, history>>

\* Another program replaces or deletes a file that the job does not hold open.
Meddle ==
  /\ pc # "idle" /\ meddled = {}
  /\ \E f \in {job.input, job.output}, content \in Outside \cup {None} :
       /\ f = job.output => pc # "copying"
       /\ files' = [files EXCEPT ![f] = content] /\ meddled' = {f}
       /\ seen' = IF f = job.input THEN seen \cup {content} ELSE seen
  /\ UNCHANGED <<temp, job, jobs, pc, package, cancelled, outcome, faults, start, made>>

Next ==
  \/ Begin \/ Interrupted \/ Unsupported
  \/ EncryptPayload \/ WritePackage
  \/ ReadPackage \/ CopyPayload \/ DecryptPayload \/ WriteFails
  \/ DeleteOld \/ DeleteOldFails \/ Move \/ MoveCopied \/ MoveFails
  \/ Catch \/ Finally \/ CleanupFails
  \/ Cancel \/ Crash \/ Meddle

Spec == Init /\ [][Next]_vars

-----------------------------------------------------------------------------
(* Properties *)

\* Types; whatever a job works with is a package that ReadHeader would accept, once it
\* has its tag.
TypeOK ==
  /\ DOMAIN files = Files /\ DOMAIN temp = {"payload", "output"}
  /\ job \in Requests /\ jobs \in 0 .. MaxJobs
  /\ outcome \in {"none", "failure", "success", "crashed"}
  /\ cancelled \in BOOLEAN /\ meddled \subseteq Files
  /\ pc \in {"writePackage", "copyPayload", "decryptPayload"} => ReadHeader(package)

Ended(how) == pc = "idle" /\ outcome = how

\* A package of this password, with the tag that belongs to it.
Opens(file, password) ==
  file.kind = "package" /\ Matches(file.payload, file.info, password)

\* A job that reports success leaves what it promised: a package of one version of its
\* input, or the file that one version is a package of, less the zeros that Zero padding
\* strips from its end.  It reads a package twice, so that a header and a payload of two
\* versions can meet: then it leaves what the one makes of the other.  Without GCM nothing
\* tells such a pair apart, or a wrong password from the right one; and of all that can
\* fail, only the native libraries' fclose goes unnoticed.
SuccessIsWhole ==
  Ended("success") /\ job.output \notin meddled /\ "close" \notin faults =>
    LET result == files[job.output] IN
    \E version \in seen :
      IF job.encrypt
        THEN Opens(result, job.password) /\ result.payload.text = version
        ELSE \/ /\ Opens(version, job.password)
                /\ result = Returned(version.payload, version.info)
             \/ /\ meddled # {} /\ version.kind = "package"
                /\ \E other \in seen :
                     /\ Opens(PackageFile(version.info, other.payload), job.password)
                     /\ result = Returned(other.payload, version.info)
             \/ /\ package.algorithm # "Gcm" /\ result.kind = "garbled"
                /\ meddled # {} \/ ~Opens(version, job.password)

\* At every moment, also after the process stopped, the old output or the complete new
\* one exists, in its place or as the temporary file.  A move that fails is the exception.
OneVersionSurvives ==
  job.output \notin meddled /\ "move" \notin faults =>
    \/ files[job.output] = start[job.output]
    \/ made \in {<<files[job.output]>>, <<temp.output>>}

\* A job that reports a failure has not touched the output, with two exceptions: the move
\* itself failed, or only the last clean-up did.
FailureIsHarmless ==
  Ended("failure") /\ job.output \notin meddled =>
    \/ files[job.output] = start[job.output]
    \/ "move" \in faults /\ files[job.output] = None
    \/ "cleanup" \in faults /\ made = <<files[job.output]>>

\* A job that ended, in whatever way, leaves no temporary file that it could delete.
NoLitter ==
  pc = "idle" /\ outcome # "crashed" /\ "cleanup" \notin faults =>
    temp = [payload |-> None, output |-> None]

\* Left alone, a job succeeds: with a valid request, an engine for the algorithm and, to
\* decrypt, a package of this password, as one that an earlier job has written.  CBC and
\* CTR make two exceptions: they encrypt no ragged file without padding, and they do not
\* take back the package that a job has made of an empty file with Zero or None.
NoNeedlessFailure ==
  Ended("failure") /\ faults = {} /\ meddled = {} /\ ~cancelled =>
    \/ start[job.input] = None \/ job.input = job.output \/ job.password = ""
    \/ ~Supported(job.engine, package.algorithm)
    \/ ~job.encrypt /\ start[job.input] \in Outside
    \/ job.encrypt /\ RefusedFile(start[job.input], package)
    \/ ~job.encrypt /\ ~Opens(start[job.input], job.password)
    \/ ~job.encrypt /\ RefusedPayload(start[job.input].payload, package)
=============================================================================
