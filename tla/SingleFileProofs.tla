-------------------------- MODULE SingleFileProofs --------------------------
(***************************************************************************)
(* Proofs about SingleFile, for every set of paths, requests and contents  *)
(* and every number of jobs: the old output or the complete new one is     *)
(* there at every moment, a reported failure is harmless, and a job cleans *)
(* up after itself.                                                        *)
(***************************************************************************)
EXTENDS SingleFile, TLAPS

Steps == {"idle", "encryptPayload", "writePackage", "readPackage", "copyPayload",
          "decryptPayload", "finish", "move", "copying", "catch", "finally"}

\* What EXCEPT needs to know of the variables.
Shape ==
  /\ job \in Requests
  /\ files = [f \in Files |-> files[f]]
  /\ temp = [payload |-> temp.payload, output |-> temp.output]
  /\ pc \in Steps

Untouched == files[job.output] = start[job.output]
Alone     == job.output \notin meddled
Complete  == made = <<files[job.output]>>

\* What a failed move leaves in the place of the output.
LostInMove == "move" \in faults /\ files[job.output] = None

\* Until it is deleted, the old output is as the job found it.
BeforeDelete ==
  Alone /\ pc \in {"encryptPayload", "writePackage", "readPackage", "copyPayload",
                   "decryptPayload", "finish"} => Untouched

\* From the last write to the end of the move the temporary file is the whole output.
TempIsWhole == pc \in {"finish", "move", "copying"} => made = <<temp.output>>

\* The catch block, which deletes that file, is reached with the old output in place, or
\* after a failed move; after a failed move nothing is in place.
InCatch ==
  pc = "catch" =>
    /\ outcome = "failure"
    /\ Alone => (Untouched \/ LostInMove)

\* Between the delete and the end of the move the place is empty.
InMove == Alone /\ pc = "move" => files[job.output] = None

InFinally ==
  pc = "finally" =>
    /\ outcome \in {"none", "failure"}
    /\ (outcome = "none" /\ Alone) => Complete
    /\ (outcome = "failure" /\ Alone) => (Untouched \/ LostInMove)
    /\ temp.output = None \/ "cleanup" \in faults

\* A job that has not failed yet has not set its outcome.
OutcomeOpen ==
  pc \notin {"idle", "catch", "finally"} => outcome = "none"

NothingWritten ==
  pc = "readPackage" => temp = [payload |-> None, output |-> None]

IInv ==
  /\ Shape /\ BeforeDelete /\ TempIsWhole /\ InCatch /\ InMove /\ InFinally
  /\ OutcomeOpen /\ NothingWritten
  /\ OneVersionSurvives /\ FailureIsHarmless /\ NoLitter
-----------------------------------------------------------------------------
LEMMA InitIsGood == Init => IInv
  BY RequestsAssumption
     DEF Init, IInv, Shape, BeforeDelete, TempIsWhole, InCatch, InMove, InFinally,
         OutcomeOpen, NothingWritten, OneVersionSurvives, FailureIsHarmless, NoLitter,
         Ended, Untouched, Steps

\* Most actions leave the files alone and only move pc along; each case checks every part
\* of IInv in the step it leads to.
LEMMA StepKeeps == ASSUME IInv, [Next]_vars PROVE IInv'
<1> USE RequestsAssumption
    DEF IInv, Shape, BeforeDelete, TempIsWhole, InCatch, InMove, InFinally,
        OutcomeOpen, NothingWritten, OneVersionSurvives, FailureIsHarmless, NoLitter,
        Ended, Untouched, Alone, Complete, LostInMove, Steps, history
\* A new job: nothing is deleted, written or replaced yet.
<1>1. CASE Begin
  BY <1>1 DEF Begin, ValidateRequest
<1>2. CASE Interrupted
  BY <1>2 DEF Interrupted, Throw, Proceeds, Checked
<1>3. CASE Unsupported
  BY <1>3 DEF Unsupported, Throw
<1>4. CASE EncryptPayload
  BY <1>4 DEF EncryptPayload, NativeError, Throw, Fault
<1>5. CASE WritePackage
  BY <1>5 DEF WritePackage
<1>6. CASE ReadPackage
  BY <1>6 DEF ReadPackage, Fault
<1>7. CASE CopyPayload
  BY <1>7 DEF CopyPayload
<1>8. CASE DecryptPayload
  BY <1>8 DEF DecryptPayload, Throw, Fault
<1>9. CASE WriteFails
  BY <1>9 DEF WriteFails, Throw, Fault, WrittenBy
\* The old output goes; from here on TempIsWhole carries OneVersionSurvives.
<1>10. CASE DeleteOld
  BY <1>10 DEF DeleteOld
<1>11. CASE DeleteOldFails
  BY <1>11 DEF DeleteOldFails, Throw, Fault
<1>12. CASE Move
  BY <1>12 DEF Move
<1>13. CASE MoveCopied
  BY <1>13 DEF MoveCopied, Fault
\* The only way into the catch block without the old output.
<1>14. CASE MoveFails
  BY <1>14 DEF MoveFails, Throw, Fault
\* It deletes the temporary file: InCatch says what is in place.
<1>15. CASE Catch
  BY <1>15 DEF Catch
\* The job ends: FailureIsHarmless and NoLitter follow from InFinally.
<1>16. CASE Finally
  BY <1>16 DEF Finally
<1>17. CASE CleanupFails
  BY <1>17 DEF CleanupFails, Fault
<1>18. CASE Cancel
  BY <1>18 DEF Cancel
\* Wherever the process stops, OneVersionSurvives held before.
<1>19. CASE Crash
  BY <1>19 DEF Crash
<1>20. CASE Meddle
  BY <1>20 DEF Meddle
<1>21. CASE UNCHANGED vars
  BY <1>21 DEF vars
<1> QED
  BY <1>1, <1>2, <1>3, <1>4, <1>5, <1>6, <1>7, <1>8, <1>9, <1>10,
     <1>11, <1>12, <1>13, <1>14, <1>15, <1>16, <1>17, <1>18,
     <1>19, <1>20, <1>21 DEF Next

THEOREM Invariance == Spec => []IInv
<1>1. Init => IInv
  BY InitIsGood
<1>2. IInv /\ [Next]_vars => IInv'
  BY StepKeeps
<1> QED
  BY <1>1, <1>2, PTL DEF Spec

\* The delete and the move of FinalizeOutputFile never lose both versions, whenever the
\* process stops, unless the move itself reports a failure.
THEOREM OutputSurvives == Spec => []OneVersionSurvives
<1>1. IInv => OneVersionSurvives
  BY DEF IInv
<1> QED
  BY <1>1, Invariance, PTL

\* A job of EncryptFile or DecryptFile that throws has left its output alone, but for a
\* failed move and a failed last clean-up.
THEOREM FailuresAreHarmless == Spec => []FailureIsHarmless
<1>1. IInv => FailureIsHarmless
  BY DEF IInv
<1> QED
  BY <1>1, Invariance, PTL

\* The catch and finally blocks remove both temporary files on every path.
THEOREM JobsCleanUp == Spec => []NoLitter
<1>1. IInv => NoLitter
  BY DEF IInv
<1> QED
  BY <1>1, Invariance, PTL

-----------------------------------------------------------------------------
(* What a job makes, and why one fails.  The invariant of a job in progress: *)
(* where the package and the payload it works with come from.                *)

Before == {"encryptPayload", "writePackage", "readPackage", "copyPayload", "decryptPayload"}

\* ValidateRequest has kept input and output apart, so the job does not change its input.
InputKept ==
  pc # "idle" =>
    /\ job.input # job.output /\ files[job.input] \in seen
    /\ meddled = {} => seen = {files[job.input]} /\ start[job.input] = files[job.input]

Direction ==
  /\ pc \in {"encryptPayload", "writePackage"} => job.encrypt
  /\ pc \in {"readPackage", "copyPayload", "decryptPayload"} => ~job.encrypt
  /\ pc \in Before => made = <<>>

\* Parameters are chosen before the payload is made, and the tag belongs to it.
PackageChosen ==
  /\ pc = "encryptPayload" => package = Chosen(job, jobs)
  /\ pc = "writePackage" =>
       /\ ReadHeader(package)
       /\ temp.payload.kind = "cipher" => temp.payload.text \in seen
       /\ "close" \notin faults => Matches(temp.payload, package, job.password)

\* The header is of a version of the input, and the payload is of one too.
PackageRead ==
  /\ pc \in {"copyPayload", "decryptPayload"} =>
       /\ ReadHeader(package)
       /\ \E v \in seen : v.kind = "package" /\ v.info = package
  /\ pc = "decryptPayload" =>
       \E w \in seen : temp.payload = From(w, HeaderLen(package))

\* What SuccessIsWhole says of the result.
Promised(result) ==
  \E version \in seen :
    IF job.encrypt
      THEN Opens(result, job.password) /\ result.payload.text = version
      ELSE \/ /\ Opens(version, job.password)
              /\ result = Returned(version.payload, version.info)
           \/ /\ meddled # {} /\ version.kind = "package"
              /\ \E other \in seen :
                   /\ Opens(PackageFile(version.info, other.payload), job.password)
                   /\ result = Returned(other.payload, version.info)
           \/ /\ package.algorithm # "Gcm" /\ result.kind = "garbled"
              /\ meddled # {} \/ ~Opens(version, job.password)

MadeAsPromised == made # <<>> /\ "close" \notin faults => Promised(made[1])

SuccessIsComplete == Ended("success") /\ Alone => Complete

JobsRange == jobs \in 0 .. MaxJobs /\ cancelled \in BOOLEAN /\ meddled \subseteq Files
             /\ outcome \in {"none", "failure", "success", "crashed"}

\* What NoNeedlessFailure accepts as a reason.
Excuse ==
  \/ start[job.input] = None \/ job.input = job.output \/ job.password = ""
  \/ ~Supported(job.engine, package.algorithm)
  \/ ~job.encrypt /\ start[job.input] \in Outside
  \/ job.encrypt /\ RefusedFile(start[job.input], package)
  \/ ~job.encrypt /\ ~Opens(start[job.input], job.password)
  \/ ~job.encrypt /\ RefusedPayload(start[job.input].payload, package)

FailureHasReason ==
  outcome = "failure" /\ faults = {} /\ meddled = {} /\ ~cancelled => Excuse

\* A set of contents: a package in it is one of Outside, has a header that ReadHeader
\* accepts or has lost its payload, and what it contains is in the set.
Sound(S) ==
  \A c \in S : c.kind = "package" =>
    /\ c \in Outside \/ ReadHeader(c.info) \/ c.payload.kind # "cipher"
    /\ c.payload.kind = "cipher" => c.payload.text \in S

\* All that the files are, and that the job may make of them, is in it.
Covers(S) ==
  /\ Outside \cup {None, Partial} \subseteq S
  /\ \A f \in Files : files[f] \in S
  /\ seen \subseteq S
  /\ pc \in {"finish", "move", "copying"} => temp.output \in S

Origin == \E S : Sound(S) /\ Covers(S)

JInv ==
  /\ IInv /\ JobsRange /\ InputKept /\ Direction /\ PackageChosen /\ PackageRead
  /\ MadeAsPromised /\ SuccessIsComplete /\ FailureHasReason

-----------------------------------------------------------------------------
LEMMA InitRange == Init => JobsRange
<1> SUFFICES ASSUME Init PROVE JobsRange
  OBVIOUS
<1>1. 0 \in 0 .. MaxJobs
  BY MaxJobsAssumption
<1> QED
  BY <1>1 DEF Init, JobsRange

LEMMA RangeKept == ASSUME IInv, JobsRange, [Next]_vars PROVE JobsRange'
<1> USE DEF JobsRange
<1>1. CASE Begin
  <2>1. jobs' \in 0 .. MaxJobs
    BY <1>1, MaxJobsAssumption DEF Begin
  <2> QED
    BY <1>1, <2>1 DEF Begin
<1>2. CASE Interrupted \/ Unsupported \/ EncryptPayload \/ WritePackage
  BY <1>2 DEF Interrupted, Unsupported, EncryptPayload, NativeError, WritePackage, Throw,
      history
<1>3. CASE ReadPackage \/ CopyPayload \/ DecryptPayload \/ WriteFails
  BY <1>3 DEF ReadPackage, CopyPayload, DecryptPayload, WriteFails, Throw, history
<1>4. CASE DeleteOld \/ DeleteOldFails \/ Move \/ MoveCopied \/ MoveFails
  BY <1>4 DEF DeleteOld, DeleteOldFails, Move, MoveCopied, MoveFails, Throw, history
<1>5. CASE Catch \/ Finally \/ CleanupFails \/ Cancel \/ Crash
  BY <1>5 DEF Catch, Finally, CleanupFails, Cancel, Crash, history
<1>6. CASE Meddle
  <2>1. meddled' \subseteq Files
    BY <1>6, RequestsAssumption DEF Meddle, IInv, Shape
  <2> QED
    BY <1>6, <2>1 DEF Meddle
<1>7. CASE UNCHANGED vars
  BY <1>7 DEF vars, history
<1> QED
  BY <1>1, <1>2, <1>3, <1>4, <1>5, <1>6, <1>7 DEF Next

\* A job writes its output only, and that is another file.
LEMMA InputStays == ASSUME IInv, InputKept, [Next]_vars PROVE InputKept'
<1> USE RequestsAssumption DEF IInv, Shape, InputKept
<1>1. CASE Begin
  BY <1>1 DEF Begin, ValidateRequest
<1>2. CASE Interrupted \/ Unsupported \/ EncryptPayload \/ WritePackage
  BY <1>2 DEF Interrupted, Unsupported, EncryptPayload, NativeError, WritePackage, Throw,
      history
<1>3. CASE ReadPackage \/ CopyPayload \/ DecryptPayload \/ WriteFails
  <2>1. UNCHANGED <<files, job, start, seen, meddled>> /\ pc # "idle"
    BY <1>3 DEF ReadPackage, CopyPayload, DecryptPayload, WriteFails, WrittenBy, history
  <2> QED
    BY <2>1
<1>4. CASE DeleteOld \/ DeleteOldFails \/ Move
  BY <1>4 DEF DeleteOld, DeleteOldFails, Move, Throw, history
<1>5. CASE MoveCopied \/ MoveFails
  BY <1>5 DEF MoveCopied, MoveFails, Throw, history
<1>6. CASE Catch \/ Finally \/ CleanupFails \/ Cancel \/ Crash
  BY <1>6 DEF Catch, Finally, CleanupFails, Cancel, Crash, history
<1>7. CASE Meddle
  BY <1>7 DEF Meddle
<1>8. CASE UNCHANGED vars
  BY <1>8 DEF vars, history
<1> QED
  BY <1>1, <1>2, <1>3, <1>4, <1>5, <1>6, <1>7, <1>8 DEF Next

LEMMA DirectionKept == ASSUME IInv, Direction, [Next]_vars PROVE Direction'
<1> USE DEF Direction, Before
<1>1. CASE Begin
  BY <1>1 DEF Begin
<1>2. CASE Interrupted \/ Unsupported \/ EncryptPayload \/ WritePackage
  BY <1>2 DEF Interrupted, Unsupported, EncryptPayload, NativeError, WritePackage, Throw,
      history
<1>3. CASE ReadPackage \/ CopyPayload \/ DecryptPayload \/ WriteFails
  BY <1>3 DEF ReadPackage, CopyPayload, DecryptPayload, WriteFails, Throw, history
<1>4. CASE DeleteOld \/ DeleteOldFails \/ Move \/ MoveCopied \/ MoveFails
  BY <1>4 DEF DeleteOld, DeleteOldFails, Move, MoveCopied, MoveFails, Throw, history
<1>5. CASE Catch \/ Finally \/ CleanupFails \/ Cancel \/ Crash \/ Meddle
  BY <1>5 DEF Catch, Finally, CleanupFails, Cancel, Crash, Meddle, history
<1>6. CASE UNCHANGED vars
  BY <1>6 DEF vars, history
<1> QED
  BY <1>1, <1>2, <1>3, <1>4, <1>5, <1>6 DEF Next

Tagged(info, t) == [info EXCEPT !.tag = t]

\* The tag plays no part in the encryption.
LEMMA TagApart ==
  ASSUME NEW r, NEW n, NEW t
  PROVE  LET info == Chosen(r, n)
             tagged == Tagged(info, t)
         IN  /\ tagged.tag = t
             /\ tagged.salt = info.salt /\ tagged.iterationCount = info.iterationCount
             /\ tagged.keySizeBits = info.keySizeBits /\ tagged.algorithm = info.algorithm
             /\ tagged.padding = info.padding /\ tagged.iv = info.iv
  BY DEF Chosen, Tagged

\* EncryptFile's choices are such as ReadHeader accepts, once the tag is there.
LEMMA ChoiceAccepted ==
  ASSUME NEW r \in Requests, NEW n, NEW file,
         r.algorithm \in {"Cbc", "Ctr", "Gcm"}
  PROVE  ReadHeader(Tagged(Chosen(r, n), TagOf(file, Chosen(r, n))))
  BY RequestsAssumption
     DEF ReadHeader, Chosen, Tagged, TagOf, NoTag, IvLength, Paddings, KeySizes,
         DefaultIterationCount

LEMMA ChoiceMatches ==
  ASSUME NEW r, NEW n, NEW file, NEW password
  PROVE  LET payload == Encrypted(file, Chosen(r, n), password)
         IN  Matches(payload, Tagged(Chosen(r, n), TagOf(payload, Chosen(r, n))), password)
<1> DEFINE info == Chosen(r, n)
           payload == Encrypted(file, info, password)
           tag == TagOf(payload, info)
           tagged == Tagged(info, tag)
<1> HIDE DEF info, tag
<1>1. payload.kind = "cipher" /\ payload.text = file
  BY DEF Encrypted
<1>2. /\ tagged.tag = tag
      /\ tagged.salt = info.salt /\ tagged.iterationCount = info.iterationCount
      /\ tagged.keySizeBits = info.keySizeBits /\ tagged.algorithm = info.algorithm
      /\ tagged.padding = info.padding /\ tagged.iv = info.iv
  BY TagApart DEF info
<1> HIDE DEF tagged
<1>3. Encrypted(file, tagged, password) = payload
  BY <1>2 DEF Encrypted, KeyOf
<1> HIDE DEF payload
<1>4. TagOf(payload, tagged) = tag
  BY <1>2 DEF TagOf, tag
<1>5. Matches(payload, tagged, password)
  BY <1>1, <1>2, <1>3, <1>4 DEF Matches
<1> QED
  BY <1>5 DEF info, payload, tag, tagged

LEMMA ChosenKept ==
  ASSUME IInv, InputKept, Direction, PackageChosen, [Next]_vars PROVE PackageChosen'
<1> USE DEF PackageChosen
<1>1. CASE Begin
  BY <1>1 DEF Begin
<1>2. CASE EncryptPayload
  <2>1. CASE pc' = "writePackage"
    <3> DEFINE file == files[job.input]
               payload == Encrypted(file, package, job.password)
    <3>1. /\ package = Chosen(job, jobs) /\ file \in seen /\ seen' = seen /\ job' = job
          /\ Supported(job.engine, package.algorithm)
      BY <1>2 DEF EncryptPayload, InputKept, history
    <3>2. /\ package' = Tagged(package, TagOf(payload, package))
          /\ temp'.payload \in {payload, Partial}
          /\ "close" \notin faults' => temp'.payload = payload
      BY <1>2, <2>1
         DEF EncryptPayload, NativeError, Closed, Fault, EnsureSuccess, Throw, IInv, Shape, Tagged
    <3>3. payload.kind = "cipher" /\ payload.text = file /\ Partial.kind = "partial"
      BY DEF Encrypted, Partial
    <3>4. temp'.payload.kind = "cipher" => temp'.payload.text \in seen
      BY <3>1, <3>2, <3>3
    <3>5. job.algorithm \in {"Cbc", "Ctr", "Gcm"} /\ job \in Requests
      BY <3>1 DEF Supported, Chosen, IInv, Shape
    <3>6. ReadHeader(package')
      BY <3>1, <3>2, <3>5, ChoiceAccepted
    <3>7. Matches(payload, package', job.password)
      BY <3>1, <3>2, ChoiceMatches
    <3> HIDE DEF payload
    <3> QED
      BY <2>1, <3>1, <3>2, <3>4, <3>6, <3>7
  <2>2. CASE pc' # "writePackage"
    BY <1>2, <2>2 DEF EncryptPayload, NativeError, Throw
  <2> QED
    BY <2>1, <2>2
<1>3. CASE Interrupted \/ Unsupported \/ WritePackage \/ ReadPackage \/ CopyPayload
  BY <1>3 DEF Interrupted, Unsupported, WritePackage, ReadPackage, CopyPayload, Throw
<1>4. CASE DecryptPayload \/ WriteFails
  BY <1>4 DEF DecryptPayload, WriteFails, Throw
<1>5. CASE DeleteOld \/ DeleteOldFails \/ Move \/ MoveCopied \/ MoveFails
  BY <1>5 DEF DeleteOld, DeleteOldFails, Move, MoveCopied, MoveFails, Throw
<1>6. CASE Catch \/ Finally \/ CleanupFails \/ Crash
  BY <1>6 DEF Catch, Finally, CleanupFails, Crash
<1>7. CASE Cancel
  BY <1>7 DEF Cancel, history
<1>8. CASE Meddle
  <2>1. UNCHANGED <<temp, job, jobs, pc, package, faults>> /\ seen \subseteq seen'
    BY <1>8 DEF Meddle
  <2> QED
    BY <2>1
<1>9. CASE UNCHANGED vars
  BY <1>9 DEF vars, history
<1> QED
  BY <1>1, <1>2, <1>3, <1>4, <1>5, <1>6, <1>7, <1>8, <1>9 DEF Next

LEMMA ReadKept ==
  ASSUME IInv, InputKept, PackageRead, [Next]_vars PROVE PackageRead'
<1> USE DEF PackageRead
<1>1. CASE Begin
  BY <1>1 DEF Begin
<1>2. CASE ReadPackage
  BY <1>2 DEF ReadPackage, InputKept, history
<1>3. CASE CopyPayload
  <2>1. temp'.payload = From(files[job.input], HeaderLen(package))
    BY <1>3 DEF CopyPayload, IInv, Shape
  <2>2. files[job.input] \in seen
    BY <1>3 DEF CopyPayload, InputKept
  <2> QED
    BY <1>3, <2>1, <2>2 DEF CopyPayload, history
<1>4. CASE Interrupted \/ Unsupported \/ EncryptPayload \/ WritePackage
  BY <1>4 DEF Interrupted, Unsupported, EncryptPayload, NativeError, WritePackage, Throw
<1>5. CASE DecryptPayload \/ WriteFails
  BY <1>5 DEF DecryptPayload, WriteFails, Throw
<1>6. CASE DeleteOld \/ DeleteOldFails \/ Move \/ MoveCopied \/ MoveFails
  BY <1>6 DEF DeleteOld, DeleteOldFails, Move, MoveCopied, MoveFails, Throw
<1>7. CASE Catch \/ Finally \/ CleanupFails \/ Crash
  BY <1>7 DEF Catch, Finally, CleanupFails, Crash
<1>8. CASE Cancel
  BY <1>8 DEF Cancel, history
<1>9. CASE Meddle
  <2>1. UNCHANGED <<temp, pc, package>> /\ seen \subseteq seen'
    BY <1>9 DEF Meddle
  <2> QED
    BY <2>1
<1>10. CASE UNCHANGED vars
  BY <1>10 DEF vars, history
<1> QED
  BY <1>1, <1>2, <1>3, <1>4, <1>5, <1>6, <1>7, <1>8, <1>9, <1>10 DEF Next

\* What is read behind a header is a payload only of a file with such a header.
LEMMA PayloadOfPackage ==
  ASSUME NEW file, NEW info, From(file, HeaderLen(info)).kind = "cipher"
  PROVE  file.kind = "package" /\ From(file, HeaderLen(info)) = file.payload
  BY DEF From

LEMMA OwnPayload ==
  ASSUME NEW file, file.kind = "package"
  PROVE  From(file, HeaderLen(file.info)) = file.payload
  BY DEF From

LEMMA OpensMixed ==
  ASSUME NEW info, NEW payload, NEW password, Matches(payload, info, password)
  PROVE  Opens(PackageFile(info, payload), password)
  BY DEF Opens, PackageFile

\* Nothing else of a promise changes while the job runs on.
LEMMA PromiseKept ==
  ASSUME NEW result, Promised(result), UNCHANGED <<job, package>>, seen \subseteq seen',
         meddled # {} => meddled' # {}
  PROVE  Promised(result)'
<1>1. PICK version \in seen :
        IF job.encrypt
          THEN Opens(result, job.password) /\ result.payload.text = version
          ELSE \/ /\ Opens(version, job.password)
                  /\ result = Returned(version.payload, version.info)
               \/ /\ meddled # {} /\ version.kind = "package"
                  /\ \E other \in seen :
                       /\ Opens(PackageFile(version.info, other.payload), job.password)
                       /\ result = Returned(other.payload, version.info)
               \/ /\ package.algorithm # "Gcm" /\ result.kind = "garbled"
                  /\ meddled # {} \/ ~Opens(version, job.password)
  BY DEF Promised
<1>2. version \in seen' /\ job' = job /\ package' = package
  OBVIOUS
<1> QED
  BY <1>1, <1>2 DEF Promised

\* What a decryption that reports success has written.
LEMMA DecryptedOk ==
  ASSUME NEW payload, NEW info, NEW password,
         NEW r \in Decrypted(payload, info, password) \cup Refusal("IoError"), r[1] = "Ok"
  PROVE  /\ Matches(payload, info, password) => r[2] = Returned(payload, info)
         /\ ~Matches(payload, info, password) =>
              info.algorithm # "Gcm" /\ r[2] = Garbled(payload, info, password)
<1>1. \A status : r \in Refusal(status) => r[1] = status
  BY DEF Refusal
<1>2. r \in Decrypted(payload, info, password) /\ ~RefusedPayload(payload, info)
  BY <1>1 DEF Decrypted
<1>3. CASE Matches(payload, info, password)
  BY <1>2, <1>3 DEF Decrypted
<1>4. CASE ~Matches(payload, info, password)
  BY <1>1, <1>2, <1>4 DEF Decrypted
<1> QED
  BY <1>3, <1>4

LEMMA MadeInDecrypt ==
  ASSUME InputKept, Direction, PackageRead, DecryptPayload
  PROVE  MadeAsPromised'
<1> SUFFICES ASSUME made' # <<>>, "close" \notin faults' PROVE Promised(made[1])'
  BY DEF MadeAsPromised
<1>1. /\ pc = "decryptPayload" /\ ~job.encrypt /\ made = <<>>
      /\ UNCHANGED <<files, job, package, seen, meddled>>
  BY DEF DecryptPayload, Direction, Before
<1>2. PICK v \in seen : v.kind = "package" /\ v.info = package
  BY <1>1 DEF PackageRead
<1>3. PICK w \in seen : temp.payload = From(w, HeaderLen(package))
  BY <1>1 DEF PackageRead
<1>4. meddled = {} => v = w
  BY <1>1 DEF InputKept
<1>5. /\ Matches(temp.payload, package, job.password) =>
           made'[1] = Returned(temp.payload, package)
      /\ ~Matches(temp.payload, package, job.password) =>
           /\ package.algorithm # "Gcm"
           /\ made'[1] = Garbled(temp.payload, package, job.password)
  <2>1. PICK r \in Decrypted(temp.payload, package, job.password) \cup Refusal("IoError") :
          \E left \in {r[2], Partial} :
            /\ r[1] = "Ok" => Closed(r[2], left)
            /\ r[1] # "Ok" => made' = made
            /\ r[1] = "Ok" => made' = <<left>>
    BY DEF DecryptPayload, EnsureSuccess
  <2>2. r[1] = "Ok" /\ made' = <<r[2]>>
    BY <1>1, <2>1 DEF Closed, Fault
  <2>3. made'[1] = r[2]
    BY <2>2
  <2> QED
    BY <2>2, <2>3, DecryptedOk
<1>6. CASE Matches(temp.payload, package, job.password)
  <2>1. temp.payload.kind = "cipher"
    BY <1>6 DEF Matches
  <2>2. w.kind = "package" /\ temp.payload = w.payload
    BY <1>3, <2>1, PayloadOfPackage
  <2>3. /\ Opens(PackageFile(v.info, w.payload), job.password)
        /\ made'[1] = Returned(w.payload, v.info)
    BY <1>2, <1>5, <1>6, <2>2, OpensMixed
  <2>4. v = w => Opens(v, job.password)
    BY <1>2, <1>6, <2>2 DEF Opens
  <2>5. CASE meddled = {}
    BY <1>1, <1>4, <2>3, <2>4, <2>5 DEF Promised
  <2>6. CASE meddled # {}
    BY <1>1, <1>2, <2>3, <2>6 DEF Promised
  <2> QED
    BY <2>5, <2>6
<1>7. CASE ~Matches(temp.payload, package, job.password)
  <2>1. package.algorithm # "Gcm" /\ made'[1].kind = "garbled"
    BY <1>5, <1>7 DEF Garbled
  <2>2. v = w => ~Opens(v, job.password)
    BY <1>2, <1>3, <1>7, OwnPayload DEF Opens
  <2>3. meddled # {} \/ ~Opens(v, job.password)
    BY <1>4, <2>2
  <2> QED
    BY <1>1, <2>1, <2>3 DEF Promised
<1> QED
  BY <1>6, <1>7

LEMMA MadeKept ==
  ASSUME IInv, InputKept, Direction, PackageChosen, PackageRead, MadeAsPromised, [Next]_vars
  PROVE  MadeAsPromised'
<1>1. CASE Begin
  BY <1>1 DEF Begin, MadeAsPromised
<1>2. CASE EncryptPayload \/ ReadPackage
  BY <1>2 DEF EncryptPayload, ReadPackage, Direction, Before, history, MadeAsPromised
<1>3. CASE DecryptPayload
  BY <1>3, MadeInDecrypt
<1>4. CASE WritePackage
  <2>1. /\ job.encrypt /\ UNCHANGED <<job, seen, faults>>
        /\ made' = <<PackageFile(package, temp.payload)>>
    BY <1>4 DEF WritePackage, Direction, IInv, Shape
  <2>2. ASSUME "close" \notin faults
        PROVE  /\ Opens(PackageFile(package, temp.payload), job.password)
               /\ PackageFile(package, temp.payload).payload.text \in seen
    <3>1. /\ Matches(temp.payload, package, job.password)
          /\ temp.payload.kind = "cipher" => temp.payload.text \in seen
      BY <1>4, <2>2 DEF WritePackage, PackageChosen
    <3>2. temp.payload.kind = "cipher"
      BY <3>1 DEF Matches
    <3>3. PackageFile(package, temp.payload).payload = temp.payload
      BY DEF PackageFile
    <3> QED
      BY <3>1, <3>2, <3>3, OpensMixed
  <2> QED
    BY <2>1, <2>2 DEF MadeAsPromised, Promised
<1>5. CASE \/ Interrupted \/ Unsupported \/ CopyPayload \/ WriteFails \/ DeleteOld
           \/ DeleteOldFails \/ Move \/ MoveCopied \/ MoveFails \/ Catch \/ Finally
           \/ CleanupFails \/ Cancel \/ Crash \/ Meddle \/ UNCHANGED vars
  <2>1. /\ UNCHANGED <<job, package, made>> /\ seen \subseteq seen' /\ faults \subseteq faults'
        /\ meddled # {} => meddled' # {}
    BY <1>5
       DEF Interrupted, Unsupported, CopyPayload, WriteFails, DeleteOld, DeleteOldFails, Move,
           MoveCopied, MoveFails, Catch, Finally, CleanupFails, Cancel, Crash, Meddle, Fault,
           vars, history
  <2>2. Promised(made[1]) => Promised(made[1])'
    <3> SUFFICES ASSUME Promised(made[1]) PROVE Promised(made[1])'
      OBVIOUS
    <3>1. \A result : Promised(result) => Promised(result)'
      BY <2>1, PromiseKept
    <3> QED
      BY <2>1, <3>1
  <2> QED
    BY <2>1, <2>2 DEF MadeAsPromised
<1> QED
  BY <1>1, <1>2, <1>3, <1>4, <1>5 DEF Next

LEMMA CompleteKept ==
  ASSUME IInv, SuccessIsComplete, [Next]_vars PROVE SuccessIsComplete'
<1> USE DEF SuccessIsComplete, Ended, Alone, Complete
<1>1. CASE Begin
  BY <1>1 DEF Begin
<1>2. CASE Finally
  BY <1>2 DEF Finally, history, IInv, InFinally, Alone, Complete
<1>3. CASE ReadPackage \/ CleanupFails \/ Crash
  BY <1>3 DEF ReadPackage, CleanupFails, Crash, IInv, OutcomeOpen
<1>4. CASE \/ Interrupted \/ Unsupported \/ EncryptPayload \/ WritePackage \/ CopyPayload
           \/ DecryptPayload \/ WriteFails \/ DeleteOld \/ DeleteOldFails \/ Move
           \/ MoveCopied \/ MoveFails \/ Catch \/ Cancel \/ Meddle
  <2>1. pc' # "idle"
    BY <1>4
       DEF Interrupted, Unsupported, EncryptPayload, NativeError, WritePackage, CopyPayload,
           DecryptPayload, WriteFails, DeleteOld, DeleteOldFails, Move,
           MoveCopied, MoveFails, Catch, Cancel, Meddle, Throw
  <2> QED
    BY <2>1
<1>5. CASE UNCHANGED vars
  BY <1>5 DEF vars, history
<1> QED
  BY <1>1, <1>2, <1>3, <1>4, <1>5 DEF Next

-----------------------------------------------------------------------------
(* Why a job fails. *)

\* A package of ours with a header that is refused does not open.
LEMMA RefusalHasReason ==
  ASSUME IInv, InputKept, Direction, Origin, ReadPackage
  PROVE  FailureHasReason'
<1> SUFFICES ASSUME outcome' = "failure", faults' = {}, meddled' = {}, ~cancelled'
             PROVE  Excuse'
  BY DEF FailureHasReason
<1> DEFINE file == files[job.input]
<1>1. /\ pc = "readPackage" /\ ~job.encrypt /\ meddled = {} /\ start[job.input] = file
      /\ UNCHANGED <<files, job, start, cancelled, meddled>>
  BY DEF ReadPackage, Direction, InputKept, history
<1>2. CASE file.kind = "package" /\ ReadHeader(file.info)
  <2>1. outcome' = outcome
    BY <1>2 DEF ReadPackage, Fault
  <2> QED
    BY <1>1, <2>1 DEF IInv, OutcomeOpen
<1>3. CASE file.kind # "package"
  BY <1>1, <1>3 DEF Excuse, Opens
<1>4. CASE file.kind = "package" /\ ~ReadHeader(file.info)
  <2>1. file \in Outside \/ file.payload.kind # "cipher"
    <3>1. PICK S : Sound(S) /\ Covers(S)
      BY DEF Origin
    <3>2. file \in S
      BY <1>1, <3>1 DEF Covers, InputKept
    <3> QED
      BY <1>4, <3>1, <3>2 DEF Sound
  <2> QED
    BY <1>1, <2>1 DEF Excuse, Opens, Matches
<1> QED
  BY <1>2, <1>3, <1>4

LEMMA ReasonKept ==
  ASSUME IInv, InputKept, Direction, PackageRead, Origin, FailureHasReason, [Next]_vars
  PROVE  FailureHasReason'
<1> USE DEF FailureHasReason
<1>1. CASE Begin
  BY <1>1 DEF Begin, ValidateRequest, Excuse
<1>2. CASE Interrupted
  BY <1>2 DEF Interrupted, Proceeds
<1>3. CASE Unsupported
  BY <1>3 DEF Unsupported, Excuse
<1>4. CASE EncryptPayload
  <2> SUFFICES ASSUME outcome' = "failure", faults' = {}, meddled' = {}, ~cancelled'
               PROVE  Excuse'
    OBVIOUS
  <2>1. RefusedFile(files[job.input], package) /\ package' = package
    BY <1>4 DEF EncryptPayload, NativeError, Throw, Fault, IInv, OutcomeOpen
  <2>2. job.encrypt /\ start[job.input] = files[job.input] /\ UNCHANGED <<job, start>>
    BY <1>4 DEF EncryptPayload, Direction, InputKept, history
  <2>3. RefusedFile(start[job.input], package)
    BY <2>1, <2>2
  <2> QED
    BY <2>1, <2>2, <2>3 DEF Excuse, RefusedFile
<1>5. CASE WritePackage \/ CopyPayload
  <2>1. outcome = "none" /\ outcome' = outcome
    BY <1>5 DEF WritePackage, CopyPayload, IInv, OutcomeOpen
  <2> QED
    BY <2>1
<1>6. CASE ReadPackage
  BY <1>6, RefusalHasReason
<1>7. CASE DecryptPayload
  <2> SUFFICES ASSUME outcome' = "failure", faults' = {}, meddled' = {}, ~cancelled'
               PROVE  Excuse'
    OBVIOUS
  <2>1. /\ pc = "decryptPayload" /\ ~job.encrypt /\ meddled = {} /\ outcome = "none"
        /\ UNCHANGED <<job, start, package>>
    BY <1>7 DEF DecryptPayload, Direction, IInv, OutcomeOpen
  <2>2. PICK v \in seen : v.kind = "package" /\ v.info = package
    BY <2>1 DEF PackageRead
  <2>3. PICK w \in seen : temp.payload = From(w, HeaderLen(package))
    BY <2>1 DEF PackageRead
  <2>4. v = start[job.input] /\ w = v
    BY <2>1 DEF InputKept
  <2>5. \/ ~Matches(temp.payload, package, job.password)
        \/ RefusedPayload(temp.payload, package)
    BY <1>7, <2>1 DEF DecryptPayload, Decrypted, Refusal, EnsureSuccess, Throw, Fault
  <2>6. temp.payload = v.payload
    BY <2>2, <2>3, <2>4, OwnPayload
  <2>7. ~Opens(v, job.password) \/ RefusedPayload(v.payload, package)
    BY <2>2, <2>5, <2>6 DEF Opens
  <2> QED
    BY <2>1, <2>4, <2>7 DEF Excuse
<1>8. CASE WriteFails \/ DeleteOldFails \/ MoveFails \/ CleanupFails
  <2>1. faults' # {}
    BY <1>8 DEF WriteFails, DeleteOldFails, MoveFails, CleanupFails, Fault
  <2> QED
    BY <2>1
<1>9. CASE DeleteOld \/ Move \/ MoveCopied \/ Catch \/ Finally
  <2>1. /\ UNCHANGED <<job, package, cancelled, start, meddled>> /\ faults \subseteq faults'
        /\ outcome' = "failure" => outcome = "failure"
    BY <1>9 DEF DeleteOld, Move, MoveCopied, Catch, Finally, Fault, history
  <2> QED
    BY <2>1 DEF Excuse
<1>10. CASE Cancel \/ Crash \/ Meddle
  BY <1>10 DEF Cancel, Crash, Meddle
<1>11. CASE UNCHANGED vars
  BY <1>11 DEF vars, history, Excuse
<1> QED
  BY <1>1, <1>2, <1>3, <1>4, <1>5, <1>6, <1>7, <1>8, <1>9, <1>10, <1>11 DEF Next

\* At first there is Outside, and what its packages contain.
LEMMA InitOrigin == Init => Origin
<1> SUFFICES ASSUME Init PROVE Origin
  OBVIOUS
<1> DEFINE Sealed == {f \in Outside : f.kind = "package" /\ f.payload.kind = "cipher"}
           S == Outside \cup {None, Partial} \cup {f.payload.text : f \in Sealed}
<1>1. Sound(S)
  <2> SUFFICES ASSUME NEW c \in S, c.kind = "package"
               PROVE  c \in Outside /\ (c.payload.kind = "cipher" => c.payload.text \in S)
    BY DEF Sound
  <2>1. c # None /\ c # Partial
    BY DEF None, Partial
  <2>2. c \in Outside
    BY <2>1, OutsideAssumption
  <2> QED
    BY <2>2
<1>2. Covers(S)
  <2>1. \A f \in Files : files[f] \in Outside \cup {None}
    BY DEF Init
  <2>2. seen = {} /\ pc = "idle"
    BY DEF Init
  <2> QED
    BY <2>1, <2>2 DEF Covers
<1> QED
  BY <1>1, <1>2 DEF Origin

\* What a job makes of files in a set is in the set with it.
LEMMA SoundWith ==
  ASSUME NEW S, Sound(S), NEW c,
         c.kind = "package" => /\ ReadHeader(c.info) \/ c.payload.kind # "cipher"
                               /\ c.payload.kind = "cipher" => c.payload.text \in S
  PROVE  Sound(S \cup {c})
  BY DEF Sound

\* A file that has lost its end contains nothing of interest.
LEMMA StrippedIsPoor ==
  ASSUME NEW file
  PROVE  \/ Stripped(file) = file
         \/ Stripped(file).kind = "package" => Stripped(file).payload.kind # "cipher"
<1>1. CASE ~EndsInZeros(file)
  BY <1>1 DEF Stripped
<1>2. CASE EndsInZeros(file) /\ file.kind = "package" /\ ~NoBytes(file.payload)
  <2>1. Stripped(file) = [file EXCEPT !.payload = [kind |-> "stripped", of |-> file.payload]]
    BY <1>2 DEF Stripped
  <2>2. \/ Stripped(file).payload = [kind |-> "stripped", of |-> file.payload]
        \/ Stripped(file) = file
    BY <2>1
  <2> QED
    BY <2>2
<1>3. CASE EndsInZeros(file) /\ ~(file.kind = "package" /\ ~NoBytes(file.payload))
  BY <1>3 DEF Stripped
<1> QED
  BY <1>1, <1>2, <1>3

LEMMA OriginKept ==
  ASSUME IInv, InputKept, PackageChosen, PackageRead, Origin, [Next]_vars
  PROVE  Origin'
<1>1. PICK S : Sound(S) /\ Covers(S)
  BY DEF Origin
<1>2. CASE WritePackage
  <2>0. PICK c : c = PackageFile(package, temp.payload)
    OBVIOUS
  <2>1. /\ ReadHeader(package)
        /\ temp.payload.kind = "cipher" => temp.payload.text \in S
    BY <1>1, <1>2 DEF WritePackage, PackageChosen, Covers
  <2>2. c.info = package /\ c.payload = temp.payload
    BY <2>0 DEF PackageFile
  <2>3. temp'.output = c /\ UNCHANGED <<files, seen>>
    BY <1>2, <2>0 DEF WritePackage, IInv, Shape
  <2>4. Sound(S \cup {c})
    BY <1>1, <2>1, <2>2, SoundWith
  <2>5. Covers(S \cup {c})'
    BY <1>1, <2>3 DEF Covers
  <2> QED
    BY <2>4, <2>5 DEF Origin, Sound
<1>3. CASE DecryptPayload
  <2>1. PICK r \in Decrypted(temp.payload, package, job.password) \cup Refusal("IoError") :
          \E left \in {r[2], Partial} :
            /\ temp' = [temp EXCEPT !.output = left]
            /\ r[1] # "Ok" => pc' = "catch"
    BY <1>3 DEF DecryptPayload, EnsureSuccess, Throw
  <2>2. temp'.output \in {r[2], Partial} /\ UNCHANGED <<files, seen>>
    BY <1>3, <2>1 DEF DecryptPayload, IInv, Shape
  <2>3. CASE r[1] # "Ok"
    BY <1>1, <2>1, <2>2, <2>3 DEF Origin, Covers, Sound
  <2>4. CASE r[1] = "Ok" /\ Matches(temp.payload, package, job.password)
    <3>0. PICK c : c = Returned(temp.payload, package)
      OBVIOUS
    <3>1. r[2] = c
      BY <2>1, <2>4, <3>0, DecryptedOk
    <3>2. PICK w \in seen : temp.payload = From(w, HeaderLen(package))
      BY <1>3 DEF DecryptPayload, PackageRead
    <3>3. temp.payload.kind = "cipher"
      BY <2>4 DEF Matches
    <3>4. w.kind = "package" /\ temp.payload = w.payload /\ w \in S
      BY <1>1, <3>2, <3>3, PayloadOfPackage DEF Covers
    <3>5. temp.payload.text \in S
      BY <1>1, <3>3, <3>4 DEF Sound
    <3>6. c \in {temp.payload.text, Stripped(temp.payload.text)}
      BY <3>0 DEF Returned
    <3>7. c \in S \/ (c.kind = "package" => c.payload.kind # "cipher")
      BY <3>5, <3>6, StrippedIsPoor
    <3>8. Sound(S \cup {c})
      <4>1. CASE c \in S
        <5>1. S \cup {c} = S
          BY <4>1
        <5> QED
          BY <1>1, <5>1
      <4>2. CASE c.kind = "package" => c.payload.kind # "cipher"
        BY <1>1, <4>2, SoundWith
      <4> QED
        BY <3>7, <4>1, <4>2
    <3>9. Covers(S \cup {c})'
      BY <1>1, <2>2, <3>1 DEF Covers
    <3> QED
      BY <3>8, <3>9 DEF Origin, Sound
  <2>5. CASE r[1] = "Ok" /\ ~Matches(temp.payload, package, job.password)
    <3>0. PICK c : c = Garbled(temp.payload, package, job.password)
      OBVIOUS
    <3>1. r[2] = c
      BY <2>1, <2>5, <3>0, DecryptedOk
    <3>2. c.kind # "package"
      BY <3>0 DEF Garbled
    <3>3. Sound(S \cup {c})
      BY <1>1, <3>2, SoundWith
    <3>4. Covers(S \cup {c})'
      BY <1>1, <2>2, <3>1 DEF Covers
    <3> QED
      BY <3>3, <3>4 DEF Origin, Sound
  <2> QED
    BY <2>3, <2>4, <2>5
<1>4. Sound(S)'
  BY <1>1 DEF Sound
<1>5. CASE Begin
  <2>1. seen' \subseteq S
    BY <1>1, <1>5, RequestsAssumption DEF Begin, Covers
  <2>2. files' = files /\ pc' \notin {"finish", "move", "copying"}
    BY <1>5 DEF Begin
  <2> QED
    BY <1>1, <1>4, <2>1, <2>2 DEF Origin, Covers
<1>6. CASE Meddle
  <2>1. PICK f \in {job.input, job.output}, content \in Outside \cup {None} :
          /\ files' = [files EXCEPT ![f] = content]
          /\ seen' = IF f = job.input THEN seen \cup {content} ELSE seen
    BY <1>6 DEF Meddle
  <2>2. content \in S /\ seen' \subseteq S /\ UNCHANGED <<temp, pc>>
    BY <1>1, <1>6, <2>1 DEF Covers, Meddle
  <2>3. \A g \in Files : files'[g] \in S
    BY <1>1, <2>1, <2>2 DEF Covers, IInv, Shape
  <2> QED
    BY <1>1, <1>4, <2>2, <2>3 DEF Origin, Covers
<1>7. CASE \/ Interrupted \/ Unsupported \/ EncryptPayload \/ ReadPackage \/ CopyPayload
           \/ WriteFails \/ DeleteOldFails \/ Catch \/ Finally \/ CleanupFails
           \/ Cancel \/ Crash \/ UNCHANGED vars
  <2>1. /\ UNCHANGED <<files, seen>>
        /\ pc' \in {"finish", "move", "copying"} => UNCHANGED <<pc, temp>>
    BY <1>7
       DEF Interrupted, Unsupported, EncryptPayload, NativeError, ReadPackage, CopyPayload,
           WriteFails, DeleteOldFails, Catch, Finally, CleanupFails, Cancel, Crash, Throw, vars, history
  <2> QED
    BY <1>1, <1>4, <2>1 DEF Origin, Covers
<1>8. CASE DeleteOld \/ Move \/ MoveCopied \/ MoveFails
  <2>1. /\ UNCHANGED seen
        /\ pc' \in {"finish", "move", "copying"} => UNCHANGED temp
        /\ pc \in {"finish", "move", "copying"}
        /\ \/ UNCHANGED files
           \/ \E c \in {None, Partial, temp.output} : files' = [files EXCEPT ![job.output] = c]
    BY <1>8 DEF DeleteOld, Move, MoveCopied, MoveFails, Throw, history
  <2>2. \A g \in Files : files'[g] \in S
    BY <1>1, <2>1 DEF Covers, IInv, Shape
  <2> QED
    BY <1>1, <1>4, <2>1, <2>2 DEF Origin, Covers
<1> QED
  BY <1>2, <1>3, <1>5, <1>6, <1>7, <1>8 DEF Next

-----------------------------------------------------------------------------
LEMMA InitJob == Init => JInv /\ Origin
<1> SUFFICES ASSUME Init PROVE JInv /\ Origin
  OBVIOUS
<1>1. IInv /\ JobsRange /\ Origin
  BY InitIsGood, InitRange, InitOrigin
<1>2. pc = "idle" /\ outcome = "none" /\ made = <<>>
  BY DEF Init
<1>3. /\ InputKept /\ Direction /\ PackageChosen /\ PackageRead
      /\ MadeAsPromised /\ SuccessIsComplete /\ FailureHasReason
  BY <1>2
     DEF InputKept, Direction, Before, PackageChosen, PackageRead, MadeAsPromised,
         SuccessIsComplete, FailureHasReason, Ended
<1> QED
  BY <1>1, <1>3 DEF JInv

LEMMA JobStep == ASSUME JInv, Origin, [Next]_vars PROVE JInv' /\ Origin'
<1>1. /\ IInv /\ JobsRange /\ InputKept /\ Direction /\ PackageChosen /\ PackageRead
      /\ MadeAsPromised /\ SuccessIsComplete /\ FailureHasReason
  BY DEF JInv
<1>2. IInv' /\ JobsRange' /\ InputKept' /\ Direction'
  BY <1>1, StepKeeps, RangeKept, InputStays, DirectionKept
<1>3. PackageChosen' /\ PackageRead' /\ Origin'
  BY <1>1, ChosenKept, ReadKept, OriginKept
<1>4. MadeAsPromised' /\ SuccessIsComplete' /\ FailureHasReason'
  BY <1>1, MadeKept, CompleteKept, ReasonKept
<1> QED
  BY <1>2, <1>3, <1>4 DEF JInv

THEOREM JobInvariance == Spec => []JInv
<1>1. Init => JInv /\ Origin
  BY InitJob
<1>2. JInv /\ Origin /\ [Next]_vars => (JInv /\ Origin)'
  BY JobStep
<1> QED
  BY <1>1, <1>2, PTL DEF Spec

\* The types; what EncryptFile writes and what DecryptFile works with are headers that
\* ReadHeader accepts.
THEOREM SingleFileTypes == Spec => []TypeOK
<1>1. JInv => TypeOK
  BY DEF JInv, IInv, Shape, JobsRange, PackageChosen, PackageRead, TypeOK
<1> QED
  BY <1>1, JobInvariance, PTL

\* When EncryptFile or DecryptFile returns, the file that FinalizeOutputFile has moved into
\* place is what was promised of a version of the input.
THEOREM SuccessesAreWhole == Spec => []SuccessIsWhole
<1>1. JInv => SuccessIsWhole
  <2> SUFFICES ASSUME JInv, Ended("success"), Alone, "close" \notin faults
               PROVE  Promised(files[job.output])
    BY DEF SuccessIsWhole, Promised, Alone
  <2>1. made = <<files[job.output]>>
    BY DEF JInv, SuccessIsComplete, Complete
  <2> QED
    BY <2>1 DEF JInv, MadeAsPromised
<1> QED
  BY <1>1, JobInvariance, PTL

\* Execute throws only for a reason: the request, the engine, a file that its padding has no
\* answer for, a package of another origin or password, or something that failed around it.
THEOREM FailuresHaveReasons == Spec => []NoNeedlessFailure
<1>1. JInv => NoNeedlessFailure
  BY DEF JInv, FailureHasReason, Excuse, NoNeedlessFailure, Ended
<1> QED
  BY <1>1, JobInvariance, PTL
=============================================================================
