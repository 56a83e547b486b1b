-------------------------- MODULE OclContextProofs --------------------------
(***************************************************************************)
(* Theorems about OclContext for every set of callers, keys and requests,  *)
(* every block size and every chunk table: what the context keeps, what a  *)
(* failing call leaves for its caller, what gcm_decrypt decrypts, and that *)
(* the library implements AesService.                                      *)
(***************************************************************************)
EXTENDS OclContext, TLAPS

-----------------------------------------------------------------------------
(* Sizes are numbers *)

LEMMA DivNat == ASSUME NEW a \in Nat, NEW d \in Nat \ {0} PROVE a \div d \in Nat
  OBVIOUS

LEMMA BlockCountNat == ASSUME NEW n \in Nat PROVE BlockCount(n) \in Nat
  <1>1. n + BlockBytes - 1 \in Nat /\ BlockBytes \in Nat \ {0}
    BY BlockBytesAssumption
  <1>2. QED
    BY <1>1, DivNat DEF BlockCount

LEMMA NumBlocksNat == ASSUME NEW r \in Requests PROVE NumBlocks(r) \in Nat
  BY BlockCountNat, RequestAssumption DEF NumBlocks

LEMMA ChunkCountNat == ASSUME NEW n \in Nat PROVE ChunkCount(n) \in Nat
  <1>1. ChunkBlocks(n) \in Nat \ {0}
    BY ChunkAssumption DEF ChunkBlocks
  <1>2. n + ChunkBlocks(n) - 1 \in Nat
    BY <1>1
  <1>3. QED
    BY <1>1, <1>2, DivNat DEF ChunkCount

-----------------------------------------------------------------------------
(* Type correctness *)

\* A call has arguments, knows where initialisation leads and which stage is next.
CallOK(c) ==
  /\ pc[c] # "idle" => req[c] \in Requests
  /\ pc[c] \in {"init", "build"} => goal[c] \in {"io", "ghash_io"}
  /\ pc[c] = "build" => stage[c] \in Stages

CallsOK == \A c \in Callers : CallOK(c)

\* A field never holds a released handle.
NothingDangles == \A s \in held : live[s] >= 1

TypeInv == ContextTypes /\ CallsOK /\ NothingDangles

\* What the steps that end a call or move it on do to the callers' part of TypeInv.
LEMMA ReturnTypes ==
  ASSUME TypeInv, NEW c \in Callers, NEW res, Return(c, res)
  PROVE  /\ pc' \in [Callers -> Steps]
         /\ goal' \in [Callers -> {"none", "io", "ghash_io"}]
         /\ stage' \in [Callers -> 0 .. 7]
         /\ verified' \in [Callers -> BOOLEAN]
         /\ req' \in [Callers -> Requests \cup {None}]
         /\ CallsOK'
  BY DEF TypeInv, ContextTypes, CallsOK, CallOK, Return, Steps

LEMMA GoToTypes ==
  ASSUME TypeInv, NEW c \in Callers, NEW step, GoTo(c, step),
         pc[c] # "idle", step \in Steps \ {"idle", "init", "build"}
  PROVE  /\ pc' \in [Callers -> Steps]
         /\ goal' \in [Callers -> {"none", "io", "ghash_io"}]
         /\ stage' \in [Callers -> 0 .. 7]
         /\ verified' \in [Callers -> BOOLEAN]
         /\ req' \in [Callers -> Requests \cup {None}]
         /\ CallsOK'
  BY DEF TypeInv, ContextTypes, CallsOK, CallOK, GoTo, Steps

LEMMA InitThenTypes ==
  ASSUME TypeInv, NEW c \in Callers, NEW g, InitThen(c, g),
         pc[c] # "idle", g \in {"io", "ghash_io"}
  PROVE  /\ pc' \in [Callers -> Steps]
         /\ goal' \in [Callers -> {"none", "io", "ghash_io"}]
         /\ stage' \in [Callers -> 0 .. 7]
         /\ verified' \in [Callers -> BOOLEAN]
         /\ req' \in [Callers -> Requests \cup {None}]
         /\ CallsOK'
  BY DEF TypeInv, ContextTypes, CallsOK, CallOK, InitThen, Steps

\* Releasing and creating keep the counts natural and every held handle alive.
LEMMA ReleaseTypes ==
  ASSUME TypeInv, NEW S, Release(S)
  PROVE  held' \subseteq Slots /\ live' \in [Slots -> Nat] /\ NothingDangles'
  BY DEF TypeInv, ContextTypes, NothingDangles, Release, AfterRelease

LEMMA RecreateTypes ==
  ASSUME TypeInv, NEW S \in SUBSET Slots, Recreate(S)
  PROVE  held' \subseteq Slots /\ live' \in [Slots -> Nat] /\ NothingDangles'
  BY DEF TypeInv, ContextTypes, NothingDangles, Recreate, AfterCreate, AfterRelease

\* The rung that succeeds, but for the objects it creates.
Built(c) ==
  /\ IF stage[c] = 7
       THEN /\ inited' = TRUE
            /\ pc' = [pc EXCEPT ![c] = goal[c]]
            /\ stage' = [stage EXCEPT ![c] = 0]
       ELSE /\ stage' = [stage EXCEPT ![c] = stage[c] + 1]
            /\ UNCHANGED <<inited, pc>>
  /\ rk_dev' \in {Undefined, rk_dev}
  /\ UNCHANGED <<last_error, goal, verified, req, result, bufferVars, dataVars, cached_key>>

LEMMA BuildStageCases ==
  ASSUME NEW c \in Callers, BuildStage(c)
  PROVE  \/ Fail(c, "INTERNAL_ERROR") /\ Release(Undoes(stage[c])) /\ UNCHANGED inited
         \/ /\ held' = held \cup Makes[stage[c]]
            /\ live' = AfterCreate(live, Makes[stage[c]])
            /\ Built(c)
  BY DEF BuildStage, Built, bufferVars, dataVars

LEMMA TypeInvInit == Init => TypeInv
  <1> SUFFICES ASSUME Init PROVE TypeInv
    OBVIOUS
  <1>1. ContextTypes
    <2>1. live \in [Slots -> Nat] /\ size \in [Sized -> Nat]
      BY DEF Init
    <2>2. pc \in [Callers -> Steps] /\ stage \in [Callers -> 0 .. 7]
      BY DEF Init, Steps
    <2>3. QED
      BY <2>1, <2>2 DEF Init, ContextTypes
  <1>2. CallsOK /\ NothingDangles
    BY DEF Init, CallsOK, CallOK, NothingDangles
  <1>3. QED
    BY <1>1, <1>2 DEF TypeInv

LEMMA TypeInvNext == TypeInv /\ [Next]_vars => TypeInv'
  <1> SUFFICES ASSUME TypeInv, [Next]_vars PROVE TypeInv'
    OBVIOUS
  <1> USE DEF contextVars, handleVars, bufferVars, dataVars, keyVars
  <1>1. ASSUME UNCHANGED vars PROVE TypeInv'
    BY <1>1 DEF vars, callVars, TypeInv, ContextTypes, CallsOK, CallOK, NothingDangles
  <1>2. ASSUME NEW c \in Callers, Start(c) PROVE TypeInv'
    BY <1>2 DEF Start, TypeInv, ContextTypes, CallsOK, CallOK, NothingDangles, Steps
  <1>3. ASSUME NEW c \in Callers, Shutdown(c) PROVE TypeInv'
    <2>1. live' \in [Slots -> Nat]
      BY <1>3 DEF Shutdown, AfterRelease, TypeInv, ContextTypes, NothingDangles
    <2>2. QED
      BY <1>3, <2>1 DEF Shutdown, Memset, callVars, TypeInv, ContextTypes, CallsOK, CallOK,
         NothingDangles
  <1>4. ASSUME NEW c \in Callers, Enter(c) PROVE TypeInv'
    <2>1. CASE InitThen(c, IF req[c].text.len = 0 THEN "ghash_io" ELSE "io")
               /\ UNCHANGED last_error
      BY <1>4, <2>1, InitThenTypes DEF Enter, TypeInv, ContextTypes, NothingDangles
    <2>2. CASE \E status : ReturnStatus(c, status) /\ last_error' \in {"own", last_error}
      BY <1>4, <2>2, ReturnTypes DEF ReturnStatus, Enter, TypeInv, ContextTypes, NothingDangles
    <2>3. QED
      BY <1>4, <2>1, <2>2 DEF Enter, Fail
  <1>5. ASSUME NEW c \in Callers, InitReady(c) PROVE TypeInv'
    <2>1. goal[c] \in Steps \ {"idle", "init", "build"} /\ pc[c] # "idle"
      BY <1>5 DEF InitReady, TypeInv, CallsOK, CallOK, Steps
    <2>2. QED
      BY <1>5, <2>1, GoToTypes DEF InitReady, TypeInv, ContextTypes, NothingDangles
  <1>6. ASSUME NEW c \in Callers, InitBegin(c) PROVE TypeInv'
    <2>1. CASE Fail(c, "UNSUPPORTED")
      BY <1>6, <2>1, ReturnTypes DEF InitBegin, Memset, Fail, ReturnStatus, TypeInv, ContextTypes,
         NothingDangles
    <2>2. CASE ~Fail(c, "UNSUPPORTED")
      BY <1>6, <2>2 DEF InitBegin, Memset, TypeInv, ContextTypes, CallsOK, CallOK, NothingDangles,
         Steps, Stages
    <2>3. QED
      BY <2>1, <2>2
  <1>7. ASSUME NEW c \in Callers, BuildStage(c) PROVE TypeInv'
    <2>1. CASE Fail(c, "INTERNAL_ERROR") /\ Release(Undoes(stage[c]))
      BY <1>7, <2>1, ReturnTypes, ReleaseTypes
         DEF BuildStage, Fail, ReturnStatus, TypeInv, ContextTypes
    <2>2. CASE held' = held \cup Makes[stage[c]]
               /\ live' = AfterCreate(live, Makes[stage[c]]) /\ Built(c)
      <3>1. stage[c] \in Stages /\ goal[c] \in {"io", "ghash_io"}
        BY <1>7 DEF BuildStage, TypeInv, CallsOK, CallOK
      <3>2. Makes[stage[c]] \subseteq Slots
        BY <3>1 DEF Slots, Core
      <3>3. live' \in [Slots -> Nat] /\ NothingDangles'
        BY <2>2, <3>2 DEF TypeInv, ContextTypes, NothingDangles, AfterCreate
      <3>4. CASE Built(c)
        <4>1. pc' \in [Callers -> Steps] /\ stage' \in [Callers -> 0 .. 7] /\ inited' \in BOOLEAN
          <5>1. CASE stage[c] = 7
            BY <3>1, <3>4, <5>1 DEF Built, TypeInv, ContextTypes, Steps
          <5>2. CASE stage[c] # 7
            BY <3>1, <3>4, <5>2 DEF Built, TypeInv, ContextTypes, Stages
          <5>3. QED
            BY <5>1, <5>2
        <4>2. CallsOK'
          <5>1. CASE stage[c] = 7
            <6>1. pc' = [pc EXCEPT ![c] = goal[c]] /\ UNCHANGED <<goal, req>>
                  /\ stage' = [stage EXCEPT ![c] = 0] /\ pc[c] # "idle"
              BY <1>7, <3>4, <5>1 DEF Built, BuildStage
            <6>2. goal[c] \notin {"idle", "init", "build"}
              BY <3>1
            <6>3. QED
              BY <6>1, <6>2 DEF TypeInv, ContextTypes, CallsOK, CallOK
          <5>2. CASE stage[c] # 7
            <6>1. stage' = [stage EXCEPT ![c] = stage[c] + 1] /\ UNCHANGED <<pc, goal, req>>
              BY <3>4, <5>2 DEF Built
            <6>2. stage[c] + 1 \in Stages
              BY <3>1, <5>2 DEF Stages
            <6> HIDE DEF Stages
            <6>3. QED
              BY <6>1, <6>2 DEF TypeInv, ContextTypes, CallsOK, CallOK
          <5>3. QED
            BY <5>1, <5>2
        <4>3. QED
          BY <2>2, <3>2, <3>3, <3>4, <4>1, <4>2 DEF Built, TypeInv, ContextTypes
      <3>5. QED
        BY <2>2, <3>4
    <2>3. QED
      BY <1>7, <2>1, <2>2, BuildStageCases
  <1>8. ASSUME NEW c \in Callers, EnsureIo(c) PROVE TypeInv'
    <2>1. req[c].text.len \in Nat /\ pc[c] # "idle"
      BY <1>8, RequestAssumption DEF EnsureIo, TypeInv, CallsOK, CallOK
    <2>2. IoBufs \in SUBSET Slots
      BY DEF Slots
    <2>0. AfterIo(c) \in Steps \ {"idle", "init", "build"}
      BY DEF AfterIo, Steps
    <2>3. CASE GoTo(c, AfterIo(c)) /\ UNCHANGED <<contextVars, last_error>>
      BY <2>0, <2>1, <2>3, GoToTypes DEF TypeInv, ContextTypes, NothingDangles
    <2>4. CASE /\ Recreate(IoBufs) /\ GoTo(c, AfterIo(c)) /\ io_capacity' = req[c].text.len
               /\ size' = [b \in Sized |-> IF b \in IoBufs THEN req[c].text.len ELSE size[b]]
               /\ UNCHANGED <<last_error, inited, ghash_blocks_capacity, ghash_chunks_capacity,
                              blocks_dev, keyVars>>
      BY <2>0, <2>1, <2>2, <2>4, GoToTypes, RecreateTypes DEF TypeInv, ContextTypes
    <2>5. CASE Release(IoBufs) /\ Fail(c, "INTERNAL_ERROR")
      BY <1>8, <2>1, <2>5, ReturnTypes, ReleaseTypes DEF EnsureIo, Fail, ReturnStatus, TypeInv,
         ContextTypes
    <2>6. QED
      BY <1>8, <2>3, <2>4, <2>5 DEF EnsureIo
  <1>9. ASSUME NEW c \in Callers, UploadKey(c) PROVE TypeInv'
    <2>1. req[c].key \in Keys \cup {BadKey} /\ pc[c] # "idle"
      BY <1>9, RequestAssumption DEF UploadKey, TypeInv, CallsOK, CallOK
    <2>2. CASE \E status : Fail(c, status)
      BY <1>9, <2>1, <2>2, ReturnTypes DEF UploadKey, Fail, ReturnStatus, TypeInv, ContextTypes,
         NothingDangles
    <2>3. CASE \E step \in {"launch", "write"} : GoTo(c, step) /\ UNCHANGED last_error
      BY <1>9, <2>1, <2>3, GoToTypes DEF UploadKey, TypeInv, ContextTypes, NothingDangles, Steps
    <2>4. QED
      BY <1>9, <2>2, <2>3 DEF UploadKey
  <1>10. ASSUME NEW c \in Callers, WriteInput(c) PROVE TypeInv'
    <2>1. pc[c] # "idle"
      BY <1>10 DEF WriteInput
    <2>2. CASE Fail(c, "INTERNAL_ERROR")
      BY <1>10, <2>2, ReturnTypes DEF WriteInput, Fail, ReturnStatus, TypeInv, ContextTypes,
         NothingDangles
    <2>3. CASE InitThen(c, "ghash_io") /\ UNCHANGED last_error
      BY <1>10, <2>1, <2>3, InitThenTypes DEF WriteInput, TypeInv, ContextTypes, NothingDangles
    <2>4. CASE GoTo(c, "launch") /\ UNCHANGED last_error
      BY <1>10, <2>1, <2>4, GoToTypes DEF WriteInput, TypeInv, ContextTypes, NothingDangles, Steps
    <2>5. QED
      BY <1>10, <2>2, <2>3, <2>4 DEF WriteInput
  <1>11. ASSUME NEW c \in Callers, Launch(c) PROVE TypeInv'
    <2>1. pc[c] # "idle"
      BY <1>11 DEF Launch
    <2>2. CASE Fail(c, "INTERNAL_ERROR")
      BY <1>11, <2>2, ReturnTypes DEF Launch, Fail, ReturnStatus, TypeInv, ContextTypes,
         NothingDangles
    <2>3. CASE GoTo(c, "read") /\ UNCHANGED last_error
      BY <1>11, <2>1, <2>3, GoToTypes DEF Launch, TypeInv, ContextTypes, NothingDangles, Steps
    <2>4. QED
      BY <1>11, <2>2, <2>3 DEF Launch
  <1>12. ASSUME NEW c \in Callers, ReadOutput(c) PROVE TypeInv'
    <2>1. pc[c] # "idle"
      BY <1>12 DEF ReadOutput
    <2>2. CASE (\E res : Return(c, res)) /\ last_error' \in {"own", last_error}
      BY <1>12, <2>2, ReturnTypes DEF ReadOutput, TypeInv, ContextTypes, NothingDangles
    <2>3. CASE InitThen(c, "ghash_io") /\ UNCHANGED last_error
      BY <1>12, <2>1, <2>3, InitThenTypes DEF ReadOutput, TypeInv, ContextTypes, NothingDangles
    <2>4. QED
      BY <1>12, <2>2, <2>3 DEF ReadOutput
  <1>13. ASSUME NEW c \in Callers, GhashEnsure(c) PROVE TypeInv'
    <2> DEFINE n == NumBlocks(req[c])
    <2>1. n \in Nat /\ ChunkCount(n) \in Nat /\ pc[c] # "idle"
      BY <1>13, NumBlocksNat, ChunkCountNat DEF GhashEnsure, TypeInv, CallsOK, CallOK
    <2>2. GhashBufs \in SUBSET Slots
      BY DEF Slots
    <2> HIDE DEF n
    <2>3. CASE GoTo(c, "ghash_aad") /\ UNCHANGED <<contextVars, last_error>>
      BY <2>1, <2>3, GoToTypes DEF Steps, TypeInv, ContextTypes, NothingDangles
    <2>4. CASE /\ Recreate(GhashBufs) /\ GoTo(c, "ghash_aad")
               /\ ghash_blocks_capacity' = n /\ ghash_chunks_capacity' = ChunkCount(n)
               /\ size' = [b \in Sized |-> CASE b = "ghash_blocks_buf" -> n
                                             [] b = "ghash_chunks_buf" -> ChunkCount(n)
                                             [] OTHER -> size[b]]
               /\ UNCHANGED <<last_error, inited, io_capacity, keyVars>>
      <3>1. size' \in [Sized -> Nat]
        BY <2>1, <2>4 DEF TypeInv, ContextTypes
      <3>2. "ghash_aad" \in Steps \ {"idle", "init", "build"}
        BY DEF Steps
      <3>3. QED
        BY <2>1, <2>2, <2>4, <3>1, <3>2, GoToTypes, RecreateTypes DEF TypeInv, ContextTypes
    <2>5. CASE /\ Release(GhashBufs) /\ Fail(c, "INTERNAL_ERROR")
               /\ ghash_blocks_capacity' = 0 /\ ghash_chunks_capacity' = 0
               /\ UNCHANGED <<size, inited, io_capacity, keyVars>>
      BY <2>5, ReturnTypes, ReleaseTypes DEF Fail, ReturnStatus, TypeInv, ContextTypes
    <2>6. QED
      BY <1>13, <2>3, <2>4, <2>5 DEF GhashEnsure, n
  <1>14. ASSUME NEW c \in Callers, GhashAad(c) \/ GhashCt(c) \/ GhashLen(c) PROVE TypeInv'
    <2>1. PICK f : \E step \in {"ghash_ct", "ghash_len", "ghash_run"} : Gather(c, f, step)
      BY <1>14 DEF GhashAad, GhashCt, GhashLen
    <2> PICK next \in {"ghash_ct", "ghash_len", "ghash_run"} : Gather(c, f, next)
      BY <2>1
    <2>2. pc[c] # "idle"
      BY <1>14 DEF GhashAad, GhashCt, GhashLen
    <2>3. CASE Fail(c, "INTERNAL_ERROR")
      BY <2>3, ReturnTypes DEF Gather, Fail, ReturnStatus, TypeInv, ContextTypes,
         NothingDangles
    <2>4. CASE GoTo(c, next) /\ UNCHANGED last_error
      BY <2>2, <2>4, GoToTypes DEF Gather, TypeInv, ContextTypes, NothingDangles, Steps
    <2>5. QED
      BY <2>3, <2>4 DEF Gather
  <1>15. ASSUME NEW c \in Callers, GhashRun(c) PROVE TypeInv'
    <2>1. CASE (\E res : Return(c, res)) /\ last_error' \in {"own", last_error}
      BY <1>15, <2>1, ReturnTypes DEF GhashRun, TypeInv, ContextTypes, NothingDangles
    <2>2. CASE pc' = [pc EXCEPT ![c] = "init"] /\ goal' = [goal EXCEPT ![c] = "io"]
               /\ verified' = [verified EXCEPT ![c] = TRUE]
               /\ UNCHANGED <<stage, req, result, last_error>>
      BY <1>15, <2>2 DEF GhashRun, TypeInv, ContextTypes, CallsOK, CallOK, NothingDangles, Steps
    <2>3. QED
      BY <1>15, <2>1, <2>2 DEF GhashRun, ReturnStatus, Fail
  <1>16. ASSUME NEW c \in Callers, LoadStep(c) \/ Query(c) PROVE TypeInv'
    BY <1>16 DEF LoadStep, Query, callVars, TypeInv, ContextTypes, CallsOK, CallOK, NothingDangles
  <1>17. QED
    BY <1>1, <1>2, <1>3, <1>4, <1>5, <1>6, <1>7, <1>8, <1>9, <1>10, <1>11, <1>12, <1>13,
       <1>14, <1>15, <1>16 DEF Next, OtherStep

-----------------------------------------------------------------------------
(* The initialisation ladder *)

\* What the stages before stage k have created.
Made(k) == UNION {Makes[j] : j \in 1 .. k - 1}

LEMMA MakesValues ==
  /\ Makes[1] = {"context"} /\ Makes[2] = {"queue"} /\ Makes[3] = {"round_keys_buf"}
  /\ Makes[4] = {"program", "kernel"} /\ Makes[5] = {"kernel_gcm_ctr"}
  /\ Makes[6] = {"ghash_program", "ghash_kernel"} /\ Makes[7] = {"ghash_reduce_kernel"}
  BY DEF Makes

LEMMA MadeNext == ASSUME NEW k \in Stages PROVE Made(k + 1) = Made(k) \cup Makes[k]
  <1>1. \A j : j \in 1 .. k <=> j \in 1 .. k - 1 \/ j = k
    BY DEF Stages
  <1>2. k + 1 - 1 = k
    BY DEF Stages
  <1>3. QED
    BY <1>1, <1>2 DEF Made

LEMMA MadeFirst == Made(1) = {}
  BY DEF Made

LEMMA MadeValues ==
  /\ Made(2) = {"context"}
  /\ Made(3) = {"context", "queue"}
  /\ Made(4) = {"context", "queue", "round_keys_buf"}
  /\ Made(5) = {"context", "queue", "round_keys_buf", "program", "kernel"}
  /\ Made(6) = {"context", "queue", "round_keys_buf", "program", "kernel", "kernel_gcm_ctr"}
  /\ Made(7) = {"context", "queue", "round_keys_buf", "program", "kernel", "kernel_gcm_ctr",
                "ghash_program", "ghash_kernel"}
  <1>1. 1 \in Stages /\ 2 \in Stages /\ 3 \in Stages /\ 4 \in Stages /\ 5 \in Stages
        /\ 6 \in Stages /\ 7 \in Stages
    BY DEF Stages
  <1> HIDE DEF Stages
  <1>2. Made(2) = {"context"}
    BY <1>1, MadeFirst, MadeNext, MakesValues
  <1>3. Made(3) = {"context", "queue"}
    BY <1>1, <1>2, MadeNext, MakesValues
  <1>4. Made(4) = {"context", "queue", "round_keys_buf"}
    BY <1>1, <1>3, MadeNext, MakesValues
  <1>5. Made(5) = {"context", "queue", "round_keys_buf", "program", "kernel"}
    BY <1>1, <1>4, MadeNext, MakesValues
  <1>6. Made(6) = {"context", "queue", "round_keys_buf", "program", "kernel", "kernel_gcm_ctr"}
    BY <1>1, <1>5, MadeNext, MakesValues
  <1>7. Made(7) = {"context", "queue", "round_keys_buf", "program", "kernel", "kernel_gcm_ctr",
                "ghash_program", "ghash_kernel"}
    BY <1>1, <1>6, MadeNext, MakesValues
  <1>8. QED
    BY <1>2, <1>3, <1>4, <1>5, <1>6, <1>7

\* The last stage completes the core of the context.
LEMMA MadeAll == Made(8) = Core
  BY DEF Made, Core, Stages

\* Each failure branch releases exactly what the stages before it have created, and
\* each stage creates what is not there yet.
LEMMA UndoesMade ==
  ASSUME NEW k \in Stages PROVE Undoes(k) = Made(k) /\ Makes[k] \cap Made(k) = {}
  <1>1. k = 1 \/ k = 2 \/ k = 3 \/ k = 4 \/ k = 5 \/ k = 6 \/ k = 7
    BY DEF Stages
  <1>2. CASE k \in {1, 2, 3, 4}
    BY <1>2, MadeFirst, MadeValues, MakesValues DEF Undoes
  <1>3. CASE k = 5
    BY <1>3, MadeValues, MakesValues DEF Undoes
  <1>4. CASE k = 6
    BY <1>4, MadeValues, MakesValues DEF Undoes
  <1>5. CASE k = 7
    BY <1>5, MadeValues, MakesValues DEF Undoes
  <1>6. QED
    BY <1>1, <1>2, <1>3, <1>4, <1>5

LEMMA CoreApart == Core \cap (IoBufs \cup GhashBufs) = {} /\ "round_keys_buf" \in Core
  <1>1. Core = Made(7) \cup Makes[7]
    BY MadeNext, MadeAll DEF Stages
  <1>2. QED
    BY <1>1, MadeValues, MakesValues DEF IoBufs, GhashBufs

-----------------------------------------------------------------------------
(* The context, when callers wait for each other's calls *)

Exclusive == \A c, d \in Callers : pc[c] # "idle" /\ pc[d] # "idle" => c = d

DeviceSteps == Steps \ {"idle", "enter", "init", "build"}

\* Where a call may be, given how far the context is.
Phases ==
  /\ \A c \in Callers : pc[c] \in DeviceSteps => inited
  /\ \A c \in Callers : pc[c] = "build" =>
       ~inited /\ held = Made(stage[c]) /\ cached_key = None
  /\ (\A c \in Callers : pc[c] # "build") => IF inited THEN Core \subseteq held ELSE held = {}

\* The cache is filled only in a complete context, with what has been uploaded.
CacheFilled == cached_key # None => inited /\ rk_dev = cached_key

\* A buffer that is held was created with the capacity g_ctx remembers.
SizesKnown ==
  /\ \A b \in IoBufs \cap held : size[b] = io_capacity
  /\ "ghash_blocks_buf" \in held => size["ghash_blocks_buf"] = ghash_blocks_capacity
  /\ "ghash_chunks_buf" \in held => size["ghash_chunks_buf"] = ghash_chunks_capacity

ContextInv == Exclusive /\ Phases /\ FieldsOwn /\ CacheFilled /\ SizesKnown

\* A step that changes no handle, no size and no key.
Quiet == UNCHANGED <<inited, held, live, bufferVars, cached_key, rk_dev>>

LEMMA ExclusiveStep ==
  ASSUME TypeInv, Exclusive, NEW c \in Callers, NEW step,
         pc' = [pc EXCEPT ![c] = step],
         pc[c] # "idle" \/ \A d \in Callers : pc[d] = "idle"
  PROVE  Exclusive' /\ pc'[c] = step /\ \A d \in Callers \ {c} : pc[d] = "idle" /\ pc'[d] = "idle"
  BY DEF TypeInv, ContextTypes, Exclusive

LEMMA QuietStep ==
  ASSUME TypeInv, ContextInv, NEW c \in Callers, NEW step, Quiet,
         pc' = [pc EXCEPT ![c] = step], pc[c] # "build",
         pc[c] # "idle" \/ \A d \in Callers : pc[d] = "idle",
         step # "build", step \in DeviceSteps => inited
  PROVE  ContextInv'
  <1>1. Exclusive' /\ pc'[c] = step /\ \A d \in Callers \ {c} : pc[d] = "idle" /\ pc'[d] = "idle"
    BY ExclusiveStep DEF ContextInv
  <1>2. Phases'
    BY <1>1 DEF ContextInv, Phases, DeviceSteps, Quiet
  <1>3. FieldsOwn' /\ CacheFilled' /\ SizesKnown'
    BY DEF ContextInv, FieldsOwn, CacheFilled, SizesKnown, Quiet, bufferVars
  <1>4. QED
    BY <1>1, <1>2, <1>3 DEF ContextInv

LEMMA ContextInvInit == Init => ContextInv
  <1> SUFFICES ASSUME Init PROVE ContextInv
    OBVIOUS
  <1>1. Exclusive /\ Phases
    BY DEF Init, Exclusive, Phases, DeviceSteps
  <1>2. FieldsOwn /\ CacheFilled /\ SizesKnown
    BY DEF Init, FieldsOwn, CacheFilled, SizesKnown
  <1>3. QED
    BY <1>1, <1>2 DEF ContextInv

\* Releasing and creating keep the counts at one object for each held field.
LEMMA ReleaseOwned ==
  ASSUME TypeInv, FieldsOwn, NEW S, Release(S) PROVE FieldsOwn'
  BY DEF FieldsOwn, Release, AfterRelease, TypeInv, ContextTypes

LEMMA RecreateOwned ==
  ASSUME TypeInv, FieldsOwn, NEW S \in SUBSET Slots, Recreate(S) PROVE FieldsOwn'
  BY DEF FieldsOwn, Recreate, AfterRelease, AfterCreate, TypeInv, ContextTypes

LEMMA ContextInvNext ==
  ASSUME Serialized, ~TornKeyWrites, TypeInv, ContextInv, [Next]_vars
  PROVE  ContextInv'
  <1> USE DEF contextVars, handleVars, bufferVars, dataVars, keyVars
  <1>0. Steps \ DeviceSteps = {"idle", "enter", "init", "build"}
    BY DEF DeviceSteps, Steps
  <1>1. ASSUME UNCHANGED vars PROVE ContextInv'
    BY <1>1 DEF vars, callVars, ContextInv, Exclusive, Phases, FieldsOwn, CacheFilled,
       SizesKnown
  <1>2. ASSUME NEW c \in Callers, Start(c) PROVE ContextInv'
    BY <1>2, <1>0, QuietStep DEF Start, Quiet
  <1>3. ASSUME NEW c \in Callers, Shutdown(c) PROVE ContextInv'
    <2>1. \A d \in Callers : pc[d] = "idle" /\ pc'[d] = "idle"
      BY <1>3 DEF Shutdown, callVars
    <2>2. Exclusive' /\ Phases'
      BY <1>3, <1>0, <2>1 DEF Shutdown, Memset, Exclusive, Phases
    <2>3. FieldsOwn'
      BY <1>3 DEF Shutdown, Memset, ContextInv, FieldsOwn, AfterRelease, TypeInv, ContextTypes
    <2>4. CacheFilled' /\ SizesKnown'
      BY <1>3 DEF Shutdown, Memset, CacheFilled, SizesKnown
    <2>5. QED
      BY <2>2, <2>3, <2>4 DEF ContextInv
  <1>4. ASSUME NEW c \in Callers, Enter(c) PROVE ContextInv'
    BY <1>4, <1>0, QuietStep DEF Enter, Quiet, Fail, ReturnStatus, Return, InitThen
  <1>5. ASSUME NEW c \in Callers, InitReady(c) PROVE ContextInv'
    <2>1. goal[c] # "build"
      BY <1>5 DEF InitReady, TypeInv, CallsOK, CallOK
    <2>2. QED
      BY <1>5, <2>1, QuietStep DEF InitReady, GoTo, Quiet
  <1>6. ASSUME NEW c \in Callers, InitBegin(c) PROVE ContextInv'
    <2>1. PICK step \in {"build", "idle"} : pc' = [pc EXCEPT ![c] = step]
      BY <1>6 DEF InitBegin, Fail, ReturnStatus, Return
    <2>2. /\ Exclusive' /\ pc'[c] = step
          /\ \A d \in Callers \ {c} : pc[d] = "idle" /\ pc'[d] = "idle"
      BY <1>6, <2>1, ExclusiveStep DEF InitBegin, ContextInv
    <2>3. held = {}
      BY <1>6, <2>2 DEF InitBegin, ContextInv, Phases
    <2>4. step = "build" => stage'[c] = 1
      BY <1>6, <2>1, <2>2 DEF InitBegin, Fail, ReturnStatus, Return, TypeInv, ContextTypes
    <2>5. Phases'
      BY <1>6, <1>0, <2>2, <2>4, MadeFirst DEF InitBegin, Memset, Phases
    <2>6. FieldsOwn'
      BY <1>6, <2>3 DEF InitBegin, Memset, ContextInv, FieldsOwn
    <2>7. CacheFilled' /\ SizesKnown'
      BY <1>6 DEF InitBegin, Memset, CacheFilled, SizesKnown
    <2>8. QED
      BY <2>2, <2>5, <2>6, <2>7 DEF ContextInv
  <1>7. ASSUME NEW c \in Callers, BuildStage(c) PROVE ContextInv'
    <2> DEFINE k == stage[c]
    <2>1. /\ k \in Stages /\ ~inited /\ held = Made(k) /\ cached_key = None
          /\ goal[c] \in {"io", "ghash_io"} /\ pc[c] = "build"
      BY <1>7 DEF BuildStage, TypeInv, CallsOK, CallOK, ContextInv, Phases
    <2>2. /\ cached_key' = None /\ UNCHANGED bufferVars
      BY <1>7, <2>1 DEF BuildStage
    <2>3. Undoes(k) = Made(k) /\ Makes[k] \cap Made(k) = {}
      BY <2>1, UndoesMade
    <2>4. Makes[k] \subseteq Core
      BY <2>1 DEF Core
    <2> HIDE DEF k
    <2>5. CASE Fail(c, "INTERNAL_ERROR") /\ Release(Undoes(stage[c])) /\ UNCHANGED inited
      <3>1. held' = {}
        BY <2>1, <2>3, <2>5 DEF Release, k
      <3>2. /\ Exclusive' /\ pc'[c] = "idle"
            /\ \A d \in Callers \ {c} : pc[d] = "idle" /\ pc'[d] = "idle"
        BY <2>1, <2>5, ExclusiveStep DEF Fail, ReturnStatus, Return, ContextInv
      <3>3. Phases'
        BY <1>0, <2>1, <2>5, <3>1, <3>2 DEF Phases
      <3>4. FieldsOwn'
        BY <2>5, ReleaseOwned DEF ContextInv
      <3>5. QED
        BY <2>2, <3>1, <3>2, <3>3, <3>4 DEF ContextInv, CacheFilled, SizesKnown
    <2>6. CASE /\ held' = held \cup Makes[stage[c]]
               /\ live' = AfterCreate(live, Makes[stage[c]]) /\ Built(c)
      <3>1. FieldsOwn'
        BY <2>1, <2>3, <2>4, <2>6 DEF FieldsOwn, ContextInv, AfterCreate, TypeInv, ContextTypes,
           Slots, k
      <3>2. SizesKnown'
        BY <2>2, <2>4, <2>6, CoreApart DEF SizesKnown, ContextInv, k, GhashBufs
      <3>3. CacheFilled'
        BY <2>2 DEF CacheFilled
      <3>4. Exclusive' /\ Phases'
        <4>1. held' = Made(k + 1)
          BY <2>1, <2>6, MadeNext DEF k
        <4>2. CASE k = 7
          <5>1. /\ Exclusive' /\ pc'[c] = goal[c]
                /\ \A d \in Callers \ {c} : pc[d] = "idle" /\ pc'[d] = "idle"
            BY <2>1, <2>6, <4>2, ExclusiveStep DEF Built, ContextInv, k
          <5>2. inited' = TRUE /\ held' = Core
            BY <2>6, <4>1, <4>2, MadeAll DEF Built, k
          <5>3. QED
            BY <2>1, <5>1, <5>2 DEF Phases
        <4>3. CASE k # 7
          <5>1. UNCHANGED <<pc, inited>> /\ stage'[c] = k + 1
            BY <2>6, <4>3 DEF Built, k, TypeInv, ContextTypes
          <5>2. \A d \in Callers \ {c} : pc[d] = "idle" /\ pc'[d] = "idle"
            BY <2>1, <5>1 DEF ContextInv, Exclusive
          <5>3. QED
            BY <1>0, <2>1, <2>2, <4>1, <5>1, <5>2 DEF ContextInv, Exclusive, Phases
        <4>4. QED
          BY <4>2, <4>3
      <3>5. QED
        BY <3>1, <3>2, <3>3, <3>4 DEF ContextInv
    <2>7. QED
      BY <1>7, <2>5, <2>6, BuildStageCases
  <1>8. ASSUME NEW c \in Callers, EnsureIo(c) PROVE ContextInv'
    <2>1. PICK step \in {"idle", "write", "upload"} : pc' = [pc EXCEPT ![c] = step]
      BY <1>8 DEF EnsureIo, AfterIo, GoTo, Fail, ReturnStatus, Return
    <2>2. pc[c] = "io" /\ inited
      BY <1>8 DEF EnsureIo, ContextInv, Phases, DeviceSteps, Steps
    <2>3. CASE UNCHANGED contextVars
      BY <2>1, <2>2, <2>3, QuietStep DEF Quiet
    <2>4. CASE ~UNCHANGED contextVars
      <3>1. /\ Exclusive'
            /\ \A d \in Callers : pc'[d] # "build" /\ pc[d] # "build"
        BY <2>1, <2>2, ExclusiveStep DEF ContextInv
      <3>2. Core \subseteq held
        BY <2>2, <3>1 DEF ContextInv, Phases
      <3>3. \/ Recreate(IoBufs) /\ io_capacity' = req[c].text.len
               /\ size' = [b \in Sized |-> IF b \in IoBufs THEN req[c].text.len ELSE size[b]]
            \/ Release(IoBufs)
        BY <1>8, <2>4 DEF EnsureIo
      <3>4. UNCHANGED <<inited, ghash_blocks_capacity, ghash_chunks_capacity, keyVars>>
        BY <1>8 DEF EnsureIo
      <3>5. Phases'
        BY <2>2, <3>1, <3>2, <3>3, <3>4, CoreApart DEF Phases, Recreate, Release
      <3>6. FieldsOwn'
        BY <3>3, ReleaseOwned, RecreateOwned DEF ContextInv, Slots
      <3>7. SizesKnown'
        <4>1. CASE Release(IoBufs) /\ UNCHANGED size
          BY <3>4, <4>1 DEF Release, ContextInv, SizesKnown
        <4>2. CASE /\ held' = held \cup IoBufs /\ io_capacity' = req[c].text.len
                   /\ size' = [b \in Sized |-> IF b \in IoBufs THEN req[c].text.len ELSE size[b]]
          BY <3>4, <4>2 DEF ContextInv, SizesKnown, IoBufs, Sized
        <4>3. QED
          BY <1>8, <2>4, <4>1, <4>2 DEF EnsureIo, Recreate
      <3>8. QED
        BY <3>1, <3>4, <3>5, <3>6, <3>7 DEF ContextInv, CacheFilled
    <2>5. QED
      BY <2>3, <2>4
  <1>9. ASSUME NEW c \in Callers, UploadKey(c) PROVE ContextInv'
    <2>1. PICK step \in {"idle", "write", "launch"} : pc' = [pc EXCEPT ![c] = step]
      BY <1>9 DEF UploadKey, GoTo, Fail, ReturnStatus, Return
    <2>2. pc[c] = "upload" /\ inited
      BY <1>9 DEF UploadKey, ContextInv, Phases, DeviceSteps, Steps
    <2>3. /\ Exclusive'
          /\ \A d \in Callers : pc'[d] # "build" /\ pc[d] # "build"
      BY <2>1, <2>2, ExclusiveStep DEF ContextInv
    <2>4. Phases'
      BY <1>9, <2>2, <2>3 DEF UploadKey, ContextInv, Phases
    <2>5. CacheFilled'
      BY <1>9, <2>2 DEF UploadKey, ContextInv, CacheFilled
    <2>6. FieldsOwn' /\ SizesKnown'
      BY <1>9 DEF UploadKey, ContextInv, FieldsOwn, SizesKnown
    <2>7. QED
      BY <2>3, <2>4, <2>5, <2>6 DEF ContextInv
  <1>10. ASSUME NEW c \in Callers, WriteInput(c) PROVE ContextInv'
    BY <1>10, QuietStep DEF WriteInput, Quiet, GoTo, InitThen, Fail, ReturnStatus, Return,
       ContextInv, Phases, DeviceSteps, Steps
  <1>11. ASSUME NEW c \in Callers, Launch(c) PROVE ContextInv'
    BY <1>11, QuietStep DEF Launch, Quiet, GoTo, Fail, ReturnStatus, Return, ContextInv, Phases,
       DeviceSteps, Steps
  <1>12. ASSUME NEW c \in Callers, ReadOutput(c) PROVE ContextInv'
    BY <1>12, <1>0, QuietStep DEF ReadOutput, Quiet, InitThen, Return
  <1>13. ASSUME NEW c \in Callers, GhashEnsure(c) PROVE ContextInv'
    <2> DEFINE n == NumBlocks(req[c])
    <2>1. PICK step \in {"idle", "ghash_aad"} : pc' = [pc EXCEPT ![c] = step]
      BY <1>13 DEF GhashEnsure, GoTo, Fail, ReturnStatus, Return
    <2>2. pc[c] = "ghash_io" /\ inited
      BY <1>13 DEF GhashEnsure, ContextInv, Phases, DeviceSteps, Steps
    <2> HIDE DEF n
    <2>3. CASE UNCHANGED contextVars
      BY <2>1, <2>2, <2>3, QuietStep DEF Quiet
    <2>4. CASE ~UNCHANGED contextVars
      <3>1. /\ Exclusive'
            /\ \A d \in Callers : pc'[d] # "build" /\ pc[d] # "build"
        BY <2>1, <2>2, ExclusiveStep DEF ContextInv
      <3>2. Core \subseteq held
        BY <2>2, <3>1 DEF ContextInv, Phases
      <3>3. \/ /\ Recreate(GhashBufs)
               /\ ghash_blocks_capacity' = n /\ ghash_chunks_capacity' = ChunkCount(n)
               /\ size' = [b \in Sized |-> CASE b = "ghash_blocks_buf" -> n
                                             [] b = "ghash_chunks_buf" -> ChunkCount(n)
                                             [] OTHER -> size[b]]
            \/ Release(GhashBufs) /\ UNCHANGED size
        BY <1>13, <2>4 DEF GhashEnsure, n
      <3>4. UNCHANGED <<inited, io_capacity, keyVars>>
        BY <1>13 DEF GhashEnsure
      <3>5. Phases'
        BY <2>2, <3>1, <3>2, <3>3, <3>4, CoreApart DEF Phases, Recreate, Release
      <3>6. FieldsOwn'
        BY <3>3, ReleaseOwned, RecreateOwned DEF ContextInv, Slots
      <3>7. SizesKnown'
        BY <3>3, <3>4 DEF Recreate, Release, ContextInv, SizesKnown, IoBufs, GhashBufs, Sized
      <3>8. QED
        BY <3>1, <3>4, <3>5, <3>6, <3>7 DEF ContextInv, CacheFilled
    <2>5. QED
      BY <2>3, <2>4
  <1>14. ASSUME NEW c \in Callers, GhashAad(c) \/ GhashCt(c) \/ GhashLen(c) PROVE ContextInv'
    <2>1. PICK f : \E step \in {"ghash_ct", "ghash_len", "ghash_run"} : Gather(c, f, step)
      BY <1>14 DEF GhashAad, GhashCt, GhashLen
    <2>2. PICK next \in {"ghash_ct", "ghash_len", "ghash_run"} : Gather(c, f, next)
      BY <2>1
    <2>3. pc[c] \in {"ghash_aad", "ghash_ct", "ghash_len"} /\ inited
      BY <1>14 DEF GhashAad, GhashCt, GhashLen, ContextInv, Phases, DeviceSteps, Steps
    <2>4. Quiet /\ \E step \in {next, "idle"} : pc' = [pc EXCEPT ![c] = step]
      BY <2>2 DEF Gather, Quiet, GoTo, Fail, ReturnStatus, Return
    <2>5. QED
      BY <1>0, <2>3, <2>4, QuietStep
  <1>15. ASSUME NEW c \in Callers, GhashRun(c) PROVE ContextInv'
    <2>1. Quiet /\ pc[c] = "ghash_run" /\ \E step \in {"init", "idle"} : pc' = [pc EXCEPT ![c] = step]
      BY <1>15 DEF GhashRun, Quiet, Fail, ReturnStatus, Return
    <2>2. QED
      BY <1>0, <2>1, QuietStep
  <1>16. ASSUME NEW c \in Callers, LoadStep(c) \/ Query(c) PROVE ContextInv'
    BY <1>16 DEF LoadStep, Query, callVars, ContextInv, Exclusive, Phases, FieldsOwn, CacheFilled,
       SizesKnown
  <1>17. QED
    BY <1>1, <1>2, <1>3, <1>4, <1>5, <1>6, <1>7, <1>8, <1>9, <1>10, <1>11, <1>12, <1>13,
       <1>14, <1>15, <1>16 DEF Next, OtherStep

-----------------------------------------------------------------------------
(* Buffers are large enough *)

IoSteps    == {"upload", "write", "launch", "read"}
GhashSteps == {"ghash_aad", "ghash_ct", "ghash_len", "ghash_run"}

IoRoom(c) ==
  /\ IoBufs \subseteq held
  /\ size["in_buf"] >= req[c].text.len /\ size["out_buf"] >= req[c].text.len

GhashRoom(c) ==
  /\ GhashBufs \subseteq held
  /\ size["ghash_blocks_buf"] >= NumBlocks(req[c])
  /\ size["ghash_chunks_buf"] >= ChunkCount(NumBlocks(req[c]))

LEMMA InBoundsParts ==
  InBounds <=> \A c \in Callers : /\ pc[c] \in IoSteps => IoRoom(c)
                                  /\ pc[c] \in GhashSteps => GhashRoom(c)
  BY DEF InBounds, IoSteps, GhashSteps, IoRoom, GhashRoom

\* A step of c inside a group of steps, or out of both groups, keeps the bounds: the
\* other callers are idle.
LEMMA RoomStep ==
  ASSUME TypeInv, Exclusive, InBounds, NEW c \in Callers, NEW step,
         pc' = [pc EXCEPT ![c] = step],
         pc[c] # "idle" \/ \A d \in Callers : pc[d] = "idle",
         step \in IoSteps => IoRoom(c)', step \in GhashSteps => GhashRoom(c)'
  PROVE  InBounds'
  <1>1. pc'[c] = step /\ \A d \in Callers \ {c} : pc'[d] = "idle"
    BY ExclusiveStep
  <1>2. \A d \in Callers : /\ pc'[d] \in IoSteps => IoRoom(d)'
                           /\ pc'[d] \in GhashSteps => GhashRoom(d)'
    BY <1>1 DEF IoSteps, GhashSteps
  <1>3. QED
    BY <1>2 DEF InBounds, IoSteps, GhashSteps, IoRoom, GhashRoom

LEMMA RoomStays ==
  ASSUME InBounds, NEW c \in Callers, UNCHANGED <<held, size, req>>
  PROVE  /\ pc[c] \in IoSteps => IoRoom(c)'
         /\ pc[c] \in GhashSteps => GhashRoom(c)'
  BY InBoundsParts DEF IoRoom, GhashRoom

LEMMA InBoundsNext ==
  ASSUME Serialized, TypeInv, ContextInv, InBounds, [Next]_vars
  PROVE  InBounds'
  <1> USE DEF contextVars, handleVars, bufferVars, dataVars, keyVars
  <1>0. /\ Exclusive
        /\ {"idle", "enter", "init", "build", "io", "ghash_io"} \cap (IoSteps \cup GhashSteps) = {}
    BY DEF ContextInv, IoSteps, GhashSteps
  <1>1. ASSUME UNCHANGED vars PROVE InBounds'
    BY <1>1 DEF vars, callVars, InBounds
  <1>2. ASSUME NEW c \in Callers, NEW step \in {"idle", "enter", "init", "build", "io", "ghash_io"},
               pc' = [pc EXCEPT ![c] = step],
               pc[c] # "idle" \/ \A d \in Callers : pc[d] = "idle"
        PROVE  InBounds'
    BY <1>0, <1>2, RoomStep
  <1>3. ASSUME NEW c \in Callers, Start(c) \/ Enter(c) PROVE InBounds'
    <2>1. \E step \in {"idle", "enter", "init"} : pc' = [pc EXCEPT ![c] = step]
      BY <1>3 DEF Start, Enter, Fail, ReturnStatus, Return, InitThen
    <2>2. pc[c] # "idle" \/ \A d \in Callers : pc[d] = "idle"
      BY <1>3 DEF Start, Enter
    <2>3. QED
      BY <1>2, <2>1, <2>2
  <1>4. ASSUME NEW c \in Callers, Shutdown(c) PROVE InBounds'
    BY <1>4 DEF Shutdown, callVars, InBounds
  <1>5. ASSUME NEW c \in Callers, InitReady(c) \/ InitBegin(c) PROVE InBounds'
    <2>1. goal[c] \in {"io", "ghash_io"} /\ pc[c] # "idle"
      BY <1>5 DEF InitReady, InitBegin, TypeInv, CallsOK, CallOK
    <2>2. \E step \in {"idle", "build", "io", "ghash_io"} : pc' = [pc EXCEPT ![c] = step]
      BY <1>5, <2>1 DEF InitReady, InitBegin, GoTo, Fail, ReturnStatus, Return
    <2>3. QED
      BY <1>2, <2>1, <2>2
  <1>6. ASSUME NEW c \in Callers, BuildStage(c) PROVE InBounds'
    <2>1. goal[c] \in {"io", "ghash_io"} /\ pc[c] = "build"
      BY <1>6 DEF BuildStage, TypeInv, CallsOK, CallOK
    <2>2. pc' = [pc EXCEPT ![c] = "build"] \/ \E step \in {"idle", "io", "ghash_io"} :
            pc' = [pc EXCEPT ![c] = step]
      BY <1>6, <2>1 DEF BuildStage, Fail, ReturnStatus, Return, TypeInv, ContextTypes
    <2>3. QED
      BY <1>2, <2>1, <2>2
  <1>7. ASSUME NEW c \in Callers, EnsureIo(c) PROVE InBounds'
    <2>1. pc[c] = "io" /\ req[c].text.len \in Nat
      BY <1>7, RequestAssumption DEF EnsureIo, TypeInv, CallsOK, CallOK
    <2>2. CASE Fail(c, "INTERNAL_ERROR")
      BY <1>2, <2>1, <2>2 DEF Fail, ReturnStatus, Return
    <2>3. CASE GoTo(c, AfterIo(c))
      <3>1. IoRoom(c)'
        <4>1. CASE IoBuffersFit(req[c].text.len) /\ UNCHANGED <<held, size>>
          BY <2>1, <2>3, <4>1
             DEF IoBuffersFit, ContextInv, SizesKnown, IoRoom, GoTo, IoBufs
        <4>2. CASE /\ Recreate(IoBufs)
                   /\ size' = [b \in Sized |-> IF b \in IoBufs THEN req[c].text.len ELSE size[b]]
          BY <2>1, <2>3, <4>2 DEF Recreate, IoRoom, GoTo, IoBufs, Sized
        <4>3. QED
          BY <1>7, <2>3, <4>1, <4>2, <2>1 DEF EnsureIo, GoTo, Fail, ReturnStatus, Return, AfterIo,
             TypeInv, ContextTypes
      <3>2. AfterIo(c) \in IoSteps /\ AfterIo(c) \notin GhashSteps
        BY DEF AfterIo, IoSteps, GhashSteps
      <3>3. QED
        BY <1>0, <2>1, <2>3, <3>1, <3>2, RoomStep DEF GoTo
    <2>4. QED
      BY <1>7, <2>2, <2>3 DEF EnsureIo
  <1>8. ASSUME NEW c \in Callers, NEW step, pc' = [pc EXCEPT ![c] = step],
               UNCHANGED <<held, size, req>>,
               \/ pc[c] \in IoSteps /\ step \in IoSteps
               \/ pc[c] \in GhashSteps /\ step \in GhashSteps
        PROVE  InBounds'
    BY <1>0, <1>8, RoomStep, RoomStays DEF IoSteps, GhashSteps
  <1>9. ASSUME NEW c \in Callers, UploadKey(c) \/ WriteInput(c) \/ Launch(c) \/ ReadOutput(c)
        PROVE  InBounds'
    <2>1. pc[c] \in IoSteps /\ pc[c] # "idle"
      BY <1>9 DEF UploadKey, WriteInput, Launch, ReadOutput, IoSteps
    <2>2. \/ \E step \in {"idle", "init"} : pc' = [pc EXCEPT ![c] = step]
          \/ \E step \in IoSteps : /\ pc' = [pc EXCEPT ![c] = step]
                                   /\ UNCHANGED <<held, size, req>>
      BY <1>9 DEF UploadKey, WriteInput, Launch, ReadOutput, IoSteps, GoTo, InitThen, Fail,
         ReturnStatus, Return
    <2>3. QED
      BY <1>2, <1>8, <2>1, <2>2
  <1>10. ASSUME NEW c \in Callers, GhashEnsure(c) PROVE InBounds'
    <2> DEFINE n == NumBlocks(req[c])
    <2>1. pc[c] = "ghash_io" /\ n \in Nat /\ ChunkCount(n) \in Nat
      BY <1>10, NumBlocksNat, ChunkCountNat DEF GhashEnsure, TypeInv, CallsOK, CallOK
    <2>2. CASE Fail(c, "INTERNAL_ERROR")
      BY <1>2, <2>1, <2>2 DEF Fail, ReturnStatus, Return
    <2>3. CASE GoTo(c, "ghash_aad") /\ GhashBuffersFit(n) /\ UNCHANGED <<held, size>>
      <3>1. GhashRoom(c)'
        BY <2>1, <2>3 DEF GhashBuffersFit, ContextInv, SizesKnown, GhashRoom, GoTo, GhashBufs
      <3>2. QED
        BY <1>0, <2>1, <2>3, <3>1, RoomStep DEF GoTo, IoSteps
    <2>4. CASE /\ GoTo(c, "ghash_aad") /\ Recreate(GhashBufs)
               /\ size' = [b \in Sized |-> CASE b = "ghash_blocks_buf" -> n
                                             [] b = "ghash_chunks_buf" -> ChunkCount(n)
                                             [] OTHER -> size[b]]
      <3>1. GhashRoom(c)'
        BY <2>1, <2>4 DEF Recreate, GhashRoom, GoTo, GhashBufs, Sized
      <3>2. QED
        BY <1>0, <2>1, <2>4, <3>1, RoomStep DEF GoTo, IoSteps
    <2> HIDE DEF n
    <2>5. QED
      BY <1>10, <2>2, <2>3, <2>4 DEF GhashEnsure, n
  <1>11. ASSUME NEW c \in Callers, GhashAad(c) \/ GhashCt(c) \/ GhashLen(c) PROVE InBounds'
    <2>1. PICK f : \E step \in {"ghash_ct", "ghash_len", "ghash_run"} : Gather(c, f, step)
      BY <1>11 DEF GhashAad, GhashCt, GhashLen
    <2>2. PICK next \in {"ghash_ct", "ghash_len", "ghash_run"} : Gather(c, f, next)
      BY <2>1
    <2>3. pc[c] \in GhashSteps /\ pc[c] # "idle" /\ next \in GhashSteps
      BY <1>11 DEF GhashAad, GhashCt, GhashLen, GhashSteps
    <2>4. \/ pc' = [pc EXCEPT ![c] = "idle"]
          \/ pc' = [pc EXCEPT ![c] = next] /\ UNCHANGED <<held, size, req>>
      BY <2>2 DEF Gather, GoTo, Fail, ReturnStatus, Return
    <2>5. QED
      BY <1>2, <1>8, <2>3, <2>4
  <1>12. ASSUME NEW c \in Callers, GhashRun(c) PROVE InBounds'
    <2>1. pc[c] = "ghash_run" /\ \E step \in {"init", "idle"} : pc' = [pc EXCEPT ![c] = step]
      BY <1>12 DEF GhashRun, Fail, ReturnStatus, Return
    <2>2. QED
      BY <1>2, <2>1
  <1>13. ASSUME NEW c \in Callers, LoadStep(c) \/ Query(c) PROVE InBounds'
    BY <1>13 DEF LoadStep, Query, callVars, InBounds
  <1>14. QED
    BY <1>1, <1>3, <1>4, <1>5, <1>6, <1>7, <1>9, <1>10, <1>11, <1>12, <1>13 DEF Next, OtherStep

-----------------------------------------------------------------------------
(* The kernel loader *)

Hands(at, file, text, program, log) ==
  [at |-> at, file |-> file, text |-> text, program |-> program, log |-> log]

\* What a call of the loader has in its hands at each step; a build may leave a log.
Holding(l) ==
  \/ l \in {Hands("idle", 0, 0, 0, 0), Hands("measure", 1, 0, 0, 0), Hands("read", 1, 1, 0, 0),
            Hands("create", 0, 1, 0, 0), Hands("build", 0, 0, 1, 0)}
  \/ \E n \in {0, 1} :
       l \in {Hands("kernel", 0, 0, 1, n), Hands("done", 0, 0, 1, n), Hands("failed", 0, 0, 0, n)}

\* The loader holds nothing but in the stages of the ladder that call it.
LoaderInv ==
  /\ loader \in [Callers -> Loaders]
  /\ \A c \in Callers : Holding(loader[c])
  /\ \A c \in Callers : (pc[c] = "build" /\ Loads(stage[c])) \/ loader[c] = Unloaded

LEMMA HandsAt ==
  \A a, b, f, t, p, n : At(Hands(a, f, t, p, n), b) = Hands(b, f, t, p, n)
  BY DEF Hands, At
LEMMA HandsTakesFile ==
  \A a, t, p, n : \A f \in Nat : Takes(Hands(a, f, t, p, n), "file") = Hands(a, f + 1, t, p, n)
  BY DEF Hands, Takes
LEMMA HandsDropsFile ==
  \A a, t, p, n : \A f \in Nat : Drops(Hands(a, f, t, p, n), "file") = Hands(a, f - 1, t, p, n)
  BY DEF Hands, Drops
LEMMA HandsTakesText ==
  \A a, f, p, n : \A t \in Nat : Takes(Hands(a, f, t, p, n), "text") = Hands(a, f, t + 1, p, n)
  BY DEF Hands, Takes
LEMMA HandsDropsText ==
  \A a, f, p, n : \A t \in Nat : Drops(Hands(a, f, t, p, n), "text") = Hands(a, f, t - 1, p, n)
  BY DEF Hands, Drops
LEMMA HandsTakesProgram ==
  \A a, f, t, n : \A p \in Nat : Takes(Hands(a, f, t, p, n), "program") = Hands(a, f, t, p + 1, n)
  BY DEF Hands, Takes
LEMMA HandsDropsProgram ==
  \A a, f, t, n : \A p \in Nat : Drops(Hands(a, f, t, p, n), "program") = Hands(a, f, t, p - 1, n)
  BY DEF Hands, Drops
LEMMA HandsTakesLog ==
  \A a, f, t, p : \A n \in Nat : Takes(Hands(a, f, t, p, n), "log") = Hands(a, f, t, p, n + 1)
  BY DEF Hands, Takes
LEMMA HandsFreesLog ==
  \A a, f, t, p, n : [Hands(a, f, t, p, n) EXCEPT !.log = 0] = Hands(a, f, t, p, 0)
  BY DEF Hands

LEMMA AfterHolds ==
  ASSUME NEW l, Holding(l), NEW m \in After(l) PROVE Holding(m)
  <1>1. CASE l = Hands("idle", 0, 0, 0, 0)
    <2>1. OpenFile(l) = {Hands("failed", 0, 0, 0, 0), Hands("measure", 1, 0, 0, 0)}
      BY <1>1, HandsAt, HandsTakesFile DEF OpenFile
    <2>2. QED
      BY <1>1, <2>1 DEF After, Holding, Hands
  <1>2. CASE l = Hands("measure", 1, 0, 0, 0)
    <2>1. Measure(l) = {Hands("failed", 0, 0, 0, 0), Hands("read", 1, 1, 0, 0)}
      BY <1>2, HandsAt, HandsDropsFile, HandsTakesText DEF Measure
    <2>2. QED
      BY <1>2, <2>1 DEF After, Holding, Hands
  <1>3. CASE l = Hands("read", 1, 1, 0, 0)
    <2>1. ReadText(l) = {Hands("failed", 0, 0, 0, 0), Hands("create", 0, 1, 0, 0)}
      BY <1>3, HandsAt, HandsDropsFile, HandsDropsText DEF ReadText
    <2>2. QED
      BY <1>3, <2>1 DEF After, Holding, Hands
  <1>4. CASE l = Hands("create", 0, 1, 0, 0)
    <2>1. CreateProgram(l) = {Hands("failed", 0, 0, 0, 0), Hands("build", 0, 0, 1, 0)}
      BY <1>4, HandsAt, HandsDropsText, HandsTakesProgram DEF CreateProgram
    <2>2. QED
      BY <1>4, <2>1 DEF After, Holding, Hands
  <1>5. CASE l = Hands("build", 0, 0, 1, 0)
    <2>1. Takes(l, "log") = Hands("build", 0, 0, 1, 1)
      BY <1>5, HandsTakesLog
    <2>2. PICK n \in {0, 1} : LET h == Hands("build", 0, 0, 1, n) IN
                              m \in {At(Drops(h, "program"), "failed"), At(h, "kernel")}
      BY <1>5, <2>1 DEF After, BuildProgram, Hands
    <2>3. m \in {Hands("failed", 0, 0, 0, n), Hands("kernel", 0, 0, 1, n)}
      BY <2>2, HandsAt, HandsDropsProgram
    <2>4. QED
      BY <2>3 DEF Holding
  <1>6. ASSUME NEW n \in {0, 1}, l = Hands("kernel", 0, 0, 1, n) PROVE Holding(m)
    <2>1. CreateKernel(l) = {Hands("failed", 0, 0, 0, n), Hands("done", 0, 0, 1, n)}
      BY <1>6, HandsAt, HandsDropsProgram DEF CreateKernel
    <2>2. QED
      BY <1>6, <2>1 DEF After, Holding, Hands
  <1>7. ASSUME NEW n \in {0, 1}, l \in {Hands("done", 0, 0, 1, n), Hands("failed", 0, 0, 0, n)}
        PROVE  Holding(m)
    BY <1>7 DEF After, Hands
  <1>8. QED
    BY <1>1, <1>2, <1>3, <1>4, <1>5, <1>6, <1>7 DEF Holding

LEMMA HoldingTypes == ASSUME NEW l, Holding(l) PROVE l \in Loaders
  BY DEF Holding, Hands, Loaders

\* A call that has ended leaves its caller with nothing.
LEMMA TakenOverHolds ==
  ASSUME NEW l, Holding(l), Ended(l) \/ l = Unloaded
  PROVE  TakenOver(l) = Unloaded
  <1>1. CASE l = Unloaded
    BY <1>1, HandsAt, HandsFreesLog DEF TakenOver, Unloaded, Hands
  <1>2. ASSUME NEW n \in {0, 1}, l = Hands("done", 0, 0, 1, n) PROVE TakenOver(l) = Unloaded
    <2>1. l.at = "done" /\ Drops(l, "program") = Hands("done", 0, 0, 0, n)
      BY <1>2, HandsDropsProgram DEF Hands
    <2>2. [Hands("done", 0, 0, 0, n) EXCEPT !.log = 0] = Hands("done", 0, 0, 0, 0)
      BY HandsFreesLog
    <2>3. QED
      BY <2>1, <2>2, HandsAt DEF TakenOver, Unloaded, Hands
  <1>3. ASSUME NEW n \in {0, 1}, l = Hands("failed", 0, 0, 0, n) PROVE TakenOver(l) = Unloaded
    <2>1. l.at # "done" /\ [l EXCEPT !.log = 0] = Hands("failed", 0, 0, 0, 0)
      BY <1>3, HandsFreesLog DEF Hands
    <2>2. QED
      BY <2>1, HandsAt DEF TakenOver, Unloaded, Hands
  <1>4. QED
    BY <1>1, <1>2, <1>3 DEF Ended, Holding, Hands

LEMMA LoaderInvNext ==
  ASSUME TypeInv, LoaderInv, [Next]_vars PROVE LoaderInv'
  <1>1. ASSUME UNCHANGED vars PROVE LoaderInv'
    BY <1>1 DEF vars, callVars, LoaderInv
  <1>2. ASSUME NEW c \in Callers, LoadStep(c) PROVE LoaderInv'
    <2>1. PICK l \in After(loader[c]) : loader' = [loader EXCEPT ![c] = l]
      BY <1>2 DEF LoadStep
    <2>2. l \in Loaders /\ Holding(l)
      BY <2>1, AfterHolds, HoldingTypes DEF LoaderInv
    <2>3. QED
      BY <1>2, <2>1, <2>2 DEF LoadStep, LoaderInv, callVars
  <1>3. ASSUME NEW c \in Callers, BuildStage(c) PROVE LoaderInv'
    <2>1. TakenOver(loader[c]) = Unloaded
      BY <1>3, TakenOverHolds DEF BuildStage, LoaderInv
    <2>2. loader' = [loader EXCEPT ![c] = Unloaded] /\ Unloaded \in Loaders
      BY <1>3, <2>1 DEF BuildStage, Unloaded, Loaders
    <2>3. \A d \in Callers \ {c} : pc'[d] = pc[d] /\ stage'[d] = stage[d]
      BY <1>3 DEF BuildStage, Fail, ReturnStatus, Return, TypeInv, ContextTypes
    <2>4. QED
      BY <2>2, <2>3 DEF LoaderInv, Holding, Hands, Unloaded
  <1>4. ASSUME NEW c \in Callers, OtherStep(c) PROVE LoaderInv'
    <2>1. UNCHANGED loader
      BY <1>4 DEF OtherStep
    <2>2. pc[c] # "build" /\ \A d \in Callers \ {c} : pc'[d] = pc[d] /\ stage'[d] = stage[d]
      BY <1>4 DEF OtherStep, Start, Shutdown, Query, Enter, InitReady, InitBegin, EnsureIo,
         UploadKey, WriteInput, Launch, ReadOutput, GhashEnsure, GhashAad, GhashCt, GhashLen,
         Gather, GhashRun, Fail, ReturnStatus, Return, GoTo, InitThen, callVars, TypeInv,
         ContextTypes
    <2>3. QED
      BY <2>1, <2>2 DEF LoaderInv
  <1>5. QED
    BY <1>1, <1>2, <1>3, <1>4 DEF Next

LEMMA ChosenNext == ASSUME chosen \in BOOLEAN, [Next]_vars PROVE chosen' \in BOOLEAN
  <1>1. ASSUME NEW c \in Callers, OtherStep(c) PROVE chosen' \in BOOLEAN
    BY <1>1 DEF OtherStep, Start, Shutdown, Query, Enter, InitReady, InitBegin, EnsureIo,
       UploadKey, WriteInput, Launch, ReadOutput, GhashEnsure, GhashAad, GhashCt, GhashLen,
       Gather, GhashRun, contextVars, handleVars
  <1>2. QED
    BY <1>1 DEF Next, LoadStep, BuildStage, vars, contextVars, handleVars

-----------------------------------------------------------------------------
(* The theorems *)

\* What TypeOK and the loader's half of HandlesOwned follow from.
LEMMA LoaderInvariant == Spec => [](TypeInv /\ LoaderInv /\ chosen \in BOOLEAN)
  <1> DEFINE IInv == TypeInv /\ LoaderInv /\ chosen \in BOOLEAN
  <1>1. Init => IInv
    <2>1. Holding(Unloaded) /\ Unloaded \in Loaders
      BY HoldingTypes DEF Holding, Hands, Unloaded
    <2>2. Init => loader = [c \in Callers |-> Unloaded] /\ chosen = FALSE
      BY DEF Init
    <2>3. loader = [c \in Callers |-> Unloaded] => LoaderInv
      BY <2>1 DEF LoaderInv
    <2>4. QED
      BY <2>2, <2>3, TypeInvInit
  <1>2. IInv /\ [Next]_vars => IInv'
    BY TypeInvNext, LoaderInvNext, ChosenNext
  <1>3. QED
    BY <1>1, <1>2, PTL DEF Spec

\* When callers wait for each other's calls, the context and every call keep their types:
\* no OpenCL object, file, text, program or log is released twice, whatever the callers
\* ask and whichever OpenCL calls fail.
THEOREM TypeCorrect ==
  ASSUME Serialized PROVE Spec => []TypeOK
  <1>1. TypeInv /\ LoaderInv /\ chosen \in BOOLEAN => TypeOK
    BY DEF TypeInv, LoaderInv, TypeOK
  <1>2. QED
    BY <1>1, LoaderInvariant, PTL

\* The inductive invariant of the theorems below: types, where each call may be given
\* how far the context is, one object per held field, the cache and the sizes.
LEMMA ContextInvariant ==
  ASSUME Serialized, ~TornKeyWrites
  PROVE  Spec => [](TypeInv /\ ContextInv /\ InBounds)
  <1> DEFINE IInv == TypeInv /\ ContextInv /\ InBounds
  <1>1. Init => IInv
    <2>1. Init => InBounds
      BY DEF Init, InBounds
    <2>2. QED
      BY <2>1, TypeInvInit, ContextInvInit
  <1>2. IInv /\ [Next]_vars => IInv'
    BY TypeInvNext, ContextInvNext, InBoundsNext
  <1>3. QED
    BY <1>1, <1>2, PTL DEF Spec

\* No OpenCL object leaks and none dangles: initialisation's failure branches, the
\* reallocations and the shutdown release exactly what is held.
THEOREM HandlesAreOwned ==
  ASSUME Serialized, ~TornKeyWrites PROVE Spec => []HandlesOwned
  <1>1. ContextInv /\ LoaderInv => HandlesOwned
    BY DEF ContextInv, LoaderInv, HandlesOwned
  <1>2. QED
    BY <1>1, ContextInvariant, LoaderInvariant, PTL

\* Between calls the context is complete or empty.
THEOREM InitialisationIsAtomic ==
  ASSUME Serialized, ~TornKeyWrites PROVE Spec => []InitAllOrNothing
  <1>1. ContextInv => InitAllOrNothing
    BY DEF ContextInv, Phases, InitAllOrNothing
  <1>2. QED
    BY <1>1, ContextInvariant, PTL

\* The cached round keys are the ones on the device.
THEOREM CacheIsCoherent ==
  ASSUME Serialized, ~TornKeyWrites PROVE Spec => []CacheCoherent
  <1>1. ContextInv => CacheCoherent
    BY CoreApart DEF ContextInv, Phases, CacheFilled, CacheCoherent
  <1>2. QED
    BY <1>1, ContextInvariant, PTL

\* No step of a call reads or writes past the end of a device buffer.
THEOREM BuffersAreLargeEnough ==
  ASSUME Serialized, ~TornKeyWrites PROVE Spec => []InBounds
  BY ContextInvariant, PTL

-----------------------------------------------------------------------------
(* A failing call leaves its message, even when calls overlap *)

IsResult(x) == \E s, o, t : x = [status |-> s, out |-> o, tag |-> t]

ResultsOK ==
  /\ result = [c \in Callers |-> result[c]]
  /\ \A c \in Callers : IsResult(result[c])

LEMMA WithStatus ==
  ASSUME NEW x, IsResult(x), NEW s
  PROVE  IsResult([x EXCEPT !.status = s]) /\ [x EXCEPT !.status = s].status = s
  <1>1. PICK s0, o, t : x = [status |-> s0, out |-> o, tag |-> t]
    BY DEF IsResult
  <1>2. [x EXCEPT !.status = s] = [status |-> s, out |-> o, tag |-> t]
    BY <1>1
  <1>3. QED
    BY <1>2 DEF IsResult

LEMMA WithOut == ASSUME NEW x, IsResult(x), NEW o PROVE IsResult([x EXCEPT !.out = o])
  <1>1. PICK s, o0, t : x = [status |-> s, out |-> o0, tag |-> t]
    BY DEF IsResult
  <1>2. [x EXCEPT !.out = o] = [status |-> s, out |-> o, tag |-> t]
    BY <1>1
  <1>3. QED
    BY <1>2 DEF IsResult

\* A step of c: others stay where they are, and a call that ends is explained.
Explained(c) ==
  /\ \A d \in Callers \ {c} : pc'[d] = pc[d]
  /\ pc[c] # "idle" /\ pc'[c] = "idle" =>
       result'[c].status \in {"OK", "AUTH_FAILED"} \/ last_error' = "own"
  /\ ResultsOK'

LEMMA ReturnExplained ==
  ASSUME TypeInv, ResultsOK, NEW c \in Callers, NEW res, IsResult(res), Return(c, res),
         res.status \in {"OK", "AUTH_FAILED"} \/ last_error' = "own"
  PROVE  Explained(c)
  BY DEF Return, Explained, ResultsOK, TypeInv, ContextTypes

LEMMA FailExplained ==
  ASSUME TypeInv, ResultsOK, NEW c \in Callers, NEW s, Fail(c, s)
  PROVE  Explained(c)
  BY ReturnExplained, WithStatus DEF Fail, ReturnStatus, ResultsOK

LEMMA StatusExplained ==
  ASSUME TypeInv, ResultsOK, NEW c \in Callers, NEW s \in {"OK", "AUTH_FAILED"},
         ReturnStatus(c, s)
  PROVE  Explained(c)
  BY ReturnExplained, WithStatus DEF ReturnStatus, ResultsOK

LEMMA GoingOnExplained ==
  ASSUME TypeInv, ResultsOK, NEW c \in Callers, NEW step, step # "idle",
         pc' = [pc EXCEPT ![c] = step], UNCHANGED result
  PROVE  Explained(c)
  BY DEF Explained, ResultsOK, TypeInv, ContextTypes

LEMMA StepExplained ==
  ASSUME TypeInv, ResultsOK, NEW c \in Callers, LoadStep(c) \/ BuildStage(c) \/ OtherStep(c)
  PROVE  Explained(c)
  <1> USE DEF GoTo, InitThen
  <1>1. CASE LoadStep(c) \/ Shutdown(c) \/ Query(c)
    BY <1>1 DEF LoadStep, Shutdown, Query, callVars, Explained, ResultsOK
  <1>2. CASE Start(c)
    <2>1. IsResult(NoResult)
      BY DEF NoResult, IsResult
    <2>2. QED
      BY <1>2, <2>1 DEF Start, Explained, ResultsOK, TypeInv, ContextTypes
  <1>3. CASE Enter(c)
    BY <1>3, FailExplained, StatusExplained, GoingOnExplained DEF Enter
  <1>4. CASE InitReady(c)
    <2>1. goal[c] # "idle"
      BY <1>4 DEF InitReady, TypeInv, CallsOK, CallOK
    <2>2. QED
      BY <1>4, <2>1, GoingOnExplained DEF InitReady
  <1>5. CASE InitBegin(c)
    BY <1>5, FailExplained, GoingOnExplained DEF InitBegin
  <1>6. CASE BuildStage(c)
    <2>1. goal[c] # "idle" /\ pc[c] = "build"
      BY <1>6 DEF BuildStage, TypeInv, CallsOK, CallOK
    <2>2. CASE Fail(c, "INTERNAL_ERROR")
      BY <2>2, FailExplained
    <2>3. CASE Built(c) /\ stage[c] = 7
      BY <2>1, <2>3, GoingOnExplained DEF Built
    <2>4. CASE Built(c) /\ stage[c] # 7
      BY <2>1, <2>4 DEF Built, Explained, ResultsOK
    <2>5. QED
      BY <1>6, <2>2, <2>3, <2>4, BuildStageCases
  <1>7. CASE EnsureIo(c)
    <2>1. AfterIo(c) # "idle"
      BY DEF AfterIo
    <2>2. QED
      BY <1>7, <2>1, FailExplained, GoingOnExplained DEF EnsureIo
  <1>8. CASE UploadKey(c)
    BY <1>8, FailExplained, GoingOnExplained DEF UploadKey
  <1>9. CASE WriteInput(c)
    BY <1>9, FailExplained, GoingOnExplained DEF WriteInput
  <1>10. CASE Launch(c)
    BY <1>10, FailExplained, GoingOnExplained DEF Launch
  <1>11. CASE ReadOutput(c)
    <2> DEFINE text == DeviceText(out_dev, req[c].text.len)
               res  == [result[c] EXCEPT !.out = text]
               done == [res EXCEPT !.status = "OK"]
               bad(out) == [status |-> "INTERNAL_ERROR", out |-> out, tag |-> result[c].tag]
    <2>1. /\ IsResult(res) /\ IsResult(done) /\ done.status = "OK"
          /\ \A out : IsResult(bad(out))
      <3>1. IsResult(res)
        BY WithOut DEF ResultsOK
      <3>2. \A out : IsResult(bad(out))
        BY DEF IsResult
      <3> HIDE DEF res, bad
      <3>3. IsResult(done) /\ done.status = "OK"
        BY <3>1, WithStatus
      <3>4. QED
        BY <3>1, <3>2, <3>3
    <2>2. \/ /\ pc' = [pc EXCEPT ![c] = "init"]
             /\ result' = [result EXCEPT ![c] = res]
          \/ Return(c, done)
          \/ last_error' = "own" /\ \E out : Return(c, bad(out))
      BY <1>11 DEF ReadOutput
    <2> HIDE DEF res, done, bad
    <2>3. CASE /\ pc' = [pc EXCEPT ![c] = "init"]
               /\ result' = [result EXCEPT ![c] = res]
      BY <2>1, <2>3 DEF Explained, ResultsOK, TypeInv, ContextTypes
    <2>4. QED
      BY <2>1, <2>2, <2>3, ReturnExplained
  <1>12. CASE GhashEnsure(c)
    BY <1>12, FailExplained, GoingOnExplained DEF GhashEnsure
  <1>13. CASE GhashAad(c) \/ GhashCt(c) \/ GhashLen(c)
    <2>1. PICK f : \E step \in {"ghash_ct", "ghash_len", "ghash_run"} : Gather(c, f, step)
      BY <1>13 DEF GhashAad, GhashCt, GhashLen
    <2>2. QED
      BY <2>1, FailExplained, GoingOnExplained DEF Gather
  <1>14. CASE GhashRun(c)
    <2> DEFINE tag == DeviceTag(req[c])
               res == [status |-> "OK", out |-> result[c].out, tag |-> tag]
    <2>1. IsResult(res) /\ res.status = "OK"
      BY DEF IsResult
    <2>2. \/ Return(c, res)
          \/ \E s \in {"OK", "AUTH_FAILED"} : ReturnStatus(c, s)
          \/ pc' = [pc EXCEPT ![c] = "init"] /\ UNCHANGED result
          \/ Fail(c, "INTERNAL_ERROR")
      BY <1>14 DEF GhashRun
    <2> HIDE DEF res
    <2>3. QED
      BY <2>1, <2>2, ReturnExplained, StatusExplained, FailExplained, GoingOnExplained
  <1>15. QED
    BY <1>1, <1>2, <1>3, <1>4, <1>5, <1>6, <1>7, <1>8, <1>9, <1>10, <1>11, <1>12, <1>13, <1>14
       DEF OtherStep

\* What FailureExplained says of one step.
StepIsExplained ==
  \A c \in Callers :
    pc[c] # "idle" /\ pc'[c] = "idle" /\ result'[c].status \notin {"OK", "AUTH_FAILED"}
      => last_error' = "own"

LEMMA ResultsInvariant == Spec => [](TypeInv /\ ResultsOK)
  <1>1. Init => TypeInv /\ ResultsOK
    <2>1. IsResult(NoResult)
      BY DEF NoResult, IsResult
    <2>2. Init => result = [c \in Callers |-> NoResult]
      BY DEF Init
    <2>3. QED
      BY <2>1, <2>2, TypeInvInit DEF ResultsOK
  <1>2. TypeInv /\ ResultsOK /\ [Next]_vars => (TypeInv /\ ResultsOK)'
    <2>1. ASSUME ResultsOK, UNCHANGED vars PROVE ResultsOK'
      BY <2>1 DEF vars, callVars, ResultsOK
    <2>2. ASSUME TypeInv, ResultsOK, Next PROVE ResultsOK'
      BY <2>2, StepExplained DEF Next, Explained
    <2>3. QED
      BY <2>1, <2>2, TypeInvNext
  <1>3. QED
    BY <1>1, <1>2, PTL DEF Spec

\* When callers wait for each other's calls, a call that fails leaves a message of its
\* own, whatever it was asked and at whichever of its steps it fails.
THEOREM FailuresAreExplained ==
  ASSUME Serialized PROVE Spec => FailureExplained
  <1>1. TypeInv /\ ResultsOK /\ [Next]_vars => [StepIsExplained]_vars
    BY StepExplained DEF Next, Explained, StepIsExplained
  <1>2. Spec => [][StepIsExplained]_vars
    BY <1>1, ResultsInvariant, PTL DEF Spec
  <1>3. QED
    BY <1>2 DEF FailureExplained, StepIsExplained

-----------------------------------------------------------------------------
(* gcm_decrypt decrypts what it verified *)

\* A decryption of a text that is not empty.
Decrypts(c) == req[c].op = "gcm_decrypt" /\ req[c].text.len > 0

\* From the write of its input on, its tag is being checked, or has matched.
Checks(c) ==
  \/ pc[c] \in {"ghash_io", "ghash_aad", "ghash_ct", "ghash_len", "ghash_run"}
  \/ pc[c] \in {"init", "build"} /\ goal[c] = "ghash_io"

\* The context is not built anew, the buffers are not made anew.
InputThere(c) == inited /\ in_dev = req[c].text /\ IoBuffersFit(req[c].text.len)

InputOK(c) ==
  /\ verified[c] => /\ Decrypts(c)
                    /\ pc[c] \in {"init", "io", "upload", "launch", "read"}
                    /\ pc[c] = "init" => goal[c] = "io"
  /\ pc[c] # "idle" /\ Decrypts(c) /\ (verified[c] \/ Checks(c)) => InputThere(c)

InputInv == \A c \in Callers : InputOK(c)

\* Others are idle.
LEMMA InputStep ==
  ASSUME TypeInv, Exclusive, InputInv, NEW c \in Callers, InputOK(c)',
         pc[c] # "idle" \/ \A d \in Callers : pc[d] = "idle",
         \A d \in Callers \ {c} : pc'[d] = pc[d] /\ verified'[d] = verified[d]
  PROVE  InputInv'
  <1>1. ASSUME NEW d \in Callers, d # c PROVE InputOK(d)'
    <2>1. pc[d] = "idle"
      BY <1>1 DEF Exclusive
    <2>2. pc'[d] = "idle" /\ ~verified'[d]
      BY <1>1, <2>1 DEF InputInv, InputOK
    <2>3. QED
      BY <2>2 DEF InputOK
  <1>2. QED
    BY <1>1 DEF InputInv

\* A step of c alone: its call returns, or goes on where nothing is asked of it.
LEMMA ReturnsClean ==
  ASSUME TypeInv, Exclusive, InputInv, NEW c \in Callers, NEW res, Return(c, res),
         pc[c] # "idle"
  PROVE  InputInv'
  <1>1. InputOK(c)'
    BY DEF Return, InputOK, TypeInv, ContextTypes
  <1>2. QED
    BY <1>1, InputStep DEF Return, TypeInv, ContextTypes

LEMMA FailsClean ==
  ASSUME TypeInv, Exclusive, InputInv, NEW c \in Callers, NEW s,
         Fail(c, s) \/ ReturnStatus(c, s), pc[c] # "idle"
  PROVE  InputInv'
  BY ReturnsClean DEF Fail, ReturnStatus

\* A step of c from pc[c] to step, under which the input stays.
LEMMA InputStays ==
  ASSUME TypeInv, Exclusive, InputInv, NEW c \in Callers, NEW step, pc[c] # "idle",
         pc' = [pc EXCEPT ![c] = step], UNCHANGED <<goal, verified, req>>,
         Decrypts(c) /\ (verified[c] \/ Checks(c)') => InputThere(c)',
         verified[c] => step \in {"io", "upload", "launch", "read"}
  PROVE  InputInv'
  <1>1. pc'[c] = step /\ \A d \in Callers \ {c} : pc'[d] = pc[d]
    BY DEF TypeInv, ContextTypes
  <1>2. Decrypts(c)' = Decrypts(c)
    BY DEF Decrypts
  <1>3. verified[c] => Decrypts(c)
    BY DEF InputInv, InputOK
  <1>4. InputOK(c)'
    BY <1>1, <1>2, <1>3 DEF InputOK
  <1>5. QED
    BY <1>1, <1>4, InputStep

LEMMA InputNext ==
  ASSUME Serialized, TypeInv, ContextInv, InBounds, InputInv, [Next]_vars
  PROVE  InputInv'
  <1> USE DEF contextVars, handleVars, bufferVars, dataVars, keyVars
  <1>0. Exclusive
    BY DEF ContextInv
  <1>1. ASSUME UNCHANGED vars PROVE InputInv'
    BY <1>1 DEF vars, callVars, InputInv, InputOK, Decrypts, Checks, InputThere, IoBuffersFit
  <1>2. ASSUME NEW c \in Callers, LoadStep(c) \/ Query(c) PROVE InputInv'
    BY <1>2 DEF LoadStep, Query, callVars, InputInv, InputOK, Decrypts, Checks, InputThere,
       IoBuffersFit
  <1>3. ASSUME NEW c \in Callers, Shutdown(c) PROVE InputInv'
    <2>1. \A d \in Callers : pc[d] = "idle"
      BY <1>3 DEF Shutdown
    <2>2. UNCHANGED <<pc, goal, verified, req>>
      BY <1>3 DEF Shutdown, callVars
    <2>3. QED
      BY <2>1, <2>2 DEF InputInv, InputOK
  <1>4. ASSUME NEW c \in Callers, Start(c) PROVE InputInv'
    <2>1. pc[c] = "idle" /\ \A d \in Callers : pc[d] = "idle"
      BY <1>4 DEF Start
    <2>2. UNCHANGED <<goal, verified>> /\ pc' = [pc EXCEPT ![c] = "enter"]
      BY <1>4 DEF Start
    <2>3. ~verified[c]
      BY <2>1 DEF InputInv, InputOK
    <2>4. InputOK(c)'
      BY <2>2, <2>3 DEF InputOK, Checks, TypeInv, ContextTypes
    <2>5. QED
      BY <1>0, <2>1, <2>2, <2>4, InputStep DEF TypeInv, ContextTypes
  <1>5. ASSUME NEW c \in Callers, Enter(c) PROVE InputInv'
    <2>1. pc[c] = "enter" /\ ~verified[c]
      BY <1>5 DEF Enter, InputInv, InputOK
    <2>2. CASE InitThen(c, IF req[c].text.len = 0 THEN "ghash_io" ELSE "io")
      <3>1. InputOK(c)'
        BY <2>1, <2>2 DEF InitThen, InputOK, Checks, Decrypts, TypeInv, ContextTypes
      <3>2. QED
        BY <1>0, <2>1, <2>2, <3>1, InputStep DEF InitThen, TypeInv, ContextTypes
    <2>3. QED
      BY <1>0, <1>5, <2>1, <2>2, FailsClean DEF Enter
  <1>6. ASSUME NEW c \in Callers, InitReady(c) PROVE InputInv'
    <2>1. /\ pc[c] = "init" /\ pc' = [pc EXCEPT ![c] = goal[c]]
          /\ UNCHANGED <<goal, verified, req, inited, in_dev, held, io_capacity>>
          /\ goal[c] \in {"io", "ghash_io"}
      BY <1>6 DEF InitReady, GoTo, TypeInv, CallsOK, CallOK
    <2>2. /\ verified[c] => goal[c] = "io"
          /\ Decrypts(c) /\ (verified[c] \/ goal[c] = "ghash_io") => InputThere(c)
      BY <2>1 DEF InputInv, InputOK, Checks
    <2>3. Checks(c)' => goal[c] = "ghash_io"
      BY <2>1 DEF Checks, TypeInv, ContextTypes
    <2>4. InputThere(c)' = InputThere(c)
      BY <2>1 DEF InputThere, IoBuffersFit
    <2>5. QED
      BY <1>0, <2>1, <2>2, <2>3, <2>4, InputStays
  <1>7. ASSUME NEW c \in Callers, InitBegin(c) PROVE InputInv'
    <2>1. pc[c] = "init" /\ ~inited
      BY <1>7 DEF InitBegin
    <2>2. ~verified[c] /\ (Decrypts(c) => goal[c] # "ghash_io")
      BY <2>1 DEF InputInv, InputOK, Checks, InputThere
    <2>3. CASE pc' = [pc EXCEPT ![c] = "build"] /\ UNCHANGED <<goal, verified, req>>
      <3>1. Checks(c)' => goal[c] = "ghash_io"
        BY <2>3 DEF Checks, TypeInv, ContextTypes
      <3>2. QED
        BY <1>0, <2>1, <2>2, <2>3, <3>1, InputStays
    <2>4. QED
      BY <1>0, <1>7, <2>1, <2>3, FailsClean DEF InitBegin
  <1>8. ASSUME NEW c \in Callers, BuildStage(c) PROVE InputInv'
    <2>1. pc[c] = "build" /\ ~inited /\ goal[c] \in {"io", "ghash_io"}
      BY <1>8 DEF BuildStage, ContextInv, Phases, TypeInv, CallsOK, CallOK
    <2>2. ~verified[c] /\ (Decrypts(c) => goal[c] # "ghash_io")
      BY <2>1 DEF InputInv, InputOK, Checks, InputThere
    <2>3. CASE Built(c)
      <3>1. PICK step \in {"build", goal[c]} : pc' = [pc EXCEPT ![c] = step]
        BY <2>1, <2>3 DEF Built, TypeInv, ContextTypes
      <3>2. Checks(c)' => goal[c] = "ghash_io"
        BY <2>1, <2>3, <3>1 DEF Built, Checks, TypeInv, ContextTypes
      <3>3. QED
        BY <1>0, <2>1, <2>2, <2>3, <3>1, <3>2, InputStays DEF Built
    <2>4. QED
      BY <1>0, <1>8, <2>1, <2>3, FailsClean, BuildStageCases
  <1>9. ASSUME NEW c \in Callers, EnsureIo(c) PROVE InputInv'
    <2>1. pc[c] = "io" /\ AfterIo(c) \in {"write", "upload"}
          /\ (verified[c] => AfterIo(c) = "upload")
      BY <1>9 DEF EnsureIo, AfterIo
    <2>2. CASE GoTo(c, AfterIo(c))
      <3>1. ~Checks(c)'
        BY <2>1, <2>2 DEF GoTo, Checks, TypeInv, ContextTypes
      <3>2. verified[c] => InputThere(c) /\ Decrypts(c)
        BY <2>1 DEF InputInv, InputOK
      <3>3. verified[c] => UNCHANGED <<inited, in_dev, held, io_capacity, req>>
        BY <1>9, <2>2, <3>2 DEF EnsureIo, InputThere, GoTo
      <3>4. verified[c] => InputThere(c)'
        BY <3>2, <3>3 DEF InputThere, IoBuffersFit
      <3>5. QED
        BY <1>0, <2>1, <2>2, <3>1, <3>4, InputStays DEF GoTo
    <2>3. QED
      BY <1>0, <1>9, <2>1, <2>2, FailsClean DEF EnsureIo
  \* The upload and the launch leave the input alone.
  <1>10. ASSUME NEW c \in Callers, UploadKey(c) \/ Launch(c) PROVE InputInv'
    <2>1. pc[c] \in {"upload", "launch"} /\ UNCHANGED <<inited, in_dev, held, io_capacity>>
      BY <1>10 DEF UploadKey, Launch
    <2>2. CASE \E s : Fail(c, s)
      BY <1>0, <2>1, <2>2, FailsClean
    <2>3. CASE \E step \in {"launch", "write", "read"} :
                 /\ GoTo(c, step)
                 /\ req[c].op = "gcm_decrypt" => step # "write"
      <3>1. PICK step \in {"launch", "write", "read"} :
              GoTo(c, step) /\ (req[c].op = "gcm_decrypt" => step # "write")
        BY <2>3
      <3>2. ~Checks(c)'
        BY <3>1 DEF GoTo, Checks, TypeInv, ContextTypes
      <3>3. verified[c] => InputThere(c) /\ Decrypts(c)
        BY <2>1 DEF InputInv, InputOK
      <3>4. InputThere(c)' = InputThere(c)
        BY <2>1, <3>1 DEF InputThere, IoBuffersFit, GoTo
      <3>5. verified[c] => step \in {"launch", "read"}
        BY <3>1, <3>3 DEF Decrypts
      <3>6. QED
        BY <1>0, <2>1, <3>1, <3>2, <3>3, <3>4, <3>5, InputStays DEF GoTo
    <2>4. QED
      BY <1>10, <2>2, <2>3 DEF UploadKey, Launch
  <1>11. ASSUME NEW c \in Callers, WriteInput(c) PROVE InputInv'
    <2>1. pc[c] = "write" /\ ~verified[c] /\ inited
      BY <1>11 DEF WriteInput, InputInv, InputOK, ContextInv, Phases, DeviceSteps, Steps
    <2>2. CASE Fail(c, "INTERNAL_ERROR")
      BY <1>0, <2>1, <2>2, FailsClean
    <2>3. CASE in_dev' = req[c].text /\ InitThen(c, "ghash_io")
      <3>1. IoBuffersFit(req[c].text.len)
        BY <2>1 DEF InBounds, ContextInv, SizesKnown, IoBuffersFit, IoBufs
      <3>2. UNCHANGED <<inited, held, io_capacity, req, verified>>
        BY <1>11, <2>3 DEF WriteInput, InitThen
      <3>3. InputThere(c)'
        BY <2>1, <2>3, <3>1, <3>2 DEF InputThere, IoBuffersFit
      <3>4. InputOK(c)'
        BY <2>1, <3>2, <3>3 DEF InputOK
      <3>5. QED
        BY <1>0, <2>1, <2>3, <3>2, <3>4, InputStep DEF InitThen, TypeInv, ContextTypes
    <2>4. CASE GoTo(c, "launch")
      <3>1. ~Checks(c)'
        BY <2>4 DEF GoTo, Checks, TypeInv, ContextTypes
      <3>2. QED
        BY <1>0, <2>1, <2>4, <3>1, InputStays DEF GoTo
    <2>5. QED
      BY <1>11, <2>2, <2>3, <2>4 DEF WriteInput
  <1>12. ASSUME NEW c \in Callers, ReadOutput(c) PROVE InputInv'
    <2>1. pc[c] = "read"
      BY <1>12 DEF ReadOutput
    <2>2. CASE req[c].op = "gcm_encrypt" /\ InitThen(c, "ghash_io")
      <3>1. ~Decrypts(c) /\ ~verified[c]
        BY <2>2 DEF Decrypts, InputInv, InputOK
      <3>2. InputOK(c)'
        BY <2>2, <3>1 DEF InputOK, Decrypts, InitThen
      <3>3. QED
        BY <1>0, <2>1, <2>2, <3>2, InputStep DEF InitThen, TypeInv, ContextTypes
    <2>3. QED
      BY <1>0, <1>12, <2>1, <2>2, ReturnsClean DEF ReadOutput
  <1>13. ASSUME NEW c \in Callers, GhashEnsure(c) PROVE InputInv'
    <2>1. pc[c] = "ghash_io" /\ ~verified[c]
      BY <1>13 DEF GhashEnsure, InputInv, InputOK
    <2>2. Decrypts(c) => InputThere(c)
      BY <2>1 DEF InputInv, InputOK, Checks
    <2>3. CASE GoTo(c, "ghash_aad")
      <3>1. UNCHANGED <<inited, in_dev, io_capacity, req>>
        BY <1>13, <2>3 DEF GhashEnsure, GoTo
      <3>2. held \subseteq held'
        BY <1>13, <2>1, <2>3 DEF GhashEnsure, GoTo, Recreate, Fail, ReturnStatus, Return,
           TypeInv, ContextTypes
      <3>3. InputThere(c) => InputThere(c)'
        BY <3>1, <3>2 DEF InputThere, IoBuffersFit
      <3>4. QED
        BY <1>0, <2>1, <2>2, <2>3, <3>3, InputStays DEF GoTo
    <2>4. QED
      BY <1>0, <1>13, <2>1, <2>3, FailsClean DEF GhashEnsure
  <1>14. ASSUME NEW c \in Callers, GhashAad(c) \/ GhashCt(c) \/ GhashLen(c) PROVE InputInv'
    <2>1. PICK f : \E step \in {"ghash_ct", "ghash_len", "ghash_run"} : Gather(c, f, step)
      BY <1>14 DEF GhashAad, GhashCt, GhashLen
    <2>2. PICK next \in {"ghash_ct", "ghash_len", "ghash_run"} : Gather(c, f, next)
      BY <2>1
    <2>3. pc[c] \in {"ghash_aad", "ghash_ct", "ghash_len"} /\ ~verified[c]
      BY <1>14 DEF GhashAad, GhashCt, GhashLen, InputInv, InputOK
    <2>4. Decrypts(c) => InputThere(c)
      BY <2>3 DEF InputInv, InputOK, Checks
    <2>5. CASE GoTo(c, next)
      <3>1. UNCHANGED <<inited, in_dev, held, io_capacity, req>>
        BY <2>2, <2>5 DEF Gather, GoTo
      <3>2. InputThere(c)' = InputThere(c)
        BY <3>1 DEF InputThere, IoBuffersFit
      <3>3. QED
        BY <1>0, <2>3, <2>4, <2>5, <3>2, InputStays DEF GoTo
    <2>6. QED
      BY <1>0, <2>2, <2>3, <2>5, FailsClean DEF Gather
  <1>15. ASSUME NEW c \in Callers, GhashRun(c) PROVE InputInv'
    <2>1. pc[c] = "ghash_run" /\ ~verified[c]
      BY <1>15 DEF GhashRun, InputInv, InputOK
    <2>2. CASE /\ Decrypts(c)
               /\ pc' = [pc EXCEPT ![c] = "init"] /\ goal' = [goal EXCEPT ![c] = "io"]
               /\ verified' = [verified EXCEPT ![c] = TRUE]
               /\ UNCHANGED <<req, inited, in_dev, held, io_capacity>>
      <3>1. InputThere(c)
        BY <2>1, <2>2 DEF InputInv, InputOK, Checks
      <3>2. InputThere(c)'
        BY <2>2, <3>1 DEF InputThere, IoBuffersFit
      <3>3. InputOK(c)'
        BY <2>2, <3>2 DEF InputOK, Decrypts, TypeInv, ContextTypes
      <3>4. QED
        BY <1>0, <2>1, <2>2, <3>3, InputStep DEF TypeInv, ContextTypes
    <2>3. CASE (\E res : Return(c, res)) \/ (\E s : Fail(c, s) \/ ReturnStatus(c, s))
      BY <1>0, <2>1, <2>3, ReturnsClean, FailsClean
    <2>4. QED
      BY <1>15, <2>2, <2>3 DEF GhashRun, Decrypts
  <1>16. QED
    BY <1>1, <1>2, <1>3, <1>4, <1>5, <1>6, <1>7, <1>8, <1>9, <1>10, <1>11, <1>12, <1>13,
       <1>14, <1>15 DEF Next, OtherStep

LEMMA InputInvariant ==
  ASSUME Serialized, ~TornKeyWrites PROVE Spec => []InputInv
  <1> DEFINE Before == TypeInv /\ ContextInv /\ InBounds
  <1>1. Init => InputInv
    BY DEF Init, InputInv, InputOK
  <1>2. Before /\ InputInv /\ [Next]_vars => InputInv'
    BY InputNext
  <1>3. Spec => []Before
    BY ContextInvariant
  <1>4. QED
    BY <1>1, <1>2, <1>3, PTL DEF Spec

\* Between the tag check and the launch gcm_decrypt initialises, makes room and uploads
\* again, as for any call; none of it touches the ciphertext on the device.
THEOREM VerifiedInputIsDecrypted ==
  ASSUME Serialized, ~TornKeyWrites PROVE Spec => []VerifiedInputStays
  <1>1. InputInv => VerifiedInputStays
    BY DEF InputInv, InputOK, InputThere, VerifiedInputStays
  <1>2. QED
    BY <1>1, InputInvariant, PTL

-----------------------------------------------------------------------------
(* The library keeps AesService's promise *)

\* The call is in the counter-mode stage, or initialises on its way to it.
Counts(c) ==
  \/ pc[c] \in {"io", "upload", "write", "launch", "read"}
  \/ pc[c] \in {"init", "build"} /\ goal[c] = "io"

\* An encryption whose ciphertext the caller has, and which is on the way to its tag.
Tags(c) == req[c].op = "gcm_encrypt" /\ Checks(c)

\* The first n blocks that GHASH is to read are on the device.
Gathered(r, n) ==
  \A i \in 0 .. n - 1 :
    i \in DOMAIN blocks_dev /\ blocks_dev[i] = GhashBlocks(r.aad, Service!Ciphertext(r))[i]

\* Which calls come to which steps.
Course(c) ==
  /\ Counts(c) => req[c].text.len > 0
  /\ Checks(c) => IsGcm(req[c])
  /\ req[c].op = "gcm_decrypt" /\ pc[c] \in {"upload", "launch", "read"} => verified[c]

\* What the caller has of its answer: a ciphertext, or nothing.
SoFar(c) ==
  /\ verified[c] => Service!Authentic(req[c])
  /\ result[c].out = IF Tags(c) THEN Service!CorrectOutput(req[c]) ELSE Untouched

Uploaded(r) == r.key \in Keys /\ rk_dev = r.key

\* What the buffers hold for the step that reads them.
OnDevice(c) ==
  LET r == req[c] IN
  /\ pc[c] = "write" /\ r.op # "gcm_decrypt" => Uploaded(r)
  /\ pc[c] = "launch" => Uploaded(r) /\ in_dev = r.text
  /\ pc[c] = "read" \/ (Tags(c) /\ r.text.len > 0) => out_dev = Service!Output(r)

Blocks(c) ==
  LET r == req[c] IN
  /\ pc[c] = "ghash_ct" => Gathered(r, BlockCount(r.aad.len))
  /\ pc[c] = "ghash_len" => Gathered(r, NumBlocks(r) - 1)
  /\ pc[c] = "ghash_run" => Gathered(r, NumBlocks(r))

AnswerOK(c) ==
  IF pc[c] = "idle" THEN req[c] = None
                    ELSE Course(c) /\ SoFar(c) /\ OnDevice(c) /\ Blocks(c)

AnswerInv == \A c \in Callers : AnswerOK(c)

\* A step of the library is a step of AesService, or one its callers do not see.
Serves == Service!Next \/ UNCHANGED Service!serviceVars

-----------------------------------------------------------------------------
(* Texts, blocks and tags, on the device and as they should be *)

\* Combined with a keystream a text keeps its length.
LEMMA OutputFacts ==
  ASSUME NEW r \in Requests
  PROVE  /\ r.text.len \in Nat /\ Service!Output(r).len = r.text.len
         /\ r.text # Undefined /\ Service!Output(r) # Undefined
  <1>1. r.text.len \in Nat /\ r.text = [id |-> r.text.id, len |-> r.text.len, ks |-> r.text.ks]
    BY RequestAssumption, TextsAssumption
  <1>2. \A ks : [r.text EXCEPT !.ks = ks] = [id |-> r.text.id, len |-> r.text.len, ks |-> ks]
    BY <1>1
  <1>3. Service!Output(r).len = r.text.len
    BY <1>2 DEF Service!Output, Service!Xor
  <1>4. QED
    BY <1>1, <1>3, UndefinedAssumption

LEMMA CiphertextLen ==
  ASSUME NEW r \in Requests PROVE Service!Ciphertext(r).len = r.text.len
  BY OutputFacts DEF Service!Ciphertext

\* The kernel, given the text and the key, computes what AesService promises.
LEMMA KernelComputes ==
  ASSUME NEW r \in Requests, in_dev = r.text, Uploaded(r)
  PROVE  KernelOutput(r) = Service!Output(r)
  <1>1. DeviceText(in_dev, r.text.len) = r.text /\ r.text # Undefined /\ rk_dev # Undefined
    BY OutputFacts, KeyAssumption DEF DeviceText, Uploaded
  <1>2. IsGcm(r) <=> r.op \in {"gcm_encrypt", "gcm_decrypt"}
    BY DEF IsGcm
  <1>3. QED
    BY <1>1, <1>2 DEF Uploaded, KernelOutput, Mode, Service!Output, Service!Mode, Service!FirstBlock,
       Service!Xor, Xor, Service!Keystream, Keystream

\* The caller reads the whole of it.
LEMMA OutputIsRead ==
  ASSUME NEW r \in Requests, out_dev = Service!Output(r)
  PROVE  DeviceText(out_dev, r.text.len) = Service!Output(r)
  BY OutputFacts DEF DeviceText

\* A whole block of a text lies within it.
LEMMA WholeBlockFits ==
  ASSUME NEW n \in Nat, NEW i \in Nat, i < FullBlocks(n) PROVE (i + 1) * BlockBytes <= n
  <1> DEFINE b == BlockBytes
             q == n \div b
  <1>1. b \in Nat \ {0} /\ i < q
    BY BlockBytesAssumption DEF FullBlocks
  <1> HIDE DEF b
  <1>2. q \in Nat /\ q * b <= n
    BY <1>1, SMTT(30)
  <1> HIDE DEF q
  <1>3. (i + 1) * b <= q * b
    <2>1. PICK d \in Nat : q = (i + 1) + d
      BY <1>1, <1>2, q = (i + 1) + (q - (i + 1))
    <2>2. q * b = (i + 1) * b + d * b /\ d * b \in Nat /\ (i + 1) * b \in Nat
      BY <1>1, <2>1, SMTT(30)
    <2>3. QED
      BY <2>2
  <1>4. QED
    BY <1>1, <1>2, <1>3 DEF b

\* The block that belongs at each place.
LEMMA GhashBlockAt ==
  ASSUME NEW r \in Requests
  PROVE  LET a == BlockCount(r.aad.len)
             m == NumBlocks(r) - 1
             ct == Service!Ciphertext(r)
             g == GhashBlocks(r.aad, ct)
         IN  /\ a \in Nat /\ m \in Nat /\ m = a + BlockCount(r.text.len) /\ a <= m
             /\ \A i \in 0 .. a - 1 : g[i] = Block(r.aad, i)
             /\ \A i \in a .. m - 1 : g[i] = Block(ct, i - a)
             /\ g[m] = LengthBlock(r.aad.len, r.text.len)
             /\ DOMAIN g = 0 .. m /\ g = [i \in 0 .. m |-> g[i]]
  <1> DEFINE a == BlockCount(r.aad.len)
             k == BlockCount(r.text.len)
  <1>1. a \in Nat /\ k \in Nat
    BY BlockCountNat, RequestAssumption
  <1>2. NumBlocks(r) - 1 = a + k
    BY <1>1 DEF NumBlocks
  <1>3. Service!Ciphertext(r).len = r.text.len
    BY CiphertextLen
  <1> HIDE DEF a
  <1>4. QED
    BY <1>1, <1>2, <1>3 DEF GhashBlocks, a

\* Writing the blocks that belong at n .. m - 1 behind the n blocks that are there.
LEMMA Gathers ==
  ASSUME NEW r, NEW n \in Nat, NEW m \in Nat, NEW f,
         Gathered(r, n), DOMAIN f = n .. m - 1, DOMAIN f \subseteq DOMAIN blocks_dev,
         blocks_dev' = Overlay(f),
         \A i \in n .. m - 1 : f[i] = GhashBlocks(r.aad, Service!Ciphertext(r))[i]
  PROVE  Gathered(r, m)'
  <1> DEFINE g == GhashBlocks(r.aad, Service!Ciphertext(r))
  <1>1. SUFFICES ASSUME NEW i \in 0 .. m - 1
                 PROVE  i \in DOMAIN blocks_dev' /\ blocks_dev'[i] = g[i]
    BY DEF Gathered
  <1> HIDE DEF g
  <1>2. CASE i < n
    <2>1. i \in DOMAIN blocks_dev /\ blocks_dev[i] = g[i] /\ i \notin DOMAIN f
      BY <1>2 DEF Gathered, g
    <2>2. QED
      BY <2>1 DEF Overlay
  <1>3. CASE i >= n
    <2>1. i \in DOMAIN f /\ f[i] = g[i]
      BY <1>3 DEF g
    <2>2. QED
      BY <2>1 DEF Overlay
  <1>4. QED
    BY <1>2, <1>3

\* The ciphertext's blocks, from the device and the partial one from the caller.
LEMMA CtBlocksRight ==
  ASSUME NEW c \in Callers, req[c] \in Requests, IsGcm(req[c]),
         req[c].op = "gcm_encrypt" /\ req[c].text.len > 0 =>
           out_dev = Service!Output(req[c]) /\ result[c].out = Service!Output(req[c]),
         req[c].op = "gcm_decrypt" /\ req[c].text.len > 0 => in_dev = req[c].text
  PROVE  LET r == req[c]
             a == BlockCount(r.aad.len)
         IN  /\ DOMAIN CtBlocks(c) = a .. NumBlocks(r) - 2
             /\ \A i \in a .. NumBlocks(r) - 2 :
                  CtBlocks(c)[i] = GhashBlocks(r.aad, Service!Ciphertext(r))[i]
  <1> DEFINE r == req[c]
             a == BlockCount(r.aad.len)
             k == BlockCount(r.text.len)
             m == NumBlocks(r) - 1
             q == FullBlocks(r.text.len)
             ct == Service!Ciphertext(r)
             device == IF r.op = "gcm_encrypt" THEN out_dev ELSE in_dev
             host   == IF r.op = "gcm_encrypt" THEN result[c].out ELSE r.text
  <1>1. /\ a \in Nat /\ k \in Nat /\ m \in Nat /\ m = a + k /\ a <= m
        /\ \A i \in a .. m - 1 : GhashBlocks(r.aad, ct)[i] = Block(ct, i - a)
    BY GhashBlockAt, BlockCountNat, RequestAssumption
  <1>2. r.text.len \in Nat /\ ct.len = r.text.len
    BY CiphertextLen, OutputFacts
  <1>3. r.text.len > 0 => device = ct /\ host = ct /\ ct # Undefined
    BY OutputFacts DEF IsGcm, Service!Ciphertext
  <1>4. r.text.len = 0 => k = 0
    <2>1. ASSUME NEW b \in Nat \ {0} PROVE (0 + b - 1) \div b = 0
      OBVIOUS
    <2>2. QED
      BY <2>1, BlockBytesAssumption DEF BlockCount
  <1>5. CtBlocks(c) = [i \in a .. a + k - 1 |-> IF i - a < q THEN DeviceBlock(device, i - a)
                                                            ELSE Block(host, i - a)]
    BY DEF CtBlocks
  <1>6. k > 0 => r.text.len > 0
    BY <1>2, <1>4
  <1>7. ASSUME NEW j \in Nat, j < q, k > 0 PROVE DeviceBlock(device, j) = Block(ct, j)
    BY <1>2, <1>3, <1>6, <1>7, WholeBlockFits DEF DeviceBlock
  <1> HIDE DEF a, m, k, q, ct, device, host
  <1>8. ASSUME NEW i \in a .. a + k - 1 PROVE CtBlocks(c)[i] = Block(ct, i - a)
    <2>1. i - a \in Nat /\ k > 0
      BY <1>1
    <2>2. CtBlocks(c)[i] = IF i - a < q THEN DeviceBlock(device, i - a) ELSE Block(host, i - a)
      BY <1>5
    <2>3. i - a < q => DeviceBlock(device, i - a) = Block(ct, i - a)
      BY <1>7, <2>1
    <2>4. host = ct
      BY <1>3, <1>6, <2>1
    <2>5. QED
      BY <2>2, <2>3, <2>4
  <1>9. DOMAIN CtBlocks(c) = a .. m - 1 /\ m - 1 = a + k - 1
    BY <1>1, <1>5
  <1>10. \A i \in a .. m - 1 : CtBlocks(c)[i] = GhashBlocks(r.aad, ct)[i]
    BY <1>1, <1>8, <1>9
  <1>11. m - 1 = NumBlocks(r) - 2
    BY NumBlocksNat DEF m
  <1>12. QED
    BY <1>9, <1>10, <1>11 DEF a, ct

\* The device's tag of the right blocks is the right one.
LEMMA TagIsExpected ==
  ASSUME NEW r \in Requests, Gathered(r, NumBlocks(r))
  PROVE  DeviceTag(r) = Service!ExpectedTag(r)
  <1> DEFINE m == NumBlocks(r) - 1
             g == GhashBlocks(r.aad, Service!Ciphertext(r))
             d == [i \in 0 .. m |-> IF i \in DOMAIN blocks_dev THEN blocks_dev[i] ELSE Undefined]
  <1>1. g = [i \in 0 .. m |-> g[i]] /\ m \in Nat
    BY GhashBlockAt
  <1>2. \A i \in 0 .. m : d[i] = g[i]
    BY <1>1 DEF Gathered
  <1>3. d = g
    BY <1>1, <1>2
  <1>4. DeviceTag(r) = GcmTag(r.key, r.iv, d)
    BY DEF DeviceTag
  <1>5. Service!ExpectedTag(r) = GcmTag(r.key, r.iv, g)
    BY DEF Service!ExpectedTag, Service!GcmTag, GcmTag, Service!GhashBlocks, GhashBlocks,
       Service!BlockCount, BlockCount, Service!Block, Block, Service!LengthBlock, LengthBlock
  <1>6. QED
    BY <1>3, <1>4, <1>5

-----------------------------------------------------------------------------
(* AesService's view of the steps of one caller *)

\* A call that returns what its caller may be given is AesService's answer.
LEMMA Ends ==
  ASSUME TypeInv, Exclusive, AnswerInv, NEW c \in Callers, NEW res, Return(c, res),
         pc[c] # "idle", Service!Permitted(req[c], res), result = [d \in Callers |-> result[d]]
  PROVE  AnswerInv' /\ Serves
  <1> DEFINE answer == [d \in Callers |-> IF pc[d] = "idle" THEN result[d] ELSE NoResult]
  <1>1. /\ req[c] \in Requests /\ pc'[c] = "idle" /\ req'[c] = None /\ result'[c] = res
        /\ \A d \in Callers \ {c} : /\ pc[d] = "idle" /\ pc'[d] = "idle"
                                   /\ req'[d] = req[d] /\ result'[d] = result[d]
    BY DEF Return, Exclusive, TypeInv, ContextTypes, CallsOK, CallOK
  <1>2. AnswerInv'
    BY <1>1 DEF AnswerInv, AnswerOK
  <1>3. answer'[c] = res /\ answer' = [answer EXCEPT ![c] = answer'[c]]
    BY <1>1
  <1>4. req[c] # None /\ req' = [req EXCEPT ![c] = None]
    BY <1>1, RequestAssumption DEF Return
  <1>5. Service!Answer(c)
    BY <1>3, <1>4 DEF Service!Answer
  <1>6. QED
    BY <1>2, <1>5 DEF Serves, Service!Next

\* A call that fails at a step that is no business of its caller's.
LEMMA EndsBadly ==
  ASSUME TypeInv, Exclusive, ResultsOK, AnswerInv, NEW c \in Callers, NEW s,
         Fail(c, s) \/ ReturnStatus(c, s), pc[c] # "idle", s \notin {"OK", "AUTH_FAILED"}
  PROVE  AnswerInv' /\ Serves
  <1>1. PICK st, o, t : result[c] = [status |-> st, out |-> o, tag |-> t]
    BY DEF ResultsOK, IsResult
  <1>2. Return(c, [status |-> s, out |-> o, tag |-> t])
    <2>1. [result[c] EXCEPT !.status = s] = [status |-> s, out |-> o, tag |-> t]
      BY <1>1
    <2>2. QED
      BY <2>1 DEF Fail, ReturnStatus
  <1>3. req[c].op = "gcm_decrypt" => o = Untouched
    BY <1>1 DEF AnswerInv, AnswerOK, SoFar, Tags
  <1>4. Service!Permitted(req[c], [status |-> s, out |-> o, tag |-> t])
    BY <1>3 DEF Service!Permitted
  <1>5. QED
    BY <1>2, <1>4, Ends DEF ResultsOK

\* A call that goes on shows its caller nothing.
LEMMA GoesOn ==
  ASSUME TypeInv, Exclusive, AnswerInv, NEW c \in Callers, NEW step, step # "idle",
         pc[c] # "idle", pc' = [pc EXCEPT ![c] = step], UNCHANGED req, AnswerOK(c)',
         \A d \in Callers \ {c} : result'[d] = result[d]
  PROVE  AnswerInv' /\ Serves
  <1> DEFINE answer == [d \in Callers |-> IF pc[d] = "idle" THEN result[d] ELSE NoResult]
  <1>1. /\ pc'[c] # "idle"
        /\ \A d \in Callers \ {c} : pc[d] = "idle" /\ pc'[d] = "idle"
    BY DEF Exclusive, TypeInv, ContextTypes
  <1>2. AnswerInv'
    BY <1>1 DEF AnswerInv, AnswerOK
  <1>3. answer' = answer
    BY <1>1
  <1>4. QED
    BY <1>2, <1>3 DEF Serves, Service!serviceVars

\* The usual way on: what the caller has so far and what was asked stays.
LEMMA MovesOn ==
  ASSUME TypeInv, Exclusive, AnswerInv, NEW c \in Callers, NEW step, step # "idle",
         pc[c] # "idle", pc' = [pc EXCEPT ![c] = step], UNCHANGED <<verified, req, result>>,
         Course(c)', OnDevice(c)', Blocks(c)', Tags(c)' = Tags(c)
  PROVE  AnswerInv' /\ Serves
  <1>1. SoFar(c)
    BY DEF AnswerInv, AnswerOK
  <1>2. SoFar(c)'
    BY <1>1 DEF SoFar
  <1>3. pc'[c] # "idle"
    BY DEF TypeInv, ContextTypes
  <1>4. QED
    BY <1>2, <1>3, GoesOn DEF AnswerOK

\* Steps that leave everything alone that AnswerInv speaks of.
LEMMA Bystands ==
  ASSUME AnswerInv,
         UNCHANGED <<pc, goal, verified, req, result, in_dev, out_dev, blocks_dev, rk_dev>>
  PROVE  AnswerInv' /\ Serves
  <1>1. AnswerInv'
    BY DEF AnswerInv, AnswerOK, Course, SoFar, OnDevice, Uploaded, Blocks, Gathered,
       Counts, Checks, Tags
  <1>2. UNCHANGED Service!serviceVars
    BY DEF Service!serviceVars
  <1>3. QED
    BY <1>1, <1>2 DEF Serves

LEMMA StartAnswers ==
  ASSUME Serialized, TypeInv, ResultsOK, InputInv, AnswerInv, NEW c \in Callers, Start(c)
  PROVE  AnswerInv' /\ Serves
  <1> DEFINE answer == [d \in Callers |-> IF pc[d] = "idle" THEN result[d] ELSE NoResult]
  <1>1. /\ \A d \in Callers : pc[d] = "idle" /\ req[d] = None
        /\ ~verified[c] /\ UNCHANGED <<goal, verified>>
    BY DEF Start, InputInv, InputOK, AnswerInv, AnswerOK
  <1>2. PICK r \in Requests : req' = [req EXCEPT ![c] = r]
    BY DEF Start
  <1>3. /\ pc'[c] = "enter" /\ result'[c] = NoResult
        /\ \A d \in Callers \ {c} : pc'[d] = "idle" /\ req'[d] = None
        /\ result' = [result EXCEPT ![c] = NoResult]
    <2>1. \A d \in Callers \ {c} : req'[d] = req[d]
      BY <1>2 DEF TypeInv, ContextTypes
    <2>2. pc' = [pc EXCEPT ![c] = "enter"] /\ result' = [result EXCEPT ![c] = NoResult]
      BY DEF Start
    <2>3. pc \in [Callers -> Steps]
      BY DEF TypeInv, ContextTypes
    <2>4. result'[c] = NoResult
      BY <2>2 DEF ResultsOK
    <2>5. QED
      BY <1>1, <2>1, <2>2, <2>3, <2>4
  <1>4. AnswerOK(c)'
    BY <1>1, <1>3 DEF AnswerOK, Course, SoFar, OnDevice, Blocks, Counts, Checks, Tags, NoResult
  <1>5. AnswerInv'
    BY <1>3, <1>4 DEF AnswerInv, AnswerOK
  <1>6. answer' = [answer EXCEPT ![c] = NoResult]
    BY <1>1, <1>3 DEF ResultsOK
  <1>7. Service!Ask(c)
    BY <1>1, <1>2, <1>6 DEF Service!Ask, Service!NoAnswer, NoResult
  <1>8. QED
    BY <1>5, <1>7 DEF Serves, Service!Next

LEMMA EnterAnswers ==
  ASSUME TypeInv, Exclusive, ResultsOK, InputInv, AnswerInv, NEW c \in Callers, Enter(c)
  PROVE  AnswerInv' /\ Serves
  <1> DEFINE r == req[c]
  <1>1. /\ pc[c] = "enter" /\ ~verified[c] /\ result[c].out = Untouched /\ r \in Requests
        /\ r.text.len \in Nat
    BY RequestAssumption
       DEF Enter, InputInv, InputOK, AnswerInv, AnswerOK, SoFar, Tags, Checks, TypeInv,
           CallsOK, CallOK
  <1>2. CASE \E s : Fail(c, s) /\ s \in {"INVALID_ARG", "UNSUPPORTED"}
    BY <1>1, <1>2, EndsBadly
  <1>3. CASE NothingToDo(r) /\ ReturnStatus(c, "OK")
    <2>1. PICK st, o, t : result[c] = [status |-> st, out |-> o, tag |-> t]
      BY DEF ResultsOK, IsResult
    <2>2. Return(c, [status |-> "OK", out |-> o, tag |-> t])
      <3>1. [result[c] EXCEPT !.status = "OK"] = [status |-> "OK", out |-> o, tag |-> t]
        BY <2>1
      <3>2. QED
        BY <1>3, <3>1 DEF ReturnStatus
    <2>3. o = Untouched
      BY <1>1, <2>1
    <2>4. Service!Permitted(r, [status |-> "OK", out |-> o, tag |-> t])
      BY <1>3, <2>3 DEF Service!Permitted, NothingToDo, IsGcm, Service!CorrectOutput
    <2>5. QED
      BY <1>1, <2>2, <2>4, Ends DEF ResultsOK
  <1>4. CASE /\ ~NothingToDo(r) /\ UNCHANGED result
             /\ InitThen(c, IF r.text.len = 0 THEN "ghash_io" ELSE "io")
    <2>1. /\ pc' = [pc EXCEPT ![c] = "init"] /\ UNCHANGED <<verified, req, result>>
          /\ goal'[c] = IF r.text.len = 0 THEN "ghash_io" ELSE "io"
      BY <1>4 DEF InitThen, TypeInv, ContextTypes
    <2>2. pc'[c] = "init"
      BY <2>1 DEF TypeInv, ContextTypes
    <2>3. Course(c)' /\ OnDevice(c)' /\ Blocks(c)' /\ SoFar(c)'
      <3>1. Course(c)'
        BY <1>1, <1>4, <2>1, <2>2 DEF Course, Counts, Checks, NothingToDo
      <3>2. Tags(c)' => r.text.len = 0
        BY <2>1, <2>2 DEF Tags, Checks
      <3>3. SoFar(c)'
        BY <1>1, <2>1, <3>2 DEF SoFar, Service!CorrectOutput
      <3>4. OnDevice(c)' /\ Blocks(c)'
        BY <2>1, <2>2, <3>2, <1>1 DEF OnDevice, Blocks
      <3>5. QED
        BY <3>1, <3>3, <3>4
    <2>4. QED
      BY <1>1, <2>1, <2>2, <2>3, GoesOn DEF AnswerOK
  <1>5. QED
    BY <1>2, <1>3, <1>4 DEF Enter

\* Initialisation changes nothing a call has prepared, when there is something to do.
LEMMA LadderAnswers ==
  ASSUME TypeInv, Exclusive, AnswerInv, NEW c \in Callers, pc[c] \in {"init", "build"},
         NEW step \in {"build", goal[c]}, pc' = [pc EXCEPT ![c] = step],
         UNCHANGED <<goal, verified, req, result, out_dev>>
  PROVE  AnswerInv' /\ Serves
  <1>1. goal[c] \in {"io", "ghash_io"} /\ pc'[c] = step
    BY DEF TypeInv, ContextTypes, CallsOK, CallOK
  <1>2. Course(c) /\ OnDevice(c)
    BY DEF AnswerInv, AnswerOK
  <1>3. Counts(c)' = Counts(c) /\ Checks(c)' = Checks(c)
    BY <1>1 DEF Counts, Checks
  <1>4. Tags(c)' = Tags(c)
    BY <1>3 DEF Tags
  <1>5. Course(c)'
    BY <1>1, <1>2, <1>3 DEF Course
  <1>6. OnDevice(c)' /\ Blocks(c)'
    BY <1>1, <1>2, <1>4 DEF OnDevice, Blocks
  <1>7. QED
    BY <1>1, <1>4, <1>5, <1>6, MovesOn

LEMMA InitAnswers ==
  ASSUME TypeInv, Exclusive, ResultsOK, AnswerInv, NEW c \in Callers,
         InitReady(c) \/ InitBegin(c) \/ BuildStage(c)
  PROVE  AnswerInv' /\ Serves
  <1> USE DEF contextVars, dataVars
  <1>1. CASE InitReady(c)
    BY <1>1, LadderAnswers DEF InitReady, GoTo
  <1>2. CASE InitBegin(c)
    <2>1. pc[c] = "init"
      BY <1>2 DEF InitBegin
    <2>2. CASE Fail(c, "UNSUPPORTED")
      BY <2>1, <2>2, EndsBadly
    <2>3. CASE pc' = [pc EXCEPT ![c] = "build"] /\ UNCHANGED <<goal, verified, req, result>>
      BY <1>2, <2>1, <2>3, LadderAnswers DEF InitBegin
    <2>4. QED
      BY <1>2, <2>2, <2>3 DEF InitBegin
  <1>3. CASE BuildStage(c)
    <2>1. pc[c] = "build"
      BY <1>3 DEF BuildStage
    <2>2. CASE Fail(c, "INTERNAL_ERROR")
      BY <2>1, <2>2, EndsBadly
    <2>3. CASE Built(c)
      <3>1. PICK step \in {"build", goal[c]} : pc' = [pc EXCEPT ![c] = step]
        BY <2>1, <2>3 DEF Built, TypeInv, ContextTypes
      <3>2. QED
        BY <2>1, <2>3, <3>1, LadderAnswers DEF Built
    <2>4. QED
      BY <1>3, <2>2, <2>3, BuildStageCases
  <1>4. QED
    BY <1>1, <1>2, <1>3

LEMMA EnsureIoAnswers ==
  ASSUME TypeInv, Exclusive, ResultsOK, AnswerInv, NEW c \in Callers, EnsureIo(c)
  PROVE  AnswerInv' /\ Serves
  <1>1. pc[c] = "io"
    BY DEF EnsureIo
  <1>2. CASE Fail(c, "INTERNAL_ERROR")
    BY <1>1, <1>2, EndsBadly
  <1>3. CASE GoTo(c, AfterIo(c))
    <2>1. /\ AfterIo(c) \in {"write", "upload"}
          /\ req[c].op = "gcm_decrypt" /\ AfterIo(c) = "upload" => verified[c]
          /\ req[c].op # "gcm_decrypt" => AfterIo(c) = "upload"
      BY DEF AfterIo
    <2>2. PICK step : step = AfterIo(c)
      OBVIOUS
    <2>3. pc' = [pc EXCEPT ![c] = step] /\ UNCHANGED <<goal, verified, req, result>>
      BY <1>3, <2>2 DEF GoTo
    <2>4. pc'[c] = step
      BY <2>3 DEF TypeInv, ContextTypes
    <2>5. ~Checks(c) /\ ~Checks(c)'
      BY <1>1, <2>1, <2>2, <2>4 DEF Checks
    <2>6. req[c].text.len > 0
      BY <1>1 DEF AnswerInv, AnswerOK, Course, Counts
    <2>7. Course(c)'
      BY <2>1, <2>2, <2>3, <2>4, <2>5, <2>6 DEF Course
    <2>8. OnDevice(c)' /\ Blocks(c)' /\ Tags(c)' = Tags(c)
      BY <2>1, <2>2, <2>3, <2>4, <2>5 DEF OnDevice, Blocks, Tags
    <2>9. QED
      BY <1>1, <2>1, <2>2, <2>3, <2>7, <2>8, MovesOn
  <1>4. QED
    BY <1>2, <1>3 DEF EnsureIo

LEMMA UploadAnswers ==
  ASSUME TypeInv, ContextInv, ResultsOK, InputInv, AnswerInv, NEW c \in Callers, UploadKey(c)
  PROVE  AnswerInv' /\ Serves
  <1>1. pc[c] = "upload" /\ Exclusive
    BY DEF UploadKey, ContextInv
  <1>2. CASE \E s \in {"UNSUPPORTED", "INTERNAL_ERROR"} : Fail(c, s)
    BY <1>1, <1>2, EndsBadly
  <1>3. CASE \E step : /\ step = IF req[c].op = "gcm_decrypt" THEN "launch" ELSE "write"
                       /\ GoTo(c, step) /\ rk_dev' = req[c].key /\ req[c].key # BadKey
    <2>1. PICK step : /\ step = IF req[c].op = "gcm_decrypt" THEN "launch" ELSE "write"
                      /\ GoTo(c, step) /\ rk_dev' = req[c].key /\ req[c].key # BadKey
      BY <1>3
    <2>2. pc' = [pc EXCEPT ![c] = step] /\ UNCHANGED <<goal, verified, req, result>>
      BY <2>1 DEF GoTo
    <2>3. pc'[c] = step
      BY <2>2 DEF TypeInv, ContextTypes
    <2>4. ~Checks(c) /\ ~Checks(c)'
      BY <1>1, <2>1, <2>3 DEF Checks
    <2>5. req[c].text.len > 0 /\ (req[c].op = "gcm_decrypt" => verified[c])
      BY <1>1 DEF AnswerInv, AnswerOK, Course, Counts
    <2>6. Course(c)'
      BY <2>2, <2>4, <2>5 DEF Course
    <2>7. req[c].op = "gcm_decrypt" => in_dev = req[c].text
      BY <1>1, <2>5 DEF InputInv, InputOK, InputThere
    <2>8. UNCHANGED <<in_dev, out_dev, blocks_dev>>
      BY DEF UploadKey, dataVars
    <2>9. OnDevice(c)' /\ Blocks(c)' /\ Tags(c)' = Tags(c)
      <3>1. req[c].key \in Keys
        BY <1>1, <2>1, RequestAssumption DEF TypeInv, CallsOK, CallOK
      <3>2. QED
        BY <2>1, <2>2, <2>3, <2>4, <2>7, <2>8, <3>1 DEF OnDevice, Uploaded, Blocks, Tags
    <2>10. QED
      BY <1>1, <2>1, <2>2, <2>6, <2>9, MovesOn
  <1>4. KeyCached(req[c].key) /\ req[c].key # BadKey => rk_dev = req[c].key
    <2>1. req[c].key \in Keys \cup {BadKey} /\ None \notin Keys
      BY <1>1, RequestAssumption, KeyAssumption DEF TypeInv, CallsOK, CallOK
    <2>2. QED
      BY <2>1 DEF KeyCached, ContextInv, CacheFilled
  <1>5. QED
    BY <1>2, <1>3, <1>4 DEF UploadKey, keyVars

LEMMA WriteAnswers ==
  ASSUME TypeInv, Exclusive, ResultsOK, AnswerInv, NEW c \in Callers, WriteInput(c)
  PROVE  AnswerInv' /\ Serves
  <1>1. pc[c] = "write"
    BY DEF WriteInput
  <1>2. UNCHANGED <<out_dev, blocks_dev, rk_dev>>
    BY DEF WriteInput, keyVars
  <1>3. req[c].text.len > 0 /\ (req[c].op # "gcm_decrypt" => Uploaded(req[c]))
    BY <1>1 DEF AnswerInv, AnswerOK, Course, Counts, OnDevice
  <1>4. CASE Fail(c, "INTERNAL_ERROR")
    BY <1>1, <1>4, EndsBadly
  <1>5. CASE req[c].op = "gcm_decrypt" /\ InitThen(c, "ghash_io") /\ UNCHANGED result
    <2>1. /\ pc' = [pc EXCEPT ![c] = "init"] /\ UNCHANGED <<verified, req, result>>
          /\ pc'[c] = "init" /\ goal'[c] = "ghash_io"
      BY <1>5 DEF InitThen, TypeInv, ContextTypes
    <2>2. Course(c)'
      BY <1>5, <2>1 DEF Course, Counts, IsGcm
    <2>3. OnDevice(c)' /\ Blocks(c)' /\ Tags(c)' = Tags(c)
      BY <1>5, <2>1 DEF OnDevice, Blocks, Tags
    <2>4. QED
      BY <1>1, <2>1, <2>2, <2>3, MovesOn
  <1>6. CASE req[c].op # "gcm_decrypt" /\ in_dev' = req[c].text /\ GoTo(c, "launch")
    <2>1. /\ pc' = [pc EXCEPT ![c] = "launch"] /\ UNCHANGED <<verified, req, result>>
          /\ pc'[c] = "launch"
      BY <1>6 DEF GoTo, TypeInv, ContextTypes
    <2>2. ~Checks(c) /\ ~Checks(c)'
      BY <1>1, <2>1 DEF Checks
    <2>3. Course(c)'
      BY <1>3, <1>6, <2>1, <2>2 DEF Course
    <2>4. OnDevice(c)' /\ Blocks(c)' /\ Tags(c)' = Tags(c)
      BY <1>2, <1>3, <1>6, <2>1, <2>2 DEF OnDevice, Uploaded, Blocks, Tags
    <2>5. QED
      BY <1>1, <2>1, <2>3, <2>4, MovesOn
  <1>7. QED
    BY <1>4, <1>5, <1>6 DEF WriteInput

LEMMA LaunchAnswers ==
  ASSUME TypeInv, Exclusive, ResultsOK, AnswerInv, NEW c \in Callers, Launch(c)
  PROVE  AnswerInv' /\ Serves
  <1>1. pc[c] = "launch" /\ req[c] \in Requests
    BY DEF Launch, TypeInv, CallsOK, CallOK
  <1>2. CASE Fail(c, "INTERNAL_ERROR")
    BY <1>1, <1>2, EndsBadly
  <1>3. CASE out_dev' = KernelOutput(req[c]) /\ GoTo(c, "read")
    <2>1. /\ pc' = [pc EXCEPT ![c] = "read"] /\ UNCHANGED <<verified, req, result>>
          /\ pc'[c] = "read"
      BY <1>3 DEF GoTo, TypeInv, ContextTypes
    <2>2. ~Checks(c) /\ ~Checks(c)'
      BY <1>1, <2>1 DEF Checks
    <2>3. Course(c) /\ OnDevice(c)
      BY <1>1 DEF AnswerInv, AnswerOK
    <2>4. out_dev' = Service!Output(req[c])
      BY <1>1, <1>3, <2>3, KernelComputes DEF OnDevice
    <2>5. Course(c)'
      BY <1>1, <2>1, <2>2, <2>3 DEF Course, Counts
    <2>6. OnDevice(c)' /\ Blocks(c)' /\ Tags(c)' = Tags(c)
      BY <2>1, <2>2, <2>4 DEF OnDevice, Blocks, Tags
    <2>7. QED
      BY <1>1, <2>1, <2>5, <2>6, MovesOn
  <1>4. QED
    BY <1>2, <1>3 DEF Launch

LEMMA ReadAnswers ==
  ASSUME TypeInv, Exclusive, ResultsOK, AnswerInv, NEW c \in Callers, ReadOutput(c)
  PROVE  AnswerInv' /\ Serves
  <1> DEFINE r == req[c]
             res == [result[c] EXCEPT !.out = DeviceText(out_dev, r.text.len)]
  <1>1. pc[c] = "read" /\ r \in Requests /\ UNCHANGED <<out_dev, blocks_dev>>
    BY DEF ReadOutput, TypeInv, CallsOK, CallOK, contextVars, dataVars
  <1>2. Course(c) /\ SoFar(c) /\ OnDevice(c)
    BY <1>1 DEF AnswerInv, AnswerOK
  <1>3. r.text.len > 0 /\ out_dev = Service!Output(r)
    BY <1>1, <1>2 DEF Course, Counts, OnDevice
  <1>4. r.op = "gcm_decrypt" => Service!Authentic(r)
    BY <1>1, <1>2 DEF Course, SoFar
  <1>5. Service!CorrectOutput(r) = Service!Output(r)
    BY <1>1, <1>3, OutputFacts DEF Service!CorrectOutput
  <1>6. PICK st, o, t : result[c] = [status |-> st, out |-> o, tag |-> t]
    BY DEF ResultsOK, IsResult
  <1>7. res = [status |-> st, out |-> Service!Output(r), tag |-> t]
    BY <1>1, <1>3, <1>6, OutputIsRead
  <1>8. CASE \E out : Return(c, [status |-> "INTERNAL_ERROR", out |-> out, tag |-> result[c].tag])
    <2>1. PICK out : Return(c, [status |-> "INTERNAL_ERROR", out |-> out, tag |-> result[c].tag])
      BY <1>8
    <2>2. Service!Permitted(r, [status |-> "INTERNAL_ERROR", out |-> out, tag |-> result[c].tag])
      BY <1>4 DEF Service!Permitted
    <2>3. QED
      BY <1>1, <2>1, <2>2, Ends DEF ResultsOK
  <1>9. CASE r.op # "gcm_encrypt" /\ Return(c, [res EXCEPT !.status = "OK"])
    <2>1. [res EXCEPT !.status = "OK"] = [status |-> "OK", out |-> Service!Output(r), tag |-> t]
      <3> HIDE DEF res
      <3>1. QED
        BY <1>7
    <2>2. Service!Permitted(r, [status |-> "OK", out |-> Service!Output(r), tag |-> t])
      BY <1>4, <1>5, <1>9 DEF Service!Permitted
    <2>3. QED
      BY <1>1, <1>9, <2>1, <2>2, Ends DEF ResultsOK
  <1>10. CASE /\ r.op = "gcm_encrypt" /\ InitThen(c, "ghash_io")
              /\ result' = [result EXCEPT ![c] = res]
    <2>1. /\ pc' = [pc EXCEPT ![c] = "init"] /\ UNCHANGED <<verified, req>>
          /\ pc'[c] = "init" /\ goal'[c] = "ghash_io"
      BY <1>10 DEF InitThen, TypeInv, ContextTypes
    <2>2. result'[c] = res /\ \A d \in Callers \ {c} : result'[d] = result[d]
      BY <1>10 DEF ResultsOK
    <2>3. result'[c].out = Service!Output(r)
      BY <1>7, <2>2
    <2>4. Course(c)'
      BY <1>10, <2>1 DEF Course, Counts, IsGcm
    <2>5. Tags(c)'
      BY <1>10, <2>1 DEF Tags, Checks
    <2>6. SoFar(c)'
      BY <1>2, <1>5, <2>1, <2>3, <2>5 DEF SoFar
    <2>7. OnDevice(c)' /\ Blocks(c)'
      BY <1>1, <1>3, <2>1 DEF OnDevice, Blocks
    <2>8. QED
      BY <1>1, <2>1, <2>2, <2>4, <2>6, <2>7, GoesOn DEF AnswerOK
  <1>11. QED
    BY <1>8, <1>9, <1>10 DEF ReadOutput

LEMMA GhashEnsureAnswers ==
  ASSUME TypeInv, Exclusive, ResultsOK, AnswerInv, NEW c \in Callers, GhashEnsure(c)
  PROVE  AnswerInv' /\ Serves
  <1>1. pc[c] = "ghash_io"
    BY DEF GhashEnsure
  <1>2. CASE Fail(c, "INTERNAL_ERROR")
    BY <1>1, <1>2, EndsBadly
  <1>3. CASE GoTo(c, "ghash_aad")
    <2>1. /\ pc' = [pc EXCEPT ![c] = "ghash_aad"] /\ UNCHANGED <<verified, req, result, out_dev>>
          /\ pc'[c] = "ghash_aad"
      BY <1>3 DEF GoTo, GhashEnsure, contextVars, dataVars, TypeInv, ContextTypes
    <2>2. Checks(c) /\ Checks(c)' /\ ~Counts(c)'
      BY <1>1, <2>1 DEF Checks, Counts
    <2>3. Course(c) /\ OnDevice(c)
      BY <1>1 DEF AnswerInv, AnswerOK
    <2>4. Course(c)' /\ Tags(c)' = Tags(c)
      BY <2>1, <2>2, <2>3 DEF Course, Tags
    <2>5. OnDevice(c)' /\ Blocks(c)'
      BY <2>1, <2>3, <2>4 DEF OnDevice, Blocks
    <2>6. QED
      BY <1>1, <2>1, <2>4, <2>5, MovesOn
  <1>4. QED
    BY <1>2, <1>3 DEF GhashEnsure

\* One of the three writes: the blocks that belong behind those which are there.
LEMMA GatherAnswers ==
  ASSUME TypeInv, Exclusive, ResultsOK, AnswerInv, NEW c \in Callers, NEW f, NEW next,
         Gather(c, f, next), pc[c] \in {"ghash_aad", "ghash_ct", "ghash_len"},
         next \in {"ghash_ct", "ghash_len", "ghash_run"},
         NEW n \in Nat, NEW m \in Nat, Gathered(req[c], n), DOMAIN f = n .. m - 1,
         \A i \in n .. m - 1 :
           f[i] = GhashBlocks(req[c].aad, Service!Ciphertext(req[c]))[i],
         m = CASE next = "ghash_ct"  -> BlockCount(req[c].aad.len)
               [] next = "ghash_len" -> NumBlocks(req[c]) - 1
               [] next = "ghash_run" -> NumBlocks(req[c])
  PROVE  AnswerInv' /\ Serves
  <1>1. CASE Fail(c, "INTERNAL_ERROR")
    BY <1>1, EndsBadly
  <1>2. CASE /\ DOMAIN f \subseteq DOMAIN blocks_dev /\ blocks_dev' = Overlay(f)
             /\ GoTo(c, next)
    <2>1. /\ pc' = [pc EXCEPT ![c] = next] /\ UNCHANGED <<verified, req, result, out_dev>>
          /\ pc'[c] = next
      BY <1>2 DEF Gather, GoTo, TypeInv, ContextTypes
    <2>2. Checks(c) /\ Checks(c)' /\ ~Counts(c)'
      BY <2>1 DEF Checks, Counts
    <2>3. Course(c) /\ OnDevice(c)
      BY DEF AnswerInv, AnswerOK
    <2>4. Course(c)' /\ Tags(c)' = Tags(c)
      BY <2>1, <2>2, <2>3 DEF Course, Tags
    <2>5. OnDevice(c)'
      BY <2>1, <2>3, <2>4 DEF OnDevice
    <2>6. Blocks(c)'
      <3>1. PICK r : r = req[c]
        OBVIOUS
      <3>2. Gathered(r, m)'
        BY <1>2, <3>1, Gathers
      <3>3. req'[c] = r
        BY <2>1, <3>1
      <3>4. QED
        BY <2>1, <3>1, <3>2, <3>3 DEF Blocks
    <2>7. QED
      BY <2>1, <2>4, <2>5, <2>6, MovesOn
  <1>3. QED
    BY <1>1, <1>2 DEF Gather

LEMMA BlocksAnswer ==
  ASSUME TypeInv, Exclusive, ResultsOK, InputInv, AnswerInv, NEW c \in Callers,
         GhashAad(c) \/ GhashCt(c) \/ GhashLen(c)
  PROVE  AnswerInv' /\ Serves
  <1> DEFINE r == req[c]
             a == BlockCount(r.aad.len)
             g == GhashBlocks(r.aad, Service!Ciphertext(r))
  <1>1. /\ pc[c] \in {"ghash_aad", "ghash_ct", "ghash_len"} /\ r \in Requests
        /\ Course(c) /\ SoFar(c) /\ OnDevice(c) /\ Blocks(c)
    BY DEF GhashAad, GhashCt, GhashLen, TypeInv, CallsOK, CallOK, AnswerInv, AnswerOK
  <1>2. /\ a \in Nat /\ NumBlocks(r) - 1 \in Nat /\ NumBlocks(r) \in Nat
        /\ \A i \in 0 .. a - 1 : g[i] = Block(r.aad, i)
        /\ g[NumBlocks(r) - 1] = LengthBlock(r.aad.len, r.text.len)
    BY <1>1, GhashBlockAt, NumBlocksNat
  <1>3. CASE GhashAad(c)
    <2>1. DOMAIN AadBlocks(r) = 0 .. a - 1 /\ \A i \in 0 .. a - 1 : AadBlocks(r)[i] = g[i]
      BY <1>2 DEF AadBlocks
    <2>2. Gathered(r, 0)
      BY DEF Gathered
    <2>3. Gather(c, AadBlocks(r), "ghash_ct")
      BY <1>3 DEF GhashAad
    <2> HIDE DEF a, g
    <2>4. QED
      BY <1>1, <1>2, <2>1, <2>2, <2>3, GatherAnswers DEF a, g
  <1>4. CASE GhashCt(c)
    <2>1. pc[c] = "ghash_ct" /\ Gather(c, CtBlocks(c), "ghash_len")
      BY <1>4 DEF GhashCt
    <2>2. IsGcm(r) /\ Checks(c) /\ Gathered(r, a)
      BY <1>1, <2>1 DEF Course, Checks, Blocks
    <2>3. r.op = "gcm_encrypt" /\ r.text.len > 0 =>
            out_dev = Service!Output(r) /\ result[c].out = Service!Output(r)
      BY <1>1, <2>2, OutputFacts DEF OnDevice, SoFar, Tags, Service!CorrectOutput
    <2>4. r.op = "gcm_decrypt" /\ r.text.len > 0 => in_dev = r.text
      BY <2>1, <2>2 DEF InputInv, InputOK, InputThere, Decrypts
    <2>5. /\ DOMAIN CtBlocks(c) = a .. NumBlocks(r) - 2
          /\ \A i \in a .. NumBlocks(r) - 2 : CtBlocks(c)[i] = g[i]
      BY <1>1, <2>2, <2>3, <2>4, CtBlocksRight
    <2>6. NumBlocks(r) - 2 = (NumBlocks(r) - 1) - 1
      BY <1>2
    <2> HIDE DEF a, g
    <2>7. QED
      BY <1>1, <1>2, <2>1, <2>2, <2>5, <2>6, GatherAnswers DEF a, g
  <1>5. CASE GhashLen(c)
    <2> DEFINE m == NumBlocks(r)
    <2>1. pc[c] = "ghash_len" /\ Gather(c, LenBlock(r), "ghash_run")
      BY <1>5 DEF GhashLen
    <2>2. Gathered(r, m - 1)
      BY <1>1, <2>1 DEF Blocks
    <2>3. /\ DOMAIN LenBlock(r) = (m - 1) .. (m - 1)
          /\ \A i \in (m - 1) .. (m - 1) : LenBlock(r)[i] = g[i]
      <3>1. LenBlock(r) = [i \in {m - 1} |-> LengthBlock(r.aad.len, r.text.len)]
        BY DEF LenBlock
      <3>2. (m - 1) .. (m - 1) = {m - 1} /\ m - 1 \in Nat
        BY <1>2
      <3> HIDE DEF g, m
      <3>3. QED
        BY <1>2, <3>1, <3>2 DEF m
    <2> HIDE DEF g
    <2>4. QED
      BY <1>1, <1>2, <2>1, <2>2, <2>3, GatherAnswers DEF g
  <1>6. QED
    BY <1>3, <1>4, <1>5

LEMMA RunAnswers ==
  ASSUME TypeInv, Exclusive, ResultsOK, InputInv, AnswerInv, NEW c \in Callers, GhashRun(c)
  PROVE  AnswerInv' /\ Serves
  <1> DEFINE r == req[c]
  <1>1. /\ pc[c] = "ghash_run" /\ r \in Requests /\ UNCHANGED out_dev
        /\ Course(c) /\ SoFar(c) /\ OnDevice(c) /\ Blocks(c)
    BY DEF GhashRun, TypeInv, CallsOK, CallOK, AnswerInv, AnswerOK, contextVars, dataVars
  <1>2. DeviceTag(r) = Service!ExpectedTag(r)
    BY <1>1, TagIsExpected DEF Blocks
  <1>3. Checks(c) /\ (Tags(c) <=> r.op = "gcm_encrypt")
    BY <1>1 DEF Checks, Tags
  <1>4. TagMatches(r) <=> Service!Authentic(r)
    BY <1>2 DEF TagMatches, Service!Authentic
  <1>5. PICK st, o, t : result[c] = [status |-> st, out |-> o, tag |-> t]
    BY DEF ResultsOK, IsResult
  <1>6. o = IF r.op = "gcm_encrypt" THEN Service!CorrectOutput(r) ELSE Untouched
    BY <1>1, <1>3, <1>5 DEF SoFar
  <1>7. \A s : [result[c] EXCEPT !.status = s] = [status |-> s, out |-> o, tag |-> t]
    BY <1>5
  <1>8. CASE Fail(c, "INTERNAL_ERROR")
    BY <1>1, <1>8, EndsBadly
  <1>9. CASE /\ r.op = "gcm_encrypt"
             /\ Return(c, [status |-> "OK", out |-> result[c].out, tag |-> DeviceTag(r)])
    <2>1. Service!Permitted(r, [status |-> "OK", out |-> o, tag |-> Service!ExpectedTag(r)])
      BY <1>6, <1>9 DEF Service!Permitted
    <2>2. Return(c, [status |-> "OK", out |-> o, tag |-> Service!ExpectedTag(r)])
      BY <1>2, <1>5, <1>9
    <2>3. QED
      BY <1>1, <2>1, <2>2, Ends DEF ResultsOK
  <1>10. CASE r.op = "gcm_decrypt" /\ ~TagMatches(r) /\ ReturnStatus(c, "AUTH_FAILED")
    <2>1. Service!Permitted(r, [status |-> "AUTH_FAILED", out |-> o, tag |-> t])
      BY <1>4, <1>6, <1>10 DEF Service!Permitted
    <2>2. Return(c, [status |-> "AUTH_FAILED", out |-> o, tag |-> t])
      BY <1>7, <1>10 DEF ReturnStatus
    <2>3. QED
      BY <1>1, <2>1, <2>2, Ends DEF ResultsOK
  <1>11. CASE /\ r.op = "gcm_decrypt" /\ TagMatches(r) /\ r.text.len = 0
              /\ ReturnStatus(c, "OK")
    <2>1. Service!Permitted(r, [status |-> "OK", out |-> o, tag |-> t])
      BY <1>4, <1>6, <1>11 DEF Service!Permitted, Service!CorrectOutput
    <2>2. Return(c, [status |-> "OK", out |-> o, tag |-> t])
      BY <1>7, <1>11 DEF ReturnStatus
    <2>3. QED
      BY <1>1, <2>1, <2>2, Ends DEF ResultsOK
  <1>12. CASE /\ r.op = "gcm_decrypt" /\ TagMatches(r) /\ r.text.len > 0
              /\ pc' = [pc EXCEPT ![c] = "init"] /\ goal' = [goal EXCEPT ![c] = "io"]
              /\ verified' = [verified EXCEPT ![c] = TRUE] /\ UNCHANGED <<req, result>>
    <2>1. pc'[c] = "init" /\ goal'[c] = "io" /\ verified'[c]
      BY <1>12 DEF TypeInv, ContextTypes
    <2>2. Counts(c)' /\ ~Checks(c)' /\ ~Tags(c)'
      BY <2>1 DEF Counts, Checks, Tags
    <2>3. Course(c)'
      BY <1>12, <2>1, <2>2 DEF Course
    <2>4. SoFar(c)'
      BY <1>4, <1>5, <1>6, <1>12, <2>2 DEF SoFar
    <2>5. OnDevice(c)' /\ Blocks(c)'
      BY <2>1, <2>2 DEF OnDevice, Blocks
    <2>6. QED
      BY <1>1, <1>12, <2>1, <2>3, <2>4, <2>5, GoesOn DEF AnswerOK
  <1>13. QED
    BY <1>8, <1>9, <1>10, <1>11, <1>12 DEF GhashRun

LEMMA AnswerNext ==
  ASSUME Serialized, TypeInv, ContextInv, ResultsOK, InputInv, AnswerInv, [Next]_vars
  PROVE  AnswerInv' /\ Serves
  <1> USE DEF contextVars, dataVars, keyVars, callVars
  <1>0. Exclusive
    BY DEF ContextInv
  <1>1. CASE UNCHANGED vars
    BY <1>1, Bystands DEF vars
  <1>2. ASSUME NEW c \in Callers, LoadStep(c) \/ Query(c) PROVE AnswerInv' /\ Serves
    BY <1>2, Bystands DEF LoadStep, Query
  <1>3. ASSUME NEW c \in Callers, Shutdown(c) PROVE AnswerInv' /\ Serves
    <2>1. (\A d \in Callers : pc[d] = "idle") /\ UNCHANGED <<pc, req, result>>
      BY <1>3 DEF Shutdown
    <2>2. AnswerInv'
      BY <2>1 DEF AnswerInv, AnswerOK
    <2>3. UNCHANGED Service!serviceVars
      BY <2>1 DEF Service!serviceVars
    <2>4. QED
      BY <2>2, <2>3 DEF Serves
  <1>4. ASSUME NEW c \in Callers, Start(c) PROVE AnswerInv' /\ Serves
    BY <1>4, StartAnswers
  <1>5. ASSUME NEW c \in Callers, Enter(c) PROVE AnswerInv' /\ Serves
    BY <1>0, <1>5, EnterAnswers
  <1>6. ASSUME NEW c \in Callers, InitReady(c) \/ InitBegin(c) \/ BuildStage(c)
        PROVE  AnswerInv' /\ Serves
    BY <1>0, <1>6, InitAnswers
  <1>7. ASSUME NEW c \in Callers, EnsureIo(c) \/ UploadKey(c) \/ WriteInput(c)
        PROVE  AnswerInv' /\ Serves
    BY <1>0, <1>7, EnsureIoAnswers, UploadAnswers, WriteAnswers
  <1>8. ASSUME NEW c \in Callers, Launch(c) \/ ReadOutput(c) PROVE AnswerInv' /\ Serves
    BY <1>0, <1>8, LaunchAnswers, ReadAnswers
  <1>9. ASSUME NEW c \in Callers, GhashEnsure(c) \/ GhashRun(c) PROVE AnswerInv' /\ Serves
    BY <1>0, <1>9, GhashEnsureAnswers, RunAnswers
  <1>10. ASSUME NEW c \in Callers, GhashAad(c) \/ GhashCt(c) \/ GhashLen(c)
         PROVE  AnswerInv' /\ Serves
    BY <1>0, <1>10, BlocksAnswer
  <1>11. QED
    BY <1>1, <1>2, <1>3, <1>4, <1>5, <1>6, <1>7, <1>8, <1>9, <1>10 DEF Next, OtherStep

\* The OpenCL library implements AesService: an answer is the one the reference gives to
\* that call's own arguments, whatever key, buffers, blocks or half-built context earlier
\* calls have left; and a decryption hands out nothing unless the tag matches.
THEOREM LibraryImplementsService ==
  ASSUME Serialized, ~TornKeyWrites PROVE Spec => ImplementsService
  <1> DEFINE Before == TypeInv /\ ContextInv /\ InBounds
  <1>1. Init => AnswerInv /\ Service!Init
    <2>1. Init => AnswerInv
      BY DEF Init, AnswerInv, AnswerOK
    <2>2. Init => Service!Init
      BY DEF Init, Service!Init, Service!NoAnswer, NoResult
    <2>3. QED
      BY <2>1, <2>2
  <1>2. Before /\ ResultsOK /\ InputInv /\ AnswerInv /\ [Next]_vars => AnswerInv' /\ Serves
    BY AnswerNext
  <1>3. Serves => [Service!Next]_(Service!serviceVars)
    BY DEF Serves
  <1>4. Spec => []Before
    BY ContextInvariant
  <1>5. Spec => [](ResultsOK /\ InputInv)
    BY ResultsInvariant, InputInvariant, PTL
  <1>6. Spec => Service!Init /\ [][Service!Next]_(Service!serviceVars)
    BY <1>1, <1>2, <1>3, <1>4, <1>5, PTL DEF Spec
  <1>7. QED
    BY <1>6 DEF ImplementsService, Service!Spec
=============================================================================
