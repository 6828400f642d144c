---------------------------- MODULE SandboxProofs ----------------------------
(***************************************************************************)
(* Proofs about Sandbox: the process is a behaviour of the runtime, so     *)
(* what is proved of the runtime holds of it, no line of the guest runs    *)
(* outside seccomp, seccomp kills no honest build, and the process is one  *)
(* that only maps its input to its outputs.                                *)
(***************************************************************************)
EXTENDS Sandbox, RuntimeProofs

USE SizesAssumption, HostAssumption

-----------------------------------------------------------------------------
(* The first n bytes that the kernel takes from stdin. *)
LEMMA Taken ==
  ASSUME NEW s \in Seq(Bytes), NEW n \in Nat, n <= Len(s)
  PROVE  SubSeq(s, 1, n) \in [1 .. n -> Bytes] /\ SubSeq(s, n + 1, Len(s)) \in Seq(Bytes)
<1>0. Len(s) \in Nat /\ \A i \in 1 .. Len(s) : s[i] \in Bytes
  BY ElementOfSeq, LenProperties
<1>1. SubSeq(s, 1, n) \in Seq(Bytes) /\ Len(SubSeq(s, 1, n)) = n
  <2>1. \A i \in 1 .. n : s[i] \in Bytes
    BY <1>0
  <2>2. /\ SubSeq(s, 1, n) \in Seq(Bytes)
        /\ Len(SubSeq(s, 1, n)) = IF 1 <= n THEN n - 1 + 1 ELSE 0
    BY <2>1, SubSeqProperties
  <2> QED BY <2>2
<1>2. SubSeq(s, n + 1, Len(s)) \in Seq(Bytes)
  <2>1. \A i \in n + 1 .. Len(s) : s[i] \in Bytes
    BY <1>0
  <2> QED BY <1>0, <2>1, SubSeqProperties
<1>3. SubSeq(s, 1, n) \in [1 .. n -> Bytes]
  BY <1>1, ElementOfSeq, LenProperties
<1> QED BY <1>2, <1>3

(* What the kernel reads is no longer than the buffer or the input. *)
LEMMA ReadCountsBounded ==
  ASSUME stdin \in Seq(Bytes), NEW len \in Nat, NEW n \in ReadCounts(len)
  PROVE  n \in 0 .. len /\ n <= Len(stdin)
<1>1. Len(stdin) \in Nat
  BY LenProperties
<1> QED BY <1>1 DEF ReadCounts, MinOf

(***************************************************************************)
(* What the host adds to the invariant of the runtime. Every state that    *)
(* is running is secured; a state that is not secured has not touched the  *)
(* runtime; a process that ended did so from a state where these hold.     *)
(***************************************************************************)
HostTypes ==
    /\ stdin \in Seq(Bytes) /\ stdout \in Seq(Bytes) /\ stderr \in Seq(Bytes)
    /\ host \in {"boot", "refused", "running", "writing", "reported", "gone"}
    /\ life \in {"alive", "exited"} \cup Signals
    /\ secured \in BOOLEAN
    /\ report \in {"none", "trap", "seccomp strict failed"}
    /\ status \in 0 .. 255

(* The two flags agree with where cmain is, and the report with the trap.   *)
HostFacts ==
    /\ host \in {"boot", "refused"} => ~ secured
    /\ host = "running" => secured
    /\ host = "gone" <=> life # "alive"
    /\ host \in {"writing", "reported"} => (~ secured <=> trapped = <<>>)
    /\ report = "trap" => trapped # <<>>
    /\ report = "seccomp strict failed" => ~ secured
    /\ host \in {"boot", "refused", "running", "writing"} => report = "none"
    /\ life = "alive" => status = 0
    /\ GuestOnlyUnderSeccomp
    /\ StatusTellsTrap

HostInv == HostTypes /\ HostFacts

(* The next step appends n bytes of the memory to an output. *)
Appends(p, n) ==
    /\ p + n <= size /\ result' = <<n>>
    /\ \/ stdout' = stdout \o Emitted(p, n) /\ UNCHANGED stderr
       \/ stderr' = stderr \o Emitted(p, n) /\ UNCHANGED stdout
    /\ UNCHANGED <<host, secured, life, status, stdin, report, arena, size, trapped>>

(***************************************************************************)
(* Every step of the process is a step of the runtime or leaves it alone.  *)
(***************************************************************************)
LEMMA StepsOfTheRuntime ==
  ASSUME stdin \in Seq(Bytes), [SandboxNext]_sandboxVars
  PROVE  [Next]_vars
<1> DEFINE Imported == \E fd \in Fds, ptr \in U32, len \in U32 :
                          env__read(fd, ptr, len) \/ env__write(fd, ptr, len)
<1>0. U32 \subseteq Nat
  BY DEF U32, U32Size
<1>1. CASE InstantiateStep \/ GuestStep
  BY <1>1 DEF InstantiateStep, GuestStep, Next
<1>2. CASE \/ Prctl \/ SeccompMessage \/ TrapMessage \/ MessageWritten
           \/ ExitAfterReport \/ GuestReturns \/ StackOverflow
  BY <1>2 DEF Prctl, SeccompMessage, TrapMessage, EnterWrite, MessageWritten,
              ExitAfterReport, GuestReturns, StackOverflow
<1>3. ASSUME NEW fd \in Fds, NEW ptr \in U32, NEW len \in U32, env__read(fd, ptr, len)
      PROVE  HostCalls
  <2>1. CASE HostRefuses
    BY <2>1 DEF HostCalls
  <2>2. CASE InGuest /\ OutOfBounds(ptr, len)
    BY <2>2 DEF HostCalls
  <2>3. ASSUME NEW n \in ReadCounts(len), HostWrite(ptr, len, SubSeq(stdin, 1, n)),
               wasm_check(ptr, len)
        PROVE  HostCalls
    <3>1. len \in Nat /\ n \in 0 .. len /\ n \in Nat /\ n <= Len(stdin)
      BY <1>0, ReadCountsBounded
    <3>2. SubSeq(stdin, 1, n) \in [1 .. n -> Bytes]
      BY <3>1, Taken
    <3> QED BY <2>3, <3>1, <3>2 DEF HostCalls
  <2> QED BY <1>3, <2>1, <2>2, <2>3 DEF env__read
<1>4. ASSUME NEW fd \in Fds, NEW ptr \in U32, NEW len \in U32, env__write(fd, ptr, len)
      PROVE  HostCalls \/ UNCHANGED vars
  <2>1. CASE HostRefuses
    BY <2>1 DEF HostCalls
  <2>2. CASE InGuest /\ OutOfBounds(ptr, len)
    BY <2>2 DEF HostCalls
  <2>3. CASE \E n \in 0 .. len : HostRead(ptr, len, n)
    BY <2>3 DEF HostCalls
  <2> QED BY <1>4, <2>1, <2>2, <2>3 DEF env__write
<1>5. ASSUME NEW code \in ExitCodes, env__exit(code) PROVE UNCHANGED vars
  BY <1>5 DEF env__exit
<1>6. CASE UNCHANGED sandboxVars
  BY <1>6 DEF sandboxVars
<1> QED BY <1>1, <1>2, <1>3, <1>4, <1>5, <1>6 DEF SandboxNext, HostStep, Imports, Next

(***************************************************************************)
(* The invariant of the host is inductive, given that of the runtime.      *)
(***************************************************************************)
LEMMA HostInitInv == SandboxInit => HostInv
<1>1. Inputs \subseteq Seq(Bytes)
  OBVIOUS
<1>2. <<>> \in Seq(Bytes)
  BY EmptySeq
<1> SUFFICES ASSUME SandboxInit PROVE HostInv
  OBVIOUS
<1>3. HostTypes
  <2>1. stdin \in Seq(Bytes) /\ stdout \in Seq(Bytes) /\ stderr \in Seq(Bytes)
    BY <1>1, <1>2 DEF SandboxInit
  <2>2. secured \in BOOLEAN
    BY DEF SandboxInit
  <2>3. status \in 0 .. 255
    BY DEF SandboxInit
  <2>4. /\ host \in {"boot", "refused", "running", "writing", "reported", "gone"}
        /\ life \in {"alive", "exited"} \cup Signals
        /\ report \in {"none", "trap", "seccomp strict failed"}
    BY DEF SandboxInit
  <2> QED BY <2>1, <2>2, <2>3, <2>4 DEF HostTypes
<1>4. HostFacts
  BY DEF SandboxInit, Init, HostFacts, StatusTellsTrap, GuestOnlyUnderSeccomp
<1> QED BY <1>3, <1>4 DEF HostInv

(* The status of a trap is not cut by the byte that the parent sees. *)
LEMMA TrapStatus ==
  ASSUME TypeOK, trapped # <<>>
  PROVE  100 + trapped[1] \in 101 .. 109 /\ (100 + trapped[1]) % 256 = 100 + trapped[1]
<1>1. trapped \in Traps
  BY DEF TypeOK
<1>2. trapped[1] \in 1 .. 9
  BY <1>1 DEF Traps
<1> QED BY <1>2

(* exit keeps the host's invariant if its code is the one that is promised. *)
LEMMA ExitInv ==
  ASSUME HostInv, NEW code, host \in {"running", "reported"},
         sys_exit(code), UNCHANGED vars, code \in Nat,
         trapped # <<>> => code % 256 = 100 + trapped[1],
         ~ secured => code % 256 = 99,
         secured /\ trapped = <<>> => code = 0 \/ code \in ExitCodes
  PROVE  HostInv'
<1>1. /\ UNCHANGED <<phase, trapped, result>>
      /\ UNCHANGED <<secured, stdin, stdout, stderr, report>>
      /\ life' = "exited" /\ host' = "gone" /\ status' = code % 256
  BY DEF vars, sys_exit, streams
<1>2. /\ code % 256 \in 0 .. 255
      /\ secured /\ trapped = <<>> =>
           code % 256 \in {0} \cup {c % 256 : c \in ExitCodes}
  OBVIOUS
<1>3. HostTypes'
  BY <1>1, <1>2 DEF HostTypes, HostInv
<1>4. HostFacts'
  BY <1>1, <1>2 DEF HostFacts, HostInv, StatusTellsTrap, GuestOnlyUnderSeccomp
<1> QED BY <1>3, <1>4 DEF HostInv

(* A signal keeps it. *)
LEMMA EndedInv ==
  ASSUME HostInv, NEW signal \in Signals, Ended(signal), UNCHANGED vars
  PROVE  HostInv'
<1>1. /\ UNCHANGED <<phase, trapped, result>>
      /\ UNCHANGED <<secured, status, stdin, stdout, stderr, report>>
      /\ life' = signal /\ host' = "gone"
  BY DEF vars, Ended, streams
<1>2. life' \in Signals /\ life' # "alive" /\ life' # "exited"
  BY <1>1 DEF Signals
<1>3. HostTypes'
  BY <1>1, <1>2 DEF HostTypes, HostInv
<1>4. HostFacts'
  BY <1>1, <1>2 DEF HostFacts, HostInv, StatusTellsTrap, GuestOnlyUnderSeccomp
<1> QED BY <1>3, <1>4 DEF HostInv

LEMMA KilledInv ==
  ASSUME HostInv, \/ \E name \in {"getpid", "write"} : Killed(name)
                  \/ ClosedPipe,
         UNCHANGED vars
  PROVE  HostInv'
<1>1. PICK signal \in Signals : Ended(signal)
  BY DEF Killed, ClosedPipe, Signals
<1> QED BY <1>1, EndedInv

(* The write of a message is entered by a process that has trapped or has   *)
(* no seccomp.                                                             *)
LEMMA EnterWriteInv ==
  ASSUME HostInv, EnterWrite, host \in {"refused", "running"},
         ~ secured <=> trapped = <<>>
  PROVE  HostInv'
<1>1. /\ UNCHANGED <<phase, trapped, result>>
      /\ UNCHANGED <<secured, life, status, stdin, stdout, stderr, report>>
      /\ host' = "writing"
  BY DEF EnterWrite, vars, streams
<1>2. life = "alive" /\ report = "none"
  BY DEF HostInv, HostFacts
<1>3. HostTypes'
  BY <1>1 DEF HostTypes, HostInv
<1>4. HostFacts'
  BY <1>1, <1>2 DEF HostFacts, HostInv, StatusTellsTrap, GuestOnlyUnderSeccomp
<1> QED BY <1>3, <1>4 DEF HostInv

(* So does a step of the running guest, whichever stream it moves. *)
LEMMA RunningInv ==
  ASSUME HostInv, host = "running", trapped = <<>>,
         stdin' \in Seq(Bytes), stdout' \in Seq(Bytes), stderr' \in Seq(Bytes),
         UNCHANGED <<host, secured, life, status, report>>
  PROVE  HostInv'
<1>1. HostTypes'
  BY DEF HostTypes, HostInv
<1>2. HostFacts'
  BY DEF HostFacts, HostInv, StatusTellsTrap, GuestOnlyUnderSeccomp
<1> QED BY <1>1, <1>2 DEF HostInv

(* env.write kills, appends a part of a checked buffer to one stream, or    *)
(* leaves the process as it is.                                            *)
LEMMA WriteEmits ==
  ASSUME IInv, HostInv, NEW fd \in Fds, NEW ptr \in U32, NEW len \in U32,
         env__write(fd, ptr, len)
  PROVE  \/ (Killed("getpid") \/ ClosedPipe) /\ UNCHANGED vars
         \/ UNCHANGED <<host, secured, life, status, streams, report>>
         \/ \E n \in 0 .. len : Appends(ptr, n) /\ Emitted(ptr, n) \in Seq(Bytes)
<1>0. U32 \subseteq Nat /\ size \in Nat
  BY DEF U32, U32Size, IInv, TypeOK
<1>1. ASSUME NEW n \in 0 .. len, HostRead(ptr, len, n)
      PROVE  /\ ptr + n <= size /\ result' = <<n>> /\ UNCHANGED <<arena, size, trapped>>
             /\ Emitted(ptr, n) \in Seq(Bytes)
  <2>1. len \in Nat /\ ptr \in Nat /\ n \in Nat /\ n <= len /\ ptr + len <= size
    BY <1>0, <1>1 DEF HostRead, wasm_check
  <2>2. n \in U32
    <3>1. U32Size \in Nat
      BY DEF U32Size
    <3> HIDE DEF U32Size
    <3> QED BY <2>1, <3>1 DEF U32
  <2>3. wasm_check(ptr, n) /\ ptr + n <= size
    BY <1>0, <2>1 DEF wasm_check
  <2>4. Emitted(ptr, n) \in [1 .. n -> Bytes]
    BY <2>2, <2>3, CheckedReadIsBytes DEF Emitted
  <2>5. Emitted(ptr, n) \in Seq(Bytes)
    BY <2>1, <2>4, FunctionIsSequence
  <2> QED BY <1>1, <2>3, <2>5 DEF HostRead, Return
<1>2. ASSUME NEW n \in 0 .. len, HostRead(ptr, len, n),
             UNCHANGED <<host, secured, life, status, stdin, report>>,
             \/ stdout' = stdout \o Emitted(ptr, n) /\ UNCHANGED stderr
             \/ stderr' = stderr \o Emitted(ptr, n) /\ UNCHANGED stdout
      PROVE  Appends(ptr, n) /\ Emitted(ptr, n) \in Seq(Bytes)
  BY <1>1, <1>2 DEF Appends
<1> QED BY <1>2 DEF env__write, hostVars, streams

(* Every step keeps the host's invariant. *)
LEMMA HostStepsInv ==
  ASSUME IInv, HostInv, [SandboxNext]_sandboxVars
  PROVE  HostInv'
<1>0. U32 \subseteq Nat /\ TypeOK /\ 0 \in Nat /\ 99 \in Nat
  BY DEF U32, U32Size, IInv
<1>1. CASE Prctl
  <2>1. HostTypes'
    BY <1>1 DEF Prctl, HostTypes, HostInv, streams
  <2>2. HostFacts'
    BY <1>1 DEF Prctl, HostTypes, HostFacts, HostInv, StatusTellsTrap, GuestOnlyUnderSeccomp,
                vars, streams
  <2> QED BY <2>1, <2>2 DEF HostInv
<1>2. CASE SeccompMessage \/ TrapMessage
  <2>1. host \in {"refused", "running"} /\ EnterWrite
    BY <1>2 DEF SeccompMessage, TrapMessage
  <2>2. ~ secured <=> trapped = <<>>
    BY <1>2 DEF SeccompMessage, TrapMessage, HostInv, HostFacts, GuestOnlyUnderSeccomp
  <2> QED BY <2>1, <2>2, EnterWriteInv
<1>3. CASE MessageWritten
  <2>1. CASE ClosedPipe
    BY <1>3, <2>1, KilledInv DEF MessageWritten
  <2>2. CASE ~ ClosedPipe
    <3>1. /\ UNCHANGED <<phase, trapped, result>>
          /\ UNCHANGED <<secured, life, status, stdin, stdout, stderr>>
          /\ host' = "reported"
          /\ report' \in {"none", IF secured THEN "trap" ELSE "seccomp strict failed"}
      BY <1>3, <2>2 DEF MessageWritten, vars, streams
    <3>2. life = "alive" /\ (~ secured <=> trapped = <<>>)
      BY <1>3 DEF MessageWritten, HostInv, HostTypes, HostFacts
    <3>3. HostTypes'
      BY <3>1 DEF HostTypes, HostInv
    <3>4. HostFacts'
      BY <1>3, <3>1, <3>2
         DEF MessageWritten, HostFacts, HostInv, StatusTellsTrap, GuestOnlyUnderSeccomp
    <3> QED BY <3>3, <3>4 DEF HostInv
  <2> QED BY <2>1, <2>2
<1>4. CASE ExitAfterReport
  <2>1. CASE trapped # <<>>
    <3>1. 100 + trapped[1] \in Nat /\ (100 + trapped[1]) % 256 = 100 + trapped[1]
      BY <1>0, <2>1, TrapStatus
    <3>2. secured
      BY <2>1 DEF HostInv, HostFacts, GuestOnlyUnderSeccomp
    <3>3. sys_exit(100 + trapped[1]) /\ host = "reported" /\ UNCHANGED vars
      BY <1>4, <2>1 DEF ExitAfterReport
    <3> QED BY <2>1, <3>1, <3>2, <3>3, ExitInv
  <2>2. CASE trapped = <<>>
    <3>1. ~ secured
      BY <1>4, <2>2 DEF ExitAfterReport, HostInv, HostFacts
    <3>2. sys_exit(99) /\ host = "reported" /\ UNCHANGED vars /\ 99 % 256 = 99
      BY <1>4, <2>2 DEF ExitAfterReport
    <3> QED BY <1>0, <2>2, <3>1, <3>2, ExitInv
  <2> QED BY <2>1, <2>2
<1>5. CASE GuestReturns
  <2>1. host = "running" /\ trapped = <<>> /\ secured
    BY <1>5 DEF GuestReturns, InGuest, HostInv, HostFacts
  <2> QED BY <1>0, <1>5, <2>1, ExitInv DEF GuestReturns
<1>6. CASE InstantiateStep \/ GuestStep
  <2>1. trapped = <<>>
    BY <1>6 DEF InstantiateStep, GuestStep, Instantiate, Guest, Instantiating, InGuest,
         wasmMemoryAllocate, LOAD_DATA, wasmTableAllocate, InitElements, EnterGuest,
         Load, Store, wasmMemoryCopy, wasmMemoryFill, wasm_memory_init, DataDrop,
         MemorySize, wasmMemoryGrow, CallIndirect, ArithmeticTrap
  <2> QED BY <1>6, <2>1, RunningInv
          DEF InstantiateStep, GuestStep, hostVars, streams, HostInv, HostTypes
<1>7. ASSUME NEW fd \in Fds, NEW ptr \in U32, NEW len \in U32, env__read(fd, ptr, len)
      PROVE  HostInv'
  <2>1. stdin' \in Seq(Bytes)
    <3>1. CASE UNCHANGED stdin
      BY <3>1 DEF HostInv, HostTypes
    <3>2. ASSUME NEW n \in ReadCounts(len), stdin' = SubSeq(stdin, n + 1, Len(stdin))
          PROVE  stdin' \in Seq(Bytes)
      <4>1. len \in Nat /\ stdin \in Seq(Bytes)
        BY <1>0 DEF HostInv, HostTypes
      <4>2. n \in Nat /\ n <= Len(stdin)
        BY <4>1, ReadCountsBounded
      <4> QED BY <3>2, <4>1, <4>2, Taken
    <3> QED BY <1>7, <3>1, <3>2 DEF env__read, hostVars, streams
  <2>2. /\ UNCHANGED <<host, secured, life, status, stdout, stderr, report>>
        /\ host = "running" /\ trapped = <<>>
    BY <1>7 DEF env__read, InGuest, hostVars, streams
  <2> QED BY <2>1, <2>2, RunningInv DEF HostInv, HostTypes
<1>8. ASSUME NEW fd \in Fds, NEW ptr \in U32, NEW len \in U32, env__write(fd, ptr, len)
      PROVE  HostInv'
  <2>1. host = "running" /\ trapped = <<>>
    BY <1>8 DEF env__write, InGuest
  <2>2. CASE (Killed("getpid") \/ ClosedPipe) /\ UNCHANGED vars
    BY <2>2, KilledInv
  <2>3. CASE UNCHANGED <<host, secured, life, status, streams, report>>
    BY <2>1, <2>3, RunningInv DEF HostInv, HostTypes, streams
  <2>4. ASSUME NEW n \in 0 .. len, Appends(ptr, n), Emitted(ptr, n) \in Seq(Bytes)
        PROVE  HostInv'
    <3>1. stdout \in Seq(Bytes) /\ stderr \in Seq(Bytes)
      BY DEF HostInv, HostTypes
    <3>2. stdout \o Emitted(ptr, n) \in Seq(Bytes) /\ stderr \o Emitted(ptr, n) \in Seq(Bytes)
      BY <2>4, <3>1, ConcatProperties
    <3>3. stdout' \in Seq(Bytes) /\ stderr' \in Seq(Bytes)
      BY <2>4, <3>1, <3>2 DEF Appends
    <3> QED BY <2>1, <2>4, <3>3, RunningInv DEF HostInv, HostTypes, Appends
  <2> QED BY <1>8, <2>2, <2>3, <2>4, WriteEmits
<1>9. ASSUME NEW code \in ExitCodes, env__exit(code) PROVE HostInv'
  <2>1. host = "running" /\ trapped = <<>> /\ secured /\ code \in Nat
    BY <1>9 DEF env__exit, InGuest, HostInv, HostFacts
  <2> QED BY <1>9, <2>1, ExitInv DEF env__exit
<1>10. CASE StackOverflow
  BY <1>10, EndedInv DEF StackOverflow, Signals
<1>11. CASE UNCHANGED sandboxVars
  <2>1. HostTypes'
    BY <1>11 DEF sandboxVars, hostVars, streams, HostTypes, HostInv
  <2>2. HostFacts'
    BY <1>11 DEF sandboxVars, hostVars, streams, vars, HostFacts, HostInv, StatusTellsTrap,
                 GuestOnlyUnderSeccomp
  <2> QED BY <2>1, <2>2 DEF HostInv
<1> QED
  BY <1>1, <1>2, <1>3, <1>4, <1>5, <1>6, <1>7, <1>8, <1>9, <1>10, <1>11
     DEF SandboxNext, HostStep, Imports

-----------------------------------------------------------------------------
(* Theorems. *)

(***************************************************************************)
(* The process keeps the host's invariant and every behaviour of it is a   *)
(* behaviour of the runtime.                                               *)
(***************************************************************************)
THEOREM ProcessInvariance == SandboxSpec => Spec /\ []HostInv
<1>1. SandboxInit => Init /\ IInv /\ HostInv
  BY HostInitInv, InitInv DEF SandboxInit
<1>2. HostInv /\ [SandboxNext]_sandboxVars => [Next]_vars
  BY StepsOfTheRuntime DEF HostInv, HostTypes
<1>3. IInv /\ [Next]_vars => IInv'
  BY StepInv
<1>4. IInv /\ HostInv /\ [SandboxNext]_sandboxVars => HostInv'
  BY HostStepsInv
<1> QED BY <1>1, <1>2, <1>3, <1>4, PTL DEF SandboxSpec, Spec

(***************************************************************************)
(* No generated code runs before prctl has succeeded.                      *)
(***************************************************************************)
THEOREM Sealed == SandboxSpec => []GuestOnlyUnderSeccomp
<1>1. HostInv => GuestOnlyUnderSeccomp
  BY DEF HostInv, HostFacts
<1> QED BY <1>1, ProcessInvariance, PTL

(***************************************************************************)
(* A trap ends in 100 + t, a refused seccomp in 99 and any other exit in   *)
(* the byte that the guest chose, 0 when its start function returns.       *)
(***************************************************************************)
THEOREM StatusTellsTheEnd == SandboxSpec => []StatusTellsTrap
<1>1. HostInv => StatusTellsTrap
  BY DEF HostInv, HostFacts
<1> QED BY <1>1, ProcessInvariance, PTL

(* No code of the guest has the status of a trap or of a refused seccomp.   *)
CodesAreClear == \A c \in ExitCodes : c % 256 \notin 99 .. 109

(* The parent reads the trap, and that seccomp was refused, off the status. *)
StatusAlone ==
    life = "exited" =>
        /\ \A t \in 1 .. 9 : status = 100 + t <=> trapped # <<>> /\ trapped[1] = t
        /\ status = 99 <=> ~ secured

(***************************************************************************)
(* The status is enough for a guest whose exit codes keep clear of 99 to   *)
(* 109; env.exit(106) is what it cannot tell from trap 6.                  *)
(***************************************************************************)
THEOREM StatusIsEnough == SandboxSpec => [](CodesAreClear => StatusAlone)
<1>1. IInv /\ HostInv => (CodesAreClear => StatusAlone)
  <2> SUFFICES ASSUME IInv, HostInv, CodesAreClear, life = "exited"
               PROVE  /\ \A t \in 1 .. 9 :
                           status = 100 + t <=> trapped # <<>> /\ trapped[1] = t
                      /\ status = 99 <=> ~ secured
    BY DEF StatusAlone
  <2>1. TypeOK /\ StatusTellsTrap /\ GuestOnlyUnderSeccomp
    BY DEF IInv, HostInv, HostFacts
  <2>2. CASE trapped # <<>>
    <3>1. trapped[1] \in 1 .. 9
      BY <2>1, <2>2 DEF TypeOK, Traps
    <3>2. status = 100 + trapped[1] /\ secured
      BY <2>1, <2>2 DEF StatusTellsTrap, GuestOnlyUnderSeccomp
    <3> QED BY <2>2, <3>1, <3>2
  <2>3. CASE trapped = <<>> /\ secured
    <3>1. status \in {0} \cup {c % 256 : c \in ExitCodes}
      BY <2>1, <2>3 DEF StatusTellsTrap
    <3>2. status \notin 99 .. 109
      BY <3>1 DEF CodesAreClear
    <3>3. status \in 0 .. 255
      BY DEF HostInv, HostTypes
    <3> QED BY <2>3, <3>2, <3>3
  <2>4. CASE trapped = <<>> /\ ~ secured
    BY <2>1, <2>4 DEF StatusTellsTrap
  <2> QED BY <2>2, <2>3, <2>4
<1>2. SandboxSpec => []IInv
  BY ProcessInvariance, Invariance, PTL
<1> QED BY <1>1, <1>2, ProcessInvariance, PTL

(* Every step that does not end the process leaves it alive, and seccomp    *)
(* ends it at getpid only.                                                 *)
LEMMA StepsSpareHonest ==
  ASSUME HostInv, SeccompSparesHonest, [SandboxNext]_sandboxVars
  PROVE  SeccompSparesHonest'
<1>1. CASE life' # "SIGKILL"
  BY <1>1 DEF SeccompSparesHonest
<1>2. CASE Killed("getpid") /\ DemoEscape
  BY <1>2 DEF Killed, SeccompSparesHonest
<1>3. ASSUME ClosedPipe PROVE life' # "SIGKILL"
  BY <1>3 DEF ClosedPipe, Ended
<1>4. ASSUME host # "gone", UNCHANGED life PROVE life' # "SIGKILL"
  BY <1>4 DEF HostInv, HostFacts
<1>5. CASE \/ Prctl \/ SeccompMessage \/ TrapMessage \/ MessageWritten
           \/ InstantiateStep \/ GuestStep
  BY <1>1, <1>3, <1>4, <1>5
     DEF Prctl, SeccompMessage, TrapMessage, EnterWrite, MessageWritten,
         InstantiateStep, GuestStep, hostVars
<1>6. CASE ExitAfterReport \/ GuestReturns
  BY <1>1, <1>6 DEF ExitAfterReport, GuestReturns, sys_exit
<1>7. CASE StackOverflow
  BY <1>1, <1>7 DEF StackOverflow, Ended
<1>8. ASSUME NEW fd \in Fds, NEW ptr \in U32, NEW len \in U32, env__read(fd, ptr, len)
      PROVE  SeccompSparesHonest'
  BY <1>1, <1>4, <1>8 DEF env__read, hostVars
<1>9. ASSUME NEW fd \in Fds, NEW ptr \in U32, NEW len \in U32, env__write(fd, ptr, len)
      PROVE  SeccompSparesHonest'
  BY <1>1, <1>2, <1>3, <1>4, <1>9 DEF env__write, hostVars
<1>10. ASSUME NEW code \in ExitCodes, env__exit(code) PROVE SeccompSparesHonest'
  BY <1>1, <1>10 DEF env__exit, sys_exit
<1>11. CASE UNCHANGED sandboxVars
  BY <1>11 DEF sandboxVars, hostVars, SeccompSparesHonest
<1> QED
  BY <1>5, <1>6, <1>7, <1>8, <1>9, <1>10, <1>11 DEF SandboxNext, HostStep, Imports

(***************************************************************************)
(* seccomp never kills an honest process: on every path to its end it      *)
(* makes only calls that strict mode allows, its exit included. What else  *)
(* ends it by a signal is a closed pipe or the end of the native stack.    *)
(***************************************************************************)
THEOREM SeccompKillsNoHonestBuild == SandboxSpec => []SeccompSparesHonest
<1>1. SandboxInit => SeccompSparesHonest
  BY DEF SandboxInit, SeccompSparesHonest
<1>2. HostInv /\ SeccompSparesHonest /\ [SandboxNext]_sandboxVars => SeccompSparesHonest'
  BY StepsSpareHonest
<1> QED BY <1>1, <1>2, ProcessInvariance, PTL DEF SandboxSpec

(* A step of the running guest that moves no stream computes or traps. *)
LEMMA ComputeMaps ==
  ASSUME HostInv, host = "running", trapped = <<>>,
         UNCHANGED <<host, secured, life, status, streams, report>>
  PROVE  IO!Next
<1>1. /\ life = "alive" /\ life' = "alive" /\ secured /\ secured' /\ host' = "running"
      /\ UNCHANGED <<stdin, stdout, stderr, report, status>>
  BY DEF HostInv, HostFacts, streams
<1>2. Standing = "open" /\ Standing' = IF trapped' # <<>> THEN "trapped" ELSE "open"
  BY <1>1 DEF Standing, Signals
<1>3. CASE trapped' # <<>>
  <2>1. IO!Trapped
    BY <1>1, <1>2, <1>3 DEF IO!Trapped, IO!streams
  <2> QED BY <2>1 DEF IO!Next
<1>4. CASE trapped' = <<>>
  <2>1. IO!Compute
    BY <1>1, <1>2, <1>4 DEF IO!Compute, IO!streams
  <2> QED BY <2>1 DEF IO!Next
<1> QED BY <1>3, <1>4

(* A signal kills. *)
LEMMA EndedMaps ==
  ASSUME HostInv, NEW signal \in Signals, Ended(signal), UNCHANGED vars,
         host \in {"refused", "running", "writing"}
  PROVE  IO!Next
<1>1. life = "alive" /\ life' \in Signals /\ host # "boot"
  BY DEF Ended, HostInv, HostFacts
<1>2. Standing \in {"refused", "open", "trapped"} /\ Standing' = "killed"
  BY <1>1 DEF Standing, Signals
<1>3. IO!Kill
  BY <1>2 DEF IO!Kill, IO!guest, IO!streams, Ended, streams, vars, memory
<1> QED BY <1>3 DEF IO!Next

LEMMA KilledMaps ==
  ASSUME HostInv, UNCHANGED vars, host \in {"refused", "running", "writing"},
         \/ \E name \in {"getpid", "write"} : Killed(name)
         \/ ClosedPipe
  PROVE  IO!Next
<1>1. PICK signal \in Signals : Ended(signal)
  BY DEF Killed, ClosedPipe, Signals
<1> QED BY <1>1, EndedMaps

(* An exit with the status that is promised. *)
LEMMA ExitMaps ==
  ASSUME HostInv, NEW code \in Nat, sys_exit(code), UNCHANGED vars,
         host \in {"running", "reported"},
         Standing = "trapped" => code % 256 \in 101 .. 109,
         Standing = "refused" => code % 256 = 99
  PROVE  IO!Next
<1>1. life = "alive" /\ life' = "exited" /\ host # "boot" /\ status' = code % 256
  BY DEF sys_exit, HostInv, HostFacts
<1>2. Standing \in {"refused", "open", "trapped"} /\ Standing' = "exited"
  BY <1>1 DEF Standing, Signals
<1>3. code % 256 \in 0 .. 255
  OBVIOUS
<1>4. IO!Exit
  BY <1>1, <1>2, <1>3 DEF IO!Exit, IO!guest, IO!streams, sys_exit, streams, vars, memory
<1> QED BY <1>4 DEF IO!Next

(* What prctl decides. *)
LEMMA PrctlMaps == ASSUME HostInv, Prctl PROVE IO!Next
<1>1. /\ life = "alive" /\ life' = "alive" /\ host = "boot" /\ ~ secured
      /\ UNCHANGED <<vars, streams, report, status>>
  BY DEF Prctl, HostInv, HostFacts
<1>2. trapped = <<>> /\ trapped' = <<>>
  BY <1>1 DEF HostInv, HostFacts, GuestOnlyUnderSeccomp, vars
<1>3. Standing = "fresh" /\ Standing' \in {"open", "refused"}
  BY <1>1, <1>2 DEF Prctl, Standing, Signals
<1>4. IO!Open
  BY <1>1, <1>3 DEF IO!Open, IO!guest, IO!streams, streams, vars, memory
<1> QED BY <1>4 DEF IO!Next

(* The write of a message is entered without a trace, and leaves a report.  *)
LEMMA EnterWriteMaps ==
  ASSUME HostInv, EnterWrite, host \in {"refused", "running"}
  PROVE  UNCHANGED IO!vars
<1>1. life = "alive" /\ host' = "writing" /\ UNCHANGED <<vars, life, secured>>
  BY DEF EnterWrite, HostInv, HostFacts
<1>2. Standing' = Standing
  BY <1>1 DEF Standing, Signals, vars
<1> QED BY <1>2 DEF EnterWrite, IO!vars, IO!guest, IO!streams, streams, vars, memory

LEMMA MessageMaps ==
  ASSUME HostInv, MessageWritten
  PROVE  [IO!Next]_(IO!vars)
<1>1. CASE ClosedPipe
  BY <1>1, KilledMaps DEF MessageWritten
<1>2. CASE ~ ClosedPipe
  <2>1. /\ UNCHANGED <<vars, secured, life, status, streams>>
        /\ host = "writing" /\ host' = "reported" /\ report = "none" /\ life = "alive"
        /\ report' \in {"none", IF secured THEN "trap" ELSE "seccomp strict failed"}
        /\ ~ secured <=> trapped = <<>>
    BY <1>2 DEF MessageWritten, HostInv, HostFacts
  <2>2. Standing = (IF secured THEN "trapped" ELSE "refused") /\ Standing' = Standing
    BY <2>1 DEF Standing, Signals, vars
  <2>3. CASE report' = "none"
    BY <2>1, <2>2, <2>3 DEF IO!vars, IO!guest, IO!streams, streams, vars, memory
  <2>4. CASE report' # "none"
    <3>1. IO!Report
      BY <2>1, <2>2, <2>4 DEF IO!Report, IO!guest, IO!streams, streams, vars, memory
    <3> QED BY <3>1 DEF IO!Next
  <2> QED BY <2>3, <2>4
<1> QED BY <1>1, <1>2

(* The bytes that the kernel takes from stdin are those that the guest      *)
(* finds in its buffer.                                                    *)
LEMMA ReadMaps ==
  ASSUME IInv, HostInv, NEW fd \in Fds, NEW ptr \in U32, NEW len \in U32,
         env__read(fd, ptr, len)
  PROVE  IO!Next
<1>0. U32 \subseteq Nat /\ size \in Nat
  BY DEF U32, U32Size, IInv, TypeOK
<1>1. /\ host = "running" /\ trapped = <<>> /\ secured /\ life = "alive"
      /\ UNCHANGED <<host, secured, life, status, stdout, stderr, report>>
  BY DEF env__read, InGuest, hostVars, streams, HostInv, HostFacts
<1>2. CASE UNCHANGED stdin
  BY <1>1, <1>2, ComputeMaps DEF streams
<1>3. ASSUME NEW n \in ReadCounts(len), wasm_check(ptr, len),
             HostWrite(ptr, len, SubSeq(stdin, 1, n)),
             stdin' = SubSeq(stdin, n + 1, Len(stdin))
      PROVE  IO!Next
  <2>1. /\ len \in Nat /\ ptr \in Nat /\ stdin \in Seq(Bytes)
        /\ n \in 0 .. len /\ n \in Nat /\ n <= Len(stdin)
    <3>1. len \in Nat /\ ptr \in Nat /\ stdin \in Seq(Bytes)
      BY <1>0 DEF HostInv, HostTypes
    <3>2. n \in 0 .. len /\ n <= Len(stdin)
      BY <1>3, <3>1, ReadCountsBounded
    <3> QED BY <3>1, <3>2
  <2> DEFINE taken == SubSeq(stdin, 1, n)
  <2>2. Len(taken) = n /\ \A i \in 1 .. n : taken[i] = stdin[i]
    <3>1. \A i \in 1 .. n : stdin[i] \in Bytes
      BY <2>1, ElementOfSeq, LenProperties
    <3>2. /\ Len(taken) = IF 1 <= n THEN n - 1 + 1 ELSE 0
          /\ \A i \in 1 .. n - 1 + 1 : taken[i] = stdin[1 + i - 1]
      BY <2>1, <3>1, SubSeqProperties
    <3> QED BY <2>1, <3>2
  <2>3. ptr + n <= size /\ ptr \in 0 .. size /\ n \in 0 .. size
    BY <1>0, <1>3, <2>1 DEF wasm_check
  <2>4. arena' = [x \in DOMAIN arena |->
                    IF x \in ptr .. ptr + n - 1 THEN stdin[x - ptr + 1] ELSE arena[x]]
    <3>1. arena' = Write(arena, ptr, taken)
      BY <1>3 DEF HostWrite
    <3>2. DOMAIN arena \subseteq Nat
      BY DEF IInv, TypeOK, Address
    <3>3. ASSUME NEW x \in DOMAIN arena
          PROVE  (IF Covers(ptr, n, x) THEN taken[x - ptr + 1] ELSE arena[x])
                 = (IF x \in ptr .. ptr + n - 1 THEN stdin[x - ptr + 1] ELSE arena[x])
      BY <2>1, <2>2, <3>2 DEF Covers
    <3> HIDE DEF taken
    <3> QED BY <2>2, <3>1, <3>3 DEF Write
  <2>5. result' = <<n>> /\ UNCHANGED <<size, trapped>>
    BY <1>3, <2>2 DEF HostWrite, Return
  <2>6. Standing = "open" /\ Standing' = "open"
    BY <1>1, <2>5 DEF Standing, Signals
  <2>7. IO!Consume(ptr, n)
    BY <1>1, <1>3, <2>1, <2>3, <2>4, <2>5, <2>6 DEF IO!Consume
  <2> QED BY <2>3, <2>7 DEF IO!Next
<1> QED BY <1>2, <1>3 DEF env__read, hostVars, streams

(* The bytes that an output gets are those of the guest's buffer. *)
LEMMA WriteMapsToEmit ==
  ASSUME IInv, HostInv, NEW fd \in Fds, NEW ptr \in U32, NEW len \in U32,
         env__write(fd, ptr, len)
  PROVE  IO!Next
<1>0. U32 \subseteq Nat /\ size \in Nat
  BY DEF U32, U32Size, IInv, TypeOK
<1>1. host = "running" /\ trapped = <<>> /\ secured /\ life = "alive"
  BY DEF env__write, InGuest, HostInv, HostFacts
<1>2. CASE (Killed("getpid") \/ ClosedPipe) /\ UNCHANGED vars
  BY <1>1, <1>2, KilledMaps
<1>3. CASE UNCHANGED <<host, secured, life, status, streams, report>>
  BY <1>1, <1>3, ComputeMaps
<1>4. ASSUME NEW n \in 0 .. len, Appends(ptr, n) PROVE IO!Next
  <2>1. Standing = "open" /\ Standing' = "open"
    BY <1>1, <1>4 DEF Standing, Signals, Appends
  <2>2. ptr \in 0 .. size /\ n \in 0 .. size
    BY <1>0, <1>4 DEF Appends
  <2>3. IO!Emit(ptr, n)
    BY <1>4, <2>1 DEF Appends, IO!Emit, Emitted, Read
  <2> QED BY <2>2, <2>3 DEF IO!Next
<1> QED BY <1>2, <1>3, <1>4, WriteEmits

(* Every step of the process is a step of what is promised of it.          *)
LEMMA StepsOfThePromise ==
  ASSUME IInv, HostInv, [SandboxNext]_sandboxVars
  PROVE  [IO!Next]_(IO!vars)
<1>0. TypeOK
  BY DEF IInv
<1>1. CASE Prctl
  BY <1>1, PrctlMaps
<1>2. CASE SeccompMessage \/ TrapMessage
  BY <1>2, EnterWriteMaps DEF SeccompMessage, TrapMessage
<1>3. CASE MessageWritten
  BY <1>3, MessageMaps
<1>4. CASE ExitAfterReport
  <2>1. life = "alive" /\ host = "reported" /\ (~ secured <=> trapped = <<>>)
    BY <1>4 DEF ExitAfterReport, HostInv, HostFacts
  <2>2. CASE trapped # <<>>
    <3>1. 100 + trapped[1] \in 101 .. 109 /\ (100 + trapped[1]) % 256 = 100 + trapped[1]
      BY <1>0, <2>2, TrapStatus
    <3>2. sys_exit(100 + trapped[1]) /\ UNCHANGED vars
      BY <1>4, <2>2 DEF ExitAfterReport
    <3>3. 100 + trapped[1] \in Nat /\ Standing = "trapped"
      BY <2>1, <2>2, <3>1 DEF Standing, Signals
    <3> QED BY <2>1, <3>1, <3>2, <3>3, ExitMaps
  <2>3. CASE trapped = <<>>
    <3>1. sys_exit(99) /\ UNCHANGED vars /\ 99 \in Nat /\ 99 % 256 = 99
      BY <1>4, <2>3 DEF ExitAfterReport
    <3>2. Standing = "refused"
      BY <2>1, <2>3 DEF Standing, Signals
    <3> QED BY <2>1, <3>1, <3>2, ExitMaps
  <2> QED BY <2>2, <2>3
<1>5. ASSUME host = "running", trapped = <<>> PROVE Standing = "open"
  BY <1>5 DEF Standing, Signals, HostInv, HostFacts
<1>6. CASE GuestReturns
  <2>1. host = "running" /\ trapped = <<>> /\ sys_exit(0) /\ UNCHANGED vars /\ 0 \in Nat
    BY <1>6 DEF GuestReturns, InGuest
  <2> QED BY <1>5, <2>1, ExitMaps
<1>7. CASE StackOverflow
  BY <1>7, EndedMaps DEF StackOverflow, Signals
<1>8. CASE InstantiateStep \/ GuestStep
  <2>1. trapped = <<>>
    BY <1>8 DEF InstantiateStep, GuestStep, Instantiate, Guest, Instantiating, InGuest,
         wasmMemoryAllocate, LOAD_DATA, wasmTableAllocate, InitElements, EnterGuest,
         Load, Store, wasmMemoryCopy, wasmMemoryFill, wasm_memory_init, DataDrop,
         MemorySize, wasmMemoryGrow, CallIndirect, ArithmeticTrap
  <2>2. host = "running" /\ UNCHANGED hostVars
    BY <1>8 DEF InstantiateStep, GuestStep
  <2> QED BY <2>1, <2>2, ComputeMaps DEF hostVars
<1>9. ASSUME NEW fd \in Fds, NEW ptr \in U32, NEW len \in U32,
             env__read(fd, ptr, len) \/ env__write(fd, ptr, len)
      PROVE  IO!Next
  BY <1>9, ReadMaps, WriteMapsToEmit
<1>10. ASSUME NEW code \in ExitCodes, env__exit(code) PROVE IO!Next
  <2>1. /\ host = "running" /\ trapped = <<>> /\ sys_exit(code) /\ UNCHANGED vars
        /\ code \in Nat
    BY <1>10 DEF env__exit, InGuest
  <2> QED BY <1>5, <2>1, ExitMaps
<1>11. CASE UNCHANGED sandboxVars
  BY <1>11 DEF sandboxVars, hostVars, streams, vars, memory, Standing,
               IO!vars, IO!guest, IO!streams
<1> QED
  BY <1>1, <1>2, <1>3, <1>4, <1>6, <1>7, <1>8, <1>9, <1>10, <1>11
     DEF SandboxNext, HostStep, Imports

(***************************************************************************)
(* The goal of the whole stack (STATUS.md): the process can only map its   *)
(* standard input to its outputs, whatever module it was built from.       *)
(***************************************************************************)
THEOREM OnlyMaps == SandboxSpec => OnlyMapsStreams
<1>1. SandboxInit => IO!Init
  <2>1. Inputs \subseteq Seq(Bytes)
    OBVIOUS
  <2>2. SandboxInit => Standing = "fresh"
    BY DEF SandboxInit, Standing, Signals
  <2> QED BY <2>1, <2>2 DEF SandboxInit, IO!Init
<1>2. SandboxInit => IInv /\ HostInv
  BY HostInitInv, InitInv DEF SandboxInit
<1>3. HostInv /\ [SandboxNext]_sandboxVars => [Next]_vars
  BY StepsOfTheRuntime DEF HostInv, HostTypes
<1>4. IInv /\ [Next]_vars => IInv'
  BY StepInv
<1>5. IInv /\ HostInv /\ [SandboxNext]_sandboxVars => HostInv'
  BY HostStepsInv
<1>6. IInv /\ HostInv /\ [SandboxNext]_sandboxVars => [IO!Next]_(IO!vars)
  BY StepsOfThePromise
<1> QED BY <1>1, <1>2, <1>3, <1>4, <1>5, <1>6, PTL
        DEF SandboxSpec, OnlyMapsStreams, IO!Spec

(***************************************************************************)
(* After a trap nothing of the instance or of the streams changes.         *)
(***************************************************************************)
THEOREM TrapIsTheEnd == SandboxSpec => TrapEndsGuest
<1> DEFINE Frozen == UNCHANGED <<vars, streams>>
<1>1. [SandboxNext]_sandboxVars => [trapped # <<>> => Frozen]_sandboxVars
  <2> SUFFICES ASSUME SandboxNext, trapped # <<>> PROVE Frozen
    BY DEF sandboxVars, hostVars
  <2>1. ~ InGuest
    BY DEF InGuest
  <2>2. ~ InstantiateStep /\ ~ GuestStep
    BY DEF InstantiateStep, GuestStep, Instantiate, Guest, Instantiating, InGuest,
       wasmMemoryAllocate, LOAD_DATA, wasmTableAllocate, InitElements, EnterGuest,
       Load, Store, wasmMemoryCopy, wasmMemoryFill, wasm_memory_init, DataDrop,
       MemorySize, wasmMemoryGrow, CallIndirect, ArithmeticTrap
  <2>3. ~ GuestReturns /\ ~ Imports
    BY <2>1 DEF GuestReturns, Imports, env__read, env__write, env__exit
  <2>4. CASE \/ Prctl \/ SeccompMessage \/ TrapMessage \/ MessageWritten
             \/ ExitAfterReport \/ StackOverflow
    BY <2>4 DEF Prctl, SeccompMessage, TrapMessage, EnterWrite, MessageWritten,
                ExitAfterReport, StackOverflow, ClosedPipe, Ended, sys_exit
  <2> QED BY <2>2, <2>3, <2>4 DEF SandboxNext, HostStep
<1> QED BY <1>1, PTL DEF SandboxSpec, TrapEndsGuest
=============================================================================
