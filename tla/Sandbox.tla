------------------------------- MODULE Sandbox -------------------------------
(***************************************************************************)
(* The process: host/main.c around the runtime, above the kernel.          *)
(* cmain asks for seccomp, instantiates the guest and runs it; env.read,   *)
(* env.write and env.exit are the guest's only ways out; a trap writes its *)
(* message and exits.                                                      *)
(*                                                                         *)
(* The kernel is modelled from the calls that host/main.c makes: a read or *)
(* a write may move fewer bytes than it was asked to or fail, a write may  *)
(* wait for ever for a reader of its pipe, and kills when there is none,   *)
(* and under seccomp any call other than read, write and exit kills. The   *)
(* guest's calls are C calls that no one counts: they may run out of the   *)
(* native stack.                                                           *)
(***************************************************************************)
EXTENDS Runtime

CONSTANTS
    Fds,         \* descriptors the guest names
    ExitCodes,   \* codes the guest exits with
    Inputs,      \* what stdin may hold
    MaxOutput,   \* bound on what the guest writes to one stream
    DemoEscape   \* built with -DDEMO_ESCAPE

ASSUME HostAssumption ==
    /\ Fds \subseteq Nat /\ ExitCodes \subseteq Nat
    /\ Inputs \subseteq Seq(Bytes) /\ MaxOutput \in Nat /\ DemoEscape \in BOOLEAN

VARIABLES
    host,      \* where cmain is: "boot", "refused", "running", in the write of
               \* a message: "writing", behind it: "reported", or "gone"
    secured,   \* the kernel's seccomp mode of this process is strict
    life,      \* "alive", "exited", or the signal that ended it
    status,    \* the exit status, once it has exited
    call,      \* the last system call, as strace shows it
    stdin, stdout, stderr,
    report     \* the host's own message on stderr

streams == <<stdin, stdout, stderr>>
hostVars == <<host, secured, life, status, call, streams, report>>
sandboxVars == <<vars, hostVars>>

-----------------------------------------------------------------------------
(* The kernel. *)

Strict == {"read", "write", "exit"}

Permitted(name) == secured => name \in Strict

(* a call that returns to the process *)
Syscall(name) == Permitted(name) /\ call' = name

(* the process ends by a signal *)
Signals == {"SIGKILL", "SIGPIPE", "SIGSEGV"}
Ended(signal) ==
    /\ life' = signal /\ host' = "gone"
    /\ UNCHANGED <<secured, status, streams, report>>

(* calls that do not return: under seccomp, and of a closed pipe *)
Killed(name) == call' = name /\ Ended("SIGKILL")
ClosedPipe == Permitted("write") /\ call' = "write" /\ Ended("SIGPIPE")

(* how many bytes a read of n moves; 0 is the end of the input *)
ReadCounts(n) ==
    IF stdin = <<>> \/ n = 0 THEN {0} ELSE 1 .. MinOf(n, Len(stdin))

(* mutant: exit_group, as libc's exit does *)
ExitGroup(code) ==
    IF Permitted("exit_group")
    THEN /\ Syscall("exit_group")
         /\ life' = "exited" /\ host' = "gone"
         /\ status' = code % 256
         /\ UNCHANGED <<secured, streams, report>>
    ELSE Killed("exit_group")

sys_exit(code) ==
    /\ Syscall("exit")
    /\ life' = "exited" /\ host' = "gone"
    /\ status' = code % 256
    /\ UNCHANGED <<secured, streams, report>>

-----------------------------------------------------------------------------
(* cmain *)

SandboxInit ==
    /\ Init
    /\ host = "boot" /\ secured = FALSE
    /\ life = "alive" /\ status = 0
    /\ call = "execve"
    /\ stdin \in Inputs /\ stdout = <<>> /\ stderr = <<>>
    /\ report = "none"

(* mutant: the result of prctl is not looked at *)
PrctlIgnored ==
    /\ host = "boot"
    /\ Syscall("prctl")
    /\ secured' \in BOOLEAN /\ host' = "running"
    /\ UNCHANGED <<vars, life, status, streams, report>>

Prctl ==
    /\ host = "boot"
    /\ Syscall("prctl")
    /\ \/ secured' = TRUE /\ host' = "running"
       \/ secured' = FALSE /\ host' = "refused"
    /\ UNCHANGED <<vars, life, status, streams, report>>

(* A message on stderr is one write. When it comes back is the kernel's    *)
(* affair: the reader of the pipe may keep it waiting for ever.            *)
EnterWrite ==
    /\ Syscall("write")
    /\ host' = "writing"
    /\ UNCHANGED <<vars, secured, life, status, streams, report>>

SeccompMessage == host = "refused" /\ EnterWrite

(* the write fails or takes the message, or a part of it, or kills *)
MessageWritten ==
    /\ host = "writing"
    /\ \/ /\ host' = "reported"
          /\ report' \in {"none", IF secured THEN "trap" ELSE "seccomp strict failed"}
          /\ UNCHANGED <<secured, life, status, call, streams>>
       \/ ClosedPipe
    /\ UNCHANGED vars

InstantiateStep ==
    /\ host = "running"
    /\ Instantiate
    /\ UNCHANGED hostVars

GuestStep ==
    /\ host = "running"
    /\ Guest
    /\ UNCHANGED hostVars

(* guest__start returns *)
GuestReturns ==
    /\ host = "running" /\ InGuest
    /\ sys_exit(0)
    /\ UNCHANGED vars

(* A guest that calls itself without end runs out of the native stack, in   *)
(* its own code or in the frame of an import or of trap.                   *)
StackOverflow ==
    /\ host = "running" /\ phase = "guest"
    /\ Ended("SIGSEGV")
    /\ UNCHANGED <<vars, call>>

(* mutant: trap returns to its caller *)
TrapReturns ==
    /\ host = "running" /\ trapped # <<>>
    /\ Syscall("write")
    /\ trapped' = <<>>
    /\ UNCHANGED <<mod, wasm_arena_pages, arena, memory, segLen, tables, phase,
                   cursor, result, host, secured, life, status, streams, report>>

(* trap: the message, whatever becomes of it, and then sys_exit *)
TrapMessage == host = "running" /\ trapped # <<>> /\ EnterWrite

(* mutant: trap ends with its message *)
ExitUnlessTrapped ==
    /\ host = "reported" /\ trapped = <<>>
    /\ sys_exit(99)
    /\ UNCHANGED vars

(* mutant: the bare number of the trap is the status *)
ExitWithTrapNumber ==
    /\ host = "reported"
    /\ sys_exit(IF trapped # <<>> THEN trapped[1] ELSE 99)
    /\ UNCHANGED vars

ExitAfterReport ==
    /\ host = "reported"
    /\ sys_exit(IF trapped # <<>> THEN 100 + trapped[1] ELSE 99)
    /\ UNCHANGED vars

-----------------------------------------------------------------------------
(* The imports of the guest. *)

env__read(fd, ptr, len) ==
    /\ host = "running" /\ InGuest
    /\ \/ fd # 0 /\ HostRefuses /\ UNCHANGED hostVars
       \/ fd = 0 /\ OutOfBounds(ptr, len) /\ UNCHANGED hostVars
       \/ /\ fd = 0 /\ wasm_check(ptr, len) /\ Syscall("read")
          /\ \/ HostRefuses /\ UNCHANGED stdin
             \/ \E n \in ReadCounts(len) :
                  /\ HostWrite(ptr, len, SubSeq(stdin, 1, n))
                  /\ stdin' = SubSeq(stdin, n + 1, Len(stdin))
          /\ UNCHANGED <<host, secured, life, status, stdout, stderr, report>>

(* the bytes that a write of n at ptr hands over *)
Emitted(ptr, n) == Read(arena, ptr, n)

(* mutant: a write that took a part of the buffer is reported as whole *)
WriteReportsLen(fd, ptr, len) ==
    /\ host = "running" /\ InGuest
    /\ fd \in {1, 2} /\ wasm_check(ptr, len) /\ Syscall("write")
    /\ HostRead(ptr, len, len)
    /\ \E n \in 0 .. len :
         /\ fd = 1 /\ Len(stdout) + n <= MaxOutput
         /\ stdout' = stdout \o Emitted(ptr, n)
    /\ UNCHANGED <<host, secured, life, status, stdin, stderr, report>>

env__write(fd, ptr, len) ==
    /\ host = "running" /\ InGuest
    /\ \/ /\ DemoEscape /\ fd = 3
          /\ IF Permitted("getpid")
             THEN /\ Syscall("getpid") /\ HostRefuses
                  /\ UNCHANGED <<host, secured, life, status, streams, report>>
             ELSE Killed("getpid") /\ UNCHANGED vars
       \/ /\ fd \notin {1, 2} /\ ~ (DemoEscape /\ fd = 3)
          /\ HostRefuses /\ UNCHANGED hostVars
       \/ fd \in {1, 2} /\ OutOfBounds(ptr, len) /\ UNCHANGED hostVars
       \/ /\ fd \in {1, 2} /\ wasm_check(ptr, len) /\ Syscall("write")
          /\ \/ HostRefuses /\ UNCHANGED <<stdout, stderr>>
             \/ \E n \in 0 .. len :
                  /\ HostRead(ptr, len, n)
                  /\ \/ /\ fd = 1 /\ Len(stdout) + n <= MaxOutput
                        /\ stdout' = stdout \o Emitted(ptr, n) /\ UNCHANGED stderr
                     \/ /\ fd = 2 /\ Len(stderr) + n <= MaxOutput
                        /\ stderr' = stderr \o Emitted(ptr, n) /\ UNCHANGED stdout
          /\ UNCHANGED <<host, secured, life, status, stdin, report>>
       \/ /\ fd \in {1, 2} /\ wasm_check(ptr, len)
          /\ ClosedPipe
          /\ UNCHANGED vars

env__exit(code) ==
    /\ host = "running" /\ InGuest
    /\ sys_exit(code)
    /\ UNCHANGED vars

-----------------------------------------------------------------------------
Imports ==
    \/ \E fd \in Fds, ptr \in U32, len \in U32 :
         env__read(fd, ptr, len) \/ env__write(fd, ptr, len)
    \/ \E code \in ExitCodes : env__exit(code)

HostStep ==
    \/ Prctl \/ SeccompMessage \/ InstantiateStep \/ TrapMessage \/ ExitAfterReport

SandboxNext ==
    \/ HostStep \/ MessageWritten
    \/ GuestStep \/ GuestReturns \/ StackOverflow \/ Imports

(* cmain, guestInstantiate and trap run on; only the write of a message     *)
(* waits, and nothing promises that it comes back. The guest may loop for   *)
(* ever.                                                                    *)
SandboxSpec == SandboxInit /\ [][SandboxNext]_sandboxVars /\ WF_sandboxVars(HostStep)

-----------------------------------------------------------------------------
(* Properties. *)

(***************************************************************************)
(* No line of the translated module runs outside strict seccomp: until     *)
(* prctl has succeeded the runtime is untouched, and it stays untouched    *)
(* for ever when prctl fails.                                              *)
(***************************************************************************)
GuestOnlyUnderSeccomp ==
    ~ secured => phase = "memory" /\ trapped = <<>> /\ result = <<>>
                 /\ stdout = <<>> /\ stderr = <<>>

(***************************************************************************)
(* Strict seccomp ends no honest build, on none of the paths to its end,   *)
(* where libc would call exit_group; a build with DEMO_ESCAPE ends by the  *)
(* call that it was built to make, and by no other.                        *)
(***************************************************************************)
SeccompSparesHonest == life = "SIGKILL" => DemoEscape /\ call = "getpid"

(***************************************************************************)
(* What the exit status says: a trap t that was raised ends in 100 + t, no *)
(* seccomp in 99, whatever became of the message, and any other end in 0   *)
(* or the low byte of the code that the guest gave to env.exit. That byte  *)
(* may be 106 too, so the status alone does not prove trap 6.              *)
(***************************************************************************)
StatusTellsTrap ==
    life = "exited" =>
        /\ trapped # <<>> => status = 100 + trapped[1]
        /\ report = "trap" => trapped # <<>>
        /\ ~ secured => status = 99
        /\ secured /\ trapped = <<>> => status \in {0} \cup {c % 256 : c \in ExitCodes}

(***************************************************************************)
(* After a trap the guest is over: its memory, its table and the three     *)
(* streams never change again, although trap returns to nobody only        *)
(* because sys_exit does not.                                              *)
(***************************************************************************)
TrapEndsGuest ==
    [][trapped # <<>> => UNCHANGED <<vars, streams>>]_sandboxVars

(* The process that this state stands for. *)
Standing ==
    IF life \in Signals THEN "killed"
    ELSE IF life = "exited" THEN "exited"
    ELSE IF host = "boot" THEN "fresh"
    ELSE IF ~ secured THEN "refused"
    ELSE IF trapped # <<>> THEN "trapped" ELSE "open"

IO == INSTANCE SandboxIO WITH life <- Standing, memory <- arena

(***************************************************************************)
(* The process only maps stdin to stdout and stderr: the bytes that leave  *)
(* stdin are those that appear in the guest's memory, the bytes that are   *)
(* added to an output are those of the memory, and the count that the      *)
(* guest gets is theirs, however few the kernel moved.                     *)
(***************************************************************************)
OnlyMapsStreams == IO!Spec

(***************************************************************************)
(* A trap is always followed by the end of the process, whether or not     *)
(* its message could be written; only a reader of stderr that neither      *)
(* reads nor closes the pipe can hold it back.                             *)
(***************************************************************************)
TrapIsFatal == (trapped # <<>> ~> life # "alive") \/ <>[](host = "writing")

(***************************************************************************)
(* Instantiation ends: the guest runs or the process is over, or it waits  *)
(* for ever to say on stderr why it does not run.                          *)
(***************************************************************************)
GuestStartsOrEnds ==
    <>(phase = "guest" \/ life # "alive") \/ <>[](host = "writing")
=============================================================================
