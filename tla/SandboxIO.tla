----------------------------- MODULE SandboxIO -----------------------------
(***************************************************************************)
(* What the whole stack promises about a process it builds (STATUS.md):    *)
(* the process can only map the bytes of stdin to bytes of stdout and of   *)
(* stderr, through its memory, and then end. Sandbox implements this.      *)
(***************************************************************************)
EXTENDS Integers, Sequences

CONSTANT Bytes  \* the values of a byte

VARIABLES
    life,       \* "fresh", "refused", "open", "trapped", "exited" or "killed"
    memory,     \* bytes by address
    size,       \* the addresses below it are the guest's
    result,     \* what the guest's last call returned to it
    stdin,      \* the bytes not read yet
    stdout,
    stderr,
    report,     \* what the host itself wrote to stderr
    status      \* the exit status the parent sees

streams == <<stdin, stdout, stderr>>
guest == <<memory, size, result>>
vars == <<life, guest, streams, report, status>>

Init ==
    /\ life = "fresh"
    /\ stdin \in Seq(Bytes)
    /\ stdout = <<>> /\ stderr = <<>>
    /\ report = "none" /\ status = 0

(* Seccomp is on before a single byte moves, or the host gives up. *)
Open ==
    /\ life = "fresh" /\ life' \in {"open", "refused"}
    /\ UNCHANGED <<guest, streams, report, status>>

(* The guest computes. *)
Compute ==
    /\ life = "open"
    /\ UNCHANGED <<life, streams, report, status>>

(* The first n bytes of stdin go to p. *)
Consume(p, n) ==
    /\ life = "open"
    /\ p + n <= size /\ n <= Len(stdin)
    /\ memory' = [x \in DOMAIN memory |->
                     IF x \in p .. p + n - 1 THEN stdin[x - p + 1] ELSE memory[x]]
    /\ stdin' = SubSeq(stdin, n + 1, Len(stdin))
    /\ result' = <<n>>
    /\ UNCHANGED <<life, size, stdout, stderr, report, status>>

(* The n bytes at p go to an output. *)
Emit(p, n) ==
    LET s == [i \in 1 .. n |-> memory[p + i - 1]]
    IN  /\ life = "open"
        /\ p + n <= size
        /\ \/ stdout' = stdout \o s /\ UNCHANGED stderr
           \/ stderr' = stderr \o s /\ UNCHANGED stdout
        /\ result' = <<n>>
        /\ UNCHANGED <<life, memory, size, stdin, report, status>>

(* From here on nothing moves. *)
Trapped ==
    /\ life = "open" /\ life' = "trapped"
    /\ UNCHANGED <<streams, report, status>>

(* The host speaks once. *)
Report ==
    /\ report = "none"
    /\ \/ life = "refused" /\ report' = "seccomp strict failed"
       \/ life = "trapped" /\ report' = "trap"
    /\ UNCHANGED <<life, guest, streams, status>>

Exit ==
    /\ \/ life = "open" /\ status' \in 0 .. 255
       \/ life = "refused" /\ status' = 99
       \/ life = "trapped" /\ status' \in 101 .. 109
    /\ life' = "exited"
    /\ UNCHANGED <<guest, streams, report>>

Kill ==
    /\ life \in {"refused", "open", "trapped"}
    /\ life' = "killed"
    /\ UNCHANGED <<guest, streams, report, status>>

Next ==
    \/ Open \/ Compute \/ Trapped \/ Report \/ Exit \/ Kill
    \/ \E p \in 0 .. size, n \in 0 .. size : Consume(p, n) \/ Emit(p, n)
Spec == Init /\ [][Next]_vars
=============================================================================
