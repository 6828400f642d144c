------------------------------- MODULE Stdio -------------------------------
(***************************************************************************)
(* Files for a guest that has only stdin and stdout, libc/stdio.c: a file  *)
(* opened for reading is what is left of stdin; a file opened for writing  *)
(* is a buffer that fclose sends to stdout behind a header, and            *)
(* tools/split.py cuts the stream into files again.                        *)
(*                                                                         *)
(* A cell of content is a byte; the header "@@FILE <name> <len>\n" is two  *)
(* cells, and content may hold cells that look like headers. The host may  *)
(* read and write fewer bytes than asked, and may fail.                    *)
(***************************************************************************)
EXTENDS Integers, Sequences, SequencesExt, FiniteSets

CONSTANTS
    FileNames,   \* names of output files
    FilePieces,  \* the sequences of cells that one fwrite writes
    Stdin,       \* what stdin holds
    InitCap,     \* 65536
    MaxSize,     \* SIZE_MAX
    MaxFiles,    \* bound on the fopens of a program
    MaxContent   \* bound on the cells of a file

Cells == ToSet(Stdin) \cup UNION {ToSet(data) : data \in FilePieces}

StdioAssumption ==
    /\ Stdin \in Seq(Cells) /\ FilePieces \subseteq Seq(Cells)
    /\ InitCap \in Nat \ {0} /\ MaxSize \in Nat /\ InitCap <= MaxSize
    /\ MaxFiles \in Nat /\ MaxContent \in Nat

VARIABLES
    input,      \* cells of stdin that were not read
    files,      \* the FILEs in the order of their fopens
    reading,    \* the file whose fopen is reading stdin, or 0
    pending,    \* what write_all has still to write to stdout
    out,        \* the bytes of stdout
    closed,     \* ghost: [name, buf] of the output files, as they were closed
    status      \* RUNNING, or the exit code

stdioVars == <<input, files, reading, pending, out, closed, status>>

RUNNING == -1

NameCell(name) == [cell |-> "name", name |-> name]
LenCell(len) == [cell |-> "len", len |-> len]
FileHeader(f) == <<NameCell(f.name), LenCell(Len(f.buf))>>

Running == status = RUNNING /\ pending = <<>> /\ reading = 0

-----------------------------------------------------------------------------
(* grow: the capacity for "need" cells, or MaxSize + 1 where it gives up *)
Grow(f, need) ==
    LET caps == {c \in {f.cap * 2 ^ k : k \in 0 .. need} : c >= need}
    IN IF caps = {} \/ need < Len(f.buf) THEN MaxSize + 1
       ELSE CHOOSE c \in caps : \A d \in caps : c <= d

(* f->cap > SIZE_MAX / 2 before a doubling: 121. realloc fails: 122. The   *)
(* message about it cannot be written: 120.                                *)
Exits(code) ==
    /\ status' = code
    /\ UNCHANGED <<input, files, reading, pending, out, closed>>

NeedsRoom(f, need) == need > f.cap

WithRoom(f, need) == IF NeedsRoom(f, need) THEN [f EXCEPT !.cap = Grow(f, need)] ELSE f

GrowFails(f, need) ==
    /\ NeedsRoom(f, need)
    /\ \E code \in {IF Grow(f, need) > MaxSize THEN 121 ELSE 122, 120} : Exits(code)

New(name, out_) ==
    [name |-> name, out |-> out_, buf |-> <<>>, cap |-> InitCap, open |-> TRUE]

(* fopen: without memory it returns NULL and nothing changes *)
fopenWrite(name) ==
    /\ Running /\ Len(files) < MaxFiles
    /\ files' = Append(files, New(name, TRUE))
    /\ UNCHANGED <<input, reading, pending, out, closed, status>>

fopenRead ==
    /\ Running /\ Len(files) < MaxFiles
    /\ files' = Append(files, New("none", FALSE))
    /\ reading' = Len(files) + 1
    /\ UNCHANGED <<input, pending, out, closed, status>>

StopsReading(n, room) == n = 0

(* one turn of the loop that slurps stdin *)
SlurpRead ==
    /\ status = RUNNING /\ reading # 0
    /\ LET f == files[reading]
           need == IF Len(f.buf) = f.cap THEN f.cap + 1 ELSE f.cap
       IN \/ GrowFails(f, need)
          \/ /\ NeedsRoom(f, need) => Grow(f, need) <= MaxSize
             /\ LET g == WithRoom(f, need)
                    room == g.cap - Len(g.buf)
                    most == IF Len(input) < room THEN Len(input) ELSE room
                IN \E n \in (IF most = 0 THEN {0} ELSE 1 .. most) :
                     /\ files' = [files EXCEPT ![reading] = [g EXCEPT !.buf = @ \o SubSeq(input, 1, n)]]
                     /\ input' = SubSeq(input, n + 1, Len(input))
                     /\ reading' = IF StopsReading(n, room) THEN 0 ELSE reading
             /\ UNCHANGED <<pending, out, closed, status>>

(* the read fails: fopen returns NULL, and what it read is lost *)
SlurpFails ==
    /\ status = RUNNING /\ reading # 0
    /\ files' = [files EXCEPT ![reading] = [@ EXCEPT !.open = FALSE, !.buf = <<>>]]
    /\ reading' = 0
    /\ UNCHANGED <<input, pending, out, closed, status>>

fwrite(k, data) ==
    LET f == files[k]
        need == Len(f.buf) + Len(data)
    IN /\ Running /\ f.open /\ f.out /\ need <= MaxContent
       /\ \/ GrowFails(f, need)
          \/ /\ NeedsRoom(f, need) => Grow(f, need) <= MaxSize
             /\ files' = [files EXCEPT ![k] = [WithRoom(f, need) EXCEPT !.buf = @ \o data]]
             /\ UNCHANGED <<input, reading, pending, out, closed, status>>

(* fclose writes the file; only its owner knows that it is closed now *)
(* mutant: the header is written after the buffer grew by it *)
ClosedLength(f) == <<NameCell(f.name), LenCell(Len(f.buf) + 1)>> \o f.buf
Stream(f) == FileHeader(f) \o f.buf

fclose(k) ==
    /\ Running /\ files[k].open
    /\ files' = [files EXCEPT ![k].open = FALSE]
    /\ IF files[k].out
         THEN /\ pending' = Stream(files[k])
              /\ closed' = Append(closed, [name |-> files[k].name, buf |-> files[k].buf])
         ELSE UNCHANGED <<pending, closed>>
    /\ UNCHANGED <<input, reading, out, status>>

(* one turn of the loop of write_all *)
WriteSome ==
    /\ status = RUNNING /\ pending # <<>>
    /\ \E w \in 1 .. Len(pending) :
         /\ out' = out \o SubSeq(pending, 1, w)
         /\ pending' = SubSeq(pending, w + 1, Len(pending))
    /\ UNCHANGED <<input, files, reading, closed, status>>

WriteFails == status = RUNNING /\ pending # <<>> /\ Exits(120)

(* return from main; a program closes the files it wants to keep *)
Exit ==
    /\ Running /\ \A k \in DOMAIN files : files[k].out => ~files[k].open
    /\ Exits(0)

StdioInit ==
    /\ input = Stdin /\ files = <<>> /\ reading = 0
    /\ pending = <<>> /\ out = <<>> /\ closed = <<>> /\ status = RUNNING

StdioNext ==
    \/ \E name \in FileNames : fopenWrite(name)
    \/ fopenRead \/ SlurpRead \/ SlurpFails
    \/ \E k \in DOMAIN files : fclose(k) \/ \E data \in FilePieces : fwrite(k, data)
    \/ WriteSome \/ WriteFails \/ Exit

StdioSpec == StdioInit /\ [][StdioNext]_stdioVars

-----------------------------------------------------------------------------
(* tools/split.py: the files cut from s, followed by an error if it raises *)
IsHeader(s, k) ==
    /\ s[k] \in {NameCell(n) : n \in FileNames}
    /\ k < Len(s) /\ \E n \in 0 .. MaxContent + 1 : s[k + 1] = LenCell(n)

Slice(s, k, n) == SubSeq(s, k, IF k + n - 1 > Len(s) THEN Len(s) ELSE k + n - 1)

Split(s) ==
    LET cut[k \in 1 .. Len(s) + MaxContent + 2] ==
            IF k > Len(s) THEN <<>>
            ELSE IF ~IsHeader(s, k) THEN <<[name |-> "error", buf |-> <<>>]>>
            ELSE <<[name |-> s[k].name, buf |-> Slice(s, k + 2, s[k + 1].len)]>>
                 \o cut[k + 2 + s[k + 1].len]
    IN cut[1]

(***************************************************************************)
(* Whatever the contents hold, and however the host cuts the writes: when  *)
(* a program that closed its output files exits normally, split.py gives   *)
(* the files back, in the order of their fcloses.                          *)
(***************************************************************************)
SplitGivesFiles == status = 0 => Split(out) = closed

(***************************************************************************)
(* The first file opened for reading is all of stdin, over short reads and *)
(* growths of its buffer, unless a read failed.                            *)
(***************************************************************************)
ReaderHoldsInput ==
    \A k \in DOMAIN files :
        ~files[k].out /\ reading # k /\ files[k].buf # <<>> /\ (\A j \in 1 .. k - 1 : files[j].out)
            => files[k].buf = Stdin

(***************************************************************************)
(* No buffer is written past its capacity (memcpy in fwrite, read in       *)
(* fopen): grow came before, or the program ended.                         *)
(***************************************************************************)
BuffersFit == \A k \in DOMAIN files : Len(files[k].buf) <= files[k].cap /\ files[k].cap <= MaxSize

(***************************************************************************)
(* What a program and its user may rely on of fopen, fwrite, fclose and    *)
(* exit.                                                                   *)
(***************************************************************************)
FilesKept == SplitGivesFiles /\ ReaderHoldsInput /\ BuffersFit
===============================================================================
