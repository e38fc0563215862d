--------------------------------- MODULE Fs ---------------------------------
(***************************************************************************)
(* A file system request of src/src/unix/fs.cpp: what uv_fs_* allocate,    *)
(* its run in the thread pool or on the spot, the loops of uv__fs_buf_iter *)
(* and uv__fs_sendfile, the directory entries that uv_fs_scandir_next      *)
(* hands out, and uv_fs_req_cleanup.  Operations that differ in nothing    *)
(* but the system call are of one kind.                                    *)
(***************************************************************************)
EXTENDS Integers, Sequences, FiniteSets

CONSTANTS
    MaxBufs,     \* bound: buffers of a read or a write
    SmlBufs,     \* buffers that fit in the request: 4 in the code
    IovMax,      \* buffers of one readv or writev
    BufBytes,    \* bytes of one buffer
    MaxEntries,  \* bound: entries of a directory
    FileLen,     \* bytes of the file that is sent
    CopyLen      \* bytes the emulated sendfile reads at once: 8192

ASSUME FsAssumption ==
    /\ {MaxBufs, SmlBufs, BufBytes, MaxEntries, FileLen} \subseteq Nat
    /\ {IovMax, CopyLen} \subseteq Nat \ {0}

VARIABLES
    fs,          \* the uv_fs_t and where its work stands
    mem,         \* what is allocated for it
    bad,         \* something was freed twice, or used when it was free
    io           \* what its system calls have moved

fsVars == <<fs, mem, bad, io>>

\* A call with a path (access, mkdir, rename...) is of kind "path", one with
\* an open file (fsync, fchmod, ftruncate...) of kind "file".
CopiesPath == {"path", "open", "stat", "readlink", "scandir"}
Transfers == {"read", "write"}
IoFailed == -1
Canceled == -2
NewFd == 1

Least(a, b) == IF a < b THEN a ELSE b
\* The indices from a to b, as bytes or entries that were moved in order.
Span(a, b) == [i \in 1..(IF b < a THEN 0 ELSE b - a + 1) |-> a + i - 1]
Block(name) == <<name, 0>>
Entry(i) == <<"entry", i>>
Entries(a, b) == {Entry(i) : i \in a..b}

Free(what) == /\ mem' = mem \ what
              /\ bad' = (bad \/ ~(what \subseteq mem))

----------------------------------------------------------------------------
(* The calls: INIT, PATH or PATH2, POST.  n is the number of buffers of a  *)
(* read or write and the length of a sendfile, off the offset, which only  *)
(* these use; -1 is the file's own position.                               *)

NewReq(kind, cb, n, off) ==
    [kind |-> kind, cb |-> cb, at |-> "idle", reg |-> FALSE, result |-> 0, ptr |-> "NULL",
     path |-> "NULL", bufs |-> "NULL", nbufs |-> n, off |-> off, canceled |-> FALSE]
NewIo(n, off) ==
    [asked |-> n, from |-> off, moved |-> <<>>, next |-> 0, left |-> 0, total |-> 0,
     nread |-> 0, nwritten |-> 0, pread |-> TRUE, pos |-> 0, why |-> "none"]

\* What the call has to allocate for its arguments.
Copied(kind, cb, n) ==
    (IF kind = "mkdtemp" \/ (cb /\ kind \in CopiesPath) THEN {Block("path")} ELSE {})
    \cup (IF kind \in Transfers /\ n > SmlBufs THEN {Block("bufs")} ELSE {})

Where(x, needed, otherwise) == IF Block(x) \in needed THEN "heap" ELSE otherwise

Post(kind, cb, n, off) ==
    LET need == Copied(kind, cb, n) IN
    /\ fs.at = "idle"
    /\ io' = NewIo(n, off) /\ bad' = bad
    /\ \/ /\ fs' = [NewReq(kind, cb, n, off) EXCEPT
                       !.reg = cb, !.at = IF cb THEN "queued" ELSE "work",
                       !.path = Where("path", need, IF kind \in CopiesPath THEN "user" ELSE "NULL"),
                       !.bufs = Where("bufs", need, IF kind \in Transfers THEN "sml" ELSE "NULL")]
          /\ mem' = need
       \/ \* -ENOMEM: the request is unregistered again
          /\ need # {}
          /\ fs' = NewReq(kind, cb, n, off)
          /\ mem' = {}

uv_fs_access(cb) == Post("path", cb, 0, 0)
uv_fs_chmod(cb) == Post("path", cb, 0, 0)
uv_fs_chown(cb) == Post("path", cb, 0, 0)
uv_fs_link(cb) == Post("path", cb, 0, 0)
uv_fs_mkdir(cb) == Post("path", cb, 0, 0)
uv_fs_open(cb) == Post("open", cb, 0, 0)
uv_fs_rename(cb) == Post("path", cb, 0, 0)
uv_fs_rmdir(cb) == Post("path", cb, 0, 0)
uv_fs_symlink(cb) == Post("path", cb, 0, 0)
uv_fs_unlink(cb) == Post("path", cb, 0, 0)
uv_fs_utime(cb) == Post("path", cb, 0, 0)
uv_fs_fchmod(cb) == Post("file", cb, 0, 0)
uv_fs_fchown(cb) == Post("file", cb, 0, 0)
uv_fs_fdatasync(cb) == Post("file", cb, 0, 0)
uv_fs_fsync(cb) == Post("file", cb, 0, 0)
uv_fs_ftruncate(cb) == Post("file", cb, 0, 0)
uv_fs_futime(cb) == Post("file", cb, 0, 0)
uv_fs_close(cb) == Post("close", cb, 0, 0)
uv_fs_fstat(cb) == Post("fstat", cb, 0, 0)
uv_fs_stat(cb) == Post("stat", cb, 0, 0)
uv_fs_lstat(cb) == Post("stat", cb, 0, 0)
uv_fs_mkdtemp(cb) == Post("mkdtemp", cb, 0, 0)
uv_fs_scandir(cb) == Post("scandir", cb, 0, 0)
uv_fs_readlink(cb) == Post("readlink", cb, 0, 0)
uv_fs_realpath(cb) == Post("readlink", cb, 0, 0)
uv_fs_read(cb) == \E n \in 1..MaxBufs, off \in {-1, 0} : Post("read", cb, n, off)
uv_fs_write(cb) == \E n \in 1..MaxBufs, off \in {-1, 0} : Post("write", cb, n, off)
uv_fs_sendfile(cb) == \E n \in 0..FileLen, off \in {0, 1} : Post("sendfile", cb, n, off)

\* uv_cancel, before a worker has taken the request.
uv_cancel ==
    /\ fs.at = "queued"
    /\ fs' = [fs EXCEPT !.at = "done", !.canceled = TRUE]
    /\ UNCHANGED <<mem, bad, io>>

\* A worker takes it.
Run ==
    /\ fs.at = "queued"
    /\ fs' = [fs EXCEPT !.at = "work"]
    /\ UNCHANGED <<mem, bad, io>>

----------------------------------------------------------------------------
(* uv__fs_work.  A call that was interrupted is made again, except close.  *)

FinishWork(f, r) == [f EXCEPT !.result = r, !.at = IF f.cb THEN "done" ELSE "finished"]

\* The call of a request of one of these kinds fails, or is interrupted.
FailsOrRepeats(kinds) ==
    /\ fs.at = "work" /\ fs.kind \in kinds
    /\ \/ fs' = FinishWork(fs, IoFailed)
       \/ fs.kind # "close" /\ UNCHANGED fs
    /\ UNCHANGED <<mem, bad, io>>

Succeeds(kinds, ptr, r, more) ==
    /\ fs.at = "work" /\ fs.kind \in kinds
    /\ fs' = FinishWork([fs EXCEPT !.ptr = ptr], r)
    /\ mem' = mem \cup more
    /\ UNCHANGED <<bad, io>>

uv__fs_work ==
    LET simple == {"path", "file", "close", "mkdtemp"} IN
    FailsOrRepeats(simple) \/ Succeeds(simple, "NULL", 0, {})

uv__fs_stat ==
    LET stats == {"stat", "fstat"} IN
    FailsOrRepeats(stats) \/ Succeeds(stats, "statbuf", 0, {})

uv__fs_readlink ==
    FailsOrRepeats({"readlink"}) \/ Succeeds({"readlink"}, "heap", 0, {Block("ptr")})

uv__fs_scandir ==
    \/ FailsOrRepeats({"scandir"})
    \/ Succeeds({"scandir"}, "NULL", 0, {})
    \/ \E n \in 1..MaxEntries :
         Succeeds({"scandir"}, "dents", n, {Block("dents")} \cup Entries(1, n))

\* The descriptor is opened with O_CLOEXEC or, where that is not known,
\* marked afterwards, and closed again if it cannot be.
uv__fs_open ==
    \/ FailsOrRepeats({"open"})
    \/ Succeeds({"open"}, "NULL", NewFd, {Block("fd")})
    \/ /\ fs.at = "work" /\ fs.kind = "open"
       /\ fs' = [fs EXCEPT !.at = "unmarked"]
       /\ mem' = mem \cup {Block("fd")}
       /\ UNCHANGED <<bad, io>>

uv__cloexec ==
    /\ fs.at = "unmarked"
    /\ \/ fs' = FinishWork(fs, NewFd) /\ UNCHANGED <<mem, bad>>
       \/ fs' = FinishWork(fs, IoFailed) /\ Free({Block("fd")})
    /\ UNCHANGED io

----------------------------------------------------------------------------
(* uv__fs_read and uv__fs_write through uv__fs_buf_iter: IovMax buffers at *)
(* a time.                                                                 *)

IterBegin ==
    /\ fs.at = "work" /\ fs.kind \in Transfers
    /\ fs' = [fs EXCEPT !.at = "iter"]
    /\ io' = [io EXCEPT !.left = fs.nbufs, !.total = 0]
    /\ UNCHANGED <<mem, bad>>

\* Mutant: the buffers are freed before another try.
IterEndFrees(f, total, interrupted) ==
    /\ fs' = IF interrupted /\ total = IoFailed THEN [f EXCEPT !.at = "work"]
             ELSE FinishWork([f EXCEPT !.bufs = "NULL", !.nbufs = 0], total)
    /\ Free(IF f.bufs = "heap" THEN {Block("bufs")} ELSE {})

\* The request keeps its buffers for another try only when the first call
\* of this one was interrupted.
IterEnd(f, total, interrupted) ==
    IF interrupted /\ total = IoFailed
    THEN fs' = [f EXCEPT !.at = "work"] /\ UNCHANGED <<mem, bad>>
    ELSE /\ fs' = FinishWork([f EXCEPT !.bufs = "NULL", !.nbufs = 0], total)
         /\ Free(IF f.bufs = "heap" THEN {Block("bufs")} ELSE {})

IterTurn ==
    /\ fs.at = "iter" /\ io.left > 0
    /\ LET chunk == Least(io.left, IovMax)
           f == [fs EXCEPT !.nbufs = chunk]
       IN \/ \E r \in {IoFailed, 0}, eintr \in BOOLEAN :
               /\ eintr => r = IoFailed
               /\ IterEnd(f, IF io.total = 0 THEN r ELSE io.total, eintr)
               /\ io' = io
          \/ \E r \in 1..(chunk * BufBytes) :
               /\ fs' = [f EXCEPT !.off = IF @ >= 0 THEN @ + r ELSE @]
               /\ io' = [io EXCEPT !.left = @ - chunk, !.next = @ + chunk, !.total = @ + r,
                                   !.moved = @ \o Span(io.next * BufBytes + 1, io.next * BufBytes + r)]
               /\ UNCHANGED <<mem, bad>>

uv__fs_buf_iter == IterTurn \/ (fs.at = "iter" /\ io.left = 0 /\ IterEnd(fs, io.total, FALSE) /\ io' = io)

----------------------------------------------------------------------------
(* uv__fs_sendfile: the kernel's, or reads and writes.                     *)

uv__fs_sendfile ==
    /\ fs.at = "work" /\ fs.kind = "sendfile"
    /\ \/ \E n \in 0..Least(io.asked, FileLen - fs.off) :
            /\ fs' = FinishWork([fs EXCEPT !.off = @ + n], n)
            /\ io' = [io EXCEPT !.moved = Span(io.from + 1, io.from + n)]
       \/ fs' = FinishWork(fs, IoFailed) /\ io' = io
       \/ fs' = fs /\ io' = io                                             \* EINTR
       \/ fs' = [fs EXCEPT !.at = "copy"] /\ io' = [io EXCEPT !.next = fs.off]
    /\ UNCHANGED <<mem, bad>>

\* The request's offset moves only when all that was read is written.
SendEnd(nsent) ==
    fs' = FinishWork(IF nsent = IoFailed THEN fs ELSE [fs EXCEPT !.off = io.next], nsent)

\* A read: of nothing at the end of the file, refused as a positional one,
\* or failed, which is reported only when nothing was sent.
SendRead ==
    LET here == IF io.pread THEN io.next ELSE io.pos
        most == Least(Least(io.asked - io.total, CopyLen), FileLen - here)
    IN
    /\ fs.at = "copy" /\ io.nread = 0
    /\ \/ /\ io.total >= io.asked \/ most <= 0
          /\ SendEnd(io.total) /\ io' = io
       \/ /\ io.total < io.asked
          /\ \/ \E n \in 1..most :
                  io' = [io EXCEPT !.nread = n, !.nwritten = 0, !.pos = IF io.pread THEN @ ELSE @ + n]
             \/ io.pread /\ io.total = 0 /\ io' = [io EXCEPT !.pread = FALSE]
          /\ fs' = fs
       \/ /\ io.total < io.asked
          /\ SendEnd(IF io.total = 0 THEN IoFailed ELSE io.total)
          /\ io' = [io EXCEPT !.why = "read"]
    /\ UNCHANGED <<mem, bad>>

\* A write of some of it; one that would block waits for the descriptor.
SendWrite ==
    /\ fs.at = "copy" /\ io.nread > 0
    /\ LET here == IF io.pread THEN io.next ELSE io.pos - io.nread IN
       \/ \E n \in 1..(io.nread - io.nwritten) :
            LET wrote == io.nwritten + n
                out == io.moved \o Span(here + io.nwritten + 1, here + wrote)
            IN  /\ fs' = fs
                /\ io' = IF wrote < io.nread THEN [io EXCEPT !.nwritten = wrote, !.moved = out]
                         ELSE [io EXCEPT !.moved = out, !.next = @ + io.nread,
                                         !.total = @ + io.nread, !.nread = 0, !.nwritten = 0]
       \/ SendEnd(IoFailed) /\ io' = [io EXCEPT !.why = "write"]
    /\ UNCHANGED <<mem, bad>>

uv__fs_sendfile_emul == SendRead \/ SendWrite

----------------------------------------------------------------------------
(* After the work.                                                         *)

\* In the loop's thread; then the callback.
uv__fs_done ==
    /\ fs.at = "done"
    /\ fs' = [fs EXCEPT !.at = "finished", !.reg = FALSE,
                        !.result = IF fs.canceled THEN Canceled ELSE @]
    /\ UNCHANGED <<mem, bad, io>>

\* The entry handed out before is freed; at the end so is the array.
uv_fs_scandir_next ==
    /\ fs.at = "finished" /\ fs.kind = "scandir"
    /\ fs.result >= 0 /\ fs.ptr = "dents"
    /\ LET before == IF fs.nbufs > 0 THEN {Entry(fs.nbufs)} ELSE {} IN
       IF fs.nbufs = fs.result
       THEN /\ fs' = [fs EXCEPT !.ptr = "NULL"]
            /\ Free(before \cup {Block("dents")})
       ELSE /\ fs' = [fs EXCEPT !.nbufs = @ + 1]
            /\ mem' = mem \ before
            /\ bad' = (bad \/ ~((before \cup {Entry(fs.nbufs + 1)}) \subseteq mem))
    /\ io' = io

\* The entries uv__fs_scandir_cleanup frees.
uv__fs_scandir_cleanup(f) ==
    LET first == IF f.nbufs > 0 /\ f.nbufs # f.result THEN f.nbufs ELSE f.nbufs + 1 IN
    Entries(first, f.result) \cup {Block("dents")}

uv_fs_req_cleanup ==
    /\ fs.at = "finished"
    /\ Free((IF fs.path # "NULL" /\ (fs.cb \/ fs.kind = "mkdtemp") THEN {Block("path")} ELSE {})
            \cup (IF fs.kind = "scandir" /\ fs.ptr # "NULL" THEN uv__fs_scandir_cleanup(fs) ELSE {})
            \cup (IF fs.ptr = "heap" THEN {Block("ptr")} ELSE {}))
    /\ fs' = [fs EXCEPT !.at = "idle", !.path = "NULL", !.ptr = "NULL"]
    /\ io' = io

FsInit == /\ fs = NewReq("path", FALSE, 0, 0) /\ io = NewIo(0, 0)
          /\ mem = {} /\ bad = FALSE

FsNext ==
    \/ \E cb \in BOOLEAN :
         \/ uv_fs_access(cb) \/ uv_fs_chmod(cb) \/ uv_fs_chown(cb) \/ uv_fs_link(cb)
         \/ uv_fs_mkdir(cb) \/ uv_fs_open(cb) \/ uv_fs_rename(cb) \/ uv_fs_rmdir(cb)
         \/ uv_fs_symlink(cb) \/ uv_fs_unlink(cb) \/ uv_fs_utime(cb) \/ uv_fs_fchmod(cb)
         \/ uv_fs_fchown(cb) \/ uv_fs_fdatasync(cb) \/ uv_fs_fsync(cb) \/ uv_fs_ftruncate(cb)
         \/ uv_fs_futime(cb) \/ uv_fs_close(cb) \/ uv_fs_fstat(cb) \/ uv_fs_stat(cb)
         \/ uv_fs_lstat(cb) \/ uv_fs_mkdtemp(cb) \/ uv_fs_scandir(cb) \/ uv_fs_readlink(cb)
         \/ uv_fs_realpath(cb) \/ uv_fs_read(cb) \/ uv_fs_write(cb) \/ uv_fs_sendfile(cb)
    \/ uv_cancel \/ Run
    \/ uv__fs_work \/ uv__fs_stat \/ uv__fs_readlink \/ uv__fs_scandir \/ uv__fs_open \/ uv__cloexec
    \/ IterBegin \/ uv__fs_buf_iter \/ uv__fs_sendfile \/ uv__fs_sendfile_emul
    \/ uv__fs_done \/ uv_fs_scandir_next \/ uv_fs_req_cleanup

FsSpec == FsInit /\ [][FsNext]_fsVars

----------------------------------------------------------------------------
(* Properties.                                                             *)

\* Nothing is freed twice or used after it was freed, and uv_fs_req_cleanup
\* leaves nothing behind but the descriptor of a successful open, whether the
\* request succeeded, failed, was interrupted or was cancelled, and however
\* many entries were fetched.  Two leaks of the code are excepted by name: the
\* buffers of a read or write that was cancelled, which only its work would
\* have freed, and the last entry of a directory when the user has fetched it
\* and not the end.
FsMemory ==
    /\ ~bad
    /\ fs.at = "idle" => mem =
         (IF fs.kind \in Transfers /\ fs.result = Canceled /\ fs.nbufs > SmlBufs
          THEN {Block("bufs")} ELSE {})
         \cup (IF fs.kind = "scandir" /\ fs.result > 0 /\ fs.nbufs = fs.result
               THEN mem \cap {Entry(fs.result)} ELSE {})
         \cup (IF fs.kind = "open" /\ fs.result = NewFd THEN {Block("fd")} ELSE {})

\* The loop counts the request exactly while it owes its callback, and a
\* request that is cancelled has no result yet (the assertion of
\* uv__fs_done).
FsCounted ==
    /\ fs.reg <=> fs.cb /\ fs.at \notin {"idle", "finished"}
    /\ fs.at = "done" /\ fs.canceled => fs.result = 0

\* What a read, write or sendfile reports is what it moved: as many bytes,
\* each once and in order, and an explicit offset has moved by as much.
\* Buffers beyond IovMax may follow a short transfer of those before them.
\* A sendfile that read and wrote itself reports a read error only if
\* nothing was sent, and a write error always.
FsExact ==
    fs.at = "finished" /\ fs.kind \in Transfers \cup {"sendfile"} /\ ~fs.canceled =>
        /\ fs.result >= 0 =>
             /\ Len(io.moved) = fs.result
             /\ fs.off = IF io.from >= 0 THEN io.from + fs.result ELSE io.from
             /\ io.why # "write"
             /\ \A i \in 1..(fs.result - 1) : io.moved[i] < io.moved[i + 1]
             /\ fs.kind = "sendfile" /\ fs.result > 0 =>
                    io.moved = Span(io.moved[1], io.moved[1] + fs.result - 1)
             /\ fs.kind = "sendfile" /\ io.pread /\ fs.result > 0 => io.moved[1] = io.from + 1
             /\ fs.kind \in Transfers /\ io.asked <= IovMax => io.moved = Span(1, fs.result)
        /\ fs.result < 0 =>
             /\ fs.off = io.from
             /\ io.why # "write" => io.moved = <<>>

\* A uv_fs_* request: memory, the loop's count and what the result says.
FsRight == FsMemory /\ FsCounted /\ FsExact
=============================================================================
