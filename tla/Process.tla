------------------------------ MODULE Process ------------------------------
(***************************************************************************)
(* Child processes of src/src/unix/process.cpp on one loop: uv_spawn, the  *)
(* SIGCHLD watcher that several exits share, uv__chld and closing.  The    *)
(* signal machinery is Signal; here it is a signal the kernel has pending  *)
(* and the messages that stand in the loop's pipe.                         *)
(***************************************************************************)
EXTENDS Queue

CONSTANTS
    Procs,      \* process handles
    MaxChld     \* SIGCHLD messages the pipe holds

EndOfQueue == "end"

ASSUME ProcessAssumption == MaxChld \in Nat \ {0} /\ EndOfQueue \notin Procs

VARIABLES
    child,      \* child[p]: none, running, exited (a zombie) or reaped
    proc,       \* proc[p]: free, active, idle, closing
    handles,    \* process_handles
    watching,   \* child_watcher is started
    sigchld,    \* the kernel has a SIGCHLD pending
    chld,       \* SIGCHLD messages in the pipe
    chldAt,     \* where uv__chld stands: loop, scan, walk, exit_cb
    scan,       \* processes still to be asked for
    reaped,     \* the queue `pending' of uv__chld
    next,       \* the node the walk goes on with, saved before a callback
    told        \* exit callbacks made for the present child

processVars == <<child, proc, handles, watching, sigchld, chld, chldAt, scan, reaped, next, told>>
chldVars == <<chldAt, scan, reaped, next>>

Following(q, p) ==
    LET i == CHOOSE i \in 1..Len(q) : q[i] = p IN
    IF i < Len(q) THEN q[i + 1] ELSE EndOfQueue
First(q) == IF q = <<>> THEN EndOfQueue ELSE Head(q)
ProcessCall == chldAt \in {"loop", "exit_cb"}

----------------------------------------------------------------------------
(* The kernel.                                                             *)

ChildExits(p) ==
    /\ child[p] = "running"
    /\ child' = [child EXCEPT ![p] = "exited"]
    /\ sigchld' = TRUE
    /\ UNCHANGED <<proc, handles, watching, chld, chldVars, told>>

\* One signal stands for all the exits since the last one.  It is lost on a
\* process without a handler, and on a full pipe.
DeliverSigchld ==
    /\ sigchld
    /\ sigchld' = FALSE
    /\ chld' = IF watching /\ chld < MaxChld THEN chld + 1 ELSE chld
    /\ UNCHANGED <<child, proc, handles, watching, chldVars, told>>

----------------------------------------------------------------------------
(* The user.                                                               *)

\* The watcher is started before the fork.  The parent waits until the
\* child has exec'ed or told why not; in the second case it reaps the child
\* itself and the handle stays inactive, as it does when fork fails.
uv_spawn(p) ==
    /\ ProcessCall /\ proc[p] = "free"
    /\ watching' = TRUE
    /\ told' = [told EXCEPT ![p] = 0]
    /\ \/ /\ child' = [child EXCEPT ![p] = "running"]
          /\ proc' = [proc EXCEPT ![p] = "active"]
          /\ handles' = Append(handles, p)
          /\ UNCHANGED sigchld
       \/ /\ sigchld' \in {sigchld, TRUE}                      \* fork or exec failed
          /\ child' = [child EXCEPT ![p] = "none"]
          /\ proc' = [proc EXCEPT ![p] = "idle"]
          /\ UNCHANGED handles
    /\ UNCHANGED <<chld, chldVars>>

\* The last handle to close stops the watcher.  The user does not close, in
\* an exit callback, the process whose callback comes next.
uv__process_close(p) ==
    /\ ProcessCall /\ proc[p] \in {"active", "idle"}
    /\ chldAt = "exit_cb" => p # next
    /\ proc' = [proc EXCEPT ![p] = "closing"]
    /\ handles' = Unlink(handles, p)
    /\ reaped' = Unlink(reaped, p)
    /\ watching' = (watching /\ handles' # <<>>)
    /\ UNCHANGED <<child, sigchld, chld, chldAt, scan, next, told>>

\* The closing phase; the handle may be used for another child.  One whose
\* child still runs leaves it to be a zombie.
ProcessClosed(p) ==
    /\ chldAt = "loop" /\ proc[p] = "closing"
    /\ proc' = [proc EXCEPT ![p] = "free"]
    /\ child' = [child EXCEPT ![p] = "none"]
    /\ UNCHANGED <<handles, watching, sigchld, chld, chldVars, told>>

----------------------------------------------------------------------------
(* uv__chld.                                                               *)

uv__chld ==
    /\ chldAt = "loop" /\ chld > 0
    /\ chld' = chld - 1
    /\ IF watching THEN chldAt' = "scan" /\ scan' = handles ELSE UNCHANGED <<chldAt, scan>>
    /\ UNCHANGED <<child, proc, handles, watching, sigchld, reaped, next, told>>

\* Mutant: one exit for each signal.
WaitpidOnce ==
    /\ chldAt = "scan"
    /\ IF scan = <<>>
       THEN /\ chldAt' = "walk" /\ next' = First(reaped)
            /\ UNCHANGED <<scan, child, handles, reaped>>
       ELSE LET p == Head(scan) IN
            /\ IF child[p] = "exited"
               THEN /\ child' = [child EXCEPT ![p] = "reaped"]
                    /\ handles' = Unlink(handles, p)
                    /\ reaped' = Append(reaped, p)
                    /\ scan' = <<>>
               ELSE scan' = Tail(scan) /\ UNCHANGED <<child, handles, reaped>>
            /\ UNCHANGED <<chldAt, next>>
    /\ UNCHANGED <<proc, watching, sigchld, chld, told>>

\* waitpid on the next handle of the list, with the children still running.
Waitpid ==
    /\ chldAt = "scan"
    /\ IF scan = <<>>
       THEN /\ chldAt' = "walk" /\ next' = First(reaped)
            /\ UNCHANGED <<scan, child, handles, reaped>>
       ELSE LET p == Head(scan) IN
            /\ scan' = Tail(scan)
            /\ IF child[p] = "exited"
               THEN /\ child' = [child EXCEPT ![p] = "reaped"]
                    /\ handles' = Unlink(handles, p)
                    /\ reaped' = Append(reaped, p)
               ELSE UNCHANGED <<child, handles, reaped>>
            /\ UNCHANGED <<chldAt, next>>
    /\ UNCHANGED <<proc, watching, sigchld, chld, told>>

\* The exit callback of the next reaped process.
ExitCb ==
    /\ chldAt = "walk"
    /\ IF next = EndOfQueue
       THEN chldAt' = "loop" /\ UNCHANGED <<proc, reaped, next, told>>
       ELSE /\ next' = Following(reaped, next)
            /\ reaped' = Unlink(reaped, next)
            /\ proc' = [proc EXCEPT ![next] = "idle"]
            /\ told' = [told EXCEPT ![next] = @ + 1]
            /\ chldAt' = "exit_cb"
    /\ UNCHANGED <<child, handles, watching, sigchld, chld, scan>>

ExitCbReturns ==
    /\ chldAt = "exit_cb"
    /\ chldAt' = "walk"
    /\ UNCHANGED <<child, proc, handles, watching, sigchld, chld, scan, reaped, next, told>>

ProcessInit ==
    /\ child = [p \in Procs |-> "none"] /\ proc = [p \in Procs |-> "free"]
    /\ handles = <<>> /\ watching = FALSE /\ sigchld = FALSE /\ chld = 0
    /\ chldAt = "loop" /\ scan = <<>> /\ reaped = <<>> /\ next = EndOfQueue
    /\ told = [p \in Procs |-> 0]

ProcessNext ==
    \/ \E p \in Procs : ChildExits(p) \/ uv_spawn(p) \/ uv__process_close(p) \/ ProcessClosed(p)
    \/ DeliverSigchld \/ uv__chld \/ Waitpid \/ ExitCb \/ ExitCbReturns

ProcessSpec == ProcessInit /\ [][ProcessNext]_processVars

----------------------------------------------------------------------------
(* Properties.                                                             *)

\* No exit goes unnoticed: while a listed child is a zombie, the watcher is
\* on and a signal or a message is under way, or the scan has yet to reach
\* the child, though signals merge, the pipe is full, children exit in the
\* middle of the scan and the watcher is stopped and started again.
NoExitUnnoticed ==
    \A p \in Range(handles) :
        /\ watching
        /\ child[p] = "exited" => sigchld \/ chld > 0 \/ p \in Range(scan)

\* The exit callback is made once, for a child that has been reaped and a
\* handle that is not closing; until then the handle keeps the loop alive.
ExitToldOnce ==
    /\ \A p \in Procs :
           /\ told[p] <= 1
           /\ told[p] = 1 /\ proc[p] \in {"active", "idle"} => child[p] = "reaped"
           /\ proc[p] = "active" <=> p \in Range(handles \o reaped)
    /\ Distinct(handles \o reaped)
    /\ chldAt = "walk" /\ next # EndOfQueue => next = First(reaped)
    /\ chldAt = "loop" => reaped = <<>>

\* uv__chld notices every exit, though SIGCHLDs merge, and tells it once.
ProcessRight == NoExitUnnoticed /\ ExitToldOnce
=============================================================================
