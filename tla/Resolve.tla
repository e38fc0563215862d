------------------------------- MODULE Resolve -------------------------------
(***************************************************************************)
(* Name resolution: the requests of src/src/unix/getaddrinfo.cpp and       *)
(* src/src/unix/getnameinfo.cpp, with a callback (in the thread pool, where *)
(* uv_cancel can reach them) and without (on the spot).  uv_getaddrinfo    *)
(* copies its arguments into one allocation.                               *)
(***************************************************************************)
EXTENDS Integers, FiniteSets

CONSTANTS Hints, Service, Hostname   \* the arguments of uv_getaddrinfo

Args == {Hints, Service, Hostname}

Nothing == "nothing"

ASSUME ResolveAssumption == Cardinality(Args) = 3 /\ Nothing \notin Args

VARIABLES
    res,         \* the request and where it stands
    alloc,       \* the argument that starts the request's allocation, or none
    addrinfo,    \* getaddrinfo's answer is allocated
    resBad       \* something was freed that was not allocated

resolveVars == <<res, alloc, addrinfo, resBad>>

EaiCanceled == -2
EaiError == -1

IdleRequest ==
    [kind |-> Nothing, at |-> "idle", cb |-> FALSE, reg |-> FALSE, args |-> {},
     retcode |-> 0, canceled |-> FALSE, answer |-> FALSE, calls |-> 0]

Begun(kind, cb, args) ==
    [IdleRequest EXCEPT !.kind = kind, !.cb = cb, !.reg = TRUE, !.args = args,
                        !.at = IF cb THEN "queued" ELSE "work"]

\* The hints are copied first, then the service, then the host name.
Start(args) ==
    IF Hints \in args THEN Hints ELSE IF Service \in args THEN Service ELSE Hostname

\* uv_getaddrinfo; without a service or a host name, or without memory, it
\* returns an error before the request is registered.
uv_getaddrinfo ==
    /\ res.at = "idle"
    /\ \E args \in SUBSET Args, cb \in BOOLEAN :
         /\ args \cap {Service, Hostname} # {}
         /\ res' = Begun("getaddrinfo", cb, args)
         /\ alloc' = Start(args)
    /\ UNCHANGED <<addrinfo, resBad>>

uv_getnameinfo ==
    /\ res.at = "idle"
    /\ \E cb \in BOOLEAN : res' = Begun("getnameinfo", cb, {})
    /\ UNCHANGED <<alloc, addrinfo, resBad>>

\* uv_cancel, before a worker has taken the request.
CancelResolve ==
    /\ res.at = "queued"
    /\ res' = [res EXCEPT !.at = "done", !.canceled = TRUE]
    /\ UNCHANGED <<alloc, addrinfo, resBad>>

TakeResolve ==
    /\ res.at = "queued"
    /\ res' = [res EXCEPT !.at = "work"]
    /\ UNCHANGED <<alloc, addrinfo, resBad>>

\* uv__getaddrinfo_work and uv__getnameinfo_work.
ResolveWork ==
    /\ res.at = "work"
    /\ \/ /\ res' = [res EXCEPT !.at = "done"]
          /\ addrinfo' = (res.kind = "getaddrinfo")
       \/ /\ res' = [res EXCEPT !.at = "done", !.retcode = EaiError]
          /\ UNCHANGED addrinfo
    /\ UNCHANGED <<alloc, resBad>>

\* Mutant: the hints are forgotten.
FreedArgNoHints(args) == IF Service \in args THEN Service ELSE Hostname

\* The pointer uv__getaddrinfo_done frees, and with it the allocation.
FreedArg(args) ==
    IF Hints \in args THEN Hints ELSE IF Service \in args THEN Service ELSE Hostname

\* What both done functions share: the request is unregistered, a cancelled
\* one gets its code, and the callback, if there is one, is told.
Told(r, answer) ==
    [r EXCEPT !.at = "finished", !.reg = FALSE, !.args = {}, !.answer = answer,
              !.retcode = IF r.canceled THEN EaiCanceled ELSE @,
              !.calls = IF r.cb THEN @ + 1 ELSE @]

uv__getaddrinfo_done ==
    /\ res.at = "done" /\ res.kind = "getaddrinfo"
    /\ res' = Told(res, addrinfo)
    /\ alloc' = Nothing
    /\ resBad' = (resBad \/ FreedArg(res.args) # alloc)
    /\ UNCHANGED addrinfo

uv__getnameinfo_done ==
    /\ res.at = "done" /\ res.kind = "getnameinfo"
    /\ res' = Told(res, ~res.canceled /\ res.retcode = 0)
    /\ UNCHANGED <<alloc, addrinfo, resBad>>

\* The user is done with the request: uv_freeaddrinfo.
uv_freeaddrinfo ==
    /\ res.at = "finished"
    /\ res' = IdleRequest /\ addrinfo' = FALSE
    /\ UNCHANGED <<alloc, resBad>>

ResolveInit == res = IdleRequest /\ alloc = Nothing /\ addrinfo = FALSE /\ resBad = FALSE

ResolveNext ==
    \/ uv_getaddrinfo \/ uv_getnameinfo \/ CancelResolve \/ TakeResolve \/ ResolveWork
    \/ uv__getaddrinfo_done \/ uv__getnameinfo_done \/ uv_freeaddrinfo

ResolveSpec == ResolveInit /\ [][ResolveNext]_resolveVars

----------------------------------------------------------------------------
(* Properties.                                                             *)

\* Whatever combination of arguments it copied, and whether the request
\* succeeded, failed or was cancelled, the allocation is freed through the
\* pointer it was obtained by and only after the work; the loop counts the
\* request until its callback; a callback comes once, and with an answer
\* exactly if its code says so.
ResolveRight ==
    /\ ~resBad
    /\ alloc # Nothing <=> res.kind = "getaddrinfo" /\ res.at \notin {"idle", "finished"}
    /\ res.reg <=> res.at \notin {"idle", "finished"}
    /\ res.at = "done" /\ res.canceled => res.retcode = 0
    /\ res.at = "finished" =>
         /\ res.calls = (IF res.cb THEN 1 ELSE 0)
         /\ res.answer <=> res.retcode = 0
=============================================================================
