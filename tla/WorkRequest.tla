---------------------------- MODULE WorkRequest ----------------------------
(***************************************************************************)
(* What the thread pool promises about one request (uv_work_t, and the     *)
(* uv_fs_t, uv_getaddrinfo_t and uv_getnameinfo_t requests that share the  *)
(* machinery): a submitted request is either executed by one worker or     *)
(* cancelled, never both, and then its done callback runs exactly once on  *)
(* the loop thread with the status that tells which of the two happened.   *)
(***************************************************************************)

CONSTANT Reqs

VARIABLES
    phase,      \* where each request is in its life
    status      \* what its last done callback was told

Phases == {"free", "queued", "executing", "executed", "cancelled"}
Statuses == {"none", "0", "ECANCELED"}

Init ==
    /\ phase = [r \in Reqs |-> "free"]
    /\ status = [r \in Reqs |-> "none"]

Move(r, from, to) ==
    /\ phase[r] = from
    /\ phase' = [phase EXCEPT ![r] = to]

Submit(r) == Move(r, "free", "queued") /\ UNCHANGED status
Start(r)  == Move(r, "queued", "executing") /\ UNCHANGED status
Finish(r) == Move(r, "executing", "executed") /\ UNCHANGED status
Cancel(r) == Move(r, "queued", "cancelled") /\ UNCHANGED status

Done(r) ==
    \/ Move(r, "executed", "free") /\ status' = [status EXCEPT ![r] = "0"]
    \/ Move(r, "cancelled", "free") /\ status' = [status EXCEPT ![r] = "ECANCELED"]

Next == \E r \in Reqs : Submit(r) \/ Start(r) \/ Finish(r) \/ Cancel(r) \/ Done(r)

vars == <<phase, status>>

Spec == Init /\ [][Next]_vars
=============================================================================
