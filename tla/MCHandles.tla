----------------------------- MODULE MCHandles -----------------------------
(***************************************************************************)
(* The parts that meet only through the loop: signals, child processes,    *)
(* uv_spawn, fs-poll, inotify, the timer heap, file system requests, name  *)
(* resolution and the life of loops.                                       *)
(* The first choice of a behaviour is which of them it is about.           *)
(***************************************************************************)
EXTENDS Signal, Process, FsPoll, Inotify, Heap, Fs, Resolve, LoopLife, Stdio, TLC

VARIABLE part

CONSTANTS h1, h2, h3
MCLoopOf == h1 :> 1 @@ h2 :> 1 @@ h3 :> 2
\* The two signal handles of one loop can change places.
SameLoop == Permutations({h1, h2})

Init ==
    /\ part \in {"signal", "process", "fs_poll", "inotify", "heap", "fs", "resolve", "loop", "spawn"}
    /\ SignalInit /\ ProcessInit /\ FsPollInit /\ InotifyInit
    /\ HeapInit /\ FsInit /\ ResolveInit /\ LoopLifeInit /\ SpawnInit

Next ==
    \/ /\ part = "signal" /\ part' = part /\ SignalNext
       /\ UNCHANGED <<processVars, fsPollVars, inotifyVars,
                      heapVars, fsVars, resolveVars, loopLifeVars, spawn>>
    \/ /\ part = "process" /\ part' = part /\ ProcessNext
       /\ UNCHANGED <<signalVars, fsPollVars, inotifyVars,
                      heapVars, fsVars, resolveVars, loopLifeVars, spawn>>
    \/ /\ part = "fs_poll" /\ part' = part /\ FsPollNext
       /\ UNCHANGED <<signalVars, processVars, inotifyVars,
                      heapVars, fsVars, resolveVars, loopLifeVars, spawn>>
    \/ /\ part = "inotify" /\ part' = part /\ InotifyNext
       /\ UNCHANGED <<signalVars, processVars, fsPollVars,
                      heapVars, fsVars, resolveVars, loopLifeVars, spawn>>
    \/ /\ part = "heap" /\ part' = part /\ HeapNext
       /\ UNCHANGED <<signalVars, processVars, fsPollVars,
                      inotifyVars, fsVars, resolveVars, loopLifeVars, spawn>>
    \/ /\ part = "fs" /\ part' = part /\ FsNext
       /\ UNCHANGED <<signalVars, processVars, fsPollVars,
                      inotifyVars, heapVars, resolveVars, loopLifeVars, spawn>>
    \/ /\ part = "resolve" /\ part' = part /\ ResolveNext
       /\ UNCHANGED <<signalVars, processVars, fsPollVars,
                      inotifyVars, heapVars, fsVars, loopLifeVars, spawn>>
    \/ /\ part = "loop" /\ part' = part /\ LoopLifeNext
       /\ UNCHANGED <<signalVars, processVars, fsPollVars,
                      inotifyVars, heapVars, fsVars, resolveVars, spawn>>
    \/ /\ part = "spawn" /\ part' = part /\ SpawnNext
       /\ UNCHANGED <<signalVars, processVars, fsPollVars,
                      inotifyVars, heapVars, fsVars, resolveVars, loopLifeVars>>

allVars == <<part, signalVars, processVars, fsPollVars, inotifyVars, heapVars,
             fsVars, resolveVars, loopLifeVars, spawn>>

Spec == Init /\ [][Next]_allVars
=============================================================================
