------------------------------- MODULE Stdio -------------------------------
(***************************************************************************)
(* The descriptors of uv_spawn in src/src/unix/process.cpp: the pipes the  *)
(* parent makes, hands to streams or closes on every way out, the shuffle  *)
(* of descriptors in the child before exec, and the pipe through which     *)
(* the parent learns what became of it.  The kernel gives out the lowest   *)
(* free number, also a standard one that the caller has closed.            *)
(***************************************************************************)
EXTENDS Integers, FiniteSets

CONSTANTS
    StdioCount,    \* the slots, at least the three standard ones
    Inheritable,   \* the caller's descriptors above the standard ones
    Private        \* those of its descriptors the caller set close-on-exec

Standard == 0..2

ASSUME StdioAssumption ==
    /\ StdioCount \in Nat /\ StdioCount >= 3
    /\ Inheritable \in SUBSET (Nat \ Standard) /\ IsFiniteSet(Inheritable)

Slots == 0..(StdioCount - 1)

\* A slot gets one of the caller's descriptors, nothing, or a pipe.
Ignore == -1
Pipe == -2
\* No descriptor, and the file that is not named by the number it has in
\* the parent.
Unset == -1
DevNull == -1

VARIABLE spawn   \* the call of uv_spawn: what it was asked for and where it stands

----------------------------------------------------------------------------
(* Descriptors.                                                            *)

Lowest(used, from) ==
    CHOOSE f \in from..(from + Cardinality(used)) :
        f \notin used /\ \A g \in from..(f - 1) : g \in used

\* A table maps descriptors to files; dup2 and close change it.
Put(tab, f, file) == [g \in DOMAIN tab \cup {f} |-> IF g = f THEN file ELSE tab[g]]
Drop(tab, f) == [g \in DOMAIN tab \ {f} |-> tab[g]]

\* A pipe: its read end and its write end.
Read(s) == Lowest(s.fds, 0)
Write(s) == Lowest(s.fds \cup {Read(s)}, 0)

\* uv__close_nocheckstdio, and whether anything but uv_spawn's own open
\* descriptors was closed.
CloseAll(s, ends) ==
    [s EXCEPT !.fds = @ \ ends, !.stray = @ \/ ~(ends \subseteq s.fds \ s.open)]

\* uv__close asserts that it closes no standard descriptor.
uv__close(s, ends) ==
    IF ends \cap Standard # {} THEN [s EXCEPT !.at = "abort"] ELSE CloseAll(s, ends)

\* The next turn of a loop over the slots, or what follows the loop.
Advance(s, next) ==
    IF s.slot + 1 \in Slots THEN [s EXCEPT !.slot = @ + 1]
    ELSE [s EXCEPT !.slot = 0, !.at = next]

----------------------------------------------------------------------------
(* The parent before the fork.                                             *)

NoChild == [tab |-> [f \in {} |-> Unset], cloexec |-> {}, use |-> [i \in Slots |-> Unset]]

Asked(opened, kind, where) ==
    [open |-> opened, kind |-> kind, at |-> where, slot |-> 0,
     par |-> [i \in Slots |-> Unset], use |-> [i \in Slots |-> Unset],
     signal |-> [r |-> Unset, w |-> Unset], fds |-> opened, owned |-> {},
     err |-> FALSE, ran |-> FALSE, stray |-> FALSE, child |-> NoChild]

SpawnInit == spawn = Asked({}, [i \in Slots |-> Ignore], "idle")

\* The user asks for any mixture of slots, with any of its own standard
\* descriptors closed.
SpawnCalled ==
    /\ spawn.at = "idle"
    /\ \E low \in SUBSET Standard :
       \E kind \in [Slots -> low \cup Inheritable \cup {Ignore, Pipe}] :
           spawn' = Asked(low \cup Inheritable, kind, "init")

PipeSlots(s) == {i \in Slots : s.kind[i] = Pipe}

\* The error path closes every pipe that was made.
Failed(s) ==
    [CloseAll(s, ({s.par[i] : i \in PipeSlots(s)} \cup {s.use[i] : i \in PipeSlots(s)}) \ {Unset})
        EXCEPT !.at = "returned", !.err = TRUE]

\* Where a descriptor is inherited only the child's side is set.
uv__process_init_stdio ==
    /\ spawn.at = "init"
    /\ LET i == spawn.slot
           s == Advance(spawn, "fork")
       IN  \/ spawn.kind[i] = Ignore /\ spawn' = s
           \/ spawn.kind[i] # Ignore /\ spawn' = Failed(spawn)
           \/ /\ spawn.kind[i] = Pipe
              /\ spawn' = [s EXCEPT !.fds = @ \cup {Read(spawn), Write(spawn)},
                                    !.par[i] = Read(spawn), !.use[i] = Write(spawn)]
           \/ /\ spawn.kind[i] \in spawn.open
              /\ spawn' = [s EXCEPT !.use[i] = spawn.kind[i]]

\* The pipe that tells the parent of the exec, and the fork.  The child has
\* the parent's table; the parent closes its copy of the end the child
\* writes to and waits at the other.
uv_spawn_fork ==
    /\ spawn.at = "fork"
    /\ LET s == [spawn EXCEPT !.fds = @ \cup {Read(spawn), Write(spawn)},
                              !.signal = [r |-> Read(spawn), w |-> Write(spawn)]]
           unforked == uv__close(s, {Read(spawn), Write(spawn)})
           forked == [s EXCEPT !.at = "move",
                               !.child = [tab |-> [f \in s.fds |-> f], use |-> s.use,
                                          cloexec |-> s.fds \ (s.open \ Private)]]
       IN  \/ spawn' = Failed(spawn)
           \/ spawn' = IF unforked.at = "abort" THEN unforked ELSE Failed(unforked)
           \/ spawn' = uv__close(forked, {Write(spawn)})

----------------------------------------------------------------------------
(* uv__process_child_init, one turn of its loops at a time.                *)

\* The parent has read the end of the file or the child's error number.
Heard(s, err) ==
    [CloseAll(s, {s.signal.r}) EXCEPT !.at = "streams", !.slot = 0, !.err = err]

\* A call of the child fails: it writes the error to the pipe, or to what
\* has been put in its place, and exits.
ChildFails ==
    LET t == spawn.child.tab
        w == spawn.signal.w
    IN  spawn' = Heard(spawn, w \in DOMAIN t /\ t[w] = w)

\* Mutant: none moves.
MoveUpNone == spawn.at = "move" /\ spawn' = Advance(spawn, "place")

\* Low numbered descriptors that a lower slot would overwrite move up.
MoveUp ==
    /\ spawn.at = "move"
    /\ LET i == spawn.slot
           c == spawn.child
           use == c.use[i]
           new == Lowest(DOMAIN c.tab, StdioCount)
       IN  IF use < 0 \/ use >= i THEN spawn' = Advance(spawn, "place")
           ELSE \/ ChildFails
                \/ spawn' = [Advance(spawn, "place") EXCEPT
                                !.child = [tab |-> Put(c.tab, new, c.tab[use]),
                                           use |-> [c.use EXCEPT ![i] = new],
                                           cloexec |-> c.cloexec \ {new}]]

\* c with slot i a duplicate of from, and close_fd closed if it is above the
\* slots.
Placed(c, i, from, close_fd) ==
    LET tab == Put(c.tab, i, c.tab[from])
    IN  [c EXCEPT !.cloexec = @ \ {i},
                  !.tab = IF close_fd >= StdioCount THEN Drop(tab, close_fd) ELSE tab]

\* c with /dev/null opened at f.
NullOpened(c, f) == [c EXCEPT !.tab = Put(@, f, DevNull), !.cloexec = @ \ {f}]

\* The slot's descriptor, or for a standard slot /dev/null, is put in its
\* place.
Place ==
    /\ spawn.at = "place"
    /\ LET i == spawn.slot
           c == spawn.child
           null == Lowest(DOMAIN c.tab, 0)
           s == Advance(spawn, "close")
       IN  \/ c.use[i] < 0 /\ i \notin Standard /\ spawn' = s
           \/ c.use[i] < 0 /\ i \in Standard
              /\ spawn' = [s EXCEPT !.child = Placed(NullOpened(c, null), i, null, null)]
           \/ c.use[i] >= 0
              /\ spawn' = [s EXCEPT !.child = Placed(c, i, c.use[i], spawn.par[i])]
           \/ (c.use[i] >= 0 \/ i \in Standard) /\ ChildFails

CloseUsed ==
    /\ spawn.at = "close"
    /\ LET use == spawn.child.use[spawn.slot]
           s == Advance(spawn, "exec")
       IN  spawn' = IF use >= StdioCount THEN [s EXCEPT !.child.tab = Drop(@, use)] ELSE s

\* chdir, setgid, setuid and execvp: the first to fail ends the child, exec
\* closes what is marked.
Exec ==
    /\ spawn.at = "exec"
    /\ \/ ChildFails
       \/ LET t == spawn.child.tab
              kept == DOMAIN t \ spawn.child.cloexec
          IN  spawn' = [Heard(spawn, FALSE) EXCEPT
                           !.ran = TRUE, !.child.tab = [f \in kept |-> t[f]]]

uv__process_child_init == MoveUp \/ Place \/ CloseUsed \/ Exec

----------------------------------------------------------------------------
(* The parent after it.                                                    *)

\* The child's end is closed, the parent's goes to the stream, which the
\* user has just initialized and is not open.
uv__process_open_stream ==
    /\ spawn.at = "streams"
    /\ LET i == spawn.slot
           s == Advance(spawn, "returned")
           t == uv__close(s, {spawn.use[i]})
       IN  spawn' = IF spawn.kind[i] # Pipe THEN s
                    ELSE IF t.at = "abort" THEN t
                    ELSE [t EXCEPT !.owned = @ \cup {spawn.par[i]}]

SpawnNext ==
    \/ SpawnCalled
    \/ uv__process_init_stdio \/ uv_spawn_fork
    \/ uv__process_child_init
    \/ uv__process_open_stream

SpawnSpec == SpawnInit /\ [][SpawnNext]_spawn

----------------------------------------------------------------------------
(* Properties.                                                             *)

\* The file that slot i of the child is to hold.
Wanted(s, i) ==
    IF s.kind[i] = Pipe THEN s.use[i] ELSE IF s.kind[i] = Ignore THEN DevNull ELSE s.kind[i]

Filled(s) == Standard \cup {i \in Slots : s.kind[i] # Ignore}

\* The child has in each slot the file that is to be there, and besides them
\* only what the caller lets every child inherit, or /dev/null in a slot that
\* is ignored.
ChildFilled(s) ==
    LET t == s.child.tab IN
    /\ \A i \in Filled(s) : i \in DOMAIN t /\ t[i] = Wanted(s, i)
    /\ \A f \in DOMAIN t \ Filled(s) :
           \/ f \in s.open \ Private /\ t[f] = f
           \/ f \in Slots /\ t[f] = DevNull

\* After exec each slot of the child is what the caller asked for, whatever
\* permutation of the descriptors the slots inherit and whatever numbers the
\* pipes have got, and nothing else of the parent's is left open.
ChildSlotsRight == spawn.ran => ChildFilled(spawn)

\* The comment in uv_spawn: it activates its handle, and returns 0, "only if
\* exec() happened successfully".
ExecReported == spawn.at = "returned" => (spawn.err <=> ~spawn.ran)

\* The error is missed only if the shuffle in the child puts a slot's
\* descriptor where the pipe for the error number is.
ExecSeen ==
    spawn.at = "returned" =>
        /\ spawn.ran => ~spawn.err
        /\ spawn.err \/ spawn.ran \/ spawn.signal.w \in Filled(spawn)

\* uv_spawn closes nothing twice and nothing of the caller's.  When it is
\* through, the parent has gained the ends in the streams and nothing else:
\* with the child's ends open a stream would never see the end of file.
ParentPipesBalanced ==
    /\ ~spawn.stray
    /\ spawn.at = "returned" =>
           /\ spawn.fds = spawn.open \cup spawn.owned
           /\ spawn.ran => spawn.owned = {spawn.par[i] : i \in PipeSlots(spawn)}

\* All sides of uv_spawn's descriptors.
SpawnRight == ChildSlotsRight /\ ExecSeen /\ ParentPipesBalanced

\* The assertion of uv__close, which is to "catch stdio close bugs": uv_spawn
\* does not close a standard descriptor.
NoStdioClosed == spawn.at # "abort"
=============================================================================
