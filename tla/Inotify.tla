------------------------------ MODULE Inotify ------------------------------
(***************************************************************************)
(* File system events of src/src/unix/linux-inotify.cpp: one list of       *)
(* handles per inotify watch, and uv__inotify_read, which calls back the   *)
(* handles of a list while the callbacks stop and start handles of it.     *)
(***************************************************************************)
EXTENDS Queue

CONSTANTS
    Watches,    \* fs event handles
    Paths,      \* watched paths
    MaxWd,      \* bound: watch descriptors the kernel gives out
    MaxEvents   \* bound: events queued in the kernel

ASSUME InotifyAssumption == MaxWd \in Nat \ {0} /\ MaxEvents \in Nat \ {0}

VARIABLES
    kernel,     \* kernel[p]: the watch descriptor of p, 0 for none
    lastWd,     \* the last descriptor given out: they are not used again
    events,     \* queued events, as watch descriptors
    lists,      \* lists[wd]: the watcher_list, when it is in the tree
    tree,       \* descriptors with a watcher_list
    wd,         \* wd[h]: the descriptor h watches, 0 when it is not active
    current,    \* the event being called back, 0 for none
    rest,       \* the local queue of uv__inotify_read
    owed,       \* handles that have to hear of the current event
    unlisted    \* history: watches made when there was no memory for their list

inotifyVars == <<kernel, lastWd, events, lists, tree, wd, current, rest, owed, unlisted>>
kernelVars == <<kernel, lastWd, events>>

Wds == 1..MaxWd

FreeList(w) ==
    /\ tree' = tree \ {w}
    /\ lists' = [lists EXCEPT ![w] = <<>>]
    /\ kernel' = [p \in Paths |-> IF kernel[p] = w THEN 0 ELSE kernel[p]]
    /\ events' = IF (\E p \in Paths : kernel[p] = w) /\ Len(events) < MaxEvents
                 THEN Append(events, w) ELSE events           \* IN_IGNORED

\* Mutant: a list is freed under uv__inotify_read.
maybe_free_iterated(w, list, iterating) ==
    IF list = <<>> THEN FreeList(w)
    ELSE lists' = [lists EXCEPT ![w] = list] /\ UNCHANGED <<tree, kernel, events>>

\* The list of w is now list; it is freed, with its watch, when it is empty
\* and not being iterated over.
maybe_free_watcher_list(w, list, iterating) ==
    IF list = <<>> /\ ~iterating THEN FreeList(w)
    ELSE lists' = [lists EXCEPT ![w] = list] /\ UNCHANGED <<tree, kernel, events>>

\* inotify_add_watch gives the descriptor that the kernel has for the path, or
\* a new one.  Without memory for a list that is not there yet the call fails
\* with ENOMEM, and the kernel goes on watching.
uv_fs_event_start(h, p) ==
    /\ wd[h] = 0
    /\ kernel[p] # 0 \/ lastWd < MaxWd
    /\ LET w == IF kernel[p] # 0 THEN kernel[p] ELSE lastWd + 1 IN
       /\ kernel' = [kernel EXCEPT ![p] = w]
       /\ lastWd' = IF kernel[p] # 0 THEN lastWd ELSE w
       /\ \/ /\ tree' = tree \cup {w}
             /\ lists' = [lists EXCEPT ![w] = Append(@, h)]
             /\ wd' = [wd EXCEPT ![h] = w]
             /\ unlisted' = unlisted \ {w}
          \/ /\ w \notin tree
             /\ unlisted' = unlisted \cup {w}
             /\ UNCHANGED <<tree, lists, wd>>
    /\ UNCHANGED <<events, current, rest, owed>>

\* Also uv__fs_event_close.  The handle is on its list or in the local queue.
uv_fs_event_stop(h) ==
    /\ wd[h] # 0
    /\ wd' = [wd EXCEPT ![h] = 0]
    /\ rest' = Unlink(rest, h)
    /\ owed' = owed \ {h}
    /\ maybe_free_watcher_list(wd[h], Unlink(lists[wd[h]], h), current = wd[h])
    /\ UNCHANGED <<lastWd, current, unlisted>>

----------------------------------------------------------------------------
(* The kernel: something happens to a path; deleting it ends its watch.    *)

FileChanges(p) ==
    /\ kernel[p] # 0 /\ Len(events) < MaxEvents
    /\ events' = Append(events, kernel[p])
    /\ kernel' \in {kernel, [kernel EXCEPT ![p] = 0]}
    /\ UNCHANGED <<lastWd, lists, tree, wd, current, rest, owed, unlisted>>

----------------------------------------------------------------------------
(* uv__inotify_read.                                                       *)

\* The next event: an event of a list that is gone is skipped.
uv__inotify_read ==
    /\ current = 0 /\ events # <<>>
    /\ LET w == Head(events) IN
       /\ events' = Tail(events)
       /\ IF w \notin tree THEN UNCHANGED <<lists, current, rest, owed>>
          ELSE /\ current' = w
               /\ rest' = lists[w]
               /\ lists' = [lists EXCEPT ![w] = <<>>]
               /\ owed' = Range(lists[w])
    /\ UNCHANGED <<kernel, lastWd, tree, wd, unlisted>>

\* The next handle goes back to the list and is called.
EventCb ==
    /\ current # 0 /\ rest # <<>>
    /\ rest' = Tail(rest)
    /\ lists' = [lists EXCEPT ![current] = Append(@, Head(rest))]
    /\ owed' = owed \ {Head(rest)}
    /\ UNCHANGED <<kernelVars, tree, wd, current, unlisted>>

\* Done iterating: the list may be freed.
EventDone ==
    /\ current # 0 /\ rest = <<>>
    /\ current' = 0
    /\ maybe_free_watcher_list(current, lists[current], FALSE)
    /\ UNCHANGED <<lastWd, wd, rest, owed, unlisted>>

InotifyInit ==
    /\ kernel = [p \in Paths |-> 0] /\ lastWd = 0 /\ events = <<>>
    /\ lists = [w \in Wds |-> <<>>] /\ tree = {}
    /\ wd = [h \in Watches |-> 0]
    /\ current = 0 /\ rest = <<>> /\ owed = {} /\ unlisted = {}

InotifyNext ==
    \/ \E h \in Watches : uv_fs_event_stop(h) \/ \E p \in Paths : uv_fs_event_start(h, p)
    \/ \E p \in Paths : FileChanges(p)
    \/ uv__inotify_read \/ EventCb \/ EventDone

InotifySpec == InotifyInit /\ [][InotifyNext]_inotifyVars

----------------------------------------------------------------------------
(* Properties.                                                             *)

\* Every active handle is on one list, the one of its watch, which is in
\* the tree (uv_fs_event_stop asserts it finds it); no inactive one is on
\* any.  The list being iterated over is not freed, and an empty list that
\* is not is.
ListsRight ==
    /\ \A h \in Watches, w \in Wds :
           h \in Range(lists[w]) \/ (current = w /\ h \in Range(rest)) <=> wd[h] = w
    /\ \A w \in Wds : Distinct(lists[w] \o IF current = w THEN rest ELSE <<>>)
    /\ current # 0 => current \in tree
    /\ \A w \in Wds : w \in tree <=> lists[w] # <<>> \/ current = w

\* The kernel watches what has a list and nothing else, through stops in
\* callbacks, deletions and new watches of the same path.  The exception is
\* the watch of an uv_fs_event_start that found no memory for the list, which
\* is leaked until a later start of the same path gives it one.
NoWatchLeaked ==
    /\ \A p \in Paths : kernel[p] # 0 => (kernel[p] \in tree <=> kernel[p] \notin unlisted)
    /\ tree \cap unlisted = {}

\* An event is heard once by each handle that watched when it was read and
\* was not stopped before its turn, and by no handle started meanwhile.
EventHeardByAll == current # 0 => owed = Range(rest)

\* uv_fs_event: lists, kernel watches and callbacks stay in step while
\* callbacks stop and start watchers of the list being iterated over.
InotifyRight == ListsRight /\ NoWatchLeaked /\ EventHeardByAll
=============================================================================
