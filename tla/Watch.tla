--------------------------------- MODULE Watch ---------------------------------
(***************************************************************************)
(* A watched directory (the watch stream of src/runtime.c over             *)
(* src/platform_watch.c).  The kernel's events only wake the runtime: what *)
(* it reports is the difference between two scans of the tree, and after   *)
(* each scan it registers with the kernel anew.  Anything may change the   *)
(* tree between any two of these steps.                                    *)
(***************************************************************************)
EXTENDS Runtime, Sequences, FiniteSets, SequencesExt

CONSTANTS
    Paths,          \* the files below the watched directory
    Inodes,
    MaxChanges      \* bound: changes of the tree

ASSUME TreeAssumption == IsFiniteSet(Paths) /\ MaxChanges \in Nat

VARIABLES
    tree,           \* the file system: a function from the files that exist
    seen,           \* watch_items: the tree as it was last scanned
    armed,          \* platform_watch is registered with the kernel
    wake,           \* the kernel has an event for it
    events,         \* pending_events
    step,           \* where the watch stream is
    changes,        \* changes of the tree so far
    missed,         \* auxiliary: the tree changed while the kernel was not watching
    reported        \* auxiliary: the files that exist according to the events given

watchVars == <<tree, seen, armed, wake, events, step, changes, missed, reported>>

Trees == UNION {[S -> [inode : Inodes, version : 0..MaxChanges]] : S \in SUBSET Paths}

NoFiles == [p \in {} |-> p]

WatchType ==
    /\ tree \in Trees /\ seen \in Trees
    /\ armed \in BOOLEAN /\ wake \in BOOLEAN /\ missed \in BOOLEAN
    /\ step \in {"new", "scanned", "waiting", "woken", "stale", "closed"}
    /\ changes \in 0..MaxChanges
    /\ events \in Seq([kind : {"renamed", "removed", "modified", "created"}, path : Paths, old : Paths])
    /\ reported \subseteq Paths

WatchInit ==
    /\ tree \in [Paths -> [inode : Inodes, version : {0}]]
    /\ seen = NoFiles
    /\ armed = FALSE /\ wake = FALSE /\ missed = FALSE
    /\ events = <<>> /\ step = "new" /\ changes = 0 /\ reported = {}

(* The same without a watch in the program.                                  *)
NoWatch ==
    /\ tree = NoFiles /\ seen = NoFiles
    /\ armed = FALSE /\ wake = FALSE /\ missed = FALSE
    /\ events = <<>> /\ step = "new" /\ changes = MaxChanges /\ reported = {}

-----------------------------------------------------------------------------
(* The file system.                                                          *)

Without(path) == [q \in DOMAIN tree \ {path} |-> tree[q]]

With(path, file) == [q \in DOMAIN tree \cup {path} |-> IF q = path THEN file ELSE tree[q]]

(* Creating takes an inode no file has; a rename may replace a file, a link  *)
(* gives a file a second path.                                               *)
Change ==
    /\ step # "closed" /\ changes < MaxChanges
    /\ changes' = changes + 1
    /\ \/ \E p \in Paths \ DOMAIN tree, i \in Inodes \ {tree[q].inode : q \in DOMAIN tree} :
             tree' = With(p, [inode |-> i, version |-> changes + 1])
       \/ \E p \in DOMAIN tree : tree' = [tree EXCEPT ![p].version = changes + 1]
       \/ \E p \in DOMAIN tree : tree' = Without(p)
       \/ \E p \in DOMAIN tree : \E q \in Paths \ {p} :
             tree' = [r \in (DOMAIN tree \cup {q}) \ {p} |-> IF r = q THEN tree[p] ELSE tree[r]]
       \/ \E p \in DOMAIN tree, q \in Paths \ DOMAIN tree : tree' = With(q, tree[p])
    /\ wake' = (wake \/ armed)
    /\ missed' = (missed \/ ~armed)
    /\ UNCHANGED <<runtimeVars, seen, armed, events, step, reported>>

-----------------------------------------------------------------------------
(* The difference of two scans.                                              *)

(* The file of the new scan a path that is gone was renamed to: the first    *)
(* one with its inode that no earlier path has taken.                        *)
Targets(old, new, p) == {q \in DOMAIN new : new[q].inode = old[p].inode}

(* Each path that is gone is paired with at most one target and each target  *)
(* with at most one path; the order in which the scan lists the files        *)
(* decides, so any pairing none of whose targets was left over may come out. *)
Pairings(old, new) ==
    LET gone == DOMAIN old \ DOMAIN new
        Partial == UNION {[S -> DOMAIN new] : S \in SUBSET gone}
        Sound(f) == /\ \A p \in DOMAIN f : f[p] \in Targets(old, new, p)
                    /\ \A p, q \in DOMAIN f : f[p] = f[q] => p = q
    IN {f \in Partial : /\ Sound(f)
                        /\ \A p \in gone \ DOMAIN f :
                              Targets(old, new, p) \subseteq {f[q] : q \in DOMAIN f}}

Event(kind, path, old) == [kind |-> kind, path |-> path, old |-> old]

(* A comparison that takes a second link for the file it already knows.     *)
DifferenceMutant(old, new, renamed) ==
    LET taken == {renamed[p] : p \in DOMAIN renamed}
    IN {Event("renamed", renamed[p], p) : p \in DOMAIN renamed}
       \cup {Event("removed", p, p) : p \in DOMAIN old \ (DOMAIN new \cup DOMAIN renamed)}
       \cup {Event("modified", p, p) :
                p \in {q \in DOMAIN old \cap DOMAIN new : old[q].version # new[q].version}}
       \cup {Event("created", p, p) : p \in {q \in DOMAIN new : \A r \in DOMAIN old : old[r].inode # new[q].inode} \ DOMAIN old}

Difference(old, new, renamed) ==
    LET taken == {renamed[p] : p \in DOMAIN renamed}
    IN {Event("renamed", renamed[p], p) : p \in DOMAIN renamed}
       \cup {Event("removed", p, p) : p \in DOMAIN old \ (DOMAIN new \cup DOMAIN renamed)}
       \cup {Event("modified", p, p) :
                p \in {q \in DOMAIN old \cap DOMAIN new : old[q].version # new[q].version}}
       \cup {Event("created", p, p) : p \in DOMAIN new \ (DOMAIN old \cup taken)}

(* What the reader of the events knows to exist.                             *)
After(paths, event) ==
    CASE event.kind = "renamed" -> (paths \ {event.old}) \cup {event.path}
      [] event.kind = "removed" -> paths \ {event.path}
      [] OTHER -> paths \cup {event.path}

-----------------------------------------------------------------------------
(* The steps of one call for the next event.                                 *)

(* watch_scan: it needs an open file while it runs.                          *)
FirstScan ==
    /\ step = "new" /\ FileFree
    /\ seen' = tree /\ reported' = DOMAIN tree
    /\ step' = "scanned"
    /\ UNCHANGED <<runtimeVars, tree, armed, wake, events, changes, missed>>

(* hhy_platform_watch_open: one descriptor of inotify, whatever it watches.  *)
Open ==
    /\ step = "scanned" /\ FileFree
    /\ armed' = TRUE /\ wake' = FALSE
    /\ files' = files + 1
    /\ step' = "waiting"
    /\ UNCHANGED <<failed, cancelled, procs, tree, seen, events, changes, missed, reported>>

(* The kernel's events are read and thrown away.                             *)
Wake ==
    /\ step = "waiting" /\ events = <<>> /\ wake /\ ~cancelled
    /\ wake' = FALSE /\ step' = "woken"
    /\ UNCHANGED <<runtimeVars, tree, seen, armed, events, changes, missed, reported>>

Rescan ==
    /\ step = "woken" /\ FileFree
    /\ \E renamed \in Pairings(seen, tree) :
          events' = SetToSeq(Difference(seen, tree, renamed))
    /\ seen' = tree
    /\ step' = "stale"
    /\ UNCHANGED <<runtimeVars, tree, armed, wake, changes, missed, reported>>

(* register_paths closes the old descriptor, and with it the events it still *)
(* had, before it opens the new one.                                         *)
Rebuild ==
    /\ step = "stale"
    /\ missed' = (missed \/ wake)
    /\ wake' = FALSE
    /\ step' = "waiting"
    /\ UNCHANGED <<runtimeVars, tree, seen, armed, events, changes, reported>>

WatchWorks == FirstScan \/ Open \/ Wake \/ Rescan \/ Rebuild

(* A scan or a registration fails, or finds no free file, or the wait is     *)
(* interrupted: the stream fails and is closed by its caller.                *)
WatchFails == step \in {"new", "scanned", "woken", "stale"} \/ (step = "waiting" /\ events = <<>>)

WatchClosed(closing) ==
    IF closing
      THEN /\ armed' = FALSE /\ wake' = FALSE /\ step' = "closed" /\ events' = <<>>
           /\ UNCHANGED <<tree, seen, changes, missed, reported>>
      ELSE UNCHANGED watchVars

(* The next pending event is given to the reader.                            *)
Ready == step = "waiting" /\ events # <<>>

GiveEvent ==
    /\ events' = Tail(events)
    /\ reported' = After(reported, Head(events))
    /\ UNCHANGED <<tree, seen, armed, wake, step, changes, missed>>

-----------------------------------------------------------------------------
(* What the events are worth.                                                *)

(* The files a reader of the events believes in, once it has read the        *)
(* pending ones, are those of the last scan: no file is reported created or  *)
(* gone that was not, whatever was renamed, replaced or linked in between    *)
(* (the comparison of the snapshots in stream_next).                         *)
EventsTellTheScan ==
    step \in {"scanned", "waiting", "woken", "stale"} =>
        FoldLeft(After, reported, events) = DOMAIN seen

(* A watch that waits with an outdated scan and nothing to wake it missed    *)
(* the change in one of two windows: before it first registered, or between  *)
(* a scan and the new registration that follows it.                          *)
StaleOnlyByWindow ==
    step = "waiting" /\ armed /\ ~wake /\ seen # tree => missed

(* A watch tells what it saw, and sees what happens outside its windows.     *)
WatchIsTrue == EventsTellTheScan /\ StaleOnlyByWindow
=============================================================================
