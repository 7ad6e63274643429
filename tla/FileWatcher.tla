----------------------------- MODULE FileWatcher -----------------------------
(***************************************************************************)
(* The tracked directory of every node and the watcher over it             *)
(* (src/src/file-watcher.ts, started and stopped by src/index.ts and       *)
(* src/src/tools/track.ts).                                                *)
(*                                                                         *)
(* The watcher is asynchronous: a notification of fs.watch is delivered    *)
(* some time after the write (`events`), its handler looks at the ignore   *)
(* window, reads the file, and only after the read is back (`reads`)       *)
(* updates the cache and the tables.  Handlers are not serialised, so two  *)
(* reads of one file may complete in either order.                         *)
(*                                                                         *)
(* These are the actions of one component; FileSync composes them with the *)
(* transport.                                                              *)
(***************************************************************************)
EXTENDS SyncState

CONSTANTS
    Node,            \* the gateways of the mesh
    PromptWatcher    \* TRUE: a write and its notification take less than the
                     \* two seconds of IGNORE_WINDOW_MS; FALSE: they may not

VARIABLES
    disk,      \* disk[n][p]: content of file p in n's directory, or None
    sync,      \* sync[n]: n's synchronisation tables
    tracked,   \* tracked[n]: currentTrackDir is set
    phase,     \* phase[n]: "off", "scanning" (start's scan), "watching"
    toScan,    \* toScan[n]: files the scan has still to read
    watched,   \* watched[n][p]: hash in the watchedFiles cache, or None
    ignoring,  \* ignoring[n]: paths whose ignore window is open
    events,    \* events[n]: paths with an undelivered fs.watch notification
    reads      \* reads[n]: handlers waiting for their read of a file

watcherVars == <<disk, sync, tracked, phase, toScan, watched, ignoring, events, reads>>

Read == [path : Path, ignored : BOOLEAN, hash : Hash]

WatcherTypeOK ==
    /\ disk \in [Node -> [Path -> HashOrNone]]
    /\ sync \in [Node -> SyncRecord]
    /\ tracked \in [Node -> BOOLEAN]
    /\ phase \in [Node -> {"off", "scanning", "watching"}]
    /\ toScan \in [Node -> SUBSET Path]
    /\ watched \in [Node -> [Path -> HashOrNone]]
    /\ ignoring \in [Node -> SUBSET Path]
    /\ events \in [Node -> SUBSET Path]
    /\ reads \in [Node -> SUBSET Read]

NothingWatched == [p \in Path |-> None]
FilesOnDisk(n) == {p \in Path : disk[n][p] # None}

\* fs.watch only reports what changes while it is installed.
Raised(n, p) ==
    [events EXCEPT ![n] = IF phase[n] = "watching" THEN @ \union {p} ELSE @]

------------------------------------------------------------------------------
(* The user *)

\* An editor saves new content, or deletes the file (h = None).
UserWrites(n, p, h) ==
    /\ disk[n][p] # h
    /\ disk' = [disk EXCEPT ![n][p] = h]
    /\ events' = Raised(n, p)
    /\ UNCHANGED <<sync, tracked, phase, toScan, watched, ignoring, reads>>

------------------------------------------------------------------------------
(* handleFileChange and handleFileDeletion *)

\* The part of handleFileChange before its awaits: take note of the ignore
\* window and read the file.
BeginRead(n, p) ==
    reads' = [reads EXCEPT ![n] = @ \union
                 {[path |-> p, ignored |-> p \in ignoring[n], hash |-> disk[n][p]]}]

\* A notification for a file that exists.
WatchChange(n, p) ==
    /\ phase[n] = "watching" /\ p \in events[n]
    /\ disk[n][p] # None
    /\ events' = [events EXCEPT ![n] = @ \ {p}]
    /\ BeginRead(n, p)
    /\ UNCHANGED <<disk, sync, tracked, phase, toScan, watched, ignoring>>

\* A notification for a file that is gone: the tables forget it, whatever the
\* ignore window says.
WatchDeletion(n, p) ==
    /\ phase[n] = "watching" /\ p \in events[n]
    /\ disk[n][p] = None
    /\ events' = [events EXCEPT ![n] = @ \ {p}]
    /\ IF watched[n][p] # None
       THEN /\ watched' = [watched EXCEPT ![n][p] = None]
            /\ sync' = [sync EXCEPT ![n] = RemoveFile(@, p)]
       ELSE UNCHANGED <<watched, sync>>
    /\ UNCHANGED <<disk, tracked, phase, toScan, ignoring, reads>>

\* The read is back.  Inside the ignore window the content is taken for the
\* received one; outside, a hash that differs from the cache is a local edit.
FinishRead(n, r) ==
    LET known == watched[n][r.path] = r.hash IN
    /\ r \in reads[n]
    /\ reads' = [reads EXCEPT ![n] = @ \ {r}]
    /\ IF r.ignored
       THEN /\ watched' = [watched EXCEPT ![n][r.path] = r.hash]
            /\ sync' = [sync EXCEPT ![n] = RecordSyncedHash(@, r.path, r.hash)]
       ELSE /\ watched' = [watched EXCEPT ![n][r.path] = r.hash]
            /\ sync' = IF known THEN sync
                       ELSE [sync EXCEPT ![n] = RecordLocalChange(@, r.path, r.hash)]
    /\ UNCHANGED <<disk, tracked, phase, toScan, ignoring, events>>

------------------------------------------------------------------------------
(* start, stop and the scan *)

\* A fresh watcher: createFileWatcher's maps are empty.
FreshWatcher(n) ==
    /\ watched' = [watched EXCEPT ![n] = NothingWatched]
    /\ ignoring' = [ignoring EXCEPT ![n] = {}]
    /\ events' = [events EXCEPT ![n] = {}]
    /\ toScan' = [toScan EXCEPT ![n] = FilesOnDisk(n)]
    /\ phase' = [phase EXCEPT ![n] = "scanning"]

\* mesh_track <dir>: currentTrackDir is set only when the scan is done.
\* Bound: the tool runs when no handler of an earlier watcher is under way.
StartTracking(n) ==
    /\ phase[n] = "off" /\ reads[n] = {}
    /\ FreshWatcher(n)
    /\ UNCHANGED <<disk, sync, tracked, reads>>

\* syncAllFiles handles one file after the other, and awaits each of them.
ScanFile(n, p) ==
    /\ phase[n] = "scanning" /\ p \in toScan[n] /\ reads[n] = {}
    /\ toScan' = [toScan EXCEPT ![n] = @ \ {p}]
    /\ IF disk[n][p] # None THEN BeginRead(n, p) ELSE UNCHANGED reads
    /\ UNCHANGED <<disk, sync, tracked, phase, watched, ignoring, events>>

\* start: markAllSynced after the scan, and only then fs.watch.
FinishScan(n) ==
    /\ phase[n] = "scanning" /\ toScan[n] = {} /\ reads[n] = {}
    /\ sync' = [sync EXCEPT ![n] = MarkAllSynced(@)]
    /\ phase' = [phase EXCEPT ![n] = "watching"]
    /\ tracked' = [tracked EXCEPT ![n] = TRUE]
    /\ UNCHANGED <<disk, toScan, watched, ignoring, events, reads>>

\* mesh_track stop (stopFileWatcher), with the same bound as StartTracking.
StopTracking(n) ==
    /\ phase[n] = "watching" /\ reads[n] = {}
    /\ phase' = [phase EXCEPT ![n] = "off"]
    /\ tracked' = [tracked EXCEPT ![n] = FALSE]
    /\ events' = [events EXCEPT ![n] = {}]
    /\ watched' = [watched EXCEPT ![n] = NothingWatched]
    /\ ignoring' = [ignoring EXCEPT ![n] = {}]
    /\ UNCHANGED <<disk, sync, toScan, reads>>

\* The process ends and a new one starts on the configured directory: the
\* tables are loaded from disk and the directory is scanned again.
RestartWatcher(n) ==
    /\ FreshWatcher(n)
    /\ sync' = [sync EXCEPT ![n] = Reloaded(@)]
    /\ tracked' = [tracked EXCEPT ![n] = TRUE]
    /\ reads' = [reads EXCEPT ![n] = {}]
    /\ UNCHANGED disk

\* ensureTrackedDirectory: a file tool used while nothing is tracked drops the
\* whole pending list.
ResetPending(n) ==
    /\ ~tracked[n] /\ PendingPaths(sync[n]) # {}
    /\ sync' = [sync EXCEPT ![n] = ClearPending(@, Path)]
    /\ UNCHANGED <<disk, tracked, phase, toScan, watched, ignoring, events, reads>>

------------------------------------------------------------------------------
(* What the transport uses *)

\* Mutant: the cache is trusted, the file may be gone.
CanServe_FromCache(n, p) == watched[n][p] # None

\* getFileContent: only tracked files are offered, read from the directory.
CanServe(n, p) == watched[n][p] # None /\ disk[n][p] # None

\* Mutant: ignoreNextChange is not called.
OpenWindow_Never(n, p) == UNCHANGED ignoring

\* ignoreNextChange, as index.ts wires it: to the watcher there is.
OpenWindow(n, p) ==
    ignoring' = [ignoring EXCEPT ![n] = IF phase[n] # "off" THEN @ \union {p} ELSE @]
==============================================================================
