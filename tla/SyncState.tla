------------------------------ MODULE SyncState ------------------------------
(***************************************************************************)
(* The per-node synchronisation tables of src/src/sync-state.ts, as a      *)
(* record and one operator per method of the service.                      *)
(*                                                                         *)
(* A content hash stands for the content it is computed from.  `None` is   *)
(* an absent table entry; `Blank` is the empty string that                 *)
(* recordRemoteChange stores when a message came without a hash: the entry *)
(* exists, but every test `if (!hash)` in the code treats it as missing.   *)
(* Version counters, timestamps and the author of a version are only       *)
(* displayed, and are left out.  Every method saves the tables it changed  *)
(* synchronously, so all of the record but forceAllow is on disk.          *)
(***************************************************************************)
EXTENDS Naturals

CONSTANTS
    Path,   \* relative paths of the tracked directory
    Hash,   \* content hashes
    None,   \* no entry
    Blank   \* the empty string where a hash is expected

ASSUME SyncStateAssumption == None \notin Hash /\ Blank \notin Hash /\ None # Blank

HashOrNone == Hash \union {None}
Version == Hash \union {None, Blank}

\* createSyncState's maps: fileVersions (its hash), lastSyncedHashes,
\* pendingChanges (at most one entry per path) and forceAllowSet.
SyncRecord == [local      : [Path -> Version],
               lastSynced : [Path -> Version],
               pending    : [Path -> HashOrNone],
               forceAllow : SUBSET Path]

EmptySync == [local      |-> [p \in Path |-> None],
              lastSynced |-> [p \in Path |-> None],
              pending    |-> [p \in Path |-> None],
              forceAllow |-> {}]

------------------------------------------------------------------------------
(* Queries *)

GetLocalHash(s, p) == IF s.local[p] \in Hash THEN s.local[p] ELSE None

IsLocallyModified(s, p) ==
    /\ s.local[p] # None
    /\ s.lastSynced[p] \in {None, Blank} \/ s.local[p] # s.lastSynced[p]

\* `remote` is None when the message carried no hash.  The code compares the
\* local hash, null when missing, with `remoteHash || ""`: these never agree.
IsConflict(s, p, remote) ==
    /\ IsLocallyModified(s, p)
    /\ GetLocalHash(s, p) = None \/ GetLocalHash(s, p) # remote

PendingPaths(s) == {p \in Path : s.pending[p] # None}

------------------------------------------------------------------------------
(* Updates *)

RecordLocalChange(s, p, h) ==
    [s EXCEPT !.local[p] = h, !.pending[p] = h]

\* The pending list is not touched: a pending edit that a forced pull replaced
\* stays listed.
RecordRemoteChange(s, p, h) ==
    LET v == IF h = None THEN Blank ELSE h
    IN  [s EXCEPT !.local[p] = v, !.lastSynced[p] = v]

RecordSyncedHash(s, p, h) == [s EXCEPT !.lastSynced[p] = h]

ClearPending(s, P) ==
    [s EXCEPT !.pending = [p \in Path |-> IF p \in P THEN None ELSE @[p]]]

RemoveFile(s, p) ==
    [s EXCEPT !.local[p] = None, !.lastSynced[p] = None, !.pending[p] = None]

MarkAllSynced(s) ==
    [s EXCEPT !.lastSynced =
        [p \in Path |-> IF s.local[p] # None THEN s.local[p] ELSE @[p]]]

MarkForceAllow(s, p) == [s EXCEPT !.forceAllow = @ \union {p}]
DropForceAllow(s, p) == [s EXCEPT !.forceAllow = @ \ {p}]

\* Mutant: the pending list is not persisted.
Reloaded_WithoutPending(s) ==
    [s EXCEPT !.forceAllow = {}, !.pending = [p \in Path |-> None]]

\* What a new process loads: everything but the force flags is persisted.
Reloaded(s) == [s EXCEPT !.forceAllow = {}]
==============================================================================
