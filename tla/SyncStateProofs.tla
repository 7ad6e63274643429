-------------------------- MODULE SyncStateProofs --------------------------
(***************************************************************************)
(* What the methods of SyncState (src/src/sync-state.ts) do to a record of *)
(* tables, for every set of paths and hashes: each keeps the tables        *)
(* well-typed, and each changes exactly the entries it is meant to.        *)
(***************************************************************************)
EXTENDS SyncState, TLAPS

\* The tables of a node that never ran.
LEMMA EmptySyncType == EmptySync \in SyncRecord
  BY SMT DEF EmptySync, SyncRecord, Version, HashOrNone

\* Replacing one table of a record.
LEMMA SetLocal ==
  ASSUME NEW s \in SyncRecord, NEW f \in [Path -> Version]
  PROVE  LET t == [s EXCEPT !.local = f] IN
         /\ t \in SyncRecord
         /\ t.local = f /\ t.pending = s.pending /\ t.lastSynced = s.lastSynced
  BY SMT DEF SyncRecord

LEMMA SetLastSynced ==
  ASSUME NEW s \in SyncRecord, NEW f \in [Path -> Version]
  PROVE  LET t == [s EXCEPT !.lastSynced = f] IN
         /\ t \in SyncRecord
         /\ t.local = s.local /\ t.pending = s.pending /\ t.lastSynced = f
  BY SMT DEF SyncRecord

LEMMA SetPending ==
  ASSUME NEW s \in SyncRecord, NEW f \in [Path -> HashOrNone]
  PROVE  LET t == [s EXCEPT !.pending = f] IN
         /\ t \in SyncRecord
         /\ t.local = s.local /\ t.pending = f /\ t.lastSynced = s.lastSynced
  BY SMT DEF SyncRecord

\* recordLocalChange lists the new version as the current and as a pending one.
LEMMA RecordLocalChangeEffect ==
  ASSUME NEW s \in SyncRecord, NEW p \in Path, NEW h \in Hash
  PROVE  /\ RecordLocalChange(s, p, h) \in SyncRecord
         /\ \A x \in Path : RecordLocalChange(s, p, h).local[x]
                              = IF x = p THEN h ELSE s.local[x]
         /\ \A x \in Path : RecordLocalChange(s, p, h).pending[x]
                              = IF x = p THEN h ELSE s.pending[x]
  <1> DEFINE l == [s.local EXCEPT ![p] = h]
             q == [s.pending EXCEPT ![p] = h]
             t == [s EXCEPT !.local = l]
  <1>1. l \in [Path -> Version] /\ q \in [Path -> HashOrNone]
    BY DEF SyncRecord, Version, HashOrNone
  <1>2. t \in SyncRecord /\ t.local = l /\ t.pending = s.pending
    BY <1>1, SetLocal
  <1>3. RecordLocalChange(s, p, h) = [t EXCEPT !.pending = q]
    BY Zenon DEF RecordLocalChange
  <1>4. /\ RecordLocalChange(s, p, h) \in SyncRecord
        /\ RecordLocalChange(s, p, h).local = l
        /\ RecordLocalChange(s, p, h).pending = q
    <2> HIDE DEF t, l, q
    <2> QED BY <1>1, <1>2, <1>3, SetPending
  <1>5. QED
    BY <1>4 DEF SyncRecord

\* recordRemoteChange makes a received version current and synced, and leaves
\* the pending list as it is.
LEMMA RecordRemoteChangeEffect ==
  ASSUME NEW s \in SyncRecord, NEW p \in Path, NEW h \in HashOrNone
  PROVE  /\ RecordRemoteChange(s, p, h) \in SyncRecord
         /\ RecordRemoteChange(s, p, h).pending = s.pending
         /\ \A x \in Path : RecordRemoteChange(s, p, h).local[x]
                = IF x = p THEN (IF h = None THEN Blank ELSE h) ELSE s.local[x]
  <1> DEFINE v == IF h = None THEN Blank ELSE h
             l == [s.local EXCEPT ![p] = v]
             y == [s.lastSynced EXCEPT ![p] = v]
             t == [s EXCEPT !.local = l]
  <1>1. l \in [Path -> Version] /\ y \in [Path -> Version]
    BY DEF SyncRecord, Version, HashOrNone
  <1>2. t \in SyncRecord /\ t.local = l /\ t.pending = s.pending
    BY <1>1, SetLocal
  <1>3. RecordRemoteChange(s, p, h) = [t EXCEPT !.lastSynced = y]
    BY Zenon DEF RecordRemoteChange
  <1>4. /\ RecordRemoteChange(s, p, h) \in SyncRecord
        /\ RecordRemoteChange(s, p, h).local = l
        /\ RecordRemoteChange(s, p, h).pending = s.pending
    <2> HIDE DEF t, l, y
    <2> QED BY <1>1, <1>2, <1>3, SetLastSynced
  <1>5. QED
    BY <1>4 DEF SyncRecord

\* recordSyncedHash, markAllSynced and the force flags touch neither the
\* versions nor the pending list.
LEMMA RecordSyncedHashEffect ==
  ASSUME NEW s \in SyncRecord, NEW p \in Path, NEW h \in Hash
  PROVE  /\ RecordSyncedHash(s, p, h) \in SyncRecord
         /\ RecordSyncedHash(s, p, h).local = s.local
         /\ RecordSyncedHash(s, p, h).pending = s.pending
  BY SMT DEF RecordSyncedHash, SyncRecord, Version, HashOrNone

LEMMA MarkAllSyncedEffect ==
  ASSUME NEW s \in SyncRecord
  PROVE  /\ MarkAllSynced(s) \in SyncRecord
         /\ MarkAllSynced(s).local = s.local
         /\ MarkAllSynced(s).pending = s.pending
  <1>1. MarkAllSynced(s) = [local |-> s.local,
                     lastSynced |-> [p \in Path |-> IF s.local[p] # None THEN s.local[p] ELSE s.lastSynced[p]],
                     pending |-> s.pending,
                     forceAllow |-> s.forceAllow]
    BY SMT DEF MarkAllSynced, SyncRecord
  <1>2. QED
    BY <1>1, SMT DEF SyncRecord, Version, HashOrNone

LEMMA ForceAllowEffect ==
  ASSUME NEW s \in SyncRecord, NEW p \in Path
  PROVE  /\ MarkForceAllow(s, p) \in SyncRecord /\ DropForceAllow(s, p) \in SyncRecord
         /\ MarkForceAllow(s, p).local = s.local /\ MarkForceAllow(s, p).pending = s.pending
         /\ DropForceAllow(s, p).local = s.local /\ DropForceAllow(s, p).pending = s.pending
  BY SMT DEF MarkForceAllow, DropForceAllow, SyncRecord, Version, HashOrNone

LEMMA ReloadedEffect ==
  ASSUME NEW s \in SyncRecord
  PROVE  /\ Reloaded(s) \in SyncRecord
         /\ Reloaded(s).local = s.local
         /\ Reloaded(s).pending = s.pending
  BY SMT DEF Reloaded, SyncRecord, Version, HashOrNone

\* clearPendingChanges and removeFile.
LEMMA ClearPendingEffect ==
  ASSUME NEW s \in SyncRecord, NEW P \in SUBSET Path
  PROVE  /\ ClearPending(s, P) \in SyncRecord
         /\ ClearPending(s, P).local = s.local
         /\ \A x \in Path : ClearPending(s, P).pending[x]
                              = IF x \in P THEN None ELSE s.pending[x]
  <1>1. ClearPending(s, P) = [local |-> s.local,
                     lastSynced |-> s.lastSynced,
                     pending |-> [p \in Path |-> IF p \in P THEN None ELSE s.pending[p]],
                     forceAllow |-> s.forceAllow]
    BY SMT DEF ClearPending, SyncRecord
  <1>2. QED
    BY <1>1, SMT DEF SyncRecord, Version, HashOrNone

LEMMA RemoveFileEffect ==
  ASSUME NEW s \in SyncRecord, NEW p \in Path
  PROVE  /\ RemoveFile(s, p) \in SyncRecord
         /\ \A x \in Path : RemoveFile(s, p).local[x] = IF x = p THEN None ELSE s.local[x]
         /\ \A x \in Path : RemoveFile(s, p).pending[x] = IF x = p THEN None ELSE s.pending[x]
  <1> DEFINE l == [s.local EXCEPT ![p] = None]
             y == [s.lastSynced EXCEPT ![p] = None]
             q == [s.pending EXCEPT ![p] = None]
             t == [s EXCEPT !.local = l]
             u == [t EXCEPT !.lastSynced = y]
  <1>1. /\ l \in [Path -> Version] /\ y \in [Path -> Version]
        /\ q \in [Path -> HashOrNone]
    BY DEF SyncRecord, Version, HashOrNone
  <1>2. t \in SyncRecord /\ t.local = l /\ t.pending = s.pending
    BY <1>1, SetLocal
  <1>3. u \in SyncRecord /\ u.local = l /\ u.pending = s.pending
    <2> HIDE DEF t, l, y
    <2> QED BY <1>1, <1>2, SetLastSynced
  <1>4. RemoveFile(s, p) = [u EXCEPT !.pending = q]
    BY Zenon DEF RemoveFile
  <1>5. /\ RemoveFile(s, p) \in SyncRecord
        /\ RemoveFile(s, p).local = l
        /\ RemoveFile(s, p).pending = q
    <2> HIDE DEF u, l, q
    <2> QED BY <1>1, <1>3, <1>4, SetPending
  <1>6. QED
    BY <1>5 DEF SyncRecord

\* getLocalHash.
LEMMA GetLocalHashType ==
  ASSUME NEW s \in SyncRecord, NEW p \in Path
  PROVE  /\ GetLocalHash(s, p) \in HashOrNone
         /\ GetLocalHash(s, p) # None => /\ GetLocalHash(s, p) = s.local[p]
                                         /\ s.local[p] \in Hash
  BY SMT, SyncStateAssumption DEF GetLocalHash, SyncRecord, Version, HashOrNone
=============================================================================
