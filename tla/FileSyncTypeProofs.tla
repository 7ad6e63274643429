------------------------- MODULE FileSyncTypeProofs -------------------------
(***************************************************************************)
(* The types of FileSync's variables, for any set of nodes, files and      *)
(* contents and any bounds.  One lemma per action, in the order of the     *)
(* modules FileWatcher and FileSync; each follows the action's primed      *)
(* variables.                                                              *)
(***************************************************************************)
EXTENDS FileSync, SyncStateProofs

------------------------------------------------------------------------------
(* Channels *)

\* A message sent on a well-typed channel keeps it well-typed.
LEMMA SendType ==
  ASSUME NEW s \in Node, NEW r \in Node, NEW m \in Msg,
         chan \in [Node -> [Node -> Seq(Msg)]], Send(s, r, m)
  PROVE  chan' \in [Node -> [Node -> Seq(Msg)]]
  BY DEF Send

LEMMA TakeType ==
  ASSUME NEW s \in Node, NEW r \in Node,
         chan \in [Node -> [Node -> Seq(Msg)]], chan[s][r] # <<>>, Take(s, r)
  PROVE  chan' \in [Node -> [Node -> Seq(Msg)]]
  <1>1. Tail(chan[s][r]) \in Seq(Msg)
    OBVIOUS
  <1>2. QED
    BY <1>1 DEF Take

LEMMA TakeAndAnswerType ==
  ASSUME NEW s \in Node, NEW r \in Node, NEW m \in Msg, s # r,
         chan \in [Node -> [Node -> Seq(Msg)]], chan[s][r] # <<>>, TakeAndAnswer(s, r, m)
  PROVE  chan' \in [Node -> [Node -> Seq(Msg)]]
  <1>1. Tail(chan[s][r]) \in Seq(Msg) /\ Append(chan[r][s], m) \in Seq(Msg)
    OBVIOUS
  <1>2. QED
    BY <1>1 DEF TakeAndAnswer

\* The message that a handler is about to take.
LEMMA HeadType ==
  ASSUME NEW s \in Node, NEW r \in Node, NEW type,
         chan \in [Node -> [Node -> Seq(Msg)]], Ready(s, r, type)
  PROVE  /\ Head_(s, r) \in Msg /\ Head_(s, r).path \in Path
         /\ Head_(s, r).hash \in HashOrNone /\ Head_(s, r).data \in HashOrNone
         /\ chan[s][r] # <<>> /\ s # r
  <1>1. Head(chan[s][r]) \in Msg
    BY DEF Ready
  <1>2. QED
    BY <1>1 DEF Head_, Msg, Ready

\* The constructors of messages.
LEMMA MessageTypes ==
  ASSUME NEW p \in Path, NEW h \in HashOrNone, NEW d \in HashOrNone
  PROVE  /\ Content(p, h, d) \in Msg /\ Applied(p, h) \in Msg
         /\ Rejected(p, h) \in Msg /\ Request(p) \in Msg
  BY DEF Content, Applied, Rejected, Request, Msg, MsgType, HashOrNone

------------------------------------------------------------------------------
(* Types *)

\* The variables of the transport and of history that most steps leave alone.
LEMMA RememberType ==
  ASSUME TypeOK, sync' \in [Node -> SyncRecord], Remember
  PROVE  recorded' \in [Node -> SUBSET (Path \X Hash)]
  BY DEF TypeOK, HistoryTypeOK, Remember

LEMMA SpendType ==
  ASSUME TypeOK, NEW k \in DOMAIN Budget, Spend(k)
  PROVE  used' \in [DOMAIN Budget -> Nat]
  BY DEF TypeOK, TransferTypeOK, Spend

LEMMA BudgetDomain ==
  DOMAIN Budget = {"edit", "send", "force", "drop", "restart", "stop", "fault"}
  BY DEF Budget

\* Changing one entry of a table of tables.
LEMMA EntryType ==
  ASSUME NEW S, NEW f \in [Node -> [Path -> S]], NEW n \in Node, NEW p \in Path, NEW v \in S
  PROVE  [f EXCEPT ![n][p] = v] \in [Node -> [Path -> S]]
  OBVIOUS

LEMMA RaisedType ==
  ASSUME WatcherTypeOK, NEW n \in Node, NEW p \in Path
  PROVE  Raised(n, p) \in [Node -> SUBSET Path]
  BY DEF WatcherTypeOK, Raised

\* The steps of the watcher keep its variables well-typed.
LEMMA UserWritesType ==
  ASSUME WatcherTypeOK, NEW n \in Node, NEW p \in Path, NEW h \in HashOrNone,
         UserWrites(n, p, h)
  PROVE  WatcherTypeOK'
  <1>1. disk' \in [Node -> [Path -> HashOrNone]]
    BY EntryType DEF WatcherTypeOK, UserWrites
  <1>2. events' \in [Node -> SUBSET Path]
    BY RaisedType DEF UserWrites
  <1>3. QED
    BY <1>1, <1>2 DEF WatcherTypeOK, UserWrites

LEMMA BeginReadType ==
  ASSUME WatcherTypeOK, NEW n \in Node, NEW p \in Path, disk[n][p] # None, BeginRead(n, p)
  PROVE  reads' \in [Node -> SUBSET Read]
  <1> DEFINE r == [path |-> p, ignored |-> p \in ignoring[n], hash |-> disk[n][p]]
  <1>1. disk[n][p] \in Hash
    BY DEF WatcherTypeOK, HashOrNone
  <1>2. r \in Read
    BY <1>1 DEF Read
  <1>3. reads' = [reads EXCEPT ![n] = @ \union {r}]
    BY DEF BeginRead
  <1>4. QED
    <2> HIDE DEF r
    <2> QED BY <1>2, <1>3 DEF WatcherTypeOK

LEMMA WatchChangeType ==
  ASSUME WatcherTypeOK, NEW n \in Node, NEW p \in Path, WatchChange(n, p)
  PROVE  WatcherTypeOK'
  <1>1. reads' \in [Node -> SUBSET Read]
    BY BeginReadType DEF WatchChange
  <1>2. QED
    BY <1>1 DEF WatcherTypeOK, WatchChange

LEMMA WatchDeletionType ==
  ASSUME WatcherTypeOK, NEW n \in Node, NEW p \in Path, WatchDeletion(n, p)
  PROVE  WatcherTypeOK'
  <1>1. RemoveFile(sync[n], p) \in SyncRecord
    BY RemoveFileEffect DEF WatcherTypeOK
  <1>2. sync' \in [Node -> SyncRecord]
    BY <1>1 DEF WatcherTypeOK, WatchDeletion
  <1>3. watched' \in [Node -> [Path -> HashOrNone]]
    <2>1. [watched EXCEPT ![n][p] = None] \in [Node -> [Path -> HashOrNone]]
      BY EntryType DEF WatcherTypeOK, HashOrNone
    <2>2. QED
      BY <2>1 DEF WatcherTypeOK, WatchDeletion
  <1>4. QED
    BY <1>2, <1>3 DEF WatcherTypeOK, WatchDeletion

LEMMA FinishReadType ==
  ASSUME WatcherTypeOK, NEW n \in Node, NEW r \in reads[n], FinishRead(n, r)
  PROVE  WatcherTypeOK'
  <1>1. r.path \in Path /\ r.hash \in Hash
    BY DEF WatcherTypeOK, Read
  <1>2. /\ RecordSyncedHash(sync[n], r.path, r.hash) \in SyncRecord
        /\ RecordLocalChange(sync[n], r.path, r.hash) \in SyncRecord
    BY <1>1, RecordSyncedHashEffect, RecordLocalChangeEffect DEF WatcherTypeOK
  <1>3. sync' \in [Node -> SyncRecord]
    BY <1>2 DEF WatcherTypeOK, FinishRead
  <1>4. watched' \in [Node -> [Path -> HashOrNone]]
    <2>1. r.hash \in HashOrNone
      BY <1>1 DEF HashOrNone
    <2>2. watched' = [watched EXCEPT ![n][r.path] = r.hash]
      BY DEF FinishRead
    <2>3. QED
      BY <1>1, <2>1, <2>2, EntryType DEF WatcherTypeOK
  <1>5. QED
    BY <1>3, <1>4 DEF WatcherTypeOK, FinishRead

LEMMA ScanFileType ==
  ASSUME WatcherTypeOK, NEW n \in Node, NEW p \in Path, ScanFile(n, p)
  PROVE  WatcherTypeOK'
  <1>1. reads' \in [Node -> SUBSET Read]
    BY BeginReadType DEF ScanFile, WatcherTypeOK
  <1>2. QED
    BY <1>1 DEF WatcherTypeOK, ScanFile

LEMMA FinishScanType ==
  ASSUME WatcherTypeOK, NEW n \in Node, FinishScan(n)
  PROVE  WatcherTypeOK'
  <1>1. MarkAllSynced(sync[n]) \in SyncRecord
    BY MarkAllSyncedEffect DEF WatcherTypeOK
  <1>2. QED
    BY <1>1 DEF WatcherTypeOK, FinishScan

LEMMA TrackingType ==
  ASSUME WatcherTypeOK, NEW n \in Node,
         StartTracking(n) \/ StopTracking(n)
  PROVE  WatcherTypeOK'
  <1>1. NothingWatched \in [Path -> HashOrNone]
    BY DEF NothingWatched, HashOrNone
  <1>2. CASE StartTracking(n)
    BY <1>1, <1>2 DEF WatcherTypeOK, StartTracking, FreshWatcher, FilesOnDisk
  <1>3. CASE StopTracking(n)
    BY <1>1, <1>3 DEF WatcherTypeOK, StopTracking
  <1>4. QED
    BY <1>2, <1>3

LEMMA RestartWatcherType ==
  ASSUME WatcherTypeOK, NEW n \in Node, RestartWatcher(n)
  PROVE  WatcherTypeOK'
  <1>1. Reloaded(sync[n]) \in SyncRecord
    BY ReloadedEffect DEF WatcherTypeOK
  <1>2. QED
    BY <1>1 DEF WatcherTypeOK, RestartWatcher, FreshWatcher, NothingWatched,
                FilesOnDisk, HashOrNone

LEMMA ResetPendingType ==
  ASSUME WatcherTypeOK, NEW n \in Node, ResetPending(n)
  PROVE  WatcherTypeOK'
  <1>1. ClearPending(sync[n], Path) \in SyncRecord
    BY ClearPendingEffect DEF WatcherTypeOK
  <1>2. QED
    BY <1>1 DEF WatcherTypeOK, ResetPending

\* Some step of the watcher of node n, and what it does to the tables.
LEMMA WatchType ==
  ASSUME WatcherTypeOK, NEW n \in Node, Watch(n)
  PROVE  WatcherTypeOK'
  BY WatchChangeType, WatchDeletionType, FinishReadType, FinishScanType, TrackingType
     DEF Watch

LEMMA SameWatcher ==
  ASSUME WatcherTypeOK, UNCHANGED watcherVars
  PROVE  WatcherTypeOK'
  BY DEF WatcherTypeOK, watcherVars

\* Steps of the watcher, the users and mesh_track.
LEMMA SaveType ==
  ASSUME TypeOK, NEW n \in Node, NEW p \in Path, NEW h \in HashOrNone, Save(n, p, h)
  PROVE  TypeOK'
  <1>1. WatcherTypeOK'
    BY UserWritesType DEF TypeOK, Save
  <1>2. used' \in [DOMAIN Budget -> Nat]
    BY SpendType, BudgetDomain DEF Save
  <1>3. own' \in [Node -> SUBSET (Path \X Hash)]
    BY DEF Save, TypeOK, HistoryTypeOK, HashOrNone
  <1>4. TransferTypeOK'
    BY <1>2 DEF TypeOK, TransferTypeOK, Save, transferVars
  <1>5. HistoryTypeOK'
    BY <1>1, <1>3, RememberType DEF TypeOK, WatcherTypeOK, HistoryTypeOK, Save
  <1>6. QED
    BY <1>1, <1>4, <1>5 DEF TypeOK

LEMMA ScanType ==
  ASSUME TypeOK, NEW n \in Node, NEW p \in Path, Scan(n, p)
  PROVE  TypeOK'
  <1>1. WatcherTypeOK'
    BY ScanFileType DEF TypeOK, Scan
  <1>2. disk[n][p] \in HashOrNone
    BY DEF TypeOK, WatcherTypeOK
  <1>3. own' \in [Node -> SUBSET (Path \X Hash)]
    BY <1>2 DEF Scan, TypeOK, HistoryTypeOK, HashOrNone
  <1>4. TransferTypeOK'
    BY DEF TypeOK, TransferTypeOK, Scan, transferVars
  <1>5. HistoryTypeOK'
    BY <1>1, <1>3, RememberType DEF TypeOK, WatcherTypeOK, HistoryTypeOK, Scan
  <1>6. QED
    BY <1>1, <1>4, <1>5 DEF TypeOK

LEMMA WatchTypeOK ==
  ASSUME TypeOK, NEW n \in Node, Watch(n)
  PROVE  TypeOK'
  <1>1. WatcherTypeOK'
    BY WatchType DEF TypeOK
  <1>2. TransferTypeOK'
    BY DEF TypeOK, TransferTypeOK, Watch, transferVars
  <1>3. HistoryTypeOK'
    BY <1>1, RememberType DEF TypeOK, WatcherTypeOK, HistoryTypeOK, Watch
  <1>4. QED
    BY <1>1, <1>2, <1>3 DEF TypeOK

LEMMA StopType ==
  ASSUME TypeOK, NEW n \in Node, Stop(n)
  PROVE  TypeOK'
  <1>1. WatcherTypeOK'
    BY TrackingType DEF TypeOK, Stop
  <1>2. used' \in [DOMAIN Budget -> Nat]
    BY SpendType, BudgetDomain DEF Stop
  <1>3. TransferTypeOK'
    BY <1>2 DEF TypeOK, TransferTypeOK, Stop, transferVars
  <1>4. HistoryTypeOK'
    BY <1>1, RememberType DEF TypeOK, WatcherTypeOK, HistoryTypeOK, Stop
  <1>5. QED
    BY <1>1, <1>3, <1>4 DEF TypeOK

LEMMA CloseWindowType ==
  ASSUME TypeOK, NEW n \in Node, NEW p \in Path, CloseWindow(n, p)
  PROVE  TypeOK'
  <1>1. WatcherTypeOK'
    BY DEF TypeOK, WatcherTypeOK, CloseWindow
  <1>2. TransferTypeOK'
    BY DEF TypeOK, TransferTypeOK, CloseWindow, transferVars
  <1>3. HistoryTypeOK'
    BY <1>1, RememberType DEF TypeOK, WatcherTypeOK, HistoryTypeOK, CloseWindow
  <1>4. QED
    BY <1>1, <1>2, <1>3 DEF TypeOK

LEMMA ResetStalePendingType ==
  ASSUME TypeOK, NEW n \in Node, ResetStalePending(n)
  PROVE  TypeOK'
  <1>1. WatcherTypeOK'
    BY ResetPendingType DEF TypeOK, ResetStalePending
  <1>2. TransferTypeOK'
    BY DEF TypeOK, TransferTypeOK, ResetStalePending, transferVars
  <1>3. HistoryTypeOK'
    BY <1>1, RememberType
       DEF TypeOK, WatcherTypeOK, HistoryTypeOK, ResetStalePending, PendingPaths
  <1>4. QED
    BY <1>1, <1>2, <1>3 DEF TypeOK

\* mesh_sync and mesh_broadcast.
LEMMA ServedData ==
  ASSUME WatcherTypeOK, NEW n \in Node, NEW p \in Path, CanServe(n, p)
  PROVE  disk[n][p] \in Hash
  BY DEF WatcherTypeOK, CanServe, HashOrNone

LEMMA ReadForToolType ==
  ASSUME TypeOK, NEW n \in Node, NEW p \in Path, NEW to \in SUBSET Node,
         Spend("send"), ReadForTool(n, p, to)
  PROVE  TypeOK'
  <1>1. WatcherTypeOK'
    BY SameWatcher DEF TypeOK, ReadForTool
  <1>2. tool' \in [Node -> Tool \union {NoTool}]
    <2> DEFINE t == [to |-> to, path |-> p, data |-> disk[n][p]]
    <2>1. t \in Tool
      BY ServedData DEF TypeOK, ReadForTool, Tool
    <2>2. tool' = [tool EXCEPT ![n] = t]
      BY DEF ReadForTool
    <2>3. QED
      <3> HIDE DEF t
      <3> QED BY <2>1, <2>2 DEF TypeOK, TransferTypeOK
  <1>3. used' \in [DOMAIN Budget -> Nat]
    BY SpendType, BudgetDomain
  <1>4. TransferTypeOK'
    BY <1>2, <1>3 DEF TypeOK, TransferTypeOK, ReadForTool
  <1>5. HistoryTypeOK'
    BY <1>1, RememberType DEF TypeOK, WatcherTypeOK, HistoryTypeOK, ReadForTool
  <1>6. QED
    BY <1>1, <1>4, <1>5 DEF TypeOK

\* Tables of [path, hash] entries.
LEMMA PutType ==
  ASSUME NEW S \in SUBSET Sent, NEW p \in Path, NEW h \in HashOrNone
  PROVE  /\ Without(S, p) \in SUBSET Sent /\ Put(S, p, h) \in SUBSET Sent
         /\ Without(S, p) \subseteq S
  BY DEF Without, Put, Sent

\* The content that a tool has read is a file's.
LEMMA ToolContent ==
  ASSUME TypeOK, NEW n \in Node, tool[n] # NoTool
  PROVE  /\ tool[n].to \in SUBSET Node /\ tool[n].path \in Path /\ tool[n].data \in Hash
         /\ GetLocalHash(sync[n], tool[n].path) \in HashOrNone
  <1>1. tool[n] \in Tool
    BY DEF TypeOK, TransferTypeOK
  <1>2. tool[n].to \in SUBSET Node /\ tool[n].path \in Path /\ tool[n].data \in Hash
    BY <1>1 DEF Tool
  <1>3. QED
    BY <1>2, GetLocalHashType DEF TypeOK, WatcherTypeOK

LEMMA SendFileContentType ==
  ASSUME TypeOK, NEW n \in Node, SendFileContent(n)
  PROVE  TypeOK'
  <1> DEFINE to == tool[n].to
             p == tool[n].path
             h == GetLocalHash(sync[n], p)
             m == Content(p, h, tool[n].data)
  <1>1. /\ to \in SUBSET Node /\ p \in Path /\ h \in HashOrNone
        /\ tool[n].data \in HashOrNone
    BY ToolContent DEF SendFileContent, HashOrNone
  <1>2. m \in Msg
    BY <1>1, MessageTypes
  <1>3. chan' \in [Node -> [Node -> Seq(Msg)]]
    <2>1. chan' = [chan EXCEPT ![n] = [q \in Node |->
                      IF q \in to THEN Append(chan[n][q], m) ELSE chan[n][q]]]
      BY Zenon DEF SendFileContent
    <2>2. QED
      <3> HIDE DEF m, to
      <3>1. [q \in Node |-> IF q \in to THEN Append(chan[n][q], m) ELSE chan[n][q]]
               \in [Node -> Seq(Msg)]
        BY <1>2 DEF TypeOK, TransferTypeOK
      <3>2. QED BY <2>1, <3>1 DEF TypeOK, TransferTypeOK
  <1>4. inFlight' \in [Node -> [Node -> SUBSET Sent]]
    <2>1. inFlight' = [inFlight EXCEPT ![n] = [q \in Node |->
                      IF q \in to THEN Put(inFlight[n][q], p, h) ELSE inFlight[n][q]]]
      BY Zenon DEF SendFileContent
    <2>2. \A q \in Node : Put(inFlight[n][q], p, h) \in SUBSET Sent
      <3> HIDE DEF p, h
      <3>1. \A q \in Node : inFlight[n][q] \in SUBSET Sent
        BY DEF TypeOK, TransferTypeOK
      <3>2. QED BY <1>1, <3>1, PutType
    <2>3. QED
      <3> HIDE DEF p, h, to
      <3>1. [q \in Node |-> IF q \in to THEN Put(inFlight[n][q], p, h) ELSE inFlight[n][q]]
               \in [Node -> SUBSET Sent]
        BY <2>2 DEF TypeOK, TransferTypeOK
      <3>2. QED BY <2>1, <3>1 DEF TypeOK, TransferTypeOK
  <1>5. tool' \in [Node -> Tool \union {NoTool}]
    BY DEF TypeOK, TransferTypeOK, SendFileContent
  <1>6. waived' \in [Node -> SUBSET Path]
    <2>1. waived' = [waived EXCEPT ![n] = IF h = None THEN @ \union {p} ELSE @]
      BY Zenon DEF SendFileContent, WaiveIfUnhashed
    <2>2. QED
      <3> HIDE DEF p, h, to
      <3> QED BY <1>1, <2>1 DEF TypeOK, HistoryTypeOK
  <1>7. UNCHANGED <<watcherVars, job, confirmations, rejections, used, recorded, own>>
    BY Zenon DEF SendFileContent
  <1>8. WatcherTypeOK'
    BY <1>7, SameWatcher DEF TypeOK
  <1>9. TransferTypeOK' /\ HistoryTypeOK'
    BY <1>3, <1>4, <1>5, <1>6, <1>7 DEF TypeOK, TransferTypeOK, HistoryTypeOK
  <1>10. QED
    BY <1>8, <1>9 DEF TypeOK

LEMMA PullType ==
  ASSUME TypeOK, NEW n \in Node, NEW q \in Node, NEW p \in Path, Pull(n, q, p)
  PROVE  TypeOK'
  <1>1. WatcherTypeOK'
    BY SameWatcher DEF TypeOK, Pull
  <1>2. used' \in [DOMAIN Budget -> Nat]
    BY SpendType, BudgetDomain DEF Pull
  <1>3. chan' \in [Node -> [Node -> Seq(Msg)]]
    BY SendType, MessageTypes DEF Pull, TypeOK, TransferTypeOK, HashOrNone
  <1>4. TransferTypeOK'
    BY <1>2, <1>3 DEF TypeOK, TransferTypeOK, Pull
  <1>5. HistoryTypeOK'
    BY <1>1, RememberType DEF TypeOK, WatcherTypeOK, HistoryTypeOK, Pull
  <1>6. QED
    BY <1>1, <1>4, <1>5 DEF TypeOK

LEMMA ForcePullType ==
  ASSUME TypeOK, NEW n \in Node, NEW q \in Node, NEW p \in Path, ForcePull(n, q, p)
  PROVE  TypeOK'
  <1>1. WatcherTypeOK'
    BY ForceAllowEffect DEF TypeOK, WatcherTypeOK, ForcePull
  <1>2. used' \in [DOMAIN Budget -> Nat]
    BY SpendType, BudgetDomain DEF ForcePull
  <1>3. chan' \in [Node -> [Node -> Seq(Msg)]]
    BY SendType, MessageTypes DEF ForcePull, TypeOK, TransferTypeOK, HashOrNone
  <1>4. TransferTypeOK'
    BY <1>2, <1>3 DEF TypeOK, TransferTypeOK, ForcePull
  <1>5. HistoryTypeOK'
    BY <1>1, RememberType DEF TypeOK, WatcherTypeOK, HistoryTypeOK, ForcePull
  <1>6. QED
    BY <1>1, <1>4, <1>5 DEF TypeOK

\* The handlers of file messages.  A handler that only takes messages and
\* answers leaves everything but the channels and its job alone.
LEMMA JobParts ==
  ASSUME TypeOK, NEW r \in Node, NEW s \in Node, job[r][s].op \in {"serve", "write", "record"}
  PROVE  /\ job[r][s].path \in Path /\ job[r][s].hash \in HashOrNone
         /\ job[r][s].data \in HashOrNone /\ job[r][s] \in Job
  <1>1. job[r][s] \in Job \union {Idle}
    BY DEF TypeOK, TransferTypeOK
  <1>2. job[r][s] # Idle
    BY DEF Idle
  <1>3. QED
    BY <1>1, <1>2 DEF Job

LEMMA FinishType ==
  ASSUME TypeOK, NEW r \in Node, NEW s \in Node, Finish(r, s)
  PROVE  job' \in [Node -> [Node -> Job \union {Idle}]]
  BY DEF TypeOK, TransferTypeOK, Finish

LEMMA BecomeType ==
  ASSUME TypeOK, NEW r \in Node, NEW s \in Node, NEW op \in {"serve", "write", "record"},
         NEW p \in Path, NEW h \in HashOrNone, NEW d \in HashOrNone, Become(r, s, op, p, h, d)
  PROVE  job' \in [Node -> [Node -> Job \union {Idle}]]
  <1> DEFINE j == [op |-> op, path |-> p, hash |-> h, data |-> d]
  <1>1. j \in Job
    BY DEF Job
  <1>2. job' = [job EXCEPT ![r][s] = j]
    BY DEF Become
  <1>3. QED
    <2> HIDE DEF j
    <2> QED BY <1>1, <1>2 DEF TypeOK, TransferTypeOK

LEMMA ServeRequestType ==
  ASSUME TypeOK, NEW r \in Node, NEW s \in Node, ServeRequest(r, s)
  PROVE  TypeOK'
  <1> DEFINE p == Head_(s, r).path
  <1>1. WatcherTypeOK'
    BY SameWatcher DEF TypeOK, ServeRequest
  <1>2. p \in Path /\ chan[s][r] # <<>>
    BY HeadType DEF ServeRequest, TypeOK, TransferTypeOK
  <1>3. chan' \in [Node -> [Node -> Seq(Msg)]]
    BY <1>2, TakeType DEF ServeRequest, TypeOK, TransferTypeOK
  <1>4. job' \in [Node -> [Node -> Job \union {Idle}]]
    <2>1. CASE CanServe(r, p)
      <3>1. disk[r][p] \in HashOrNone /\ None \in HashOrNone
        BY <1>2 DEF TypeOK, WatcherTypeOK, HashOrNone
      <3>2. Become(r, s, "serve", p, None, disk[r][p])
        BY <2>1 DEF ServeRequest
      <3>3. QED BY <1>2, <3>1, <3>2, BecomeType
    <2>2. CASE ~CanServe(r, p)
      BY <2>2 DEF ServeRequest, TypeOK, TransferTypeOK
    <2>3. QED BY <2>1, <2>2
  <1>5. TransferTypeOK'
    BY <1>3, <1>4 DEF TypeOK, TransferTypeOK, ServeRequest
  <1>6. HistoryTypeOK'
    BY <1>1, RememberType DEF TypeOK, WatcherTypeOK, HistoryTypeOK, ServeRequest
  <1>7. QED
    BY <1>1, <1>5, <1>6 DEF TypeOK

LEMMA SendServedType ==
  ASSUME TypeOK, NEW r \in Node, NEW s \in Node, SendServed(r, s)
  PROVE  TypeOK'
  <1> DEFINE p == job[r][s].path
             h == GetLocalHash(sync[r], p)
  <1>1. WatcherTypeOK'
    BY SameWatcher DEF TypeOK, SendServed
  <1>2. p \in Path /\ job[r][s].data \in HashOrNone
    BY JobParts DEF SendServed
  <1>3. h \in HashOrNone
    BY <1>2, GetLocalHashType DEF TypeOK, WatcherTypeOK
  <1>4. chan' \in [Node -> [Node -> Seq(Msg)]]
    BY <1>2, <1>3, SendType, MessageTypes DEF SendServed, TypeOK, TransferTypeOK
  <1>5. job' \in [Node -> [Node -> Job \union {Idle}]]
    BY FinishType DEF SendServed
  <1>6. waived' \in [Node -> SUBSET Path]
    BY <1>2 DEF SendServed, WaiveIfUnhashed, TypeOK, HistoryTypeOK
  <1>7. TransferTypeOK'
    BY <1>4, <1>5 DEF TypeOK, TransferTypeOK, SendServed
  <1>8. HistoryTypeOK'
    BY <1>1, <1>6, RememberType DEF TypeOK, WatcherTypeOK, HistoryTypeOK, SendServed
  <1>9. QED
    BY <1>1, <1>7, <1>8 DEF TypeOK

LEMMA RejectConflictType ==
  ASSUME TypeOK, NEW r \in Node, NEW s \in Node, RejectConflict(r, s)
  PROVE  TypeOK'
  <1>1. WatcherTypeOK'
    BY SameWatcher DEF TypeOK, RejectConflict
  <1>2. chan' \in [Node -> [Node -> Seq(Msg)]]
    BY HeadType, MessageTypes, TakeAndAnswerType DEF RejectConflict, TypeOK, TransferTypeOK
  <1>3. TransferTypeOK'
    BY <1>2 DEF TypeOK, TransferTypeOK, RejectConflict
  <1>4. HistoryTypeOK'
    BY <1>1, RememberType DEF TypeOK, WatcherTypeOK, HistoryTypeOK, RejectConflict
  <1>5. QED
    BY <1>1, <1>3, <1>4 DEF TypeOK

LEMMA AcceptContentType ==
  ASSUME TypeOK, NEW r \in Node, NEW s \in Node, AcceptContent(r, s)
  PROVE  TypeOK'
  <1> DEFINE m == Head_(s, r)
  <1>1. m.path \in Path /\ m.hash \in HashOrNone /\ m.data \in HashOrNone
        /\ chan[s][r] # <<>> /\ s # r
    BY HeadType DEF AcceptContent, TypeOK, TransferTypeOK
  <1>2. WatcherTypeOK'
    <2>1. sync' \in [Node -> SyncRecord]
      <3>1. DropForceAllow(sync[r], m.path) \in SyncRecord
        BY <1>1, ForceAllowEffect DEF TypeOK, WatcherTypeOK
      <3>2. sync' = sync \/ sync' = [sync EXCEPT ![r] = DropForceAllow(sync[r], m.path)]
        BY Zenon DEF AcceptContent
      <3>3. QED
        <4> HIDE DEF m
        <4> QED BY <3>1, <3>2 DEF TypeOK, WatcherTypeOK
    <2>2. ignoring' \in [Node -> SUBSET Path]
      BY <1>1 DEF AcceptContent, OpenWindow, TypeOK, WatcherTypeOK
    <2>3. QED
      BY <2>1, <2>2 DEF AcceptContent, TypeOK, WatcherTypeOK
  <1>3. chan' \in [Node -> [Node -> Seq(Msg)]]
    BY <1>1, MessageTypes, TakeType, TakeAndAnswerType
       DEF AcceptContent, TypeOK, TransferTypeOK
  <1>4. job' \in [Node -> [Node -> Job \union {Idle}]]
    BY <1>1, BecomeType DEF AcceptContent, TypeOK, TransferTypeOK
  <1>5. TransferTypeOK'
    BY <1>3, <1>4 DEF TypeOK, TransferTypeOK, AcceptContent
  <1>6. HistoryTypeOK'
    BY <1>2, RememberType DEF TypeOK, WatcherTypeOK, HistoryTypeOK, AcceptContent
  <1>7. QED
    BY <1>2, <1>5, <1>6 DEF TypeOK

LEMMA WriteFileType ==
  ASSUME TypeOK, NEW r \in Node, NEW s \in Node, WriteFile(r, s)
  PROVE  TypeOK'
  <1> DEFINE j == job[r][s]
  <1>1. j.path \in Path /\ j.hash \in HashOrNone /\ j.data \in HashOrNone /\ j \in Job
    BY JobParts DEF WriteFile
  <1>2. WatcherTypeOK'
    <2>1. disk' \in [Node -> [Path -> HashOrNone]]
      <3>1. disk' = [disk EXCEPT ![r][j.path] = j.data]
        BY DEF WriteFile
      <3>2. QED
        <4> HIDE DEF j
        <4> QED BY <1>1, <3>1, EntryType DEF TypeOK, WatcherTypeOK
    <2>2. events' \in [Node -> SUBSET Path]
      BY <1>1, RaisedType DEF WriteFile, TypeOK
    <2>3. QED
      BY <2>1, <2>2 DEF WriteFile, TypeOK, WatcherTypeOK
  <1>3. job' \in [Node -> [Node -> Job \union {Idle}]]
    <2>1. [j EXCEPT !.op = "record"] \in Job
      BY <1>1 DEF Job
    <2>2. job' = [job EXCEPT ![r][s] = [j EXCEPT !.op = "record"]]
      BY DEF WriteFile, TypeOK, TransferTypeOK
    <2>3. QED
      <3> HIDE DEF j
      <3> QED BY <2>1, <2>2 DEF TypeOK, TransferTypeOK
  <1>4. TransferTypeOK'
    BY <1>3 DEF TypeOK, TransferTypeOK, WriteFile
  <1>5. HistoryTypeOK'
    BY <1>2, RememberType DEF TypeOK, WatcherTypeOK, HistoryTypeOK, WriteFile
  <1>6. QED
    BY <1>2, <1>4, <1>5 DEF TypeOK

LEMMA FailWriteType ==
  ASSUME TypeOK, NEW r \in Node, NEW s \in Node, FailWrite(r, s)
  PROVE  TypeOK'
  <1>1. WatcherTypeOK'
    BY SameWatcher DEF TypeOK, FailWrite
  <1>2. job[r][s].path \in Path /\ job[r][s].hash \in HashOrNone
    BY JobParts DEF FailWrite
  <1>3. chan' \in [Node -> [Node -> Seq(Msg)]]
    <2>1. Rejected(job[r][s].path, job[r][s].hash) \in Msg
      BY <1>2, MessageTypes
    <2>2. QED BY <2>1, SendType DEF FailWrite, TypeOK, TransferTypeOK
  <1>4. job' \in [Node -> [Node -> Job \union {Idle}]]
    BY FinishType DEF FailWrite
  <1>5. used' \in [DOMAIN Budget -> Nat]
    BY SpendType, BudgetDomain DEF FailWrite
  <1>6. TransferTypeOK'
    BY <1>3, <1>4, <1>5 DEF TypeOK, TransferTypeOK, FailWrite
  <1>7. HistoryTypeOK'
    BY <1>1, RememberType DEF TypeOK, WatcherTypeOK, HistoryTypeOK, FailWrite
  <1>8. QED
    BY <1>1, <1>6, <1>7 DEF TypeOK

LEMMA RecordContentType ==
  ASSUME TypeOK, NEW r \in Node, NEW s \in Node, RecordContent(r, s)
  PROVE  TypeOK'
  <1>1. job[r][s].path \in Path /\ job[r][s].hash \in HashOrNone
    BY JobParts DEF RecordContent
  <1>2. WatcherTypeOK'
    <2>1. RecordRemoteChange(sync[r], job[r][s].path, job[r][s].hash) \in SyncRecord
      BY <1>1, RecordRemoteChangeEffect DEF TypeOK, WatcherTypeOK
    <2>2. sync' \in [Node -> SyncRecord]
      BY <2>1 DEF RecordContent, TypeOK, WatcherTypeOK
    <2>3. QED
      BY <2>2 DEF RecordContent, TypeOK, WatcherTypeOK
  <1>3. chan' \in [Node -> [Node -> Seq(Msg)]]
    <2>1. Applied(job[r][s].path, job[r][s].hash) \in Msg
      BY <1>1, MessageTypes
    <2>2. QED BY <2>1, SendType DEF RecordContent, TypeOK, TransferTypeOK
  <1>4. job' \in [Node -> [Node -> Job \union {Idle}]]
    BY FinishType DEF RecordContent
  <1>5. TransferTypeOK'
    BY <1>3, <1>4 DEF TypeOK, TransferTypeOK, RecordContent
  <1>6. HistoryTypeOK'
    BY <1>2, RememberType DEF TypeOK, WatcherTypeOK, HistoryTypeOK, RecordContent
  <1>7. QED
    BY <1>2, <1>5, <1>6 DEF TypeOK

\* Changing one entry of a table of tables indexed by two nodes.
LEMMA CellType ==
  ASSUME NEW S, NEW g \in [Node -> [Node -> S]], NEW n \in Node, NEW q \in Node, NEW v \in S
  PROVE  [g EXCEPT ![n][q] = v] \in [Node -> [Node -> S]]
  OBVIOUS

LEMMA HandleAppliedType ==
  ASSUME TypeOK, NEW r \in Node, NEW s \in Node, HandleApplied(r, s)
  PROVE  TypeOK'
  <1> DEFINE m == Head_(s, r)
             p == m.path
             h == SettledHash(r, s, m)
  <1>1. p \in Path /\ m.hash \in HashOrNone /\ chan[s][r] # <<>>
    BY HeadType DEF HandleApplied, TypeOK, TransferTypeOK
  <1>2. WatcherTypeOK'
    <2>1. sync' = sync \/
          /\ h # None /\ h = GetLocalHash(sync[r], p)
          /\ sync' = [sync EXCEPT ![r] = ClearPending(RecordSyncedHash(sync[r], p, h), {p})]
      BY Zenon DEF HandleApplied
    <2>2. (h # None /\ h = GetLocalHash(sync[r], p)) => h \in Hash
      BY <1>1, GetLocalHashType DEF TypeOK, WatcherTypeOK
    <2>3. h \in Hash => ClearPending(RecordSyncedHash(sync[r], p, h), {p}) \in SyncRecord
      <3>1. sync[r] \in SyncRecord /\ {p} \in SUBSET Path
        BY <1>1 DEF TypeOK, WatcherTypeOK
      <3>2. h \in Hash => RecordSyncedHash(sync[r], p, h) \in SyncRecord
        <4> HIDE DEF p, h
        <4> QED BY <1>1, <3>1, RecordSyncedHashEffect
      <3>3. QED
        <4> HIDE DEF p, h
        <4> QED BY <3>1, <3>2, ClearPendingEffect
    <2>4. sync' \in [Node -> SyncRecord]
      <3> HIDE DEF p, h
      <3> QED BY <2>1, <2>2, <2>3 DEF TypeOK, WatcherTypeOK
    <2>5. QED
      BY <2>4 DEF HandleApplied, TypeOK, WatcherTypeOK
  <1>3. chan' \in [Node -> [Node -> Seq(Msg)]]
    BY <1>1, TakeType DEF HandleApplied, TypeOK, TransferTypeOK
  <1>4. confirmations' \in [Node -> [Node -> SUBSET Sent]]
    <2>1. Put(confirmations[r][s], p, m.hash) \in SUBSET Sent
      <3>1. confirmations[r][s] \in SUBSET Sent
        BY DEF TypeOK, TransferTypeOK
      <3>2. QED
        <4> HIDE DEF p, m
        <4> QED BY <1>1, <3>1, PutType
    <2>2. confirmations' = [confirmations EXCEPT ![r][s] = Put(confirmations[r][s], p, m.hash)]
      BY DEF HandleApplied, TypeOK, TransferTypeOK
    <2>3. QED
      BY <2>1, <2>2, CellType DEF TypeOK, TransferTypeOK
  <1>5. inFlight' \in [Node -> [Node -> SUBSET Sent]]
    <2>1. Without(inFlight[r][s], p) \in SUBSET Sent
      <3>1. inFlight[r][s] \in SUBSET Sent
        BY DEF TypeOK, TransferTypeOK
      <3>2. QED
        <4> HIDE DEF p, m
        <4> QED BY <1>1, <3>1, PutType
    <2>2. [inFlight[r] EXCEPT ![s] = Without(inFlight[r][s], p)] \in [Node -> SUBSET Sent]
      <3> HIDE DEF p
      <3> QED BY <2>1 DEF TypeOK, TransferTypeOK
    <2>3. \/ inFlight' = [inFlight EXCEPT ![r] = inFlight[r]]
          \/ inFlight' = [inFlight EXCEPT ![r] =
                 [inFlight[r] EXCEPT ![s] = Without(inFlight[r][s], p)]]
      BY Zenon DEF HandleApplied
    <2>4. QED
      <3> HIDE DEF p
      <3> QED BY <2>2, <2>3 DEF TypeOK, TransferTypeOK
  <1>6. TransferTypeOK'
    BY <1>3, <1>4, <1>5 DEF TypeOK, TransferTypeOK, HandleApplied
  <1>7. HistoryTypeOK'
    BY <1>2, RememberType DEF TypeOK, WatcherTypeOK, HistoryTypeOK, HandleApplied
  <1>8. QED
    BY <1>2, <1>6, <1>7 DEF TypeOK

LEMMA HandleRejectedType ==
  ASSUME TypeOK, NEW r \in Node, NEW s \in Node, HandleRejected(r, s)
  PROVE  TypeOK'
  <1> DEFINE m == Head_(s, r)
  <1>1. m.path \in Path /\ m.hash \in HashOrNone /\ chan[s][r] # <<>>
    BY HeadType DEF HandleRejected, TypeOK, TransferTypeOK
  <1>2. WatcherTypeOK'
    BY SameWatcher DEF HandleRejected, TypeOK
  <1>3. chan' \in [Node -> [Node -> Seq(Msg)]]
    BY <1>1, TakeType DEF HandleRejected, TypeOK, TransferTypeOK
  <1>4. rejections' \in [Node -> [Node -> SUBSET Sent]]
    <2>1. Put(rejections[r][s], m.path, m.hash) \in SUBSET Sent
      <3>1. rejections[r][s] \in SUBSET Sent
        BY DEF TypeOK, TransferTypeOK
      <3>2. QED
        <4> HIDE DEF m
        <4> QED BY <1>1, <3>1, PutType
    <2>2. rejections' = [rejections EXCEPT ![r][s] = Put(rejections[r][s], m.path, m.hash)]
      BY DEF HandleRejected, TypeOK, TransferTypeOK
    <2>3. QED
      BY <2>1, <2>2, CellType DEF TypeOK, TransferTypeOK
  <1>5. inFlight' \in [Node -> [Node -> SUBSET Sent]]
    <2>1. Without(inFlight[r][s], m.path) \in SUBSET Sent
      <3>1. inFlight[r][s] \in SUBSET Sent
        BY DEF TypeOK, TransferTypeOK
      <3>2. QED
        <4> HIDE DEF m
        <4> QED BY <1>1, <3>1, PutType
    <2>2. inFlight' = [inFlight EXCEPT ![r][s] = Without(inFlight[r][s], m.path)]
      BY DEF HandleRejected, TypeOK, TransferTypeOK
    <2>3. QED
      BY <2>1, <2>2, CellType DEF TypeOK, TransferTypeOK
  <1>6. TransferTypeOK'
    BY <1>3, <1>4, <1>5 DEF TypeOK, TransferTypeOK, HandleRejected
  <1>7. HistoryTypeOK'
    BY <1>2, RememberType DEF TypeOK, WatcherTypeOK, HistoryTypeOK, HandleRejected
  <1>8. QED
    BY <1>2, <1>6, <1>7 DEF TypeOK

\* Lost connections and restarts.
LEMMA LoseConnectionType ==
  ASSUME TypeOK, NEW n \in Node, NEW q \in Node, LoseConnection(n, q)
  PROVE  TypeOK'
  <1>1. WatcherTypeOK'
    BY SameWatcher DEF LoseConnection, TypeOK
  <1>2. chan' \in [Node -> [Node -> Seq(Msg)]]
    <2>1. PICK i \in 0..Len(chan[n][q]), j \in 0..Len(chan[q][n]) :
             chan' = [chan EXCEPT ![n][q] = SubSeq(@, 1, i), ![q][n] = SubSeq(@, 1, j)]
      BY DEF LoseConnection
    <2>2. n # q /\ chan[n][q] \in Seq(Msg) /\ chan[q][n] \in Seq(Msg)
      BY DEF LoseConnection, TypeOK, TransferTypeOK
    <2>3. SubSeq(chan[n][q], 1, i) \in Seq(Msg) /\ SubSeq(chan[q][n], 1, j) \in Seq(Msg)
      BY <2>2
    <2>4. chan' = [[chan EXCEPT ![n][q] = SubSeq(chan[n][q], 1, i)]
                        EXCEPT ![q][n] = SubSeq(chan[q][n], 1, j)]
      BY <2>1, <2>2 DEF TypeOK, TransferTypeOK
    <2>5. [chan EXCEPT ![n][q] = SubSeq(chan[n][q], 1, i)] \in [Node -> [Node -> Seq(Msg)]]
      BY <2>3 DEF TypeOK, TransferTypeOK
    <2>6. QED
      BY <2>3, <2>4, <2>5, Zenon, CellType
  <1>3. used' \in [DOMAIN Budget -> Nat]
    BY SpendType, BudgetDomain DEF LoseConnection
  <1>4. TransferTypeOK'
    BY <1>2, <1>3 DEF TypeOK, TransferTypeOK, LoseConnection
  <1>5. HistoryTypeOK'
    BY <1>1, RememberType DEF TypeOK, WatcherTypeOK, HistoryTypeOK, LoseConnection
  <1>6. QED
    BY <1>1, <1>4, <1>5 DEF TypeOK

LEMMA RestartType ==
  ASSUME TypeOK, NEW n \in Node, Restart(n)
  PROVE  TypeOK'
  <1>1. WatcherTypeOK'
    BY RestartWatcherType DEF TypeOK, Restart
  <1>2. chan' \in [Node -> [Node -> Seq(Msg)]]
    BY DEF Restart, TypeOK, TransferTypeOK
  <1>3. used' \in [DOMAIN Budget -> Nat]
    BY SpendType, BudgetDomain DEF Restart
  <1>4. TransferTypeOK'
    BY <1>2, <1>3 DEF TypeOK, TransferTypeOK, Restart
  <1>5. HistoryTypeOK'
    BY DEF TypeOK, HistoryTypeOK, Restart
  <1>6. QED
    BY <1>1, <1>4, <1>5 DEF TypeOK

LEMMA InitType == Init => TypeOK
  <1> SUFFICES ASSUME Init PROVE TypeOK
    OBVIOUS
  <1>1. WatcherTypeOK
    BY EmptySyncType, FileSyncAssumption
       DEF Init, WatcherTypeOK, NothingWatched, FilesOnDisk, HashOrNone
  <1>2. used \in [DOMAIN Budget -> Nat]
    BY DEF Init
  <1>3. TransferTypeOK
    BY <1>2 DEF Init, TransferTypeOK
  <1>4. HistoryTypeOK
    BY DEF Init, HistoryTypeOK
  <1>5. QED
    BY <1>1, <1>3, <1>4 DEF TypeOK

LEMMA SameType ==
  ASSUME TypeOK, UNCHANGED vars
  PROVE  TypeOK'
  BY SameWatcher DEF TypeOK, TransferTypeOK, HistoryTypeOK, vars, transferVars, historyVars

LEMMA NextType == TypeOK /\ [Next]_vars => TypeOK'
  <1> SUFFICES ASSUME TypeOK, [Next]_vars PROVE TypeOK'
    OBVIOUS
  <1>1. CASE UNCHANGED vars
    BY <1>1, SameType
  <1>2. CASE UserStep
    <2>1. ASSUME NEW n \in Editors, NEW p \in Path, NEW h \in HashOrNone, Save(n, p, h)
          PROVE  TypeOK'
      BY <2>1, SaveType, FileSyncAssumption
    <2>2. ASSUME NEW n \in Senders, NEW p \in Path, Broadcast(n, p)
          PROVE  TypeOK'
      <3>1. Peers(n) \in SUBSET Node /\ n \in Node
        BY FileSyncAssumption DEF Peers
      <3>2. QED
        BY <2>2, <3>1, ReadForToolType DEF Broadcast
    <2>3. ASSUME NEW n \in Senders, NEW q \in Node, NEW p \in Path, Push(n, q, p)
          PROVE  TypeOK'
      <3>1. {q} \in SUBSET Node /\ n \in Node
        BY FileSyncAssumption
      <3>2. QED
        BY <2>3, <3>1, ReadForToolType DEF Push
    <2>4. ASSUME NEW n \in Senders, NEW q \in Node, NEW p \in Path,
                 Pull(n, q, p) \/ ForcePull(n, q, p)
          PROVE  TypeOK'
      BY <2>4, PullType, ForcePullType, FileSyncAssumption
    <2>5. ASSUME NEW n \in Node, Stop(n) \/ ResetStalePending(n)
          PROVE  TypeOK'
      BY <2>5, StopType, ResetStalePendingType
    <2>6. QED
      BY <1>2, <2>1, <2>2, <2>3, <2>4, <2>5 DEF UserStep
  <1>3. ASSUME NEW n \in Node, NodeStep(n)
        PROVE  TypeOK'
    BY <1>3, ScanType, CloseWindowType, WatchTypeOK, SendFileContentType DEF NodeStep
  <1>4. ASSUME NEW r \in Node, NEW s \in Node, HandlerStep(r, s)
        PROVE  TypeOK'
    BY <1>4, ServeRequestType, SendServedType, RejectConflictType, AcceptContentType,
       WriteFileType, RecordContentType, HandleAppliedType, HandleRejectedType
       DEF HandlerStep
  <1>5. CASE FaultStep
    BY <1>5, FailWriteType, LoseConnectionType, RestartType DEF FaultStep
  <1>6. QED
    BY <1>1, <1>2, <1>3, <1>4, <1>5 DEF Next

\* In every reachable state the tables, channels and handlers of every node are
\* well-typed: in particular a version in the tables is never mistaken for a
\* missing one, and a handler only ever works on a real path.
THEOREM TypeCorrect == Spec => []TypeOK
  <1>1. QED
    BY InitType, NextType, PTL DEF Spec
=============================================================================
