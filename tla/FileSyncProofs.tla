--------------------------- MODULE FileSyncProofs ---------------------------
(***************************************************************************)
(* Safety of FileSync, for any set of nodes, files and contents and any    *)
(* bounds: a change leaves the pending list only when a peer has it.       *)
(*                                                                         *)
(* The argument: a node's tables only hold versions that are entered in    *)
(* its history; a file_content message offers its sender's version (or     *)
(* the sender's path is waived); a handler that writes and records the     *)
(* file thereby becomes a second holder; so a file_applied message names a *)
(* version that its author has had, and the clearing of the pending list   *)
(* that it causes is justified.  Histories only grow.                      *)
(***************************************************************************)
EXTENDS FileSyncTypeProofs

------------------------------------------------------------------------------
(* A change that is not pending is shared *)

\* The inductive invariant: NotPendingMeansShared holds because the messages
\* and the handlers that lead to a confirmation only name versions that their
\* authors had.
IInv == TypeOK /\ Backing /\ NotPendingMeansShared

\* What a node had is never forgotten, and no waiver is revoked.
Grows ==
    \A n \in Node : recorded[n] \subseteq recorded'[n] /\ waived[n] \subseteq waived'[n]

SameVersion(n, p) ==
    /\ sync'[n].local[p] = sync[n].local[p]
    /\ sync'[n].pending[p] = sync[n].pending[p]

LEMMA RememberGrows ==
  ASSUME TypeOK, Remember
  PROVE  /\ \A n \in Node : recorded[n] \subseteq recorded'[n]
         /\ LocalRecorded'
  BY DEF TypeOK, HistoryTypeOK, Remember, LocalRecorded

LEMMA MessageBackedStays ==
  ASSUME Grows, NEW s \in Node, NEW r \in Node, NEW m, MessageBacked(s, r, m)
  PROVE  MessageBacked(s, r, m)'
  BY DEF Grows, MessageBacked, Backed

LEMMA BackedStays ==
  ASSUME Grows, NEW n \in Node, NEW p, NEW h, Backed(n, p, h)
  PROVE  Backed(n, p, h)'
  BY DEF Grows, Backed

LEMMA SharedStays ==
  ASSUME Grows, NEW n \in Node, NEW p \in Path, ChangeShared(n, p), SameVersion(n, p)
  PROVE  ChangeShared(n, p)'
  BY DEF Grows, ChangeShared, SameVersion, Peers

\* A message that was in the channel before the step, or that the step sent.
LEMMA OldMessage ==
  ASSUME MessagesBacked, Grows, NEW x \in Node, NEW y \in Node, NEW i,
         NEW j \in 1..Len(chan[x][y]), chan'[x][y][i] = chan[x][y][j]
  PROVE  MessageBacked(x, y, chan[x][y][i])'
  <1>1. PICK m : m = chan[x][y][j]
    OBVIOUS
  <1>2. MessageBacked(x, y, m)
    BY <1>1 DEF MessagesBacked
  <1>3. MessageBacked(x, y, m)'
    BY <1>2, MessageBackedStays
  <1>4. m = chan'[x][y][i]
    BY <1>1
  <1>5. QED
    BY <1>3, <1>4 DEF MessageBacked, Backed

LEMMA NewMessage ==
  ASSUME NEW x \in Node, NEW y \in Node, NEW i, NEW m,
         chan'[x][y][i] = m, MessageBacked(x, y, m)'
  PROVE  MessageBacked(x, y, chan[x][y][i])'
  BY DEF MessageBacked, Backed

\* Channels: sending a backed message, taking one, losing some.
LEMMA SendBacked ==
  ASSUME TypeOK, MessagesBacked, Grows, NEW s \in Node, NEW r \in Node, NEW m \in Msg,
         Send(s, r, m), MessageBacked(s, r, m)'
  PROVE  MessagesBacked'
  <1> SUFFICES ASSUME NEW x \in Node, NEW y \in Node, NEW i \in 1..Len(chan'[x][y])
               PROVE  MessageBacked(x, y, chan[x][y][i])'
    BY DEF MessagesBacked
  <1>1. CASE x = s /\ y = r
    <2>1. chan'[x][y] = Append(chan[s][r], m) /\ chan[s][r] \in Seq(Msg)
      BY <1>1 DEF Send, TypeOK, TransferTypeOK
    <2>2. \/ i \in 1..Len(chan[s][r]) /\ chan'[x][y][i] = chan[s][r][i]
          \/ chan'[x][y][i] = m
      BY <2>1
    <2>3. QED
      BY <1>1, <2>2, OldMessage, NewMessage
  <1>2. CASE ~(x = s /\ y = r)
    <2>1. chan'[x][y] = chan[x][y]
      BY <1>2 DEF Send, TypeOK, TransferTypeOK
    <2>2. QED
      BY <2>1, OldMessage
  <1>3. QED
    BY <1>1, <1>2

LEMMA TakeBacked ==
  ASSUME TypeOK, MessagesBacked, Grows, NEW s \in Node, NEW r \in Node,
         chan[s][r] # <<>>, Take(s, r)
  PROVE  MessagesBacked'
  <1> SUFFICES ASSUME NEW x \in Node, NEW y \in Node, NEW i \in 1..Len(chan'[x][y])
               PROVE  MessageBacked(x, y, chan[x][y][i])'
    BY DEF MessagesBacked
  <1>1. \E j \in 1..Len(chan[x][y]) : chan'[x][y][i] = chan[x][y][j]
    <2>1. CASE x = s /\ y = r
      <3>1. chan'[x][y] = Tail(chan[s][r]) /\ chan[s][r] \in Seq(Msg)
        BY <2>1 DEF Take, TypeOK, TransferTypeOK
      <3>2. i + 1 \in 1..Len(chan[s][r]) /\ chan'[x][y][i] = chan[s][r][i + 1]
        BY <3>1
      <3>3. QED BY <2>1, <3>2
    <2>2. CASE ~(x = s /\ y = r)
      BY <2>2 DEF Take, TypeOK, TransferTypeOK
    <2>3. QED BY <2>1, <2>2
  <1>2. QED
    BY <1>1, OldMessage

LEMMA TakeAndAnswerBacked ==
  ASSUME TypeOK, MessagesBacked, Grows, NEW s \in Node, NEW r \in Node, NEW m \in Msg,
         s # r, chan[s][r] # <<>>, TakeAndAnswer(s, r, m), MessageBacked(r, s, m)'
  PROVE  MessagesBacked'
  <1> SUFFICES ASSUME NEW x \in Node, NEW y \in Node, NEW i \in 1..Len(chan'[x][y])
               PROVE  MessageBacked(x, y, chan[x][y][i])'
    BY DEF MessagesBacked
  <1>1. \/ \E j \in 1..Len(chan[x][y]) : chan'[x][y][i] = chan[x][y][j]
        \/ x = r /\ y = s /\ chan'[x][y][i] = m
    <2>1. CASE x = s /\ y = r
      <3> DEFINE t == Tail(chan[s][r])
                 a == Append(chan[r][s], m)
      <3>a. chan' = [chan EXCEPT ![s][r] = t, ![r][s] = a]
        BY DEF TakeAndAnswer
      <3>b. chan'[s][r] = t
        <4> HIDE DEF t, a
        <4> QED BY <3>a DEF TypeOK, TransferTypeOK
      <3>1. chan'[x][y] = Tail(chan[s][r]) /\ chan[s][r] \in Seq(Msg)
        BY <2>1, <3>b DEF TypeOK, TransferTypeOK
      <3>2. i + 1 \in 1..Len(chan[s][r]) /\ chan'[x][y][i] = chan[s][r][i + 1]
        BY <3>1
      <3>3. QED BY <2>1, <3>2
    <2>2. CASE x = r /\ y = s
      <3>1. chan'[x][y] = Append(chan[r][s], m) /\ chan[r][s] \in Seq(Msg)
        BY <2>2 DEF TakeAndAnswer, TypeOK, TransferTypeOK
      <3>2. \/ i \in 1..Len(chan[r][s]) /\ chan'[x][y][i] = chan[r][s][i]
            \/ chan'[x][y][i] = m
        BY <3>1
      <3>3. QED BY <2>2, <3>2
    <2>3. CASE ~(x = s /\ y = r) /\ ~(x = r /\ y = s)
      BY <2>3 DEF TakeAndAnswer, TypeOK, TransferTypeOK
    <2>4. QED BY <2>1, <2>2, <2>3
  <1>2. QED
    BY <1>1, OldMessage, NewMessage

\* Requests and rejections claim nothing.
LEMMA ClaimsNothing ==
  ASSUME NEW s, NEW r, NEW p, NEW h
  PROVE  MessageBacked(s, r, Rejected(p, h))' /\ MessageBacked(s, r, Request(p))'
  BY DEF MessageBacked, Rejected, Request

\* Steps that leave the transport alone.
LEMMA SameTransfer ==
  ASSUME IInv, Grows, LocalRecorded', UNCHANGED <<chan, job>>,
         \A n \in Node, p \in Path : ChangeShared(n, p)'
  PROVE  Backing' /\ NotPendingMeansShared'
  <1>1. MessagesBacked'
    BY MessageBackedStays DEF IInv, Backing, MessagesBacked
  <1>2. JobsBacked'
    BY BackedStays DEF IInv, Backing, JobsBacked
  <1>3. QED
    BY <1>1, <1>2 DEF Backing, NotPendingMeansShared

\* Steps that leave every version where it is.
LEMMA SameVersions ==
  ASSUME IInv, Grows, \A n \in Node, p \in Path : SameVersion(n, p)
  PROVE  NotPendingMeansShared'
  BY SharedStays DEF IInv, NotPendingMeansShared

\* Steps that leave the tables alone, and those that save a version.
LEMMA SameTables ==
  ASSUME IInv, Grows, LocalRecorded', UNCHANGED <<sync, chan, job>>
  PROVE  Backing' /\ NotPendingMeansShared'
  <1>1. NotPendingMeansShared'
    BY SameVersions DEF SameVersion
  <1>2. QED
    BY <1>1, SameTransfer DEF NotPendingMeansShared

LEMMA RememberGrowsToo ==
  ASSUME TypeOK, Remember, UNCHANGED waived
  PROVE  Grows /\ LocalRecorded'
  BY RememberGrows DEF Grows

LEMMA UserStepShared ==
  ASSUME IInv, NEW n \in Node, NEW p \in Path, NEW h \in HashOrNone, NEW to,
         Save(n, p, h) \/ Scan(n, p) \/ CloseWindow(n, p) \/ Stop(n) \/ ReadForTool(n, p, to)
  PROVE  Backing' /\ NotPendingMeansShared'
  <1>1. Remember /\ UNCHANGED <<sync, chan, job, waived>>
    BY DEF Save, Scan, CloseWindow, Stop, ReadForTool, UserWrites, ScanFile, StopTracking,
           transferVars, watcherVars
  <1>2. QED
    BY <1>1, RememberGrowsToo, SameTables DEF IInv

\* The watcher changes the tables of one file.
LEMMA WatchShared ==
  ASSUME IInv, NEW n \in Node, Watch(n)
  PROVE  Backing' /\ NotPendingMeansShared'
  <1>1. Remember /\ UNCHANGED <<chan, job, waived>>
    BY DEF Watch, transferVars
  <1>2. Grows /\ LocalRecorded'
    BY <1>1, RememberGrowsToo DEF IInv
  <1>3. sync[n] \in SyncRecord /\ sync \in [Node -> SyncRecord]
    BY DEF IInv, TypeOK, WatcherTypeOK
  <1>4. CASE UNCHANGED sync
    BY <1>1, <1>2, <1>4, SameTables
  <1>5. ASSUME NEW p \in Path, WatchDeletion(n, p), sync' # sync
        PROVE  \A x \in Node, y \in Path : ChangeShared(x, y)'
    <2>1. sync' = [sync EXCEPT ![n] = RemoveFile(sync[n], p)]
      BY <1>5 DEF WatchDeletion
    <2>2. \A x \in Node, y \in Path :
             SameVersion(x, y) \/ (x = n /\ y = p /\ sync'[x].local[y] = None)
      BY <2>1, <1>3, RemoveFileEffect DEF SameVersion
    <2>3. QED
      BY <1>2, <2>2, SharedStays, SyncStateAssumption
         DEF IInv, NotPendingMeansShared, ChangeShared
  <1>6. ASSUME NEW r \in reads[n], FinishRead(n, r), sync' # sync
        PROVE  \A x \in Node, y \in Path : ChangeShared(x, y)'
    <2>1. r.path \in Path /\ r.hash \in Hash
      BY <1>6 DEF IInv, TypeOK, WatcherTypeOK, Read
    <2>2. \/ sync' = [sync EXCEPT ![n] = RecordSyncedHash(sync[n], r.path, r.hash)]
          \/ sync' = [sync EXCEPT ![n] = RecordLocalChange(sync[n], r.path, r.hash)]
      BY <1>6 DEF FinishRead
    <2>3. \A x \in Node, y \in Path :
             SameVersion(x, y) \/ (x = n /\ y = r.path /\ sync'[x].pending[y] = r.hash)
      <3>1. CASE sync' = [sync EXCEPT ![n] = RecordSyncedHash(sync[n], r.path, r.hash)]
        BY <2>1, <3>1, <1>3, RecordSyncedHashEffect DEF SameVersion
      <3>2. CASE sync' = [sync EXCEPT ![n] = RecordLocalChange(sync[n], r.path, r.hash)]
        <4>1. PICK t \in SyncRecord :
                 /\ t = RecordLocalChange(sync[n], r.path, r.hash)
                 /\ \A y \in Path : t.local[y] = IF y = r.path THEN r.hash ELSE sync[n].local[y]
                 /\ \A y \in Path : t.pending[y] = IF y = r.path THEN r.hash ELSE sync[n].pending[y]
          BY <2>1, <1>3, RecordLocalChangeEffect
        <4>2. sync' = [sync EXCEPT ![n] = t]
          BY <3>2, <4>1
        <4>3. /\ sync'[n] = t
              /\ \A x \in Node : x # n => sync'[x] = sync[x]
          BY <4>2, <1>3
        <4>4. QED
          BY <4>1, <4>3 DEF SameVersion
      <3>3. QED BY <2>2, <3>1, <3>2
    <2>4. QED
      BY <1>2, <2>1, <2>3, SharedStays, SyncStateAssumption
         DEF IInv, NotPendingMeansShared, ChangeShared
  <1>7. ASSUME FinishScan(n)
        PROVE  \A x \in Node, y \in Path : ChangeShared(x, y)'
    <2>1. \A x \in Node, y \in Path : SameVersion(x, y)
      BY <1>7, <1>3, MarkAllSyncedEffect DEF SameVersion, FinishScan
    <2>2. QED
      BY <1>2, <2>1, SameVersions DEF NotPendingMeansShared
  <1>8. QED
    <2>1. UNCHANGED sync \/ \A x \in Node, y \in Path : ChangeShared(x, y)'
      BY <1>5, <1>6, <1>7 DEF Watch, WatchChange, StartTracking
    <2>2. QED
      BY <1>1, <1>2, <1>4, <2>1, SameTransfer

LEMMA ResetShared ==
  ASSUME IInv, NEW n \in Node, ResetStalePending(n)
  PROVE  Backing' /\ NotPendingMeansShared'
  <1>1. Grows /\ LocalRecorded' /\ UNCHANGED <<chan, job>>
    BY RememberGrows DEF IInv, Grows, ResetStalePending, transferVars, TypeOK, HistoryTypeOK
  <1>2. sync[n] \in SyncRecord /\ sync \in [Node -> SyncRecord]
    BY DEF IInv, TypeOK, WatcherTypeOK
  <1>3. ASSUME NEW x \in Node, NEW y \in Path
        PROVE  ChangeShared(x, y)'
    <2>1. \/ SameVersion(x, y)
          \/ x = n /\ y \in PendingPaths(sync[n])
      BY <1>2, ClearPendingEffect
         DEF ResetStalePending, ResetPending, SameVersion, PendingPaths
    <2>2. CASE SameVersion(x, y)
      BY <1>1, <2>2, SharedStays DEF IInv, NotPendingMeansShared
    <2>3. CASE x = n /\ y \in PendingPaths(sync[n])
      BY <2>3 DEF ResetStalePending, IInv, TypeOK, HistoryTypeOK, ChangeShared
    <2>4. QED BY <2>1, <2>2, <2>3
  <1>4. QED
    BY <1>1, <1>3, SameTransfer

\* The transport.  Most of its steps leave every version where it is.
LEMMA SameJobs ==
  ASSUME IInv, Grows, UNCHANGED job
  PROVE  JobsBacked'
  BY BackedStays DEF IInv, Backing, JobsBacked

LEMMA FinishBacked ==
  ASSUME IInv, Grows, NEW r \in Node, NEW s \in Node, Finish(r, s)
  PROVE  JobsBacked'
  <1> SUFFICES ASSUME NEW x \in Node, NEW y \in Node, job'[x][y].op \in {"write", "record"}
               PROVE  y # x /\ Backed(y, job[x][y].path, job[x][y].hash)'
    BY DEF JobsBacked
  <1>1. job'[x][y] = job[x][y] \/ job'[x][y] = Idle
    BY DEF Finish, IInv, TypeOK, TransferTypeOK
  <1>2. job'[x][y] = job[x][y]
    BY <1>1 DEF Idle
  <1>3. QED
    BY <1>2, BackedStays DEF IInv, Backing, JobsBacked, Backed

LEMMA BecomeBacked ==
  ASSUME IInv, Grows, NEW r \in Node, NEW s \in Node, NEW op, NEW p, NEW h, NEW d,
         Become(r, s, op, p, h, d),
         op = "serve" \/ (op = "write" /\ s # r /\ Backed(s, p, h)')
  PROVE  JobsBacked'
  <1> DEFINE j == [op |-> op, path |-> p, hash |-> h, data |-> d]
  <1>1. j.op = op /\ j.path = p /\ j.hash = h
    OBVIOUS
  <1>2. job' = [job EXCEPT ![r][s] = j]
    BY DEF Become
  <1> HIDE DEF j
  <1> SUFFICES ASSUME NEW x \in Node, NEW y \in Node, job'[x][y].op \in {"write", "record"}
               PROVE  y # x /\ Backed(y, job[x][y].path, job[x][y].hash)'
    BY DEF JobsBacked
  <1>3. CASE x = r /\ y = s
    <2>1. job'[x][y] = j
      BY <1>2, <1>3 DEF IInv, TypeOK, TransferTypeOK
    <2>2. QED
      BY <1>1, <1>3, <2>1 DEF Backed
  <1>4. CASE ~(x = r /\ y = s)
    <2>1. job'[x][y] = job[x][y]
      BY <1>2, <1>4 DEF IInv, TypeOK, TransferTypeOK
    <2>2. QED
      BY <2>1, BackedStays DEF IInv, Backing, JobsBacked, Backed
  <1>5. QED
    BY <1>3, <1>4

\* A change of n's tables that touches no version.
LEMMA FlagsOnly ==
  ASSUME IInv, NEW n \in Node, NEW t, t.local = sync[n].local, t.pending = sync[n].pending,
         sync' = sync \/ sync' = [sync EXCEPT ![n] = t]
  PROVE  \A x \in Node, y \in Path : SameVersion(x, y)
  <1>1. sync \in [Node -> SyncRecord]
    BY DEF IInv, TypeOK, WatcherTypeOK
  <1>2. QED
    BY <1>1 DEF SameVersion

LEMMA PullShared ==
  ASSUME IInv, NEW n \in Node, NEW q \in Node, NEW p \in Path,
         Pull(n, q, p) \/ ForcePull(n, q, p)
  PROVE  Backing' /\ NotPendingMeansShared'
  <1>1. Grows /\ LocalRecorded' /\ UNCHANGED job /\ Send(n, q, Request(p))
    BY RememberGrowsToo DEF Pull, ForcePull, IInv
  <1>2. \A x \in Node, y \in Path : SameVersion(x, y)
    <2>1. sync \in [Node -> SyncRecord]
      BY DEF IInv, TypeOK, WatcherTypeOK
    <2>2. sync' = sync \/ sync' = [sync EXCEPT ![n] = MarkForceAllow(sync[n], p)]
      BY DEF Pull, ForcePull, watcherVars
    <2>3. QED
      BY <2>1, <2>2, ForceAllowEffect, FlagsOnly
  <1>3. MessagesBacked'
    <2>1. Request(p) \in Msg
      BY DEF Request, Msg, MsgType, HashOrNone
    <2>2. QED
      BY <1>1, <2>1, ClaimsNothing, SendBacked DEF IInv, Backing
  <1>4. QED
    BY <1>1, <1>2, <1>3, SameJobs, SameVersions DEF Backing

\* What a node sends as its version is one that it had, or the path is waived.
LEMMA OfferBacked ==
  ASSUME IInv, Grows, NEW n \in Node, NEW p \in Path, NEW h, NEW d, NEW r,
         h = GetLocalHash(sync[n], p), h = None => p \in waived'[n]
  PROVE  MessageBacked(n, r, Content(p, h, d))'
  <1>1. h # None => <<p, h>> \in recorded'[n]
    BY GetLocalHashType
       DEF IInv, Backing, LocalRecorded, Grows, TypeOK, WatcherTypeOK
  <1>2. QED
    BY <1>1 DEF MessageBacked, Backed, Content

LEMMA SendFileContentShared ==
  ASSUME IInv, NEW n \in Node, SendFileContent(n)
  PROVE  Backing' /\ NotPendingMeansShared'
  <1>1. PICK to, p, h, d : /\ to = tool[n].to /\ p = tool[n].path /\ d = tool[n].data
                           /\ h = GetLocalHash(sync[n], p)
    OBVIOUS
  <1>2. /\ to \in SUBSET Node /\ p \in Path /\ h \in HashOrNone /\ d \in Hash
        /\ UNCHANGED <<sync, job, recorded>>
    BY <1>1, ToolContent DEF SendFileContent, IInv, watcherVars
  <1>3. waived' = [waived EXCEPT ![n] = IF h = None THEN @ \union {p} ELSE @]
    BY <1>1 DEF SendFileContent, WaiveIfUnhashed
  <1>4. Grows /\ (h = None => p \in waived'[n])
    BY <1>2, <1>3 DEF Grows, IInv, TypeOK, HistoryTypeOK
  <1>5. PICK m \in Msg : m = Content(p, h, d)
    BY <1>2, MessageTypes DEF HashOrNone
  <1>6. \A q \in Node : MessageBacked(n, q, m)'
    BY <1>1, <1>2, <1>4, <1>5, OfferBacked
  <1>7. chan' = [chan EXCEPT ![n] = [q \in Node |->
                    IF q \in to THEN Append(@[q], m) ELSE @[q]]]
    BY <1>1, <1>5, Zenon DEF SendFileContent
  <1>8. MessagesBacked'
    <2> SUFFICES ASSUME NEW x \in Node, NEW y \in Node, NEW i \in 1..Len(chan'[x][y])
                 PROVE  MessageBacked(x, y, chan[x][y][i])'
      BY DEF MessagesBacked
    <2>1. \/ chan'[x][y] = chan[x][y]
          \/ x = n /\ chan'[x][y] = Append(chan[x][y], m)
      BY <1>7 DEF IInv, TypeOK, TransferTypeOK
    <2>2. chan[x][y] \in Seq(Msg)
      BY DEF IInv, TypeOK, TransferTypeOK
    <2>3. \/ i \in 1..Len(chan[x][y]) /\ chan'[x][y][i] = chan[x][y][i]
          \/ x = n /\ chan'[x][y][i] = m
      BY <2>1, <2>2
    <2>4. QED
      BY <1>4, <1>6, <2>3, OldMessage, NewMessage DEF IInv, Backing
  <1>9. LocalRecorded' /\ JobsBacked' /\ NotPendingMeansShared'
    BY <1>2, <1>4, SameJobs, SameVersions DEF IInv, Backing, LocalRecorded, SameVersion
  <1>10. QED
    BY <1>8, <1>9 DEF Backing

LEMMA ServeRequestShared ==
  ASSUME IInv, NEW r \in Node, NEW s \in Node, ServeRequest(r, s)
  PROVE  Backing' /\ NotPendingMeansShared'
  <1>1. Grows /\ LocalRecorded' /\ UNCHANGED sync
    BY RememberGrowsToo DEF ServeRequest, IInv, watcherVars
  <1>2. MessagesBacked'
    BY <1>1, TakeBacked DEF ServeRequest, Ready, IInv, Backing
  <1>3. JobsBacked'
    BY <1>1, SameJobs, BecomeBacked DEF ServeRequest
  <1>4. QED
    BY <1>1, <1>2, <1>3, SameVersions DEF Backing, SameVersion

LEMMA SendServedShared ==
  ASSUME IInv, NEW r \in Node, NEW s \in Node, SendServed(r, s)
  PROVE  Backing' /\ NotPendingMeansShared'
  <1>1. PICK p, h, d : /\ p = job[r][s].path /\ d = job[r][s].data
                       /\ h = GetLocalHash(sync[r], p)
    OBVIOUS
  <1>2. /\ p \in Path /\ d \in HashOrNone /\ h \in HashOrNone
        /\ UNCHANGED sync /\ Finish(r, s) /\ Send(r, s, Content(p, h, d)) /\ Remember
        /\ WaiveIfUnhashed(r, p, h)
    BY <1>1, JobParts, GetLocalHashType
       DEF SendServed, IInv, TypeOK, WatcherTypeOK, watcherVars
  <1>3. Grows /\ LocalRecorded' /\ (h = None => p \in waived'[r])
    BY <1>2, RememberGrows DEF Grows, WaiveIfUnhashed, IInv, TypeOK, HistoryTypeOK
  <1>4. PICK m \in Msg : m = Content(p, h, d)
    BY <1>2, MessageTypes
  <1>5. MessageBacked(r, s, m)'
    BY <1>1, <1>2, <1>3, <1>4, OfferBacked
  <1>6. MessagesBacked'
    BY <1>2, <1>3, <1>4, <1>5, SendBacked DEF IInv, Backing
  <1>7. QED
    BY <1>2, <1>3, <1>6, FinishBacked, SameVersions DEF Backing, SameVersion

LEMMA RejectConflictShared ==
  ASSUME IInv, NEW r \in Node, NEW s \in Node, RejectConflict(r, s)
  PROVE  Backing' /\ NotPendingMeansShared'
  <1>1. Grows /\ LocalRecorded' /\ UNCHANGED <<sync, job>>
    BY RememberGrowsToo DEF RejectConflict, IInv, watcherVars
  <1>2. PICK p \in Path, h \in HashOrNone : p = Head_(s, r).path /\ h = Head_(s, r).hash
    BY HeadType DEF RejectConflict, IInv, TypeOK, TransferTypeOK
  <1>3. PICK m \in Msg : m = Rejected(p, h)
    BY <1>2, MessageTypes DEF HashOrNone
  <1>4. MessageBacked(r, s, m)'
    BY <1>3, ClaimsNothing
  <1>5. MessagesBacked'
    BY <1>1, <1>2, <1>3, <1>4, TakeAndAnswerBacked
       DEF RejectConflict, Ready, IInv, Backing
  <1>6. QED
    BY <1>1, <1>5, SameJobs, SameVersions DEF Backing, SameVersion

\* The message that a handler takes is backed.
LEMMA HeadBacked ==
  ASSUME IInv, NEW s \in Node, NEW r \in Node, NEW type, Ready(s, r, type)
  PROVE  MessageBacked(s, r, Head_(s, r))
  <1>1. chan[s][r] \in Seq(Msg) /\ chan[s][r] # <<>>
    BY DEF Ready, IInv, TypeOK, TransferTypeOK
  <1>2. 1 \in 1..Len(chan[s][r]) /\ Head(chan[s][r]) = chan[s][r][1]
    BY <1>1
  <1>3. QED
    BY <1>2 DEF IInv, Backing, MessagesBacked, Head_

LEMMA AcceptContentShared ==
  ASSUME IInv, NEW r \in Node, NEW s \in Node, AcceptContent(r, s)
  PROVE  Backing' /\ NotPendingMeansShared'
  <1>1. Grows /\ LocalRecorded'
    BY RememberGrowsToo DEF AcceptContent, IInv
  <1>2. PICK p \in Path, h \in HashOrNone, d \in HashOrNone :
            p = Head_(s, r).path /\ h = Head_(s, r).hash /\ d = Head_(s, r).data
    BY HeadType DEF AcceptContent, IInv, TypeOK, TransferTypeOK
  <1>3. s # r /\ chan[s][r] # <<>> /\ Backed(s, p, h)
    BY <1>2, HeadBacked DEF AcceptContent, Ready, MessageBacked
  <1>4. Backed(s, p, h)'
    BY <1>1, <1>3, BackedStays
  <1>5. \A x \in Node, y \in Path : SameVersion(x, y)
    <2>1. sync[r] \in SyncRecord
      BY DEF IInv, TypeOK, WatcherTypeOK
    <2>2. sync' = sync \/ sync' = [sync EXCEPT ![r] = DropForceAllow(sync[r], p)]
      BY <1>2, Zenon DEF AcceptContent
    <2>3. QED
      BY <2>1, <2>2, ForceAllowEffect, FlagsOnly
  <1>6. PICK m \in Msg : m = Rejected(p, h)
    BY <1>2, MessageTypes
  <1>7. MessageBacked(r, s, m)'
    BY <1>6, ClaimsNothing
  <1>8. MessagesBacked' /\ JobsBacked'
    <2>1. CASE tracked[r]
      <3>1. Take(s, r) /\ Become(r, s, "write", p, h, d)
        BY <2>1, <1>2 DEF AcceptContent
      <3>2. QED
        BY <3>1, <1>1, <1>3, <1>4, TakeBacked, BecomeBacked DEF IInv, Backing
    <2>2. CASE ~tracked[r]
      <3>1. TakeAndAnswer(s, r, m) /\ UNCHANGED job
        BY <2>2, <1>2, <1>6 DEF AcceptContent
      <3>2. QED
        BY <3>1, <1>1, <1>3, <1>7, TakeAndAnswerBacked, SameJobs DEF IInv, Backing
    <2>3. QED BY <2>1, <2>2
  <1>9. QED
    BY <1>1, <1>5, <1>8, SameVersions DEF Backing

LEMMA WriteFileShared ==
  ASSUME IInv, NEW r \in Node, NEW s \in Node, WriteFile(r, s)
  PROVE  Backing' /\ NotPendingMeansShared'
  <1>1. Grows /\ LocalRecorded' /\ UNCHANGED <<sync, chan>>
    BY RememberGrowsToo DEF WriteFile, IInv
  <1>2. JobsBacked'
    <2> SUFFICES ASSUME NEW x \in Node, NEW y \in Node, job'[x][y].op \in {"write", "record"}
                 PROVE  y # x /\ Backed(y, job[x][y].path, job[x][y].hash)'
      BY DEF JobsBacked
    <2>1. PICK j \in Job : j = job[r][s] /\ j.op = "write"
      BY JobParts DEF WriteFile, IInv
    <2>2. PICK k : k = [j EXCEPT !.op = "record"]
      OBVIOUS
    <2>2b. k.path = j.path /\ k.hash = j.hash
      BY <2>1, <2>2 DEF Job
    <2>3. job' = [job EXCEPT ![r][s] = k]
      BY <2>1, <2>2 DEF WriteFile
    <2>4. \/ job'[x][y] = job[x][y]
          \/ x = r /\ y = s /\ job'[x][y] = k
      BY <2>3 DEF IInv, TypeOK, TransferTypeOK
    <2>5. /\ job[x][y].op \in {"write", "record"}
          /\ job'[x][y].path = job[x][y].path /\ job'[x][y].hash = job[x][y].hash
      BY <2>1, <2>2b, <2>4
    <2>6. QED
      BY <1>1, <2>5, BackedStays DEF IInv, Backing, JobsBacked, Backed
  <1>3. MessagesBacked'
    BY <1>1, MessageBackedStays DEF IInv, Backing, MessagesBacked
  <1>4. QED
    BY <1>1, <1>2, <1>3, SameVersions DEF Backing, SameVersion

LEMMA FailWriteShared ==
  ASSUME IInv, NEW r \in Node, NEW s \in Node, FailWrite(r, s)
  PROVE  Backing' /\ NotPendingMeansShared'
  <1>1. Grows /\ LocalRecorded' /\ UNCHANGED sync /\ Finish(r, s)
    BY RememberGrowsToo DEF FailWrite, IInv, watcherVars
  <1>2. PICK p \in Path, h \in HashOrNone : p = job[r][s].path /\ h = job[r][s].hash
    BY JobParts DEF FailWrite, IInv
  <1>3. PICK m \in Msg : m = Rejected(p, h)
    BY <1>2, MessageTypes DEF HashOrNone
  <1>4. MessageBacked(r, s, m)'
    BY <1>3, ClaimsNothing
  <1>5. MessagesBacked'
    BY <1>1, <1>2, <1>3, <1>4, SendBacked DEF FailWrite, IInv, Backing
  <1>6. QED
    BY <1>1, <1>5, FinishBacked, SameVersions DEF Backing, SameVersion

\* The received version is now the receiver's, and its sender's too.
LEMMA RecordContentShared ==
  ASSUME IInv, NEW r \in Node, NEW s \in Node, RecordContent(r, s)
  PROVE  Backing' /\ NotPendingMeansShared'
  <1>1. Grows /\ LocalRecorded' /\ Finish(r, s) /\ Remember
    BY RememberGrowsToo DEF RecordContent, IInv
  <1>2. PICK p \in Path, h \in HashOrNone : p = job[r][s].path /\ h = job[r][s].hash
    BY JobParts DEF RecordContent, IInv
  <1>3. s # r /\ Backed(s, p, h)'
    BY <1>1, <1>2, BackedStays DEF RecordContent, IInv, Backing, JobsBacked
  <1>4. sync \in [Node -> SyncRecord] /\ sync[r] \in SyncRecord
    BY DEF IInv, TypeOK, WatcherTypeOK
  <1>5. sync' = [sync EXCEPT ![r] = RecordRemoteChange(sync[r], p, h)]
    BY <1>2 DEF RecordContent
  <1>6. \A x \in Node, y \in Path :
            \/ SameVersion(x, y)
            \/ x = r /\ y = p /\ sync'[x].local[y] = IF h = None THEN Blank ELSE h
    BY <1>4, <1>5, RecordRemoteChangeEffect DEF SameVersion
  <1>7. ASSUME NEW x \in Node, NEW y \in Path
        PROVE  ChangeShared(x, y)'
    <2>1. CASE SameVersion(x, y)
      BY <1>1, <2>1, SharedStays DEF IInv, NotPendingMeansShared
    <2>2. CASE x = r /\ y = p /\ sync'[x].local[y] = IF h = None THEN Blank ELSE h
      BY <1>3, <2>2, SyncStateAssumption DEF ChangeShared, Backed, Peers, HashOrNone
    <2>3. QED BY <1>6, <2>1, <2>2
  <1>8. PICK m \in Msg : m = Applied(p, h)
    BY <1>2, MessageTypes DEF HashOrNone
  <1>9. h # None => <<p, h>> \in recorded'[r]
    <2>1. h # None => sync'[r].local[p] = h
      BY <1>4, <1>5, RecordRemoteChangeEffect
    <2>2. QED
      BY <1>1, <2>1 DEF LocalRecorded, HashOrNone
  <1>10. MessageBacked(r, s, m)'
    BY <1>3, <1>8, <1>9 DEF MessageBacked, Backed, Applied
  <1>11. MessagesBacked'
    BY <1>1, <1>2, <1>8, <1>10, SendBacked DEF RecordContent, IInv, Backing
  <1>12. QED
    BY <1>1, <1>7, <1>11, FinishBacked DEF Backing, NotPendingMeansShared

\* What a confirmation settles was had by the peer that confirms it, or the
\* path is waived.
LEMMA SettledShared ==
  ASSUME IInv, NEW r \in Node, NEW s \in Node, NEW m, NEW p, NEW h,
         MessageBacked(s, r, m), m.type = "file_applied",
         p = m.path, h = SettledHash(r, s, m), h # None
  PROVE  p \in waived[r] \/ <<p, h>> \in recorded[s]
  BY DEF SettledHash, MessageBacked

LEMMA HandleAppliedShared ==
  ASSUME IInv, NEW r \in Node, NEW s \in Node, HandleApplied(r, s)
  PROVE  Backing' /\ NotPendingMeansShared'
  <1>1. Grows /\ LocalRecorded' /\ UNCHANGED job /\ Ready(s, r, "file_applied")
        /\ Take(s, r)
    BY RememberGrowsToo DEF HandleApplied, IInv
  <1>2. PICK m, p, h : /\ m = Head_(s, r) /\ p = m.path /\ p \in Path
                       /\ h = SettledHash(r, s, m)
    BY HeadType, <1>1 DEF IInv, TypeOK, TransferTypeOK
  <1>3. MessagesBacked'
    BY <1>1, TakeBacked DEF Ready, IInv, Backing
  <1>4. sync \in [Node -> SyncRecord] /\ sync[r] \in SyncRecord /\ s # r
    BY <1>1 DEF IInv, TypeOK, WatcherTypeOK, Ready
  <1>5. \/ sync' = sync
        \/ /\ h # None /\ h = GetLocalHash(sync[r], p)
           /\ sync' = [sync EXCEPT ![r] = ClearPending(RecordSyncedHash(sync[r], p, h), {p})]
    BY <1>2, Zenon DEF HandleApplied
  <1>6. CASE sync' = sync
    BY <1>1, <1>3, <1>6, SameJobs, SameVersions DEF Backing, SameVersion
  <1>7. CASE /\ h # None /\ h = GetLocalHash(sync[r], p)
             /\ sync' = [sync EXCEPT ![r] = ClearPending(RecordSyncedHash(sync[r], p, h), {p})]
    <2>1. h = sync[r].local[p] /\ h \in Hash
      BY <1>2, <1>4, <1>7, GetLocalHashType
    <2>2. PICK t \in SyncRecord : t = RecordSyncedHash(sync[r], p, h)
                                  /\ t.local = sync[r].local /\ t.pending = sync[r].pending
      BY <1>2, <1>4, <2>1, RecordSyncedHashEffect
    <2>3. PICK u \in SyncRecord : u = ClearPending(t, {p}) /\ u.local = t.local
                /\ \A y \in Path : u.pending[y] = IF y \in {p} THEN None ELSE t.pending[y]
      BY <1>2, <2>2, ClearPendingEffect
    <2>4. sync' = [sync EXCEPT ![r] = u]
      BY <1>7, <2>2, <2>3
    <2>5. \A x \in Node, y \in Path :
             \/ SameVersion(x, y)
             \/ x = r /\ y = p /\ sync'[x].local[y] = h
      BY <1>4, <2>1, <2>2, <2>3, <2>4 DEF SameVersion
    <2>6. p \in waived[r] \/ <<p, h>> \in recorded[s]
      <3>1. MessageBacked(s, r, m) /\ m.type = "file_applied"
        BY <1>1, <1>2, HeadBacked DEF Ready
      <3>2. QED
        BY <1>2, <1>7, <3>1, SettledShared
    <2>7. ASSUME NEW x \in Node, NEW y \in Path
          PROVE  ChangeShared(x, y)'
      <3>1. CASE SameVersion(x, y)
        BY <1>1, <3>1, SharedStays DEF IInv, NotPendingMeansShared
      <3>2. CASE x = r /\ y = p /\ sync'[x].local[y] = h
        BY <1>1, <1>4, <2>6, <3>2 DEF ChangeShared, Grows, Peers
      <3>3. QED BY <2>5, <3>1, <3>2
    <2>8. QED
      BY <1>1, <1>3, <2>7, SameJobs DEF Backing, NotPendingMeansShared
  <1>8. QED
    BY <1>5, <1>6, <1>7

LEMMA HandleRejectedShared ==
  ASSUME IInv, NEW r \in Node, NEW s \in Node, HandleRejected(r, s)
  PROVE  Backing' /\ NotPendingMeansShared'
  <1>1. Grows /\ LocalRecorded' /\ UNCHANGED <<sync, job>>
    BY RememberGrowsToo DEF HandleRejected, IInv, watcherVars
  <1>2. MessagesBacked'
    BY <1>1, TakeBacked DEF HandleRejected, Ready, IInv, Backing
  <1>3. QED
    BY <1>1, <1>2, SameJobs, SameVersions DEF Backing, SameVersion

\* A lost connection or a restart only removes messages.
LEMMA LoseConnectionShared ==
  ASSUME IInv, NEW n \in Node, NEW q \in Node, LoseConnection(n, q)
  PROVE  Backing' /\ NotPendingMeansShared'
  <1>1. Grows /\ LocalRecorded' /\ UNCHANGED <<sync, job>>
    BY RememberGrowsToo DEF LoseConnection, IInv, watcherVars
  <1>2. PICK i \in 0..Len(chan[n][q]), j \in 0..Len(chan[q][n]) :
             chan' = [chan EXCEPT ![n][q] = SubSeq(@, 1, i), ![q][n] = SubSeq(@, 1, j)]
    BY DEF LoseConnection
  <1>3. n # q /\ chan[n][q] \in Seq(Msg) /\ chan[q][n] \in Seq(Msg)
    BY DEF LoseConnection, IInv, TypeOK, TransferTypeOK
  <1>4. PICK t, u : t = SubSeq(chan[n][q], 1, i) /\ u = SubSeq(chan[q][n], 1, j)
    OBVIOUS
  <1>5. chan' = [chan EXCEPT ![n][q] = t, ![q][n] = u]
    BY <1>2, <1>3, <1>4 DEF IInv, TypeOK, TransferTypeOK
  <1>6. ASSUME NEW x \in Node, NEW y \in Node, NEW k \in 1..Len(chan'[x][y])
        PROVE  k \in 1..Len(chan[x][y]) /\ chan'[x][y][k] = chan[x][y][k]
    <2>1. CASE x = n /\ y = q
      <3>1. chan'[x][y] = t
        BY <1>3, <1>5, <2>1 DEF IInv, TypeOK, TransferTypeOK
      <3>2. QED BY <1>3, <1>4, <2>1, <3>1
    <2>2. CASE x = q /\ y = n
      <3>1. chan'[x][y] = u
        BY <1>3, <1>5, <2>2 DEF IInv, TypeOK, TransferTypeOK
      <3>2. QED BY <1>3, <1>4, <2>2, <3>1
    <2>3. CASE ~(x = n /\ y = q) /\ ~(x = q /\ y = n)
      BY <1>5, <2>3 DEF IInv, TypeOK, TransferTypeOK
    <2>4. QED BY <2>1, <2>2, <2>3
  <1>7. MessagesBacked'
    <2> SUFFICES ASSUME NEW x \in Node, NEW y \in Node, NEW k \in 1..Len(chan'[x][y])
                 PROVE  MessageBacked(x, y, chan[x][y][k])'
      BY DEF MessagesBacked
    <2>1. QED
      BY <1>1, <1>6, OldMessage DEF IInv, Backing
  <1>8. QED
    BY <1>1, <1>7, SameJobs, SameVersions DEF Backing, SameVersion

LEMMA RestartShared ==
  ASSUME IInv, NEW n \in Node, Restart(n)
  PROVE  Backing' /\ NotPendingMeansShared'
  <1>1. Grows /\ UNCHANGED recorded
    BY DEF Grows, Restart
  <1>2. \A x \in Node, y \in Path : SameVersion(x, y)
    <2>1. sync[n] \in SyncRecord
      BY DEF IInv, TypeOK, WatcherTypeOK
    <2>2. sync' = [sync EXCEPT ![n] = Reloaded(sync[n])]
      BY DEF Restart, RestartWatcher
    <2>3. QED
      BY <2>1, <2>2, ReloadedEffect, FlagsOnly
  <1>3. LocalRecorded'
    BY <1>1, <1>2 DEF IInv, Backing, LocalRecorded, SameVersion
  <1>4. JobsBacked'
    <2> SUFFICES ASSUME NEW x \in Node, NEW y \in Node, job'[x][y].op \in {"write", "record"}
                 PROVE  y # x /\ Backed(y, job[x][y].path, job[x][y].hash)'
      BY DEF JobsBacked
    <2>1. job'[x][y] = job[x][y] \/ job'[x][y] = Idle
      BY DEF Restart, IInv, TypeOK, TransferTypeOK
    <2>2. job'[x][y] = job[x][y]
      BY <2>1 DEF Idle
    <2>3. QED
      BY <1>1, <2>2, BackedStays DEF IInv, Backing, JobsBacked, Backed
  <1>5. MessagesBacked'
    <2> SUFFICES ASSUME NEW x \in Node, NEW y \in Node, NEW k \in 1..Len(chan'[x][y])
                 PROVE  MessageBacked(x, y, chan[x][y][k])'
      BY DEF MessagesBacked
    <2>1. chan'[x][y] = chan[x][y] \/ chan'[x][y] = <<>>
      BY DEF Restart
    <2>2. k \in 1..Len(chan[x][y]) /\ chan'[x][y][k] = chan[x][y][k]
      BY <2>1
    <2>3. QED
      BY <1>1, <2>2, OldMessage DEF IInv, Backing
  <1>6. QED
    BY <1>1, <1>2, <1>3, <1>4, <1>5, SameVersions DEF Backing

LEMMA InitShared == Init => Backing /\ NotPendingMeansShared
  <1> SUFFICES ASSUME Init PROVE Backing /\ NotPendingMeansShared
    OBVIOUS
  <1>1. \A n \in Node, p \in Path : sync[n].local[p] \notin Hash
    BY SyncStateAssumption DEF Init, EmptySync
  <1>2. \A s, r \in Node : Len(chan[s][r]) = 0 /\ job[r][s].op = "idle"
    BY DEF Init, Idle
  <1>3. QED
    BY <1>1, <1>2 DEF Backing, LocalRecorded, MessagesBacked, JobsBacked,
                      NotPendingMeansShared, ChangeShared

LEMMA NextShared == IInv /\ [Next]_vars => IInv'
  <1> SUFFICES ASSUME IInv, [Next]_vars PROVE Backing' /\ NotPendingMeansShared'
    BY NextType DEF IInv
  <1>1. CASE UNCHANGED vars
    <2>1. Grows /\ LocalRecorded' /\ UNCHANGED <<sync, chan, job>>
      BY <1>1 DEF vars, watcherVars, transferVars, historyVars, Grows,
                  IInv, Backing, LocalRecorded
    <2>2. QED BY <2>1, SameTables
  <1>2. CASE UserStep
    <2>1. ASSUME NEW n \in Editors, NEW p \in Path, NEW h \in HashOrNone, Save(n, p, h)
          PROVE  Backing' /\ NotPendingMeansShared'
      BY <2>1, UserStepShared, FileSyncAssumption
    <2>2. ASSUME NEW n \in Senders, NEW p \in Path, Broadcast(n, p)
          PROVE  Backing' /\ NotPendingMeansShared'
      <3>1. ReadForTool(n, p, Peers(n)) /\ n \in Node /\ None \in HashOrNone
        BY <2>2, FileSyncAssumption DEF Broadcast, HashOrNone
      <3>2. QED BY <3>1, UserStepShared
    <2>3. ASSUME NEW n \in Senders, NEW q \in Node, NEW p \in Path, Push(n, q, p)
          PROVE  Backing' /\ NotPendingMeansShared'
      <3>1. ReadForTool(n, p, {q}) /\ n \in Node /\ None \in HashOrNone
        BY <2>3, FileSyncAssumption DEF Push, HashOrNone
      <3>2. QED BY <3>1, UserStepShared
    <2>4. ASSUME NEW n \in Senders, NEW q \in Node, NEW p \in Path,
                 Pull(n, q, p) \/ ForcePull(n, q, p)
          PROVE  Backing' /\ NotPendingMeansShared'
      BY <2>4, PullShared, FileSyncAssumption
    <2>5. ASSUME NEW n \in Node, Stop(n) \/ ResetStalePending(n)
          PROVE  Backing' /\ NotPendingMeansShared'
      <3>1. CASE Stop(n)
        <4>1. Grows /\ LocalRecorded' /\ UNCHANGED <<sync, chan, job>>
          BY <3>1, RememberGrowsToo DEF Stop, StopTracking, IInv, transferVars
        <4>2. QED BY <4>1, SameTables
      <3>2. QED BY <2>5, <3>1, ResetShared
    <2>6. QED
      BY <1>2, <2>1, <2>2, <2>3, <2>4, <2>5 DEF UserStep
  <1>3. ASSUME NEW n \in Node, NodeStep(n)
        PROVE  Backing' /\ NotPendingMeansShared'
    <2>1. None \in HashOrNone
      BY DEF HashOrNone
    <2>2. QED
      BY <1>3, <2>1, UserStepShared, WatchShared, SendFileContentShared DEF NodeStep
  <1>4. ASSUME NEW r \in Node, NEW s \in Node, HandlerStep(r, s)
        PROVE  Backing' /\ NotPendingMeansShared'
    BY <1>4, ServeRequestShared, SendServedShared, RejectConflictShared,
       AcceptContentShared, WriteFileShared, RecordContentShared, HandleAppliedShared,
       HandleRejectedShared DEF HandlerStep
  <1>5. CASE FaultStep
    BY <1>5, FailWriteShared, LoseConnectionShared, RestartShared DEF FaultStep
  <1>6. QED
    BY <1>1, <1>2, <1>3, <1>4, <1>5 DEF Next

\* In every reachable state a version that is neither pending nor waived is, or
\* was, a peer's: whatever is lost, delayed or restarted, a change leaves the
\* pending list only when somebody else has it.
THEOREM SharedCorrect == Spec => []NotPendingMeansShared
  <1>1. Init => IInv
    BY InitType, InitShared DEF IInv
  <1>2. IInv => NotPendingMeansShared
    BY DEF IInv
  <1>3. QED
    BY <1>1, <1>2, NextShared, PTL DEF Spec

\* In every reachable state the messages and the handlers only name versions
\* that their authors have had: a confirmation is never premature.
THEOREM BackingCorrect == Spec => []Backing
  <1>1. Init => IInv
    BY InitType, InitShared DEF IInv
  <1>2. IInv => Backing
    BY DEF IInv
  <1>3. QED
    BY <1>1, <1>2, NextShared, PTL DEF Spec
------------------------------------------------------------------------------
(* What takes a change off the pending list *)

\* What the property asks of node n's record of peer q for the file p.
ClearedRight(n, q, p) ==
    (/\ sync[n].pending[p] # None /\ sync'[n].pending[p] = None
     /\ inFlight'[n][q] # inFlight[n][q])
    => /\ <<p, sync[n].local[p]>> \in recorded[q] \/ p \in waived[n]
       /\ \A x \in Node : [path |-> p, hash |-> sync[n].local[p]] \notin inFlight'[n][x]
Cleared == \A n, q \in Node, p \in Path : ClearedRight(n, q, p)

LEMMA HandleAppliedClears ==
  ASSUME IInv, NEW r \in Node, NEW s \in Node, HandleApplied(r, s)
  PROVE  Cleared
  <1>1. PICK m, p, h : /\ m = Head_(s, r) /\ p = m.path /\ p \in Path
                       /\ h = SettledHash(r, s, m)
    BY HeadType DEF IInv, TypeOK, TransferTypeOK, HandleApplied
  <1>2. /\ sync \in [Node -> SyncRecord] /\ sync[r] \in SyncRecord
        /\ inFlight \in [Node -> [Node -> SUBSET Sent]]
    BY DEF IInv, TypeOK, WatcherTypeOK, TransferTypeOK
  <1>3. MessageBacked(s, r, m) /\ m.type = "file_applied"
    BY <1>1, HeadBacked DEF HandleApplied, Ready, IInv
  <1>4. PICK F : /\ F \in [Node -> SUBSET Sent]
                 /\ inFlight' = [inFlight EXCEPT ![r] = F]
                 /\ \A x \in Node \ {s} : F[x] = inFlight[r][x]
                 /\ \/ sync' = sync
                    \/ /\ h # None /\ h = GetLocalHash(sync[r], p) /\ ~Outstanding(r, p, h, F)
                       /\ sync' = [sync EXCEPT ![r] = ClearPending(RecordSyncedHash(sync[r], p, h), {p})]
    <2> DEFINE matches == \E e \in inFlight[r][s] : e.path = p /\
                            (m.hash = None \/ e.hash = None \/ e.hash = m.hash)
               F == IF matches THEN [inFlight[r] EXCEPT ![s] = Without(@, p)]
                               ELSE inFlight[r]
    <2>1. /\ inFlight' = [inFlight EXCEPT ![r] = F]
          /\ \/ sync' = sync
             \/ /\ h # None /\ h = GetLocalHash(sync[r], p) /\ ~Outstanding(r, p, h, F)
                /\ sync' = [sync EXCEPT ![r] = ClearPending(RecordSyncedHash(sync[r], p, h), {p})]
      BY <1>1, Zenon DEF HandleApplied
    <2>2. F \in [Node -> SUBSET Sent] /\ \A x \in Node \ {s} : F[x] = inFlight[r][x]
      BY <1>2 DEF Without
    <2>3. QED
      BY <2>1, <2>2, Zenon
  <1>5. inFlight'[r] = F /\ \A n \in Node \ {r} : inFlight'[n] = inFlight[n]
    BY <1>2, <1>4
  <1>6. CASE sync' = sync
    BY <1>6 DEF Cleared, ClearedRight
  <1>7. CASE /\ h # None /\ h = GetLocalHash(sync[r], p) /\ ~Outstanding(r, p, h, F)
             /\ sync' = [sync EXCEPT ![r] = ClearPending(RecordSyncedHash(sync[r], p, h), {p})]
    <2>1. h = sync[r].local[p] /\ h \in Hash
      BY <1>1, <1>2, <1>7, GetLocalHashType
    <2>2. PICK t \in SyncRecord : t = RecordSyncedHash(sync[r], p, h) /\ t.pending = sync[r].pending
      BY <1>1, <1>2, <2>1, RecordSyncedHashEffect
    <2>3. PICK u \in SyncRecord : u = ClearPending(t, {p})
                /\ \A y \in Path : u.pending[y] = IF y \in {p} THEN None ELSE t.pending[y]
      BY <1>1, <2>2, ClearPendingEffect
    <2>4. sync' = [sync EXCEPT ![r] = u]
      BY <1>7, <2>2, <2>3
    <2>5. p \in waived[r] \/ <<p, h>> \in recorded[s]
      BY <1>1, <1>3, <1>7, SettledShared
    <2>6. \A x \in Node : [path |-> p, hash |-> h] \notin F[x]
      <3> SUFFICES ASSUME NEW x \in Node, [path |-> p, hash |-> h] \in F[x] PROVE FALSE
        OBVIOUS
      <3>1. [path |-> p, hash |-> h].path = p /\ [path |-> p, hash |-> h].hash = h
        OBVIOUS
      <3>2. QED
        BY <1>7, <3>1, Zenon DEF Outstanding
    <2> SUFFICES ASSUME NEW n \in Node, NEW q \in Node, NEW y \in Path,
                        sync[n].pending[y] # None, sync'[n].pending[y] = None,
                        inFlight'[n][q] # inFlight[n][q]
                 PROVE  /\ <<y, sync[n].local[y]>> \in recorded[q] \/ y \in waived[n]
                        /\ \A x \in Node : [path |-> y, hash |-> sync[n].local[y]] \notin inFlight'[n][x]
      BY DEF Cleared, ClearedRight
    <2>7. n = r
      BY <1>2, <2>4
    <2>8. y = p
      BY <1>2, <2>2, <2>3, <2>4, <2>7
    <2>9. q = s
      BY <1>4, <1>5, <2>7
    <2>10. QED
      BY <1>5, <2>1, <2>5, <2>6, <2>7, <2>8, <2>9
  <1>8. QED
    BY <1>4, <1>6, <1>7

\* No other step takes a change off the list and touches the table of what is
\* in flight as well.
LEMMA OthersClear ==
  ASSUME (\A n \in Node, p \in Path : sync'[n].pending[p] = sync[n].pending[p]) \/ inFlight' = inFlight
  PROVE  Cleared
  BY DEF Cleared, ClearedRight

\* A confirmation of one version or of one peer never settles another version,
\* and never while the version is still on its way to somebody: for any number
\* of peers, edits and pushes of one file that overlap (the file_applied
\* handler of transport.ts).
THEOREM ConfirmationsSettleTheirOwn == Spec => ClearedByConfirmation
  <1>1. ASSUME IInv, [Next]_vars
        PROVE  Cleared
    <2>1. CASE UNCHANGED vars
      BY <2>1, OthersClear DEF vars, transferVars
    <2>2. CASE UserStep
      <3>1. inFlight' = inFlight
        BY <2>2 DEF UserStep, Save, Broadcast, Push, ReadForTool, Pull, ForcePull, Stop,
                    ResetStalePending, transferVars
      <3>2. QED BY <3>1, OthersClear
    <2>3. ASSUME NEW n \in Node, NodeStep(n)
          PROVE  Cleared
      <3>1. inFlight' = inFlight \/ sync' = sync
        BY <2>3 DEF NodeStep, Scan, CloseWindow, Watch, SendFileContent, transferVars, watcherVars
      <3>2. QED BY <3>1, OthersClear
    <2>4. ASSUME NEW r \in Node, NEW s \in Node, HandlerStep(r, s), ~HandleApplied(r, s)
          PROVE  Cleared
      <3>1. inFlight' = inFlight \/ sync' = sync
        BY <2>4 DEF HandlerStep, ServeRequest, SendServed, RejectConflict, AcceptContent, WriteFile,
                    RecordContent, HandleRejected, watcherVars
      <3>2. QED BY <3>1, OthersClear
    <2>5. ASSUME NEW r \in Node, NEW s \in Node, FailWrite(r, s) \/ LoseConnection(r, s)
          PROVE  Cleared
      <3>1. inFlight' = inFlight
        BY <2>5 DEF FailWrite, LoseConnection
      <3>2. QED BY <3>1, OthersClear
    <2>6. ASSUME NEW n \in Node, Restart(n)
          PROVE  Cleared
      <3>1. sync[n] \in SyncRecord
        BY <1>1 DEF IInv, TypeOK, WatcherTypeOK
      <3>2. sync' = [sync EXCEPT ![n] = Reloaded(sync[n])]
        BY <2>6 DEF Restart, RestartWatcher
      <3>3. \A x \in Node, y \in Path : SameVersion(x, y)
        BY <1>1, <3>1, <3>2, ReloadedEffect, FlagsOnly
      <3>4. QED
        BY <3>3, OthersClear DEF SameVersion
    <2>7. QED
      BY <1>1, <2>1, <2>2, <2>3, <2>4, <2>5, <2>6, HandleAppliedClears DEF Next, FaultStep
  <1>2. IInv /\ [Next]_vars => [Cleared]_vars
    BY <1>1
  <1>3. IInv /\ [Next]_vars =>
          [\A n, q \in Node, p \in Path :
             (/\ sync[n].pending[p] # None /\ sync'[n].pending[p] = None
              /\ inFlight'[n][q] # inFlight[n][q])
             => /\ <<p, sync[n].local[p]>> \in recorded[q] \/ p \in waived[n]
                /\ \A x \in Node : [path |-> p, hash |-> sync[n].local[p]] \notin inFlight'[n][x]]_vars
    BY <1>2 DEF Cleared, ClearedRight
  <1>4. Init => IInv
    BY InitType, InitShared DEF IInv
  <1>5. QED
    BY <1>3, <1>4, NextShared, PTL DEF Spec, ClearedByConfirmation

------------------------------------------------------------------------------
(* Feedback loop prevention *)

\* What is pending was the user's, and so is what a read will list, unless the
\* read began inside the ignore window.
PendingOwned == \A n \in Node, p \in Path :
    sync[n].pending[p] # None => <<p, sync[n].pending[p]>> \in own[n]
ReadsOwned == \A n \in Node : \A d \in reads[n] : d.ignored \/ <<d.path, d.hash>> \in own[n]

\* A notification outside the window is about the user's content.
NewsOwned == \A n \in Node : \A p \in events[n] :
    p \in ignoring[n] \/ disk[n][p] = None \/ <<p, disk[n][p]>> \in own[n]

\* The window of a file is open before its write begins.
WritesIgnored == \A r, s \in Node :
    job[r][s].op = "write" => job[r][s].path \in ignoring[r] /\ phase[r] # "off"
TrackedOn == \A n \in Node : tracked[n] => phase[n] # "off"

Owned == PendingOwned /\ ReadsOwned /\ NewsOwned /\ WritesIgnored /\ TrackedOn

FewerWrites == \A r, s \in Node : job'[r][s].op = "write" => job'[r][s] = job[r][s]
FewerPending == \A n \in Node, p \in Path : sync'[n].pending[p] \in {None, sync[n].pending[p]}
OwnGrows == \A n \in Node : own[n] \subseteq own'[n]

\* Steps of the transport that begin no write.
LEMMA SameWindows ==
  ASSUME Owned, FewerWrites, FewerPending, OwnGrows,
         UNCHANGED <<disk, tracked, phase, ignoring, events, reads>>
  PROVE  Owned'
  <1>1. PendingOwned'
    BY DEF Owned, PendingOwned, FewerPending, OwnGrows
  <1>2. ReadsOwned' /\ NewsOwned'
    BY DEF Owned, ReadsOwned, NewsOwned, OwnGrows
  <1>3. WritesIgnored' /\ TrackedOn'
    BY DEF Owned, WritesIgnored, TrackedOn, FewerWrites
  <1>4. QED
    BY <1>1, <1>2, <1>3 DEF Owned

LEMMA FinishWritesLess ==
  ASSUME TypeOK, NEW r \in Node, NEW s \in Node, Finish(r, s)
  PROVE  FewerWrites
  <1>1. \A x, y \in Node : job'[x][y] = job[x][y] \/ job'[x][y] = Idle
    BY DEF Finish, TypeOK, TransferTypeOK
  <1>2. Idle.op # "write"
    BY DEF Idle
  <1>3. QED
    BY <1>1, <1>2 DEF FewerWrites

LEMMA BecomeWrites ==
  ASSUME TypeOK, NEW r \in Node, NEW s \in Node, NEW op, NEW p, NEW h, NEW d,
         Become(r, s, op, p, h, d)
  PROVE  \A x, y \in Node :
            \/ job'[x][y] = job[x][y]
            \/ x = r /\ y = s /\ job'[x][y].op = op /\ job'[x][y].path = p
  <1>1. PICK j : j.op = op /\ j.path = p /\ job' = [job EXCEPT ![r][s] = j]
    <2> DEFINE j == [op |-> op, path |-> p, hash |-> h, data |-> d]
    <2>1. j.op = op /\ j.path = p
      OBVIOUS
    <2>2. QED
      BY <2>1, Zenon DEF Become
  <1>2. QED
    BY <1>1 DEF TypeOK, TransferTypeOK

\* Steps that leave the watchers alone.
LEMMA TransportOwned ==
  ASSUME TypeOK, Owned, NEW n \in Node, NEW q \in Node, NEW p, NEW to,
         \/ ReadForTool(n, p, to) \/ Pull(n, q, p) \/ SendFileContent(n) \/ ServeRequest(n, q)
         \/ SendServed(n, q) \/ RejectConflict(n, q) \/ FailWrite(n, q) \/ HandleRejected(n, q)
         \/ LoseConnection(n, q)
  PROVE  Owned'
  <1>1. UNCHANGED <<watcherVars, own>>
    BY DEF ReadForTool, Pull, SendFileContent, ServeRequest, SendServed, RejectConflict, FailWrite,
           HandleRejected, LoseConnection, watcherVars
  <1>2. FewerWrites
    <2>1. \/ UNCHANGED job \/ Finish(n, q)
          \/ \E x, d : Become(n, q, "serve", x, None, d)
      BY DEF ReadForTool, Pull, SendFileContent, ServeRequest, SendServed, RejectConflict, FailWrite,
             HandleRejected, LoseConnection
    <2>2. CASE UNCHANGED job
      BY <2>2 DEF FewerWrites
    <2>3. ASSUME NEW x, NEW d, Become(n, q, "serve", x, None, d)
          PROVE  FewerWrites
      BY <2>3, BecomeWrites DEF FewerWrites
    <2>4. QED
      BY <2>1, <2>2, <2>3, FinishWritesLess
  <1>3. FewerPending /\ OwnGrows
    BY <1>1 DEF watcherVars, FewerPending, OwnGrows
  <1>4. QED
    BY <1>1, <1>2, <1>3, SameWindows DEF watcherVars

\* Steps of the transport that change only the tables.
LEMMA ForcePullOwned ==
  ASSUME TypeOK, Owned, NEW n \in Node, NEW q \in Node, NEW p \in Path, ForcePull(n, q, p)
  PROVE  Owned'
  <1>1. sync \in [Node -> SyncRecord] /\ sync[n] \in SyncRecord
    BY DEF TypeOK, WatcherTypeOK
  <1>2. PICK t \in SyncRecord : t = MarkForceAllow(sync[n], p) /\ t.pending = sync[n].pending
    BY <1>1, ForceAllowEffect
  <1>3. sync' = [sync EXCEPT ![n] = t]
    BY <1>2 DEF ForcePull
  <1>4. FewerPending
    BY <1>1, <1>2, <1>3 DEF FewerPending
  <1>5. FewerWrites /\ OwnGrows /\ UNCHANGED <<disk, tracked, phase, ignoring, events, reads>>
    BY DEF ForcePull, FewerWrites, OwnGrows
  <1>6. QED
    BY <1>4, <1>5, SameWindows

LEMMA RecordContentOwned ==
  ASSUME TypeOK, Owned, NEW r \in Node, NEW s \in Node, RecordContent(r, s)
  PROVE  Owned'
  <1>1. sync \in [Node -> SyncRecord] /\ sync[r] \in SyncRecord
    BY DEF TypeOK, WatcherTypeOK
  <1>2. PICK j \in Job : j = job[r][s]
    BY JobParts DEF RecordContent
  <1>3. j.path \in Path /\ j.hash \in HashOrNone
    BY DEF Job
  <1>4. PICK t \in SyncRecord : t = RecordRemoteChange(sync[r], j.path, j.hash)
                                /\ t.pending = sync[r].pending
    BY <1>1, <1>3, RecordRemoteChangeEffect
  <1>5. sync' = [sync EXCEPT ![r] = t]
    BY <1>2, <1>4 DEF RecordContent
  <1>6. FewerPending
    BY <1>1, <1>4, <1>5 DEF FewerPending
  <1>7. FewerWrites
    BY FinishWritesLess DEF RecordContent
  <1>8. OwnGrows /\ UNCHANGED <<disk, tracked, phase, ignoring, events, reads>>
    BY DEF RecordContent, OwnGrows
  <1>9. QED
    BY <1>6, <1>7, <1>8, SameWindows

LEMMA HandleAppliedOwned ==
  ASSUME TypeOK, Owned, NEW r \in Node, NEW s \in Node, HandleApplied(r, s)
  PROVE  Owned'
  <1>1. PICK m, p, h : m = Head_(s, r) /\ p = m.path /\ p \in Path /\ h = SettledHash(r, s, m)
    BY HeadType DEF TypeOK, TransferTypeOK, HandleApplied
  <1>2. sync \in [Node -> SyncRecord] /\ sync[r] \in SyncRecord
    BY DEF TypeOK, WatcherTypeOK
  <1>3. \/ sync' = sync
        \/ /\ h # None /\ h = GetLocalHash(sync[r], p)
           /\ sync' = [sync EXCEPT ![r] = ClearPending(RecordSyncedHash(sync[r], p, h), {p})]
    BY <1>1, Zenon DEF HandleApplied
  <1>4. FewerPending
    <2>1. CASE sync' = sync
      BY <2>1 DEF FewerPending
    <2>2. CASE /\ h # None /\ h = GetLocalHash(sync[r], p)
               /\ sync' = [sync EXCEPT ![r] = ClearPending(RecordSyncedHash(sync[r], p, h), {p})]
      <3>1. h \in Hash
        BY <1>1, <1>2, <2>2, GetLocalHashType
      <3>2. PICK t \in SyncRecord : t = RecordSyncedHash(sync[r], p, h) /\ t.pending = sync[r].pending
        BY <1>1, <1>2, <3>1, RecordSyncedHashEffect
      <3>3. PICK u \in SyncRecord : u = ClearPending(t, {p})
                  /\ \A y \in Path : u.pending[y] = IF y \in {p} THEN None ELSE t.pending[y]
        BY <1>1, <3>2, ClearPendingEffect
      <3>4. sync' = [sync EXCEPT ![r] = u]
        BY <2>2, <3>2, <3>3
      <3>5. QED
        BY <1>2, <3>2, <3>3, <3>4 DEF FewerPending
    <2>3. QED
      BY <1>3, <2>1, <2>2
  <1>5. FewerWrites /\ OwnGrows /\ UNCHANGED <<disk, tracked, phase, ignoring, events, reads>>
    BY DEF HandleApplied, FewerWrites, OwnGrows
  <1>6. QED
    BY <1>4, <1>5, SameWindows

\* Only a node that tracks its directory begins to write, and it opens the
\* window first.
LEMMA AcceptContentOwned ==
  ASSUME TypeOK, Owned, NEW r \in Node, NEW s \in Node, AcceptContent(r, s)
  PROVE  Owned'
  <1>1. PICK p \in Path : p = Head_(s, r).path
    BY HeadType DEF AcceptContent, TypeOK, TransferTypeOK
  <1>2. /\ sync \in [Node -> SyncRecord] /\ sync[r] \in SyncRecord
        /\ ignoring \in [Node -> SUBSET Path]
    BY DEF TypeOK, WatcherTypeOK
  <1>3. PICK t \in SyncRecord : t = DropForceAllow(sync[r], p) /\ t.pending = sync[r].pending
    BY <1>2, ForceAllowEffect
  <1>4. sync' = sync \/ sync' = [sync EXCEPT ![r] = t]
    BY <1>1, <1>3 DEF AcceptContent
  <1>5. FewerPending
    BY <1>2, <1>3, <1>4 DEF FewerPending
  <1>6. /\ UNCHANGED <<disk, tracked, phase, events, reads, own>>
        /\ OpenWindow(r, p)
    BY <1>1 DEF AcceptContent
  <1>7. /\ \A n \in Node : ignoring[n] \subseteq ignoring'[n]
        /\ phase[r] # "off" => p \in ignoring'[r]
    BY <1>2, <1>6 DEF OpenWindow
  <1>8. \A x, y \in Node :
           \/ job'[x][y] = job[x][y]
           \/ x = r /\ tracked[r] /\ job'[x][y].path = p
    <2>1. CASE tracked[r]
      <3>1. Become(r, s, "write", p, Head_(s, r).hash, Head_(s, r).data)
        BY <1>1, <2>1 DEF AcceptContent
      <3>2. PICK h, d : h = Head_(s, r).hash /\ d = Head_(s, r).data
        OBVIOUS
      <3>3. QED
        BY <2>1, <3>1, <3>2, BecomeWrites
    <2>2. CASE ~tracked[r]
      BY <2>2 DEF AcceptContent
    <2>3. QED
      BY <2>1, <2>2
  <1>9. WritesIgnored'
    BY <1>6, <1>7, <1>8 DEF Owned, WritesIgnored, TrackedOn
  <1>10. PendingOwned'
    BY <1>5, <1>6 DEF Owned, PendingOwned, FewerPending
  <1>11. ReadsOwned' /\ NewsOwned' /\ TrackedOn'
    BY <1>6, <1>7 DEF Owned, ReadsOwned, NewsOwned, TrackedOn
  <1>12. QED
    BY <1>9, <1>10, <1>11 DEF Owned

\* A received file raises its notification inside the window.
LEMMA WriteFileOwned ==
  ASSUME TypeOK, Owned, NEW r \in Node, NEW s \in Node, WriteFile(r, s)
  PROVE  Owned'
  <1>1. PICK j \in Job : j = job[r][s] /\ j.op = "write"
    BY JobParts DEF WriteFile
  <1>2. j.path \in Path /\ j.path \in ignoring[r]
    BY <1>1 DEF Job, Owned, WritesIgnored
  <1>3. /\ disk' = [disk EXCEPT ![r][j.path] = j.data] /\ events' = Raised(r, j.path)
        /\ UNCHANGED <<sync, tracked, phase, ignoring, reads, own>>
    BY <1>1 DEF WriteFile
  <1>4. PICK k : k = [j EXCEPT !.op = "record"]
    OBVIOUS
  <1>5. k.op = "record" /\ job' = [job EXCEPT ![r][s] = k]
    BY <1>1, <1>4 DEF WriteFile, Job
  <1>6. \A x, y \in Node : job'[x][y] = job[x][y] \/ job'[x][y].op = "record"
    BY <1>5 DEF TypeOK, TransferTypeOK
  <1>7. WritesIgnored'
    BY <1>3, <1>6 DEF Owned, WritesIgnored
  <1>8. NewsOwned'
    <2> SUFFICES ASSUME NEW n \in Node, NEW p \in events'[n]
                 PROVE  p \in ignoring[n] \/ disk'[n][p] = None \/ <<p, disk'[n][p]>> \in own[n]
      BY <1>3 DEF NewsOwned
    <2>1. p \in events[n] \/ (n = r /\ p = j.path)
      BY <1>3 DEF Raised, TypeOK, WatcherTypeOK
    <2>2. CASE n = r /\ p = j.path
      BY <1>2, <2>2
    <2>3. CASE p \in events[n] /\ ~(n = r /\ p = j.path)
      <3>1. disk'[n][p] = disk[n][p]
        BY <1>2, <1>3, <2>3 DEF TypeOK, WatcherTypeOK
      <3>2. QED
        BY <2>3, <3>1 DEF Owned, NewsOwned
    <2>4. QED
      BY <2>1, <2>2, <2>3
  <1>9. PendingOwned' /\ ReadsOwned' /\ TrackedOn'
    BY <1>3 DEF Owned, PendingOwned, ReadsOwned, TrackedOn
  <1>10. QED
    BY <1>7, <1>8, <1>9 DEF Owned

\* A user's save and a scan make the content the user's own.
LEMMA SaveOwned ==
  ASSUME TypeOK, Owned, NEW n \in Node, NEW p \in Path, NEW h \in HashOrNone, Save(n, p, h)
  PROVE  Owned'
  <1>1. /\ disk' = [disk EXCEPT ![n][p] = h] /\ events' = Raised(n, p)
        /\ own' = IF h = None THEN own ELSE [own EXCEPT ![n] = @ \union {<<p, h>>}]
        /\ UNCHANGED <<sync, tracked, phase, ignoring, reads, job>>
    BY DEF Save, UserWrites, transferVars
  <1>2. OwnGrows /\ (h # None => <<p, h>> \in own'[n])
    BY <1>1 DEF OwnGrows, TypeOK, HistoryTypeOK
  <1>3. NewsOwned'
    <2> SUFFICES ASSUME NEW x \in Node, NEW y \in events'[x]
                 PROVE  y \in ignoring[x] \/ disk'[x][y] = None \/ <<y, disk'[x][y]>> \in own'[x]
      BY <1>1 DEF NewsOwned
    <2>1. y \in events[x] \/ (x = n /\ y = p)
      BY <1>1 DEF Raised, TypeOK, WatcherTypeOK
    <2>2. CASE x = n /\ y = p
      <3>1. disk'[x][y] = h
        BY <1>1, <2>2 DEF TypeOK, WatcherTypeOK
      <3>2. QED
        BY <1>2, <2>2, <3>1
    <2>3. CASE y \in events[x] /\ ~(x = n /\ y = p)
      <3>1. disk'[x][y] = disk[x][y]
        BY <1>1, <2>3 DEF TypeOK, WatcherTypeOK
      <3>2. QED
        BY <1>2, <2>3, <3>1 DEF Owned, NewsOwned, OwnGrows
    <2>4. QED
      BY <2>1, <2>2, <2>3
  <1>4. PendingOwned' /\ ReadsOwned' /\ WritesIgnored' /\ TrackedOn'
    BY <1>1, <1>2 DEF Owned, PendingOwned, ReadsOwned, WritesIgnored, TrackedOn, OwnGrows
  <1>5. QED
    BY <1>3, <1>4 DEF Owned

\* A read that begins: it is ignored, or it finds the user's content.
LEMMA BeginReadOwned ==
  ASSUME TypeOK, Owned, NEW n \in Node, NEW p \in Path, BeginRead(n, p), OwnGrows,
         p \in ignoring[n] \/ <<p, disk[n][p]>> \in own'[n]
  PROVE  ReadsOwned'
  <1> DEFINE d == [path |-> p, ignored |-> p \in ignoring[n], hash |-> disk[n][p]]
  <1>1. d.path = p /\ d.hash = disk[n][p] /\ (d.ignored <=> p \in ignoring[n])
    OBVIOUS
  <1>2. reads' = [reads EXCEPT ![n] = @ \union {d}]
    BY DEF BeginRead
  <1> HIDE DEF d
  <1> SUFFICES ASSUME NEW x \in Node, NEW e \in reads'[x]
               PROVE  e.ignored \/ <<e.path, e.hash>> \in own'[x]
    BY DEF ReadsOwned
  <1>3. e \in reads[x] \/ (x = n /\ e = d)
    BY <1>2 DEF TypeOK, WatcherTypeOK
  <1>4. CASE e \in reads[x]
    BY <1>4 DEF Owned, ReadsOwned, OwnGrows
  <1>5. CASE x = n /\ e = d
    BY <1>1, <1>5, Zenon
  <1>6. QED
    BY <1>3, <1>4, <1>5

LEMMA ScanOwned ==
  ASSUME TypeOK, Owned, NEW n \in Node, NEW p \in Path, Scan(n, p)
  PROVE  Owned'
  <1>1. /\ own' = IF disk[n][p] = None THEN own
                  ELSE [own EXCEPT ![n] = @ \union {<<p, disk[n][p]>>}]
        /\ UNCHANGED <<disk, sync, tracked, phase, ignoring, events, job>>
        /\ IF disk[n][p] # None THEN BeginRead(n, p) ELSE UNCHANGED reads
    BY DEF Scan, ScanFile, transferVars
  <1>2. OwnGrows /\ (disk[n][p] # None => <<p, disk[n][p]>> \in own'[n])
    BY <1>1 DEF OwnGrows, TypeOK, HistoryTypeOK
  <1>3. ReadsOwned'
    <2>1. CASE disk[n][p] # None
      BY <1>1, <1>2, <2>1, BeginReadOwned
    <2>2. CASE disk[n][p] = None
      BY <1>1, <1>2, <2>2 DEF Owned, ReadsOwned, OwnGrows
    <2>3. QED
      BY <2>1, <2>2
  <1>4. PendingOwned' /\ NewsOwned' /\ WritesIgnored' /\ TrackedOn'
    BY <1>1, <1>2 DEF Owned, PendingOwned, NewsOwned, WritesIgnored, TrackedOn, OwnGrows
  <1>5. QED
    BY <1>3, <1>4 DEF Owned

\* The watcher: notifications, reads that are back, the end and the start of a
\* scan.  A scan starts only where nothing is being written.
LEMMA WatchOwned ==
  ASSUME TypeOK, Owned, NEW n \in Node, Watch(n)
  PROVE  Owned'
  <1>1. UNCHANGED <<job, own>>
    BY DEF Watch, transferVars
  <1>2. sync \in [Node -> SyncRecord] /\ sync[n] \in SyncRecord
    BY DEF TypeOK, WatcherTypeOK
  <1>3. ASSUME NEW p \in Path, WatchChange(n, p)
        PROVE  Owned'
    <2>1. /\ p \in events[n] /\ disk[n][p] # None /\ events' = [events EXCEPT ![n] = @ \ {p}]
          /\ BeginRead(n, p) /\ UNCHANGED <<disk, sync, tracked, phase, ignoring>>
      BY <1>3 DEF WatchChange
    <2>2. ReadsOwned'
      <3>1. p \in ignoring[n] \/ <<p, disk[n][p]>> \in own'[n]
        BY <1>1, <2>1 DEF Owned, NewsOwned
      <3>2. OwnGrows
        BY <1>1 DEF OwnGrows
      <3>3. QED
        BY <2>1, <3>1, <3>2, BeginReadOwned
    <2>3. NewsOwned'
      <3>1. \A x \in Node : events'[x] \subseteq events[x]
        BY <2>1 DEF TypeOK, WatcherTypeOK
      <3>2. QED
        BY <1>1, <2>1, <3>1 DEF Owned, NewsOwned
    <2>4. PendingOwned' /\ WritesIgnored' /\ TrackedOn'
      BY <1>1, <2>1 DEF Owned, PendingOwned, WritesIgnored, TrackedOn
    <2>5. QED
      BY <2>2, <2>3, <2>4 DEF Owned
  <1>4. ASSUME NEW p \in Path, WatchDeletion(n, p)
        PROVE  Owned'
    <2>1. /\ events' = [events EXCEPT ![n] = @ \ {p}]
          /\ sync' = sync \/ sync' = [sync EXCEPT ![n] = RemoveFile(sync[n], p)]
          /\ UNCHANGED <<disk, tracked, phase, ignoring, reads>>
      BY <1>4 DEF WatchDeletion
    <2>2. PICK t \in SyncRecord : t = RemoveFile(sync[n], p)
            /\ \A y \in Path : t.pending[y] = IF y = p THEN None ELSE sync[n].pending[y]
      BY <1>2, RemoveFileEffect
    <2>3. FewerPending
      BY <1>2, <2>1, <2>2 DEF FewerPending
    <2>4. NewsOwned'
      <3>1. \A x \in Node : events'[x] \subseteq events[x]
        BY <2>1 DEF TypeOK, WatcherTypeOK
      <3>2. QED
        BY <1>1, <2>1, <3>1 DEF Owned, NewsOwned
    <2>5. PendingOwned'
      BY <1>1, <2>3 DEF Owned, PendingOwned, FewerPending
    <2>6. ReadsOwned' /\ WritesIgnored' /\ TrackedOn'
      BY <1>1, <2>1 DEF Owned, ReadsOwned, WritesIgnored, TrackedOn
    <2>7. QED
      BY <2>4, <2>5, <2>6 DEF Owned
  <1>5. ASSUME NEW d \in reads[n], FinishRead(n, d)
        PROVE  Owned'
    <2>1. /\ d.path \in Path /\ d.hash \in Hash
          /\ reads' = [reads EXCEPT ![n] = @ \ {d}]
          /\ UNCHANGED <<disk, tracked, phase, ignoring, events>>
      BY <1>5 DEF FinishRead, TypeOK, WatcherTypeOK, Read
    <2>2. \/ sync' = sync
          \/ sync' = [sync EXCEPT ![n] = RecordSyncedHash(sync[n], d.path, d.hash)]
          \/ ~d.ignored /\ sync' = [sync EXCEPT ![n] = RecordLocalChange(sync[n], d.path, d.hash)]
      BY <1>5 DEF FinishRead
    <2>3. PICK t \in SyncRecord : t = RecordSyncedHash(sync[n], d.path, d.hash)
                                  /\ t.pending = sync[n].pending
      BY <1>2, <2>1, RecordSyncedHashEffect
    <2>4. PICK u \in SyncRecord : u = RecordLocalChange(sync[n], d.path, d.hash)
            /\ \A y \in Path : u.pending[y] = IF y = d.path THEN d.hash ELSE sync[n].pending[y]
      BY <1>2, <2>1, RecordLocalChangeEffect
    <2>5. \A x \in Node, y \in Path :
             \/ sync'[x].pending[y] = sync[x].pending[y]
             \/ ~d.ignored /\ x = n /\ y = d.path /\ sync'[x].pending[y] = d.hash
      <3>1. CASE sync' = sync
        BY <3>1
      <3>2. CASE sync' = [sync EXCEPT ![n] = t]
        BY <1>2, <2>3, <3>2
      <3>3. CASE ~d.ignored /\ sync' = [sync EXCEPT ![n] = u]
        BY <1>2, <2>4, <3>3
      <3>4. QED
        BY <2>2, <2>3, <2>4, <3>1, <3>2, <3>3
    <2>6. ~d.ignored => <<d.path, d.hash>> \in own[n]
      BY DEF Owned, ReadsOwned
    <2>7. PendingOwned'
      BY <1>1, <2>5, <2>6 DEF Owned, PendingOwned
    <2>8. ReadsOwned'
      <3>1. \A x \in Node : reads'[x] \subseteq reads[x]
        BY <2>1 DEF TypeOK, WatcherTypeOK
      <3>2. QED
        BY <1>1, <3>1 DEF Owned, ReadsOwned
    <2>9. NewsOwned' /\ WritesIgnored' /\ TrackedOn'
      BY <1>1, <2>1 DEF Owned, NewsOwned, WritesIgnored, TrackedOn
    <2>10. QED
      BY <2>7, <2>8, <2>9 DEF Owned
  <1>6. ASSUME FinishScan(n)
        PROVE  Owned'
    <2>1. PICK t \in SyncRecord : t = MarkAllSynced(sync[n]) /\ t.pending = sync[n].pending
      BY <1>2, MarkAllSyncedEffect
    <2>2. /\ sync' = [sync EXCEPT ![n] = t] /\ phase' = [phase EXCEPT ![n] = "watching"]
          /\ tracked' = [tracked EXCEPT ![n] = TRUE]
          /\ UNCHANGED <<disk, ignoring, events, reads>>
      BY <1>6, <2>1 DEF FinishScan
    <2>3. FewerPending
      BY <1>2, <2>1, <2>2 DEF FewerPending
    <2>4. PendingOwned' /\ ReadsOwned' /\ NewsOwned'
      BY <1>1, <2>2, <2>3 DEF Owned, PendingOwned, ReadsOwned, NewsOwned, FewerPending
    <2>5. \A x \in Node : /\ phase[x] # "off" => phase'[x] # "off"
                          /\ tracked'[x] => tracked[x] \/ phase'[x] # "off"
      BY <2>2 DEF TypeOK, WatcherTypeOK
    <2>6. WritesIgnored' /\ TrackedOn'
      BY <1>1, <2>2, <2>5 DEF Owned, WritesIgnored, TrackedOn
    <2>7. QED
      BY <2>4, <2>6 DEF Owned
  <1>7. ASSUME StartTracking(n)
        PROVE  Owned'
    <2>1. /\ phase[n] = "off" /\ ignoring' = [ignoring EXCEPT ![n] = {}]
          /\ events' = [events EXCEPT ![n] = {}] /\ phase' = [phase EXCEPT ![n] = "scanning"]
          /\ UNCHANGED <<disk, sync, tracked, reads>>
      BY <1>7 DEF StartTracking, FreshWatcher
    <2>2. /\ \A x \in Node \ {n} : ignoring'[x] = ignoring[x] /\ events'[x] = events[x]
                                   /\ phase'[x] = phase[x]
          /\ events'[n] = {} /\ phase'[n] # "off"
      BY <2>1 DEF TypeOK, WatcherTypeOK
    <2>3. WritesIgnored' /\ TrackedOn'
      BY <1>1, <2>1, <2>2 DEF Owned, WritesIgnored, TrackedOn
    <2>4. NewsOwned'
      BY <1>1, <2>1, <2>2 DEF Owned, NewsOwned
    <2>5. PendingOwned' /\ ReadsOwned'
      BY <1>1, <2>1 DEF Owned, PendingOwned, ReadsOwned
    <2>6. QED
      BY <2>3, <2>4, <2>5 DEF Owned
  <1>8. QED
    BY <1>3, <1>4, <1>5, <1>6, <1>7 DEF Watch

\* A prompt window stays open until the write and its notification are over.
LEMMA CloseWindowOwned ==
  ASSUME TypeOK, Owned, JobsBacked, PromptWatcher,
         NEW n \in Node, NEW p \in Path, CloseWindow(n, p)
  PROVE  Owned'
  <1>1. /\ p \notin events[n] /\ ignoring' = [ignoring EXCEPT ![n] = @ \ {p}]
        /\ \A q \in Peers(n) : job[n][q].op \in {"write", "record"} => job[n][q].path # p
        /\ UNCHANGED <<disk, sync, tracked, phase, events, reads, job, own>>
    BY DEF CloseWindow, transferVars
  <1>2. \A x \in Node, y \in Path : ~(x = n /\ y = p) /\ y \in ignoring[x] => y \in ignoring'[x]
    BY <1>1 DEF TypeOK, WatcherTypeOK
  <1>3. NewsOwned'
    <2>1. \A x \in Node : events[x] \subseteq Path
      BY DEF TypeOK, WatcherTypeOK
    <2>2. QED
      BY <1>1, <1>2, <2>1 DEF Owned, NewsOwned
  <1>4. WritesIgnored'
    <2> SUFFICES ASSUME NEW x \in Node, NEW y \in Node, job[x][y].op = "write"
                 PROVE  job[x][y].path \in ignoring'[x] /\ phase[x] # "off"
      BY <1>1 DEF WritesIgnored
    <2>1. y \in Peers(x)
      BY DEF JobsBacked, Peers
    <2>2. job[x][y].path \in Path
      BY JobParts
    <2>3. ~(x = n /\ job[x][y].path = p)
      BY <1>1, <2>1
    <2>4. job[x][y].path \in ignoring[x] /\ phase[x] # "off"
      BY DEF Owned, WritesIgnored
    <2>5. QED
      BY <1>2, <2>2, <2>3, <2>4
  <1>5. PendingOwned' /\ ReadsOwned' /\ TrackedOn'
    BY <1>1 DEF Owned, PendingOwned, ReadsOwned, TrackedOn
  <1>6. QED
    BY <1>3, <1>4, <1>5 DEF Owned

LEMMA ResetOwned ==
  ASSUME TypeOK, Owned, NEW n \in Node, ResetStalePending(n)
  PROVE  Owned'
  <1>1. sync \in [Node -> SyncRecord] /\ sync[n] \in SyncRecord /\ Path \in SUBSET Path
    BY DEF TypeOK, WatcherTypeOK
  <1>2. PICK t \in SyncRecord : t = ClearPending(sync[n], Path)
          /\ \A y \in Path : t.pending[y] = IF y \in Path THEN None ELSE sync[n].pending[y]
    BY <1>1, ClearPendingEffect
  <1>3. /\ sync' = [sync EXCEPT ![n] = t]
        /\ UNCHANGED <<disk, tracked, phase, ignoring, events, reads, job, own>>
    BY <1>2 DEF ResetStalePending, ResetPending, transferVars
  <1>4. FewerPending
    BY <1>1, <1>2, <1>3 DEF FewerPending
  <1>5. FewerWrites /\ OwnGrows
    BY <1>3 DEF FewerWrites, OwnGrows
  <1>6. QED
    BY <1>3, <1>4, <1>5, SameWindows

\* The handlers of the old process are gone with its windows, and so are its
\* notifications and reads.
LEMMA RestartOwned ==
  ASSUME TypeOK, Owned, NEW n \in Node, Restart(n)
  PROVE  Owned'
  <1>1. sync \in [Node -> SyncRecord] /\ sync[n] \in SyncRecord
    BY DEF TypeOK, WatcherTypeOK
  <1>2. PICK t \in SyncRecord : t = Reloaded(sync[n]) /\ t.pending = sync[n].pending
    BY <1>1, ReloadedEffect
  <1>3. /\ sync' = [sync EXCEPT ![n] = t] /\ UNCHANGED <<disk, own>>
        /\ ignoring' = [ignoring EXCEPT ![n] = {}] /\ events' = [events EXCEPT ![n] = {}]
        /\ phase' = [phase EXCEPT ![n] = "scanning"] /\ reads' = [reads EXCEPT ![n] = {}]
        /\ tracked' = [tracked EXCEPT ![n] = TRUE]
        /\ job' = [job EXCEPT ![n] = [q \in Node |-> Idle]]
    BY <1>2 DEF Restart, RestartWatcher, FreshWatcher
  <1>4. /\ \A x \in Node \ {n} : /\ ignoring'[x] = ignoring[x] /\ events'[x] = events[x]
                                 /\ phase'[x] = phase[x] /\ reads'[x] = reads[x]
                                 /\ tracked'[x] = tracked[x] /\ job'[x] = job[x]
        /\ events'[n] = {} /\ reads'[n] = {} /\ phase'[n] # "off"
        /\ \A y \in Node : job'[n][y] = Idle
    BY <1>3 DEF TypeOK, WatcherTypeOK, TransferTypeOK
  <1>5. FewerPending
    BY <1>1, <1>2, <1>3 DEF FewerPending
  <1>6. PendingOwned'
    BY <1>3, <1>5 DEF Owned, PendingOwned, FewerPending
  <1>7. ReadsOwned' /\ NewsOwned' /\ TrackedOn'
    BY <1>3, <1>4 DEF Owned, ReadsOwned, NewsOwned, TrackedOn
  <1>8. WritesIgnored'
    <2>1. Idle.op # "write"
      BY DEF Idle
    <2>2. QED
      BY <1>4, <2>1 DEF Owned, WritesIgnored
  <1>9. QED
    BY <1>6, <1>7, <1>8 DEF Owned

\* The number of mesh_track stop so far only grows.
LEMMA StopsCounted ==
  ASSUME TypeOK, [Next]_vars
  PROVE  /\ used'["stop"] = 0 => used["stop"] = 0
         /\ \A n \in Node : Stop(n) => used'["stop"] # 0
  <1>1. used \in [DOMAIN Budget -> Nat] /\ DOMAIN Budget = {"edit", "send", "force", "drop", "restart", "stop", "fault"}
    BY DEF TypeOK, TransferTypeOK, Budget
  <1>2. \A k : Spend(k) => used' = [used EXCEPT ![k] = @ + 1]
    BY DEF Spend
  <1>3. used' = used \/ \E k \in DOMAIN Budget : used' = [used EXCEPT ![k] = @ + 1]
    <2>1. used' = used \/ Spend("edit") \/ Spend("send") \/ Spend("force") \/ Spend("drop")
            \/ Spend("restart") \/ Spend("stop") \/ Spend("fault")
      <3>1. CASE UNCHANGED vars
        BY <3>1 DEF vars
      <3>2. CASE UserStep
        BY <3>2 DEF UserStep, Save, Broadcast, Push, Pull, ForcePull, Stop, ResetStalePending
      <3>3. ASSUME NEW n \in Node, NodeStep(n)
            PROVE  used' = used
        BY <3>3 DEF NodeStep, Scan, CloseWindow, Watch, SendFileContent
      <3>4. ASSUME NEW r \in Node, NEW s \in Node, HandlerStep(r, s)
            PROVE  used' = used
        BY <3>4 DEF HandlerStep, ServeRequest, SendServed, RejectConflict, AcceptContent,
                    WriteFile, RecordContent, HandleApplied, HandleRejected
      <3>5. CASE FaultStep
        BY <3>5 DEF FaultStep, FailWrite, LoseConnection, Restart
      <3>6. QED
        BY <3>1, <3>2, <3>3, <3>4, <3>5 DEF Next
    <2>2. QED
      BY <1>1, <1>2, <2>1
  <1>4. used["stop"] \in Nat /\ (used'["stop"] = used["stop"] \/ used'["stop"] = used["stop"] + 1)
    BY <1>1, <1>3
  <1>5. \A n \in Node : Stop(n) => used'["stop"] = used["stop"] + 1
    BY <1>1, <1>2 DEF Stop
  <1>6. QED
    BY <1>4, <1>5

LEMMA NextOwned ==
  ASSUME IInv, Owned, PromptWatcher, [Next]_vars, \A n \in Node : ~Stop(n)
  PROVE  Owned'
  <1>1. TypeOK /\ JobsBacked
    BY DEF IInv, Backing
  <1>2. CASE UNCHANGED vars
    <2>1. UNCHANGED <<disk, sync, tracked, phase, ignoring, events, reads, job, own>>
      BY <1>2 DEF vars, watcherVars, transferVars, historyVars
    <2>2. FewerWrites /\ FewerPending /\ OwnGrows
      BY <2>1 DEF FewerWrites, FewerPending, OwnGrows
    <2>3. QED
      BY <2>1, <2>2, SameWindows
  <1>3. CASE UserStep
    <2>1. ASSUME NEW n \in Editors, NEW p \in Path, NEW h \in HashOrNone, Save(n, p, h)
          PROVE  Owned'
      BY <1>1, <2>1, SaveOwned, FileSyncAssumption
    <2>2. ASSUME NEW n \in Senders, NEW p \in Path,
                 \/ Broadcast(n, p)
                 \/ \E q \in Node : Push(n, q, p) \/ Pull(n, q, p) \/ ForcePull(n, q, p)
          PROVE  Owned'
      <3>1. n \in Node
        BY FileSyncAssumption
      <3>2. \/ \E to : ReadForTool(n, p, to)
            \/ \E q \in Node : Pull(n, q, p) \/ ForcePull(n, q, p)
        BY <2>2 DEF Broadcast, Push
      <3>3. QED
        BY <1>1, <3>1, <3>2, TransportOwned, ForcePullOwned
    <2>3. ASSUME NEW n \in Node, ResetStalePending(n)
          PROVE  Owned'
      BY <1>1, <2>3, ResetOwned
    <2>4. QED
      BY <1>3, <2>1, <2>2, <2>3 DEF UserStep
  <1>4. ASSUME NEW n \in Node, NodeStep(n)
        PROVE  Owned'
    <2>1. CASE SendFileContent(n)
      BY <1>1, <2>1, TransportOwned
    <2>2. QED
      BY <1>1, <1>4, <2>1, ScanOwned, CloseWindowOwned, WatchOwned DEF NodeStep
  <1>5. ASSUME NEW r \in Node, NEW s \in Node, HandlerStep(r, s) \/ FailWrite(r, s) \/ LoseConnection(r, s)
        PROVE  Owned'
    <2>1. CASE \/ ServeRequest(r, s) \/ SendServed(r, s) \/ RejectConflict(r, s) \/ FailWrite(r, s)
               \/ HandleRejected(r, s) \/ LoseConnection(r, s)
      BY <1>1, <2>1, TransportOwned
    <2>2. QED
      BY <1>1, <1>5, <2>1, AcceptContentOwned, WriteFileOwned, RecordContentOwned, HandleAppliedOwned
         DEF HandlerStep
  <1>6. ASSUME NEW n \in Node, Restart(n)
        PROVE  Owned'
    BY <1>1, <1>6, RestartOwned
  <1>7. QED
    BY <1>2, <1>3, <1>4, <1>5, <1>6 DEF Next, FaultStep

\* As long as no user has stopped tracking, a received file never becomes a
\* pending change, for any number of gateways, files, handlers and reads that
\* overlap, lost connections, failed writes and restarts
\* (file-watcher.ts:152-183).  The exception is real: mesh_track stop closes the
\* window of a write that is still under way.
THEOREM NothingEchoed == Spec => [](used["stop"] = 0 => NoEcho)
  <1> DEFINE Safe == PromptWatcher /\ used["stop"] = 0 => Owned
  <1>1. Init => Safe
    <2>1. Init => Owned
      BY DEF Init, EmptySync, Idle, Owned, PendingOwned, ReadsOwned, NewsOwned, WritesIgnored, TrackedOn
    <2>2. QED
      BY <2>1
  <1>2. IInv /\ Safe /\ [Next]_vars => Safe'
    <2> SUFFICES ASSUME IInv, Safe, [Next]_vars, PromptWatcher, used'["stop"] = 0
                 PROVE  Owned'
      OBVIOUS
    <2>1. used["stop"] = 0 /\ \A n \in Node : ~Stop(n)
      BY StopsCounted DEF IInv
    <2>2. QED
      BY <2>1, NextOwned
  <1>3. Safe => (used["stop"] = 0 => NoEcho)
    BY DEF Owned, PendingOwned, NoEcho
  <1>4. Init => IInv
    BY InitType, InitShared DEF IInv
  <1> HIDE DEF Safe
  <1>5. QED
    BY <1>1, <1>2, <1>3, <1>4, NextShared, PTL DEF Spec

==============================================================================
