------------------------------- MODULE FileSync -------------------------------
(***************************************************************************)
(* File synchronisation between connected, approved peers: the transport's *)
(* file messages (src/src/transport.ts), the mesh_sync and mesh_broadcast  *)
(* tools that start transfers, the tables of SyncState and the watcher of  *)
(* FileWatcher.                                                            *)
(*                                                                         *)
(* Files here are at most 10 MiB, so they travel in one file_content       *)
(* message (mode "direct").  Paths are handled one at a time everywhere,   *)
(* so push-all and pull-all are sequences of Push and Pull steps whose     *)
(* tests are at least as strong.                                           *)
(*                                                                         *)
(* A connection is a FIFO channel each way.  The messages of one peer are  *)
(* handled one after the other (peerMessageQueues), each to its end,       *)
(* awaits included; the messages of two peers interleave at the awaits.    *)
(***************************************************************************)
EXTENDS FileWatcher, Sequences, FiniteSets

CONSTANTS
    InitDisk,    \* what the directories may hold at the start
    Editors,     \* the nodes whose users save files, and
    Senders,     \* those whose users push, broadcast and pull
    MaxEdits,    \* bounds: saves and deletions by users,
    MaxSends,    \* pushes, broadcasts and pulls,
    MaxForce,    \* pulls with force,
    MaxDrops,    \* lost connections,
    MaxRestarts, \* restarts of a gateway,
    MaxStops,    \* mesh_track stop, and
    MaxFaults    \* failed disk writes

ASSUME FileSyncAssumption ==
    /\ InitDisk \subseteq [Node -> [Path -> HashOrNone]]
    /\ Editors \subseteq Node /\ Senders \subseteq Node
    /\ {MaxEdits, MaxSends, MaxForce, MaxDrops, MaxRestarts, MaxStops, MaxFaults} \subseteq Nat

VARIABLES
    chan,      \* chan[s][r]: messages from s not yet handled by r
    job,       \* job[r][s]: what r's handler of s's messages is waiting for
    tool,      \* tool[n]: a push or broadcast waiting for its file read
    inFlight,  \* inFlight[n][q]: inFlightSends, [path, hash] sent to q
    confirmations, \* confirmations[n][q]: remoteAppliedFiles, [path, hash]
    rejections,    \* rejections[n][q]: remoteRejectedFiles, [path, hash]
    used           \* how often each bounded step was taken

\* History variables: the code never reads them.
VARIABLES
    recorded,  \* recorded[n]: <<p, h>> that n's version table has held
    own,       \* own[n]: <<p, h>> that n's user saved or a scan of n found
    waived     \* waived[n]: paths whose pending entry was reset while nothing
               \* was tracked, or that n has sent without a hash

transferVars == <<chan, job, tool, inFlight, confirmations, rejections>>
historyVars == <<recorded, own, waived>>
vars == <<watcherVars, transferVars, used, historyVars>>

------------------------------------------------------------------------------
(* Messages, handlers and bounds *)

\* `hash` is what the sender's table says, `data` the content itself.
Content(p, h, d) == [type |-> "file_content", path |-> p, hash |-> h, data |-> d]
Applied(p, h)    == [type |-> "file_applied", path |-> p, hash |-> h, data |-> None]
Rejected(p, h)   == [type |-> "file_rejected", path |-> p, hash |-> h, data |-> None]
Request(p)       == [type |-> "file_content_request", path |-> p, hash |-> None, data |-> None]

MsgType == {"file_content", "file_applied", "file_rejected", "file_content_request"}
Msg == [type : MsgType, path : Path, hash : HashOrNone, data : HashOrNone]

\* "serve": file_content_request awaits its read; "write": file_content awaits
\* the disk; "record": the file is on disk, the continuation has yet to run.
Idle == [op |-> "idle", path |-> None, hash |-> None, data |-> None]
Job == [op : {"serve", "write", "record"}, path : Path, hash : HashOrNone, data : HashOrNone]

NoTool == [to |-> {}, path |-> None, data |-> None]
Tool == [to : SUBSET Node, path : Path, data : Hash]

Sent == [path : Path, hash : HashOrNone]

Budget == [edit |-> MaxEdits, send |-> MaxSends, force |-> MaxForce, drop |-> MaxDrops,
           restart |-> MaxRestarts, stop |-> MaxStops, fault |-> MaxFaults]
Spend(k) == used[k] < Budget[k] /\ used' = [used EXCEPT ![k] = @ + 1]

Peers(n) == Node \ {n}
Head_(s, r) == Head(chan[s][r])
Send(s, r, m) == chan' = [chan EXCEPT ![s][r] = Append(@, m)]
\* r takes s's first message, and may answer it.
Take(s, r) == chan' = [chan EXCEPT ![s][r] = Tail(@)]
TakeAndAnswer(s, r, m) ==
    chan' = [chan EXCEPT ![s][r] = Tail(@), ![r][s] = Append(@, m)]

\* r's handler of s's messages is free and a message of this type is next.
Ready(s, r, type) ==
    /\ s # r /\ job[r][s] = Idle /\ chan[s][r] # <<>>
    /\ Head_(s, r).type = type

Become(r, s, op, p, h, d) ==
    job' = [job EXCEPT ![r][s] = [op |-> op, path |-> p, hash |-> h, data |-> d]]
Finish(r, s) == job' = [job EXCEPT ![r][s] = Idle]

\* Tables with one entry per path: Map.set, or filter and push.
Without(S, p) == {e \in S : e.path # p}
Put(S, p, h) == Without(S, p) \union {[path |-> p, hash |-> h]}

------------------------------------------------------------------------------
(* History *)

\* After every step: remember the versions that the tables hold.
Remember ==
    recorded' = [n \in Node |-> recorded[n] \union
        {<<p, sync'[n].local[p]>> : p \in {x \in Path : sync'[n].local[x] \in Hash}}]

\* A message without a hash cannot be told from the next one for its path.
WaiveIfUnhashed(n, p, h) ==
    waived' = [waived EXCEPT ![n] = IF h = None THEN @ \union {p} ELSE @]

------------------------------------------------------------------------------
(* Users and watchers *)

Save(n, p, h) ==
    /\ Spend("edit") /\ UserWrites(n, p, h)
    /\ own' = IF h = None THEN own ELSE [own EXCEPT ![n] = @ \union {<<p, h>>}]
    /\ UNCHANGED <<transferVars, waived>> /\ Remember

Scan(n, p) ==
    /\ ScanFile(n, p)
    /\ own' = IF disk[n][p] = None THEN own
              ELSE [own EXCEPT ![n] = @ \union {<<p, disk[n][p]>>}]
    /\ UNCHANGED <<transferVars, used, waived>> /\ Remember

Watch(n) ==
    /\ \/ \E p \in Path : WatchChange(n, p) \/ WatchDeletion(n, p)
       \/ \E r \in reads[n] : FinishRead(n, r)
       \/ FinishScan(n)
       \/ StartTracking(n)
    /\ UNCHANGED <<transferVars, used, own, waived>> /\ Remember

Stop(n) ==
    /\ Spend("stop") /\ StopTracking(n)
    /\ UNCHANGED <<transferVars, own, waived>> /\ Remember

\* The ignore window closes two seconds after it was opened.  A prompt watcher
\* has seen the write by then.
CloseWindow(n, p) ==
    /\ p \in ignoring[n]
    /\ PromptWatcher => /\ p \notin events[n]
                        /\ \A q \in Peers(n) : job[n][q].op \in {"write", "record"}
                                                 => job[n][q].path # p
    /\ ignoring' = [ignoring EXCEPT ![n] = @ \ {p}]
    /\ UNCHANGED <<disk, sync, tracked, phase, toScan, watched, events, reads>>
    /\ UNCHANGED <<transferVars, used, own, waived>> /\ Remember

ResetStalePending(n) ==
    /\ ResetPending(n)
    /\ waived' = [waived EXCEPT ![n] = @ \union PendingPaths(sync[n])]
    /\ UNCHANGED <<transferVars, used, own>> /\ Remember

------------------------------------------------------------------------------
(* mesh_sync and mesh_broadcast *)

\* The tool reads the file; the content comes back later.
ReadForTool(n, p, to) ==
    /\ tracked[n] /\ tool[n] = NoTool /\ CanServe(n, p)
    /\ tool' = [tool EXCEPT ![n] = [to |-> to, path |-> p, data |-> disk[n][p]]]
    /\ UNCHANGED <<watcherVars, chan, job, inFlight, confirmations, rejections>>
    /\ UNCHANGED <<own, waived>> /\ Remember

Push(n, q, p) == q \in Peers(n) /\ Spend("send") /\ ReadForTool(n, p, {q})

Broadcast(n, p) ==
    /\ sync[n].pending[p] # None
    /\ Spend("send") /\ ReadForTool(n, p, Peers(n))

\* sendFileContent, for one peer or for all: it runs without an await.
SendFileContent(n) ==
    LET to == tool[n].to
        p  == tool[n].path
        h  == GetLocalHash(sync[n], p)
    IN  /\ tool[n] # NoTool
        /\ tool' = [tool EXCEPT ![n] = NoTool]
        /\ chan' = [chan EXCEPT ![n] = [q \in Node |->
               IF q \in to THEN Append(@[q], Content(p, h, tool[n].data)) ELSE @[q]]]
        /\ inFlight' = [inFlight EXCEPT ![n] = [q \in Node |->
               IF q \in to THEN Put(@[q], p, h) ELSE @[q]]]
        /\ WaiveIfUnhashed(n, p, h)
        /\ UNCHANGED <<watcherVars, job, confirmations, rejections, used, recorded, own>>

Pull(n, q, p) ==
    /\ q \in Peers(n) /\ tracked[n] /\ Spend("send")
    /\ ~IsLocallyModified(sync[n], p)
    /\ Send(n, q, Request(p))
    /\ UNCHANGED <<watcherVars, job, tool, inFlight, confirmations, rejections>>
    /\ UNCHANGED <<own, waived>> /\ Remember

\* The flag names the path only: neither the peer nor the answer.
ForcePull(n, q, p) ==
    /\ q \in Peers(n) /\ tracked[n] /\ Spend("force")
    /\ sync' = [sync EXCEPT ![n] = MarkForceAllow(@, p)]
    /\ Send(n, q, Request(p))
    /\ UNCHANGED <<disk, tracked, phase, toScan, watched, ignoring, events, reads>>
    /\ UNCHANGED <<job, tool, inFlight, confirmations, rejections, own, waived>>
    /\ Remember

------------------------------------------------------------------------------
(* file_content_request *)

\* A file that is not tracked gets no answer.
ServeRequest(r, s) ==
    LET p == Head_(s, r).path IN
    /\ Ready(s, r, "file_content_request")
    /\ Take(s, r)
    /\ IF CanServe(r, p) THEN Become(r, s, "serve", p, None, disk[r][p])
                         ELSE UNCHANGED job
    /\ UNCHANGED <<watcherVars, tool, inFlight, confirmations, rejections, used>>
    /\ UNCHANGED <<own, waived>> /\ Remember

\* The read is back: the hash is what the table says now.
SendServed(r, s) ==
    LET p == job[r][s].path
        h == GetLocalHash(sync[r], p)
    IN  /\ job[r][s].op = "serve"
        /\ Finish(r, s)
        /\ Send(r, s, Content(p, h, job[r][s].data))
        /\ WaiveIfUnhashed(r, p, h)
        /\ UNCHANGED <<watcherVars, tool, inFlight, confirmations, rejections, used, own>>
        /\ Remember

------------------------------------------------------------------------------
(* file_content *)

\* Mutant: a conflict is not reported to the sender.
RejectConflict_Silent(r, s) ==
    LET m == Head_(s, r) IN
    /\ Ready(s, r, "file_content")
    /\ IsConflict(sync[r], m.path, m.hash)
    /\ m.path \notin sync[r].forceAllow
    /\ Take(s, r)
    /\ UNCHANGED <<watcherVars, job, tool, inFlight, confirmations, rejections, used>>
    /\ UNCHANGED <<own, waived>> /\ Remember

\* Locally modified, another hash, and no force flag to consume.
RejectConflict(r, s) ==
    LET m == Head_(s, r) IN
    /\ Ready(s, r, "file_content")
    /\ IsConflict(sync[r], m.path, m.hash)
    /\ m.path \notin sync[r].forceAllow
    /\ TakeAndAnswer(s, r, Rejected(m.path, m.hash))
    /\ UNCHANGED <<watcherVars, job, tool, inFlight, confirmations, rejections, used>>
    /\ UNCHANGED <<own, waived>> /\ Remember

\* Only a conflict consumes the flag.  The writer looks for the directory
\* before it starts to write.
AcceptContent(r, s) ==
    LET m == Head_(s, r)
        conflict == IsConflict(sync[r], m.path, m.hash)
    IN  /\ Ready(s, r, "file_content")
        /\ conflict => m.path \in sync[r].forceAllow
        /\ sync' = IF conflict
                   THEN [sync EXCEPT ![r] = DropForceAllow(@, m.path)] ELSE sync
        /\ OpenWindow(r, m.path)
        /\ IF tracked[r]
           THEN Take(s, r) /\ Become(r, s, "write", m.path, m.hash, m.data)
           ELSE TakeAndAnswer(s, r, Rejected(m.path, m.hash)) /\ UNCHANGED job
        /\ UNCHANGED <<disk, tracked, phase, toScan, watched, events, reads>>
        /\ UNCHANGED <<tool, inFlight, confirmations, rejections, used, own, waived>>
        /\ Remember

WriteFile(r, s) ==
    LET j == job[r][s] IN
    /\ j.op = "write"
    /\ disk' = [disk EXCEPT ![r][j.path] = j.data]
    /\ events' = Raised(r, j.path)
    /\ job' = [job EXCEPT ![r][s].op = "record"]
    /\ UNCHANGED <<sync, tracked, phase, toScan, watched, ignoring, reads>>
    /\ UNCHANGED <<chan, tool, inFlight, confirmations, rejections, used, own, waived>>
    /\ Remember

FailWrite(r, s) ==
    LET j == job[r][s] IN
    /\ j.op = "write" /\ Spend("fault")
    /\ Finish(r, s)
    /\ Send(r, s, Rejected(j.path, j.hash))
    /\ UNCHANGED <<watcherVars, tool, inFlight, confirmations, rejections, own, waived>>
    /\ Remember

\* Mutant: the version is confirmed and never recorded.
RecordContent_Unrecorded(r, s) ==
    LET j == job[r][s] IN
    /\ j.op = "record"
    /\ Finish(r, s)
    /\ Send(r, s, Applied(j.path, j.hash))
    /\ UNCHANGED <<watcherVars, tool, inFlight, confirmations, rejections, used, own, waived>>
    /\ Remember

RecordContent(r, s) ==
    LET j == job[r][s] IN
    /\ j.op = "record"
    /\ sync' = [sync EXCEPT ![r] = RecordRemoteChange(@, j.path, j.hash)]
    /\ Finish(r, s)
    /\ Send(r, s, Applied(j.path, j.hash))
    /\ UNCHANGED <<disk, tracked, phase, toScan, watched, ignoring, events, reads>>
    /\ UNCHANGED <<tool, inFlight, confirmations, rejections, used, own, waived>>
    /\ Remember

------------------------------------------------------------------------------
(* file_applied and file_rejected *)

\* The hash that a confirmation of s settles at r, or None: it must match what
\* is in flight to s, where a missing hash matches any.
SettledHash(r, s, m) ==
    LET flights == {e \in inFlight[r][s] : e.path = m.path /\
                        (m.hash = None \/ e.hash = None \/ e.hash = m.hash)}
        h == (CHOOSE e \in flights : TRUE).hash
    IN  IF flights = {} THEN None ELSE IF m.hash # None THEN m.hash ELSE h

\* Mutant: the other peers of a broadcast are not waited for.
Outstanding_OnlyRejections(r, p, h, flights) ==
    \E q \in Node : \E e \in rejections[r][q] : e.path = p /\ e.hash \in {h, None}

\* What still speaks against treating version h of p as synced.
Outstanding(r, p, h, flights) ==
    \/ \E q \in Node : \E e \in flights[q] : e.path = p /\ e.hash = h
    \/ \E q \in Node : \E e \in rejections[r][q] : e.path = p /\ e.hash \in {h, None}

HandleApplied(r, s) ==
    LET m == Head_(s, r)
        p == m.path
        h == SettledHash(r, s, m)
        matches == \E e \in inFlight[r][s] : e.path = p /\
                        (m.hash = None \/ e.hash = None \/ e.hash = m.hash)
        flights == IF matches THEN [inFlight[r] EXCEPT ![s] = Without(@, p)]
                              ELSE inFlight[r]
    IN  /\ Ready(s, r, "file_applied")
        /\ Take(s, r)
        /\ confirmations' = [confirmations EXCEPT ![r][s] = Put(@, p, m.hash)]
        /\ inFlight' = [inFlight EXCEPT ![r] = flights]
        /\ sync' = IF /\ h # None /\ h = GetLocalHash(sync[r], p)
                      /\ ~Outstanding(r, p, h, flights)
                   THEN [sync EXCEPT ![r] = ClearPending(RecordSyncedHash(@, p, h), {p})]
                   ELSE sync
        /\ UNCHANGED <<disk, tracked, phase, toScan, watched, ignoring, events, reads>>
        /\ UNCHANGED <<job, tool, rejections, used, own, waived>> /\ Remember

\* The in-flight record is dropped whatever hash was rejected.
HandleRejected(r, s) ==
    LET m == Head_(s, r) IN
    /\ Ready(s, r, "file_rejected")
    /\ Take(s, r)
    /\ rejections' = [rejections EXCEPT ![r][s] = Put(@, m.path, m.hash)]
    /\ inFlight' = [inFlight EXCEPT ![r][s] = Without(@, m.path)]
    /\ UNCHANGED <<watcherVars, job, tool, confirmations, used, own, waived>> /\ Remember

------------------------------------------------------------------------------
(* Connections and processes *)

\* The connection of two peers is lost and re-established: what either has not
\* received yet is gone.  The transfer tables survive (clearPeerTransientState
\* leaves them alone).
LoseConnection(n, q) ==
    /\ n # q /\ Spend("drop")
    /\ \E i \in 0..Len(chan[n][q]), j \in 0..Len(chan[q][n]) :
           /\ i < Len(chan[n][q]) \/ j < Len(chan[q][n])
           /\ chan' = [chan EXCEPT ![n][q] = SubSeq(@, 1, i), ![q][n] = SubSeq(@, 1, j)]
    /\ UNCHANGED <<watcherVars, job, tool, inFlight, confirmations, rejections>>
    /\ UNCHANGED <<own, waived>> /\ Remember

\* The gateway process ends at any point and starts again.
Restart(n) ==
    /\ Spend("restart") /\ RestartWatcher(n)
    /\ \E lost \in SUBSET Peers(n) :
           chan' = [s \in Node |-> [r \in Node |->
                       IF r = n \/ (s = n /\ r \in lost) THEN <<>> ELSE chan[s][r]]]
    /\ job' = [job EXCEPT ![n] = [q \in Node |-> Idle]]
    /\ tool' = [tool EXCEPT ![n] = NoTool]
    /\ inFlight' = [inFlight EXCEPT ![n] = [q \in Node |-> {}]]
    /\ confirmations' = [confirmations EXCEPT ![n] = [q \in Node |-> {}]]
    /\ rejections' = [rejections EXCEPT ![n] = [q \in Node |-> {}]]
    /\ UNCHANGED <<recorded, own, waived>>

------------------------------------------------------------------------------
(* Specification *)

Init ==
    /\ disk \in InitDisk
    /\ sync = [n \in Node |-> EmptySync]
    /\ tracked = [n \in Node |-> TRUE]
    /\ phase = [n \in Node |-> "scanning"]
    /\ toScan = [n \in Node |-> FilesOnDisk(n)]
    /\ watched = [n \in Node |-> NothingWatched]
    /\ ignoring = [n \in Node |-> {}]
    /\ events = [n \in Node |-> {}]
    /\ reads = [n \in Node |-> {}]
    /\ chan = [s \in Node |-> [r \in Node |-> <<>>]]
    /\ job = [r \in Node |-> [s \in Node |-> Idle]]
    /\ tool = [n \in Node |-> NoTool]
    /\ inFlight = [n \in Node |-> [q \in Node |-> {}]]
    /\ confirmations = [n \in Node |-> [q \in Node |-> {}]]
    /\ rejections = [n \in Node |-> [q \in Node |-> {}]]
    /\ used = [k \in DOMAIN Budget |-> 0]
    /\ recorded = [n \in Node |-> {}]
    /\ own = [n \in Node |-> {}]
    /\ waived = [n \in Node |-> {}]

UserStep ==
    \/ \E n \in Editors, p \in Path, h \in HashOrNone : Save(n, p, h)
    \/ \E n \in Senders, p \in Path :
           \/ Broadcast(n, p)
           \/ \E q \in Node : Push(n, q, p) \/ Pull(n, q, p) \/ ForcePull(n, q, p)
    \/ \E n \in Node : Stop(n) \/ ResetStalePending(n)

\* One node's watcher and tool, and its handler of one peer's messages.
NodeStep(n) ==
    \/ \E p \in Path : Scan(n, p) \/ CloseWindow(n, p)
    \/ Watch(n)
    \/ SendFileContent(n)

HandlerStep(r, s) ==
    \/ ServeRequest(r, s) \/ SendServed(r, s)
    \/ RejectConflict(r, s) \/ AcceptContent(r, s)
    \/ WriteFile(r, s) \/ RecordContent(r, s)
    \/ HandleApplied(r, s) \/ HandleRejected(r, s)

FaultStep ==
    \/ \E r, s \in Node : FailWrite(r, s) \/ LoseConnection(r, s)
    \/ \E n \in Node : Restart(n)

Next ==
    \/ UserStep
    \/ \E n \in Node : NodeStep(n)
    \/ \E r, s \in Node : HandlerStep(r, s)
    \/ FaultStep

Spec == Init /\ [][Next]_vars

\* The event loop of a running process gets to every handler whose turn came,
\* and a read, a write and a sent message complete.
FairSpec ==
    /\ Spec
    /\ \A n \in Node : WF_vars(NodeStep(n))
    /\ \A r, s \in Node : WF_vars(HandlerStep(r, s))

------------------------------------------------------------------------------
(* Properties *)

TransferTypeOK ==
    /\ chan \in [Node -> [Node -> Seq(Msg)]]
    /\ job \in [Node -> [Node -> Job \union {Idle}]]
    /\ tool \in [Node -> Tool \union {NoTool}]
    /\ inFlight \in [Node -> [Node -> SUBSET Sent]]
    /\ confirmations \in [Node -> [Node -> SUBSET Sent]]
    /\ rejections \in [Node -> [Node -> SUBSET Sent]]
    /\ used \in [DOMAIN Budget -> Nat]

HistoryTypeOK ==
    /\ recorded \in [Node -> SUBSET (Path \X Hash)]
    /\ own \in [Node -> SUBSET (Path \X Hash)]
    /\ waived \in [Node -> SUBSET Path]

\* Every variable has the type that the code's data structures give it.
TypeOK == WatcherTypeOK /\ TransferTypeOK /\ HistoryTypeOK

\* A version that is neither pending nor waived is held, or was held, by a peer:
\* a change leaves the pending list only when somebody else has it
\* (the file_applied handler of transport.ts, with every path by which the
\* tables of SyncState are written).
ChangeShared(n, p) ==
    /\ sync[n].local[p] \in Hash
    /\ sync[n].pending[p] = None
    => p \in waived[n] \/ \E q \in Peers(n) : <<p, sync[n].local[p]>> \in recorded[q]

NotPendingMeansShared == \A n \in Node, p \in Path : ChangeShared(n, p)

\* Whatever the messages and handlers say about a version is true: n has, or
\* had, the version h of p, or n has sent p without a hash.
Backed(n, p, h) == IF h = None THEN p \in waived[n] ELSE <<p, h>> \in recorded[n]

MessageBacked(s, r, m) ==
    /\ m.type = "file_content" => Backed(s, m.path, m.hash)
    /\ m.type = "file_applied" =>
           IF m.hash = None THEN m.path \in waived[r] ELSE <<m.path, m.hash>> \in recorded[s]

LocalRecorded ==
    \A n \in Node, p \in Path :
        sync[n].local[p] \in Hash => <<p, sync[n].local[p]>> \in recorded[n]

MessagesBacked ==
    \A s, r \in Node : \A i \in 1..Len(chan[s][r]) : MessageBacked(s, r, chan[s][r][i])

JobsBacked ==
    \A r, s \in Node :
        job[r][s].op \in {"write", "record"} =>
            s # r /\ Backed(s, job[r][s].path, job[r][s].hash)

\* A file_content message offers a version that its sender had, and a
\* file_applied message confirms one that the confirming peer had: the
\* confirmation is sent after recordRemoteChange (transport.ts, the
\* file_content handler).
Backing == LocalRecorded /\ MessagesBacked /\ JobsBacked

\* Feedback loop prevention: what a prompt watcher lists as a pending local
\* change was saved by the user of this node or found by one of its scans; a
\* received file is never offered back to the mesh as an edit
\* (ignoreNextChange, file-watcher.ts handleFileChange).
NoEcho ==
    PromptWatcher =>
        \A n \in Node, p \in Path :
            sync[n].pending[p] # None => <<p, sync[n].pending[p]>> \in own[n]

\* A confirmation for one version never clears another: when the file_applied
\* handler takes a path off the pending list, the version it takes for synced
\* was confirmed by this peer, and no peer has this version still in flight.
ClearedByConfirmation ==
    [][\A n, q \in Node, p \in Path :
         (/\ sync[n].pending[p] # None /\ sync'[n].pending[p] = None
          /\ inFlight'[n][q] # inFlight[n][q])
         => /\ <<p, sync[n].local[p]>> \in recorded[q] \/ p \in waived[n]
            /\ \A x \in Node : [path |-> p, hash |-> sync[n].local[p]] \notin inFlight'[n][x]
      ]_vars

\* Without lost connections and restarts every push is answered: it does not
\* stay in flight (transport.ts, the file_content, file_applied and
\* file_rejected handlers).
PushAnswered ==
    \A n, q \in Node, p \in Path :
        (\E e \in inFlight[n][q] : e.path = p)
            ~> (used.drop + used.restart > 0 \/ ~\E e \in inFlight[n][q] : e.path = p)

\* An edit that the tables list as pending and that nobody else has.
UnsentEdit(n, p) ==
    /\ disk[n][p] # None /\ disk[n][p] = sync[n].pending[p]
    /\ <<p, disk[n][p]>> \in own[n]
    /\ \A q \in Peers(n) : <<p, disk[n][p]>> \notin recorded[q] \union own[q]

\* "If local changes would be overwritten, the incoming file is not written"
\* (src/README.md:159): without force the file_content handler does not accept
\* a file for a path with an unsent edit.
AcceptKeepsUnsentEdit ==
    [][\A r, s \in Node :
         job[r][s] = Idle /\ job'[r][s].op = "write" =>
             \/ job'[r][s].path \in sync[r].forceAllow
             \/ ~UnsentEdit(r, job'[r][s].path)]_vars
==============================================================================
