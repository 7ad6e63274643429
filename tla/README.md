# A TLA+ development of the OpenClaw mesh extension

The extension (`src/index.ts`, `src/src/*.ts`) connects OpenClaw gateways on a
LAN into a mesh: gateways find each other by mDNS, approve each other once, keep
a tracked directory in step by explicit pushes and pulls, and run each other's
advertised capabilities.  This directory holds TLA+ modules translated from that
code, the configurations that model-check them, and proofs about them.

## 1. Inventory

Every gateway is one Node process with a single-threaded event loop.  Nothing
runs in parallel inside it; everything interleaves at `await`s, timers and
socket callbacks.

| Component | State | Operations | Talks to |
|---|---|---|---|
| Sync state (`sync-state.ts`) | `fileVersions`, `lastSyncedHashes`, `pendingChanges` (all persisted synchronously), `forceAllowSet` (memory only), `peerSentHashes` (own file) | record local / remote change, record synced hash, clear pending, remove, mark all synced, force flags | called by watcher, transport, tools |
| File watcher (`file-watcher.ts`) | `watchedFiles`, `ignoreChanges` (path -> end of window), fs.watch handle | change and deletion handlers, initial scan, start/stop, `getFileContent`, `ignoreNextChange` | sync state; transport through callbacks wired in `index.ts` |
| Transport: files (`transport.ts`) | `inFlightSends`, `remoteAppliedFiles`, `remoteRejectedFiles`, `remoteManifests`, one promise queue per peer | `sendFileContent` (direct, chunked or as a patch), handlers of `file_content`, `file_content_request`, `file_applied`, `file_rejected`, `file_deleted`, `manifest` | sync state, file writer, watcher |
| Transport: chunks | `chunkAssemblies` (temporary file, next index) | `file_chunk` handler, chunk loop of `sendFileContent` | as above |
| Transport: sessions | `connections`, `pendingConnections`, `approvedPeers`, `challengeNonces`, `remoteNodeInfo` | dial, accept, identity challenge and proof, approve, deny, close, keepalive | `peer-identity.ts` (trust file), tools approve/reject |
| Transport: capabilities | `pendingExecutions` with timers, `previewRequests` | request, remote execution, result, time out | `capability-registry.ts`, tools |
| Event store (`events.ts`) | persisted list of events, dedupe index | add, acknowledge, mark delivered, prune, expire | `index.ts`, tools |
| Urgent notifications (`urgent-notifications.ts`), session target | debounce and cooldown timers, remembered session | schedule, deliver | event store, host |
| Patches (`diff-engine.ts`, `patch-apply.ts`, `shadow-store.ts`) | shadows of sent versions on disk | diff, apply, read/write shadow | transport |
| Discovery (`discovery.ts`) | table of peers | note, up, down, scan | transport (dial) |
| Validation (`protocol-validation.ts`, `path-safety.ts`) | none | parse, check | transport |
| Tools (`tools/*.ts`) and wiring (`index.ts`) | `currentTrackDir`, `fileWatcher` | user commands, gateway start and stop | everything |

What is hard, per component, and what makes it correct:

* **File synchronisation** (watcher, tables, transfer): asynchronous
  notifications, an ignore window measured in time, unserialised reads, handlers
  of several peers, confirmations of old versions, lost messages, failed writes,
  restarts that keep half of the state.  Correct: no unshared edit is forgotten
  or overwritten without force; no received file is echoed as an edit; every
  push is answered; a confirmation settles only what was confirmed.
* **Sessions**: close events of replaced sockets, simultaneous dialling, messages
  queued before an approval.  Correct: only proven and approved peers have their
  messages handled as approved; a denied peer is gone.
* **Chunks**: interrupted transfers, the order of the in-flight record and the
  confirmation.  Correct: a file is either assembled completely or not written.
* **Capabilities, previews**: timeouts against late answers.  Correct: every
  request ends exactly once.
* **Event store, notifications**: bounds, deduplication, cooldown, injections that
  are awaited and may fail.  Correct: nothing counts as told that was not; nothing
  unread is given up for something read; what can be told is told.
* **Patches**: the patch that the sender computes is one that the receiver
  accepts and that yields the sender's content.

`PROJECT.json` lists the hazards at their lines, with the properties that cover
them or the reason that none does.

## 2. Plan, and what became of it

1. `SyncState`, `FileWatcher`, `FileSync` with their runs and proofs.
2. `PeerSession`: sockets, handshake, approval, close, keepalive, restart, with proofs.
3. `LargeTransfer`: the chunk loop, the assembly and the patch path, with
   `WholeFiles`, the abstract specification that it implements, and the proof of it.
4. `Requests`: capability executions and previews, which share the timers.
5. `EventStore` as operators, `Notifications` as the process over it, with proofs.
6. `PatchEngine`: the diff and its application as recursive functions.

These are done.  `EXTENDS` composes the modules that share state (`FileSync` over
`SyncState` and `FileWatcher`; `Notifications` over `EventStore`).  Sessions, transfers,
requests and notifications meet only at a connection that comes and goes, so
each has its own module in which the others appear as such: a connection is made
and lost in one step outside `PeerSession`.

What could follow: an abstract pending list that `FileSync` implements; and the
table of `Discovery`.

## 3. Modules and how they correspond to the code

### SyncState

A record per node with the tables of `createSyncState`, and one operator per
method.  A hash stands for the content it is computed from.  `None` is a missing
entry; `Blank` is the empty string that `recordRemoteChange` stores when a
message has no hash, which the code's truthiness tests treat as missing and its
`has` tests do not.  Version numbers and times are left out (display only).
`Reloaded` is what a new process reads back: everything but the force flags.

### FileWatcher

`disk` is the tracked directory; `events` the notifications of fs.watch that
were not delivered yet; `reads` the handlers that await a read, with what the
read will return and whether they started inside the ignore window; `watched`
the cache; `phase` and `toScan` the start-up scan.

| Action | Code |
|---|---|
| `UserWrites` | the environment: an editor saves or deletes |
| `WatchChange`, `FinishRead` | `handleFileChange` before and after its await |
| `WatchDeletion` | the ENOENT branch of fs.watch's callback, `handleFileDeletion` |
| `StartTracking`, `ScanFile`, `FinishScan` | `startFileWatcher`, `syncAllFiles`, `start` with `markAllSynced` |
| `StopTracking`, `RestartWatcher` | `stopFileWatcher`; end of the process and `gateway_start` |
| `ResetPending` | `ensureTrackedDirectory`'s clearing of the pending list |
| `OpenWindow`, `CloseWindow` (in `FileSync`) | `ignoreNextChange` and the passage of `IGNORE_WINDOW_MS` |

A read returns the content at the moment it begins; a file that changes during a
read raises another notification.  `PromptWatcher = TRUE` states the assumption
behind the ignore window: a write and its notification take less than two
seconds.  With `FALSE` the window may close at any time.

### FileSync

`chan[s][r]` is the FIFO of messages from `s` to `r`: bytes on the connection and
the promise queue of `r` alike.  `job[r][s]` is the point at which `r`'s handler of
`s`'s messages awaits: while it does, the next message of `s` waits
(`peerMessageQueues`), those of other peers do not.  `tool[n]` is a push or
broadcast that awaits its file.

| Action | Code |
|---|---|
| `Push`, `Broadcast`, then `SendFileContent` | `mesh_sync push`, `mesh_broadcast`: `await getFileContent`, then `sendFileContent` |
| `Pull`, `ForcePull` | `mesh_sync pull`, with `force` |
| `ServeRequest`, `SendServed` | `file_content_request` before and after its read |
| `RejectConflict`, `AcceptContent`, `WriteFile` / `FailWrite`, `RecordContent` | `file_content`: conflict check, ignore window, `await fileWriter`, `recordRemoteChange` and `file_applied`, or the catch |
| `HandleApplied`, `HandleRejected` | `file_applied`, `file_rejected` |
| `LoseConnection` | a closed socket and a reconnection: a suffix of what was sent each way is lost |
| `Restart` | the process is killed and started: memory is lost, the persisted tables and the disk are not |

A write and the continuation after it are two steps, so the watcher may see the
file before `recordRemoteChange` runs.  Four history variables record what the
code does not: the versions that a node's tables have held (`recorded`), the
contents that its user or a scan produced (`own`), the pushes of the current
version (`sent`), and the paths for which the code gave up its bookkeeping
(`waived`: `ensureTrackedDirectory` dropped the pending list, or a message went
out without a hash).

### PeerSession

A link is one WebSocket, numbered by its dial; its two ends are `none`,
`connecting`, `open`, `closing` or `closed` independently, and `up` says whether the
network still carries it.  What an end sends is in `chan` until the other end
receives it; a message that was received waits in `queue`, the promise queue of
its *name*, with the `approved` flag that was taken on arrival.  `pend`, `conns`,
`nonce`, `remote` are the maps of `createTransport`, kept by name; `trusted` and `key`
are `trusted-peers.json` and `identity.json`, which survive a restart.

| Action | Code |
|---|---|
| `Dial`, `Open` | `connectToPeer` up to the await, and its `open` callback |
| `Accept` | the server's `connection` callback |
| `Receive`, then `Handle` | `setupSocket`'s `message` callback, then `enqueueMessage` and `handleMessage` |
| `HandleChallenge`, `HandleProof` | `identity_challenge`, `identity_proof` (`handleVerifiedIdentity`) |
| `HandleApproval`, `HandleDenial` | `approval_response` |
| `HandleState`, `HandleRequest` | `node_info`, `manifest`, `manifest_request` |
| `HandleFile`, `FinishFile` | a handler that awaits: later messages of the same name wait for it |
| `Approve`, `Deny`, `SendFile` | `mesh_approve`, `mesh_reject`, `mesh_broadcast` |
| `CloseEvent` | the `close` callback, which deletes by name |
| `MissedPing` | the keepalive interval of `start` |
| `LinkFails` | the environment: the network stops, nobody is told |
| `Restart` | the process is killed and started, with the files it left or without `identity.json` |

Names matter: a dialler files a peer under the name that it dialled, and
`mesh_discover`, the only caller of `connectToPeer`, dials `manual-<host>`; the
listener uses the name in the request's header.  `DialName` gives the first; the
runs use both that form and plain names, as the tests do.

Three points of the event loop are kept because results depend on them.  All
messages of one TCP segment are received, and their flags taken, before the
first is handled (`batch`).  A handler that awaits delays its own name only
(`busy`).  Everything else that a gateway does between two callbacks is
microtasks: it touches other gateways through FIFO channels alone, so no other
step needs to come in between (`Quiet`), which removes interleavings that no one
can observe.

Nonces are named by the link they were made for and signatures are assumed
sound: a proof answers exactly the challenge it carries, with the key of the node
that sent it.  A restart may come with any key of `Key`.

### LargeTransfer and WholeFiles

One file, one sender, one receiver.  A version stands for a content and its hash;
`file` and `table` are apart because the content is read from disk and the hash
from the tables.  `sends` are the running chunk loops, `tmp[t]` the pieces in the
temporary file of transfer `t`, `assemblies[t]` its entry in `chunkAssemblies`.
`handler` is the await at which the receiver's handler of a chunk stands; the next
message waits for it.

| Action | Code |
|---|---|
| `Skip`, `PushPatch`, `PushChunks` | `sendFileContent`: unchanged since the last send; a shadow exists; otherwise |
| `SendChunk`, `Drained`, `LoopEnds` | the loop: a chunk, `waitForDrain`, and the in-flight record after the last |
| `HandleChunk`, then `Open`, `AppendChunk` | `file_chunk`: the first chunk makes the temporary file, each is appended |
| `CheckHash`, `Discard`, `Move`, `MoveFails` | after the last chunk: hash, conflict, removal or rename, answer |
| `Refuse` | a message whose type is not accepted (`file_patch`) |
| `Pull`, `SenderHandles` | `mesh_sync pull`; the sender's `file_content_request`, `file_applied`, `file_rejected` |
| `Drop`, `Removed`, `Connect` | the connection is lost, `clearPeerTransientState` removes temporary files without waiting; a new one |
| `Edit`, `Watch`, `EditOwn` | the users and the sender's watcher |

`WholeFiles` has no chunks, no queue and no connection: the receiver's copy is
replaced by an offered version, whole, or edited, and a version is confirmed only
after it has replaced the copy.  `ImplementsWholeFiles` says that `LargeTransfer`
implements it, with `offered` as the versions that were pushed and the other
variables as the histories of the same names.

### Requests

`pendingExecutions[n]` and `previewRequests[n]` are the maps of `createTransport`,
`timers[n]` the timers that are set, which may fire at any time.  An entry carries
the number under which `log` or `shown` follows it; a message carries the number of
the request it is about, which no guard reads.

| Action | Code |
|---|---|
| `Advertise`, `HandleNodeInfo` | `mesh_advertise` and the requests that a new capability starts by itself |
| `Ask`, `HandleExecute`, `Respond`, `HandleResult` | the two tools and the two handlers of an execution |
| `ExecutionTimeout`, `PreviewTimeout` | the callbacks of the two timers |
| `StartDiff`, `NextPreview`, `EndDiff` | `mesh_diff`, its loop over the files with one awaited preview each, its end |
| `HandlePreviewRequest`, `HandlePreviewResponse` | `file_preview_request`, `file_preview_response` |
| `Connect`, `LinkDown`, `Notice` | a connection; its end; each end's close event with `clearPeerTransientState` |
| `Stop` | `transport.stop()`, in a process that goes on or exits |

### EventStore and Notifications

`EventStore` has one operator per method of `createMeshEventStore`, on the set of
records; ids grow, so the order of the list is that of the ids.  `Notifications`
is the part of `index.ts` that uses it, with the urgent scheduler and the session
target.

| Action | Code |
|---|---|
| `Occur` | `enqueueEvent`: `addEvent`, then `schedule()` up to its first await, or a digest |
| `ChatDone` | the chat injection returns or throws; then the system event, or a digest |
| `AgentEvent`, `Ack` | the agent subscription and `mesh_ack`, which both set the session |
| `Heartbeat`, `DigestDone`, `DigestFails` | `heartbeat_prompt_contribution`; `tryInjectDigest` after its await |
| `Tick`, `Restart` | the clock; a new process, which reads `events.json` and `active-session.json` |

### PatchEngine

The functions of `diff-engine.ts` and `patch-apply.ts` on sequences of lines, written
as recursive functions and folds; the state machine around them is the author who
edits the text and pushes now and then, so that every pair of a shadow and a text
within the bound occurs.

## 4. Runs

### FileSync

Two or three gateways, one file, two contents.  One file is enough because no
handler relates two paths; two contents because every comparison in the code is
between two hashes.  The bounds count user actions and faults (`MaxEdits` ..
`MaxFaults`), never the program's own steps, so the system stops when they are
spent (`CHECK_DEADLOCK FALSE`).

| Run | Edits, sends, force, drops, restarts, stops, faults | Shows |
|---|---|---|
| `FileSyncCore` | 2 2 0 0 0 0 0, prompt watcher | types; no echo |
| `FileSyncFaults` | 1 1 1 1 1 0 1, late watcher | nothing unshared is forgotten, without the timing assumption, with forced pulls, a lost connection, a failed write and a restart; every message is backed by a version that existed |
| `FileSyncThree` | 0 2 0 1 0 0 1, three gateways | one peer's confirmation does not settle another version or peer |
| `FileSyncLive` | 1 1 0 0 0 1 1 | every push is answered, also by a gateway that stops tracking |

Two edits and two sends let an edit overtake a push, a confirmation meet a newer
version, and a conflict arise; a third of either adds no new kind of
interleaving and takes the state space out of reach.  `NoEcho` is checked without
`mesh_track stop`: a gateway that stops and starts tracking while a received file
is still being written forgets its ignore window with the old watcher, and the
new one lists the file as an edit.

### PeerSession

Two gateways (no step of a session involves a third), two keys, at most two links.
An instance starts from one of several budgets (`Safety`, `Live` in
`MCPeerSession`), so that each combination of disturbances is explored without
their product.

| Run | Budgets: names, initial trust, dials, others | Shows |
|---|---|---|
| `SessionSafety` | `manual-`, listener knows the dialler, 2 dials, a restart; plain names, strangers, each dials once; `manual-`, strangers, 2 dials; `manual-`, strangers, 1 dial, a restart, a failure | types; an admitted key is the trusted key; no entry outlives its socket; nobody is connected without both users; an entry is proven on its own socket; an approval meets its proof unless another link took the name |
| `SessionLive` | `manual-`, strangers or known, 1 dial, a restart, a failure, a file | approvals complete; trusted peers join; both ends let go of a lost link |

Two links are what a simultaneous dial, a replaced socket and a late close need.
The budgets are complementary: names that collide only when both dial by plain
names, and a socket that is replaced only when a process restarts.

Trust is one-sided after a reinstallation: if the listener lost `identity.json` and
still trusts the dialler, it joins at once while the dialler, who knew another
key, ignores the approval until a user decides.  `ApprovalCompletes` names this
exception.

### LargeTransfer, Requests, Notifications, PatchEngine

| Run | Bounds | Shows |
|---|---|---|
| `LargeTransfer` | two versions of two chunks, two transfers, six budgets (two pushes and an edit, as text or binary; a lost connection; a pull against an edit; a file that the tables do not know yet) | one outcome per transfer; the tables agree with the disk; no record is left behind except where the code leaves it; the transfer implements `WholeFiles` and ends |
| `Requests` | three gateways, one chosen id, two capabilities, two files, eight budgets | types; one entry and one timer per request; each ends at most once, by its own answer, and does end; a capability is asked for once; `mesh_diff` waits only for a preview that is still open, compares a file with itself and ends |
| `Notifications` | a list of two events, two kinds, one session, a clock of up to three ticks, five budgets | nothing is marked as told that was not; a burst is one record; wakes keep apart; unread events survive; what can be told is told |
| `Patches` | texts of up to six lines over two different lines, one line of context | the edit script is a shortest one; the patch gives the text or is refused |

Two chunks are a first and a last one, and a third repeats the first two; two
transfers are what an overtaken or repeated push needs.  Three gateways are what
an answer from the wrong peer needs.  The windows and lifetimes are one or two
ticks, so that a step of the clock passes or does not pass each; a list of two
events is full with the second, and the third prunes.  `MAX_EVENTS` and the windows
are parameters, and the theorems of section 5 hold for all their values.  With one
line of context six lines are enough for two hunks apart.

`QuietMeansSettled` names what the code does leave behind: the record of a patch,
that of a transfer that lost its connection, and that of one that was answered
before its loop ended (`transport.ts:1864` sets the record after the last chunk was
drained, when the answer may already have been handled).  `AnswerMatches` holds
for ids that two gateways have not used twice between them.  `WakesApart` allows
for an awaited chat injection: the cooldown is tested before it and set after it.
`EventTold` is checked under `FairSpec`, and exempts what expires, is given up or
is acknowledged.

### What the documentation says and the code does not do

Two runs expect a violation; each refutes a sentence of `src/README.md` with an
execution of the code:

| Run | Property | Execution |
|---|---|---|
| `RestartForgetsEdit` | `AcceptKeepsUnsentEdit` | an edit is pending, the gateway restarts, `markAllSynced`: a push from a peer overwrites it |
| `PatchDropped` | `PushArrives` | a text is pushed, edited and pushed again: the second push is a `file_patch`, which the receiver's validation drops; a third push is skipped because the version counts as sent |

The same holds of files that the scan at the start of tracking finds: they are
recorded as local changes and at once marked as synced.

Further executions of the code that a reader should know of, and that limit what
the properties can say:

* `transport.ts:951`: the conflict check precedes the awaited write, and an edit
  recorded in between is overwritten; likewise the rename of a chunked file (894).
* `transport.ts:1259`: a write fails and is rejected, the retry of the same version
  succeeds and is confirmed, and the change stays pending, because a rejection is
  kept until the same peer rejects the path again.
* `transport.ts:1457`: `node_info` that arrives in one segment with the approval is
  flagged before the approval is handled, and dropped; it is not asked for again.
* `transport.ts:694`: a gateway dials a listener that trusts it twice before the
  first socket opens; the second opens first and its approval is on the way when the
  first opens and overwrites the pending entry: the approval meets an entry that
  waits for another socket's proof, and is ignored.  `ApprovalFindsProof` names this
  exception (`OtherLink`).
* `transport.ts:1468`: a trusted peer restarts and redials before the listener sees
  its old socket close; that close deletes the new pending entry.
* `transport.ts:353`: the removal of a temporary file does not wait for an append
  that is under way, which may create the file again with its own piece only.  A
  hash catches that (868), but a file that the sender's tables do not name is sent
  without one.  The model keeps a hash that matches no version (`Torn`) for what is
  torn, and the run starts from a file without an entry only in a budget without a
  lost connection.
* `diff-engine.ts:104`: the counts of a hunk are taken from its first and last line;
  if one of them is added or removed the counts are wrong in many cases, and
  `applyUnifiedPatch` refuses the patch.  `PatchGivesText` therefore asks for the
  text only where every hunk begins and ends with context, and otherwise for the
  text or a refusal.  About half of the pairs of short texts are refused.
* The hash of a `file_content` message is read from the tables after the file was
  read, so a push that overtakes the watcher sends new content under the old hash.
* A user's save within two seconds of a received write is recorded as synced.
* `transport.ts:1296`: a rejection of one version removes the in-flight record of
  the next, while a push without a hash, of a file deleted during its read, is
  settled by any confirmation (1255); `ClearedByConfirmation` is stated so that it
  is true of the code as it is, by asking only for versions still in flight and
  paths that were never sent without a hash.

### Fairness

`FairSpec` of `FileSync` asks for weak fairness of each node's own steps (watcher,
scan, tool) and of each handler of each peer; that of `PeerSession` for weak
fairness of accepting, opening, receiving, handling, of the close events of ends
that are over, and of the keepalive.  The event loop is a queue: a callback that
is ready runs, and the promises of reads, writes and sends settle; the
interval timer of `start` ticks.  A close event for an end whose network failed
silently is *not* fair: only the keepalive may be relied on.  `LargeTransfer` asks
for it of its sender's and receiver's own steps, `Requests` of the whole of the
event loops (queued messages, timers, awaits, close events).  `Notifications` asks
for heartbeats, for the end of every injection, and, the one strong fairness, that
an injection which is tried again and again is accepted in the end: a host that
refuses for ever tells the user nothing.  Users, faults, restarts and lost
connections are never assumed to happen.

## 5. Proofs

`SyncStateProofs` states what every table operator returns and changes.
`FileSyncTypeProofs` proves `TypeCorrect == Spec => []TypeOK`, a lemma per action.
`FileSyncProofs` proves

* `SharedCorrect == Spec => []NotPendingMeansShared`: a version that is neither
  pending nor waived is, or was, held by a peer;
* `BackingCorrect == Spec => []Backing`;
* `ConfirmationsSettleTheirOwn == Spec => ClearedByConfirmation`, an action property;
* `NothingEchoed == Spec => [](used["stop"] = 0 => NoEcho)`

for any sets of nodes, paths and hashes and any bounds, from the assumptions that
the two marks `None` and `Blank` are not hashes, the initial directories are
well-typed, the users are nodes and the bounds are numbers.

`NotPendingMeansShared` is not inductive: the step that clears a pending entry
relies on what a `file_applied` message says.  `IInv` adds `TypeOK` and `Backing`:
the tables hold only recorded versions, a `file_content` message or an accepted
file names a version of its sender (or the sender's path is waived), and a
`file_applied` message a version of its author.  `recorded` and `waived` only grow,
so what is backed stays backed, and each action has to account only for the one
message, handler or table entry it adds.  TLC checks `Backing` in
`FileSyncFaults`.

`ClearedByConfirmation` follows from the same invariant: only the handler of a
`file_applied` changes a peer's in-flight records and the pending list in one step, it
clears the path only if the last sent version is the confirmed one, and the
message is backed.  `NoEcho` needs `Owned`: a pending version, a read outside the
ignore window and a notification outside it are about what the user wrote
(`PendingOwned`, `ReadsOwned`, `NewsOwned`), and a write is under way only inside the
window of its path (`WritesIgnored`, `TrackedOn`).  The step that matters is the write
of a received file: it changes the disk under notifications that were about the
user's content, and only the window, which `AcceptContent` opened before, excuses
them.  `mesh_track stop` closes the windows with writes under way, hence the
hypothesis; a restart ends the writes as well, and is covered.

`NotificationsProofs` begins with what the operators of `EventStore` keep: types, ids,
the bound `MAX_EVENTS`, that deduplication keeps equal events a window apart, and
whom `prune` gives up.  It proves, for any keys, sessions, bounds, windows and
lifetimes,

* `TypeCorrect == Spec => []TypeOK`, with the bound on the list;
* `DeliveredOnlyWhenTold == Spec => []DeliveredWasTold`;
* `BurstsAreOneRecord == Spec => []BurstIsOneRecord`;
* `WakesAreApart == Spec => []WakesApart`;
* `UnreadAreKept == Spec => UnreadSurvives`, an action property.

`IInv` is `TypeOK` and the two other invariants with what their steps need: ids are
older than `next` and belong to one record each, no record is from the future, and
what a running injection names has an id.  `BurstIsOneRecord` is preserved by the
case that matters, a new event: if a record of its kind is within the window it is
taken up again, and the newest is the one taken up, so the distance to the others
does not shrink.  `UnreadSurvives` needs the uniqueness of ids: a record that is
gone from the ids is gone from the list, and only expiry and `prune` do that.
`WakesApart` needs to know of the log of wakes (`WakeLog`) that its last entry is the time
that the cooldown is counted from, and that a wake that was not awaited is no earlier
than those before it: an awaited one is logged under the time of its event, when
its injection ends, and may be out of order.

`LargeTransferProofs` proves, for any versions, any number of chunks and transfers
and any bounds, from `LargeTransferAssumption` (the marks `None`, `Own` and `Torn` are
no versions, there is at least one chunk, the bounds are numbers) and `NoneAssumption`
(`None` is no number, no sequence of pieces and no handler),

* `TypeCorrect == Spec => []TypeOK`;
* `RecordCorrect == Spec => []RecordIsOnDisk`;
* `OneOutcomeCorrect == Spec => []OneOutcome`;
* `SettledWhenQuiet == Spec => []QuietMeansSettled`.

`OneOutcome` is not inductive: whether a transfer can still be applied depends on
the chunks in the queue.  `IInv` says that the chunks of a transfer are queued in the
order of their numbers (`InOrder`), that those in the queue have numbers from the
assembly's next one on and below what its loop has sent (`AllFrom`, `AllBelow`), and
the handler's chunk lies between.  So the handler of a last chunk leaves none behind
(what is applied cannot be rejected later), and a transfer rejected at a later chunk
has no first chunk left to open another assembly (what is rejected cannot be applied).
Steps that only give something up (a message, a loop, an assembly, a file, the
handler) share one lemma, `GivenUp`.

`QuietMeansSettled` speaks only of states in which nothing is under way, so its
invariant `QInv` has to say of all others where each transfer stands.  A transfer is
`Live` if it was started and neither answered nor cut by a lost connection.
`Progress`: a live one is on its way, that is, its last chunk is still to be sent, is
queued, or has a handler, or its answer is queued.  `TagsOK`: the chunks, the
handler, the loop and the in-flight record of one transfer agree on its hash, and so does a
`file_applied` that answers it; hence the confirmation finds its record.
`RecordOK`: a record is of a patch or of a transfer whose loop has ended, and stays
after the answer only if that came early.  `LoopsOK` and `HashedOK` exclude the loop that
would wait for a connection that is gone, and the answer that is never sent because the
temporary file is missing.

`LargeTransferRefinement` proves `TransfersAreWhole`: if every budget has `known`, that
is, the sender's tables know the file at the start, then
`Spec => ImplementsWholeFiles`.  `WholeOK` says that every loop, queued chunk, handler
and piece carries a pushed version and a hash, and every `file_applied` the hash of a
version that has replaced the copy.  A push maps to `Offer`, `Move` to `Apply`,
`EditOwn` to `Edit`, the sender's handling of `file_applied` to `Confirm`, and every other
step to a stutter.  Without `known` the statement is false: the fragment described in
section 4 has no hash to be compared with.

`PeerSessionProofs` proves, for any nodes, names, keys, dials and budgets, from
`SessionAssumption` (a node's own name is a name, the manual name of a node is no
other node's name, `None` is neither a name nor a key),

* `TypeCorrect == Spec => []TypeOK`;
* `EntriesCorrect == Spec => []EntriesAreOpen`;
* `ProvenCorrect == Spec => []ProvenOnThisSocket`;
* `ConsentCorrect == Spec => []MutualConsent`;
* `TrustedCorrect == Spec => []AdmittedKeyTrusted`;
* `ApprovalCorrect == Spec => []ApprovalFindsProof`.

The first four are conjuncts of one invariant, `IInv`, because none is inductive alone.  The
tables are kept by name and sockets are closed by link, so `EntriesOK` says that every
entry's link belongs to its name and that a connection and a pending connection of
one name have different links: then closing one entry's socket touches no other
entry.  For `MutualConsent`, `IInv` says where consent has been given before: the
dialler of every link has agreed (`LinkOK`), so has who trusts a name (`TrustOK`), and
so has who sent an approval that is still on the wire (`OnWire`) or in a queue
(`InQueue`).  A name stands for one node (`DialNames`), so the approval that is handled
under a name is that of the peer at the other end.  Three lemmas (`KeptEntries`,
`WireStays`, `QueueStays`) carry this over every step that drops entries or grows
consent, and each action has to account for the one entry or message it adds.

`AdmittedKeyTrusted` has an invariant of its own, `KInv`, because of one case.  A
challenge is sent on the socket of a pending entry, the user denies the entry, the
name has a connection on another socket when the proof is handled, and the handler
overwrites that connection's key.  It is the same key: whoever may still answer a
dial of the name (`Dialling`) has the key of the connection (`Answers`), since the
dial is older than the connection and a restart of the peer would have closed it.
`KeyWire` and `KeyQueue` say that the challenges and proofs under way fit this.
`Steady` is what a step must leave alone for a challenge or proof under way to stay
right, for one name; `Frame` requires it for all, and every action is shown to keep
it.  `Restart` may change a node's key, but then what is under way to or from it is
gone or cannot be answered any more.

`ApprovalFindsProof` is about the order of messages in both directions of one link, each
read as one stream with the queue that it leads to (`Led`, `Comes`).  Its invariant,
`AInv`, speaks of a link that is its dialler's only one under the listener's name
(`Sole`).  What approves comes to the dialler after the listener's proof (`DiallerOK`).
That holds because the listener, while it waits, has either answered the dialler's
challenge, on this link (`Given`), or will get the dialler's proof only after that
challenge (`ListenerOK`); it approves after the proof, so after its own.  Two facts make
sure that nothing goes another way: the dialler proves itself to the listener on this
link only (`OwnWay`), and a listener that waits for a caller has no connection under the
caller's name, so that its answers take the caller's link (`IncomingOK`).  The exception
`OtherLink` is needed: if two gateways dial each other, the dialler's proof may
arrive by the other link, before its challenge on this one.  `DiallerSteady` and
`ListenerSteady` say what a step must leave alone, and `Calm` what the steps without a
part in the order (a denial, a lost link, a restart, a file) have in common; the others, a dial, the
two callbacks that send a challenge, the receipt of a message and the handlers of
challenge, proof and `mesh_approve`, are shown to keep `AInv` one by one.

`RequestsProofs` proves, for any nodes, capabilities, ids, paths and budgets,

* `TypeCorrect == Spec => []TypeOK`;
* `OneTimerPerRequest == Spec => []TimerPerRequest`;
* `RequestsEndOnce == Spec => []EndsOnce`;
* `AnswersMatch == Spec => []AnswerMatches`;
* `NotAskedTwice == Spec => []AskedOnce`;
* `NeverMixedUp == Spec => []ComparedWithItself`;
* `NeverStranded == Spec => []AwaitedIsOpen`;
* `NothingMissed == Spec => []AdvertisedIsAsked`.

Its `IInv` relates the tables, the wire and the logs.  `ExecOK`: an entry in the table
is a logged one that has not ended, so an entry that is removed ends for the first
time; an ended one ended with its own answer if its id is unique.  `ChanOK`: a message
on the way carries what its sender was asked or has asked (`OnWire`), which is what an
answer is compared with; the logs only grow, so this stays true while it is under way.
`PreviewOK` says the same of previews, with `AwaitedIsOpen`.  `TimersOK` is
`TimerPerRequest`: every path that removes an entry stops its timer.  `InfoOK` and
`NewsOK` are about capabilities: what is known of a peer has been asked for, and the
last `node_info` under way, if there is one, and otherwise what is known, names all that
the peer advertises (`Tells`).

The liveness properties, all properties of `PatchEngine` and those that are refuted are
model-checked only.  Of these, liveness stays with TLC:
the prover has no rule for fairness; and so do the properties of `PatchEngine`, whose
functions are recursive over the texts, for the prover has no induction over data.
## 6. Not modelled, and why

Discovery: a table of peers with the times they were last seen, which starts no
connection.  Validation and path safety: properties of one value; the set of
accepted message types is taken over.  Status tools and texts: formatting of
state that other components keep.  The handler of `file_patch`
(`transport.ts:1000-1104`): no message reaches it.  Also left out: `file_deleted`
(it only notifies); symbolic links and ignore patterns; line ends, which the diff
normalises and the hash does not; several files in one transfer module, which
share nothing but the socket; the WebSocket, mDNS and host libraries; a
half-written `events.json` or table file, of which the code keeps no second copy.
The confirmations and rejections of a peer are cut to the last 500 in the code;
no instance gets near that.  In `PeerSession`: `approval_request` (nothing sends it),
`maintainConnections` (nothing calls it), the capability requests that `node_info`
triggers (they are in `Requests`), and `stop()`, whose effect on peers is that of a
restart.
