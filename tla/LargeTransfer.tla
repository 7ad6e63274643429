----------------------------- MODULE LargeTransfer -----------------------------
(***************************************************************************)
(* The transfer of a file above MAX_FILE_CONTENT_BYTES from a sender to a  *)
(* receiver (src/src/transport.ts): sendFileContent, its chunk loop, the   *)
(* patch it sends instead when a shadow (shadow-store.ts) of what the peer *)
(* was last sent exists, and the receiver's assembly of chunks in a        *)
(* temporary file.  FileSync has the transfer in one message.              *)
(*                                                                         *)
(* A version stands for a content and for its hash.  toReceiver and        *)
(* toSender hold what is on the wire or in the peer's message queue, whose *)
(* messages are handled one after the other, also after the connection is  *)
(* lost.  Both ends notice the loss of a connection at once (PeerSession   *)
(* has them apart), and an edit of the receiver is noticed at once         *)
(* (FileSync has the watcher's delay).                                     *)
(*                                                                         *)
(* The checks for a chunk that does not fit its assembly are left out: a   *)
(* connection keeps the order of what is sent, and a sender gives all      *)
(* chunks of a transfer the same metadata.                                 *)
(***************************************************************************)
EXTENDS Integers, Sequences, FiniteSets

CONSTANTS
    Version,   \* the sender's versions of the file
    Own,       \* the receiver's own version
    Torn,      \* the hash of what is no version
    None,
    Total,     \* chunks of a version
    MaxPush,   \* bounds: the transfers a behaviour may hold, and
    Budgets    \* what it may start with (Budget)

\* How often each bounded step may be taken, if the file is text, and if the
\* sender's tables know the file at the start.
Budget == [push : 0..MaxPush, edit : Nat, own : Nat, pull : Nat, drop : Nat,
           text : BOOLEAN, known : BOOLEAN]

ASSUME LargeTransferAssumption ==
    /\ None \notin Version \union {Own, Torn} /\ Own # Torn
    /\ Version \cap {Own, Torn} = {}
    /\ Total \in Nat \ {0} /\ MaxPush \in Nat /\ Budgets \subseteq Budget

Transfer == 1..MaxPush
Hash == Version \union {Own, Torn}
Chunk == [type : {"file_chunk"}, id : Transfer, i : 0..(Total - 1), v : Version,
          h : Version \union {None}]

\* The mark of what is missing is none of what may be missing.
ASSUME NoneAssumption ==
    /\ None \notin Nat /\ None \notin Seq(Version \X (1..Total))
    /\ None \notin [m : Chunk, at : {"open", "append", "hash", "discard", "move"}]

VARIABLES
    conn,      \* the number of the connection, None without one
    toReceiver, toSender,
    \* The sender:
    file,      \* its content of the file, and
    table,     \* the hash its sync tables have of it
    sends,     \* the running chunk loops
    shadows,   \* shadows[h]: the text stored under the hash h
    lastSent,  \* getLastSentHashToPeer
    inFlight,  \* inFlightSends of the peer and the file
    \* The receiver:
    assemblies,\* assemblies[t]: nextChunkIndex, None without an assembly
    tmp,       \* tmp[t]: the pieces in the temporary file, None without one
    removing,  \* temporary files that clearPeerTransientState is removing
    handler,   \* the handler that is at an await, and where
    copy,      \* the file on disk
    local, synced, \* its hash and last synced hash in the sync tables
    forced,    \* the file is in forceAllowSet
    left       \* how often each bounded step may still be taken

\* History variables: the code never reads them.
VARIABLES
    pushed,    \* the versions that the user has pushed
    started,   \* the transfers started
    applied, rejected, \* those the receiver has applied, and rejected
    replaced,  \* the versions that have replaced the copy
    confirmed, \* the versions the sender has been told of
    answered,  \* the transfers the sender has had an answer to,
    early,     \* those before their loop had ended
    cut        \* transfers that lost the connection before they were answered

wireVars == <<conn, toReceiver, toSender>>
senderVars == <<file, table, sends, shadows, lastSent, inFlight>>
receiverVars == <<assemblies, tmp, removing, handler, copy, local, synced, forced>>
sendHistory == <<pushed, started, confirmed, answered, early>>
applyHistory == <<applied, rejected, replaced>>
vars == <<wireVars, senderVars, receiverVars, sendHistory, applyHistory, cut, left>>

------------------------------------------------------------------------------
Spend(k) == left[k] > 0 /\ left' = [left EXCEPT ![k] = @ - 1]

Whole(v) == [i \in 1..Total |-> <<v, i>>]

\* computeFileHash of a temporary file.
HashOf(pieces) ==
    IF \E v \in Version : pieces = Whole(v)
    THEN CHOOSE v \in Version : pieces = Whole(v) ELSE Torn

\* sendToPeer: without a connection the message is dropped.
Sent(queue, m) == IF conn = None THEN queue ELSE Append(queue, m)

------------------------------------------------------------------------------
(* The connection *)

Connect ==
    /\ conn = None
    /\ conn' = left.drop
    /\ UNCHANGED <<toReceiver, toSender, senderVars, receiverVars, sendHistory, applyHistory,
                   cut, left>>

\* The connection is lost, with what neither end has received of it, and the
\* receiver drops its assemblies (clearPeerTransientState).
Drop ==
    /\ Spend("drop") /\ conn # None /\ conn' = None
    /\ \E n \in 0..Len(toReceiver) : toReceiver' = SubSeq(toReceiver, 1, n)
    /\ \E n \in 0..Len(toSender) : toSender' = SubSeq(toSender, 1, n)
    /\ removing' = removing \union {t \in Transfer : assemblies[t] # None}
    /\ assemblies' = [t \in Transfer |-> None]
    /\ cut' = cut \union (started \ answered)
    /\ UNCHANGED <<senderVars, tmp, handler, copy, local, synced, forced, sendHistory, applyHistory>>

\* The removal of a temporary file, which nobody awaits.
Removed(t) ==
    /\ t \in removing
    /\ removing' = removing \ {t} /\ tmp' = [tmp EXCEPT ![t] = None]
    /\ UNCHANGED <<wireVars, senderVars, assemblies, handler, copy, local, synced, forced,
                   sendHistory, applyHistory, cut, left>>

------------------------------------------------------------------------------
(* The sender *)

\* The user edits the file, and the watcher notices.
Edit(v) ==
    /\ Spend("edit") /\ v # file /\ file' = v
    /\ UNCHANGED <<wireVars, table, sends, shadows, lastSent, inFlight, receiverVars,
                   sendHistory, applyHistory, cut>>
Watch ==
    /\ table # file /\ table' = file
    /\ UNCHANGED <<wireVars, file, sends, shadows, lastSent, inFlight, receiverVars,
                   sendHistory, applyHistory, cut, left>>

HasShadow ==
    left.text /\ table # None /\ lastSent # None /\ shadows[lastSent] # None

\* shadowStore.write and recordSentToPeer, of content v under the hash h.
Shadowed(h, v) ==
    /\ shadows' = IF shadows[h] = None THEN [shadows EXCEPT ![h] = v] ELSE shadows
    /\ lastSent' = h

\* mesh_sync push, or mesh_broadcast: the shadow has this version, so that
\* nothing is sent;
Skip ==
    /\ Spend("push") /\ conn # None
    /\ HasShadow /\ lastSent = table
    /\ pushed' = pushed \union {file}
    /\ UNCHANGED <<wireVars, senderVars, receiverVars, started, confirmed, answered, early, applyHistory, cut>>

\* or a patch is sent, which the receiver does not know (MESH_MESSAGE_TYPES);
PushPatch ==
    /\ Spend("push") /\ conn # None
    /\ HasShadow /\ lastSent # table
    /\ toReceiver' = Sent(toReceiver, [type |-> "file_patch", h |-> table])
    /\ Shadowed(table, file)
    /\ inFlight' = [h |-> table, mode |-> "patch", id |-> None]
    /\ pushed' = pushed \union {file}
    /\ UNCHANGED <<conn, toSender, file, table, sends, receiverVars, started, confirmed, answered, early,
                   applyHistory, cut>>

\* or the chunk loop starts: there is no shadow, or the diff has failed.
PushChunks ==
    LET t == Cardinality(started) + 1 IN
    /\ Spend("push") /\ conn # None
    /\ HasShadow => lastSent # table
    /\ sends' = sends \union {[id |-> t, v |-> file, h |-> table, i |-> 0, on |-> None]}
    /\ started' = started \union {t} /\ pushed' = pushed \union {file}
    /\ UNCHANGED <<wireVars, file, table, shadows, lastSent, inFlight, receiverVars,
                   confirmed, answered, early, applyHistory, cut>>

Stopped(s) == sends' = sends \ {s} /\ inFlight' = None

\* One turn of the loop up to the wait for the socket to drain (`on` is the
\* connection it waits for).
SendChunk(s) ==
    /\ s \in sends /\ s.on = None /\ s.i < Total
    /\ IF conn = None
       THEN Stopped(s) /\ UNCHANGED toReceiver
       ELSE /\ toReceiver' = Append(toReceiver, [type |-> "file_chunk", id |-> s.id, i |-> s.i,
                                                 v |-> s.v, h |-> s.h])
            /\ sends' = (sends \ {s}) \union {[s EXCEPT !.on = conn]}
            /\ UNCHANGED inFlight
    /\ UNCHANGED <<conn, toSender, file, table, shadows, lastSent, receiverVars, sendHistory,
                   applyHistory, cut, left>>

\* The socket has drained, or is closed.
Drained(s) ==
    /\ s \in sends /\ s.on # None
    /\ IF s.on = conn
       THEN /\ sends' = (sends \ {s}) \union {[s EXCEPT !.on = None, !.i = @ + 1]}
            /\ UNCHANGED inFlight
       ELSE Stopped(s)
    /\ UNCHANGED <<wireVars, file, table, shadows, lastSent, receiverVars, sendHistory,
                   applyHistory, cut, left>>

LoopEnds(s) ==
    /\ s \in sends /\ s.on = None /\ s.i = Total
    /\ sends' = sends \ {s}
    /\ IF left.text /\ s.h # None THEN Shadowed(s.h, s.v) ELSE UNCHANGED <<shadows, lastSent>>
    /\ inFlight' = [h |-> s.h, mode |-> "chunked", id |-> s.id]
    /\ UNCHANGED <<wireVars, file, table, receiverVars, sendHistory, applyHistory, cut, left>>

\* Mutant: a rejection leaves the record.
Settles_AppliedOnly(m) ==
    m.type = "file_applied" /\ inFlight # None /\ (m.h = inFlight.h \/ None \in {m.h, inFlight.h})

\* Whether an answer deletes the in-flight record: a rejection always does.
Settles(m) ==
    \/ m.type = "file_rejected"
    \/ m.type = "file_applied" /\ inFlight # None /\ (m.h = inFlight.h \/ None \in {m.h, inFlight.h})

\* file_applied, file_rejected and file_content_request: the reply to this one is
\* a file_content that is larger than the receiver accepts.
SenderHandles ==
    LET m == Head(toSender) IN
    /\ toSender # <<>> /\ toSender' = Tail(toSender)
    /\ inFlight' = IF Settles(m) THEN None ELSE inFlight
    /\ toReceiver' = IF m.type = "file_content_request"
                     THEN Sent(toReceiver, [type |-> "file_content", h |-> table]) ELSE toReceiver
    /\ confirmed' = IF m.type = "file_applied" THEN confirmed \union {m.h} ELSE confirmed
    /\ answered' = answered \union ({m.id} \cap Transfer)
    /\ early' = early \union ({m.id} \cap {s.id : s \in sends})
    /\ UNCHANGED <<conn, file, table, sends, shadows, lastSent, receiverVars, pushed, started,
                   applyHistory, cut, left>>

------------------------------------------------------------------------------
(* The receiver *)

EditOwn ==
    /\ Spend("own") /\ copy' = Own /\ local' = Own
    /\ UNCHANGED <<wireVars, senderVars, assemblies, tmp, removing, handler, synced, forced,
                   sendHistory, applyHistory, cut>>

\* mesh_sync pull: without force only if the file is not locally modified.
Modified == local # None /\ local # synced
Pull(force) ==
    /\ Spend("pull") /\ conn # None /\ (Modified => force)
    /\ forced' = (forced \/ force)
    /\ toSender' = Sent(toSender, [type |-> "file_content_request", id |-> None])
    /\ UNCHANGED <<conn, toReceiver, senderVars, assemblies, tmp, removing, handler, copy, local,
                   synced, sendHistory, applyHistory, cut>>

\* sendFileRejected for a transfer, which ends the handler.
Reject(m) ==
    /\ toSender' = Sent(toSender, [type |-> "file_rejected", h |-> m.h, id |-> m.id])
    /\ rejected' = rejected \union {m.id}
    /\ handler' = None

\* A message that is refused at once: a patch is none that parseMeshMessage
\* knows; a content above the limits is rejected, or is too large to be looked at.
Refuse ==
    LET m == Head(toReceiver) IN
    /\ handler = None /\ toReceiver # <<>> /\ m.type # "file_chunk"
    /\ toReceiver' = Tail(toReceiver)
    /\ \/ UNCHANGED toSender
       \/ /\ m.type = "file_content"
          /\ toSender' = Sent(toSender, [type |-> "file_rejected", h |-> m.h, id |-> None])
    /\ UNCHANGED <<conn, senderVars, receiverVars, sendHistory, applyHistory, cut, left>>

\* file_chunk up to its first await: the removal of an old temporary file, or
\* the append.
HandleChunk ==
    LET m == Head(toReceiver) IN
    /\ handler = None /\ toReceiver # <<>> /\ m.type = "file_chunk"
    /\ toReceiver' = Tail(toReceiver)
    /\ IF assemblies[m.id] = None /\ m.i # 0
       THEN Reject(m)
       ELSE /\ handler' = [m |-> m, at |-> IF assemblies[m.id] = None THEN "open" ELSE "append"]
            /\ UNCHANGED <<toSender, rejected>>
    /\ UNCHANGED <<conn, senderVars, assemblies, tmp, removing, copy, local, synced, forced,
                   sendHistory, applied, replaced, cut, left>>

Open ==
    /\ handler # None /\ handler.at = "open"
    /\ tmp' = [tmp EXCEPT ![handler.m.id] = None]
    /\ assemblies' = [assemblies EXCEPT ![handler.m.id] = 0]
    /\ handler' = [handler EXCEPT !.at = "append"]
    /\ UNCHANGED <<wireVars, senderVars, removing, copy, local, synced, forced, sendHistory,
                   applyHistory, cut, left>>

\* Mutant: the last chunk is not waited for.
Complete_Early(m) == m.i + 2 >= Total
\* Mutant: the index is taken for a count.
Complete_Count(m) == m.i = Total
Complete(m) == m.i + 1 = Total

\* appendFile makes the file if it has been removed.  The assembly may have been
\* dropped meanwhile; the handler goes on with it.
AppendChunk ==
    LET m == handler.m
        t == m.id IN
    /\ handler # None /\ handler.at = "append"
    /\ tmp' = [tmp EXCEPT ![t] = Append(IF @ = None THEN <<>> ELSE @, <<m.v, m.i + 1>>)]
    /\ assemblies' = [assemblies EXCEPT ![t] = IF @ = None THEN None ELSE @ + 1]
    /\ handler' = IF Complete(m) THEN [handler EXCEPT !.at = "hash"] ELSE None
    /\ UNCHANGED <<wireVars, senderVars, removing, copy, local, synced, forced, sendHistory,
                   applyHistory, cut, left>>

\* Mutant: no comparison with the declared hash.
Accepted_Any(pieces, h) == TRUE

\* A message without a hash is not compared.
Accepted(pieces, h) == h = None \/ HashOf(pieces) = h

\* SyncState's isConflict.
Conflict(h) == Modified /\ local # h

\* The file is hashed: if it is gone the handler fails; else it is discarded
\* with its assembly, or about to be moved.  A force flag is used up.
CheckHash ==
    LET m == handler.m
        t == m.id
        bad == ~Accepted(tmp[t], m.h) \/ (Conflict(m.h) /\ ~forced) IN
    /\ handler # None /\ handler.at = "hash"
    /\ IF tmp[t] = None
       THEN handler' = None /\ UNCHANGED <<assemblies, forced>>
       ELSE /\ handler' = [handler EXCEPT !.at = IF bad THEN "discard" ELSE "move"]
            /\ assemblies' = IF bad THEN [assemblies EXCEPT ![t] = None] ELSE assemblies
            /\ forced' = (forced /\ ~(Accepted(tmp[t], m.h) /\ Conflict(m.h)))
    /\ UNCHANGED <<wireVars, senderVars, tmp, removing, copy, local, synced, sendHistory,
                   applyHistory, cut, left>>

Discard ==
    /\ handler # None /\ handler.at = "discard"
    /\ tmp' = [tmp EXCEPT ![handler.m.id] = None]
    /\ Reject(handler.m)
    /\ UNCHANGED <<conn, toReceiver, senderVars, assemblies, removing, copy, local, synced, forced,
                   sendHistory, applied, replaced, cut, left>>

\* fileWriter's rename, recordRemoteChange and file_applied.
Move ==
    LET m == handler.m
        t == m.id
        h == IF m.h = None THEN HashOf(tmp[t]) ELSE m.h IN
    /\ handler # None /\ handler.at = "move" /\ tmp[t] # None
    /\ copy' = HashOf(tmp[t]) /\ tmp' = [tmp EXCEPT ![t] = None]
    /\ local' = h /\ synced' = h
    /\ toSender' = Sent(toSender, [type |-> "file_applied", h |-> h, id |-> t])
    /\ applied' = applied \union {t} /\ replaced' = replaced \union {HashOf(tmp[t])}
    /\ assemblies' = [assemblies EXCEPT ![t] = None]
    /\ handler' = None
    /\ UNCHANGED <<conn, toReceiver, senderVars, removing, forced, sendHistory, rejected, cut, left>>

\* It fails: the temporary file is gone, no directory is tracked, the disk is full.
MoveFails ==
    /\ handler # None /\ handler.at = "move"
    /\ tmp' = [tmp EXCEPT ![handler.m.id] = None]
    /\ assemblies' = [assemblies EXCEPT ![handler.m.id] = None]
    /\ Reject(handler.m)
    /\ UNCHANGED <<conn, toReceiver, senderVars, removing, copy, local, synced, forced, sendHistory,
                   applied, replaced, cut, left>>

------------------------------------------------------------------------------
Init ==
    /\ left \in Budgets
    /\ conn = left.drop + 1 /\ toReceiver = <<>> /\ toSender = <<>>
    /\ file \in Version /\ table = IF left.known THEN file ELSE None
    /\ sends = {} /\ shadows = [h \in Hash |-> None] /\ lastSent = None /\ inFlight = None
    /\ assemblies = [t \in Transfer |-> None] /\ tmp = [t \in Transfer |-> None]
    /\ removing = {} /\ handler = None
    /\ copy = Own /\ local = Own /\ synced = Own /\ forced = FALSE
    /\ pushed = {} /\ started = {} /\ applied = {} /\ rejected = {} /\ replaced = {}
    /\ confirmed = {} /\ answered = {} /\ early = {} /\ cut = {}

SenderNext == \/ \E s \in sends : SendChunk(s) \/ Drained(s) \/ LoopEnds(s)
              \/ SenderHandles
ReceiverNext == \/ Refuse \/ HandleChunk \/ Open \/ AppendChunk \/ CheckHash \/ Discard
                \/ Move \/ MoveFails

Next ==
    \/ Connect \/ Drop \/ \E t \in Transfer : Removed(t)
    \/ (\E v \in Version : Edit(v)) \/ Watch
    \/ Skip \/ PushPatch \/ PushChunks
    \/ EditOwn \/ \E force \in BOOLEAN : Pull(force)
    \/ SenderNext \/ ReceiverNext

Spec == Init /\ [][Next]_vars

\* Timers, file operations and handlers end; sockets drain or close.
FairSpec ==
    /\ Spec
    /\ WF_vars(ReceiverNext) /\ WF_vars(SenderHandles) /\ WF_vars(Watch)
    /\ \A t \in Transfer : WF_vars(\E s \in sends : s.id = t /\
                                     (SendChunk(s) \/ Drained(s) \/ LoopEnds(s)))

------------------------------------------------------------------------------
(* Properties *)

TypeOK ==
    /\ conn \in Nat \union {None}
    /\ file \in Version /\ table \in Version \union {None}
    /\ sends \subseteq [id : Transfer, v : Version, h : Version \union {None}, i : 0..Total,
                        on : Nat \union {None}]
    /\ shadows \in [Hash -> Version \union {None}] /\ lastSent \in Version \union {None}
    /\ assemblies \in [Transfer -> 0..Total \union {None}]
    /\ \A t \in Transfer : tmp[t] = None \/ tmp[t] \in Seq(Version \X (1..Total))
    /\ removing \subseteq Transfer
    /\ handler = None \/ handler \in [m : Chunk, at : {"open", "append", "hash", "discard", "move"}]
    /\ handler # None /\ handler.at \in {"hash", "discard", "move"} => handler.m.i + 1 = Total
    /\ {copy, local, synced} \subseteq Hash /\ forced \in BOOLEAN
    /\ left \in Budget /\ started \subseteq Transfer

\* The receiver's file is one of its own versions or a pushed version, whole,
\* and what the sender is told of has been written, through lost connections,
\* dropped assemblies and failures (transport.ts:800-921, 1824-1862).
Promise == INSTANCE WholeFiles WITH copy <- copy, offered <- pushed, applied <- replaced,
                                    confirmed <- confirmed
ImplementsWholeFiles == Promise!Spec

\* A transfer that the receiver has rejected is not applied as well, and an
\* applied one is not rejected: not by a chunk left in the queue, nor by a
\* handler whose assembly is gone (transport.ts:813-921).
OneOutcome == applied \cap rejected = {}

\* What the sync tables say of the receiver's file is on its disk
\* (transport.ts:868-895).
RecordIsOnDisk == local = copy

\* When nothing is under way any more, an in-flight record is left only of a
\* patch, of a transfer that lost its connection, or of one that was answered
\* before its loop ended (transport.ts:1254-1296, 1824-1871).
QuietMeansSettled ==
    sends = {} /\ toReceiver = <<>> /\ toSender = <<>> /\ handler = None /\ inFlight # None =>
        inFlight.mode = "patch" \/ inFlight.id \in early \union cut

\* A transfer that keeps its connection comes to an answer (transport.ts:800-921).
TransferEnds ==
    \A t \in Transfer : t \in started ~> t \in applied \union rejected \union cut

\* What the user pushes last, and the watcher has seen, gets to the receiver
\* or is rejected, if the connection stays.
PushArrives ==
    \A v \in Version :
        [](v \in pushed /\ file = v => <>(v \in replaced \/ rejected # {} \/ file # v))
==============================================================================
