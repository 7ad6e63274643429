------------------------ MODULE LargeTransferRefinement ------------------------
(***************************************************************************)
(* If the sender's tables know the file when a behaviour starts, then the  *)
(* transfer in chunks implements WholeFiles: no lost connection, dropped   *)
(* assembly or failed handler leaves a mixture of pieces under the file's  *)
(* name.  Without that the first push carries no hash to compare.          *)
(***************************************************************************)
EXTENDS LargeTransferProofs

\* What is on the wire comes from a push, and tells of what was written.
ChunkOfPush == {m \in ToReceiver : m \in Chunk => m.v \in pushed /\ m.h \in Version}
ToldOfApplied == {m \in ToSender : m.type = "file_applied" => m.h \in replaced}

WholeOK ==
    /\ left.known
    /\ table \in Version /\ pushed \subseteq Version
    /\ replaced \subseteq pushed /\ confirmed \subseteq replaced
    /\ \A s \in sends : s.v \in pushed /\ s.h \in Version
    /\ toReceiver \in Seq(ChunkOfPush) /\ toSender \in Seq(ToldOfApplied)
    /\ handler # None => handler.m \in ChunkOfPush
    /\ \A t \in Transfer : tmp[t] # None => tmp[t] \in Seq(pushed \X (1..Total))

------------------------------------------------------------------------------
(* Lemmas *)

LEMMA KnownStays ==
  ASSUME left \in Budget, left.known, NEW k \in {"push", "edit", "own", "pull", "drop"}, Spend(k)
  PROVE  left'.known
  <1>1. left' = [left EXCEPT ![k] = left[k] - 1] /\ k # "known"
    BY DEF Spend
  <1>2. left'.known = left.known
    BY <1>1 DEF Budget
  <1>3. QED
    BY <1>2

\* A push adds to what may be written, and to what is queued.
LEMMA MorePushed ==
  ASSUME WholeOK, pushed \subseteq pushed', replaced' = replaced
  PROVE  /\ ChunkOfPush \subseteq ChunkOfPush' /\ toReceiver \in Seq(ChunkOfPush')
         /\ ToldOfApplied' = ToldOfApplied
         /\ \A t \in Transfer : tmp[t] # None => tmp[t] \in Seq(pushed' \X (1..Total))
  <1>1. ChunkOfPush \subseteq ChunkOfPush'
    BY DEF ChunkOfPush
  <1>2. toReceiver \in Seq(ChunkOfPush')
    BY <1>1, SeqMonotonic DEF WholeOK
  <1>3. pushed \X (1..Total) \subseteq pushed' \X (1..Total)
    OBVIOUS
  <1>4. \A t \in Transfer : tmp[t] # None => tmp[t] \in Seq(pushed' \X (1..Total))
    BY <1>3, SeqMonotonic DEF WholeOK
  <1>5. QED
    BY <1>1, <1>2, <1>4 DEF ToldOfApplied

\* The steps that push, write and confirm nothing.
Unpromised == UNCHANGED <<pushed, replaced, confirmed>>

LEMMA WholeStays ==
  ASSUME WholeOK, Unpromised, left'.known, table' \in Version,
         \A s \in sends' : \E r \in sends : s.v = r.v /\ s.h = r.h,
         toReceiver' \in Seq(ChunkOfPush), toSender' \in Seq(ToldOfApplied),
         handler' # None => handler'.m \in ChunkOfPush,
         \A t \in Transfer : tmp'[t] # None => tmp'[t] \in Seq(pushed \X (1..Total))
  PROVE  WholeOK'
  <1>1. ChunkOfPush' = ChunkOfPush /\ ToldOfApplied' = ToldOfApplied
    BY DEF Unpromised, ChunkOfPush, ToldOfApplied
  <1>2. QED
    BY <1>1 DEF WholeOK, Unpromised

LEMMA Received ==
  ASSUME WholeOK, toReceiver # <<>>
  PROVE  Head(toReceiver) \in ChunkOfPush /\ Tail(toReceiver) \in Seq(ChunkOfPush)
  BY HeadTailProperties DEF WholeOK

LEMMA Told ==
  ASSUME WholeOK, NEW m \in ToldOfApplied
  PROVE  Sent(toSender, m) \in Seq(ToldOfApplied)
  BY AppendProperties DEF WholeOK, Sent

LEMMA Asked ==
  ASSUME WholeOK, NEW m \in ChunkOfPush
  PROVE  Sent(toReceiver, m) \in Seq(ChunkOfPush) /\ Append(toReceiver, m) \in Seq(ChunkOfPush)
  BY AppendProperties DEF WholeOK, Sent

------------------------------------------------------------------------------
(* The sender's steps *)

LEMMA ConnectWhole ==
  ASSUME WholeOK, Connect
  PROVE  WholeOK' /\ Unpromised
  <1>1. Unpromised
    BY DEF Connect, Unpromised, sendHistory, applyHistory
  <1>2. QED
    BY <1>1, WholeStays DEF Connect, WholeOK, senderVars, receiverVars

LEMMA DropWhole ==
  ASSUME IInv, WholeOK, Drop
  PROVE  WholeOK' /\ Unpromised
  <1>1. Unpromised
    BY DEF Drop, Unpromised, sendHistory, applyHistory
  <1>2. toReceiver' \in Seq(ChunkOfPush)
    <2>1. PICK n \in 0..Len(toReceiver) : toReceiver' = SubSeq(toReceiver, 1, n)
      BY DEF Drop
    <2>2. toReceiver \in Seq(ChunkOfPush) /\ n \in Int /\ \A k \in 1..n : toReceiver[k] \in ChunkOfPush
      BY LenProperties, ElementOfSeq DEF WholeOK
    <2>3. QED
      BY <2>1, <2>2, SubSeqProperties
  <1>3. toSender' \in Seq(ToldOfApplied)
    <2>1. PICK n \in 0..Len(toSender) : toSender' = SubSeq(toSender, 1, n)
      BY DEF Drop
    <2>2. toSender \in Seq(ToldOfApplied) /\ n \in Int /\ \A k \in 1..n : toSender[k] \in ToldOfApplied
      BY LenProperties, ElementOfSeq DEF WholeOK
    <2>3. QED
      BY <2>1, <2>2, SubSeqProperties
  <1>4. left'.known
    BY KnownStays DEF Drop, IInv, BudgetOK, WholeOK
  <1>5. QED
    BY <1>1, <1>2, <1>3, <1>4, WholeStays DEF Drop, WholeOK, senderVars

LEMMA RemovedWhole ==
  ASSUME IInv, WholeOK, NEW t \in Transfer, Removed(t)
  PROVE  WholeOK' /\ Unpromised
  <1>1. Unpromised
    BY DEF Removed, Unpromised, sendHistory, applyHistory
  <1>2. \A u \in Transfer : tmp'[u] # None => tmp'[u] \in Seq(pushed \X (1..Total))
    BY DEF Removed, WholeOK, IInv, AssembliesOK
  <1>3. QED
    BY <1>1, <1>2, WholeStays DEF Removed, WholeOK, wireVars, senderVars

LEMMA EditWhole ==
  ASSUME IInv, WholeOK, NEW v \in Version, Edit(v)
  PROVE  WholeOK' /\ Unpromised
  <1>1. Unpromised
    BY DEF Edit, Unpromised, sendHistory, applyHistory
  <1>2. left'.known
    BY KnownStays DEF Edit, IInv, BudgetOK, WholeOK
  <1>3. QED
    BY <1>1, <1>2, WholeStays DEF Edit, WholeOK, wireVars, receiverVars

LEMMA WatchWhole ==
  ASSUME IInv, WholeOK, Watch
  PROVE  WholeOK' /\ Unpromised
  <1>1. Unpromised
    BY DEF Watch, Unpromised, sendHistory, applyHistory
  <1>2. table' \in Version
    BY DEF Watch, IInv, TablesOK
  <1>3. QED
    BY <1>1, <1>2, WholeStays DEF Watch, WholeOK, wireVars, receiverVars

\* A push: the loops that run and the queue have what they had, or what was pushed.
LEMMA PushWhole ==
  ASSUME IInv, WholeOK, Spend("push"), pushed' = pushed \union {file},
         UNCHANGED <<replaced, confirmed, table, toSender, handler, tmp>>,
         \A s \in sends' : s \in sends \/ (s.v = file /\ s.h = table),
         toReceiver' = toReceiver \/ \E m \in ToReceiver \ Chunk : toReceiver' = Sent(toReceiver, m)
  PROVE  WholeOK'
  <1>1. left'.known /\ pushed' \subseteq Version
    BY KnownStays DEF IInv, BudgetOK, TablesOK, WholeOK
  <1>2. /\ ChunkOfPush \subseteq ChunkOfPush' /\ toReceiver \in Seq(ChunkOfPush')
        /\ ToldOfApplied' = ToldOfApplied
        /\ \A t \in Transfer : tmp[t] # None => tmp[t] \in Seq(pushed' \X (1..Total))
    BY MorePushed
  <1>3. toReceiver' \in Seq(ChunkOfPush')
    <2>1. \A m \in ToReceiver \ Chunk : m \in ChunkOfPush'
      BY DEF ChunkOfPush
    <2>2. QED
      BY <1>2, <2>1, AppendProperties DEF Sent
  <1>4. \A s \in sends' : s.v \in pushed' /\ s.h \in Version
    BY DEF WholeOK
  <1>5. QED
    BY <1>1, <1>2, <1>3, <1>4 DEF WholeOK

LEMMA SkipWhole ==
  ASSUME IInv, WholeOK, Skip
  PROVE  WholeOK' /\ UNCHANGED <<copy, replaced, confirmed>> /\ pushed' = pushed \union {file}
  BY PushWhole DEF Skip, wireVars, senderVars, receiverVars, applyHistory

LEMMA PushPatchWhole ==
  ASSUME IInv, WholeOK, PushPatch
  PROVE  WholeOK' /\ UNCHANGED <<copy, replaced, confirmed>> /\ pushed' = pushed \union {file}
  <1>1. [type |-> "file_patch", h |-> table] \in ToReceiver \ Chunk
    BY DEF ToReceiver, Chunk, IInv, TablesOK
  <1>2. QED
    BY <1>1, PushWhole DEF PushPatch, receiverVars, applyHistory

LEMMA PushChunksWhole ==
  ASSUME IInv, WholeOK, PushChunks
  PROVE  WholeOK' /\ UNCHANGED <<copy, replaced, confirmed>> /\ pushed' = pushed \union {file}
  <1>1. \A s \in sends' : s \in sends \/ (s.v = file /\ s.h = table)
    BY DEF PushChunks
  <1>2. QED
    BY <1>1, PushWhole DEF PushChunks, wireVars, receiverVars, applyHistory

LEMMA SendChunkWhole ==
  ASSUME IInv, WholeOK, NEW s \in sends, SendChunk(s)
  PROVE  WholeOK' /\ Unpromised
  <1>1. Unpromised
    BY DEF SendChunk, Unpromised, sendHistory, applyHistory
  <1>2. s \in SendRecord /\ s.i < Total
    BY DEF SendChunk, IInv, SendsOK, SendOK
  <1>3. \A x \in sends' : \E r \in sends : x.v = r.v /\ x.h = r.h
    BY <1>2 DEF SendChunk, Stopped, SendRecord
  <1>4. toReceiver' \in Seq(ChunkOfPush)
    <2> DEFINE m == [type |-> "file_chunk", id |-> s.id, i |-> s.i, v |-> s.v, h |-> s.h]
    <2>1. m \in Chunk /\ m.v \in pushed /\ m.h \in Version
      BY <1>2, LargeTransferAssumption DEF Chunk, SendRecord, WholeOK
    <2>2. toReceiver' = toReceiver \/ toReceiver' = Append(toReceiver, m)
      BY DEF SendChunk
    <2> HIDE DEF m
    <2>3. m \in ChunkOfPush
      BY <2>1 DEF ChunkOfPush, ToReceiver
    <2>4. QED
      BY <2>2, <2>3, Asked DEF WholeOK
  <1>5. QED
    BY <1>1, <1>3, <1>4, WholeStays DEF SendChunk, WholeOK, receiverVars

LEMMA DrainedWhole ==
  ASSUME IInv, WholeOK, NEW s \in sends, Drained(s)
  PROVE  WholeOK' /\ Unpromised
  <1>1. Unpromised
    BY DEF Drained, Unpromised, sendHistory, applyHistory
  <1>2. s \in SendRecord
    BY DEF IInv, SendsOK, SendOK
  <1>3. \A x \in sends' : \E r \in sends : x.v = r.v /\ x.h = r.h
    BY <1>2 DEF Drained, Stopped, SendRecord
  <1>4. QED
    BY <1>1, <1>3, WholeStays DEF Drained, WholeOK, wireVars, receiverVars

LEMMA LoopEndsWhole ==
  ASSUME IInv, WholeOK, NEW s \in sends, LoopEnds(s)
  PROVE  WholeOK' /\ Unpromised
  <1>1. Unpromised
    BY DEF LoopEnds, Unpromised, sendHistory, applyHistory
  <1>2. QED
    BY <1>1, WholeStays DEF LoopEnds, WholeOK, wireVars, receiverVars

LEMMA SenderHandlesWhole ==
  ASSUME IInv, WholeOK, SenderHandles
  PROVE  /\ WholeOK' /\ UNCHANGED <<copy, pushed, replaced>>
         /\ confirmed' = confirmed \/ \E v \in replaced : confirmed' = confirmed \union {v}
  <1> DEFINE m == Head(toSender)
             r == [type |-> "file_content", h |-> table]
  <1>1. m \in ToldOfApplied /\ Tail(toSender) \in Seq(ToldOfApplied)
    BY HeadTailProperties DEF SenderHandles, WholeOK
  <1>2. confirmed' = confirmed \/ (confirmed' = confirmed \union {m.h} /\ m.h \in replaced)
    BY <1>1 DEF SenderHandles, ToldOfApplied
  <1>3. r \in ChunkOfPush
    BY DEF ChunkOfPush, ToReceiver, Chunk, WholeOK
  <1>4. toReceiver' = toReceiver \/ toReceiver' = Sent(toReceiver, r)
    BY DEF SenderHandles
  <1> HIDE DEF m, r
  <1>5. toReceiver' \in Seq(ChunkOfPush)
    BY <1>3, <1>4, Asked DEF WholeOK
  <1>6. UNCHANGED <<copy, pushed, replaced, left, table, sends, handler, tmp>>
        /\ toSender' = Tail(toSender)
    BY DEF SenderHandles, receiverVars, applyHistory
  <1>7. ChunkOfPush' = ChunkOfPush /\ ToldOfApplied' = ToldOfApplied
    BY <1>6 DEF ChunkOfPush, ToldOfApplied
  <1>8. WholeOK'
    BY <1>1, <1>2, <1>5, <1>6, <1>7 DEF WholeOK
  <1>9. QED
    BY <1>2, <1>6, <1>8

------------------------------------------------------------------------------
(* The receiver's steps *)

LEMMA EditOwnWhole ==
  ASSUME IInv, WholeOK, EditOwn
  PROVE  WholeOK' /\ Unpromised
  <1>1. Unpromised
    BY DEF EditOwn, Unpromised, sendHistory, applyHistory
  <1>2. left'.known
    BY KnownStays DEF EditOwn, IInv, BudgetOK, WholeOK
  <1>3. QED
    BY <1>1, <1>2, WholeStays DEF EditOwn, WholeOK, wireVars, senderVars

LEMMA PullWhole ==
  ASSUME IInv, WholeOK, NEW force \in BOOLEAN, Pull(force)
  PROVE  WholeOK' /\ Unpromised
  <1>1. Unpromised
    BY DEF Pull, Unpromised, sendHistory, applyHistory
  <1>2. left'.known
    BY KnownStays DEF Pull, IInv, BudgetOK, WholeOK
  <1>3. [type |-> "file_content_request", id |-> None] \in ToldOfApplied
    BY DEF ToldOfApplied, ToSender
  <1>4. toSender' \in Seq(ToldOfApplied)
    BY <1>3, Told DEF Pull
  <1>5. QED
    BY <1>1, <1>2, <1>4, WholeStays DEF Pull, WholeOK, senderVars

LEMMA RefuseWhole ==
  ASSUME IInv, WholeOK, Refuse
  PROVE  WholeOK' /\ Unpromised
  <1>1. Unpromised
    BY DEF Refuse, Unpromised, sendHistory, applyHistory
  <1>2. toReceiver' \in Seq(ChunkOfPush)
    BY Received DEF Refuse
  <1>3. Head(toReceiver).h \in Version \union {None}
    BY TailOf, Messages DEF Refuse, IInv, WireOK
  <1>4. [type |-> "file_rejected", h |-> Head(toReceiver).h, id |-> None] \in ToldOfApplied
    BY <1>3 DEF ToldOfApplied, ToSender
  <1>5. toSender' \in Seq(ToldOfApplied)
    BY <1>4, Told DEF Refuse, WholeOK
  <1>6. QED
    BY <1>1, <1>2, <1>5, WholeStays DEF Refuse, WholeOK, senderVars, receiverVars

LEMMA RejectWhole ==
  ASSUME WholeOK, NEW m \in Chunk, Reject(m)
  PROVE  toSender' \in Seq(ToldOfApplied) /\ handler' = None
  <1>1. [type |-> "file_rejected", h |-> m.h, id |-> m.id] \in ToldOfApplied
    BY DEF ToldOfApplied, ToSender, Chunk
  <1>2. QED
    BY <1>1, Told DEF Reject

LEMMA HandleChunkWhole ==
  ASSUME IInv, WholeOK, HandleChunk
  PROVE  WholeOK' /\ Unpromised
  <1>1. Unpromised
    BY DEF HandleChunk, Unpromised, sendHistory
  <1>2. Head(toReceiver) \in ChunkOfPush /\ toReceiver' \in Seq(ChunkOfPush)
    BY Received DEF HandleChunk
  <1>3. Head(toReceiver) \in Chunk
    BY TailOf, Messages DEF HandleChunk, IInv, WireOK
  <1>4. toSender' \in Seq(ToldOfApplied) /\ (handler' # None => handler'.m \in ChunkOfPush)
    BY <1>2, <1>3, RejectWhole DEF HandleChunk, WholeOK
  <1>5. QED
    BY <1>1, <1>2, <1>4, WholeStays DEF HandleChunk, WholeOK, senderVars

LEMMA OpenWhole ==
  ASSUME IInv, WholeOK, Open
  PROVE  WholeOK' /\ Unpromised
  <1>1. Unpromised
    BY DEF Open, Unpromised, sendHistory, applyHistory
  <1>2. handler' # None => handler'.m \in ChunkOfPush
    BY HandlerHas DEF Open, WholeOK, HandlerFacts
  <1>3. \A u \in Transfer : tmp'[u] # None => tmp'[u] \in Seq(pushed \X (1..Total))
    BY DEF Open, WholeOK, IInv, AssembliesOK
  <1>4. QED
    BY <1>1, <1>2, <1>3, WholeStays DEF Open, WholeOK, wireVars, senderVars

LEMMA AppendChunkWhole ==
  ASSUME IInv, WholeOK, AppendChunk
  PROVE  WholeOK' /\ Unpromised
  <1>1. Unpromised
    BY DEF AppendChunk, Unpromised, sendHistory, applyHistory
  <1>2. HandlerFacts /\ handler # None
    BY HandlerHas DEF AppendChunk
  <1>3. handler' # None => handler'.m \in ChunkOfPush
    BY <1>2 DEF AppendChunk, WholeOK, HandlerFacts
  <1>4. PICK t : t = handler.m.id
    OBVIOUS
  <1>5. <<handler.m.v, handler.m.i + 1>> \in pushed \X (1..Total)
    <2>1. handler.m.v \in pushed
      BY <1>2 DEF WholeOK, ChunkOfPush, HandlerFacts
    <2>2. handler.m.i + 1 \in 1..Total
      BY <1>2, LargeTransferAssumption DEF HandlerFacts
    <2>3. QED
      BY <2>1, <2>2
  <1>6. (IF tmp[t] = None THEN <<>> ELSE tmp[t]) \in Seq(pushed \X (1..Total))
    BY <1>2, <1>4, EmptySeq DEF WholeOK, HandlerFacts
  <1>7. Append(IF tmp[t] = None THEN <<>> ELSE tmp[t], <<handler.m.v, handler.m.i + 1>>)
            \in Seq(pushed \X (1..Total))
    BY <1>5, <1>6, AppendProperties
  <1>8. tmp' = [tmp EXCEPT ![t] = Append(IF tmp[t] = None THEN <<>> ELSE tmp[t],
                                         <<handler.m.v, handler.m.i + 1>>)]
    BY <1>4 DEF AppendChunk
  <1>9. \A u \in Transfer : tmp'[u] # None => tmp'[u] \in Seq(pushed \X (1..Total))
    BY <1>7, <1>8 DEF WholeOK, IInv, AssembliesOK
  <1>10. QED
    BY <1>1, <1>3, <1>9, WholeStays DEF AppendChunk, WholeOK, wireVars, senderVars

LEMMA CheckHashWhole ==
  ASSUME IInv, WholeOK, CheckHash
  PROVE  WholeOK' /\ Unpromised
  <1>1. Unpromised
    BY DEF CheckHash, Unpromised, sendHistory, applyHistory
  <1>2. HandlerFacts /\ handler # None
    BY HandlerHas DEF CheckHash
  <1>3. handler' # None => handler'.m = handler.m
    <2>1. handler' = None \/ \E a : handler' = [handler EXCEPT !.at = a]
      BY DEF CheckHash
    <2>2. QED
      BY <1>2, <2>1 DEF HandlerFacts
  <1>4. QED
    BY <1>1, <1>2, <1>3, WholeStays DEF CheckHash, WholeOK, wireVars, senderVars

\* The handler ends with a rejection, and the temporary file is gone.
LEMMA RejectedWhole ==
  ASSUME IInv, WholeOK, handler # None, Reject(handler.m),
         tmp' = [tmp EXCEPT ![handler.m.id] = None],
         UNCHANGED <<toReceiver, senderVars, sendHistory, replaced, left>>
  PROVE  WholeOK' /\ Unpromised
  <1>1. Unpromised
    BY DEF Unpromised, sendHistory
  <1>2. handler.m \in Chunk
    BY HandlerHas DEF HandlerFacts
  <1>3. toSender' \in Seq(ToldOfApplied) /\ handler' = None
    BY <1>2, RejectWhole
  <1>4. \A u \in Transfer : tmp'[u] # None => tmp'[u] \in Seq(pushed \X (1..Total))
    BY DEF WholeOK, IInv, AssembliesOK
  <1>5. QED
    BY <1>1, <1>3, <1>4, WholeStays DEF WholeOK, senderVars

LEMMA MoveWhole ==
  ASSUME IInv, WholeOK, Move
  PROVE  /\ WholeOK' /\ UNCHANGED <<pushed, confirmed>>
         /\ \E v \in pushed : copy' = v /\ replaced' = replaced \union {v}
  <1>0. PICK t, h : t = handler.m.id /\ h = HashOf(tmp[t])
    OBVIOUS
  <1>1. /\ HandlerFacts /\ handler # None /\ tmp[t] # None
        /\ (IF handler.m.h = None THEN HashOf(tmp[t]) ELSE handler.m.h) = h
    BY <1>0, MovedIsRecorded
  <1>2. handler.m \in Chunk /\ handler.m.h \in Version /\ t \in Transfer
    BY <1>0, <1>1 DEF WholeOK, HandlerFacts, ChunkOfPush
  <1>3. h \in Version
    BY <1>1, <1>2, LargeTransferAssumption
  <1>4. tmp[t] = Whole(h) /\ tmp[t] \in Seq(pushed \X (1..Total))
    BY <1>0, <1>1, <1>2, <1>3, HashIsVersion DEF WholeOK
  <1>5. h \in pushed
    <2>1. 1 \in 1..Total /\ DOMAIN tmp[t] = 1..Total /\ tmp[t][1] = <<h, 1>>
      BY <1>4, LargeTransferAssumption DEF Whole
    <2>2. tmp[t][1] \in pushed \X (1..Total)
      BY <1>4, <2>1, LenProperties, ElementOfSeq
    <2>3. QED
      BY <2>1, <2>2
  <1>6. /\ copy' = h /\ replaced' = replaced \union {h} /\ handler' = None
        /\ tmp' = [tmp EXCEPT ![t] = None]
        /\ toSender' = Sent(toSender, [type |-> "file_applied", h |-> h, id |-> t])
        /\ UNCHANGED <<toReceiver, table, sends, pushed, confirmed, left>>
    BY <1>0, <1>1 DEF Move, senderVars, sendHistory
  <1>7. ChunkOfPush' = ChunkOfPush /\ ToldOfApplied \subseteq ToldOfApplied'
    BY <1>6 DEF ChunkOfPush, ToldOfApplied
  <1>8. toSender' \in Seq(ToldOfApplied')
    <2>1. [type |-> "file_applied", h |-> h, id |-> t] \in ToldOfApplied'
      BY <1>2, <1>3, <1>6 DEF ToldOfApplied, ToSender, Hash
    <2>2. toSender \in Seq(ToldOfApplied')
      BY <1>7, SeqMonotonic DEF WholeOK
    <2>3. QED
      BY <1>6, <2>1, <2>2, AppendProperties DEF Sent
  <1>9. \A u \in Transfer : tmp'[u] # None => tmp'[u] \in Seq(pushed \X (1..Total))
    BY <1>6 DEF WholeOK, IInv, AssembliesOK
  <1>10. WholeOK'
    BY <1>5, <1>6, <1>7, <1>8, <1>9 DEF WholeOK
  <1>11. QED
    BY <1>5, <1>6, <1>10

------------------------------------------------------------------------------
(* The refinement *)

LEMMA InitWhole ==
  ASSUME \A b \in Budgets : b.known, Init
  PROVE  WholeOK /\ Promise!Init
  <1>1. left.known /\ table \in Version
    BY DEF Init
  <1>2. toReceiver \in Seq(ChunkOfPush) /\ toSender \in Seq(ToldOfApplied)
    BY EmptySeq DEF Init
  <1>3. QED
    BY <1>1, <1>2 DEF Init, WholeOK, Promise!Init

\* Every step keeps the invariant, and maps to a step of WholeFiles or to none.
LEMMA NextWhole ==
  ASSUME IInv, WholeOK, [Next]_vars
  PROVE  WholeOK' /\ [Promise!Next]_(Promise!vars)
  <1> DEFINE Goal == WholeOK' /\ [Promise!Next]_(Promise!vars)
  <1> SUFFICES Goal
    OBVIOUS
  <1>1. ASSUME WholeOK', Unpromised, copy' = copy PROVE Goal
    BY <1>1 DEF Unpromised, Promise!vars
  <1>2. ASSUME WholeOK', UNCHANGED <<copy, replaced, confirmed>>, pushed' = pushed \union {file}
        PROVE  Goal
    BY <1>2 DEF IInv, TablesOK, Promise!Next, Promise!Offer
  <1>3. ASSUME Connect \/ Drop \/ (\E t \in Transfer : Removed(t)) PROVE Goal
    BY <1>1, <1>3, ConnectWhole, DropWhole, RemovedWhole DEF Connect, Drop, Removed, receiverVars
  <1>4. ASSUME (\E v \in Version : Edit(v)) \/ Watch PROVE Goal
    BY <1>1, <1>4, EditWhole, WatchWhole DEF Edit, Watch, receiverVars
  <1>5. ASSUME Skip \/ PushPatch \/ PushChunks PROVE Goal
    BY <1>2, <1>5, SkipWhole, PushPatchWhole, PushChunksWhole
  <1>6. CASE EditOwn
    BY <1>6, EditOwnWhole DEF EditOwn, Unpromised, Promise!Next, Promise!Edit
  <1>7. ASSUME NEW force \in BOOLEAN, Pull(force) PROVE Goal
    BY <1>1, <1>7, PullWhole DEF Pull
  <1>8. ASSUME NEW s \in sends, SendChunk(s) \/ Drained(s) \/ LoopEnds(s) PROVE Goal
    BY <1>1, <1>8, SendChunkWhole, DrainedWhole, LoopEndsWhole
       DEF SendChunk, Drained, LoopEnds, receiverVars
  <1>9. CASE SenderHandles
    <2>1. WholeOK' /\ UNCHANGED <<copy, pushed, replaced>>
      BY <1>9, SenderHandlesWhole
    <2>2. CASE confirmed' = confirmed
      BY <2>1, <2>2 DEF Promise!vars
    <2>3. ASSUME NEW v \in replaced, confirmed' = confirmed \union {v} PROVE Goal
      <3>1. v \in Version
        BY DEF WholeOK
      <3>2. Promise!Confirm(v)
        BY <2>1, <2>3 DEF Promise!Confirm
      <3>3. QED
        BY <2>1, <3>1, <3>2 DEF Promise!Next
    <2>4. QED
      BY <1>9, <2>2, <2>3, SenderHandlesWhole
  <1>10. ASSUME Refuse \/ HandleChunk \/ Open PROVE Goal
    BY <1>1, <1>10, RefuseWhole, HandleChunkWhole, OpenWhole
       DEF Refuse, HandleChunk, Open, receiverVars
  <1>11. ASSUME AppendChunk \/ CheckHash PROVE Goal
    BY <1>1, <1>11, AppendChunkWhole, CheckHashWhole DEF AppendChunk, CheckHash
  <1>12. ASSUME Discard \/ MoveFails PROVE Goal
    BY <1>1, <1>12, RejectedWhole DEF Discard, MoveFails
  <1>13. CASE Move
    <2>1. WholeOK' /\ UNCHANGED <<pushed, confirmed>>
      BY <1>13, MoveWhole
    <2>2. PICK v \in pushed : copy' = v /\ replaced' = replaced \union {v}
      BY <1>13, MoveWhole
    <2>3. v \in Version /\ Promise!Apply(v)
      BY <2>1, <2>2 DEF Promise!Apply, WholeOK
    <2>4. QED
      BY <2>1, <2>3 DEF Promise!Next
  <1>14. CASE UNCHANGED vars
    <2>1. WholeOK'
      BY <1>14 DEF WholeOK, ChunkOfPush, ToldOfApplied, vars, wireVars, senderVars, receiverVars,
                   sendHistory, applyHistory
    <2>2. QED
      BY <1>14, <2>1 DEF Promise!vars, vars, receiverVars, sendHistory, applyHistory
  <1> HIDE DEF Goal
  <1>15. QED
    BY <1>3, <1>4, <1>5, <1>6, <1>7, <1>8, <1>9, <1>10, <1>11, <1>12, <1>13, <1>14
       DEF Next, SenderNext, ReceiverNext

\* If the sender's tables know the file, the receiver's copy is always one of
\* its own versions or a pushed version, whole, and the sender is told only of
\* what has been written (transport.ts:800-921, 1824-1862).
THEOREM TransfersAreWhole ==
  ASSUME \A b \in Budgets : b.known
  PROVE  Spec => ImplementsWholeFiles
  <1>1. Init => WholeOK /\ Promise!Init
    BY InitWhole
  <1>2. IInv /\ WholeOK /\ [Next]_vars => WholeOK' /\ [Promise!Next]_(Promise!vars)
    BY NextWhole
  <1>3. Spec => Promise!Spec
    BY <1>1, <1>2, Invariant, PTL DEF Spec, Promise!Spec
  <1>4. QED
    BY <1>3 DEF ImplementsWholeFiles
==============================================================================
