-------------------------- MODULE LargeTransferProofs --------------------------
(***************************************************************************)
(* Invariants of the transfer in chunks, for any number of chunks,         *)
(* versions, transfers, edits and lost connections.  That it implements    *)
(* WholeFiles is proved in LargeTransferRefinement.                        *)
(*                                                                         *)
(* The argument: the chunks of a transfer are queued in the order of their *)
(* numbers, the assembly is never ahead of the queue and the sender never  *)
(* behind it.  So a handler that has the last chunk of a transfer is the   *)
(* last one of it, and a transfer that has been rejected at a later chunk  *)
(* than the first cannot open an assembly again.                           *)
(***************************************************************************)
EXTENDS LargeTransfer, SequenceTheorems, FiniteSetTheorems, TLAPS

------------------------------------------------------------------------------
(* The queue of the receiver *)

ToReceiver == Chunk \union [type : {"file_patch", "file_content"}, h : Version \union {None}]

IsChunk(m, t) == m.type = "file_chunk" /\ m.id = t

\* The chunks of a transfer are in the order of their numbers.
InOrder(q) ==
    \A j, k \in 1..Len(q) :
        j < k /\ q[j].type = "file_chunk" /\ IsChunk(q[k], q[j].id) => q[j].i < q[k].i

\* The chunks of t that are queued have numbers from n on, or below n.
AllFrom(q, t, n) == \A k \in 1..Len(q) : IsChunk(q[k], t) => q[k].i >= n
AllBelow(q, t, n) == \A k \in 1..Len(q) : IsChunk(q[k], t) => q[k].i < n

LEMMA Messages ==
  ASSUME NEW m \in ToReceiver
  PROVE  /\ m.type = "file_chunk" => m \in Chunk
         /\ m \in Chunk => m.type = "file_chunk" /\ m.id \in Transfer /\ m.i \in 0..(Total - 1)
                           /\ m.v \in Version /\ m.h \in Version \union {None}
         /\ m \notin Chunk => m.h \in Version \union {None}
  BY DEF ToReceiver, Chunk

LEMMA TailOf ==
  ASSUME NEW q \in Seq(ToReceiver), q # <<>>
  PROVE  /\ Head(q) \in ToReceiver /\ Tail(q) \in Seq(ToReceiver)
         /\ Len(q) \in Nat \ {0} /\ Len(Tail(q)) = Len(q) - 1 /\ Head(q) = q[1]
         /\ \A k \in 1..Len(Tail(q)) : Tail(q)[k] = q[k + 1]
  BY HeadTailProperties, LenProperties

\* What is left of a queue keeps what was true of all of it, and follows its head.
LEMMA RestOfQueue ==
  ASSUME NEW q \in Seq(ToReceiver), q # <<>>
  PROVE  /\ InOrder(q) => InOrder(Tail(q))
         /\ \A t, n : AllFrom(q, t, n) => AllFrom(Tail(q), t, n)
         /\ \A t, n : AllBelow(q, t, n) => AllBelow(Tail(q), t, n)
  <1>1. /\ Len(q) \in Nat \ {0} /\ Len(Tail(q)) = Len(q) - 1
        /\ \A k \in 1..Len(Tail(q)) : Tail(q)[k] = q[k + 1]
    BY TailOf
  <1>2. \A k \in 1..Len(Tail(q)) : k + 1 \in 1..Len(q)
    BY <1>1
  <1>3. InOrder(q) => InOrder(Tail(q))
    BY <1>1, <1>2 DEF InOrder, IsChunk
  <1>4. QED
    BY <1>1, <1>2, <1>3 DEF AllFrom, AllBelow

LEMMA AfterHead ==
  ASSUME NEW q \in Seq(ToReceiver), q # <<>>, InOrder(q), Head(q).type = "file_chunk"
  PROVE  /\ Head(q) \in Chunk
         /\ AllFrom(Tail(q), Head(q).id, Head(q).i + 1)
         /\ \A n \in Nat : AllFrom(q, Head(q).id, n) => n <= Head(q).i
         /\ \A n \in Nat : AllBelow(q, Head(q).id, n) => Head(q).i < n
  <1>1. /\ Len(q) \in Nat \ {0} /\ Len(Tail(q)) = Len(q) - 1 /\ Head(q) = q[1]
        /\ \A k \in 1..Len(Tail(q)) : Tail(q)[k] = q[k + 1]
        /\ Head(q) \in ToReceiver
    BY TailOf
  <1>2. Head(q) \in Chunk /\ Head(q).i \in Nat
    BY <1>1, Messages, LargeTransferAssumption
  <1>3. \A k \in 1..Len(q) : q[k] \in ToReceiver
    BY ElementOfSeq
  <1>4. \A k \in 1..Len(Tail(q)) : 1 < k + 1 /\ k + 1 \in 1..Len(q) /\ 1 \in 1..Len(q)
    BY <1>1
  <1>5. ASSUME NEW k \in 1..Len(Tail(q)), IsChunk(Tail(q)[k], Head(q).id)
        PROVE  Tail(q)[k].i >= Head(q).i + 1
    <2>1. Tail(q)[k] = q[k + 1] /\ q[k + 1] \in Chunk
      BY <1>1, <1>3, <1>4, <1>5, Messages DEF IsChunk
    <2>2. q[1].i < q[k + 1].i
      BY <1>1, <1>4, <1>5, <2>1 DEF InOrder, IsChunk
    <2>3. QED
      BY <1>1, <1>2, <2>1, <2>2, LargeTransferAssumption DEF Chunk
  <1>6. AllFrom(Tail(q), Head(q).id, Head(q).i + 1)
    BY <1>5 DEF AllFrom
  <1>7. IsChunk(q[1], Head(q).id) /\ 1 \in 1..Len(q)
    BY <1>1 DEF IsChunk
  <1>8. QED
    BY <1>1, <1>2, <1>6, <1>7 DEF AllFrom, AllBelow

\* So does a queue that has lost its end,
LEMMA StartOfQueue ==
  ASSUME NEW q \in Seq(ToReceiver), NEW n \in 0..Len(q)
  PROVE  /\ SubSeq(q, 1, n) \in Seq(ToReceiver)
         /\ InOrder(q) => InOrder(SubSeq(q, 1, n))
         /\ \A t, m : AllFrom(q, t, m) => AllFrom(SubSeq(q, 1, n), t, m)
         /\ \A t, m : AllBelow(q, t, m) => AllBelow(SubSeq(q, 1, n), t, m)
  <1> DEFINE r == SubSeq(q, 1, n)
  <1>1. /\ r \in Seq(ToReceiver) /\ Len(r) = n /\ Len(q) \in Nat
        /\ \A k \in 1..n : r[k] = q[k]
    BY SubSeqProperties, LenProperties
  <1>2. \A k \in 1..n : k \in 1..Len(q)
    BY <1>1
  <1> HIDE DEF r
  <1>3. InOrder(q) => InOrder(r)
    BY <1>1, <1>2 DEF InOrder, IsChunk
  <1>4. QED
    BY <1>1, <1>2, <1>3 DEF AllFrom, AllBelow, r

\* and one that has got another message, if it is the next chunk of its transfer.
LEMMA LongerQueue ==
  ASSUME NEW q \in Seq(ToReceiver), NEW m \in ToReceiver
  PROVE  /\ Append(q, m) \in Seq(ToReceiver)
         /\ InOrder(q) /\ (m \in Chunk => AllBelow(q, m.id, m.i)) => InOrder(Append(q, m))
         /\ \A t, n : AllFrom(q, t, n) /\ (IsChunk(m, t) => m.i >= n) => AllFrom(Append(q, m), t, n)
         /\ \A t, n : AllBelow(q, t, n) /\ (IsChunk(m, t) => m.i < n) => AllBelow(Append(q, m), t, n)
  <1> DEFINE r == Append(q, m)
  <1>1. /\ r \in Seq(ToReceiver) /\ Len(r) = Len(q) + 1 /\ Len(q) \in Nat
        /\ \A k \in 1..Len(q) : r[k] = q[k]
        /\ r[Len(q) + 1] = m
    BY AppendProperties, LenProperties
  <1> HIDE DEF r
  <1>2. \A k \in 1..Len(r) : k \in 1..Len(q) \/ k = Len(q) + 1
    BY <1>1
  <1>3. ASSUME InOrder(q), m \in Chunk => AllBelow(q, m.id, m.i)
        PROVE  InOrder(r)
    <2> SUFFICES ASSUME NEW j \in 1..Len(r), NEW k \in 1..Len(r), j < k,
                        r[j].type = "file_chunk", IsChunk(r[k], r[j].id)
                 PROVE  r[j].i < r[k].i
      BY DEF InOrder
    <2>1. j \in 1..Len(q) /\ r[j] = q[j]
      BY <1>1, <1>2
    <2>2. CASE k \in 1..Len(q)
      BY <1>1, <1>3, <2>1, <2>2 DEF InOrder
    <2>3. CASE k = Len(q) + 1
      <3>1. m \in Chunk /\ r[k] = m
        BY <1>1, <2>3, Messages DEF IsChunk
      <3>2. IsChunk(q[j], m.id)
        BY <2>1, <3>1 DEF IsChunk
      <3>3. QED
        BY <1>3, <2>1, <3>1, <3>2 DEF AllBelow
    <2>4. QED
      BY <1>2, <2>2, <2>3
  <1>4. QED
    BY <1>1, <1>2, <1>3 DEF AllFrom, AllBelow, r

------------------------------------------------------------------------------
(* The invariant *)

BudgetOK ==
    /\ left \in Budget
    /\ \E n \in 0..MaxPush : started = 1..n /\ n + left.push <= MaxPush

\* The answers: what is applied is told under the hash it was recorded with.
ToSender ==
    [type : {"file_applied"}, h : Hash, id : Transfer]
    \union [type : {"file_rejected"}, h : Version \union {None}, id : Transfer \union {None}]
    \union [type : {"file_content_request"}, id : {None}]

WireOK ==
    /\ conn \in Nat \union {None}
    /\ toReceiver \in Seq(ToReceiver) /\ InOrder(toReceiver)
    /\ toSender \in Seq(ToSender)
    /\ \A t \in Transfer \ started : AllFrom(toReceiver, t, Total)

TablesOK ==
    /\ file \in Version /\ table \in Version \union {None}
    /\ shadows \in [Hash -> Version \union {None}] /\ lastSent \in Version \union {None}

\* The chunks of s that have been queued are those with numbers below Sofar(s).
Sofar(s) == IF s.on = None THEN s.i ELSE s.i + 1

SendRecord == [id : Transfer, v : Version, h : Version \union {None}, i : 0..Total,
               on : Nat \union {None}]
SendOK(s) ==
    /\ s \in SendRecord /\ s.id \in started
    /\ s.on # None => s.i < Total
    /\ AllBelow(toReceiver, s.id, Sofar(s))
    /\ assemblies[s.id] # None => assemblies[s.id] <= Sofar(s)
    /\ handler # None /\ handler.m.id = s.id => handler.m.i < Sofar(s)
SendsOK ==
    /\ \A s \in sends : SendOK(s)
    /\ \A s, r \in sends : s.id = r.id => s = r

AssembliesOK ==
    /\ assemblies \in [Transfer -> 0..Total \union {None}]
    /\ \A t \in Transfer : assemblies[t] # None =>
           t \in started /\ AllFrom(toReceiver, t, assemblies[t])
    /\ tmp \in [Transfer -> Seq(Version \X (1..Total)) \union {None}]
    /\ removing \subseteq Transfer

Step == {"open", "append", "hash", "discard", "move"}
HandlerOK ==
    handler # None =>
        /\ handler \in [m : Chunk, at : Step]
        /\ handler.m.id \in started
        /\ AllFrom(toReceiver, handler.m.id, handler.m.i + 1)
        /\ handler.at = "open" => handler.m.i = 0
        /\ handler.at = "append" /\ assemblies[handler.m.id] # None =>
               assemblies[handler.m.id] <= handler.m.i
        /\ handler.at \in {"hash", "discard", "move"} => handler.m.i + 1 = Total
        /\ handler.at = "discard" => assemblies[handler.m.id] = None
        /\ handler.at = "move" /\ tmp[handler.m.id] # None =>
               Accepted(tmp[handler.m.id], handler.m.h)

CopyOK == copy \in Hash /\ local = copy /\ synced \in Hash /\ forced \in BOOLEAN

\* Nothing of an applied transfer is left, and no first chunk of a rejected one.
OutcomesOK ==
    /\ applied \subseteq started /\ rejected \subseteq started
    /\ applied \cap rejected = {}
    /\ handler # None => handler.m.id \notin applied \union rejected
    /\ \A t \in applied : AllFrom(toReceiver, t, Total)
    /\ \A t \in rejected : AllFrom(toReceiver, t, 1) /\ assemblies[t] = None
    /\ \A s \in sends : /\ s.id \in applied => Sofar(s) >= Total
                        /\ s.id \in rejected => Sofar(s) >= 1

IInv == BudgetOK /\ WireOK /\ TablesOK /\ SendsOK /\ AssembliesOK /\ HandlerOK /\ CopyOK /\ OutcomesOK

------------------------------------------------------------------------------
(* Frames *)

\* The step adds no chunk to the receiver's queue.
QueueShrinks ==
    /\ toReceiver' \in Seq(ToReceiver) /\ InOrder(toReceiver')
    /\ \A t, n : AllFrom(toReceiver, t, n) => AllFrom(toReceiver', t, n)
    /\ \A t, n : AllBelow(toReceiver, t, n) => AllBelow(toReceiver', t, n)

LEMMA QueueStays ==
  ASSUME WireOK, toReceiver' = toReceiver
  PROVE  QueueShrinks
  BY DEF WireOK, QueueShrinks

LEMMA QueueLosesHead ==
  ASSUME WireOK, toReceiver # <<>>, toReceiver' = Tail(toReceiver)
  PROVE  QueueShrinks
  BY TailOf, RestOfQueue DEF WireOK, QueueShrinks

LEMMA QueueLosesEnd ==
  ASSUME WireOK, NEW n \in 0..Len(toReceiver), toReceiver' = SubSeq(toReceiver, 1, n)
  PROVE  QueueShrinks
  BY StartOfQueue DEF WireOK, QueueShrinks

LEMMA QueueGetsOther ==
  ASSUME WireOK, NEW m \in ToReceiver, m \notin Chunk, toReceiver' = Sent(toReceiver, m)
  PROVE  QueueShrinks
  <1>1. CASE conn = None
    BY <1>1, QueueStays DEF Sent
  <1>2. CASE conn # None
    <2>1. m.type # "file_chunk" /\ \A t : ~IsChunk(m, t)
      BY Messages DEF IsChunk
    <2>2. toReceiver' = Append(toReceiver, m)
      BY <1>2 DEF Sent
    <2>3. QED
      BY <2>1, <2>2, LongerQueue DEF WireOK, QueueShrinks
  <1>3. QED
    BY <1>1, <1>2

\* The step gives up loops, assemblies, files or the handler, or none of these.
GivesUp ==
    /\ sends' \subseteq sends /\ started' = started /\ QueueShrinks
    /\ handler' \in {handler, None}
    /\ assemblies' \in [Transfer -> 0..Total \union {None}]
    /\ \A t \in Transfer : assemblies'[t] \in {assemblies[t], None}
    /\ tmp' \in [Transfer -> Seq(Version \X (1..Total)) \union {None}]
    /\ \A t \in Transfer : tmp'[t] \in {tmp[t], None}
    /\ removing' \subseteq Transfer

LEMMA SendsGivenUp ==
  ASSUME SendsOK, GivesUp
  PROVE  SendsOK'
  <1>1. ASSUME NEW s \in sends'
        PROVE  SendOK(s)'
    <2>1. SendOK(s) /\ s.id \in Transfer
      BY <1>1 DEF SendsOK, GivesUp, SendOK, SendRecord
    <2>2. AllBelow(toReceiver', s.id, Sofar(s))
      BY <2>1 DEF GivesUp, QueueShrinks, SendOK
    <2>3. assemblies'[s.id] # None => assemblies'[s.id] <= Sofar(s)
      BY <2>1 DEF GivesUp, SendOK
    <2>4. handler' # None /\ handler'.m.id = s.id => handler'.m.i < Sofar(s)
      BY <2>1 DEF GivesUp, SendOK
    <2>5. QED
      BY <2>1, <2>2, <2>3, <2>4 DEF GivesUp, SendOK, Sofar
  <1>2. QED
    BY <1>1 DEF SendsOK, GivesUp

LEMMA AssembliesGivenUp ==
  ASSUME AssembliesOK, GivesUp
  PROVE  AssembliesOK'
  <1>1. ASSUME NEW t \in Transfer, assemblies'[t] # None
        PROVE  t \in started' /\ AllFrom(toReceiver', t, assemblies'[t])
    BY <1>1 DEF AssembliesOK, GivesUp, QueueShrinks
  <1>2. QED
    BY <1>1 DEF AssembliesOK, GivesUp

LEMMA HandlerGivenUp ==
  ASSUME HandlerOK, GivesUp
  PROVE  HandlerOK'
  <1> SUFFICES ASSUME handler' # None PROVE HandlerOK'
    BY DEF HandlerOK
  <1>1. handler' = handler /\ handler # None
    BY DEF GivesUp
  <1>2. handler.m.id \in Transfer
    BY <1>1 DEF HandlerOK, Chunk
  <1>3. /\ assemblies'[handler.m.id] \in {assemblies[handler.m.id], None}
        /\ tmp'[handler.m.id] \in {tmp[handler.m.id], None}
        /\ started' = started
        /\ AllFrom(toReceiver', handler.m.id, handler.m.i + 1)
    BY <1>1, <1>2 DEF HandlerOK, GivesUp, QueueShrinks
  <1>4. QED
    BY <1>1, <1>3 DEF HandlerOK

LEMMA StartedOK ==
  ASSUME BudgetOK
  PROVE  started \subseteq Transfer /\ IsFiniteSet(started) /\ left.push \in 0..MaxPush
  BY FS_Interval, LargeTransferAssumption DEF BudgetOK, Budget, Transfer

LEMMA OutcomesGivenUp ==
  ASSUME BudgetOK, OutcomesOK, GivesUp, applied' = applied, rejected' = rejected
  PROVE  OutcomesOK'
  <1>1. applied' \subseteq started' /\ rejected' \subseteq started' /\ applied' \cap rejected' = {}
    BY DEF OutcomesOK, GivesUp
  <1>2. handler' # None => handler'.m.id \notin applied' \union rejected'
    BY DEF OutcomesOK, GivesUp
  <1>3. \A t \in applied' : AllFrom(toReceiver', t, Total)
    BY DEF OutcomesOK, GivesUp, QueueShrinks
  <1>4. \A t \in rejected' : AllFrom(toReceiver', t, 1)
    BY DEF OutcomesOK, GivesUp, QueueShrinks
  <1>5. \A t \in rejected' : assemblies'[t] = None
    BY StartedOK DEF OutcomesOK, GivesUp
  <1>6. \A s \in sends' : /\ s.id \in applied' => Sofar(s)' >= Total
                          /\ s.id \in rejected' => Sofar(s)' >= 1
    BY DEF OutcomesOK, GivesUp, Sofar
  <1>7. QED
    BY <1>1, <1>2, <1>3, <1>4, <1>5, <1>6 DEF OutcomesOK

LEMMA WireGivenUp ==
  ASSUME WireOK, QueueShrinks, started \subseteq started',
         conn' \in Nat \union {None}, toSender' \in Seq(ToSender)
  PROVE  WireOK'
  <1>1. \A t \in Transfer \ started' : AllFrom(toReceiver', t, Total)
    BY DEF WireOK, QueueShrinks
  <1>2. QED
    BY <1>1 DEF WireOK, QueueShrinks

\* What such a step keeps.
LEMMA GivenUp ==
  ASSUME IInv, GivesUp, applied' = applied, rejected' = rejected,
         conn' \in Nat \union {None}, toSender' \in Seq(ToSender),
         BudgetOK', TablesOK', CopyOK'
  PROVE  IInv'
  <1>1. WireOK'
    BY WireGivenUp DEF IInv, GivesUp
  <1>2. QED
    BY <1>1, SendsGivenUp, AssembliesGivenUp, HandlerGivenUp, OutcomesGivenUp DEF IInv

LEMMA NothingGivenUp ==
  ASSUME AssembliesOK, QueueShrinks,
         UNCHANGED <<sends, started, handler, assemblies, tmp, removing>>
  PROVE  GivesUp
  BY DEF AssembliesOK, GivesUp

LEMMA SpendKeeps ==
  ASSUME BudgetOK, NEW k \in {"push", "edit", "own", "pull", "drop"}, Spend(k), started' = started
  PROVE  BudgetOK'
  <1>1. PICK n \in 0..MaxPush : started = 1..n /\ n + left.push <= MaxPush
    BY DEF BudgetOK
  <1>2. left.push \in 0..MaxPush /\ left[k] \in Nat /\ left[k] > 0 /\ left \in Budget
    BY LargeTransferAssumption DEF BudgetOK, Budget, Spend
  <1>3. left' = [left EXCEPT ![k] = left[k] - 1]
    BY DEF Spend
  <1>4. left[k] - 1 \in Nat /\ (k = "push" => left[k] - 1 \in 0..MaxPush)
    BY <1>2, LargeTransferAssumption
  <1>5. left' \in Budget
    BY <1>2, <1>3, <1>4 DEF Budget
  <1>6. left'.push <= left.push /\ left'.push \in Int
    BY <1>2, <1>3, <1>4, <1>5, LargeTransferAssumption DEF Budget
  <1>7. n + left'.push <= MaxPush
    BY <1>1, <1>2, <1>6, LargeTransferAssumption
  <1>8. QED
    BY <1>1, <1>5, <1>7 DEF BudgetOK

LEMMA BudgetStays ==
  ASSUME BudgetOK, left' = left, started' = started
  PROVE  BudgetOK'
  BY DEF BudgetOK

LEMMA TablesStay ==
  ASSUME TablesOK, UNCHANGED <<file, table, shadows, lastSent>>
  PROVE  TablesOK'
  BY DEF TablesOK

LEMMA CopyStays ==
  ASSUME CopyOK, UNCHANGED <<copy, local, synced, forced>>
  PROVE  CopyOK'
  BY DEF CopyOK

LEMMA AnswerSent ==
  ASSUME toSender \in Seq(ToSender), NEW m \in ToSender, toSender' = Sent(toSender, m)
  PROVE  toSender' \in Seq(ToSender)
  BY AppendProperties DEF Sent

------------------------------------------------------------------------------
(* The steps that give something up, or nothing *)

LEMMA ConnectKeeps ==
  ASSUME IInv, Connect
  PROVE  IInv'
  <1> USE DEF IInv
  <1>1. QueueShrinks
    BY QueueStays DEF Connect
  <1>2. GivesUp
    BY <1>1, NothingGivenUp DEF Connect, senderVars, receiverVars, sendHistory
  <1>3. conn' \in Nat /\ toSender' \in Seq(ToSender)
    BY DEF Connect, BudgetOK, Budget, WireOK
  <1>4. BudgetOK' /\ TablesOK' /\ CopyOK'
    BY BudgetStays, TablesStay, CopyStays DEF Connect, senderVars, receiverVars, sendHistory
  <1>5. QED
    BY <1>2, <1>3, <1>4, GivenUp DEF Connect, applyHistory

LEMMA DropKeeps ==
  ASSUME IInv, Drop
  PROVE  IInv'
  <1> USE DEF IInv
  <1>1. QueueShrinks
    BY QueueLosesEnd DEF Drop
  <1>2. GivesUp
    BY <1>1 DEF Drop, GivesUp, AssembliesOK, senderVars, sendHistory
  <1>3. conn' = None /\ toSender' \in Seq(ToSender)
    BY SubSeqProperties, LenProperties DEF Drop, WireOK
  <1>4. BudgetOK' /\ TablesOK' /\ CopyOK'
    BY SpendKeeps, TablesStay, CopyStays DEF Drop, senderVars, sendHistory
  <1>5. QED
    BY <1>2, <1>3, <1>4, GivenUp DEF Drop, applyHistory

LEMMA RemovedKeeps ==
  ASSUME IInv, NEW t \in Transfer, Removed(t)
  PROVE  IInv'
  <1> USE DEF IInv
  <1>1. QueueShrinks
    BY QueueStays DEF Removed, wireVars
  <1>2. GivesUp
    BY <1>1 DEF Removed, GivesUp, AssembliesOK, senderVars, sendHistory
  <1>3. conn' \in Nat \union {None} /\ toSender' \in Seq(ToSender)
    BY DEF Removed, WireOK, wireVars
  <1>4. BudgetOK' /\ TablesOK' /\ CopyOK'
    BY BudgetStays, TablesStay, CopyStays DEF Removed, senderVars, sendHistory
  <1>5. QED
    BY <1>2, <1>3, <1>4, GivenUp DEF Removed, applyHistory

LEMMA EditKeeps ==
  ASSUME IInv, NEW v \in Version, Edit(v)
  PROVE  IInv'
  <1> USE DEF IInv
  <1>1. QueueShrinks
    BY QueueStays DEF Edit, wireVars
  <1>2. GivesUp
    BY <1>1, NothingGivenUp DEF Edit, receiverVars, sendHistory
  <1>3. conn' \in Nat \union {None} /\ toSender' \in Seq(ToSender)
    BY DEF Edit, WireOK, wireVars
  <1>4. BudgetOK' /\ CopyOK'
    BY SpendKeeps, CopyStays DEF Edit, receiverVars, sendHistory
  <1>5. TablesOK'
    BY DEF TablesOK, Edit
  <1>6. QED
    BY <1>2, <1>3, <1>4, <1>5, GivenUp DEF Edit, applyHistory

LEMMA WatchKeeps ==
  ASSUME IInv, Watch
  PROVE  IInv'
  <1> USE DEF IInv
  <1>1. QueueShrinks
    BY QueueStays DEF Watch, wireVars
  <1>2. GivesUp
    BY <1>1, NothingGivenUp DEF Watch, receiverVars, sendHistory
  <1>3. conn' \in Nat \union {None} /\ toSender' \in Seq(ToSender)
    BY DEF Watch, WireOK, wireVars
  <1>4. BudgetOK' /\ CopyOK'
    BY BudgetStays, CopyStays DEF Watch, receiverVars, sendHistory
  <1>5. TablesOK'
    BY DEF TablesOK, Watch
  <1>6. QED
    BY <1>2, <1>3, <1>4, <1>5, GivenUp DEF Watch, applyHistory

LEMMA SkipKeeps ==
  ASSUME IInv, Skip
  PROVE  IInv'
  <1> USE DEF IInv
  <1>1. QueueShrinks
    BY QueueStays DEF Skip, wireVars
  <1>2. GivesUp
    BY <1>1, NothingGivenUp DEF Skip, senderVars, receiverVars
  <1>3. conn' \in Nat \union {None} /\ toSender' \in Seq(ToSender)
    BY DEF Skip, WireOK, wireVars
  <1>4. BudgetOK' /\ TablesOK' /\ CopyOK'
    BY SpendKeeps, TablesStay, CopyStays DEF Skip, senderVars, receiverVars
  <1>5. QED
    BY <1>2, <1>3, <1>4, GivenUp DEF Skip, applyHistory

LEMMA ShadowedKeeps ==
  ASSUME TablesOK, NEW h \in Version, NEW v \in Version, Shadowed(h, v)
  PROVE  /\ shadows' \in [Hash -> Version \union {None}]
         /\ lastSent' \in Version \union {None}
  BY DEF TablesOK, Shadowed, Hash

LEMMA PushPatchKeeps ==
  ASSUME IInv, PushPatch
  PROVE  IInv'
  <1> USE DEF IInv
  <1> DEFINE m == [type |-> "file_patch", h |-> table]
  <1>1. m \in ToReceiver /\ m \notin Chunk
    BY DEF ToReceiver, Chunk, TablesOK
  <1>2. toReceiver' = Sent(toReceiver, m)
    BY DEF PushPatch
  <1> HIDE DEF m
  <1>3. QueueShrinks
    BY <1>1, <1>2, QueueGetsOther
  <1>4. GivesUp
    BY <1>3, NothingGivenUp DEF PushPatch, receiverVars
  <1>5. conn' \in Nat \union {None} /\ toSender' \in Seq(ToSender)
    BY DEF PushPatch, WireOK
  <1>6. BudgetOK' /\ CopyOK'
    BY SpendKeeps, CopyStays DEF PushPatch, receiverVars
  <1>7. table \in Version /\ file \in Version
    BY DEF TablesOK, PushPatch, HasShadow
  <1>8. TablesOK'
    BY <1>7, ShadowedKeeps DEF TablesOK, PushPatch
  <1>9. QED
    BY <1>4, <1>5, <1>6, <1>8, GivenUp DEF PushPatch, applyHistory

LEMMA LoopEndsKeeps ==
  ASSUME IInv, NEW s \in sends, LoopEnds(s)
  PROVE  IInv'
  <1> USE DEF IInv
  <1>1. QueueShrinks
    BY QueueStays DEF LoopEnds, wireVars
  <1>2. GivesUp
    BY <1>1 DEF LoopEnds, GivesUp, AssembliesOK, receiverVars, sendHistory
  <1>3. conn' \in Nat \union {None} /\ toSender' \in Seq(ToSender)
    BY DEF LoopEnds, WireOK, wireVars
  <1>4. BudgetOK' /\ CopyOK'
    BY BudgetStays, CopyStays DEF LoopEnds, receiverVars, sendHistory
  <1>5. s.h \in Version \union {None} /\ s.v \in Version
    BY DEF SendsOK, SendOK, SendRecord
  <1>6. TablesOK'
    BY <1>5, ShadowedKeeps DEF TablesOK, LoopEnds
  <1>7. QED
    BY <1>2, <1>3, <1>4, <1>6, GivenUp DEF LoopEnds, applyHistory

LEMMA SenderHandlesKeeps ==
  ASSUME IInv, SenderHandles
  PROVE  IInv'
  <1> USE DEF IInv
  <1> DEFINE m == [type |-> "file_content", h |-> table]
  <1>1. m \in ToReceiver /\ m \notin Chunk
    BY DEF ToReceiver, Chunk, TablesOK
  <1>2. toReceiver' = toReceiver \/ toReceiver' = Sent(toReceiver, m)
    BY DEF SenderHandles
  <1> HIDE DEF m
  <1>3. QueueShrinks
    BY <1>1, <1>2, QueueGetsOther, QueueStays
  <1>4. GivesUp
    BY <1>3, NothingGivenUp DEF SenderHandles, receiverVars
  <1>5. conn' \in Nat \union {None} /\ toSender' \in Seq(ToSender)
    BY HeadTailProperties DEF SenderHandles, WireOK
  <1>6. BudgetOK' /\ TablesOK' /\ CopyOK'
    BY BudgetStays, TablesStay, CopyStays DEF SenderHandles, receiverVars
  <1>7. QED
    BY <1>4, <1>5, <1>6, GivenUp DEF SenderHandles, applyHistory

LEMMA EditOwnKeeps ==
  ASSUME IInv, EditOwn
  PROVE  IInv'
  <1> USE DEF IInv
  <1>1. QueueShrinks
    BY QueueStays DEF EditOwn, wireVars
  <1>2. GivesUp
    BY <1>1, NothingGivenUp DEF EditOwn, senderVars, sendHistory
  <1>3. conn' \in Nat \union {None} /\ toSender' \in Seq(ToSender)
    BY DEF EditOwn, WireOK, wireVars
  <1>4. BudgetOK' /\ TablesOK'
    BY SpendKeeps, TablesStay DEF EditOwn, senderVars, sendHistory
  <1>5. CopyOK'
    BY DEF CopyOK, EditOwn, Hash
  <1>6. QED
    BY <1>2, <1>3, <1>4, <1>5, GivenUp DEF EditOwn, applyHistory

LEMMA PullKeeps ==
  ASSUME IInv, NEW force \in BOOLEAN, Pull(force)
  PROVE  IInv'
  <1> USE DEF IInv
  <1>1. QueueShrinks
    BY QueueStays DEF Pull
  <1>2. GivesUp
    BY <1>1, NothingGivenUp DEF Pull, senderVars, sendHistory
  <1>3. [type |-> "file_content_request", id |-> None] \in ToSender
    BY DEF ToSender
  <1>4. conn' \in Nat \union {None} /\ toSender' \in Seq(ToSender)
    BY <1>3, AnswerSent DEF Pull, WireOK
  <1>5. BudgetOK' /\ TablesOK'
    BY SpendKeeps, TablesStay DEF Pull, senderVars, sendHistory
  <1>6. CopyOK'
    BY DEF CopyOK, Pull
  <1>7. QED
    BY <1>2, <1>4, <1>5, <1>6, GivenUp DEF Pull, applyHistory

LEMMA RefuseKeeps ==
  ASSUME IInv, Refuse
  PROVE  IInv'
  <1> USE DEF IInv
  <1>1. QueueShrinks
    BY QueueLosesHead DEF Refuse
  <1>2. GivesUp
    BY <1>1, NothingGivenUp DEF Refuse, senderVars, receiverVars, sendHistory
  <1>3. Head(toReceiver).h \in Version \union {None}
    BY TailOf, Messages DEF Refuse, WireOK
  <1>4. [type |-> "file_rejected", h |-> Head(toReceiver).h, id |-> None] \in ToSender
    BY <1>3 DEF ToSender
  <1>5. conn' \in Nat \union {None} /\ toSender' \in Seq(ToSender)
    BY <1>4, AnswerSent DEF Refuse, WireOK
  <1>6. BudgetOK' /\ TablesOK' /\ CopyOK'
    BY BudgetStays, TablesStay, CopyStays DEF Refuse, senderVars, receiverVars, sendHistory
  <1>7. QED
    BY <1>2, <1>5, <1>6, GivenUp DEF Refuse, applyHistory

------------------------------------------------------------------------------
(* The chunk loop *)

LEMMA FromLess ==
  ASSUME NEW q \in Seq(ToReceiver), NEW t, NEW m \in Nat, NEW n \in Nat, n <= m, AllFrom(q, t, m)
  PROVE  AllFrom(q, t, n)
  <1>1. ASSUME NEW k \in 1..Len(q), IsChunk(q[k], t)
        PROVE  q[k].i >= n
    <2>1. q[k] \in Chunk /\ q[k].i \in Int
      BY <1>1, ElementOfSeq, Messages DEF IsChunk
    <2>2. QED
      BY <1>1, <2>1 DEF AllFrom
  <1>2. QED
    BY <1>1 DEF AllFrom

LEMMA BelowMore ==
  ASSUME NEW q \in Seq(ToReceiver), NEW t, NEW m \in Nat, NEW n \in Nat, m <= n, AllBelow(q, t, m)
  PROVE  AllBelow(q, t, n)
  <1>1. ASSUME NEW k \in 1..Len(q), IsChunk(q[k], t)
        PROVE  q[k].i < n
    <2>1. q[k] \in Chunk /\ q[k].i \in Int
      BY <1>1, ElementOfSeq, Messages DEF IsChunk
    <2>2. QED
      BY <1>1, <2>1 DEF AllBelow
  <1>2. QED
    BY <1>1 DEF AllBelow

\* Of a transfer that has not started nothing is queued.
LEMMA NoneQueued ==
  ASSUME WireOK, NEW t \in Transfer \ started
  PROVE  \A n \in Nat : AllBelow(toReceiver, t, n)
  <1>1. AllFrom(toReceiver, t, Total) /\ toReceiver \in Seq(ToReceiver)
    BY DEF WireOK
  <1>2. ASSUME NEW k \in 1..Len(toReceiver), IsChunk(toReceiver[k], t)
        PROVE  FALSE
    <2>1. toReceiver[k] \in Chunk /\ toReceiver[k].i \in 0..(Total - 1)
      BY <1>1, <1>2, ElementOfSeq, Messages DEF IsChunk
    <2>2. toReceiver[k].i >= Total
      BY <1>1, <1>2 DEF AllFrom
    <2>3. QED
      BY <2>1, <2>2, LargeTransferAssumption
  <1>3. QED
    BY <1>2 DEF AllBelow

LEMMA SofarIsNat ==
  ASSUME NEW s \in SendRecord
  PROVE  Sofar(s) \in Nat /\ s.i \in Nat /\ s.id \in Transfer
  BY LargeTransferAssumption DEF SendRecord, Sofar

LEMMA PushChunksKeeps ==
  ASSUME IInv, PushChunks
  PROVE  IInv'
  <1> USE DEF IInv
  <1>1. PICK n \in 0..MaxPush : started = 1..n /\ n + left.push <= MaxPush
    BY DEF BudgetOK
  <1>2. left.push \in 0..MaxPush /\ left.push > 0 /\ left \in Budget
        /\ left' = [left EXCEPT !.push = left.push - 1]
    BY DEF BudgetOK, Budget, PushChunks, Spend
  <1>3. Cardinality(started) = n
    BY <1>1, FS_Interval, LargeTransferAssumption
  <1> DEFINE t == n + 1
  <1>0. PICK new : new = [id |-> t, v |-> file, h |-> table, i |-> 0, on |-> None]
    OBVIOUS
  <1>4. /\ sends' = sends \union {new} /\ started' = started \union {t}
        /\ UNCHANGED <<conn, toReceiver, toSender, file, table, shadows, lastSent, assemblies,
                       tmp, removing, handler, copy, local, synced, forced, applied, rejected>>
    BY <1>3, <1>0 DEF PushChunks, wireVars, receiverVars, applyHistory
  <1>5. t \in 1..MaxPush /\ t \notin started /\ started' = 1..t /\ t + (left.push - 1) <= MaxPush
    BY <1>1, <1>2, <1>4, LargeTransferAssumption
  <1>6. new.id = t /\ new.i = 0 /\ new.on = None /\ new \in SendRecord
    BY <1>5, <1>0, LargeTransferAssumption DEF TablesOK, SendRecord, Transfer
  <1> HIDE DEF t
  <1>7. Sofar(new) = 0
    BY <1>6 DEF Sofar
  <1>8. BudgetOK'
    <2>1. left.push - 1 \in 0..MaxPush /\ t \in 0..MaxPush
      BY <1>2, <1>5, LargeTransferAssumption
    <2>2. left' \in Budget /\ left'.push = left.push - 1
      BY <1>2, <2>1 DEF Budget
    <2>3. QED
      BY <1>5, <2>1, <2>2 DEF BudgetOK
  <1>9. WireOK'
    BY <1>4 DEF WireOK
  <1>10. TablesOK' /\ CopyOK'
    BY <1>4, TablesStay, CopyStays
  <1>11. SendOK(new)'
    <2>1. AllBelow(toReceiver, t, 0) /\ t \in Transfer
      BY <1>5, NoneQueued DEF Transfer
    <2>2. assemblies[t] = None
      BY <1>5, <2>1 DEF AssembliesOK
    <2>3. handler # None => handler.m.id # t
      BY <1>5 DEF HandlerOK
    <2>4. QED
      BY <1>4, <1>6, <1>7, <2>1, <2>2, <2>3 DEF SendOK, Sofar
  <1>12. SendsOK'
    <2>1. \A s \in sends : SendOK(s)' /\ s.id # t
      BY <1>4, <1>5 DEF SendsOK, SendOK, Sofar
    <2>2. QED
      BY <1>4, <1>6, <1>11, <2>1 DEF SendsOK
  <1>13. AssembliesOK' /\ HandlerOK'
    BY <1>4 DEF AssembliesOK, HandlerOK
  <1>14. OutcomesOK'
    <2>1. t \notin applied \union rejected
      BY <1>5 DEF OutcomesOK
    <2>2. \A s \in sends' : /\ s.id \in applied => Sofar(s)' >= Total
                            /\ s.id \in rejected => Sofar(s)' >= 1
      BY <1>4, <1>6, <2>1 DEF OutcomesOK, Sofar
    <2>3. QED
      BY <1>4, <2>2 DEF OutcomesOK
  <1>15. QED
    BY <1>8, <1>9, <1>10, <1>12, <1>13, <1>14

\* The loop gives up: the connection is another one, or none.
LEMMA StoppedKeeps ==
  ASSUME IInv, NEW s \in sends, Stopped(s), UNCHANGED <<toReceiver, conn, toSender, file, table,
         shadows, lastSent, receiverVars, sendHistory, applyHistory, left>>
  PROVE  IInv'
  <1> USE DEF IInv
  <1>1. QueueShrinks
    BY QueueStays
  <1>2. GivesUp
    BY <1>1 DEF Stopped, GivesUp, AssembliesOK, receiverVars, sendHistory
  <1>3. conn' \in Nat \union {None} /\ toSender' \in Seq(ToSender)
    BY DEF WireOK
  <1>4. BudgetOK' /\ TablesOK' /\ CopyOK'
    BY BudgetStays, TablesStay, CopyStays DEF receiverVars, sendHistory
  <1>5. QED
    BY <1>2, <1>3, <1>4, GivenUp DEF applyHistory

\* The loop goes on with another record, r, and all that is not its own stays.
LEMMA LoopGoesOn ==
  ASSUME IInv, NEW s \in sends, NEW r \in SendRecord, sends' = (sends \ {s}) \union {r},
         r.id = s.id, Sofar(r) >= Sofar(s), SendOK(r)',
         WireOK', \A t, n : t # s.id /\ AllBelow(toReceiver, t, n) => AllBelow(toReceiver', t, n),
         \A t \in Transfer, n \in Nat :
             AllFrom(toReceiver, t, n) /\ (t = s.id => n <= Sofar(s)) => AllFrom(toReceiver', t, n),
         UNCHANGED <<file, table, shadows, lastSent, receiverVars, sendHistory, applyHistory, left>>
  PROVE  IInv'
  <1> USE DEF IInv
  <1>0. /\ started' = started /\ assemblies' = assemblies /\ handler' = handler /\ tmp' = tmp
        /\ removing' = removing /\ applied' = applied /\ rejected' = rejected
    BY DEF receiverVars, sendHistory, applyHistory
  <1>1. BudgetOK' /\ TablesOK' /\ CopyOK'
    BY BudgetStays, TablesStay, CopyStays DEF receiverVars, sendHistory
  <1>2. SendOK(s) /\ s \in SendRecord /\ Sofar(s) \in Nat /\ Sofar(r) \in Nat /\ s.id \in Transfer
    BY SofarIsNat DEF SendsOK, SendOK
  <1>3. SendsOK'
    <2>1. \A x \in sends : x # s => x.id # s.id
      BY DEF SendsOK
    <2>2. \A x \in sends : x # s => SendOK(x)'
      BY <1>0, <2>1 DEF SendsOK, SendOK, Sofar
    <2>3. QED
      BY <2>1, <2>2 DEF SendsOK
  <1>4. AssembliesOK'
    <2>1. ASSUME NEW t \in Transfer, assemblies[t] # None
          PROVE  AllFrom(toReceiver', t, assemblies[t])
      <3>1. assemblies[t] \in Nat /\ AllFrom(toReceiver, t, assemblies[t])
        BY <2>1, LargeTransferAssumption DEF AssembliesOK
      <3>2. t = s.id => assemblies[t] <= Sofar(s)
        BY <1>2, <2>1 DEF SendOK
      <3>3. QED
        BY <3>1, <3>2
    <2>2. QED
      BY <1>0, <2>1 DEF AssembliesOK
  <1>5. HandlerOK'
    <2>1. ASSUME handler # None
          PROVE  AllFrom(toReceiver', handler.m.id, handler.m.i + 1)
      <3>1. handler.m.id \in Transfer /\ handler.m.i + 1 \in Nat /\ handler.m.i \in Nat
            /\ AllFrom(toReceiver, handler.m.id, handler.m.i + 1)
        BY <2>1, LargeTransferAssumption DEF HandlerOK, Chunk
      <3>2. handler.m.id = s.id => handler.m.i + 1 <= Sofar(s)
        BY <1>2, <2>1, <3>1 DEF SendOK
      <3>3. QED
        BY <3>1, <3>2
    <2>2. QED
      BY <1>0, <2>1 DEF HandlerOK
  <1>6. OutcomesOK'
    <2>1. \A t \in applied : t \in Transfer /\ AllFrom(toReceiver, t, Total)
          /\ (t = s.id => Total <= Sofar(s))
      BY <1>2, StartedOK DEF OutcomesOK
    <2>2. \A t \in applied : AllFrom(toReceiver', t, Total)
      BY <2>1, LargeTransferAssumption
    <2>3. \A t \in rejected : t \in Transfer /\ AllFrom(toReceiver, t, 1)
          /\ (t = s.id => 1 <= Sofar(s))
      BY <1>2, StartedOK DEF OutcomesOK
    <2>4. \A t \in rejected : AllFrom(toReceiver', t, 1)
      BY <2>3
    <2>5. Sofar(r)' = Sofar(r) /\ \A x \in sends : Sofar(x)' = Sofar(x)
      BY DEF Sofar
    <2>6. \A x \in sends' : /\ x.id \in applied => Sofar(x) >= Total
                            /\ x.id \in rejected => Sofar(x) >= 1
      <3>1. /\ r.id \in applied => Sofar(r) >= Total
            /\ r.id \in rejected => Sofar(r) >= 1
        BY <1>2, LargeTransferAssumption DEF OutcomesOK
      <3>2. QED
        BY <3>1 DEF OutcomesOK
    <2>7. QED
      BY <1>0, <2>2, <2>4, <2>5, <2>6 DEF OutcomesOK
  <1>7. QED
    BY <1>1, <1>3, <1>4, <1>5, <1>6

LEMMA SendChunkKeeps ==
  ASSUME IInv, NEW s \in sends, SendChunk(s)
  PROVE  IInv'
  <1> USE DEF IInv
  <1>1. CASE conn = None
    BY <1>1, StoppedKeeps DEF SendChunk
  <1>2. CASE conn # None
    <2> DEFINE m == [type |-> "file_chunk", id |-> s.id, i |-> s.i, v |-> s.v, h |-> s.h]
    <2>0. PICK r : r = [s EXCEPT !.on = conn]
      OBVIOUS
    <2>1. SendOK(s) /\ s \in SendRecord /\ s.on = None /\ s.i < Total
      BY DEF SendsOK, SendOK, SendChunk
    <2>2. m \in Chunk /\ m.id = s.id /\ m.i = s.i /\ m.type = "file_chunk"
      BY <2>1, LargeTransferAssumption DEF Chunk, SendRecord
    <2>3. r \in SendRecord /\ r.id = s.id /\ r.i = s.i /\ r.on = conn
      BY <2>1, <2>0 DEF SendRecord, WireOK
    <2>4. /\ toReceiver' = Append(toReceiver, m) /\ sends' = (sends \ {s}) \union {r}
          /\ UNCHANGED <<conn, toSender, file, table, shadows, lastSent, receiverVars,
                         sendHistory, applyHistory, left>>
      BY <1>2, <2>0 DEF SendChunk
    <2> HIDE DEF m
    <2>5. Sofar(s) = s.i /\ Sofar(r) = s.i + 1 /\ s.i \in Nat /\ s.id \in started
      BY <1>2, <2>1, <2>3, SofarIsNat DEF Sofar, SendOK
    <2>6. m \in ToReceiver /\ toReceiver \in Seq(ToReceiver) /\ AllBelow(toReceiver, s.id, s.i)
      BY <2>1, <2>2, <2>5 DEF ToReceiver, WireOK, SendOK
    <2>7. \A t, n : AllFrom(toReceiver, t, n) /\ (t = s.id => s.i >= n) => AllFrom(toReceiver', t, n)
      BY <2>2, <2>4, <2>6, LongerQueue DEF IsChunk
    <2>8. \A t, n : AllBelow(toReceiver, t, n) /\ (t = s.id => s.i < n) => AllBelow(toReceiver', t, n)
      BY <2>2, <2>4, <2>6, LongerQueue DEF IsChunk
    <2>9. WireOK'
      <3>1. toReceiver' \in Seq(ToReceiver) /\ InOrder(toReceiver')
        BY <2>2, <2>4, <2>6, LongerQueue DEF WireOK
      <3>2. \A t \in Transfer \ started : AllFrom(toReceiver', t, Total)
        BY <2>5, <2>7 DEF WireOK
      <3>3. QED
        BY <2>4, <3>1, <3>2 DEF WireOK, sendHistory
    <2>10. SendOK(r)'
      <3>1. AllBelow(toReceiver', s.id, s.i + 1)
        BY <2>5, <2>6, <2>8, BelowMore
      <3>2. assemblies[s.id] # None => assemblies[s.id] <= s.i + 1
        <4>1. assemblies[s.id] # None => assemblies[s.id] \in Nat /\ assemblies[s.id] <= s.i
          BY <2>1, <2>5, SofarIsNat, LargeTransferAssumption DEF SendOK, AssembliesOK
        <4>2. QED
          BY <2>5, <4>1
      <3>3. handler # None /\ handler.m.id = s.id => handler.m.i < s.i + 1
        <4>1. handler # None /\ handler.m.id = s.id => handler.m.i \in Nat /\ handler.m.i < s.i
          BY <2>1, <2>5, LargeTransferAssumption DEF SendOK, HandlerOK, Chunk
        <4>2. QED
          BY <2>5, <4>1
      <3>4. Sofar(r)' = s.i + 1
        BY <2>5 DEF Sofar
      <3>5. assemblies' = assemblies /\ handler' = handler /\ started' = started
        BY <2>4 DEF receiverVars, sendHistory
      <3>6. QED
        BY <2>1, <2>3, <2>5, <3>1, <3>2, <3>3, <3>4, <3>5 DEF SendOK
    <2>11. \A t, n : t # s.id /\ AllBelow(toReceiver, t, n) => AllBelow(toReceiver', t, n)
      BY <2>8
    <2>12. \A t \in Transfer, n \in Nat :
             AllFrom(toReceiver, t, n) /\ (t = s.id => n <= Sofar(s)) => AllFrom(toReceiver', t, n)
      BY <2>5, <2>7
    <2>13. Sofar(r) >= Sofar(s)
      BY <2>5
    <2>14. QED
      BY <2>3, <2>4, <2>9, <2>10, <2>11, <2>12, <2>13, LoopGoesOn
  <1>3. QED
    BY <1>1, <1>2

LEMMA DrainedKeeps ==
  ASSUME IInv, NEW s \in sends, Drained(s)
  PROVE  IInv'
  <1> USE DEF IInv
  <1>1. CASE s.on # conn
    BY <1>1, StoppedKeeps DEF Drained, wireVars
  <1>2. CASE s.on = conn
    <2> DEFINE r == [s EXCEPT !.on = None, !.i = @ + 1]
    <2>1. SendOK(s) /\ s \in SendRecord /\ s.on # None /\ s.i < Total /\ s.i \in Nat
          /\ s.i \in 0..Total
      BY SofarIsNat DEF SendsOK, SendOK, Drained, SendRecord
    <2>2. s.i + 1 \in 0..Total
      BY <2>1, LargeTransferAssumption
    <2>3. r \in SendRecord /\ r.id = s.id /\ r.i = s.i + 1 /\ r.on = None
      BY <2>1, <2>2 DEF SendRecord
    <2>4. /\ toReceiver' = toReceiver /\ sends' = (sends \ {s}) \union {r}
          /\ UNCHANGED <<conn, toSender, file, table, shadows, lastSent, receiverVars,
                         sendHistory, applyHistory, left>>
      BY <1>2 DEF Drained, wireVars
    <2> HIDE DEF r
    <2>5. Sofar(s) = s.i + 1 /\ Sofar(r) = s.i + 1
      BY <2>1, <2>3 DEF Sofar
    <2>6. WireOK'
      BY <2>4 DEF WireOK, sendHistory
    <2>7. SendOK(r)'
      <3>1. Sofar(r)' = Sofar(s)
        BY <2>5 DEF Sofar
      <3>2. assemblies' = assemblies /\ handler' = handler /\ started' = started
        BY <2>4 DEF receiverVars, sendHistory
      <3>3. QED
        BY <2>1, <2>3, <2>4, <3>1, <3>2 DEF SendOK
    <2>8. Sofar(r) >= Sofar(s)
      BY <2>1, <2>5
    <2>9. QED
      BY <2>3, <2>4, <2>6, <2>7, <2>8, LoopGoesOn
  <1>3. QED
    BY <1>1, <1>2

------------------------------------------------------------------------------
(* The handler *)

HandlerFacts ==
    /\ handler \in [m : Chunk, at : Step]
    /\ handler.m \in Chunk /\ handler.m.type = "file_chunk"
    /\ handler.m.id \in Transfer /\ handler.m.id \in started
    /\ handler.m.i \in 0..(Total - 1) /\ handler.m.i \in Nat /\ handler.m.v \in Version
    /\ handler.m.h \in Version \union {None}
    /\ AllFrom(toReceiver, handler.m.id, handler.m.i + 1)
    /\ handler.m.id \notin applied \union rejected
    /\ \A s \in sends : s.id = handler.m.id => handler.m.i < Sofar(s)

LEMMA HandlerHas ==
  ASSUME IInv, handler # None
  PROVE  HandlerFacts
  <1>1. handler \in [m : Chunk, at : Step] /\ handler.m \in Chunk /\ handler.m.id \in started
        /\ AllFrom(toReceiver, handler.m.id, handler.m.i + 1)
    BY DEF IInv, HandlerOK
  <1>2. /\ handler.m.type = "file_chunk" /\ handler.m.id \in Transfer /\ handler.m.v \in Version
        /\ handler.m.i \in 0..(Total - 1) /\ handler.m.h \in Version \union {None}
    BY <1>1 DEF Chunk
  <1>3. handler.m.i \in Nat
    BY <1>2, LargeTransferAssumption
  <1>4. handler.m.id \notin applied \union rejected
    BY DEF IInv, OutcomesOK
  <1>5. \A s \in sends : s.id = handler.m.id => handler.m.i < Sofar(s)
    BY DEF IInv, SendsOK, SendOK
  <1>6. QED
    BY <1>1, <1>2, <1>3, <1>4, <1>5 DEF HandlerFacts

LEMMA NothingLost ==
  ASSUME AssembliesOK, QueueShrinks, started' = started,
         UNCHANGED <<assemblies, tmp, removing>>
  PROVE  AssembliesOK'
  BY DEF AssembliesOK, QueueShrinks

\* The loops do not notice what the receiver does, if it is not ahead of them.
LEMMA SendsFollow ==
  ASSUME SendsOK, QueueShrinks, UNCHANGED <<sends, started>>,
         \A s \in sends : assemblies'[s.id] # None => assemblies'[s.id] <= Sofar(s),
         \A s \in sends : handler' # None /\ s.id = handler'.m.id => handler'.m.i < Sofar(s)
  PROVE  SendsOK'
  <1>1. \A s \in sends : SendOK(s)'
    BY DEF SendsOK, SendOK, Sofar, QueueShrinks
  <1>2. QED
    BY <1>1 DEF SendsOK

LEMMA RejectKeeps ==
  ASSUME OutcomesOK, BudgetOK, QueueShrinks, UNCHANGED <<sends, started, applied>>, handler' = None,
         NEW t \in started, rejected' = rejected \union {t}, t \notin applied,
         AllFrom(toReceiver', t, 1), assemblies'[t] = None,
         \A u \in Transfer : assemblies'[u] \in {assemblies[u], None},
         \A s \in sends : s.id = t => Sofar(s) >= 1
  PROVE  OutcomesOK'
  <1>1. \A u \in rejected' : AllFrom(toReceiver', u, 1) /\ assemblies'[u] = None
    BY StartedOK DEF OutcomesOK, QueueShrinks
  <1>2. \A s \in sends : s.id \in rejected' => Sofar(s) >= 1
    BY DEF OutcomesOK
  <1>3. QED
    BY <1>1, <1>2 DEF OutcomesOK, QueueShrinks, Sofar

LEMMA HandleChunkKeeps ==
  ASSUME IInv, HandleChunk
  PROVE  IInv'
  <1> USE DEF IInv
  <1> DEFINE m == Head(toReceiver)
  <1>1. /\ toReceiver \in Seq(ToReceiver) /\ toReceiver # <<>> /\ InOrder(toReceiver)
        /\ m.type = "file_chunk" /\ handler = None /\ toReceiver' = Tail(toReceiver)
    BY DEF HandleChunk, WireOK
  <1>2. m \in Chunk /\ AllFrom(toReceiver', m.id, m.i + 1)
        /\ (\A n \in Nat : AllFrom(toReceiver, m.id, n) => n <= m.i)
        /\ (\A n \in Nat : AllBelow(toReceiver, m.id, n) => m.i < n)
    BY <1>1, AfterHead
  <1>3. m.id \in Transfer /\ m.i \in 0..(Total - 1) /\ m.i \in Nat /\ m.h \in Version \union {None}
        /\ Total \in Nat /\ m.i < Total
    BY <1>2, LargeTransferAssumption DEF Chunk
  <1>4. m.id \in started
    BY <1>2, <1>3 DEF WireOK
  <1>5. m.id \notin applied
    BY <1>2, <1>3 DEF OutcomesOK
  <1>6. /\ \A s \in sends : s.id = m.id => Sofar(s) \in Nat /\ m.i < Sofar(s)
        /\ \A s \in sends : assemblies[s.id] # None => assemblies[s.id] <= Sofar(s)
    <2>1. \A s \in sends : s \in SendRecord /\ AllBelow(toReceiver, s.id, Sofar(s))
      BY DEF SendsOK, SendOK
    <2>2. \A s \in sends : assemblies[s.id] # None => assemblies[s.id] <= Sofar(s)
      BY DEF SendsOK, SendOK
    <2>3. QED
      BY <1>2, <2>1, <2>2, SofarIsNat
  <1>7. QueueShrinks
    BY <1>1, QueueLosesHead
  <1>8. /\ UNCHANGED <<conn, sends, started, assemblies, tmp, removing, applied, left>>
        /\ BudgetOK' /\ TablesOK' /\ CopyOK'
    BY BudgetStays, TablesStay, CopyStays DEF HandleChunk, senderVars, sendHistory
  <1>9. AssembliesOK'
    BY <1>7, <1>8, NothingLost DEF HandleChunk
  <1>10. CASE assemblies[m.id] = None /\ m.i # 0
    <2>1. rejected' = rejected \union {m.id} /\ handler' = None
          /\ toSender' = Sent(toSender, [type |-> "file_rejected", h |-> m.h, id |-> m.id])
      BY <1>10 DEF HandleChunk, Reject
    <2>2. [type |-> "file_rejected", h |-> m.h, id |-> m.id] \in ToSender
      BY <1>3 DEF ToSender
    <2> HIDE DEF m
    <2>3. WireOK'
      BY <1>7, <1>8, <2>1, <2>2, AnswerSent, WireGivenUp DEF WireOK
    <2>4. SendsOK'
      BY <1>6, <1>7, <1>8, <2>1, SendsFollow
    <2>5. HandlerOK'
      BY <2>1 DEF HandlerOK
    <2>6. OutcomesOK'
      <3>1. m.i + 1 \in Nat /\ 1 <= m.i + 1 /\ 1 <= m.i
        BY <1>3, <1>10
      <3>2. AllFrom(toReceiver', m.id, 1)
        BY <1>2, <1>7, <3>1, FromLess DEF QueueShrinks
      <3>3. \A s \in sends : s.id = m.id => Sofar(s) >= 1
        BY <1>3, <1>6, <3>1
      <3>4. assemblies'[m.id] = None /\ \A u \in Transfer : assemblies'[u] \in {assemblies[u], None}
        BY <1>8, <1>10
      <3>5. QED
        BY <1>4, <1>5, <1>7, <1>8, <2>1, <3>2, <3>3, <3>4, RejectKeeps
    <2>7. QED
      BY <1>8, <1>9, <2>3, <2>4, <2>5, <2>6
  <1>11. CASE ~(assemblies[m.id] = None /\ m.i # 0)
    <2> DEFINE at == IF assemblies[m.id] = None THEN "open" ELSE "append"
    <2>1. handler' = [m |-> m, at |-> at] /\ toSender' = toSender /\ rejected' = rejected
      BY <1>11 DEF HandleChunk
    <2>2. handler'.m = m /\ handler'.at = at /\ handler' \in [m : Chunk, at : Step]
      BY <1>2, <2>1 DEF Step
    <2>3. WireOK'
      BY <1>7, <1>8, <2>1, WireGivenUp DEF WireOK
    <2>4. SendsOK'
      <3>1. UNCHANGED <<sends, started>>
        BY <1>8
      <3>2. \A s \in sends : assemblies'[s.id] # None => assemblies'[s.id] <= Sofar(s)
        BY <1>6, <1>8
      <3>3. \A s \in sends : s.id = handler'.m.id => handler'.m.i < Sofar(s)
        BY <1>6, <2>2
      <3> HIDE DEF m
      <3>4. QED
        BY <1>7, <3>1, <3>2, <3>3, SendsFollow
    <2>5. assemblies[m.id] # None => assemblies[m.id] <= m.i
      BY <1>2, <1>3, LargeTransferAssumption DEF AssembliesOK
    <2>6. HandlerOK'
      BY <1>2, <1>4, <1>8, <1>11, <2>2, <2>5 DEF HandlerOK
    <2>7. m.id \notin rejected
      BY <1>2, <1>3, <1>11 DEF OutcomesOK
    <2>8. OutcomesOK'
      BY <1>5, <1>7, <1>8, <2>1, <2>2, <2>7 DEF OutcomesOK, QueueShrinks, Sofar
    <2>9. QED
      BY <1>8, <1>9, <2>3, <2>4, <2>6, <2>8
  <1>12. QED
    BY <1>10, <1>11

LEMMA OpenKeeps ==
  ASSUME IInv, Open
  PROVE  IInv'
  <1> USE DEF IInv
  <1>1. HandlerFacts /\ handler # None /\ handler.at = "open" /\ handler.m.i = 0
    BY HandlerHas DEF Open, HandlerOK
  <1>2. /\ UNCHANGED <<conn, toReceiver, toSender, sends, started, removing, applied, rejected, left>>
        /\ BudgetOK' /\ TablesOK' /\ CopyOK'
    BY BudgetStays, TablesStay, CopyStays DEF Open, wireVars, senderVars, sendHistory, applyHistory
  <1>3. QueueShrinks
    BY <1>2, QueueStays
  <1>4. PICK t : t = handler.m.id
    OBVIOUS
  <1>5. t \in Transfer /\ t \in started /\ AllFrom(toReceiver, t, 1) /\ t \notin applied \union rejected
    BY <1>1, <1>4 DEF HandlerFacts
  <1>6. /\ tmp' = [tmp EXCEPT ![t] = None] /\ assemblies' = [assemblies EXCEPT ![t] = 0]
        /\ handler' = [handler EXCEPT !.at = "append"]
    BY <1>4 DEF Open
  <1>7. handler'.m = handler.m /\ handler'.at = "append" /\ handler' \in [m : Chunk, at : Step]
    BY <1>1, <1>6 DEF HandlerFacts, Step
  <1>8. assemblies'[t] = 0 /\ \A u \in Transfer \ {t} : assemblies'[u] = assemblies[u]
    BY <1>5, <1>6 DEF AssembliesOK
  <1>9. WireOK'
    BY <1>2 DEF WireOK
  <1>10. SendsOK'
    <2>1. \A s \in sends : s \in SendRecord /\ Sofar(s) \in Nat /\ s.id \in Transfer
      BY SofarIsNat DEF SendsOK, SendOK
    <2>2. \A s \in sends : assemblies'[s.id] # None => assemblies'[s.id] <= Sofar(s)
      BY <1>8, <2>1 DEF SendsOK, SendOK
    <2>3. \A s \in sends : s.id = handler.m.id => handler.m.i < Sofar(s)
      BY <1>1 DEF HandlerFacts
    <2>4. QED
      BY <1>2, <1>3, <1>7, <2>2, <2>3, SendsFollow
  <1>11. AssembliesOK'
    <2>1. assemblies' \in [Transfer -> 0..Total \union {None}]
          /\ tmp' \in [Transfer -> Seq(Version \X (1..Total)) \union {None}]
      <3>1. 0 \in 0..Total
        BY LargeTransferAssumption
      <3>2. assemblies' \in [Transfer -> 0..Total \union {None}]
        BY <1>6, <3>1 DEF AssembliesOK
      <3>3. tmp' \in [Transfer -> Seq(Version \X (1..Total)) \union {None}]
        BY <1>6 DEF AssembliesOK
      <3>4. QED
        BY <3>2, <3>3
    <2>2. AllFrom(toReceiver, t, 0)
      BY <1>5, FromLess DEF WireOK
    <2>3. \A u \in Transfer : assemblies'[u] # None => u \in started /\ AllFrom(toReceiver, u, assemblies'[u])
      BY <1>5, <1>8, <2>2 DEF AssembliesOK
    <2>4. QED
      BY <1>2, <2>1, <2>3 DEF AssembliesOK
  <1>12. HandlerOK'
    BY <1>1, <1>2, <1>4, <1>5, <1>7, <1>8 DEF HandlerOK, HandlerFacts
  <1>13. OutcomesOK'
    <2>1. \A u \in rejected : assemblies'[u] = None
      BY <1>5, <1>8, StartedOK DEF OutcomesOK
    <2>2. QED
      BY <1>1, <1>2, <1>7, <2>1 DEF OutcomesOK, Sofar, HandlerFacts
  <1>14. QED
    BY <1>2, <1>9, <1>10, <1>11, <1>12, <1>13

LEMMA AppendChunkKeeps ==
  ASSUME IInv, AppendChunk
  PROVE  IInv'
  <1> USE DEF IInv
  <1>1. HandlerFacts /\ handler # None /\ handler.at = "append"
        /\ (assemblies[handler.m.id] # None => assemblies[handler.m.id] <= handler.m.i)
    BY HandlerHas DEF AppendChunk, HandlerOK
  <1>2. /\ UNCHANGED <<conn, toReceiver, toSender, sends, started, removing, applied, rejected, left>>
        /\ BudgetOK' /\ TablesOK' /\ CopyOK'
    BY BudgetStays, TablesStay, CopyStays
       DEF AppendChunk, wireVars, senderVars, sendHistory, applyHistory
  <1>3. QueueShrinks
    BY <1>2, QueueStays
  <1>4. PICK t, i : t = handler.m.id /\ i = handler.m.i
    OBVIOUS
  <1>5. /\ t \in Transfer /\ t \in started /\ t \notin applied \union rejected
        /\ i \in 0..(Total - 1) /\ i \in Nat /\ i < Total /\ i + 1 \in 1..Total
        /\ AllFrom(toReceiver, t, i + 1)
    BY <1>1, <1>4, LargeTransferAssumption DEF HandlerFacts
  <1>6. /\ tmp' = [tmp EXCEPT ![t] = Append(IF @ = None THEN <<>> ELSE @, <<handler.m.v, i + 1>>)]
        /\ assemblies' = [assemblies EXCEPT ![t] = IF @ = None THEN None ELSE @ + 1]
    BY <1>4 DEF AppendChunk
  <1>7. handler' # None => /\ handler'.m = handler.m /\ handler'.at = "hash" /\ i + 1 = Total
                           /\ handler' \in [m : Chunk, at : Step]
    BY <1>1, <1>4 DEF AppendChunk, Complete, HandlerFacts, Step
  <1>8. /\ assemblies[t] # None => assemblies[t] \in Nat /\ assemblies[t] + 1 <= i + 1
        /\ assemblies[t] \in 0..Total \union {None}
    BY <1>1, <1>4, <1>5, LargeTransferAssumption DEF AssembliesOK
  <1>9. /\ assemblies'[t] = (IF assemblies[t] = None THEN None ELSE assemblies[t] + 1)
        /\ \A u \in Transfer \ {t} : assemblies'[u] = assemblies[u]
    BY <1>5, <1>6 DEF AssembliesOK
  <1>10. assemblies'[t] # None => assemblies'[t] \in 0..Total /\ assemblies'[t] \in Nat
                                  /\ assemblies'[t] <= i + 1
    BY <1>5, <1>8, <1>9, LargeTransferAssumption
  <1>11. WireOK'
    BY <1>2 DEF WireOK
  <1>12. \A s \in sends : s.id = t => i < Sofar(s)
    BY <1>1, <1>4 DEF HandlerFacts
  <1>13. SendsOK'
    <2>1. \A s \in sends : s \in SendRecord /\ Sofar(s) \in Nat /\ s.id \in Transfer
      BY SofarIsNat DEF SendsOK, SendOK
    <2>2. \A s \in sends : assemblies'[s.id] # None => assemblies'[s.id] <= Sofar(s)
      <3>1. \A s \in sends : s.id = t /\ assemblies'[t] # None => assemblies'[t] <= Sofar(s)
        BY <1>5, <1>10, <1>12, <2>1
      <3>2. QED
        BY <1>9, <2>1, <3>1 DEF SendsOK, SendOK
    <2>3. QED
      BY <1>2, <1>3, <1>4, <1>7, <1>12, <2>2, SendsFollow
  <1>14. AssembliesOK'
    <2>1. assemblies' \in [Transfer -> 0..Total \union {None}]
      BY <1>5, <1>6, <1>9, <1>10 DEF AssembliesOK
    <2>2. <<handler.m.v, i + 1>> \in Version \X (1..Total)
      BY <1>1, <1>5 DEF HandlerFacts
    <2>3. (IF tmp[t] = None THEN <<>> ELSE tmp[t]) \in Seq(Version \X (1..Total))
      BY <1>5, EmptySeq DEF AssembliesOK
    <2>4. Append(IF tmp[t] = None THEN <<>> ELSE tmp[t], <<handler.m.v, i + 1>>)
              \in Seq(Version \X (1..Total))
      BY <2>2, <2>3, AppendProperties
    <2>5. tmp' \in [Transfer -> Seq(Version \X (1..Total)) \union {None}]
      BY <1>6, <2>4 DEF AssembliesOK
    <2>6. \A u \in Transfer : assemblies'[u] # None =>
              u \in started /\ AllFrom(toReceiver, u, assemblies'[u])
      <3>1. assemblies'[t] # None => AllFrom(toReceiver, t, assemblies'[t])
        BY <1>5, <1>10, FromLess DEF WireOK
      <3>2. QED
        BY <1>5, <1>9, <3>1 DEF AssembliesOK
    <2>7. QED
      BY <1>2, <2>1, <2>5, <2>6 DEF AssembliesOK
  <1>15. HandlerOK'
    BY <1>2, <1>4, <1>5, <1>7 DEF HandlerOK
  <1>16. OutcomesOK'
    <2>1. \A u \in rejected : assemblies'[u] = None
      BY <1>5, <1>9, StartedOK DEF OutcomesOK
    <2>2. QED
      BY <1>2, <1>4, <1>5, <1>7, <2>1 DEF OutcomesOK, Sofar
  <1>17. QED
    BY <1>2, <1>11, <1>13, <1>14, <1>15, <1>16

LEMMA CheckHashKeeps ==
  ASSUME IInv, CheckHash
  PROVE  IInv'
  <1> USE DEF IInv
  <1>1. HandlerFacts /\ handler # None /\ handler.at = "hash" /\ handler.m.i + 1 = Total
    BY HandlerHas DEF CheckHash, HandlerOK
  <1>2. /\ UNCHANGED <<conn, toReceiver, toSender, sends, started, removing, tmp, applied, rejected, left>>
        /\ BudgetOK' /\ TablesOK'
    BY BudgetStays, TablesStay DEF CheckHash, wireVars, senderVars, sendHistory, applyHistory
  <1>3. CopyOK'
    BY DEF CheckHash, CopyOK
  <1>4. PICK t : t = handler.m.id
    OBVIOUS
  <1>5. t \in Transfer /\ assemblies \in [Transfer -> 0..Total \union {None}]
    BY <1>1, <1>4 DEF HandlerFacts, AssembliesOK
  <1>6. /\ assemblies' = assemblies \/ assemblies' = [assemblies EXCEPT ![t] = None]
        /\ handler' # None => /\ handler' = [handler EXCEPT !.at = handler'.at]
                              /\ handler'.at \in {"discard", "move"}
                              /\ handler'.at = "discard" => assemblies'[t] = None
                              /\ handler'.at = "move" => Accepted(tmp[t], handler.m.h)
    <2>1. CASE tmp[t] = None
      BY <1>4, <2>1 DEF CheckHash
    <2>2. CASE tmp[t] # None
      <3> DEFINE bad == ~Accepted(tmp[t], handler.m.h) \/ (Conflict(handler.m.h) /\ ~forced)
      <3>1. /\ handler' = [handler EXCEPT !.at = IF bad THEN "discard" ELSE "move"]
            /\ assemblies' = IF bad THEN [assemblies EXCEPT ![t] = None] ELSE assemblies
        BY <1>4, <2>2 DEF CheckHash
      <3>2. handler'.at = IF bad THEN "discard" ELSE "move"
        BY <1>1, <3>1 DEF HandlerFacts
      <3>3. bad => assemblies'[t] = None
        BY <1>5, <3>1
      <3>4. ~bad => Accepted(tmp[t], handler.m.h)
        OBVIOUS
      <3> HIDE DEF bad
      <3>5. QED
        BY <3>1, <3>2, <3>3, <3>4
    <2>3. QED
      BY <2>1, <2>2
  <1>7. handler' # None => handler'.m = handler.m /\ handler' \in [m : Chunk, at : Step]
    BY <1>1, <1>6 DEF HandlerFacts, Step
  <1>8. /\ assemblies' \in [Transfer -> 0..Total \union {None}]
        /\ \A u \in Transfer : assemblies'[u] \in {assemblies[u], None}
    BY <1>5, <1>6
  <1>9. QueueShrinks /\ WireOK'
    BY <1>2, QueueStays DEF WireOK
  <1>10. SendsOK'
    <2>1. \A s \in sends : assemblies'[s.id] # None => assemblies'[s.id] <= Sofar(s)
      BY <1>8 DEF SendsOK, SendOK, SendRecord
    <2>2. \A s \in sends : handler' # None /\ s.id = handler'.m.id => handler'.m.i < Sofar(s)
      BY <1>1, <1>7 DEF HandlerFacts
    <2>3. QED
      BY <1>2, <1>9, <2>1, <2>2, SendsFollow
  <1>11. AssembliesOK'
    <2>1. \A u \in Transfer : assemblies'[u] # None =>
              u \in started /\ AllFrom(toReceiver, u, assemblies'[u])
      BY <1>8 DEF AssembliesOK
    <2>2. QED
      BY <1>2, <1>8, <2>1 DEF AssembliesOK
  <1>12. HandlerOK'
    <2> SUFFICES ASSUME handler' # None PROVE HandlerOK'
      BY DEF HandlerOK
    <2>1. /\ handler' \in [m : Chunk, at : Step] /\ handler'.m = handler.m
          /\ handler'.at \in {"discard", "move"}
          /\ handler'.at = "discard" => assemblies'[t] = None
          /\ handler'.at = "move" => Accepted(tmp[t], handler.m.h)
      BY <1>6, <1>7
    <2>2. /\ t \in started /\ AllFrom(toReceiver, t, handler.m.i + 1) /\ handler.m.i + 1 = Total
      BY <1>1, <1>4 DEF HandlerFacts
    <2>3. tmp' = tmp /\ started' = started /\ toReceiver' = toReceiver /\ handler'.m.id = t
      BY <1>2, <1>4, <2>1
    <2>4. handler'.at # "open" /\ handler'.at # "append"
      BY <2>1
    <2>5. QED
      BY <2>1, <2>2, <2>3, <2>4 DEF HandlerOK
  <1>13. OutcomesOK'
    <2>1. \A u \in rejected : assemblies'[u] = None
      BY <1>8, StartedOK DEF OutcomesOK
    <2>2. QED
      BY <1>1, <1>2, <1>7, <2>1 DEF OutcomesOK, Sofar, HandlerFacts
  <1>14. QED
    BY <1>2, <1>3, <1>9, <1>10, <1>11, <1>12, <1>13

\* Its end with a rejection.
LEMMA RejectedKeeps ==
  ASSUME IInv, handler # None, NEW t \in Transfer, t = handler.m.id,
         tmp' = [tmp EXCEPT ![t] = None], assemblies'[t] = None,
         assemblies' = assemblies \/ assemblies' = [assemblies EXCEPT ![t] = None],
         Reject(handler.m), applied' = applied,
         UNCHANGED <<conn, toReceiver, senderVars, removing, copy, local, synced, forced,
                     sendHistory, left>>
  PROVE  IInv'
  <1> USE DEF IInv
  <1>1. HandlerFacts
    BY HandlerHas
  <1>2. /\ UNCHANGED <<sends, started>> /\ BudgetOK' /\ TablesOK' /\ CopyOK'
    BY BudgetStays, TablesStay, CopyStays DEF senderVars, sendHistory
  <1>3. /\ handler' = None /\ rejected' = rejected \union {t}
        /\ toSender' = Sent(toSender, [type |-> "file_rejected", h |-> handler.m.h, id |-> t])
    BY DEF Reject
  <1>4. [type |-> "file_rejected", h |-> handler.m.h, id |-> t] \in ToSender
    BY <1>1 DEF HandlerFacts, ToSender
  <1>5. QueueShrinks
    BY QueueStays
  <1>6. GivesUp
    BY <1>2, <1>3, <1>5 DEF GivesUp, AssembliesOK
  <1>7. SendsOK' /\ AssembliesOK' /\ HandlerOK'
    BY <1>6, SendsGivenUp, AssembliesGivenUp, HandlerGivenUp
  <1>8. WireOK'
    BY <1>2, <1>3, <1>4, <1>5, AnswerSent, WireGivenUp DEF WireOK
  <1>9. OutcomesOK'
    <2>1. t \in started /\ t \notin applied /\ handler.m.i \in Nat
          /\ AllFrom(toReceiver', t, handler.m.i + 1)
      BY <1>1 DEF HandlerFacts
    <2>2. handler.m.i + 1 \in Nat /\ 1 <= handler.m.i + 1
      BY <2>1
    <2>3. AllFrom(toReceiver', t, 1)
      BY <1>5, <2>1, <2>2, FromLess DEF QueueShrinks
    <2>4. \A s \in sends : s.id = t => Sofar(s) >= 1
      <3>1. \A s \in sends : s.id = t => Sofar(s) \in Nat /\ handler.m.i < Sofar(s)
        BY <1>1, SofarIsNat DEF HandlerFacts, SendsOK, SendOK
      <3>2. QED
        BY <2>1, <3>1
    <2>5. \A u \in Transfer : assemblies'[u] \in {assemblies[u], None}
      BY <1>6 DEF GivesUp
    <2>6. QED
      BY <1>2, <1>3, <1>5, <2>1, <2>3, <2>4, <2>5, RejectKeeps
  <1>10. QED
    BY <1>2, <1>7, <1>8, <1>9

LEMMA DiscardKeeps ==
  ASSUME IInv, Discard
  PROVE  IInv'
  <1>1. handler # None /\ handler.at = "discard" /\ handler.m.id \in Transfer
    BY HandlerHas DEF Discard, HandlerFacts
  <1>2. assemblies[handler.m.id] = None
    BY <1>1 DEF IInv, HandlerOK
  <1>3. QED
    BY <1>1, <1>2, RejectedKeeps DEF Discard

LEMMA MoveFailsKeeps ==
  ASSUME IInv, MoveFails
  PROVE  IInv'
  <1>1. handler # None /\ handler.m.id \in Transfer
    BY HandlerHas DEF MoveFails, HandlerFacts
  <1>2. assemblies' = [assemblies EXCEPT ![handler.m.id] = None] /\ assemblies'[handler.m.id] = None
    BY <1>1 DEF MoveFails, IInv, AssembliesOK
  <1>3. QED
    BY <1>1, <1>2, RejectedKeeps DEF MoveFails

LEMMA HashIsVersion ==
  ASSUME NEW pieces
  PROVE  /\ HashOf(pieces) \in Hash
         /\ HashOf(pieces) \in Version => pieces = Whole(HashOf(pieces))
  BY LargeTransferAssumption DEF HashOf, Hash

\* What a moved file is recorded with is its hash.
LEMMA MovedIsRecorded ==
  ASSUME IInv, Move
  PROVE  /\ HandlerFacts /\ handler # None /\ handler.m.i + 1 = Total
         /\ tmp[handler.m.id] # None
         /\ (IF handler.m.h = None THEN HashOf(tmp[handler.m.id]) ELSE handler.m.h)
                = HashOf(tmp[handler.m.id])
  <1>1. HandlerFacts /\ handler # None /\ handler.at = "move" /\ tmp[handler.m.id] # None
    BY HandlerHas DEF Move
  <1>2. handler.m.i + 1 = Total /\ Accepted(tmp[handler.m.id], handler.m.h)
    BY <1>1 DEF IInv, HandlerOK
  <1>3. QED
    BY <1>1, <1>2 DEF Accepted

LEMMA MoveKeeps ==
  ASSUME IInv, Move
  PROVE  IInv'
  <1> USE DEF IInv
  <1>0. PICK t, h : t = handler.m.id /\ h = HashOf(tmp[t])
    OBVIOUS
  <1>1. /\ HandlerFacts /\ handler # None /\ handler.m.i + 1 = Total /\ tmp[t] # None
        /\ (IF handler.m.h = None THEN HashOf(tmp[t]) ELSE handler.m.h) = h
    BY <1>0, MovedIsRecorded
  <1>2. /\ t \in Transfer /\ t \in started /\ t \notin applied \union rejected
        /\ AllFrom(toReceiver, t, Total) /\ h \in Hash
    BY <1>0, <1>1, HashIsVersion DEF HandlerFacts
  <1>3. /\ copy' = h /\ local' = h /\ synced' = h /\ forced' = forced
        /\ tmp' = [tmp EXCEPT ![t] = None] /\ assemblies' = [assemblies EXCEPT ![t] = None]
        /\ toSender' = Sent(toSender, [type |-> "file_applied", h |-> h, id |-> t])
        /\ applied' = applied \union {t} /\ rejected' = rejected /\ handler' = None
        /\ UNCHANGED <<conn, toReceiver, senderVars, removing, sendHistory, left>>
    BY <1>0, <1>1 DEF Move
  <1>4. /\ UNCHANGED <<sends, started>> /\ BudgetOK' /\ TablesOK'
    BY <1>3, BudgetStays, TablesStay DEF senderVars, sendHistory
  <1>5. CopyOK'
    BY <1>2, <1>3 DEF CopyOK
  <1>6. [type |-> "file_applied", h |-> h, id |-> t] \in ToSender
    BY <1>2 DEF ToSender
  <1>7. QueueShrinks
    BY <1>3, QueueStays
  <1>8. GivesUp
    BY <1>3, <1>4, <1>7 DEF GivesUp, AssembliesOK
  <1>9. SendsOK' /\ AssembliesOK' /\ HandlerOK'
    BY <1>8, SendsGivenUp, AssembliesGivenUp, HandlerGivenUp
  <1>10. WireOK'
    BY <1>3, <1>4, <1>6, <1>7, AnswerSent, WireGivenUp DEF WireOK
  <1>11. OutcomesOK'
    <2>1. \A s \in sends : s.id = t => Sofar(s) >= Total
      <3>1. \A s \in sends : s.id = t => Sofar(s) \in Nat /\ handler.m.i < Sofar(s)
        BY <1>0, <1>1, SofarIsNat DEF HandlerFacts, SendsOK, SendOK
      <3>2. handler.m.i \in Nat
        BY <1>1 DEF HandlerFacts
      <3>3. QED
        BY <1>1, <3>1, <3>2
    <2>2. \A u \in applied' : AllFrom(toReceiver', u, Total)
      BY <1>2, <1>3 DEF OutcomesOK
    <2>3. \A u \in rejected' : AllFrom(toReceiver', u, 1) /\ assemblies'[u] = None
      BY <1>3, <1>8, StartedOK DEF OutcomesOK, GivesUp
    <2>4. \A s \in sends' : /\ s.id \in applied' => Sofar(s)' >= Total
                            /\ s.id \in rejected' => Sofar(s)' >= 1
      BY <1>3, <1>4, <2>1 DEF OutcomesOK, Sofar
    <2>5. QED
      BY <1>2, <1>3, <1>4, <2>2, <2>3, <2>4 DEF OutcomesOK
  <1>12. QED
    BY <1>4, <1>5, <1>9, <1>10, <1>11

------------------------------------------------------------------------------
(* The invariant holds *)

LEMMA InitIInv ==
  ASSUME Init
  PROVE  IInv
  <1> USE LargeTransferAssumption DEF Init
  <1>1. BudgetOK
    <2>1. left \in Budget /\ started = 1..0 /\ 0 \in 0..MaxPush
      OBVIOUS
    <2>2. 0 + left.push <= MaxPush
      BY <2>1 DEF Budget
    <2>3. QED
      BY <2>1, <2>2 DEF BudgetOK
  <1>2. WireOK
    <2>1. conn \in Nat
      BY DEF Budget
    <2>2. toReceiver \in Seq(ToReceiver) /\ toSender \in Seq(ToSender) /\ Len(toReceiver) = 0
      BY EmptySeq
    <2>3. QED
      BY <2>1, <2>2 DEF WireOK, InOrder, AllFrom
  <1>3. TablesOK /\ CopyOK
    BY DEF TablesOK, CopyOK, Hash
  <1>4. SendsOK /\ AssembliesOK /\ HandlerOK /\ OutcomesOK
    BY DEF SendsOK, AssembliesOK, HandlerOK, OutcomesOK
  <1>5. QED
    BY <1>1, <1>2, <1>3, <1>4 DEF IInv

LEMMA NextIInv ==
  ASSUME IInv, [Next]_vars
  PROVE  IInv'
  <1>1. CASE Connect
    BY <1>1, ConnectKeeps
  <1>2. CASE Drop
    BY <1>2, DropKeeps
  <1>3. ASSUME NEW t \in Transfer, Removed(t) PROVE IInv'
    BY <1>3, RemovedKeeps
  <1>4. ASSUME NEW v \in Version, Edit(v) PROVE IInv'
    BY <1>4, EditKeeps
  <1>5. CASE Watch
    BY <1>5, WatchKeeps
  <1>6. CASE Skip
    BY <1>6, SkipKeeps
  <1>7. CASE PushPatch
    BY <1>7, PushPatchKeeps
  <1>8. CASE PushChunks
    BY <1>8, PushChunksKeeps
  <1>9. CASE EditOwn
    BY <1>9, EditOwnKeeps
  <1>10. ASSUME NEW force \in BOOLEAN, Pull(force) PROVE IInv'
    BY <1>10, PullKeeps
  <1>11. CASE SenderNext
    BY <1>11, SendChunkKeeps, DrainedKeeps, LoopEndsKeeps, SenderHandlesKeeps DEF SenderNext
  <1>12. CASE ReceiverNext
    BY <1>12, RefuseKeeps, HandleChunkKeeps, OpenKeeps, AppendChunkKeeps, CheckHashKeeps,
       DiscardKeeps, MoveKeeps, MoveFailsKeeps DEF ReceiverNext
  <1>13. CASE UNCHANGED vars
    <2>1. QueueShrinks
      BY <1>13, QueueStays DEF IInv, vars, wireVars
    <2>2. GivesUp
      BY <1>13, <2>1, NothingGivenUp DEF IInv, vars, senderVars, receiverVars, sendHistory
    <2>3. conn' \in Nat \union {None} /\ toSender' \in Seq(ToSender)
      BY <1>13 DEF IInv, WireOK, vars, wireVars
    <2>4. BudgetOK' /\ TablesOK' /\ CopyOK'
      BY <1>13, BudgetStays, TablesStay, CopyStays DEF IInv, vars, senderVars, receiverVars, sendHistory
    <2>5. QED
      BY <1>13, <2>2, <2>3, <2>4, GivenUp DEF vars, applyHistory
  <1>14. QED
    BY <1>1, <1>2, <1>3, <1>4, <1>5, <1>6, <1>7, <1>8, <1>9, <1>10, <1>11, <1>12, <1>13 DEF Next

LEMMA Invariant == Spec => []IInv
  <1>1. Init => IInv
    BY InitIInv
  <1>2. IInv /\ [Next]_vars => IInv'
    BY NextIInv
  <1>3. QED
    BY <1>1, <1>2, PTL DEF Spec

LEMMA TypeFromIInv ==
  ASSUME IInv
  PROVE  TypeOK
  <1> USE DEF IInv
  <1>1. conn \in Nat \union {None} /\ file \in Version /\ table \in Version \union {None}
        /\ shadows \in [Hash -> Version \union {None}] /\ lastSent \in Version \union {None}
    BY DEF WireOK, TablesOK
  <1>2. sends \subseteq SendRecord
    BY DEF SendsOK, SendOK
  <1>3. /\ assemblies \in [Transfer -> 0..Total \union {None}] /\ removing \subseteq Transfer
        /\ \A t \in Transfer : tmp[t] = None \/ tmp[t] \in Seq(Version \X (1..Total))
    BY DEF AssembliesOK
  <1>4. handler = None \/ handler \in [m : Chunk, at : {"open", "append", "hash", "discard", "move"}]
    BY DEF HandlerOK, Step
  <1>5. handler # None /\ handler.at \in {"hash", "discard", "move"} => handler.m.i + 1 = Total
    BY DEF HandlerOK
  <1>6. {copy, local, synced} \subseteq Hash /\ forced \in BOOLEAN
    BY DEF CopyOK
  <1>7. left \in Budget /\ started \subseteq Transfer
    BY StartedOK DEF BudgetOK
  <1>8. QED
    BY <1>1, <1>2, <1>3, <1>4, <1>5, <1>6, <1>7 DEF TypeOK, SendRecord

\* The state of a transfer has its type, and a handler that is past its append
\* has the last chunk (transport.ts:800-921).
THEOREM TypeCorrect == Spec => []TypeOK
  <1>1. IInv => TypeOK
    BY TypeFromIInv
  <1>2. QED
    BY <1>1, Invariant, PTL

\* What the sync tables say of the receiver's file is on its disk, also when a
\* chunked transfer carries no hash (transport.ts:868-895).
THEOREM RecordCorrect == Spec => []RecordIsOnDisk
  <1>1. IInv => RecordIsOnDisk
    BY DEF IInv, CopyOK, RecordIsOnDisk
  <1>2. QED
    BY <1>1, Invariant, PTL

\* No transfer is both applied and rejected, through lost connections, dropped
\* assemblies and chunks left in the queue (transport.ts:813-921).
THEOREM OneOutcomeCorrect == Spec => []OneOutcome
  <1>1. IInv => OneOutcome
    BY DEF IInv, OutcomesOK, OneOutcome
  <1>2. QED
    BY <1>1, Invariant, PTL
------------------------------------------------------------------------------
(* What is left when nothing is under way.  A transfer that is alive, that is, *)
(* whose answer its sender still waits for, is always on its way: its last     *)
(* chunk is to come, is queued, or has a handler, or its answer is queued.     *)

Elems(q) == {q[k] : k \in 1..Len(q)}

Live == started \ (answered \union cut)

LiveOK ==
    /\ answered \union cut \subseteq started /\ removing \subseteq started \ Live
    /\ conn = None => Live = {}
    /\ \A a \in Elems(toSender) : a.id \in started \union {None}

\* The loop of a live transfer waits for this connection, and one whose transfer
\* has been answered ends too late.
LoopsOK == \A s \in sends :
    /\ s.id \in Live => s.on \in {None, conn}
    /\ s.id \in answered => s.id \in early

OnItsWay(t) ==
    \/ \E s \in sends : s.id = t /\ Sofar(s) < Total
    \/ \E c \in Elems(toReceiver) : IsChunk(c, t) /\ c.i + 1 = Total
    \/ handler # None /\ handler.m.id = t /\ handler.m.i + 1 = Total
    \/ \E a \in Elems(toSender) : a.id = t
Progress == \A t \in Live : OnItsWay(t)

HashedOK == handler # None /\ handler.at = "hash" /\ handler.m.id \in Live => tmp[handler.m.id] # None

\* Something of the sender or the receiver has h as the hash of transfer t: they
\* agree on it, and the answers fit it.
Tagged(t, h) ==
    \/ \E c \in Elems(toReceiver) : IsChunk(c, t) /\ c.h = h
    \/ handler # None /\ handler.m.id = t /\ handler.m.h = h
    \/ \E s \in sends : s.id = t /\ s.h = h
    \/ inFlight # None /\ inFlight.mode = "chunked" /\ inFlight.id = t /\ inFlight.h = h
TagsOK ==
    /\ \A t, h, g : Tagged(t, h) /\ Tagged(t, g) => h = g
    /\ \A a \in Elems(toSender) : \A h :
           a.type = "file_applied" /\ Tagged(a.id, h) => h \in {None, a.h}

\* A record is of a patch, or of a transfer whose loop has ended, and it is left
\* after the answer only if that came before the end of the loop.
RecordOK == inFlight # None =>
    \/ inFlight.mode = "patch"
    \/ /\ inFlight.mode = "chunked" /\ inFlight.id \in started
       /\ \A s \in sends : s.id # inFlight.id
       /\ inFlight.id \in answered => inFlight.id \in early \union cut

QInv == LiveOK /\ LoopsOK /\ Progress /\ HashedOK /\ TagsOK /\ RecordOK

LEMMA ElemsOf ==
  ASSUME NEW S, NEW q \in Seq(S)
  PROVE  /\ Elems(q) \subseteq S /\ (q = <<>> => Elems(q) = {})
         /\ q # <<>> => /\ Head(q) \in Elems(q) /\ Elems(Tail(q)) \subseteq Elems(q)
                        /\ Elems(q) \subseteq Elems(Tail(q)) \union {Head(q)}
         /\ \A n \in 0..Len(q) : Elems(SubSeq(q, 1, n)) \subseteq Elems(q)
         /\ \A m \in S : Elems(Append(q, m)) = Elems(q) \union {m}
  <1>1. Len(q) \in Nat /\ \A k \in 1..Len(q) : q[k] \in S
    BY ElementOfSeq, LenProperties
  <1>2. Elems(q) \subseteq S /\ (q = <<>> => Elems(q) = {})
    BY <1>1 DEF Elems
  <1>3. ASSUME q # <<>>
        PROVE  /\ Head(q) \in Elems(q) /\ Elems(Tail(q)) \subseteq Elems(q)
               /\ Elems(q) \subseteq Elems(Tail(q)) \union {Head(q)}
    <2>1. /\ Tail(q) \in Seq(S) /\ Len(q) \in Nat \ {0} /\ Len(Tail(q)) = Len(q) - 1
          /\ Head(q) = q[1] /\ \A k \in 1..Len(Tail(q)) : Tail(q)[k] = q[k + 1]
      BY <1>3, HeadTailProperties, LenProperties
    <2>2. Head(q) \in Elems(q)
      BY <2>1 DEF Elems
    <2>3. Elems(Tail(q)) \subseteq Elems(q)
      BY <2>1 DEF Elems
    <2>4. ASSUME NEW k \in 1..Len(q)
          PROVE  q[k] \in Elems(Tail(q)) \union {Head(q)}
      <3>1. CASE k = 1
        BY <3>1, <2>1
      <3>2. CASE k # 1
        <4>1. k - 1 \in 1..Len(Tail(q)) /\ (k - 1) + 1 = k
          BY <2>1, <3>2
        <4>2. q[k] = Tail(q)[k - 1]
          BY <2>1, <4>1
        <4>3. QED
          BY <4>1, <4>2 DEF Elems
      <3>3. QED
        BY <3>1, <3>2
    <2>5. QED
      BY <2>2, <2>3, <2>4 DEF Elems
  <1>4. ASSUME NEW n \in 0..Len(q)
        PROVE  Elems(SubSeq(q, 1, n)) \subseteq Elems(q)
    <2>1. Len(SubSeq(q, 1, n)) = n /\ \A k \in 1..n : SubSeq(q, 1, n)[k] = q[k]
      BY SubSeqProperties, LenProperties
    <2>2. \A k \in 1..n : k \in 1..Len(q)
      BY <1>1
    <2>3. QED
      BY <2>1, <2>2 DEF Elems
  <1>5. ASSUME NEW m \in S
        PROVE  Elems(Append(q, m)) = Elems(q) \union {m}
    <2>1. /\ Len(Append(q, m)) = Len(q) + 1 /\ \A k \in 1..Len(q) : Append(q, m)[k] = q[k]
          /\ Append(q, m)[Len(q) + 1] = m
      BY AppendProperties, LenProperties
    <2>2. \A k : k \in 1..(Len(q) + 1) <=> k \in 1..Len(q) \/ k = Len(q) + 1
      BY <1>1
    <2>3. QED
      BY <2>1, <2>2 DEF Elems
  <1>6. QED
    BY <1>2, <1>3, <1>4, <1>5

LEMMA WireElems ==
  ASSUME WireOK
  PROVE  /\ Elems(toReceiver) \subseteq ToReceiver /\ Elems(toSender) \subseteq ToSender
         /\ toReceiver = <<>> => Elems(toReceiver) = {}
         /\ toSender = <<>> => Elems(toSender) = {}
         /\ toReceiver # <<>> =>
                /\ Head(toReceiver) \in Elems(toReceiver)
                /\ Elems(Tail(toReceiver)) \subseteq Elems(toReceiver)
                /\ Elems(toReceiver) \subseteq Elems(Tail(toReceiver)) \union {Head(toReceiver)}
         /\ toSender # <<>> =>
                /\ Head(toSender) \in Elems(toSender)
                /\ Elems(Tail(toSender)) \subseteq Elems(toSender)
                /\ Elems(toSender) \subseteq Elems(Tail(toSender)) \union {Head(toSender)}
  BY ElemsOf DEF WireOK

LEMMA AnswerQueued ==
  ASSUME WireOK, NEW m \in ToSender, toSender' = Sent(toSender, m)
  PROVE  /\ Elems(toSender) \subseteq Elems(toSender)'
         /\ Elems(toSender)' \subseteq Elems(toSender) \union {m}
         /\ conn # None => m \in Elems(toSender)'
  <1>1. Elems(Append(toSender, m)) = Elems(toSender) \union {m}
    BY ElemsOf DEF WireOK
  <1>2. Elems(toSender)' = Elems(Sent(toSender, m))
    BY DEF Elems
  <1>3. QED
    BY <1>1, <1>2 DEF Sent

LEMMA LiveHas ==
  ASSUME IInv, LiveOK, NEW t \in Live
  PROVE  t \in Transfer /\ t \in started /\ t # None /\ conn # None /\ t \notin answered
         /\ t \notin cut /\ t \notin removing
  <1>1. started \subseteq Transfer
    BY StartedOK DEF IInv
  <1>2. t \in Transfer /\ t \in started /\ conn # None /\ t \notin answered
        /\ t \notin cut /\ t \notin removing
    BY <1>1 DEF LiveOK, Live
  <1>3. t # None
    BY <1>2, NoneAssumption, LargeTransferAssumption DEF Transfer
  <1>4. QED
    BY <1>2, <1>3

HandlerFollows == handler' # None =>
    \/ handler # None /\ handler'.m = handler.m
    \/ handler'.m \in Elems(toReceiver) /\ handler'.m.type = "file_chunk"

ChunksFollow == \A c \in Elems(toReceiver)' : c.type = "file_chunk" => c \in Elems(toReceiver)

TagsFollow == \A t, h : Tagged(t, h)' => Tagged(t, h)

LEMMA TagsShrink ==
  ASSUME ChunksFollow, HandlerFollows,
         \A s \in sends' : \E r \in sends : r.id = s.id /\ r.h = s.h,
         inFlight' \in {inFlight, None} \/ inFlight'.mode # "chunked"
  PROVE  TagsFollow
  <1> SUFFICES ASSUME NEW t, NEW h, Tagged(t, h)' PROVE Tagged(t, h)
    BY DEF TagsFollow
  <1>1. CASE \E c \in Elems(toReceiver)' : IsChunk(c, t) /\ c.h = h
    BY <1>1 DEF ChunksFollow, Tagged, IsChunk
  <1>2. CASE handler' # None /\ handler'.m.id = t /\ handler'.m.h = h
    BY <1>2 DEF HandlerFollows, Tagged, IsChunk
  <1>3. CASE \E s \in sends' : s.id = t /\ s.h = h
    BY <1>3 DEF Tagged
  <1>4. CASE inFlight' # None /\ inFlight'.mode = "chunked" /\ inFlight'.id = t /\ inFlight'.h = h
    BY <1>4 DEF Tagged
  <1>5. QED
    BY <1>1, <1>2, <1>3, <1>4 DEF Tagged

LEMMA TagsKept ==
  ASSUME TagsOK, TagsFollow,
         \A a \in Elems(toSender)' :
            \/ a \in Elems(toSender) \/ a.type # "file_applied"
            \/ \E g : Tagged(a.id, g) /\ g \in {None, a.h}
  PROVE  TagsOK'
  <1>1. ASSUME NEW t, NEW h, NEW g, Tagged(t, h)', Tagged(t, g)'
        PROVE  h = g
    BY <1>1 DEF TagsOK, TagsFollow
  <1>2. ASSUME NEW a \in Elems(toSender)', NEW h, a.type = "file_applied", Tagged(a.id, h)'
        PROVE  h \in {None, a.h}
    BY <1>2 DEF TagsOK, TagsFollow
  <1>3. QED
    BY <1>1, <1>2 DEF TagsOK

\* What a step may send to the sender.
MayAnswer(a) ==
    /\ a.id \in started \union {None}
    /\ a.type = "file_applied" => \E g : Tagged(a.id, g) /\ g \in {None, a.h}
AnswersFollow == \A a \in Elems(toSender)' : a \in Elems(toSender) \/ MayAnswer(a)

SenderStays == UNCHANGED <<conn, sends, inFlight, started, answered, early, cut>>

\* The steps of the receiver, and of its user.
LEMMA ReceiverStep ==
  ASSUME QInv, SenderStays, removing' \subseteq removing, AnswersFollow, ChunksFollow,
         HandlerFollows, Progress', HashedOK'
  PROVE  QInv'
  <1>1. Live' = Live
    BY DEF Live, SenderStays
  <1>2. LiveOK'
    BY <1>1 DEF QInv, LiveOK, SenderStays, AnswersFollow, MayAnswer
  <1>3. LoopsOK'
    BY <1>1 DEF QInv, LoopsOK, SenderStays
  <1>4. RecordOK'
    BY DEF QInv, RecordOK, SenderStays
  <1>5. TagsFollow
    BY TagsShrink DEF SenderStays
  <1>6. TagsOK'
    BY <1>5, TagsKept DEF QInv, AnswersFollow, MayAnswer
  <1>7. QED
    BY <1>2, <1>3, <1>4, <1>6 DEF QInv

\* Those that only take a message out of the queue, or a file away.
LEMMA WayStays ==
  ASSUME QInv, SenderStays, handler' = handler,
         \A c \in Elems(toReceiver) : c.type = "file_chunk" => c \in Elems(toReceiver)',
         Elems(toSender) \subseteq Elems(toSender)'
  PROVE  Progress'
  <1>1. Live' = Live
    BY DEF Live, SenderStays
  <1> SUFFICES ASSUME NEW t \in Live PROVE OnItsWay(t)'
    BY <1>1 DEF Progress
  <1>2. OnItsWay(t)
    BY DEF QInv, Progress
  <1>3. CASE \E s \in sends : s.id = t /\ Sofar(s) < Total
    BY <1>3 DEF OnItsWay, SenderStays, Sofar
  <1>4. CASE \E c \in Elems(toReceiver) : IsChunk(c, t) /\ c.i + 1 = Total
    BY <1>4 DEF OnItsWay, IsChunk
  <1>5. CASE handler # None /\ handler.m.id = t /\ handler.m.i + 1 = Total
    BY <1>5 DEF OnItsWay
  <1>6. CASE \E a \in Elems(toSender) : a.id = t
    BY <1>6 DEF OnItsWay
  <1>7. QED
    BY <1>2, <1>3, <1>4, <1>5, <1>6 DEF OnItsWay

LEMMA NothingMoves ==
  ASSUME QInv, SenderStays, UNCHANGED <<toReceiver, toSender, tmp, removing, handler>>
  PROVE  QInv'
  <1>1. Live' = Live /\ Elems(toReceiver)' = Elems(toReceiver) /\ Elems(toSender)' = Elems(toSender)
    BY DEF Live, SenderStays, Elems
  <1>2. AnswersFollow /\ ChunksFollow /\ HandlerFollows
    BY <1>1 DEF AnswersFollow, ChunksFollow, HandlerFollows
  <1>3. Progress'
    BY <1>1, WayStays
  <1>4. HashedOK'
    BY <1>1 DEF QInv, HashedOK
  <1>5. QED
    BY <1>2, <1>3, <1>4, ReceiverStep

\* The transfer that the handler, or the first message, is about is answered.
LEMMA AnswerGiven ==
  ASSUME IInv, QInv, SenderStays, removing' = removing, handler' = None,
         NEW m \in ToSender, MayAnswer(m), toSender' = Sent(toSender, m),
         handler # None => handler.m.id = m.id, ChunksFollow,
         \A c \in Elems(toReceiver) :
            c.type = "file_chunk" /\ c.id # m.id => c \in Elems(toReceiver)'
  PROVE  QInv'
  <1>1. /\ Elems(toSender) \subseteq Elems(toSender)'
        /\ Elems(toSender)' \subseteq Elems(toSender) \union {m}
        /\ conn # None => m \in Elems(toSender)'
    BY AnswerQueued DEF IInv
  <1>2. AnswersFollow /\ HandlerFollows /\ HashedOK'
    BY <1>1 DEF AnswersFollow, HandlerFollows, HashedOK
  <1>3. ASSUME NEW t \in Live
        PROVE  OnItsWay(t)'
    <2>1. CASE t = m.id
      BY <1>1, <2>1, LiveHas DEF QInv, OnItsWay
    <2>2. CASE t # m.id
      <3>1. OnItsWay(t)
        BY DEF QInv, Progress
      <3>2. CASE \E s \in sends : s.id = t /\ Sofar(s) < Total
        BY <3>2 DEF OnItsWay, SenderStays, Sofar
      <3>3. CASE \E c \in Elems(toReceiver) : IsChunk(c, t) /\ c.i + 1 = Total
        BY <3>3, <2>2 DEF OnItsWay, IsChunk
      <3>4. CASE \E a \in Elems(toSender) : a.id = t
        BY <3>4, <1>1 DEF OnItsWay
      <3>5. QED
        BY <2>2, <3>1, <3>2, <3>3, <3>4 DEF OnItsWay
    <2>3. QED
      BY <2>1, <2>2
  <1>4. Progress'
    BY <1>3 DEF Progress, Live, SenderStays
  <1>5. QED
    BY <1>2, <1>4, ReceiverStep

LEMMA RemovedSettles ==
  ASSUME IInv, QInv, NEW t \in Transfer, Removed(t)
  PROVE  QInv'
  <1>1. SenderStays /\ handler' = handler /\ removing' \subseteq removing
        /\ toReceiver' = toReceiver /\ toSender' = toSender
    BY DEF Removed, SenderStays, wireVars, senderVars, sendHistory
  <1>2. Live' = Live /\ Elems(toReceiver)' = Elems(toReceiver) /\ Elems(toSender)' = Elems(toSender)
    BY <1>1 DEF Live, SenderStays, Elems
  <1>3. AnswersFollow /\ ChunksFollow /\ HandlerFollows
    BY <1>1, <1>2 DEF AnswersFollow, ChunksFollow, HandlerFollows
  <1>4. Progress'
    BY <1>1, <1>2, WayStays
  <1>5. ASSUME handler # None, handler.at = "hash", handler.m.id \in Live
        PROVE  tmp'[handler.m.id] # None
    <2>1. handler.m.id \in Transfer /\ handler.m.id # t
      BY <1>5, LiveHas DEF QInv, Removed
    <2>2. tmp'[handler.m.id] = tmp[handler.m.id]
      BY <2>1 DEF Removed, IInv, AssembliesOK
    <2>3. QED
      BY <1>5, <2>2 DEF QInv, HashedOK
  <1>6. HashedOK'
    BY <1>1, <1>2, <1>5 DEF HashedOK
  <1>7. QED
    BY <1>1, <1>3, <1>4, <1>6, ReceiverStep

LEMMA PullSettles ==
  ASSUME IInv, QInv, NEW force \in BOOLEAN, Pull(force)
  PROVE  QInv'
  <1> DEFINE m == [type |-> "file_content_request", id |-> None]
  <1>1. SenderStays /\ handler' = handler /\ removing' = removing /\ tmp' = tmp
        /\ toReceiver' = toReceiver /\ toSender' = Sent(toSender, m)
    BY DEF Pull, SenderStays, senderVars, sendHistory
  <1>2. m \in ToSender /\ MayAnswer(m)
    BY DEF ToSender, MayAnswer
  <1> HIDE DEF m
  <1>3. Live' = Live /\ Elems(toReceiver)' = Elems(toReceiver)
    BY <1>1 DEF Live, SenderStays, Elems
  <1>4. Elems(toSender) \subseteq Elems(toSender)' /\ Elems(toSender)' \subseteq Elems(toSender) \union {m}
    BY <1>1, <1>2, AnswerQueued DEF IInv
  <1>5. AnswersFollow /\ ChunksFollow /\ HandlerFollows
    BY <1>1, <1>2, <1>3, <1>4 DEF AnswersFollow, ChunksFollow, HandlerFollows
  <1>6. Progress'
    BY <1>1, <1>3, <1>4, WayStays
  <1>7. HashedOK'
    BY <1>1, <1>3 DEF QInv, HashedOK
  <1>8. QED
    BY <1>1, <1>5, <1>6, <1>7, ReceiverStep

LEMMA RefuseSettles ==
  ASSUME IInv, QInv, Refuse
  PROVE  QInv'
  <1> DEFINE q == Head(toReceiver)
             m == [type |-> "file_rejected", h |-> q.h, id |-> None]
  <1>1. SenderStays /\ handler' = handler /\ removing' = removing /\ tmp' = tmp
        /\ toReceiver # <<>> /\ q.type # "file_chunk" /\ toReceiver' = Tail(toReceiver)
    BY DEF Refuse, SenderStays, senderVars, receiverVars, sendHistory
  <1>2. toSender' = toSender \/ (q.type = "file_content" /\ toSender' = Sent(toSender, m))
    BY DEF Refuse
  <1>3. q \in ToReceiver /\ q \notin Chunk
    BY <1>1, WireElems DEF IInv, Chunk
  <1>4. m \in ToSender /\ MayAnswer(m)
    BY <1>3, Messages DEF ToSender, MayAnswer
  <1>5. /\ Elems(toReceiver)' \subseteq Elems(toReceiver)
        /\ Elems(toReceiver) \subseteq Elems(toReceiver)' \union {q}
    <2>1. Elems(toReceiver)' = Elems(Tail(toReceiver))
      BY <1>1 DEF Elems
    <2>2. QED
      BY <1>1, <2>1, WireElems DEF IInv
  <1> HIDE DEF m, q
  <1>6. Elems(toSender) \subseteq Elems(toSender)' /\ Elems(toSender)' \subseteq Elems(toSender) \union {m}
    <2>1. CASE toSender' = toSender
      BY <2>1 DEF Elems
    <2>2. CASE toSender' = Sent(toSender, m)
      BY <2>2, <1>4, AnswerQueued DEF IInv
    <2>3. QED
      BY <1>2, <2>1, <2>2
  <1>7. AnswersFollow /\ ChunksFollow /\ HandlerFollows
    BY <1>1, <1>4, <1>5, <1>6 DEF AnswersFollow, ChunksFollow, HandlerFollows
  <1>8. Progress'
    BY <1>1, <1>5, <1>6, WayStays
  <1>9. HashedOK'
    BY <1>1 DEF QInv, HashedOK, Live, SenderStays
  <1>10. QED
    BY <1>1, <1>7, <1>8, <1>9, ReceiverStep

LEMMA HandlerTagged ==
  ASSUME handler # None
  PROVE  Tagged(handler.m.id, handler.m.h)
  BY DEF Tagged

\* The handler goes on with its chunk.
LEMMA HandlerGoesOn ==
  ASSUME QInv, SenderStays, UNCHANGED <<toReceiver, toSender, removing>>,
         handler # None, handler' # None, handler'.m = handler.m, HashedOK'
  PROVE  QInv'
  <1>1. Live' = Live /\ Elems(toReceiver)' = Elems(toReceiver) /\ Elems(toSender)' = Elems(toSender)
    BY DEF Live, SenderStays, Elems
  <1>2. AnswersFollow /\ ChunksFollow /\ HandlerFollows
    BY <1>1 DEF AnswersFollow, ChunksFollow, HandlerFollows
  <1>3. ASSUME NEW t \in Live
        PROVE  OnItsWay(t)'
    <2>1. OnItsWay(t)
      BY DEF QInv, Progress
    <2>2. CASE \E s \in sends : s.id = t /\ Sofar(s) < Total
      BY <2>2 DEF OnItsWay, SenderStays, Sofar
    <2>3. QED
      BY <1>1, <2>1, <2>2 DEF OnItsWay
  <1>4. Progress'
    BY <1>1, <1>3 DEF Progress
  <1>5. QED
    BY <1>2, <1>4, ReceiverStep

LEMMA HandleChunkSettles ==
  ASSUME IInv, QInv, HandleChunk
  PROVE  QInv'
  <1> DEFINE q == Head(toReceiver)
  <1>1. SenderStays /\ removing' = removing /\ tmp' = tmp /\ handler = None
        /\ toReceiver # <<>> /\ q.type = "file_chunk" /\ toReceiver' = Tail(toReceiver)
    BY DEF HandleChunk, SenderStays, senderVars, receiverVars, sendHistory
  <1>2. q \in Elems(toReceiver) /\ q \in ToReceiver /\ q \in Chunk
    BY <1>1, WireElems, Messages DEF IInv
  <1>3. /\ Elems(toReceiver)' \subseteq Elems(toReceiver)
        /\ Elems(toReceiver) \subseteq Elems(toReceiver)' \union {q}
    <2>1. Elems(toReceiver)' = Elems(Tail(toReceiver))
      BY <1>1 DEF Elems
    <2>2. QED
      BY <1>1, <2>1, WireElems DEF IInv
  <1>4. q.id \in Transfer /\ q.h \in Version \union {None} /\ q.i \in 0..(Total - 1)
    BY <1>2, Messages
  <1>5. q.id \in started
    <2>1. AllFrom(toReceiver, q.id, Total) \/ q.id \in started
      BY <1>4 DEF IInv, WireOK
    <2>2. ASSUME AllFrom(toReceiver, q.id, Total) PROVE FALSE
      <3>1. PICK k \in 1..Len(toReceiver) : toReceiver[k] = q
        BY <1>2 DEF Elems
      <3>2. q.i >= Total
        BY <1>1, <2>2, <3>1 DEF AllFrom, IsChunk
      <3>3. QED
        BY <1>4, <3>2, LargeTransferAssumption
    <2>3. QED
      BY <2>1, <2>2
  <1>6. CASE assemblies[q.id] = None /\ q.i # 0
    <2> DEFINE m == [type |-> "file_rejected", h |-> q.h, id |-> q.id]
    <2>1. handler' = None /\ toSender' = Sent(toSender, m)
      BY <1>6 DEF HandleChunk, Reject
    <2>2. m \in ToSender /\ MayAnswer(m) /\ m.id = q.id
      BY <1>4, <1>5 DEF ToSender, MayAnswer
    <2> HIDE DEF m, q
    <2>3. ChunksFollow
      BY <1>3 DEF ChunksFollow
    <2>4. \A c \in Elems(toReceiver) :
             c.type = "file_chunk" /\ c.id # m.id => c \in Elems(toReceiver)'
      BY <1>3, <2>2
    <2>5. QED
      BY <1>1, <2>1, <2>2, <2>3, <2>4, AnswerGiven
  <1>7. CASE ~(assemblies[q.id] = None /\ q.i # 0)
    <2>1. PICK at \in {"open", "append"} : handler' = [m |-> q, at |-> at]
      BY <1>7 DEF HandleChunk
    <2>2. toSender' = toSender
      BY <1>7 DEF HandleChunk
    <2>3. handler' # None
      BY <1>2, <2>1, NoneAssumption
    <2>4. handler'.m = q /\ handler'.at # "hash"
      BY <2>1
    <2> HIDE DEF q
    <2>5. Live' = Live /\ Elems(toSender)' = Elems(toSender)
      BY <1>1, <2>2 DEF Live, SenderStays, Elems
    <2>6. AnswersFollow /\ ChunksFollow /\ HandlerFollows /\ HashedOK'
      BY <1>1, <1>2, <1>3, <2>4, <2>5 DEF AnswersFollow, ChunksFollow, HandlerFollows, HashedOK
    <2>7. ASSUME NEW t \in Live
          PROVE  OnItsWay(t)'
      <3>1. OnItsWay(t)
        BY DEF QInv, Progress
      <3>2. CASE \E s \in sends : s.id = t /\ Sofar(s) < Total
        BY <1>1, <3>2 DEF OnItsWay, SenderStays, Sofar
      <3>3. CASE \E c \in Elems(toReceiver) : IsChunk(c, t) /\ c.i + 1 = Total
        BY <1>3, <2>3, <2>4, <3>3 DEF OnItsWay, IsChunk
      <3>4. CASE \E a \in Elems(toSender) : a.id = t
        BY <2>5, <3>4 DEF OnItsWay
      <3>5. QED
        BY <1>1, <3>1, <3>2, <3>3, <3>4 DEF OnItsWay
    <2>8. Progress'
      BY <2>5, <2>7 DEF Progress
    <2>9. QED
      BY <1>1, <2>6, <2>8, ReceiverStep
  <1>8. QED
    BY <1>6, <1>7

LEMMA HandlerType ==
  ASSUME IInv, handler # None, NEW at \in Step, handler' = [handler EXCEPT !.at = at]
  PROVE  handler' # None /\ handler'.m = handler.m /\ handler'.at = at
  <1>1. handler \in [m : Chunk, at : Step]
    BY DEF IInv, HandlerOK
  <1>2. handler' \in [m : Chunk, at : Step] /\ handler'.m = handler.m /\ handler'.at = at
    BY <1>1
  <1>3. QED
    BY <1>2, NoneAssumption DEF Step

LEMMA OpenSettles ==
  ASSUME IInv, QInv, Open
  PROVE  QInv'
  <1>1. SenderStays /\ UNCHANGED <<toReceiver, toSender, removing>> /\ handler # None
        /\ handler' = [handler EXCEPT !.at = "append"]
    BY DEF Open, SenderStays, wireVars, senderVars, sendHistory
  <1>2. handler' # None /\ handler'.m = handler.m /\ handler'.at = "append"
    BY <1>1, HandlerType DEF Step
  <1>3. HashedOK'
    BY <1>2 DEF HashedOK
  <1>4. QED
    BY <1>1, <1>2, <1>3, HandlerGoesOn

LEMMA AppendChunkSettles ==
  ASSUME IInv, QInv, AppendChunk
  PROVE  QInv'
  <1> DEFINE m == handler.m
  <1>1. SenderStays /\ UNCHANGED <<toReceiver, toSender, removing>> /\ handler # None
    BY DEF AppendChunk, SenderStays, wireVars, senderVars, sendHistory
  <1>2. HandlerFacts
    BY <1>1, HandlerHas
  <1>3. CASE Complete(m)
    <2>1. handler' = [handler EXCEPT !.at = "hash"]
      BY <1>3 DEF AppendChunk
    <2>2. handler' # None /\ handler'.m = handler.m
      BY <1>1, <2>1, HandlerType DEF Step
    <2>3. tmp'[m.id] = Append(IF tmp[m.id] = None THEN <<>> ELSE tmp[m.id], <<m.v, m.i + 1>>)
      BY <1>2 DEF AppendChunk, IInv, AssembliesOK, HandlerFacts
    <2>4. tmp[m.id] = None \/ tmp[m.id] \in Seq(Version \X (1..Total))
      BY <1>2 DEF IInv, AssembliesOK, HandlerFacts
    <2>5. <<m.v, m.i + 1>> \in Version \X (1..Total)
      BY <1>2, LargeTransferAssumption DEF HandlerFacts
    <2>6. tmp'[m.id] \in Seq(Version \X (1..Total))
      <3>0. \A S : <<>> \in Seq(S)
        OBVIOUS
      <3>1. PICK old \in Seq(Version \X (1..Total)) :
                old = IF tmp[m.id] = None THEN <<>> ELSE tmp[m.id]
        <4>1. CASE tmp[m.id] = None
          BY <3>0, <4>1
        <4>2. CASE tmp[m.id] # None
          BY <2>4, <4>2
        <4>3. QED
          BY <4>1, <4>2
      <3>2. QED
        BY <2>3, <2>5, <3>1, AppendProperties
    <2>7. HashedOK'
      BY <2>2, <2>6, NoneAssumption DEF HashedOK
    <2>8. QED
      BY <1>1, <2>2, <2>7, HandlerGoesOn
  <1>4. CASE ~Complete(m)
    <2>1. handler' = None
      BY <1>4 DEF AppendChunk
    <2>2. Live' = Live /\ Elems(toReceiver)' = Elems(toReceiver) /\ Elems(toSender)' = Elems(toSender)
      BY <1>1 DEF Live, SenderStays, Elems
    <2>3. AnswersFollow /\ ChunksFollow /\ HandlerFollows /\ HashedOK'
      BY <2>1, <2>2 DEF AnswersFollow, ChunksFollow, HandlerFollows, HashedOK
    <2>4. ASSUME NEW t \in Live
          PROVE  OnItsWay(t)'
      <3>1. OnItsWay(t)
        BY DEF QInv, Progress
      <3>2. CASE \E s \in sends : s.id = t /\ Sofar(s) < Total
        BY <1>1, <3>2 DEF OnItsWay, SenderStays, Sofar
      <3>3. QED
        BY <1>4, <2>2, <3>1, <3>2 DEF OnItsWay, Complete
    <2>5. Progress'
      BY <2>2, <2>4 DEF Progress
    <2>6. QED
      BY <1>1, <2>3, <2>5, ReceiverStep
  <1>5. QED
    BY <1>3, <1>4

LEMMA CheckHashSettles ==
  ASSUME IInv, QInv, CheckHash
  PROVE  QInv'
  <1> DEFINE m == handler.m
  <1>1. SenderStays /\ UNCHANGED <<toReceiver, toSender, removing, tmp>> /\ handler # None
        /\ handler.at = "hash"
    BY DEF CheckHash, SenderStays, wireVars, senderVars, sendHistory
  <1>2. CASE tmp[m.id] # None
    <2>1. PICK at \in {"discard", "move"} : handler' = [handler EXCEPT !.at = at]
      BY <1>2 DEF CheckHash
    <2>2. handler' # None /\ handler'.m = handler.m /\ handler'.at # "hash"
      BY <1>1, <2>1, HandlerType DEF Step
    <2>3. HashedOK'
      BY <2>2 DEF HashedOK
    <2>4. QED
      BY <1>1, <2>2, <2>3, HandlerGoesOn
  <1>3. CASE tmp[m.id] = None
    <2>1. handler' = None
      BY <1>3 DEF CheckHash
    <2>2. Live' = Live /\ Elems(toReceiver)' = Elems(toReceiver) /\ Elems(toSender)' = Elems(toSender)
      BY <1>1 DEF Live, SenderStays, Elems
    <2>3. AnswersFollow /\ ChunksFollow /\ HandlerFollows /\ HashedOK'
      BY <2>1, <2>2 DEF AnswersFollow, ChunksFollow, HandlerFollows, HashedOK
    <2>4. m.id \notin Live
      BY <1>1, <1>3 DEF QInv, HashedOK
    <2>5. ASSUME NEW t \in Live
          PROVE  OnItsWay(t)'
      <3>1. OnItsWay(t)
        BY DEF QInv, Progress
      <3>2. CASE \E s \in sends : s.id = t /\ Sofar(s) < Total
        BY <1>1, <3>2 DEF OnItsWay, SenderStays, Sofar
      <3>3. QED
        BY <2>2, <2>4, <3>1, <3>2 DEF OnItsWay
    <2>6. Progress'
      BY <2>2, <2>5 DEF Progress
    <2>7. QED
      BY <1>1, <2>3, <2>6, ReceiverStep
  <1>4. QED
    BY <1>2, <1>3

\* The handler ends with an answer for its transfer.
LEMMA HandlerAnswers ==
  ASSUME IInv, QInv, SenderStays, UNCHANGED <<toReceiver, removing>>,
         handler # None, handler' = None,
         NEW m \in ToSender, MayAnswer(m), m.id = handler.m.id, toSender' = Sent(toSender, m)
  PROVE  QInv'
  <1>1. Elems(toReceiver)' = Elems(toReceiver)
    BY DEF Elems
  <1>2. ChunksFollow
    BY <1>1 DEF ChunksFollow
  <1>3. QED
    BY <1>1, <1>2, AnswerGiven

LEMMA RejectSettles ==
  ASSUME IInv, QInv, Discard \/ MoveFails
  PROVE  QInv'
  <1> DEFINE m == [type |-> "file_rejected", h |-> handler.m.h, id |-> handler.m.id]
  <1>1. SenderStays /\ UNCHANGED <<toReceiver, removing>> /\ handler # None /\ handler' = None
        /\ toSender' = Sent(toSender, m)
    BY DEF Discard, MoveFails, Reject, SenderStays, senderVars, sendHistory
  <1>2. HandlerFacts
    BY <1>1, HandlerHas
  <1>3. m \in ToSender /\ MayAnswer(m) /\ m.id = handler.m.id
    BY <1>2 DEF HandlerFacts, ToSender, MayAnswer
  <1> HIDE DEF m
  <1>4. QED
    BY <1>1, <1>3, HandlerAnswers

LEMMA MoveSettles ==
  ASSUME IInv, QInv, Move
  PROVE  QInv'
  <1> DEFINE t == handler.m.id
             h == IF handler.m.h = None THEN HashOf(tmp[t]) ELSE handler.m.h
             m == [type |-> "file_applied", h |-> h, id |-> t]
  <1>1. SenderStays /\ UNCHANGED <<toReceiver, removing>> /\ handler # None /\ handler' = None
        /\ toSender' = Sent(toSender, m)
    BY DEF Move, SenderStays, senderVars, sendHistory
  <1>2. HandlerFacts
    BY <1>1, HandlerHas
  <1>3. h \in Hash
    BY <1>2, HashIsVersion DEF HandlerFacts, Hash
  <1>4. Tagged(t, handler.m.h) /\ handler.m.h \in {None, h}
    BY <1>1, HandlerTagged
  <1> HIDE DEF h
  <1>5. m \in ToSender /\ m.id = t /\ m.h = h /\ m.type = "file_applied"
    BY <1>2, <1>3 DEF HandlerFacts, ToSender
  <1>6. MayAnswer(m)
    BY <1>2, <1>4, <1>5 DEF HandlerFacts, MayAnswer
  <1> HIDE DEF m
  <1>7. QED
    BY <1>1, <1>5, <1>6, HandlerAnswers

------------------------------------------------------------------------------
(* The steps of the sender and of the connection *)

LEMMA ConnectSettles ==
  ASSUME IInv, QInv, Connect
  PROVE  QInv'
  <1>1. /\ UNCHANGED <<sends, inFlight, started, answered, early, cut, toReceiver, toSender,
                       tmp, removing, handler>>
        /\ conn = None
    BY DEF Connect, senderVars, receiverVars, sendHistory
  <1>2. Live = {} /\ Live' = {}
    BY <1>1 DEF QInv, LiveOK, Live
  <1>3. Elems(toReceiver)' = Elems(toReceiver) /\ Elems(toSender)' = Elems(toSender)
    BY <1>1 DEF Elems
  <1>4. LiveOK' /\ LoopsOK'
    BY <1>1, <1>2, <1>3 DEF QInv, LiveOK, LoopsOK
  <1>5. Progress' /\ HashedOK'
    BY <1>2 DEF Progress, HashedOK
  <1>6. RecordOK'
    BY <1>1 DEF QInv, RecordOK
  <1>7. ChunksFollow /\ HandlerFollows
    BY <1>1, <1>3 DEF ChunksFollow, HandlerFollows
  <1>8. TagsFollow
    BY <1>1, <1>7, TagsShrink
  <1>9. TagsOK'
    BY <1>3, <1>8, TagsKept DEF QInv
  <1>10. QED
    BY <1>4, <1>5, <1>6, <1>9 DEF QInv

LEMMA DropSettles ==
  ASSUME IInv, QInv, Drop
  PROVE  QInv'
  <1>1. UNCHANGED <<sends, inFlight, started, answered, early, tmp, handler>>
        /\ cut' = cut \union (started \ answered)
    BY DEF Drop, senderVars, sendHistory
  <1>2. Live' = {}
    BY <1>1 DEF Live
  <1>3. Elems(toReceiver)' \subseteq Elems(toReceiver)
    <2>1. PICK n \in 0..Len(toReceiver) : toReceiver' = SubSeq(toReceiver, 1, n)
      BY DEF Drop
    <2>2. Elems(SubSeq(toReceiver, 1, n)) \subseteq Elems(toReceiver)
      BY ElemsOf DEF IInv, WireOK
    <2>3. QED
      BY <2>1, <2>2 DEF Elems
  <1>4. Elems(toSender)' \subseteq Elems(toSender)
    <2>1. PICK n \in 0..Len(toSender) : toSender' = SubSeq(toSender, 1, n)
      BY DEF Drop
    <2>2. Elems(SubSeq(toSender, 1, n)) \subseteq Elems(toSender)
      BY ElemsOf DEF IInv, WireOK
    <2>3. QED
      BY <2>1, <2>2 DEF Elems
  <1>5. removing' \subseteq started
    BY DEF Drop, QInv, LiveOK, IInv, AssembliesOK
  <1>6. answered' \union cut' \subseteq started'
    BY <1>1 DEF QInv, LiveOK
  <1>7. LiveOK' /\ LoopsOK'
    BY <1>1, <1>2, <1>4, <1>5, <1>6 DEF QInv, LiveOK, LoopsOK
  <1>8. Progress' /\ HashedOK'
    BY <1>2 DEF Progress, HashedOK
  <1>9. RecordOK'
    BY <1>1 DEF QInv, RecordOK
  <1>10. ChunksFollow /\ HandlerFollows
    BY <1>1, <1>3 DEF ChunksFollow, HandlerFollows
  <1>11. TagsFollow
    BY <1>1, <1>10, TagsShrink
  <1>12. TagsOK'
    BY <1>4, <1>11, TagsKept DEF QInv
  <1>13. QED
    BY <1>7, <1>8, <1>9, <1>12 DEF QInv

LEMMA PushPatchSettles ==
  ASSUME IInv, QInv, PushPatch
  PROVE  QInv'
  <1> DEFINE m == [type |-> "file_patch", h |-> table]
             r == [h |-> table, mode |-> "patch", id |-> None]
  <1>1. /\ UNCHANGED <<conn, sends, started, answered, early, cut, toSender, tmp, removing, handler>>
        /\ inFlight' = r /\ toReceiver' = Sent(toReceiver, m) /\ conn # None
    BY DEF PushPatch, receiverVars
  <1>2. m \in ToReceiver /\ m.type # "file_chunk" /\ r.mode = "patch"
    BY DEF IInv, TablesOK, ToReceiver
  <1> HIDE DEF m, r
  <1>3. Elems(toReceiver)' = Elems(toReceiver) \union {m}
    <2>1. Elems(Append(toReceiver, m)) = Elems(toReceiver) \union {m}
      BY <1>2, ElemsOf DEF IInv, WireOK
    <2>2. QED
      BY <1>1, <2>1 DEF Sent, Elems
  <1>4. Live' = Live /\ Elems(toSender)' = Elems(toSender)
    BY <1>1 DEF Live, Elems
  <1>5. LiveOK' /\ LoopsOK'
    BY <1>1, <1>4 DEF QInv, LiveOK, LoopsOK
  <1>6. ASSUME NEW t \in Live
        PROVE  OnItsWay(t)'
    <2>1. OnItsWay(t)
      BY DEF QInv, Progress
    <2>2. CASE \E s \in sends : s.id = t /\ Sofar(s) < Total
      BY <1>1, <2>2 DEF OnItsWay, Sofar
    <2>3. CASE \E c \in Elems(toReceiver) : IsChunk(c, t) /\ c.i + 1 = Total
      BY <1>3, <2>3 DEF OnItsWay, IsChunk
    <2>4. QED
      BY <1>1, <1>4, <2>1, <2>2, <2>3 DEF OnItsWay
  <1>7. Progress' /\ HashedOK'
    BY <1>1, <1>4, <1>6 DEF QInv, Progress, HashedOK
  <1>8. RecordOK'
    BY <1>1, <1>2 DEF RecordOK
  <1>9. ChunksFollow /\ HandlerFollows
    BY <1>1, <1>2, <1>3 DEF ChunksFollow, HandlerFollows
  <1>10. TagsFollow
    BY <1>1, <1>2, <1>9, TagsShrink
  <1>11. TagsOK'
    BY <1>4, <1>10, TagsKept DEF QInv
  <1>12. QED
    BY <1>5, <1>7, <1>8, <1>11 DEF QInv

\* Nothing has the tag of a transfer that has not started.
LEMMA OnlyStartedTagged ==
  ASSUME IInv, QInv, NEW t \in Transfer, NEW h, Tagged(t, h)
  PROVE  t \in started
  <1>1. ASSUME NEW c \in Elems(toReceiver), IsChunk(c, t), t \notin started
        PROVE  FALSE
    <2>1. AllFrom(toReceiver, t, Total)
      BY <1>1 DEF IInv, WireOK
    <2>2. PICK k \in 1..Len(toReceiver) : toReceiver[k] = c
      BY DEF Elems
    <2>3. c.i >= Total
      BY <1>1, <2>1, <2>2 DEF AllFrom
    <2>4. c \in ToReceiver
      BY WireElems DEF IInv
    <2>5. c.i \in 0..(Total - 1)
      BY <1>1, <2>4, Messages DEF IsChunk
    <2>6. QED
      BY <2>3, <2>5, LargeTransferAssumption
  <1>2. handler # None => handler.m.id \in started
    BY DEF IInv, HandlerOK
  <1>3. \A s \in sends : s.id \in started
    BY DEF IInv, SendsOK, SendOK
  <1>4. inFlight # None /\ inFlight.mode = "chunked" => inFlight.id \in started
    BY DEF QInv, RecordOK
  <1>5. QED
    BY <1>1, <1>2, <1>3, <1>4 DEF Tagged

LEMMA PushChunksSettles ==
  ASSUME IInv, QInv, PushChunks
  PROVE  QInv'
  <1> DEFINE new == [id |-> Cardinality(started) + 1, v |-> file, h |-> table, i |-> 0, on |-> None]
  <1>1. /\ UNCHANGED <<conn, inFlight, answered, early, cut, toReceiver, toSender, tmp, removing, handler>>
        /\ sends' = sends \union {new} /\ started' = started \union {new.id} /\ conn # None
    BY DEF PushChunks, wireVars, receiverVars
  <1>2. new.id \in Transfer \ started
    <2>1. PICK n \in 0..MaxPush : started = 1..n /\ n + left.push <= MaxPush
      BY DEF IInv, BudgetOK
    <2>2. Cardinality(started) = n
      BY <2>1, FS_Interval, LargeTransferAssumption
    <2>3. left.push > 0
      BY DEF PushChunks, Spend
    <2>4. left.push \in Nat
      BY LargeTransferAssumption DEF IInv, BudgetOK, Budget
    <2>5. QED
      BY <2>1, <2>2, <2>3, <2>4, LargeTransferAssumption DEF Transfer
  <1>3. new.i = 0 /\ new.on = None
    OBVIOUS
  <1>4. Sofar(new) = 0
    BY <1>3 DEF Sofar
  <1> HIDE DEF new
  <1>5. Elems(toReceiver)' = Elems(toReceiver) /\ Elems(toSender)' = Elems(toSender)
    BY <1>1 DEF Elems
  <1>6. started \subseteq Transfer
    BY StartedOK DEF IInv
  <1>7. Live' = Live \union {new.id}
    BY <1>1, <1>2 DEF Live, QInv, LiveOK
  <1>8. new.id \notin removing /\ new.id \notin answered /\ new.id \notin cut
    BY <1>2 DEF QInv, LiveOK
  <1>9. LiveOK'
    BY <1>1, <1>2, <1>5, <1>7, <1>8 DEF QInv, LiveOK
  <1>10. LoopsOK'
    <2>1. ASSUME NEW s \in sends
          PROVE  /\ s.id \in Live' => s.on \in {None, conn}
                 /\ s.id \in answered => s.id \in early
      <3>1. s.id \in started
        BY DEF IInv, SendsOK, SendOK
      <3>2. s.id # new.id
        BY <1>2, <3>1
      <3>3. QED
        BY <1>7, <3>2 DEF QInv, LoopsOK
    <2>2. QED
      BY <1>1, <1>3, <1>8, <2>1 DEF LoopsOK
  <1>11. ASSUME NEW t \in Live'
         PROVE  OnItsWay(t)'
    <2>1. CASE t = new.id
      <3>1. Sofar(new) < Total
        BY <1>4, LargeTransferAssumption
      <3>2. new \in sends'
        BY <1>1
      <3>3. QED
        BY <2>1, <3>1, <3>2 DEF OnItsWay, Sofar
    <2>2. CASE t \in Live
      <3>1. OnItsWay(t)
        BY <2>2 DEF QInv, Progress
      <3>2. CASE \E s \in sends : s.id = t /\ Sofar(s) < Total
        BY <1>1, <3>2 DEF OnItsWay, Sofar
      <3>3. QED
        BY <1>1, <1>5, <3>1, <3>2 DEF OnItsWay
    <2>3. QED
      BY <1>7, <2>1, <2>2
  <1>12. Progress'
    BY <1>11 DEF Progress
  <1>13. HashedOK'
    <2>1. handler # None => handler.m.id # new.id
      BY <1>2 DEF IInv, HandlerOK
    <2>2. QED
      BY <1>1, <1>7, <2>1 DEF QInv, HashedOK
  <1>14. RecordOK'
    BY <1>1, <1>2 DEF QInv, RecordOK
  <1>15. \A t, h : Tagged(t, h)' => Tagged(t, h) \/ (t = new.id /\ h = new.h)
    BY <1>1, <1>5 DEF Tagged
  <1>16. \A h : ~Tagged(new.id, h)
    BY <1>2, OnlyStartedTagged
  <1>17. ASSUME NEW t, NEW h, NEW g, Tagged(t, h)', Tagged(t, g)'
         PROVE  h = g
    BY <1>15, <1>16, <1>17 DEF QInv, TagsOK
  <1>18. ASSUME NEW a \in Elems(toSender)', NEW h, a.type = "file_applied", Tagged(a.id, h)'
         PROVE  h \in {None, a.h}
    <2>1. a.id \in started \union {None}
      BY <1>5 DEF QInv, LiveOK
    <2>2. new.id # None
      BY <1>2, NoneAssumption, LargeTransferAssumption DEF Transfer
    <2>3. a.id # new.id
      BY <1>2, <2>1, <2>2
    <2>4. Tagged(a.id, h)
      BY <1>15, <1>18, <2>3
    <2>5. QED
      BY <1>5, <1>18, <2>4 DEF QInv, TagsOK
  <1>19. TagsOK'
    BY <1>17, <1>18 DEF TagsOK
  <1>20. QED
    BY <1>9, <1>10, <1>12, <1>13, <1>14, <1>19 DEF QInv

\* What the steps of a loop leave alone.
LoopFrame == UNCHANGED <<conn, started, answered, early, cut, toSender, tmp, removing, handler>>

\* A loop stops for want of its connection.
LEMMA LoopStops ==
  ASSUME IInv, QInv, LoopFrame, toReceiver' = toReceiver,
         NEW s \in sends, s.id \notin Live, Stopped(s)
  PROVE  QInv'
  <1>1. sends' = sends \ {s} /\ inFlight' = None
    BY DEF Stopped
  <1>2. Live' = Live /\ Elems(toSender)' = Elems(toSender) /\ Elems(toReceiver)' = Elems(toReceiver)
    BY DEF LoopFrame, Live, Elems
  <1>3. LiveOK' /\ LoopsOK' /\ HashedOK'
    BY <1>1, <1>2 DEF QInv, LiveOK, LoopsOK, HashedOK, LoopFrame
  <1>4. ASSUME NEW t \in Live
        PROVE  OnItsWay(t)'
    <2>1. OnItsWay(t)
      BY DEF QInv, Progress
    <2>2. CASE \E r \in sends : r.id = t /\ Sofar(r) < Total
      BY <1>1, <2>2 DEF OnItsWay, Sofar
    <2>3. QED
      BY <1>2, <2>1, <2>2 DEF OnItsWay, LoopFrame
  <1>5. Progress'
    BY <1>2, <1>4 DEF Progress
  <1>6. RecordOK'
    BY <1>1 DEF RecordOK
  <1>7. ChunksFollow /\ HandlerFollows
    BY <1>2 DEF ChunksFollow, HandlerFollows, LoopFrame
  <1>8. TagsFollow
    BY <1>1, <1>7, TagsShrink
  <1>9. TagsOK'
    BY <1>2, <1>8, TagsKept DEF QInv
  <1>10. QED
    BY <1>3, <1>5, <1>6, <1>9 DEF QInv

\* A loop goes on, with a chunk more or less to send.
LEMMA LoopMoves ==
  ASSUME IInv, QInv, LoopFrame, inFlight' = inFlight,
         NEW s \in sends, NEW r, sends' = (sends \ {s}) \union {r},
         r.id = s.id, r.h = s.h, r.on \in {None, conn},
         Sofar(s) < Total =>
             Sofar(r) < Total \/ \E c \in Elems(toReceiver)' : IsChunk(c, s.id) /\ c.i + 1 = Total,
         Elems(toReceiver) \subseteq Elems(toReceiver)',
         \A c \in Elems(toReceiver)' : c \in Elems(toReceiver) \/ (c.id = s.id /\ c.h = s.h)
  PROVE  QInv'
  <1>1. Live' = Live /\ Elems(toSender)' = Elems(toSender)
    BY DEF LoopFrame, Live, Elems
  <1>2. LiveOK' /\ HashedOK'
    BY <1>1 DEF QInv, LiveOK, HashedOK, LoopFrame
  <1>3. LoopsOK'
    BY <1>1 DEF QInv, LoopsOK, LoopFrame
  <1>4. ASSUME NEW t \in Live
        PROVE  OnItsWay(t)'
    <2>1. OnItsWay(t)
      BY DEF QInv, Progress
    <2>2. CASE \E x \in sends : x.id = t /\ Sofar(x) < Total
      <3>1. PICK x \in sends : x.id = t /\ Sofar(x) < Total
        BY <2>2
      <3>2. CASE x # s
        BY <3>1, <3>2 DEF OnItsWay, Sofar
      <3>3. CASE x = s
        <4>1. CASE Sofar(r) < Total
          BY <3>1, <3>3, <4>1 DEF OnItsWay, Sofar
        <4>2. CASE \E c \in Elems(toReceiver)' : IsChunk(c, s.id) /\ c.i + 1 = Total
          BY <3>1, <3>3, <4>2 DEF OnItsWay, IsChunk
        <4>3. QED
          BY <3>1, <3>3, <4>1, <4>2
      <3>4. QED
        BY <3>2, <3>3
    <2>3. CASE \E c \in Elems(toReceiver) : IsChunk(c, t) /\ c.i + 1 = Total
      BY <2>3 DEF OnItsWay, IsChunk
    <2>4. QED
      BY <1>1, <2>1, <2>2, <2>3 DEF OnItsWay, LoopFrame
  <1>5. Progress'
    BY <1>1, <1>4 DEF Progress
  <1>6. RecordOK'
    BY DEF QInv, RecordOK, LoopFrame
  <1>7. TagsFollow
    <2> SUFFICES ASSUME NEW t, NEW h, Tagged(t, h)' PROVE Tagged(t, h)
      BY DEF TagsFollow
    <2>1. CASE \E c \in Elems(toReceiver)' : IsChunk(c, t) /\ c.h = h
      BY <2>1 DEF Tagged, IsChunk
    <2>2. CASE \E x \in sends' : x.id = t /\ x.h = h
      BY <2>2 DEF Tagged
    <2>3. QED
      BY <2>1, <2>2 DEF Tagged, LoopFrame
  <1>8. TagsOK'
    BY <1>1, <1>7, TagsKept DEF QInv
  <1>9. QED
    BY <1>2, <1>3, <1>5, <1>6, <1>8 DEF QInv

LEMMA SendChunkSettles ==
  ASSUME IInv, QInv, NEW s \in sends, SendChunk(s)
  PROVE  QInv'
  <1>1. LoopFrame /\ s.on = None /\ s.i < Total
    BY DEF SendChunk, LoopFrame, receiverVars, sendHistory
  <1>2. s \in SendRecord /\ s.id \in started
    BY DEF IInv, SendsOK, SendOK
  <1>3. CASE conn = None
    <2>1. Stopped(s) /\ toReceiver' = toReceiver
      BY <1>3 DEF SendChunk
    <2>2. s.id \notin Live
      BY <1>3 DEF QInv, LiveOK
    <2>3. QED
      BY <1>1, <2>1, <2>2, LoopStops
  <1>4. CASE conn # None
    <2> DEFINE m == [type |-> "file_chunk", id |-> s.id, i |-> s.i, v |-> s.v, h |-> s.h]
               r == [s EXCEPT !.on = conn]
    <2>1. toReceiver' = Append(toReceiver, m) /\ sends' = (sends \ {s}) \union {r}
          /\ inFlight' = inFlight
      BY <1>4 DEF SendChunk
    <2>2. r.id = s.id /\ r.h = s.h /\ r.i = s.i /\ r.on = conn
      BY <1>2 DEF SendRecord
    <2>3. m \in ToReceiver
      BY <1>1, <1>2, LargeTransferAssumption DEF SendRecord, ToReceiver, Chunk
    <2>4. IsChunk(m, s.id) /\ m.i = s.i /\ m.h = s.h /\ m.id = s.id
      BY DEF IsChunk
    <2> HIDE DEF m, r
    <2>5. Elems(toReceiver)' = Elems(toReceiver) \union {m}
      <3>1. Elems(Append(toReceiver, m)) = Elems(toReceiver) \union {m}
        BY <2>3, ElemsOf DEF IInv, WireOK
      <3>2. QED
        BY <2>1, <3>1 DEF Elems
    <2>6. Sofar(r) < Total \/ m.i + 1 = Total
      <3>1. s.i \in Nat
        BY <1>2, LargeTransferAssumption DEF SendRecord
      <3>2. Sofar(r) = s.i + 1
        BY <1>4, <2>2 DEF Sofar
      <3>3. QED
        BY <1>1, <2>4, <3>1, <3>2, LargeTransferAssumption
    <2>7. Sofar(r) < Total \/ \E c \in Elems(toReceiver)' : IsChunk(c, s.id) /\ c.i + 1 = Total
      BY <2>4, <2>5, <2>6
    <2>8. \A c \in Elems(toReceiver)' : c \in Elems(toReceiver) \/ (c.id = s.id /\ c.h = s.h)
      BY <2>4, <2>5
    <2>9. Elems(toReceiver) \subseteq Elems(toReceiver)' /\ r.on \in {None, conn}
      BY <2>2, <2>5
    <2>10. QED
      BY <1>1, <2>1, <2>2, <2>7, <2>8, <2>9, LoopMoves
  <1>5. QED
    BY <1>3, <1>4

LEMMA DrainedSettles ==
  ASSUME IInv, QInv, NEW s \in sends, Drained(s)
  PROVE  QInv'
  <1>1. LoopFrame /\ s.on # None /\ toReceiver' = toReceiver
    BY DEF Drained, LoopFrame, wireVars, receiverVars, sendHistory
  <1>2. s \in SendRecord /\ s.id \in started
    BY DEF IInv, SendsOK, SendOK
  <1>3. CASE s.on # conn
    <2>1. Stopped(s)
      BY <1>3 DEF Drained
    <2>2. s.id \notin Live
      BY <1>1, <1>3 DEF QInv, LoopsOK
    <2>3. QED
      BY <1>1, <2>1, <2>2, LoopStops
  <1>4. CASE s.on = conn
    <2> DEFINE r == [s EXCEPT !.on = None, !.i = @ + 1]
    <2>1. sends' = (sends \ {s}) \union {r} /\ inFlight' = inFlight
      BY <1>4 DEF Drained
    <2>2. r.id = s.id /\ r.h = s.h /\ r.on = None /\ r.i = s.i + 1
      BY <1>2 DEF SendRecord
    <2> HIDE DEF r
    <2>3. Sofar(r) = Sofar(s)
      BY <1>1, <2>2 DEF Sofar
    <2>4. Elems(toReceiver)' = Elems(toReceiver)
      BY <1>1 DEF Elems
    <2>5. QED
      BY <1>1, <2>1, <2>2, <2>3, <2>4, LoopMoves
  <1>5. QED
    BY <1>3, <1>4

LEMMA LoopEndsSettles ==
  ASSUME IInv, QInv, NEW s \in sends, LoopEnds(s)
  PROVE  QInv'
  <1> DEFINE new == [h |-> s.h, mode |-> "chunked", id |-> s.id]
  <1>1. LoopFrame /\ toReceiver' = toReceiver /\ s.on = None /\ s.i = Total
        /\ sends' = sends \ {s} /\ inFlight' = new
    BY DEF LoopEnds, LoopFrame, wireVars, receiverVars, sendHistory
  <1>2. new.mode = "chunked" /\ new.id = s.id /\ new.h = s.h
    OBVIOUS
  <1> HIDE DEF new
  <1>3. Live' = Live /\ Elems(toSender)' = Elems(toSender) /\ Elems(toReceiver)' = Elems(toReceiver)
    BY <1>1 DEF LoopFrame, Live, Elems
  <1>4. LiveOK' /\ LoopsOK' /\ HashedOK'
    BY <1>1, <1>3 DEF QInv, LiveOK, LoopsOK, HashedOK, LoopFrame
  <1>5. ASSUME NEW t \in Live
        PROVE  OnItsWay(t)'
    <2>1. OnItsWay(t)
      BY DEF QInv, Progress
    <2>2. CASE \E r \in sends : r.id = t /\ Sofar(r) < Total
      <3>1. PICK r \in sends : r.id = t /\ Sofar(r) < Total
        BY <2>2
      <3>2. r # s
        BY <1>1, <3>1, LargeTransferAssumption DEF Sofar
      <3>3. QED
        BY <1>1, <3>1, <3>2 DEF OnItsWay, Sofar
    <2>3. QED
      BY <1>1, <1>3, <2>1, <2>2 DEF OnItsWay, LoopFrame
  <1>6. Progress'
    BY <1>3, <1>5 DEF Progress
  <1>7. RecordOK'
    <2>1. s.id \in started /\ \A r \in sends' : r.id # s.id
      BY <1>1 DEF IInv, SendsOK, SendOK
    <2>2. s.id \in answered => s.id \in early
      BY DEF QInv, LoopsOK
    <2>3. QED
      BY <1>1, <1>2, <2>1, <2>2 DEF RecordOK, LoopFrame
  <1>8. TagsFollow
    <2> SUFFICES ASSUME NEW t, NEW h, Tagged(t, h)' PROVE Tagged(t, h)
      BY DEF TagsFollow
    <2>1. CASE inFlight' # None /\ inFlight'.mode = "chunked" /\ inFlight'.id = t /\ inFlight'.h = h
      BY <1>1, <1>2, <2>1 DEF Tagged
    <2>2. QED
      BY <1>1, <1>3, <2>1 DEF Tagged, LoopFrame
  <1>9. TagsOK'
    BY <1>3, <1>8, TagsKept DEF QInv
  <1>10. QED
    BY <1>4, <1>6, <1>7, <1>9 DEF QInv

\* The record of a transfer is gone when its answer has been handled.
LEMMA SenderHandlesSettles ==
  ASSUME IInv, QInv, SenderHandles
  PROVE  QInv'
  <1> DEFINE m == Head(toSender)
             f == [type |-> "file_content", h |-> table]
  <1>1. /\ UNCHANGED <<conn, sends, tmp, removing, handler, started, cut>>
        /\ toSender # <<>> /\ toSender' = Tail(toSender)
        /\ inFlight' = IF Settles(m) THEN None ELSE inFlight
        /\ answered' = answered \union ({m.id} \cap Transfer)
        /\ early' = early \union ({m.id} \cap {s.id : s \in sends})
        /\ toReceiver' = toReceiver \/ toReceiver' = Sent(toReceiver, f)
    BY DEF SenderHandles, receiverVars
  <1>2. m \in Elems(toSender) /\ m \in ToSender
    BY <1>1, WireElems DEF IInv
  <1>3. f \in ToReceiver /\ f.type # "file_chunk"
    BY DEF IInv, TablesOK, ToReceiver
  <1>4. m.type \in {"file_applied", "file_rejected"} \/ (m.type = "file_content_request" /\ m.id = None)
    BY <1>2 DEF ToSender
  <1>5. m.id \in started \union {None}
    BY <1>2 DEF QInv, LiveOK
  <1> HIDE DEF f
  <1>6. Elems(toReceiver) \subseteq Elems(toReceiver)' /\ Elems(toReceiver)' \subseteq Elems(toReceiver) \union {f}
    <2>1. Elems(Append(toReceiver, f)) = Elems(toReceiver) \union {f}
      BY <1>3, ElemsOf DEF IInv, WireOK
    <2>2. QED
      BY <1>1, <2>1 DEF Sent, Elems
  <1>7. Elems(toSender)' \subseteq Elems(toSender) /\ Elems(toSender) \subseteq Elems(toSender)' \union {m}
    <2>1. Elems(toSender)' = Elems(Tail(toSender))
      BY <1>1 DEF Elems
    <2>2. QED
      BY <1>1, <2>1, WireElems DEF IInv
  <1>8. started \subseteq Transfer /\ None \notin Transfer
    BY StartedOK, NoneAssumption, LargeTransferAssumption DEF IInv, Transfer
  <1> HIDE DEF m
  <1>9. Live' = Live \ {m.id}
    BY <1>1, <1>5, <1>8 DEF Live
  <1>10. LiveOK'
    BY <1>1, <1>5, <1>7, <1>8, <1>9 DEF QInv, LiveOK
  <1>11. LoopsOK'
    BY <1>1, <1>9 DEF QInv, LoopsOK
  <1>12. HashedOK'
    BY <1>1, <1>9 DEF QInv, HashedOK
  <1>13. ASSUME NEW t \in Live'
         PROVE  OnItsWay(t)'
    <2>1. OnItsWay(t) /\ t # m.id
      BY <1>9 DEF QInv, Progress
    <2>2. CASE \E s \in sends : s.id = t /\ Sofar(s) < Total
      BY <1>1, <2>2 DEF OnItsWay, Sofar
    <2>3. CASE \E c \in Elems(toReceiver) : IsChunk(c, t) /\ c.i + 1 = Total
      BY <1>6, <2>3 DEF OnItsWay, IsChunk
    <2>4. CASE \E a \in Elems(toSender) : a.id = t
      BY <1>7, <2>1, <2>4 DEF OnItsWay
    <2>5. QED
      BY <1>1, <2>1, <2>2, <2>3, <2>4 DEF OnItsWay
  <1>14. Progress'
    BY <1>13 DEF Progress
  <1>15. RecordOK'
    <2> SUFFICES ASSUME inFlight' # None, inFlight.mode # "patch"
                 PROVE  /\ inFlight.mode = "chunked" /\ inFlight.id \in started
                        /\ \A s \in sends : s.id # inFlight.id
                        /\ inFlight.id \in answered' => inFlight.id \in early' \union cut
      BY <1>1 DEF RecordOK
    <2>1. inFlight' = inFlight /\ inFlight # None /\ ~Settles(m)
      BY <1>1
    <2>2. /\ inFlight.mode = "chunked" /\ inFlight.id \in started
          /\ \A s \in sends : s.id # inFlight.id
          /\ inFlight.id \in answered => inFlight.id \in early \union cut
      BY <2>1 DEF QInv, RecordOK
    <2>3. ASSUME inFlight.id = m.id PROVE FALSE
      <3>1. m.id # None
        BY <1>8, <2>2, <2>3
      <3>2. m.type = "file_applied"
        BY <1>4, <2>1, <3>1 DEF Settles
      <3>3. Tagged(m.id, inFlight.h)
        BY <2>1, <2>2, <2>3 DEF Tagged
      <3>4. inFlight.h \in {None, m.h}
        BY <1>2, <3>2, <3>3 DEF QInv, TagsOK
      <3>5. QED
        BY <2>1, <3>2, <3>4 DEF Settles
    <2>4. QED
      BY <1>1, <2>2, <2>3
  <1>16. ChunksFollow /\ HandlerFollows
    BY <1>1, <1>3, <1>6 DEF ChunksFollow, HandlerFollows
  <1>17. TagsFollow
    BY <1>1, <1>16, TagsShrink
  <1>18. TagsOK'
    BY <1>7, <1>17, TagsKept DEF QInv
  <1>19. QED
    BY <1>10, <1>11, <1>12, <1>14, <1>15, <1>18 DEF QInv

LEMMA InitQInv == Init => IInv /\ QInv
  <1> SUFFICES ASSUME Init PROVE IInv /\ QInv
    OBVIOUS
  <1>1. Elems(toReceiver) = {} /\ Elems(toSender) = {}
    BY DEF Init, Elems
  <1>2. Live = {}
    BY DEF Init, Live
  <1>3. LiveOK /\ LoopsOK /\ Progress /\ HashedOK /\ RecordOK
    BY <1>1, <1>2 DEF Init, LiveOK, LoopsOK, Progress, HashedOK, RecordOK
  <1>4. TagsOK
    BY <1>1 DEF Init, TagsOK, Tagged
  <1>5. QED
    BY <1>3, <1>4, InitIInv DEF QInv

LEMMA NextQInv ==
  ASSUME IInv, QInv, [Next]_vars
  PROVE  QInv'
  <1> USE DEF wireVars, senderVars, receiverVars, sendHistory
  <1>1. CASE Connect
    BY <1>1, ConnectSettles
  <1>2. CASE Drop
    BY <1>2, DropSettles
  <1>3. ASSUME NEW t \in Transfer, Removed(t) PROVE QInv'
    BY <1>3, RemovedSettles
  <1>4. ASSUME NEW v \in Version, Edit(v) PROVE QInv'
    BY <1>4, NothingMoves DEF Edit, SenderStays
  <1>5. CASE Watch
    BY <1>5, NothingMoves DEF Watch, SenderStays
  <1>6. CASE Skip
    BY <1>6, NothingMoves DEF Skip, SenderStays
  <1>7. CASE PushPatch
    BY <1>7, PushPatchSettles
  <1>8. CASE PushChunks
    BY <1>8, PushChunksSettles
  <1>9. CASE EditOwn
    BY <1>9, NothingMoves DEF EditOwn, SenderStays
  <1>10. ASSUME NEW force \in BOOLEAN, Pull(force) PROVE QInv'
    BY <1>10, PullSettles
  <1>11. CASE SenderNext
    BY <1>11, SendChunkSettles, DrainedSettles, LoopEndsSettles, SenderHandlesSettles DEF SenderNext
  <1>12. CASE ReceiverNext
    BY <1>12, RefuseSettles, HandleChunkSettles, OpenSettles, AppendChunkSettles, CheckHashSettles,
       RejectSettles, MoveSettles DEF ReceiverNext
  <1>13. CASE UNCHANGED vars
    BY <1>13, NothingMoves DEF vars, SenderStays
  <1>14. QED
    BY <1>1, <1>2, <1>3, <1>4, <1>5, <1>6, <1>7, <1>8, <1>9, <1>10, <1>11, <1>12, <1>13 DEF Next

\* Once nothing is under way, the sender has no record of a transfer left that
\* kept its connection and was answered after its loop had ended: no chunk is
\* dropped without an answer, and every answer finds its record
\* (transport.ts:1254-1296, 1824-1871).
THEOREM SettledWhenQuiet == Spec => []QuietMeansSettled
  <1>1. Init => IInv /\ QInv
    BY InitQInv
  <1>2. IInv /\ QInv /\ [Next]_vars => (IInv /\ QInv)'
    BY NextIInv, NextQInv
  <1>3. IInv /\ QInv => QuietMeansSettled
    <2> SUFFICES ASSUME IInv, QInv, sends = {}, toReceiver = <<>>, toSender = <<>>, handler = None,
                        inFlight # None, inFlight.mode # "patch", inFlight.id \notin early \union cut
                 PROVE  FALSE
      BY DEF QuietMeansSettled
    <2>1. inFlight.id \in started /\ inFlight.id \notin answered
      BY DEF QInv, RecordOK
    <2>2. inFlight.id \in Live
      BY <2>1 DEF Live
    <2>3. OnItsWay(inFlight.id)
      BY <2>2 DEF QInv, Progress
    <2>4. Elems(toReceiver) = {} /\ Elems(toSender) = {}
      BY WireElems DEF IInv
    <2>5. QED
      BY <2>3, <2>4 DEF OnItsWay
  <1>4. QED
    BY <1>1, <1>2, <1>3, PTL DEF Spec

==============================================================================
