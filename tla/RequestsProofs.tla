--------------------------- MODULE RequestsProofs ---------------------------
(***************************************************************************)
(* Invariants of the requests between peers, for any number of nodes,      *)
(* capabilities, files and requests, and any bounds.                       *)
(*                                                                         *)
(* The inductive invariant, IInv, says what the messages on the way stand  *)
(* for: a request for the entry that its sender stored, an answer for the  *)
(* request it answers, and the last node_info for the capabilities its     *)
(* sender has by now.  The entries of the tables are tied to the history   *)
(* by their number, and the timers to the entries.                         *)
(***************************************************************************)
EXTENDS Requests, SequenceTheorems, FiniteSetTheorems, TLAPS

------------------------------------------------------------------------------
(* The inductive invariant *)

\* Both ends of a link that works count each other as connected.
LinkOK ==
    /\ conn \in [Node -> SUBSET Node] /\ up \subseteq Linked /\ left \in Budget
    /\ \A n \in Node : n \notin conn[n]
    /\ \A n, p \in Node : {n, p} \in up => p \in conn[n]

FiniteCaps == {S \in SUBSET Cap : IsFiniteSet(S)}

\* What is known of a peer of this connection has been asked for, each once.
InfoOK ==
    /\ caps \in [Node -> FiniteCaps]
    /\ remoteNodeInfo \in [Node -> [Node -> SUBSET Cap]]
    /\ autoRequested \in [Node -> [Node -> SUBSET Cap]]
    /\ asked \in [Node -> [Node -> Seq(Cap)]]
    /\ stale \subseteq Node \X Node
    /\ \A n, p \in Node :
        /\ IsInjective(asked[n][p])
        /\ ToSet(asked[n][p]) \subseteq autoRequested[n][p]
        /\ <<n, p>> \notin stale =>
               remoteNodeInfo[n][p] \union autoRequested[n][p] \subseteq ToSet(asked[n][p])

\* The k-th entry stored is the request that s makes of r under this id.
IsAsk(k, s, r, id) ==
    /\ k \in DOMAIN log /\ log[k].node = s /\ log[k].peer = r
    /\ log[k].dir = "outgoing" /\ log[k].id = id /\ log[k].ask = k

IsShown(k, s, r, f) ==
    k \in DOMAIN shown /\ shown[k].node = s /\ shown[k].peer = r /\ shown[k].path = f

\* What may be on the way from s to r.
OnWire == [s \in Node |-> [r \in Node |-> {m \in Message :
    /\ m.type = "node_info" => IsFiniteSet(m.caps)
    /\ m.type = "capability_execute" => IsAsk(m.ask, s, r, m.id)
    /\ m.type = "capability_execute_result" => IsAsk(m.ask, r, s, m.id)
    /\ m.type = "file_preview_request" => IsShown(m.id, s, r, m.path)
    /\ m.type = "file_preview_response" =>
           IsShown(m.id, r, s, m.path) /\ m.content \in {None, <<s, m.path>>}}]]

ChanOK ==
    /\ chan \in [Node -> [Node -> Seq(Message)]]
    /\ \A s, r \in Node : chan[s][r] \in Seq(OnWire[s][r])

\* Who has handled q, and knew info before, knows S.
Tells(q, info, S) ==
    IF \E i \in DOMAIN q : q[i].type = "node_info"
    THEN \E i \in DOMAIN q :
             /\ q[i].type = "node_info" /\ q[i].caps = S
             /\ \A j \in DOMAIN q : j > i => q[j].type # "node_info"
    ELSE info = S

\* The latest capabilities of a peer that is reached are known or on the way.
NewsOK == \A n, p \in Node :
    {n, p} \in up => Tells(chan[p][n], remoteNodeInfo[n][p], caps[p])

\* An entry in the table is one that was stored there and has not ended.
EntryOK(n, e) ==
    /\ e.no \in DOMAIN log /\ log[e.no].node = n /\ log[e.no].peer = e.peer
    /\ log[e.no].dir = e.dir /\ log[e.no].id = e.id /\ log[e.no].ask = e.ask
    /\ log[e.no].ended = <<>>

\* The k-th entry stored: what is known of it, and of how it ended.
LoggedOK(k) ==
    /\ log[k].node # log[k].peer
    /\ log[k].dir = "outgoing" => log[k].ask = k
    /\ log[k].dir = "incoming" => IsAsk(log[k].ask, log[k].peer, log[k].node, log[k].id)
    /\ Len(log[k].ended) <= 1
    /\ \A i \in DOMAIN log[k].ended : log[k].ended[i].how = "result" /\ Unique(k) =>
           log[k].dir = "outgoing" /\ log[k].ended[i].ask = k

ExecOK ==
    /\ pendingExecutions \in [Node -> SUBSET Entry] /\ log \in Seq(LogEntry)
    /\ \A n \in Node : \A e \in pendingExecutions[n] : EntryOK(n, e)
    /\ \A k \in DOMAIN log : LoggedOK(k)

\* The k-th preview asked for.
ShownOK(k) ==
    /\ Len(shown[k].got) <= 1
    /\ \A i \in DOMAIN shown[k].got :
           shown[k].got[i] \in {None, <<shown[k].peer, shown[k].path>>}

PreviewOK ==
    /\ previewRequests \in [Node -> SUBSET Nat] /\ shown \in Seq(Preview)
    /\ diff \in [Node -> [peer : Node \union {None}, todo : SUBSET Path, wait : Nat]]
    /\ \A n \in Node : \A k \in previewRequests[n] :
           k \in DOMAIN shown /\ shown[k].node = n /\ shown[k].got = <<>>
    /\ \A k \in DOMAIN shown : ShownOK(k)
    /\ AwaitedIsOpen

TimersOK == timers \in [Node -> SUBSET Timer] /\ TimerPerRequest

IInv == LinkOK /\ InfoOK /\ ChanOK /\ NewsOK /\ ExecOK /\ PreviewOK /\ TimersOK

\* What a step never takes back.
LogGrows == \A k \in DOMAIN log :
    /\ k \in DOMAIN log' /\ log'[k].node = log[k].node /\ log'[k].peer = log[k].peer
    /\ log'[k].dir = log[k].dir /\ log'[k].id = log[k].id /\ log'[k].ask = log[k].ask

ShownGrows == \A k \in DOMAIN shown :
    /\ k \in DOMAIN shown' /\ shown'[k].node = shown[k].node
    /\ shown'[k].peer = shown[k].peer /\ shown'[k].path = shown[k].path

------------------------------------------------------------------------------
(* Sequences and tables *)

LEMMA Put ==
  ASSUME NEW A, NEW B, NEW S, NEW f \in [A -> [B -> S]], NEW a \in A, NEW b \in B, NEW v \in S,
         NEW g, g = [f EXCEPT ![a][b] = v]
  PROVE  /\ g \in [A -> [B -> S]] /\ g[a][b] = v
         /\ \A c \in A, d \in B : c # a \/ d # b => g[c][d] = f[c][d]
  OBVIOUS

LEMMA One ==
  ASSUME NEW S, NEW e \in S
  PROVE  <<e>> \in Seq(S) /\ Len(<<e>>) = 1 /\ <<e>>[1] = e
  OBVIOUS

LEMMA SetOfOne ==
  ASSUME NEW e
  PROVE  ToSet(<<e>>) = {e}
  BY DEF ToSet

LEMMA SetOfConcat ==
  ASSUME NEW S, NEW p \in Seq(S), NEW q \in Seq(S)
  PROVE  ToSet(p \o q) = ToSet(p) \union ToSet(q)
  <1>1. /\ p \o q \in Seq(S) /\ Len(p \o q) = Len(p) + Len(q)
        /\ \A i \in 1..Len(p) + Len(q) :
               (p \o q)[i] = IF i <= Len(p) THEN p[i] ELSE q[i - Len(p)]
    BY ConcatProperties
  <1>2. ASSUME NEW x \in ToSet(q) PROVE x \in ToSet(p \o q)
    <2>1. PICK i \in 1..Len(q) : x = q[i]
      BY DEF ToSet
    <2>2. i + Len(p) \in 1..Len(p \o q) /\ (p \o q)[i + Len(p)] = q[i]
      BY <1>1, <2>1
    <2>3. QED
      BY <1>1, <2>1, <2>2 DEF ToSet
  <1>3. ASSUME NEW x \in ToSet(p) PROVE x \in ToSet(p \o q)
    <2>1. PICK i \in 1..Len(p) : x = p[i]
      BY DEF ToSet
    <2>2. i \in 1..Len(p \o q) /\ (p \o q)[i] = p[i]
      BY <1>1, <2>1
    <2>3. QED
      BY <1>1, <2>1, <2>2 DEF ToSet
  <1>4. ASSUME NEW x \in ToSet(p \o q) PROVE x \in ToSet(p) \union ToSet(q)
    <2>1. PICK i \in 1..Len(p \o q) : x = (p \o q)[i]
      BY <1>1 DEF ToSet
    <2>2. CASE i <= Len(p)
      BY <1>1, <2>1, <2>2 DEF ToSet
    <2>3. CASE ~(i <= Len(p))
      <3>1. i - Len(p) \in 1..Len(q) /\ x = q[i - Len(p)]
        BY <1>1, <2>1, <2>3
      <3>2. QED
        BY <3>1 DEF ToSet
    <2>4. QED
      BY <2>2, <2>3
  <1>5. QED
    BY <1>2, <1>3, <1>4

\* The order in which the capabilities of a node_info are asked for.
LEMMA Arranged ==
  ASSUME NEW S, IsFiniteSet(S), NEW q, q = SetToSeq(S)
  PROVE  q \in Seq(S) /\ IsInjective(q) /\ ToSet(q) = S
  <1>1. Cardinality(S) \in Nat /\ ExistsBijection(1..Cardinality(S), S)
    BY FS_CardinalityType
  <1>2. \E f \in [1..Cardinality(S) -> S] : IsInjective(f)
    BY <1>1 DEF ExistsBijection, Bijection, Injection, IsInjective
  <1>3. q \in [1..Cardinality(S) -> S] /\ IsInjective(q)
    BY <1>2 DEF SetToSeq
  <1>4. q \in Surjection(1..Cardinality(S), S)
    <2>1. IsFiniteSet(1..Cardinality(S)) /\ Cardinality(1..Cardinality(S)) = Cardinality(S)
      BY <1>1, FS_Interval
    <2>2. q \in Injection(1..Cardinality(S), S)
      BY <1>3 DEF Injection, IsInjective
    <2>3. QED
      BY <2>1, <2>2, FS_Injection
  <1>5. q \in Seq(S)
    BY <1>1, <1>3
  <1>6. ToSet(q) = S
    BY <1>3, <1>4 DEF Surjection, ToSet
  <1>7. QED
    BY <1>3, <1>5, <1>6

LEMMA InjectiveConcat ==
  ASSUME NEW S, NEW p \in Seq(S), NEW q \in Seq(S), IsInjective(p), IsInjective(q),
         ToSet(p) \cap ToSet(q) = {}
  PROVE  IsInjective(p \o q)
  <1>1. /\ p \o q \in Seq(S) /\ Len(p \o q) = Len(p) + Len(q)
        /\ \A i \in 1..Len(p) + Len(q) :
               (p \o q)[i] = IF i <= Len(p) THEN p[i] ELSE q[i - Len(p)]
    BY ConcatProperties
  <1>2. SUFFICES ASSUME NEW i \in 1..Len(p) + Len(q), NEW j \in 1..Len(p) + Len(q),
                        (p \o q)[i] = (p \o q)[j]
                 PROVE  i = j
    BY <1>1 DEF IsInjective
  <1>3. \A k \in 1..Len(p), l \in 1..Len(q) : p[k] # q[l]
    BY DEF ToSet
  <1>4. CASE i <= Len(p) /\ j <= Len(p)
    BY <1>1, <1>2, <1>4 DEF IsInjective
  <1>5. CASE i > Len(p) /\ j > Len(p)
    <2>1. i - Len(p) \in 1..Len(q) /\ j - Len(p) \in 1..Len(q)
      BY <1>5
    <2>2. q[i - Len(p)] = q[j - Len(p)]
      BY <1>1, <1>2, <1>5
    <2>3. i - Len(p) = j - Len(p)
      BY <2>1, <2>2 DEF IsInjective
    <2>4. QED
      BY <2>3
  <1>6. CASE i <= Len(p) /\ j > Len(p)
    BY <1>1, <1>2, <1>3, <1>6
  <1>7. CASE i > Len(p) /\ j <= Len(p)
    BY <1>1, <1>2, <1>3, <1>7
  <1>8. QED
    BY <1>4, <1>5, <1>6, <1>7

------------------------------------------------------------------------------
(* Bounds *)

LEMMA Spending ==
  ASSUME left \in Budget, NEW k \in DOMAIN left, k # "links", Spend(k)
  PROVE  left' \in Budget /\ left'.links = left.links
  <1>1. left[k] \in Nat /\ left[k] - 1 \in Nat
    <2>1. k \in {"connect", "drop", "stop", "advertise", "ask", "diff"}
      BY DEF Budget
    <2>2. left[k] \in Nat
      BY <2>1 DEF Budget
    <2>3. QED
      BY <2>2 DEF Spend
  <1>2. PICK v : v = left[k] - 1
    OBVIOUS
  <1>3. left' = [left EXCEPT ![k] = v] /\ v \in Nat
    BY <1>1, <1>2 DEF Spend
  <1>4. QED
    BY <1>3 DEF Budget

------------------------------------------------------------------------------
(* Messages on the way *)

Wire(W) == W \in [Node -> [Node -> SUBSET Message]]

\* The queues of ch hold only what W allows.
Fits(ch, W) ==
    ch \in [Node -> [Node -> Seq(Message)]] /\ \A x, y \in Node : ch[x][y] \in Seq(W[x][y])

\* new is ch but for the queue from s to r.
But(new, ch, s, r) == \A x, y \in Node : x # s \/ y # r => new[x][y] = ch[x][y]

LEMMA WireTyped ==
  Wire(OnWire) /\ Wire(OnWire')
  BY DEF Wire, OnWire

\* What stands for a request goes on doing so.
LEMMA WireGrows ==
  ASSUME LogGrows, ShownGrows, NEW s \in Node, NEW r \in Node
  PROVE  OnWire[s][r] \subseteq OnWire'[s][r]
  <1>1. SUFFICES ASSUME NEW m \in OnWire[s][r]
                 PROVE  m \in OnWire'[s][r]
    OBVIOUS
  <1>2. /\ m \in Message
        /\ m.type = "node_info" => IsFiniteSet(m.caps)
        /\ m.type = "capability_execute" => IsAsk(m.ask, s, r, m.id)
        /\ m.type = "capability_execute_result" => IsAsk(m.ask, r, s, m.id)
        /\ m.type = "file_preview_request" => IsShown(m.id, s, r, m.path)
        /\ m.type = "file_preview_response" =>
               IsShown(m.id, r, s, m.path) /\ m.content \in {None, <<s, m.path>>}
    BY <1>1 DEF OnWire
  <1>3. \A k, x, y, id : IsAsk(k, x, y, id) => IsAsk(k, x, y, id)'
    BY DEF LogGrows, IsAsk
  <1>4. \A k, x, y, f : IsShown(k, x, y, f) => IsShown(k, x, y, f)'
    BY DEF ShownGrows, IsShown
  <1>5. /\ m.type = "capability_execute" => IsAsk(m.ask, s, r, m.id)'
        /\ m.type = "capability_execute_result" => IsAsk(m.ask, r, s, m.id)'
        /\ m.type = "file_preview_request" => IsShown(m.id, s, r, m.path)'
        /\ m.type = "file_preview_response" => IsShown(m.id, r, s, m.path)'
    BY <1>2, <1>3, <1>4
  <1>6. QED
    BY <1>2, <1>5 DEF OnWire

LEMMA QueuesGrow ==
  ASSUME ChanOK, LogGrows, ShownGrows
  PROVE  Fits(chan, OnWire')
  BY WireGrows, SeqMonotonic DEF ChanOK, Fits

\* The message at the head of a queue is handled.
LEMMA Taken ==
  ASSUME NEW s \in Node, NEW r \in Node, chan[s][r] # <<>>, NEW W, Wire(W), Fits(chan, W)
  PROVE  /\ Fits(Take(s, r), W) /\ But(Take(s, r), chan, s, r)
         /\ Take(s, r)[s][r] = Tail(chan[s][r])
  <1>1. /\ chan \in [Node -> [Node -> Seq(Message)]] /\ chan[s][r] \in Seq(Message)
        /\ chan[s][r] \in Seq(W[s][r])
    BY DEF Fits
  <1>2. Tail(chan[s][r]) \in Seq(Message) /\ Tail(chan[s][r]) \in Seq(W[s][r])
    BY <1>1, HeadTailProperties
  <1>3. PICK q : q = Tail(chan[s][r])
    OBVIOUS
  <1>4. Take(s, r) = [chan EXCEPT ![s][r] = q]
    BY <1>3 DEF Take
  <1>5. /\ Take(s, r) \in [Node -> [Node -> Seq(Message)]] /\ Take(s, r)[s][r] = q
        /\ \A x, y \in Node : x # s \/ y # r => Take(s, r)[x][y] = chan[x][y]
    BY <1>1, <1>2, <1>3, <1>4, Put
  <1>6. QED
    BY <1>2, <1>3, <1>5 DEF Fits, But

LEMMA HeadOnWire ==
  ASSUME ChanOK, NEW s \in Node, NEW r \in Node, chan[s][r] # <<>>
  PROVE  /\ Head(chan[s][r]) \in OnWire[s][r] /\ Head(chan[s][r]) \in Message
         /\ chan[s][r] \in Seq(Message)
  <1>1. chan[s][r] \in Seq(OnWire[s][r]) /\ chan[s][r] \in Seq(Message)
    BY DEF ChanOK
  <1>2. QED
    BY <1>1, HeadTailProperties

LEMMA SentKeeps ==
  ASSUME NEW s \in Node, NEW r \in Node, NEW ms \in Seq(Message), NEW W, Wire(W),
         NEW ch, Fits(ch, W), ms \in Seq(W[s][r]), NEW new, new = Sent(ch, s, r, ms)
  PROVE  /\ Fits(new, W) /\ But(new, ch, s, r) /\ new[s][r] \in {ch[s][r], ch[s][r] \o ms}
  <1>1. CASE {s, r} \notin up
    BY <1>1 DEF Sent, But
  <1>2. CASE {s, r} \in up
    <2>1. /\ ch \in [Node -> [Node -> Seq(Message)]]
          /\ ch[s][r] \in Seq(Message) /\ ch[s][r] \in Seq(W[s][r])
      BY DEF Fits
    <2>2. ch[s][r] \o ms \in Seq(Message) /\ ch[s][r] \o ms \in Seq(W[s][r])
      BY <2>1, ConcatProperties
    <2>3. PICK q : q = ch[s][r] \o ms
      OBVIOUS
    <2>4. new = [ch EXCEPT ![s][r] = q]
      BY <1>2, <2>3 DEF Sent
    <2>5. /\ new \in [Node -> [Node -> Seq(Message)]] /\ new[s][r] = q
          /\ \A x, y \in Node : x # s \/ y # r => new[x][y] = ch[x][y]
      BY <2>1, <2>2, <2>3, <2>4, Put
    <2>6. QED
      BY <2>2, <2>3, <2>5 DEF Fits, But
  <1>3. QED
    BY <1>1, <1>2

------------------------------------------------------------------------------
(* The latest capabilities of a peer *)

Quiet(q) == \A i \in DOMAIN q : q[i].type # "node_info"

LEMMA TellsMore ==
  ASSUME NEW q \in Seq(Message), NEW ms \in Seq(Message), Quiet(ms), NEW info, NEW S,
         Tells(q, info, S)
  PROVE  Tells(q \o ms, info, S)
  <1>1. /\ q \o ms \in Seq(Message) /\ Len(q \o ms) = Len(q) + Len(ms)
        /\ \A i \in 1..Len(q) + Len(ms) :
               (q \o ms)[i] = IF i <= Len(q) THEN q[i] ELSE ms[i - Len(q)]
    BY ConcatProperties
  <1>2. PICK u : u = q \o ms
    OBVIOUS
  <1>3. /\ u \in Seq(Message) /\ Len(u) = Len(q) + Len(ms)
        /\ \A i \in 1..Len(q) : u[i] = q[i]
        /\ \A i \in 1..Len(u) : i > Len(q) => u[i].type # "node_info"
    <2>1. ASSUME NEW i \in 1..Len(q) + Len(ms), i > Len(q)
          PROVE  u[i].type # "node_info"
      <3>1. i - Len(q) \in 1..Len(ms) /\ u[i] = ms[i - Len(q)]
        BY <1>1, <1>2, <2>1
      <3>2. QED
        BY <3>1 DEF Quiet
    <2>2. QED
      BY <1>1, <1>2, <2>1
  <1>4. CASE \E i \in DOMAIN q : q[i].type = "node_info"
    <2>1. PICK i \in 1..Len(q) : /\ q[i].type = "node_info" /\ q[i].caps = S
                                 /\ \A j \in 1..Len(q) : j > i => q[j].type # "node_info"
      BY <1>4 DEF Tells
    <2>2. i \in 1..Len(u) /\ u[i] = q[i]
      BY <1>3
    <2>3. \A j \in 1..Len(u) : j > i => u[j].type # "node_info"
      BY <1>3, <2>1
    <2>4. DOMAIN u = 1..Len(u)
      BY <1>3
    <2>5. QED
      BY <1>2, <2>1, <2>2, <2>3, <2>4 DEF Tells
  <1>5. CASE ~\E i \in DOMAIN q : q[i].type = "node_info"
    <2>1. info = S
      BY <1>5 DEF Tells
    <2>2. \A i \in 1..Len(u) : u[i].type # "node_info"
      BY <1>3, <1>5
    <2>3. DOMAIN u = 1..Len(u)
      BY <1>3
    <2>4. QED
      BY <1>2, <2>1, <2>2, <2>3 DEF Tells
  <1>6. QED
    BY <1>4, <1>5

LEMMA TellsNew ==
  ASSUME NEW q \in Seq(Message), NEW info, NEW S, NodeInfo(S) \in Message
  PROVE  Tells(Append(q, NodeInfo(S)), info, S)
  <1>1. PICK u : u = Append(q, NodeInfo(S))
    OBVIOUS
  <1>2. u \in Seq(Message) /\ Len(u) = Len(q) + 1 /\ u[Len(q) + 1] = NodeInfo(S)
    BY <1>1, AppendProperties
  <1>3. Len(q) + 1 \in DOMAIN u /\ \A j \in DOMAIN u : ~(j > Len(q) + 1)
    BY <1>2
  <1>4. u[Len(q) + 1].type = "node_info" /\ u[Len(q) + 1].caps = S
    BY <1>2 DEF NodeInfo
  <1>5. QED
    BY <1>1, <1>3, <1>4 DEF Tells

LEMMA TellsTail ==
  ASSUME NEW q \in Seq(Message), q # <<>>, NEW info, NEW S, Tells(q, info, S)
  PROVE  Tells(Tail(q), IF Head(q).type = "node_info" THEN Head(q).caps ELSE info, S)
  <1>1. PICK u : u = Tail(q)
    OBVIOUS
  <1>2. /\ u \in Seq(Message) /\ Len(u) = Len(q) - 1 /\ Head(q) = q[1]
        /\ \A i \in 1..Len(u) : u[i] = q[i + 1]
    BY <1>1, HeadTailProperties
  <1>3. DOMAIN u = 1..Len(u) /\ DOMAIN q = 1..Len(q) /\ Len(q) \in Nat \ {0}
    BY <1>2, EmptySeq
  <1>4. CASE \E i \in DOMAIN q : q[i].type = "node_info"
    <2>1. PICK i \in 1..Len(q) : /\ q[i].type = "node_info" /\ q[i].caps = S
                                 /\ \A j \in 1..Len(q) : j > i => q[j].type # "node_info"
      BY <1>3, <1>4 DEF Tells
    <2>2. CASE i = 1
      <3>1. \A j \in 1..Len(u) : u[j].type # "node_info"
        BY <1>2, <2>1, <2>2
      <3>2. Head(q).type = "node_info" /\ Head(q).caps = S
        BY <1>2, <2>1, <2>2
      <3>3. QED
        BY <1>1, <1>3, <3>1, <3>2 DEF Tells
    <2>3. CASE i # 1
      <3>1. i - 1 \in 1..Len(u) /\ u[i - 1] = q[i]
        BY <1>2, <1>3, <2>3
      <3>2. \A j \in 1..Len(u) : j > i - 1 => u[j].type # "node_info"
        BY <1>2, <1>3, <2>1
      <3>3. QED
        BY <1>1, <1>3, <2>1, <3>1, <3>2 DEF Tells
    <2>4. QED
      BY <2>2, <2>3
  <1>5. CASE ~\E i \in DOMAIN q : q[i].type = "node_info"
    <2>1. info = S
      BY <1>5 DEF Tells
    <2>2. \A i \in 1..Len(u) : u[i].type # "node_info"
      BY <1>2, <1>3, <1>5
    <2>3. Head(q).type # "node_info"
      BY <1>2, <1>3, <1>5
    <2>4. QED
      BY <1>1, <1>3, <2>1, <2>2, <2>3 DEF Tells
  <1>6. QED
    BY <1>4, <1>5

\* For every pair of nodes that reach each other by U, ch tells r of s.
News(U, ch, info, C) == \A r, s \in Node : {r, s} \in U => Tells(ch[s][r], info[r][s], C[s])

LEMMA SentNews ==
  ASSUME NEW W, NEW ch, Fits(ch, W), NEW s \in Node, NEW r \in Node,
         NEW ms \in Seq(Message), Quiet(ms), NEW U, NEW info, NEW C, News(U, ch, info, C),
         NEW new, But(new, ch, s, r), new[s][r] \in {ch[s][r], ch[s][r] \o ms}
  PROVE  News(U, new, info, C)
  <1>1. SUFFICES ASSUME NEW y \in Node, NEW x \in Node, {y, x} \in U
                 PROVE  Tells(new[x][y], info[y][x], C[x])
    BY DEF News
  <1>2. Tells(ch[x][y], info[y][x], C[x]) /\ ch[x][y] \in Seq(Message)
    BY <1>1 DEF News, Fits
  <1>3. Tells(ch[x][y] \o ms, info[y][x], C[x])
    BY <1>2, TellsMore
  <1>4. QED
    BY <1>2, <1>3 DEF But

LEMMA TakenNews ==
  ASSUME ChanOK, NEW s \in Node, NEW r \in Node, chan[s][r] # <<>>,
         Head(chan[s][r]).type # "node_info", NewsOK
  PROVE  News(up, Take(s, r), remoteNodeInfo, caps)
  <1>1. SUFFICES ASSUME NEW y \in Node, NEW x \in Node, {y, x} \in up
                 PROVE  Tells(Take(s, r)[x][y], remoteNodeInfo[y][x], caps[x])
    BY DEF News
  <1>2. Tells(chan[x][y], remoteNodeInfo[y][x], caps[x])
    BY <1>1 DEF NewsOK
  <1>3. /\ Take(s, r)[s][r] = Tail(chan[s][r])
        /\ \A v, w \in Node : v # s \/ w # r => Take(s, r)[v][w] = chan[v][w]
    BY Taken, WireTyped DEF ChanOK, Fits, But
  <1>4. CASE x = s /\ y = r
    <2>1. Tells(Tail(chan[s][r]), remoteNodeInfo[y][x], caps[x])
      BY <1>2, <1>4, TellsTail, HeadOnWire
    <2>2. QED
      BY <1>3, <1>4, <2>1
  <1>5. CASE x # s \/ y # r
    BY <1>3, <1>2, <1>5
  <1>6. QED
    BY <1>4, <1>5

------------------------------------------------------------------------------
(* The entries of the executions *)

\* What an entry was, and how it ended, stays what it is.
LEMMA LoggedStays ==
  ASSUME ExecOK, LogGrows, NEW k \in DOMAIN log, log'[k].ended = log[k].ended
  PROVE  LoggedOK(k)'
  <1>1. LoggedOK(k)
    BY DEF ExecOK
  <1>2. /\ k \in DOMAIN log' /\ log'[k].node = log[k].node /\ log'[k].peer = log[k].peer
        /\ log'[k].dir = log[k].dir /\ log'[k].id = log[k].id /\ log'[k].ask = log[k].ask
    BY DEF LogGrows
  <1>3. \A j, s, r, id : IsAsk(j, s, r, id) => IsAsk(j, s, r, id)'
    BY DEF LogGrows, IsAsk
  <1>4. Unique(k)' => Unique(k)
    BY <1>2 DEF LogGrows, Unique, Clash
  <1>5. /\ log'[k].node # log'[k].peer
        /\ log'[k].dir = "outgoing" => log'[k].ask = k
        /\ Len(log'[k].ended) <= 1
    BY <1>1, <1>2 DEF LoggedOK
  <1>6. log'[k].dir = "incoming" => IsAsk(log[k].ask, log[k].peer, log[k].node, log[k].id)'
    BY <1>1, <1>2, <1>3 DEF LoggedOK
  <1>7. \A i \in DOMAIN log'[k].ended : log'[k].ended[i].how = "result" /\ Unique(k)' =>
            log'[k].dir = "outgoing" /\ log'[k].ended[i].ask = k
    BY <1>1, <1>2, <1>4 DEF LoggedOK
  <1>8. QED
    BY <1>5, <1>6, <1>7 DEF LoggedOK

LEMMA EntryStays ==
  ASSUME LogGrows, NEW n, NEW e, EntryOK(n, e), log'[e.no].ended = <<>>
  PROVE  EntryOK(n, e)'
  BY DEF LogGrows, EntryOK

\* A number stands for one entry of the tables.
LEMMA NumbersDiffer ==
  ASSUME ExecOK, TimersOK, NEW n \in Node, NEW p \in Node,
         NEW d \in pendingExecutions[n], NEW e \in pendingExecutions[p], d.no = e.no
  PROVE  n = p /\ d = e
  BY DEF ExecOK, EntryOK, TimersOK, TimerPerRequest

\* The timers of a set of entries, and those of all that a node waits for.
Of(E) == {ExecutionTimer(e) : e \in E}
Armed(P, Q) == Of(P) \union {PreviewTimer(k) : k \in Q}

\* One entry for an id.
OneEach(P) == \A d, e \in P : d.id = e.id => d = e

\* The timers of the entries that go are the timers that go.
LEMMA TimersOfRest ==
  ASSUME NEW P, NEW Q, NEW old, old \subseteq P, OneEach(P),
         NEW R, R = P \ old, NEW T, T = Armed(P, Q) \ Of(old)
  PROVE  T = Armed(R, Q)
  <1>1. \A d, e : ExecutionTimer(d) = ExecutionTimer(e) => d.id = e.id
    BY DEF ExecutionTimer
  <1>2. \A d, k : ExecutionTimer(d) # PreviewTimer(k)
    BY DEF ExecutionTimer, PreviewTimer
  <1>3. \A d \in P, e \in old : ExecutionTimer(d) = ExecutionTimer(e) => d \in old
    BY <1>1 DEF OneEach
  <1>4. QED
    BY <1>2, <1>3 DEF Armed, Of

LEMMA CompleteKeeps ==
  ASSUME ExecOK, TimersOK, NEW n \in Node, NEW id, NEW how, NEW ask,
         [how |-> how, ask |-> ask] \in Ending,
         how = "result" => \A e \in WithId(n, id) :
             Unique(e.no) => log[e.no].dir = "outgoing" /\ ask = e.no,
         Complete(n, id, how, ask), previewRequests' = previewRequests
  PROVE  ExecOK' /\ TimersOK' /\ LogGrows
  <1>1. PICK ended : ended = WithId(n, id)
    OBVIOUS
  <1>2. PICK z : z = [how |-> how, ask |-> ask]
    OBVIOUS
  <1>3. /\ pendingExecutions' = [pendingExecutions EXCEPT ![n] = @ \ ended]
        /\ timers' = [timers EXCEPT ![n] = @ \ Of(ended)]
        /\ log' = [k \in DOMAIN log |-> IF \E e \in ended : e.no = k
                   THEN [log[k] EXCEPT !.ended = Append(@, z)] ELSE log[k]]
        /\ ended \subseteq pendingExecutions[n] /\ z \in Ending
    BY <1>1, <1>2 DEF Complete, WithId, Of
  <1>4. /\ pendingExecutions \in [Node -> SUBSET Entry] /\ log \in Seq(LogEntry)
        /\ \A m \in Node : \A e \in pendingExecutions[m] : EntryOK(m, e)
        /\ \A k \in DOMAIN log : LoggedOK(k)
    BY DEF ExecOK
  <1>5. \A k \in DOMAIN log : log[k] \in LogEntry /\ log[k].ended \in Seq(Ending)
    <2>1. \A k \in DOMAIN log : log[k] \in LogEntry
      BY <1>4
    <2>2. QED
      BY <2>1 DEF LogEntry
  <1>6. ASSUME NEW k \in DOMAIN log, NEW e \in ended, e.no = k
        PROVE  /\ log'[k] \in LogEntry /\ log'[k].ended = <<z>>
               /\ log'[k].node = log[k].node /\ log'[k].peer = log[k].peer
               /\ log'[k].dir = log[k].dir /\ log'[k].id = log[k].id
               /\ log'[k].ask = log[k].ask
    <2>1. log[k].ended = <<>>
      BY <1>3, <1>4, <1>6 DEF EntryOK
    <2>2. <<z>> \in Seq(Ending) /\ Append(<<>>, z) = <<z>>
      BY <1>3
    <2>3. PICK x : x = log[k]
      OBVIOUS
    <2>4. x \in LogEntry /\ log'[k] = [x EXCEPT !.ended = <<z>>]
      BY <1>3, <1>5, <1>6, <2>1, <2>2, <2>3
    <2>5. /\ log'[k] \in LogEntry /\ log'[k].ended = <<z>>
          /\ log'[k].node = x.node /\ log'[k].peer = x.peer /\ log'[k].dir = x.dir
          /\ log'[k].id = x.id /\ log'[k].ask = x.ask
      BY <2>2, <2>4 DEF LogEntry
    <2>6. QED
      BY <2>3, <2>5
  <1>7. \A k \in DOMAIN log : (~\E e \in ended : e.no = k) => log'[k] = log[k]
    BY <1>3
  <1>8. DOMAIN log' = DOMAIN log /\ LogGrows
    <2>1. DOMAIN log' = DOMAIN log
      BY <1>3
    <2>2. QED
      BY <1>6, <1>7, <2>1 DEF LogGrows
  <1>9. log' \in Seq(LogEntry)
    <2>1. \A k \in DOMAIN log' : log'[k] \in LogEntry
      BY <1>5, <1>6, <1>7, <1>8
    <2>2. DOMAIN log' = 1..Len(log) /\ Len(log) \in Nat
      BY <1>4, <1>8
    <2>3. log' = [k \in 1..Len(log) |-> log'[k]]
      BY <1>3, <2>2
    <2>4. log' \in [1..Len(log) -> LogEntry]
      BY <2>1, <2>2, <2>3
    <2>5. QED
      BY <2>2, <2>4
  <1>10. ASSUME NEW k \in DOMAIN log' PROVE LoggedOK(k)'
    <2>1. CASE \E e \in ended : e.no = k
      <3>1. PICK e \in ended : e.no = k
        BY <2>1
      <3>2. LoggedOK(k) /\ log'[k].ended = <<z>>
        BY <1>4, <1>6, <1>8, <3>1
      <3>3. how = "result" /\ Unique(k) => log[k].dir = "outgoing" /\ ask = k
        BY <1>1, <3>1
      <3>4. Unique(k)' => Unique(k)
        BY <1>8 DEF LogGrows, Unique, Clash
      <3>5. \A j, s, r, i : IsAsk(j, s, r, i) => IsAsk(j, s, r, i)'
        BY <1>8 DEF LogGrows, IsAsk
      <3>6. /\ log'[k].node = log[k].node /\ log'[k].peer = log[k].peer
            /\ log'[k].dir = log[k].dir /\ log'[k].id = log[k].id /\ log'[k].ask = log[k].ask
        BY <1>8 DEF LogGrows
      <3>7. /\ log'[k].node # log'[k].peer
            /\ log'[k].dir = "outgoing" => log'[k].ask = k
            /\ log'[k].dir = "incoming" =>
                   IsAsk(log[k].ask, log[k].peer, log[k].node, log[k].id)'
        BY <3>2, <3>5, <3>6 DEF LoggedOK
      <3>8. Len(log'[k].ended) <= 1
        BY <3>2
      <3>9. \A i \in DOMAIN log'[k].ended : i = 1 /\ log'[k].ended[i] = z
        BY <3>2
      <3>10. z.how = how /\ z.ask = ask
        BY <1>2
      <3>11. \A i \in DOMAIN log'[k].ended : log'[k].ended[i].how = "result" /\ Unique(k)' =>
                 log'[k].dir = "outgoing" /\ log'[k].ended[i].ask = k
        BY <3>3, <3>4, <3>6, <3>9, <3>10
      <3>12. QED
        BY <3>7, <3>8, <3>11 DEF LoggedOK
    <2>2. CASE ~\E e \in ended : e.no = k
      <3>1. k \in DOMAIN log /\ log'[k].ended = log[k].ended
        BY <1>7, <1>8, <2>2
      <3>2. QED
        BY <1>8, <3>1, LoggedStays
    <2>3. QED
      BY <2>1, <2>2
  <1>11. ASSUME NEW m \in Node, NEW d \in pendingExecutions'[m]
         PROVE  EntryOK(m, d)'
    <2>1. d \in pendingExecutions[m] /\ (m = n => d \notin ended)
      BY <1>3, <1>4
    <2>2. EntryOK(m, d)
      BY <1>4, <2>1
    <2>3. ~\E e \in ended : e.no = d.no
      BY <1>3, <2>1, NumbersDiffer
    <2>4. log'[d.no].ended = <<>>
      BY <1>7, <2>2, <2>3 DEF EntryOK
    <2>5. QED
      BY <1>8, <2>2, <2>4, EntryStays
  <1>12. pendingExecutions' \in [Node -> SUBSET Entry]
    BY <1>3, <1>4
  <1>13. ExecOK'
    BY <1>9, <1>10, <1>11, <1>12 DEF ExecOK
  <1>14. TimersOK'
    <2>1. ASSUME NEW m \in Node
          PROVE  timers'[m] = Armed(pendingExecutions'[m], previewRequests'[m])
      <3>1. /\ timers[m] = Armed(pendingExecutions[m], previewRequests[m])
            /\ OneEach(pendingExecutions[m])
        BY DEF TimersOK, TimerPerRequest, Armed, Of, OneEach
      <3>2. CASE m = n
        <4>1. /\ timers'[m] = timers[m] \ Of(ended)
              /\ pendingExecutions'[m] = pendingExecutions[m] \ ended
          BY <1>3, <1>4, <3>2 DEF TimersOK
        <4>2. PICK P, Q : P = pendingExecutions[m] /\ Q = previewRequests[m]
          OBVIOUS
        <4>3. PICK R, T : R = P \ ended /\ T = Armed(P, Q) \ Of(ended)
          OBVIOUS
        <4>4. ended \subseteq P /\ OneEach(P)
          BY <1>3, <3>1, <3>2, <4>2
        <4>5. T = Armed(R, Q)
          BY <4>3, <4>4, TimersOfRest
        <4>6. QED
          BY <3>1, <4>1, <4>2, <4>3, <4>5
      <3>3. CASE m # n
        <4>1. timers'[m] = timers[m] /\ pendingExecutions'[m] = pendingExecutions[m]
          BY <1>3, <1>4, <3>3 DEF TimersOK
        <4>2. QED
          BY <3>1, <4>1
      <3>4. QED
        BY <3>2, <3>3
    <2>2. \A m \in Node : \A d, e \in pendingExecutions'[m] : d.id = e.id => d = e
      BY <1>3, <1>4 DEF TimersOK, TimerPerRequest
    <2>3. timers' \in [Node -> SUBSET Timer]
      BY <1>3 DEF TimersOK
    <2>4. QED
      BY <2>1, <2>2, <2>3 DEF TimersOK, TimerPerRequest, Armed, Of
  <1>15. QED
    BY <1>8, <1>13, <1>14

LEMMA TimersOfMore ==
  ASSUME NEW P, NEW Q, NEW E, NEW R, R = P \union E, NEW T, T = Armed(P, Q) \union Of(E)
  PROVE  T = Armed(R, Q)
  BY DEF Armed, Of

LEMMA TimerTyped ==
  ASSUME NEW E \in SUBSET Entry
  PROVE  Of(E) \subseteq Timer
  BY DEF Of, ExecutionTimer, Entry, Timer

\* The entries that a node may store: the next numbers, each with its own id.
Fresh(n, es) ==
    /\ es \in Seq(Entry)
    /\ \A i \in 1..Len(es) :
        /\ es[i].no = Len(log) + i /\ es[i].peer # n
        /\ es[i].dir = "outgoing" => es[i].ask = es[i].no
        /\ es[i].dir = "incoming" => IsAsk(es[i].ask, es[i].peer, n, es[i].id)
    /\ \A i, j \in 1..Len(es) : es[i].id = es[j].id => i = j

LEMMA StoreKeeps ==
  ASSUME ExecOK, TimersOK, NEW n \in Node, NEW es, Fresh(n, es), NEW E, E = ToSet(es),
         NEW ls, ls \in Seq(LogEntry), Len(ls) = Len(es),
         \A i \in 1..Len(es) : ls[i] = Logged(n, es[i]),
         Store(n, E), log' = log \o ls, previewRequests' = previewRequests
  PROVE  /\ ExecOK' /\ TimersOK' /\ LogGrows
         /\ \A i \in 1..Len(es) : es[i].dir = "outgoing" =>
                IsAsk(es[i].no, n, es[i].peer, es[i].id)'
  <1>1. PICK old : old = {e \in pendingExecutions[n] : \E new \in E : new.id = e.id}
    OBVIOUS
  <1>2. /\ pendingExecutions' = [pendingExecutions EXCEPT ![n] = (@ \ old) \union E]
        /\ timers' = [timers EXCEPT ![n] = (@ \ Of(old)) \union Of(E)]
        /\ old \subseteq pendingExecutions[n]
        /\ \A e \in pendingExecutions[n], new \in E : new.id = e.id => e \in old
    BY <1>1 DEF Store, Of
  <1>3. /\ pendingExecutions \in [Node -> SUBSET Entry] /\ log \in Seq(LogEntry)
        /\ \A m \in Node : \A e \in pendingExecutions[m] : EntryOK(m, e)
        /\ \A k \in DOMAIN log : LoggedOK(k)
    BY DEF ExecOK
  <1>4. /\ es \in Seq(Entry) /\ E \subseteq Entry
        /\ \A e \in E : \E i \in 1..Len(es) : e = es[i]
        /\ \A i \in 1..Len(es) : es[i] \in E /\ es[i] \in Entry
    BY DEF Fresh, ToSet
  <1>5. \A d, e \in E : d.id = e.id => d = e
    BY <1>4 DEF Fresh
  <1>6. /\ log' \in Seq(LogEntry) /\ Len(log') = Len(log) + Len(es)
        /\ \A i \in 1..Len(log) : log'[i] = log[i]
        /\ \A i \in 1..Len(es) : log'[Len(log) + i] = ls[i]
        /\ DOMAIN log = 1..Len(log) /\ DOMAIN log' = 1..Len(log) + Len(es)
        /\ Len(log) \in Nat /\ Len(es) \in Nat
    <2>1. /\ log' \in Seq(LogEntry) /\ Len(log') = Len(log) + Len(ls)
          /\ \A i \in 1..Len(log) + Len(ls) :
                 log'[i] = IF i <= Len(log) THEN log[i] ELSE ls[i - Len(log)]
      BY <1>3, ConcatProperties
    <2>2. Len(log) \in Nat /\ Len(es) \in Nat
      BY <1>3, <1>4
    <2>3. \A i \in 1..Len(es) : /\ Len(log) + i \in 1..Len(log) + Len(ls)
                                /\ ~(Len(log) + i <= Len(log)) /\ Len(log) + i - Len(log) = i
      BY <2>2
    <2>4. \A i \in 1..Len(es) : log'[Len(log) + i] = ls[i]
      BY <2>1, <2>3
    <2>5. \A i \in 1..Len(log) : log'[i] = log[i]
      BY <2>1, <2>2
    <2>6. QED
      BY <1>3, <2>1, <2>2, <2>4, <2>5
  <1>7. LogGrows
    BY <1>6 DEF LogGrows
  <1>8. \A k, s, r, id : IsAsk(k, s, r, id) => IsAsk(k, s, r, id)'
    BY <1>7 DEF LogGrows, IsAsk
  <1>9. ASSUME NEW i \in 1..Len(es)
        PROVE  /\ es[i].no \in DOMAIN log' /\ es[i].no = Len(log) + i
               /\ log'[es[i].no].node = n /\ log'[es[i].no].peer = es[i].peer
               /\ log'[es[i].no].dir = es[i].dir /\ log'[es[i].no].id = es[i].id
               /\ log'[es[i].no].ask = es[i].ask /\ log'[es[i].no].ended = <<>>
    <2>1. es[i].no = Len(log) + i /\ Len(log) + i \in 1..Len(log) + Len(es)
      BY <1>6 DEF Fresh
    <2>2. log'[es[i].no] = Logged(n, es[i])
      BY <1>6, <2>1
    <2>3. QED
      BY <1>6, <2>1, <2>2 DEF Logged
  <1>10. ASSUME NEW i \in 1..Len(es)
         PROVE  LoggedOK(es[i].no)'
    <2>1. PICK k : k = es[i].no
      OBVIOUS
    <2>2. /\ log'[k].node = n /\ log'[k].peer = es[i].peer /\ log'[k].dir = es[i].dir
          /\ log'[k].id = es[i].id /\ log'[k].ask = es[i].ask /\ log'[k].ended = <<>>
      BY <1>9, <2>1
    <2>3. /\ es[i].peer # n /\ (es[i].dir = "outgoing" => es[i].ask = k)
          /\ es[i].dir = "incoming" => IsAsk(es[i].ask, es[i].peer, n, es[i].id)'
      BY <1>8, <2>1 DEF Fresh
    <2>4. /\ log'[k].node # log'[k].peer
          /\ log'[k].dir = "outgoing" => log'[k].ask = k
          /\ Len(log'[k].ended) <= 1 /\ DOMAIN log'[k].ended = {}
      BY <2>2, <2>3
    <2>5. PICK a, p, d : a = log'[k].ask /\ p = log'[k].peer /\ d = log'[k].id
      OBVIOUS
    <2>6. log'[k].dir = "incoming" => IsAsk(a, p, n, d)'
      BY <2>2, <2>3, <2>5
    <2>7. LoggedOK(k)'
      BY <2>2, <2>4, <2>5, <2>6 DEF LoggedOK, IsAsk
    <2>8. QED
      BY <2>1, <2>7
  <1>11. ASSUME NEW k \in DOMAIN log' PROVE LoggedOK(k)'
    <2>1. CASE k \in DOMAIN log
      BY <1>6, <1>7, <2>1, LoggedStays
    <2>2. CASE k \notin DOMAIN log
      <3>1. k - Len(log) \in 1..Len(es) /\ Len(log) + (k - Len(log)) = k
        BY <1>6, <2>2
      <3>2. PICK i \in 1..Len(es) : Len(log) + i = k
        BY <3>1
      <3>3. es[i].no = k
        BY <1>9, <3>2
      <3>4. QED
        BY <1>10, <3>3
    <2>3. QED
      BY <2>1, <2>2
  <1>12. ASSUME NEW m \in Node, NEW d \in pendingExecutions'[m]
         PROVE  EntryOK(m, d)'
    <2>1. CASE d \in pendingExecutions[m]
      <3>1. EntryOK(m, d) /\ d.no \in DOMAIN log /\ log[d.no].ended = <<>>
        BY <1>3, <2>1 DEF EntryOK
      <3>2. log'[d.no].ended = <<>>
        BY <1>6, <3>1
      <3>3. QED
        BY <1>7, <3>1, <3>2, EntryStays
    <2>2. CASE d \notin pendingExecutions[m]
      <3>1. m = n /\ d \in E
        BY <1>2, <1>3, <2>2
      <3>2. PICK i \in 1..Len(es) : d = es[i]
        BY <1>4, <3>1
      <3>3. QED
        BY <1>9, <3>1, <3>2 DEF EntryOK
    <2>3. QED
      BY <2>1, <2>2
  <1>13. pendingExecutions' \in [Node -> SUBSET Entry]
    BY <1>2, <1>3, <1>4
  <1>14. ExecOK'
    BY <1>6, <1>11, <1>12, <1>13 DEF ExecOK
  <1>15. ASSUME NEW m \in Node
         PROVE  timers'[m] = Armed(pendingExecutions'[m], previewRequests'[m])
    <2>1. /\ timers[m] = Armed(pendingExecutions[m], previewRequests[m])
          /\ OneEach(pendingExecutions[m])
      BY DEF TimersOK, TimerPerRequest, Armed, Of, OneEach
    <2>2. CASE m = n
      <3>1. PICK P, Q : P = pendingExecutions[m] /\ Q = previewRequests[m]
        OBVIOUS
      <3>2. PICK R, T : R = P \ old /\ T = Armed(P, Q) \ Of(old)
        OBVIOUS
      <3>3. old \subseteq P /\ OneEach(P)
        BY <1>2, <2>1, <2>2, <3>1
      <3>4. T = Armed(R, Q)
        BY <3>2, <3>3, TimersOfRest
      <3>5. PICK R2, T2 : R2 = R \union E /\ T2 = T \union Of(E)
        OBVIOUS
      <3>6. T2 = Armed(R2, Q)
        BY <3>4, <3>5, TimersOfMore
      <3>7. timers'[m] = T2 /\ pendingExecutions'[m] = R2 /\ previewRequests'[m] = Q
        <4>1. timers'[m] = (timers[m] \ Of(old)) \union Of(E)
          BY <1>2, <2>2 DEF TimersOK
        <4>2. pendingExecutions'[m] = (pendingExecutions[m] \ old) \union E
          BY <1>2, <1>3, <2>2
        <4>3. QED
          BY <2>1, <3>1, <3>2, <3>5, <4>1, <4>2
      <3>8. QED
        BY <3>6, <3>7
    <2>3. CASE m # n
      <3>1. timers'[m] = timers[m] /\ pendingExecutions'[m] = pendingExecutions[m]
        BY <1>2, <1>3, <2>3 DEF TimersOK
      <3>2. QED
        BY <2>1, <3>1
    <2>4. QED
      BY <2>2, <2>3
  <1>16. \A m \in Node : \A d, e \in pendingExecutions'[m] : d.id = e.id => d = e
    <2>1. SUFFICES ASSUME NEW m \in Node, NEW d \in pendingExecutions'[m],
                          NEW e \in pendingExecutions'[m], d.id = e.id
                   PROVE  d = e
      OBVIOUS
    <2>2. \A x, y \in pendingExecutions[m] : x.id = y.id => x = y
      BY DEF TimersOK, TimerPerRequest
    <2>3. CASE m = n
      <3>1. pendingExecutions'[m] = (pendingExecutions[m] \ old) \union E
        BY <1>2, <1>3, <2>3
      <3>2. QED
        BY <1>2, <1>5, <2>1, <2>2, <2>3, <3>1
    <2>4. CASE m # n
      BY <1>2, <1>3, <2>1, <2>2, <2>4
    <2>5. QED
      BY <2>3, <2>4
  <1>17. timers' \in [Node -> SUBSET Timer]
    BY <1>2, <1>4, TimerTyped DEF TimersOK
  <1>18. TimersOK'
    BY <1>15, <1>16, <1>17 DEF TimersOK, TimerPerRequest, Armed, Of
  <1>19. ASSUME NEW i \in 1..Len(es), es[i].dir = "outgoing"
         PROVE  IsAsk(es[i].no, n, es[i].peer, es[i].id)'
    BY <1>9, <1>19 DEF IsAsk, Fresh
  <1>20. QED
    BY <1>7, <1>14, <1>18, <1>19

------------------------------------------------------------------------------
(* The previews *)

LEMMA Resolved ==
  ASSUME PreviewOK, NEW K, K \subseteq DOMAIN shown, \A k \in K : shown[k].got = <<>>,
         NEW d, d \in {None} \union (Node \X Path),
         \A k \in K : d \in {None, <<shown[k].peer, shown[k].path>>},
         shown' = [k \in DOMAIN shown |->
             IF k \in K THEN [shown[k] EXCEPT !.got = Append(@, d)] ELSE shown[k]]
  PROVE  /\ shown' \in Seq(Preview) /\ DOMAIN shown' = DOMAIN shown /\ ShownGrows
         /\ \A k \in DOMAIN shown' : ShownOK(k)'
         /\ \A k \in DOMAIN shown : k \notin K => shown'[k] = shown[k]
  <1>1. /\ shown \in Seq(Preview) /\ \A k \in DOMAIN shown : shown[k] \in Preview
        /\ \A k \in DOMAIN shown : ShownOK(k)
    BY DEF PreviewOK
  <1>2. ASSUME NEW k \in K
        PROVE  /\ shown'[k] \in Preview /\ shown'[k].got = <<d>>
               /\ shown'[k].node = shown[k].node /\ shown'[k].peer = shown[k].peer
               /\ shown'[k].path = shown[k].path
    <2>1. PICK x : x = shown[k]
      OBVIOUS
    <2>2. Append(<<>>, d) = <<d>> /\ <<d>> \in Seq({None} \union (Node \X Path))
      OBVIOUS
    <2>3. x \in Preview /\ shown'[k] = [x EXCEPT !.got = <<d>>]
      BY <1>1, <2>1, <2>2
    <2>4. PICK v : v = <<d>>
      OBVIOUS
    <2>5. v \in Seq({None} \union (Node \X Path)) /\ shown'[k] = [x EXCEPT !.got = v]
      BY <2>2, <2>3, <2>4
    <2>6. PICK y : y = [x EXCEPT !.got = v]
      OBVIOUS
    <2>7. PICK G : G = Seq({None} \union (Node \X Path))
      OBVIOUS
    <2>8. Preview = [node : Node, peer : Node \union {None}, path : Path, got : G]
      BY <2>7 DEF Preview
    <2>9. v \in G /\ x \in [node : Node, peer : Node \union {None}, path : Path, got : G]
      BY <2>3, <2>5, <2>7, <2>8
    <2>10. /\ y \in [node : Node, peer : Node \union {None}, path : Path, got : G] /\ y.got = v
           /\ y.node = x.node /\ y.peer = x.peer /\ y.path = x.path
      BY <2>6, <2>9
    <2>11. QED
      BY <2>1, <2>4, <2>5, <2>6, <2>8, <2>10
  <1>3. DOMAIN shown' = DOMAIN shown /\ \A k \in DOMAIN shown : k \notin K => shown'[k] = shown[k]
    OBVIOUS
  <1>4. ShownGrows
    BY <1>2, <1>3 DEF ShownGrows
  <1>5. shown' \in Seq(Preview)
    <2>1. \A k \in DOMAIN shown' : shown'[k] \in Preview
      BY <1>1, <1>2, <1>3
    <2>2. DOMAIN shown' = 1..Len(shown) /\ Len(shown) \in Nat
      BY <1>1, <1>3
    <2>3. shown' = [k \in 1..Len(shown) |-> shown'[k]]
      BY <2>2
    <2>4. shown' \in [1..Len(shown) -> Preview]
      BY <2>1, <2>2, <2>3
    <2>5. PICK u, N : u = shown' /\ N = Len(shown)
      OBVIOUS
    <2>6. u \in [1..N -> Preview] /\ N \in Nat
      BY <2>2, <2>4, <2>5
    <2>7. u \in Seq(Preview)
      BY <2>6
    <2>8. QED
      BY <2>5, <2>7
  <1>6. ASSUME NEW k \in DOMAIN shown' PROVE ShownOK(k)'
    <2>1. CASE k \in K
      <3>1. /\ shown'[k].got = <<d>> /\ shown'[k].peer = shown[k].peer
            /\ shown'[k].path = shown[k].path /\ d \in {None, <<shown[k].peer, shown[k].path>>}
        BY <1>2, <2>1
      <3>2. Len(<<d>>) = 1 /\ \A i \in DOMAIN <<d>> : <<d>>[i] = d
        OBVIOUS
      <3>3. PICK u : u = shown'[k].got
        OBVIOUS
      <3>4. Len(u) <= 1 /\ \A i \in DOMAIN u : u[i] = d
        BY <3>1, <3>2, <3>3
      <3>5. QED
        BY <3>1, <3>3, <3>4 DEF ShownOK
    <2>2. CASE k \notin K
      BY <1>1, <1>3, <2>2 DEF ShownOK
    <2>3. QED
      BY <2>1, <2>2
  <1>7. QED
    BY <1>3, <1>4, <1>5, <1>6

LEMMA TimersOfOpen ==
  ASSUME NEW P, NEW Q, NEW K, NEW R, R = Q \ K,
         NEW T, T = Armed(P, Q) \ {PreviewTimer(k) : k \in K}
  PROVE  T = Armed(P, R)
  <1>1. \A j, k : PreviewTimer(j) = PreviewTimer(k) => j = k
    BY DEF PreviewTimer
  <1>2. \A d, k : ExecutionTimer(d) # PreviewTimer(k)
    BY DEF ExecutionTimer, PreviewTimer
  <1>3. QED
    BY <1>1, <1>2 DEF Armed, Of

LEMMA ResolveKeeps ==
  ASSUME PreviewOK, TimersOK, NEW n \in Node, NEW K, K \subseteq previewRequests[n],
         NEW d, d \in {None} \union (Node \X Path),
         \A k \in K : d \in {None, <<shown[k].peer, shown[k].path>>},
         Resolve(n, K, d), pendingExecutions' = pendingExecutions
  PROVE  PreviewOK' /\ TimersOK' /\ ShownGrows
  <1>1. /\ previewRequests' = [previewRequests EXCEPT ![n] = @ \ K]
        /\ timers' = [timers EXCEPT ![n] = @ \ {PreviewTimer(k) : k \in K}]
        /\ shown' = [k \in DOMAIN shown |->
               IF k \in K THEN [shown[k] EXCEPT !.got = Append(@, d)] ELSE shown[k]]
        /\ diff' = [diff EXCEPT ![n].wait = IF @ \in K THEN 0 ELSE @]
    BY DEF Resolve
  <1>2. /\ previewRequests \in [Node -> SUBSET Nat]
        /\ diff \in [Node -> [peer : Node \union {None}, todo : SUBSET Path, wait : Nat]]
        /\ \A m \in Node : \A k \in previewRequests[m] :
               k \in DOMAIN shown /\ shown[k].node = m /\ shown[k].got = <<>>
        /\ \A m \in Node : diff[m].wait # 0 => diff[m].wait \in previewRequests[m]
    BY DEF PreviewOK, AwaitedIsOpen
  <1>3. K \subseteq DOMAIN shown /\ \A k \in K : shown[k].got = <<>> /\ shown[k].node = n
    BY <1>2
  <1>4. /\ shown' \in Seq(Preview) /\ DOMAIN shown' = DOMAIN shown /\ ShownGrows
        /\ \A k \in DOMAIN shown' : ShownOK(k)'
        /\ \A k \in DOMAIN shown : k \notin K => shown'[k] = shown[k]
    BY <1>1, <1>3, Resolved
  <1>5. /\ previewRequests' \in [Node -> SUBSET Nat]
        /\ previewRequests'[n] = previewRequests[n] \ K
        /\ \A m \in Node : m # n => previewRequests'[m] = previewRequests[m]
    BY <1>1, <1>2
  <1>6. ASSUME NEW m \in Node, NEW k \in previewRequests'[m]
        PROVE  k \in DOMAIN shown' /\ shown'[k].node = m /\ shown'[k].got = <<>>
    <2>1. k \in previewRequests[m] /\ k \notin K
      BY <1>2, <1>3, <1>5
    <2>2. QED
      BY <1>2, <1>4, <2>1
  <1>7. /\ diff' \in [Node -> [peer : Node \union {None}, todo : SUBSET Path, wait : Nat]]
        /\ diff'[n].wait = IF diff[n].wait \in K THEN 0 ELSE diff[n].wait
        /\ \A m \in Node : m # n => diff'[m] = diff[m]
    <2>1. PICK x : x = diff[n]
      OBVIOUS
    <2>2. PICK w : w = IF x.wait \in K THEN 0 ELSE x.wait
      OBVIOUS
    <2>3. x \in [peer : Node \union {None}, todo : SUBSET Path, wait : Nat] /\ w \in Nat
      BY <1>2, <2>1, <2>2
    <2>4. PICK y : y = [x EXCEPT !.wait = w]
      OBVIOUS
    <2>5. y \in [peer : Node \union {None}, todo : SUBSET Path, wait : Nat] /\ y.wait = w
      BY <2>3, <2>4
    <2>6. diff' = [diff EXCEPT ![n] = y]
      BY <1>1, <2>1, <2>2, <2>4
    <2>7. QED
      BY <1>2, <2>1, <2>2, <2>5, <2>6
  <1>8. AwaitedIsOpen'
    BY <1>2, <1>5, <1>7 DEF AwaitedIsOpen
  <1>9. PreviewOK'
    BY <1>4, <1>5, <1>6, <1>7, <1>8 DEF PreviewOK
  <1>10. ASSUME NEW m \in Node
         PROVE  timers'[m] = Armed(pendingExecutions'[m], previewRequests'[m])
    <2>1. timers[m] = Armed(pendingExecutions[m], previewRequests[m])
      BY DEF TimersOK, TimerPerRequest, Armed, Of
    <2>2. CASE m = n
      <3>1. PICK P, Q : P = pendingExecutions[m] /\ Q = previewRequests[m]
        OBVIOUS
      <3>2. PICK R, T : R = Q \ K /\ T = Armed(P, Q) \ {PreviewTimer(k) : k \in K}
        OBVIOUS
      <3>3. T = Armed(P, R)
        BY <3>2, TimersOfOpen
      <3>4. timers'[m] = timers[m] \ {PreviewTimer(k) : k \in K}
        BY <1>1, <2>2 DEF TimersOK
      <3>5. QED
        BY <1>5, <2>1, <2>2, <3>1, <3>2, <3>3, <3>4
    <2>3. CASE m # n
      <3>1. timers'[m] = timers[m]
        BY <1>1, <2>3 DEF TimersOK
      <3>2. QED
        BY <1>5, <2>1, <2>3, <3>1
    <2>4. QED
      BY <2>2, <2>3
  <1>11. timers' \in [Node -> SUBSET Timer]
    BY <1>1 DEF TimersOK
  <1>12. TimersOK'
    BY <1>10, <1>11 DEF TimersOK, TimerPerRequest, Armed, Of
  <1>13. QED
    BY <1>4, <1>9, <1>12

------------------------------------------------------------------------------
(* What a step leaves alone *)

LEMMA LinksStay == LinkOK /\ UNCHANGED <<conn, up, left>> => LinkOK'
  BY DEF LinkOK

LEMMA InfoStays == InfoOK /\ UNCHANGED infoVars => InfoOK'
  BY DEF InfoOK, infoVars

LEMMA ExecStays ==
  ASSUME ExecOK, UNCHANGED execVars
  PROVE  ExecOK' /\ LogGrows
  <1>1. pendingExecutions' = pendingExecutions /\ log' = log
    BY DEF execVars
  <1>2. LogGrows
    BY <1>1 DEF LogGrows
  <1>3. \A k \in DOMAIN log' : LoggedOK(k)'
    BY <1>1, <1>2, LoggedStays
  <1>4. \A n \in Node : \A e \in pendingExecutions'[n] : EntryOK(n, e)'
    BY <1>1 DEF ExecOK, EntryOK
  <1>5. QED
    BY <1>1, <1>2, <1>3, <1>4 DEF ExecOK

LEMMA PreviewStays ==
  ASSUME PreviewOK, UNCHANGED previewVars
  PROVE  PreviewOK' /\ ShownGrows
  <1>1. previewRequests' = previewRequests /\ shown' = shown /\ diff' = diff
    BY DEF previewVars
  <1>2. QED
    BY <1>1 DEF PreviewOK, ShownOK, AwaitedIsOpen, ShownGrows

LEMMA TimersStay ==
  TimersOK /\ UNCHANGED <<pendingExecutions, previewRequests, timers>> => TimersOK'
  BY DEF TimersOK, TimerPerRequest

LEMMA NewsStay ==
  NewsOK /\ UNCHANGED <<up, chan, remoteNodeInfo, caps>> => NewsOK'
  BY DEF NewsOK, Tells

LEMMA NewsIs == NewsOK <=> News(up, chan, remoteNodeInfo, caps)
  BY DEF NewsOK, News

LEMMA ChanStays ==
  ASSUME ChanOK, LogGrows, ShownGrows, chan' = chan
  PROVE  ChanOK'
  BY QueuesGrow DEF ChanOK, Fits

LEMMA Apart ==
  ASSUME NEW n \in Node, NEW p \in Node, {n, p} \in Linked
  PROVE  n # p
  BY RequestsAssumption

LEMMA PeersDiffer ==
  ASSUME LinkOK, NEW n \in Node, NEW p, p \in conn[n]
  PROVE  p \in Node /\ n # p
  BY DEF LinkOK

LEMMA NodeInfoOnWire ==
  ASSUME NEW S \in FiniteCaps, NEW s \in Node, NEW r \in Node
  PROVE  NodeInfo(S) \in Message /\ NodeInfo(S) \in OnWire[s][r] /\ NodeInfo(S) \in OnWire'[s][r]
  <1>1. PICK m : m = NodeInfo(S)
    OBVIOUS
  <1>2. m \in Message /\ m.type = "node_info" /\ m.caps = S /\ IsFiniteSet(S)
    BY <1>1 DEF NodeInfo, Message, FiniteCaps
  <1>3. m \in OnWire[s][r] /\ m \in OnWire'[s][r]
    BY <1>2 DEF OnWire
  <1>4. QED
    BY <1>1, <1>2, <1>3

\* A step that sends ms after ch, which tells what is known afterwards.
LEMMA SentFrom ==
  ASSUME NEW ch, Fits(ch, OnWire'),
         NEW info, info = remoteNodeInfo', News(up, ch, info, caps),
         NEW n \in Node, NEW p \in Node, NEW ms \in Seq(Message),
         ms \in Seq(OnWire'[n][p]), Quiet(ms),
         chan' = Sent(ch, n, p, ms), up' = up, caps' = caps
  PROVE  ChanOK' /\ NewsOK'
  <1>1. PICK W, new : W = OnWire' /\ new = chan'
    OBVIOUS
  <1>2. Wire(W) /\ ms \in Seq(W[n][p]) /\ Fits(ch, W) /\ new = Sent(ch, n, p, ms)
    BY <1>1, WireTyped
  <1>3. Fits(new, W) /\ But(new, ch, n, p) /\ new[n][p] \in {ch[n][p], ch[n][p] \o ms}
    BY <1>2, SentKeeps
  <1>4. ChanOK'
    BY <1>1, <1>3 DEF ChanOK, Fits
  <1>5. News(up, new, info, caps)
    BY <1>2, <1>3, SentNews
  <1>6. NewsOK'
    BY <1>1, <1>5 DEF NewsOK, News, Tells
  <1>7. QED
    BY <1>4, <1>6

LEMMA SingleQuiet ==
  ASSUME NEW W, NEW m, m \in Message, m \in W, m.type # "node_info"
  PROVE  <<m>> \in Seq(Message) /\ <<m>> \in Seq(W) /\ Quiet(<<m>>)
  BY DEF Quiet

LEMMA SendKeeps ==
  ASSUME ChanOK, NewsOK, LogGrows, ShownGrows, NEW n \in Node, NEW p \in Node, NEW m,
         m \in Message, m \in OnWire'[n][p], m.type # "node_info",
         chan' = Sent(chan, n, p, <<m>>), UNCHANGED <<up, remoteNodeInfo, caps>>
  PROVE  ChanOK' /\ NewsOK'
  <1>1. PICK ms, ch, info : ms = <<m>> /\ ch = chan /\ info = remoteNodeInfo'
    OBVIOUS
  <1>2. ms \in Seq(Message) /\ ms \in Seq(OnWire'[n][p]) /\ Quiet(ms)
    BY <1>1, SingleQuiet
  <1>3. Fits(ch, OnWire')
    BY <1>1, QueuesGrow
  <1>4. News(up, ch, info, caps)
    BY <1>1 DEF NewsOK, News
  <1>5. chan' = Sent(ch, n, p, ms)
    BY <1>1
  <1>6. QED
    BY <1>1, <1>2, <1>3, <1>4, <1>5, SentFrom

LEMMA TakeKeeps ==
  ASSUME ChanOK, NewsOK, LogGrows, ShownGrows, NEW n \in Node, NEW p \in Node,
         chan[p][n] # <<>>, Head(chan[p][n]).type # "node_info",
         UNCHANGED <<up, remoteNodeInfo, caps>>
  PROVE  /\ chan' = Take(p, n) => ChanOK' /\ NewsOK'
         /\ \A m \in OnWire'[n][p] :
                m \in Message /\ m.type # "node_info" /\ chan' = Sent(Take(p, n), n, p, <<m>>)
                => ChanOK' /\ NewsOK'
  <1>1. PICK ch, W, info : ch = Take(p, n) /\ W = OnWire' /\ info = remoteNodeInfo'
    OBVIOUS
  <1>2. Wire(W) /\ Fits(chan, W)
    BY <1>1, WireTyped, QueuesGrow
  <1>3. Fits(ch, W)
    BY <1>1, <1>2, Taken
  <1>4. News(up, ch, info, caps)
    BY <1>1, TakenNews
  <1>5. ASSUME chan' = Take(p, n)
        PROVE  ChanOK' /\ NewsOK'
    <2>1. ChanOK'
      BY <1>1, <1>3, <1>5 DEF ChanOK, Fits
    <2>2. NewsOK'
      BY <1>1, <1>4, <1>5 DEF NewsOK, News, Tells
    <2>3. QED
      BY <2>1, <2>2
  <1>6. ASSUME NEW m \in OnWire'[n][p], m \in Message, m.type # "node_info",
               chan' = Sent(Take(p, n), n, p, <<m>>)
        PROVE  ChanOK' /\ NewsOK'
    <2>1. PICK ms : ms = <<m>>
      OBVIOUS
    <2>2. ms \in Seq(Message) /\ ms \in Seq(OnWire'[n][p]) /\ Quiet(ms)
      BY <1>6, <2>1, SingleQuiet
    <2>3. Fits(ch, OnWire')
      BY <1>1, <1>3
    <2>4. chan' = Sent(ch, n, p, ms)
      BY <1>1, <1>6, <2>1
    <2>5. QED
      BY <1>1, <1>3, <1>4, <2>2, <2>3, <2>4, SentFrom
  <1>7. QED
    BY <1>5, <1>6

------------------------------------------------------------------------------
(* Connections and capabilities *)

LEMMA ConnectKeeps ==
  ASSUME IInv, NEW n \in Node, NEW p \in Node, Connect(n, p)
  PROVE  IInv'
  <1> USE DEF IInv
  <1>1. /\ {n, p} \in left.links /\ p \notin conn[n] /\ n \notin conn[p] /\ Spend("connect")
        /\ conn' = [conn EXCEPT ![n] = @ \union {p}, ![p] = @ \union {n}]
        /\ up' = up \union {{n, p}}
        /\ UNCHANGED infoVars /\ UNCHANGED execVars /\ UNCHANGED previewVars
        /\ timers' = timers
    BY DEF Connect
  <1>2. left' \in Budget
    <2>1. "connect" \in DOMAIN left
      BY DEF LinkOK, Budget
    <2>2. QED
      BY <1>1, <2>1, Spending DEF LinkOK
  <1>3. {n, p} \in Linked /\ n # p
    <2>1. left.links \subseteq Linked
      BY DEF LinkOK, Budget
    <2>2. QED
      BY <1>1, <2>1, Apart
  <1>4. /\ conn' \in [Node -> SUBSET Node]
        /\ conn'[n] = conn[n] \union {p} /\ conn'[p] = conn[p] \union {n}
        /\ \A x \in Node : x # n /\ x # p => conn'[x] = conn[x]
    BY <1>1, <1>3 DEF LinkOK
  <1>5. LinkOK'
    <2>1. \A x \in Node : x \notin conn'[x]
      BY <1>3, <1>4 DEF LinkOK
    <2>2. ASSUME NEW x \in Node, NEW y \in Node, {x, y} \in up' PROVE y \in conn'[x]
      <3>1. CASE {x, y} \in up
        BY <1>4, <3>1 DEF LinkOK
      <3>2. CASE {x, y} = {n, p}
        BY <1>3, <1>4, <3>2
      <3>3. QED
        BY <1>1, <2>2, <3>1, <3>2
    <2>3. up' \subseteq Linked
      BY <1>1, <1>3 DEF LinkOK
    <2>4. QED
      BY <1>2, <1>4, <2>1, <2>2, <2>3 DEF LinkOK
  <1>6. InfoOK' /\ ExecOK' /\ LogGrows /\ PreviewOK' /\ ShownGrows /\ TimersOK'
    BY <1>1, InfoStays, ExecStays, PreviewStays, TimersStay DEF execVars, previewVars
  <1>7. PICK a, b : a = NodeInfo(caps[n]) /\ b = NodeInfo(caps[p])
    OBVIOUS
  <1>8. /\ caps[n] \in FiniteCaps /\ caps[p] \in FiniteCaps
        /\ a \in Message /\ a \in OnWire'[n][p] /\ b \in Message /\ b \in OnWire'[p][n]
    <2>1. caps[n] \in FiniteCaps /\ caps[p] \in FiniteCaps
      BY DEF InfoOK
    <2>2. QED
      BY <1>7, <2>1, NodeInfoOnWire
  <1>9. PICK q, u : q = Append(chan[n][p], a) /\ u = Append(chan[p][n], b)
    OBVIOUS
  <1>10. /\ chan \in [Node -> [Node -> Seq(Message)]]
         /\ \A s, r \in Node : chan[s][r] \in Seq(Message) /\ chan[s][r] \in Seq(OnWire'[s][r])
    BY <1>6, QueuesGrow DEF ChanOK, Fits
  <1>11. /\ q \in Seq(Message) /\ u \in Seq(Message)
         /\ q \in Seq(OnWire'[n][p]) /\ u \in Seq(OnWire'[p][n])
    BY <1>8, <1>9, <1>10, AppendProperties
  <1>12. PICK c1 : c1 = [chan EXCEPT ![n][p] = q]
    OBVIOUS
  <1>13. /\ c1 \in [Node -> [Node -> Seq(Message)]] /\ c1[n][p] = q
         /\ \A x, y \in Node : x # n \/ y # p => c1[x][y] = chan[x][y]
    BY <1>10, <1>11, <1>12, Put
  <1>14. chan' = [c1 EXCEPT ![p][n] = u]
    BY <1>3, <1>7, <1>9, <1>10, <1>12 DEF Connect
  <1>15. /\ chan' \in [Node -> [Node -> Seq(Message)]] /\ chan'[p][n] = u
         /\ \A x, y \in Node : x # p \/ y # n => chan'[x][y] = c1[x][y]
    BY <1>11, <1>13, <1>14, Put
  <1>16. ChanOK'
    <2>1. ASSUME NEW x \in Node, NEW y \in Node
          PROVE  chan'[x][y] \in Seq(OnWire'[x][y])
      <3>1. CASE x = p /\ y = n
        BY <1>11, <1>15, <3>1
      <3>2. CASE x = n /\ y = p
        <4>1. chan'[x][y] = q
          BY <1>3, <1>13, <1>15, <3>2
        <4>2. QED
          BY <1>11, <3>2, <4>1
      <3>3. CASE (x # p \/ y # n) /\ (x # n \/ y # p)
        <4>1. chan'[x][y] = chan[x][y]
          BY <1>13, <1>15, <3>3
        <4>2. QED
          BY <1>10, <4>1
      <3>4. QED
        BY <3>1, <3>2, <3>3
    <2>2. QED
      BY <1>15, <2>1 DEF ChanOK
  <1>17. NewsOK'
    <2>1. SUFFICES ASSUME NEW x \in Node, NEW y \in Node, {x, y} \in up'
                   PROVE  Tells(chan'[y][x], remoteNodeInfo[x][y], caps[y])
      BY <1>1 DEF NewsOK, Tells, infoVars
    <2>2. CASE x = n /\ y = p
      <3>1. Tells(u, remoteNodeInfo[x][y], caps[p])
        BY <1>7, <1>8, <1>9, <1>10, TellsNew
      <3>2. QED
        BY <1>15, <2>2, <3>1
    <2>3. CASE x = p /\ y = n
      <3>1. Tells(q, remoteNodeInfo[x][y], caps[n])
        BY <1>7, <1>8, <1>9, <1>10, TellsNew
      <3>2. chan'[y][x] = q
        BY <1>3, <1>13, <1>15, <2>3
      <3>3. QED
        BY <2>3, <3>1, <3>2
    <2>4. CASE {x, y} # {n, p}
      <3>1. {x, y} \in up /\ chan'[y][x] = chan[y][x]
        BY <1>1, <1>13, <1>15, <2>1, <2>4
      <3>2. QED
        BY <3>1 DEF NewsOK
    <2>5. QED
      BY <2>2, <2>3, <2>4
  <1>18. QED
    BY <1>5, <1>6, <1>16, <1>17

LEMMA LinkDownKeeps ==
  ASSUME IInv, NEW l, LinkDown(l)
  PROVE  IInv'
  <1> USE DEF IInv
  <1>1. /\ Spend("drop") /\ up' = up \ {l} /\ conn' = conn /\ chan' = chan
        /\ UNCHANGED infoVars /\ UNCHANGED execVars /\ UNCHANGED previewVars
        /\ timers' = timers
    BY DEF LinkDown
  <1>2. left' \in Budget
    <2>1. "drop" \in DOMAIN left
      BY DEF LinkOK, Budget
    <2>2. QED
      BY <1>1, <2>1, Spending DEF LinkOK
  <1>3. LinkOK'
    BY <1>1, <1>2 DEF LinkOK
  <1>4. InfoOK' /\ ExecOK' /\ LogGrows /\ PreviewOK' /\ ShownGrows /\ TimersOK'
    BY <1>1, InfoStays, ExecStays, PreviewStays, TimersStay DEF execVars, previewVars
  <1>5. ChanOK'
    BY <1>1, <1>4, ChanStays
  <1>6. NewsOK'
    BY <1>1 DEF NewsOK, infoVars, Tells
  <1>7. QED
    BY <1>3, <1>4, <1>5, <1>6

LEMMA NoticeKeeps ==
  ASSUME IInv, NEW n \in Node, NEW p \in Node, Notice(n, p)
  PROVE  IInv'
  <1> USE DEF IInv
  <1>1. /\ {n, p} \notin up /\ conn' = [conn EXCEPT ![n] = @ \ {p}]
        /\ Forget(n, p) /\ asked' = [asked EXCEPT ![n][p] = <<>>]
        /\ stale' = stale \ {<<n, p>>} /\ up' = up /\ caps' = caps
        /\ UNCHANGED execVars /\ UNCHANGED previewVars /\ timers' = timers /\ left' = left
    BY DEF Notice
  <1>2. PICK k \in 0..Len(chan[p][n]) : chan' = [chan EXCEPT ![p][n] = SubSeq(@, 1, k)]
    BY DEF Notice
  <1>3. LinkOK'
    <2>1. /\ conn' \in [Node -> SUBSET Node] /\ conn'[n] = conn[n] \ {p}
          /\ \A x \in Node : x # n => conn'[x] = conn[x]
      BY <1>1 DEF LinkOK
    <2>2. \A x, y \in Node : {x, y} \in up => y \in conn'[x]
      BY <1>1, <2>1 DEF LinkOK
    <2>3. \A x \in Node : x \notin conn'[x]
      BY <2>1 DEF LinkOK
    <2>4. QED
      BY <1>1, <2>1, <2>2, <2>3 DEF LinkOK
  <1>4. ExecOK' /\ LogGrows /\ PreviewOK' /\ ShownGrows /\ TimersOK'
    BY <1>1, ExecStays, PreviewStays, TimersStay DEF execVars, previewVars
  <1>5. /\ remoteNodeInfo' \in [Node -> [Node -> SUBSET Cap]] /\ remoteNodeInfo'[n][p] = {}
        /\ \A x, y \in Node : x # n \/ y # p => remoteNodeInfo'[x][y] = remoteNodeInfo[x][y]
    <2>1. PICK e \in SUBSET Cap : e = {}
      OBVIOUS
    <2>2. remoteNodeInfo' = [remoteNodeInfo EXCEPT ![n][p] = e]
      BY <1>1, <2>1 DEF Forget
    <2>3. remoteNodeInfo \in [Node -> [Node -> SUBSET Cap]]
      BY DEF InfoOK
    <2>4. QED
      BY <2>1, <2>2, <2>3, Put
  <1>6. /\ autoRequested' \in [Node -> [Node -> SUBSET Cap]] /\ autoRequested'[n][p] = {}
        /\ \A x, y \in Node : x # n \/ y # p => autoRequested'[x][y] = autoRequested[x][y]
    <2>1. PICK e \in SUBSET Cap : e = {}
      OBVIOUS
    <2>2. autoRequested' = [autoRequested EXCEPT ![n][p] = e]
      BY <1>1, <2>1 DEF Forget
    <2>3. autoRequested \in [Node -> [Node -> SUBSET Cap]]
      BY DEF InfoOK
    <2>4. QED
      BY <2>1, <2>2, <2>3, Put
  <1>7. /\ asked' \in [Node -> [Node -> Seq(Cap)]] /\ asked'[n][p] = <<>>
        /\ \A x, y \in Node : x # n \/ y # p => asked'[x][y] = asked[x][y]
    <2>1. <<>> \in Seq(Cap) /\ asked \in [Node -> [Node -> Seq(Cap)]]
      BY DEF InfoOK
    <2>2. PICK e \in Seq(Cap) : e = <<>>
      BY <2>1
    <2>3. asked' = [asked EXCEPT ![n][p] = e]
      BY <1>1, <2>2
    <2>4. QED
      BY <2>1, <2>2, <2>3, Put
  <1>8. InfoOK'
    <2>1. ASSUME NEW x \in Node, NEW y \in Node
          PROVE  /\ IsInjective(asked'[x][y])
                 /\ ToSet(asked'[x][y]) \subseteq autoRequested'[x][y]
                 /\ <<x, y>> \notin stale' =>
                        remoteNodeInfo'[x][y] \union autoRequested'[x][y]
                        \subseteq ToSet(asked'[x][y])
      <3>1. CASE x = n /\ y = p
        BY <1>5, <1>6, <1>7, <3>1 DEF IsInjective, ToSet
      <3>2. CASE x # n \/ y # p
        <4>1. /\ IsInjective(asked[x][y]) /\ ToSet(asked[x][y]) \subseteq autoRequested[x][y]
              /\ <<x, y>> \notin stale => remoteNodeInfo[x][y] \union autoRequested[x][y]
                                          \subseteq ToSet(asked[x][y])
          BY DEF InfoOK
        <4>2. <<x, y>> \notin stale' => <<x, y>> \notin stale
          BY <1>1, <3>2
        <4>3. /\ remoteNodeInfo'[x][y] = remoteNodeInfo[x][y]
              /\ autoRequested'[x][y] = autoRequested[x][y] /\ asked'[x][y] = asked[x][y]
          BY <1>5, <1>6, <1>7, <3>2
        <4>4. QED
          BY <4>1, <4>2, <4>3
      <3>3. QED
        BY <3>1, <3>2
    <2>2. stale' \subseteq Node \X Node /\ caps' \in [Node -> FiniteCaps]
      BY <1>1 DEF InfoOK
    <2>3. QED
      BY <1>5, <1>6, <1>7, <2>1, <2>2 DEF InfoOK
  <1>9. PICK q : q = SubSeq(chan[p][n], 1, k)
    OBVIOUS
  <1>10. /\ chan \in [Node -> [Node -> Seq(Message)]]
         /\ \A s, r \in Node : chan[s][r] \in Seq(Message) /\ chan[s][r] \in Seq(OnWire'[s][r])
    BY <1>4, QueuesGrow DEF ChanOK, Fits
  <1>11. q \in Seq(Message) /\ q \in Seq(OnWire'[p][n])
    <2>1. \A S : chan[p][n] \in Seq(S) => q \in Seq(S)
      <3>1. SUFFICES ASSUME NEW S, chan[p][n] \in Seq(S) PROVE q \in Seq(S)
        OBVIOUS
      <3>2. \A i \in 1..k : chan[p][n][i] \in S
        BY <1>2, <3>1
      <3>3. 1 \in Int /\ k \in Int
        BY <1>2
      <3>4. QED
        BY <1>9, <3>2, <3>3, SubSeqProperties
    <2>2. QED
      BY <1>10, <2>1
  <1>12. /\ chan' \in [Node -> [Node -> Seq(Message)]] /\ chan'[p][n] = q
         /\ \A x, y \in Node : x # p \/ y # n => chan'[x][y] = chan[x][y]
    <2>1. chan' = [chan EXCEPT ![p][n] = q]
      BY <1>2, <1>9
    <2>2. QED
      BY <1>10, <1>11, <2>1, Put
  <1>13. ChanOK'
    <2>1. \A x, y \in Node : chan'[x][y] \in Seq(OnWire'[x][y])
      BY <1>10, <1>11, <1>12
    <2>2. QED
      BY <1>12, <2>1 DEF ChanOK
  <1>14. NewsOK'
    <2>1. ASSUME NEW x \in Node, NEW y \in Node, {x, y} \in up
          PROVE  /\ chan'[y][x] = chan[y][x] /\ remoteNodeInfo'[x][y] = remoteNodeInfo[x][y]
      <3>1. x # n \/ y # p
        BY <1>1, <2>1
      <3>2. QED
        BY <1>5, <1>12, <3>1
    <2>2. \A x, y \in Node : {x, y} \in up =>
              Tells(chan'[y][x], remoteNodeInfo'[x][y], caps[y])
      BY <2>1 DEF NewsOK
    <2>3. QED
      BY <1>1, <2>2 DEF NewsOK, Tells
  <1>15. QED
    BY <1>3, <1>4, <1>8, <1>13, <1>14

LEMMA AdvertiseKeeps ==
  ASSUME IInv, NEW n \in Node, NEW S \in SUBSET Cap, Advertise(n, S)
  PROVE  IInv'
  <1> USE DEF IInv
  <1>1. /\ \E c \in Cap : S \in {caps[n] \union {c}, caps[n] \ {c}}
        /\ Spend("advertise") /\ caps' = [caps EXCEPT ![n] = S]
        /\ UNCHANGED <<conn, up, remoteNodeInfo, autoRequested, asked, stale>>
        /\ UNCHANGED execVars /\ UNCHANGED previewVars /\ timers' = timers
    BY DEF Advertise
  <1>2. left' \in Budget
    <2>1. "advertise" \in DOMAIN left
      BY DEF LinkOK, Budget
    <2>2. QED
      BY <1>1, <2>1, Spending DEF LinkOK
  <1>3. LinkOK'
    BY <1>1, <1>2 DEF LinkOK
  <1>4. ExecOK' /\ LogGrows /\ PreviewOK' /\ ShownGrows /\ TimersOK'
    BY <1>1, ExecStays, PreviewStays, TimersStay DEF execVars, previewVars
  <1>5. S \in FiniteCaps
    <2>1. PICK c : S \in {caps[n] \union {c}, caps[n] \ {c}}
      BY <1>1
    <2>2. IsFiniteSet(caps[n])
      BY DEF InfoOK, FiniteCaps
    <2>3. IsFiniteSet(caps[n] \union {c}) /\ IsFiniteSet(caps[n] \ {c})
      BY <2>2, FS_AddElement, FS_RemoveElement
    <2>4. QED
      BY <2>1, <2>3 DEF FiniteCaps
  <1>6. InfoOK'
    <2>1. caps' \in [Node -> FiniteCaps]
      BY <1>1, <1>5 DEF InfoOK
    <2>2. QED
      BY <1>1, <2>1 DEF InfoOK
  <1>7. PICK m : m = NodeInfo(S)
    OBVIOUS
  <1>8. m \in Message /\ \A p \in Node : m \in OnWire'[n][p]
    BY <1>5, <1>7, NodeInfoOnWire
  <1>9. /\ chan \in [Node -> [Node -> Seq(Message)]]
        /\ \A s, r \in Node : chan[s][r] \in Seq(Message) /\ chan[s][r] \in Seq(OnWire'[s][r])
    BY <1>4, QueuesGrow DEF ChanOK, Fits
  <1>10. PICK row : row = [p \in Node |-> IF p \in conn[n] /\ {n, p} \in up
                                          THEN Append(chan[n][p], m) ELSE chan[n][p]]
    OBVIOUS
  <1>11. chan' = [chan EXCEPT ![n] = row]
    BY <1>7, <1>10 DEF Advertise
  <1>12. ASSUME NEW p \in Node
         PROVE  /\ row[p] \in Seq(Message) /\ row[p] \in Seq(OnWire'[n][p])
                /\ {n, p} \in up => Tells(row[p], remoteNodeInfo[p][n], S)
    <2>1. CASE p \in conn[n] /\ {n, p} \in up
      <3>1. row[p] = Append(chan[n][p], m)
        BY <1>10, <2>1
      <3>2. row[p] \in Seq(Message) /\ row[p] \in Seq(OnWire'[n][p])
        <4>1. row[p] \in Seq(Message)
          BY <1>8, <1>9, <3>1, AppendProperties
        <4>2. PICK W : W = OnWire'[n][p]
          OBVIOUS
        <4>3. m \in W /\ chan[n][p] \in Seq(W)
          BY <1>8, <1>9, <4>2
        <4>4. row[p] \in Seq(W)
          BY <3>1, <4>3, AppendProperties
        <4>5. QED
          BY <4>1, <4>2, <4>4
      <3>3. Tells(row[p], remoteNodeInfo[p][n], S)
        BY <1>7, <1>8, <1>9, <3>1, TellsNew
      <3>4. QED
        BY <3>2, <3>3
    <2>2. CASE ~(p \in conn[n] /\ {n, p} \in up)
      <3>1. row[p] = chan[n][p] /\ {n, p} \notin up
        BY <1>10, <2>2 DEF LinkOK
      <3>2. QED
        BY <1>9, <3>1
    <2>3. QED
      BY <2>1, <2>2
  <1>13. /\ chan' \in [Node -> [Node -> Seq(Message)]] /\ chan'[n] = row
         /\ \A x \in Node : x # n => chan'[x] = chan[x]
    <2>1. row \in [Node -> Seq(Message)]
      BY <1>10, <1>12
    <2>2. QED
      BY <1>9, <1>11, <2>1
  <1>14. ChanOK'
    <2>1. ASSUME NEW x \in Node, NEW y \in Node PROVE chan'[x][y] \in Seq(OnWire'[x][y])
      <3>1. CASE x = n
        BY <1>12, <1>13, <3>1
      <3>2. CASE x # n
        <4>1. chan'[x][y] = chan[x][y]
          BY <1>13, <3>2
        <4>2. QED
          BY <1>9, <4>1
      <3>3. QED
        BY <3>1, <3>2
    <2>2. QED
      BY <1>13, <2>1 DEF ChanOK
  <1>15. NewsOK'
    <2>1. ASSUME NEW x \in Node, NEW y \in Node, {x, y} \in up
          PROVE  Tells(chan'[y][x], remoteNodeInfo[x][y], caps'[y])
      <3>1. CASE y = n
        <4>1. caps'[y] = S /\ chan'[y][x] = row[x] /\ {n, x} = {x, y}
          BY <1>1, <1>13, <3>1 DEF InfoOK
        <4>2. QED
          BY <1>12, <2>1, <3>1, <4>1
      <3>2. CASE y # n
        <4>1. caps'[y] = caps[y] /\ chan'[y][x] = chan[y][x]
          BY <1>1, <1>13, <3>2 DEF InfoOK
        <4>2. QED
          BY <2>1, <4>1 DEF NewsOK
      <3>3. QED
        BY <3>1, <3>2
    <2>2. QED
      BY <1>1, <2>1 DEF NewsOK, Tells
  <1>16. QED
    BY <1>3, <1>4, <1>6, <1>14, <1>15

LEMMA NodeInfoTyped ==
  ASSUME NEW m \in Message, m.type = "node_info"
  PROVE  m.caps \in SUBSET Cap
  BY DEF Message

LEMMA ExecuteTyped ==
  ASSUME NEW m \in Message, m.type \in {"capability_execute", "capability_execute_result"}
  PROVE  m.id \in Id /\ m.ask \in Nat
  BY DEF Message

\* A request on the wire stands for the entry that its sender stored.
LEMMA ExecuteOnWire ==
  ASSUME NEW s \in Node, NEW r \in Node, NEW id \in Id, NEW k \in Nat, IsAsk(k, s, r, id)'
  PROVE  Execute(id, k) \in Message /\ Execute(id, k) \in OnWire'[s][r]
         /\ Execute(id, k).type # "node_info"
  <1>1. PICK m : m = Execute(id, k)
    OBVIOUS
  <1>2. m \in Message /\ m.type = "capability_execute" /\ m.id = id /\ m.ask = k
    BY <1>1 DEF Execute, Message
  <1>3. m \in OnWire'[s][r]
    BY <1>2 DEF OnWire
  <1>4. QED
    BY <1>1, <1>2, <1>3

LEMMA ResultOnWire ==
  ASSUME NEW s \in Node, NEW r \in Node, NEW id \in Id, NEW k \in Nat, IsAsk(k, r, s, id)'
  PROVE  Result(id, k) \in Message /\ Result(id, k) \in OnWire'[s][r]
         /\ Result(id, k).type # "node_info"
  <1>1. PICK m : m = Result(id, k)
    OBVIOUS
  <1>2. m \in Message /\ m.type = "capability_execute_result" /\ m.id = id /\ m.ask = k
    BY <1>1 DEF Result, Message
  <1>3. m \in OnWire'[s][r]
    BY <1>2 DEF OnWire
  <1>4. QED
    BY <1>1, <1>2, <1>3

LEMMA OutgoingTyped ==
  ASSUME NEW id \in Id, NEW p \in Node, NEW k \in Nat, NEW ask \in Nat, NEW n \in Node
  PROVE  /\ Outgoing(id, p, k) \in Entry /\ Incoming(id, p, k, ask) \in Entry
         /\ Logged(n, Outgoing(id, p, k)) \in LogEntry
         /\ Logged(n, Incoming(id, p, k, ask)) \in LogEntry
  <1>1. Outgoing(id, p, k) \in Entry /\ Incoming(id, p, k, ask) \in Entry
    BY DEF Outgoing, Incoming, Entry
  <1>2. ASSUME NEW e \in Entry PROVE Logged(n, e) \in LogEntry
    <2>1. <<>> \in Seq(Ending)
      OBVIOUS
    <2>2. QED
      BY <2>1 DEF Logged, LogEntry, Entry
  <1>3. QED
    BY <1>1, <1>2

LEMMA HandleNodeInfoKeeps ==
  ASSUME IInv, NEW n \in Node, NEW p \in Node, HandleNodeInfo(n, p)
  PROVE  IInv'
  <1> USE DEF IInv
  <1>1. PICK S : S = Head(chan[p][n]).caps
    OBVIOUS
  <1>2. PICK new : new = IF p \in conn[n] THEN SetToSeq(ToAsk(n, p, S)) ELSE <<>>
    OBVIOUS
  <1>3. PICK es : es = [i \in DOMAIN new |-> Outgoing(Len(log) + i, p, Len(log) + i)]
    OBVIOUS
  <1>4. PICK ls : ls = [i \in DOMAIN new |-> Logged(n, es[i])]
    OBVIOUS
  <1>5. PICK ms : ms = [i \in DOMAIN new |-> Execute(Len(log) + i, Len(log) + i)]
    OBVIOUS
  <1>6. /\ chan[p][n] # <<>> /\ Head(chan[p][n]).type = "node_info"
        /\ remoteNodeInfo' = [remoteNodeInfo EXCEPT ![n][p] = S]
        /\ autoRequested' = [autoRequested EXCEPT ![n][p] = @ \union ToSet(new)]
        /\ asked' = [asked EXCEPT ![n][p] = @ \o new]
        /\ stale' = IF p \in conn[n] THEN stale ELSE stale \union {<<n, p>>}
        /\ Store(n, ToSet(es)) /\ log' = log \o ls
        /\ chan' = Sent(Take(p, n), n, p, ms)
        /\ UNCHANGED <<conn, up, caps, left>> /\ UNCHANGED previewVars
    BY <1>1, <1>2, <1>3, <1>4, <1>5 DEF HandleNodeInfo, Next_
  <1>7. S \in SUBSET Cap /\ IsFiniteSet(S)
    <2>1. PICK m : m = Head(chan[p][n])
      OBVIOUS
    <2>2. m \in Message /\ m \in OnWire[p][n] /\ m.type = "node_info" /\ m.caps = S
      BY <1>1, <1>6, <2>1, HeadOnWire
    <2>3. S \in SUBSET Cap
      BY <2>2, NodeInfoTyped
    <2>4. IsFiniteSet(S)
      BY <2>2 DEF OnWire
    <2>5. QED
      BY <2>3, <2>4
  <1>8. /\ new \in Seq(Cap) /\ IsInjective(new)
        /\ ToSet(new) = IF p \in conn[n] THEN ToAsk(n, p, S) ELSE {}
    <2>1. CASE p \in conn[n]
      <3>1. PICK A : A = ToAsk(n, p, S)
        OBVIOUS
      <3>2. A \subseteq S /\ A \subseteq Cap
        BY <1>7, <3>1 DEF ToAsk
      <3>3. IsFiniteSet(A)
        BY <1>7, <3>2, FS_Subset
      <3>4. new = SetToSeq(A)
        BY <1>2, <2>1, <3>1
      <3>5. new \in Seq(A) /\ IsInjective(new) /\ ToSet(new) = A
        BY <3>3, <3>4, Arranged
      <3>6. new \in Seq(Cap)
        BY <3>2, <3>5, SeqMonotonic
      <3>7. QED
        BY <2>1, <3>1, <3>5, <3>6
    <2>2. CASE p \notin conn[n]
      BY <1>2, <2>2 DEF IsInjective, ToSet
    <2>3. QED
      BY <2>1, <2>2
  <1>9. PICK N : N = Len(new)
    OBVIOUS
  <1>10. /\ N \in Nat /\ DOMAIN new = 1..N /\ Len(log) \in Nat /\ log \in Seq(LogEntry)
         /\ N > 0 => p \in conn[n] /\ p # n
    <2>1. N \in Nat /\ DOMAIN new = 1..N /\ Len(log) \in Nat /\ log \in Seq(LogEntry)
      BY <1>8, <1>9 DEF ExecOK
    <2>2. p \notin conn[n] => N = 0
      BY <1>2, <1>9
    <2>3. p \in conn[n] => p # n
      BY DEF LinkOK
    <2>4. QED
      BY <2>1, <2>2, <2>3
  <1>11. \A i \in 1..N : /\ Len(log) + i \in Nat /\ Len(log) + i \in Id
                         /\ es[i] = Outgoing(Len(log) + i, p, Len(log) + i)
                         /\ es[i] \in Entry /\ ls[i] = Logged(n, es[i]) /\ ls[i] \in LogEntry
                         /\ ms[i] = Execute(Len(log) + i, Len(log) + i)
    <2>1. ASSUME NEW i \in 1..N
          PROVE  Len(log) + i \in Nat /\ Len(log) + i \in Id
      BY <1>10 DEF Id
    <2>2. QED
      BY <1>3, <1>4, <1>5, <1>10, <2>1, OutgoingTyped
  <1>12. es \in Seq(Entry) /\ Len(es) = N /\ ls \in Seq(LogEntry) /\ Len(ls) = N
    <2>1. es \in [1..N -> Entry]
      BY <1>3, <1>10, <1>11
    <2>2. ls \in [1..N -> LogEntry]
      BY <1>4, <1>10, <1>11
    <2>3. QED
      BY <1>10, <2>1, <2>2
  <1>13. Fresh(n, es)
    <2>1. ASSUME NEW i \in 1..Len(es)
          PROVE  /\ es[i].no = Len(log) + i /\ es[i].peer # n /\ es[i].dir = "outgoing"
                 /\ es[i].ask = es[i].no /\ es[i].id = Len(log) + i
      BY <1>10, <1>11, <1>12 DEF Outgoing
    <2>2. \A i, j \in 1..Len(es) : es[i].id = es[j].id => i = j
      BY <1>10, <1>12, <2>1
    <2>3. QED
      BY <1>12, <2>1, <2>2 DEF Fresh
  <1>14. /\ ExecOK' /\ TimersOK' /\ LogGrows
         /\ \A i \in 1..Len(es) : es[i].dir = "outgoing" =>
                IsAsk(es[i].no, n, es[i].peer, es[i].id)'
    <2>1. PICK E : E = ToSet(es)
      OBVIOUS
    <2>2. Store(n, E) /\ previewRequests' = previewRequests
      BY <1>6, <2>1 DEF previewVars
    <2>3. \A i \in 1..Len(es) : ls[i] = Logged(n, es[i])
      BY <1>11, <1>12
    <2>4. QED
      BY <1>6, <1>12, <1>13, <2>1, <2>2, <2>3, StoreKeeps
  <1>15. PreviewOK' /\ ShownGrows
    BY <1>6, PreviewStays
  <1>16. LinkOK'
    BY <1>6, LinksStay
  <1>17. ASSUME NEW i \in 1..N
         PROVE  ms[i] \in Message /\ ms[i] \in OnWire'[n][p] /\ ms[i].type # "node_info"
    <2>1. PICK k : k = Len(log) + i
      OBVIOUS
    <2>2. es[i].dir = "outgoing" /\ es[i].no = k /\ es[i].peer = p /\ es[i].id = k
      <3>1. es[i] = Outgoing(k, p, k)
        BY <1>11, <2>1
      <3>2. QED
        BY <3>1 DEF Outgoing
    <2>3. IsAsk(es[i].no, n, es[i].peer, es[i].id)'
      BY <1>12, <1>14, <2>2
    <2>4. IsAsk(k, n, p, k)'
      BY <2>2, <2>3 DEF IsAsk
    <2>5. k \in Nat /\ k \in Id /\ ms[i] = Execute(k, k)
      BY <1>11, <2>1
    <2>6. QED
      BY <2>4, <2>5, ExecuteOnWire
  <1>18. ms \in Seq(Message) /\ ms \in Seq(OnWire'[n][p]) /\ Quiet(ms)
    <2>1. ms = [i \in 1..N |-> ms[i]] /\ DOMAIN ms = 1..N
      BY <1>5, <1>10
    <2>2. ms \in [1..N -> Message] /\ ms \in [1..N -> OnWire'[n][p]]
      BY <1>17, <2>1
    <2>3. QED
      BY <1>10, <1>17, <2>1, <2>2 DEF Quiet
  <1>19. PICK ch : ch = Take(p, n)
    OBVIOUS
  <1>20. Fits(ch, OnWire') /\ But(ch, chan, p, n) /\ ch[p][n] = Tail(chan[p][n])
    <2>1. PICK W : W = OnWire'
      OBVIOUS
    <2>2. Wire(W) /\ Fits(chan, W)
      BY <1>14, <1>15, <2>1, QueuesGrow, WireTyped
    <2>3. Fits(ch, W) /\ But(ch, chan, p, n) /\ ch[p][n] = Tail(chan[p][n])
      BY <1>6, <1>19, <2>2, Taken
    <2>4. QED
      BY <2>1, <2>3
  <1>21. /\ remoteNodeInfo' \in [Node -> [Node -> SUBSET Cap]] /\ remoteNodeInfo'[n][p] = S
         /\ \A x, y \in Node : x # n \/ y # p => remoteNodeInfo'[x][y] = remoteNodeInfo[x][y]
    <2>1. remoteNodeInfo \in [Node -> [Node -> SUBSET Cap]]
      BY DEF InfoOK
    <2>2. QED
      BY <1>6, <1>7, <2>1, Put
  <1>22. ChanOK' /\ NewsOK'
    <2>1. News(up, ch, remoteNodeInfo', caps)
      <3>1. SUFFICES ASSUME NEW x \in Node, NEW y \in Node, {x, y} \in up
                     PROVE  Tells(ch[y][x], remoteNodeInfo'[x][y], caps[y])
        BY DEF News
      <3>2. Tells(chan[y][x], remoteNodeInfo[x][y], caps[y]) /\ chan[y][x] \in Seq(Message)
        BY <3>1 DEF NewsOK, ChanOK
      <3>3. CASE x = n /\ y = p
        <4>1. Tells(Tail(chan[p][n]), S, caps[p])
          BY <1>1, <1>6, <3>2, <3>3, TellsTail
        <4>2. QED
          BY <1>20, <1>21, <3>3, <4>1
      <3>4. CASE x # n \/ y # p
        BY <1>20, <1>21, <3>2, <3>4 DEF But
      <3>5. QED
        BY <3>3, <3>4
    <2>2. PICK info : info = remoteNodeInfo'
      OBVIOUS
    <2>3. chan' = Sent(ch, n, p, ms) /\ News(up, ch, info, caps)
      BY <1>6, <1>19, <2>1, <2>2
    <2>4. QED
      BY <1>6, <1>18, <1>20, <2>2, <2>3, SentFrom
  <1>23. InfoOK'
    <2>1. /\ autoRequested' \in [Node -> [Node -> SUBSET Cap]]
          /\ autoRequested'[n][p] = autoRequested[n][p] \union ToSet(new)
          /\ \A x, y \in Node : x # n \/ y # p => autoRequested'[x][y] = autoRequested[x][y]
      <3>1. PICK v : v = autoRequested[n][p] \union ToSet(new)
        OBVIOUS
      <3>2. autoRequested \in [Node -> [Node -> SUBSET Cap]] /\ ToSet(new) \subseteq Cap
        BY <1>7, <1>8 DEF InfoOK, ToAsk
      <3>3. v \in SUBSET Cap
        BY <3>1, <3>2
      <3>4. autoRequested' = [autoRequested EXCEPT ![n][p] = v]
        BY <1>6, <3>1
      <3>5. QED
        BY <3>1, <3>2, <3>3, <3>4, Put
    <2>2. PICK v : v = asked[n][p] \o new
      OBVIOUS
    <2>3. asked \in [Node -> [Node -> Seq(Cap)]] /\ asked[n][p] \in Seq(Cap) /\ v \in Seq(Cap)
      <3>1. asked \in [Node -> [Node -> Seq(Cap)]] /\ asked[n][p] \in Seq(Cap)
        BY DEF InfoOK
      <3>2. QED
        BY <1>8, <2>2, <3>1, ConcatProperties
    <2>4. /\ asked' \in [Node -> [Node -> Seq(Cap)]] /\ asked'[n][p] = v
          /\ \A x, y \in Node : x # n \/ y # p => asked'[x][y] = asked[x][y]
      <3>1. asked' = [asked EXCEPT ![n][p] = v]
        BY <1>6, <2>2
      <3>2. QED
        BY <2>3, <3>1, Put
    <2>5. ToSet(v) = ToSet(asked[n][p]) \union ToSet(new)
      BY <1>8, <2>2, <2>3, SetOfConcat
    <2>6. /\ IsInjective(asked[n][p]) /\ ToSet(asked[n][p]) \subseteq autoRequested[n][p]
          /\ <<n, p>> \notin stale => remoteNodeInfo[n][p] \union autoRequested[n][p]
                                      \subseteq ToSet(asked[n][p])
      BY DEF InfoOK
    <2>7. IsInjective(v)
      <3>1. ToSet(asked[n][p]) \cap ToSet(new) = {}
        BY <1>8, <2>6 DEF ToAsk
      <3>2. QED
        BY <1>8, <2>2, <2>3, <2>6, <3>1, InjectiveConcat
    <2>8. <<n, p>> \notin stale' => S \union autoRequested'[n][p] \subseteq ToSet(v)
      <3>1. SUFFICES ASSUME <<n, p>> \notin stale'
                     PROVE  S \union autoRequested'[n][p] \subseteq ToSet(v)
        OBVIOUS
      <3>2. p \in conn[n] /\ <<n, p>> \notin stale
        BY <1>6, <3>1
      <3>3. ToSet(new) = (S \ remoteNodeInfo[n][p]) \ autoRequested[n][p]
        BY <1>8, <3>2 DEF ToAsk
      <3>4. QED
        BY <2>1, <2>5, <2>6, <3>2, <3>3
    <2>9. ASSUME NEW x \in Node, NEW y \in Node
          PROVE  /\ IsInjective(asked'[x][y])
                 /\ ToSet(asked'[x][y]) \subseteq autoRequested'[x][y]
                 /\ <<x, y>> \notin stale' =>
                        remoteNodeInfo'[x][y] \union autoRequested'[x][y]
                        \subseteq ToSet(asked'[x][y])
      <3>1. CASE x = n /\ y = p
        BY <1>21, <2>1, <2>4, <2>5, <2>6, <2>7, <2>8, <3>1
      <3>2. CASE x # n \/ y # p
        <4>1. /\ IsInjective(asked[x][y]) /\ ToSet(asked[x][y]) \subseteq autoRequested[x][y]
              /\ <<x, y>> \notin stale => remoteNodeInfo[x][y] \union autoRequested[x][y]
                                          \subseteq ToSet(asked[x][y])
          BY DEF InfoOK
        <4>2. <<x, y>> \notin stale' => <<x, y>> \notin stale
          BY <1>6
        <4>3. /\ remoteNodeInfo'[x][y] = remoteNodeInfo[x][y]
              /\ autoRequested'[x][y] = autoRequested[x][y] /\ asked'[x][y] = asked[x][y]
          BY <1>21, <2>1, <2>4, <3>2
        <4>4. QED
          BY <4>1, <4>2, <4>3
      <3>3. QED
        BY <3>1, <3>2
    <2>10. stale' \subseteq Node \X Node /\ caps' \in [Node -> FiniteCaps]
      BY <1>6 DEF InfoOK
    <2>11. QED
      BY <1>21, <2>1, <2>4, <2>9, <2>10 DEF InfoOK
  <1>24. QED
    BY <1>14, <1>15, <1>16, <1>22, <1>23

------------------------------------------------------------------------------
(* Executions *)

\* One entry is stored.
LEMMA StoreOne ==
  ASSUME ExecOK, TimersOK, NEW n \in Node, NEW e \in Entry, e.no = Len(log) + 1, e.peer # n,
         e.dir = "outgoing" => e.ask = e.no,
         e.dir = "incoming" => IsAsk(e.ask, e.peer, n, e.id),
         Logged(n, e) \in LogEntry,
         Store(n, {e}), log' = Append(log, Logged(n, e)), previewRequests' = previewRequests
  PROVE  /\ ExecOK' /\ TimersOK' /\ LogGrows
         /\ e.dir = "outgoing" => IsAsk(e.no, n, e.peer, e.id)'
  <1>1. PICK es, ls, E : es = <<e>> /\ ls = <<Logged(n, e)>> /\ E = {e}
    OBVIOUS
  <1>2. es \in Seq(Entry) /\ Len(es) = 1 /\ es[1] = e /\ E = ToSet(es)
    BY <1>1, One, SetOfOne
  <1>3. ls \in Seq(LogEntry) /\ Len(ls) = 1 /\ ls[1] = Logged(n, e)
    BY <1>1, One
  <1>4. log \in Seq(LogEntry) /\ log' = log \o ls
    BY <1>1, AppendIsConcat DEF ExecOK
  <1>5. Fresh(n, es)
    BY <1>2 DEF Fresh
  <1>6. Len(ls) = Len(es) /\ \A i \in 1..Len(es) : ls[i] = Logged(n, es[i])
    BY <1>2, <1>3
  <1>7. /\ ExecOK' /\ TimersOK' /\ LogGrows
        /\ \A i \in 1..Len(es) : es[i].dir = "outgoing" =>
               IsAsk(es[i].no, n, es[i].peer, es[i].id)'
    <2>1. Store(n, E)
      BY <1>1
    <2>2. QED
      BY <1>2, <1>3, <1>4, <1>5, <1>6, <2>1, StoreKeeps
  <1>8. 1 \in 1..Len(es)
    BY <1>2
  <1>9. e.dir = "outgoing" => IsAsk(es[1].no, n, es[1].peer, es[1].id)'
    BY <1>2, <1>7, <1>8
  <1>10. QED
    BY <1>2, <1>7, <1>9 DEF IsAsk

LEMMA AskKeeps ==
  ASSUME IInv, NEW n \in Node, NEW p \in Node, NEW id \in CallerId \union {None}, Ask(n, p, id)
  PROVE  IInv'
  <1> USE DEF IInv
  <1>1. PICK k, d : k = Len(log) + 1 /\ d = IF id = None THEN k ELSE id
    OBVIOUS
  <1>2. PICK e : e = Outgoing(d, p, k)
    OBVIOUS
  <1>3. /\ p \in conn[n] /\ Spend("ask") /\ Store(n, {e}) /\ log' = Append(log, Logged(n, e))
        /\ chan' = Sent(chan, n, p, <<Execute(e.id, k)>>)
        /\ conn' = conn /\ up' = up /\ UNCHANGED infoVars /\ UNCHANGED previewVars
    BY <1>1, <1>2 DEF Ask
  <1>4. k \in Nat /\ d \in Id /\ p # n
    <2>1. k \in Nat
      BY <1>1 DEF ExecOK
    <2>2. p # n
      BY <1>3 DEF LinkOK
    <2>3. QED
      BY <1>1, <2>1, <2>2 DEF Id
  <1>5. /\ e \in Entry /\ Logged(n, e) \in LogEntry /\ e.no = k /\ e.peer = p /\ e.id = d
        /\ e.dir = "outgoing" /\ e.ask = k
    <2>1. e \in Entry /\ Logged(n, e) \in LogEntry
      BY <1>2, <1>4, OutgoingTyped
    <2>2. QED
      BY <1>2, <2>1 DEF Outgoing
  <1>6. ExecOK' /\ TimersOK' /\ LogGrows /\ IsAsk(k, n, p, d)'
    <2>1. previewRequests' = previewRequests
      BY <1>3 DEF previewVars
    <2>2. ExecOK' /\ TimersOK' /\ LogGrows /\ IsAsk(e.no, n, e.peer, e.id)'
      BY <1>1, <1>3, <1>4, <1>5, <2>1, StoreOne
    <2>3. QED
      BY <1>5, <2>2 DEF IsAsk
  <1>7. InfoOK' /\ PreviewOK' /\ ShownGrows
    BY <1>3, InfoStays, PreviewStays
  <1>8. LinkOK'
    <2>1. "ask" \in DOMAIN left
      BY DEF LinkOK, Budget
    <2>2. left' \in Budget
      BY <1>3, <2>1, Spending DEF LinkOK
    <2>3. QED
      BY <1>3, <2>2 DEF LinkOK
  <1>9. ChanOK' /\ NewsOK'
    <2>1. PICK m : m = Execute(d, k)
      OBVIOUS
    <2>2. m \in Message /\ m \in OnWire'[n][p] /\ m.type # "node_info"
      BY <1>4, <1>6, <2>1, ExecuteOnWire
    <2>3. chan' = Sent(chan, n, p, <<m>>)
      BY <1>3, <1>5, <2>1
    <2>4. UNCHANGED <<up, remoteNodeInfo, caps>>
      BY <1>3 DEF infoVars
    <2>5. QED
      BY <1>6, <1>7, <2>2, <2>3, <2>4, SendKeeps
  <1>10. QED
    BY <1>6, <1>7, <1>8, <1>9

LEMMA HandleExecuteKeeps ==
  ASSUME IInv, NEW n \in Node, NEW p \in Node, HandleExecute(n, p)
  PROVE  IInv'
  <1> USE DEF IInv
  <1>1. PICK m : m = Head(chan[p][n])
    OBVIOUS
  <1>2. PICK e : e = Incoming(m.id, p, Len(log) + 1, m.ask)
    OBVIOUS
  <1>3. /\ chan[p][n] # <<>> /\ m.type = "capability_execute"
        /\ Store(n, {e}) /\ log' = Append(log, Logged(n, e)) /\ chan' = Take(p, n)
        /\ UNCHANGED <<conn, up, left>> /\ UNCHANGED infoVars /\ UNCHANGED previewVars
    BY <1>1, <1>2 DEF HandleExecute, Next_
  <1>4. m \in Message /\ m \in OnWire[p][n] /\ m.id \in Id /\ m.ask \in Nat
    <2>1. m \in Message /\ m \in OnWire[p][n]
      BY <1>1, <1>3, HeadOnWire
    <2>2. QED
      BY <1>3, <2>1, ExecuteTyped
  <1>5. IsAsk(m.ask, p, n, m.id)
    BY <1>3, <1>4 DEF OnWire
  <1>6. p # n
    <2>1. m.ask \in DOMAIN log /\ log[m.ask].node = p /\ log[m.ask].peer = n
      BY <1>5 DEF IsAsk
    <2>2. QED
      BY <2>1 DEF ExecOK, LoggedOK
  <1>7. /\ e \in Entry /\ Logged(n, e) \in LogEntry /\ e.no = Len(log) + 1 /\ e.peer = p
        /\ e.id = m.id /\ e.dir = "incoming" /\ e.ask = m.ask
    <2>1. PICK k, d, a : k = Len(log) + 1 /\ d = m.id /\ a = m.ask
      OBVIOUS
    <2>2. k \in Nat
      BY <2>1 DEF ExecOK
    <2>3. e = Incoming(d, p, k, a)
      BY <1>2, <2>1
    <2>4. e \in Entry /\ Logged(n, e) \in LogEntry
      BY <1>4, <2>1, <2>2, <2>3, OutgoingTyped
    <2>5. QED
      BY <2>1, <2>3, <2>4 DEF Incoming
  <1>8. ExecOK' /\ TimersOK' /\ LogGrows
    <2>1. previewRequests' = previewRequests
      BY <1>3 DEF previewVars
    <2>2. IsAsk(e.ask, e.peer, n, e.id)
      BY <1>5, <1>7
    <2>3. QED
      BY <1>3, <1>6, <1>7, <2>1, <2>2, StoreOne
  <1>9. InfoOK' /\ PreviewOK' /\ ShownGrows /\ LinkOK'
    BY <1>3, InfoStays, PreviewStays, LinksStay
  <1>10. ChanOK' /\ NewsOK'
    <2>1. UNCHANGED <<up, remoteNodeInfo, caps>>
      BY <1>3 DEF infoVars
    <2>2. QED
      BY <1>1, <1>3, <1>8, <1>9, <2>1, TakeKeeps
  <1>11. QED
    BY <1>8, <1>9, <1>10

LEMMA RespondKeeps ==
  ASSUME IInv, NEW n \in Node, NEW e \in pendingExecutions[n], Respond(n, e)
  PROVE  IInv'
  <1> USE DEF IInv
  <1>1. PICK p, d, a : p = e.peer /\ d = e.id /\ a = e.ask
    OBVIOUS
  <1>2. /\ e.dir = "incoming" /\ chan' = Sent(chan, n, p, <<Result(d, a)>>)
        /\ Complete(n, d, "answered", a)
        /\ UNCHANGED <<conn, up, left>> /\ UNCHANGED infoVars /\ UNCHANGED previewVars
    BY <1>1 DEF Respond
  <1>3. e \in Entry /\ p \in Node /\ d \in Id /\ a \in Nat
    <2>1. e \in Entry
      BY DEF ExecOK
    <2>2. QED
      BY <1>1, <2>1 DEF Entry
  <1>4. IsAsk(a, p, n, d)
    <2>1. /\ e.no \in DOMAIN log /\ log[e.no].node = n /\ log[e.no].peer = p
          /\ log[e.no].dir = "incoming" /\ log[e.no].id = d /\ log[e.no].ask = a
      BY <1>1, <1>2 DEF ExecOK, EntryOK
    <2>2. LoggedOK(e.no)
      BY <2>1 DEF ExecOK
    <2>3. QED
      BY <2>1, <2>2 DEF LoggedOK
  <1>5. ExecOK' /\ TimersOK' /\ LogGrows
    <2>1. previewRequests' = previewRequests
      BY <1>2 DEF previewVars
    <2>2. [how |-> "answered", ask |-> a] \in Ending
      BY <1>3 DEF Ending
    <2>3. QED
      BY <1>2, <2>1, <2>2, CompleteKeeps
  <1>6. InfoOK' /\ PreviewOK' /\ ShownGrows /\ LinkOK'
    BY <1>2, InfoStays, PreviewStays, LinksStay
  <1>7. ChanOK' /\ NewsOK'
    <2>1. PICK m : m = Result(d, a)
      OBVIOUS
    <2>2. IsAsk(a, p, n, d)'
      BY <1>4, <1>5 DEF LogGrows, IsAsk
    <2>3. m \in Message /\ m \in OnWire'[n][p] /\ m.type # "node_info"
      BY <1>3, <2>1, <2>2, ResultOnWire
    <2>4. chan' = Sent(chan, n, p, <<m>>) /\ UNCHANGED <<up, remoteNodeInfo, caps>>
      BY <1>2, <2>1 DEF infoVars
    <2>5. QED
      BY <1>3, <1>5, <1>6, <2>3, <2>4, SendKeeps
  <1>8. QED
    BY <1>5, <1>6, <1>7

\* The result ends the request that it answers, unless an id was used twice.
LEMMA AnswersIts ==
  ASSUME ExecOK, NEW n \in Node, NEW p \in Node, NEW e \in pendingExecutions[n], e.peer = p,
         NEW k, IsAsk(k, n, p, e.id), Unique(e.no)
  PROVE  log[e.no].dir = "outgoing" /\ k = e.no
  <1>1. /\ e.no \in DOMAIN log /\ log[e.no].node = n /\ log[e.no].peer = p
        /\ log[e.no].id = e.id /\ LoggedOK(e.no) /\ log[e.no].dir \in {"incoming", "outgoing"}
    <2>1. e.no \in DOMAIN log /\ log[e.no].node = n /\ log[e.no].peer = p /\ log[e.no].id = e.id
      BY DEF ExecOK, EntryOK
    <2>2. LoggedOK(e.no) /\ log[e.no] \in LogEntry
      BY <2>1 DEF ExecOK
    <2>3. log[e.no].dir \in {"incoming", "outgoing"}
      BY <2>2 DEF LogEntry
    <2>4. QED
      BY <2>1, <2>2, <2>3
  <1>2. /\ k \in DOMAIN log /\ log[k].node = n /\ log[k].peer = p /\ log[k].dir = "outgoing"
        /\ log[k].id = e.id /\ log[k].ask = k
    BY DEF IsAsk
  <1>3. CASE k = e.no
    BY <1>2, <1>3
  <1>4. CASE k # e.no
    <2>1. log[e.no].ask = k
      BY <1>1, <1>2, <1>4 DEF Unique, Clash
    <2>2. log[e.no].dir = "incoming"
      BY <1>1, <1>4, <2>1 DEF LoggedOK
    <2>3. IsAsk(k, p, n, e.id)
      BY <1>1, <2>1, <2>2 DEF LoggedOK
    <2>4. p = n
      BY <1>2, <2>3 DEF IsAsk
    <2>5. QED
      BY <1>1, <2>4 DEF LoggedOK
  <1>5. QED
    BY <1>3, <1>4

LEMMA HandleResultKeeps ==
  ASSUME IInv, NEW n \in Node, NEW p \in Node, HandleResult(n, p)
  PROVE  IInv'
  <1> USE DEF IInv
  <1>1. PICK m : m = Head(chan[p][n])
    OBVIOUS
  <1>2. PICK d, a : d = m.id /\ a = m.ask
    OBVIOUS
  <1>3. /\ chan[p][n] # <<>> /\ m.type = "capability_execute_result"
        /\ IF Expected(n, p, d) THEN Complete(n, d, "result", a)
           ELSE UNCHANGED execVars /\ UNCHANGED timers
        /\ chan' = Take(p, n)
        /\ UNCHANGED <<conn, up, left>> /\ UNCHANGED infoVars /\ UNCHANGED previewVars
    BY <1>1, <1>2 DEF HandleResult, Next_
  <1>4. m \in Message /\ m \in OnWire[p][n] /\ a \in Nat
    <2>1. m \in Message /\ m \in OnWire[p][n]
      BY <1>1, <1>3, HeadOnWire
    <2>2. QED
      BY <1>2, <1>3, <2>1, ExecuteTyped
  <1>5. IsAsk(a, n, p, d)
    BY <1>2, <1>3, <1>4 DEF OnWire
  <1>6. ExecOK' /\ TimersOK' /\ LogGrows
    <2>1. previewRequests' = previewRequests
      BY <1>3 DEF previewVars
    <2>2. CASE Expected(n, p, d)
      <3>1. PICK e \in pendingExecutions[n] : e.id = d /\ e.peer = p
        BY <2>2 DEF Expected, WithId
      <3>2. ASSUME NEW f \in WithId(n, d), Unique(f.no)
            PROVE  log[f.no].dir = "outgoing" /\ a = f.no
        <4>1. f = e
          BY <3>1 DEF WithId, TimersOK, TimerPerRequest
        <4>2. QED
          BY <1>5, <3>1, <3>2, <4>1, AnswersIts
      <3>3. [how |-> "result", ask |-> a] \in Ending
        BY <1>4 DEF Ending
      <3>4. Complete(n, d, "result", a)
        BY <1>3, <2>2
      <3>5. QED
        BY <2>1, <3>2, <3>3, <3>4, CompleteKeeps
    <2>3. CASE ~Expected(n, p, d)
      <3>1. UNCHANGED execVars /\ timers' = timers
        BY <1>3, <2>3
      <3>2. QED
        BY <2>1, <3>1, ExecStays, TimersStay DEF execVars
    <2>4. QED
      BY <2>2, <2>3
  <1>7. InfoOK' /\ PreviewOK' /\ ShownGrows /\ LinkOK'
    BY <1>3, InfoStays, PreviewStays, LinksStay
  <1>8. ChanOK' /\ NewsOK'
    <2>1. UNCHANGED <<up, remoteNodeInfo, caps>>
      BY <1>3 DEF infoVars
    <2>2. QED
      BY <1>1, <1>3, <1>6, <1>7, <2>1, TakeKeeps
  <1>9. QED
    BY <1>6, <1>7, <1>8

\* A timer that fires is the timer of a request that waits.
LEMMA FiringTimer ==
  ASSUME TimersOK, NEW n \in Node, NEW t \in timers[n]
  PROVE  /\ t.for = "execution" => \E e \in pendingExecutions[n] : e.id = t.id
         /\ t.for = "preview" => t.no \in previewRequests[n]
  <1>1. timers[n] = Armed(pendingExecutions[n], previewRequests[n])
    BY DEF TimersOK, TimerPerRequest, Armed, Of
  <1>2. CASE t \in Of(pendingExecutions[n])
    <2>1. PICK e \in pendingExecutions[n] : t = ExecutionTimer(e)
      BY <1>2 DEF Of
    <2>2. t.for = "execution" /\ t.id = e.id
      BY <2>1 DEF ExecutionTimer
    <2>3. QED
      BY <2>2
  <1>3. CASE t \in {PreviewTimer(k) : k \in previewRequests[n]}
    <2>1. PICK k \in previewRequests[n] : t = PreviewTimer(k)
      BY <1>3
    <2>2. t.for = "preview" /\ t.no = k
      BY <2>1 DEF PreviewTimer
    <2>3. QED
      BY <2>2
  <1>4. QED
    BY <1>1, <1>2, <1>3 DEF Armed

LEMMA ExecutionTimeoutKeeps ==
  ASSUME IInv, NEW n \in Node, NEW t, ExecutionTimeout(n, t)
  PROVE  IInv'
  <1> USE DEF IInv
  <1>1. PICK d : d = t.id
    OBVIOUS
  <1>2. Complete(n, d, "timeout", 0)
    <2>1. t \in timers[n] /\ t.for = "execution"
      BY DEF ExecutionTimeout
    <2>2. WithId(n, t.id) # {}
      BY <2>1, FiringTimer DEF WithId
    <2>3. QED
      BY <1>1, <2>2 DEF ExecutionTimeout
  <1>3. UNCHANGED linkVars /\ UNCHANGED infoVars /\ UNCHANGED previewVars /\ left' = left
    BY DEF ExecutionTimeout
  <1>4. ExecOK' /\ TimersOK' /\ LogGrows
    <2>1. previewRequests' = previewRequests
      BY <1>3 DEF previewVars
    <2>2. [how |-> "timeout", ask |-> 0] \in Ending
      BY DEF Ending
    <2>3. QED
      BY <1>2, <2>1, <2>2, CompleteKeeps
  <1>5. InfoOK' /\ PreviewOK' /\ ShownGrows /\ LinkOK'
    BY <1>3, InfoStays, PreviewStays, LinksStay DEF linkVars
  <1>6. ChanOK' /\ NewsOK'
    BY <1>3, <1>4, <1>5, ChanStays, NewsStay DEF linkVars, infoVars
  <1>7. QED
    BY <1>4, <1>5, <1>6

------------------------------------------------------------------------------
(* mesh_diff *)

Diff == [peer : Node \union {None}, todo : SUBSET Path, wait : Nat]

\* mesh_diff of n goes from one state to another in which it does not wait.
LEMMA DiffGoesOn ==
  ASSUME PreviewOK, NEW n \in Node, NEW d \in Diff, d.wait = 0,
         diff' = [diff EXCEPT ![n] = d], previewRequests' = previewRequests, shown' = shown
  PROVE  PreviewOK' /\ ShownGrows
  <1>1. diff \in [Node -> Diff]
    BY DEF PreviewOK, Diff
  <1>2. diff' \in [Node -> Diff] /\ diff'[n] = d /\ \A m \in Node : m # n => diff'[m] = diff[m]
    BY <1>1
  <1>3. AwaitedIsOpen'
    BY <1>2 DEF PreviewOK, AwaitedIsOpen
  <1>4. ShownGrows
    BY DEF ShownGrows
  <1>5. \A k \in DOMAIN shown : ShownOK(k)'
    BY DEF PreviewOK, ShownOK
  <1>6. QED
    BY <1>2, <1>3, <1>4, <1>5 DEF PreviewOK, Diff

LEMMA StartDiffKeeps ==
  ASSUME IInv, NEW n \in Node, NEW p \in Node, NEW S \in SUBSET Path, StartDiff(n, p, S)
  PROVE  IInv'
  <1> USE DEF IInv
  <1>1. PICK d : d = [peer |-> p, todo |-> S, wait |-> 0]
    OBVIOUS
  <1>2. /\ Spend("diff") /\ diff' = [diff EXCEPT ![n] = d]
        /\ conn' = conn /\ up' = up /\ chan' = chan /\ UNCHANGED infoVars /\ UNCHANGED execVars
        /\ previewRequests' = previewRequests /\ shown' = shown /\ timers' = timers
    BY <1>1 DEF StartDiff, linkVars
  <1>3. d \in Diff /\ d.wait = 0
    BY <1>1 DEF Diff
  <1>4. PreviewOK' /\ ShownGrows
    BY <1>2, <1>3, DiffGoesOn
  <1>5. LinkOK'
    <2>1. "diff" \in DOMAIN left
      BY DEF LinkOK, Budget
    <2>2. left' \in Budget
      BY <1>2, <2>1, Spending DEF LinkOK
    <2>3. QED
      BY <1>2, <2>2 DEF LinkOK
  <1>6. InfoOK' /\ ExecOK' /\ LogGrows /\ TimersOK'
    BY <1>2, InfoStays, ExecStays, TimersStay DEF execVars
  <1>7. ChanOK' /\ NewsOK'
    BY <1>2, <1>4, <1>6, ChanStays, NewsStay DEF infoVars
  <1>8. QED
    BY <1>4, <1>5, <1>6, <1>7

LEMMA EndDiffKeeps ==
  ASSUME IInv, NEW n \in Node, EndDiff(n)
  PROVE  IInv'
  <1> USE DEF IInv
  <1>1. PICK d : d = NoDiff
    OBVIOUS
  <1>2. /\ diff' = [diff EXCEPT ![n] = d] /\ left' = left
        /\ conn' = conn /\ up' = up /\ chan' = chan /\ UNCHANGED infoVars /\ UNCHANGED execVars
        /\ previewRequests' = previewRequests /\ shown' = shown /\ timers' = timers
    BY <1>1 DEF EndDiff, linkVars
  <1>3. d \in Diff /\ d.wait = 0
    BY <1>1 DEF Diff, NoDiff
  <1>4. PreviewOK' /\ ShownGrows
    BY <1>2, <1>3, DiffGoesOn
  <1>5. LinkOK' /\ InfoOK' /\ ExecOK' /\ LogGrows /\ TimersOK'
    BY <1>2, LinksStay, InfoStays, ExecStays, TimersStay DEF execVars
  <1>6. ChanOK' /\ NewsOK'
    BY <1>2, <1>4, <1>5, ChanStays, NewsStay DEF infoVars
  <1>7. QED
    BY <1>4, <1>5, <1>6

LEMMA PreviewTyped ==
  ASSUME NEW m \in Message, m.type \in {"file_preview_request", "file_preview_response"}
  PROVE  m.id \in Nat /\ m.path \in Path
  BY DEF Message

LEMMA ContentTyped ==
  ASSUME NEW m \in Message, m.type = "file_preview_response"
  PROVE  m.content \in {None} \union (Node \X Path)
  BY DEF Message

LEMMA PreviewRequestOnWire ==
  ASSUME NEW s \in Node, NEW r \in Node, NEW k \in Nat, NEW f \in Path, IsShown(k, s, r, f)'
  PROVE  PreviewRequest(k, f) \in Message /\ PreviewRequest(k, f) \in OnWire'[s][r]
         /\ PreviewRequest(k, f).type # "node_info"
  <1>1. PICK m : m = PreviewRequest(k, f)
    OBVIOUS
  <1>2. m \in Message /\ m.type = "file_preview_request" /\ m.id = k /\ m.path = f
    BY <1>1 DEF PreviewRequest, Message
  <1>3. m \in OnWire'[s][r]
    BY <1>2 DEF OnWire
  <1>4. QED
    BY <1>1, <1>2, <1>3

LEMMA PreviewResponseOnWire ==
  ASSUME NEW s \in Node, NEW r \in Node, NEW k \in Nat, NEW f \in Path, IsShown(k, r, s, f)',
         NEW d, d \in {None, <<s, f>>}
  PROVE  PreviewResponse(k, f, d) \in Message /\ PreviewResponse(k, f, d) \in OnWire'[s][r]
         /\ PreviewResponse(k, f, d).type # "node_info"
  <1>1. PICK m : m = PreviewResponse(k, f, d)
    OBVIOUS
  <1>2. /\ m \in Message /\ m.type = "file_preview_response" /\ m.id = k /\ m.path = f
        /\ m.content = d
    BY <1>1 DEF PreviewResponse, Message
  <1>3. m \in OnWire'[s][r]
    BY <1>2 DEF OnWire
  <1>4. QED
    BY <1>1, <1>2, <1>3

LEMMA TimersOfAsked ==
  ASSUME NEW P, NEW Q, NEW K, NEW R, R = Q \union K,
         NEW T, T = Armed(P, Q) \union {PreviewTimer(k) : k \in K}
  PROVE  T = Armed(P, R)
  BY DEF Armed, Of

LEMMA NextPreviewKeeps ==
  ASSUME IInv, NEW n \in Node, NEW f \in Path, NextPreview(n, f)
  PROVE  IInv'
  <1> USE DEF IInv
  <1>1. PICK p, k : p = diff[n].peer /\ k = Len(shown) + 1
    OBVIOUS
  <1>2. PICK K, got, w : /\ K = IF p \in conn[n] THEN {k} ELSE {}
                         /\ got = IF p \in conn[n] THEN <<>> ELSE <<None>>
                         /\ w = IF p \in conn[n] THEN k ELSE 0
    OBVIOUS
  <1>3. PICK d, x : /\ d = [peer |-> p, todo |-> diff[n].todo \ {f}, wait |-> w]
                    /\ x = [node |-> n, peer |-> p, path |-> f, got |-> got]
    OBVIOUS
  <1>4. /\ diff' = [diff EXCEPT ![n] = d] /\ shown' = Append(shown, x)
        /\ previewRequests' = [previewRequests EXCEPT ![n] = @ \union K]
        /\ chan' = IF p \in conn[n] THEN Sent(chan, n, p, <<PreviewRequest(k, f)>>) ELSE chan
        /\ UNCHANGED <<conn, up, left>> /\ UNCHANGED infoVars /\ UNCHANGED execVars
    BY <1>1, <1>2, <1>3 DEF NextPreview
  <1>5. timers' = [timers EXCEPT ![n] = @ \union {PreviewTimer(j) : j \in K}]
    <2>1. {PreviewTimer(j) : j \in K} = IF p \in conn[n] THEN {PreviewTimer(k)} ELSE {}
      BY <1>2
    <2>2. timers' = [timers EXCEPT ![n] = @ \union IF p \in conn[n] THEN {PreviewTimer(k)} ELSE {}]
      BY <1>1 DEF NextPreview
    <2>3. QED
      BY <2>1, <2>2
  <1>6. /\ diff \in [Node -> Diff] /\ shown \in Seq(Preview) /\ Len(shown) \in Nat
        /\ previewRequests \in [Node -> SUBSET Nat]
        /\ \A m \in Node : \A j \in previewRequests[m] :
               j \in DOMAIN shown /\ shown[j].node = m /\ shown[j].got = <<>>
        /\ \A j \in DOMAIN shown : ShownOK(j)
        /\ \A m \in Node : diff[m].wait # 0 => diff[m].wait \in previewRequests[m]
    BY DEF PreviewOK, AwaitedIsOpen, Diff
  <1>7. /\ p \in Node \union {None} /\ k \in Nat /\ w \in Nat /\ K \subseteq {k}
        /\ w # 0 => w \in K
    <2>1. diff[n] \in Diff /\ k \in Nat
      BY <1>1, <1>6
    <2>2. QED
      BY <1>1, <1>2, <2>1 DEF Diff
  <1>8. d \in Diff /\ d.wait = w
    BY <1>3, <1>6, <1>7 DEF Diff
  <1>9. /\ got \in Seq({None} \union (Node \X Path)) /\ Len(got) <= 1
        /\ \A i \in DOMAIN got : got[i] = None
        /\ k \in K => got = <<>>
    <2>1. CASE p \in conn[n]
      <3>1. got = <<>>
        BY <1>2, <2>1
      <3>2. <<>> \in Seq({None} \union (Node \X Path)) /\ Len(<<>>) <= 1 /\ DOMAIN <<>> = {}
        OBVIOUS
      <3>3. QED
        BY <3>1, <3>2
    <2>2. CASE p \notin conn[n]
      <3>1. PICK S, z : S = {None} \union (Node \X Path) /\ z = None
        OBVIOUS
      <3>2. got = <<z>> /\ k \notin K /\ z \in S
        BY <1>2, <2>2, <3>1
      <3>3. got \in Seq(S) /\ Len(got) = 1 /\ got[1] = z
        BY <3>2, One
      <3>4. \A i \in DOMAIN got : i = 1
        BY <3>3
      <3>5. QED
        BY <3>1, <3>2, <3>3, <3>4
    <2>3. QED
      BY <2>1, <2>2
  <1>10. /\ x \in Preview /\ x.node = n /\ x.peer = p /\ x.path = f /\ x.got = got
    <2>1. PICK G : G = Seq({None} \union (Node \X Path))
      OBVIOUS
    <2>2. x \in [node : Node, peer : Node \union {None}, path : Path, got : G]
      BY <1>3, <1>7, <1>9, <2>1
    <2>3. QED
      BY <1>3, <2>1, <2>2 DEF Preview
  <1>11. /\ shown' \in Seq(Preview) /\ DOMAIN shown' = 1..k /\ DOMAIN shown = 1..Len(shown)
         /\ shown'[k] = x /\ \A j \in DOMAIN shown : j # k /\ shown'[j] = shown[j]
         /\ \A j \in DOMAIN shown' : j \in DOMAIN shown \/ j = k
    <2>1. /\ shown' \in Seq(Preview) /\ Len(shown') = k /\ shown'[k] = x
          /\ \A j \in 1..Len(shown) : shown'[j] = shown[j]
      BY <1>1, <1>4, <1>6, <1>10, AppendProperties
    <2>2. QED
      BY <1>1, <1>6, <2>1
  <1>12. ShownGrows
    BY <1>1, <1>6, <1>11 DEF ShownGrows
  <1>13. \A j \in DOMAIN shown' : ShownOK(j)'
    <2>1. ASSUME NEW j \in DOMAIN shown PROVE ShownOK(j)'
      BY <1>6, <1>11, <2>1 DEF ShownOK
    <2>2. ShownOK(k)'
      BY <1>9, <1>10, <1>11 DEF ShownOK
    <2>3. QED
      BY <1>11, <2>1, <2>2
  <1>14. /\ previewRequests' \in [Node -> SUBSET Nat]
         /\ previewRequests'[n] = previewRequests[n] \union K
         /\ \A m \in Node : m # n => previewRequests'[m] = previewRequests[m]
    BY <1>4, <1>6, <1>7
  <1>15. ASSUME NEW m \in Node, NEW j \in previewRequests'[m]
         PROVE  j \in DOMAIN shown' /\ shown'[j].node = m /\ shown'[j].got = <<>>
    <2>1. CASE j \in previewRequests[m]
      <3>1. j \in DOMAIN shown /\ shown'[j] = shown[j]
        BY <1>6, <1>11, <2>1
      <3>2. j \in DOMAIN shown'
        BY <1>1, <1>6, <1>11, <3>1
      <3>3. QED
        BY <1>6, <2>1, <3>1, <3>2
    <2>2. CASE j \notin previewRequests[m]
      <3>1. m = n /\ j = k /\ k \in K
        BY <1>7, <1>14, <2>2
      <3>2. k \in DOMAIN shown'
        BY <1>1, <1>6, <1>11
      <3>3. QED
        BY <1>9, <1>10, <1>11, <3>1, <3>2
    <2>3. QED
      BY <2>1, <2>2
  <1>16. diff' \in [Node -> Diff] /\ AwaitedIsOpen'
    <2>1. diff' \in [Node -> Diff] /\ diff'[n] = d /\ \A m \in Node : m # n => diff'[m] = diff[m]
      BY <1>4, <1>6, <1>8
    <2>2. QED
      BY <1>6, <1>7, <1>8, <1>14, <2>1 DEF AwaitedIsOpen
  <1>17. PreviewOK'
    BY <1>11, <1>13, <1>14, <1>15, <1>16 DEF PreviewOK, Diff
  <1>18. LinkOK' /\ InfoOK' /\ ExecOK' /\ LogGrows
    BY <1>4, LinksStay, InfoStays, ExecStays
  <1>19. TimersOK'
    <2>1. ASSUME NEW m \in Node
          PROVE  timers'[m] = Armed(pendingExecutions'[m], previewRequests'[m])
      <3>1. timers[m] = Armed(pendingExecutions[m], previewRequests[m])
            /\ pendingExecutions'[m] = pendingExecutions[m]
        BY <1>4 DEF TimersOK, TimerPerRequest, Armed, Of, execVars
      <3>2. CASE m = n
        <4>1. PICK P, Q : P = pendingExecutions[m] /\ Q = previewRequests[m]
          OBVIOUS
        <4>2. PICK R, T : R = Q \union K /\ T = Armed(P, Q) \union {PreviewTimer(j) : j \in K}
          OBVIOUS
        <4>3. T = Armed(P, R)
          BY <4>2, TimersOfAsked
        <4>4. timers'[m] = timers[m] \union {PreviewTimer(j) : j \in K}
          BY <1>5, <3>2 DEF TimersOK
        <4>5. QED
          BY <1>14, <3>1, <3>2, <4>1, <4>2, <4>3, <4>4
      <3>3. CASE m # n
        <4>1. timers'[m] = timers[m]
          BY <1>5, <3>3 DEF TimersOK
        <4>2. QED
          BY <1>14, <3>1, <3>3, <4>1
      <3>4. QED
        BY <3>2, <3>3
    <2>2. {PreviewTimer(j) : j \in K} \subseteq Timer
      BY <1>7 DEF PreviewTimer, Timer, Id
    <2>3. timers' \in [Node -> SUBSET Timer]
      BY <1>5, <2>2 DEF TimersOK
    <2>4. \A m \in Node : \A e, g \in pendingExecutions'[m] : e.id = g.id => e = g
      BY <1>4 DEF TimersOK, TimerPerRequest, execVars
    <2>5. QED
      BY <2>1, <2>3, <2>4 DEF TimersOK, TimerPerRequest, Armed, Of
  <1>20. ChanOK' /\ NewsOK'
    <2>1. UNCHANGED <<up, remoteNodeInfo, caps>>
      BY <1>4 DEF infoVars
    <2>2. CASE p \in conn[n]
      <3>1. p \in Node
        BY <2>2 DEF LinkOK
      <3>2. PICK m : m = PreviewRequest(k, f)
        OBVIOUS
      <3>3. IsShown(k, n, p, f)'
        BY <1>1, <1>6, <1>10, <1>11 DEF IsShown
      <3>4. m \in Message /\ m \in OnWire'[n][p] /\ m.type # "node_info"
        BY <1>7, <3>1, <3>2, <3>3, PreviewRequestOnWire
      <3>5. chan' = Sent(chan, n, p, <<m>>)
        BY <1>4, <2>2, <3>2
      <3>6. QED
        BY <1>12, <1>18, <2>1, <3>1, <3>4, <3>5, SendKeeps
    <2>3. CASE p \notin conn[n]
      <3>1. chan' = chan
        BY <1>4, <2>3
      <3>2. QED
        BY <1>12, <1>18, <2>1, <3>1, ChanStays, NewsStay
    <2>4. QED
      BY <2>2, <2>3
  <1>21. QED
    BY <1>17, <1>18, <1>19, <1>20

LEMMA HandlePreviewRequestKeeps ==
  ASSUME IInv, NEW n \in Node, NEW p \in Node, NEW d, HandlePreviewRequest(n, p, d)
  PROVE  IInv'
  <1> USE DEF IInv
  <1>1. PICK m, k, f : m = Head(chan[p][n]) /\ k = m.id /\ f = m.path
    OBVIOUS
  <1>2. /\ chan[p][n] # <<>> /\ m.type = "file_preview_request" /\ d \in {None, <<n, f>>}
        /\ chan' = Sent(Take(p, n), n, p, <<PreviewResponse(k, f, d)>>)
        /\ UNCHANGED <<conn, up, left, timers>> /\ UNCHANGED infoVars /\ UNCHANGED execVars
        /\ UNCHANGED previewVars
    BY <1>1 DEF HandlePreviewRequest, Next_
  <1>3. m \in Message /\ m \in OnWire[p][n] /\ k \in Nat /\ f \in Path
    <2>1. m \in Message /\ m \in OnWire[p][n]
      BY <1>1, <1>2, HeadOnWire
    <2>2. QED
      BY <1>1, <1>2, <2>1, PreviewTyped
  <1>4. IsShown(k, p, n, f)
    BY <1>1, <1>2, <1>3 DEF OnWire
  <1>5. LinkOK' /\ InfoOK' /\ ExecOK' /\ LogGrows /\ PreviewOK' /\ ShownGrows /\ TimersOK'
    BY <1>2, LinksStay, InfoStays, ExecStays, PreviewStays, TimersStay DEF execVars, previewVars
  <1>6. ChanOK' /\ NewsOK'
    <2>1. PICK r : r = PreviewResponse(k, f, d)
      OBVIOUS
    <2>2. IsShown(k, p, n, f)'
      BY <1>4, <1>5 DEF ShownGrows, IsShown
    <2>3. r \in Message /\ r \in OnWire'[n][p] /\ r.type # "node_info"
      BY <1>2, <1>3, <2>1, <2>2, PreviewResponseOnWire
    <2>4. chan' = Sent(Take(p, n), n, p, <<r>>) /\ UNCHANGED <<up, remoteNodeInfo, caps>>
      BY <1>2, <2>1 DEF infoVars
    <2>5. Head(chan[p][n]).type # "node_info"
      BY <1>1, <1>2
    <2>6. QED
      BY <1>2, <1>5, <2>3, <2>4, <2>5, TakeKeeps
  <1>7. QED
    BY <1>5, <1>6

LEMMA HandlePreviewResponseKeeps ==
  ASSUME IInv, NEW n \in Node, NEW p \in Node, HandlePreviewResponse(n, p)
  PROVE  IInv'
  <1> USE DEF IInv
  <1>1. PICK m, d, K : m = Head(chan[p][n]) /\ d = m.content /\ K = Awaited(n, m)
    OBVIOUS
  <1>2. /\ chan[p][n] # <<>> /\ m.type = "file_preview_response"
        /\ Resolve(n, K, d) /\ chan' = Take(p, n)
        /\ UNCHANGED <<conn, up, left>> /\ UNCHANGED infoVars /\ UNCHANGED execVars
    BY <1>1 DEF HandlePreviewResponse, Next_
  <1>3. m \in Message /\ m \in OnWire[p][n] /\ d \in {None} \union (Node \X Path)
    <2>1. m \in Message /\ m \in OnWire[p][n]
      BY <1>1, <1>2, HeadOnWire
    <2>2. QED
      BY <1>1, <1>2, <2>1, ContentTyped
  <1>4. IsShown(m.id, n, p, m.path) /\ d \in {None, <<p, m.path>>}
    BY <1>1, <1>2, <1>3 DEF OnWire
  <1>5. K \subseteq previewRequests[n] /\ \A k \in K : k = m.id
    BY <1>1 DEF Awaited
  <1>6. \A k \in K : d \in {None, <<shown[k].peer, shown[k].path>>}
    BY <1>4, <1>5 DEF IsShown
  <1>7. LinkOK' /\ InfoOK' /\ ExecOK' /\ LogGrows /\ pendingExecutions' = pendingExecutions
    BY <1>2, LinksStay, InfoStays, ExecStays DEF execVars
  <1>8. PreviewOK' /\ TimersOK' /\ ShownGrows
    BY <1>2, <1>3, <1>5, <1>6, <1>7, ResolveKeeps
  <1>9. ChanOK' /\ NewsOK'
    <2>1. UNCHANGED <<up, remoteNodeInfo, caps>> /\ Head(chan[p][n]).type # "node_info"
      BY <1>1, <1>2 DEF infoVars
    <2>2. QED
      BY <1>2, <1>7, <1>8, <2>1, TakeKeeps
  <1>10. QED
    BY <1>7, <1>8, <1>9

LEMMA PreviewTimeoutKeeps ==
  ASSUME IInv, NEW n \in Node, NEW t, PreviewTimeout(n, t)
  PROVE  IInv'
  <1> USE DEF IInv
  <1>1. PICK K : K = {t.no}
    OBVIOUS
  <1>2. /\ t \in timers[n] /\ t.for = "preview" /\ Resolve(n, K, None)
        /\ UNCHANGED linkVars /\ UNCHANGED infoVars /\ UNCHANGED execVars /\ left' = left
    BY <1>1 DEF PreviewTimeout
  <1>3. K \subseteq previewRequests[n]
    BY <1>1, <1>2, FiringTimer
  <1>4. LinkOK' /\ InfoOK' /\ ExecOK' /\ LogGrows /\ pendingExecutions' = pendingExecutions
    BY <1>2, LinksStay, InfoStays, ExecStays DEF linkVars, execVars
  <1>5. PreviewOK' /\ TimersOK' /\ ShownGrows
    <2>1. PICK d : d = None
      OBVIOUS
    <2>2. /\ d \in {None} \union (Node \X Path)
          /\ \A k \in K : d \in {None, <<shown[k].peer, shown[k].path>>}
      BY <2>1
    <2>3. Resolve(n, K, d)
      BY <1>2, <2>1
    <2>4. QED
      BY <1>3, <1>4, <2>2, <2>3, ResolveKeeps
  <1>6. ChanOK' /\ NewsOK'
    BY <1>2, <1>4, <1>5, ChanStays, NewsStay DEF linkVars, infoVars
  <1>7. QED
    BY <1>4, <1>5, <1>6

------------------------------------------------------------------------------
(* Stopping *)

LEMMA StopKeeps ==
  ASSUME IInv, NEW n \in Node, NEW exits \in BOOLEAN, Stop(n, exits)
  PROVE  IInv'
  <1> USE DEF IInv
  <1>1. /\ Spend("stop") /\ up' = {l \in up : n \notin l} /\ conn' = [conn EXCEPT ![n] = {}]
        /\ chan' = IF exits THEN [s \in Node |-> [chan[s] EXCEPT ![n] = <<>>]] ELSE chan
        /\ pendingExecutions' = [pendingExecutions EXCEPT ![n] = {}] /\ log' = log
        /\ asked' = [asked EXCEPT ![n] = [p \in Node |-> <<>>]]
        /\ stale' = {e \in stale : e[1] # n} \union
               (IF exits THEN {} ELSE {<<n, p>> : p \in Node})
        /\ previewRequests' = [previewRequests EXCEPT ![n] = {}]
        /\ timers' = [timers EXCEPT ![n] = {}]
        /\ caps' = IF exits THEN [caps EXCEPT ![n] = {}] ELSE caps
    BY DEF Stop
  <1>2. /\ remoteNodeInfo' = IF exits THEN [remoteNodeInfo EXCEPT ![n] = [p \in Node |-> {}]]
                             ELSE remoteNodeInfo
        /\ autoRequested' = IF exits THEN [autoRequested EXCEPT ![n] = [p \in Node |-> {}]]
                            ELSE autoRequested
    BY DEF Stop
  <1>3. LinkOK'
    <2>1. "stop" \in DOMAIN left
      BY DEF LinkOK, Budget
    <2>2. left' \in Budget
      BY <1>1, <2>1, Spending DEF LinkOK
    <2>3. /\ conn' \in [Node -> SUBSET Node] /\ conn'[n] = {}
          /\ \A x \in Node : x # n => conn'[x] = conn[x]
      BY <1>1 DEF LinkOK
    <2>4. up' \subseteq Linked /\ \A x \in Node : x \notin conn'[x]
      BY <1>1, <2>3 DEF LinkOK
    <2>5. ASSUME NEW x \in Node, NEW y \in Node, {x, y} \in up' PROVE y \in conn'[x]
      <3>1. {x, y} \in up /\ x # n
        BY <1>1, <2>5
      <3>2. QED
        BY <2>3, <3>1 DEF LinkOK
    <2>6. QED
      BY <2>2, <2>3, <2>4, <2>5 DEF LinkOK
  <1>4. /\ remoteNodeInfo' \in [Node -> [Node -> SUBSET Cap]]
        /\ autoRequested' \in [Node -> [Node -> SUBSET Cap]]
        /\ \A x, y \in Node : x # n => /\ remoteNodeInfo'[x][y] = remoteNodeInfo[x][y]
                                       /\ autoRequested'[x][y] = autoRequested[x][y]
        /\ \A y \in Node : exits => remoteNodeInfo'[n][y] = {} /\ autoRequested'[n][y] = {}
    <2>1. PICK z : z = [p \in Node |-> {}]
      OBVIOUS
    <2>2. z \in [Node -> SUBSET Cap] /\ \A p \in Node : z[p] = {}
      BY <2>1
    <2>3. /\ remoteNodeInfo' = IF exits THEN [remoteNodeInfo EXCEPT ![n] = z] ELSE remoteNodeInfo
          /\ autoRequested' = IF exits THEN [autoRequested EXCEPT ![n] = z] ELSE autoRequested
      BY <1>2, <2>1
    <2>4. /\ remoteNodeInfo \in [Node -> [Node -> SUBSET Cap]]
          /\ autoRequested \in [Node -> [Node -> SUBSET Cap]]
      BY DEF InfoOK
    <2>5. QED
      BY <2>2, <2>3, <2>4
  <1>5. /\ asked' \in [Node -> [Node -> Seq(Cap)]]
        /\ \A y \in Node : asked'[n][y] = <<>>
        /\ \A x, y \in Node : x # n => asked'[x][y] = asked[x][y]
    <2>1. PICK z : z = [p \in Node |-> <<>>]
      OBVIOUS
    <2>2. z \in [Node -> Seq(Cap)] /\ \A p \in Node : z[p] = <<>>
      BY <2>1
    <2>3. asked' = [asked EXCEPT ![n] = z] /\ asked \in [Node -> [Node -> Seq(Cap)]]
      BY <1>1, <2>1 DEF InfoOK
    <2>4. QED
      BY <2>2, <2>3
  <1>6. /\ caps' \in [Node -> FiniteCaps] /\ \A x \in Node : x # n => caps'[x] = caps[x]
    <2>1. {} \in FiniteCaps
      BY FS_EmptySet DEF FiniteCaps
    <2>2. PICK z \in FiniteCaps : z = {}
      BY <2>1
    <2>3. caps' = IF exits THEN [caps EXCEPT ![n] = z] ELSE caps
      BY <1>1, <2>2
    <2>4. caps \in [Node -> FiniteCaps]
      BY DEF InfoOK
    <2>5. QED
      BY <2>2, <2>3, <2>4
  <1>7. InfoOK'
    <2>1. ASSUME NEW x \in Node, NEW y \in Node
          PROVE  /\ IsInjective(asked'[x][y])
                 /\ ToSet(asked'[x][y]) \subseteq autoRequested'[x][y]
                 /\ <<x, y>> \notin stale' =>
                        remoteNodeInfo'[x][y] \union autoRequested'[x][y]
                        \subseteq ToSet(asked'[x][y])
      <3>1. CASE x = n
        <4>1. asked'[x][y] = <<>>
          BY <1>5, <3>1
        <4>2. IsInjective(<<>>) /\ ToSet(<<>>) = {}
          BY DEF IsInjective, ToSet
        <4>3. <<x, y>> \notin stale' => exits
          BY <1>1, <3>1
        <4>4. QED
          BY <1>4, <3>1, <4>1, <4>2, <4>3
      <3>2. CASE x # n
        <4>1. /\ IsInjective(asked[x][y]) /\ ToSet(asked[x][y]) \subseteq autoRequested[x][y]
              /\ <<x, y>> \notin stale => remoteNodeInfo[x][y] \union autoRequested[x][y]
                                          \subseteq ToSet(asked[x][y])
          BY DEF InfoOK
        <4>2. <<x, y>> \notin stale' => <<x, y>> \notin stale
          BY <1>1, <3>2
        <4>3. /\ remoteNodeInfo'[x][y] = remoteNodeInfo[x][y]
              /\ autoRequested'[x][y] = autoRequested[x][y] /\ asked'[x][y] = asked[x][y]
          BY <1>4, <1>5, <3>2
        <4>4. QED
          BY <4>1, <4>2, <4>3
      <3>3. QED
        BY <3>1, <3>2
    <2>2. stale' \subseteq Node \X Node
      BY <1>1 DEF InfoOK
    <2>3. QED
      BY <1>4, <1>5, <1>6, <2>1, <2>2 DEF InfoOK
  <1>8. LogGrows /\ ExecOK'
    <2>1. LogGrows
      BY <1>1 DEF LogGrows
    <2>2. /\ pendingExecutions' \in [Node -> SUBSET Entry]
          /\ \A m \in Node : pendingExecutions'[m] \subseteq pendingExecutions[m]
      BY <1>1 DEF ExecOK
    <2>3. \A k \in DOMAIN log' : LoggedOK(k)'
      BY <1>1, <2>1, LoggedStays
    <2>4. \A m \in Node : \A e \in pendingExecutions'[m] : EntryOK(m, e)'
      BY <1>1, <2>2 DEF ExecOK, EntryOK
    <2>5. log' \in Seq(LogEntry)
      BY <1>1 DEF ExecOK
    <2>6. QED
      BY <2>1, <2>2, <2>3, <2>4, <2>5 DEF ExecOK
  <1>9. PICK K, d : K = previewRequests[n] /\ d = None
    OBVIOUS
  <1>10. /\ previewRequests \in [Node -> SUBSET Nat] /\ diff \in [Node -> Diff]
         /\ \A m \in Node : \A k \in previewRequests[m] :
                k \in DOMAIN shown /\ shown[k].node = m /\ shown[k].got = <<>>
         /\ \A m \in Node : diff[m].wait # 0 => diff[m].wait \in previewRequests[m]
    BY DEF PreviewOK, AwaitedIsOpen, Diff
  <1>11. /\ shown' \in Seq(Preview) /\ DOMAIN shown' = DOMAIN shown /\ ShownGrows
         /\ \A k \in DOMAIN shown' : ShownOK(k)'
         /\ \A k \in DOMAIN shown : k \notin K => shown'[k] = shown[k]
    <2>1. shown' = [k \in DOMAIN shown |->
              IF k \in K THEN [shown[k] EXCEPT !.got = Append(@, d)] ELSE shown[k]]
      BY <1>9 DEF Stop
    <2>2. K \subseteq DOMAIN shown /\ \A k \in K : shown[k].got = <<>>
      BY <1>9, <1>10
    <2>3. /\ d \in {None} \union (Node \X Path)
          /\ \A k \in K : d \in {None, <<shown[k].peer, shown[k].path>>}
      BY <1>9
    <2>4. QED
      BY <2>1, <2>2, <2>3, Resolved
  <1>12. /\ previewRequests' \in [Node -> SUBSET Nat] /\ previewRequests'[n] = {}
         /\ \A m \in Node : m # n => previewRequests'[m] = previewRequests[m]
    BY <1>1, <1>10
  <1>13. /\ diff' \in [Node -> Diff] /\ diff'[n].wait = 0
         /\ \A m \in Node : m # n => diff'[m] = diff[m]
    <2>1. PICK x : x = diff[n]
      OBVIOUS
    <2>2. PICK y : y = [x EXCEPT !.wait = 0]
      OBVIOUS
    <2>3. x \in Diff /\ y \in Diff /\ y.wait = 0
      BY <1>10, <2>1, <2>2 DEF Diff
    <2>4. NoDiff \in Diff /\ NoDiff.wait = 0
      BY DEF NoDiff, Diff
    <2>5. PICK z : z = IF exits THEN NoDiff ELSE y
      OBVIOUS
    <2>6. z \in Diff /\ z.wait = 0
      BY <2>3, <2>4, <2>5
    <2>7. diff' = [diff EXCEPT ![n] = z]
      BY <2>1, <2>2, <2>5 DEF Stop
    <2>8. QED
      BY <1>10, <2>6, <2>7
  <1>14. PreviewOK'
    <2>1. ASSUME NEW m \in Node, NEW k \in previewRequests'[m]
          PROVE  k \in DOMAIN shown' /\ shown'[k].node = m /\ shown'[k].got = <<>>
      <3>1. m # n /\ k \in previewRequests[m]
        BY <1>12, <2>1
      <3>2. k \notin K /\ k \in DOMAIN shown
        BY <1>9, <1>10, <3>1
      <3>3. QED
        BY <1>10, <1>11, <3>1, <3>2
    <2>2. AwaitedIsOpen'
      BY <1>10, <1>12, <1>13 DEF AwaitedIsOpen
    <2>3. QED
      BY <1>11, <1>12, <1>13, <2>1, <2>2 DEF PreviewOK, Diff
  <1>15. TimersOK'
    <2>1. ASSUME NEW m \in Node
          PROVE  /\ timers'[m] = Armed(pendingExecutions'[m], previewRequests'[m])
                 /\ \A e, g \in pendingExecutions'[m] : e.id = g.id => e = g
      <3>1. CASE m = n
        <4>1. timers'[m] = {} /\ pendingExecutions'[m] = {} /\ previewRequests'[m] = {}
          BY <1>1, <1>12, <3>1 DEF TimersOK, ExecOK
        <4>2. QED
          BY <4>1 DEF Armed, Of
      <3>2. CASE m # n
        <4>1. /\ timers'[m] = timers[m] /\ pendingExecutions'[m] = pendingExecutions[m]
              /\ previewRequests'[m] = previewRequests[m]
          BY <1>1, <1>12, <3>2 DEF TimersOK, ExecOK
        <4>2. QED
          BY <4>1 DEF TimersOK, TimerPerRequest, Armed, Of
      <3>3. QED
        BY <3>1, <3>2
    <2>2. timers' \in [Node -> SUBSET Timer]
      BY <1>1 DEF TimersOK
    <2>3. QED
      BY <2>1, <2>2 DEF TimersOK, TimerPerRequest, Armed, Of
  <1>16. PICK W : W = OnWire'
    OBVIOUS
  <1>17. Fits(chan, W)
    BY <1>8, <1>11, <1>16, QueuesGrow
  <1>18. /\ Fits(chan', W)
         /\ \A x, y \in Node : y # n => chan'[x][y] = chan[x][y]
    <2>1. CASE ~exits
      BY <1>1, <1>17, <2>1
    <2>2. CASE exits
      <3>1. /\ chan \in [Node -> [Node -> Seq(Message)]]
            /\ \A x, y \in Node : chan[x][y] \in Seq(W[x][y])
        BY <1>17 DEF Fits
      <3>2. chan' = [s \in Node |-> [chan[s] EXCEPT ![n] = <<>>]]
        BY <1>1, <2>2
      <3>3. ASSUME NEW x \in Node
            PROVE  /\ chan'[x] \in [Node -> Seq(Message)] /\ chan'[x][n] = <<>>
                   /\ \A y \in Node : y # n => chan'[x][y] = chan[x][y]
        BY <3>1, <3>2
      <3>4. chan' \in [Node -> [Node -> Seq(Message)]]
        BY <3>2, <3>3
      <3>5. \A x, y \in Node : <<>> \in Seq(W[x][y])
        OBVIOUS
      <3>6. ASSUME NEW x \in Node, NEW y \in Node
            PROVE  chan'[x][y] \in Seq(W[x][y])
        <4>1. CASE y = n
          BY <3>3, <3>5, <4>1
        <4>2. CASE y # n
          <5>1. chan'[x][y] = chan[x][y]
            BY <3>3, <4>2
          <5>2. QED
            BY <3>1, <5>1
        <4>3. QED
          BY <4>1, <4>2
      <3>7. QED
        BY <3>3, <3>4, <3>6 DEF Fits
    <2>3. QED
      BY <2>1, <2>2
  <1>19. ChanOK'
    BY <1>16, <1>18 DEF Fits, ChanOK
  <1>20. NewsOK'
    <2>1. ASSUME NEW x \in Node, NEW y \in Node, {x, y} \in up'
          PROVE  Tells(chan'[y][x], remoteNodeInfo'[x][y], caps'[y])
      <3>1. {x, y} \in up /\ x # n /\ y # n
        BY <1>1, <2>1
      <3>2. /\ chan'[y][x] = chan[y][x] /\ remoteNodeInfo'[x][y] = remoteNodeInfo[x][y]
            /\ caps'[y] = caps[y]
        BY <1>4, <1>6, <1>18, <3>1
      <3>3. QED
        BY <3>1, <3>2 DEF NewsOK
    <2>2. QED
      BY <2>1 DEF NewsOK, Tells
  <1>21. QED
    BY <1>3, <1>7, <1>8, <1>14, <1>15, <1>19, <1>20

------------------------------------------------------------------------------
(* The invariant *)

LEMMA InitEstablishes ==
  ASSUME Init
  PROVE  IInv
  <1> USE DEF Init
  <1>1. LinkOK
    BY RequestsAssumption DEF LinkOK
  <1>2. InfoOK
    <2>1. {} \in FiniteCaps
      BY FS_EmptySet DEF FiniteCaps
    <2>2. caps \in [Node -> FiniteCaps]
      BY <2>1
    <2>3. asked \in [Node -> [Node -> Seq(Cap)]]
      OBVIOUS
    <2>4. IsInjective(<<>>) /\ ToSet(<<>>) = {}
      BY DEF IsInjective, ToSet
    <2>5. QED
      BY <2>2, <2>3, <2>4 DEF InfoOK
  <1>3. ChanOK
    <2>1. chan \in [Node -> [Node -> Seq(Message)]]
      OBVIOUS
    <2>2. \A s, r \in Node : chan[s][r] \in Seq(OnWire[s][r])
      OBVIOUS
    <2>3. QED
      BY <2>1, <2>2 DEF ChanOK
  <1>4. NewsOK
    BY DEF NewsOK
  <1>5. ExecOK
    BY DEF ExecOK
  <1>6. PreviewOK
    <2>1. diff \in [Node -> Diff] /\ \A n \in Node : diff[n].wait = 0
      BY DEF NoDiff, Diff
    <2>2. QED
      BY <2>1 DEF PreviewOK, AwaitedIsOpen, Diff
  <1>7. TimersOK
    BY DEF TimersOK, TimerPerRequest
  <1>8. QED
    BY <1>1, <1>2, <1>3, <1>4, <1>5, <1>6, <1>7 DEF IInv

LEMMA StutterKeeps ==
  ASSUME IInv, UNCHANGED vars
  PROVE  IInv'
  <1> USE DEF IInv
  <1>1. /\ UNCHANGED linkVars /\ UNCHANGED infoVars /\ UNCHANGED execVars
        /\ UNCHANGED previewVars /\ timers' = timers /\ left' = left
    BY DEF vars
  <1>2. LinkOK' /\ InfoOK' /\ ExecOK' /\ LogGrows /\ PreviewOK' /\ ShownGrows /\ TimersOK'
    BY <1>1, LinksStay, InfoStays, ExecStays, PreviewStays, TimersStay
       DEF linkVars, execVars, previewVars
  <1>3. ChanOK' /\ NewsOK'
    BY <1>1, <1>2, ChanStays, NewsStay DEF linkVars, infoVars
  <1>4. QED
    BY <1>2, <1>3

LEMMA StepKeeps == IInv /\ [Next]_vars => IInv'
  <1>1. SUFFICES ASSUME IInv, [Next]_vars PROVE IInv'
    OBVIOUS
  <1>2. CASE UNCHANGED vars
    BY <1>1, <1>2, StutterKeeps
  <1>3. CASE UserNext
    <2>1. CASE \E n, p \in Node : Connect(n, p)
      BY <1>1, <2>1, ConnectKeeps
    <2>2. CASE \E l \in up : LinkDown(l)
      BY <1>1, <2>2, LinkDownKeeps
    <2>3. CASE \E n \in Node, S \in SUBSET Cap : Advertise(n, S)
      BY <1>1, <2>3, AdvertiseKeeps
    <2>4. CASE \E n, p \in Node, id \in CallerId \union {None} : Ask(n, p, id)
      BY <1>1, <2>4, AskKeeps
    <2>5. CASE \E n \in Node : \E e \in pendingExecutions[n] : Respond(n, e)
      BY <1>1, <2>5, RespondKeeps
    <2>6. CASE \E n, p \in Node, S \in SUBSET Path : StartDiff(n, p, S)
      BY <1>1, <2>6, StartDiffKeeps
    <2>7. CASE \E n \in Node, exits \in BOOLEAN : Stop(n, exits)
      BY <1>1, <2>7, StopKeeps
    <2>8. QED
      BY <1>3, <2>1, <2>2, <2>3, <2>4, <2>5, <2>6, <2>7 DEF UserNext
  <1>4. CASE SystemNext
    <2>1. CASE \E n, p \in Node : Notice(n, p)
      BY <1>1, <2>1, NoticeKeeps
    <2>2. ASSUME NEW n \in Node, NEW p \in Node, Handle(n, p) PROVE IInv'
      <3>1. CASE HandleNodeInfo(n, p)
        BY <1>1, <3>1, HandleNodeInfoKeeps
      <3>2. CASE HandleExecute(n, p)
        BY <1>1, <3>2, HandleExecuteKeeps
      <3>3. CASE HandleResult(n, p)
        BY <1>1, <3>3, HandleResultKeeps
      <3>4. CASE \E d \in {None} \union ({n} \X Path) : HandlePreviewRequest(n, p, d)
        <4>1. PICK d : HandlePreviewRequest(n, p, d)
          BY <3>4
        <4>2. QED
          BY <1>1, <4>1, HandlePreviewRequestKeeps
      <3>5. CASE HandlePreviewResponse(n, p)
        BY <1>1, <3>5, HandlePreviewResponseKeeps
      <3>6. QED
        BY <2>2, <3>1, <3>2, <3>3, <3>4, <3>5 DEF Handle
    <2>3. ASSUME NEW n \in Node, Fire(n) PROVE IInv'
      BY <1>1, <2>3, ExecutionTimeoutKeeps, PreviewTimeoutKeeps DEF Fire
    <2>4. ASSUME NEW n \in Node, Continue(n) PROVE IInv'
      BY <1>1, <2>4, EndDiffKeeps, NextPreviewKeeps DEF Continue
    <2>5. QED
      BY <1>4, <2>1, <2>2, <2>3, <2>4 DEF SystemNext
  <1>5. QED
    BY <1>1, <1>2, <1>3, <1>4 DEF Next

\* The tables, the timers, the messages on the way and the history agree, at
\* every step of the handlers, timers and tools of transport.ts.
THEOREM Invariance == Spec => []IInv
  BY InitEstablishes, StepKeeps, PTL DEF Spec

------------------------------------------------------------------------------
(* What follows from it *)

\* Every variable keeps its type, and nobody is connected to himself.
THEOREM TypeCorrect == Spec => []TypeOK
  <1>1. IInv => TypeOK
    <2>1. SUFFICES ASSUME IInv PROVE TypeOK
      OBVIOUS
    <2>2. caps \in [Node -> SUBSET Cap]
      BY <2>1 DEF IInv, InfoOK, FiniteCaps
    <2>3. QED
      BY <2>1, <2>2 DEF IInv, LinkOK, InfoOK, ChanOK, ExecOK, PreviewOK, TimersOK, TypeOK
  <1>2. QED
    BY <1>1, Invariance, PTL

\* A table has one entry for an id, and the timers that are set are those of
\* the requests that wait: none outlives its request to end a later one
\* (transport.ts:403-442, 372-401, 1949-1980).
THEOREM OneTimerPerRequest == Spec => []TimerPerRequest
  <1>1. IInv => TimerPerRequest
    BY DEF IInv, TimersOK
  <1>2. QED
    BY <1>1, Invariance, PTL

\* A request ends at most once, whether an answer, a timeout, another request
\* under its id or a stop comes first (transport.ts:372-401, 1148-1190).
THEOREM RequestsEndOnce == Spec => []EndsOnce
  <1>1. IInv => EndsOnce
    BY DEF IInv, ExecOK, LoggedOK, PreviewOK, ShownOK, EndsOnce
  <1>2. QED
    BY <1>1, Invariance, PTL

\* A result ends the request that it answers, as long as two nodes have not
\* used one id twice between them (transport.ts:375, 1359-1373).
THEOREM AnswersMatch == Spec => []AnswerMatches
  <1>1. IInv => AnswerMatches
    BY DEF IInv, ExecOK, LoggedOK, AnswerMatches
  <1>2. QED
    BY <1>1, Invariance, PTL

\* Over one connection no capability is asked for twice, however often the peer
\* takes it back and advertises it again (transport.ts:741-752).
THEOREM NotAskedTwice == Spec => []AskedOnce
  <1>1. IInv => AskedOnce
    BY DEF IInv, InfoOK, AskedOnce
  <1>2. QED
    BY <1>1, Invariance, PTL

\* A file is compared with the peer's content of that file or with nothing
\* (transport.ts:1148-1190, tools/diff.ts:202-215).
THEOREM NeverMixedUp == Spec => []ComparedWithItself
  <1>1. IInv => ComparedWithItself
    BY DEF IInv, PreviewOK, ShownOK, ComparedWithItself
  <1>2. QED
    BY <1>1, Invariance, PTL

\* A waiting mesh_diff waits for a request that is still in the table, where
\* an answer, the timer or a stop finds it (transport.ts:1148-1190, 1561-1595,
\* 1949-1980).
THEOREM NeverStranded == Spec => []AwaitedIsOpen
  <1>1. IInv => AwaitedIsOpen
    BY DEF IInv, PreviewOK
  <1>2. QED
    BY <1>1, Invariance, PTL

\* Once all that a connected peer has sent is handled, what it advertises by
\* now has been asked for, unless what is known of the peer dates from an
\* earlier connection (transport.ts:741-752, 352-355).
THEOREM NothingMissed == Spec => []AdvertisedIsAsked
  <1>1. IInv => AdvertisedIsAsked
    <2>1. SUFFICES ASSUME IInv, NEW n \in Node, NEW p \in Node,
                          {n, p} \in up, chan[p][n] = <<>>
                   PROVE  caps[p] \subseteq ToSet(asked[n][p]) \/ <<n, p>> \in stale
      BY DEF AdvertisedIsAsked
    <2>2. Tells(<<>>, remoteNodeInfo[n][p], caps[p])
      BY <2>1 DEF IInv, NewsOK
    <2>3. remoteNodeInfo[n][p] = caps[p]
      BY <2>2 DEF Tells
    <2>4. <<n, p>> \notin stale => remoteNodeInfo[n][p] \subseteq ToSet(asked[n][p])
      BY <2>1 DEF IInv, InfoOK
    <2>5. QED
      BY <2>3, <2>4
  <1>2. QED
    BY <1>1, Invariance, PTL

==============================================================================
