--------------------------- MODULE PeerSessionProofs ---------------------------
(***************************************************************************)
(* Nobody joins without the consent of both users: invariants of the       *)
(* sessions, for any nodes, names, keys and dials.                         *)
(*                                                                         *)
(* The argument: an entry of the tables names an open socket of its own    *)
(* name, so that closing one entry's socket touches no other entry; a name *)
(* stands for one peer; who dials has agreed, and so has who trusts, and   *)
(* who sends an approval that is still on the wire or in a queue.          *)
(*                                                                         *)
(* The second part is about keys: the key of a connection is the one that  *)
(* is trusted, although a late proof overwrites it.                        *)
(*                                                                         *)
(* The third part is about order: an approval finds the proof it is for.   *)
(* On a dialler's only link to a listener, the listener gets the           *)
(* dialler's proof after the dialler's challenge, which it has answered by *)
(* then, and approves after that proof; so the dialler gets the listener's *)
(* proof before the approval.                                              *)
(***************************************************************************)
EXTENDS PeerSession, SequenceTheorems, TLAPS

------------------------------------------------------------------------------
(* The invariant *)

ShapeOK ==
    /\ up \in [Link -> BOOLEAN]
    /\ sock \in [Link -> [Node -> EndState]]
    /\ nonce \in [Node -> [Name -> 0..MaxDials]]
    /\ remote \in [Node -> [Name -> SUBSET {"node_info", "manifest"}]]
    /\ busy \in [Node -> [Name -> BOOLEAN]]
    /\ batch \in {NoBatch} \union (Link \X Node)
    /\ key \in [Node -> Key]
    /\ left \in Budget
    /\ agreed \in [Node -> SUBSET Name]

\* Who has dialled has agreed.
LinkOK ==
    /\ link \in [Link -> {NoLink} \union [from : Node, to : Node]]
    /\ \A c \in Link : link[c] # NoLink =>
           /\ link[c].from # link[c].to
           /\ DialName[link[c].to] \in agreed[link[c].from]

\* So has who trusts a name.
TrustOK ==
    /\ trusted \in [Node -> [Name -> Key \union {None}]]
    /\ \A n \in Node, x \in Name : trusted[n][x] # None => x \in agreed[n]

\* c is a link of n's, kept under the name x.
Belongs(c, n, x) == c \in Link /\ link[c] # NoLink /\ n \in Ends(c) /\ NameAt(c, n) = x

PendEntry(n, x) ==
    pend[n][x] # None =>
        /\ Belongs(pend[n][x].sock, n, x) /\ sock[pend[n][x].sock][n] = "open"
        /\ pend[n][x].outgoing <=> link[pend[n][x].sock].from = n
        /\ nonce[n][x] = IF pend[n][x].verified THEN 0 ELSE pend[n][x].sock
        /\ pend[n][x].verified => pend[n][x].key \in Key

ConnEntry(n, x) ==
    conns[n][x] # None =>
        /\ Belongs(conns[n][x].sock, n, x) /\ sock[conns[n][x].sock][n] = "open"
        /\ pend[n][x] # None => pend[n][x].sock # conns[n][x].sock
        /\ x \in agreed[n]
        /\ NameAt(conns[n][x].sock, Other(conns[n][x].sock, n)) \in agreed[Other(conns[n][x].sock, n)]

EntriesOK ==
    /\ pend \in [Node -> [Name -> Pending \union {None}]]
    /\ conns \in [Node -> [Name -> Connection \union {None}]]
    /\ \A n \in Node, x \in Name : PendEntry(n, x) /\ ConnEntry(n, x)

\* What may be on the wire to n: a proof has a key, and an approval comes from
\* one who has agreed to n.
OnWire == [c \in Link |-> [n \in Node |->
    {m \in Msg : /\ m.type = "identity_proof" => m.key \in Key
                 /\ m.type = "approved" => link[c] # NoLink /\ n \in agreed[Other(c, n)]}]]

ChanOK ==
    /\ chan \in [Link -> [Node -> Seq(Msg)]]
    /\ \A c \in Link, n \in Node : chan[c][n] \in Seq(OnWire[c][n])

\* x is a name under which p is known.
Names(x, p) == x \in {p, DialName[p]}

\* The same of n's queue for the name x.
InQueue == [n \in Node |-> [x \in Name |->
    {e \in Entry : /\ e.msg.type = "identity_proof" => e.msg.key \in Key
                   /\ e.msg.type = "approved" => \E p \in Node : Names(x, p) /\ n \in agreed[p]}]]

QueueOK ==
    /\ queue \in [Node -> [Name -> Seq(Entry)]]
    /\ \A n \in Node, x \in Name : queue[n][x] \in Seq(InQueue[n][x])

IInv == ShapeOK /\ LinkOK /\ TrustOK /\ EntriesOK /\ ChanOK /\ QueueOK

------------------------------------------------------------------------------
(* Names *)

\* A name is that of one node.
LEMMA DialNames ==
  ASSUME ShapeOK
  PROVE  /\ DialName \in [Node -> Name]
         /\ \A p, q \in Node : \A x : Names(x, p) /\ Names(x, q) => p = q
  BY SessionAssumption DEF DialName, Names

\* A link of n's connects it to a node that its name stands for, and is that node's.
LEMMA EndsOfLink ==
  ASSUME IInv, NEW c, NEW n \in Node, NEW x, Belongs(c, n, x)
  PROVE  /\ c \in Link /\ c \in 1..MaxDials /\ c # 0 /\ link[c] # NoLink /\ x \in Name
         /\ link[c].from \in Node /\ link[c].to \in Node /\ link[c].from # link[c].to
         /\ Other(c, n) \in Node /\ Other(c, n) # n /\ Other(c, Other(c, n)) = n
         /\ Names(x, Other(c, n))
         /\ link[c].from = n => x = DialName[Other(c, n)] /\ x \in agreed[n]
                                /\ NameAt(c, Other(c, n)) = n
         /\ link[c].from # n => x = Other(c, n) /\ NameAt(c, Other(c, n)) = DialName[n]
                                /\ DialName[n] \in agreed[Other(c, n)]
  <1>1. c \in Link /\ link[c] \in [from : Node, to : Node] /\ link[c] # NoLink
        /\ link[c].from # link[c].to /\ DialName[link[c].to] \in agreed[link[c].from]
    BY DEF IInv, LinkOK, Belongs
  <1>2. c \in 1..MaxDials /\ c # 0
    BY <1>1, SessionAssumption DEF Link
  <1>3. n \in {link[c].from, link[c].to} /\ NameAt(c, n) = x
    BY DEF Belongs, Ends
  <1>4. DialName \in [Node -> Name] /\ Node \subseteq Name
    BY DialNames, SessionAssumption DEF IInv
  <1>5. CASE link[c].from = n
    BY <1>1, <1>2, <1>3, <1>4, <1>5 DEF Other, NameAt, Names
  <1>6. CASE link[c].from # n
    BY <1>1, <1>2, <1>3, <1>4, <1>6 DEF Other, NameAt, Names
  <1>7. QED
    BY <1>5, <1>6

------------------------------------------------------------------------------
(* What every step keeps *)

World ==
    /\ \A c \in Link : link[c] # NoLink => link'[c] = link[c]
    /\ DialName' = DialName
    /\ \A n \in Node : agreed[n] \subseteq agreed'[n]

LEMMA WorldStays ==
  ASSUME UNCHANGED <<link, agreed, left>>
  PROVE  World
  BY DEF World, DialName

LEMMA BelongsStays ==
  ASSUME World, NEW c, NEW n, NEW x, Belongs(c, n, x)
  PROVE  /\ Belongs(c, n, x)' /\ Other(c, n)' = Other(c, n) /\ link'[c] = link[c]
         /\ \A p : NameAt(c, p)' = NameAt(c, p)
  BY DEF World, Belongs, Ends, NameAt, Other

\* The step keeps or drops n's entries for x, and leaves their ends alone.
Kept(n, x) ==
    /\ pend'[n][x] \in {pend[n][x], None} /\ conns'[n][x] \in {conns[n][x], None}
    /\ pend'[n][x] # None => /\ nonce'[n][x] = nonce[n][x]
                             /\ sock'[pend[n][x].sock][n] = sock[pend[n][x].sock][n]
    /\ conns'[n][x] # None => sock'[conns[n][x].sock][n] = sock[conns[n][x].sock][n]

LEMMA ConnConsent ==
  ASSUME IInv, World, NEW n \in Node, NEW x \in Name, conns[n][x] # None,
         NEW c, c = conns[n][x].sock
  PROVE  /\ Belongs(c, n, x)' /\ x \in agreed'[n]
         /\ NameAt(c, Other(c, n))' \in agreed'[Other(c, n)']
  <1>1. /\ Belongs(c, n, x) /\ x \in agreed[n]
        /\ NameAt(c, Other(c, n)) \in agreed[Other(c, n)]
    BY DEF IInv, EntriesOK, ConnEntry
  <1>2. PICK p : p = Other(c, n)
    OBVIOUS
  <1>3. p \in Node
    BY <1>1, <1>2, EndsOfLink
  <1>4. Belongs(c, n, x)' /\ Other(c, n)' = p /\ NameAt(c, p)' = NameAt(c, p)
    BY <1>1, <1>2, BelongsStays
  <1>5. NameAt(c, Other(c, n))' = NameAt(c, p)
    BY <1>4 DEF NameAt, Other
  <1>6. QED
    BY <1>1, <1>2, <1>3, <1>4, <1>5 DEF World

LEMMA KeptEntries ==
  ASSUME IInv, World, NEW n \in Node, NEW x \in Name, Kept(n, x)
  PROVE  PendEntry(n, x)' /\ ConnEntry(n, x)'
  <1>1. ASSUME pend'[n][x] # None
        PROVE  PendEntry(n, x)'
    <2>1. pend'[n][x] = pend[n][x] /\ nonce'[n][x] = nonce[n][x]
          /\ sock'[pend[n][x].sock][n] = sock[pend[n][x].sock][n]
      BY <1>1 DEF Kept
    <2>2. PICK c : c = pend[n][x].sock
      OBVIOUS
    <2>3. PendEntry(n, x)
      BY DEF IInv, EntriesOK
    <2>4. Belongs(c, n, x)
      BY <1>1, <2>1, <2>2, <2>3 DEF PendEntry
    <2>5. Belongs(c, n, x)' /\ link'[c] = link[c]
      BY <2>4, BelongsStays
    <2>6. QED
      BY <1>1, <2>1, <2>2, <2>3, <2>5 DEF PendEntry
  <1>2. ASSUME conns'[n][x] # None
        PROVE  ConnEntry(n, x)'
    <2>1. conns'[n][x] = conns[n][x] /\ conns[n][x] # None
          /\ sock'[conns[n][x].sock][n] = sock[conns[n][x].sock][n]
      BY <1>2 DEF Kept
    <2>2. PICK c : c = conns[n][x].sock
      OBVIOUS
    <2>3. ConnEntry(n, x)
      BY DEF IInv, EntriesOK
    <2>4. /\ Belongs(c, n, x)' /\ x \in agreed'[n]
          /\ NameAt(c, Other(c, n))' \in agreed'[Other(c, n)']
      BY <2>1, <2>2, ConnConsent
    <2>5. sock'[c][n] = "open" /\ (pend[n][x] # None => pend[n][x].sock # c)
      BY <2>1, <2>2, <2>3 DEF ConnEntry
    <2>6. pend'[n][x] # None => pend'[n][x].sock # c
      BY <2>5 DEF Kept
    <2>7. conns'[n][x].sock = c
      BY <2>1, <2>2
    <2>8. QED
      BY <2>4, <2>5, <2>6, <2>7 DEF ConnEntry
  <1>3. QED
    BY <1>1, <1>2 DEF PendEntry, ConnEntry

\* If all entries are kept but those of one name at one node, and these are right.
LEMMA EntriesChange ==
  ASSUME IInv, World, NEW n \in Node, NEW x \in Name,
         pend' \in [Node -> [Name -> Pending \union {None}]],
         conns' \in [Node -> [Name -> Connection \union {None}]],
         \A m \in Node, y \in Name : Kept(m, y) \/ (m = n /\ y = x),
         Kept(n, x) \/ (PendEntry(n, x)' /\ ConnEntry(n, x)')
  PROVE  EntriesOK'
  <1>1. \A m \in Node, y \in Name : Kept(m, y) => PendEntry(m, y)' /\ ConnEntry(m, y)'
    BY KeptEntries
  <1>2. \A m \in Node, y \in Name : PendEntry(m, y)' /\ ConnEntry(m, y)'
    BY <1>1
  <1>3. QED
    BY <1>2 DEF EntriesOK

LEMMA EntriesKept ==
  ASSUME IInv, World,
         pend' \in [Node -> [Name -> Pending \union {None}]],
         conns' \in [Node -> [Name -> Connection \union {None}]],
         \A m \in Node, y \in Name : Kept(m, y)
  PROVE  EntriesOK'
  <1>1. \A m \in Node, y \in Name : PendEntry(m, y)' /\ ConnEntry(m, y)'
    BY KeptEntries
  <1>2. QED
    BY <1>1 DEF EntriesOK

LEMMA EntriesStay ==
  ASSUME IInv, World, UNCHANGED <<pend, conns, nonce, sock>>
  PROVE  EntriesOK'
  BY EntriesKept DEF Kept, IInv, EntriesOK

LEMMA LinksStay ==
  ASSUME IInv, World, link' = link
  PROVE  LinkOK'
  BY DEF IInv, LinkOK, World

LEMMA TrustStays ==
  ASSUME IInv, World, trusted' = trusted
  PROVE  TrustOK'
  BY DEF IInv, TrustOK, World

LEMMA WireGrows ==
  ASSUME IInv, World, ShapeOK'
  PROVE  \A c \in Link, n \in Node : OnWire[c][n] \subseteq OnWire'[c][n]
  <1> SUFFICES ASSUME NEW c \in Link, NEW n \in Node, NEW m \in OnWire[c][n]
               PROVE  m \in OnWire'[c][n]
    OBVIOUS
  <1>1. m \in Msg /\ (m.type = "identity_proof" => m.key \in Key)
        /\ (m.type = "approved" => link[c] # NoLink /\ n \in agreed[Other(c, n)])
    BY DEF OnWire
  <1>2. ASSUME m.type = "approved"
        PROVE  link'[c] # NoLink /\ n \in agreed'[Other(c, n)']
    <2>1. link'[c] = link[c] /\ link[c] # NoLink /\ n \in agreed[Other(c, n)]
      BY <1>1, <1>2 DEF World
    <2>2. Other(c, n)' = Other(c, n)
      BY <2>1 DEF Other
    <2>3. Other(c, n) \in Node
      BY <2>1 DEF IInv, LinkOK, Other
    <2>4. QED
      BY <2>1, <2>2, <2>3 DEF World
  <1>3. QED
    BY <1>1, <1>2 DEF OnWire

LEMMA QueuesGrow ==
  ASSUME IInv, World
  PROVE  \A n \in Node, x \in Name : InQueue[n][x] \subseteq InQueue'[n][x]
  BY DEF World, InQueue, Names

LEMMA WireStays ==
  ASSUME IInv, World, ShapeOK', NEW c \in Link, NEW n \in Node
  PROVE  chan[c][n] \in Seq(OnWire'[c][n])
  BY WireGrows, SeqMonotonic DEF IInv, ChanOK

LEMMA QueueStays ==
  ASSUME IInv, World, NEW n \in Node, NEW x \in Name
  PROVE  queue[n][x] \in Seq(InQueue'[n][x])
  BY QueuesGrow, SeqMonotonic DEF IInv, QueueOK

LEMMA ChansStay ==
  ASSUME IInv, World, ShapeOK', chan' = chan
  PROVE  ChanOK'
  BY WireStays DEF IInv, ChanOK

LEMMA QueuesStay ==
  ASSUME IInv, World, queue' = queue
  PROVE  QueueOK'
  BY QueueStays DEF IInv, QueueOK

------------------------------------------------------------------------------
(* What is sent, and what is taken from a queue *)

LEMMA Put ==
  ASSUME NEW A, NEW B, NEW S, NEW f \in [A -> [B -> S]], NEW a \in A, NEW b \in B, NEW v \in S,
         NEW g, g = [f EXCEPT ![a][b] = v]
  PROVE  /\ g \in [A -> [B -> S]] /\ g[a][b] = v
         /\ \A c \in A, d \in B : c # a \/ d # b => g[c][d] = f[c][d]
  OBVIOUS

LEMMA One ==
  ASSUME NEW S, NEW e \in S
  PROVE  <<e>> \in Seq(S)
  OBVIOUS

LEMMA SentKeeps ==
  ASSUME IInv, NEW W, NEW ch \in [Link -> [Node -> Seq(Msg)]],
         \A d \in Link, m \in Node : ch[d][m] \in Seq(W[d][m]),
         NEW n \in Node, NEW c, c = 0 \/ \E x : Belongs(c, n, x),
         NEW ms \in Seq(Msg), c # 0 => ms \in Seq(W[c][Other(c, n)])
  PROVE  /\ Sent(ch, c, n, ms) \in [Link -> [Node -> Seq(Msg)]]
         /\ \A d \in Link, m \in Node : Sent(ch, c, n, ms)[d][m] \in Seq(W[d][m])
  <1>1. CASE Sent(ch, c, n, ms) = ch
    BY <1>1
  <1>2. CASE Sent(ch, c, n, ms) # ch
    <2>1. c # 0 /\ Sent(ch, c, n, ms) = [ch EXCEPT ![c][Other(c, n)] = @ \o ms]
      BY <1>2 DEF Sent
    <2>2. c \in Link /\ Other(c, n) \in Node
      <3>1. PICK x : Belongs(c, n, x)
        BY <2>1
      <3>2. QED
        BY <3>1, EndsOfLink
    <2>3. PICK o : o = Other(c, n)
      OBVIOUS
    <2>4. PICK g : g = Sent(ch, c, n, ms)
      OBVIOUS
    <2>5. ch[c][o] \o ms \in Seq(Msg) /\ ch[c][o] \o ms \in Seq(W[c][o])
      <3>1. ch[c][o] \in Seq(Msg) /\ ch[c][o] \in Seq(W[c][o]) /\ ms \in Seq(W[c][o])
        BY <2>1, <2>2, <2>3
      <3>2. ch[c][o] \o ms \in Seq(Msg)
        BY <3>1, ConcatProperties
      <3>3. ch[c][o] \o ms \in Seq(W[c][o])
        BY <3>1, ConcatProperties
      <3>4. QED
        BY <3>2, <3>3
    <2>6. g = [ch EXCEPT ![c][o] = ch[c][o] \o ms]
      BY <2>1, <2>2, <2>3, <2>4
    <2>7. /\ g \in [Link -> [Node -> Seq(Msg)]] /\ g[c][o] = ch[c][o] \o ms
          /\ \A d \in Link, m \in Node : d # c \/ m # o => g[d][m] = ch[d][m]
      BY <2>2, <2>3, <2>5, <2>6, Put
    <2>8. QED
      BY <2>4, <2>5, <2>7
  <1>3. QED
    BY <1>1, <1>2

LEMMA Sending ==
  ASSUME IInv, World, ShapeOK', NEW n \in Node, NEW c, c = 0 \/ \E x : Belongs(c, n, x),
         NEW ms \in Seq(Msg), c # 0 => ms \in Seq(OnWire'[c][Other(c, n)]),
         chan' = Sent(chan, c, n, ms)
  PROVE  ChanOK'
  <1>1. \A d \in Link, m \in Node : chan[d][m] \in Seq(OnWire'[d][m])
    BY WireStays
  <1>2. chan \in [Link -> [Node -> Seq(Msg)]]
    BY DEF IInv, ChanOK
  <1>3. QED
    BY <1>1, <1>2, SentKeeps DEF ChanOK

\* What needs no consent may go to anybody.
Harmless == {m \in Msg : m.type \notin {"identity_proof", "approved"}}

LEMMA HarmlessSent ==
  ASSUME NEW c \in Link, NEW n \in Node
  PROVE  Harmless \subseteq Msg /\ Harmless \subseteq OnWire[c][n] /\ Harmless \subseteq OnWire'[c][n]
  BY DEF Harmless, OnWire

LEMMA HarmlessMessages ==
  /\ PeerState \in Seq(Harmless)
  /\ \A t \in {"manifest", "file", "denied"} : <<Plain(t)>> \in Seq(Harmless)
  /\ \A c \in Link : <<Challenge(c)>> \in Seq(Harmless)
  /\ <<Denial>> \in Seq(Harmless)
  <1>1. \A t \in {"manifest", "file", "denied", "node_info", "manifest_request"} : Plain(t) \in Harmless
    BY SessionAssumption DEF Plain, Harmless, Msg, MsgType
  <1>2. \A c \in Link : Challenge(c) \in Harmless
    BY SessionAssumption DEF Challenge, Harmless, Msg, MsgType, Link
  <1>3. QED
    BY <1>1, <1>2 DEF PeerState, Denial

LEMMA HarmlessSending ==
  ASSUME IInv, World, ShapeOK', NEW n \in Node, NEW c, c = 0 \/ \E x : Belongs(c, n, x),
         NEW ms \in Seq(Harmless), chan' = Sent(chan, c, n, ms)
  PROVE  ChanOK'
  <1>1. ms \in Seq(Msg)
    BY SeqMonotonic DEF Harmless
  <1>2. c # 0 => ms \in Seq(OnWire'[c][Other(c, n)])
    BY EndsOfLink, HarmlessSent, SeqMonotonic
  <1>3. QED
    BY <1>1, <1>2, Sending

LEMMA OutBelongs ==
  ASSUME NEW n, NEW x, NEW conn, NEW pending,
         conn # None => Belongs(conn.sock, n, x), pending # None => Belongs(pending.sock, n, x)
  PROVE  OutLink(n, conn, pending) = 0 \/ Belongs(OutLink(n, conn, pending), n, x)
  BY DEF OutLink

LEMMA EntriesBelong ==
  ASSUME IInv, NEW n \in Node, NEW x \in Name
  PROVE  /\ conns[n][x] # None => Belongs(conns[n][x].sock, n, x)
         /\ pend[n][x] # None => Belongs(pend[n][x].sock, n, x)
  BY DEF IInv, EntriesOK, PendEntry, ConnEntry

LEMMA SendToPeerKeeps ==
  ASSUME IInv, World, ShapeOK', NEW n \in Node, NEW x \in Name, NEW ms \in Seq(Harmless),
         SendToPeer(n, x, ms)
  PROVE  ChanOK'
  <1>1. PICK c : c = OutLink(n, conns[n][x], pend[n][x])
    OBVIOUS
  <1>2. c = 0 \/ Belongs(c, n, x)
    BY <1>1, EntriesBelong, OutBelongs
  <1>3. chan' = Sent(chan, c, n, ms)
    BY <1>1 DEF SendToPeer
  <1>4. QED
    BY <1>2, <1>3, HarmlessSending

LEMMA HeadOf ==
  ASSUME IInv, NEW n \in Node, NEW x \in Name, NEW type, Turn(n, x, type)
  PROVE  /\ Received(n, x) \in InQueue[n][x] /\ Received(n, x) \in Entry
         /\ Received(n, x).msg \in Msg /\ Received(n, x).msg.type = type
         /\ Received(n, x).approved \in BOOLEAN
  <1>1. queue[n][x] \in Seq(InQueue[n][x]) /\ queue[n][x] # <<>>
    BY DEF IInv, QueueOK, Turn
  <1>2. Received(n, x) \in InQueue[n][x]
    BY <1>1, HeadTailProperties DEF Received
  <1>3. Received(n, x) \in Entry
    BY <1>2 DEF InQueue
  <1>4. QED
    BY <1>2, <1>3 DEF Turn, Received, Entry

LEMMA DoneKeeps ==
  ASSUME IInv, World, NEW n \in Node, NEW x \in Name, NEW type, Turn(n, x, type), Done(n, x)
  PROVE  QueueOK'
  <1>1. /\ queue \in [Node -> [Name -> Seq(Entry)]] /\ queue[n][x] # <<>>
        /\ queue[n][x] \in Seq(Entry)
    BY DEF IInv, QueueOK, Turn
  <1>2. Tail(queue[n][x]) \in Seq(Entry)
    BY <1>1, HeadTailProperties
  <1>3. queue[n][x] \in Seq(InQueue'[n][x])
    BY QueueStays
  <1>4. Tail(queue[n][x]) \in Seq(InQueue'[n][x])
    BY <1>1, <1>3, HeadTailProperties
  <1>5. queue' = [queue EXCEPT ![n][x] = Tail(queue[n][x])]
    BY <1>1 DEF Done
  <1>6. /\ queue' \in [Node -> [Name -> Seq(Entry)]] /\ queue'[n][x] = Tail(queue[n][x])
        /\ \A m \in Node, y \in Name : m # n \/ y # x => queue'[m][y] = queue[m][y]
    BY <1>1, <1>2, <1>5, Put
  <1>7. QED
    BY <1>4, <1>6, QueueStays DEF QueueOK

LEMMA SpendShape ==
  ASSUME ShapeOK, NEW k \in {"restart", "fail", "file"}, Spend(k)
  PROVE  left' \in Budget /\ DialName' = DialName
  <1>1. left \in Budget /\ left[k] \in Nat /\ left[k] > 0
    BY DEF ShapeOK, Budget, Spend
  <1>2. left' = [left EXCEPT ![k] = left[k] - 1]
    BY DEF Spend
  <1>3. left[k] - 1 \in Nat
    BY <1>1
  <1>4. left' \in Budget /\ left'.manual = left.manual
    BY <1>1, <1>2, <1>3 DEF Budget
  <1>5. QED
    BY <1>4 DEF DialName

------------------------------------------------------------------------------
(* Sockets *)

\* The end of no entry is touched but of those that are dropped.
LEMMA EndOfOthers ==
  ASSUME IInv, NEW n \in Node, NEW x \in Name, NEW c, Belongs(c, n, x),
         NEW m \in Node, NEW y \in Name, m # n \/ y # x
  PROVE  /\ pend[m][y] # None => pend[m][y].sock # c \/ m # n
         /\ conns[m][y] # None => conns[m][y].sock # c \/ m # n
  BY EntriesBelong DEF Belongs

LEMMA CloseShape ==
  ASSUME ShapeOK, NEW c \in Link, NEW n \in Node, Close(c, n)
  PROVE  /\ sock' \in [Link -> [Node -> EndState]]
         /\ \A d \in Link, m \in Node : d # c \/ m # n => sock'[d][m] = sock[d][m]
  <1>1. sock \in [Link -> [Node -> EndState]] /\ sock[c][n] \in EndState
    BY DEF ShapeOK
  <1>2. (IF sock[c][n] = "open" THEN "closing" ELSE sock[c][n]) \in EndState
    BY <1>1 DEF EndState
  <1>3. sock' = [sock EXCEPT ![c][n] = IF sock[c][n] = "open" THEN "closing" ELSE sock[c][n]]
    BY DEF Close
  <1>4. QED
    BY <1>1, <1>2, <1>3, Put

LEMMA DialKeeps ==
  ASSUME IInv, NEW c \in Link, NEW n \in Node, NEW p \in Node, Dial(c, n, p)
  PROVE  IInv'
  <1> USE DEF IInv
  <1>1. /\ link[c] = NoLink /\ n # p
        /\ link' = [link EXCEPT ![c] = [from |-> n, to |-> p]]
        /\ sock' = [sock EXCEPT ![c][n] = "connecting"]
        /\ agreed' = [agreed EXCEPT ![n] = @ \union {DialName[p]}]
        /\ left.dial[n] > 0 /\ left' = [left EXCEPT !.dial[n] = @ - 1]
        /\ UNCHANGED <<up, chan, tableVars, loopVars, trusted, key>>
    BY DEF Dial, FirstFree
  <1>2. left' \in Budget /\ DialName' = DialName
    <2>1. left \in Budget /\ left.dial \in [Node -> Nat] /\ left.dial[n] \in Nat
      BY DEF ShapeOK, Budget
    <2>2. [left.dial EXCEPT ![n] = left.dial[n] - 1] \in [Node -> Nat]
      BY <1>1, <2>1
    <2>3. left' = [left EXCEPT !.dial = [left.dial EXCEPT ![n] = left.dial[n] - 1]]
      BY <1>1, <2>1
    <2>4. left' \in Budget /\ left'.manual = left.manual
      BY <2>1, <2>2, <2>3 DEF Budget
    <2>5. QED
      BY <2>4 DEF DialName
  <1>3. DialName[p] \in Name /\ agreed \in [Node -> SUBSET Name]
    BY DialNames DEF ShapeOK
  <1>4. World
    BY <1>1, <1>2, <1>3 DEF World, LinkOK
  <1>5. /\ sock' \in [Link -> [Node -> EndState]]
        /\ \A d \in Link, m \in Node : d # c \/ m # n => sock'[d][m] = sock[d][m]
    BY <1>1, Put DEF ShapeOK, EndState
  <1>6. ShapeOK'
    BY <1>1, <1>2, <1>3, <1>5 DEF ShapeOK, tableVars, loopVars
  <1>7. LinkOK'
    <2>1. link' \in [Link -> {NoLink} \union [from : Node, to : Node]]
      BY <1>1 DEF LinkOK
    <2>2. link'[c].from = n /\ link'[c].to = p /\ DialName[p] \in agreed'[n]
      BY <1>1, <1>3 DEF LinkOK
    <2>3. \A d \in Link : d # c /\ link'[d] # NoLink =>
              /\ link[d] # NoLink /\ link'[d] = link[d]
              /\ DialName[link[d].to] \in agreed'[link[d].from]
      <3>1. \A d \in Link : d # c => link'[d] = link[d]
        BY <1>1 DEF LinkOK
      <3>2. \A d \in Link : link[d] # NoLink => link[d].from \in Node
        BY DEF LinkOK
      <3>3. QED
        BY <1>4, <3>1, <3>2 DEF LinkOK, World
    <2>4. QED
      BY <1>1, <1>2, <2>1, <2>2, <2>3 DEF LinkOK
  <1>8. EntriesOK'
    <2>1. ASSUME NEW m \in Node, NEW y \in Name
          PROVE  Kept(m, y)
      <3>1. /\ conns[m][y] # None => conns[m][y].sock \in Link /\ conns[m][y].sock # c
            /\ pend[m][y] # None => pend[m][y].sock \in Link /\ pend[m][y].sock # c
        BY <1>1, EntriesBelong DEF Belongs
      <3>2. QED
        BY <1>1, <1>5, <3>1 DEF Kept, tableVars
    <2>2. QED
      BY <1>1, <1>4, <2>1, EntriesKept DEF EntriesOK, tableVars
  <1>9. TrustOK' /\ ChanOK' /\ QueueOK'
    BY <1>1, <1>4, <1>6, TrustStays, ChansStay, QueuesStay DEF loopVars
  <1>10. QED
    BY <1>6, <1>7, <1>8, <1>9

\* A new pending connection on a socket that was not open before.
LEMMA AwaitProofEntries ==
  ASSUME IInv, World, NEW c, NEW n \in Node, NEW x \in Name, Belongs(c, n, x),
         sock[c][n] # "open", sock'[c][n] = "open", AwaitProof(c, n, x),
         conns'[n][x] # None => sock'[conns[n][x].sock][n] = sock[conns[n][x].sock][n],
         \A y \in Name : y # x =>
             /\ conns[n][y] # None => sock'[conns[n][y].sock][n] = sock[conns[n][y].sock][n]
             /\ pend[n][y] # None => sock'[pend[n][y].sock][n] = sock[pend[n][y].sock][n],
         \A d \in Link, m \in Node : m # n => sock'[d][m] = sock[d][m],
         conns' \in [Node -> [Name -> Connection \union {None}]],
         conns'[n][x] \in {conns[n][x], None},
         \A m \in Node, y \in Name : m # n \/ y # x => conns'[m][y] = conns[m][y]
  PROVE  EntriesOK'
  <1>1. /\ c \in Link /\ link[c] # NoLink
        /\ pend' = [pend EXCEPT ![n][x] = Fresh(c, link[c].from = n)]
        /\ nonce' = [nonce EXCEPT ![n][x] = c]
    BY EndsOfLink DEF AwaitProof
  <1>2. Fresh(c, link[c].from = n) \in Pending
    BY <1>1 DEF Fresh, Pending
  <1>3. pend \in [Node -> [Name -> Pending \union {None}]] /\ nonce \in [Node -> [Name -> 0..MaxDials]]
        /\ c \in 0..MaxDials
    BY <1>1, SessionAssumption DEF IInv, EntriesOK, ShapeOK, Link
  <1>4. /\ pend' \in [Node -> [Name -> Pending \union {None}]]
        /\ pend'[n][x] = Fresh(c, link[c].from = n)
        /\ \A m \in Node, y \in Name : m # n \/ y # x => pend'[m][y] = pend[m][y]
    <2>1. Fresh(c, link[c].from = n) \in Pending \union {None}
      BY <1>2
    <2>2. QED
      BY <1>1, <1>3, <2>1, Put
  <1>5. /\ nonce'[n][x] = c
        /\ \A m \in Node, y \in Name : m # n \/ y # x => nonce'[m][y] = nonce[m][y]
    BY <1>1, <1>3, Put
  <1>6. Belongs(c, n, x)' /\ link'[c] = link[c]
    BY BelongsStays
  <1>7. PendEntry(n, x)'
    <2>1. /\ pend'[n][x].sock = c /\ ~pend'[n][x].verified
          /\ pend'[n][x].outgoing <=> link'[c].from = n
      <3>1. PICK out : out = (link[c].from = n)
        OBVIOUS
      <3>2. pend'[n][x] = [sock |-> c, outgoing |-> out, verified |-> FALSE,
                           mismatch |-> FALSE, key |-> None]
        BY <1>4, <3>1, Zenon DEF Fresh
      <3>3. pend'[n][x].sock = c /\ pend'[n][x].verified = FALSE /\ pend'[n][x].outgoing = out
        BY <3>2
      <3>4. QED
        BY <1>6, <3>1, <3>3, Zenon
    <2>2. nonce'[n][x] = c /\ sock'[c][n] = "open" /\ Belongs(c, n, x)'
      BY <1>5, <1>6
    <2>3. QED
      BY <2>1, <2>2 DEF PendEntry
  <1>8. ConnEntry(n, x)'
    <2> SUFFICES ASSUME conns'[n][x] # None PROVE ConnEntry(n, x)'
      BY DEF ConnEntry
    <2>1. conns'[n][x] = conns[n][x] /\ conns[n][x] # None
      OBVIOUS
    <2>2. PICK d : d = conns[n][x].sock
      OBVIOUS
    <2>3. /\ Belongs(d, n, x)' /\ x \in agreed'[n]
          /\ NameAt(d, Other(d, n))' \in agreed'[Other(d, n)']
      BY <2>1, <2>2, ConnConsent
    <2>4. sock[d][n] = "open"
      BY <2>1, <2>2 DEF IInv, EntriesOK, ConnEntry
    <2>5. sock'[d][n] = "open" /\ d # c
      BY <2>1, <2>2, <2>4
    <2>6. pend'[n][x].sock = c /\ conns'[n][x].sock = d
      BY <1>4, <2>1, <2>2 DEF Fresh
    <2>7. QED
      BY <2>3, <2>5, <2>6 DEF ConnEntry
  <1>9. \A m \in Node, y \in Name : Kept(m, y) \/ (m = n /\ y = x)
    <2> SUFFICES ASSUME NEW m \in Node, NEW y \in Name, m # n \/ y # x PROVE Kept(m, y)
      OBVIOUS
    <2>1. pend'[m][y] = pend[m][y] /\ conns'[m][y] = conns[m][y] /\ nonce'[m][y] = nonce[m][y]
      BY <1>4, <1>5
    <2>2. /\ conns[m][y] # None => conns[m][y].sock \in Link
          /\ pend[m][y] # None => pend[m][y].sock \in Link
      BY EntriesBelong DEF Belongs
    <2>3. QED
      BY <2>1, <2>2 DEF Kept
  <1>10. QED
    BY <1>4, <1>7, <1>8, <1>9, EntriesChange

LEMMA ChallengeSent ==
  ASSUME IInv, World, ShapeOK', NEW c, NEW n \in Node, NEW x \in Name,
         Belongs(c, n, x), AwaitProof(c, n, x)
  PROVE  ChanOK'
  <1>1. <<Challenge(c)>> \in Seq(Harmless)
    BY HarmlessMessages, EndsOfLink
  <1>2. chan' = Sent(chan, c, n, <<Challenge(c)>>)
    BY DEF AwaitProof
  <1>3. QED
    BY <1>1, <1>2, HarmlessSending

LEMMA AwaitProofShape ==
  ASSUME IInv, NEW c, NEW n \in Node, NEW x \in Name, Belongs(c, n, x),
         AwaitProof(c, n, x)
  PROVE  nonce' \in [Node -> [Name -> 0..MaxDials]]
  <1>1. c \in 1..MaxDials
    BY EndsOfLink
  <1>2. c \in 0..MaxDials
    BY <1>1, SessionAssumption
  <1>3. nonce' = [nonce EXCEPT ![n][x] = c]
    BY DEF AwaitProof
  <1>4. QED
    BY <1>2, <1>3, Put DEF IInv, ShapeOK

LEMMA DropShape ==
  ASSUME IInv, NEW n \in Node, NEW x \in Name, DropConnection(n, x)
  PROVE  /\ conns' \in [Node -> [Name -> Connection \union {None}]] /\ conns'[n][x] = None
         /\ \A m \in Node, y \in Name : m # n \/ y # x => conns'[m][y] = conns[m][y]
         /\ remote' \in [Node -> [Name -> SUBSET {"node_info", "manifest"}]]
  <1>1. conns \in [Node -> [Name -> Connection \union {None}]]
        /\ remote \in [Node -> [Name -> SUBSET {"node_info", "manifest"}]]
    BY DEF IInv, EntriesOK, ShapeOK
  <1>2. conns' = [conns EXCEPT ![n][x] = None]
    BY DEF DropConnection
  <1>3. /\ conns' \in [Node -> [Name -> Connection \union {None}]] /\ conns'[n][x] = None
        /\ \A m \in Node, y \in Name : m # n \/ y # x => conns'[m][y] = conns[m][y]
    <2>1. None \in Connection \union {None}
      OBVIOUS
    <2>2. QED
      BY <1>1, <1>2, <2>1, Put
  <1>4. (IF conns[n][x] # None THEN {} ELSE remote[n][x]) \in SUBSET {"node_info", "manifest"}
    BY <1>1
  <1>5. remote' = [remote EXCEPT ![n][x] = IF conns[n][x] # None THEN {} ELSE remote[n][x]]
    BY DEF DropConnection
  <1>6. remote' \in [Node -> [Name -> SUBSET {"node_info", "manifest"}]]
    BY <1>1, <1>4, <1>5, Put
  <1>7. QED
    BY <1>3, <1>6

LEMMA AcceptKeeps ==
  ASSUME IInv, NEW c \in Link, Accept(c)
  PROVE  IInv'
  <1> USE DEF IInv
  <1>1. PICK n, x : n = link[c].to /\ x = link[c].from
    OBVIOUS
  <1>2. link[c] # NoLink /\ link[c] \in [from : Node, to : Node] /\ n # x
    BY <1>1 DEF Accept, LinkOK
  <1>3. n \in Node /\ x \in Name /\ x \in Node
    BY <1>1, <1>2, SessionAssumption
  <1>4. Belongs(c, n, x)
    BY <1>1, <1>2 DEF Belongs, Ends, NameAt
  <1>5. /\ sock[c][n] = "none"
        /\ sock' = [d \in Link |->
               IF d = c THEN [sock[c] EXCEPT ![n] = "open"]
               ELSE IF conns[n][x] # None /\ d = conns[n][x].sock
               THEN [sock[d] EXCEPT ![n] = IF @ = "open" THEN "closing" ELSE @]
               ELSE sock[d]]
        /\ DropConnection(n, x) /\ AwaitProof(c, n, x)
        /\ UNCHANGED <<link, up, loopVars, trusted, key, left, agreed>>
    BY <1>1 DEF Accept
  <1>6. World
    BY <1>5, WorldStays
  <1>7. \A d \in Link : sock[d] \in [Node -> EndState]
    BY DEF ShapeOK
  <1>8. /\ sock'[c][n] = "open"
        /\ \A d \in Link, m \in Node : m # n => sock'[d][m] = sock[d][m]
        /\ \A d \in Link : d # c /\ (conns[n][x] = None \/ d # conns[n][x].sock) => sock'[d] = sock[d]
    BY <1>3, <1>5, <1>7
  <1>9. sock' \in [Link -> [Node -> EndState]]
    <2>1. ASSUME NEW d \in Link
          PROVE  sock'[d] \in [Node -> EndState]
      <3>1. [sock[d] EXCEPT ![n] = "open"] \in [Node -> EndState]
        BY <1>7 DEF EndState
      <3>2. (IF sock[d][n] = "open" THEN "closing" ELSE sock[d][n]) \in EndState
        BY <1>3, <1>7 DEF EndState
      <3>3. [sock[d] EXCEPT ![n] = IF @ = "open" THEN "closing" ELSE @] \in [Node -> EndState]
        BY <1>7, <3>2
      <3>4. QED
        BY <1>5, <1>7, <3>1, <3>3
    <2>2. QED
      BY <1>5, <2>1
  <1>10. /\ conns' \in [Node -> [Name -> Connection \union {None}]] /\ conns'[n][x] = None
         /\ \A m \in Node, y \in Name : m # n \/ y # x => conns'[m][y] = conns[m][y]
         /\ remote' \in [Node -> [Name -> SUBSET {"node_info", "manifest"}]]
    BY <1>3, <1>5, DropShape
  <1>11. ShapeOK'
    BY <1>3, <1>4, <1>5, <1>9, <1>10, AwaitProofShape DEF ShapeOK, loopVars
  <1>12. EntriesOK'
    <2>1. ASSUME NEW y \in Name, y # x
          PROVE  /\ conns[n][y] # None => sock'[conns[n][y].sock][n] = sock[conns[n][y].sock][n]
                 /\ pend[n][y] # None => sock'[pend[n][y].sock][n] = sock[pend[n][y].sock][n]
      <3>1. /\ conns[n][x] # None => Belongs(conns[n][x].sock, n, x)
            /\ conns[n][y] # None => Belongs(conns[n][y].sock, n, y)
            /\ pend[n][y] # None => Belongs(pend[n][y].sock, n, y)
        BY <1>3, EntriesBelong
      <3>2. /\ conns[n][y] # None => /\ conns[n][y].sock \in Link /\ conns[n][y].sock # c
                                     /\ conns[n][x] # None => conns[n][y].sock # conns[n][x].sock
            /\ pend[n][y] # None => /\ pend[n][y].sock \in Link /\ pend[n][y].sock # c
                                    /\ conns[n][x] # None => pend[n][y].sock # conns[n][x].sock
        BY <1>4, <2>1, <3>1 DEF Belongs
      <3>3. QED
        BY <1>8, <3>2
    <2>2. sock[c][n] # "open" /\ conns'[n][x] \in {conns[n][x], None}
      BY <1>5, <1>10
    <2>3. conns'[n][x] # None => sock'[conns[n][x].sock][n] = sock[conns[n][x].sock][n]
      BY <1>10
    <2>4. AwaitProof(c, n, x)
      BY <1>5
    <2>5. QED
      BY <1>3, <1>4, <1>6, <1>8, <1>10, <2>1, <2>2, <2>3, <2>4, AwaitProofEntries
  <1>13. ChanOK'
    BY <1>3, <1>4, <1>5, <1>6, <1>11, ChallengeSent
  <1>14. LinkOK' /\ TrustOK' /\ QueueOK'
    BY <1>5, <1>6, LinksStay, TrustStays, QueuesStay DEF loopVars
  <1>15. QED
    BY <1>11, <1>12, <1>13, <1>14

LEMMA OpenKeeps ==
  ASSUME IInv, NEW c \in Link, Open(c)
  PROVE  IInv'
  <1> USE DEF IInv
  <1>1. PICK n, x : n = link[c].from /\ x = DialName[link[c].to]
    OBVIOUS
  <1>2. link[c] # NoLink /\ link[c] \in [from : Node, to : Node]
    BY DEF Open, LinkOK
  <1>3. n \in Node /\ x \in Name
    BY <1>1, <1>2, DialNames
  <1>4. Belongs(c, n, x)
    BY <1>1, <1>2 DEF Belongs, Ends, NameAt
  <1>5. /\ sock[c][n] = "connecting" /\ sock' = [sock EXCEPT ![c][n] = "open"]
        /\ AwaitProof(c, n, x)
        /\ UNCHANGED <<link, up, conns, remote, loopVars, trusted, key, left, agreed>>
    BY <1>1 DEF Open
  <1>6. World
    BY <1>5, WorldStays
  <1>7. /\ sock' \in [Link -> [Node -> EndState]] /\ sock'[c][n] = "open"
        /\ \A d \in Link, m \in Node : d # c \/ m # n => sock'[d][m] = sock[d][m]
    BY <1>3, <1>5, Put DEF ShapeOK, EndState
  <1>8. ShapeOK'
    BY <1>3, <1>4, <1>5, <1>7, AwaitProofShape DEF ShapeOK, loopVars
  <1>9. EntriesOK'
    <2>1. \A y \in Name :
              /\ conns[n][y] # None => conns[n][y].sock \in Link /\ sock[conns[n][y].sock][n] = "open"
              /\ pend[n][y] # None => pend[n][y].sock \in Link /\ sock[pend[n][y].sock][n] = "open"
      BY <1>3 DEF EntriesOK, ConnEntry, PendEntry, Belongs
    <2>2. \A y \in Name :
              /\ conns[n][y] # None => sock'[conns[n][y].sock][n] = sock[conns[n][y].sock][n]
              /\ pend[n][y] # None => sock'[pend[n][y].sock][n] = sock[pend[n][y].sock][n]
      BY <1>3, <1>5, <1>7, <2>1
    <2>3. sock[c][n] # "open" /\ conns \in [Node -> [Name -> Connection \union {None}]]
      BY <1>5 DEF EntriesOK
    <2>4. QED
      BY <1>3, <1>4, <1>5, <1>6, <1>7, <2>2, <2>3, AwaitProofEntries
  <1>10. ChanOK'
    BY <1>3, <1>4, <1>5, <1>6, <1>8, ChallengeSent
  <1>11. LinkOK' /\ TrustOK' /\ QueueOK'
    BY <1>5, <1>6, LinksStay, TrustStays, QueuesStay DEF loopVars
  <1>12. QED
    BY <1>8, <1>9, <1>10, <1>11

------------------------------------------------------------------------------
(* Messages *)

LEMMA ReceiveKeeps ==
  ASSUME IInv, NEW c \in Link, NEW n \in Node, Receive(c, n)
  PROVE  IInv'
  <1> USE DEF IInv
  <1>1. PICK x, m : x = NameAt(c, n) /\ m = Head(chan[c][n])
    OBVIOUS
  <1>2. Belongs(c, n, x)
    BY <1>1 DEF Receive, Belongs
  <1>3. x \in Name /\ Names(x, Other(c, n)) /\ Other(c, n) \in Node
    BY <1>2, EndsOfLink
  <1>4. World /\ UNCHANGED <<link, up, sock, tableVars, busy, trusted, key, left, agreed>>
    BY WorldStays DEF Receive
  <1>5. chan[c][n] # <<>> /\ chan' = [chan EXCEPT ![c][n] = Tail(chan[c][n])]
    BY DEF Receive, ChanOK
  <1>6. ShapeOK'
    <2>1. batch' \in {batch, <<c, n>>}
      BY DEF Receive
    <2>2. QED
      BY <1>4, <2>1 DEF ShapeOK, tableVars
  <1>7. m \in OnWire[c][n] /\ m \in Msg
    <2>1. m \in OnWire[c][n]
      BY <1>1, <1>5, HeadTailProperties DEF ChanOK
    <2>2. QED
      BY <2>1 DEF OnWire
  <1>8. ChanOK'
    <2>1. chan[c][n] \in Seq(Msg) /\ chan[c][n] \in Seq(OnWire'[c][n])
      BY <1>4, <1>6, WireStays DEF ChanOK
    <2>2. Tail(chan[c][n]) \in Seq(Msg)
      BY <1>5, <2>1, HeadTailProperties
    <2>3. Tail(chan[c][n]) \in Seq(OnWire'[c][n])
      BY <1>5, <2>1, HeadTailProperties
    <2>4. /\ chan' \in [Link -> [Node -> Seq(Msg)]] /\ chan'[c][n] = Tail(chan[c][n])
          /\ \A d \in Link, o \in Node : d # c \/ o # n => chan'[d][o] = chan[d][o]
      BY <1>5, <2>2, Put DEF ChanOK
    <2>5. QED
      BY <1>4, <1>6, <2>3, <2>4, WireStays DEF ChanOK
  <1>9. QueueOK'
    <2>1. PICK e : e = [msg |-> m, approved |-> pend[n][x] = None]
      OBVIOUS
    <2>2. e.msg = m /\ e \in Entry
      BY <1>7, <2>1 DEF Entry
    <2>3. m.type = "approved" => n \in agreed[Other(c, n)]
      BY <1>7 DEF OnWire
    <2>4. m.type = "identity_proof" => m.key \in Key
      BY <1>7 DEF OnWire
    <2>5. e \in InQueue[n][x]
      BY <1>3, <2>2, <2>3, <2>4 DEF InQueue
    <2>6. e \in InQueue'[n][x] /\ queue[n][x] \in Seq(InQueue'[n][x]) /\ queue[n][x] \in Seq(Entry)
      BY <1>3, <1>4, <2>5, QueuesGrow, QueueStays DEF QueueOK
    <2>7. Append(queue[n][x], e) \in Seq(InQueue'[n][x])
      BY <2>6, AppendProperties
    <2>8. Append(queue[n][x], e) \in Seq(Entry)
      BY <2>2, <2>6, AppendProperties
    <2>9. queue' = queue \/ queue' = [queue EXCEPT ![n][x] = Append(queue[n][x], e)]
      BY <1>1, <2>1 DEF Receive
    <2>10. CASE queue' = queue
      BY <1>4, <2>10, QueuesStay
    <2>11. CASE queue' = [queue EXCEPT ![n][x] = Append(queue[n][x], e)]
      <3>1. /\ queue' \in [Node -> [Name -> Seq(Entry)]] /\ queue'[n][x] = Append(queue[n][x], e)
            /\ \A o \in Node, y \in Name : o # n \/ y # x => queue'[o][y] = queue[o][y]
        BY <1>3, <2>8, <2>11, Put DEF QueueOK
      <3>2. QED
        BY <1>4, <2>7, <3>1, QueueStays DEF QueueOK
    <2>12. QED
      BY <2>9, <2>10, <2>11
  <1>10. LinkOK' /\ TrustOK' /\ EntriesOK'
    BY <1>4, LinksStay, TrustStays, EntriesStay DEF tableVars
  <1>11. QED
    BY <1>6, <1>8, <1>9, <1>10

LEMMA HandleChallengeKeeps ==
  ASSUME IInv, NEW n \in Node, NEW x \in Name, HandleChallenge(n, x)
  PROVE  IInv'
  <1> USE DEF IInv
  <1>1. /\ Turn(n, x, "identity_challenge") /\ Done(n, x) /\ World
        /\ UNCHANGED <<link, up, sock, tableVars, busy, trusted, key, left, agreed>>
    BY WorldStays DEF HandleChallenge
  <1>2. ShapeOK'
    BY <1>1 DEF ShapeOK, tableVars, Done
  <1>3. PICK r : r = Proof(Received(n, x).msg.nonce, key[n])
    OBVIOUS
  <1>4. r \in Msg /\ \A d \in Link, m \in Node : r \in OnWire'[d][m]
    <2>1. Received(n, x).msg \in Msg /\ key[n] \in Key
      BY <1>1, HeadOf DEF ShapeOK
    <2>2. Received(n, x).msg.nonce \in 0..MaxDials
      BY <2>1 DEF Msg
    <2>3. r \in Msg /\ r.type = "identity_proof" /\ r.key \in Key
      BY <1>3, <2>1, <2>2 DEF Proof, Msg, MsgType
    <2>4. QED
      BY <2>3 DEF OnWire
  <1>5. ChanOK'
    <2>1. PICK c : c = OutLink(n, conns[n][x], pend[n][x])
      OBVIOUS
    <2>2. c = 0 \/ Belongs(c, n, x)
      BY <2>1, EntriesBelong, OutBelongs
    <2>3. chan' = Sent(chan, c, n, <<r>>)
      BY <1>3, <2>1 DEF HandleChallenge, SendToPeer
    <2>4. <<r>> \in Seq(Msg) /\ (c # 0 => <<r>> \in Seq(OnWire'[c][Other(c, n)]))
      <3>1. c # 0 => c \in Link /\ Other(c, n) \in Node
        BY <2>2, EndsOfLink
      <3>2. c # 0 => r \in OnWire'[c][Other(c, n)]
        BY <1>4, <3>1
      <3>3. <<r>> \in Seq(Msg)
        BY <1>4, One
      <3>4. c # 0 => <<r>> \in Seq(OnWire'[c][Other(c, n)])
        BY <3>2, One
      <3>5. QED
        BY <3>3, <3>4
    <2>5. QED
      BY <1>1, <1>2, <2>2, <2>3, <2>4, Sending
  <1>6. LinkOK' /\ TrustOK' /\ EntriesOK' /\ QueueOK'
    BY <1>1, LinksStay, TrustStays, EntriesStay, DoneKeeps DEF tableVars
  <1>7. QED
    BY <1>2, <1>5, <1>6

\* A pending connection becomes a connection, if both users agree.
LEMMA PromoteEntries ==
  ASSUME IInv, World, NEW n \in Node, NEW x \in Name, pend[n][x] # None,
         NEW c, c = pend[n][x].sock, NEW k \in Key, Promote(n, x, c, k), sock' = sock,
         \A m \in Node, y \in Name : m # n \/ y # x => nonce'[m][y] = nonce[m][y],
         x \in agreed'[n], NameAt(c, Other(c, n)) \in agreed'[Other(c, n)]
  PROVE  EntriesOK'
  <1>1. /\ conns' = [conns EXCEPT ![n][x] = [sock |-> c, key |-> k]]
        /\ pend' = [pend EXCEPT ![n][x] = None]
    BY DEF Promote
  <1>2. /\ conns \in [Node -> [Name -> Connection \union {None}]]
        /\ pend \in [Node -> [Name -> Pending \union {None}]]
        /\ Belongs(c, n, x) /\ sock[c][n] = "open"
    BY DEF IInv, EntriesOK, PendEntry
  <1>3. [sock |-> c, key |-> k] \in Connection
    BY <1>2, EndsOfLink DEF Connection
  <1>4. /\ conns' \in [Node -> [Name -> Connection \union {None}]]
        /\ conns'[n][x] = [sock |-> c, key |-> k]
        /\ \A m \in Node, y \in Name : m # n \/ y # x => conns'[m][y] = conns[m][y]
    <2>1. [sock |-> c, key |-> k] \in Connection \union {None}
      BY <1>3
    <2>2. QED
      BY <1>1, <1>2, <2>1, Put
  <1>5. /\ pend' \in [Node -> [Name -> Pending \union {None}]] /\ pend'[n][x] = None
        /\ \A m \in Node, y \in Name : m # n \/ y # x => pend'[m][y] = pend[m][y]
    <2>1. None \in Pending \union {None}
      OBVIOUS
    <2>2. QED
      BY <1>1, <1>2, <2>1, Put
  <1>6. PICK o : o = Other(c, n)
    OBVIOUS
  <1>7. Belongs(c, n, x)' /\ Other(c, n)' = o /\ NameAt(c, o)' = NameAt(c, o)
    BY <1>2, <1>6, BelongsStays
  <1>8. ConnEntry(n, x)'
    <2>1. NameAt(c, Other(c, n))' = NameAt(c, o)
      BY <1>7 DEF NameAt, Other
    <2>2. NameAt(c, Other(c, n))' \in agreed'[Other(c, n)']
      BY <1>6, <1>7, <2>1
    <2>3. conns'[n][x].sock = c
      BY <1>4
    <2>4. QED
      BY <1>2, <1>5, <1>7, <2>2, <2>3 DEF ConnEntry
  <1>9. PendEntry(n, x)'
    BY <1>5 DEF PendEntry
  <1>10. \A m \in Node, y \in Name : Kept(m, y) \/ (m = n /\ y = x)
    BY <1>4, <1>5 DEF Kept
  <1>11. QED
    BY <1>4, <1>5, <1>8, <1>9, <1>10, EntriesChange

\* The caller of an incoming link is the peer of its name.
LEMMA CallerConsent ==
  ASSUME IInv, NEW n \in Node, NEW x \in Name, pend[n][x] # None, ~pend[n][x].outgoing
  PROVE  /\ Belongs(pend[n][x].sock, n, x) /\ x \in Node /\ Other(pend[n][x].sock, n) = x
         /\ NameAt(pend[n][x].sock, x) \in agreed[x]
  <1>1. PICK c : c = pend[n][x].sock
    OBVIOUS
  <1>2. Belongs(c, n, x) /\ link[c].from # n
    BY <1>1 DEF IInv, EntriesOK, PendEntry
  <1>3. x = Other(c, n) /\ Other(c, n) \in Node /\ NameAt(c, Other(c, n)) = DialName[n]
        /\ DialName[n] \in agreed[Other(c, n)]
    BY <1>2, EndsOfLink
  <1>4. QED
    BY <1>1, <1>2, <1>3

\* An approval may be sent on a link of x's by who has agreed to x.
LEMMA ApprovalSent ==
  ASSUME IInv, World, ShapeOK', NEW n \in Node, NEW x \in Node, NEW c, Belongs(c, n, x), x \in agreed'[n]
  PROVE  Approval \in Msg /\ Approval \in OnWire'[c][Other(c, n)]
  <1>1. /\ c \in Link /\ link[c] # NoLink /\ Other(c, n) \in Node /\ Other(c, Other(c, n)) = n
        /\ Names(x, Other(c, n))
    BY EndsOfLink, SessionAssumption
  <1>2. Other(c, n) = x
    BY <1>1, DialNames DEF IInv, Names
  <1>3. link'[c] = link[c]
    BY <1>1 DEF World
  <1>4. Other(c, x)' = n
    BY <1>1, <1>2, <1>3 DEF Other
  <1>5. Approval \in Msg /\ Approval.type = "approved"
    BY SessionAssumption DEF Approval, Plain, Msg, MsgType
  <1>6. QED
    BY <1>1, <1>2, <1>3, <1>4, <1>5 DEF OnWire

LEMMA HandleStateKeeps ==
  ASSUME IInv, NEW n \in Node, NEW x \in Name, HandleState(n, x)
  PROVE  IInv'
  <1> USE DEF IInv
  <1>1. /\ Done(n, x) /\ World
        /\ UNCHANGED <<wireVars, pend, conns, nonce, busy, trusted, key, left, agreed>>
    BY WorldStays DEF HandleState, wireVars
  <1>2. PICK type \in {"node_info", "manifest"} :
            /\ Turn(n, x, type)
            /\ remote' = IF Received(n, x).approved
                         THEN [remote EXCEPT ![n][x] = @ \union {type}] ELSE remote
    BY DEF HandleState
  <1>3. remote' \in [Node -> [Name -> SUBSET {"node_info", "manifest"}]]
    BY <1>2 DEF ShapeOK
  <1>4. ShapeOK'
    BY <1>1, <1>3 DEF ShapeOK, wireVars, Done
  <1>5. LinkOK' /\ TrustOK' /\ EntriesOK' /\ ChanOK' /\ QueueOK'
    BY <1>1, <1>2, <1>4, LinksStay, TrustStays, EntriesStay, ChansStay, DoneKeeps DEF wireVars
  <1>6. QED
    BY <1>4, <1>5

LEMMA HandleRequestKeeps ==
  ASSUME IInv, NEW n \in Node, NEW x \in Name, HandleRequest(n, x)
  PROVE  IInv'
  <1> USE DEF IInv
  <1>1. /\ Turn(n, x, "manifest_request") /\ Done(n, x) /\ World
        /\ UNCHANGED <<link, up, sock, tableVars, busy, trusted, key, left, agreed>>
    BY WorldStays DEF HandleRequest
  <1>2. ShapeOK'
    BY <1>1 DEF ShapeOK, tableVars, Done
  <1>3. chan' = chan \/ SendToPeer(n, x, <<Plain("manifest")>>)
    BY DEF HandleRequest
  <1>4. <<Plain("manifest")>> \in Seq(Harmless)
    BY HarmlessMessages
  <1>5. ChanOK'
    BY <1>1, <1>2, <1>3, <1>4, ChansStay, SendToPeerKeeps
  <1>6. LinkOK' /\ TrustOK' /\ EntriesOK' /\ QueueOK'
    BY <1>1, LinksStay, TrustStays, EntriesStay, DoneKeeps DEF tableVars
  <1>7. QED
    BY <1>2, <1>5, <1>6

LEMMA HandleFileKeeps ==
  ASSUME IInv, NEW n \in Node, NEW x \in Name, HandleFile(n, x)
  PROVE  IInv'
  <1> USE DEF IInv
  <1>1. /\ Turn(n, x, "file") /\ Done(n, x) /\ World
        /\ busy' = [busy EXCEPT ![n][x] = Received(n, x).approved]
        /\ UNCHANGED <<wireVars, tableVars, trusted, key, left, agreed>>
    BY WorldStays DEF HandleFile, wireVars
  <1>2. Received(n, x).approved \in BOOLEAN
    BY <1>1, HeadOf
  <1>3. busy' \in [Node -> [Name -> BOOLEAN]]
    BY <1>1, <1>2, Put DEF ShapeOK
  <1>4. ShapeOK'
    BY <1>1, <1>3 DEF ShapeOK, wireVars, tableVars, Done
  <1>5. LinkOK' /\ TrustOK' /\ EntriesOK' /\ ChanOK' /\ QueueOK'
    BY <1>1, <1>4, LinksStay, TrustStays, EntriesStay, ChansStay, DoneKeeps DEF wireVars, tableVars
  <1>6. QED
    BY <1>4, <1>5

LEMMA FinishFileKeeps ==
  ASSUME IInv, NEW n \in Node, NEW x \in Name, FinishFile(n, x)
  PROVE  IInv'
  <1> USE DEF IInv
  <1>1. /\ World /\ busy' = [busy EXCEPT ![n][x] = FALSE]
        /\ UNCHANGED <<wireVars, tableVars, queue, batch, trusted, key, left, agreed>>
    BY WorldStays DEF FinishFile, wireVars
  <1>2. busy' \in [Node -> [Name -> BOOLEAN]]
    BY <1>1, Put DEF ShapeOK
  <1>3. ShapeOK'
    BY <1>1, <1>2 DEF ShapeOK, wireVars, tableVars
  <1>4. LinkOK' /\ TrustOK' /\ EntriesOK' /\ ChanOK' /\ QueueOK'
    BY <1>1, <1>3, LinksStay, TrustStays, EntriesStay, ChansStay, QueuesStay DEF wireVars, tableVars
  <1>5. QED
    BY <1>3, <1>4

LEMMA SendFileKeeps ==
  ASSUME IInv, NEW n \in Node, NEW x \in Name, SendFile(n, x)
  PROVE  IInv'
  <1> USE DEF IInv
  <1>1. /\ Spend("file")
        /\ chan' = Sent(chan, OutLink(n, conns[n][x], None), n, <<Plain("file")>>)
        /\ UNCHANGED <<link, up, sock, tableVars, loopVars, trusted, key, agreed>>
    BY DEF SendFile
  <1>2. left' \in Budget /\ DialName' = DialName
    BY <1>1, SpendShape
  <1>3. World /\ ShapeOK'
    BY <1>1, <1>2 DEF World, ShapeOK, tableVars, loopVars
  <1>4. ChanOK'
    <2>1. PICK c : c = OutLink(n, conns[n][x], None)
      OBVIOUS
    <2>2. c = 0 \/ Belongs(c, n, x)
      BY <2>1, EntriesBelong, OutBelongs
    <2>3. <<Plain("file")>> \in Seq(Harmless) /\ chan' = Sent(chan, c, n, <<Plain("file")>>)
      BY <1>1, <2>1, HarmlessMessages
    <2>4. QED
      BY <1>3, <2>2, <2>3, HarmlessSending
  <1>5. LinkOK' /\ TrustOK' /\ EntriesOK' /\ QueueOK'
    BY <1>1, <1>3, LinksStay, TrustStays, EntriesStay, QueuesStay DEF tableVars, loopVars
  <1>6. QED
    BY <1>3, <1>4, <1>5

------------------------------------------------------------------------------
(* Lost connections *)

\* n's end of c closes, and n's entries for its name that use c are dropped.
LEMMA DropEntries ==
  ASSUME IInv, World, NEW n \in Node, NEW x \in Name, NEW c, Belongs(c, n, x),
         pend' \in [Node -> [Name -> Pending \union {None}]],
         conns' \in [Node -> [Name -> Connection \union {None}]],
         pend'[n][x] \in {pend[n][x], None}, conns'[n][x] \in {conns[n][x], None},
         pend'[n][x] # None => pend[n][x].sock # c,
         conns'[n][x] # None => conns[n][x].sock # c,
         \A m \in Node, y \in Name : m # n \/ y # x =>
             pend'[m][y] = pend[m][y] /\ conns'[m][y] = conns[m][y],
         nonce' = nonce,
         \A d \in Link, m \in Node : d # c \/ m # n => sock'[d][m] = sock[d][m]
  PROVE  EntriesOK'
  <1>1. ASSUME NEW m \in Node, NEW y \in Name
        PROVE  Kept(m, y)
    <2>1. /\ pend[m][y] # None => pend[m][y].sock \in Link
          /\ conns[m][y] # None => conns[m][y].sock \in Link
      BY EntriesBelong DEF Belongs
    <2>2. CASE m = n /\ y = x
      BY <2>1, <2>2 DEF Kept
    <2>3. CASE m # n \/ y # x
      <3>1. /\ pend[m][y] # None => pend[m][y].sock # c \/ m # n
            /\ conns[m][y] # None => conns[m][y].sock # c \/ m # n
        BY <2>3, EndOfOthers
      <3>2. QED
        BY <2>1, <2>3, <3>1 DEF Kept
    <2>4. QED
      BY <2>2, <2>3
  <1>2. QED
    BY <1>1, EntriesKept

\* The pending entry is dropped.
LEMMA PendDropped ==
  ASSUME IInv, NEW n \in Node, NEW x \in Name, pend' = [pend EXCEPT ![n][x] = None]
  PROVE  /\ pend' \in [Node -> [Name -> Pending \union {None}]] /\ pend'[n][x] = None
         /\ \A m \in Node, y \in Name : m # n \/ y # x => pend'[m][y] = pend[m][y]
  <1>1. pend \in [Node -> [Name -> Pending \union {None}]] /\ None \in Pending \union {None}
    BY DEF IInv, EntriesOK
  <1>2. QED
    BY <1>1, Put

LEMMA DroppedPendKeeps ==
  ASSUME IInv, World, NEW n \in Node, NEW x \in Name, pend[n][x] # None,
         Close(pend[n][x].sock, n), pend' = [pend EXCEPT ![n][x] = None],
         conns' = conns, nonce' = nonce
  PROVE  EntriesOK' /\ sock' \in [Link -> [Node -> EndState]]
  <1>1. PICK c : c = pend[n][x].sock
    OBVIOUS
  <1>2. Belongs(c, n, x) /\ c \in Link
    BY <1>1, EntriesBelong DEF Belongs
  <1>3. conns \in [Node -> [Name -> Connection \union {None}]]
        /\ (conns[n][x] # None => conns[n][x].sock # c)
    BY <1>1 DEF IInv, EntriesOK, ConnEntry
  <1>4. /\ sock' \in [Link -> [Node -> EndState]]
        /\ \A d \in Link, m \in Node : d # c \/ m # n => sock'[d][m] = sock[d][m]
    BY <1>1, <1>2, CloseShape DEF IInv
  <1>5. /\ pend' \in [Node -> [Name -> Pending \union {None}]] /\ pend'[n][x] = None
        /\ \A m \in Node, y \in Name : m # n \/ y # x => pend'[m][y] = pend[m][y]
    BY PendDropped
  <1>6. EntriesOK'
    BY <1>2, <1>3, <1>4, <1>5, DropEntries
  <1>7. QED
    BY <1>4, <1>6

LEMMA HandleDenialKeeps ==
  ASSUME IInv, NEW n \in Node, NEW x \in Name, HandleDenial(n, x)
  PROVE  IInv'
  <1> USE DEF IInv
  <1>1. /\ Turn(n, x, "denied") /\ Done(n, x) /\ World
        /\ UNCHANGED <<link, up, chan, conns, nonce, remote, busy, trusted, key, left, agreed>>
    BY WorldStays DEF HandleDenial
  <1>2. EntriesOK' /\ sock' \in [Link -> [Node -> EndState]]
    <2>1. CASE UNCHANGED <<sock, pend>>
      BY <1>1, <2>1, EntriesStay DEF ShapeOK
    <2>2. CASE /\ pend[n][x] # None /\ Close(pend[n][x].sock, n)
               /\ pend' = [pend EXCEPT ![n][x] = None]
      BY <1>1, <2>2, DroppedPendKeeps
    <2>3. QED
      BY <2>1, <2>2 DEF HandleDenial
  <1>3. ShapeOK'
    BY <1>1, <1>2 DEF ShapeOK, Done
  <1>4. LinkOK' /\ TrustOK' /\ ChanOK' /\ QueueOK'
    BY <1>1, <1>3, LinksStay, TrustStays, ChansStay, DoneKeeps
  <1>5. QED
    BY <1>2, <1>3, <1>4

LEMMA DenyKeeps ==
  ASSUME IInv, NEW n \in Node, NEW x \in Name, Deny(n, x)
  PROVE  IInv'
  <1> USE DEF IInv
  <1>1. /\ pend[n][x] # None /\ SendToPeer(n, x, <<Denial>>) /\ Close(pend[n][x].sock, n)
        /\ pend' = [pend EXCEPT ![n][x] = None] /\ World
        /\ UNCHANGED <<link, up, conns, nonce, remote, loopVars, trusted, key, left, agreed>>
    BY WorldStays DEF Deny
  <1>2. EntriesOK' /\ sock' \in [Link -> [Node -> EndState]]
    BY <1>1, DroppedPendKeeps
  <1>3. ShapeOK'
    BY <1>1, <1>2 DEF ShapeOK, loopVars
  <1>4. <<Denial>> \in Seq(Harmless)
    BY HarmlessMessages
  <1>5. ChanOK'
    BY <1>1, <1>3, <1>4, SendToPeerKeeps
  <1>6. LinkOK' /\ TrustOK' /\ QueueOK'
    BY <1>1, LinksStay, TrustStays, QueuesStay DEF loopVars
  <1>7. QED
    BY <1>2, <1>3, <1>5, <1>6

LEMMA CloseEventKeeps ==
  ASSUME IInv, NEW c \in Link, NEW n \in Node, CloseEvent(c, n)
  PROVE  IInv'
  <1> USE DEF IInv
  <1>1. PICK x : x = NameAt(c, n)
    OBVIOUS
  <1>2. /\ sock' = [sock EXCEPT ![c][n] = "closed"] /\ chan' = [chan EXCEPT ![c][n] = <<>>]
        /\ pend' = [pend EXCEPT ![n][x] = None] /\ DropConnection(n, x) /\ World
        /\ UNCHANGED <<link, up, nonce, loopVars, trusted, key, left, agreed>>
    BY <1>1, WorldStays DEF CloseEvent
  <1>3. Belongs(c, n, x)
    BY <1>1 DEF CloseEvent, Belongs
  <1>4. x \in Name
    BY <1>3, EndsOfLink
  <1>5. /\ sock' \in [Link -> [Node -> EndState]]
        /\ \A d \in Link, m \in Node : d # c \/ m # n => sock'[d][m] = sock[d][m]
    BY <1>2, Put DEF ShapeOK, EndState
  <1>6. /\ conns' \in [Node -> [Name -> Connection \union {None}]] /\ conns'[n][x] = None
        /\ \A m \in Node, y \in Name : m # n \/ y # x => conns'[m][y] = conns[m][y]
        /\ remote' \in [Node -> [Name -> SUBSET {"node_info", "manifest"}]]
    BY <1>2, <1>4, DropShape
  <1>7. ShapeOK'
    BY <1>2, <1>5, <1>6 DEF ShapeOK, loopVars
  <1>8. EntriesOK'
    <2>1. /\ pend' \in [Node -> [Name -> Pending \union {None}]] /\ pend'[n][x] = None
          /\ \A m \in Node, y \in Name : m # n \/ y # x => pend'[m][y] = pend[m][y]
      BY <1>2, <1>4, PendDropped
    <2>2. nonce' = nonce
      BY <1>2
    <2>3. QED
      BY <1>2, <1>3, <1>4, <1>5, <1>6, <2>1, <2>2, DropEntries
  <1>9. ChanOK'
    <2>1. /\ chan' \in [Link -> [Node -> Seq(Msg)]] /\ chan'[c][n] = <<>>
          /\ \A d \in Link, m \in Node : d # c \/ m # n => chan'[d][m] = chan[d][m]
      <3>1. <<>> \in Seq(Msg)
        OBVIOUS
      <3>2. QED
        BY <1>2, <3>1, Put DEF ChanOK
    <2>2. <<>> \in Seq(OnWire'[c][n])
      OBVIOUS
    <2>3. QED
      BY <1>2, <1>7, <2>1, <2>2, WireStays DEF ChanOK
  <1>10. LinkOK' /\ TrustOK' /\ QueueOK'
    BY <1>2, LinksStay, TrustStays, QueuesStay DEF loopVars
  <1>11. QED
    BY <1>7, <1>8, <1>9, <1>10

LEMMA MissedPingKeeps ==
  ASSUME IInv, NEW n \in Node, NEW x \in Name, MissedPing(n, x)
  PROVE  IInv'
  <1> USE DEF IInv
  <1>1. PICK c : c = conns[n][x].sock
    OBVIOUS
  <1>2. /\ conns[n][x] # None /\ Close(c, n) /\ DropConnection(n, x) /\ World
        /\ UNCHANGED <<link, up, chan, pend, nonce, loopVars, trusted, key, left, agreed>>
    BY <1>1, WorldStays DEF MissedPing
  <1>3. Belongs(c, n, x) /\ c \in Link
    BY <1>1, <1>2, EntriesBelong DEF Belongs
  <1>4. /\ sock' \in [Link -> [Node -> EndState]]
        /\ \A d \in Link, m \in Node : d # c \/ m # n => sock'[d][m] = sock[d][m]
    BY <1>2, <1>3, CloseShape
  <1>5. /\ conns' \in [Node -> [Name -> Connection \union {None}]] /\ conns'[n][x] = None
        /\ \A m \in Node, y \in Name : m # n \/ y # x => conns'[m][y] = conns[m][y]
        /\ remote' \in [Node -> [Name -> SUBSET {"node_info", "manifest"}]]
    BY <1>2, DropShape
  <1>6. ShapeOK'
    BY <1>2, <1>4, <1>5 DEF ShapeOK, loopVars
  <1>7. EntriesOK'
    <2>1. pend' \in [Node -> [Name -> Pending \union {None}]] /\ pend' = pend /\ nonce' = nonce
      BY <1>2 DEF EntriesOK
    <2>2. pend[n][x] # None => pend[n][x].sock # c
      BY <1>1, <1>2 DEF EntriesOK, ConnEntry
    <2>3. QED
      BY <1>2, <1>3, <1>4, <1>5, <2>1, <2>2, DropEntries
  <1>8. LinkOK' /\ TrustOK' /\ ChanOK' /\ QueueOK'
    BY <1>2, <1>6, LinksStay, TrustStays, ChansStay, QueuesStay DEF loopVars
  <1>9. QED
    BY <1>6, <1>7, <1>8

LEMMA LinkFailsKeeps ==
  ASSUME IInv, NEW c \in Link, LinkFails(c)
  PROVE  IInv'
  <1> USE DEF IInv
  <1>1. /\ Spend("fail") /\ up' = [up EXCEPT ![c] = FALSE]
        /\ chan' = [chan EXCEPT ![c] = [n \in Node |-> <<>>]]
        /\ UNCHANGED <<link, sock, tableVars, loopVars, trusted, key, agreed>>
    BY DEF LinkFails
  <1>2. left' \in Budget /\ DialName' = DialName
    BY <1>1, SpendShape
  <1>3. World /\ ShapeOK'
    BY <1>1, <1>2 DEF World, ShapeOK, tableVars, loopVars
  <1>4. ChanOK'
    <2>1. chan' \in [Link -> [Node -> Seq(Msg)]]
      BY <1>1 DEF ChanOK
    <2>2. \A d \in Link, n \in Node : chan'[d][n] \in {chan[d][n], <<>>}
      BY <1>1 DEF ChanOK
    <2>3. \A d \in Link, n \in Node : <<>> \in Seq(OnWire'[d][n])
      OBVIOUS
    <2>4. \A d \in Link, n \in Node : chan[d][n] \in Seq(OnWire'[d][n])
      BY <1>3, WireStays
    <2>5. \A d \in Link, n \in Node : chan'[d][n] \in Seq(OnWire'[d][n])
      BY <2>2, <2>3, <2>4
    <2>6. QED
      BY <2>1, <2>5 DEF ChanOK
  <1>5. LinkOK' /\ TrustOK' /\ EntriesOK' /\ QueueOK'
    BY <1>1, <1>3, LinksStay, TrustStays, EntriesStay, QueuesStay DEF tableVars, loopVars
  <1>6. QED
    BY <1>3, <1>4, <1>5

LEMMA RestartKeeps ==
  ASSUME IInv, NEW n \in Node, Restart(n)
  PROVE  IInv'
  <1> USE DEF IInv
  <1>1. /\ Spend("restart") /\ (\E k \in Key : key' = [key EXCEPT ![n] = k])
        /\ sock' = [c \in Link |-> IF link[c] # NoLink /\ n \in Ends(c)
                                   THEN [sock[c] EXCEPT ![n] = "closed"] ELSE sock[c]]
        /\ UNCHANGED <<batch, link, up, trusted, agreed>>
    BY DEF Restart
  <1>2. /\ chan' = [c \in Link |-> [chan[c] EXCEPT ![n] = <<>>]]
        /\ pend' = [pend EXCEPT ![n] = [x \in Name |-> None]]
        /\ conns' = [conns EXCEPT ![n] = [x \in Name |-> None]]
        /\ nonce' = [nonce EXCEPT ![n] = [x \in Name |-> 0]]
        /\ remote' = [remote EXCEPT ![n] = [x \in Name |-> {}]]
        /\ queue' = [queue EXCEPT ![n] = [x \in Name |-> <<>>]]
        /\ busy' = [busy EXCEPT ![n] = [x \in Name |-> FALSE]]
    BY DEF Restart
  <1>3. left' \in Budget /\ DialName' = DialName
    BY <1>1, SpendShape
  <1>4. World
    BY <1>1, <1>3 DEF World
  <1>5. /\ sock' \in [Link -> [Node -> EndState]]
        /\ \A d \in Link, m \in Node : m # n => sock'[d][m] = sock[d][m]
    <2>1. \A d \in Link : sock[d] \in [Node -> EndState]
      BY DEF ShapeOK
    <2>2. \A d \in Link : [sock[d] EXCEPT ![n] = "closed"] \in [Node -> EndState]
      BY <2>1 DEF EndState
    <2>3. QED
      BY <1>1, <2>1, <2>2
  <1>6. ShapeOK'
    <2>1. [x \in Name |-> 0] \in [Name -> 0..MaxDials] /\ [x \in Name |-> FALSE] \in [Name -> BOOLEAN]
          /\ [x \in Name |-> {}] \in [Name -> SUBSET {"node_info", "manifest"}]
      BY SessionAssumption
    <2>2. nonce' \in [Node -> [Name -> 0..MaxDials]]
      BY <1>2, <2>1 DEF ShapeOK
    <2>3. busy' \in [Node -> [Name -> BOOLEAN]]
      BY <1>2, <2>1 DEF ShapeOK
    <2>4. remote' \in [Node -> [Name -> SUBSET {"node_info", "manifest"}]]
      BY <1>2, <2>1 DEF ShapeOK
    <2>5. key' \in [Node -> Key]
      BY <1>1 DEF ShapeOK
    <2>6. QED
      BY <1>1, <1>3, <1>5, <2>2, <2>3, <2>4, <2>5 DEF ShapeOK
  <1>7. EntriesOK'
    <2>1. pend' \in [Node -> [Name -> Pending \union {None}]]
      BY <1>2 DEF EntriesOK
    <2>2. conns' \in [Node -> [Name -> Connection \union {None}]]
      BY <1>2 DEF EntriesOK
    <2>3. ASSUME NEW m \in Node, NEW y \in Name
          PROVE  Kept(m, y)
      <3>1. CASE m = n
        BY <1>2, <3>1 DEF Kept, EntriesOK
      <3>2. CASE m # n
        <4>1. pend'[m][y] = pend[m][y] /\ conns'[m][y] = conns[m][y] /\ nonce'[m][y] = nonce[m][y]
          BY <1>2, <3>2 DEF EntriesOK, ShapeOK
        <4>2. /\ pend[m][y] # None => pend[m][y].sock \in Link
              /\ conns[m][y] # None => conns[m][y].sock \in Link
          BY EntriesBelong DEF Belongs
        <4>3. QED
          BY <1>5, <3>2, <4>1, <4>2 DEF Kept
      <3>3. QED
        BY <3>1, <3>2
    <2>4. QED
      BY <1>4, <2>1, <2>2, <2>3, EntriesKept
  <1>8. ChanOK'
    <2>1. \A d \in Link : chan[d] \in [Node -> Seq(Msg)]
      BY DEF ChanOK
    <2>2. \A d \in Link : [chan[d] EXCEPT ![n] = <<>>] \in [Node -> Seq(Msg)]
      BY <2>1
    <2>3. chan' \in [Link -> [Node -> Seq(Msg)]]
      BY <1>2, <2>2
    <2>4. \A d \in Link, m \in Node : chan'[d][m] \in {chan[d][m], <<>>}
      BY <1>2, <2>1
    <2>5. \A d \in Link, m \in Node : <<>> \in Seq(OnWire'[d][m])
      OBVIOUS
    <2>6. \A d \in Link, m \in Node : chan[d][m] \in Seq(OnWire'[d][m])
      BY <1>4, <1>6, WireStays
    <2>7. \A d \in Link, m \in Node : chan'[d][m] \in Seq(OnWire'[d][m])
      BY <2>4, <2>5, <2>6
    <2>8. QED
      BY <2>3, <2>7 DEF ChanOK
  <1>9. QueueOK'
    <2>1. queue' \in [Node -> [Name -> Seq(Entry)]]
      BY <1>2 DEF QueueOK
    <2>2. \A m \in Node, y \in Name : queue'[m][y] \in {queue[m][y], <<>>}
      BY <1>2 DEF QueueOK
    <2>3. \A m \in Node, y \in Name : <<>> \in Seq(InQueue'[m][y])
      OBVIOUS
    <2>4. \A m \in Node, y \in Name : queue[m][y] \in Seq(InQueue'[m][y])
      BY <1>4, QueueStays
    <2>5. \A m \in Node, y \in Name : queue'[m][y] \in Seq(InQueue'[m][y])
      BY <2>2, <2>3, <2>4
    <2>6. QED
      BY <2>1, <2>5 DEF QueueOK
  <1>10. LinkOK' /\ TrustOK'
    BY <1>1, <1>4, LinksStay, TrustStays
  <1>11. QED
    BY <1>6, <1>7, <1>8, <1>9, <1>10

------------------------------------------------------------------------------
(* Proofs of identity and approvals *)

\* What is sent to a peer that has just joined.
LEMMA JoinedSending ==
  ASSUME IInv, World, ShapeOK', NEW n \in Node, NEW x, NEW c, Belongs(c, n, x),
         NEW conn, conn.sock = c, NEW ms \in Seq(Msg),
         NEW ch \in [Link -> [Node -> Seq(Msg)]],
         \A d \in Link, m \in Node : ch[d][m] \in Seq(OnWire'[d][m]),
         ms \in Seq(OnWire'[c][Other(c, n)]),
         chan' = Sent(ch, OutLink(n, conn, None), n, ms)
  PROVE  ChanOK'
  <1>1. PICK d : d = OutLink(n, conn, None)
    OBVIOUS
  <1>2. d = 0 \/ d = c
    BY <1>1 DEF OutLink
  <1>3. chan' = Sent(ch, d, n, ms) /\ (d = 0 \/ \E y : Belongs(d, n, y))
    BY <1>1, <1>2
  <1>4. d # 0 => ms \in Seq(OnWire'[d][Other(d, n)])
    BY <1>2
  <1>5. /\ Sent(ch, d, n, ms) \in [Link -> [Node -> Seq(Msg)]]
        /\ \A e \in Link, m \in Node : Sent(ch, d, n, ms)[e][m] \in Seq(OnWire'[e][m])
    BY <1>3, <1>4, SentKeeps
  <1>6. QED
    BY <1>3, <1>5 DEF ChanOK

LEMMA PeerStateSent ==
  ASSUME IInv, NEW n \in Node, NEW x, NEW c, Belongs(c, n, x)
  PROVE  PeerState \in Seq(Msg) /\ PeerState \in Seq(OnWire'[c][Other(c, n)])
  <1>1. c \in Link /\ Other(c, n) \in Node
    BY EndsOfLink
  <1>2. PeerState \in Seq(Harmless) /\ Harmless \subseteq Msg
        /\ Harmless \subseteq OnWire'[c][Other(c, n)]
    BY <1>1, HarmlessMessages, HarmlessSent
  <1>3. QED
    BY <1>2, SeqMonotonic

LEMMA Promoted ==
  ASSUME IInv, NEW n \in Node, NEW x \in Name, NEW c, NEW k, Promote(n, x, c, k)
  PROVE  conns'[n][x].sock = c
  BY DEF Promote, IInv, EntriesOK

LEMMA HandleApprovalKeeps ==
  ASSUME IInv, NEW n \in Node, NEW x \in Name, HandleApproval(n, x)
  PROVE  IInv'
  <1> USE DEF IInv
  <1>1. /\ Turn(n, x, "approved") /\ Done(n, x) /\ World
        /\ UNCHANGED <<link, up, sock, nonce, remote, busy, key, left, agreed>>
    BY WorldStays DEF HandleApproval
  <1>2. ShapeOK'
    BY <1>1 DEF ShapeOK, Done
  <1>3. LinkOK' /\ QueueOK'
    BY <1>1, LinksStay, DoneKeeps
  <1>4. CASE UNCHANGED <<conns, pend, trusted, chan>>
    BY <1>1, <1>2, <1>3, <1>4, TrustStays, EntriesStay, ChansStay
  <1>5. CASE ~UNCHANGED <<conns, pend, trusted, chan>>
    <2>1. PICK c, k : c = pend[n][x].sock /\ k = pend[n][x].key
      OBVIOUS
    <2>2. /\ pend[n][x] # None /\ pend[n][x].outgoing /\ pend[n][x].verified
          /\ Promote(n, x, c, k) /\ trusted' = [trusted EXCEPT ![n][x] = k]
          /\ chan' = Sent(chan, OutLink(n, conns'[n][x], None), n, PeerState)
      BY <1>5, <2>1 DEF HandleApproval, Acceptable
    <2>3. Belongs(c, n, x) /\ link[c].from = n /\ k \in Key
      BY <2>1, <2>2 DEF EntriesOK, PendEntry
    <2>4. PICK o : o = Other(c, n)
      OBVIOUS
    <2>5. o \in Node /\ Names(x, o) /\ x \in agreed[n] /\ NameAt(c, o) = n
      BY <2>3, <2>4, EndsOfLink
    <2>6. n \in agreed[o]
      <3>1. \E p \in Node : Names(x, p) /\ n \in agreed[p]
        BY <1>1, HeadOf DEF InQueue
      <3>2. QED
        BY <2>5, <3>1, DialNames
    <2>7. EntriesOK'
      BY <1>1, <2>1, <2>2, <2>3, <2>4, <2>5, <2>6, PromoteEntries
    <2>8. TrustOK'
      <3>1. trusted' \in [Node -> [Name -> Key \union {None}]] /\ trusted'[n][x] = k
            /\ \A m \in Node, y \in Name : m # n \/ y # x => trusted'[m][y] = trusted[m][y]
        BY <2>2, <2>3, Put DEF TrustOK
      <3>2. QED
        BY <1>1, <2>5, <3>1 DEF TrustOK
    <2>9. ChanOK'
      <3>1. PICK conn : conn = conns'[n][x]
        OBVIOUS
      <3>2. conn.sock = c /\ chan' = Sent(chan, OutLink(n, conn, None), n, PeerState)
        BY <2>2, <3>1, Promoted
      <3>3. /\ chan \in [Link -> [Node -> Seq(Msg)]]
            /\ \A d \in Link, m \in Node : chan[d][m] \in Seq(OnWire'[d][m])
        BY <1>1, <1>2, WireStays DEF ChanOK
      <3>4. PeerState \in Seq(Msg) /\ PeerState \in Seq(OnWire'[c][Other(c, n)])
        BY <2>3, PeerStateSent
      <3>5. QED
        BY <1>1, <1>2, <2>3, <3>2, <3>3, <3>4, JoinedSending
    <2>10. QED
      BY <1>2, <1>3, <2>7, <2>8, <2>9
  <1>6. QED
    BY <1>4, <1>5

LEMMA ApproveKeeps ==
  ASSUME IInv, NEW n \in Node, NEW x \in Name, Approve(n, x)
  PROVE  IInv'
  <1> USE DEF IInv
  <1>1. PICK c, k : c = pend[n][x].sock /\ k = pend[n][x].key
    OBVIOUS
  <1>2. /\ pend[n][x] # None /\ ~pend[n][x].outgoing /\ pend[n][x].verified
        /\ Promote(n, x, c, k) /\ trusted' = [trusted EXCEPT ![n][x] = k]
        /\ agreed' = [agreed EXCEPT ![n] = @ \union {x}]
        /\ chan' = Sent(chan, OutLink(n, conns'[n][x], None), n, <<Approval>> \o PeerState)
        /\ UNCHANGED <<link, up, sock, nonce, remote, loopVars, key, left>>
    BY <1>1 DEF Approve, Approvable
  <1>3. /\ agreed' \in [Node -> SUBSET Name] /\ x \in agreed'[n]
        /\ \A m \in Node : agreed[m] \subseteq agreed'[m]
    BY <1>2 DEF ShapeOK
  <1>4. World
    BY <1>2, <1>3 DEF World, DialName
  <1>5. ShapeOK'
    BY <1>2, <1>3 DEF ShapeOK, loopVars
  <1>6. /\ Belongs(c, n, x) /\ x \in Node /\ Other(c, n) = x /\ NameAt(c, x) \in agreed[x]
        /\ k \in Key
    BY <1>1, <1>2, CallerConsent DEF EntriesOK, PendEntry
  <1>7. EntriesOK'
    <2>1. NameAt(c, Other(c, n)) \in agreed'[Other(c, n)]
      BY <1>3, <1>6
    <2>2. sock' = sock /\ nonce' = nonce
      BY <1>2
    <2>3. QED
      BY <1>1, <1>2, <1>3, <1>4, <1>6, <2>1, <2>2, PromoteEntries
  <1>8. TrustOK'
    <2>1. trusted' \in [Node -> [Name -> Key \union {None}]] /\ trusted'[n][x] = k
          /\ \A m \in Node, y \in Name : m # n \/ y # x => trusted'[m][y] = trusted[m][y]
      BY <1>2, <1>6, Put DEF TrustOK
    <2>2. QED
      BY <1>3, <2>1 DEF TrustOK
  <1>9. ChanOK'
    <2>1. PICK conn : conn = conns'[n][x]
      OBVIOUS
    <2>2. PICK ms : ms = <<Approval>> \o PeerState
      OBVIOUS
    <2>3. conn.sock = c /\ chan' = Sent(chan, OutLink(n, conn, None), n, ms)
      BY <1>2, <2>1, <2>2, Promoted
    <2>4. /\ chan \in [Link -> [Node -> Seq(Msg)]]
          /\ \A d \in Link, m \in Node : chan[d][m] \in Seq(OnWire'[d][m])
      BY <1>4, <1>5, WireStays DEF ChanOK
    <2>5. PeerState \in Seq(Msg) /\ PeerState \in Seq(OnWire'[c][Other(c, n)])
      BY <1>6, PeerStateSent
    <2>6. Approval \in Msg /\ Approval \in OnWire'[c][Other(c, n)]
      BY <1>3, <1>4, <1>5, <1>6, ApprovalSent
    <2>7. ms \in Seq(Msg)
      BY <2>2, <2>5, <2>6, One, ConcatProperties
    <2>8. ms \in Seq(OnWire'[c][Other(c, n)])
      BY <2>2, <2>5, <2>6, One, ConcatProperties
    <2>9. QED
      BY <1>4, <1>5, <1>6, <2>3, <2>4, <2>7, <2>8, JoinedSending
  <1>10. LinkOK' /\ QueueOK'
    BY <1>2, <1>4, LinksStay, QueuesStay DEF loopVars
  <1>11. QED
    BY <1>5, <1>7, <1>8, <1>9, <1>10

\* A trusted caller joins at once.
LEMMA CallerJoins ==
  ASSUME IInv, World, ShapeOK', NEW n \in Node, NEW x \in Name,
         UNCHANGED <<link, up, sock, trusted, agreed>>,
         pend[n][x] # None, ~pend[n][x].outgoing, NEW k \in Key, AutoApproved(n, x, k),
         Promote(n, x, pend[n][x].sock, k),
         \A m \in Node, y \in Name : m # n \/ y # x => nonce'[m][y] = nonce[m][y],
         NEW d, d = OutLink(n, conns[n][x], pend[n][x]),
         NEW ch, ch = Sent(chan, d, n, <<Approval>>),
         NEW conn, conn = conns'[n][x],
         chan' = Sent(ch, OutLink(n, conn, None), n, PeerState)
  PROVE  EntriesOK' /\ ChanOK'
  <1>1. PICK c : c = pend[n][x].sock
    OBVIOUS
  <1>2. Belongs(c, n, x) /\ x \in Node /\ Other(c, n) = x /\ NameAt(c, x) \in agreed[x]
    BY <1>1, CallerConsent
  <1>3. x \in agreed'[n]
    BY SessionAssumption DEF IInv, TrustOK, AutoApproved
  <1>4. EntriesOK'
    <2>1. NameAt(c, Other(c, n)) \in agreed'[Other(c, n)]
      BY <1>2
    <2>2. Promote(n, x, c, k)
      BY <1>1
    <2>3. QED
      BY <1>1, <1>2, <1>3, <2>1, <2>2, PromoteEntries
  <1>5. d = 0 \/ Belongs(d, n, x)
    BY EntriesBelong, OutBelongs
  <1>6. /\ ch \in [Link -> [Node -> Seq(Msg)]]
        /\ \A e \in Link, m \in Node : ch[e][m] \in Seq(OnWire'[e][m])
    <2>1. /\ chan \in [Link -> [Node -> Seq(Msg)]]
          /\ \A e \in Link, m \in Node : chan[e][m] \in Seq(OnWire'[e][m])
      BY WireStays DEF IInv, ChanOK
    <2>2. Approval \in Msg
      BY <1>2, <1>3, ApprovalSent
    <2>3. <<Approval>> \in Seq(Msg)
      BY <2>2, One
    <2>4. d # 0 => Approval \in OnWire'[d][Other(d, n)]
      BY <1>2, <1>3, <1>5, ApprovalSent
    <2>5. d # 0 => <<Approval>> \in Seq(OnWire'[d][Other(d, n)])
      BY <2>4, One
    <2>6. d = 0 \/ \E y : Belongs(d, n, y)
      BY <1>5
    <2>7. QED
      BY <2>1, <2>3, <2>5, <2>6, SentKeeps
  <1>7. ChanOK'
    <2>1. conn.sock = c
      BY <1>1, Promoted
    <2>2. PeerState \in Seq(Msg) /\ PeerState \in Seq(OnWire'[c][Other(c, n)])
      BY <1>2, PeerStateSent
    <2>3. QED
      BY <1>2, <1>6, <2>1, <2>2, JoinedSending
  <1>8. QED
    BY <1>4, <1>7

\* The proof is recorded in a pending connection.
LEMMA PendingProven ==
  ASSUME IInv, World, NEW n \in Node, NEW x \in Name, UNCHANGED <<sock, conns>>,
         pend[n][x] # None, NEW q \in Pending,
         q.sock = pend[n][x].sock, q.outgoing = pend[n][x].outgoing,
         q.verified = TRUE, q.key \in Key,
         pend' = [pend EXCEPT ![n][x] = q], nonce'[n][x] = 0,
         \A m \in Node, y \in Name : m # n \/ y # x => nonce'[m][y] = nonce[m][y]
  PROVE  EntriesOK'
  <1>1. /\ pend \in [Node -> [Name -> Pending \union {None}]]
        /\ conns \in [Node -> [Name -> Connection \union {None}]]
        /\ PendEntry(n, x) /\ ConnEntry(n, x)
    BY DEF IInv, EntriesOK
  <1>2. /\ pend' \in [Node -> [Name -> Pending \union {None}]] /\ pend'[n][x] = q
        /\ \A m \in Node, y \in Name : m # n \/ y # x => pend'[m][y] = pend[m][y]
    <2>1. q \in Pending \union {None}
      OBVIOUS
    <2>2. QED
      BY <1>1, <2>1, Put
  <1>3. PICK c : c = pend[n][x].sock
    OBVIOUS
  <1>4. Belongs(c, n, x)' /\ link'[c] = link[c]
    BY <1>1, <1>3, BelongsStays DEF PendEntry
  <1>5. PendEntry(n, x)'
    <2>1. pend'[n][x].sock = c /\ pend'[n][x].verified = TRUE /\ pend'[n][x].key \in Key
      BY <1>2, <1>3
    <2>2. pend'[n][x].outgoing <=> link'[c].from = n
      BY <1>1, <1>2, <1>3, <1>4 DEF PendEntry
    <2>3. sock'[c][n] = "open"
      BY <1>1, <1>3 DEF PendEntry
    <2>4. QED
      BY <1>4, <2>1, <2>2, <2>3 DEF PendEntry
  <1>6. ConnEntry(n, x)'
    <2> SUFFICES ASSUME conns[n][x] # None PROVE ConnEntry(n, x)'
      BY DEF ConnEntry
    <2>1. PICK d : d = conns[n][x].sock
      OBVIOUS
    <2>2. /\ Belongs(d, n, x)' /\ x \in agreed'[n]
          /\ NameAt(d, Other(d, n))' \in agreed'[Other(d, n)']
      BY <2>1, ConnConsent
    <2>3. sock'[d][n] = "open" /\ pend'[n][x].sock # d /\ conns'[n][x].sock = d
      BY <1>1, <1>2, <2>1 DEF ConnEntry
    <2>4. QED
      BY <2>2, <2>3 DEF ConnEntry
  <1>7. \A m \in Node, y \in Name : Kept(m, y) \/ (m = n /\ y = x)
    BY <1>2 DEF Kept
  <1>8. conns' \in [Node -> [Name -> Connection \union {None}]]
    BY <1>1
  <1>9. QED
    BY <1>2, <1>5, <1>6, <1>7, <1>8, EntriesChange

\* A late proof changes the key of a connection.
LEMMA ConnectionProven ==
  ASSUME IInv, World, NEW n \in Node, NEW x \in Name, UNCHANGED <<sock, pend>>,
         pend[n][x] = None, conns[n][x] # None, NEW r \in Connection,
         r.sock = conns[n][x].sock, conns' = [conns EXCEPT ![n][x] = r],
         \A m \in Node, y \in Name : m # n \/ y # x => nonce'[m][y] = nonce[m][y]
  PROVE  EntriesOK'
  <1>1. /\ pend \in [Node -> [Name -> Pending \union {None}]]
        /\ conns \in [Node -> [Name -> Connection \union {None}]] /\ ConnEntry(n, x)
    BY DEF IInv, EntriesOK
  <1>2. /\ conns' \in [Node -> [Name -> Connection \union {None}]] /\ conns'[n][x] = r
        /\ \A m \in Node, y \in Name : m # n \/ y # x => conns'[m][y] = conns[m][y]
    <2>1. r \in Connection \union {None}
      OBVIOUS
    <2>2. QED
      BY <1>1, <2>1, Put
  <1>3. ConnEntry(n, x)'
    <2>1. PICK d : d = conns[n][x].sock
      OBVIOUS
    <2>2. /\ Belongs(d, n, x)' /\ x \in agreed'[n]
          /\ NameAt(d, Other(d, n))' \in agreed'[Other(d, n)']
      BY <2>1, ConnConsent
    <2>3. sock'[d][n] = "open" /\ conns'[n][x].sock = d
      BY <1>1, <1>2, <2>1 DEF ConnEntry
    <2>4. QED
      BY <2>2, <2>3 DEF ConnEntry
  <1>4. PendEntry(n, x)'
    BY DEF PendEntry
  <1>5. \A m \in Node, y \in Name : Kept(m, y) \/ (m = n /\ y = x)
    BY <1>2 DEF Kept
  <1>6. pend' \in [Node -> [Name -> Pending \union {None}]]
    BY <1>1
  <1>7. QED
    BY <1>2, <1>3, <1>4, <1>5, <1>6, EntriesChange

LEMMA HandleProofKeeps ==
  ASSUME IInv, NEW n \in Node, NEW x \in Name, HandleProof(n, x)
  PROVE  IInv'
  <1> USE DEF IInv
  <1>1. PICK k : k = Received(n, x).msg.key
    OBVIOUS
  <1>2. /\ Turn(n, x, "identity_proof") /\ Done(n, x) /\ World
        /\ UNCHANGED <<link, up, sock, remote, busy, trusted, key, left, agreed>>
        /\ \/ nonce[n][x] # 0 /\ nonce' = [nonce EXCEPT ![n][x] = 0]
           \/ nonce' = nonce
    BY WorldStays DEF HandleProof
  <1>3. k \in Key
    BY <1>1, <1>2, HeadOf DEF InQueue
  <1>4. /\ nonce' \in [Node -> [Name -> 0..MaxDials]]
        /\ \A m \in Node, y \in Name : m # n \/ y # x => nonce'[m][y] = nonce[m][y]
    <2>1. 0 \in 0..MaxDials /\ nonce \in [Node -> [Name -> 0..MaxDials]]
      BY SessionAssumption DEF ShapeOK
    <2>2. CASE nonce' = nonce
      BY <2>1, <2>2
    <2>3. CASE nonce' = [nonce EXCEPT ![n][x] = 0]
      BY <2>1, <2>3, Put
    <2>4. QED
      BY <1>2, <2>2, <2>3
  <1>5. ShapeOK'
    BY <1>2, <1>4 DEF ShapeOK, Done
  <1>6. LinkOK' /\ TrustOK' /\ QueueOK'
    BY <1>2, LinksStay, TrustStays, DoneKeeps
  <1>7. EntriesOK' /\ ChanOK'
    <2>1. CASE /\ pend[n][x] # None /\ ~pend[n][x].outgoing /\ AutoApproved(n, x, k)
               /\ Promote(n, x, pend[n][x].sock, k)
               /\ chan' = Sent(Sent(chan, OutLink(n, conns[n][x], pend[n][x]), n, <<Approval>>),
                               OutLink(n, conns'[n][x], None), n, PeerState)
      <3>1. PICK d : d = OutLink(n, conns[n][x], pend[n][x])
        OBVIOUS
      <3>2. PICK ch : ch = Sent(chan, d, n, <<Approval>>)
        OBVIOUS
      <3>3. PICK conn : conn = conns'[n][x]
        OBVIOUS
      <3>4. chan' = Sent(ch, OutLink(n, conn, None), n, PeerState)
        BY <2>1, <3>1, <3>2, <3>3
      <3>5. QED
        BY <1>2, <1>3, <1>4, <1>5, <2>1, <3>1, <3>2, <3>3, <3>4, CallerJoins
    <2>2. CASE /\ nonce' = [nonce EXCEPT ![n][x] = 0] /\ pend[n][x] # None
               /\ UNCHANGED <<conns, chan>>
               /\ pend' = [pend EXCEPT ![n][x] =
                      [pend[n][x] EXCEPT !.verified = TRUE, !.key = k,
                                         !.mismatch = trusted[n][x] \notin {None, k}]]
      <3>1. PICK mis \in BOOLEAN : mis = (trusted[n][x] \notin {None, k})
        OBVIOUS
      <3>2. PICK q : q = [pend[n][x] EXCEPT !.verified = TRUE, !.key = k, !.mismatch = mis]
        OBVIOUS
      <3>3. pend' = [pend EXCEPT ![n][x] = q]
        BY <2>2, <3>1, <3>2, Zenon
      <3>4. pend[n][x] \in Pending
        BY <2>2 DEF EntriesOK
      <3>5. q \in Pending /\ q.sock = pend[n][x].sock /\ q.outgoing = pend[n][x].outgoing
            /\ q.verified = TRUE /\ q.key \in Key
        <4>1. PICK p : p = pend[n][x]
          OBVIOUS
        <4>2. p \in Pending
          BY <3>4, <4>1
        <4>3. q = [p EXCEPT !.verified = TRUE, !.key = k, !.mismatch = mis]
          BY <3>2, <4>1, Zenon
        <4>4. q \in Pending /\ q.sock = p.sock /\ q.outgoing = p.outgoing
              /\ q.verified = TRUE /\ q.key = k
          <5>1. mis \in BOOLEAN
            BY <3>1, Zenon
          <5>2. PICK a : a = [p EXCEPT !.verified = TRUE]
            OBVIOUS
          <5>3. PICK b : b = [a EXCEPT !.key = k]
            OBVIOUS
          <5>4. q = [b EXCEPT !.mismatch = mis]
            BY <4>3, <5>2, <5>3
          <5>5. a \in Pending /\ a.sock = p.sock /\ a.outgoing = p.outgoing /\ a.verified = TRUE
            BY <4>2, <5>2 DEF Pending
          <5>6. b \in Pending /\ b.sock = a.sock /\ b.outgoing = a.outgoing
                /\ b.verified = a.verified /\ b.key = k
            BY <1>3, <5>3, <5>5 DEF Pending
          <5>7. q \in Pending /\ q.sock = b.sock /\ q.outgoing = b.outgoing
                /\ q.verified = b.verified /\ q.key = b.key
            BY <5>1, <5>4, <5>6 DEF Pending
          <5>8. QED
            BY <5>5, <5>6, <5>7
        <4>5. QED
          BY <1>3, <4>1, <4>4
      <3>6. nonce'[n][x] = 0
        BY <2>2 DEF ShapeOK
      <3>7. pend[n][x] # None /\ UNCHANGED <<sock, conns>> /\ World /\ chan' = chan
        BY <1>2, <2>2
      <3>8. EntriesOK'
        BY <1>4, <3>3, <3>5, <3>6, <3>7, PendingProven
      <3>9. QED
        BY <1>5, <3>7, <3>8, ChansStay
    <2>3. CASE /\ pend[n][x] = None /\ conns[n][x] # None
               /\ conns' = [conns EXCEPT ![n][x].key = k]
               /\ UNCHANGED <<pend, chan>>
      <3>1. PICK r : r = [conns[n][x] EXCEPT !.key = k]
        OBVIOUS
      <3>2. conns' = [conns EXCEPT ![n][x] = r]
        BY <2>3, <3>1, Zenon
      <3>3. conns[n][x] \in Connection
        BY <2>3 DEF EntriesOK
      <3>4. r \in Connection /\ r.sock = conns[n][x].sock
        BY <1>3, <3>1, <3>3 DEF Connection
      <3>5. /\ pend[n][x] = None /\ conns[n][x] # None /\ World
            /\ UNCHANGED <<sock, pend>> /\ chan' = chan
        BY <1>2, <2>3
      <3>6. EntriesOK'
        BY <1>4, <3>2, <3>4, <3>5, ConnectionProven
      <3>7. QED
        BY <1>5, <3>5, <3>6, ChansStay
    <2>4. CASE UNCHANGED <<pend, conns, chan>> /\ (nonce' = nonce \/ pend[n][x] = None)
      <3>1. \A m \in Node, y \in Name : Kept(m, y)
        BY <1>2, <1>4, <2>4 DEF Kept
      <3>2. EntriesOK'
        BY <1>2, <2>4, <3>1, EntriesKept DEF EntriesOK
      <3>3. QED
        BY <1>2, <1>5, <2>4, <3>2, ChansStay
    <2>5. QED
      BY <1>1, <2>1, <2>2, <2>3, <2>4 DEF HandleProof
  <1>8. QED
    BY <1>5, <1>6, <1>7

------------------------------------------------------------------------------
(* Every state *)

\* Who is known at the start has agreed, and has a name.
LEMMA InitIInv ==
  ASSUME Init
  PROVE  IInv
  <1>1. DialName \in [Node -> Name] /\ Node \subseteq Name
    BY SessionAssumption DEF DialName
  <1>2. agreed \in [Node -> SUBSET Name] /\ left \in Budget
    BY SessionAssumption DEF Init
  <1>3. ShapeOK
    <2>1. 0 \in 0..MaxDials /\ {} \in SUBSET {"node_info", "manifest"} /\ "none" \in EndState
      BY SessionAssumption DEF EndState
    <2>2. up \in [Link -> BOOLEAN] /\ sock \in [Link -> [Node -> EndState]]
      BY <2>1 DEF Init
    <2>3. nonce \in [Node -> [Name -> 0..MaxDials]]
      BY <2>1 DEF Init
    <2>4. remote \in [Node -> [Name -> SUBSET {"node_info", "manifest"}]]
      BY <2>1 DEF Init
    <2>5. busy \in [Node -> [Name -> BOOLEAN]] /\ batch \in {NoBatch} \union (Link \X Node)
      BY DEF Init
    <2>6. key \in [Node -> Key]
      BY SessionAssumption DEF Init
    <2>7. QED
      BY <1>2, <2>2, <2>3, <2>4, <2>5, <2>6 DEF ShapeOK
  <1>4. LinkOK
    BY DEF Init, LinkOK
  <1>5. TrustOK
    <2>1. ASSUME NEW n \in Node, NEW x \in agreed[n]
          PROVE  (CHOOSE p \in Node : Knows(left.known, n, p, x)) \in Node
      BY <2>1 DEF Init
    <2>2. \A n \in Node, x \in Name :
              trusted[n][x] = IF x \in agreed[n]
                              THEN FirstKey[CHOOSE p \in Node : Knows(left.known, n, p, x)]
                              ELSE None
      BY DEF Init
    <2>3. \A n \in Node, x \in Name : trusted[n][x] \in Key \union {None}
      BY <2>1, <2>2, SessionAssumption
    <2>4. trusted = [n \in Node |-> [x \in Name |->
               IF x \in agreed[n] THEN FirstKey[CHOOSE p \in Node : Knows(left.known, n, p, x)]
               ELSE None]]
      BY Zenon DEF Init
    <2>5. \A n \in Node : trusted[n] \in [Name -> Key \union {None}]
      <3> SUFFICES ASSUME NEW n \in Node PROVE trusted[n] \in [Name -> Key \union {None}]
        OBVIOUS
      <3>1. trusted[n] = [x \in Name |->
                IF x \in agreed[n] THEN FirstKey[CHOOSE p \in Node : Knows(left.known, n, p, x)]
                ELSE None]
        BY <2>4, Zenon
      <3>2. \A x \in Name : trusted[n][x] \in Key \union {None}
        BY <2>3
      <3>3. QED
        BY <3>1, <3>2
    <2>6. trusted \in [Node -> [Name -> Key \union {None}]]
      BY <2>4, <2>5
    <2>7. QED
      BY <2>2, <2>6 DEF TrustOK
  <1>6. EntriesOK
    BY DEF Init, EntriesOK, PendEntry, ConnEntry
  <1>7. ChanOK
    <2>1. \A c \in Link, n \in Node : <<>> \in Seq(Msg) /\ <<>> \in Seq(OnWire[c][n])
      OBVIOUS
    <2>2. QED
      BY <2>1 DEF Init, ChanOK
  <1>8. QueueOK
    <2>1. \A n \in Node, x \in Name : <<>> \in Seq(Entry) /\ <<>> \in Seq(InQueue[n][x])
      OBVIOUS
    <2>2. QED
      BY <2>1 DEF Init, QueueOK
  <1>9. QED
    BY <1>3, <1>4, <1>5, <1>6, <1>7, <1>8 DEF IInv

LEMMA StutterKeeps ==
  ASSUME IInv, UNCHANGED vars
  PROVE  IInv'
  <1>1. World /\ UNCHANGED <<wireVars, tableVars, loopVars, trusted, key, left, agreed>>
    BY WorldStays DEF vars, wireVars, tableVars, loopVars
  <1>2. ShapeOK'
    BY <1>1 DEF IInv, ShapeOK, wireVars, tableVars, loopVars
  <1>3. LinkOK' /\ TrustOK' /\ EntriesOK' /\ ChanOK' /\ QueueOK'
    BY <1>1, <1>2, LinksStay, TrustStays, EntriesStay, ChansStay, QueuesStay
       DEF wireVars, tableVars, loopVars
  <1>4. QED
    BY <1>2, <1>3 DEF IInv

LEMMA HandleKeeps ==
  ASSUME IInv, NEW n \in Node, NEW x \in Name, Handle(n, x)
  PROVE  IInv'
  BY HandleChallengeKeeps, HandleProofKeeps, HandleApprovalKeeps, HandleDenialKeeps,
     HandleStateKeeps, HandleRequestKeeps, HandleFileKeeps DEF Handle

LEMMA NextIInv ==
  ASSUME IInv, [Next]_vars
  PROVE  IInv'
  <1>1. CASE \E c \in Link, n, p \in Node : Dial(c, n, p)
    BY <1>1, DialKeeps
  <1>2. CASE \E c \in Link : Accept(c) \/ Open(c) \/ LinkFails(c)
    BY <1>2, AcceptKeeps, OpenKeeps, LinkFailsKeeps
  <1>3. CASE \E c \in Link, n \in Node : Receive(c, n) \/ CloseEvent(c, n)
    BY <1>3, ReceiveKeeps, CloseEventKeeps
  <1>4. CASE \E n \in Node, x \in Name : Handle(n, x) \/ FinishFile(n, x) \/ MissedPing(n, x)
    BY <1>4, HandleKeeps, FinishFileKeeps, MissedPingKeeps
  <1>5. CASE \E n \in Node, x \in Name : Approve(n, x) \/ Deny(n, x) \/ SendFile(n, x)
    BY <1>5, ApproveKeeps, DenyKeeps, SendFileKeeps
  <1>6. CASE \E n \in Node : Restart(n)
    BY <1>6, RestartKeeps
  <1>7. CASE UNCHANGED vars
    BY <1>7, StutterKeeps
  <1>8. QED
    BY <1>1, <1>2, <1>3, <1>4, <1>5, <1>6, <1>7 DEF Next

LEMMA Invariant == Spec => []IInv
  BY InitIInv, NextIInv, PTL DEF Spec

\* Every variable keeps its type in every behaviour of the sessions: the
\* tables, queues and sockets of transport.ts under any order of messages,
\* closes, failures and restarts.
THEOREM TypeCorrect == Spec => []TypeOK
  <1>1. IInv => TypeOK
    BY DEF IInv, ShapeOK, LinkOK, TrustOK, EntriesOK, ChanOK, QueueOK, TypeOK
  <1>2. QED
    BY <1>1, Invariant, PTL

\* No connection and no pending connection outlives its end of the link,
\* whichever of replacement, denial, close event and keepalive comes first.
THEOREM EntriesCorrect == Spec => []EntriesAreOpen
  <1>1. IInv => EntriesAreOpen
    BY DEF IInv, EntriesOK, PendEntry, ConnEntry, EntriesAreOpen
  <1>2. QED
    BY <1>1, Invariant, PTL

\* A pending connection counts as proven only after the answer to the challenge
\* of its own socket, although handleVerifiedIdentity finds nonces by name.
THEOREM ProvenCorrect == Spec => []ProvenOnThisSocket
  <1>1. IInv => ProvenOnThisSocket
    BY DEF IInv, EntriesOK, PendEntry, ProvenOnThisSocket
  <1>2. QED
    BY <1>1, Invariant, PTL

\* "No one joins without your say-so", for the users of both ends of every
\* connection of any number of gateways, links, keys and restarts.
THEOREM ConsentCorrect == Spec => []MutualConsent
  <1>1. IInv => MutualConsent
    BY DEF IInv, EntriesOK, ConnEntry, MutualConsent
  <1>2. QED
    BY <1>1, Invariant, PTL
------------------------------------------------------------------------------
(* The keys.  A proof that comes late, for a socket whose pending entry was    *)
(* denied, overwrites the key of the connection that has the name by then.  It *)
(* is the same key: the dial was begun before there was a connection, and who  *)
(* may still answer it has not restarted since.                                *)

\* n's end of c has been open.
Begun(c, n) == sock[c][n] \notin {"none", "connecting"}

\* The end of n's dial d for x that may still be answered, and the key of who
\* may answer.
Dialling(d, n, x) ==
    Belongs(d, n, x) /\ sock[d][n] = "connecting" /\ sock[d][Other(d, n)] # "closed"
Answers(k, n, x) == \A d \in Link : Dialling(d, n, x) => k = key[Other(d, n)]

FreshOK == \A c \in Link : link[c] = NoLink => \A n \in Node : sock[c][n] = "none"

NonceOK == \A n \in Node, x \in Name : nonce[n][x] # 0 => Belongs(nonce[n][x], n, x)

KeyEntry(n, x) ==
    /\ conns[n][x] # None => /\ conns[n][x].key = trusted[n][x]
                             /\ Answers(conns[n][x].key, n, x)
    /\ pend[n][x] # None /\ pend[n][x].verified => Answers(pend[n][x].key, n, x)
KeysOK == \A n \in Node, x \in Name : KeyEntry(n, x)

\* n's challenge for c, under way to p: the proof will have the key of n's connection.
ChallengeOK(c, p, n) == \E x \in Name :
    /\ Belongs(c, n, x) /\ Other(c, n) = p /\ Begun(c, n)
    /\ nonce[n][x] = c /\ conns[n][x] # None => key[p] = conns[n][x].key

\* A proof for c, under way to n, has it.
ProofOK(c, n, k) == \E x \in Name :
    /\ Belongs(c, n, x) /\ Begun(c, n)
    /\ nonce[n][x] = c => /\ conns[n][x] # None => k = conns[n][x].key
                          /\ pend[n][x] # None => Answers(k, n, x)

KeyWire == [d \in Link |-> [n \in Node |->
    {m \in Msg :
        /\ m.type = "identity_challenge" =>
               link[d] # NoLink /\ ChallengeOK(m.nonce, n, Other(d, n))
        /\ m.type = "identity_proof" => ProofOK(m.nonce, n, m.key)}]]

KeyQueue == [n \in Node |-> [x \in Name |->
    {e \in Entry :
        /\ e.msg.type = "identity_challenge" =>
               \E p \in Node : Names(x, p) /\ ChallengeOK(e.msg.nonce, n, p)
        /\ e.msg.type = "identity_proof" => ProofOK(e.msg.nonce, n, e.msg.key)}]]

WireK == \A d \in Link, n \in Node : chan[d][n] \in Seq(KeyWire[d][n])
QueueK == \A n \in Node, x \in Name : queue[n][x] \in Seq(KeyQueue[n][x])

KInv == FreshOK /\ NonceOK /\ KeysOK /\ WireK /\ QueueK

\* A step that leaves what is under way as good as it was: a nonce is kept with
\* the entries it is compared for, or is new, or is used up; and no dial can be
\* answered that could not be before, where there are entries, nor by another key.
Steady(n, x) ==
    /\ \/ nonce'[n][x] = 0
       \/ nonce'[n][x] \in Link /\ ~Begun(nonce'[n][x], n)
       \/ /\ nonce'[n][x] = nonce[n][x]
          /\ pend'[n][x] \in {pend[n][x], None} /\ conns'[n][x] \in {conns[n][x], None}
    /\ \/ pend'[n][x] = None /\ conns'[n][x] = None
       \/ \A d \in Link : Dialling(d, n, x)' =>
              Dialling(d, n, x) /\ key'[Other(d, n)] = key[Other(d, n)]

BegunStays == \A c \in Link, n \in Node : Begun(c, n) => Begun(c, n)'

Frame == World /\ BegunStays /\ \A n \in Node, x \in Name : Steady(n, x)

LEMMA AnswersStay ==
  ASSUME IInv, World, NEW n \in Node, NEW x \in Name, Steady(n, x), NEW k, Answers(k, n, x),
         pend'[n][x] # None \/ conns'[n][x] # None
  PROVE  Answers(k, n, x)'
  <1> SUFFICES ASSUME NEW d \in Link, Dialling(d, n, x)'
               PROVE  k = key'[Other(d, n)']
    BY DEF Answers
  <1>1. Dialling(d, n, x) /\ key'[Other(d, n)] = key[Other(d, n)]
    BY DEF Steady
  <1>2. Other(d, n)' = Other(d, n)
    BY <1>1, BelongsStays DEF Dialling
  <1>3. QED
    BY <1>1, <1>2 DEF Answers

LEMMA ChallengeStays ==
  ASSUME IInv, Frame, NEW c, NEW p \in Node, NEW n \in Node, key'[p] = key[p],
         ChallengeOK(c, p, n)
  PROVE  ChallengeOK(c, p, n)'
  <1>1. PICK x \in Name : /\ Belongs(c, n, x) /\ Other(c, n) = p /\ Begun(c, n)
                          /\ nonce[n][x] = c /\ conns[n][x] # None => key[p] = conns[n][x].key
    BY DEF ChallengeOK
  <1>2. Belongs(c, n, x)' /\ Other(c, n)' = p /\ c # 0 /\ c \in Link
    BY <1>1, BelongsStays, EndsOfLink DEF Frame
  <1>3. Begun(c, n)'
    BY <1>1, <1>2 DEF Frame, BegunStays
  <1>4. nonce'[n][x] = c /\ conns'[n][x] # None => key'[p] = conns'[n][x].key
    BY <1>1, <1>2 DEF Frame, Steady
  <1>5. QED
    BY <1>2, <1>3, <1>4 DEF ChallengeOK

LEMMA ProofStays ==
  ASSUME IInv, Frame, NEW c, NEW n \in Node, NEW k, ProofOK(c, n, k)
  PROVE  ProofOK(c, n, k)'
  <1>1. PICK x \in Name :
            /\ Belongs(c, n, x) /\ Begun(c, n)
            /\ nonce[n][x] = c => /\ conns[n][x] # None => k = conns[n][x].key
                                  /\ pend[n][x] # None => Answers(k, n, x)
    BY DEF ProofOK
  <1>2. Belongs(c, n, x)' /\ c # 0 /\ c \in Link
    BY <1>1, BelongsStays, EndsOfLink DEF Frame
  <1>3. Begun(c, n)'
    BY <1>1, <1>2 DEF Frame, BegunStays
  <1>4. ASSUME nonce'[n][x] = c
        PROVE  /\ conns'[n][x] # None => k = conns'[n][x].key
               /\ pend'[n][x] # None => Answers(k, n, x)'
    <2>1. /\ nonce[n][x] = c
          /\ pend'[n][x] \in {pend[n][x], None} /\ conns'[n][x] \in {conns[n][x], None}
      BY <1>1, <1>2, <1>4 DEF Frame, Steady
    <2>2. pend'[n][x] # None => Answers(k, n, x)'
      BY <1>1, <2>1, AnswersStay DEF Frame
    <2>3. QED
      BY <1>1, <2>1, <2>2
  <1>5. QED
    BY <1>2, <1>3, <1>4 DEF ProofOK

LEMMA KeyWireGrows ==
  ASSUME IInv, Frame, NEW d \in Link, NEW p \in Node, key'[p] = key[p]
  PROVE  KeyWire[d][p] \subseteq KeyWire'[d][p]
  <1> SUFFICES ASSUME NEW m \in KeyWire[d][p]
               PROVE  m \in KeyWire'[d][p]
    OBVIOUS
  <1>1. /\ m \in Msg
        /\ m.type = "identity_challenge" =>
               link[d] # NoLink /\ ChallengeOK(m.nonce, p, Other(d, p))
        /\ m.type = "identity_proof" => ProofOK(m.nonce, p, m.key)
    BY DEF KeyWire
  <1>2. ASSUME m.type = "identity_challenge"
        PROVE  link'[d] # NoLink /\ ChallengeOK(m.nonce, p, Other(d, p))'
    <2>1. link'[d] = link[d] /\ link[d] # NoLink
      BY <1>1, <1>2 DEF Frame, World
    <2>2. PICK o : o = Other(d, p)
      OBVIOUS
    <2>3. o \in Node /\ Other(d, p)' = o
      BY <2>1, <2>2 DEF Other, IInv, LinkOK
    <2>4. ChallengeOK(m.nonce, p, o)
      BY <1>1, <1>2, <2>2
    <2>5. ChallengeOK(m.nonce, p, o)'
      BY <2>3, <2>4, ChallengeStays
    <2>6. QED
      BY <2>1, <2>3, <2>5
  <1>3. m.type = "identity_proof" => ProofOK(m.nonce, p, m.key)'
    BY <1>1, ProofStays
  <1>4. QED
    BY <1>1, <1>2, <1>3 DEF KeyWire

LEMMA KeyQueueGrows ==
  ASSUME IInv, Frame, NEW p \in Node, NEW x \in Name, key'[p] = key[p]
  PROVE  KeyQueue[p][x] \subseteq KeyQueue'[p][x]
  <1> SUFFICES ASSUME NEW e \in KeyQueue[p][x]
               PROVE  e \in KeyQueue'[p][x]
    OBVIOUS
  <1>1. /\ e \in Entry
        /\ e.msg.type = "identity_challenge" =>
               \E n \in Node : Names(x, n) /\ ChallengeOK(e.msg.nonce, p, n)
        /\ e.msg.type = "identity_proof" => ProofOK(e.msg.nonce, p, e.msg.key)
    BY DEF KeyQueue
  <1>2. ASSUME e.msg.type = "identity_challenge"
        PROVE  \E n \in Node : Names(x, n)' /\ ChallengeOK(e.msg.nonce, p, n)'
    <2>1. PICK n \in Node : Names(x, n) /\ ChallengeOK(e.msg.nonce, p, n)
      BY <1>1, <1>2
    <2>2. ChallengeOK(e.msg.nonce, p, n)'
      BY <2>1, ChallengeStays
    <2>3. Names(x, n)'
      BY <2>1 DEF Frame, World, Names
    <2>4. QED
      BY <2>2, <2>3
  <1>3. e.msg.type = "identity_proof" => ProofOK(e.msg.nonce, p, e.msg.key)'
    BY <1>1, ProofStays
  <1>4. QED
    BY <1>1, <1>2, <1>3 DEF KeyQueue

LEMMA KeysUnderWay ==
  ASSUME IInv, KInv, Frame, key' = key
  PROVE  /\ \A d \in Link, n \in Node : chan[d][n] \in Seq(KeyWire'[d][n])
         /\ \A n \in Node, x \in Name : queue[n][x] \in Seq(KeyQueue'[n][x])
  <1>1. ASSUME NEW d \in Link, NEW n \in Node
        PROVE  chan[d][n] \in Seq(KeyWire'[d][n])
    BY KeyWireGrows, SeqMonotonic DEF KInv, WireK
  <1>2. ASSUME NEW n \in Node, NEW x \in Name
        PROVE  queue[n][x] \in Seq(KeyQueue'[n][x])
    BY KeyQueueGrows, SeqMonotonic DEF KInv, QueueK
  <1>3. QED
    BY <1>1, <1>2

\* The entries of n for x are kept or dropped, or are right.
LEMMA KeyEntryStays ==
  ASSUME IInv, World, NEW n \in Node, NEW x \in Name, KeyEntry(n, x), Steady(n, x),
         pend'[n][x] \in {pend[n][x], None}, conns'[n][x] \in {conns[n][x], None},
         trusted'[n][x] = trusted[n][x]
  PROVE  KeyEntry(n, x)'
  <1>1. ASSUME conns'[n][x] # None
        PROVE  conns'[n][x].key = trusted'[n][x] /\ Answers(conns[n][x].key, n, x)'
    BY <1>1, AnswersStay DEF KeyEntry
  <1>2. ASSUME pend'[n][x] # None, pend'[n][x].verified
        PROVE  Answers(pend[n][x].key, n, x)'
    BY <1>2, AnswersStay DEF KeyEntry
  <1>3. QED
    BY <1>1, <1>2 DEF KeyEntry, Answers

------------------------------------------------------------------------------
(* The steps that leave the tables alone *)

\* What is compared with no key may go to anybody.
Mute == {m \in Msg : m.type \notin {"identity_challenge", "identity_proof"}}

LEMMA MuteSent ==
  ASSUME NEW c \in Link, NEW n \in Node
  PROVE  Mute \subseteq Msg /\ Mute \subseteq KeyWire'[c][n]
  BY DEF Mute, KeyWire

LEMMA MuteMessages ==
  /\ PeerState \in Seq(Mute) /\ <<Approval>> \in Seq(Mute) /\ <<Denial>> \in Seq(Mute)
  /\ \A t \in {"manifest", "file"} : <<Plain(t)>> \in Seq(Mute)
  /\ <<Approval>> \o PeerState \in Seq(Mute)
  <1>1. \A t \in {"manifest", "file", "denied", "approved", "node_info", "manifest_request"} :
            Plain(t) \in Mute
    BY SessionAssumption DEF Plain, Mute, Msg, MsgType
  <1>2. PeerState \in Seq(Mute) /\ <<Approval>> \in Seq(Mute) /\ <<Denial>> \in Seq(Mute)
    BY <1>1 DEF PeerState, Denial, Approval
  <1>3. \A t \in {"manifest", "file"} : <<Plain(t)>> \in Seq(Mute)
    BY <1>1
  <1>4. <<Approval>> \o PeerState \in Seq(Mute)
    BY <1>2, ConcatProperties
  <1>5. QED
    BY <1>2, <1>3, <1>4

LEMMA MuteSending ==
  ASSUME IInv, NEW ch \in [Link -> [Node -> Seq(Msg)]],
         \A d \in Link, m \in Node : ch[d][m] \in Seq(KeyWire'[d][m]),
         NEW n \in Node, NEW c, c = 0 \/ \E x : Belongs(c, n, x), NEW ms \in Seq(Mute)
  PROVE  /\ Sent(ch, c, n, ms) \in [Link -> [Node -> Seq(Msg)]]
         /\ \A d \in Link, m \in Node : Sent(ch, c, n, ms)[d][m] \in Seq(KeyWire'[d][m])
  <1>1. ms \in Seq(Msg)
    BY SeqMonotonic DEF Mute
  <1>2. c # 0 => ms \in Seq(KeyWire'[c][Other(c, n)])
    <2>1. c # 0 => c \in Link /\ Other(c, n) \in Node
      BY EndsOfLink
    <2>2. c # 0 => Mute \subseteq KeyWire'[c][Other(c, n)]
      BY <2>1, MuteSent
    <2>3. QED
      BY <2>2, SeqMonotonic
  <1>3. PICK W : W = KeyWire'
    OBVIOUS
  <1>4. QED
    BY <1>1, <1>2, <1>3, SentKeeps

LEMMA MuteToPeer ==
  ASSUME IInv, KInv, Frame, key' = key, NEW n \in Node, NEW x \in Name, NEW ms \in Seq(Mute),
         SendToPeer(n, x, ms)
  PROVE  WireK'
  <1>1. PICK c : c = OutLink(n, conns[n][x], pend[n][x])
    OBVIOUS
  <1>2. c = 0 \/ \E y : Belongs(c, n, y)
    BY <1>1, EntriesBelong, OutBelongs
  <1>3. chan' = Sent(chan, c, n, ms)
    BY <1>1 DEF SendToPeer
  <1>4. /\ chan \in [Link -> [Node -> Seq(Msg)]]
        /\ \A d \in Link, m \in Node : chan[d][m] \in Seq(KeyWire'[d][m])
    BY KeysUnderWay DEF IInv, ChanOK
  <1>5. QED
    BY <1>2, <1>3, <1>4, MuteSending DEF WireK

LEMMA WireKStays ==
  ASSUME IInv, KInv, Frame, UNCHANGED <<key, chan>>
  PROVE  WireK'
  BY KeysUnderWay DEF WireK

LEMMA QueueKStays ==
  ASSUME IInv, KInv, Frame, UNCHANGED <<key, queue>>
  PROVE  QueueK'
  BY KeysUnderWay DEF QueueK

LEMMA QueueKDone ==
  ASSUME IInv, KInv, Frame, key' = key, NEW n \in Node, NEW x \in Name, NEW type,
         Turn(n, x, type), Done(n, x)
  PROVE  QueueK'
  <1>1. /\ queue \in [Node -> [Name -> Seq(Entry)]] /\ queue[n][x] # <<>>
        /\ queue[n][x] \in Seq(Entry)
    BY DEF IInv, QueueOK, Turn
  <1>2. Tail(queue[n][x]) \in Seq(Entry)
    BY <1>1, HeadTailProperties
  <1>3. \A m \in Node, y \in Name : queue[m][y] \in Seq(KeyQueue'[m][y])
    BY KeysUnderWay
  <1>4. Tail(queue[n][x]) \in Seq(KeyQueue'[n][x])
    BY <1>1, <1>3, HeadTailProperties
  <1>5. queue' = [queue EXCEPT ![n][x] = Tail(queue[n][x])]
    BY <1>1 DEF Done
  <1>6. /\ queue'[n][x] = Tail(queue[n][x])
        /\ \A m \in Node, y \in Name : m # n \/ y # x => queue'[m][y] = queue[m][y]
    BY <1>1, <1>2, <1>5, Put
  <1>7. QED
    BY <1>3, <1>4, <1>6 DEF QueueK

\* The head of a queue is as good as its queue.
LEMMA KeyHead ==
  ASSUME IInv, KInv, NEW n \in Node, NEW x \in Name, NEW type, Turn(n, x, type)
  PROVE  Received(n, x) \in KeyQueue[n][x]
  <1>1. queue[n][x] \in Seq(KeyQueue[n][x]) /\ queue[n][x] # <<>>
    BY DEF KInv, QueueK, Turn
  <1>2. QED
    BY <1>1, HeadTailProperties DEF Received

LEMMA TablesStay ==
  ASSUME IInv, KInv, World, UNCHANGED <<link, sock, pend, conns, nonce, trusted, key>>
  PROVE  Frame /\ FreshOK' /\ NonceOK' /\ KeysOK'
  <1>1. \A d, n, x : Dialling(d, n, x)' => Dialling(d, n, x)
    BY DEF Dialling, Belongs, Ends, NameAt, Other, World
  <1>2. \A n \in Node, x \in Name : Steady(n, x)
    BY <1>1 DEF Steady
  <1>3. Frame
    BY <1>2 DEF Frame, BegunStays, Begun
  <1>4. FreshOK'
    BY DEF KInv, FreshOK
  <1>5. NonceOK'
    BY BelongsStays DEF KInv, NonceOK
  <1>6. \A n \in Node, x \in Name : KeyEntry(n, x)'
    BY <1>2, KeyEntryStays DEF KInv, KeysOK
  <1>7. KeysOK'
    BY <1>6 DEF KeysOK
  <1>8. QED
    BY <1>3, <1>4, <1>5, <1>7

LEMMA ChallengeAnswered ==
  ASSUME IInv, KInv, NEW n \in Node, NEW x \in Name, HandleChallenge(n, x)
  PROVE  KInv'
  <1>1. /\ Turn(n, x, "identity_challenge") /\ Done(n, x) /\ World
        /\ UNCHANGED <<link, up, sock, tableVars, busy, trusted, key, left, agreed>>
    BY WorldStays DEF HandleChallenge
  <1>2. Frame /\ FreshOK' /\ NonceOK' /\ KeysOK'
    BY <1>1, TablesStay DEF tableVars
  <1>3. PICK c : c = Received(n, x).msg.nonce
    OBVIOUS
  <1>4. PICK r : r = Proof(c, key[n])
    OBVIOUS
  <1>5. r \in Msg /\ r.type = "identity_proof" /\ r.nonce = c /\ r.key = key[n]
    <2>1. Received(n, x).msg \in Msg /\ key[n] \in Key
      BY <1>1, HeadOf DEF IInv, ShapeOK
    <2>2. c \in 0..MaxDials
      BY <1>3, <2>1 DEF Msg
    <2>3. QED
      BY <1>4, <2>1, <2>2 DEF Proof, Msg, MsgType
  <1>6. PICK o \in Node : Names(x, o) /\ ChallengeOK(c, n, o)
    <2>1. Received(n, x) \in KeyQueue[n][x] /\ Received(n, x).msg.type = "identity_challenge"
      BY <1>1, KeyHead, HeadOf
    <2>2. QED
      BY <1>3, <2>1 DEF KeyQueue
  <1>7. PICK y \in Name : /\ Belongs(c, o, y) /\ Other(c, o) = n /\ Begun(c, o)
                          /\ nonce[o][y] = c /\ conns[o][y] # None => key[n] = conns[o][y].key
    BY <1>6 DEF ChallengeOK
  <1>8. Answers(key[n], o, y)
    <2> SUFFICES ASSUME NEW d \in Link, Dialling(d, o, y)
                 PROVE  key[n] = key[Other(d, o)]
      BY DEF Answers
    <2>1. Names(y, n) /\ Names(y, Other(d, o)) /\ Other(d, o) \in Node
      BY <1>7, EndsOfLink DEF Dialling
    <2>2. QED
      BY <2>1, DialNames DEF IInv
  <1>9. ProofOK(c, o, key[n])
    BY <1>7, <1>8 DEF ProofOK
  <1>10. ProofOK(c, o, key[n])'
    <2>1. PICK k : k = key[n]
      OBVIOUS
    <2>2. ProofOK(c, o, k)'
      BY <1>2, <1>9, <2>1, ProofStays
    <2>3. key'[n] = k
      BY <1>1, <2>1
    <2>4. QED
      BY <2>2, <2>3
  <1>11. WireK'
    <2>1. PICK d : d = OutLink(n, conns[n][x], pend[n][x])
      OBVIOUS
    <2>2. d = 0 \/ Belongs(d, n, x)
      BY <2>1, EntriesBelong, OutBelongs
    <2>3. chan' = Sent(chan, d, n, <<r>>)
      BY <1>3, <1>4, <2>1 DEF HandleChallenge, SendToPeer
    <2>4. <<r>> \in Seq(Msg)
      BY <1>5, One
    <2>5. ASSUME d # 0
          PROVE  <<r>> \in Seq(KeyWire'[d][Other(d, n)])
      <3>1. d \in Link /\ Other(d, n) \in Node /\ Names(x, Other(d, n))
        BY <2>2, <2>5, EndsOfLink
      <3>2. Other(d, n) = o
        BY <1>6, <3>1, DialNames DEF IInv
      <3>3. r \in KeyWire'[d][o]
        BY <1>1, <1>5, <1>10, <3>1 DEF KeyWire
      <3>4. QED
        BY <3>2, <3>3, One
    <2>6. /\ chan \in [Link -> [Node -> Seq(Msg)]]
          /\ \A e \in Link, m \in Node : chan[e][m] \in Seq(KeyWire'[e][m])
      BY <1>1, <1>2, KeysUnderWay DEF IInv, ChanOK
    <2>7. PICK W : W = KeyWire'
      OBVIOUS
    <2>8. \A e \in Link, m \in Node : chan'[e][m] \in Seq(W[e][m])
      BY <2>2, <2>3, <2>4, <2>5, <2>6, <2>7, SentKeeps
    <2>9. QED
      BY <2>7, <2>8 DEF WireK
  <1>12. QueueK'
    BY <1>1, <1>2, QueueKDone
  <1>13. QED
    BY <1>2, <1>11, <1>12 DEF KInv

LEMMA MessageReceived ==
  ASSUME IInv, KInv, NEW c \in Link, NEW n \in Node, Receive(c, n)
  PROVE  KInv'
  <1>1. PICK x, m : x = NameAt(c, n) /\ m = Head(chan[c][n])
    OBVIOUS
  <1>2. Belongs(c, n, x)
    BY <1>1 DEF Receive, Belongs
  <1>3. x \in Name /\ Names(x, Other(c, n)) /\ Other(c, n) \in Node
    BY <1>2, EndsOfLink
  <1>4. World /\ UNCHANGED <<link, up, sock, tableVars, busy, trusted, key, left, agreed>>
    BY WorldStays DEF Receive
  <1>5. Frame /\ FreshOK' /\ NonceOK' /\ KeysOK'
    BY <1>4, TablesStay DEF tableVars
  <1>6. chan[c][n] # <<>> /\ chan' = [chan EXCEPT ![c][n] = Tail(chan[c][n])]
    BY DEF Receive, IInv, ChanOK
  <1>7. m \in KeyWire[c][n]
    BY <1>1, <1>6, HeadTailProperties DEF KInv, WireK
  <1>8. /\ \A d \in Link, o \in Node : chan[d][o] \in Seq(KeyWire'[d][o])
        /\ \A o \in Node, y \in Name : queue[o][y] \in Seq(KeyQueue'[o][y])
    BY <1>4, <1>5, KeysUnderWay
  <1>9. WireK'
    <2>1. chan[c][n] \in Seq(Msg) /\ chan[c][n] \in Seq(KeyWire'[c][n])
      BY <1>8 DEF IInv, ChanOK
    <2>2. Tail(chan[c][n]) \in Seq(Msg)
      BY <1>6, <2>1, HeadTailProperties
    <2>3. Tail(chan[c][n]) \in Seq(KeyWire'[c][n])
      BY <1>6, <2>1, HeadTailProperties
    <2>4. /\ chan'[c][n] = Tail(chan[c][n])
          /\ \A d \in Link, o \in Node : d # c \/ o # n => chan'[d][o] = chan[d][o]
      BY <1>6, <2>2, Put DEF IInv, ChanOK
    <2>5. QED
      BY <1>8, <2>3, <2>4 DEF WireK
  <1>10. QueueK'
    <2>1. PICK e : e = [msg |-> m, approved |-> pend[n][x] = None]
      OBVIOUS
    <2>2. m \in Msg
      BY <1>7 DEF KeyWire
    <2>3. e.msg = m /\ e \in Entry
      BY <2>1, <2>2 DEF Entry
    <2>4. /\ m.type = "identity_challenge" => ChallengeOK(m.nonce, n, Other(c, n))
          /\ m.type = "identity_proof" => ProofOK(m.nonce, n, m.key)
      BY <1>7 DEF KeyWire
    <2>5. e \in KeyQueue[n][x]
      BY <1>3, <2>3, <2>4 DEF KeyQueue
    <2>6. e \in KeyQueue'[n][x]
      BY <1>3, <1>4, <1>5, <2>5, KeyQueueGrows
    <2>7. queue[n][x] \in Seq(KeyQueue'[n][x]) /\ queue[n][x] \in Seq(Entry)
      BY <1>3, <1>8 DEF IInv, QueueOK
    <2>8. Append(queue[n][x], e) \in Seq(KeyQueue'[n][x])
      BY <2>6, <2>7, AppendProperties
    <2>9. Append(queue[n][x], e) \in Seq(Entry)
      BY <2>3, <2>7, AppendProperties
    <2>10. queue' = queue \/ queue' = [queue EXCEPT ![n][x] = Append(queue[n][x], e)]
      BY <1>1, <2>1 DEF Receive
    <2>11. CASE queue' = queue
      BY <1>4, <1>5, <2>11, QueueKStays
    <2>12. CASE queue' = [queue EXCEPT ![n][x] = Append(queue[n][x], e)]
      <3>1. /\ queue'[n][x] = Append(queue[n][x], e)
            /\ \A o \in Node, y \in Name : o # n \/ y # x => queue'[o][y] = queue[o][y]
        BY <1>3, <2>9, <2>12, Put DEF IInv, QueueOK
      <3>2. QED
        BY <1>8, <2>8, <3>1 DEF QueueK
    <2>13. QED
      BY <2>10, <2>11, <2>12
  <1>11. QED
    BY <1>5, <1>9, <1>10 DEF KInv

\* Steps that handle a message, and answer it with no more than a manifest.
LEMMA StateHandled ==
  ASSUME IInv, KInv, NEW n \in Node, NEW x \in Name,
         HandleState(n, x) \/ HandleRequest(n, x) \/ HandleFile(n, x)
  PROVE  KInv'
  <1>1. PICK type : Turn(n, x, type)
    BY DEF HandleState, HandleRequest, HandleFile
  <1>2. /\ Done(n, x) /\ World
        /\ UNCHANGED <<link, sock, pend, conns, nonce, trusted, key>>
    <2>1. Done(n, x) /\ UNCHANGED <<link, left, agreed>>
      BY DEF HandleState, HandleRequest, HandleFile, wireVars
    <2>2. UNCHANGED <<sock, pend, conns, nonce, trusted, key>>
      BY DEF HandleState, HandleRequest, HandleFile, wireVars, tableVars
    <2>3. QED
      BY <2>1, <2>2, WorldStays
  <1>3. Frame /\ FreshOK' /\ NonceOK' /\ KeysOK'
    BY <1>2, TablesStay
  <1>4. chan' = chan \/ SendToPeer(n, x, <<Plain("manifest")>>)
    BY DEF HandleState, HandleRequest, HandleFile, wireVars
  <1>5. <<Plain("manifest")>> \in Seq(Mute)
    BY MuteMessages
  <1>6. WireK'
    BY <1>2, <1>3, <1>4, <1>5, MuteToPeer, WireKStays
  <1>7. QueueK'
    BY <1>1, <1>2, <1>3, QueueKDone
  <1>8. QED
    BY <1>3, <1>6, <1>7 DEF KInv

\* Steps that change nothing that a key is compared with.
LEMMA NothingKeyed ==
  ASSUME IInv, KInv, World, UNCHANGED <<link, sock, pend, conns, nonce, trusted, key, chan, queue>>
  PROVE  KInv'
  <1>1. Frame /\ FreshOK' /\ NonceOK' /\ KeysOK'
    BY TablesStay
  <1>2. QED
    BY <1>1, WireKStays, QueueKStays DEF KInv

LEMMA FileFinished ==
  ASSUME IInv, KInv, NEW n \in Node, NEW x \in Name, FinishFile(n, x)
  PROVE  KInv'
  <1>1. World /\ UNCHANGED <<link, sock, pend, conns, nonce, trusted, key, chan, queue>>
    BY WorldStays DEF FinishFile, wireVars, tableVars
  <1>2. QED
    BY <1>1, NothingKeyed

LEMMA NothingHappens ==
  ASSUME IInv, KInv, UNCHANGED vars
  PROVE  KInv'
  <1>1. World /\ UNCHANGED <<link, sock, pend, conns, nonce, trusted, key, chan, queue>>
    BY WorldStays DEF vars, wireVars, tableVars, loopVars
  <1>2. QED
    BY <1>1, NothingKeyed

LEMMA FileSent ==
  ASSUME IInv, KInv, NEW n \in Node, NEW x \in Name, SendFile(n, x)
  PROVE  KInv'
  <1>1. /\ Spend("file")
        /\ chan' = Sent(chan, OutLink(n, conns[n][x], None), n, <<Plain("file")>>)
        /\ UNCHANGED <<link, up, sock, tableVars, loopVars, trusted, key, agreed>>
    BY DEF SendFile
  <1>2. left' \in Budget /\ DialName' = DialName
    BY <1>1, SpendShape DEF IInv
  <1>3. World
    BY <1>1, <1>2 DEF World
  <1>4. Frame /\ FreshOK' /\ NonceOK' /\ KeysOK'
    BY <1>1, <1>3, TablesStay DEF tableVars
  <1>5. WireK'
    <2>1. PICK c : c = OutLink(n, conns[n][x], None)
      OBVIOUS
    <2>2. c = 0 \/ \E y : Belongs(c, n, y)
      BY <2>1, EntriesBelong, OutBelongs
    <2>3. <<Plain("file")>> \in Seq(Mute) /\ chan' = Sent(chan, c, n, <<Plain("file")>>)
      BY <1>1, <2>1, MuteMessages
    <2>4. /\ chan \in [Link -> [Node -> Seq(Msg)]]
          /\ \A d \in Link, m \in Node : chan[d][m] \in Seq(KeyWire'[d][m])
      BY <1>1, <1>4, KeysUnderWay DEF IInv, ChanOK
    <2>5. QED
      BY <2>2, <2>3, <2>4, MuteSending DEF WireK
  <1>6. QueueK'
    BY <1>1, <1>4, QueueKStays DEF loopVars
  <1>7. QED
    BY <1>4, <1>5, <1>6 DEF KInv

LEMMA LinkFailed ==
  ASSUME IInv, KInv, NEW c \in Link, LinkFails(c)
  PROVE  KInv'
  <1>1. /\ Spend("fail") /\ chan' = [chan EXCEPT ![c] = [n \in Node |-> <<>>]]
        /\ UNCHANGED <<link, sock, tableVars, loopVars, trusted, key, agreed>>
    BY DEF LinkFails
  <1>2. left' \in Budget /\ DialName' = DialName
    BY <1>1, SpendShape DEF IInv
  <1>3. World
    BY <1>1, <1>2 DEF World
  <1>4. Frame /\ FreshOK' /\ NonceOK' /\ KeysOK'
    BY <1>1, <1>3, TablesStay DEF tableVars
  <1>5. WireK'
    <2>1. \A d \in Link, n \in Node : chan'[d][n] \in {chan[d][n], <<>>}
      BY <1>1 DEF IInv, ChanOK
    <2>2. \A d \in Link, n \in Node : <<>> \in Seq(KeyWire'[d][n])
      OBVIOUS
    <2>3. \A d \in Link, n \in Node : chan[d][n] \in Seq(KeyWire'[d][n])
      BY <1>1, <1>4, KeysUnderWay
    <2>4. \A d \in Link, n \in Node : chan'[d][n] \in Seq(KeyWire'[d][n])
      BY <2>1, <2>2, <2>3
    <2>5. QED
      BY <2>4 DEF WireK
  <1>6. QueueK'
    BY <1>1, <1>4, QueueKStays DEF loopVars
  <1>7. QED
    BY <1>4, <1>5, <1>6 DEF KInv

------------------------------------------------------------------------------
(* Lost connections *)

\* An end of a link opens or closes.
Moves(c, n) ==
    link[c] # NoLink /\ sock[c][n] # "closed" /\ sock'[c][n] \notin {"none", "connecting"}

LEMMA SocketsMove ==
  ASSUME IInv, KInv, World, UNCHANGED <<link, key>>,
         \A c \in Link, n \in Node : sock'[c][n] = sock[c][n] \/ Moves(c, n)
  PROVE  /\ BegunStays /\ FreshOK'
         /\ \A n \in Node, x \in Name, d \in Link :
                Dialling(d, n, x)' => Dialling(d, n, x) /\ key'[Other(d, n)] = key[Other(d, n)]
  <1>1. ASSUME NEW n \in Node, NEW x \in Name, NEW d \in Link, Dialling(d, n, x)'
        PROVE  Dialling(d, n, x)
    <2>1. Belongs(d, n, x) /\ Other(d, n)' = Other(d, n)
      BY <1>1 DEF Dialling, Belongs, Ends, NameAt, Other, World
    <2>2. Other(d, n) \in Node
      BY <2>1, EndsOfLink
    <2>3. sock'[d][n] = "connecting" /\ sock'[d][Other(d, n)] # "closed"
      BY <1>1, <2>1 DEF Dialling
    <2>4. sock[d][n] = "connecting" /\ sock[d][Other(d, n)] # "closed"
      BY <2>2, <2>3 DEF Moves
    <2>5. QED
      BY <2>1, <2>4 DEF Dialling
  <1>2. BegunStays /\ FreshOK'
    BY DEF KInv, BegunStays, Begun, FreshOK, Moves
  <1>3. QED
    BY <1>1, <1>2

LEMMA EntriesDropped ==
  ASSUME IInv, KInv, World, UNCHANGED <<link, nonce, trusted, key>>,
         \A n \in Node, x \in Name :
             pend'[n][x] \in {pend[n][x], None} /\ conns'[n][x] \in {conns[n][x], None},
         \A c \in Link, n \in Node : sock'[c][n] = sock[c][n] \/ Moves(c, n)
  PROVE  Frame /\ FreshOK' /\ NonceOK' /\ KeysOK'
  <1>1. BegunStays /\ FreshOK'
    BY SocketsMove
  <1>2. \A n \in Node, x \in Name : Steady(n, x)
    BY SocketsMove DEF Steady
  <1>3. Frame
    BY <1>1, <1>2 DEF Frame
  <1>4. NonceOK'
    BY BelongsStays DEF KInv, NonceOK
  <1>5. \A n \in Node, x \in Name : KeyEntry(n, x)'
    BY <1>2, KeyEntryStays DEF KInv, KeysOK
  <1>6. QED
    BY <1>1, <1>3, <1>4, <1>5 DEF KeysOK

LEMMA EndCloses ==
  ASSUME IInv, KInv, NEW c \in Link, NEW n \in Node, Close(c, n)
  PROVE  \A d \in Link, m \in Node : sock'[d][m] = sock[d][m] \/ Moves(d, m)
  <1>1. \A d \in Link, m \in Node : d # c \/ m # n => sock'[d][m] = sock[d][m]
    BY CloseShape DEF IInv
  <1>2. sock'[c][n] = IF sock[c][n] = "open" THEN "closing" ELSE sock[c][n]
    BY DEF Close, IInv, ShapeOK
  <1>3. link[c] = NoLink => sock[c][n] = "none"
    BY DEF KInv, FreshOK
  <1>4. QED
    BY <1>1, <1>2, <1>3 DEF Moves

LEMMA ConnectionDropped ==
  ASSUME IInv, NEW n \in Node, NEW x \in Name, DropConnection(n, x)
  PROVE  \A m \in Node, y \in Name : conns'[m][y] \in {conns[m][y], None}
  BY DropShape

LEMMA DenialHandled ==
  ASSUME IInv, KInv, NEW n \in Node, NEW x \in Name, HandleDenial(n, x)
  PROVE  KInv'
  <1>1. /\ Turn(n, x, "denied") /\ Done(n, x) /\ World
        /\ UNCHANGED <<link, up, chan, conns, nonce, remote, busy, trusted, key, left, agreed>>
    BY WorldStays DEF HandleDenial
  <1>2. Frame /\ FreshOK' /\ NonceOK' /\ KeysOK'
    <2>1. CASE UNCHANGED <<sock, pend>>
      BY <1>1, <2>1, TablesStay
    <2>2. CASE /\ pend[n][x] # None /\ Close(pend[n][x].sock, n)
               /\ pend' = [pend EXCEPT ![n][x] = None]
      <3>1. PICK c : c = pend[n][x].sock
        OBVIOUS
      <3>2. c \in Link /\ Close(c, n)
        BY <2>2, <3>1, EntriesBelong DEF Belongs
      <3>3. \A d \in Link, m \in Node : sock'[d][m] = sock[d][m] \/ Moves(d, m)
        BY <3>2, EndCloses
      <3>4. \A m \in Node, y \in Name : pend'[m][y] \in {pend[m][y], None}
        BY <2>2, PendDropped
      <3>5. QED
        BY <1>1, <3>3, <3>4, EntriesDropped
    <2>3. QED
      BY <2>1, <2>2 DEF HandleDenial
  <1>3. WireK' /\ QueueK'
    BY <1>1, <1>2, WireKStays, QueueKDone
  <1>4. QED
    BY <1>2, <1>3 DEF KInv

LEMMA CallerDenied ==
  ASSUME IInv, KInv, NEW n \in Node, NEW x \in Name, Deny(n, x)
  PROVE  KInv'
  <1>1. /\ pend[n][x] # None /\ SendToPeer(n, x, <<Denial>>) /\ Close(pend[n][x].sock, n)
        /\ pend' = [pend EXCEPT ![n][x] = None] /\ World
        /\ UNCHANGED <<link, up, conns, nonce, remote, loopVars, trusted, key, left, agreed>>
    BY WorldStays DEF Deny
  <1>2. Frame /\ FreshOK' /\ NonceOK' /\ KeysOK'
    <2>1. PICK c : c = pend[n][x].sock
      OBVIOUS
    <2>2. c \in Link /\ Close(c, n)
      BY <1>1, <2>1, EntriesBelong DEF Belongs
    <2>3. \A d \in Link, m \in Node : sock'[d][m] = sock[d][m] \/ Moves(d, m)
      BY <2>2, EndCloses
    <2>4. \A m \in Node, y \in Name : pend'[m][y] \in {pend[m][y], None}
      BY <1>1, PendDropped
    <2>5. QED
      BY <1>1, <2>3, <2>4, EntriesDropped
  <1>3. <<Denial>> \in Seq(Mute)
    BY MuteMessages
  <1>4. WireK' /\ QueueK'
    BY <1>1, <1>2, <1>3, MuteToPeer, QueueKStays DEF loopVars
  <1>5. QED
    BY <1>2, <1>4 DEF KInv

LEMMA PingMissed ==
  ASSUME IInv, KInv, NEW n \in Node, NEW x \in Name, MissedPing(n, x)
  PROVE  KInv'
  <1>1. /\ conns[n][x] # None /\ Close(conns[n][x].sock, n) /\ DropConnection(n, x) /\ World
        /\ UNCHANGED <<link, up, chan, pend, nonce, loopVars, trusted, key, left, agreed>>
    BY WorldStays DEF MissedPing
  <1>2. PICK c : c = conns[n][x].sock
    OBVIOUS
  <1>3. c \in Link /\ Close(c, n)
    BY <1>1, <1>2, EntriesBelong DEF Belongs
  <1>4. \A d \in Link, m \in Node : sock'[d][m] = sock[d][m] \/ Moves(d, m)
    BY <1>3, EndCloses
  <1>5. \A m \in Node, y \in Name : conns'[m][y] \in {conns[m][y], None}
    BY <1>1, ConnectionDropped
  <1>6. Frame /\ FreshOK' /\ NonceOK' /\ KeysOK'
    BY <1>1, <1>4, <1>5, EntriesDropped
  <1>7. WireK' /\ QueueK'
    BY <1>1, <1>6, WireKStays, QueueKStays DEF loopVars
  <1>8. QED
    BY <1>6, <1>7 DEF KInv

LEMMA EndClosed ==
  ASSUME IInv, KInv, NEW c \in Link, NEW n \in Node, CloseEvent(c, n)
  PROVE  KInv'
  <1>1. PICK x : x = NameAt(c, n)
    OBVIOUS
  <1>2. /\ sock' = [sock EXCEPT ![c][n] = "closed"] /\ chan' = [chan EXCEPT ![c][n] = <<>>]
        /\ pend' = [pend EXCEPT ![n][x] = None] /\ DropConnection(n, x) /\ World
        /\ sock[c][n] \in {"open", "closing"}
        /\ UNCHANGED <<link, up, nonce, loopVars, trusted, key, left, agreed>>
    BY <1>1, WorldStays DEF CloseEvent, Ended
  <1>3. x \in Name
    BY <1>1, EndsOfLink DEF CloseEvent, Belongs
  <1>4. \A d \in Link, m \in Node : sock'[d][m] = sock[d][m] \/ Moves(d, m)
    <2>1. /\ sock'[c][n] = "closed"
          /\ \A d \in Link, m \in Node : d # c \/ m # n => sock'[d][m] = sock[d][m]
      BY <1>2 DEF IInv, ShapeOK
    <2>2. link[c] # NoLink
      BY DEF CloseEvent
    <2>3. QED
      BY <1>2, <2>1, <2>2 DEF Moves
  <1>5. \A m \in Node, y \in Name : pend'[m][y] \in {pend[m][y], None}
    BY <1>2, <1>3, PendDropped
  <1>6. \A m \in Node, y \in Name : conns'[m][y] \in {conns[m][y], None}
    BY <1>2, <1>3, ConnectionDropped
  <1>7. Frame /\ FreshOK' /\ NonceOK' /\ KeysOK'
    BY <1>2, <1>4, <1>5, <1>6, EntriesDropped
  <1>8. WireK'
    <2>1. \A d \in Link, m \in Node : chan'[d][m] \in {chan[d][m], <<>>}
      BY <1>2 DEF IInv, ChanOK
    <2>2. \A d \in Link, m \in Node : <<>> \in Seq(KeyWire'[d][m])
      OBVIOUS
    <2>3. \A d \in Link, m \in Node : chan[d][m] \in Seq(KeyWire'[d][m])
      BY <1>2, <1>7, KeysUnderWay
    <2>4. \A d \in Link, m \in Node : chan'[d][m] \in Seq(KeyWire'[d][m])
      BY <2>1, <2>2, <2>3
    <2>5. QED
      BY <2>4 DEF WireK
  <1>9. QueueK'
    BY <1>2, <1>7, QueueKStays DEF loopVars
  <1>10. QED
    BY <1>7, <1>8, <1>9 DEF KInv

LEMMA Restarted ==
  ASSUME IInv, KInv, NEW n \in Node, Restart(n)
  PROVE  KInv'
  <1>1. /\ Spend("restart") /\ (\E k \in Key : key' = [key EXCEPT ![n] = k])
        /\ sock' = [c \in Link |-> IF link[c] # NoLink /\ n \in Ends(c)
                                   THEN [sock[c] EXCEPT ![n] = "closed"] ELSE sock[c]]
        /\ UNCHANGED <<batch, link, up, trusted, agreed>>
    BY DEF Restart
  <1>2. /\ chan' = [c \in Link |-> [chan[c] EXCEPT ![n] = <<>>]]
        /\ pend' = [pend EXCEPT ![n] = [x \in Name |-> None]]
        /\ conns' = [conns EXCEPT ![n] = [x \in Name |-> None]]
        /\ nonce' = [nonce EXCEPT ![n] = [x \in Name |-> 0]]
        /\ queue' = [queue EXCEPT ![n] = [x \in Name |-> <<>>]]
    BY DEF Restart
  <1>3. World
    BY <1>1, SpendShape DEF World, IInv
  <1>4. /\ \A m \in Node : m # n => key'[m] = key[m]
        /\ \A x \in Name : nonce'[n][x] = 0 /\ pend'[n][x] = None /\ conns'[n][x] = None
        /\ \A m \in Node, x \in Name : m # n =>
               nonce'[m][x] = nonce[m][x] /\ pend'[m][x] = pend[m][x] /\ conns'[m][x] = conns[m][x]
    BY <1>1, <1>2 DEF IInv, ShapeOK, EntriesOK
  <1>5. /\ \A d \in Link, m \in Node : sock'[d][m] \in {sock[d][m], "closed"}
        /\ \A d \in Link, m \in Node : link[d] = NoLink => sock'[d][m] = sock[d][m]
        /\ \A d \in Link : link[d] # NoLink /\ n \in Ends(d) => sock'[d][n] = "closed"
    <2>1. \A d \in Link : sock[d] \in [Node -> EndState]
      BY DEF IInv, ShapeOK
    <2>2. QED
      BY <1>1, <2>1
  <1>6. ASSUME NEW m \in Node, NEW x \in Name, m # n, NEW d \in Link, Dialling(d, m, x)'
        PROVE  Dialling(d, m, x) /\ key'[Other(d, m)] = key[Other(d, m)]
    <2>1. Belongs(d, m, x) /\ Other(d, m)' = Other(d, m)
      BY <1>1, <1>3, <1>6 DEF Dialling, Belongs, Ends, NameAt, Other, World
    <2>2. Other(d, m) \in Node /\ Other(d, m) \in Ends(d) /\ link[d] # NoLink
      BY <2>1, EndsOfLink DEF Other, Ends, Belongs
    <2>3. sock'[d][m] = "connecting" /\ sock'[d][Other(d, m)] # "closed"
      BY <1>6, <2>1 DEF Dialling
    <2>4. Other(d, m) # n
      BY <1>5, <2>2, <2>3
    <2>5. sock[d][m] = "connecting" /\ sock[d][Other(d, m)] # "closed"
      BY <1>5, <2>2, <2>3
    <2>6. QED
      BY <1>4, <2>1, <2>2, <2>4, <2>5 DEF Dialling
  <1>7. ASSUME NEW m \in Node, NEW x \in Name
        PROVE  Steady(m, x)
    <2>1. CASE m = n
      BY <1>4, <2>1 DEF Steady
    <2>2. CASE m # n
      BY <1>4, <1>6, <2>2 DEF Steady
    <2>3. QED
      BY <2>1, <2>2
  <1>8. BegunStays
    BY <1>5 DEF BegunStays, Begun
  <1>9. Frame
    BY <1>3, <1>7, <1>8 DEF Frame
  <1>10. FreshOK'
    BY <1>1, <1>5 DEF KInv, FreshOK
  <1>11. NonceOK'
    BY <1>3, <1>4, BelongsStays DEF KInv, NonceOK
  <1>12. KeysOK'
    <2>1. ASSUME NEW m \in Node, NEW x \in Name
          PROVE  KeyEntry(m, x)'
      <3>1. CASE m = n
        BY <1>4, <3>1 DEF KeyEntry
      <3>2. CASE m # n
        BY <1>1, <1>3, <1>4, <1>7, <3>2, KeyEntryStays DEF KInv, KeysOK
      <3>3. QED
        BY <3>1, <3>2
    <2>2. QED
      BY <2>1 DEF KeysOK
  <1>13. ASSUME NEW d \in Link, NEW m \in Node
         PROVE  chan'[d][m] \in Seq(KeyWire'[d][m])
    <2>1. CASE m = n
      <3>1. chan'[d][m] = <<>>
        BY <1>2, <2>1 DEF IInv, ChanOK
      <3>2. QED
        BY <3>1
    <2>2. CASE m # n
      <3>1. chan'[d][m] = chan[d][m]
        BY <1>2, <2>2 DEF IInv, ChanOK
      <3>2. KeyWire[d][m] \subseteq KeyWire'[d][m]
        BY <1>4, <1>9, <2>2, KeyWireGrows
      <3>3. chan[d][m] \in Seq(KeyWire[d][m])
        BY DEF KInv, WireK
      <3>4. QED
        BY <3>1, <3>2, <3>3, SeqMonotonic
    <2>3. QED
      BY <2>1, <2>2
  <1>14. ASSUME NEW m \in Node, NEW x \in Name
         PROVE  queue'[m][x] \in Seq(KeyQueue'[m][x])
    <2>1. CASE m = n
      <3>1. queue'[m][x] = <<>>
        BY <1>2, <2>1 DEF IInv, QueueOK
      <3>2. QED
        BY <3>1
    <2>2. CASE m # n
      <3>1. queue'[m][x] = queue[m][x]
        BY <1>2, <2>2 DEF IInv, QueueOK
      <3>2. KeyQueue[m][x] \subseteq KeyQueue'[m][x]
        BY <1>4, <1>9, <2>2, KeyQueueGrows
      <3>3. queue[m][x] \in Seq(KeyQueue[m][x])
        BY DEF KInv, QueueK
      <3>4. QED
        BY <3>1, <3>2, <3>3, SeqMonotonic
    <2>3. QED
      BY <2>1, <2>2
  <1>15. QED
    BY <1>10, <1>11, <1>12, <1>13, <1>14 DEF KInv, WireK, QueueK

------------------------------------------------------------------------------
(* Dials *)

LEMMA DialBegun ==
  ASSUME IInv, KInv, NEW c \in Link, NEW n \in Node, NEW p \in Node, Dial(c, n, p)
  PROVE  KInv'
  <1>1. PICK x : x = DialName[p]
    OBVIOUS
  <1>2. /\ link[c] = NoLink /\ n # p /\ conns[n][x] = None /\ pend[n][x] = None
        /\ link' = [link EXCEPT ![c] = [from |-> n, to |-> p]]
        /\ sock' = [sock EXCEPT ![c][n] = "connecting"]
        /\ agreed' = [agreed EXCEPT ![n] = @ \union {x}]
        /\ left' = [left EXCEPT !.dial[n] = @ - 1]
        /\ UNCHANGED <<up, chan, tableVars, loopVars, trusted, key>>
    BY <1>1 DEF Dial, FirstFree
  <1>3. DialName' = DialName
    <2>1. left \in Budget
      BY DEF IInv, ShapeOK
    <2>2. left' = [left EXCEPT !.dial = [left.dial EXCEPT ![n] = left.dial[n] - 1]]
      BY <1>2, <2>1
    <2>3. left'.manual = left.manual
      BY <2>1, <2>2 DEF Budget
    <2>4. QED
      BY <2>3 DEF DialName
  <1>4. World
    <2>1. \A d \in Link : d # c => link'[d] = link[d]
      BY <1>2 DEF IInv, LinkOK
    <2>2. \A m \in Node : agreed[m] \subseteq agreed'[m]
      BY <1>2 DEF IInv, ShapeOK
    <2>3. QED
      BY <1>2, <1>3, <2>1, <2>2 DEF World
  <1>5. /\ link'[c] = [from |-> n, to |-> p] /\ \A d \in Link : d # c => link'[d] = link[d]
        /\ \A d \in Link, m \in Node : d # c \/ m # n => sock'[d][m] = sock[d][m]
        /\ \A m \in Node : sock[c][m] = "none"
    BY <1>2 DEF IInv, LinkOK, ShapeOK, KInv, FreshOK
  <1>6. ASSUME NEW m \in Node, NEW y \in Name, m # n \/ y # x, NEW d \in Link, Dialling(d, m, y)'
        PROVE  Dialling(d, m, y)
    <2>1. CASE d = c
      <3>1. m \in {n, p} /\ (m = n => y = x)
        BY <1>1, <1>3, <1>5, <1>6, <2>1 DEF Dialling, Belongs, Ends, NameAt
      <3>2. sock'[c][m] = "connecting"
        BY <1>6, <2>1 DEF Dialling
      <3>3. m # n
        BY <1>6, <3>1
      <3>4. QED
        BY <1>5, <3>2, <3>3
    <2>2. CASE d # c
      <3>1. link'[d] = link[d] /\ link[d] # NoLink
        BY <1>5, <1>6, <2>2 DEF Dialling, Belongs
      <3>2. Belongs(d, m, y) /\ Other(d, m)' = Other(d, m)
        BY <1>3, <1>6, <3>1 DEF Dialling, Belongs, Ends, NameAt, Other
      <3>3. Other(d, m) \in Node
        BY <3>2, EndsOfLink
      <3>4. QED
        BY <1>5, <1>6, <2>2, <3>2, <3>3 DEF Dialling
    <2>3. QED
      BY <2>1, <2>2
  <1>7. ASSUME NEW m \in Node, NEW y \in Name
        PROVE  Steady(m, y)
    <2>1. pend' = pend /\ conns' = conns /\ nonce' = nonce /\ key' = key
      BY <1>2 DEF tableVars
    <2>2. \/ pend'[m][y] = None /\ conns'[m][y] = None
          \/ \A d \in Link : Dialling(d, m, y)' => Dialling(d, m, y)
      BY <1>2, <1>6, <2>1
    <2>3. QED
      BY <2>1, <2>2 DEF Steady
  <1>8. Frame
    BY <1>4, <1>5, <1>7 DEF Frame, BegunStays, Begun
  <1>9. FreshOK'
    <2>1. link'[c] # NoLink
      <3>1. link'[c].from = n /\ n # None
        BY <1>5, SessionAssumption
      <3>2. NoLink.from = None
        BY DEF NoLink
      <3>3. QED
        BY <3>1, <3>2
    <2>2. QED
      BY <1>5, <2>1 DEF KInv, FreshOK
  <1>10. UNCHANGED <<pend, conns, nonce, trusted, key, chan, queue>>
    BY <1>2 DEF tableVars, loopVars
  <1>11. NonceOK'
    BY <1>4, <1>10, BelongsStays DEF KInv, NonceOK
  <1>12. \A m \in Node, y \in Name : KeyEntry(m, y)'
    BY <1>4, <1>7, <1>10, KeyEntryStays DEF KInv, KeysOK
  <1>13. WireK' /\ QueueK'
    BY <1>8, <1>10, WireKStays, QueueKStays
  <1>14. QED
    BY <1>9, <1>11, <1>12, <1>13 DEF KInv, KeysOK

\* A new nonce, of an end that has just opened, and its challenge.
LEMMA ProofAwaited ==
  ASSUME IInv, KInv, World, NEW c, NEW n \in Node, NEW x \in Name, Belongs(c, n, x),
         ~Begun(c, n), sock'[c][n] = "open", AwaitProof(c, n, x),
         \A d \in Link, m \in Node : sock'[d][m] = sock[d][m] \/ Moves(d, m),
         UNCHANGED <<link, trusted, key, queue>>,
         \A m \in Node, y \in Name : conns'[m][y] \in {conns[m][y], None},
         conns'[n][x] # None => Dialling(c, n, x)
  PROVE  KInv'
  <1>1. /\ c \in Link /\ c \in 0..MaxDials /\ link[c] # NoLink
        /\ Other(c, n) \in Node /\ Other(c, Other(c, n)) = n
    BY EndsOfLink, SessionAssumption
  <1>2. /\ pend'[n][x] = Fresh(c, link[c].from = n)
        /\ \A m \in Node, y \in Name : m # n \/ y # x => pend'[m][y] = pend[m][y]
    BY DEF AwaitProof, IInv, EntriesOK
  <1>3. /\ nonce'[n][x] = c
        /\ \A m \in Node, y \in Name : m # n \/ y # x => nonce'[m][y] = nonce[m][y]
    BY DEF AwaitProof, IInv, ShapeOK
  <1>4. /\ BegunStays /\ FreshOK'
        /\ \A m \in Node, y \in Name, d \in Link :
               Dialling(d, m, y)' => Dialling(d, m, y) /\ key'[Other(d, m)] = key[Other(d, m)]
    BY SocketsMove
  <1>5. \A m \in Node, y \in Name : Steady(m, y)
    BY <1>1, <1>2, <1>3, <1>4 DEF Steady
  <1>6. Frame
    BY <1>4, <1>5 DEF Frame
  <1>7. NonceOK'
    <2>1. Belongs(c, n, x)'
      BY BelongsStays
    <2>2. QED
      BY <1>3, <2>1, BelongsStays DEF KInv, NonceOK
  <1>8. ASSUME NEW m \in Node, NEW y \in Name
        PROVE  KeyEntry(m, y)'
    <2>1. CASE m # n \/ y # x
      BY <1>2, <1>5, <2>1, KeyEntryStays DEF KInv, KeysOK
    <2>2. CASE m = n /\ y = x
      <3>1. pend'[n][x].verified = FALSE
        BY <1>2 DEF Fresh
      <3>2. ASSUME conns'[n][x] # None
            PROVE  conns'[n][x].key = trusted'[n][x] /\ Answers(conns[n][x].key, n, x)'
        <4>1. /\ conns'[n][x] = conns[n][x] /\ conns[n][x].key = trusted[n][x]
              /\ Answers(conns[n][x].key, n, x)
          BY <3>2 DEF KInv, KeysOK, KeyEntry
        <4>2. Answers(conns[n][x].key, n, x)'
          <5>1. PICK k : k = conns[n][x].key
            OBVIOUS
          <5>2. Answers(k, n, x)'
            BY <1>5, <3>2, <4>1, <5>1, AnswersStay
          <5>3. QED
            BY <4>1, <5>1, <5>2 DEF Answers
        <4>3. QED
          BY <4>1, <4>2
      <3>3. QED
        BY <2>2, <3>1, <3>2 DEF KeyEntry, Answers
    <2>3. QED
      BY <2>1, <2>2
  <1>9. PICK o : o = Other(c, n)
    OBVIOUS
  <1>10. ChallengeOK(c, o, n)'
    <2>1. Belongs(c, n, x)' /\ Other(c, n)' = o /\ Begun(c, n)'
      BY <1>9, BelongsStays DEF Begun
    <2>2. conns'[n][x] # None => key'[o] = conns'[n][x].key
      BY <1>1, <1>9 DEF KInv, KeysOK, KeyEntry, Answers
    <2>3. QED
      BY <2>1, <2>2 DEF ChallengeOK
  <1>11. WireK'
    <2>1. PICK r : r = Challenge(c)
      OBVIOUS
    <2>2. r \in Msg /\ r.type = "identity_challenge" /\ r.nonce = c
      BY <1>1, <2>1 DEF Challenge, Msg, MsgType
    <2>3. Other(c, o)' = n
      BY <1>1, <1>9 DEF Other
    <2>4. r \in KeyWire'[c][o]
      BY <1>1, <1>9, <1>10, <2>2, <2>3 DEF KeyWire
    <2>5. <<r>> \in Seq(Msg)
      BY <2>2, One
    <2>6. c # 0 => <<r>> \in Seq(KeyWire'[c][Other(c, n)])
      BY <1>9, <2>4, One
    <2>7. chan' = Sent(chan, c, n, <<r>>)
      BY <2>1 DEF AwaitProof
    <2>8. /\ chan \in [Link -> [Node -> Seq(Msg)]]
          /\ \A e \in Link, m \in Node : chan[e][m] \in Seq(KeyWire'[e][m])
      BY <1>6, KeysUnderWay DEF IInv, ChanOK
    <2>9. PICK W : W = KeyWire'
      OBVIOUS
    <2>10. c = 0 \/ \E y : Belongs(c, n, y)
      OBVIOUS
    <2>11. \A e \in Link, m \in Node : chan'[e][m] \in Seq(W[e][m])
      BY <2>5, <2>6, <2>7, <2>8, <2>9, <2>10, SentKeeps
    <2>12. QED
      BY <2>9, <2>11 DEF WireK
  <1>12. QueueK'
    BY <1>6, QueueKStays
  <1>13. QED
    BY <1>4, <1>7, <1>8, <1>11, <1>12 DEF KInv, KeysOK

LEMMA LinkAccepted ==
  ASSUME IInv, KInv, NEW c \in Link, Accept(c)
  PROVE  KInv'
  <1>1. PICK n, x : n = link[c].to /\ x = link[c].from
    OBVIOUS
  <1>2. link[c] # NoLink /\ link[c] \in [from : Node, to : Node] /\ n # x
    BY <1>1 DEF Accept, IInv, LinkOK
  <1>3. n \in Node /\ x \in Name /\ x \in Node
    BY <1>1, <1>2, SessionAssumption
  <1>4. Belongs(c, n, x)
    BY <1>1, <1>2 DEF Belongs, Ends, NameAt
  <1>5. /\ sock[c][n] = "none"
        /\ sock' = [d \in Link |->
               IF d = c THEN [sock[c] EXCEPT ![n] = "open"]
               ELSE IF conns[n][x] # None /\ d = conns[n][x].sock
               THEN [sock[d] EXCEPT ![n] = IF @ = "open" THEN "closing" ELSE @]
               ELSE sock[d]]
        /\ DropConnection(n, x) /\ AwaitProof(c, n, x)
        /\ UNCHANGED <<link, up, loopVars, trusted, key, left, agreed>>
    BY <1>1 DEF Accept
  <1>6. World
    BY <1>5, WorldStays
  <1>7. \A d \in Link : sock[d] \in [Node -> EndState]
    BY DEF IInv, ShapeOK
  <1>8. sock'[c][n] = "open" /\ ~Begun(c, n)
    BY <1>3, <1>5, <1>7 DEF Begun
  <1>9. ASSUME NEW d \in Link, NEW m \in Node
        PROVE  sock'[d][m] = sock[d][m] \/ Moves(d, m)
    <2>1. CASE d = c
      BY <1>2, <1>3, <1>5, <1>7, <2>1 DEF Moves
    <2>2. CASE d # c /\ conns[n][x] # None /\ d = conns[n][x].sock
      <3>1. link[d] # NoLink
        BY <1>3, <2>2, EntriesBelong DEF Belongs
      <3>2. sock' = [e \in Link |->
               IF e = c THEN [sock[c] EXCEPT ![n] = "open"]
               ELSE IF conns[n][x] # None /\ e = conns[n][x].sock
               THEN [sock[e] EXCEPT ![n] = IF @ = "open" THEN "closing" ELSE @]
               ELSE sock[e]]
        BY <1>5
      <3>3. sock'[d] = [sock[d] EXCEPT ![n] = IF @ = "open" THEN "closing" ELSE @]
        BY <2>2, <3>2
      <3>4. QED
        BY <1>3, <1>7, <3>1, <3>3 DEF Moves
    <2>3. CASE d # c /\ ~(conns[n][x] # None /\ d = conns[n][x].sock)
      BY <1>5, <2>3
    <2>4. QED
      BY <2>1, <2>2, <2>3
  <1>10. /\ \A m \in Node, y \in Name : conns'[m][y] \in {conns[m][y], None}
         /\ conns'[n][x] = None
    BY <1>3, <1>5, ConnectionDropped, DropShape
  <1>11. QED
    BY <1>3, <1>4, <1>5, <1>6, <1>8, <1>9, <1>10, ProofAwaited DEF loopVars

LEMMA LinkOpened ==
  ASSUME IInv, KInv, NEW c \in Link, Open(c)
  PROVE  KInv'
  <1>1. PICK n, x, p : n = link[c].from /\ x = DialName[link[c].to] /\ p = link[c].to
    OBVIOUS
  <1>2. link[c] # NoLink /\ link[c] \in [from : Node, to : Node]
    BY DEF Open, IInv, LinkOK
  <1>3. n \in Node /\ x \in Name
    BY <1>1, <1>2, DialNames DEF IInv
  <1>4. Belongs(c, n, x) /\ Other(c, n) = p
    BY <1>1, <1>2 DEF Belongs, Ends, NameAt, Other
  <1>5. /\ sock[c][n] = "connecting" /\ sock[c][p] \in {"open", "closing"}
        /\ sock' = [sock EXCEPT ![c][n] = "open"]
        /\ AwaitProof(c, n, x)
        /\ UNCHANGED <<link, up, conns, remote, loopVars, trusted, key, left, agreed>>
    BY <1>1 DEF Open
  <1>6. World
    BY <1>5, WorldStays
  <1>7. /\ sock'[c][n] = "open"
        /\ \A d \in Link, m \in Node : d # c \/ m # n => sock'[d][m] = sock[d][m]
    BY <1>3, <1>5 DEF IInv, ShapeOK
  <1>8. \A d \in Link, m \in Node : sock'[d][m] = sock[d][m] \/ Moves(d, m)
    BY <1>2, <1>5, <1>7 DEF Moves
  <1>9. Dialling(c, n, x) /\ ~Begun(c, n)
    BY <1>4, <1>5 DEF Dialling, Begun
  <1>10. \A m \in Node, y \in Name : conns'[m][y] \in {conns[m][y], None}
    BY <1>5
  <1>11. QED
    BY <1>3, <1>4, <1>5, <1>6, <1>7, <1>8, <1>9, <1>10, ProofAwaited DEF loopVars

------------------------------------------------------------------------------
(* Proofs of identity and approvals *)

\* The entries of n for x are new and right, and its nonce is used up.
LEMMA EntryRenewed ==
  ASSUME IInv, KInv, World, UNCHANGED <<link, sock, key>>, NEW n \in Node, NEW x \in Name,
         nonce'[n][x] = 0, KeyEntry(n, x)',
         \A m \in Node, y \in Name : m # n \/ y # x =>
             /\ nonce'[m][y] = nonce[m][y] /\ pend'[m][y] = pend[m][y]
             /\ conns'[m][y] = conns[m][y] /\ trusted'[m][y] = trusted[m][y]
  PROVE  Frame /\ FreshOK' /\ NonceOK' /\ KeysOK'
  <1>1. BegunStays /\ FreshOK'
    BY SocketsMove
  <1>2. \A m \in Node, y \in Name : Steady(m, y)
    <2>1. \A m \in Node, y \in Name, d \in Link :
              Dialling(d, m, y)' => Dialling(d, m, y) /\ key'[Other(d, m)] = key[Other(d, m)]
      BY SocketsMove
    <2>2. QED
      BY <2>1 DEF Steady
  <1>3. Frame
    BY <1>1, <1>2 DEF Frame
  <1>4. NonceOK'
    BY BelongsStays DEF KInv, NonceOK
  <1>5. ASSUME NEW m \in Node, NEW y \in Name, m # n \/ y # x
        PROVE  KeyEntry(m, y)'
    BY <1>2, <1>5, KeyEntryStays DEF KInv, KeysOK
  <1>6. KeysOK'
    BY <1>5 DEF KeysOK
  <1>7. QED
    BY <1>1, <1>3, <1>4, <1>6

LEMMA AnswersSame ==
  ASSUME World, UNCHANGED <<link, sock, key>>, NEW k, NEW n, NEW x, Answers(k, n, x)
  PROVE  Answers(k, n, x)'
  BY DEF Answers, Dialling, Belongs, Ends, NameAt, Other, World

\* A pending connection is promoted, with the key that its peer has proved.
LEMMA PromotedKey ==
  ASSUME IInv, KInv, World, UNCHANGED <<link, sock, key>>, NEW n \in Node, NEW x \in Name,
         pend[n][x] # None, NEW k, Promote(n, x, pend[n][x].sock, k), Answers(k, n, x),
         nonce'[n][x] = 0, trusted'[n][x] = k,
         \A m \in Node, y \in Name : m # n \/ y # x =>
             nonce'[m][y] = nonce[m][y] /\ trusted'[m][y] = trusted[m][y]
  PROVE  Frame /\ FreshOK' /\ NonceOK' /\ KeysOK'
  <1>1. PICK r : r = [sock |-> pend[n][x].sock, key |-> k]
    OBVIOUS
  <1>2. /\ conns'[n][x] = r /\ pend'[n][x] = None /\ r.key = k
        /\ \A m \in Node, y \in Name : m # n \/ y # x =>
               conns'[m][y] = conns[m][y] /\ pend'[m][y] = pend[m][y]
    BY <1>1 DEF Promote, IInv, EntriesOK
  <1>3. Answers(k, n, x)'
    BY AnswersSame
  <1>4. KeyEntry(n, x)'
    BY <1>2, <1>3 DEF KeyEntry, Answers
  <1>5. QED
    BY <1>2, <1>4, EntryRenewed

\* What is sent when a peer has joined.
LEMMA JoinedMute ==
  ASSUME IInv, NEW n \in Node, NEW x \in Name, NEW c, Belongs(c, n, x), NEW conn, conn.sock = c,
         NEW ch \in [Link -> [Node -> Seq(Msg)]],
         \A d \in Link, m \in Node : ch[d][m] \in Seq(KeyWire'[d][m]),
         NEW ms \in Seq(Mute), chan' = Sent(ch, OutLink(n, conn, None), n, ms)
  PROVE  WireK'
  <1>1. PICK d : d = OutLink(n, conn, None)
    OBVIOUS
  <1>2. d = 0 \/ \E y : Belongs(d, n, y)
    BY <1>1 DEF OutLink
  <1>3. chan' = Sent(ch, d, n, ms)
    BY <1>1
  <1>4. QED
    BY <1>2, <1>3, MuteSending DEF WireK

LEMMA ApprovalHandled ==
  ASSUME IInv, KInv, NEW n \in Node, NEW x \in Name, HandleApproval(n, x)
  PROVE  KInv'
  <1>1. /\ Turn(n, x, "approved") /\ Done(n, x) /\ World
        /\ UNCHANGED <<link, up, sock, nonce, remote, busy, key, left, agreed>>
    BY WorldStays DEF HandleApproval
  <1>2. CASE UNCHANGED <<conns, pend, trusted, chan>>
    <2>1. Frame /\ FreshOK' /\ NonceOK' /\ KeysOK'
      BY <1>1, <1>2, TablesStay
    <2>2. WireK' /\ QueueK'
      BY <1>1, <1>2, <2>1, WireKStays, QueueKDone
    <2>3. QED
      BY <2>1, <2>2 DEF KInv
  <1>3. CASE ~UNCHANGED <<conns, pend, trusted, chan>>
    <2>1. PICK c, k : c = pend[n][x].sock /\ k = pend[n][x].key
      OBVIOUS
    <2>2. /\ pend[n][x] # None /\ pend[n][x].verified
          /\ Promote(n, x, c, k) /\ trusted' = [trusted EXCEPT ![n][x] = k]
          /\ chan' = Sent(chan, OutLink(n, conns'[n][x], None), n, PeerState)
      BY <1>3, <2>1 DEF HandleApproval, Acceptable
    <2>3. Belongs(c, n, x) /\ k \in Key /\ nonce[n][x] = 0
      BY <2>1, <2>2 DEF IInv, EntriesOK, PendEntry
    <2>4. /\ trusted'[n][x] = k
          /\ \A m \in Node, y \in Name : m # n \/ y # x => trusted'[m][y] = trusted[m][y]
      BY <2>2 DEF IInv, TrustOK
    <2>5. Answers(k, n, x)
      BY <2>1, <2>2 DEF KInv, KeysOK, KeyEntry
    <2>6. Promote(n, x, pend[n][x].sock, k)
      BY <2>1, <2>2
    <2>7. Frame /\ FreshOK' /\ NonceOK' /\ KeysOK'
      BY <1>1, <2>2, <2>3, <2>4, <2>5, <2>6, PromotedKey
    <2>8. PICK conn : conn = conns'[n][x]
      OBVIOUS
    <2>9. conn.sock = c /\ chan' = Sent(chan, OutLink(n, conn, None), n, PeerState)
      BY <2>2, <2>8, Promoted
    <2>10. /\ chan \in [Link -> [Node -> Seq(Msg)]]
           /\ \A d \in Link, m \in Node : chan[d][m] \in Seq(KeyWire'[d][m])
      BY <1>1, <2>7, KeysUnderWay DEF IInv, ChanOK
    <2>11. PeerState \in Seq(Mute)
      BY MuteMessages
    <2>12. WireK'
      BY <2>3, <2>9, <2>10, <2>11, JoinedMute
    <2>13. QueueK'
      BY <1>1, <2>7, QueueKDone
    <2>14. QED
      BY <2>7, <2>12, <2>13 DEF KInv
  <1>4. QED
    BY <1>2, <1>3

LEMMA CallerApproved ==
  ASSUME IInv, KInv, NEW n \in Node, NEW x \in Name, Approve(n, x)
  PROVE  KInv'
  <1>1. PICK c, k : c = pend[n][x].sock /\ k = pend[n][x].key
    OBVIOUS
  <1>2. /\ pend[n][x] # None /\ pend[n][x].verified
        /\ Promote(n, x, c, k) /\ trusted' = [trusted EXCEPT ![n][x] = k]
        /\ agreed' = [agreed EXCEPT ![n] = @ \union {x}]
        /\ chan' = Sent(chan, OutLink(n, conns'[n][x], None), n, <<Approval>> \o PeerState)
        /\ UNCHANGED <<link, up, sock, nonce, remote, loopVars, key, left>>
    BY <1>1 DEF Approve, Approvable
  <1>3. World
    BY <1>2 DEF World, DialName, IInv, ShapeOK
  <1>4. Belongs(c, n, x) /\ k \in Key /\ nonce[n][x] = 0
    BY <1>1, <1>2 DEF IInv, EntriesOK, PendEntry
  <1>5. /\ trusted'[n][x] = k
        /\ \A m \in Node, y \in Name : m # n \/ y # x => trusted'[m][y] = trusted[m][y]
    BY <1>2 DEF IInv, TrustOK
  <1>6. Answers(k, n, x)
    BY <1>1, <1>2 DEF KInv, KeysOK, KeyEntry
  <1>7. Promote(n, x, pend[n][x].sock, k) /\ nonce' = nonce
    BY <1>1, <1>2
  <1>8. Frame /\ FreshOK' /\ NonceOK' /\ KeysOK'
    BY <1>2, <1>3, <1>4, <1>5, <1>6, <1>7, PromotedKey
  <1>9. WireK'
    <2>1. PICK conn : conn = conns'[n][x]
      OBVIOUS
    <2>2. PICK ms : ms = <<Approval>> \o PeerState
      OBVIOUS
    <2>3. conn.sock = c /\ chan' = Sent(chan, OutLink(n, conn, None), n, ms)
      BY <1>2, <2>1, <2>2, Promoted
    <2>4. /\ chan \in [Link -> [Node -> Seq(Msg)]]
          /\ \A d \in Link, m \in Node : chan[d][m] \in Seq(KeyWire'[d][m])
      BY <1>2, <1>8, KeysUnderWay DEF IInv, ChanOK
    <2>5. ms \in Seq(Mute)
      BY <2>2, MuteMessages
    <2>6. QED
      BY <1>4, <2>3, <2>4, <2>5, JoinedMute
  <1>10. QueueK'
    BY <1>2, <1>8, QueueKStays DEF loopVars
  <1>11. QED
    BY <1>8, <1>9, <1>10 DEF KInv

\* A proof that answers the nonce has the key of the connection of its name, and
\* one that whoever else may answer for that name has.
LEMMA ProofFits ==
  ASSUME IInv, KInv, NEW n \in Node, NEW x \in Name, Turn(n, x, "identity_proof"),
         NEW k, k = Received(n, x).msg.key,
         nonce[n][x] # 0, nonce[n][x] = Received(n, x).msg.nonce
  PROVE  /\ conns[n][x] # None => k = conns[n][x].key
         /\ pend[n][x] # None => Answers(k, n, x)
  <1>1. PICK c : c = nonce[n][x]
    OBVIOUS
  <1>2. Received(n, x) \in KeyQueue[n][x] /\ Received(n, x).msg.type = "identity_proof"
    BY KeyHead, HeadOf
  <1>3. ProofOK(c, n, k)
    BY <1>1, <1>2 DEF KeyQueue
  <1>4. Belongs(c, n, x)
    BY <1>1 DEF KInv, NonceOK
  <1>5. PICK y \in Name :
            /\ Belongs(c, n, y)
            /\ nonce[n][y] = c => /\ conns[n][y] # None => k = conns[n][y].key
                                  /\ pend[n][y] # None => Answers(k, n, y)
    BY <1>3 DEF ProofOK
  <1>6. y = x
    BY <1>4, <1>5 DEF Belongs
  <1>7. QED
    BY <1>1, <1>5, <1>6

LEMMA ProofHandled ==
  ASSUME IInv, KInv, NEW n \in Node, NEW x \in Name, HandleProof(n, x)
  PROVE  KInv'
  <1>1. PICK k : k = Received(n, x).msg.key
    OBVIOUS
  <1>2. PICK ok \in BOOLEAN : ok = (nonce[n][x] # 0 /\ nonce[n][x] = Received(n, x).msg.nonce)
    OBVIOUS
  <1>3. /\ Turn(n, x, "identity_proof") /\ Done(n, x) /\ World
        /\ UNCHANGED <<link, up, sock, remote, busy, trusted, key, left, agreed>>
        /\ nonce' = IF ok THEN [nonce EXCEPT ![n][x] = 0] ELSE nonce
    BY <1>2, WorldStays DEF HandleProof
  <1>4. CASE ~ok
    <2>1. UNCHANGED <<pend, conns, chan>> /\ nonce' = nonce
      BY <1>2, <1>3, <1>4 DEF HandleProof
    <2>2. Frame /\ FreshOK' /\ NonceOK' /\ KeysOK'
      BY <1>3, <2>1, TablesStay
    <2>3. WireK' /\ QueueK'
      BY <1>3, <2>1, <2>2, WireKStays, QueueKDone
    <2>4. QED
      BY <2>2, <2>3 DEF KInv
  <1>5. CASE ok
    <2>1. /\ nonce'[n][x] = 0
          /\ \A m \in Node, y \in Name : m # n \/ y # x => nonce'[m][y] = nonce[m][y]
      BY <1>3, <1>5 DEF IInv, ShapeOK
    <2>2. /\ conns[n][x] # None => k = conns[n][x].key
          /\ pend[n][x] # None => Answers(k, n, x)
      BY <1>1, <1>2, <1>3, <1>5, ProofFits
    <2>3. Frame /\ FreshOK' /\ NonceOK' /\ KeysOK' => QueueK'
      BY <1>3, QueueKDone
    <2>4. CASE /\ pend[n][x] # None /\ AutoApproved(n, x, k)
               /\ Promote(n, x, pend[n][x].sock, k)
               /\ chan' = Sent(Sent(chan, OutLink(n, conns[n][x], pend[n][x]), n, <<Approval>>),
                               OutLink(n, conns'[n][x], None), n, PeerState)
      <3>1. trusted'[n][x] = k
        BY <1>3, <2>4 DEF AutoApproved
      <3>2. Frame /\ FreshOK' /\ NonceOK' /\ KeysOK'
        BY <1>3, <2>1, <2>2, <2>4, <3>1, PromotedKey
      <3>3. PICK c : c = pend[n][x].sock
        OBVIOUS
      <3>4. PICK d : d = OutLink(n, conns[n][x], pend[n][x])
        OBVIOUS
      <3>5. PICK ch : ch = Sent(chan, d, n, <<Approval>>)
        OBVIOUS
      <3>6. PICK conn : conn = conns'[n][x]
        OBVIOUS
      <3>7. Belongs(c, n, x) /\ (d = 0 \/ \E y : Belongs(d, n, y))
        BY <2>4, <3>3, <3>4, EntriesBelong, OutBelongs
      <3>8. conn.sock = c /\ chan' = Sent(ch, OutLink(n, conn, None), n, PeerState)
        BY <2>4, <3>3, <3>4, <3>5, <3>6, Promoted
      <3>9. <<Approval>> \in Seq(Mute) /\ PeerState \in Seq(Mute)
        BY MuteMessages
      <3>10. /\ chan \in [Link -> [Node -> Seq(Msg)]]
             /\ \A e \in Link, m \in Node : chan[e][m] \in Seq(KeyWire'[e][m])
        BY <1>3, <3>2, KeysUnderWay DEF IInv, ChanOK
      <3>11. /\ ch \in [Link -> [Node -> Seq(Msg)]]
             /\ \A e \in Link, m \in Node : ch[e][m] \in Seq(KeyWire'[e][m])
        BY <3>5, <3>7, <3>9, <3>10, MuteSending
      <3>12. WireK'
        BY <3>7, <3>8, <3>9, <3>11, JoinedMute
      <3>13. QED
        BY <2>3, <3>2, <3>12 DEF KInv
    <2>5. CASE /\ pend[n][x] # None /\ UNCHANGED <<conns, chan>>
               /\ pend' = [pend EXCEPT ![n][x] =
                      [pend[n][x] EXCEPT !.verified = TRUE, !.key = k,
                                         !.mismatch = trusted[n][x] \notin {None, k}]]
      <3>1. PICK q : q = [pend[n][x] EXCEPT !.verified = TRUE, !.key = k,
                                            !.mismatch = trusted[n][x] \notin {None, k}]
        OBVIOUS
      <3>2. q.key = k
        <4>1. PICK p \in Pending : p = pend[n][x]
          BY <2>5 DEF IInv, EntriesOK
        <4>2. PICK mis : mis = (trusted[n][x] \notin {None, k})
          OBVIOUS
        <4>3. q = [p EXCEPT !.verified = TRUE, !.key = k, !.mismatch = mis]
          BY <3>1, <4>1, <4>2, Zenon
        <4>4. PICK r : r = [p EXCEPT !.verified = TRUE]
          OBVIOUS
        <4>5. PICK s : s = [r EXCEPT !.key = k]
          OBVIOUS
        <4>6. q = [s EXCEPT !.mismatch = mis]
          BY <4>3, <4>4, <4>5
        <4>7. s.key = k
          BY <4>1, <4>4, <4>5 DEF Pending
        <4>8. q.key = s.key
          BY <4>1, <4>4, <4>5, <4>6 DEF Pending
        <4>9. QED
          BY <4>7, <4>8
      <3>3. pend' = [pend EXCEPT ![n][x] = q]
        BY <2>5, <3>1, Zenon
      <3>4. /\ pend'[n][x] = q
            /\ \A m \in Node, y \in Name : m # n \/ y # x => pend'[m][y] = pend[m][y]
        BY <3>3 DEF IInv, EntriesOK
      <3>5. Answers(k, n, x)'
        BY <1>3, <2>2, <2>5, AnswersSame
      <3>6. conns[n][x] # None => /\ conns'[n][x].key = trusted[n][x]
                                  /\ conns'[n][x].key = k
        BY <2>2, <2>5 DEF KInv, KeysOK, KeyEntry
      <3>7. KeyEntry(n, x)'
        BY <1>3, <2>5, <3>2, <3>4, <3>5, <3>6 DEF KeyEntry, Answers
      <3>8. conns' = conns /\ trusted' = trusted
        BY <1>3, <2>5
      <3>9. Frame /\ FreshOK' /\ NonceOK' /\ KeysOK'
        BY <1>3, <2>1, <3>4, <3>7, <3>8, EntryRenewed
      <3>10. WireK'
        BY <1>3, <2>5, <3>9, WireKStays
      <3>11. QED
        BY <2>3, <3>9, <3>10 DEF KInv
    <2>6. CASE /\ pend[n][x] = None /\ UNCHANGED <<pend, chan>>
               /\ conns' = conns \/ (conns[n][x] # None /\ conns' = [conns EXCEPT ![n][x].key = k])
      <3>1. conns' = conns
        <4>1. CASE conns' = conns
          BY <4>1
        <4>2. CASE conns[n][x] # None /\ conns' = [conns EXCEPT ![n][x].key = k]
          <5>1. PICK r \in Connection : r = conns[n][x]
            BY <4>2 DEF IInv, EntriesOK
          <5>2. r.key = k
            BY <2>2, <4>2, <5>1
          <5>3. [r EXCEPT !.key = k] = r
            BY <5>2 DEF Connection
          <5>4. conns' = [conns EXCEPT ![n][x] = r]
            BY <4>2, <5>1, <5>3
          <5>5. PICK S : S = Connection \union {None}
            OBVIOUS
          <5>6. conns \in [Node -> [Name -> S]] /\ r = conns[n][x]
            BY <5>1, <5>5 DEF IInv, EntriesOK
          <5>7. QED
            BY <5>4, <5>6
        <4>3. QED
          BY <2>6, <4>1, <4>2
      <3>2. KeyEntry(n, x)'
        <4>1. conns[n][x] # None => Answers(conns[n][x].key, n, x)'
          <5>1. PICK j : j = conns[n][x].key
            OBVIOUS
          <5>2. conns[n][x] # None => Answers(j, n, x)
            BY <5>1 DEF KInv, KeysOK, KeyEntry
          <5>3. conns[n][x] # None => Answers(j, n, x)'
            BY <1>3, <5>2, AnswersSame
          <5>4. QED
            BY <3>1, <5>1, <5>3 DEF Answers
        <4>2. conns[n][x] # None => conns[n][x].key = trusted[n][x]
          BY DEF KInv, KeysOK, KeyEntry
        <4>3. QED
          BY <1>3, <2>6, <3>1, <4>1, <4>2 DEF KeyEntry
      <3>3. pend' = pend /\ trusted' = trusted
        BY <1>3, <2>6
      <3>4. Frame /\ FreshOK' /\ NonceOK' /\ KeysOK'
        BY <1>3, <2>1, <3>1, <3>2, <3>3, EntryRenewed
      <3>5. WireK'
        BY <1>3, <2>6, <3>4, WireKStays
      <3>6. QED
        BY <2>3, <3>4, <3>5 DEF KInv
    <2>7. QED
      BY <1>1, <1>2, <1>5, <2>4, <2>5, <2>6 DEF HandleProof
  <1>6. QED
    BY <1>4, <1>5

------------------------------------------------------------------------------
(* Every state *)

LEMMA InitKInv ==
  ASSUME Init
  PROVE  KInv
  <1>1. FreshOK
    BY DEF Init, FreshOK
  <1>2. NonceOK /\ KeysOK
    BY DEF Init, NonceOK, KeysOK, KeyEntry
  <1>3. \A d \in Link, n \in Node : <<>> \in Seq(KeyWire[d][n])
    OBVIOUS
  <1>4. \A n \in Node, x \in Name : <<>> \in Seq(KeyQueue[n][x])
    OBVIOUS
  <1>5. WireK /\ QueueK
    BY <1>3, <1>4 DEF Init, WireK, QueueK
  <1>6. QED
    BY <1>1, <1>2, <1>5 DEF KInv

LEMMA NextKInv ==
  ASSUME IInv, KInv, [Next]_vars
  PROVE  KInv'
  <1>1. CASE \E c \in Link, n, p \in Node : Dial(c, n, p)
    BY <1>1, DialBegun
  <1>2. CASE \E c \in Link : Accept(c) \/ Open(c) \/ LinkFails(c)
    BY <1>2, LinkAccepted, LinkOpened, LinkFailed
  <1>3. CASE \E c \in Link, n \in Node : Receive(c, n) \/ CloseEvent(c, n)
    BY <1>3, MessageReceived, EndClosed
  <1>4. CASE \E n \in Node, x \in Name : Handle(n, x)
    BY <1>4, ChallengeAnswered, ProofHandled, ApprovalHandled, DenialHandled, StateHandled DEF Handle
  <1>5. CASE \E n \in Node, x \in Name : FinishFile(n, x) \/ MissedPing(n, x)
    BY <1>5, FileFinished, PingMissed
  <1>6. CASE \E n \in Node, x \in Name : Approve(n, x) \/ Deny(n, x) \/ SendFile(n, x)
    BY <1>6, CallerApproved, CallerDenied, FileSent
  <1>7. CASE \E n \in Node : Restart(n)
    BY <1>7, Restarted
  <1>8. CASE UNCHANGED vars
    BY <1>8, NothingHappens
  <1>9. QED
    BY <1>1, <1>2, <1>3, <1>4, <1>5, <1>6, <1>7, <1>8 DEF Next

\* The key of a connection is the one in trusted-peers.json, for any number of
\* dials, links, restarts and keys, and although a proof that comes late changes
\* the key of a connection that was made on another socket.
THEOREM TrustedCorrect == Spec => []AdmittedKeyTrusted
  <1>1. KInv => AdmittedKeyTrusted
    BY DEF KInv, KeysOK, KeyEntry, AdmittedKeyTrusted
  <1>2. Spec => [](IInv /\ KInv)
    BY InitIInv, NextIInv, InitKInv, NextKInv, PTL DEF Spec
  <1>3. QED
    BY <1>1, <1>2, PTL

------------------------------------------------------------------------------
(* Approvals and proofs.  A listener approves on the link that the proof came  *)
(* on.  By then it has answered the dialler's challenge, which precedes the    *)
(* dialler's proof: its own proof precedes its approval.                       *)

\* A member of G is in s; every member of F in s comes after one.
Has(s, G) == \E i \in DOMAIN s : s[i] \in G
LedBy(s, F, G) == \A i \in DOMAIN s : s[i] \in F => \E j \in 1..(i - 1) : s[j] \in G

\* The entries of a queue with a message of F.
On(F) == {e \in Entry : e.msg \in F}

\* The same of a queue q and the messages ch on the link that will come to it.
Comes(q, ch, G) == Has(q, On(G)) \/ Has(ch, G)
Led(q, ch, F, G) == LedBy(q, On(F), On(G)) /\ (Has(q, On(G)) \/ LedBy(ch, F, G))

LEMMA HasConcat ==
  ASSUME NEW S, NEW s \in Seq(S), NEW t \in Seq(S), NEW G
  PROVE  Has(s, G) \/ Has(t, G) => Has(s \o t, G)
  <1>1. ASSUME NEW i \in DOMAIN s, s[i] \in G
        PROVE  Has(s \o t, G)
    <2>1. i \in DOMAIN (s \o t) /\ (s \o t)[i] = s[i]
      OBVIOUS
    <2>2. QED
      BY <1>1, <2>1 DEF Has
  <1>2. ASSUME NEW i \in DOMAIN t, t[i] \in G
        PROVE  Has(s \o t, G)
    <2>1. Len(s) + i \in DOMAIN (s \o t) /\ (s \o t)[Len(s) + i] = t[i]
      OBVIOUS
    <2>2. QED
      BY <1>2, <2>1 DEF Has
  <1>3. QED
    BY <1>1, <1>2 DEF Has

LEMMA LedConcat ==
  ASSUME NEW S, NEW s \in Seq(S), NEW t \in Seq(S), NEW F, NEW G, LedBy(s, F, G),
         ~Has(t, F) \/ Has(s, G)
  PROVE  LedBy(s \o t, F, G)
  <1> SUFFICES ASSUME NEW i \in DOMAIN (s \o t), (s \o t)[i] \in F
               PROVE  \E j \in 1..(i - 1) : (s \o t)[j] \in G
    BY DEF LedBy
  <1>1. CASE i \in DOMAIN s
    <2>1. (s \o t)[i] = s[i]
      BY <1>1
    <2>2. PICK j \in 1..(i - 1) : s[j] \in G
      BY <1>1, <2>1 DEF LedBy
    <2>3. j \in DOMAIN s /\ (s \o t)[j] = s[j]
      BY <1>1
    <2>4. QED
      BY <2>2, <2>3
  <1>2. CASE i \notin DOMAIN s
    <2>1. i - Len(s) \in DOMAIN t /\ (s \o t)[i] = t[i - Len(s)]
      BY <1>2
    <2>2. PICK j \in DOMAIN s : s[j] \in G
      BY <2>1 DEF Has
    <2>3. j \in 1..(i - 1) /\ (s \o t)[j] = s[j]
      BY <1>2
    <2>4. QED
      BY <2>2, <2>3
  <1>3. QED
    BY <1>1, <1>2

LEMMA LedTail ==
  ASSUME NEW S, NEW s \in Seq(S), s # <<>>, NEW F, NEW G, Head(s) \notin G
  PROVE  /\ Has(s, G) => Has(Tail(s), G)
         /\ LedBy(s, F, G) => LedBy(Tail(s), F, G)
  <1>1. /\ Tail(s) \in Seq(S) /\ Head(s) = s[1] /\ Len(Tail(s)) = Len(s) - 1 /\ Len(s) \in Nat
        /\ \A i \in DOMAIN Tail(s) : Tail(s)[i] = s[i + 1]
    OBVIOUS
  <1>2. ASSUME NEW i \in DOMAIN s, s[i] \in G
        PROVE  i # 1 /\ i - 1 \in DOMAIN Tail(s) /\ Tail(s)[i - 1] = s[i]
    <2>1. i # 1 /\ i \in 1..Len(s)
      BY <1>1, <1>2
    <2>2. i - 1 \in DOMAIN Tail(s)
      BY <1>1, <2>1
    <2>3. Tail(s)[i - 1] = s[(i - 1) + 1]
      BY <1>1, <2>2
    <2>4. QED
      BY <2>1, <2>2, <2>3
  <1>3. Has(s, G) => Has(Tail(s), G)
    BY <1>2 DEF Has
  <1>4. ASSUME LedBy(s, F, G), NEW i \in DOMAIN Tail(s), Tail(s)[i] \in F
        PROVE  \E j \in 1..(i - 1) : Tail(s)[j] \in G
    <2>1. i + 1 \in DOMAIN s /\ s[i + 1] \in F /\ i \in 1..(Len(s) - 1)
      BY <1>1, <1>4
    <2>2. PICK j \in 1..i : s[j] \in G
      BY <1>4, <2>1 DEF LedBy
    <2>3. j \in DOMAIN s
      BY <2>1, <2>2
    <2>4. j # 1 /\ Tail(s)[j - 1] \in G
      BY <1>2, <2>2, <2>3
    <2>5. j - 1 \in 1..(i - 1)
      BY <2>1, <2>2, <2>4
    <2>6. QED
      BY <2>4, <2>5
  <1>5. QED
    BY <1>3, <1>4 DEF LedBy

LEMMA LedHead ==
  ASSUME NEW S, NEW s \in Seq(S), s # <<>>, NEW F, NEW G, LedBy(s, F, G)
  PROVE  Head(s) \notin F
  <1>1. 1 \in DOMAIN s /\ Head(s) = s[1]
    OBVIOUS
  <1>2. QED
    BY <1>1 DEF LedBy

LEMMA HeadHas ==
  ASSUME NEW S, NEW s \in Seq(S), s # <<>>, NEW G
  PROVE  /\ Head(s) \in G => Has(s, G)
         /\ Has(Tail(s), G) => Has(s, G)
  <1>1. 1 \in DOMAIN s /\ Head(s) = s[1]
    OBVIOUS
  <1>2. \A i \in DOMAIN Tail(s) : i + 1 \in DOMAIN s /\ Tail(s)[i] = s[i + 1]
    OBVIOUS
  <1>3. QED
    BY <1>1, <1>2 DEF Has

LEMMA NoneLed ==
  ASSUME NEW s, NEW F, NEW G, ~Has(s, F)
  PROVE  LedBy(s, F, G)
  BY DEF Has, LedBy

\* The head of the queue is done with, and messages are sent.
LEMMA StreamSent ==
  ASSUME NEW q \in Seq(Entry), NEW ch \in Seq(Msg), NEW t \in Seq(Msg), NEW F, NEW G,
         NEW q2, q2 = q \/ (q # <<>> /\ Head(q).msg \notin G /\ q2 = Tail(q))
  PROVE  /\ Comes(q, ch, G) => Comes(q2, ch \o t, G)
         /\ Led(q, ch, F, G) /\ (~Has(t, F) \/ Comes(q, ch, G)) => Led(q2, ch \o t, F, G)
  <1>1. /\ Has(q, On(G)) => Has(q2, On(G))
        /\ LedBy(q, On(F), On(G)) => LedBy(q2, On(F), On(G))
    <2>1. CASE q2 = q
      BY <2>1
    <2>2. CASE q # <<>> /\ Head(q).msg \notin G /\ q2 = Tail(q)
      <3>1. Head(q) \notin On(G)
        BY <2>2 DEF On
      <3>2. QED
        BY <2>2, <3>1, LedTail
    <2>3. QED
      BY <2>1, <2>2
  <1>2. Has(ch, G) => Has(ch \o t, G)
    BY HasConcat
  <1>3. LedBy(ch, F, G) /\ (~Has(t, F) \/ Has(ch, G)) => LedBy(ch \o t, F, G)
    BY LedConcat
  <1>4. QED
    BY <1>1, <1>2, <1>3 DEF Comes, Led

\* A message is received.
LEMMA StreamReceived ==
  ASSUME NEW q \in Seq(Entry), NEW ch \in Seq(Msg), ch # <<>>, NEW F, NEW G,
         NEW e \in Entry, e.msg = Head(ch)
  PROVE  /\ Comes(q, ch, G) => Comes(Append(q, e), Tail(ch), G)
         /\ Led(q, ch, F, G) => Led(Append(q, e), Tail(ch), F, G)
  <1>1. <<e>> \in Seq(Entry) /\ Append(q, e) = q \o <<e>>
    OBVIOUS
  <1>2. \A H : Has(<<e>>, On(H)) <=> Head(ch) \in H
    <2>1. PICK t : t = <<e>>
      OBVIOUS
    <2>2. DOMAIN t = {1} /\ t[1] = e
      BY <2>1
    <2>3. \A H : Has(t, On(H)) <=> e \in On(H)
      BY <2>2 DEF Has
    <2>4. \A H : e \in On(H) <=> Head(ch) \in H
      BY Zenon DEF On
    <2>5. QED
      BY <2>1, <2>3, <2>4
  <1>3. Has(q, On(G)) \/ Head(ch) \in G => Has(Append(q, e), On(G))
    <2>1. Has(q, On(G)) \/ Has(<<e>>, On(G)) => Has(q \o <<e>>, On(G))
      BY <1>1, HasConcat
    <2>2. QED
      BY <1>1, <1>2, <2>1, Zenon
  <1>4. Head(ch) \notin G => /\ Has(ch, G) => Has(Tail(ch), G)
                             /\ LedBy(ch, F, G) => LedBy(Tail(ch), F, G)
    BY LedTail
  <1>5. LedBy(ch, F, G) => Head(ch) \notin F
    BY LedHead
  <1>6. LedBy(q, On(F), On(G)) /\ (Head(ch) \notin F \/ Has(q, On(G)))
           => LedBy(Append(q, e), On(F), On(G))
    BY <1>1, <1>2, LedConcat
  <1>7. QED
    BY <1>3, <1>4, <1>5, <1>6 DEF Comes, Led

\* A message comes on another link.
LEMMA StreamJoined ==
  ASSUME NEW q \in Seq(Entry), NEW ch, NEW F, NEW G, NEW e \in Entry, e.msg \notin F
  PROVE  /\ Comes(q, ch, G) => Comes(Append(q, e), ch, G)
         /\ Led(q, ch, F, G) => Led(Append(q, e), ch, F, G)
  <1>1. <<e>> \in Seq(Entry) /\ Append(q, e) = q \o <<e>>
    OBVIOUS
  <1>2. ~Has(<<e>>, On(F))
    BY DEF Has, On
  <1>3. Has(q, On(G)) => Has(Append(q, e), On(G))
    BY <1>1, HasConcat
  <1>4. LedBy(q, On(F), On(G)) => LedBy(Append(q, e), On(F), On(G))
    BY <1>1, <1>2, LedConcat
  <1>5. QED
    BY <1>3, <1>4 DEF Comes, Led

------------------------------------------------------------------------------
(* The order of proofs and approvals *)

Approvals == {m \in Msg : m.type = "approved"}
Proofs(c) == {m \in Msg : m.type = "identity_proof" /\ m.nonce = c}
Challenges(c) == {m \in Msg : m.type = "identity_challenge" /\ m.nonce = c}

\* What comes to n on c, where n knows c as x.
Coming(c, n, x, G) == Comes(queue[n][x], chan[c][n], G)
Ordered(c, n, x, F, G) == Led(queue[n][x], chan[c][n], F, G)

\* n's pending connection x is c, and waits for the proof.
Holds(c, n, x) == pend[n][x] # None /\ pend[n][x].sock = c
Awaits(c, n, x) == Holds(c, n, x) /\ ~pend[n][x].verified

\* The dialler has the proof that it waits for, or it is coming.
Given(c, n, x) == Begun(c, n) /\ (Awaits(c, n, x) /\ up[c] => Coming(c, n, x, Proofs(c)))

\* n's only link under the name of p is c, which n has dialled.
Sole(c, n, p) == link[c] = [from |-> n, to |-> p] /\ ~OtherLink(c, n, DialName[p])

\* Of such a link: what approves comes after the proof; the listener p that holds
\* it has given the proof, or will get n's proof only after n's challenge; and n
\* proves itself to p on this link.
DiallerOK(c, n, x) ==
    ~Begun(c, n) \/ Awaits(c, n, x) => Ordered(c, n, x, Approvals, Proofs(c))
ListenerOK(c, n, x, p) ==
    Holds(c, p, n) /\ ~Given(c, n, x) =>
        /\ ~pend[p][n].verified
        /\ Ordered(c, p, n, Proofs(c), Challenges(c))
        /\ Begun(c, n) => Coming(c, p, n, Challenges(c))
OwnWay(c, p) == \A d \in Link : d # c => ~Has(chan[d][p], Proofs(c))
Told(c, n, p) ==
    DiallerOK(c, n, DialName[p]) /\ ListenerOK(c, n, DialName[p], p) /\ OwnWay(c, p)

ToldOK == \A c \in Link, n, p \in Node : Sole(c, n, p) => Told(c, n, p)

\* Who waits for a caller's proof or approval is not connected under that name.
IncomingOK == \A n \in Node, x \in Name :
    pend[n][x] # None /\ ~pend[n][x].outgoing => conns[n][x] = None

\* A challenge comes on the link that it is for.
OwnChallenges(d) == {m \in Msg : m.type = "identity_challenge" => m.nonce = d}
FromLink(n, x) == {e \in Entry :
    /\ \E d \in Link : Belongs(d, n, x)
    /\ e.msg.type = "identity_challenge" => Belongs(e.msg.nonce, n, x)}
WayOK ==
    /\ \A d \in Link, n \in Node : chan[d][n] \in Seq(OwnChallenges(d))
    /\ \A n \in Node, x \in Name : queue[n][x] \in Seq(FromLink(n, x))

AInv == IncomingOK /\ WayOK /\ ToldOK

------------------------------------------------------------------------------
(* What steps leave alone *)

\* The head of n's queue for x, not a member of G, may be done with.
QueueMoves(n, x, G) ==
    \/ queue'[n][x] = queue[n][x]
    \/ /\ queue[n][x] # <<>> /\ Head(queue[n][x]).msg \notin G
       /\ queue'[n][x] = Tail(queue[n][x])

\* Messages of S may be sent.
Grown(c, n, S) == \E t \in Seq(S) : chan'[c][n] = chan[c][n] \o t

DiallerSteady(c, n, x) ==
    /\ Begun(c, n)' <=> Begun(c, n)
    /\ up'[c] => up[c]
    /\ Awaits(c, n, x)' => Awaits(c, n, x)
    /\ ~Begun(c, n) \/ Awaits(c, n, x)'
           => (Ordered(c, n, x, Approvals, Proofs(c)) => Ordered(c, n, x, Approvals, Proofs(c))')
    /\ Awaits(c, n, x)' /\ up'[c]
           => (Coming(c, n, x, Proofs(c)) => Coming(c, n, x, Proofs(c))')

ListenerSteady(c, n, p) ==
    /\ Holds(c, p, n)' => Holds(c, p, n) /\ pend'[p][n] = pend[p][n]
    /\ Holds(c, p, n)'
           => (Ordered(c, p, n, Proofs(c), Challenges(c)) => Ordered(c, p, n, Proofs(c), Challenges(c))')
    /\ Holds(c, p, n)' /\ up'[c]
           => (Coming(c, p, n, Challenges(c)) => Coming(c, p, n, Challenges(c))')

LEMMA DiallerStays ==
  ASSUME NEW c, NEW n, NEW x, DiallerSteady(c, n, x)
  PROVE  /\ DiallerOK(c, n, x) => DiallerOK(c, n, x)'
         /\ Given(c, n, x) => Given(c, n, x)'
  BY DEF DiallerSteady, DiallerOK, Given

LEMMA ListenerStays ==
  ASSUME NEW c, NEW n, NEW x, NEW p, DiallerSteady(c, n, x), ListenerSteady(c, n, p),
         ListenerOK(c, n, x, p)
  PROVE  ListenerOK(c, n, x, p)'
  <1>1. ASSUME Holds(c, p, n)', ~Given(c, n, x)'
        PROVE  /\ ~pend'[p][n].verified
               /\ Ordered(c, p, n, Proofs(c), Challenges(c))'
               /\ Begun(c, n)' => Coming(c, p, n, Challenges(c))'
    <2>1. Holds(c, p, n) /\ pend'[p][n] = pend[p][n] /\ ~Given(c, n, x)
      BY <1>1, DiallerStays DEF ListenerSteady
    <2>2. /\ ~pend[p][n].verified /\ Ordered(c, p, n, Proofs(c), Challenges(c))
          /\ Begun(c, n) => Coming(c, p, n, Challenges(c))
      BY <2>1 DEF ListenerOK
    <2>3. Begun(c, n)' => Begun(c, n) /\ up'[c]
      BY <1>1 DEF DiallerSteady, Given
    <2>4. QED
      BY <1>1, <2>1, <2>2, <2>3 DEF ListenerSteady
  <1>2. QED
    BY <1>1 DEF ListenerOK

LEMMA ToldStays ==
  ASSUME NEW c, NEW n, NEW p, NEW x, x = DialName[p], World, Told(c, n, p),
         DiallerSteady(c, n, x), ListenerSteady(c, n, p), OwnWay(c, p)'
  PROVE  Told(c, n, p)'
  <1>1. DiallerOK(c, n, x) /\ ListenerOK(c, n, x, p)
    BY DEF Told
  <1>2. DiallerOK(c, n, x)' /\ ListenerOK(c, n, x, p)'
    BY <1>1, DiallerStays, ListenerStays
  <1>3. DialName'[p] = x
    BY DEF World
  <1>4. QED
    BY <1>2, <1>3 DEF Told

\* A link that is n's only one under its name stays so until n has another.
LEMMA SoleLink ==
  ASSUME IInv, NEW c \in Link, NEW n \in Node, NEW p \in Node, Sole(c, n, p)
  PROVE  /\ n # p /\ link[c] # NoLink /\ DialName[p] \in Name /\ n \in Name
         /\ Belongs(c, n, DialName[p]) /\ Belongs(c, p, n) /\ Other(c, n) = p /\ Other(c, p) = n
         /\ \A d : Belongs(d, n, DialName[p]) => d = c
         /\ link[c].from = n /\ link[c].to = p
  <1>1. link[c] = [from |-> n, to |-> p] /\ link[c].from = n /\ link[c].to = p
    BY DEF Sole
  <1>2. link[c] # NoLink
    BY <1>1, SessionAssumption DEF NoLink
  <1>3. n # p
    BY <1>1, <1>2 DEF IInv, LinkOK
  <1>4. DialName[p] \in Name /\ n \in Name
    BY DialNames, SessionAssumption DEF IInv
  <1>5. Belongs(c, n, DialName[p]) /\ Belongs(c, p, n) /\ Other(c, n) = p /\ Other(c, p) = n
    BY <1>1, <1>2, <1>3 DEF Belongs, Ends, NameAt, Other
  <1>6. ASSUME NEW d, Belongs(d, n, DialName[p])
        PROVE  d = c
    BY <1>6 DEF Sole, OtherLink, Belongs
  <1>7. QED
    BY <1>1, <1>2, <1>3, <1>4, <1>5, <1>6

LEMMA SoleBefore ==
  ASSUME World, NEW c \in Link, NEW n, NEW p, Sole(c, n, p)', link[c] # NoLink
  PROVE  Sole(c, n, p)
  <1>1. link'[c] = link[c] /\ DialName' = DialName
    BY DEF World
  <1>2. link[c] = [from |-> n, to |-> p]
    BY <1>1 DEF Sole
  <1>3. PICK x : x = DialName[p]
    OBVIOUS
  <1>4. ASSUME OtherLink(c, n, x)
        PROVE  OtherLink(c, n, x)'
    <2>1. PICK d \in Link : d # c /\ link[d] # NoLink /\ n \in Ends(d) /\ NameAt(d, n) = x
      BY <1>4 DEF OtherLink
    <2>2. link'[d] = link[d]
      BY <2>1 DEF World
    <2>3. link'[d] # NoLink /\ n \in Ends(d)' /\ NameAt(d, n)' = x
      BY <1>1, <2>1, <2>2 DEF Ends, NameAt
    <2>4. QED
      BY <2>1, <2>3 DEF OtherLink
  <1>5. ~OtherLink(c, n, x)'
    BY <1>1, <1>3 DEF Sole
  <1>6. QED
    BY <1>2, <1>3, <1>4, <1>5 DEF Sole

------------------------------------------------------------------------------
(* What is sent *)

LEMMA StreamStays ==
  ASSUME IInv, NEW c \in Link, NEW m \in Node, NEW y \in Name, NEW F, NEW G,
         NEW S, S \subseteq Msg, S \intersect F = {}, QueueMoves(m, y, G),
         Grown(c, m, S) \/ (chan'[c][m] = <<>> /\ ~up'[c])
  PROVE  /\ Ordered(c, m, y, F, G) => Ordered(c, m, y, F, G)'
         /\ up'[c] => (Coming(c, m, y, G) => Coming(c, m, y, G)')
  <1>1. queue[m][y] \in Seq(Entry) /\ chan[c][m] \in Seq(Msg)
    BY DEF IInv, QueueOK, ChanOK
  <1>2. PICK q, ch, q2, ch2 : /\ q = queue[m][y] /\ ch = chan[c][m]
                              /\ q2 = queue'[m][y] /\ ch2 = chan'[c][m]
    OBVIOUS
  <1>3. q \in Seq(Entry) /\ ch \in Seq(Msg)
        /\ (q2 = q \/ (q # <<>> /\ Head(q).msg \notin G /\ q2 = Tail(q)))
    BY <1>1, <1>2 DEF QueueMoves
  <1>4. CASE Grown(c, m, S)
    <2>1. PICK t \in Seq(S) : ch2 = ch \o t
      BY <1>2, <1>4 DEF Grown
    <2>2. t \in Seq(Msg)
      BY <2>1, SeqMonotonic
    <2>3. ~Has(t, F)
      BY <2>1 DEF Has
    <2>4. /\ Comes(q, ch, G) => Comes(q2, ch2, G)
          /\ Led(q, ch, F, G) => Led(q2, ch2, F, G)
      BY <1>3, <2>1, <2>2, <2>3, StreamSent
    <2>5. QED
      BY <1>2, <2>4 DEF Ordered, Coming
  <1>5. CASE chan'[c][m] = <<>> /\ ~up'[c]
    <2>1. <<>> \in Seq(Msg)
      OBVIOUS
    <2>2. ch2 = <<>> /\ ~Has(ch2, F)
      BY <1>2, <1>5 DEF Has
    <2>3. PICK e : e = <<>>
      OBVIOUS
    <2>4. ch \o e = ch /\ e \in Seq(Msg) /\ ~Has(e, F)
      BY <1>3, <2>1, <2>2, <2>3
    <2>5. Led(q, ch, F, G) => Led(q2, ch, F, G)
      BY <1>3, <2>4, StreamSent
    <2>6. LedBy(ch2, F, G)
      BY <2>2, NoneLed
    <2>7. Led(q, ch, F, G) => Led(q2, ch2, F, G)
      BY <2>5, <2>6 DEF Led
    <2>8. QED
      BY <1>2, <1>5, <2>7 DEF Ordered
  <1>6. QED
    BY <1>4, <1>5

\* What is neither a challenge, nor a proof, nor an approval.
Keyed == {m \in Msg : m.type \in {"identity_challenge", "identity_proof"}}
Idle == {m \in Msg : m.type \notin {"identity_challenge", "identity_proof", "approved"}}

LEMMA Kinds ==
  ASSUME NEW c
  PROVE  /\ Idle \subseteq Msg /\ Idle \intersect Approvals = {} /\ Idle \intersect Proofs(c) = {}
         /\ Mute \subseteq Msg /\ Mute \intersect Proofs(c) = {} /\ Idle \subseteq Mute
         /\ Proofs(c) \subseteq Keyed /\ Challenges(c) \subseteq Keyed
         /\ Mute \subseteq OwnChallenges(c)
  BY DEF Idle, Mute, Keyed, Approvals, Proofs, Challenges, OwnChallenges

LEMMA IdleMessages ==
  /\ PeerState \in Seq(Idle) /\ <<Denial>> \in Seq(Idle)
  /\ \A t \in {"manifest", "file"} : <<Plain(t)>> \in Seq(Idle)
  <1>1. \A t \in {"manifest", "file", "denied", "node_info", "manifest_request"} : Plain(t) \in Idle
    BY SessionAssumption DEF Plain, Idle, Msg, MsgType
  <1>2. QED
    BY <1>1 DEF PeerState, Denial

\* q sends messages of S on o, if at all, to the other end.
Posted(o, q, S) ==
    \A d \in Link, m \in Node :
        \/ chan'[d][m] = chan[d][m]
        \/ d = o /\ m = Other(o, q) /\ up[o] /\ Grown(d, m, S)

LEMMA SentPosted ==
  ASSUME IInv, NEW q \in Node, NEW y, NEW o, o = 0 \/ Belongs(o, q, y),
         NEW S, S \subseteq Msg, NEW ms \in Seq(S), chan' = Sent(chan, o, q, ms)
  PROVE  /\ Posted(o, q, S)
         /\ o # 0 /\ up[o] /\ sock[o][Other(o, q)] # "closed"
                => chan'[o][Other(o, q)] = chan[o][Other(o, q)] \o ms
  <1>1. chan \in [Link -> [Node -> Seq(Msg)]] /\ ms \in Seq(Msg)
    BY SeqMonotonic DEF IInv, ChanOK
  <1>2. CASE o = 0
    BY <1>2 DEF Sent, Posted
  <1>3. CASE o # 0
    <2>1. PICK r \in Node : r = Other(o, q)
      BY <1>3, EndsOfLink
    <2>2. o \in Link
      BY <1>3, EndsOfLink
    <2>3. CASE up[o] /\ sock[o][r] # "closed"
      <3>1. chan' = [chan EXCEPT ![o][r] = chan[o][r] \o ms]
        BY <1>1, <1>3, <2>1, <2>2, <2>3 DEF Sent
      <3>2. chan[o][r] \o ms \in Seq(Msg)
        BY <1>1, <2>1, <2>2, ConcatProperties
      <3>3. /\ chan'[o][r] = chan[o][r] \o ms
            /\ \A d \in Link, m \in Node : d # o \/ m # r => chan'[d][m] = chan[d][m]
        BY <1>1, <2>1, <2>2, <3>1, <3>2, Put
      <3>4. QED
        BY <2>1, <2>3, <3>3 DEF Posted, Grown
    <2>4. CASE ~(up[o] /\ sock[o][r] # "closed")
      <3>1. chan' = chan
        BY <2>1, <2>4 DEF Sent
      <3>2. QED
        BY <2>1, <2>4, <3>1 DEF Posted
    <2>5. QED
      BY <2>3, <2>4
  <1>4. QED
    BY <1>2, <1>3

\* A connection's link, or a pending one's, is sent on at an open end.
LEMMA OutOpen ==
  ASSUME NEW n, NEW conn, NEW pending, NEW o, o = OutLink(n, conn, pending)
  PROVE  o = 0 \/ sock[o][n] = "open"
  BY DEF OutLink

LEMMA GrownNone ==
  ASSUME IInv, NEW d \in Link, NEW m \in Node, chan'[d][m] = chan[d][m], NEW S
  PROVE  Grown(d, m, S)
  <1>1. <<>> \in Seq(S)
    OBVIOUS
  <1>2. chan[d][m] \in Seq(Msg)
    BY DEF IInv, ChanOK
  <1>3. chan[d][m] = chan[d][m] \o <<>>
    BY <1>2
  <1>4. QED
    BY <1>1, <1>3 DEF Grown

LEMMA PostedGrown ==
  ASSUME IInv, NEW o, NEW q, NEW S, Posted(o, q, S), NEW d \in Link, NEW m \in Node
  PROVE  Grown(d, m, S)
  BY GrownNone DEF Posted

------------------------------------------------------------------------------
(* Steps that have no part in the order of proofs and approvals *)

\* n's end of d is over: nothing waits for it any more.
Settled(d, m) == Begun(d, m)' /\ \A y \in Name : ~Holds(d, m, y)'

PendCalm(m, y) ==
    \/ pend'[m][y] = None
    \/ pend'[m][y] = pend[m][y] /\ conns'[m][y] \in {conns[m][y], None}

EndCalm(d, m) ==
    \/ Settled(d, m)
    \/ /\ Begun(d, m)' <=> Begun(d, m)
       /\ Grown(d, m, Idle) \/ (chan'[d][m] = <<>> /\ ~up'[d])
       /\ \A y \in Name : QueueMoves(m, y, Keyed)

Calm ==
    /\ World /\ link' = link
    /\ \A d \in Link : up'[d] => up[d]
    /\ \A d \in Link, m \in Node :
           /\ link[d] # NoLink /\ m \in Ends(d) => EndCalm(d, m)
           /\ Grown(d, m, Idle) \/ chan'[d][m] = <<>>
    /\ \A m \in Node, y \in Name :
           PendCalm(m, y) /\ (QueueMoves(m, y, Keyed) \/ queue'[m][y] = <<>>)

LEMMA QueueSlower ==
  ASSUME NEW m, NEW y, NEW G, NEW H, G \subseteq H, QueueMoves(m, y, H)
  PROVE  QueueMoves(m, y, G)
  BY DEF QueueMoves

LEMMA DiallerMoves ==
  ASSUME IInv, NEW c \in Link, NEW n \in Node, NEW x \in Name,
         NEW S, S \subseteq Msg, S \intersect Approvals = {},
         Begun(c, n)' <=> Begun(c, n), up'[c] => up[c], Awaits(c, n, x)' => Awaits(c, n, x),
         QueueMoves(n, x, Proofs(c)), Grown(c, n, S) \/ (chan'[c][n] = <<>> /\ ~up'[c])
  PROVE  DiallerSteady(c, n, x)
  <1>1. /\ Ordered(c, n, x, Approvals, Proofs(c)) => Ordered(c, n, x, Approvals, Proofs(c))'
        /\ up'[c] => (Coming(c, n, x, Proofs(c)) => Coming(c, n, x, Proofs(c))')
    BY StreamStays
  <1>2. QED
    BY <1>1 DEF DiallerSteady

LEMMA ListenerMoves ==
  ASSUME IInv, NEW c \in Link, NEW n \in Node, n \in Name, NEW p \in Node,
         NEW S, S \subseteq Msg, S \intersect Proofs(c) = {},
         Holds(c, p, n)' => Holds(c, p, n) /\ pend'[p][n] = pend[p][n],
         QueueMoves(p, n, Challenges(c)), Grown(c, p, S) \/ (chan'[c][p] = <<>> /\ ~up'[c])
  PROVE  ListenerSteady(c, n, p)
  <1>1. /\ Ordered(c, p, n, Proofs(c), Challenges(c)) => Ordered(c, p, n, Proofs(c), Challenges(c))'
        /\ up'[c] => (Coming(c, p, n, Challenges(c)) => Coming(c, p, n, Challenges(c))')
    BY StreamStays
  <1>2. QED
    BY <1>1 DEF ListenerSteady

LEMMA PendKept ==
  ASSUME NEW m \in Node, NEW y \in Name, PendCalm(m, y), NEW c
  PROVE  /\ Holds(c, m, y)' => Holds(c, m, y) /\ pend'[m][y] = pend[m][y]
         /\ Awaits(c, m, y)' => Awaits(c, m, y)
  BY DEF PendCalm, Holds, Awaits

LEMMA CalmTold ==
  ASSUME IInv, Calm, NEW c \in Link, NEW n \in Node, NEW p \in Node, Sole(c, n, p),
         Told(c, n, p), OwnWay(c, p)'
  PROVE  Told(c, n, p)'
  <1>1. PICK x : x = DialName[p]
    OBVIOUS
  <1>2. x \in Name /\ n \in Name
    BY <1>1, SoleLink
  <1>3. World /\ (up'[c] => up[c]) /\ EndCalm(c, n) /\ EndCalm(c, p)
        /\ PendCalm(n, x) /\ PendCalm(p, n)
    <2>1. link[c] # NoLink /\ n \in Ends(c) /\ p \in Ends(c)
      BY SoleLink DEF Belongs
    <2>2. QED
      BY <1>2, <2>1 DEF Calm
  <1>4. /\ Holds(c, p, n)' => Holds(c, p, n) /\ pend'[p][n] = pend[p][n]
        /\ Awaits(c, n, x)' => Awaits(c, n, x)
    BY <1>2, <1>3, PendKept
  <1>5. Settled(c, n) => DiallerOK(c, n, x)' /\ ListenerOK(c, n, x, p)'
    BY <1>2 DEF Settled, DiallerOK, ListenerOK, Given, Awaits
  <1>6. ASSUME ~Settled(c, n)
        PROVE  DiallerSteady(c, n, x)
    <2>1. QueueMoves(n, x, Proofs(c))
      BY <1>2, <1>3, <1>6, QueueSlower, Kinds DEF EndCalm
    <2>2. QED
      BY <1>2, <1>3, <1>4, <1>6, <2>1, DiallerMoves, Kinds DEF EndCalm
  <1>7. Settled(c, p) => ListenerOK(c, n, x, p)'
    BY <1>2 DEF Settled, ListenerOK
  <1>8. ASSUME ~Settled(c, p)
        PROVE  ListenerSteady(c, n, p)
    <2>1. QueueMoves(p, n, Challenges(c))
      BY <1>2, <1>3, <1>8, QueueSlower, Kinds DEF EndCalm
    <2>2. QED
      BY <1>2, <1>3, <1>4, <1>8, <2>1, ListenerMoves, Kinds DEF EndCalm
  <1>9. DiallerOK(c, n, x) /\ ListenerOK(c, n, x, p)
    BY <1>1 DEF Told
  <1>10. DiallerOK(c, n, x)' /\ ListenerOK(c, n, x, p)'
    BY <1>5, <1>6, <1>7, <1>8, <1>9, DiallerStays, ListenerStays
  <1>11. DialName'[p] = x
    BY <1>1, <1>3 DEF World
  <1>12. QED
    BY <1>10, <1>11 DEF Told

LEMMA NoneGrown ==
  ASSUME NEW S, NEW s \in Seq(S), NEW t \in Seq(S), NEW F, ~Has(s, F), ~Has(t, F)
  PROVE  ~Has(s \o t, F)
  <1> SUFFICES ASSUME NEW i \in DOMAIN (s \o t), (s \o t)[i] \in F
               PROVE  FALSE
    BY DEF Has
  <1>1. CASE i \in DOMAIN s
    <2>1. (s \o t)[i] = s[i]
      BY <1>1
    <2>2. QED
      BY <1>1, <2>1 DEF Has
  <1>2. CASE i \notin DOMAIN s
    <2>1. i - Len(s) \in DOMAIN t /\ (s \o t)[i] = t[i - Len(s)]
      BY <1>2
    <2>2. QED
      BY <2>1 DEF Has
  <1>3. QED
    BY <1>1, <1>2

LEMMA OwnWayStays ==
  ASSUME IInv, NEW c, NEW p \in Node, OwnWay(c, p), NEW S, S \subseteq Msg,
         \A d \in Link : d # c =>
             \/ chan'[d][p] = <<>>
             \/ Grown(d, p, S) /\ S \intersect Proofs(c) = {}
             \/ chan[d][p] # <<>> /\ chan'[d][p] = Tail(chan[d][p])
  PROVE  OwnWay(c, p)'
  <1> SUFFICES ASSUME NEW d \in Link, d # c
               PROVE  ~Has(chan'[d][p], Proofs(c))
    BY DEF OwnWay
  <1>1. PICK s, s2 : s = chan[d][p] /\ s2 = chan'[d][p]
    OBVIOUS
  <1>2. s \in Seq(Msg) /\ ~Has(s, Proofs(c))
    BY <1>1 DEF IInv, ChanOK, OwnWay
  <1>3. ~Has(s2, Proofs(c))
    <2>1. CASE s2 = <<>>
      BY <2>1 DEF Has
    <2>2. CASE Grown(d, p, S) /\ S \intersect Proofs(c) = {}
      <3>1. PICK t \in Seq(S) : s2 = s \o t
        BY <1>1, <2>2 DEF Grown
      <3>2. t \in Seq(Msg)
        BY <3>1, SeqMonotonic
      <3>3. ~Has(t, Proofs(c))
        BY <2>2, <3>1 DEF Has
      <3>4. QED
        BY <1>2, <3>1, <3>2, <3>3, NoneGrown
    <2>3. CASE s # <<>> /\ s2 = Tail(s)
      BY <1>2, <2>3, HeadHas
    <2>4. QED
      BY <1>1, <2>1, <2>2, <2>3
  <1>4. QED
    BY <1>1, <1>3

LEMMA FromLinkGrows ==
  ASSUME World, NEW n, NEW x
  PROVE  FromLink(n, x) \subseteq FromLink(n, x)'
  <1> SUFFICES ASSUME NEW e \in FromLink(n, x)
               PROVE  e \in FromLink(n, x)'
    OBVIOUS
  <1>1. /\ e \in Entry
        /\ \E d \in Link : Belongs(d, n, x)
        /\ e.msg.type = "identity_challenge" => Belongs(e.msg.nonce, n, x)
    BY DEF FromLink
  <1>2. \E d \in Link : Belongs(d, n, x)'
    BY <1>1, BelongsStays
  <1>3. e.msg.type = "identity_challenge" => Belongs(e.msg.nonce, n, x)'
    BY <1>1, BelongsStays
  <1>4. QED
    BY <1>1, <1>2, <1>3 DEF FromLink

\* The queue keeps what came on a link.
LEMMA QueueWayStays ==
  ASSUME IInv, World, WayOK, NEW n \in Node, NEW x \in Name, NEW G,
         QueueMoves(n, x, G) \/ queue'[n][x] = <<>>
  PROVE  queue'[n][x] \in Seq(FromLink(n, x)')
  <1>1. PICK q, W : q = queue[n][x] /\ W = FromLink(n, x)'
    OBVIOUS
  <1>2. q \in Seq(W)
    BY <1>1, FromLinkGrows, SeqMonotonic DEF WayOK
  <1>3. <<>> \in Seq(W)
    OBVIOUS
  <1>4. q # <<>> => Tail(q) \in Seq(W)
    BY <1>2, HeadTailProperties
  <1>5. QED
    BY <1>1, <1>2, <1>3, <1>4 DEF QueueMoves

LEMMA ChanWayStays ==
  ASSUME IInv, WayOK, NEW d \in Link, NEW n \in Node,
         \/ Grown(d, n, OwnChallenges(d)) \/ chan'[d][n] = <<>>
         \/ chan[d][n] # <<>> /\ chan'[d][n] = Tail(chan[d][n])
  PROVE  chan'[d][n] \in Seq(OwnChallenges(d))
  <1>1. PICK s, W : s = chan[d][n] /\ W = OwnChallenges(d)
    OBVIOUS
  <1>2. s \in Seq(W)
    BY <1>1 DEF WayOK
  <1>3. <<>> \in Seq(W)
    OBVIOUS
  <1>4. s # <<>> => Tail(s) \in Seq(W)
    BY <1>2, HeadTailProperties
  <1>5. \A t \in Seq(W) : s \o t \in Seq(W)
    BY <1>2, ConcatProperties
  <1>6. QED
    BY <1>1, <1>2, <1>3, <1>4, <1>5 DEF Grown

LEMMA CalmKeeps ==
  ASSUME IInv, AInv, Calm
  PROVE  AInv'
  <1>1. World /\ link' = link
    BY DEF Calm
  <1>2. IncomingOK'
    BY DEF Calm, PendCalm, AInv, IncomingOK
  <1>3. ASSUME NEW d \in Link, NEW n \in Node
        PROVE  chan'[d][n] \in Seq(OwnChallenges(d))
    <2>1. Idle \subseteq OwnChallenges(d)
      BY Kinds
    <2>2. Grown(d, n, Idle) => Grown(d, n, OwnChallenges(d))
      BY <2>1, SeqMonotonic DEF Grown
    <2>3. QED
      BY <2>2, ChanWayStays DEF Calm, AInv
  <1>4. WayOK'
    <2>1. \A n \in Node, x \in Name : queue'[n][x] \in Seq(FromLink(n, x)')
      BY <1>1, QueueWayStays DEF Calm, AInv
    <2>2. QED
      BY <1>3, <2>1 DEF WayOK
  <1>5. ASSUME NEW c \in Link, NEW n \in Node, NEW p \in Node, Sole(c, n, p)'
        PROVE  Told(c, n, p)'
    <2>1. link[c] # NoLink
      BY <1>1, <1>5, SessionAssumption DEF Sole, NoLink
    <2>2. Sole(c, n, p)
      BY <1>1, <1>5, <2>1, SoleBefore
    <2>3. Told(c, n, p)
      BY <2>2 DEF AInv, ToldOK
    <2>4. OwnWay(c, p)'
      <3>1. OwnWay(c, p) /\ Idle \subseteq Msg /\ Idle \intersect Proofs(c) = {}
        BY <2>3, Kinds DEF Told
      <3>2. \A d \in Link : Grown(d, p, Idle) \/ chan'[d][p] = <<>>
        BY DEF Calm
      <3>3. QED
        BY <3>1, <3>2, OwnWayStays
    <2>5. QED
      BY <2>2, <2>3, <2>4, CalmTold
  <1>6. QED
    BY <1>2, <1>4, <1>5 DEF AInv, ToldOK

LEMMA CalmStep ==
  ASSUME World, UNCHANGED <<link, up>>,
         \A d \in Link, m \in Node : (Begun(d, m)' <=> Begun(d, m)) /\ Grown(d, m, Idle),
         \A m \in Node, y \in Name : QueueMoves(m, y, Keyed) /\ PendCalm(m, y)
  PROVE  Calm
  BY DEF Calm, EndCalm

LEMMA DoneMoves ==
  ASSUME IInv, NEW n \in Node, NEW x \in Name, NEW type, Turn(n, x, type), Done(n, x)
  PROVE  /\ queue[n][x] # <<>> /\ Head(queue[n][x]) = Received(n, x)
         /\ queue'[n][x] = Tail(queue[n][x])
         /\ \A m \in Node, y \in Name : m # n \/ y # x => queue'[m][y] = queue[m][y]
  <1>1. /\ queue \in [Node -> [Name -> Seq(Entry)]] /\ queue[n][x] # <<>>
        /\ queue[n][x] \in Seq(Entry)
    BY DEF IInv, QueueOK, Turn
  <1>2. Tail(queue[n][x]) \in Seq(Entry)
    BY <1>1, HeadTailProperties
  <1>3. queue' = [queue EXCEPT ![n][x] = Tail(queue[n][x])]
    BY <1>1 DEF Done
  <1>4. QED
    BY <1>1, <1>2, <1>3, Put DEF Received

LEMMA IdleDone ==
  ASSUME IInv, NEW n \in Node, NEW x \in Name, NEW type, Turn(n, x, type), Done(n, x),
         type \notin {"identity_challenge", "identity_proof"}
  PROVE  \A m \in Node, y \in Name : QueueMoves(m, y, Keyed)
  <1>1. Received(n, x).msg \notin Keyed
    BY HeadOf DEF Keyed
  <1>2. QED
    BY <1>1, DoneMoves DEF QueueMoves

LEMMA CloseBegun ==
  ASSUME ShapeOK, NEW c \in Link, NEW n \in Node, Close(c, n)
  PROVE  \A d \in Link, m \in Node : Begun(d, m)' <=> Begun(d, m)
  <1>1. sock \in [Link -> [Node -> EndState]]
    BY DEF ShapeOK
  <1>2. sock'[c][n] = IF sock[c][n] = "open" THEN "closing" ELSE sock[c][n]
    BY <1>1 DEF Close
  <1>3. \A d \in Link, m \in Node : d # c \/ m # n => sock'[d][m] = sock[d][m]
    BY CloseShape
  <1>4. QED
    BY <1>2, <1>3 DEF Begun

LEMMA PendGone ==
  ASSUME IInv, NEW n \in Node, NEW x \in Name, pend' = [pend EXCEPT ![n][x] = None]
  PROVE  /\ pend'[n][x] = None
         /\ \A m \in Node, y \in Name : m # n \/ y # x => pend'[m][y] = pend[m][y]
  BY DEF IInv, EntriesOK

LEMMA ConnAlone ==
  ASSUME IInv, NEW n \in Node, NEW x \in Name, NEW v, conns' = [conns EXCEPT ![n][x] = v]
  PROVE  /\ conns'[n][x] = v
         /\ \A m \in Node, y \in Name : m # n \/ y # x => conns'[m][y] = conns[m][y]
  <1>1. conns \in [Node -> [Name -> Connection \union {None}]]
    BY DEF IInv, EntriesOK
  <1>2. QED
    BY <1>1

LEMMA PromoteAlone ==
  ASSUME IInv, NEW n \in Node, NEW x \in Name, NEW c, NEW k, Promote(n, x, c, k)
  PROVE  /\ pend'[n][x] = None
         /\ \A m \in Node, y \in Name : m # n \/ y # x =>
                pend'[m][y] = pend[m][y] /\ conns'[m][y] = conns[m][y]
  <1>1. PICK v : v = [sock |-> c, key |-> k]
    OBVIOUS
  <1>2. conns' = [conns EXCEPT ![n][x] = v] /\ pend' = [pend EXCEPT ![n][x] = None]
    BY <1>1 DEF Promote
  <1>3. /\ pend'[n][x] = None
        /\ \A m \in Node, y \in Name : m # n \/ y # x => pend'[m][y] = pend[m][y]
    BY <1>2, PendGone
  <1>4. \A m \in Node, y \in Name : m # n \/ y # x => conns'[m][y] = conns[m][y]
    BY <1>2, ConnAlone
  <1>5. QED
    BY <1>3, <1>4

LEMMA PeerSent ==
  ASSUME IInv, NEW n \in Node, NEW x \in Name, NEW S, S \subseteq Msg, NEW ms \in Seq(S),
         SendToPeer(n, x, ms)
  PROVE  \A d \in Link, m \in Node : Grown(d, m, S)
  <1>1. PICK c : c = OutLink(n, conns[n][x], pend[n][x])
    OBVIOUS
  <1>2. c = 0 \/ Belongs(c, n, x)
    BY <1>1, EntriesBelong, OutBelongs
  <1>3. chan' = Sent(chan, c, n, ms)
    BY <1>1 DEF SendToPeer
  <1>4. Posted(c, n, S)
    BY <1>2, <1>3, SentPosted
  <1>5. QED
    BY <1>4, PostedGrown

LEMMA JoinedPosted ==
  ASSUME IInv, NEW n \in Node, NEW x, NEW c, Belongs(c, n, x), NEW conn, conn.sock = c,
         NEW S, S \subseteq Msg, NEW ms \in Seq(S),
         chan' = Sent(chan, OutLink(n, conn, None), n, ms)
  PROVE  Posted(c, n, S)
  <1>1. PICK d : d = OutLink(n, conn, None)
    OBVIOUS
  <1>2. d = 0 \/ d = c
    BY <1>1 DEF OutLink
  <1>3. d = 0 \/ Belongs(d, n, x)
    BY <1>2
  <1>4. chan' = Sent(chan, d, n, ms)
    BY <1>1
  <1>5. Posted(d, n, S)
    BY <1>3, <1>4, SentPosted
  <1>6. 0 \notin Link
    BY SessionAssumption DEF Link
  <1>7. QED
    BY <1>2, <1>5, <1>6 DEF Posted

\* The steps that handle a message and send no more than a peer's state.
LEMMA MessageCalm ==
  ASSUME IInv, NEW n \in Node, NEW x \in Name,
         HandleState(n, x) \/ HandleRequest(n, x) \/ HandleFile(n, x)
  PROVE  Calm
  <1>1. /\ World /\ UNCHANGED <<link, up, sock, pend, conns>>
        /\ Done(n, x)
    BY WorldStays DEF HandleState, HandleRequest, HandleFile, wireVars, tableVars
  <1>2. PICK type : Turn(n, x, type) /\ type \notin {"identity_challenge", "identity_proof"}
    BY DEF HandleState, HandleRequest, HandleFile
  <1>3. \A m \in Node, y \in Name : QueueMoves(m, y, Keyed) /\ PendCalm(m, y)
    BY <1>1, <1>2, IdleDone DEF PendCalm
  <1>4. \A d \in Link, m \in Node : Grown(d, m, Idle)
    <2>1. CASE chan' = chan
      BY <2>1, GrownNone
    <2>2. CASE SendToPeer(n, x, <<Plain("manifest")>>)
      BY <2>2, PeerSent, IdleMessages, Kinds
    <2>3. QED
      BY <2>1, <2>2 DEF HandleState, HandleRequest, HandleFile, wireVars
  <1>5. QED
    BY <1>1, <1>3, <1>4, CalmStep DEF Begun

LEMMA ApprovalCalm ==
  ASSUME IInv, NEW n \in Node, NEW x \in Name, HandleApproval(n, x)
  PROVE  Calm
  <1>1. /\ Turn(n, x, "approved") /\ Done(n, x) /\ World /\ UNCHANGED <<link, up, sock>>
    BY WorldStays DEF HandleApproval
  <1>2. \A m \in Node, y \in Name : QueueMoves(m, y, Keyed)
    BY <1>1, IdleDone
  <1>3. CASE UNCHANGED <<conns, pend, trusted, chan>>
    BY <1>1, <1>2, <1>3, GrownNone, CalmStep DEF Begun, PendCalm
  <1>4. CASE ~UNCHANGED <<conns, pend, trusted, chan>>
    <2>1. PICK c, k : c = pend[n][x].sock /\ k = pend[n][x].key
      OBVIOUS
    <2>2. /\ pend[n][x] # None /\ Promote(n, x, c, k)
          /\ chan' = Sent(chan, OutLink(n, conns'[n][x], None), n, PeerState)
      BY <1>4, <2>1 DEF HandleApproval, Acceptable
    <2>3. Belongs(c, n, x)
      BY <2>1, <2>2, EntriesBelong
    <2>4. PICK conn : conn = conns'[n][x]
      OBVIOUS
    <2>5. conn.sock = c /\ chan' = Sent(chan, OutLink(n, conn, None), n, PeerState)
      BY <2>2, <2>4, Promoted
    <2>6. Posted(c, n, Idle)
      BY <2>3, <2>5, IdleMessages, Kinds, JoinedPosted
    <2>7. \A m \in Node, y \in Name : PendCalm(m, y)
      BY <2>2, PromoteAlone DEF PendCalm
    <2>8. QED
      BY <1>1, <1>2, <2>6, <2>7, PostedGrown, CalmStep DEF Begun
  <1>5. QED
    BY <1>3, <1>4

LEMMA FileCalm ==
  ASSUME IInv, NEW n \in Node, NEW x \in Name, FinishFile(n, x) \/ SendFile(n, x)
  PROVE  Calm
  <1>1. UNCHANGED <<link, up, sock, pend, conns, queue>>
    BY DEF FinishFile, SendFile, wireVars, tableVars, loopVars
  <1>2. World
    <2>1. CASE FinishFile(n, x)
      BY <2>1, WorldStays DEF FinishFile, wireVars
    <2>2. CASE SendFile(n, x)
      BY <2>2, SpendShape DEF SendFile, World, IInv
    <2>3. QED
      BY <2>1, <2>2
  <1>3. \A m \in Node, y \in Name : QueueMoves(m, y, Keyed) /\ PendCalm(m, y)
    BY <1>1 DEF QueueMoves, PendCalm
  <1>4. \A d \in Link, m \in Node : Grown(d, m, Idle)
    <2>1. CASE FinishFile(n, x)
      BY <2>1, GrownNone DEF FinishFile, wireVars
    <2>2. CASE SendFile(n, x)
      <3>1. PICK conn : conn = conns[n][x]
        OBVIOUS
      <3>2. PICK c : c = conn.sock
        OBVIOUS
      <3>3. Belongs(c, n, x) /\ chan' = Sent(chan, OutLink(n, conn, None), n, <<Plain("file")>>)
        BY <2>2, <3>1, <3>2, EntriesBelong DEF SendFile
      <3>4. Posted(c, n, Idle)
        BY <3>2, <3>3, IdleMessages, Kinds, JoinedPosted
      <3>5. QED
        BY <3>4, PostedGrown
    <2>3. QED
      BY <2>1, <2>2
  <1>5. QED
    BY <1>1, <1>2, <1>3, <1>4, CalmStep DEF Begun

LEMMA StutterCalm ==
  ASSUME IInv, UNCHANGED vars
  PROVE  Calm
  <1>1. UNCHANGED <<link, up, sock, chan, pend, conns, queue>> /\ World
    BY WorldStays DEF vars, wireVars, tableVars, loopVars
  <1>2. QED
    BY <1>1, GrownNone, CalmStep DEF Begun, QueueMoves, PendCalm

LEMMA DenialCalm ==
  ASSUME IInv, NEW n \in Node, NEW x \in Name, HandleDenial(n, x)
  PROVE  Calm
  <1>1. /\ Turn(n, x, "denied") /\ Done(n, x) /\ World /\ UNCHANGED <<link, up, chan, conns>>
    BY WorldStays DEF HandleDenial
  <1>2. \A m \in Node, y \in Name : QueueMoves(m, y, Keyed)
    BY <1>1, IdleDone
  <1>3. CASE UNCHANGED <<sock, pend>>
    BY <1>1, <1>2, <1>3, GrownNone, CalmStep DEF Begun, PendCalm
  <1>4. CASE ~UNCHANGED <<sock, pend>>
    <2>1. PICK c : c = pend[n][x].sock
      OBVIOUS
    <2>2. pend[n][x] # None /\ Close(c, n) /\ pend' = [pend EXCEPT ![n][x] = None]
      BY <1>4, <2>1 DEF HandleDenial
    <2>3. c \in Link
      BY <2>1, <2>2, EntriesBelong DEF Belongs
    <2>4. \A d \in Link, m \in Node : Begun(d, m)' <=> Begun(d, m)
      BY <2>2, <2>3, CloseBegun DEF IInv
    <2>5. \A m \in Node, y \in Name : PendCalm(m, y)
      BY <1>1, <2>2, PendGone DEF PendCalm
    <2>6. QED
      BY <1>1, <1>2, <2>4, <2>5, GrownNone, CalmStep
  <1>5. QED
    BY <1>3, <1>4

LEMMA DenyCalm ==
  ASSUME IInv, NEW n \in Node, NEW x \in Name, Deny(n, x)
  PROVE  Calm
  <1>1. PICK c : c = pend[n][x].sock
    OBVIOUS
  <1>2. /\ pend[n][x] # None /\ SendToPeer(n, x, <<Denial>>) /\ Close(c, n)
        /\ pend' = [pend EXCEPT ![n][x] = None]
        /\ World /\ UNCHANGED <<link, up, conns, queue>>
    BY <1>1, WorldStays DEF Deny, loopVars
  <1>3. c \in Link
    BY <1>1, <1>2, EntriesBelong DEF Belongs
  <1>4. \A d \in Link, m \in Node : Begun(d, m)' <=> Begun(d, m)
    BY <1>2, <1>3, CloseBegun DEF IInv
  <1>5. \A m \in Node, y \in Name : QueueMoves(m, y, Keyed) /\ PendCalm(m, y)
    BY <1>2, PendGone DEF QueueMoves, PendCalm
  <1>6. \A d \in Link, m \in Node : Grown(d, m, Idle)
    BY <1>2, PeerSent, IdleMessages, Kinds
  <1>7. QED
    BY <1>2, <1>4, <1>5, <1>6, CalmStep

LEMMA PingCalm ==
  ASSUME IInv, NEW n \in Node, NEW x \in Name, MissedPing(n, x)
  PROVE  Calm
  <1>1. PICK c : c = conns[n][x].sock
    OBVIOUS
  <1>2. /\ conns[n][x] # None /\ Close(c, n) /\ conns' = [conns EXCEPT ![n][x] = None]
        /\ World /\ UNCHANGED <<link, up, chan, pend, queue>>
    BY <1>1, WorldStays DEF MissedPing, DropConnection, loopVars
  <1>3. c \in Link
    BY <1>1, <1>2, EntriesBelong DEF Belongs
  <1>4. \A d \in Link, m \in Node : Begun(d, m)' <=> Begun(d, m)
    BY <1>2, <1>3, CloseBegun DEF IInv
  <1>5. \A m \in Node, y \in Name : QueueMoves(m, y, Keyed) /\ PendCalm(m, y)
    BY <1>2, ConnAlone DEF QueueMoves, PendCalm
  <1>6. \A d \in Link, m \in Node : Grown(d, m, Idle)
    BY <1>2, GrownNone
  <1>7. QED
    BY <1>2, <1>4, <1>5, <1>6, CalmStep

\* Nothing waits for a link at a closed end of it.
LEMMA CloseEventCalm ==
  ASSUME IInv, NEW c \in Link, NEW n \in Node, CloseEvent(c, n)
  PROVE  Calm
  <1>1. PICK x : x = NameAt(c, n)
    OBVIOUS
  <1>2. /\ link[c] # NoLink /\ n \in Ends(c) /\ sock[c][n] \in {"open", "closing"}
        /\ sock' = [sock EXCEPT ![c][n] = "closed"] /\ chan' = [chan EXCEPT ![c][n] = <<>>]
        /\ pend' = [pend EXCEPT ![n][x] = None] /\ conns' = [conns EXCEPT ![n][x] = None]
        /\ World /\ UNCHANGED <<link, up, queue>>
    BY <1>1, WorldStays DEF CloseEvent, Ended, DropConnection, loopVars
  <1>3. Belongs(c, n, x) /\ x \in Name
    BY <1>1, <1>2, EndsOfLink DEF Belongs
  <1>4. /\ sock'[c][n] = "closed"
        /\ \A d \in Link, m \in Node : d # c \/ m # n => sock'[d][m] = sock[d][m]
    <2>1. sock \in [Link -> [Node -> EndState]]
      BY DEF IInv, ShapeOK
    <2>2. QED
      BY <1>2, <2>1
  <1>5. /\ chan'[c][n] = <<>>
        /\ \A d \in Link, m \in Node : d # c \/ m # n => chan'[d][m] = chan[d][m]
    <2>1. chan \in [Link -> [Node -> Seq(Msg)]]
      BY DEF IInv, ChanOK
    <2>2. QED
      BY <1>2, <2>1
  <1>6. \A m \in Node, y \in Name : QueueMoves(m, y, Keyed) /\ PendCalm(m, y)
    BY <1>2, <1>3, PendGone, ConnAlone DEF QueueMoves, PendCalm
  <1>7. Settled(c, n)
    <2> SUFFICES ASSUME NEW y \in Name, Holds(c, n, y)'
                 PROVE  FALSE
      BY <1>4 DEF Settled, Begun
    <2>1. /\ pend'[n][x] = None
          /\ \A m \in Node, z \in Name : m # n \/ z # x => pend'[m][z] = pend[m][z]
      <3>1. x \in Name /\ pend' = [pend EXCEPT ![n][x] = None]
        BY <1>2, <1>3
      <3>2. QED
        BY <3>1, PendGone
    <2>2. y # x /\ pend[n][y] # None /\ pend[n][y].sock = c
      BY <2>1 DEF Holds
    <2>3. Belongs(c, n, y)
      BY <2>2, EntriesBelong
    <2>4. QED
      BY <1>3, <2>2, <2>3 DEF Belongs
  <1>8. ASSUME NEW d \in Link, NEW m \in Node
        PROVE  EndCalm(d, m) /\ (Grown(d, m, Idle) \/ chan'[d][m] = <<>>)
    <2>1. CASE d = c /\ m = n
      BY <1>5, <1>7, <2>1 DEF EndCalm
    <2>2. CASE d # c \/ m # n
      BY <1>4, <1>5, <1>6, <2>2, GrownNone DEF EndCalm, Begun
    <2>3. QED
      BY <2>1, <2>2
  <1>9. QED
    BY <1>2, <1>6, <1>8 DEF Calm

LEMMA FailureCalm ==
  ASSUME IInv, NEW c \in Link, LinkFails(c)
  PROVE  Calm
  <1>1. /\ up' = [up EXCEPT ![c] = FALSE] /\ chan' = [chan EXCEPT ![c] = [n \in Node |-> <<>>]]
        /\ UNCHANGED <<link, sock, pend, conns, queue>>
    BY DEF LinkFails, tableVars, loopVars
  <1>2. World
    BY SpendShape DEF LinkFails, World, IInv
  <1>3. ~up'[c] /\ \A d \in Link : d # c => up'[d] = up[d]
    BY <1>1 DEF IInv, ShapeOK
  <1>4. \A d \in Link, m \in Node : chan'[d][m] = IF d = c THEN <<>> ELSE chan[d][m]
    <2>1. chan \in [Link -> [Node -> Seq(Msg)]]
      BY DEF IInv, ChanOK
    <2>2. QED
      BY <1>1, <2>1
  <1>5. \A m \in Node, y \in Name : QueueMoves(m, y, Keyed) /\ PendCalm(m, y)
    BY <1>1 DEF QueueMoves, PendCalm
  <1>6. \A d \in Link, m \in Node : EndCalm(d, m) /\ (Grown(d, m, Idle) \/ chan'[d][m] = <<>>)
    BY <1>1, <1>3, <1>4, <1>5, GrownNone DEF EndCalm, Begun
  <1>7. QED
    BY <1>1, <1>2, <1>3, <1>5, <1>6 DEF Calm

LEMMA RestartCalm ==
  ASSUME IInv, NEW n \in Node, Restart(n)
  PROVE  Calm
  <1>1. /\ sock' = [c \in Link |-> IF link[c] # NoLink /\ n \in Ends(c)
                                   THEN [sock[c] EXCEPT ![n] = "closed"] ELSE sock[c]]
        /\ chan' = [c \in Link |-> [chan[c] EXCEPT ![n] = <<>>]]
        /\ pend' = [pend EXCEPT ![n] = [x \in Name |-> None]]
        /\ conns' = [conns EXCEPT ![n] = [x \in Name |-> None]]
        /\ queue' = [queue EXCEPT ![n] = [x \in Name |-> <<>>]]
        /\ UNCHANGED <<link, up>>
    BY DEF Restart
  <1>2. World
    BY SpendShape DEF Restart, World, IInv
  <1>3. \A m \in Node, y \in Name :
            /\ pend'[m][y] = IF m = n THEN None ELSE pend[m][y]
            /\ conns'[m][y] = IF m = n THEN None ELSE conns[m][y]
    BY <1>1 DEF IInv, EntriesOK
  <1>4. \A m \in Node, y \in Name : queue'[m][y] = IF m = n THEN <<>> ELSE queue[m][y]
    <2>1. queue \in [Node -> [Name -> Seq(Entry)]]
      BY DEF IInv, QueueOK
    <2>2. QED
      BY <1>1, <2>1
  <1>5. \A d \in Link, m \in Node : chan'[d][m] = IF m = n THEN <<>> ELSE chan[d][m]
    <2>1. chan \in [Link -> [Node -> Seq(Msg)]]
      BY DEF IInv, ChanOK
    <2>2. QED
      BY <1>1, <2>1
  <1>6. \A d \in Link, m \in Node :
            /\ m # n => sock'[d][m] = sock[d][m]
            /\ m = n /\ link[d] # NoLink /\ n \in Ends(d) => sock'[d][m] = "closed"
    <2>1. sock \in [Link -> [Node -> EndState]]
      BY DEF IInv, ShapeOK
    <2>2. QED
      BY <1>1, <2>1
  <1>7. ASSUME NEW d \in Link, NEW m \in Node
        PROVE  link[d] # NoLink /\ m \in Ends(d) => EndCalm(d, m)
    <2>1. CASE m = n
      BY <1>3, <1>6, <2>1 DEF EndCalm, Settled, Begun, Holds
    <2>2. CASE m # n
      BY <1>4, <1>5, <1>6, <2>2, GrownNone DEF EndCalm, Begun, QueueMoves
    <2>3. QED
      BY <2>1, <2>2
  <1>8. QED
    BY <1>1, <1>2, <1>3, <1>4, <1>5, <1>7, GrownNone DEF Calm, PendCalm, QueueMoves

------------------------------------------------------------------------------
(* A message is received *)

LEMMA ReceiveMoves ==
  ASSUME IInv, NEW b \in Link, NEW q \in Node, Receive(b, q), NEW z, z = NameAt(b, q)
  PROVE  /\ World /\ UNCHANGED <<link, up, sock, pend, conns>>
         /\ Belongs(b, q, z) /\ z \in Name /\ Begun(b, q)
         /\ chan[b][q] # <<>> /\ chan'[b][q] = Tail(chan[b][q])
         /\ \A d \in Link, m \in Node : d # b \/ m # q => chan'[d][m] = chan[d][m]
         /\ \A m \in Node, y \in Name : m # q \/ y # z => queue'[m][y] = queue[m][y]
         /\ \/ queue' = queue /\ pend[q][z] = None
            \/ \E e \in Entry : e.msg = Head(chan[b][q]) /\ queue'[q][z] = Append(queue[q][z], e)
  <1>1. Belongs(b, q, z)
    BY DEF Receive, Belongs
  <1>2. z \in Name /\ link[b] # NoLink
    BY <1>1, EndsOfLink
  <1>3. World /\ UNCHANGED <<link, up, sock, pend, conns>>
    BY WorldStays DEF Receive, tableVars
  <1>4. Begun(b, q) /\ chan[b][q] # <<>>
    BY DEF Receive, Begun
  <1>5. /\ chan'[b][q] = Tail(chan[b][q])
        /\ \A d \in Link, m \in Node : d # b \/ m # q => chan'[d][m] = chan[d][m]
    <2>1. chan \in [Link -> [Node -> Seq(Msg)]] /\ chan[b][q] \in Seq(Msg)
      BY DEF IInv, ChanOK
    <2>2. chan' = [chan EXCEPT ![b][q] = Tail(chan[b][q])]
      BY <2>1 DEF Receive
    <2>3. Tail(chan[b][q]) \in Seq(Msg)
      BY <1>4, <2>1, HeadTailProperties
    <2>4. QED
      BY <2>1, <2>2, <2>3, Put
  <1>6. PICK e : e = [msg |-> Head(chan[b][q]), approved |-> pend[q][z] = None]
    OBVIOUS
  <1>7. e \in Entry /\ e.msg = Head(chan[b][q])
    <2>1. Head(chan[b][q]) \in Msg
      BY <1>4, HeadTailProperties DEF IInv, ChanOK
    <2>2. QED
      BY <1>6, <2>1 DEF Entry
  <1>8. CASE queue' = queue /\ pend[q][z] = None
    BY <1>1, <1>2, <1>3, <1>4, <1>5, <1>8
  <1>9. CASE queue' = [queue EXCEPT ![q][z] = Append(queue[q][z], e)]
    <2>1. queue \in [Node -> [Name -> Seq(Entry)]] /\ queue[q][z] \in Seq(Entry)
      BY <1>2 DEF IInv, QueueOK
    <2>2. Append(queue[q][z], e) \in Seq(Entry)
      BY <1>7, <2>1, AppendProperties
    <2>3. /\ queue'[q][z] = Append(queue[q][z], e)
          /\ \A m \in Node, y \in Name : m # q \/ y # z => queue'[m][y] = queue[m][y]
      BY <1>2, <1>9, <2>1, <2>2, Put
    <2>4. QED
      BY <1>1, <1>2, <1>3, <1>4, <1>5, <1>7, <2>3
  <1>10. QED
    <2>1. (queue' = queue /\ pend[q][z] = None)
              \/ queue' = [queue EXCEPT ![q][z] = Append(queue[q][z], e)]
      BY <1>6 DEF Receive
    <2>2. QED
      BY <1>8, <1>9, <2>1

\* What n has of c, when a message comes to q on b: on c, on a link that n keeps
\* under the same name, or elsewhere.
LEMMA ReceivedStream ==
  ASSUME IInv, NEW b \in Link, NEW q \in Node, NEW z, z = NameAt(b, q), Receive(b, q),
         NEW c \in Link, NEW n \in Node, NEW x \in Name, Belongs(c, n, x),
         NEW F, NEW G, b # c /\ q = n /\ z = x => ~Has(chan[b][n], F),
         pend[n][x] # None \/ ~(b = c /\ q = n)
  PROVE  /\ Ordered(c, n, x, F, G) => Ordered(c, n, x, F, G)'
         /\ Coming(c, n, x, G) => Coming(c, n, x, G)'
  <1>1. /\ Belongs(b, q, z) /\ z \in Name
        /\ chan[b][q] # <<>> /\ chan'[b][q] = Tail(chan[b][q])
        /\ \A d \in Link, m \in Node : d # b \/ m # q => chan'[d][m] = chan[d][m]
        /\ \A m \in Node, y \in Name : m # q \/ y # z => queue'[m][y] = queue[m][y]
        /\ \/ queue' = queue /\ pend[q][z] = None
           \/ \E e \in Entry : e.msg = Head(chan[b][q]) /\ queue'[q][z] = Append(queue[q][z], e)
    BY ReceiveMoves
  <1>2. PICK s, ch, s2, ch2 : /\ s = queue[n][x] /\ ch = chan[c][n]
                              /\ s2 = queue'[n][x] /\ ch2 = chan'[c][n]
    OBVIOUS
  <1>3. s \in Seq(Entry) /\ ch \in Seq(Msg) /\ chan[b][q] \in Seq(Msg)
    BY <1>2 DEF IInv, QueueOK, ChanOK
  <1>4. /\ Led(s, ch, F, G) => Led(s2, ch2, F, G)
        /\ Comes(s, ch, G) => Comes(s2, ch2, G)
    <2>1. CASE b = c /\ q = n
      <3>1. x = z /\ ch # <<>> /\ ch2 = Tail(ch)
        BY <1>1, <1>2, <2>1 DEF Belongs
      <3>2. PICK e \in Entry : e.msg = Head(ch) /\ s2 = Append(s, e)
        BY <1>1, <1>2, <2>1, <3>1
      <3>3. QED
        BY <1>3, <3>1, <3>2, StreamReceived
    <2>2. CASE b # c /\ q = n /\ x = z
      <3>1. ch2 = ch
        BY <1>1, <1>2, <2>2
      <3>2. CASE queue' = queue
        BY <1>2, <3>1, <3>2
      <3>3. CASE queue' # queue
        <4>1. PICK e \in Entry : e.msg = Head(chan[b][q]) /\ s2 = Append(s, e)
          BY <1>1, <1>2, <2>2, <3>3
        <4>2. e.msg \notin F
          BY <1>1, <1>3, <2>2, <4>1, HeadHas
        <4>3. QED
          BY <1>3, <3>1, <4>1, <4>2, StreamJoined
      <3>4. QED
        BY <3>2, <3>3
    <2>3. CASE q # n \/ (b # c /\ x # z)
      <3>1. s2 = s /\ ch2 = ch
        BY <1>1, <1>2, <2>3
      <3>2. QED
        BY <3>1
    <2>4. QED
      BY <2>1, <2>2, <2>3
  <1>5. QED
    BY <1>2, <1>4 DEF Ordered, Coming

LEMMA ReceiveApproval ==
  ASSUME IInv, AInv, NEW b \in Link, NEW q \in Node, Receive(b, q)
  PROVE  AInv'
  <1>1. PICK z : z = NameAt(b, q)
    OBVIOUS
  <1>2. /\ World /\ UNCHANGED <<link, up, sock, pend, conns>>
        /\ Belongs(b, q, z) /\ z \in Name /\ Begun(b, q)
        /\ chan[b][q] # <<>> /\ chan'[b][q] = Tail(chan[b][q])
        /\ \A d \in Link, m \in Node : d # b \/ m # q => chan'[d][m] = chan[d][m]
        /\ \A m \in Node, y \in Name : m # q \/ y # z => queue'[m][y] = queue[m][y]
        /\ \/ queue' = queue /\ pend[q][z] = None
           \/ \E e \in Entry : e.msg = Head(chan[b][q]) /\ queue'[q][z] = Append(queue[q][z], e)
    BY <1>1, ReceiveMoves
  <1>3. IncomingOK'
    BY <1>2 DEF AInv, IncomingOK
  <1>4. WayOK'
    <2>1. ASSUME NEW d \in Link, NEW n \in Node
          PROVE  chan'[d][n] \in Seq(OwnChallenges(d))
      BY <1>2, GrownNone, ChanWayStays DEF AInv
    <2>2. ASSUME NEW n \in Node, NEW x \in Name
          PROVE  queue'[n][x] \in Seq(FromLink(n, x)')
      <3>1. CASE queue'[n][x] = queue[n][x]
        BY <1>2, <3>1, QueueWayStays DEF AInv, QueueMoves
      <3>2. CASE queue'[n][x] # queue[n][x]
        <4>1. n = q /\ x = z
          BY <1>2, <3>2
        <4>2. PICK e \in Entry : e.msg = Head(chan[b][q]) /\ queue'[n][x] = Append(queue[n][x], e)
          BY <1>2, <3>2, <4>1
        <4>3. e.msg \in OwnChallenges(b)
          BY <1>2, <4>2, HeadTailProperties DEF AInv, WayOK
        <4>4. e \in FromLink(n, x)
          BY <1>2, <4>1, <4>3 DEF FromLink, OwnChallenges
        <4>5. PICK W : W = FromLink(n, x)'
          OBVIOUS
        <4>6. e \in W /\ queue[n][x] \in Seq(W)
          BY <1>2, <4>4, <4>5, FromLinkGrows, SeqMonotonic DEF AInv, WayOK
        <4>7. Append(queue[n][x], e) \in Seq(W)
          BY <4>6, AppendProperties
        <4>8. QED
          BY <4>2, <4>5, <4>7
      <3>3. QED
        BY <3>1, <3>2
    <2>3. QED
      BY <2>1, <2>2 DEF WayOK
  <1>5. ASSUME NEW c \in Link, NEW n \in Node, NEW p \in Node, Sole(c, n, p)'
        PROVE  Told(c, n, p)'
    <2>1. link[c] # NoLink
      BY <1>2, <1>5, SessionAssumption DEF Sole, NoLink
    <2>2. Sole(c, n, p)
      BY <1>2, <1>5, <2>1, SoleBefore
    <2>3. Told(c, n, p)
      BY <2>2 DEF AInv, ToldOK
    <2>4. PICK x : x = DialName[p]
      OBVIOUS
    <2>5. /\ x \in Name /\ n \in Name /\ Belongs(c, n, x) /\ Belongs(c, p, n) /\ n # p
          /\ \A d : Belongs(d, n, x) => d = c
      BY <2>2, <2>4, SoleLink
    <2>6. OwnWay(c, p) /\ DiallerOK(c, n, x)
      BY <2>3, <2>4 DEF Told
    <2>7. OwnWay(c, p)'
      <3>1. \A d \in Link : chan'[d][p] = chan[d][p]
                \/ (chan[d][p] # <<>> /\ chan'[d][p] = Tail(chan[d][p]))
        BY <1>2
      <3>2. \A d \in Link : Grown(d, p, {})
                \/ (chan[d][p] # <<>> /\ chan'[d][p] = Tail(chan[d][p]))
        BY <3>1, GrownNone
      <3>3. QED
        BY <2>6, <3>2, OwnWayStays
    <2>8. DiallerSteady(c, n, x)
      <3>1. Begun(c, n)' <=> Begun(c, n)
        BY <1>2 DEF Begun
      <3>2. Awaits(c, n, x)' <=> Awaits(c, n, x)
        BY <1>2 DEF Awaits, Holds
      <3>3. CASE b = c /\ q = n /\ pend[n][x] = None
        BY <1>2, <3>1, <3>2, <3>3 DEF DiallerSteady, Awaits, Holds
      <3>4. CASE ~(b = c /\ q = n /\ pend[n][x] = None)
        <4>1. ~(b # c /\ q = n /\ z = x)
          BY <1>2, <2>5
        <4>2. pend[n][x] # None \/ ~(b = c /\ q = n)
          BY <3>4
        <4>3. /\ Ordered(c, n, x, Approvals, Proofs(c)) => Ordered(c, n, x, Approvals, Proofs(c))'
              /\ Coming(c, n, x, Proofs(c)) => Coming(c, n, x, Proofs(c))'
          BY <1>1, <2>5, <4>1, <4>2, ReceivedStream
        <4>4. QED
          BY <1>2, <3>1, <3>2, <4>3 DEF DiallerSteady
      <3>5. QED
        BY <3>3, <3>4
    <2>9. ListenerSteady(c, n, p)
      <3>1. Holds(c, p, n)' <=> Holds(c, p, n)
        BY <1>2 DEF Holds
      <3>2. ASSUME Holds(c, p, n)
            PROVE  /\ Ordered(c, p, n, Proofs(c), Challenges(c)) => Ordered(c, p, n, Proofs(c), Challenges(c))'
                   /\ Coming(c, p, n, Challenges(c)) => Coming(c, p, n, Challenges(c))'
        <4>1. pend[p][n] # None
          BY <3>2 DEF Holds
        <4>2. b # c => ~Has(chan[b][p], Proofs(c))
          BY <2>6 DEF OwnWay
        <4>3. QED
          BY <1>1, <2>5, <4>1, <4>2, ReceivedStream
      <3>3. QED
        BY <1>2, <3>1, <3>2 DEF ListenerSteady
    <2>10. QED
      BY <1>2, <2>3, <2>4, <2>7, <2>8, <2>9, ToldStays
  <1>6. QED
    BY <1>3, <1>4, <1>5 DEF AInv, ToldOK

------------------------------------------------------------------------------
(* Dials *)

\* Nobody answers a challenge that was not sent.
LEMMA NoProofs ==
  ASSUME IInv, KInv, NEW c, NEW m \in Node, ~(\E y \in Name : Belongs(c, m, y) /\ Begun(c, m))
  PROVE  /\ \A d \in Link : ~Has(chan[d][m], Proofs(c))
         /\ \A y \in Name : ~Has(queue[m][y], On(Proofs(c)))
  <1>1. \A k : ~ProofOK(c, m, k)
    BY DEF ProofOK
  <1>2. ASSUME NEW d \in Link, NEW i \in DOMAIN chan[d][m], chan[d][m][i] \in Proofs(c)
        PROVE  FALSE
    <2>1. PICK s : s = chan[d][m]
      OBVIOUS
    <2>2. s \in Seq(KeyWire[d][m])
      BY <2>1 DEF KInv, WireK
    <2>3. s[i] \in KeyWire[d][m] /\ s[i] \in Proofs(c)
      BY <1>2, <2>1, <2>2
    <2>4. QED
      BY <1>1, <2>3 DEF KeyWire, Proofs
  <1>3. ASSUME NEW y \in Name, NEW i \in DOMAIN queue[m][y], queue[m][y][i] \in On(Proofs(c))
        PROVE  FALSE
    <2>1. PICK s : s = queue[m][y]
      OBVIOUS
    <2>2. s \in Seq(KeyQueue[m][y])
      BY <2>1 DEF KInv, QueueK
    <2>3. s[i] \in KeyQueue[m][y] /\ s[i] \in On(Proofs(c))
      BY <1>3, <2>1, <2>2
    <2>4. QED
      BY <1>1, <2>3 DEF KeyQueue, Proofs, On
  <1>4. QED
    BY <1>2, <1>3 DEF Has

LEMMA NoneOrdered ==
  ASSUME NEW q, NEW ch, NEW F, NEW G, ~Has(q, On(F)), ~Has(ch, F)
  PROVE  Led(q, ch, F, G)
  BY NoneLed DEF Led

LEMMA DialApproval ==
  ASSUME IInv, KInv, AInv, NEW b \in Link, NEW q \in Node, NEW r \in Node, Dial(b, q, r)
  PROVE  AInv'
  <1>1. /\ link[b] = NoLink /\ q # r
        /\ link' = [link EXCEPT ![b] = [from |-> q, to |-> r]]
        /\ sock' = [sock EXCEPT ![b][q] = "connecting"]
        /\ agreed' = [agreed EXCEPT ![q] = @ \union {DialName[r]}]
        /\ left' = [left EXCEPT !.dial[q] = @ - 1]
        /\ UNCHANGED <<up, chan, pend, conns, queue>>
    BY DEF Dial, FirstFree, tableVars, loopVars
  <1>2. DialName' = DialName
    <2>1. left \in Budget
      BY DEF IInv, ShapeOK
    <2>2. left' = [left EXCEPT !.dial = [left.dial EXCEPT ![q] = left.dial[q] - 1]]
      BY <1>1, <2>1
    <2>3. left'.manual = left.manual
      BY <2>1, <2>2 DEF Budget
    <2>4. QED
      BY <2>3 DEF DialName
  <1>3. /\ link'[b] = [from |-> q, to |-> r]
        /\ \A d \in Link : d # b => link'[d] = link[d] /\ sock'[d] = sock[d]
    BY <1>1 DEF IInv, LinkOK, ShapeOK
  <1>4. World
    BY <1>1, <1>2, <1>3 DEF World, IInv, ShapeOK
  <1>5. IncomingOK'
    BY <1>1 DEF AInv, IncomingOK
  <1>6. WayOK'
    <2>1. \A d \in Link, n \in Node : chan'[d][n] \in Seq(OwnChallenges(d))
      BY <1>1 DEF AInv, WayOK
    <2>2. \A n \in Node, x \in Name : queue'[n][x] \in Seq(FromLink(n, x)')
      BY <1>1, <1>4, QueueWayStays DEF AInv, QueueMoves
    <2>3. QED
      BY <2>1, <2>2 DEF WayOK
  <1>7. ASSUME NEW n \in Node, NEW p \in Node, Sole(b, n, p)'
        PROVE  Told(b, n, p)'
    <2>1. PICK x : x = DialName[p]
      OBVIOUS
    <2>2. n = q /\ p = r /\ ~OtherLink(b, n, x)' /\ x \in Name /\ n \in Name
      <3>1. n = q /\ p = r
        BY <1>3, <1>7 DEF Sole
      <3>2. ~OtherLink(b, n, x)'
        BY <1>2, <1>7, <2>1 DEF Sole
      <3>3. QED
        BY <2>1, <3>1, <3>2, DialNames, SessionAssumption DEF IInv
    <2>3. \A y : ~Belongs(b, n, y) /\ ~Belongs(b, p, y)
      BY <1>1 DEF Belongs
    <2>4. \A d \in Link : ~Belongs(d, n, x)
      <3> SUFFICES ASSUME NEW d \in Link, Belongs(d, n, x)
                   PROVE  FALSE
        OBVIOUS
      <3>1. Belongs(d, n, x)' /\ d # b
        BY <1>4, <2>3, BelongsStays
      <3>2. QED
        BY <2>2, <3>1 DEF OtherLink, Belongs
    <2>5. Led(queue[n][x], chan[b][n], Approvals, Proofs(b))
      <3>1. ~Has(queue[n][x], On(Approvals))
        <4>1. PICK s : s = queue[n][x]
          OBVIOUS
        <4>2. s \in Seq(FromLink(n, x))
          BY <2>2, <4>1 DEF AInv, WayOK
        <4>3. \A i \in DOMAIN s : s[i] \in FromLink(n, x)
          BY <4>2
        <4>4. DOMAIN s = {}
          BY <2>4, <4>3 DEF FromLink
        <4>5. QED
          BY <4>1, <4>4 DEF Has
      <3>2. ~Has(chan[b][n], Approvals)
        <4>1. PICK s : s = chan[b][n]
          OBVIOUS
        <4>2. s \in Seq(OnWire[b][n])
          BY <4>1 DEF IInv, ChanOK
        <4>3. \A i \in DOMAIN s : s[i] \in OnWire[b][n]
          BY <4>2
        <4>4. \A m \in OnWire[b][n] : m \notin Approvals
          BY <1>1 DEF OnWire, Approvals
        <4>5. QED
          BY <4>1, <4>3, <4>4 DEF Has
      <3>3. QED
        BY <3>1, <3>2, NoneOrdered
    <2>6. DiallerOK(b, n, x)'
      BY <1>1, <2>5 DEF DiallerOK, Ordered
    <2>7. ~Holds(b, p, n)'
      BY <1>1, <2>2, <2>3, EntriesBelong DEF Holds
    <2>8. OwnWay(b, p)'
      BY <1>1, <2>3, NoProofs DEF OwnWay
    <2>9. ListenerOK(b, n, x, p)'
      BY <2>7 DEF ListenerOK
    <2>10. DialName'[p] = x
      BY <1>2, <2>1
    <2>11. QED
      BY <2>6, <2>8, <2>9, <2>10 DEF Told
  <1>8. ASSUME NEW c \in Link, c # b, NEW n \in Node, NEW p \in Node, Sole(c, n, p)'
        PROVE  Told(c, n, p)'
    <2>1. link[c] # NoLink
      BY <1>3, <1>8, SessionAssumption DEF Sole, NoLink
    <2>2. Sole(c, n, p)
      BY <1>4, <1>8, <2>1, SoleBefore
    <2>3. Told(c, n, p)
      BY <2>2 DEF AInv, ToldOK
    <2>4. PICK x : x = DialName[p]
      OBVIOUS
    <2>5. DiallerSteady(c, n, x) /\ ListenerSteady(c, n, p)
      BY <1>1, <1>3, <1>8 DEF DiallerSteady, ListenerSteady, Awaits, Holds, Begun, Ordered, Coming
    <2>6. OwnWay(c, p)'
      BY <1>1, <2>3 DEF Told, OwnWay
    <2>7. QED
      BY <1>4, <2>3, <2>4, <2>5, <2>6, ToldStays
  <1>9. QED
    BY <1>5, <1>6, <1>7, <1>8 DEF AInv, ToldOK

\* A new pending connection, and its challenge.
LEMMA AwaitedApproval ==
  ASSUME IInv, KInv, AInv, World, UNCHANGED <<link, up, queue>>,
         NEW b, NEW q \in Node, NEW z \in Name, Belongs(b, q, z),
         ~Begun(b, q), sock'[b][q] = "open", AwaitProof(b, q, z),
         \A d \in Link, m \in Node : d # b \/ m # q => (Begun(d, m)' <=> Begun(d, m)),
         \A m \in Node, y \in Name : conns'[m][y] \in {conns[m][y], None},
         link[b].from # q => conns'[q][z] = None /\ ~Begun(b, Other(b, q)),
         link[b].from = q => up[b] /\ sock[b][Other(b, q)] # "closed"
  PROVE  AInv'
  <1>1. PICK o : o = Other(b, q)
    OBVIOUS
  <1>2. b \in Link /\ b # 0 /\ o \in Node /\ o # q
    BY <1>1, EndsOfLink
  <1>3. /\ pend'[q][z].sock = b /\ ~pend'[q][z].verified
        /\ pend'[q][z].outgoing = (link[b].from = q)
        /\ \A m \in Node, y \in Name : m # q \/ y # z => pend'[m][y] = pend[m][y]
    <2>1. pend \in [Node -> [Name -> Pending \union {None}]]
      BY DEF IInv, EntriesOK
    <2>2. PICK v : v = Fresh(b, link[b].from = q)
      OBVIOUS
    <2>3. pend' = [pend EXCEPT ![q][z] = v]
      BY <2>2 DEF AwaitProof
    <2>4. /\ pend'[q][z] = v
          /\ \A m \in Node, y \in Name : m # q \/ y # z => pend'[m][y] = pend[m][y]
      BY <2>1, <2>3
    <2>5. v.sock = b /\ ~v.verified /\ v.outgoing = (link[b].from = q)
      BY <2>2 DEF Fresh
    <2>6. QED
      BY <2>4, <2>5
  <1>4. PICK r : r = Challenge(b)
    OBVIOUS
  <1>5. r \in Challenges(b) /\ <<r>> \in Seq(Challenges(b)) /\ Challenges(b) \subseteq Msg
    <2>1. b \in 0..MaxDials
      BY <1>2, SessionAssumption DEF Link
    <2>2. r \in Challenges(b)
      BY <1>4, <2>1 DEF Challenge, Challenges, Msg, MsgType
    <2>3. QED
      BY <2>2, One DEF Challenges
  <1>6. chan' = Sent(chan, b, q, <<r>>)
    BY <1>4 DEF AwaitProof
  <1>7. /\ Posted(b, q, Challenges(b))
        /\ up[b] /\ sock[b][o] # "closed" => chan'[b][o] = chan[b][o] \o <<r>>
    <2>1. PICK ms, S : ms = <<r>> /\ S = Challenges(b)
      OBVIOUS
    <2>2. S \subseteq Msg /\ ms \in Seq(S) /\ chan' = Sent(chan, b, q, ms)
      BY <1>5, <1>6, <2>1
    <2>3. /\ Posted(b, q, S)
          /\ b # 0 /\ up[b] /\ sock[b][Other(b, q)] # "closed"
                 => chan'[b][Other(b, q)] = chan[b][Other(b, q)] \o ms
      BY <2>2, SentPosted
    <2>4. QED
      BY <1>1, <1>2, <2>1, <2>3
  <1>8. \A d \in Link, m \in Node : /\ Grown(d, m, Challenges(b))
                                    /\ d # b \/ m # o => chan'[d][m] = chan[d][m]
    BY <1>1, <1>7, PostedGrown DEF Posted
  <1>9. IncomingOK'
    <2> SUFFICES ASSUME NEW m \in Node, NEW y \in Name, pend'[m][y] # None, ~pend'[m][y].outgoing
                 PROVE  conns'[m][y] = None
      BY DEF IncomingOK
    <2>1. CASE m = q /\ y = z
      BY <1>3, <2>1
    <2>2. CASE m # q \/ y # z
      <3>1. pend[m][y] # None /\ ~pend[m][y].outgoing
        BY <1>3, <2>2
      <3>2. conns[m][y] = None
        BY <3>1 DEF AInv, IncomingOK
      <3>3. QED
        BY <3>2
    <2>3. QED
      BY <2>1, <2>2
  <1>10. WayOK'
    <2>1. ASSUME NEW d \in Link, NEW n \in Node
          PROVE  chan'[d][n] \in Seq(OwnChallenges(d))
      <3>1. CASE d = b
        <4>1. Challenges(b) \subseteq OwnChallenges(d)
          BY <3>1 DEF Challenges, OwnChallenges
        <4>2. Grown(d, n, OwnChallenges(d))
          BY <1>8, <4>1, SeqMonotonic DEF Grown
        <4>3. QED
          BY <4>2, ChanWayStays DEF AInv
      <3>2. CASE d # b
        BY <1>8, <3>2 DEF AInv, WayOK
      <3>3. QED
        BY <3>1, <3>2
    <2>2. \A n \in Node, x \in Name : queue'[n][x] \in Seq(FromLink(n, x)')
      BY QueueWayStays DEF AInv, QueueMoves
    <2>3. QED
      BY <2>1, <2>2 DEF WayOK
  <1>11. \A G : \A m \in Node, y \in Name : QueueMoves(m, y, G)
    BY DEF QueueMoves
  <1>12. ASSUME NEW c \in Link, NEW n \in Node, NEW p \in Node, Sole(c, n, p)'
         PROVE  Told(c, n, p)'
    <2>1. link[c] # NoLink
      BY <1>12, SessionAssumption DEF Sole, NoLink
    <2>2. Sole(c, n, p)
      BY <1>12, <2>1, SoleBefore
    <2>3. Told(c, n, p)
      BY <2>2 DEF AInv, ToldOK
    <2>4. PICK x : x = DialName[p]
      OBVIOUS
    <2>5. /\ x \in Name /\ n \in Name /\ Belongs(c, n, x) /\ Belongs(c, p, n) /\ n # p
          /\ Other(c, n) = p /\ Other(c, p) = n /\ link[c].from = n
          /\ \A d : Belongs(d, n, x) => d = c
      BY <2>2, <2>4, SoleLink
    <2>6. OwnWay(c, p) /\ DiallerOK(c, n, x) /\ ListenerOK(c, n, x, p)
      BY <2>3, <2>4 DEF Told
    <2>7. OwnWay(c, p)'
      <3>1. Challenges(b) \intersect Proofs(c) = {}
        BY DEF Challenges, Proofs
      <3>2. PICK S : S = Challenges(b)
        OBVIOUS
      <3>3. /\ S \subseteq Msg /\ OwnWay(c, p)
            /\ \A d \in Link : Grown(d, p, S) /\ S \intersect Proofs(c) = {}
        BY <1>5, <1>8, <2>6, <3>1, <3>2
      <3>4. QED
        BY <3>3, OwnWayStays
    <2>8. Challenges(b) \intersect Approvals = {} /\ Challenges(b) \intersect Proofs(c) = {}
      BY DEF Challenges, Approvals, Proofs
    <2>9. CASE c # b
      <3>1. q # n \/ z # x
        BY <2>5, <2>9
      <3>2. DiallerSteady(c, n, x)
        <4>1. Awaits(c, n, x)' => Awaits(c, n, x)
          BY <1>3, <2>5, <3>1 DEF Awaits, Holds
        <4>2. Begun(c, n)' <=> Begun(c, n)
          BY <2>9
        <4>3. QED
          BY <1>5, <1>8, <1>11, <2>5, <2>8, <4>1, <4>2, DiallerMoves
      <3>3. ListenerSteady(c, n, p)
        <4>1. Holds(c, p, n)' => Holds(c, p, n) /\ pend'[p][n] = pend[p][n]
          BY <1>3, <2>5, <2>9 DEF Holds
        <4>2. QED
          BY <1>5, <1>8, <1>11, <2>5, <2>8, <4>1, ListenerMoves
      <3>4. QED
        BY <2>3, <2>4, <2>7, <3>2, <3>3, ToldStays
    <2>10. CASE c = b /\ q = p
      <3>1. z = n /\ o = n /\ ~Begun(c, n) /\ link[b].from # q
        BY <1>1, <2>5, <2>10 DEF Belongs
      <3>2. DiallerSteady(c, n, x)
        <4>1. Awaits(c, n, x)' => Awaits(c, n, x)
          BY <1>3, <2>5, <2>10 DEF Awaits, Holds
        <4>2. Begun(c, n)' <=> Begun(c, n)
          BY <2>5, <2>10
        <4>3. QED
          BY <1>5, <1>8, <1>11, <2>5, <2>8, <4>1, <4>2, DiallerMoves
      <3>3. DiallerOK(c, n, x)' /\ ~Begun(c, n)'
        BY <2>6, <3>1, <3>2, DiallerStays DEF DiallerSteady
      <3>4. Led(queue[p][n], chan[c][p], Proofs(c), Challenges(c))
        BY <2>5, <2>10, NoProofs, NoneOrdered
      <3>5. queue'[p][n] = queue[p][n] /\ chan'[c][p] = chan[c][p]
        BY <1>8, <2>5, <3>1
      <3>6. Ordered(c, p, n, Proofs(c), Challenges(c))'
        BY <3>4, <3>5 DEF Ordered
      <3>7. ListenerOK(c, n, x, p)'
        BY <1>3, <2>10, <3>1, <3>3, <3>6 DEF ListenerOK
      <3>8. DialName'[p] = x
        BY <2>4 DEF World
      <3>9. QED
        BY <2>7, <3>3, <3>7, <3>8 DEF Told
    <2>11. CASE c = b /\ q = n
      <3>1. z = x /\ o = p /\ link[b].from = q
        BY <1>1, <2>5, <2>11 DEF Belongs
      <3>2. chan'[c][n] = chan[c][n] /\ queue'[n][x] = queue[n][x]
        BY <1>8, <2>5, <2>11, <3>1
      <3>3. Ordered(c, n, x, Approvals, Proofs(c))'
        BY <2>6, <2>11, <3>2 DEF DiallerOK, Ordered
      <3>4. DiallerOK(c, n, x)'
        BY <3>3 DEF DiallerOK
      <3>5. ASSUME Holds(c, p, n)'
            PROVE  /\ ~pend'[p][n].verified
                   /\ Ordered(c, p, n, Proofs(c), Challenges(c))'
                   /\ Coming(c, p, n, Challenges(c))'
        <4>1. pend'[p][n] = pend[p][n]
          BY <1>3, <2>5, <2>11
        <4>2. Holds(c, p, n) /\ ~Given(c, n, x)
          BY <2>11, <3>5, <4>1 DEF Holds, Given
        <4>3. ~pend[p][n].verified /\ Ordered(c, p, n, Proofs(c), Challenges(c))
          BY <2>6, <4>2 DEF ListenerOK
        <4>4. Ordered(c, p, n, Proofs(c), Challenges(c))'
          BY <1>5, <1>8, <1>11, <2>5, <2>8, <4>3, StreamStays
        <4>5. Has(chan'[c][p], Challenges(c))
          <5>1. PICK s, t : s = chan[c][p] /\ t = <<r>>
            OBVIOUS
          <5>2. chan'[c][p] = s \o t /\ s \in Seq(Msg) /\ t \in Seq(Msg)
            BY <1>5, <1>7, <2>5, <2>11, <3>1, <5>1, One DEF IInv, ChanOK, Challenges
          <5>3. DOMAIN t = {1} /\ t[1] = r
            BY <5>1
          <5>4. Has(t, Challenges(c))
            BY <1>5, <2>11, <5>3 DEF Has
          <5>5. QED
            BY <5>2, <5>4, HasConcat
        <4>6. QED
          BY <4>1, <4>3, <4>4, <4>5 DEF Coming, Comes
      <3>6. ListenerOK(c, n, x, p)'
        BY <3>5 DEF ListenerOK
      <3>7. DialName'[p] = x
        BY <2>4 DEF World
      <3>8. QED
        BY <2>7, <3>4, <3>6, <3>7 DEF Told
    <2>12. QED
      BY <2>5, <2>9, <2>10, <2>11 DEF Belongs, Ends
  <1>13. QED
    BY <1>9, <1>10, <1>12 DEF AInv, ToldOK

LEMMA AcceptApproval ==
  ASSUME IInv, KInv, AInv, NEW b \in Link, Accept(b)
  PROVE  AInv'
  <1>1. PICK q, z : q = link[b].to /\ z = link[b].from
    OBVIOUS
  <1>2. link[b] # NoLink /\ link[b] \in [from : Node, to : Node] /\ q # z
    BY <1>1 DEF Accept, IInv, LinkOK
  <1>3. q \in Node /\ z \in Name /\ z \in Node
    BY <1>1, <1>2, SessionAssumption
  <1>4. Belongs(b, q, z) /\ Other(b, q) = z /\ link[b].from # q
    BY <1>1, <1>2 DEF Belongs, Ends, NameAt, Other
  <1>5. /\ sock[b][q] = "none" /\ sock[b][z] = "connecting"
        /\ sock' = [d \in Link |->
               IF d = b THEN [sock[b] EXCEPT ![q] = "open"]
               ELSE IF conns[q][z] # None /\ d = conns[q][z].sock
               THEN [sock[d] EXCEPT ![q] = IF @ = "open" THEN "closing" ELSE @]
               ELSE sock[d]]
        /\ DropConnection(q, z) /\ AwaitProof(b, q, z)
        /\ UNCHANGED <<link, up, queue, agreed, left>>
    BY <1>1 DEF Accept, loopVars
  <1>6. World
    BY <1>5, WorldStays
  <1>7. \A d \in Link : sock[d] \in [Node -> EndState]
    BY DEF IInv, ShapeOK
  <1>8. sock'[b][q] = "open" /\ ~Begun(b, q) /\ ~Begun(b, z)
    BY <1>3, <1>5, <1>7 DEF Begun
  <1>9. ASSUME NEW d \in Link, NEW m \in Node, d # b \/ m # q
        PROVE  Begun(d, m)' <=> Begun(d, m)
    <2>1. CASE d = b
      BY <1>3, <1>5, <1>7, <1>9, <2>1 DEF Begun
    <2>2. CASE d # b /\ conns[q][z] # None /\ d = conns[q][z].sock
      <3>1. sock' = [e \in Link |->
               IF e = b THEN [sock[b] EXCEPT ![q] = "open"]
               ELSE IF conns[q][z] # None /\ e = conns[q][z].sock
               THEN [sock[e] EXCEPT ![q] = IF @ = "open" THEN "closing" ELSE @]
               ELSE sock[e]]
        BY <1>5
      <3>2. sock'[d] = [sock[d] EXCEPT ![q] = IF @ = "open" THEN "closing" ELSE @]
        BY <2>2, <3>1
      <3>3. sock'[d][m] = sock[d][m] \/ (sock[d][m] = "open" /\ sock'[d][m] = "closing")
        BY <1>3, <1>7, <3>2
      <3>4. QED
        BY <3>3 DEF Begun
    <2>3. CASE d # b /\ ~(conns[q][z] # None /\ d = conns[q][z].sock)
      BY <1>5, <2>3 DEF Begun
    <2>4. QED
      BY <2>1, <2>2, <2>3
  <1>10. /\ \A m \in Node, y \in Name : conns'[m][y] \in {conns[m][y], None}
         /\ conns'[q][z] = None
    BY <1>3, <1>5, ConnectionDropped, DropShape
  <1>11. QED
    BY <1>3, <1>4, <1>5, <1>6, <1>8, <1>9, <1>10, AwaitedApproval

LEMMA OpenApproval ==
  ASSUME IInv, KInv, AInv, NEW b \in Link, Open(b)
  PROVE  AInv'
  <1>1. PICK q, z, r : q = link[b].from /\ z = DialName[link[b].to] /\ r = link[b].to
    OBVIOUS
  <1>2. link[b] # NoLink /\ link[b] \in [from : Node, to : Node]
    BY DEF Open, IInv, LinkOK
  <1>3. q \in Node /\ z \in Name
    BY <1>1, <1>2, DialNames DEF IInv
  <1>4. Belongs(b, q, z) /\ Other(b, q) = r /\ link[b].from = q
    BY <1>1, <1>2 DEF Belongs, Ends, NameAt, Other
  <1>5. /\ sock[b][q] = "connecting" /\ sock[b][r] \in {"open", "closing"} /\ up[b]
        /\ sock' = [sock EXCEPT ![b][q] = "open"]
        /\ AwaitProof(b, q, z)
        /\ UNCHANGED <<link, up, conns, queue, left, agreed>>
    BY <1>1 DEF Open, loopVars
  <1>6. World
    BY <1>5, WorldStays
  <1>7. /\ sock'[b][q] = "open"
        /\ \A d \in Link, m \in Node : d # b \/ m # q => sock'[d][m] = sock[d][m]
    BY <1>3, <1>5 DEF IInv, ShapeOK
  <1>8. ~Begun(b, q) /\ \A d \in Link, m \in Node : d # b \/ m # q => (Begun(d, m)' <=> Begun(d, m))
    BY <1>5, <1>7 DEF Begun
  <1>9. \A m \in Node, y \in Name : conns'[m][y] \in {conns[m][y], None}
    BY <1>5
  <1>10. QED
    BY <1>3, <1>4, <1>5, <1>6, <1>7, <1>8, <1>9, AwaitedApproval

------------------------------------------------------------------------------
(* Challenges, proofs and approvals *)

\* A step that changes no link and no end, and sends messages of S on o.
Talk(o, q, S) ==
    /\ World /\ UNCHANGED <<link, up, sock>>
    /\ S \subseteq Msg /\ Posted(o, q, S)

LEMMA TalkWay ==
  ASSUME IInv, AInv, NEW o, NEW q, NEW S, Talk(o, q, S),
         \A d \in Link : S \subseteq OwnChallenges(d),
         \A m \in Node, y \in Name : queue'[m][y] = queue[m][y]
             \/ (queue[m][y] # <<>> /\ queue'[m][y] = Tail(queue[m][y]))
  PROVE  WayOK'
  <1>1. World /\ Posted(o, q, S)
    BY DEF Talk
  <1>2. ASSUME NEW d \in Link, NEW n \in Node
        PROVE  chan'[d][n] \in Seq(OwnChallenges(d))
    <2>1. Grown(d, n, S)
      BY <1>1, PostedGrown
    <2>2. Grown(d, n, OwnChallenges(d))
      BY <2>1, SeqMonotonic DEF Grown
    <2>3. QED
      BY <2>2, ChanWayStays DEF AInv
  <1>3. ASSUME NEW n \in Node, NEW x \in Name
        PROVE  queue'[n][x] \in Seq(FromLink(n, x)')
    <2>1. QueueMoves(n, x, {})
      BY DEF QueueMoves
    <2>2. QED
      BY <1>1, <2>1, QueueWayStays DEF AInv
  <1>4. QED
    BY <1>2, <1>3 DEF WayOK

LEMMA ChallengeApproval ==
  ASSUME IInv, KInv, AInv, NEW q \in Node, NEW z \in Name, HandleChallenge(q, z)
  PROVE  AInv'
  <1>1. /\ Turn(q, z, "identity_challenge") /\ Done(q, z) /\ World
        /\ UNCHANGED <<link, up, sock, pend, conns>>
    BY WorldStays DEF HandleChallenge, tableVars
  <1>2. PICK k : k = Received(q, z).msg.nonce
    OBVIOUS
  <1>3. PICK r : r = Proof(k, key[q])
    OBVIOUS
  <1>4. Received(q, z) \in Entry /\ Received(q, z).msg \in Msg
        /\ Received(q, z).msg.type = "identity_challenge"
    BY <1>1, HeadOf
  <1>5. r \in Proofs(k) /\ <<r>> \in Seq(Proofs(k)) /\ Proofs(k) \subseteq Msg
    <2>1. k \in 0..MaxDials /\ key[q] \in Key
      BY <1>2, <1>4 DEF Msg, IInv, ShapeOK
    <2>2. r \in Proofs(k)
      BY <1>3, <2>1 DEF Proof, Proofs, Msg, MsgType
    <2>3. QED
      BY <2>2, One DEF Proofs
  <1>6. Belongs(k, q, z)
    <2>1. queue[q][z] \in Seq(FromLink(q, z)) /\ queue[q][z] # <<>>
      BY <1>1 DEF AInv, WayOK, Turn
    <2>2. Received(q, z) \in FromLink(q, z)
      BY <2>1, HeadTailProperties DEF Received
    <2>3. QED
      BY <1>2, <1>4, <2>2 DEF FromLink
  <1>7. \E y \in Name, m \in Node : Belongs(k, m, y) /\ Other(k, m) = q /\ Begun(k, m)
    <2>1. Received(q, z) \in KeyQueue[q][z]
      BY <1>1, KeyHead
    <2>2. QED
      BY <1>2, <1>4, <2>1 DEF KeyQueue, ChallengeOK
  <1>8. PICK o : o = OutLink(q, conns[q][z], pend[q][z])
    OBVIOUS
  <1>9. o = 0 \/ (Belongs(o, q, z) /\ sock[o][q] = "open")
    BY <1>8, EntriesBelong, OutBelongs, OutOpen
  <1>10. chan' = Sent(chan, o, q, <<r>>)
    BY <1>2, <1>3, <1>8 DEF HandleChallenge, SendToPeer
  <1>11. /\ Posted(o, q, Proofs(k))
         /\ o # 0 /\ up[o] /\ sock[o][Other(o, q)] # "closed"
                => chan'[o][Other(o, q)] = chan[o][Other(o, q)] \o <<r>>
    <2>1. PICK ms, S : ms = <<r>> /\ S = Proofs(k)
      OBVIOUS
    <2>2. S \subseteq Msg /\ ms \in Seq(S) /\ chan' = Sent(chan, o, q, ms)
      BY <1>5, <1>10, <2>1
    <2>3. /\ Posted(o, q, S)
          /\ o # 0 /\ up[o] /\ sock[o][Other(o, q)] # "closed"
                 => chan'[o][Other(o, q)] = chan[o][Other(o, q)] \o ms
      BY <1>9, <2>2, SentPosted
    <2>4. QED
      BY <2>1, <2>3
  <1>12. /\ queue[q][z] # <<>> /\ Head(queue[q][z]) = Received(q, z)
         /\ queue'[q][z] = Tail(queue[q][z])
         /\ \A m \in Node, y \in Name : m # q \/ y # z => queue'[m][y] = queue[m][y]
    BY <1>1, DoneMoves
  <1>13. \A d \in Link, m \in Node : Grown(d, m, Proofs(k))
    BY <1>11, PostedGrown
  <1>14. IncomingOK'
    BY <1>1 DEF AInv, IncomingOK
  <1>15. WayOK'
    <2>1. PICK S : S = Proofs(k)
      OBVIOUS
    <2>2. Talk(o, q, S)
      BY <1>1, <1>5, <1>11, <2>1 DEF Talk
    <2>3. \A d \in Link : S \subseteq OwnChallenges(d)
      BY <2>1 DEF Proofs, OwnChallenges
    <2>4. QED
      BY <1>12, <2>2, <2>3, TalkWay
  <1>16. ASSUME NEW c \in Link, NEW n \in Node, NEW p \in Node, Sole(c, n, p)'
         PROVE  Told(c, n, p)'
    <2>1. link[c] # NoLink
      BY <1>1, <1>16, SessionAssumption DEF Sole, NoLink
    <2>2. Sole(c, n, p)
      BY <1>1, <1>16, <2>1, SoleBefore
    <2>3. Told(c, n, p)
      BY <2>2 DEF AInv, ToldOK
    <2>4. PICK x : x = DialName[p]
      OBVIOUS
    <2>5. /\ x \in Name /\ n \in Name /\ Belongs(c, n, x) /\ Belongs(c, p, n) /\ n # p
          /\ Other(c, n) = p /\ Other(c, p) = n /\ link[c].from = n
          /\ \A d : Belongs(d, n, x) => d = c
      BY <2>2, <2>4, SoleLink
    <2>6. OwnWay(c, p) /\ DiallerOK(c, n, x) /\ ListenerOK(c, n, x, p)
      BY <2>3, <2>4 DEF Told
    <2>7. OwnWay(c, p)'
      <3>1. CASE k # c
        <4>1. Proofs(k) \intersect Proofs(c) = {}
          BY <3>1 DEF Proofs
        <4>2. PICK S : S = Proofs(k)
          OBVIOUS
        <4>3. /\ S \subseteq Msg /\ OwnWay(c, p)
              /\ \A d \in Link : Grown(d, p, S) /\ S \intersect Proofs(c) = {}
          BY <1>5, <1>13, <2>6, <4>1, <4>2
        <4>4. QED
          BY <4>3, OwnWayStays
      <3>2. CASE k = c
        <4>1. ASSUME NEW d \in Link, d # c
              PROVE  chan'[d][p] = chan[d][p]
          <5>1. SUFFICES ASSUME d = o, p = Other(o, q)
                         PROVE  FALSE
            BY <1>11 DEF Posted
          <5>2. Belongs(o, q, z) /\ q # p
            BY <1>9, <5>1, EndsOfLink, SessionAssumption DEF Link
          <5>3. q = n /\ z = x
            BY <1>6, <2>5, <3>2, <5>2 DEF Belongs, Ends, Other
          <5>4. QED
            BY <2>5, <4>1, <5>1, <5>2, <5>3
        <4>2. PICK S : S = {}
          OBVIOUS
        <4>3. /\ S \subseteq Msg /\ OwnWay(c, p)
              /\ \A d \in Link : d # c => Grown(d, p, S) /\ S \intersect Proofs(c) = {}
          BY <2>6, <4>1, <4>2, GrownNone
        <4>4. QED
          BY <4>3, OwnWayStays
      <3>3. QED
        BY <3>1, <3>2
    <2>8. DiallerSteady(c, n, x)
      <3>1. Proofs(k) \intersect Approvals = {}
        BY DEF Proofs, Approvals
      <3>2. QueueMoves(n, x, Proofs(c))
        <4>1. Received(q, z).msg \notin Proofs(c)
          BY <1>4 DEF Proofs
        <4>2. QED
          BY <1>12, <2>5, <4>1 DEF QueueMoves
      <3>3. (Begun(c, n)' <=> Begun(c, n)) /\ (Awaits(c, n, x)' => Awaits(c, n, x)) /\ (up'[c] => up[c])
        BY <1>1 DEF Begun, Awaits, Holds
      <3>4. QED
        BY <1>5, <1>13, <2>5, <3>1, <3>2, <3>3, DiallerMoves
    <2>9. ListenerOK(c, n, x, p)'
      <3> SUFFICES ASSUME Holds(c, p, n)', ~Given(c, n, x)'
                   PROVE  /\ ~pend'[p][n].verified
                          /\ Ordered(c, p, n, Proofs(c), Challenges(c))'
                          /\ Begun(c, n)' => Coming(c, p, n, Challenges(c))'
        BY DEF ListenerOK
      <3>1. Holds(c, p, n) /\ ~Given(c, n, x)
        BY <1>1, <2>8, DiallerStays DEF Holds
      <3>2. /\ ~pend[p][n].verified /\ Ordered(c, p, n, Proofs(c), Challenges(c))
            /\ Begun(c, n) => Coming(c, p, n, Challenges(c))
        BY <2>6, <3>1 DEF ListenerOK
      <3>3. ~(q = p /\ z = n /\ k = c)
        <4> SUFFICES ASSUME q = p, z = n, k = c
                     PROVE  Given(c, n, x)'
          OBVIOUS
        <4>1. pend[p][n] # None /\ pend[p][n].sock = c
          BY <3>1 DEF Holds
        <4>2. ~pend[p][n].outgoing /\ sock[c][p] = "open"
          BY <2>5, <4>1 DEF IInv, EntriesOK, PendEntry
        <4>3. conns[p][n] = None
          BY <2>5, <4>1, <4>2 DEF AInv, IncomingOK
        <4>4. o = c /\ Other(o, q) = n /\ o # 0
          BY <1>8, <2>5, <4>1, <4>2, <4>3, SessionAssumption DEF OutLink, Link
        <4>5. Begun(c, n)
          <5>1. PICK y \in Name, m \in Node : Belongs(c, m, y) /\ Other(c, m) = p /\ Begun(c, m)
            BY <1>7
          <5>2. m = n
            BY <2>5, <5>1 DEF Belongs, Ends, Other
          <5>3. QED
            BY <5>1, <5>2
        <4>6. ASSUME Awaits(c, n, x)', up'[c]
              PROVE  Has(chan'[c][n], Proofs(c))
          <5>1. pend[n][x] # None /\ pend[n][x].sock = c /\ up[c]
            BY <1>1, <4>6 DEF Awaits, Holds
          <5>2. sock[c][n] = "open"
            BY <2>5, <5>1 DEF IInv, EntriesOK, PendEntry
          <5>3. PICK s, t : s = chan[c][n] /\ t = <<r>>
            OBVIOUS
          <5>4. chan'[c][n] = s \o t
            BY <1>11, <4>4, <5>1, <5>2, <5>3
          <5>5. s \in Seq(Msg) /\ t \in Seq(Msg)
            BY <1>5, <5>3, SeqMonotonic DEF IInv, ChanOK
          <5>6. DOMAIN t = {1} /\ t[1] = r
            BY <5>3
          <5>7. Has(t, Proofs(c))
            BY <1>5, <5>6 DEF Has
          <5>8. QED
            BY <5>4, <5>5, <5>7, HasConcat
        <4>7. Begun(c, n)'
          BY <1>1, <4>5 DEF Begun
        <4>8. QED
          BY <4>6, <4>7 DEF Given, Coming, Comes
      <3>4. QueueMoves(p, n, Challenges(c))
        <4>1. CASE q = p /\ z = n
          <5>1. Received(q, z).msg \notin Challenges(c)
            BY <1>2, <3>3, <4>1 DEF Challenges
          <5>2. QED
            BY <1>12, <4>1, <5>1 DEF QueueMoves
        <4>2. CASE q # p \/ z # n
          BY <1>12, <2>5, <4>2 DEF QueueMoves
        <4>3. QED
          BY <4>1, <4>2
      <3>5. PICK t \in Seq(Msg) : /\ chan'[c][p] = chan[c][p] \o t
                                  /\ ~Has(t, Proofs(c)) \/ Coming(c, p, n, Challenges(c))
        <4>1. PICK t \in Seq(Proofs(k)) : chan'[c][p] = chan[c][p] \o t
          BY <1>13 DEF Grown
        <4>2. t \in Seq(Msg)
          BY <1>5, <4>1, SeqMonotonic
        <4>3. CASE k # c
          <5>1. ~Has(t, Proofs(c))
            BY <4>1, <4>3 DEF Has, Proofs
          <5>2. QED
            BY <4>1, <4>2, <5>1
        <4>4. CASE k = c /\ chan'[c][p] = chan[c][p]
          <5>1. PICK e : e = <<>>
            OBVIOUS
          <5>2. e \in Seq(Msg) /\ ~Has(e, Proofs(c))
            BY <5>1 DEF Has
          <5>3. chan[c][p] \in Seq(Msg)
            BY DEF IInv, ChanOK
          <5>4. chan[c][p] = chan[c][p] \o e
            BY <5>1, <5>3
          <5>5. QED
            BY <4>4, <5>2, <5>4
        <4>5. CASE k = c /\ chan'[c][p] # chan[c][p]
          <5>1. c = o /\ p = Other(o, q)
            BY <1>11, <4>5 DEF Posted
          <5>2. q = n /\ sock[c][q] = "open"
            BY <1>6, <1>9, <2>5, <4>5, <5>1, SessionAssumption DEF Belongs, Ends, Link
          <5>3. Coming(c, p, n, Challenges(c))
            BY <3>2, <5>2 DEF Begun
          <5>4. QED
            BY <4>1, <4>2, <5>3
        <4>6. QED
          BY <4>3, <4>4, <4>5
      <3>6. PICK s, ch, s2, ch2 : /\ s = queue[p][n] /\ ch = chan[c][p]
                                  /\ s2 = queue'[p][n] /\ ch2 = chan'[c][p]
        OBVIOUS
      <3>7. /\ s \in Seq(Entry) /\ ch \in Seq(Msg) /\ ch2 = ch \o t
            /\ s2 = s \/ (s # <<>> /\ Head(s).msg \notin Challenges(c) /\ s2 = Tail(s))
            /\ ~Has(t, Proofs(c)) \/ Comes(s, ch, Challenges(c))
        <4>1. s \in Seq(Entry) /\ ch \in Seq(Msg)
          BY <2>5, <3>6 DEF IInv, QueueOK, ChanOK
        <4>2. ch2 = ch \o t /\ (~Has(t, Proofs(c)) \/ Comes(s, ch, Challenges(c)))
          <5>1. Coming(c, p, n, Challenges(c)) => Comes(s, ch, Challenges(c))
            BY <3>6 DEF Coming
          <5>2. chan'[c][p] = chan[c][p] \o t
            BY <3>5
          <5>3. ch2 = ch \o t
            BY <3>6, <5>2
          <5>4. QED
            BY <3>5, <5>1, <5>3
        <4>3. s2 = s \/ (s # <<>> /\ Head(s).msg \notin Challenges(c) /\ s2 = Tail(s))
          BY <3>4, <3>6 DEF QueueMoves
        <4>4. QED
          BY <4>1, <4>2, <4>3
      <3>8. /\ Comes(s, ch, Challenges(c)) => Comes(s2, ch2, Challenges(c))
            /\ Led(s, ch, Proofs(c), Challenges(c)) => Led(s2, ch2, Proofs(c), Challenges(c))
        BY <3>7, StreamSent
      <3>9. /\ Ordered(c, p, n, Proofs(c), Challenges(c))'
            /\ Begun(c, n)' => Coming(c, p, n, Challenges(c))'
        BY <1>1, <3>2, <3>6, <3>8 DEF Ordered, Coming, Begun
      <3>10. QED
        BY <1>1, <3>2, <3>9
    <2>10. DiallerOK(c, n, x)' /\ DialName'[p] = x
      BY <1>1, <2>4, <2>6, <2>8, DiallerStays DEF World
    <2>11. QED
      BY <2>7, <2>9, <2>10 DEF Told
  <1>17. QED
    BY <1>14, <1>15, <1>16 DEF AInv, ToldOK

\* What approves is sent to a dialler that has been given the proof.
LEMMA DiallerTold ==
  ASSUME IInv, NEW c \in Link, NEW n \in Node, NEW x \in Name, Given(c, n, x),
         UNCHANGED <<up, sock>>, queue'[n][x] = queue[n][x], pend'[n][x] = pend[n][x],
         up[c], Grown(c, n, Mute)
  PROVE  DiallerSteady(c, n, x)
  <1>1. PICK t \in Seq(Mute) : chan'[c][n] = chan[c][n] \o t
    BY DEF Grown
  <1>2. PICK s, ch, s2, ch2 : /\ s = queue[n][x] /\ ch = chan[c][n]
                              /\ s2 = queue'[n][x] /\ ch2 = chan'[c][n]
    OBVIOUS
  <1>3. s \in Seq(Entry) /\ ch \in Seq(Msg)
    BY <1>2 DEF IInv, QueueOK, ChanOK
  <1>4. t \in Seq(Msg) /\ ch2 = ch \o t /\ s2 = s
    <2>1. t \in Seq(Msg)
      BY Kinds, SeqMonotonic
    <2>2. QED
      BY <1>1, <1>2, <2>1
  <1>5. /\ Comes(s, ch, Proofs(c)) => Comes(s2, ch2, Proofs(c))
        /\ Comes(s, ch, Proofs(c)) /\ Led(s, ch, Approvals, Proofs(c))
               => Led(s2, ch2, Approvals, Proofs(c))
    BY <1>3, <1>4, StreamSent
  <1>6. /\ Begun(c, n) /\ (Begun(c, n)' <=> Begun(c, n)) /\ up'[c] = up[c]
        /\ Awaits(c, n, x)' <=> Awaits(c, n, x)
    BY DEF Given, Begun, Awaits, Holds
  <1>7. Awaits(c, n, x) => Comes(s, ch, Proofs(c))
    BY <1>2 DEF Given, Coming
  <1>8. Awaits(c, n, x)' =>
            /\ Ordered(c, n, x, Approvals, Proofs(c)) => Ordered(c, n, x, Approvals, Proofs(c))'
            /\ Coming(c, n, x, Proofs(c)) => Coming(c, n, x, Proofs(c))'
    BY <1>2, <1>5, <1>6, <1>7 DEF Ordered, Coming
  <1>9. QED
    BY <1>6, <1>8 DEF DiallerSteady

LEMMA MuteWay ==
  ASSUME IInv, NEW c \in Link, NEW p \in Node, OwnWay(c, p),
         \A d \in Link, m \in Node : Grown(d, m, Mute)
  PROVE  OwnWay(c, p)'
  <1>1. PICK S : S = Mute
    OBVIOUS
  <1>2. S \subseteq Msg /\ \A d \in Link : Grown(d, p, S) /\ S \intersect Proofs(c) = {}
    BY <1>1, Kinds
  <1>3. QED
    BY <1>2, OwnWayStays

LEMMA MuteTalk ==
  ASSUME IInv, AInv, World, UNCHANGED <<link, up, sock>>, NEW o, NEW q, Posted(o, q, Mute),
         \A m \in Node, y \in Name : queue'[m][y] = queue[m][y]
             \/ (queue[m][y] # <<>> /\ queue'[m][y] = Tail(queue[m][y]))
  PROVE  WayOK'
  <1>1. PICK S : S = Mute
    OBVIOUS
  <1>2. S \subseteq Msg /\ \A d \in Link : S \subseteq OwnChallenges(d)
    BY <1>1, Kinds
  <1>3. Talk(o, q, S)
    BY <1>1, <1>2 DEF Talk
  <1>4. QED
    BY <1>2, <1>3, TalkWay

\* If nothing is sent to the dialler.
LEMMA DiallerAlone ==
  ASSUME IInv, NEW c \in Link, NEW n \in Node, NEW x \in Name, UNCHANGED <<up, sock>>,
         chan'[c][n] = chan[c][n], Awaits(c, n, x)' => Awaits(c, n, x),
         QueueMoves(n, x, Proofs(c))
  PROVE  DiallerSteady(c, n, x)
  <1>1. PICK S : S = {}
    OBVIOUS
  <1>2. S \subseteq Msg /\ S \intersect Approvals = {} /\ Grown(c, n, S)
    BY <1>1, GrownNone
  <1>3. (Begun(c, n)' <=> Begun(c, n)) /\ (up'[c] => up[c])
    BY DEF Begun
  <1>4. QED
    BY <1>2, <1>3, DiallerMoves

LEMMA ApproveApproval ==
  ASSUME IInv, AInv, NEW q \in Node, NEW z \in Name, Approve(q, z)
  PROVE  AInv'
  <1>1. PICK s, k : s = pend[q][z].sock /\ k = pend[q][z].key
    OBVIOUS
  <1>2. /\ pend[q][z] # None /\ pend[q][z].verified /\ Promote(q, z, s, k)
        /\ chan' = Sent(chan, OutLink(q, conns'[q][z], None), q, <<Approval>> \o PeerState)
        /\ agreed' = [agreed EXCEPT ![q] = @ \union {z}]
        /\ UNCHANGED <<link, up, sock, queue, left>>
    BY <1>1 DEF Approve, Approvable, loopVars
  <1>3. World
    BY <1>2 DEF World, DialName, IInv, ShapeOK
  <1>4. Belongs(s, q, z)
    BY <1>1, <1>2, EntriesBelong
  <1>5. Posted(s, q, Mute)
    <2>1. PICK conn, ms : conn = conns'[q][z] /\ ms = <<Approval>> \o PeerState
      OBVIOUS
    <2>2. conn.sock = s /\ chan' = Sent(chan, OutLink(q, conn, None), q, ms)
      BY <1>2, <2>1, Promoted
    <2>3. ms \in Seq(Mute) /\ Mute \subseteq Msg
      BY <2>1, MuteMessages, Kinds
    <2>4. QED
      BY <1>4, <2>2, <2>3, JoinedPosted
  <1>6. \A d \in Link, m \in Node : Grown(d, m, Mute)
    BY <1>5, PostedGrown
  <1>7. /\ pend'[q][z] = None
        /\ \A m \in Node, y \in Name : m # q \/ y # z =>
               pend'[m][y] = pend[m][y] /\ conns'[m][y] = conns[m][y]
    BY <1>2, PromoteAlone
  <1>8. IncomingOK'
    BY <1>7 DEF AInv, IncomingOK
  <1>9. WayOK'
    BY <1>2, <1>3, <1>5, MuteTalk
  <1>10. ASSUME NEW c \in Link, NEW n \in Node, NEW p \in Node, Sole(c, n, p)'
         PROVE  Told(c, n, p)'
    <2>1. link[c] # NoLink
      BY <1>2, <1>10, SessionAssumption DEF Sole, NoLink
    <2>2. Sole(c, n, p)
      BY <1>3, <1>10, <2>1, SoleBefore
    <2>3. Told(c, n, p)
      BY <2>2 DEF AInv, ToldOK
    <2>4. PICK x : x = DialName[p]
      OBVIOUS
    <2>5. /\ x \in Name /\ n \in Name /\ Belongs(c, n, x) /\ Belongs(c, p, n) /\ n # p
          /\ Other(c, n) = p /\ Other(c, p) = n
      BY <2>2, <2>4, SoleLink
    <2>6. OwnWay(c, p) /\ ListenerOK(c, n, x, p)
      BY <2>3, <2>4 DEF Told
    <2>7. OwnWay(c, p)'
      BY <1>6, <2>6, MuteWay
    <2>8. /\ Awaits(c, n, x)' => Awaits(c, n, x)
          /\ Holds(c, p, n)' => Holds(c, p, n) /\ pend'[p][n] = pend[p][n]
      BY <1>7, <2>5 DEF Awaits, Holds
    <2>9. \A G : \A m \in Node, y \in Name : QueueMoves(m, y, G)
      BY <1>2 DEF QueueMoves
    <2>10. DiallerSteady(c, n, x)
      <3>1. CASE chan'[c][n] = chan[c][n]
        BY <1>2, <2>5, <2>8, <2>9, <3>1, DiallerAlone
      <3>2. CASE chan'[c][n] # chan[c][n]
        <4>1. c = s /\ n = Other(s, q) /\ up[c] /\ Grown(c, n, Mute)
          BY <1>5, <3>2 DEF Posted
        <4>2. q = p /\ z = n
          <5>1. q \in {n, p} /\ q # n
            BY <1>4, <2>5, <4>1, EndsOfLink DEF Belongs, Ends, Other
          <5>2. QED
            BY <1>4, <2>5, <4>1, <5>1 DEF Belongs
        <4>3. Given(c, n, x)
          BY <1>1, <1>2, <2>6, <4>1, <4>2 DEF ListenerOK, Holds
        <4>4. pend'[n][x] = pend[n][x]
          BY <1>7, <2>5, <4>2
        <4>5. QED
          BY <1>2, <2>5, <4>1, <4>3, <4>4, DiallerTold
      <3>3. QED
        BY <3>1, <3>2
    <2>11. ListenerSteady(c, n, p)
      BY <1>6, <2>5, <2>8, <2>9, Kinds, ListenerMoves
    <2>12. QED
      BY <1>3, <2>3, <2>4, <2>7, <2>10, <2>11, ToldStays
  <1>11. QED
    BY <1>8, <1>9, <1>10 DEF AInv, ToldOK

LEMMA SentTwice ==
  ASSUME IInv, NEW q \in Node, NEW y, NEW s, Belongs(s, q, y), NEW S, S \subseteq Msg,
         NEW a \in Seq(S), NEW b \in Seq(S), chan' = Sent(Sent(chan, s, q, a), s, q, b)
  PROVE  Posted(s, q, S)
  <1>1. PICK r \in Node : r = Other(s, q)
    BY EndsOfLink
  <1>2. s \in Link /\ s # 0 /\ chan \in [Link -> [Node -> Seq(Msg)]] /\ chan[s][r] \in Seq(Msg)
    <2>1. s \in Link /\ r \in Node
      BY <1>1, EndsOfLink
    <2>2. s # 0
      BY <2>1 DEF Link
    <2>3. chan \in [Link -> [Node -> Seq(Msg)]]
      BY DEF IInv, ChanOK
    <2>4. QED
      BY <2>1, <2>2, <2>3
  <1>3. CASE up[s] /\ sock[s][r] # "closed"
    <2>1. PICK g : g = Sent(chan, s, q, a)
      OBVIOUS
    <2>2. a \in Seq(Msg) /\ b \in Seq(Msg) /\ a \o b \in Seq(S)
      BY SeqMonotonic, ConcatProperties
    <2>3. g = [chan EXCEPT ![s][r] = chan[s][r] \o a]
      BY <1>1, <1>2, <1>3, <2>1 DEF Sent
    <2>4. chan[s][r] \o a \in Seq(Msg)
      BY <1>2, <2>2, ConcatProperties
    <2>5. /\ g \in [Link -> [Node -> Seq(Msg)]] /\ g[s][r] = chan[s][r] \o a
          /\ \A d \in Link, m \in Node : d # s \/ m # r => g[d][m] = chan[d][m]
      BY <1>2, <2>3, <2>4, Put
    <2>6. chan' = [g EXCEPT ![s][r] = g[s][r] \o b]
      BY <1>1, <1>2, <1>3, <2>1, <2>5 DEF Sent
    <2>7. g[s][r] \o b \in Seq(Msg)
      BY <1>2, <2>2, <2>5, ConcatProperties
    <2>8. /\ chan'[s][r] = g[s][r] \o b
          /\ \A d \in Link, m \in Node : d # s \/ m # r => chan'[d][m] = g[d][m]
      BY <1>2, <2>5, <2>6, <2>7, Put
    <2>9. chan'[s][r] = chan[s][r] \o (a \o b)
      <3>1. PICK e : e = chan[s][r]
        OBVIOUS
      <3>2. e \in Seq(Msg)
        BY <1>2, <3>1
      <3>3. (e \o a) \o b = e \o (a \o b)
        BY <2>2, <3>2
      <3>4. QED
        BY <2>5, <2>8, <3>1, <3>3
    <2>10. QED
      BY <1>1, <1>3, <2>2, <2>5, <2>8, <2>9 DEF Posted, Grown
  <1>4. CASE ~(up[s] /\ sock[s][r] # "closed")
    <2>1. chan' = chan
      BY <1>1, <1>4 DEF Sent
    <2>2. QED
      BY <2>1 DEF Posted
  <1>5. QED
    BY <1>3, <1>4

\* What a proof with the nonce k changes.
LEMMA ProofMoves ==
  ASSUME IInv, AInv, NEW q \in Node, NEW z \in Name, HandleProof(q, z),
         NEW k, k = Received(q, z).msg.nonce, NEW ok, ok = (nonce[q][z] # 0 /\ nonce[q][z] = k)
  PROVE  /\ \A m \in Node, y \in Name : m # q \/ y # z =>
                pend'[m][y] = pend[m][y] /\ conns'[m][y] = conns[m][y]
         /\ \/ pend'[q][z] = None
            \/ /\ pend'[q][z] = pend[q][z] /\ conns'[q][z] = conns[q][z]
               /\ ~(ok /\ pend[q][z] # None)
            \/ /\ ok /\ pend[q][z] # None /\ conns'[q][z] = conns[q][z]
               /\ pend'[q][z].verified /\ pend'[q][z].sock = pend[q][z].sock
               /\ pend'[q][z].outgoing = pend[q][z].outgoing
         /\ \/ chan' = chan
            \/ ok /\ pend[q][z] # None /\ Posted(pend[q][z].sock, q, Mute)
  <1>1. PICK e, m : e = pend[q][z] /\ m = Received(q, z).msg
    OBVIOUS
  <1>2. PICK proven : proven = [e EXCEPT !.verified = TRUE, !.key = m.key,
                                         !.mismatch = trusted[q][z] \notin {None, m.key}]
    OBVIOUS
  <1>3. CASE /\ ok /\ e # None /\ ~e.outgoing /\ Promote(q, z, e.sock, m.key)
             /\ chan' = Sent(Sent(chan, OutLink(q, conns[q][z], e), q, <<Approval>>),
                             OutLink(q, conns'[q][z], None), q, PeerState)
    <2>1. PICK s : s = e.sock
      OBVIOUS
    <2>2. Belongs(s, q, z) /\ sock[s][q] = "open"
      BY <1>1, <1>3, <2>1 DEF IInv, EntriesOK, PendEntry
    <2>3. conns[q][z] = None
      BY <1>1, <1>3 DEF AInv, IncomingOK
    <2>4. OutLink(q, conns[q][z], e) = s
      BY <1>3, <2>1, <2>2, <2>3 DEF OutLink
    <2>5. PICK conn : conn = conns'[q][z]
      OBVIOUS
    <2>6. conn.sock = s
      BY <1>3, <2>1, <2>5, Promoted
    <2>7. OutLink(q, conn, None) = s \/ OutLink(q, conn, None) = 0
      BY <2>6 DEF OutLink
    <2>8. \A y \in Node, w \in Name : y # q \/ w # z =>
              pend'[y][w] = pend[y][w] /\ conns'[y][w] = conns[y][w]
      BY <1>3, PromoteAlone
    <2>9. pend'[q][z] = None
      BY <1>3, PromoteAlone
    <2>10. Posted(s, q, Mute)
      <3>1. <<Approval>> \in Seq(Mute) /\ PeerState \in Seq(Mute) /\ Mute \subseteq Msg
        BY MuteMessages, Kinds
      <3>2. CASE OutLink(q, conn, None) = s
        <4>1. chan' = Sent(Sent(chan, s, q, <<Approval>>), s, q, PeerState)
          BY <1>3, <2>4, <2>5, <3>2
        <4>2. QED
          BY <2>2, <3>1, <4>1, SentTwice
      <3>3. CASE OutLink(q, conn, None) = 0
        <4>1. chan' = Sent(chan, s, q, <<Approval>>)
          BY <1>3, <2>4, <2>5, <3>3 DEF Sent
        <4>2. PICK ms, S : ms = <<Approval>> /\ S = Mute
          OBVIOUS
        <4>3. S \subseteq Msg /\ ms \in Seq(S) /\ chan' = Sent(chan, s, q, ms)
          BY <3>1, <4>1, <4>2
        <4>4. Posted(s, q, S)
          BY <2>2, <4>3, SentPosted
        <4>5. QED
          BY <4>2, <4>4
      <3>4. QED
        BY <2>7, <3>2, <3>3
    <2>11. QED
      BY <1>1, <1>3, <2>1, <2>8, <2>9, <2>10
  <1>4. CASE ok /\ e # None /\ pend' = [pend EXCEPT ![q][z] = proven] /\ UNCHANGED <<conns, chan>>
    <2>1. /\ pend'[q][z] = proven
          /\ \A y \in Node, w \in Name : y # q \/ w # z => pend'[y][w] = pend[y][w]
      BY <1>4 DEF IInv, EntriesOK
    <2>2. e \in Pending
      BY <1>1, <1>4 DEF IInv, EntriesOK
    <2>3. proven.verified /\ proven.sock = e.sock /\ proven.outgoing = e.outgoing
      BY <1>2, <2>2 DEF Pending
    <2>4. QED
      BY <1>1, <1>4, <2>1, <2>3
  <1>5. CASE ok /\ e = None /\ conns' = [conns EXCEPT ![q][z].key = m.key] /\ UNCHANGED <<pend, chan>>
    <2>1. \A y \in Node, w \in Name : y # q \/ w # z => conns'[y][w] = conns[y][w]
      BY <1>5 DEF IInv, EntriesOK
    <2>2. QED
      BY <1>1, <1>5, <2>1
  <1>6. CASE (~ok \/ e = None) /\ UNCHANGED <<pend, conns, chan>>
    BY <1>1, <1>6
  <1>7. QED
    <2>1. \/ /\ ok /\ e # None /\ ~e.outgoing /\ Promote(q, z, e.sock, m.key)
             /\ chan' = Sent(Sent(chan, OutLink(q, conns[q][z], e), q, <<Approval>>),
                             OutLink(q, conns'[q][z], None), q, PeerState)
          \/ ok /\ e # None /\ pend' = [pend EXCEPT ![q][z] = proven] /\ UNCHANGED <<conns, chan>>
          \/ ok /\ e = None /\ conns' = [conns EXCEPT ![q][z].key = m.key] /\ UNCHANGED <<pend, chan>>
          \/ (~ok \/ e = None) /\ UNCHANGED <<pend, conns, chan>>
      <3>1. /\ pend[q][z] = e /\ Received(q, z).msg = m /\ ok = (nonce[q][z] # 0 /\ nonce[q][z] = m.nonce)
        BY <1>1
      <3>2. \/ /\ ok /\ pend[q][z] # None /\ ~pend[q][z].outgoing
               /\ Promote(q, z, pend[q][z].sock, Received(q, z).msg.key)
               /\ chan' = Sent(Sent(chan, OutLink(q, conns[q][z], pend[q][z]), q, <<Approval>>),
                               OutLink(q, conns'[q][z], None), q, PeerState)
            \/ /\ ok /\ pend[q][z] # None
               /\ pend' = [pend EXCEPT ![q][z] = [pend[q][z] EXCEPT !.verified = TRUE,
                      !.key = Received(q, z).msg.key,
                      !.mismatch = trusted[q][z] \notin {None, Received(q, z).msg.key}]]
               /\ UNCHANGED <<conns, chan>>
            \/ /\ ok /\ pend[q][z] = None
               /\ conns' = [conns EXCEPT ![q][z].key = Received(q, z).msg.key]
               /\ UNCHANGED <<pend, chan>>
            \/ (~ok \/ pend[q][z] = None) /\ UNCHANGED <<pend, conns, chan>>
        BY DEF HandleProof
      <3>3. QED
        BY <1>2, <3>1, <3>2
    <2>2. QED
      BY <1>3, <1>4, <1>5, <1>6, <2>1

LEMMA ProofApproval ==
  ASSUME IInv, KInv, AInv, NEW q \in Node, NEW z \in Name, HandleProof(q, z)
  PROVE  AInv'
  <1>1. /\ Turn(q, z, "identity_proof") /\ Done(q, z) /\ World
        /\ UNCHANGED <<link, up, sock>>
    BY WorldStays DEF HandleProof
  <1>2. PICK k, ok, e : /\ k = Received(q, z).msg.nonce /\ e = pend[q][z]
                        /\ ok = (nonce[q][z] # 0 /\ nonce[q][z] = k)
    OBVIOUS
  <1>3. /\ \A m \in Node, y \in Name : m # q \/ y # z =>
               pend'[m][y] = pend[m][y] /\ conns'[m][y] = conns[m][y]
        /\ \/ pend'[q][z] = None
           \/ pend'[q][z] = e /\ conns'[q][z] = conns[q][z] /\ ~(ok /\ e # None)
           \/ /\ ok /\ e # None /\ conns'[q][z] = conns[q][z]
              /\ pend'[q][z].verified /\ pend'[q][z].sock = e.sock
              /\ pend'[q][z].outgoing = e.outgoing
        /\ \/ chan' = chan
           \/ ok /\ e # None /\ Posted(e.sock, q, Mute)
    BY <1>2, ProofMoves
  <1>4. /\ Received(q, z) \in Entry /\ Received(q, z).msg \in Msg
        /\ Received(q, z).msg.type = "identity_proof"
    BY <1>1, HeadOf
  <1>5. Received(q, z).msg \in Proofs(k)
    BY <1>2, <1>4 DEF Proofs
  <1>6. /\ queue[q][z] # <<>> /\ Head(queue[q][z]) = Received(q, z)
        /\ queue'[q][z] = Tail(queue[q][z])
        /\ \A m \in Node, y \in Name : m # q \/ y # z => queue'[m][y] = queue[m][y]
    BY <1>1, DoneMoves
  <1>7. Begun(k, q)
    <2>1. Received(q, z) \in KeyQueue[q][z]
      BY <1>1, KeyHead
    <2>2. QED
      BY <1>2, <1>4, <2>1 DEF KeyQueue, ProofOK
  <1>8. e # None => /\ Belongs(e.sock, q, z) /\ e.sock # 0
                    /\ nonce[q][z] = IF e.verified THEN 0 ELSE e.sock
    BY <1>2, EndsOfLink DEF IInv, EntriesOK, PendEntry, Link
  <1>9. e # None => /\ ok => e.sock = k
                    /\ ~e.verified /\ e.sock = k => ok
    BY <1>2, <1>8
  <1>10. PICK o : Posted(o, q, Mute) /\ (chan' = chan \/ (o = e.sock /\ ok /\ e # None))
    <2>1. CASE chan' = chan
      BY <2>1 DEF Posted
    <2>2. CASE chan' # chan
      BY <1>3, <2>2
    <2>3. QED
      BY <2>1, <2>2
  <1>11. \A d \in Link, m \in Node : Grown(d, m, Mute)
    BY <1>10, PostedGrown
  <1>12. IncomingOK'
    <2> SUFFICES ASSUME NEW m \in Node, NEW y \in Name, pend'[m][y] # None, ~pend'[m][y].outgoing
                 PROVE  conns'[m][y] = None
      BY DEF IncomingOK
    <2>1. pend[m][y] # None /\ ~pend[m][y].outgoing /\ conns'[m][y] = conns[m][y]
      BY <1>2, <1>3
    <2>2. conns[m][y] = None
      BY <2>1 DEF AInv, IncomingOK
    <2>3. QED
      BY <2>1, <2>2
  <1>13. WayOK'
    BY <1>1, <1>6, <1>10, MuteTalk
  <1>14. ASSUME NEW c \in Link, NEW n \in Node, NEW p \in Node, Sole(c, n, p)'
         PROVE  Told(c, n, p)'
    <2>1. link[c] # NoLink
      BY <1>1, <1>14, SessionAssumption DEF Sole, NoLink
    <2>2. Sole(c, n, p)
      BY <1>1, <1>14, <2>1, SoleBefore
    <2>3. Told(c, n, p)
      BY <2>2 DEF AInv, ToldOK
    <2>4. PICK x : x = DialName[p]
      OBVIOUS
    <2>5. /\ x \in Name /\ n \in Name /\ Belongs(c, n, x) /\ Belongs(c, p, n) /\ n # p
          /\ Other(c, n) = p /\ Other(c, p) = n
      BY <2>2, <2>4, SoleLink
    <2>6. OwnWay(c, p) /\ DiallerOK(c, n, x) /\ ListenerOK(c, n, x, p)
      BY <2>3, <2>4 DEF Told
    <2>7. OwnWay(c, p)'
      BY <1>11, <2>6, MuteWay
    <2>8. ASSUME Holds(c, p, n), q = p, z = n, k = c
          PROVE  Given(c, n, x)
      <3> SUFFICES ASSUME ~Given(c, n, x)
                   PROVE  FALSE
        OBVIOUS
      <3>1. Ordered(c, p, n, Proofs(c), Challenges(c))
        BY <2>6, <2>8 DEF ListenerOK
      <3>2. PICK s : s = queue[p][n]
        OBVIOUS
      <3>3. s \in Seq(Entry) /\ s # <<>> /\ LedBy(s, On(Proofs(c)), On(Challenges(c)))
        BY <1>6, <2>5, <2>8, <3>1, <3>2 DEF Ordered, Led, IInv, QueueOK
      <3>4. Head(s) \notin On(Proofs(c))
        BY <3>3, LedHead
      <3>5. Head(s) \in Entry /\ Head(s).msg \in Proofs(c)
        BY <1>4, <1>5, <1>6, <2>8, <3>2
      <3>6. QED
        BY <3>4, <3>5 DEF On
    <2>9. DiallerSteady(c, n, x)
      <3>1. CASE chan'[c][n] # chan[c][n]
        <4>1. c = e.sock /\ n = Other(e.sock, q) /\ up[c] /\ ok /\ e # None
          BY <1>10, <3>1 DEF Posted
        <4>2. q = p /\ z = n
          <5>1. q \in {n, p} /\ q # n
            BY <1>8, <2>5, <4>1, EndsOfLink DEF Belongs, Ends, Other
          <5>2. QED
            BY <1>8, <2>5, <4>1, <5>1 DEF Belongs
        <4>3. Given(c, n, x)
          BY <1>2, <1>9, <2>8, <4>1, <4>2 DEF Holds
        <4>4. pend'[n][x] = pend[n][x] /\ queue'[n][x] = queue[n][x]
          BY <1>3, <1>6, <2>5, <4>2
        <4>5. QED
          BY <1>1, <1>11, <2>5, <4>1, <4>3, <4>4, DiallerTold
      <3>2. CASE chan'[c][n] = chan[c][n] /\ n = q /\ x = z /\ k = c
        <4>1. ~Awaits(c, n, x)'
          <5>1. SUFFICES ASSUME pend'[q][z] # None, pend'[q][z].sock = c, ~pend'[q][z].verified
                         PROVE  FALSE
            BY <3>2 DEF Awaits, Holds
          <5>2. pend'[q][z] = e /\ ~(ok /\ e # None)
            BY <1>3, <5>1
          <5>3. QED
            BY <1>9, <3>2, <5>1, <5>2
        <4>2. Begun(c, n) /\ Begun(c, n)'
          BY <1>1, <1>7, <3>2 DEF Begun
        <4>3. QED
          BY <1>1, <4>1, <4>2 DEF DiallerSteady
      <3>3. CASE chan'[c][n] = chan[c][n] /\ ~(n = q /\ x = z /\ k = c)
        <4>1. QueueMoves(n, x, Proofs(c))
          <5>1. CASE n = q /\ x = z
            <6>1. Received(q, z).msg \notin Proofs(c)
              BY <1>2, <3>3, <5>1 DEF Proofs
            <6>2. QED
              BY <1>6, <5>1, <6>1 DEF QueueMoves
          <5>2. CASE n # q \/ x # z
            BY <1>6, <2>5, <5>2 DEF QueueMoves
          <5>3. QED
            BY <5>1, <5>2
        <4>2. Awaits(c, n, x)' => Awaits(c, n, x)
          BY <1>2, <1>3, <2>5 DEF Awaits, Holds
        <4>3. QED
          BY <1>1, <2>5, <3>3, <4>1, <4>2, DiallerAlone
      <3>4. QED
        BY <3>1, <3>2, <3>3
    <2>10. ListenerOK(c, n, x, p)'
      <3> SUFFICES ASSUME Holds(c, p, n)', ~Given(c, n, x)'
                   PROVE  /\ ~pend'[p][n].verified
                          /\ Ordered(c, p, n, Proofs(c), Challenges(c))'
                          /\ Begun(c, n)' => Coming(c, p, n, Challenges(c))'
        BY DEF ListenerOK
      <3>1. Holds(c, p, n) /\ ~Given(c, n, x)
        <4>1. ~Given(c, n, x)
          BY <2>9, DiallerStays
        <4>2. pend'[p][n] # None /\ pend'[p][n].sock = c
          BY DEF Holds
        <4>3. pend[p][n] # None /\ pend[p][n].sock = c
          BY <1>2, <1>3, <2>5, <4>2
        <4>4. QED
          BY <4>1, <4>3 DEF Holds
      <3>2. /\ ~pend[p][n].verified /\ Ordered(c, p, n, Proofs(c), Challenges(c))
            /\ Begun(c, n) => Coming(c, p, n, Challenges(c))
        BY <2>6, <3>1 DEF ListenerOK
      <3>3. pend'[p][n] = pend[p][n]
        <4>1. CASE p = q /\ n = z
          <5>1. k # c
            BY <2>8, <3>1, <4>1
          <5>2. e # None /\ e.sock = c
            BY <1>2, <3>1, <4>1 DEF Holds
          <5>3. ~ok
            BY <1>9, <5>1, <5>2
          <5>4. pend'[q][z] # None
            BY <4>1 DEF Holds
          <5>5. pend'[q][z] = e
            BY <1>3, <5>3, <5>4
          <5>6. QED
            BY <1>2, <4>1, <5>5
        <4>2. CASE p # q \/ n # z
          BY <1>3, <2>5, <4>2
        <4>3. QED
          BY <4>1, <4>2
      <3>4. QueueMoves(p, n, Challenges(c))
        <4>1. Received(q, z).msg \notin Challenges(c)
          BY <1>4 DEF Challenges
        <4>2. QED
          BY <1>6, <2>5, <4>1 DEF QueueMoves
      <3>5. PICK S : S = Mute
        OBVIOUS
      <3>6. S \subseteq Msg /\ S \intersect Proofs(c) = {} /\ Grown(c, p, S)
        BY <1>11, <3>5, Kinds
      <3>7. /\ Ordered(c, p, n, Proofs(c), Challenges(c))'
            /\ up'[c] => (Coming(c, p, n, Challenges(c)) => Coming(c, p, n, Challenges(c))')
        BY <2>5, <3>2, <3>4, <3>6, StreamStays
      <3>8. Begun(c, n)' => Begun(c, n) /\ up'[c]
        BY <2>9 DEF DiallerSteady, Given
      <3>9. QED
        BY <3>2, <3>3, <3>7, <3>8
    <2>11. DiallerOK(c, n, x)' /\ DialName'[p] = x
      BY <1>1, <2>4, <2>6, <2>9, DiallerStays DEF World
    <2>12. QED
      BY <2>7, <2>10, <2>11 DEF Told
  <1>15. QED
    BY <1>12, <1>13, <1>14 DEF AInv, ToldOK

------------------------------------------------------------------------------
(* Approvals in every state *)

LEMMA InitAInv ==
  ASSUME Init
  PROVE  AInv
  <1>1. IncomingOK
    BY DEF Init, IncomingOK
  <1>2. \A d \in Link, n \in Node : <<>> \in Seq(OwnChallenges(d))
    OBVIOUS
  <1>3. \A n \in Node, x \in Name : <<>> \in Seq(FromLink(n, x))
    OBVIOUS
  <1>4. WayOK
    BY <1>2, <1>3 DEF Init, WayOK
  <1>5. \A c \in Link, n \in Node : \A p : ~Sole(c, n, p)
    <2> SUFFICES ASSUME NEW c \in Link, NEW n \in Node, NEW p, Sole(c, n, p)
                 PROVE  FALSE
      OBVIOUS
    <2>1. link[c] = NoLink
      BY DEF Init
    <2>2. link[c].from = n /\ link[c].from = None
      BY <2>1 DEF Sole, NoLink
    <2>3. QED
      BY <2>2, SessionAssumption
  <1>6. QED
    BY <1>1, <1>4, <1>5 DEF AInv, ToldOK

LEMMA NextAInv ==
  ASSUME IInv, KInv, AInv, [Next]_vars
  PROVE  AInv'
  <1>1. CASE \E c \in Link, n, p \in Node : Dial(c, n, p)
    BY <1>1, DialApproval
  <1>2. CASE \E c \in Link : Accept(c) \/ Open(c) \/ LinkFails(c)
    BY <1>2, AcceptApproval, OpenApproval, FailureCalm, CalmKeeps
  <1>3. CASE \E c \in Link, n \in Node : Receive(c, n) \/ CloseEvent(c, n)
    BY <1>3, ReceiveApproval, CloseEventCalm, CalmKeeps
  <1>4. CASE \E n \in Node, x \in Name : Handle(n, x)
    <2>1. PICK n \in Node, x \in Name : Handle(n, x)
      BY <1>4
    <2>2. CASE HandleChallenge(n, x)
      BY <2>2, ChallengeApproval
    <2>3. CASE HandleProof(n, x)
      BY <2>3, ProofApproval
    <2>4. CASE HandleApproval(n, x) \/ HandleDenial(n, x)
      BY <2>4, ApprovalCalm, DenialCalm, CalmKeeps
    <2>5. CASE HandleState(n, x) \/ HandleRequest(n, x) \/ HandleFile(n, x)
      BY <2>5, MessageCalm, CalmKeeps
    <2>6. QED
      BY <2>1, <2>2, <2>3, <2>4, <2>5 DEF Handle
  <1>5. CASE \E n \in Node, x \in Name : FinishFile(n, x) \/ MissedPing(n, x)
    BY <1>5, FileCalm, PingCalm, CalmKeeps
  <1>6. CASE \E n \in Node, x \in Name : Approve(n, x) \/ Deny(n, x) \/ SendFile(n, x)
    BY <1>6, ApproveApproval, DenyCalm, FileCalm, CalmKeeps
  <1>7. CASE \E n \in Node : Restart(n)
    BY <1>7, RestartCalm, CalmKeeps
  <1>8. CASE UNCHANGED vars
    BY <1>8, StutterCalm, CalmKeeps
  <1>9. QED
    BY <1>1, <1>2, <1>3, <1>4, <1>5, <1>6, <1>7, <1>8 DEF Next

LEMMA ApprovalFound ==
  ASSUME IInv, AInv
  PROVE  ApprovalFindsProof
  <1> SUFFICES ASSUME NEW n \in Node, NEW x \in Name, Turn(n, x, "approved"),
                      pend[n][x] # None, pend[n][x].outgoing, ~pend[n][x].verified,
                      ~OtherLink(pend[n][x].sock, n, x)
               PROVE  FALSE
    BY DEF ApprovalFindsProof
  <1>1. PICK c, p : c = pend[n][x].sock /\ p = link[c].to
    OBVIOUS
  <1>2. Belongs(c, n, x) /\ link[c].from = n
    BY <1>1 DEF IInv, EntriesOK, PendEntry
  <1>3. c \in Link /\ link[c] # NoLink /\ NameAt(c, n) = x
    BY <1>2 DEF Belongs
  <1>4. link[c] \in [from : Node, to : Node] /\ p \in Node
    BY <1>1, <1>3 DEF IInv, LinkOK
  <1>5. link[c] = [from |-> n, to |-> p] /\ DialName[p] = x
    BY <1>1, <1>2, <1>3, <1>4 DEF NameAt
  <1>6. Sole(c, n, p)
    BY <1>1, <1>5 DEF Sole
  <1>7. Ordered(c, n, x, Approvals, Proofs(c))
    BY <1>1, <1>3, <1>4, <1>5, <1>6 DEF AInv, ToldOK, Told, DiallerOK, Awaits, Holds
  <1>8. PICK s : s = queue[n][x]
    OBVIOUS
  <1>9. s \in Seq(Entry) /\ s # <<>> /\ LedBy(s, On(Approvals), On(Proofs(c)))
    BY <1>7, <1>8 DEF Ordered, Led, IInv, QueueOK, Turn
  <1>10. Head(s) \notin On(Approvals)
    BY <1>9, LedHead
  <1>11. Head(s) \in Entry /\ Head(s).msg \in Msg /\ Head(s).msg.type = "approved"
    BY <1>8, HeadOf DEF Received
  <1>12. QED
    BY <1>10, <1>11 DEF On, Approvals

\* An approval finds the proof that it is for, for any number of dials, links,
\* restarts and keys: handleApprovalResponse ignores one for want of a proof only
\* where a pending dial shares its name with another link.
THEOREM ApprovalCorrect == Spec => []ApprovalFindsProof
  <1>1. IInv /\ AInv => ApprovalFindsProof
    BY ApprovalFound
  <1>2. Spec => [](IInv /\ KInv /\ AInv)
    BY InitIInv, NextIInv, InitKInv, NextKInv, InitAInv, NextAInv, PTL DEF Spec
  <1>3. QED
    BY <1>1, <1>2, PTL
==============================================================================
