------------------------------ MODULE PeerSession ------------------------------
(***************************************************************************)
(* Sessions between gateways (src/src/transport.ts): dialling, accepting,  *)
(* proof of identity, approval, loss of a connection, restart.             *)
(*                                                                         *)
(* A link is one WebSocket.  Its two ends are open, closing and closed     *)
(* independently; what one end sends arrives at the other in order.  A     *)
(* gateway keeps its connections, pending connections and nonces under a   *)
(* NAME, never under a socket: the dialler uses the name that it dialled   *)
(* (DialName: mesh_discover uses "manual-<host>"), the acceptor the name   *)
(* in the request's header.                                                *)
(*                                                                         *)
(* A gateway runs one callback at a time.  Several messages that arrive in *)
(* one TCP segment are all received, and their `approved` flags taken,     *)
(* before the first of them is handled (batch).  A handler that awaits     *)
(* delays the later messages of its name only (busy).  What a gateway does *)
(* between two callbacks touches others through FIFO channels alone, so no *)
(* step of another gateway has to come in between (Quiet).                 *)
(***************************************************************************)
EXTENDS Integers, Sequences

CONSTANTS
    Node,
    Name,        \* names of peers; a node's own name is the node itself
    ManualName,  \* ManualName[p]: the name mesh_discover gives to p
    Key,         \* key fingerprints; those of two names are never compared
    FirstKey,    \* FirstKey[n]: the key pair n starts with
    None,
    MaxDials,    \* bounds: the dials of a behaviour, and
    Budgets      \* what it may start with (Budget)

\* How often each bounded step may be taken: dials of a node, restarts of a
\* gateway (with or without its identity file), links that fail silently, file
\* messages; if peers are dialled under their manual names; and the <<n, p>> with
\* n approved by p in an earlier process.
Budget == [dial : [Node -> Nat], restart : Nat, fail : Nat, file : Nat,
           manual : BOOLEAN, known : SUBSET (Node \X Node)]

ASSUME SessionAssumption ==
    /\ Node \subseteq Name /\ None \notin Name \union Key
    /\ ManualName \in [Node -> Name] /\ FirstKey \in [Node -> Key]
    /\ \A n, p \in Node : ManualName[n] \in {p, ManualName[p]} => n = p
    /\ MaxDials \in Nat /\ Budgets \subseteq Budget

VARIABLES
    link,     \* link[c]: who dialled whom, or NoLink
    up,       \* up[c]: the network still carries what is sent on c
    sock,     \* sock[c][n]: state of n's end of c
    chan,     \* chan[c][n]: messages on c that n has not received
    pend,     \* pend[n][x]: pendingConnections
    conns,    \* conns[n][x]: connections; each is approved, for every caller
              \* of promotePendingConnection passes true
    nonce,    \* nonce[n][x]: challengeNonces, named by the link it was made for
    remote,   \* remote[n][x]: which of remoteNodeInfo, remoteManifests are set
    queue,    \* queue[n][x]: peerMessageQueues, messages with their flag
    busy,     \* busy[n][x]: the handler at the head of the queue awaits
    batch,    \* the link and the node that is receiving a segment from it
    trusted,  \* trusted[n][x]: the key in trusted-peers.json
    key,      \* key[n]: the key pair in identity.json
    left,     \* how often each bounded step may still be taken
    agreed    \* history: the names that n's user has dialled or approved

wireVars == <<link, up, sock, chan>>
tableVars == <<pend, conns, nonce, remote>>
loopVars == <<queue, busy, batch>>
vars == <<wireVars, tableVars, loopVars, trusted, key, left, agreed>>

------------------------------------------------------------------------------
(* Links and messages *)

\* The name under which others dial p.
DialName == IF left.manual THEN ManualName ELSE [p \in Node |-> p]

Link == 1..MaxDials
NoLink == [from |-> None, to |-> None]
EndState == {"none", "connecting", "open", "closing", "closed"}

Challenge(c)   == [type |-> "identity_challenge", nonce |-> c, key |-> None]
Proof(c, k)    == [type |-> "identity_proof", nonce |-> c, key |-> k]
Plain(type)    == [type |-> type, nonce |-> 0, key |-> None]
Approval == Plain("approved")   \* approval_response with approved = true
Denial == Plain("denied")       \* and with approved = false
MsgType == {"identity_challenge", "identity_proof", "approved", "denied",
            "node_info", "manifest", "manifest_request", "file"}
Msg == [type : MsgType, nonce : 0..MaxDials, key : Key \union {None}]

Pending == [sock : Link, outgoing : BOOLEAN, verified : BOOLEAN,
            mismatch : BOOLEAN, key : Key \union {None}]
Connection == [sock : Link, key : Key]

Ends(c) == {link[c].from, link[c].to}
Other(c, n) == IF link[c].from = n THEN link[c].to ELSE link[c].from
\* The name under which n keeps link c.
NameAt(c, n) == IF link[c].from = n THEN DialName[link[c].to] ELSE link[c].from

\* ch with ms sent by n on c: lost if the network or the other end is gone.
Sent(ch, c, n, ms) ==
    IF c = 0 \/ ~up[c] \/ sock[c][Other(c, n)] = "closed" THEN ch
    ELSE [ch EXCEPT ![c][Other(c, n)] = @ \o ms]

\* The link that sendToPeer(x) writes to, given the entries for x: the
\* connection's if it is open, else the pending one's, else none.
OutLink(n, conn, pending) ==
    IF conn # None /\ sock[conn.sock][n] = "open" THEN conn.sock
    ELSE IF pending # None /\ sock[pending.sock][n] = "open" THEN pending.sock
    ELSE 0

SendToPeer(n, x, ms) ==
    LET c == OutLink(n, conns[n][x], pend[n][x]) IN chan' = Sent(chan, c, n, ms)

\* What exchangePeerState sends.
PeerState == <<Plain("node_info"), Plain("manifest"), Plain("manifest_request")>>

\* No microtask is waiting: a gateway may take its next callback.
Quiet == \A n \in Node, x \in Name : queue[n][x] = <<>> \/ busy[n][x]
NoBatch == <<0, None>>

Spend(k) == left[k] > 0 /\ left' = [left EXCEPT ![k] = @ - 1]

Fresh(c, out) == [sock |-> c, outgoing |-> out, verified |-> FALSE,
                  mismatch |-> FALSE, key |-> None]
Close(c, n) == sock' = [sock EXCEPT ![c][n] = IF @ = "open" THEN "closing" ELSE @]

\* Mutant: the connection itself stays.
DropConnection_InfoOnly(n, x) ==
    /\ UNCHANGED conns
    /\ remote' = [remote EXCEPT ![n][x] = IF conns[n][x] # None THEN {} ELSE @]

\* connections.delete and clearPeerTransientState, where there is a connection.
DropConnection(n, x) ==
    /\ conns' = [conns EXCEPT ![n][x] = None]
    /\ remote' = [remote EXCEPT ![n][x] = IF conns[n][x] # None THEN {} ELSE @]

------------------------------------------------------------------------------
(* Dialling and accepting *)

FirstFree(c) == link[c] = NoLink /\ \A d \in Link : d < c => link[d] # NoLink

Dial(c, n, p) ==
    LET x == DialName[p] IN
    /\ FirstFree(c) /\ n # p /\ Quiet
    /\ conns[n][x] = None /\ pend[n][x] = None
    /\ left.dial[n] > 0 /\ left' = [left EXCEPT !.dial[n] = @ - 1]
    /\ link' = [link EXCEPT ![c] = [from |-> n, to |-> p]]
    /\ sock' = [sock EXCEPT ![c][n] = "connecting"]
    /\ agreed' = [agreed EXCEPT ![n] = @ \union {x}]
    /\ UNCHANGED <<up, chan, tableVars, loopVars, trusted, key>>

\* Mutant: an outstanding nonce is kept for the new socket.
AwaitProof_OldNonce(c, n, x) ==
    /\ pend' = [pend EXCEPT ![n][x] = Fresh(c, link[c].from = n)]
    /\ nonce' = [nonce EXCEPT ![n][x] = IF @ = 0 THEN c ELSE @]
    /\ chan' = Sent(chan, c, n, <<Challenge(c)>>)

\* A new pending connection, overwriting an older one, and its challenge.
AwaitProof(c, n, x) ==
    /\ pend' = [pend EXCEPT ![n][x] = Fresh(c, link[c].from = n)]
    /\ nonce' = [nonce EXCEPT ![n][x] = c]
    /\ chan' = Sent(chan, c, n, <<Challenge(c)>>)

\* The server's connection callback: an older connection under the same name
\* is closed and dropped.
Accept(c) ==
    LET n == link[c].to  x == link[c].from IN
    /\ link[c] # NoLink /\ up[c]
    /\ sock[c][n] = "none" /\ sock[c][x] = "connecting" /\ Quiet
    /\ sock' = [d \in Link |->
           IF d = c THEN [sock[c] EXCEPT ![n] = "open"]
           ELSE IF conns[n][x] # None /\ d = conns[n][x].sock
           THEN [sock[d] EXCEPT ![n] = IF @ = "open" THEN "closing" ELSE @]
           ELSE sock[d]]
    /\ DropConnection(n, x)
    /\ AwaitProof(c, n, x)
    /\ UNCHANGED <<link, up, loopVars, trusted, key, left, agreed>>

\* The dialler's open callback.  It follows an await, and does not look again
\* at what has become of the name's entries.
Open(c) ==
    LET n == link[c].from  x == DialName[link[c].to] IN
    /\ link[c] # NoLink /\ up[c] /\ sock[c][n] = "connecting"
    /\ sock[c][link[c].to] \in {"open", "closing"} /\ Quiet
    /\ sock' = [sock EXCEPT ![c][n] = "open"]
    /\ AwaitProof(c, n, x)
    /\ UNCHANGED <<link, up, conns, remote, loopVars, trusted, key, left, agreed>>

------------------------------------------------------------------------------
(* Messages *)

\* A message is received: its flag is taken from the tables as they are now.
Receive(c, n) ==
    LET x == NameAt(c, n)  m == Head(chan[c][n])
        heard == pend[n][x] # None \/ conns[n][x] # None IN
    /\ link[c] # NoLink /\ n \in Ends(c)
    /\ sock[c][n] \in {"open", "closing"} /\ chan[c][n] # <<>>
    /\ Quiet \/ batch = <<c, n>>
    /\ chan' = [chan EXCEPT ![c][n] = Tail(@)]
    /\ queue' = IF heard
                THEN [queue EXCEPT ![n][x] = Append(@, [msg |-> m, approved |-> pend[n][x] = None])]
                ELSE queue
    /\ batch' = IF heard /\ ~busy[n][x] THEN <<c, n>> ELSE batch
    /\ UNCHANGED <<link, up, sock, tableVars, busy, trusted, key, left, agreed>>

\* The head of n's queue for x is a message of this type, and its turn has come.
Turn(n, x, type) == queue[n][x] # <<>> /\ ~busy[n][x] /\ Head(queue[n][x]).msg.type = type
Received(n, x) == Head(queue[n][x])
Done(n, x) ==
    /\ queue' = [queue EXCEPT ![n][x] = Tail(@)]
    /\ batch' = NoBatch

HandleChallenge(n, x) ==
    /\ Turn(n, x, "identity_challenge") /\ Done(n, x)
    /\ SendToPeer(n, x, <<Proof(Received(n, x).msg.nonce, key[n])>>)
    /\ UNCHANGED <<link, up, sock, tableVars, busy, trusted, key, left, agreed>>

\* Mutant: the key is read from the entry as it was before the proof.
Promote_EarlierKey(n, x, c, k) ==
    /\ conns' = [conns EXCEPT ![n][x] = [sock |-> c, key |-> pend[n][x].key]]
    /\ pend' = [pend EXCEPT ![n][x] = None]

\* promotePendingConnection.
Promote(n, x, c, k) ==
    /\ conns' = [conns EXCEPT ![n][x] = [sock |-> c, key |-> k]]
    /\ pend' = [pend EXCEPT ![n][x] = None]

\* Mutant: the name is compared, the key is not.
AutoApproved_ByName(n, x, k) == trusted[n][x] # None

\* Mutant: an unknown name is trusted at its first proof.
AutoApproved_FirstUse(n, x, k) == trusted[n][x] \in {None, k}

\* Mutant: the comparison is inverted.
AutoApproved_Inverted(n, x, k) == trusted[n][x] \notin {None, k}

\* A caller with key k is trusted, and nothing is amiss.
AutoApproved(n, x, k) == trusted[n][x] = k

\* handleVerifiedIdentity: record the proof; a trusted caller joins at once.
HandleProof(n, x) ==
    LET m == Received(n, x).msg
        p == pend[n][x]
        proven == [p EXCEPT !.verified = TRUE, !.key = m.key,
                            !.mismatch = trusted[n][x] \notin {None, m.key}]
        ok == nonce[n][x] # 0 /\ nonce[n][x] = m.nonce IN
    /\ Turn(n, x, "identity_proof") /\ Done(n, x)
    /\ nonce' = IF ok THEN [nonce EXCEPT ![n][x] = 0] ELSE nonce
    /\ \/ ok /\ p # None /\ ~p.outgoing /\ AutoApproved(n, x, m.key)
          /\ Promote(n, x, p.sock, m.key)
          /\ chan' = Sent(Sent(chan, OutLink(n, conns[n][x], p), n, <<Approval>>),
                          OutLink(n, conns'[n][x], None), n, PeerState)
       \/ ok /\ p # None /\ (p.outgoing \/ ~AutoApproved(n, x, m.key))
          /\ pend' = [pend EXCEPT ![n][x] = proven]
          /\ UNCHANGED <<conns, chan>>
       \/ ok /\ p = None /\ conns[n][x] # None
          /\ conns' = [conns EXCEPT ![n][x].key = m.key]
          /\ UNCHANGED <<pend, chan>>
       \/ (~ok \/ (p = None /\ conns[n][x] = None)) /\ UNCHANGED <<pend, conns, chan>>
    /\ UNCHANGED <<link, up, sock, remote, busy, trusted, key, left, agreed>>

\* Mutant: the test of the direction is inverted.
Acceptable_Incoming(p) == p # None /\ ~p.outgoing /\ p.verified /\ ~p.mismatch

\* approval_response: only a dialler acts on it, and only for a proven peer.
Acceptable(p) == p # None /\ p.outgoing /\ p.verified /\ ~p.mismatch

HandleApproval(n, x) ==
    LET p == pend[n][x] IN
    /\ Turn(n, x, "approved") /\ Done(n, x)
    /\ IF Acceptable(p)
       THEN /\ Promote(n, x, p.sock, p.key)
            /\ trusted' = [trusted EXCEPT ![n][x] = p.key]
            /\ chan' = Sent(chan, OutLink(n, conns'[n][x], None), n, PeerState)
       ELSE UNCHANGED <<conns, pend, trusted, chan>>
    /\ UNCHANGED <<link, up, sock, nonce, remote, busy, key, left, agreed>>

HandleDenial(n, x) ==
    LET p == pend[n][x] IN
    /\ Turn(n, x, "denied") /\ Done(n, x)
    /\ IF p # None /\ p.outgoing
       THEN Close(p.sock, n) /\ pend' = [pend EXCEPT ![n][x] = None]
       ELSE UNCHANGED <<sock, pend>>
    /\ UNCHANGED <<link, up, chan, conns, nonce, remote, busy, trusted, key, left, agreed>>

\* node_info, manifest, manifest_request and the file messages are dropped if
\* the flag was not set.  A file's handler awaits (FileSync has its effects).
HandleState(n, x) ==
    LET q == Received(n, x) IN
    /\ \E type \in {"node_info", "manifest"} :
          /\ Turn(n, x, type)
          /\ remote' = IF q.approved THEN [remote EXCEPT ![n][x] = @ \union {type}] ELSE remote
    /\ Done(n, x)
    /\ UNCHANGED <<wireVars, pend, conns, nonce, busy, trusted, key, left, agreed>>

HandleRequest(n, x) ==
    /\ Turn(n, x, "manifest_request") /\ Done(n, x)
    /\ IF Received(n, x).approved
       THEN SendToPeer(n, x, <<Plain("manifest")>>)
       ELSE UNCHANGED chan
    /\ UNCHANGED <<link, up, sock, tableVars, busy, trusted, key, left, agreed>>

HandleFile(n, x) ==
    /\ Turn(n, x, "file") /\ Done(n, x)
    /\ busy' = [busy EXCEPT ![n][x] = Received(n, x).approved]
    /\ UNCHANGED <<wireVars, tableVars, trusted, key, left, agreed>>

FinishFile(n, x) ==
    /\ busy[n][x] /\ Quiet
    /\ busy' = [busy EXCEPT ![n][x] = FALSE]
    /\ UNCHANGED <<wireVars, tableVars, queue, batch, trusted, key, left, agreed>>

Handle(n, x) ==
    \/ HandleChallenge(n, x) \/ HandleProof(n, x)
    \/ HandleApproval(n, x) \/ HandleDenial(n, x)
    \/ HandleState(n, x) \/ HandleRequest(n, x) \/ HandleFile(n, x)

------------------------------------------------------------------------------
(* Users *)

\* Mutant: the proof is not waited for.
Approvable_Unproven(p) == p # None /\ ~p.outgoing /\ ~p.mismatch

\* mesh_approve: a proven caller without a mismatch joins, trusted from now on.
Approvable(p) == p # None /\ ~p.outgoing /\ p.verified /\ ~p.mismatch

Approve(n, x) ==
    LET p == pend[n][x] IN
    /\ Approvable(p) /\ Quiet
    /\ Promote(n, x, p.sock, p.key)
    /\ trusted' = [trusted EXCEPT ![n][x] = p.key]
    /\ agreed' = [agreed EXCEPT ![n] = @ \union {x}]
    /\ chan' = Sent(chan, OutLink(n, conns'[n][x], None), n, <<Approval>> \o PeerState)
    /\ UNCHANGED <<link, up, sock, nonce, remote, loopVars, key, left>>

\* mesh_reject
Deny(n, x) ==
    LET p == pend[n][x] IN
    /\ p # None /\ ~p.outgoing /\ Quiet
    /\ SendToPeer(n, x, <<Denial>>)
    /\ Close(p.sock, n)
    /\ pend' = [pend EXCEPT ![n][x] = None]
    /\ UNCHANGED <<link, up, conns, nonce, remote, loopVars, trusted, key, left, agreed>>

\* mesh_broadcast, as far as the sessions see it: a file to one connection.
SendFile(n, x) ==
    /\ conns[n][x] # None /\ Spend("file") /\ Quiet
    /\ chan' = Sent(chan, OutLink(n, conns[n][x], None), n, <<Plain("file")>>)
    /\ UNCHANGED <<link, up, sock, tableVars, loopVars, trusted, key, agreed>>

------------------------------------------------------------------------------
(* Lost connections *)

\* n's end is over: its own close was answered or timed out, the other end is
\* gone and all that it sent was received, or the network gave up.
Ended(c, n) ==
    \/ sock[c][n] = "closing"
    \/ sock[c][n] = "open" /\ up[c] /\ chan[c][n] = <<>>
          /\ sock[c][Other(c, n)] \in {"closing", "closed"}

\* Mutant: the pending entry stays.
CloseEvent_KeepsPending(c, n) ==
    /\ link[c] # NoLink /\ n \in Ends(c)
    /\ Ended(c, n) \/ (sock[c][n] = "open" /\ ~up[c])
    /\ Quiet
    /\ sock' = [sock EXCEPT ![c][n] = "closed"]
    /\ chan' = [chan EXCEPT ![c][n] = <<>>]
    /\ DropConnection(n, NameAt(c, n))
    /\ UNCHANGED <<link, up, pend, nonce, loopVars, trusted, key, left, agreed>>

\* The close event of an end: the entries under its NAME are deleted.
CloseEvent(c, n) ==
    LET x == NameAt(c, n) IN
    /\ link[c] # NoLink /\ n \in Ends(c)
    /\ Ended(c, n) \/ (sock[c][n] = "open" /\ ~up[c])
    /\ Quiet
    /\ sock' = [sock EXCEPT ![c][n] = "closed"]
    /\ chan' = [chan EXCEPT ![c][n] = <<>>]
    /\ pend' = [pend EXCEPT ![n][x] = None]
    /\ DropConnection(n, x)
    /\ UNCHANGED <<link, up, nonce, loopVars, trusted, key, left, agreed>>

\* The keepalive timer finds a connection whose pong did not come.  A round
\* trip is assumed to be shorter than its period, PING_INTERVAL_MS.
MissedPing(n, x) ==
    /\ conns[n][x] # None /\ ~up[conns[n][x].sock] /\ Quiet
    /\ Close(conns[n][x].sock, n)
    /\ DropConnection(n, x)
    /\ UNCHANGED <<link, up, chan, pend, nonce, loopVars, trusted, key, left, agreed>>

\* The network stops carrying c, and neither end is told.
LinkFails(c) ==
    /\ link[c] # NoLink /\ up[c] /\ Spend("fail") /\ Quiet
    /\ up' = [up EXCEPT ![c] = FALSE]
    /\ chan' = [chan EXCEPT ![c] = [n \in Node |-> <<>>]]
    /\ UNCHANGED <<link, sock, tableVars, loopVars, trusted, key, agreed>>

\* The process of n ends and starts again, with the files it left; identity.json
\* may be new.  The operating system closes its ends of all links.
Restart(n) ==
    /\ Spend("restart") /\ Quiet
    /\ \E k \in Key : key' = [key EXCEPT ![n] = k]
    /\ sock' = [c \in Link |-> IF link[c] # NoLink /\ n \in Ends(c)
                               THEN [sock[c] EXCEPT ![n] = "closed"] ELSE sock[c]]
    /\ chan' = [c \in Link |-> [chan[c] EXCEPT ![n] = <<>>]]
    /\ pend' = [pend EXCEPT ![n] = [x \in Name |-> None]]
    /\ conns' = [conns EXCEPT ![n] = [x \in Name |-> None]]
    /\ nonce' = [nonce EXCEPT ![n] = [x \in Name |-> 0]]
    /\ remote' = [remote EXCEPT ![n] = [x \in Name |-> {}]]
    /\ queue' = [queue EXCEPT ![n] = [x \in Name |-> <<>>]]
    /\ busy' = [busy EXCEPT ![n] = [x \in Name |-> FALSE]]
    /\ UNCHANGED <<batch, link, up, trusted, agreed>>

------------------------------------------------------------------------------
(* Specification *)

\* n keeps p under the name x since p approved n, or n approved p.
Knows(known, n, p, x) ==
    \/ <<n, p>> \in known /\ x = DialName[p]
    \/ <<p, n>> \in known /\ x = p

Init ==
    /\ link = [c \in Link |-> NoLink]
    /\ up = [c \in Link |-> TRUE]
    /\ sock = [c \in Link |-> [n \in Node |-> "none"]]
    /\ chan = [c \in Link |-> [n \in Node |-> <<>>]]
    /\ pend = [n \in Node |-> [x \in Name |-> None]]
    /\ conns = [n \in Node |-> [x \in Name |-> None]]
    /\ nonce = [n \in Node |-> [x \in Name |-> 0]]
    /\ remote = [n \in Node |-> [x \in Name |-> {}]]
    /\ queue = [n \in Node |-> [x \in Name |-> <<>>]]
    /\ busy = [n \in Node |-> [x \in Name |-> FALSE]]
    /\ batch = NoBatch
    /\ left \in Budgets
    /\ agreed = [n \in Node |-> {x \in Name : \E p \in Node : Knows(left.known, n, p, x)}]
    /\ trusted = [n \in Node |-> [x \in Name |->
           IF x \in agreed[n] THEN FirstKey[CHOOSE p \in Node : Knows(left.known, n, p, x)]
           ELSE None]]
    /\ key = FirstKey

Next ==
    \/ \E c \in Link, n, p \in Node : Dial(c, n, p)
    \/ \E c \in Link : Accept(c) \/ Open(c) \/ LinkFails(c)
    \/ \E c \in Link, n \in Node : Receive(c, n) \/ CloseEvent(c, n)
    \/ \E n \in Node, x \in Name :
          \/ Handle(n, x) \/ FinishFile(n, x) \/ MissedPing(n, x)
          \/ Approve(n, x) \/ Deny(n, x) \/ SendFile(n, x)
    \/ \E n \in Node : Restart(n)

Spec == Init /\ [][Next]_vars

\* The event loops run, sockets report what happened to them, and the
\* keepalive timer ticks.  Users, failures and restarts owe nothing.
Fairness ==
    /\ \A c \in Link : WF_vars(Accept(c)) /\ WF_vars(Open(c))
    /\ \A c \in Link, n \in Node :
          /\ WF_vars(Receive(c, n))
          /\ WF_vars(CloseEvent(c, n) /\ Ended(c, n))
    /\ \A n \in Node, x \in Name :
          WF_vars(Handle(n, x)) /\ WF_vars(FinishFile(n, x)) /\ WF_vars(MissedPing(n, x))
FairSpec == Spec /\ Fairness

------------------------------------------------------------------------------
(* Properties *)

Entry == [msg : Msg, approved : BOOLEAN]

\* Every variable keeps its type.
TypeOK ==
    /\ link \in [Link -> {NoLink} \union [from : Node, to : Node]]
    /\ up \in [Link -> BOOLEAN]
    /\ sock \in [Link -> [Node -> EndState]]
    /\ chan \in [Link -> [Node -> Seq(Msg)]]
    /\ pend \in [Node -> [Name -> Pending \union {None}]]
    /\ conns \in [Node -> [Name -> Connection \union {None}]]
    /\ nonce \in [Node -> [Name -> 0..MaxDials]]
    /\ remote \in [Node -> [Name -> SUBSET {"node_info", "manifest"}]]
    /\ queue \in [Node -> [Name -> Seq(Entry)]]
    /\ busy \in [Node -> [Name -> BOOLEAN]]
    /\ batch \in {NoBatch} \union (Link \X Node)
    /\ trusted \in [Node -> [Name -> Key \union {None}]]
    /\ key \in [Node -> Key]
    /\ left \in Budget
    /\ agreed \in [Node -> SUBSET Name]

\* "No one joins without your say-so" (src/README.md:17), for both sides: the
\* users of both ends of a connection have dialled or approved the other, in
\* whatever order messages, closes and restarts came.
MutualConsent ==
    \A n \in Node, x \in Name : conns[n][x] # None =>
        LET c == conns[n][x].sock  p == Other(c, n) IN
        x \in agreed[n] /\ NameAt(c, p) \in agreed[p]

\* The key that a connection was admitted with, or has proved since, is the
\* key in trusted-peers.json: memory and file agree across late proofs,
\* replaced sockets and reinstalled peers.
AdmittedKeyTrusted ==
    \A n \in Node, x \in Name :
        conns[n][x] # None => conns[n][x].key = trusted[n][x]

\* A pending connection is proven by the answer to the challenge that was sent
\* on its own socket, although nonces are kept by name.
ProvenOnThisSocket ==
    \A n \in Node, x \in Name : pend[n][x] # None =>
        nonce[n][x] = IF pend[n][x].verified THEN 0 ELSE pend[n][x].sock

\* A listener's approval reaches the dialler after the proof that the dialler
\* needs to accept it.  It is ignored for want of one only where the entry waits
\* for the proof of a link that replaced another under the same name.
OtherLink(c, n, x) == \E d \in Link : d # c /\ link[d] # NoLink /\ n \in Ends(d) /\ NameAt(d, n) = x

ApprovalFindsProof ==
    \A n \in Node, x \in Name :
        /\ Turn(n, x, "approved")
        /\ pend[n][x] # None /\ pend[n][x].outgoing
        => pend[n][x].verified \/ OtherLink(pend[n][x].sock, n, x)

\* No entry of the tables outlives its end of the link.
EntriesAreOpen ==
    \A n \in Node, x \in Name :
        /\ conns[n][x] # None => sock[conns[n][x].sock][n] = "open"
        /\ pend[n][x] # None => sock[pend[n][x].sock][n] = "open"

\* A listener's connection is joined by the dialler, or given up, unless the
\* dialler knew the listener under another key.
ApprovalCompletes ==
    \A n, p \in Node :
        n # p /\ conns[n][p] # None /\ trusted[p][DialName[n]] \in {None, key[n]}
        ~> (conns[p][DialName[n]] # None \/ conns[n][p] = None)

\* A dialler whom the listener trusts, and trusts in return, joins without a
\* user (src/README.md:180), provided that no older link awaits its close event.
OnlyLink(c, n) == \A d \in Link : d # c /\ link[d] # NoLink /\ n \in Ends(d) => sock[d][n] = "closed"
Usable(c) == link[c] # NoLink /\ up[c] /\ \A n \in Ends(c) : sock[c][n] = "open"
Friends(n, x, p, y) == trusted[n][x] = key[p] /\ trusted[p][y] = key[n]

TrustedJoin ==
    \A c \in Link, n, p \in Node :
        /\ link[c] = [from |-> n, to |-> p] /\ Usable(c)
        /\ OnlyLink(c, n) /\ OnlyLink(c, p)
        /\ Friends(n, DialName[p], p, n)
        ~> (conns[n][DialName[p]] # None \/ ~Usable(c))

\* After a denial or any other close at one end, the other end's tables let go
\* of the link ("outgoing pending removal after deny", test-approval-flow.mjs).
LetsGo(c, n) ==
    \A x \in Name :
        /\ conns[n][x] # None => conns[n][x].sock # c
        /\ pend[n][x] # None => pend[n][x].sock # c

HalfOpenSettles ==
    \A c \in Link, n, p \in Node :
        /\ link[c] # NoLink /\ n # p /\ Ends(c) = {n, p}
        /\ sock[c][n] \in {"closing", "closed"}
        ~> (LetsGo(c, p) \/ ~up[c])

\* A connection whose network failed is noticed by the keepalive timer.
LostPeerNoticed ==
    \A c \in Link, n \in Node :
        ~up[c] ~> [](\A x \in Name : conns[n][x] # None => conns[n][x].sock # c)
==============================================================================
