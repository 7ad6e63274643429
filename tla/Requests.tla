------------------------------- MODULE Requests -------------------------------
(***************************************************************************)
(* Requests that wait for an answer of a peer (src/src/transport.ts):      *)
(* capability executions (pendingExecutions, with the tools that ask and   *)
(* answer, and the requests that an advertised capability starts by        *)
(* itself) and file previews (previewRequests, with the loop of mesh_diff  *)
(* that waits for them).                                                   *)
(*                                                                         *)
(* How a connection comes about is the subject of PeerSession: here it is  *)
(* made in one step, and each end notices its loss by itself.  chan[s][r]  *)
(* holds what s has sent and r has not handled: the socket's buffer and    *)
(* r's message queue.  A timer may fire at any time after it was set.      *)
(***************************************************************************)
EXTENDS Naturals, SequencesExt

CONSTANTS
    Node,
    Linked,     \* the pairs {n, p} that may connect
    Askers,     \* the nodes whose users ask and compare,
    Advertisers, \* and those whose users advertise capabilities
    CallerId,   \* request ids chosen by users; others are generated
    Cap,        \* capability tags
    Path,       \* files that mesh_diff previews
    None,
    Budgets     \* the bounds a behaviour may start with

\* The links that may be made, and how often each kind of step may be taken.
Budget == [links : SUBSET Linked, connect : Nat, drop : Nat, stop : Nat,
           advertise : Nat, ask : Nat, diff : Nat]

ASSUME RequestsAssumption ==
    /\ Linked \subseteq {{n, p} : n, p \in Node}
    /\ \A l \in Linked : \A n \in l : l # {n}
    /\ Askers \subseteq Node /\ Advertisers \subseteq Node
    /\ CallerId \cap Nat = {} /\ None \notin CallerId \union Path \union Nat
    /\ Budgets \subseteq Budget

VARIABLES
    conn,      \* conn[n]: the peers n holds an approved connection to
    up,        \* the links whose two ends still reach each other
    chan,
    caps,      \* caps[n]: n's capability registry
    remoteNodeInfo, \* remoteNodeInfo[n][p]: p's capabilities as n knows them
    autoRequested,  \* autoRequested[n][p]: autoRequestedCapabilities
    pendingExecutions, \* pendingExecutions[n]: entries, one for an id
    previewRequests,   \* previewRequests[n]: entries, one for a request
    timers,    \* timers[n]: the timers n has set and not cleared
    diff,      \* diff[n]: a running mesh_diff
    left       \* how often each bounded step may still be taken

\* History variables: the code never reads them.
VARIABLES
    log,       \* log[k]: the k-th execution entry stored, and how it ended
    shown,     \* shown[k]: the k-th preview asked for, and what its promise got
    asked,     \* asked[n][p]: the capabilities auto-requested since connecting
    stale      \* <<n, p>>: n's node_info of p is from an earlier connection

linkVars == <<conn, up, chan>>
infoVars == <<caps, remoteNodeInfo, autoRequested, asked, stale>>
execVars == <<pendingExecutions, log>>
previewVars == <<previewRequests, diff, shown>>
vars == <<linkVars, infoVars, execVars, previewVars, timers, left>>

------------------------------------------------------------------------------
(* Messages, entries and timers *)

NodeInfo(S) == [type |-> "node_info", caps |-> S]
\* `ask` names the request that the message is about; it is history.
Execute(id, k)  == [type |-> "capability_execute", id |-> id, ask |-> k]
Result(id, k)   == [type |-> "capability_execute_result", id |-> id, ask |-> k]
PreviewRequest(k, f) == [type |-> "file_preview_request", id |-> k, path |-> f]
PreviewResponse(k, f, d) ==
    [type |-> "file_preview_response", id |-> k, path |-> f, content |-> d]

Id == CallerId \union Nat
Entry == [id : Id, peer : Node, dir : {"incoming", "outgoing"}, no : Nat, ask : Nat]
Timer == [for : {"execution", "preview"}, id : Id, no : Nat]

Spend(k) == left[k] > 0 /\ left' = [left EXCEPT ![k] = @ - 1]

\* chan with ms sent by s to r: lost if the link is down.
Sent(ch, s, r, ms) == IF {s, r} \in up THEN [ch EXCEPT ![s][r] = @ \o ms] ELSE ch
Take(s, r) == [chan EXCEPT ![s][r] = Tail(@)]
Next_(s, r, type) == chan[s][r] # <<>> /\ Head(chan[s][r]).type = type

ExecutionTimer(e) == [for |-> "execution", id |-> e.id, no |-> e.no]
PreviewTimer(k) == [for |-> "preview", id |-> k, no |-> k]

WithId(n, id) == {e \in pendingExecutions[n] : e.id = id}
\* Mutant: the timer of a replaced entry is not cleared.
Store_KeepsTimer(n, E) ==
    LET old == {e \in pendingExecutions[n] : \E new \in E : new.id = e.id} IN
    /\ pendingExecutions' = [pendingExecutions EXCEPT ![n] = (@ \ old) \union E]
    /\ timers' = [timers EXCEPT ![n] = @ \union {ExecutionTimer(e) : e \in E}]

\* Mutant: the old timer is looked up by id after the new one has been set.
Store_ClearsNew(n, E) ==
    LET old == {e \in pendingExecutions[n] : \E new \in E : new.id = e.id} IN
    /\ pendingExecutions' = [pendingExecutions EXCEPT ![n] = (@ \ old) \union E]
    /\ timers' = [timers EXCEPT ![n] = {t \in @ \union {ExecutionTimer(e) : e \in E} :
           t.for = "preview" \/ t.id \notin {e.id : e \in old}}]

\* storePendingExecution for each of E; an entry with the same id gives way.
Store(n, E) ==
    LET old == {e \in pendingExecutions[n] : \E new \in E : new.id = e.id} IN
    /\ pendingExecutions' = [pendingExecutions EXCEPT ![n] = (@ \ old) \union E]
    /\ timers' = [timers EXCEPT ![n] =
           (@ \ {ExecutionTimer(e) : e \in old}) \union {ExecutionTimer(e) : e \in E}]

\* completePendingExecution(id), without an expected peer.
Complete(n, id, how, ask) ==
    LET ended == WithId(n, id) IN
    /\ pendingExecutions' = [pendingExecutions EXCEPT ![n] = @ \ ended]
    /\ timers' = [timers EXCEPT ![n] = @ \ {ExecutionTimer(e) : e \in ended}]
    /\ log' = [k \in DOMAIN log |->
           IF \E e \in ended : e.no = k
           THEN [log[k] EXCEPT !.ended = Append(@, [how |-> how, ask |-> ask])]
           ELSE log[k]]

Logged(n, e) == [node |-> n, peer |-> e.peer, dir |-> e.dir, id |-> e.id, ask |-> e.ask, ended |-> <<>>]
\* Mutant: the id and the peer are exchanged.
Outgoing_Swapped(id, p, k) == [id |-> p, peer |-> id, dir |-> "outgoing", no |-> k, ask |-> k]
Outgoing(id, p, k) == [id |-> id, peer |-> p, dir |-> "outgoing", no |-> k, ask |-> k]
Incoming(id, p, k, ask) == [id |-> id, peer |-> p, dir |-> "incoming", no |-> k, ask |-> ask]

------------------------------------------------------------------------------
(* Connections *)

\* exchangePeerState at both ends.
Connect(n, p) ==
    /\ {n, p} \in left.links /\ {n, p} \notin up
    /\ p \notin conn[n] /\ n \notin conn[p]
    /\ Spend("connect")
    /\ conn' = [conn EXCEPT ![n] = @ \union {p}, ![p] = @ \union {n}]
    /\ up' = up \union {{n, p}}
    /\ chan' = [chan EXCEPT ![n][p] = Append(@, NodeInfo(caps[n])),
                           ![p][n] = Append(@, NodeInfo(caps[p]))]
    /\ UNCHANGED <<infoVars, execVars, previewVars, timers>>

LinkDown(l) ==
    /\ l \in up /\ Spend("drop")
    /\ up' = up \ {l}
    /\ UNCHANGED <<conn, chan, infoVars, execVars, previewVars, timers>>

\* Mutant: the capabilities asked for are remembered for the next connection.
Forget_InfoOnly(n, p) ==
    /\ remoteNodeInfo' = [remoteNodeInfo EXCEPT ![n][p] = {}]
    /\ UNCHANGED autoRequested

\* clearPeerTransientState, as far as it concerns this module.
Forget(n, p) ==
    /\ remoteNodeInfo' = [remoteNodeInfo EXCEPT ![n][p] = {}]
    /\ autoRequested' = [autoRequested EXCEPT ![n][p] = {}]

\* The close event at n.  What n had received before is still in its queue,
\* for the handler at the head of it may await a file.
Notice(n, p) ==
    /\ p \in conn[n] /\ {n, p} \notin up
    /\ conn' = [conn EXCEPT ![n] = @ \ {p}]
    /\ \E k \in 0..Len(chan[p][n]) : chan' = [chan EXCEPT ![p][n] = SubSeq(@, 1, k)]
    /\ Forget(n, p)
    /\ asked' = [asked EXCEPT ![n][p] = <<>>]
    /\ stale' = stale \ {<<n, p>>}
    /\ UNCHANGED <<up, caps, execVars, previewVars, timers, left>>

------------------------------------------------------------------------------
(* Capabilities *)

\* mesh_advertise add and remove, and broadcastNodeInfo.
Advertise(n, S) ==
    /\ \E c \in Cap : S \in {caps[n] \union {c}, caps[n] \ {c}}
    /\ n \in Advertisers /\ Spend("advertise")
    /\ caps' = [caps EXCEPT ![n] = S]
    /\ chan' = [chan EXCEPT ![n] = [p \in Node |->
           IF p \in conn[n] /\ {n, p} \in up THEN Append(@[p], NodeInfo(S)) ELSE @[p]]]
    /\ UNCHANGED <<conn, up, remoteNodeInfo, autoRequested, asked, stale,
                   execVars, previewVars, timers>>

\* Mutant: only the peer's previous list is consulted.
ToAsk_SinceLast(n, p, S) == S \ remoteNodeInfo[n][p]

\* The capabilities that a node_info of p makes n ask for.
ToAsk(n, p, S) == (S \ remoteNodeInfo[n][p]) \ autoRequested[n][p]

\* Each new capability is asked for, if p is still connected.
HandleNodeInfo(n, p) ==
    LET S == Head(chan[p][n]).caps
        new == IF p \in conn[n] THEN SetToSeq(ToAsk(n, p, S)) ELSE <<>>
        no(i) == Len(log) + i
        E == [i \in DOMAIN new |-> Outgoing(no(i), p, no(i))] IN
    /\ Next_(p, n, "node_info")
    /\ remoteNodeInfo' = [remoteNodeInfo EXCEPT ![n][p] = S]
    /\ autoRequested' = [autoRequested EXCEPT ![n][p] = @ \union ToSet(new)]
    /\ asked' = [asked EXCEPT ![n][p] = @ \o new]
    /\ stale' = IF p \in conn[n] THEN stale ELSE stale \union {<<n, p>>}
    /\ Store(n, ToSet(E))
    /\ log' = log \o [i \in DOMAIN new |-> Logged(n, E[i])]
    /\ chan' = Sent(Take(p, n), n, p, [i \in DOMAIN new |-> Execute(no(i), no(i))])
    /\ UNCHANGED <<conn, up, caps, previewVars, left>>

\* mesh_capability_request; without an id of the user's, one is generated.
Ask(n, p, id) ==
    LET k == Len(log) + 1  e == Outgoing(IF id = None THEN k ELSE id, p, k) IN
    /\ n \in Askers /\ p \in conn[n] /\ Spend("ask")
    /\ Store(n, {e}) /\ log' = Append(log, Logged(n, e))
    /\ chan' = Sent(chan, n, p, <<Execute(e.id, k)>>)
    /\ UNCHANGED <<conn, up, infoVars, previewVars>>

HandleExecute(n, p) ==
    LET m == Head(chan[p][n])  e == Incoming(m.id, p, Len(log) + 1, m.ask) IN
    /\ Next_(p, n, "capability_execute")
    /\ Store(n, {e}) /\ log' = Append(log, Logged(n, e))
    /\ chan' = Take(p, n)
    /\ UNCHANGED <<conn, up, infoVars, previewVars, left>>

\* mesh_capability_respond: the answer goes out and the entry ends here.
Respond(n, e) ==
    /\ e \in pendingExecutions[n] /\ e.dir = "incoming" /\ e.peer \in conn[n]
    /\ chan' = Sent(chan, n, e.peer, <<Result(e.id, e.ask)>>)
    /\ Complete(n, e.id, "answered", e.ask)
    /\ UNCHANGED <<conn, up, infoVars, previewVars, left>>

\* Mutant: whoever the request went to.
Expected_Anyone(n, p, id) == WithId(n, id) # {}

\* completePendingExecution takes a result from the entry's peer only.
Expected(n, p, id) == \E e \in WithId(n, id) : e.peer = p

HandleResult(n, p) ==
    LET m == Head(chan[p][n]) IN
    /\ Next_(p, n, "capability_execute_result")
    /\ IF Expected(n, p, m.id) THEN Complete(n, m.id, "result", m.ask)
       ELSE UNCHANGED <<execVars, timers>>
    /\ chan' = Take(p, n)
    /\ UNCHANGED <<conn, up, infoVars, previewVars, left>>

\* The timer ends whichever entry has its id by then.
ExecutionTimeout(n, t) ==
    /\ t \in timers[n] /\ t.for = "execution"
    /\ IF WithId(n, t.id) = {}
       THEN timers' = [timers EXCEPT ![n] = @ \ {t}] /\ UNCHANGED execVars
       ELSE Complete(n, t.id, "timeout", 0)
    /\ UNCHANGED <<linkVars, infoVars, previewVars, left>>

------------------------------------------------------------------------------
(* mesh_diff and file previews *)

NoDiff == [peer |-> None, todo |-> {}, wait |-> 0]

\* The files that the two manifests list as different, at most 20.
StartDiff(n, p, S) ==
    /\ n \in Askers /\ diff[n] = NoDiff /\ p \in conn[n] /\ S # {}
    /\ Spend("diff")
    /\ diff' = [diff EXCEPT ![n] = [peer |-> p, todo |-> S, wait |-> 0]]
    /\ UNCHANGED <<linkVars, infoVars, execVars, previewRequests, shown, timers>>

\* requestFilePreview for the next file; null at once without a connection.
NextPreview(n, f) ==
    LET p == diff[n].peer
        k == Len(shown) + 1
        open == p \in conn[n] IN
    /\ f \in diff[n].todo /\ diff[n].wait = 0
    /\ diff' = [diff EXCEPT ![n] = [peer |-> p, todo |-> @.todo \ {f},
                                     wait |-> IF open THEN k ELSE 0]]
    /\ shown' = Append(shown, [node |-> n, peer |-> p, path |-> f,
                                got |-> IF open THEN <<>> ELSE <<None>>])
    /\ previewRequests' = [previewRequests EXCEPT ![n] = @ \union (IF open THEN {k} ELSE {})]
    /\ timers' = [timers EXCEPT ![n] = @ \union (IF open THEN {PreviewTimer(k)} ELSE {})]
    /\ chan' = IF open THEN Sent(chan, n, p, <<PreviewRequest(k, f)>>) ELSE chan
    /\ UNCHANGED <<conn, up, infoVars, execVars, left>>

EndDiff(n) ==
    /\ diff[n] # NoDiff /\ diff[n].todo = {} /\ diff[n].wait = 0
    /\ diff' = [diff EXCEPT ![n] = NoDiff]
    /\ UNCHANGED <<linkVars, infoVars, execVars, previewRequests, shown, timers, left>>

\* file_preview_request: d is the content, None where the file is not found.
HandlePreviewRequest(n, p, d) ==
    LET m == Head(chan[p][n]) IN
    /\ Next_(p, n, "file_preview_request")
    /\ d \in {None, <<n, m.path>>}
    /\ chan' = Sent(Take(p, n), n, p, <<PreviewResponse(m.id, m.path, d)>>)
    /\ UNCHANGED <<conn, up, infoVars, execVars, previewVars, timers, left>>

\* Mutant: the request is not deleted.
Resolve_KeepsEntry(n, K, d) ==
    /\ UNCHANGED previewRequests
    /\ timers' = [timers EXCEPT ![n] = @ \ {PreviewTimer(k) : k \in K}]
    /\ shown' = [k \in DOMAIN shown |->
           IF k \in K THEN [shown[k] EXCEPT !.got = Append(@, d)] ELSE shown[k]]
    /\ diff' = [diff EXCEPT ![n].wait = IF @ \in K THEN 0 ELSE @]

\* previewRequests of n without those of K, whose promises resolve to d: the
\* loop of mesh_diff goes on if it waits for one of them.
Resolve(n, K, d) ==
    /\ previewRequests' = [previewRequests EXCEPT ![n] = @ \ K]
    /\ timers' = [timers EXCEPT ![n] = @ \ {PreviewTimer(k) : k \in K}]
    /\ shown' = [k \in DOMAIN shown |->
           IF k \in K THEN [shown[k] EXCEPT !.got = Append(@, d)] ELSE shown[k]]
    /\ diff' = [diff EXCEPT ![n].wait = IF @ \in K THEN 0 ELSE @]

\* Mutant: an answer is taken for the request that is waiting.
Awaited_Any(n, m) == previewRequests[n]

\* The request that a response answers, if it is still waiting.
Awaited(n, m) == previewRequests[n] \intersect {m.id}

HandlePreviewResponse(n, p) ==
    LET m == Head(chan[p][n]) IN
    /\ Next_(p, n, "file_preview_response")
    /\ Resolve(n, Awaited(n, m), m.content)
    /\ chan' = Take(p, n)
    /\ UNCHANGED <<conn, up, infoVars, execVars, left>>

\* Mutant: the promise is left unresolved.
PreviewTimeout_Silent(n, t) ==
    /\ t \in timers[n] /\ t.for = "preview"
    /\ timers' = [timers EXCEPT ![n] = @ \ {t}]
    /\ previewRequests' = [previewRequests EXCEPT ![n] = @ \ {t.no}]
    /\ UNCHANGED <<linkVars, infoVars, execVars, diff, shown, left>>

PreviewTimeout(n, t) ==
    /\ t \in timers[n] /\ t.for = "preview"
    /\ Resolve(n, {t.no}, None)
    /\ UNCHANGED <<linkVars, infoVars, execVars, left>>

------------------------------------------------------------------------------
(* Stopping *)

\* transport.stop: the executions are forgotten and the previews resolve to
\* null.  A start in the same process keeps what n knew of its peers; a new
\* process has the capabilities of its configuration, here none.
Stop(n, exits) ==
    LET keep(f) == IF exits THEN [f EXCEPT ![n] = [p \in Node |-> {}]] ELSE f IN
    /\ Spend("stop")
    /\ up' = {l \in up : n \notin l}
    /\ conn' = [conn EXCEPT ![n] = {}]
    /\ chan' = IF exits THEN [s \in Node |-> [chan[s] EXCEPT ![n] = <<>>]] ELSE chan
    /\ pendingExecutions' = [pendingExecutions EXCEPT ![n] = {}]
    /\ remoteNodeInfo' = keep(remoteNodeInfo) /\ autoRequested' = keep(autoRequested)
    /\ asked' = [asked EXCEPT ![n] = [p \in Node |-> <<>>]]
    /\ stale' = {e \in stale : e[1] # n} \union
           (IF exits THEN {} ELSE {<<n, p>> : p \in Node})
    /\ previewRequests' = [previewRequests EXCEPT ![n] = {}]
    /\ timers' = [timers EXCEPT ![n] = {}]
    /\ shown' = [k \in DOMAIN shown |-> IF k \in previewRequests[n]
           THEN [shown[k] EXCEPT !.got = Append(@, None)] ELSE shown[k]]
    /\ diff' = [diff EXCEPT ![n] = IF exits THEN NoDiff ELSE [@ EXCEPT !.wait = 0]]
    /\ caps' = IF exits THEN [caps EXCEPT ![n] = {}] ELSE caps
    /\ UNCHANGED log

------------------------------------------------------------------------------
Init ==
    /\ conn = [n \in Node |-> {}] /\ up = {}
    /\ chan = [s \in Node |-> [r \in Node |-> <<>>]]
    /\ caps = [n \in Node |-> {}]
    /\ remoteNodeInfo = [n \in Node |-> [p \in Node |-> {}]]
    /\ autoRequested = [n \in Node |-> [p \in Node |-> {}]]
    /\ pendingExecutions = [n \in Node |-> {}]
    /\ previewRequests = [n \in Node |-> {}]
    /\ timers = [n \in Node |-> {}]
    /\ diff = [n \in Node |-> NoDiff]
    /\ left \in Budgets
    /\ log = <<>> /\ shown = <<>> /\ stale = {}
    /\ asked = [n \in Node |-> [p \in Node |-> <<>>]]

UserNext ==
    \/ \E n, p \in Node : Connect(n, p)
    \/ \E l \in up : LinkDown(l)
    \/ \E n \in Node, S \in SUBSET Cap : Advertise(n, S)
    \/ \E n, p \in Node, id \in CallerId \union {None} : Ask(n, p, id)
    \/ \E n \in Node : \E e \in pendingExecutions[n] : Respond(n, e)
    \/ \E n, p \in Node, S \in SUBSET Path : StartDiff(n, p, S)
    \/ \E n \in Node, exits \in BOOLEAN : Stop(n, exits)

\* What the event loops do by themselves.
Handle(n, p) ==
    \/ HandleNodeInfo(n, p)
    \/ HandleExecute(n, p)
    \/ HandleResult(n, p)
    \/ \E d \in {None} \union ({n} \X Path) : HandlePreviewRequest(n, p, d)
    \/ HandlePreviewResponse(n, p)
Fire(n) == \E t \in timers[n] : ExecutionTimeout(n, t) \/ PreviewTimeout(n, t)
Continue(n) == EndDiff(n) \/ \E f \in Path : NextPreview(n, f)

SystemNext ==
    \/ \E n, p \in Node : Notice(n, p) \/ Handle(n, p)
    \/ \E n \in Node : Fire(n) \/ Continue(n)

Next == UserNext \/ SystemNext

Spec == Init /\ [][Next]_vars

\* The event loops go on: queued messages are handled, timers fire, awaits end
\* and closed sockets are noticed.
FairSpec == Spec /\ WF_vars(SystemNext)

------------------------------------------------------------------------------
(* Properties *)

Message == [type : {"node_info"}, caps : SUBSET Cap]
    \union [type : {"capability_execute", "capability_execute_result"}, id : Id, ask : Nat]
    \union [type : {"file_preview_request"}, id : Nat, path : Path]
    \union [type : {"file_preview_response"}, id : Nat, path : Path,
            content : {None} \union (Node \X Path)]
Ending == [how : {"answered", "result", "timeout"}, ask : Nat]
LogEntry == [node : Node, peer : Node, dir : {"incoming", "outgoing"}, id : Id, ask : Nat,
             ended : Seq(Ending)]
Preview == [node : Node, peer : Node \union {None}, path : Path,
            got : Seq({None} \union (Node \X Path))]

\* Every variable keeps its type, and nobody is connected to himself.
TypeOK ==
    /\ conn \in [Node -> SUBSET Node] /\ (\A n \in Node : n \notin conn[n]) /\ up \subseteq Linked
    /\ chan \in [Node -> [Node -> Seq(Message)]]
    /\ caps \in [Node -> SUBSET Cap]
    /\ remoteNodeInfo \in [Node -> [Node -> SUBSET Cap]]
    /\ autoRequested \in [Node -> [Node -> SUBSET Cap]]
    /\ asked \in [Node -> [Node -> Seq(Cap)]]
    /\ stale \subseteq Node \X Node
    /\ pendingExecutions \in [Node -> SUBSET Entry] /\ log \in Seq(LogEntry)
    /\ previewRequests \in [Node -> SUBSET Nat] /\ shown \in Seq(Preview)
    /\ diff \in [Node -> [peer : Node \union {None}, todo : SUBSET Path, wait : Nat]]
    /\ timers \in [Node -> SUBSET Timer]
    /\ left \in Budget

\* Two requests under one id between the same two nodes.
Clash(j, k) ==
    /\ j # k /\ log[j].id = log[k].id
    /\ {log[j].node, log[j].peer} = {log[k].node, log[k].peer}
    /\ log[j].ask # log[k].ask
Unique(k) == \A j \in DOMAIN log : ~Clash(j, k)

\* The state of the tables: one entry for an id and one armed timer for each
\* entry, so that no timer outlives its request and ends a later one
\* (transport.ts:403-442, 372-401, 1949-1980).
TimerPerRequest ==
    \A n \in Node :
        /\ \A d, e \in pendingExecutions[n] : d.id = e.id => d = e
        /\ timers[n] = {ExecutionTimer(e) : e \in pendingExecutions[n]}
                       \union {PreviewTimer(k) : k \in previewRequests[n]}

\* A request ends at most once, whatever races: answer, timeout, a second
\* request under its id, the loss of the connection (transport.ts:372-401,
\* 1148-1190).
EndsOnce ==
    /\ \A k \in DOMAIN log : Len(log[k].ended) <= 1
    /\ \A k \in DOMAIN shown : Len(shown[k].got) <= 1

\* A result ends the outgoing request that it answers, never another one and
\* never a request that came in, as long as the two nodes have not used one id
\* twice between them (transport.ts:375, 1359-1373).
AnswerMatches ==
    \A k \in DOMAIN log : \A i \in DOMAIN log[k].ended :
        log[k].ended[i].how = "result" /\ Unique(k) =>
            log[k].dir = "outgoing" /\ log[k].ended[i].ask = k

\* A capability that a peer takes back and advertises again is not asked for
\* twice over one connection (transport.ts:741-752).
AskedOnce ==
    \A n, p \in Node : IsInjective(asked[n][p])

\* mesh_diff compares a file with the peer's content of that file or with
\* nothing, also when the answer for an earlier file comes late
\* (transport.ts:1148-1190, tools/diff.ts:202-215).
ComparedWithItself ==
    \A k \in DOMAIN shown : \A i \in DOMAIN shown[k].got :
        shown[k].got[i] \in {None, <<shown[k].peer, shown[k].path>>}

\* mesh_diff never waits for a preview that nobody can resolve any more: the
\* request it waits for is still in the table, with its timer, whatever answer,
\* timeout or stop came before (transport.ts:1148-1190, 1561-1595, 1949-1980).
AwaitedIsOpen ==
    \A n \in Node : diff[n].wait # 0 => diff[n].wait \in previewRequests[n]

\* What a connected peer advertises is asked for once its node_info has been
\* handled, unless what is known of it dates from an earlier connection
\* (transport.ts:741-752, 352-355).
AdvertisedIsAsked ==
    \A n, p \in Node :
        p \in conn[n] /\ {n, p} \in up /\ chan[p][n] = <<>> =>
            caps[p] \subseteq ToSet(asked[n][p]) \/ <<n, p>> \in stale

\* Every request that is waiting stops waiting, and mesh_diff comes to its end,
\* also if the peer goes away or answers late (transport.ts:419-427,
\* tools/diff.ts:199-218).
Waiting(k) == \E n \in Node : \E e \in pendingExecutions[n] : e.no = k
RequestEnds == \A k \in 1..3 : Waiting(k) ~> ~Waiting(k)
DiffEnds == \A n \in Askers : diff[n] # NoDiff ~> diff[n] = NoDiff
==============================================================================
