----------------------------- MODULE Notifications -----------------------------
(***************************************************************************)
(* How an event reaches the user (src/index.ts): enqueueEvent stores it    *)
(* and asks the urgent scheduler (urgent-notifications.ts) to wake the     *)
(* session; failing that, a digest of what is deliverable is injected into *)
(* the next turn of the session.  Agent events, tool calls and heartbeats  *)
(* set the session (mesh-session-target.ts) or start digests of their own. *)
(*                                                                         *)
(* The chat injection of the scheduler and the injection of a digest are   *)
(* awaited; anything may happen before they return, also their failure.    *)
(* OpenClaw's enqueueSystemEvent and requestHeartbeat return at once.      *)
(***************************************************************************)
EXTENDS EventStore, Sequences

CONSTANTS
    Urgent,      \* the keys of URGENT_MESH_EVENT_KINDS
    Session,     \* session keys
    Dashboard,   \* the sessions whose delivery context is the web chat
    None,
    Cooldown,    \* urgentNotifyCooldownMs, in ticks
    TTL,         \* notificationSessionTtlMs, in ticks
    MaxId,       \* bounds: the events a behaviour may hold, and
    Budgets      \* what it may start with (Budget)

\* How often each bounded step may be taken: a tick of the clock, an event, an
\* agent event, a call of mesh_ack, a restart of the gateway.
Budget == [tick : Nat, occur : 0..MaxId, agent : Nat, ack : Nat, restart : Nat]

ASSUME NotificationsAssumption ==
    /\ Urgent \subseteq Key /\ Dashboard \subseteq Session /\ None \notin Session
    /\ {Cooldown, TTL, MaxId} \subseteq Nat /\ Budgets \subseteq Budget

VARIABLES
    now,       \* the clock
    events,    \* the list of the event store, in memory and in events.json
    current,   \* currentSessionKey
    target,    \* active-session.json
    lastWakeAt,
    chats,     \* chat injections that schedule() awaits
    digests,   \* digest injections that tryInjectDigest awaits
    next,      \* the id of the next record
    left       \* how often each bounded step may still be taken

\* History variables: the code never reads them.
VARIABLES
    told,      \* the ids of the events that have been brought to a session
    woken      \* the wakes: when they were decided on, and if a chat was awaited

sessionVars == <<current, target>>
vars == <<now, events, sessionVars, lastWakeAt, chats, digests, next, left, told, woken>>

------------------------------------------------------------------------------
Spend(k) == left[k] > 0 /\ left' = [left EXCEPT ![k] = @ - 1]

\* sessionTargets.getCurrent and the session a notification goes to.
Persisted == IF target # None /\ now - target.at <= TTL THEN target.session ELSE None
Target == IF current # None THEN current ELSE Persisted

Cooling == lastWakeAt > 0 /\ now - lastWakeAt < Cooldown

\* A number for a new member of J.
Free(J) == CHOOSE i \in 1..(Cardinality(J) + 1) : \A j \in J : j.no # i

\* tryInjectDigest up to its await: E is the list as the step leaves it, s the
\* session, S what is to be told.
Digest(E, s, S, heartbeat) ==
    /\ events' = E
    /\ digests' = IF s = None \/ S = {} THEN digests
                  ELSE digests \union {[no |-> Free(digests), ids |-> Ids(S), heartbeat |-> heartbeat]}

\* Mutant: marked when the injection starts.
Remaining_Marked(E, s, now_) ==
    IF s = None THEN E
    ELSE MarkDelivered(PurgeExpired(E, now_), Ids(GetDeliverable(E, now_)), now_)

\* What a digest leaves of the list: without a session it is not even read.
Remaining(E, s, now_) == IF s = None THEN E ELSE PurgeExpired(E, now_)

DigestDeliverable(E, heartbeat) ==
    Digest(Remaining(E, Target, now), Target, GetDeliverable(E, now), heartbeat)

\* Mutant: only a chat injection starts the cooldown.
WakeOrDigest_NoCooldown(E, id, at, awaited, queued) ==
    IF queued
    THEN /\ woken' = Append(woken, [at |-> at, awaited |-> awaited])
         /\ events' = MarkDelivered(E, {id}, now)
         /\ told' = told \union {id}
         /\ UNCHANGED <<digests, lastWakeAt>>
    ELSE DigestDeliverable(E, FALSE) /\ UNCHANGED <<lastWakeAt, woken, told>>

\* The system event is queued and a heartbeat requested: the session is woken,
\* as decided at time at; or it is refused, and a digest is tried instead.
WakeOrDigest(E, id, at, awaited, queued) ==
    IF queued
    THEN /\ lastWakeAt' = at
         /\ woken' = Append(woken, [at |-> at, awaited |-> awaited])
         /\ events' = MarkDelivered(E, {id}, now)
         /\ told' = told \union {id}
         /\ UNCHANGED digests
    ELSE DigestDeliverable(E, FALSE) /\ UNCHANGED <<lastWakeAt, woken, told>>

------------------------------------------------------------------------------
(* Events *)

\* enqueueEvent: addEvent, and schedule() up to its first await.  The delivery
\* context of a dashboard session may not be known (chat = FALSE).
Occur(k, chat, queued) ==
    LET r == Added(events, k, now, next)
        E == AddEvent(events, k, now, next) IN
    /\ Spend("occur") /\ next' = next + 1
    /\ chat => Target \in Dashboard
    /\ IF k \in Urgent /\ Target # None /\ ~Cooling
       THEN IF chat
            THEN /\ chats' = chats \union {[no |-> Free(chats), id |-> r.id, at |-> now]}
                 /\ events' = E
                 /\ UNCHANGED <<lastWakeAt, digests, told, woken>>
            ELSE WakeOrDigest(E, r.id, now, FALSE, queued) /\ UNCHANGED chats
       ELSE DigestDeliverable(E, FALSE) /\ UNCHANGED <<lastWakeAt, chats, told, woken>>
    /\ UNCHANGED <<now, sessionVars>>

\* The chat injection returns; if it has failed, the system event is next.
ChatDone(c, injected, queued) ==
    /\ c \in chats
    /\ chats' = chats \ {c}
    /\ IF injected
       THEN /\ lastWakeAt' = c.at
            /\ woken' = Append(woken, [at |-> c.at, awaited |-> TRUE])
            /\ events' = MarkDelivered(events, {c.id}, now)
            /\ told' = told \union {c.id}
            /\ UNCHANGED digests
       ELSE WakeOrDigest(events, c.id, c.at, TRUE, queued)
    /\ UNCHANGED <<now, sessionVars, next, left>>

------------------------------------------------------------------------------
(* Sessions, digests and acknowledgements *)

\* currentSessionKey and sessionTargets.remember.
Remember(s) ==
    /\ current' = s /\ target' = [session |-> s, at |-> now]

\* An agent event of session s: a digest of all that is unacknowledged.
AgentEvent(s) ==
    /\ Spend("agent") /\ Remember(s)
    /\ Digest(PurgeExpired(events, now), s, GetUnacknowledged(events, now), FALSE)
    /\ UNCHANGED <<now, lastWakeAt, chats, next, told, woken>>

\* mesh_ack in session s, for one event or for all.
Ack(s, ids) ==
    /\ Spend("ack") /\ Remember(s)
    /\ events' = Acknowledge(events, ids, now)
    /\ UNCHANGED <<now, lastWakeAt, chats, digests, next, told, woken>>

\* heartbeat_prompt_contribution, which awaits its digest.
Heartbeat ==
    /\ ~\E d \in digests : d.heartbeat
    /\ DigestDeliverable(events, TRUE)
    /\ UNCHANGED <<now, sessionVars, lastWakeAt, chats, next, left, told, woken>>

DigestDone(d) ==
    /\ d \in digests
    /\ digests' = digests \ {d}
    /\ events' = MarkDelivered(events, d.ids, now)
    /\ told' = told \union d.ids
    /\ UNCHANGED <<now, sessionVars, lastWakeAt, chats, next, left, woken>>

DigestFails(d) ==
    /\ d \in digests
    /\ digests' = digests \ {d}
    /\ UNCHANGED <<now, events, sessionVars, lastWakeAt, chats, next, left, told, woken>>

Tick ==
    /\ Spend("tick") /\ now' = now + 1
    /\ UNCHANGED <<events, sessionVars, lastWakeAt, chats, digests, next, told, woken>>

\* A new process: only the two files remain.
Restart ==
    /\ Spend("restart")
    /\ events' = PurgeExpired(events, now)
    /\ current' = None /\ lastWakeAt' = 0 /\ chats' = {} /\ digests' = {} /\ woken' = <<>>
    /\ UNCHANGED <<now, target, next, told>>

------------------------------------------------------------------------------
Init ==
    /\ now = 1 /\ events = {}
    /\ current = None /\ target = None
    /\ lastWakeAt = 0 /\ chats = {} /\ digests = {}
    /\ next = 1 /\ left \in Budgets
    /\ told = {} /\ woken = <<>>

DigestEnds == \E d \in digests : DigestDone(d) \/ DigestFails(d)

Next ==
    \/ \E k \in Key, chat, queued \in BOOLEAN : Occur(k, chat, queued)
    \/ \E c \in chats, injected, queued \in BOOLEAN : ChatDone(c, injected, queued)
    \/ \E s \in Session : AgentEvent(s)
    \/ \E s \in Session, ids \in {Ids(events)} \union {{e.id} : e \in events} : Ack(s, ids)
    \/ Heartbeat \/ DigestEnds \/ Tick \/ Restart

Spec == Init /\ [][Next]_vars

\* OpenClaw goes on asking for heartbeats, and an injection that is tried again
\* and again is accepted in the end.
FairSpec == Spec /\ WF_vars(Heartbeat) /\ WF_vars(DigestEnds)
                 /\ SF_vars(\E d \in digests : DigestDone(d))

------------------------------------------------------------------------------
(* Properties *)

TypeOK ==
    /\ now \in Nat
    /\ events \subseteq Record /\ Cardinality(events) <= MaxEvents
    /\ \A d, e \in events : d.id = e.id => d = e
    /\ current \in Session \union {None}
    /\ target \in [session : Session, at : 1..now] \union {None}
    /\ lastWakeAt \in 0..now
    /\ chats \subseteq [no : Nat, id : 1..MaxId, at : 1..now]
    /\ digests \subseteq [no : Nat, ids : SUBSET (1..MaxId), heartbeat : BOOLEAN]
    /\ next \in 1..(MaxId + 1) /\ left \in Budget

\* An event is marked delivered only when an injection or a wake that names it
\* has succeeded, whatever fails, overlaps or restarts in between
\* (index.ts:239-305, events.ts:339-351).
DeliveredWasTold == \A e \in events : e.delivered => e.id \in told

\* An event that nobody has acknowledged is given up only when it expires, or
\* when the list is full of such events (events.ts:236-260).
UnreadSurvives ==
    [][\A e \in events : ~e.acked /\ e.id \notin Ids(events') =>
          \/ e.expires # 0 /\ e.expires <= now
          \/ /\ Cardinality(events') = MaxEvents /\ \A d \in events' : ~d.acked
             /\ \A d \in events' : d.id > e.id]_vars

\* A burst of equal events makes one record, also if it is acknowledged in the
\* middle (events.ts:267-297).
BurstIsOneRecord ==
    \A d, e \in events : d.id < e.id /\ d.key = e.key => e.at - d.at > Window

\* Two wakes of one process are a cooldown apart, unless a chat injection was
\* awaited in between (urgent-notifications.ts:293-297, 309-357).
WakesApart ==
    \A i, j \in DOMAIN woken :
        i < j /\ woken[j].at - woken[i].at < Cooldown => \E l \in i..j : woken[l].awaited

\* As long as there is a session, every event is brought to it, unless the user
\* acknowledges it first or it is given up (index.ts:239-305, 530-546).
EventTold ==
    <>[](Target # None) =>
        \A i \in 1..MaxId :
            i \in Ids(events) ~> i \in told \/ ~\E e \in events : e.id = i /\ ~e.acked
==============================================================================
