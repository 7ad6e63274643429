------------------------------ MODULE EventStore ------------------------------
(***************************************************************************)
(* The event store (src/src/events.ts): what its operations make of the    *)
(* list of records.  The list is a set here: ids are given in the order of *)
(* insertion.  Every operation that changes the list also writes it to     *)
(* events.json, so that a restart finds the list as it was.                *)
(*                                                                         *)
(* The order in which records are presented and the text made of them are  *)
(* left out, with priorityScore, which only serves these.                  *)
(***************************************************************************)
EXTENDS Integers, FiniteSets

CONSTANTS
    Key,        \* what eventKey tells apart: kind, peer, file and message
    Expiring,   \* the keys whose events are given an expiry (peer_pending)
    MaxEvents,  \* MAX_EVENTS
    Window,     \* DEDUPE_WINDOW_MS, in ticks of the clock, like
    Repeat,     \* REPEAT_SURFACE_MS, and
    Expiry      \* the lifetime of an event of Expiring

ASSUME EventStoreAssumption ==
    /\ Expiring \subseteq Key
    /\ MaxEvents \in Nat \ {0}
    /\ {Window, Repeat} \subseteq Nat /\ Expiry \in Nat \ {0}

\* `surfaced` is lastSurfacedAt, and 0 stands for absent.
Record == [id : Nat, key : Key, at : Nat, delivered : BOOLEAN, acked : BOOLEAN,
           surfaced : Nat, expires : Nat]

ExpiresAt(k, now) == IF k \in Expiring THEN now + Expiry ELSE 0

PurgeExpired(E, now) == {e \in E : e.expires = 0 \/ e.expires > now}

\* Mutant: the oldest record goes, whether it was acknowledged or not.
Victim_Oldest(E) == CHOOSE e \in E : \A d \in E : e.id <= d.id

\* What prune gives up: the first acknowledged record, else the first.
Victim(E) ==
    LET acked == {e \in E : e.acked}
        S == IF acked # {} THEN acked ELSE E IN
    CHOOSE e \in S : \A d \in S : e.id <= d.id

\* Mutant: one record too many is kept.
Prune_Slack(E) == IF Cardinality(E) > MaxEvents + 1 THEN E \ {Victim(E)} ELSE E

\* addEvent keeps the list at MAX_EVENTS: there is never more than one too many.
Prune(E) == IF Cardinality(E) > MaxEvents THEN E \ {Victim(E)} ELSE E

\* Mutant: an acknowledged record is not taken up again.
Repeated_Unread(E, k, now) ==
    {e \in E : e.key = k /\ now - e.at <= Window /\ ~e.acked}

\* The records of k that are recent enough to count the new event in.
Repeated(E, k, now) == {e \in E : e.key = k /\ now - e.at <= Window}
Latest(S) == CHOOSE e \in S : \A d \in S : d.id <= e.id

New(k, now, id) ==
    [id |-> id, key |-> k, at |-> now, delivered |-> FALSE, acked |-> FALSE,
     surfaced |-> 0, expires |-> ExpiresAt(k, now)]
Again(e, now) == [e EXCEPT !.at = now, !.acked = FALSE, !.expires = ExpiresAt(e.key, now)]

\* addEvent: the record it returns, and the list it leaves.
Added(E, k, now, id) ==
    LET old == Repeated(PurgeExpired(E, now), k, now) IN
    IF old = {} THEN New(k, now, id) ELSE Again(Latest(old), now)
AddEvent(E, k, now, id) ==
    LET kept == PurgeExpired(E, now)
        old == Repeated(kept, k, now)
        r == Added(E, k, now, id) IN
    IF old = {} THEN Prune(kept \union {r}) ELSE (kept \ {Latest(old)}) \union {r}

Acknowledge(E, ids, now) ==
    {IF e.id \in ids THEN [e EXCEPT !.acked = TRUE] ELSE e : e \in PurgeExpired(E, now)}

MarkDelivered(E, ids, now) ==
    {IF e.id \in ids THEN [e EXCEPT !.delivered = TRUE, !.surfaced = now] ELSE e : e \in E}

GetUnacknowledged(E, now) == {e \in PurgeExpired(E, now) : ~e.acked}
GetDeliverable(E, now) ==
    {e \in GetUnacknowledged(E, now) : ~e.delivered \/ e.surfaced + Repeat <= now}

Ids(E) == {e.id : e \in E}
==============================================================================
